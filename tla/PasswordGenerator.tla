-------------------------- MODULE PasswordGenerator --------------------------
(***************************************************************************)
(* passman-policy: the policy of an entry over the vault's default         *)
(* (policy.rs), the characters it leaves (charset.rs), the generation of a *)
(* password from random words (generate.rs) and the advice about a         *)
(* password that was typed (validate.rs).                                  *)
(*                                                                         *)
(* An unset field of a policy is <<>>, a set one a sequence of its value.  *)
(* Words are 0 .. MaxWord where the code's are 0 .. u32::MAX.  The symbols *)
(* of a charset are punctuation, as those of every shell are, or letters   *)
(* and digits as well, which SymbolSet::Custom allows.                     *)
(***************************************************************************)
EXTENDS Naturals, SequencesExt

CONSTANTS
    Lowercase, Uppercase, Numerals,    \* the characters of a class, in order
    SymbolSets,    \* the sets of symbols to choose from, each in its order
    MinLength, MaxLength,
    DefaultRequest,    \* GenerationRequest::default_vault
    Policies,    \* the policies of entries
    MaxWord

ASSUME GeneratorAssumption ==
    /\ {MinLength, MaxLength, MaxWord} \subseteq Nat /\ MinLength =< MaxLength
    /\ \A s \in {Lowercase, Uppercase, Numerals} \cup SymbolSets : s \in Seq(ToSet(s))
    /\ IsInjective(Lowercase \o Uppercase \o Numerals)
    /\ \A s \in SymbolSets : IsInjective(s)

-----------------------------------------------------------------------------
(* Charsets [enabled, symbols, disallow]; enabled holds the classes that are *)
(* letters or digits.                                                        *)

Classes == {"lowercase", "uppercase", "digits", "symbols"}

\* The four classes are always gone through in this order.
InOrder(part) ==
    part["lowercase"] \o part["uppercase"] \o part["digits"] \o part["symbols"]

\* LOWERCASE, UPPERCASE, DIGITS, and SymbolSet::chars
ClassChars(charset, class) ==
    CASE class = "lowercase" -> Lowercase
      [] class = "uppercase" -> Uppercase
      [] class = "digits" -> Numerals
      [] class = "symbols" -> charset.symbols

\* filter_class
Without(seq, dropped) ==
    LET kept[i \in 0 .. Len(seq)] ==
            IF i = 0 THEN <<>>
            ELSE IF seq[i] \in dropped THEN kept[i - 1] ELSE Append(kept[i - 1], seq[i])
    IN  kept[Len(seq)]

\* effective_lowercase .. effective_symbols
Effective(charset, class) ==
    IF class # "symbols" /\ class \notin charset.enabled THEN <<>>
    ELSE Without(ClassChars(charset, class), charset.disallow)

\* The characters of a sequence, each where it is seen first
Distinct(seq) ==
    LET kept[i \in 0 .. Len(seq)] ==
            IF i = 0 THEN <<>>
            ELSE IF seq[i] \in ToSet(kept[i - 1]) THEN kept[i - 1] ELSE Append(kept[i - 1], seq[i])
    IN  kept[Len(seq)]

\* All classes in a row, what a Custom set repeats of them included; as the effective set,
\* the mutant that draws such a character twice as often.
AllClasses(charset) == InOrder([class \in Classes |-> Effective(charset, class)])

\* effective_set
EffectiveSet(charset) == Distinct(AllClasses(charset))

\* RequiredClasses::total
Total(required) ==
    required["lowercase"] + required["uppercase"] + required["digits"] + required["symbols"]

\* EntryPolicy::resolve_over
ResolveOver(policy, default) ==
    [field \in DOMAIN default |->
        IF policy[field] = <<>> THEN default[field] ELSE policy[field][1]]

\* GenerationRequest: the minimums are counts, and the symbols one of the sets.
IsRequest(req) ==
    /\ req.length \in Nat
    /\ req.required \in [Classes -> Nat]
    /\ req.charset.symbols \in SymbolSets

ASSUME PolicyAssumption ==
    \A policy \in Policies : IsRequest(ResolveOver(policy, DefaultRequest))

-----------------------------------------------------------------------------
VARIABLES
    phase,      \* "idle", "refused", "drawing", "shuffling" or "done"
    request,    \* the resolved request
    buf,        \* the characters so far
    index       \* i of shuffle, which counts down to the second place

generateVars == <<phase, request, buf, index>>

GenerateInit == phase = "idle" /\ request = DefaultRequest /\ buf = <<>> /\ index = 0

\* The checks of generate that precede its first draw
Generable(req) ==
    /\ req.length \in MinLength .. MaxLength
    /\ Len(EffectiveSet(req.charset)) >= 2
    /\ Total(req.required) =< req.length
    /\ \A class \in Classes :
           req.required[class] > 0 => Effective(req.charset, class) # <<>>

Ask ==
    \E policy \in Policies :
        LET req == ResolveOver(policy, DefaultRequest) IN
        /\ phase = "idle"
        /\ phase' = IF Generable(req) THEN "drawing" ELSE "refused"
        /\ request' = req
        /\ UNCHANGED <<buf, index>>

\* Mutant: the minimums are left to chance.
AnyCharacter == EffectiveSet(request.charset)

\* The classes of the first draws: each one as often as its minimum
Owed(required) == InOrder([class \in Classes |-> [n \in 1 .. required[class] |-> class]])

\* The pool of the next draw: what is owed to each class, then all of them
Pool ==
    LET owed == Owed(request.required)
    IN  IF Len(buf) < Len(owed) THEN Effective(request.charset, owed[Len(buf) + 1])
        ELSE EffectiveSet(request.charset)

\* Mutant: every word is accepted.
WholeRange(n) == MaxWord + 1

\* zone of uniform_from and shuffle: words from here on are drawn again.
Zone(n) == MaxWord - (MaxWord % n)

\* uniform_from
Draw ==
    \E r \in 0 .. MaxWord :
        /\ phase = "drawing" /\ Len(buf) < request.length
        /\ r < Zone(Len(Pool))
        /\ buf' = Append(buf, Pool[(r % Len(Pool)) + 1])
        /\ UNCHANGED <<phase, request, index>>

\* shuffle, whose places count from 0 in the code
StartShuffle ==
    /\ phase = "drawing" /\ Len(buf) = request.length
    /\ phase' = "shuffling" /\ index' = Len(buf)
    /\ UNCHANGED <<request, buf>>

Exchanged(seq, i, j) == [seq EXCEPT ![i] = seq[j], ![j] = seq[i]]

Swap ==
    \E r \in 0 .. MaxWord :
        /\ phase = "shuffling" /\ index >= 2
        /\ r < Zone(index)
        /\ buf' = Exchanged(buf, index, (r % index) + 1)
        /\ index' = index - 1
        /\ UNCHANGED <<phase, request>>

Finish ==
    /\ phase = "shuffling" /\ index < 2
    /\ phase' = "done"
    /\ UNCHANGED <<request, buf, index>>

GenerateNext == Ask \/ Draw \/ StartShuffle \/ Swap \/ Finish

GenerateSpec == GenerateInit /\ [][GenerateNext]_generateVars

-----------------------------------------------------------------------------
(* validate counts by what a character is, whatever the policy's charset.  *)

ClassOf(c) ==
    CASE c \in ToSet(Lowercase) -> "lowercase"
      [] c \in ToSet(Uppercase) -> "uppercase"
      [] c \in ToSet(Numerals) -> "digits"
      [] OTHER -> "symbols"

Places(password, class) == {i \in DOMAIN password : ClassOf(password[i]) = class}

Valid(password, req) ==
    /\ Len(password) \in MinLength .. MaxLength
    /\ ToSet(password) \subseteq ToSet(EffectiveSet(req.charset))
    /\ \A class \in Classes : Cardinality(Places(password, class)) >= req.required[class]

\* No letter or digit is among the symbols, as in every shell: one would be drawn for
\* the minimum of the symbols and counted as a letter or digit by validate.
OnlySymbols(charset) ==
    ToSet(charset.symbols) \cap ToSet(Lowercase \o Uppercase \o Numerals) = {}

\* A generated password has the length that was asked for and only characters of its
\* policy; unless a letter is among the symbols, it also passes the validation of that
\* policy, and generate refuses only a request that no password of that length
\* satisfies, or one that leaves no choice.
GeneratedAsAsked ==
    /\ phase = "done" =>
           /\ Len(buf) = request.length /\ ToSet(buf) \subseteq ToSet(EffectiveSet(request.charset))
           /\ OnlySymbols(request.charset) => Valid(buf, request)
    /\ phase = "refused" /\ OnlySymbols(request.charset) =>
           \/ Len(EffectiveSet(request.charset)) < 2
           \/ request.length \notin MinLength .. MaxLength
           \/ ~ \E password \in [1 .. request.length -> ToSet(EffectiveSet(request.charset))] :
                  Valid(password, request)

\* Equally many words give each choice of a draw.
Fair(n) ==
    \A a, b \in 0 .. n - 1 :
        Cardinality({r \in 0 .. MaxWord : r < Zone(n) /\ r % n = a})
            = Cardinality({r \in 0 .. MaxWord : r < Zone(n) /\ r % n = b})

\* The orders that one swap of the shuffle may give
Orders(n) == {Exchanged([i \in 1 .. n |-> i], n, j) : j \in 1 .. n}

\* A draw has a pool and favours no character of it, not even one that is in two classes,
\* and the shuffle no order: each swap is as likely as another, and different swaps give
\* different orders.
DrawsUniform ==
    /\ phase = "drawing" /\ Len(buf) < request.length =>
           Pool # <<>> /\ IsInjective(Pool) /\ Fair(Len(Pool))
    /\ phase = "shuffling" /\ index >= 2 =>
           Fair(index) /\ Cardinality(Orders(index)) = index
=============================================================================
