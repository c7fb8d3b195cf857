---------------------------- MODULE MCAlgorithms ----------------------------
(* The file formats, the password generator and the TOTP codes share no state: *)
(* a behaviour is one of them while the others have not begun.                 *)
EXTENDS FileFormats, PasswordGenerator, TotpCodes

Entries == << <<1, 3, <<<<4>>, <<>>, <<2>>, <<>>>>>>, <<2, 3, <<<<>>, <<6>>, <<>>, <<>>>>>> >>

Blob1 == <<<<3>>, <<>>>>
TooLong == <<[i \in 1 .. Max16 + 1 |-> 1], <<>>>>

Vault(v, b, e, list) ==
    [version |-> v, kdfId |-> 0, kdf |-> <<8, 1, 1>>, salt |-> 4, blobs |-> b,
     lockout |-> <<1, 6, 5>>, exported |-> e, entries |-> list]

MCVaults ==
    {Vault(1, Blob1, <<9>>, Entries), Vault(2, Blob1, <<>>, Entries),
     Vault(2, Blob1, <<9>>, SubSeq(Entries, 1, 1)), Vault(2, Blob1, <<>>, <<>>),
     Vault(2, TooLong, <<>>, <<>>)}

MCRecoveries ==
    [kdf : [1 .. 3 -> {1, 2, 8, 10}], salt : {4}, seed : {3}, vaultKdf : {<<8, 1, 1>>},
     entries : {<<>>, << <<2, <<<<3>>, <<>>, <<5>>, <<>>, <<>>, <<1>>>>>> >>},
     free : {0, 5, 10, 15}]

Bodies == {<<>>, <<1>>, <<0, 2>>, [i \in 1 .. Max16 - 1 |-> i]}

MCBlobs ==
    [kind : {Android}, parts : {<<a, 3, c>> : a \in Bodies, c \in Bodies \ {<<>>}}]
        \cup [kind : {Tpm}, parts : {<<3, a, c>> : a \in Bodies, c \in Bodies}]
        \cup [kind : {255}, parts : Bodies]

MCLowercase == <<"a", "b">>
MCUppercase == <<"A">>
MCNumerals == <<"0">>
\* SymbolSet::None, Basic, Full, and a Custom one that repeats a letter
MCSymbolSets == {<<>>, <<"!">>, <<"!", "~">>, <<"!", "a">>}

Needs(l, u, d, s) == [lowercase |-> l, uppercase |-> u, digits |-> d, symbols |-> s]
Letters == {"lowercase", "uppercase", "digits"}

MCDefault ==
    [length |-> 4, required |-> Needs(1, 1, 1, 1),
     charset |-> [enabled |-> Letters, symbols |-> <<"!", "~">>, disallow |-> {}]]

Optional(S) == {<<>>} \cup {<<x>> : x \in S}

MCPolicies ==
    [length : Optional({1, 2, 3, 5}),
     required : Optional({Needs(0, 0, 0, 0), Needs(2, 0, 1, 0), Needs(0, 0, 0, 1), Needs(0, 1, 3, 0)}),
     charset : Optional([enabled : SUBSET Letters, symbols : MCSymbolSets,
                         disallow : {{}, {"a", "!"}, {"b", "A", "0"}}])]

-----------------------------------------------------------------------------
Init == FileInit /\ GenerateInit /\ CodeInit

Next ==
    \/ phase = "idle" /\ hmac = <<>> /\ FileNext /\ UNCHANGED <<generateVars, codeVars>>
    \/ format = "none" /\ hmac = <<>> /\ GenerateNext /\ UNCHANGED <<fileVars, codeVars>>
    \/ format = "none" /\ phase = "idle" /\ CodeNext /\ UNCHANGED <<fileVars, generateVars>>

Spec == Init /\ [][Next]_<<fileVars, generateVars, codeVars>>
=============================================================================
