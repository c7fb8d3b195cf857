-------------------------- MODULE Algorithms_proofs --------------------------
(***************************************************************************)
(* Proofs about the password generator and the TOTP codes: no modulo bias  *)
(* in a draw or a shuffle, passwords that meet their own policy, requests  *)
(* refused only when nothing meets them, and the acceptance of a fresh     *)
(* code among colliding ones.  Both are proved for alphabets, policies,    *)
(* word widths, bases and HMACs of every size.                             *)
(***************************************************************************)
EXTENDS PasswordGenerator, TotpCodes, FiniteSetTheorems, TLAPS

-----------------------------------------------------------------------------
(* Arithmetic *)

\* Division by a positive number leaves a smaller rest.
LEMMA Divided ==
    ASSUME NEW n \in Nat \ {0}, NEW r \in Nat
    PROVE  r = n * (r \div n) + (r % n) /\ r % n \in 0 .. n - 1 /\ r \div n \in Nat
  OBVIOUS

\* The rest of a multiple and something smaller than the divisor is the latter.
LEMMA RestOfSum ==
    ASSUME NEW n \in Nat \ {0}, NEW q \in Nat, NEW b \in 0 .. n - 1
    PROVE  n * q + b \in Nat /\ (n * q + b) % n = b
  OBVIOUS

\* Below a multiple of the divisor, each whole block counts.
LEMMA BlockBelow ==
    ASSUME NEW n \in Nat \ {0}, NEW q \in Nat, NEW k \in Nat,
           NEW a \in 0 .. n - 1, NEW b \in 0 .. n - 1, n * q + a < n * k
    PROVE  n * q + b < n * k
  OBVIOUS

\* A set of numbers that is not empty has a least one.
LEMMA Least ==
    ASSUME NEW T, T \subseteq Nat, T # {}
    PROVE  \E x \in T : \A y \in T : x =< y
<1>1. PICK R : R = {ss \in Nat \X Nat : ss[1] < ss[2]}
  OBVIOUS
<1>2. IsWellFoundedOn(R, Nat)
  BY <1>1, NatLessThanWellFounded DEF OpToRel
<1>3. PICK x \in T : \A y \in T : <<y, x>> \notin R
  BY <1>2, WFMin
<1>4. ASSUME NEW y \in T, y < x PROVE FALSE
  <2>1. PICK p : p = <<y, x>>
    OBVIOUS
  <2>2. p \in Nat \X Nat /\ p[1] = y /\ p[2] = x
    BY <2>1
  <2>3. p \in R
    BY <1>1, <1>4, <2>2
  <2>4. QED
    BY <1>3, <2>1, <2>3
<1>5. QED
  BY <1>4

\* A bounded one has a greatest one.
LEMMA Greatest ==
    ASSUME NEW n \in Nat, NEW T, T \subseteq 0 .. n, T # {}
    PROVE  \E x \in T : \A y \in T : y =< x
<1>1. PICK U : U = {n - x : x \in T}
  OBVIOUS
<1>2. U \subseteq Nat /\ U # {}
  <2>1. \A x \in T : n - x \in Nat
    OBVIOUS
  <2>2. QED
    BY <1>1, <2>1
<1>3. PICK u \in U : \A v \in U : u =< v
  BY <1>2, Least
<1>4. PICK x \in T : u = n - x
  BY <1>1, <1>3
<1>5. ASSUME NEW y \in T PROVE y =< x
  <2>1. u =< n - y
    BY <1>1, <1>3, <1>5
  <2>2. x \in 0 .. n /\ y \in 0 .. n
    OBVIOUS
  <2>3. QED
    BY <1>4, <2>1, <2>2
<1>6. QED
  BY <1>5

\* Quotient and rest are unique.
LEMMA SplitOnce ==
    ASSUME NEW n \in Nat \ {0}, NEW q \in Nat, NEW p \in Nat,
           NEW a \in 0 .. n - 1, NEW b \in 0 .. n - 1, n * q + a = n * p + b
    PROVE  q = p /\ a = b
  OBVIOUS

LEMMA QuotientOf ==
    ASSUME NEW n \in Nat \ {0}, NEW q \in Nat, NEW a \in 0 .. n - 1
    PROVE  (n * q + a) \div n = q
  OBVIOUS

\* Dividing twice is dividing by the product.
LEMMA DividedTwice ==
    ASSUME NEW v \in Nat, NEW m \in Nat \ {0}, NEW n \in Nat \ {0}
    PROVE  v \div (m * n) = (v \div n) \div m
<1>1. PICK q \in Nat, r \in 0 .. n - 1 : v = n * q + r /\ q = v \div n
  BY Divided
<1>2. PICK p \in Nat, t \in 0 .. m - 1 : q = m * p + t /\ p = q \div m
  BY <1>1, Divided
<1>3. m * n \in Nat \ {0} /\ n * t + r \in 0 .. m * n - 1
  <2>1. n * t =< n * (m - 1)
    OBVIOUS
  <2>2. n * (m - 1) = m * n - n
    OBVIOUS
  <2>3. n * t \in Nat /\ m * n \in Nat \ {0}
    OBVIOUS
  <2>4. QED
    BY <2>1, <2>2, <2>3
<1>4. v = (m * n) * p + (n * t + r)
  <2>1. n * (m * p + t) = (m * n) * p + n * t
    OBVIOUS
  <2>2. n * q = (m * n) * p + n * t
    BY <1>2, <2>1
  <2>3. (m * n) * p \in Nat /\ n * t \in Nat /\ n * q \in Nat
    OBVIOUS
  <2>4. QED
    BY <1>1, <2>2, <2>3
<1>5. PICK w, e : w = m * n /\ e = n * t + r
  OBVIOUS
<1>6. v \div w = p
  <2>1. w \in Nat \ {0} /\ e \in 0 .. w - 1 /\ v = w * p + e
    BY <1>3, <1>4, <1>5
  <2>2. QED
    BY <2>1, QuotientOf
<1>7. QED
  BY <1>1, <1>2, <1>5, <1>6

\* Induction up to a bound, over a set of numbers.
LEMMA UpTo ==
    ASSUME NEW m \in Nat, NEW S, 0 \in S, \A i \in 1 .. m : i - 1 \in S => i \in S
    PROVE  0 .. m \subseteq S
<1> SUFFICES ASSUME ~ 0 .. m \subseteq S PROVE FALSE
  OBVIOUS
<1>1. PICK T : T = {i \in 0 .. m : i \notin S}
  OBVIOUS
<1>2. T \subseteq Nat /\ T # {}
  BY <1>1
<1>3. PICK x \in T : \A y \in T : x =< y
  BY <1>2, Least
<1>4. x \in 1 .. m /\ x - 1 \notin T /\ x - 1 \in 0 .. m
  BY <1>1, <1>3
<1>5. QED
  BY <1>1, <1>4

\* f holds the results of the steps 1 .. m from c on.
Repeats(f, m, T, c, step) ==
    f \in [0 .. m -> T] /\ f[0] = c /\ \A i \in 1 .. m : f[i] = step[<<i, f[i - 1]>>]

\* The steps that stay in a set
StepsIn(m, T) == [(1 .. m) \X T -> T]

\* Such a step can be repeated.
LEMMA Repeated ==
    ASSUME NEW m \in Nat, NEW T, NEW c \in T, NEW step \in StepsIn(m, T)
    PROVE  \E f : Repeats(f, m, T, c, step)
<1> DEFINE Q(n, f) == f[0] = c /\ \A i \in 1 .. n : f[i] = step[<<i, f[i - 1]>>]
<1>1. PICK S : S = {n \in 0 .. m : \E f \in [0 .. n -> T] : Q(n, f)}
  OBVIOUS
<1>2. 0 \in S
  <2>1. [i \in 0 .. 0 |-> c] \in [0 .. 0 -> T] /\ Q(0, [i \in 0 .. 0 |-> c])
    OBVIOUS
  <2>2. 0 \in 0 .. m
    OBVIOUS
  <2>3. QED
    BY <1>1, <2>1, <2>2
<1>3. ASSUME NEW n \in 1 .. m, n - 1 \in S PROVE n \in S
  <2>1. PICK f \in [0 .. n - 1 -> T] : Q(n - 1, f)
    BY <1>1, <1>3
  <2>2. n - 1 \in 0 .. n - 1 /\ f[n - 1] \in T
    OBVIOUS
  <2>3. PICK t \in T : t = step[<<n, f[n - 1]>>]
    BY <2>2 DEF StepsIn
  <2>4. PICK g : g = [i \in 0 .. n |-> IF i = n THEN t ELSE f[i]]
    OBVIOUS
  <2>5. g \in [0 .. n -> T]
    BY <2>4
  <2>6. \A i \in 0 .. n - 1 : g[i] = f[i]
    BY <2>4
  <2>7. g[n] = step[<<n, g[n - 1]>>]
    <3>1. n \in 0 .. n /\ n - 1 \in 0 .. n - 1
      OBVIOUS
    <3>2. g[n] = t
      BY <2>4, <3>1
    <3>3. g[n - 1] = f[n - 1]
      BY <2>6, <3>1
    <3>4. QED
      BY <2>3, <3>2, <3>3
  <2>8. g[0] = c
    BY <2>1, <2>6
  <2>9. ASSUME NEW i \in 1 .. n PROVE g[i] = step[<<i, g[i - 1]>>]
    <3>1. CASE i = n
      BY <2>7, <3>1
    <3>2. CASE i # n
      <4>1. i \in 1 .. n - 1 /\ i \in 0 .. n - 1 /\ i - 1 \in 0 .. n - 1
        BY <3>2
      <4>2. f[i] = step[<<i, f[i - 1]>>]
        BY <2>1, <4>1
      <4>3. QED
        BY <2>6, <4>1, <4>2
    <3>3. QED
      BY <3>1, <3>2
  <2>10. n \in 0 .. m
    OBVIOUS
  <2>11. Q(n, g)
    BY <2>8, <2>9
  <2>12. QED
    <3> HIDE DEF Q
    <3>1. QED
      BY <1>1, <2>5, <2>10, <2>11
<1>4. m \in S
  <2>1. 0 .. m \subseteq S
    BY <1>2, <1>3, UpTo
  <2>2. QED
    BY <2>1
<1>5. QED
  BY <1>1, <1>4 DEF Repeats

-----------------------------------------------------------------------------
(* Classes of characters *)

\* One more character, unlike those before
LEMMA AppendNew ==
    ASSUME NEW S, NEW s \in Seq(S), NEW x \in S, IsInjective(s), x \notin ToSet(s)
    PROVE  IsInjective(Append(s, x)) /\ ToSet(Append(s, x)) = ToSet(s) \cup {x}
<1>1. PICK t \in Seq(S) : t = Append(s, x)
  <2>1. Append(s, x) \in Seq(S)
    OBVIOUS
  <2>2. QED
    BY <2>1
<1>2. /\ Len(s) \in Nat /\ DOMAIN s = 1 .. Len(s) /\ DOMAIN t = 1 .. Len(s) + 1
      /\ \A i \in 1 .. Len(s) : t[i] = s[i]
      /\ t[Len(s) + 1] = x
  BY <1>1
<1>3. \A i \in 1 .. Len(s) : t[i] \in ToSet(s) /\ t[i] # x
  BY <1>2 DEF ToSet
<1>4. \A i, j \in 1 .. Len(s) : t[i] = t[j] => i = j
  BY <1>2 DEF IsInjective
<1>5. \A i, j \in 1 .. Len(s) + 1 : t[i] = t[j] => i = j
  BY <1>2, <1>3, <1>4
<1>6. ToSet(t) = ToSet(s) \cup {x}
  <2>1. \A c : c \in ToSet(t) <=> \E i \in 1 .. Len(s) + 1 : t[i] = c
    BY <1>2 DEF ToSet
  <2>2. \A c : c \in ToSet(s) <=> \E i \in 1 .. Len(s) : t[i] = c
    BY <1>2 DEF ToSet
  <2>3. \A i \in 1 .. Len(s) + 1 : i \in 1 .. Len(s) \/ i = Len(s) + 1
    BY <1>2
  <2>4. 1 .. Len(s) \subseteq 1 .. Len(s) + 1 /\ Len(s) + 1 \in 1 .. Len(s) + 1
    BY <1>2
  <2>5. QED
    BY <1>2, <2>1, <2>2, <2>3, <2>4
<1>7. QED
  BY <1>1, <1>2, <1>5, <1>6 DEF IsInjective

\* Filtering leaves a sequence of the characters there were, of different ones if they
\* were (filter_class).
LEMMA WithoutSeq ==
    ASSUME NEW S, NEW seq \in Seq(S), NEW dropped
    PROVE  /\ Without(seq, dropped) \in Seq(S)
           /\ IsInjective(seq) => IsInjective(Without(seq, dropped))
<1> DEFINE Kept(f) == [i \in 0 .. Len(seq) |->
              IF i = 0 THEN <<>>
              ELSE IF seq[i] \in dropped THEN f[i - 1] ELSE Append(f[i - 1], seq[i])]
<1>1. PICK m \in Nat : m = Len(seq)
  OBVIOUS
<1>2. \A i \in 1 .. m : seq[i] \in S
  BY <1>1
<1>3. PICK step : step = [p \in (1 .. m) \X Seq(S) |->
                            IF seq[p[1]] \in dropped THEN p[2] ELSE Append(p[2], seq[p[1]])]
  OBVIOUS
<1>4. step \in [(1 .. m) \X Seq(S) -> Seq(S)]
  <2>1. ASSUME NEW p \in (1 .. m) \X Seq(S)
        PROVE  (IF seq[p[1]] \in dropped THEN p[2] ELSE Append(p[2], seq[p[1]])) \in Seq(S)
    <3>1. p[1] \in 1 .. m /\ p[2] \in Seq(S) /\ seq[p[1]] \in S
      BY <1>2
    <3>2. QED
      BY <3>1
  <2>2. QED
    BY <1>3, <2>1
<1>5. PICK f \in [0 .. m -> Seq(S)] :
         f[0] = <<>> /\ \A i \in 1 .. m : f[i] = step[<<i, f[i - 1]>>]
  <2>1. PICK T : T = Seq(S)
    OBVIOUS
  <2>2. PICK c \in T : c = <<>>
    <3>1. <<>> \in Seq(S)
      OBVIOUS
    <3>2. QED
      BY <2>1, <3>1
  <2>3. step \in StepsIn(m, T)
    BY <1>4, <2>1 DEF StepsIn
  <2>4. \E f : Repeats(f, m, T, c, step)
    BY <2>3, Repeated
  <2>5. QED
    BY <2>1, <2>2, <2>4 DEF Repeats
<1>6. ASSUME NEW i \in 1 .. m, NEW s \in Seq(S)
      PROVE  step[<<i, s>>] = IF seq[i] \in dropped THEN s ELSE Append(s, seq[i])
  <2>1. <<i, s>> \in (1 .. m) \X Seq(S)
    OBVIOUS
  <2>2. QED
    BY <1>3, <2>1
<1>7. f = Kept(f)
  <2>1. ASSUME NEW i \in 0 .. m PROVE f[i] = Kept(f)[i]
    <3>1. CASE i = 0
      BY <1>1, <1>5, <3>1
    <3>2. CASE i # 0
      <4>1. i \in 1 .. m /\ f[i - 1] \in Seq(S)
        BY <3>2
      <4>2. f[i] = IF seq[i] \in dropped THEN f[i - 1] ELSE Append(f[i - 1], seq[i])
        BY <1>5, <1>6, <4>1
      <4>3. QED
        BY <1>1, <3>2, <4>2
    <3>3. QED
      BY <3>1, <3>2
  <2>2. f = [i \in 0 .. m |-> f[i]] /\ Kept(f) = [i \in 0 .. m |-> Kept(f)[i]]
    BY <1>1
  <2> HIDE DEF Kept
  <2>3. [i \in 0 .. m |-> f[i]] = [i \in 0 .. m |-> Kept(f)[i]]
    BY <2>1
  <2>4. QED
    BY <2>2, <2>3, Zenon
<1>8. PICK g : g = CHOOSE kept : kept = Kept(kept)
  OBVIOUS
<1>9. g = Kept(g)
  <2> HIDE DEF Kept
  <2>1. QED
    BY <1>7, <1>8, Zenon
<1>10. Without(seq, dropped) = g[Len(seq)]
  BY <1>8 DEF Without
<1>11. PICK before : before = [i \in 0 .. m |-> {seq[k] : k \in 1 .. i}]
  OBVIOUS
<1>12. PICK U : U = {i \in 0 .. m :
                        /\ g[i] \in Seq(S)
                        /\ IsInjective(seq) => IsInjective(g[i]) /\ ToSet(g[i]) \subseteq before[i]}
  OBVIOUS
<1>13. 0 .. m \subseteq U
  <2>1. 0 \in U
    <3>1. g[0] = <<>> /\ 0 \in 0 .. m
      BY <1>1, <1>9
    <3>2. <<>> \in Seq(S) /\ IsInjective(<<>>) /\ ToSet(<<>>) = {}
      BY DEF IsInjective, ToSet
    <3>3. QED
      BY <1>12, <3>1, <3>2, ZenonT(60)
  <2>2. ASSUME NEW i \in 1 .. m, i - 1 \in U PROVE i \in U
    <3>1. i \in 0 .. Len(seq) /\ i # 0 /\ i \in 0 .. m /\ i - 1 \in 0 .. m
      BY <1>1, <2>2
    <3>2. Kept(g)[i] = IF seq[i] \in dropped THEN g[i - 1] ELSE Append(g[i - 1], seq[i])
      BY <3>1
    <3>3. g[i] = IF seq[i] \in dropped THEN g[i - 1] ELSE Append(g[i - 1], seq[i])
      <4> HIDE DEF Kept
      <4>1. QED
        BY <1>9, <3>2, Zenon
    <3>4. PICK s \in Seq(S) : s = g[i - 1]
      BY <1>12, <2>2
    <3>5. IsInjective(seq) => IsInjective(s) /\ ToSet(s) \subseteq before[i - 1]
      BY <1>12, <2>2, <3>4
    <3>6. seq[i] \in S
      BY <1>2
    <3>7. g[i] = s \/ g[i] = Append(s, seq[i])
      BY <3>3, <3>4
    <3>8. Append(s, seq[i]) \in Seq(S)
      BY <3>6
    <3>9. before[i] = before[i - 1] \cup {seq[i]}
      <4>1. 1 .. i = (1 .. i - 1) \cup {i}
        OBVIOUS
      <4>2. before[i] = {seq[k] : k \in 1 .. i} /\ before[i - 1] = {seq[k] : k \in 1 .. i - 1}
        BY <1>11, <3>1
      <4>3. QED
        BY <4>1, <4>2
    <3>10. ASSUME IsInjective(seq)
           PROVE  IsInjective(g[i]) /\ ToSet(g[i]) \subseteq before[i]
      <4>1. seq[i] \notin before[i - 1]
        <5>1. \A k \in 1 .. i - 1 : k \in DOMAIN seq /\ i \in DOMAIN seq /\ k # i
          BY <1>1
        <5>2. \A k \in 1 .. i - 1 : seq[k] # seq[i]
          BY <3>10, <5>1 DEF IsInjective
        <5>3. QED
          BY <1>11, <3>1, <5>2
      <4>2. IsInjective(s) /\ ToSet(s) \subseteq before[i - 1] /\ seq[i] \notin ToSet(s)
        BY <3>5, <3>10, <4>1
      <4>3. IsInjective(Append(s, seq[i])) /\ ToSet(Append(s, seq[i])) = ToSet(s) \cup {seq[i]}
        BY <3>6, <4>2, AppendNew
      <4>4. QED
        BY <3>7, <3>9, <4>2, <4>3
    <3>11. g[i] \in Seq(S)
      BY <3>7, <3>8
    <3>12. QED
      BY <1>12, <3>1, <3>10, <3>11
  <2>3. QED
    BY <2>1, <2>2, UpTo
<1>14. m \in U
  BY <1>13
<1>15. QED
  BY <1>1, <1>10, <1>12, <1>14

\* Each character once, and all of them (effective_set)
LEMMA DistinctSeq ==
    ASSUME NEW S, NEW seq \in Seq(S)
    PROVE  /\ Distinct(seq) \in Seq(S) /\ IsInjective(Distinct(seq))
           /\ ToSet(Distinct(seq)) = ToSet(seq)
<1> DEFINE Kept(f) == [i \in 0 .. Len(seq) |->
              IF i = 0 THEN <<>>
              ELSE IF seq[i] \in ToSet(f[i - 1]) THEN f[i - 1] ELSE Append(f[i - 1], seq[i])]
<1>1. PICK m \in Nat : m = Len(seq)
  OBVIOUS
<1>2. \A i \in 1 .. m : seq[i] \in S
  BY <1>1
<1>3. PICK step : step = [p \in (1 .. m) \X Seq(S) |->
                            IF seq[p[1]] \in ToSet(p[2]) THEN p[2] ELSE Append(p[2], seq[p[1]])]
  OBVIOUS
<1>4. step \in [(1 .. m) \X Seq(S) -> Seq(S)]
  <2>1. ASSUME NEW p \in (1 .. m) \X Seq(S)
        PROVE  (IF seq[p[1]] \in ToSet(p[2]) THEN p[2] ELSE Append(p[2], seq[p[1]])) \in Seq(S)
    <3>1. p[1] \in 1 .. m /\ p[2] \in Seq(S) /\ seq[p[1]] \in S
      BY <1>2
    <3>2. QED
      BY <3>1
  <2>2. QED
    BY <1>3, <2>1
<1>5. PICK f \in [0 .. m -> Seq(S)] :
         f[0] = <<>> /\ \A i \in 1 .. m : f[i] = step[<<i, f[i - 1]>>]
  <2>1. PICK T : T = Seq(S)
    OBVIOUS
  <2>2. PICK c \in T : c = <<>>
    <3>1. <<>> \in Seq(S)
      OBVIOUS
    <3>2. QED
      BY <2>1, <3>1
  <2>3. step \in StepsIn(m, T)
    BY <1>4, <2>1 DEF StepsIn
  <2>4. \E f : Repeats(f, m, T, c, step)
    BY <2>3, Repeated
  <2>5. QED
    BY <2>1, <2>2, <2>4 DEF Repeats
<1>6. ASSUME NEW i \in 1 .. m, NEW s \in Seq(S)
      PROVE  step[<<i, s>>] = IF seq[i] \in ToSet(s) THEN s ELSE Append(s, seq[i])
  <2>1. <<i, s>> \in (1 .. m) \X Seq(S)
    OBVIOUS
  <2>2. QED
    BY <1>3, <2>1
<1>7. f = Kept(f)
  <2>1. ASSUME NEW i \in 0 .. m PROVE f[i] = Kept(f)[i]
    <3>1. CASE i = 0
      BY <1>1, <1>5, <3>1
    <3>2. CASE i # 0
      <4>1. i \in 1 .. m /\ f[i - 1] \in Seq(S)
        BY <3>2
      <4>2. f[i] = IF seq[i] \in ToSet(f[i - 1]) THEN f[i - 1] ELSE Append(f[i - 1], seq[i])
        BY <1>5, <1>6, <4>1
      <4>3. QED
        BY <1>1, <3>2, <4>2
    <3>3. QED
      BY <3>1, <3>2
  <2>2. f = [i \in 0 .. m |-> f[i]] /\ Kept(f) = [i \in 0 .. m |-> Kept(f)[i]]
    BY <1>1
  <2> HIDE DEF Kept
  <2>3. [i \in 0 .. m |-> f[i]] = [i \in 0 .. m |-> Kept(f)[i]]
    BY <2>1
  <2>4. QED
    BY <2>2, <2>3, Zenon
<1>8. PICK g : g = CHOOSE kept : kept = Kept(kept)
  OBVIOUS
<1>9. g = Kept(g)
  <2> HIDE DEF Kept
  <2>1. QED
    BY <1>7, <1>8, Zenon
<1>10. Distinct(seq) = g[Len(seq)]
  BY <1>8 DEF Distinct
<1>11. PICK before : before = [i \in 0 .. m |-> {seq[k] : k \in 1 .. i}]
  OBVIOUS
<1>12. PICK U : U = {i \in 0 .. m :
                        g[i] \in Seq(S) /\ IsInjective(g[i]) /\ ToSet(g[i]) = before[i]}
  OBVIOUS
<1>13. 0 .. m \subseteq U
  <2>1. 0 \in U
    <3>1. g[0] = <<>> /\ 0 \in 0 .. m
      BY <1>1, <1>9
    <3>2. <<>> \in Seq(S) /\ IsInjective(<<>>) /\ ToSet(<<>>) = {}
      BY DEF IsInjective, ToSet
    <3>3. before[0] = {}
      BY <1>11, <3>1
    <3>4. QED
      BY <1>12, <3>1, <3>2, <3>3, ZenonT(60)
  <2>2. ASSUME NEW i \in 1 .. m, i - 1 \in U PROVE i \in U
    <3>1. i \in 0 .. Len(seq) /\ i # 0 /\ i \in 0 .. m /\ i - 1 \in 0 .. m
      BY <1>1, <2>2
    <3>2. Kept(g)[i] =
              IF seq[i] \in ToSet(g[i - 1]) THEN g[i - 1] ELSE Append(g[i - 1], seq[i])
      BY <3>1
    <3>3. g[i] = IF seq[i] \in ToSet(g[i - 1]) THEN g[i - 1] ELSE Append(g[i - 1], seq[i])
      <4> HIDE DEF Kept
      <4>1. QED
        BY <1>9, <3>2, Zenon
    <3>4. PICK s \in Seq(S) : s = g[i - 1] /\ IsInjective(s) /\ ToSet(s) = before[i - 1]
      BY <1>12, <2>2
    <3>5. seq[i] \in S
      BY <1>2
    <3>6. before[i] = before[i - 1] \cup {seq[i]}
      <4>1. 1 .. i = (1 .. i - 1) \cup {i}
        OBVIOUS
      <4>2. before[i] = {seq[k] : k \in 1 .. i} /\ before[i - 1] = {seq[k] : k \in 1 .. i - 1}
        BY <1>11, <3>1
      <4>3. QED
        BY <4>1, <4>2
    <3>7. CASE seq[i] \in ToSet(s)
      <4>1. g[i] = s /\ ToSet(s) = before[i]
        BY <3>3, <3>4, <3>6, <3>7
      <4>2. QED
        BY <1>12, <3>1, <3>4, <4>1
    <3>8. CASE seq[i] \notin ToSet(s)
      <4>1. g[i] = Append(s, seq[i])
        BY <3>3, <3>4, <3>8
      <4>2. IsInjective(Append(s, seq[i])) /\ ToSet(Append(s, seq[i])) = ToSet(s) \cup {seq[i]}
        BY <3>4, <3>5, <3>8, AppendNew
      <4>3. Append(s, seq[i]) \in Seq(S)
        BY <3>5
      <4>4. QED
        BY <1>12, <3>1, <3>4, <3>6, <4>1, <4>2, <4>3
    <3>9. QED
      BY <3>7, <3>8
  <2>3. QED
    BY <2>1, <2>2, UpTo
<1>14. m \in U /\ before[m] = {seq[k] : k \in 1 .. m}
  <2>1. m \in 0 .. m
    OBVIOUS
  <2>2. QED
    BY <1>11, <1>13, <2>1
<1>15. ToSet(seq) = {seq[k] : k \in 1 .. m}
  <2>1. DOMAIN seq = 1 .. m
    BY <1>1
  <2>2. ToSet(seq) = {seq[k] : k \in DOMAIN seq}
    BY DEF ToSet
  <2>3. QED
    BY <2>1, <2>2
<1>16. QED
  BY <1>1, <1>10, <1>12, <1>14, <1>15

\* Members and length of two sequences in a row
LEMMA RowSet ==
    ASSUME NEW S, NEW s \in Seq(S), NEW t \in Seq(S)
    PROVE  /\ s \o t \in Seq(S) /\ Len(s \o t) = Len(s) + Len(t)
           /\ ToSet(s \o t) = ToSet(s) \cup ToSet(t)
           /\ \A i \in 1 .. Len(s) : (s \o t)[i] = s[i]
           /\ \A i \in 1 .. Len(t) : (s \o t)[Len(s) + i] = t[i]
<1>1. s \o t \in Seq(S) /\ Len(s \o t) = Len(s) + Len(t)
  OBVIOUS
<1>2. \A i \in 1 .. Len(s) : (s \o t)[i] = s[i] /\ i \in 1 .. Len(s \o t)
  OBVIOUS
<1>3. \A i \in 1 .. Len(t) : (s \o t)[Len(s) + i] = t[i] /\ Len(s) + i \in 1 .. Len(s \o t)
  OBVIOUS
<1>4. ASSUME NEW i \in 1 .. Len(s \o t)
      PROVE  (s \o t)[i] \in ToSet(s) \cup ToSet(t)
  <2>1. CASE i =< Len(s)
    BY <1>2, <2>1 DEF ToSet
  <2>2. CASE i > Len(s)
    <3>1. i - Len(s) \in 1 .. Len(t) /\ Len(s) + (i - Len(s)) = i
      BY <1>1, <2>2
    <3>2. (s \o t)[i] = t[i - Len(s)]
      BY <1>3, <3>1
    <3>3. QED
      BY <3>1, <3>2 DEF ToSet
  <2>3. QED
    BY <1>1, <2>1, <2>2
<1>5. ToSet(s \o t) \subseteq ToSet(s) \cup ToSet(t)
  <2>1. DOMAIN (s \o t) = 1 .. Len(s \o t)
    BY <1>1
  <2>2. QED
    BY <1>4, <2>1 DEF ToSet
<1>6. ToSet(s) \subseteq ToSet(s \o t)
  <2>1. ASSUME NEW i \in 1 .. Len(s) PROVE \E j \in DOMAIN (s \o t) : (s \o t)[j] = s[i]
    BY <1>1, <1>2
  <2>2. DOMAIN s = 1 .. Len(s)
    OBVIOUS
  <2>3. QED
    BY <2>1, <2>2 DEF ToSet
<1>7. ToSet(t) \subseteq ToSet(s \o t)
  <2>1. ASSUME NEW i \in 1 .. Len(t) PROVE \E j \in DOMAIN (s \o t) : (s \o t)[j] = t[i]
    BY <1>1, <1>3
  <2>2. DOMAIN t = 1 .. Len(t)
    OBVIOUS
  <2>3. QED
    BY <2>1, <2>2 DEF ToSet
<1>8. QED
  BY <1>1, <1>2, <1>3, <1>5, <1>6, <1>7

\* The four parts in a row: members, length, and where each part stands
LEMMA FourInOrder ==
    ASSUME NEW S, NEW part \in [Classes -> Seq(S)]
    PROVE  /\ InOrder(part) \in Seq(S)
           /\ Len(InOrder(part)) = Len(part["lowercase"]) + Len(part["uppercase"])
                                       + Len(part["digits"]) + Len(part["symbols"])
           /\ ToSet(InOrder(part)) = UNION {ToSet(part[class]) : class \in Classes}
           /\ \A class \in Classes : \E o \in Nat :
                  /\ o + Len(part[class]) =< Len(InOrder(part))
                  /\ \A i \in 1 .. Len(part[class]) : InOrder(part)[o + i] = part[class][i]
<1>1. PICK l \in Seq(S), u \in Seq(S), d \in Seq(S), y \in Seq(S) :
         l = part["lowercase"] /\ u = part["uppercase"] /\ d = part["digits"] /\ y = part["symbols"]
  BY DEF Classes
<1>2. PICK lu \in Seq(S) : lu = l \o u
  BY RowSet
<1>3. PICK lud \in Seq(S) : lud = lu \o d
  BY RowSet
<1>4. PICK all \in Seq(S) : all = lud \o y
  BY RowSet
<1>5. InOrder(part) = all
  BY <1>1, <1>2, <1>3, <1>4 DEF InOrder
<1>6. /\ Len(lu) = Len(l) + Len(u) /\ ToSet(lu) = ToSet(l) \cup ToSet(u)
      /\ \A i \in 1 .. Len(l) : lu[i] = l[i]
      /\ \A i \in 1 .. Len(u) : lu[Len(l) + i] = u[i]
  BY <1>2, RowSet
<1>7. /\ Len(lud) = Len(lu) + Len(d) /\ ToSet(lud) = ToSet(lu) \cup ToSet(d)
      /\ \A i \in 1 .. Len(lu) : lud[i] = lu[i]
      /\ \A i \in 1 .. Len(d) : lud[Len(lu) + i] = d[i]
  BY <1>3, RowSet
<1>8. /\ Len(all) = Len(lud) + Len(y) /\ ToSet(all) = ToSet(lud) \cup ToSet(y)
      /\ \A i \in 1 .. Len(lud) : all[i] = lud[i]
      /\ \A i \in 1 .. Len(y) : all[Len(lud) + i] = y[i]
  BY <1>4, RowSet
<1>9. Len(l) \in Nat /\ Len(u) \in Nat /\ Len(d) \in Nat /\ Len(y) \in Nat
  OBVIOUS
<1>10. Len(all) = Len(l) + Len(u) + Len(d) + Len(y)
  BY <1>6, <1>7, <1>8, <1>9
<1>11. ToSet(all) = UNION {ToSet(part[class]) : class \in Classes}
  BY <1>1, <1>6, <1>7, <1>8 DEF Classes
<1>12. ASSUME NEW class \in Classes
       PROVE  \E o \in Nat : /\ o + Len(part[class]) =< Len(all)
                             /\ \A i \in 1 .. Len(part[class]) : all[o + i] = part[class][i]
  <2>1. CASE class = "lowercase"
    <3>1. \A i \in 1 .. Len(l) : 0 + i = i /\ i \in 1 .. Len(lu) /\ i \in 1 .. Len(lud)
      BY <1>6, <1>7, <1>9
    <3>2. \A i \in 1 .. Len(l) : all[0 + i] = l[i]
      BY <1>6, <1>7, <1>8, <3>1
    <3>3. 0 \in Nat /\ 0 + Len(l) =< Len(all)
      BY <1>9, <1>10
    <3>4. QED
      BY <1>1, <2>1, <3>2, <3>3
  <2>2. CASE class = "uppercase"
    <3>1. \A i \in 1 .. Len(u) : Len(l) + i \in 1 .. Len(lu) /\ Len(l) + i \in 1 .. Len(lud)
      BY <1>6, <1>7, <1>9
    <3>2. \A i \in 1 .. Len(u) : all[Len(l) + i] = u[i]
      BY <1>6, <1>7, <1>8, <3>1
    <3>3. Len(l) + Len(u) =< Len(all)
      BY <1>9, <1>10
    <3>4. QED
      BY <1>1, <1>9, <2>2, <3>2, <3>3
  <2>3. CASE class = "digits"
    <3>1. \A i \in 1 .. Len(d) : Len(lu) + i \in 1 .. Len(lud)
      BY <1>7, <1>9
    <3>2. \A i \in 1 .. Len(d) : all[Len(lu) + i] = d[i]
      BY <1>7, <1>8, <3>1
    <3>3. Len(lu) + Len(d) =< Len(all) /\ Len(lu) \in Nat
      BY <1>6, <1>9, <1>10
    <3>4. QED
      BY <1>1, <2>3, <3>2, <3>3
  <2>4. CASE class = "symbols"
    <3>1. Len(lud) + Len(y) =< Len(all) /\ Len(lud) \in Nat
      BY <1>8, <1>9
    <3>2. QED
      BY <1>1, <1>8, <2>4, <3>1
  <2>5. QED
    BY <2>1, <2>2, <2>3, <2>4 DEF Classes
<1>13. QED
  BY <1>1, <1>5, <1>10, <1>11, <1>12

\* A sequence holds its own members.
LEMMA OwnMembers ==
    ASSUME NEW S, NEW s \in Seq(S)
    PROVE  s \in Seq(ToSet(s)) /\ ToSet(s) \subseteq S
<1>1. s \in [1 .. Len(s) -> S] /\ Len(s) \in Nat /\ DOMAIN s = 1 .. Len(s)
  OBVIOUS
<1>2. \A i \in 1 .. Len(s) : s[i] \in ToSet(s)
  BY <1>1 DEF ToSet
<1>3. s \in [1 .. Len(s) -> ToSet(s)]
  BY <1>1, <1>2
<1>4. s \in Seq(ToSet(s))
  BY <1>1, <1>3
<1>5. QED
  BY <1>1, <1>4 DEF ToSet

\* Two halves of an injective sequence share no member.
LEMMA HalvesDiffer ==
    ASSUME NEW S, NEW s \in Seq(S), NEW t \in Seq(S), IsInjective(s \o t)
    PROVE  ToSet(s) \cap ToSet(t) = {} /\ IsInjective(s) /\ IsInjective(t)
<1>1. DOMAIN s = 1 .. Len(s) /\ DOMAIN t = 1 .. Len(t) /\ Len(s) \in Nat /\ Len(t) \in Nat
  OBVIOUS
<1>2. s \o t \in Seq(S) /\ DOMAIN (s \o t) = 1 .. Len(s) + Len(t)
  BY RowSet
<1>3. \A a, b \in 1 .. Len(s) + Len(t) : (s \o t)[a] = (s \o t)[b] => a = b
  BY <1>2 DEF IsInjective
<1>4. ASSUME NEW i \in 1 .. Len(s), NEW j \in 1 .. Len(t), s[i] = t[j] PROVE FALSE
  <2>1. (s \o t)[i] = s[i] /\ (s \o t)[Len(s) + j] = t[j]
    BY RowSet
  <2>2. i \in 1 .. Len(s) + Len(t) /\ Len(s) + j \in 1 .. Len(s) + Len(t) /\ i # Len(s) + j
    BY <1>1
  <2>3. QED
    BY <1>3, <1>4, <2>1, <2>2
<1>5. ASSUME NEW i \in 1 .. Len(s), NEW j \in 1 .. Len(s), s[i] = s[j] PROVE i = j
  <2>1. (s \o t)[i] = s[i] /\ (s \o t)[j] = s[j]
    BY RowSet
  <2>2. i \in 1 .. Len(s) + Len(t) /\ j \in 1 .. Len(s) + Len(t)
    BY <1>1
  <2>3. QED
    BY <1>3, <1>5, <2>1, <2>2
<1>6. ASSUME NEW i \in 1 .. Len(t), NEW j \in 1 .. Len(t), t[i] = t[j] PROVE i = j
  <2>1. (s \o t)[Len(s) + i] = t[i] /\ (s \o t)[Len(s) + j] = t[j]
    BY RowSet
  <2>2. Len(s) + i \in 1 .. Len(s) + Len(t) /\ Len(s) + j \in 1 .. Len(s) + Len(t)
    BY <1>1
  <2>3. Len(s) + i = Len(s) + j
    BY <1>3, <1>6, <2>1, <2>2
  <2>4. QED
    BY <1>1, <2>3
<1>7. ToSet(s) \cap ToSet(t) = {}
  BY <1>1, <1>4 DEF ToSet
<1>8. QED
  BY <1>1, <1>5, <1>6, <1>7 DEF IsInjective

\* A class has each character once, and unless a letter is among the symbols a character
\* is counted in its class (charset.rs, validate.rs).
LEMMA CountedAs ==
    ASSUME NEW charset, charset.symbols \in SymbolSets, NEW class \in Classes
    PROVE  /\ ClassChars(charset, class) \in Seq(ToSet(ClassChars(charset, class)))
           /\ IsInjective(ClassChars(charset, class))
           /\ OnlySymbols(charset) =>
                  \A c \in ToSet(ClassChars(charset, class)) : ClassOf(c) = class
<1>1. PICK l, u, n, y : l = Lowercase /\ u = Uppercase /\ n = Numerals /\ y = charset.symbols
  OBVIOUS
<1>2. l \in Seq(ToSet(l)) /\ u \in Seq(ToSet(u)) /\ n \in Seq(ToSet(n)) /\ y \in Seq(ToSet(y))
  BY <1>1, GeneratorAssumption
<1>3. PICK S : S = ToSet(l) \cup ToSet(u) \cup ToSet(n)
  OBVIOUS
<1>4. l \in Seq(S) /\ u \in Seq(S) /\ n \in Seq(S)
  BY <1>2, <1>3
<1>5. PICK lu \in Seq(S) : lu = l \o u /\ ToSet(lu) = ToSet(l) \cup ToSet(u)
  BY <1>4, RowSet, ZenonT(60)
<1>6. ToSet(lu \o n) = ToSet(lu) \cup ToSet(n)
  BY <1>4, RowSet
<1>7. IsInjective(lu \o n) /\ IsInjective(y)
  BY <1>1, <1>5, GeneratorAssumption
<1>8. ToSet(lu) \cap ToSet(n) = {} /\ IsInjective(lu) /\ IsInjective(n)
  BY <1>4, <1>7, HalvesDiffer
<1>9. ToSet(l) \cap ToSet(u) = {} /\ IsInjective(l) /\ IsInjective(u)
  BY <1>4, <1>5, <1>8, HalvesDiffer
<1>10. /\ \A c \in ToSet(l) : c \notin ToSet(u) /\ c \notin ToSet(n)
       /\ \A c \in ToSet(u) : c \notin ToSet(l) /\ c \notin ToSet(n)
       /\ \A c \in ToSet(n) : c \notin ToSet(l) /\ c \notin ToSet(u)
  BY <1>5, <1>8, <1>9
<1>11. ASSUME OnlySymbols(charset)
       PROVE  \A c \in ToSet(y) : c \notin ToSet(l) /\ c \notin ToSet(u) /\ c \notin ToSet(n)
  <2>1. ToSet(y) \cap ToSet(lu \o n) = {}
    BY <1>1, <1>5, <1>11 DEF OnlySymbols
  <2>2. QED
    BY <1>5, <1>6, <2>1
<1>12. CASE class = "lowercase"
  <2>1. ClassChars(charset, class) = l
    BY <1>1, <1>12 DEF ClassChars
  <2>2. OnlySymbols(charset) => \A c \in ToSet(l) : ClassOf(c) = class
    BY <1>1, <1>10, <1>12 DEF ClassOf
  <2>3. QED
    BY <1>2, <1>9, <2>1, <2>2
<1>13. CASE class = "uppercase"
  <2>1. ClassChars(charset, class) = u
    BY <1>1, <1>13 DEF ClassChars
  <2>2. OnlySymbols(charset) => \A c \in ToSet(u) : ClassOf(c) = class
    BY <1>1, <1>10, <1>13 DEF ClassOf
  <2>3. QED
    BY <1>2, <1>9, <2>1, <2>2
<1>14. CASE class = "digits"
  <2>1. ClassChars(charset, class) = n
    BY <1>1, <1>14 DEF ClassChars
  <2>2. OnlySymbols(charset) => \A c \in ToSet(n) : ClassOf(c) = class
    BY <1>1, <1>10, <1>14 DEF ClassOf
  <2>3. QED
    BY <1>2, <1>8, <2>1, <2>2
<1>15. CASE class = "symbols"
  <2>1. ClassChars(charset, class) = y
    BY <1>1, <1>15 DEF ClassChars
  <2>2. OnlySymbols(charset) => \A c \in ToSet(y) : ClassOf(c) = class
    BY <1>1, <1>11, <1>15 DEF ClassOf
  <2>3. QED
    BY <1>2, <1>7, <2>1, <2>2
<1>16. QED
  BY <1>12, <1>13, <1>14, <1>15 DEF Classes

\* What a policy leaves of the classes, and of all of them: each character once, and
\* unless a letter is among the symbols in the class that it is counted in
LEMMA EffectiveParts ==
    ASSUME NEW req, IsRequest(req)
    PROVE  /\ EffectiveSet(req.charset) \in Seq(ToSet(EffectiveSet(req.charset)))
           /\ IsInjective(EffectiveSet(req.charset))
           /\ \A class \in Classes :
                  /\ Effective(req.charset, class) \in Seq(ToSet(EffectiveSet(req.charset)))
                  /\ IsInjective(Effective(req.charset, class))
                  /\ OnlySymbols(req.charset) =>
                         \A c \in ToSet(Effective(req.charset, class)) : ClassOf(c) = class
           /\ OnlySymbols(req.charset) =>
                  \A c \in ToSet(EffectiveSet(req.charset)) :
                      ClassOf(c) \in Classes /\ c \in ToSet(Effective(req.charset, ClassOf(c)))
<1>1. PICK part : part = [class \in Classes |-> Effective(req.charset, class)]
  OBVIOUS
<1>2. PICK S : S = UNION {ToSet(ClassChars(req.charset, class)) : class \in Classes}
  OBVIOUS
<1>3. ASSUME NEW class \in Classes
      PROVE  /\ part[class] = Effective(req.charset, class) /\ part[class] \in Seq(S)
             /\ IsInjective(part[class])
             /\ OnlySymbols(req.charset) => \A c \in ToSet(part[class]) : ClassOf(c) = class
  <2>1. PICK chars : chars = ClassChars(req.charset, class)
    OBVIOUS
  <2>2. /\ chars \in Seq(ToSet(chars)) /\ IsInjective(chars)
        /\ OnlySymbols(req.charset) => \A c \in ToSet(chars) : ClassOf(c) = class
    BY <2>1, CountedAs DEF IsRequest
  <2>3. part[class] \in Seq(ToSet(chars)) /\ IsInjective(part[class])
    <3>1. /\ Without(chars, req.charset.disallow) \in Seq(ToSet(chars))
          /\ IsInjective(Without(chars, req.charset.disallow))
      BY <2>2, WithoutSeq
    <3>2. <<>> \in Seq(ToSet(chars)) /\ IsInjective(<<>>)
      BY DEF IsInjective
    <3>3. part[class] = <<>> \/ part[class] = Without(chars, req.charset.disallow)
      BY <1>1, <2>1 DEF Effective
    <3>4. QED
      BY <3>1, <3>2, <3>3
  <2>4. ToSet(chars) \subseteq S
    BY <1>2, <2>1
  <2>5. part[class] \in Seq(S) /\ ToSet(part[class]) \subseteq ToSet(chars)
    BY <2>3, <2>4, OwnMembers
  <2>6. QED
    BY <1>1, <2>2, <2>3, <2>5
<1>4. part \in [Classes -> Seq(S)]
  BY <1>1, <1>3
<1>5. PICK all : all = EffectiveSet(req.charset)
  OBVIOUS
<1>6. InOrder(part) \in Seq(S) /\ all = Distinct(InOrder(part))
  BY <1>1, <1>4, <1>5, FourInOrder DEF EffectiveSet, AllClasses
<1>7. /\ all \in Seq(S) /\ IsInjective(all)
      /\ ToSet(all) = UNION {ToSet(part[class]) : class \in Classes}
  <2>1. all \in Seq(S) /\ IsInjective(all) /\ ToSet(all) = ToSet(InOrder(part))
    BY <1>6, DistinctSeq
  <2>2. QED
    BY <1>4, <2>1, FourInOrder
<1>8. all \in Seq(ToSet(all))
  BY <1>7, OwnMembers
<1>9. ASSUME NEW class \in Classes PROVE part[class] \in Seq(ToSet(all))
  <2>1. part[class] \in Seq(ToSet(part[class])) /\ ToSet(part[class]) \subseteq ToSet(all)
    BY <1>3, <1>7, OwnMembers
  <2>2. QED
    BY <2>1
<1>10. ASSUME OnlySymbols(req.charset), NEW c \in ToSet(all)
       PROVE  ClassOf(c) \in Classes /\ c \in ToSet(Effective(req.charset, ClassOf(c)))
  <2>1. PICK class \in Classes : c \in ToSet(part[class])
    BY <1>7, <1>10
  <2>2. QED
    BY <1>3, <1>10, <2>1
<1>11. QED
  BY <1>3, <1>5, <1>7, <1>8, <1>9, <1>10

\* The classes of the first draws: as many as the minimums, each class in a row of its own
LEMMA OwedRows ==
    ASSUME NEW required \in [Classes -> Nat]
    PROVE  /\ Owed(required) \in Seq(Classes) /\ Len(Owed(required)) = Total(required)
           /\ \A class \in Classes : \E o \in Nat :
                  /\ o + required[class] =< Total(required)
                  /\ \A i \in 1 .. required[class] : Owed(required)[o + i] = class
           /\ \A i \in 1 .. Len(Owed(required)) : required[Owed(required)[i]] > 0
<1>1. PICK part : part = [class \in Classes |-> [n \in 1 .. required[class] |-> class]]
  OBVIOUS
<1>2. ASSUME NEW class \in Classes
      PROVE  /\ part[class] \in Seq(Classes) /\ Len(part[class]) = required[class]
             /\ \A i \in 1 .. required[class] : part[class][i] = class
  <2>1. PICK m \in Nat : m = required[class]
    OBVIOUS
  <2>2. part[class] = [n \in 1 .. m |-> class]
    BY <1>1, <2>1
  <2>3. [n \in 1 .. m |-> class] \in Seq(Classes) /\ Len([n \in 1 .. m |-> class]) = m
    OBVIOUS
  <2>4. QED
    BY <2>1, <2>2, <2>3
<1>3. part \in [Classes -> Seq(Classes)]
  BY <1>1, <1>2
<1>4. Owed(required) = InOrder(part)
  BY <1>1 DEF Owed
<1>5. Len(InOrder(part)) = Total(required)
  <2>1. Len(InOrder(part)) = Len(part["lowercase"]) + Len(part["uppercase"])
                                 + Len(part["digits"]) + Len(part["symbols"])
    BY <1>3, FourInOrder
  <2>2. /\ Len(part["lowercase"]) = required["lowercase"]
        /\ Len(part["uppercase"]) = required["uppercase"]
        /\ Len(part["digits"]) = required["digits"]
        /\ Len(part["symbols"]) = required["symbols"]
    BY <1>2 DEF Classes
  <2>3. QED
    BY <2>1, <2>2 DEF Total
<1>6. ASSUME NEW class \in Classes
      PROVE  \E o \in Nat : /\ o + required[class] =< Total(required)
                            /\ \A i \in 1 .. required[class] : InOrder(part)[o + i] = class
  <2>1. PICK o \in Nat : /\ o + Len(part[class]) =< Len(InOrder(part))
                         /\ \A i \in 1 .. Len(part[class]) :
                                InOrder(part)[o + i] = part[class][i]
    BY <1>3, FourInOrder
  <2>2. QED
    BY <1>2, <1>5, <2>1
<1>7. InOrder(part) \in Seq(Classes)
  BY <1>3, FourInOrder
<1>8. ASSUME NEW i \in 1 .. Len(InOrder(part)) PROVE required[InOrder(part)[i]] > 0
  <2>1. InOrder(part)[i] \in ToSet(InOrder(part))
    BY <1>7 DEF ToSet
  <2>2. PICK class \in Classes : InOrder(part)[i] \in ToSet(part[class])
    <3>1. ToSet(InOrder(part)) = UNION {ToSet(part[class]) : class \in Classes}
      BY <1>3, FourInOrder
    <3>2. QED
      BY <2>1, <3>1
  <2>3. DOMAIN part[class] = 1 .. required[class]
    BY <1>2
  <2>4. PICK k \in 1 .. required[class] : InOrder(part)[i] = part[class][k]
    BY <2>2, <2>3 DEF ToSet
  <2>5. InOrder(part)[i] = class /\ required[class] \in Nat
    BY <1>2, <2>4
  <2>6. QED
    BY <2>4, <2>5
<1>9. QED
  BY <1>4, <1>5, <1>6, <1>7, <1>8

-----------------------------------------------------------------------------
(* The places of a class in a password (validate.rs) *)

\* They are places of the password.
LEMMA PlacesCount ==
    ASSUME NEW S, NEW password \in Seq(S), NEW class
    PROVE  /\ Places(password, class) \subseteq 1 .. Len(password)
           /\ IsFiniteSet(Places(password, class))
           /\ Cardinality(Places(password, class)) \in Nat
<1>1. Len(password) \in Nat /\ DOMAIN password = 1 .. Len(password)
  OBVIOUS
<1>2. Places(password, class) \subseteq 1 .. Len(password)
  BY <1>1 DEF Places
<1>3. IsFiniteSet(1 .. Len(password))
  BY <1>1, FS_Interval
<1>4. QED
  BY <1>2, <1>3, FS_Subset, FS_CardinalityType

\* Two classes have no place in common, so that four have no more than there are.
LEMMA PlacesShared ==
    ASSUME NEW S, NEW password \in Seq(S)
    PROVE  Cardinality(Places(password, "lowercase")) + Cardinality(Places(password, "uppercase"))
             + Cardinality(Places(password, "digits"))
             + Cardinality(Places(password, "symbols")) =< Len(password)
<1>1. PICK l, u, d, y :
         /\ l = Places(password, "lowercase") /\ u = Places(password, "uppercase")
         /\ d = Places(password, "digits") /\ y = Places(password, "symbols")
  OBVIOUS
<1>2. /\ IsFiniteSet(l) /\ Cardinality(l) \in Nat /\ l \subseteq 1 .. Len(password)
      /\ IsFiniteSet(u) /\ Cardinality(u) \in Nat /\ u \subseteq 1 .. Len(password)
      /\ IsFiniteSet(d) /\ Cardinality(d) \in Nat /\ d \subseteq 1 .. Len(password)
      /\ IsFiniteSet(y) /\ Cardinality(y) \in Nat /\ y \subseteq 1 .. Len(password)
  BY <1>1, PlacesCount
<1>3. l \cap u = {} /\ (l \cup u) \cap d = {} /\ (l \cup u \cup d) \cap y = {}
  BY <1>1 DEF Places
<1>4. Cardinality({}) = 0
  BY FS_EmptySet
<1>5. IsFiniteSet(l \cup u) /\ Cardinality(l \cup u) = Cardinality(l) + Cardinality(u)
  <2>1. /\ IsFiniteSet(l \cup u)
        /\ Cardinality(l \cup u) = Cardinality(l) + Cardinality(u) - Cardinality(l \cap u)
    BY <1>2, FS_Union
  <2>2. Cardinality(l \cap u) = 0
    BY <1>3, <1>4
  <2>3. QED
    BY <1>2, <2>1, <2>2
<1>6. /\ IsFiniteSet(l \cup u \cup d)
      /\ Cardinality(l \cup u \cup d) = Cardinality(l) + Cardinality(u) + Cardinality(d)
  <2>1. PICK lu : lu = l \cup u
    OBVIOUS
  <2>2. /\ IsFiniteSet(lu \cup d)
        /\ Cardinality(lu \cup d) = Cardinality(lu) + Cardinality(d) - Cardinality(lu \cap d)
    BY <1>2, <1>5, <2>1, FS_Union
  <2>3. Cardinality(lu \cap d) = 0
    BY <1>3, <1>4, <2>1
  <2>4. QED
    BY <1>2, <1>5, <2>1, <2>2, <2>3
<1>7. Cardinality(l \cup u \cup d \cup y)
          = Cardinality(l) + Cardinality(u) + Cardinality(d) + Cardinality(y)
  <2>1. PICK lud : lud = l \cup u \cup d
    OBVIOUS
  <2>2. Cardinality(lud \cup y) = Cardinality(lud) + Cardinality(y) - Cardinality(lud \cap y)
    BY <1>2, <1>6, <2>1, FS_Union
  <2>3. Cardinality(lud \cap y) = 0
    BY <1>3, <1>4, <2>1
  <2>4. QED
    BY <1>2, <1>6, <2>1, <2>2, <2>3
<1>8. Cardinality(l \cup u \cup d \cup y) =< Len(password)
  <2>1. Len(password) \in Nat
    OBVIOUS
  <2>2. IsFiniteSet(1 .. Len(password)) /\ Cardinality(1 .. Len(password)) = Len(password)
    BY <2>1, FS_Interval, SMTT(30)
  <2>3. l \cup u \cup d \cup y \in SUBSET (1 .. Len(password))
    BY <1>2
  <2>4. QED
    BY <2>2, <2>3, FS_Subset
<1>9. QED
  BY <1>1, <1>7, <1>8

\* Once the first draws gave each class its row, each class has its minimum.
LEMMA MinimumsMet ==
    ASSUME NEW required \in [Classes -> Nat], NEW S, NEW password \in Seq(S),
           Total(required) =< Len(password),
           \A i \in 1 .. Len(password) :
               i =< Len(Owed(required)) => ClassOf(password[i]) = Owed(required)[i],
           NEW class \in Classes
    PROVE  Cardinality(Places(password, class)) >= required[class]
<1>1. PICK n \in Nat : n = required[class]
  OBVIOUS
<1>2. PICK o \in Nat : /\ o + n =< Total(required)
                       /\ \A i \in 1 .. n : Owed(required)[o + i] = class
  BY <1>1, OwedRows
<1>3. Len(Owed(required)) = Total(required)
  BY OwedRows
<1>4. Total(required) \in Nat /\ Len(password) \in Nat
  BY DEF Total, Classes
<1>5. ASSUME NEW k \in o + 1 .. o + n PROVE k \in Places(password, class)
  <2>1. k - o \in 1 .. n /\ o + (k - o) = k /\ k =< Total(required) /\ k \in 1 .. Len(password)
    BY <1>2, <1>4
  <2>2. Owed(required)[k] = class
    BY <1>2, <2>1
  <2>3. ClassOf(password[k]) = class
    BY <1>3, <2>1, <2>2
  <2>4. QED
    BY <2>1, <2>3 DEF Places
<1>6. o + 1 .. o + n \in SUBSET Places(password, class)
  BY <1>5
<1>7. Cardinality(o + 1 .. o + n) = n
  <2>1. PICK a \in Int, b \in Int : a = o + 1 /\ b = o + n
    OBVIOUS
  <2>2. Cardinality(a .. b) = IF a > b THEN 0 ELSE b - a + 1
    BY FS_Interval
  <2>3. QED
    BY <2>1, <2>2
<1>8. IsFiniteSet(Places(password, class)) /\ Cardinality(Places(password, class)) \in Nat
  BY PlacesCount
<1>9. n =< Cardinality(Places(password, class))
  BY <1>6, <1>7, <1>8, FS_Subset
<1>10. QED
  BY <1>1, <1>8, <1>9

\* An exchange of two places leaves a sequence as long as it was (shuffle).
LEMMA ExchangeKeeps ==
    ASSUME NEW S, NEW q \in Seq(S), NEW i \in 1 .. Len(q), NEW j \in 1 .. Len(q)
    PROVE  Exchanged(q, i, j) \in Seq(S) /\ Len(Exchanged(q, i, j)) = Len(q)
<1>1. q \in [1 .. Len(q) -> S] /\ Len(q) \in Nat
  OBVIOUS
<1>2. q[i] \in S /\ q[j] \in S
  BY <1>1
<1>3. Exchanged(q, i, j) \in [1 .. Len(q) -> S]
  BY <1>1, <1>2 DEF Exchanged
<1>4. QED
  BY <1>1, <1>3

\* No class loses a place by it.
LEMMA ExchangePlaces ==
    ASSUME NEW S, NEW q \in Seq(S), NEW i \in 1 .. Len(q), NEW j \in 1 .. Len(q), NEW class
    PROVE  Cardinality(Places(q, class)) =< Cardinality(Places(Exchanged(q, i, j), class))
<1>1. PICK e : e = Exchanged(q, i, j)
  OBVIOUS
<1>2. e \in Seq(S) /\ Len(e) = Len(q)
  BY <1>1, ExchangeKeeps
<1>3. DOMAIN q = 1 .. Len(q) /\ DOMAIN e = 1 .. Len(q)
  BY <1>2
<1>4. e = [[q EXCEPT ![i] = q[j]] EXCEPT ![j] = q[i]]
  BY <1>1 DEF Exchanged
<1>5. e[j] = q[i] /\ e[i] = q[j] /\ \A k \in 1 .. Len(q) : k # i /\ k # j => e[k] = q[k]
  BY <1>3, <1>4
<1>6. PICK f : f = [k \in Places(q, class) |-> IF k = i THEN j ELSE IF k = j THEN i ELSE k]
  OBVIOUS
<1>7. ASSUME NEW k \in Places(q, class) PROVE f[k] \in Places(e, class)
  <2>1. k \in 1 .. Len(q) /\ ClassOf(q[k]) = class
    BY <1>3 DEF Places
  <2>2. f[k] \in 1 .. Len(q) /\ e[f[k]] = q[k]
    BY <1>5, <1>6, <2>1
  <2>3. QED
    BY <1>3, <2>1, <2>2 DEF Places
<1>8. f \in [Places(q, class) -> Places(e, class)]
  BY <1>6, <1>7
<1>9. f \in Injection(Places(q, class), Places(e, class))
  BY <1>6, <1>8 DEF Injection, IsInjective
<1>10. IsFiniteSet(Places(e, class))
  BY <1>2, PlacesCount
<1>11. QED
  BY <1>1, <1>9, <1>10, FS_Injection

-----------------------------------------------------------------------------
(* uniform_from and shuffle *)

\* The words that give the choice a
Words(n, a) == {r \in 0 .. MaxWord : r < Zone(n) /\ r % n = a}

\* A draw among any number of choices, from words of any width, favours none: as many words
\* below the zone give one choice as any other (generate.rs uniform_from: "rejection
\* sampling").
THEOREM WordsFair == ASSUME NEW n \in Nat PROVE Fair(n)
<1> SUFFICES ASSUME NEW a \in 0 .. n - 1, NEW b \in 0 .. n - 1
             PROVE  Cardinality(Words(n, a)) = Cardinality(Words(n, b))
  BY DEF Fair, Words
<1>1. n \in Nat \ {0} /\ MaxWord \in Nat
  BY GeneratorAssumption
<1>2. PICK k \in Nat : Zone(n) = n * k /\ n * k =< MaxWord
  <2>1. /\ MaxWord = n * (MaxWord \div n) + (MaxWord % n)
        /\ MaxWord % n \in 0 .. n - 1 /\ MaxWord \div n \in Nat
    BY <1>1, Divided
  <2>2. Zone(n) = n * (MaxWord \div n) /\ n * (MaxWord \div n) =< MaxWord
    BY <1>1, <2>1 DEF Zone
  <2>3. QED
    BY <2>1, <2>2
<1>3. ASSUME NEW c \in 0 .. n - 1, NEW d \in 0 .. n - 1, NEW r \in Words(n, c)
      PROVE  r + (d - c) \in Words(n, d)
  <2>1. r \in Nat /\ r < n * k /\ r % n = c
    BY <1>2, <1>3 DEF Words
  <2>2. PICK q \in Nat : r = n * q + c
    BY <1>1, <2>1, Divided
  <2>3. n * q + d < n * k
    BY <1>1, <1>3, <2>1, <2>2, BlockBelow
  <2>4. n * q + d \in Nat /\ (n * q + d) % n = d
    BY <1>1, <1>3, <2>2, RestOfSum
  <2>5. n * q \in Nat /\ n * k \in Nat
    BY <1>1, <1>2, <2>2
  <2>6. r + (d - c) = n * q + d
    BY <1>3, <2>2, <2>5
  <2>7. n * q + d \in 0 .. MaxWord
    BY <1>1, <1>2, <2>3, <2>4, <2>5
  <2>8. QED
    BY <1>2, <2>3, <2>4, <2>6, <2>7 DEF Words
<1>4. PICK f : f = [r \in Words(n, a) |-> r + (b - a)]
  OBVIOUS
<1>5. Words(n, a) \subseteq Nat /\ Words(n, b) \subseteq Nat /\ a \in Nat /\ b \in Nat
  BY DEF Words
<1>6. f \in [Words(n, a) -> Words(n, b)]
  BY <1>3, <1>4
<1>7. f \in Injection(Words(n, a), Words(n, b))
  BY <1>4, <1>5, <1>6 DEF Injection, IsInjective
<1>8. ASSUME NEW t \in Words(n, b) PROVE \E r \in Words(n, a) : f[r] = t
  <2>1. t + (a - b) \in Words(n, a)
    BY <1>3, <1>8
  <2>2. f[t + (a - b)] = t
    BY <1>4, <1>5, <1>8, <2>1
  <2>3. QED
    BY <2>1, <2>2
<1>9. ExistsBijection(Words(n, a), Words(n, b))
  BY <1>6, <1>7, <1>8 DEF ExistsBijection, Bijection, Surjection
<1>10. IsFiniteSet(Words(n, a))
  <2>1. IsFiniteSet(0 .. MaxWord)
    BY <1>1, FS_Interval
  <2>2. QED
    BY <2>1, FS_Subset DEF Words
<1>11. QED
  BY <1>9, <1>10, FS_Bijection

\* Different swaps give different orders.
LEMMA SwapsDiffer == ASSUME NEW n \in Nat \ {0} PROVE Cardinality(Orders(n)) = n
<1>1. ASSUME NEW j \in 1 .. n PROVE Exchanged([i \in 1 .. n |-> i], n, j)[n] = j
  BY <1>1 DEF Exchanged
<1>2. PICK f : f = [j \in 1 .. n |-> Exchanged([i \in 1 .. n |-> i], n, j)]
  OBVIOUS
<1>3. f \in [1 .. n -> Orders(n)] /\ \A j \in 1 .. n : f[j][n] = j
  BY <1>1, <1>2 DEF Orders
<1>4. f \in Injection(1 .. n, Orders(n))
  BY <1>3 DEF Injection, IsInjective
<1>5. \A t \in Orders(n) : \E j \in 1 .. n : f[j] = t
  BY <1>2 DEF Orders
<1>6. ExistsBijection(1 .. n, Orders(n))
  BY <1>3, <1>4, <1>5 DEF ExistsBijection, Bijection, Surjection
<1>7. QED
  BY <1>6, FS_CountingElements

\* The buffer grows to the length asked for out of what the policy leaves, what is owed to
\* the classes first, and the shuffle then moves characters without losing one.
BufInv ==
    /\ index \in Nat
    /\ phase \in {"idle", "refused", "drawing", "shuffling", "done"}
    /\ phase = "idle" => buf = <<>>
    /\ phase # "idle" => IsRequest(request)
    /\ phase = "refused" => ~Generable(request)
    /\ phase \in {"drawing", "shuffling", "done"} =>
           Generable(request) /\ buf \in Seq(ToSet(EffectiveSet(request.charset)))
    /\ phase = "drawing" =>
           /\ Len(buf) =< request.length
           /\ OnlySymbols(request.charset) =>
                  \A i \in 1 .. Len(buf) :
                      i =< Len(Owed(request.required)) =>
                          ClassOf(buf[i]) = Owed(request.required)[i]
    /\ phase \in {"shuffling", "done"} =>
           /\ Len(buf) = request.length
           /\ OnlySymbols(request.charset) =>
                  \A class \in Classes :
                      Cardinality(Places(buf, class)) >= request.required[class]
    /\ phase = "shuffling" => index =< Len(buf)

\* A draw has a pool of different characters, of what the policy leaves and, while a class
\* is owed a character, of that class.
LEMMA PoolDrawn ==
    ASSUME BufInv, phase = "drawing", Len(buf) < request.length
    PROVE  /\ Pool \in Seq(ToSet(EffectiveSet(request.charset))) /\ Pool # <<>>
           /\ IsInjective(Pool)
           /\ OnlySymbols(request.charset) /\ Len(buf) < Len(Owed(request.required)) =>
                  \A c \in ToSet(Pool) : ClassOf(c) = Owed(request.required)[Len(buf) + 1]
<1>1. IsRequest(request) /\ Generable(request)
  BY DEF BufInv
<1>2. PICK S : S = ToSet(EffectiveSet(request.charset))
  OBVIOUS
<1>3. buf \in Seq(S) /\ Len(buf) \in Nat
  BY <1>2 DEF BufInv
<1>4. PICK owed : owed = Owed(request.required)
  OBVIOUS
<1>5. request.required \in [Classes -> Nat]
  BY <1>1 DEF IsRequest
<1>6. /\ owed \in Seq(Classes) /\ Len(owed) = Total(request.required)
      /\ \A class \in Classes : \E o \in Nat :
             /\ o + request.required[class] =< Total(request.required)
             /\ \A i \in 1 .. request.required[class] : owed[o + i] = class
  BY <1>4, <1>5, OwedRows, ZenonT(60)
<1>7. CASE Len(buf) < Len(owed)
  <2>1. Len(buf) + 1 \in 1 .. Len(owed)
    BY <1>3, <1>6, <1>7
  <2>2. PICK class \in Classes : class = owed[Len(buf) + 1]
    BY <1>6, <2>1
  <2>3. Pool = Effective(request.charset, class)
    BY <1>4, <1>7, <2>2 DEF Pool
  <2>4. /\ Pool \in Seq(S) /\ IsInjective(Pool)
        /\ OnlySymbols(request.charset) => \A c \in ToSet(Pool) : ClassOf(c) = class
    BY <1>1, <1>2, <2>3, EffectiveParts
  <2>5. request.required[class] > 0
    BY <1>4, <1>5, <2>1, <2>2, OwedRows
  <2>6. Pool # <<>>
    BY <1>1, <2>3, <2>5 DEF Generable
  <2>7. QED
    BY <1>2, <1>4, <2>2, <2>4, <2>6
<1>8. CASE ~ Len(buf) < Len(owed)
  <2>1. Pool = EffectiveSet(request.charset)
    BY <1>4, <1>8 DEF Pool
  <2>2. EffectiveSet(request.charset) \in Seq(S) /\ IsInjective(EffectiveSet(request.charset))
    BY <1>1, <1>2, EffectiveParts
  <2>3. Len(EffectiveSet(request.charset)) >= 2
    BY <1>1 DEF Generable
  <2>4. QED
    BY <1>2, <1>4, <1>8, <2>1, <2>2, <2>3
<1>9. QED
  BY <1>7, <1>8

\* Every step of generate keeps the invariant.
LEMMA BufNext == BufInv /\ [GenerateNext]_generateVars => BufInv'
<1> SUFFICES ASSUME BufInv, [GenerateNext]_generateVars PROVE BufInv'
  OBVIOUS
<1>0. PICK S : S = ToSet(EffectiveSet(request.charset))
  OBVIOUS
<1>1. CASE Ask
  <2>1. PICK policy \in Policies :
           /\ phase = "idle"
           /\ phase' = IF Generable(ResolveOver(policy, DefaultRequest)) THEN "drawing" ELSE "refused"
           /\ request' = ResolveOver(policy, DefaultRequest)
           /\ UNCHANGED <<buf, index>>
    BY <1>1 DEF Ask
  <2>2. PICK req : req = ResolveOver(policy, DefaultRequest)
    OBVIOUS
  <2>3. IsRequest(req) /\ request' = req
    BY <2>1, <2>2, PolicyAssumption
  <2>4. phase' = IF Generable(req) THEN "drawing" ELSE "refused"
    BY <2>1, <2>2
  <2>5. buf' = <<>> /\ index' \in Nat
    BY <2>1 DEF BufInv
  <2>6. CASE Generable(req)
    <3>1. MinLength \in Nat /\ MaxLength \in Nat
      BY GeneratorAssumption
    <3>2. req.length >= 0
      BY <2>6, <3>1 DEF Generable
    <3>3. <<>> \in Seq(ToSet(EffectiveSet(req.charset))) /\ Len(<<>>) = 0
      OBVIOUS
    <3>4. phase' = "drawing"
      BY <2>4, <2>6
    <3>5. QED
      BY <2>3, <2>5, <2>6, <3>2, <3>3, <3>4 DEF BufInv
  <2>7. CASE ~Generable(req)
    <3>1. phase' = "refused"
      BY <2>4, <2>7
    <3>2. QED
      BY <2>3, <2>5, <2>7, <3>1 DEF BufInv
  <2>8. QED
    BY <2>6, <2>7
<1>2. CASE Draw
  <2>1. PICK r \in 0 .. MaxWord :
           /\ phase = "drawing" /\ Len(buf) < request.length
           /\ r < Zone(Len(Pool))
           /\ buf' = Append(buf, Pool[(r % Len(Pool)) + 1])
           /\ UNCHANGED <<phase, request, index>>
    BY <1>2 DEF Draw
  <2>2. /\ Pool \in Seq(S) /\ Pool # <<>>
        /\ OnlySymbols(request.charset) /\ Len(buf) < Len(Owed(request.required)) =>
               \A c \in ToSet(Pool) : ClassOf(c) = Owed(request.required)[Len(buf) + 1]
    BY <1>0, <2>1, PoolDrawn
  <2>3. PICK n \in Nat \ {0} : n = Len(Pool)
    BY <2>2
  <2>4. r \in Nat
    BY GeneratorAssumption
  <2>5. (r % n) + 1 \in 1 .. n
    BY <2>4, Divided
  <2>6. PICK c : c = Pool[(r % Len(Pool)) + 1]
    OBVIOUS
  <2>7. c \in S /\ c \in ToSet(Pool)
    BY <2>2, <2>3, <2>5, <2>6 DEF ToSet
  <2>8. buf \in Seq(S) /\ Len(buf) \in Nat
    BY <1>0, <2>1 DEF BufInv
  <2>9. /\ buf' \in Seq(S) /\ Len(buf') = Len(buf) + 1 /\ buf'[Len(buf) + 1] = c
        /\ \A i \in 1 .. Len(buf) : buf'[i] = buf[i]
    BY <2>1, <2>6, <2>7, <2>8
  <2>10. request.length \in Nat
    BY <2>1 DEF BufInv, IsRequest
  <2>11. Len(buf') =< request'.length
    BY <2>1, <2>8, <2>9, <2>10
  <2>12. ASSUME OnlySymbols(request.charset),
                NEW i \in 1 .. Len(buf'), i =< Len(Owed(request.required))
         PROVE  ClassOf(buf'[i]) = Owed(request.required)[i]
    <3>1. CASE i = Len(buf) + 1
      <4>1. request.required \in [Classes -> Nat]
        BY <2>1 DEF BufInv, IsRequest
      <4>2. Len(Owed(request.required)) \in Nat
        BY <4>1, OwedRows
      <4>3. Len(buf) < Len(Owed(request.required))
        BY <2>8, <2>12, <3>1, <4>2
      <4>4. QED
        BY <2>2, <2>7, <2>9, <2>12, <3>1, <4>3
    <3>2. CASE i # Len(buf) + 1
      <4>1. i \in 1 .. Len(buf)
        BY <2>8, <2>9, <3>2
      <4>2. QED
        BY <2>1, <2>9, <2>12, <4>1 DEF BufInv
    <3>3. QED
      BY <3>1, <3>2
  <2>13. phase' = "drawing" /\ request' = request /\ index' = index
    BY <2>1
  <2>14. QED
    BY <1>0, <2>1, <2>9, <2>11, <2>12, <2>13 DEF BufInv
<1>3. CASE StartShuffle
  <2>1. /\ phase = "drawing" /\ Len(buf) = request.length /\ phase' = "shuffling"
        /\ index' = Len(buf) /\ request' = request /\ buf' = buf
    BY <1>3 DEF StartShuffle
  <2>2. buf \in Seq(S) /\ Len(buf) \in Nat
    BY <1>0, <2>1 DEF BufInv
  <2>3. IsRequest(request) /\ Generable(request) /\ request.required \in [Classes -> Nat]
    BY <2>1 DEF BufInv, IsRequest
  <2>4. Total(request.required) =< Len(buf)
    BY <2>1, <2>3 DEF Generable
  <2>5. OnlySymbols(request.charset) =>
            \A i \in 1 .. Len(buf) :
                i =< Len(Owed(request.required)) => ClassOf(buf[i]) = Owed(request.required)[i]
    BY <2>1 DEF BufInv
  <2>6. ASSUME OnlySymbols(request.charset), NEW class \in Classes
        PROVE  Cardinality(Places(buf, class)) >= request.required[class]
    BY <2>2, <2>3, <2>4, <2>5, <2>6, MinimumsMet
  <2>7. OnlySymbols(request'.charset) =>
            \A class \in Classes : Cardinality(Places(buf', class)) >= request'.required[class]
    BY <2>1, <2>6
  <2>8. QED
    BY <1>0, <2>1, <2>2, <2>3, <2>7 DEF BufInv
<1>4. CASE Swap
  <2>1. PICK r \in 0 .. MaxWord :
           /\ phase = "shuffling" /\ index >= 2
           /\ buf' = Exchanged(buf, index, (r % index) + 1)
           /\ index' = index - 1 /\ phase' = phase /\ request' = request
    BY <1>4 DEF Swap
  <2>2. buf \in Seq(S)
    BY <1>0, <2>1 DEF BufInv
  <2>3. index \in Nat \ {0} /\ index =< Len(buf) /\ r \in Nat /\ Len(buf) \in Nat
    BY <2>1, <2>2, GeneratorAssumption DEF BufInv
  <2>4. r % index \in 0 .. index - 1
    BY <2>3, Divided
  <2>5. index \in 1 .. Len(buf) /\ (r % index) + 1 \in 1 .. Len(buf)
    BY <2>3, <2>4
  <2>6. buf' \in Seq(S) /\ Len(buf') = Len(buf)
    BY <2>1, <2>2, <2>5, ExchangeKeeps
  <2>7. ASSUME OnlySymbols(request.charset), NEW class \in Classes
        PROVE  Cardinality(Places(buf', class)) >= request.required[class]
    <3>1. Cardinality(Places(buf, class)) =< Cardinality(Places(buf', class))
      BY <2>1, <2>2, <2>5, ExchangePlaces
    <3>2. Cardinality(Places(buf, class)) \in Nat /\ Cardinality(Places(buf', class)) \in Nat
      BY <2>2, <2>6, PlacesCount
    <3>3. Cardinality(Places(buf, class)) >= request.required[class]
      BY <2>1, <2>7 DEF BufInv
    <3>4. request.required[class] \in Nat
      BY <2>1 DEF BufInv, IsRequest
    <3>5. QED
      BY <3>1, <3>2, <3>3, <3>4
  <2>8. IsRequest(request) /\ Generable(request) /\ Len(buf) = request.length
    BY <2>1 DEF BufInv
  <2>9. index - 1 \in Nat /\ index - 1 =< Len(buf)
    BY <2>3
  <2>10. QED
    BY <1>0, <2>1, <2>6, <2>7, <2>8, <2>9 DEF BufInv
<1>5. CASE Finish
  BY <1>5 DEF Finish, BufInv
<1>6. CASE UNCHANGED generateVars
  BY <1>6 DEF generateVars, BufInv
<1>7. QED
  BY <1>1, <1>2, <1>3, <1>4, <1>5, <1>6 DEF GenerateNext

\* Where no letter is among the symbols, no password satisfies a request whose minimums exceed its length or ask for a class that
\* the policy leaves nothing of (the checks of generate that precede its first draw).
LEMMA RefusedHaveNone ==
    ASSUME NEW req, IsRequest(req), ~Generable(req), OnlySymbols(req.charset),
           Len(EffectiveSet(req.charset)) >= 2, req.length \in MinLength .. MaxLength,
           NEW password \in [1 .. req.length -> ToSet(EffectiveSet(req.charset))],
           Valid(password, req)
    PROVE  FALSE
<1>1. PICK S : S = ToSet(EffectiveSet(req.charset))
  OBVIOUS
<1>2. req.length \in Nat /\ req.required \in [Classes -> Nat]
  BY DEF IsRequest
<1>3. password \in Seq(S) /\ Len(password) = req.length
  BY <1>1, <1>2
<1>4. ASSUME NEW class \in Classes
      PROVE  /\ Cardinality(Places(password, class)) \in Nat
             /\ Cardinality(Places(password, class)) >= req.required[class]
  BY <1>3, PlacesCount DEF Valid
<1>5. Total(req.required) =< req.length
  <2>1. Cardinality(Places(password, "lowercase")) + Cardinality(Places(password, "uppercase"))
          + Cardinality(Places(password, "digits"))
          + Cardinality(Places(password, "symbols")) =< req.length
    BY <1>3, PlacesShared
  <2>2. /\ req.required["lowercase"] \in Nat /\ req.required["uppercase"] \in Nat
        /\ req.required["digits"] \in Nat /\ req.required["symbols"] \in Nat
    BY <1>2 DEF Classes
  <2>3. QED
    BY <1>2, <1>4, <2>1, <2>2, SMTT(30) DEF Total, Classes
<1>6. PICK class \in Classes : req.required[class] > 0 /\ Effective(req.charset, class) = <<>>
  BY <1>5 DEF Generable
<1>7. Places(password, class) # {}
  <2>1. Cardinality({}) = 0
    BY FS_EmptySet
  <2>2. Cardinality(Places(password, class)) # 0
    BY <1>2, <1>4, <1>6
  <2>3. QED
    BY <2>1, <2>2
<1>8. PICK i \in 1 .. req.length : ClassOf(password[i]) = class
  BY <1>7 DEF Places
<1>9. password[i] \in ToSet(Effective(req.charset, class))
  BY <1>8, EffectiveParts
<1>10. ToSet(<<>>) = {}
  BY DEF ToSet
<1>11. QED
  BY <1>6, <1>9, <1>10

\* Initially nothing is drawn.
LEMMA BufFirst == GenerateInit => BufInv
<1> SUFFICES ASSUME GenerateInit PROVE BufInv
  OBVIOUS
<1>1. buf = <<>> /\ phase = "idle" /\ index = 0
  BY DEF GenerateInit
<1>2. QED
  BY <1>1 DEF BufInv

\* Every draw has characters to choose from and favours none, as the set it draws from has
\* each character once even when a Custom set repeats a letter, and every swap of the
\* shuffle chooses among as many orders as it has choices, all as likely: for every request,
\* every alphabet and every width of the random words (charset.rs effective_set,
\* generate.rs uniform_from, shuffle).
THEOREM AllDrawsUniform == GenerateSpec => []DrawsUniform
<1>1. BufInv => DrawsUniform
  <2> SUFFICES ASSUME BufInv PROVE DrawsUniform
    OBVIOUS
  <2>1. ASSUME phase = "drawing", Len(buf) < request.length
        PROVE  Pool # <<>> /\ IsInjective(Pool) /\ Fair(Len(Pool))
    <3>1. Pool # <<>> /\ IsInjective(Pool) /\ Len(Pool) \in Nat
      BY <2>1, PoolDrawn
    <3>2. QED
      BY <3>1, WordsFair
  <2>2. ASSUME index >= 2 PROVE Fair(index) /\ Cardinality(Orders(index)) = index
    <3>1. index \in Nat \ {0}
      BY <2>2 DEF BufInv
    <3>2. QED
      BY <3>1, WordsFair, SwapsDiffer
  <2>3. QED
    BY <2>1, <2>2 DEF DrawsUniform
<1>2. QED
  BY <1>1, BufFirst, BufNext, PTL DEF GenerateSpec

\* What generate returns has the length that was asked for and only characters of its own
\* policy; where no letter is among the symbols, it passes the validation of that policy,
\* minimums included, and generate refuses only requests that no password satisfies or
\* that leave no choice: for every policy and every alphabet (generate.rs generate).
THEOREM AllGeneratedAsAsked == GenerateSpec => []GeneratedAsAsked
<1>1. BufInv => GeneratedAsAsked
  <2> SUFFICES ASSUME BufInv PROVE GeneratedAsAsked
    OBVIOUS
  <2>1. ASSUME phase = "done"
        PROVE  /\ Len(buf) = request.length
               /\ ToSet(buf) \subseteq ToSet(EffectiveSet(request.charset))
               /\ OnlySymbols(request.charset) => Valid(buf, request)
    <3>1. /\ Len(buf) = request.length /\ Generable(request)
          /\ buf \in Seq(ToSet(EffectiveSet(request.charset)))
          /\ OnlySymbols(request.charset) =>
                 \A class \in Classes :
                     Cardinality(Places(buf, class)) >= request.required[class]
      BY <2>1 DEF BufInv
    <3>2. ToSet(buf) \subseteq ToSet(EffectiveSet(request.charset))
      BY <3>1, OwnMembers
    <3>3. QED
      BY <3>1, <3>2 DEF Valid, Generable
  <2>2. ASSUME phase = "refused", OnlySymbols(request.charset),
               ~ Len(EffectiveSet(request.charset)) < 2,
               request.length \in MinLength .. MaxLength,
               NEW password \in [1 .. request.length -> ToSet(EffectiveSet(request.charset))],
               Valid(password, request)
        PROVE  FALSE
    <3>1. IsRequest(request) /\ ~Generable(request)
      BY <2>2 DEF BufInv
    <3>2. Len(EffectiveSet(request.charset)) \in Nat
      BY <3>1, EffectiveParts
    <3>3. Len(EffectiveSet(request.charset)) >= 2
      BY <2>2, <3>2
    <3>4. QED
      BY <2>2, <3>1, <3>3, RefusedHaveNone
  <2>3. QED
    BY <2>1, <2>2 DEF GeneratedAsAsked
<1>2. QED
  BY <1>1, BufFirst, BufNext, PTL DEF GenerateSpec

-----------------------------------------------------------------------------
(* verify of verifier.rs *)

CodeInv ==
    /\ hmac = <<>> \/ hmac \in [0 .. MaxStep -> 0 .. MaxTruncated]
    /\ time \in Nat /\ last \subseteq 0 .. MaxStep

\* The powers of the base (POW10)
LEMMA Powers ==
    \E pow \in [0 .. Digits -> Nat \ {0}] :
        /\ pow[0] = 1 /\ \A k \in 0 .. Digits : Base ^ k = pow[k]
        /\ \A k \in 1 .. Digits : pow[k] = Base * pow[k - 1]
<1>1. Base \in Nat \ {0} /\ Digits \in Nat \ {0}
  BY CodeAssumption
<1>2. PICK pow : pow = [k \in 0 .. Digits |-> Base ^ k]
  OBVIOUS
<1>3. \A k \in 1 .. Digits : k \in 0 .. Digits /\ k - 1 \in 0 .. Digits
  BY <1>1
<1>4. pow[0] = 1 /\ \A k \in 0 .. Digits : Base ^ k = pow[k]
  BY <1>1, <1>2, CodeAssumption
<1>5. \A k \in 1 .. Digits : pow[k] = Base * pow[k - 1]
  BY <1>3, <1>4, CodeAssumption
<1>6. 0 .. Digits \subseteq {k \in 0 .. Digits : pow[k] \in Nat \ {0}}
  <2>1. PICK S : S = {k \in 0 .. Digits : pow[k] \in Nat \ {0}}
    OBVIOUS
  <2>2. 0 \in S
    BY <1>1, <1>4, <2>1
  <2>3. ASSUME NEW k \in 1 .. Digits, k - 1 \in S PROVE k \in S
    <3>1. PICK p \in Nat \ {0} : p = pow[k - 1]
      BY <2>1, <2>3
    <3>2. Base * p \in Nat \ {0}
      BY <1>1
    <3>3. pow[k] = Base * p
      BY <1>5, <3>1
    <3>4. QED
      BY <1>3, <2>1, <3>2, <3>3
  <2>4. QED
    BY <1>1, <2>1, <2>2, <2>3, UpTo
<1>7. pow \in [0 .. Digits -> Nat \ {0}]
  BY <1>2, <1>6
<1>8. QED
  BY <1>4, <1>5, <1>7

\* format_padded writes digits, and read from the left they make the value.
LEMMA DigitsRead ==
    ASSUME NEW v \in 0 .. Base ^ Digits - 1
    PROVE  FormatPadded(v) \in [1 .. Digits -> 0 .. Base - 1] /\ Reads(FormatPadded(v), v)
<1>1. Base \in Nat \ {0} /\ Digits \in Nat \ {0}
  BY CodeAssumption
<1>2. PICK pow \in [0 .. Digits -> Nat \ {0}] :
         /\ pow[0] = 1 /\ \A k \in 0 .. Digits : Base ^ k = pow[k]
         /\ \A k \in 1 .. Digits : pow[k] = Base * pow[k - 1]
  BY Powers
<1>3. Base ^ Digits = pow[Digits] /\ pow[Digits] \in Nat \ {0} /\ v \in Nat /\ v < pow[Digits]
  <2>1. Digits \in 0 .. Digits
    BY <1>1
  <2>2. pow[Digits] \in Nat \ {0} /\ Base ^ Digits = pow[Digits]
    BY <1>2, <2>1
  <2>3. QED
    BY <2>2
<1>4. PICK n : n = [i \in 0 .. Digits |-> v \div pow[Digits - i]]
  OBVIOUS
<1>5. ASSUME NEW i \in 0 .. Digits
      PROVE  n[i] = v \div pow[Digits - i] /\ n[i] \in Nat /\ n[i] =< v
  <2>1. PICK p \in Nat \ {0} : p = pow[Digits - i]
    BY <1>1
  <2>2. v \div p \in Nat /\ v \div p =< v
    BY <1>3
  <2>3. QED
    BY <1>4, <2>1, <2>2
<1>6. n \in [0 .. Digits -> 0 .. Base ^ Digits - 1]
  BY <1>3, <1>4, <1>5
<1>7. n[0] = 0 /\ n[Digits] = v
  <2>1. v \div pow[Digits] = 0
    <3>1. PICK p \in Nat \ {0} : p = pow[Digits] /\ v < p
      BY <1>3
    <3>2. v \div p = 0
      BY <1>3, <3>1
    <3>3. QED
      BY <3>1, <3>2
  <2>2. v \div 1 = v
    BY <1>3
  <2>3. Digits - 0 = Digits /\ Digits - Digits = 0 /\ 0 \in 0 .. Digits /\ Digits \in 0 .. Digits
    BY <1>1
  <2>4. n[0] = v \div pow[Digits] /\ n[Digits] = v \div pow[0]
    BY <1>5, <2>3
  <2>5. QED
    BY <1>2, <2>1, <2>2, <2>4
<1>8. ASSUME NEW i \in 1 .. Digits
      PROVE  /\ FormatPadded(v)[i] = n[i] % Base
             /\ n[i] % Base \in 0 .. Base - 1
             /\ n[i] = n[i - 1] * Base + (n[i] % Base)
  <2>1. /\ i \in 0 .. Digits /\ i - 1 \in 0 .. Digits /\ Digits - i \in 0 .. Digits
        /\ Digits - i + 1 \in 1 .. Digits /\ Digits - (i - 1) = Digits - i + 1
        /\ Digits - i + 1 - 1 = Digits - i
    BY <1>1
  <2>2. PICK p \in Nat \ {0} : p = pow[Digits - i]
    BY <2>1
  <2>3. pow[Digits - (i - 1)] = Base * p
    BY <1>2, <2>1, <2>2
  <2>4. n[i - 1] = (v \div p) \div Base
    <3>1. v \div (Base * p) = (v \div p) \div Base
      BY <1>1, <1>3, DividedTwice
    <3>2. n[i - 1] = v \div pow[Digits - (i - 1)]
      BY <1>5, <2>1
    <3>3. QED
      BY <2>3, <3>1, <3>2
  <2>5. n[i] = v \div p /\ n[i] \in Nat
    BY <1>5, <2>1, <2>2
  <2>6. PICK a \in Nat : a = n[i]
    BY <2>5
  <2>7. a = Base * (a \div Base) + (a % Base) /\ a % Base \in 0 .. Base - 1 /\ a \div Base \in Nat
    BY <1>1, Divided
  <2>8. n[i - 1] = a \div Base
    BY <2>4, <2>5, <2>6
  <2>9. PICK q \in Nat, r \in 0 .. Base - 1 : q = a \div Base /\ r = a % Base
    BY <2>7
  <2>10. a = q * Base + r
    BY <1>1, <2>7, <2>9
  <2>11. FormatPadded(v)[i] = n[i] % Base
    BY <1>2, <2>1, <2>2, <2>5 DEF FormatPadded
  <2>12. QED
    BY <2>6, <2>8, <2>9, <2>10, <2>11
<1>9. FormatPadded(v) \in [1 .. Digits -> 0 .. Base - 1]
  <2>1. PICK g : g = FormatPadded(v)
    OBVIOUS
  <2>2. g = [i \in 1 .. Digits |-> g[i]]
    BY <2>1 DEF FormatPadded
  <2>3. \A i \in 1 .. Digits : g[i] \in 0 .. Base - 1
    BY <1>8, <2>1
  <2>4. QED
    BY <2>1, <2>2, <2>3
<1>10. QED
  BY <1>6, <1>7, <1>8, <1>9 DEF Reads

\* Two sequences of digits that make the same value are equal.
LEMMA ReadsOnce ==
    ASSUME NEW v, NEW c \in [1 .. Digits -> 0 .. Base - 1], Reads(c, v),
           NEW d \in [1 .. Digits -> 0 .. Base - 1], Reads(d, v)
    PROVE  c = d
<1>1. Base \in Nat \ {0} /\ Digits \in Nat \ {0}
  BY CodeAssumption
<1>2. PICK n \in [0 .. Digits -> 0 .. Base ^ Digits - 1] :
         n[Digits] = v /\ \A i \in 1 .. Digits : n[i] = n[i - 1] * Base + c[i]
  BY DEF Reads
<1>3. PICK m \in [0 .. Digits -> 0 .. Base ^ Digits - 1] :
         m[Digits] = v /\ \A i \in 1 .. Digits : m[i] = m[i - 1] * Base + d[i]
  BY DEF Reads
<1>4. ASSUME NEW i \in 1 .. Digits, n[i] = m[i] PROVE n[i - 1] = m[i - 1] /\ c[i] = d[i]
  <2>1. i - 1 \in 0 .. Digits
    BY <1>1
  <2>2. PICK q \in Nat, p \in Nat : q = n[i - 1] /\ p = m[i - 1]
    BY <2>1
  <2>3. PICK a \in 0 .. Base - 1, b \in 0 .. Base - 1 : a = c[i] /\ b = d[i]
    OBVIOUS
  <2>4. q * Base + a = p * Base + b
    BY <1>2, <1>3, <1>4, <2>2, <2>3
  <2>5. Base * q + a = Base * p + b
    BY <1>1, <2>4
  <2>6. q = p /\ a = b
    BY <1>1, <2>5, SplitOnce, ZenonT(60)
  <2>7. QED
    BY <2>2, <2>3, <2>6
<1>5. PICK S : S = {k \in 0 .. Digits : n[Digits - k] = m[Digits - k]}
  OBVIOUS
<1>6. 0 \in S
  <2>1. Digits - 0 = Digits /\ 0 \in 0 .. Digits
    BY <1>1
  <2>2. QED
    BY <1>2, <1>3, <1>5, <2>1
<1>7. ASSUME NEW k \in 1 .. Digits, k - 1 \in S PROVE k \in S
  <2>1. /\ Digits - (k - 1) \in 1 .. Digits /\ k \in 0 .. Digits
        /\ Digits - (k - 1) - 1 = Digits - k
    BY <1>1
  <2>2. n[Digits - (k - 1)] = m[Digits - (k - 1)]
    BY <1>5, <1>7
  <2>3. n[Digits - k] = m[Digits - k]
    BY <1>4, <2>1, <2>2
  <2>4. QED
    BY <1>5, <2>1, <2>3
<1>8. 0 .. Digits \subseteq S
  BY <1>1, <1>6, <1>7, UpTo
<1>9. \A i \in 1 .. Digits : c[i] = d[i]
  <2> SUFFICES ASSUME NEW i \in 1 .. Digits PROVE c[i] = d[i]
    OBVIOUS
  <2>1. Digits - i \in 0 .. Digits /\ Digits - (Digits - i) = i
    BY <1>1
  <2>2. n[i] = m[i]
    BY <1>5, <1>8, <2>1
  <2>3. QED
    BY <1>4, <2>2
<1>10. QED
  <2>1. DOMAIN c = 1 .. Digits /\ DOMAIN d = 1 .. Digits
    OBVIOUS
  <2>2. c = [i \in 1 .. Digits |-> c[i]] /\ d = [i \in 1 .. Digits |-> d[i]]
    OBVIOUS
  <2>3. [i \in 1 .. Digits |-> c[i]] = [i \in 1 .. Digits |-> d[i]]
    BY <1>9
  <2>4. QED
    BY <2>2, <2>3, Zenon

\* The steps of the window are steps.
LEMMA Steps ==
    ASSUME CodeInv
    PROVE  /\ MaxStep \in Nat /\ StepAt(time) \in Nat /\ Window \subseteq 0 .. MaxStep
<1>1. MaxTime \in Nat /\ StepLength \in Nat \ {0} /\ Skew \in Nat /\ time \in Nat
  BY CodeAssumption DEF CodeInv
<1>2. StepAt(MaxTime) \in Nat /\ StepAt(time) \in Nat
  BY <1>1, Divided DEF StepAt
<1>3. QED
  BY <1>1, <1>2 DEF MaxStep, Window

\* The code of a step is the one that an authenticator shows.
LEMMA CodeShown ==
    ASSUME CodeInv, hmac # <<>>, NEW s \in 0 .. MaxStep
    PROVE  Shown(s) = CodeOf(s) /\ Parsed(CodeOf(s))
<1>1. HotpValue(s) \in 0 .. Base ^ Digits - 1
  <2>1. hmac[s] \in Nat
    <3>1. hmac[s] \in 0 .. MaxTruncated
      BY DEF CodeInv
    <3>2. QED
      BY <3>1, CodeAssumption
  <2>2. PICK p \in Nat \ {0} : p = Base ^ Digits
    <3>1. Digits \in 0 .. Digits
      BY CodeAssumption
    <3>2. QED
      BY <3>1, Powers
  <2>3. hmac[s] % p \in 0 .. p - 1
    BY <2>1, <2>2, Divided
  <2>4. QED
    BY <2>2, <2>3 DEF HotpValue
<1>2. CodeOf(s) \in [1 .. Digits -> 0 .. Base - 1] /\ Reads(CodeOf(s), HotpValue(s))
  BY <1>1, DigitsRead DEF CodeOf
<1>3. Shown(s) \in [1 .. Digits -> 0 .. Base - 1] /\ Reads(Shown(s), HotpValue(s))
  BY <1>2, Zenon DEF Shown, HotpValue
<1>4. Shown(s) = CodeOf(s)
  BY <1>2, <1>3, ReadsOnce
<1>5. Len(CodeOf(s)) = Digits /\ DOMAIN CodeOf(s) = 1 .. Digits
  BY <1>2, CodeAssumption
<1>6. QED
  BY <1>2, <1>4, <1>5 DEF Parsed

\* The match that the search keeps is the last one.
LEMMA LastMatch ==
    ASSUME CodeInv, NEW code, NEW s \in Matching(code)
    PROVE  Matched(code) \in Matching(code) /\ Matched(code) >= s
<1>1. Matching(code) \subseteq 0 .. MaxStep /\ MaxStep \in Nat
  BY Steps DEF Matching
<1>2. PICK T : T = Matching(code)
  OBVIOUS
<1>3. \E x \in T : \A y \in T : y =< x
  BY <1>1, <1>2, Greatest
<1>4. QED
  BY <1>2, <1>3 DEF Matched

\* The clock, the seed and the accepted step keep their types.
LEMMA CodeNextInv == CodeInv /\ [CodeNext]_codeVars => CodeInv'
<1> SUFFICES ASSUME CodeInv, [CodeNext]_codeVars PROVE CodeInv'
  OBVIOUS
<1>1. CASE Seeded
  BY <1>1 DEF Seeded, CodeInv
<1>2. CASE Verify
  <2>1. PICK code : Verifies(code) /\ last' = {Matched(code)} /\ UNCHANGED <<hmac, time>>
    BY <1>2 DEF Verify
  <2>2. Matched(code) \in 0 .. MaxStep
    BY <2>1, LastMatch, Steps DEF Verifies, Matching
  <2>3. QED
    BY <2>1, <2>2 DEF CodeInv
<1>3. CASE Tick
  BY <1>3 DEF Tick, CodeInv
<1>4. CASE UNCHANGED codeVars
  BY <1>4 DEF codeVars, CodeInv
<1>5. QED
  BY <1>1, <1>2, <1>3, <1>4 DEF CodeNext

\* The code that an authenticator shows for a step within the skew of the clock is accepted
\* when no code of that step or a later one has been, whatever other steps of the window
\* share its digits (verifier.rs verify keeps the last match; hotp.rs format_padded).
THEOREM FreshCodesAccepted == CodeSpec => []FreshCodeAccepted
<1>1. CodeInit => CodeInv
  BY DEF CodeInit, CodeInv
<1>2. CodeInv => FreshCodeAccepted
  <2> SUFFICES ASSUME CodeInv, hmac # <<>>, NEW s \in Window, \A l \in last : s > l
               PROVE  Verifies(Shown(s))
    BY DEF FreshCodeAccepted
  <2>1. s \in 0 .. MaxStep /\ MaxStep \in Nat
    BY Steps
  <2>2. s \in Matching(CodeOf(s))
    BY DEF Matching
  <2>3. Matched(CodeOf(s)) \in Matching(CodeOf(s)) /\ Matched(CodeOf(s)) >= s
    BY <2>2, LastMatch
  <2>4. Matched(CodeOf(s)) \in 0 .. MaxStep
    BY <2>3, Steps DEF Matching
  <2>5. \A l \in last : Matched(CodeOf(s)) > l
    BY <2>1, <2>3, <2>4 DEF CodeInv
  <2>6. Parsed(CodeOf(s)) /\ Shown(s) = CodeOf(s)
    BY <2>1, CodeShown
  <2>7. QED
    BY <2>2, <2>5, <2>6 DEF Verifies
<1>3. QED
  BY <1>1, <1>2, CodeNextInv, PTL DEF CodeSpec
==============================================================================
