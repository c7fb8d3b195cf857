------------------------- MODULE FileFormats_proofs -------------------------
(***************************************************************************)
(* Proofs about the file formats, for documents, edits and limits of every *)
(* size: what is written is read back, and what damage leaves is refused   *)
(* or shows what was written.                                              *)
(*                                                                         *)
(* A layout is a sequence of fields, and values of the right types in its  *)
(* places are written as one piece of bytes per field.  A reader that      *)
(* succeeds has read the values of such pieces (Stands), and a reader in   *)
(* front of such pieces reads those values (Comes); both are shown of one  *)
(* field, then of a layout and of a counted loop over layouts, by          *)
(* induction along the recursive functions that read them.  The formats    *)
(* follow, each as its layout.                                             *)
(***************************************************************************)
EXTENDS FileFormats, Algorithms_proofs, SequenceTheorems

-----------------------------------------------------------------------------
(* Repeated steps *)

\* Steps that agree as far as the shorter repetition goes reach the same.
LEMMA SameRepeat ==
    ASSUME NEW m \in Nat, NEW n \in Nat, n =< m, NEW T, NEW c \in T,
           NEW s \in StepsIn(m, T), NEW u \in StepsIn(n, T),
           \A i \in 1 .. n : \A x \in T : s[<<i, x>>] = u[<<i, x>>],
           NEW f, Repeats(f, m, T, c, s), NEW g, Repeats(g, n, T, c, u)
    PROVE  \A i \in 0 .. n : f[i] = g[i]
<1>1. /\ f \in [0 .. m -> T] /\ f[0] = c /\ \A i \in 1 .. m : f[i] = s[<<i, f[i - 1]>>]
      /\ g \in [0 .. n -> T] /\ g[0] = c /\ \A i \in 1 .. n : g[i] = u[<<i, g[i - 1]>>]
  BY DEF Repeats
<1>2. PICK S : S = {i \in 0 .. n : f[i] = g[i]}
  OBVIOUS
<1>3. 0 \in S
  BY <1>1, <1>2
<1>4. ASSUME NEW i \in 1 .. n, i - 1 \in S PROVE i \in S
  <2>1. i \in 0 .. n /\ i \in 1 .. m /\ i - 1 \in 0 .. n
    OBVIOUS
  <2>2. PICK x \in T : x = g[i - 1]
    BY <1>1, <2>1
  <2>3. f[i - 1] = x
    BY <1>2, <1>4, <2>2
  <2>4. f[i] = s[<<i, x>>] /\ g[i] = u[<<i, x>>]
    BY <1>1, <2>1, <2>2, <2>3
  <2>5. QED
    BY <1>2, <2>1, <2>4
<1>5. 0 .. n \subseteq S
  BY <1>3, <1>4, UpTo
<1>6. QED
  BY <1>2, <1>5

\* A recursive function that starts at c and goes on by a step repeats the step.
LEMMA ChosenRepeats ==
    ASSUME NEW m \in Nat, NEW T, NEW c \in T, NEW s \in StepsIn(m, T), NEW f,
           DOMAIN f = 0 .. m, f = [i \in 0 .. m |-> f[i]], f[0] = c,
           \A i \in 1 .. m : f[i - 1] \in T => f[i] = s[<<i, f[i - 1]>>]
    PROVE  Repeats(f, m, T, c, s)
<1>1. PICK S : S = {i \in 0 .. m : f[i] \in T}
  OBVIOUS
<1>2. 0 \in S
  BY <1>1
<1>3. ASSUME NEW i \in 1 .. m, i - 1 \in S PROVE i \in S
  <2>1. f[i] = s[<<i, f[i - 1]>>] /\ f[i - 1] \in T
    BY <1>1, <1>3
  <2>2. PICK x \in T : x = f[i - 1]
    BY <2>1
  <2>3. s[<<i, x>>] \in T
    BY DEF StepsIn
  <2>4. i \in 0 .. m
    OBVIOUS
  <2>5. QED
    BY <1>1, <2>1, <2>2, <2>3, <2>4
<1>4. 0 .. m \subseteq S
  BY <1>2, <1>3, UpTo
<1>5. \A i \in 0 .. m : f[i] \in T
  BY <1>1, <1>4
<1>6. f \in [0 .. m -> T]
  BY <1>5
<1>7. \A i \in 1 .. m : f[i] = s[<<i, f[i - 1]>>]
  <2>1. \A i \in 1 .. m : i - 1 \in 0 .. m
    OBVIOUS
  <2>2. QED
    BY <1>5, <2>1
<1>8. QED
  BY <1>6, <1>7 DEF Repeats

-----------------------------------------------------------------------------
(* The reader *)

Bytes == Seq(Nat)

\* What a field holds, and a field as it is written
ValueOf(field) ==
    IF field = "cell" THEN Nat
    ELSE IF field = "body" THEN Bytes ELSE {b \in Bytes : Len(b) =< Max16}

FieldBytes(field, x) == IF field = "cell" THEN <<x>> ELSE <<Len(x)>> \o x

Fields == {"cell", "body", "body16"}

\* Readers over what groups, fields or nothing have been read from
Readers(V) == [rest : Bytes, got : Seq(V), ok : BOOLEAN]

Values == Nat \cup Bytes

\* A number before the rest
LEMMA HeadOf ==
    ASSUME NEW x \in Nat, NEW t \in Bytes
    PROVE  /\ <<x>> \o t \in Bytes /\ <<x>> \o t # <<>>
           /\ Head(<<x>> \o t) = x /\ Tail(<<x>> \o t) = t
  BY DEF Bytes

\* What is not empty is a number before the rest.
LEMMA SplitHead ==
    ASSUME NEW u \in Bytes, u # <<>>
    PROVE  Head(u) \in Nat /\ Tail(u) \in Bytes /\ u = <<Head(u)>> \o Tail(u)
<1>1. Head(u) \in Nat /\ Tail(u) \in Seq(Nat)
  BY HeadTailProperties DEF Bytes
<1>2. u = <<Head(u)>> \o Tail(u)
  BY DEF Bytes
<1>3. QED
  BY <1>1, <1>2 DEF Bytes

\* Some bytes before the rest
LEMMA BodyOf ==
    ASSUME NEW b \in Bytes, NEW t \in Bytes
    PROVE  /\ b \o t \in Bytes /\ Len(b) \in Nat /\ Len(b) =< Len(b \o t)
           /\ SubSeq(b \o t, 1, Len(b)) = b /\ SubSeq(b \o t, Len(b) + 1, Len(b \o t)) = t
  BY DEF Bytes

\* As many bytes as there are stand before the rest.
LEMMA SplitAt ==
    ASSUME NEW u \in Bytes, NEW h \in Nat, h =< Len(u)
    PROVE  /\ SubSeq(u, 1, h) \in Bytes /\ SubSeq(u, h + 1, Len(u)) \in Bytes
           /\ Len(SubSeq(u, 1, h)) = h
           /\ u = SubSeq(u, 1, h) \o SubSeq(u, h + 1, Len(u))
<1>1. u \in Seq(Nat) /\ Len(u) \in Nat /\ \A i \in 1 .. Len(u) : u[i] \in Nat
  BY DEF Bytes
<1>2. SubSeq(u, 1, h) \in Seq(Nat) /\ Len(SubSeq(u, 1, h)) = h
  <2>1. \A i \in 1 .. h : u[i] \in Nat
    BY <1>1
  <2>2. SubSeq(u, 1, h) \in Seq(Nat) /\ Len(SubSeq(u, 1, h)) = IF 1 =< h THEN h - 1 + 1 ELSE 0
    BY <2>1, SubSeqProperties
  <2>3. QED
    BY <2>2
<1>3. SubSeq(u, h + 1, Len(u)) \in Seq(Nat)
  <2>1. \A i \in h + 1 .. Len(u) : u[i] \in Nat
    BY <1>1, SMTT(30)
  <2>2. QED
    BY <1>1, <2>1, SubSeqProperties
<1>4. u = SubSeq(u, 1, h) \o SubSeq(u, h + 1, Len(u))
  <2>1. 1 \in 1 .. Len(u) + 1 /\ h \in 1 - 1 .. Len(u) /\ Len(u) \in h .. Len(u)
    BY <1>1
  <2>2. SubSeq(u, 1, h) \o SubSeq(u, h + 1, Len(u)) = SubSeq(u, 1, Len(u))
    BY <1>1, <2>1, ConcatAdjacentSubSeq
  <2>3. SubSeq(u, 1, Len(u)) = u
    BY <1>1, SubSeqFull
  <2>4. QED
    BY <2>2, <2>3, Zenon
<1>5. QED
  BY <1>2, <1>3, <1>4 DEF Bytes

\* Prefixing and joining
LEMMA JoinThree ==
    ASSUME NEW s \in Bytes, NEW t \in Bytes, NEW u \in Bytes
    PROVE  (s \o t) \o u = s \o (t \o u) /\ s \o t \in Bytes
  BY SMTT(30) DEF Bytes

\* A reader whose rest is exchanged
LEMMA RestExchanged ==
    ASSUME NEW r, NEW rest, NEW got, NEW ok, r = [rest |-> rest, got |-> got, ok |-> ok], NEW u
    PROVE  [r EXCEPT !.rest = u] = [rest |-> u, got |-> got, ok |-> ok]
<1>1. [[rest |-> rest, got |-> got, ok |-> ok] EXCEPT !.rest = u]
          = [rest |-> u, got |-> got, ok |-> ok]
  OBVIOUS
<1>2. QED
  BY <1>1, Zenon

\* The reader after a field x, before t
Past(t, got, x) == [rest |-> t, got |-> Append(got, x), ok |-> TRUE]

\* A value goes with its bytes.
LEMMA FieldTypes ==
    ASSUME NEW field \in Fields, NEW x \in ValueOf(field)
    PROVE  x \in Values /\ FieldBytes(field, x) \in Bytes
<1>1. CASE field = "cell"
  BY <1>1 DEF ValueOf, FieldBytes, Values, Bytes
<1>2. CASE field # "cell"
  <2>1. x \in Bytes
    BY <1>2 DEF ValueOf
  <2>2. <<Len(x)>> \o x \in Bytes
    BY <2>1 DEF Bytes
  <2>3. QED
    BY <1>2, <2>1, <2>2 DEF FieldBytes, Values
<1>3. QED
  BY <1>1, <1>2

\* The reader takes the field that stands before the rest.
LEMMA FieldTaken ==
    ASSUME NEW r \in Readers(Values), r.ok, NEW field \in Fields,
           NEW x \in ValueOf(field), NEW t \in Bytes, r.rest = FieldBytes(field, x) \o t
    PROVE  ReadField(r, field) = Past(t, r.got, x)
<1>1. PICK rest, got : r = [rest |-> rest, got |-> got, ok |-> TRUE]
  BY DEF Readers
<1>2. CASE field = "cell"
  <2>1. x \in Nat /\ rest = <<x>> \o t
    BY <1>1, <1>2 DEF ValueOf, FieldBytes
  <2>2. rest # <<>> /\ Head(rest) = x /\ Tail(rest) = t
    BY <2>1, HeadOf
  <2>3. QED
    BY <1>1, <1>2, <2>2 DEF ReadField, Past
<1>3. CASE field # "cell"
  <2>1. x \in Bytes /\ (field = "body16" => Len(x) =< Max16)
    BY <1>3 DEF ValueOf, Fields
  <2>2. x \o t \in Bytes /\ Len(x) \in Nat /\ <<Len(x)>> \in Bytes
    BY <2>1, BodyOf DEF Bytes
  <2>3. rest = (<<Len(x)>> \o x) \o t
    BY <1>1, <1>3 DEF FieldBytes
  <2>4. rest = <<Len(x)>> \o (x \o t)
    <3>1. PICK s \in Bytes : s = <<Len(x)>>
      BY <2>2
    <3>2. (s \o x) \o t = s \o (x \o t)
      BY <2>1, JoinThree
    <3>3. QED
      BY <2>3, <3>1, <3>2
  <2>5. rest # <<>> /\ Head(rest) = Len(x) /\ Tail(rest) = x \o t
    BY <2>2, <2>4, HeadOf
  <2>6. ~(field = "body16" /\ Head(rest) > Max16)
    BY <2>1, <2>2, <2>5, FormatAssumption
  <2>7. PICK before : before = [rest |-> x \o t, got |-> got, ok |-> TRUE]
    OBVIOUS
  <2>8. ReadField(r, field) = Take(before, Len(x))
    <3>1. [r EXCEPT !.rest = Tail(@)] = before
      <4>1. [r EXCEPT !.rest = x \o t] = before
        BY <1>1, <2>7, RestExchanged, ZenonT(60)
      <4>2. Tail(r.rest) = x \o t
        BY <1>1, <2>5
      <4>3. QED
        BY <4>1, <4>2
    <3>2. ReadField(r, field) = Take([r EXCEPT !.rest = Tail(@)], Head(r.rest))
      BY <1>1, <1>3, <2>5, <2>6 DEF ReadField
    <3>3. QED
      BY <1>1, <2>5, <3>1, <3>2
  <2>9. /\ Len(x) =< Len(x \o t) /\ SubSeq(x \o t, 1, Len(x)) = x
        /\ SubSeq(x \o t, Len(x) + 1, Len(x \o t)) = t /\ Len(x \o t) \in Nat
    BY <2>1, <2>2, BodyOf DEF Bytes
  <2>10. ~(Len(x) > Len(x \o t))
    BY <2>2, <2>9
  <2>11. QED
    BY <1>1, <2>7, <2>8, <2>9, <2>10 DEF Take, Past
<1>4. QED
  BY <1>2, <1>3

\* A field that was read stands before the rest.
LEMMA FieldStands ==
    ASSUME NEW r \in Readers(Values), NEW field \in Fields
    PROVE  /\ ReadField(r, field) \in Readers(Values)
           /\ ReadField(r, field).ok =>
                  r.ok /\ \E x \in ValueOf(field), t \in Bytes :
                              /\ r.rest = FieldBytes(field, x) \o t
                              /\ ReadField(r, field) = Past(t, r.got, x)
<1>1. PICK rest \in Bytes, got \in Seq(Values), ok \in BOOLEAN :
         r = [rest |-> rest, got |-> got, ok |-> ok]
  BY DEF Readers
<1>2. CASE ~ok \/ rest = <<>> \/ (field = "body16" /\ Head(rest) > Max16)
  <2>1. ReadField(r, field) = [rest |-> rest, got |-> got, ok |-> FALSE]
    BY <1>1, <1>2 DEF ReadField
  <2>2. QED
    BY <2>1 DEF Readers
<1>3. CASE ok /\ rest # <<>> /\ ~(field = "body16" /\ Head(rest) > Max16)
  <2>1. PICK h \in Nat, u \in Bytes : h = Head(rest) /\ u = Tail(rest) /\ rest = <<h>> \o u
    BY <1>3, SplitHead
  <2>2. CASE field = "cell"
    <3>1. ReadField(r, field) = Past(u, got, h)
      BY <1>1, <1>3, <2>1, <2>2 DEF ReadField, Past
    <3>2. Append(got, h) \in Seq(Values)
      BY DEF Values
    <3>3. h \in ValueOf(field) /\ rest = FieldBytes(field, h) \o u
      BY <2>1, <2>2 DEF ValueOf, FieldBytes
    <3>4. Past(u, got, h) \in Readers(Values)
      BY <3>2 DEF Past, Readers
    <3>5. QED
      BY <1>1, <1>3, <3>1, <3>3, <3>4
  <2>3. CASE field # "cell"
    <3>1. PICK before : before = [rest |-> u, got |-> got, ok |-> ok]
      OBVIOUS
    <3>2. ReadField(r, field) = Take(before, h)
      <4>1. [r EXCEPT !.rest = Tail(@)] = before
        <5>1. [r EXCEPT !.rest = u] = before
          <6>1. [[rest |-> rest, got |-> got, ok |-> ok] EXCEPT !.rest = u]
                    = [rest |-> u, got |-> got, ok |-> ok]
            OBVIOUS
          <6>2. [r EXCEPT !.rest = u] = [rest |-> u, got |-> got, ok |-> ok]
            BY <1>1, <6>1, Zenon
          <6>3. QED
            BY <3>1, <6>2, Zenon
        <5>2. Tail(r.rest) = u
          BY <1>1, <2>1
        <5>3. QED
          BY <5>1, <5>2
      <4>2. ReadField(r, field) = Take([r EXCEPT !.rest = Tail(@)], Head(r.rest))
        BY <1>1, <1>3, <2>3 DEF ReadField
      <4>3. QED
        BY <1>1, <2>1, <4>1, <4>2
    <3>3. CASE h > Len(u)
      <4>1. ReadField(r, field) = [rest |-> u, got |-> got, ok |-> FALSE]
        BY <1>3, <3>1, <3>2, <3>3 DEF Take
      <4>2. QED
        BY <4>1 DEF Readers
    <3>4. CASE ~ h > Len(u)
      <4>1. h =< Len(u)
        BY <3>4 DEF Bytes
      <4>2. PICK b \in Bytes, s \in Bytes :
               b = SubSeq(u, 1, h) /\ s = SubSeq(u, h + 1, Len(u)) /\ Len(b) = h /\ u = b \o s
        BY <4>1, SplitAt, ZenonT(60)
      <4>3. ReadField(r, field) = Past(s, got, b)
        BY <1>3, <3>1, <3>2, <3>4, <4>2 DEF Take, Past
      <4>4. b \in ValueOf(field)
        <5>1. field = "body16" => Len(b) =< Max16
          BY <1>3, <2>1, <4>2, FormatAssumption
        <5>2. QED
          BY <2>3, <5>1 DEF ValueOf, Fields
      <4>5. rest = FieldBytes(field, b) \o s
        <5>1. <<Len(b)>> \in Bytes
          BY DEF Bytes
        <5>2. (<<Len(b)>> \o b) \o s = <<Len(b)>> \o (b \o s)
          BY <5>1, JoinThree, ZenonT(60)
        <5>3. QED
          BY <2>1, <2>3, <4>2, <5>2 DEF FieldBytes
      <4>6. Append(got, b) \in Seq(Values)
        BY DEF Values
      <4>7. Past(s, got, b) \in Readers(Values)
        BY <4>6 DEF Past, Readers
      <4>8. QED
        BY <1>1, <1>3, <4>3, <4>4, <4>5, <4>7
    <3>5. QED
      BY <3>3, <3>4
  <2>4. QED
    BY <2>2, <2>3
<1>4. QED
  BY <1>2, <1>3

\* Reading a layout repeats the reading of a field.
FieldSteps(layout) ==
    [p \in (1 .. Len(layout)) \X Readers(Values) |-> ReadField(p[2], layout[p[1]])]

\* Each step of a layout reads one field.
LEMMA FieldStep ==
    ASSUME NEW layout \in Seq(Fields)
    PROVE  /\ FieldSteps(layout) \in StepsIn(Len(layout), Readers(Values))
           /\ \A i \in 1 .. Len(layout), r \in Readers(Values) :
                  FieldSteps(layout)[<<i, r>>] = ReadField(r, layout[i])
<1>1. ASSUME NEW p \in (1 .. Len(layout)) \X Readers(Values)
      PROVE  ReadField(p[2], layout[p[1]]) \in Readers(Values)
  <2>1. p[1] \in 1 .. Len(layout) /\ p[2] \in Readers(Values) /\ layout[p[1]] \in Fields
    OBVIOUS
  <2>2. QED
    BY <2>1, FieldStands
<1>2. \A i \in 1 .. Len(layout), r \in Readers(Values) :
          <<i, r>> \in (1 .. Len(layout)) \X Readers(Values)
  OBVIOUS
<1>3. QED
  BY <1>1, <1>2 DEF FieldSteps, StepsIn

\* ReadAll repeats those steps.
LEMMA ReadAllRepeats ==
    ASSUME NEW r \in Readers(Values), NEW layout \in Seq(Fields)
    PROVE  \E f : /\ Repeats(f, Len(layout), Readers(Values), r, FieldSteps(layout))
                  /\ ReadAll(r, layout) = f[Len(layout)]
<1> DEFINE Body(f) == [i \in 0 .. Len(layout) |->
                          IF i = 0 THEN r ELSE ReadField(f[i - 1], layout[i])]
<1>1. PICK m, T, s : m = Len(layout) /\ T = Readers(Values) /\ s = FieldSteps(layout)
  OBVIOUS
<1> m \in Nat
  BY <1>1
<1>2. s \in StepsIn(m, T) /\ r \in T
  BY <1>1, FieldStep
<1>3. \A i \in 1 .. m, x \in T : s[<<i, x>>] = ReadField(x, layout[i])
  BY <1>1, FieldStep
<1>4. PICK f : Repeats(f, m, T, r, s)
  BY <1>2, Repeated
<1>5. f = Body(f)
  <2>1. f \in [0 .. m -> T] /\ f[0] = r /\ \A i \in 1 .. m : f[i] = s[<<i, f[i - 1]>>]
    BY <1>4 DEF Repeats
  <2>2. ASSUME NEW i \in 0 .. m PROVE f[i] = Body(f)[i]
    <3>1. CASE i = 0
      BY <1>1, <2>1, <3>1
    <3>2. CASE i # 0
      <4>1. i \in 1 .. m /\ f[i - 1] \in T
        BY <2>1, <3>2
      <4>2. f[i] = ReadField(f[i - 1], layout[i])
        BY <1>3, <2>1, <4>1
      <4>3. QED
        BY <1>1, <3>2, <4>2
    <3>3. QED
      BY <3>1, <3>2
  <2>3. f = [i \in 0 .. m |-> f[i]] /\ Body(f) = [i \in 0 .. m |-> Body(f)[i]]
    BY <1>1, <2>1
  <2> HIDE DEF Body
  <2>4. [i \in 0 .. m |-> f[i]] = [i \in 0 .. m |-> Body(f)[i]]
    BY <2>2
  <2>5. QED
    BY <2>3, <2>4, Zenon
<1>6. PICK g : g = CHOOSE read : read = Body(read)
  OBVIOUS
<1>7. g = Body(g)
  <2> HIDE DEF Body
  <2>1. QED
    BY <1>5, <1>6, Zenon
<1>8. ReadAll(r, layout) = g[Len(layout)]
  BY <1>6 DEF ReadAll
<1>9. DOMAIN g = 0 .. m /\ g[0] = r /\ \A i \in 1 .. m : g[i] = ReadField(g[i - 1], layout[i])
  BY <1>1, <1>7
<1>10. g = [i \in 0 .. m |-> g[i]]
  <2>1. Body(g) = [i \in 0 .. m |-> Body(g)[i]]
    BY <1>1
  <2> HIDE DEF Body
  <2>2. QED
    BY <1>7, <2>1, Zenon
<1>11. Repeats(g, m, T, r, s)
  <2>1. \A i \in 1 .. m : g[i - 1] \in T => g[i] = s[<<i, g[i - 1]>>]
    BY <1>3, <1>9
  <2>2. QED
    BY <1>2, <1>9, <1>10, <2>1, ChosenRepeats
<1>12. QED
  BY <1>1, <1>8, <1>11

-----------------------------------------------------------------------------
(* Sequences in a row *)

RowSteps(seqs, S) == [p \in (1 .. Len(seqs)) \X Seq(S) |-> p[2] \o seqs[p[1]]]

\* Each step of a row joins one sequence.
LEMMA RowStep ==
    ASSUME NEW S, NEW seqs \in Seq(Seq(S))
    PROVE  /\ RowSteps(seqs, S) \in StepsIn(Len(seqs), Seq(S))
           /\ \A i \in 1 .. Len(seqs), x \in Seq(S) : RowSteps(seqs, S)[<<i, x>>] = x \o seqs[i]
<1>1. ASSUME NEW p \in (1 .. Len(seqs)) \X Seq(S) PROVE p[2] \o seqs[p[1]] \in Seq(S)
  <2>1. p[1] \in 1 .. Len(seqs) /\ p[2] \in Seq(S) /\ seqs[p[1]] \in Seq(S)
    OBVIOUS
  <2>2. QED
    BY <2>1
<1>2. \A i \in 1 .. Len(seqs), x \in Seq(S) : <<i, x>> \in (1 .. Len(seqs)) \X Seq(S)
  OBVIOUS
<1>3. QED
  BY <1>1, <1>2 DEF RowSteps, StepsIn

\* FlattenSeq repeats those steps.
LEMMA RowRepeats ==
    ASSUME NEW S, NEW seqs \in Seq(Seq(S))
    PROVE  \E f : /\ Repeats(f, Len(seqs), Seq(S), <<>>, RowSteps(seqs, S))
                  /\ FlattenSeq(seqs) = f[Len(seqs)]
<1> DEFINE Body(f) == [i \in 1 .. Len(seqs) |-> IF i = 1 THEN seqs[i] ELSE f[i - 1] \o seqs[i]]
<1>1. PICK m, T, s, c : m = Len(seqs) /\ T = Seq(S) /\ s = RowSteps(seqs, S) /\ c = <<>>
  OBVIOUS
<1> m \in Nat
  BY <1>1
<1>2. s \in StepsIn(m, T) /\ c \in T
  <2>1. <<>> \in Seq(S)
    OBVIOUS
  <2>2. QED
    BY <1>1, <2>1, RowStep
<1>3. \A i \in 1 .. m, x \in T : s[<<i, x>>] = x \o seqs[i]
  BY <1>1, RowStep
<1>4. PICK f : Repeats(f, m, T, c, s)
  BY <1>2, Repeated
<1>5. f \in [0 .. m -> T] /\ f[0] = c /\ \A i \in 1 .. m : f[i] = s[<<i, f[i - 1]>>]
  BY <1>4 DEF Repeats
<1>6. ASSUME NEW i \in 1 .. m PROVE <<>> \o seqs[i] = seqs[i]
  <2>1. seqs[i] \in Seq(S)
    BY <1>1
  <2>2. QED
    BY <2>1
<1>7. PICK h : h = [i \in 1 .. m |-> f[i]]
  OBVIOUS
<1>8. h = Body(h)
  <2>1. ASSUME NEW i \in 1 .. m PROVE f[i] = Body(h)[i]
    <3>1. i - 1 \in 0 .. m /\ f[i - 1] \in T /\ f[i] = f[i - 1] \o seqs[i]
      <4>1. i - 1 \in 0 .. m /\ f[i] = s[<<i, f[i - 1]>>]
        BY <1>5
      <4>2. QED
        BY <1>3, <1>5, <4>1
    <3>2. CASE i = 1
      <4>1. f[i - 1] = <<>>
        BY <1>1, <1>5, <3>2
      <4>2. f[i] = seqs[i]
        BY <1>6, <3>1, <4>1
      <4>3. QED
        BY <1>1, <3>2, <4>2
    <3>3. CASE i # 1
      <4>1. h[i - 1] = f[i - 1]
        BY <1>7, <3>3
      <4>2. QED
        BY <1>1, <3>1, <3>3, <4>1
    <3>4. QED
      BY <3>2, <3>3
  <2>2. Body(h) = [i \in 1 .. m |-> Body(h)[i]]
    BY <1>1
  <2> HIDE DEF Body
  <2>3. [i \in 1 .. m |-> f[i]] = [i \in 1 .. m |-> Body(h)[i]]
    BY <2>1
  <2>4. QED
    BY <1>7, <2>2, <2>3, Zenon
<1>9. PICK g : g = CHOOSE flatten : flatten = Body(flatten)
  OBVIOUS
<1>10. g = Body(g)
  <2> HIDE DEF Body
  <2>1. QED
    BY <1>8, <1>9, Zenon
<1>11. FlattenSeq(seqs) = IF m = 0 THEN seqs ELSE g[m]
  BY <1>1, <1>9 DEF FlattenSeq
<1>12. PICK e : e = [i \in 0 .. m |-> IF i = 0 THEN c ELSE g[i]]
  OBVIOUS
<1>13. ASSUME NEW i \in 1 .. m, e[i - 1] \in T PROVE e[i] = s[<<i, e[i - 1]>>]
  <2>1. e[i] = g[i] /\ s[<<i, e[i - 1]>>] = e[i - 1] \o seqs[i]
    <3>1. i \in 0 .. m /\ i # 0
      OBVIOUS
    <3>2. QED
      BY <1>3, <1>12, <1>13, <3>1
  <2>2. CASE i = 1
    <3>1. e[i - 1] = <<>> /\ g[i] = seqs[i]
      BY <1>1, <1>10, <1>12, <2>2
    <3>2. QED
      BY <1>6, <2>1, <3>1
  <2>3. CASE i # 1
    <3>1. i - 1 \in 1 .. m /\ i - 1 \in 0 .. m
      BY <2>3
    <3>2. e[i - 1] = g[i - 1]
      BY <1>12, <3>1
    <3>3. g[i] = g[i - 1] \o seqs[i]
      BY <1>1, <1>10, <2>3
    <3>4. QED
      BY <2>1, <3>2, <3>3
  <2>4. QED
    BY <2>2, <2>3
<1>14. DOMAIN e = 0 .. m /\ e = [i \in 0 .. m |-> e[i]] /\ e[0] = c
  BY <1>12
<1>15. Repeats(e, m, T, c, s)
  BY <1>2, <1>13, <1>14, ChosenRepeats
<1>16. FlattenSeq(seqs) = e[m]
  <2>1. CASE m = 0
    <3>1. seqs = <<>>
      BY <1>1, <2>1, EmptySeq
    <3>2. QED
      BY <1>1, <1>11, <1>14, <2>1, <3>1
  <2>2. CASE m # 0
    <3>1. m \in 0 .. m
      OBVIOUS
    <3>2. QED
      BY <1>11, <1>12, <2>2, <3>1
  <2>3. QED
    BY <2>1, <2>2
<1>17. QED
  BY <1>1, <1>15, <1>16

\* One sequence more makes the row longer by it.
LEMMA RowMore ==
    ASSUME NEW S, NEW seqs \in Seq(Seq(S)), NEW x \in Seq(S)
    PROVE  /\ FlattenSeq(seqs) \in Seq(S)
           /\ FlattenSeq(Append(seqs, x)) = FlattenSeq(seqs) \o x
<1>1. PICK n, more : n = Len(seqs) /\ more = Append(seqs, x)
  OBVIOUS
<1> n \in Nat
  BY <1>1
<1>2. /\ more \in Seq(Seq(S)) /\ Len(more) = n + 1
    /\ more[n + 1] = x /\ \A i \in 1 .. n : more[i] = seqs[i]
  BY <1>1, AppendProperties
<1>3. PICK T, s, u, c : T = Seq(S) /\ s = RowSteps(more, S) /\ u = RowSteps(seqs, S) /\ c = <<>>
  OBVIOUS
<1>4. PICK f : Repeats(f, n + 1, T, c, s) /\ FlattenSeq(more) = f[n + 1]
  BY <1>1, <1>3, <1>2, RowRepeats, ZenonT(60)
<1>5. PICK g : Repeats(g, n, T, c, u) /\ FlattenSeq(seqs) = g[n]
  BY <1>1, <1>3, RowRepeats
<1>6. /\ s \in StepsIn(n + 1, T) /\ u \in StepsIn(n, T)
      /\ \A i \in 1 .. n + 1, y \in T : s[<<i, y>>] = y \o more[i]
      /\ \A i \in 1 .. n, y \in T : u[<<i, y>>] = y \o seqs[i]
  <2>1. more \in Seq(Seq(S)) /\ seqs \in Seq(Seq(S)) /\ Len(more) = n + 1 /\ Len(seqs) = n
    BY <1>1, <1>2
  <2>2. /\ s \in StepsIn(n + 1, T)
        /\ \A i \in 1 .. n + 1, y \in T : s[<<i, y>>] = y \o more[i]
    <3>1. /\ RowSteps(more, S) \in StepsIn(Len(more), Seq(S))
          /\ \A i \in 1 .. Len(more), y \in Seq(S) : RowSteps(more, S)[<<i, y>>] = y \o more[i]
      BY <2>1, RowStep
    <3>2. QED
      BY <1>3, <2>1, <3>1
  <2>3. u \in StepsIn(n, T) /\ \A i \in 1 .. n, y \in T : u[<<i, y>>] = y \o seqs[i]
    <3>1. /\ RowSteps(seqs, S) \in StepsIn(Len(seqs), Seq(S))
          /\ \A i \in 1 .. Len(seqs), y \in Seq(S) : RowSteps(seqs, S)[<<i, y>>] = y \o seqs[i]
      BY RowStep
    <3>2. QED
      BY <1>3, <2>1, <3>1
  <2>4. QED
    BY <2>2, <2>3
<1>7. ASSUME NEW i \in 1 .. n, NEW y \in T PROVE s[<<i, y>>] = u[<<i, y>>]
  <2>1. i \in 1 .. n + 1 /\ more[i] = seqs[i]
    BY <1>2
  <2>2. QED
    BY <1>6, <2>1
<1>8. f[n] = g[n]
  <2>1. PICK k \in Nat : k = n + 1 /\ n =< k /\ n \in 0 .. n
    OBVIOUS
  <2>2. c \in T
    <3>1. <<>> \in Seq(S)
      OBVIOUS
    <3>2. QED
      BY <1>3, <3>1
  <2>3. QED
    <3>1. \A i \in 1 .. n : \A y \in T : s[<<i, y>>] = u[<<i, y>>]
      BY <1>7
    <3>2. s \in StepsIn(k, T) /\ Repeats(f, k, T, c, s)
      BY <1>4, <1>6, <2>1
    <3>3. QED
      BY <1>5, <1>6, <2>1, <2>2, <3>1, <3>2, SameRepeat, SMTT(30)
<1>9. f[n + 1] = f[n] \o x /\ f[n] \in T
  <2>1. f[n + 1] = s[<<n + 1, f[n + 1 - 1]>>] /\ n + 1 - 1 = n
    BY <1>4 DEF Repeats
  <2>2. f[n] \in T
    BY <1>4 DEF Repeats
  <2>3. n + 1 \in 1 .. n + 1
    OBVIOUS
  <2>4. QED
    BY <1>6, <1>2, <2>1, <2>2, <2>3
<1>10. QED
  BY <1>1, <1>3, <1>4, <1>5, <1>8, <1>9

\* No sequence makes an empty row.
LEMMA RowNone == FlattenSeq(<<>>) = <<>>
<1>1. Len(<<>>) = 0
  OBVIOUS
<1>2. QED
  BY <1>1 DEF FlattenSeq

-----------------------------------------------------------------------------
(* What a repeated reading gathers.  P relates the place of a value, the     *)
(* value and its bytes.                                                      *)

Goes(P, i, x, b) == <<i, x, b>> \in P

\* The values xs and their bytes bs are related place by place.
InPlace(P, n, xs, bs) ==
    Len(xs) = n /\ Len(bs) = n /\ \A i \in 1 .. n : Goes(P, i, xs[i], bs[i])

\* The reader that has gathered xs after got, before t
Gathered(t, got, xs) == [rest |-> t, got |-> got \o xs, ok |-> TRUE]

\* From c, the reader r has come past n values.
Stands(P, V, n, c, r) ==
    \E xs \in Seq(V), bs \in Seq(Bytes), t \in Bytes :
        /\ InPlace(P, n, xs, bs) /\ c.rest = FlattenSeq(bs) \o t
        /\ r = Gathered(t, c.got, xs)

\* Whatever n values stand before the rest of c, r has come past them.
Comes(P, V, n, c, r) ==
    \A xs \in Seq(V), bs \in Seq(Bytes), t \in Bytes :
        InPlace(P, n, xs, bs) /\ c.rest = FlattenSeq(bs) \o t => r = Gathered(t, c.got, xs)

\* One value more.
LEMMA PlaceMore ==
    ASSUME NEW P, NEW V, NEW n \in Nat, NEW xs \in Seq(V), NEW bs \in Seq(Bytes),
           InPlace(P, n, xs, bs), NEW x \in V, NEW b \in Bytes, Goes(P, n + 1, x, b)
    PROVE  InPlace(P, n + 1, Append(xs, x), Append(bs, b))
<1>1. PICK ys : ys = Append(xs, x)
  OBVIOUS
<1>2. PICK cs : cs = Append(bs, b)
  OBVIOUS
<1>3. Len(ys) = n + 1 /\ ys[n + 1] = x /\ \A i \in 1 .. n : ys[i] = xs[i]
  BY <1>1, AppendProperties DEF InPlace
<1>4. Len(cs) = n + 1 /\ cs[n + 1] = b /\ \A i \in 1 .. n : cs[i] = bs[i]
  BY <1>2, AppendProperties DEF InPlace
<1>5. ASSUME NEW i \in 1 .. n + 1 PROVE Goes(P, i, ys[i], cs[i])
  <2>1. CASE i = n + 1
    BY <1>3, <1>4, <2>1
  <2>2. CASE i # n + 1
    <3>1. i \in 1 .. n
      BY <2>2
    <3>2. Goes(P, i, xs[i], bs[i])
      BY <3>1 DEF InPlace
    <3>3. QED
      BY <1>3, <1>4, <3>1, <3>2
  <2>3. QED
    BY <2>1, <2>2
<1>6. QED
  BY <1>1, <1>2, <1>3, <1>4, <1>5 DEF InPlace

\* The bytes of one value more, and the values
LEMMA RowPast ==
    ASSUME NEW bs \in Seq(Bytes), NEW b \in Bytes, NEW t \in Bytes
    PROVE  /\ FlattenSeq(bs) \in Bytes /\ b \o t \in Bytes
           /\ FlattenSeq(Append(bs, b)) \o t = FlattenSeq(bs) \o (b \o t)
<1>1. PICK S : S = Nat
  OBVIOUS
<1>2. bs \in Seq(Seq(S)) /\ b \in Seq(S)
  BY <1>1 DEF Bytes
<1>3. FlattenSeq(bs) \in Seq(S) /\ FlattenSeq(Append(bs, b)) = FlattenSeq(bs) \o b
  BY <1>2, RowMore
<1>4. PICK s \in Bytes : s = FlattenSeq(bs)
  BY <1>1, <1>3 DEF Bytes
<1>5. (s \o b) \o t = s \o (b \o t) /\ b \o t \in Bytes
  BY JoinThree
<1>6. QED
  BY <1>3, <1>4, <1>5

\* A value past the gathered ones is gathered with them.
LEMMA ValuesPast ==
    ASSUME NEW V, NEW got \in Seq(V), NEW xs \in Seq(V), NEW x \in V, NEW t
    PROVE  Past(t, got \o xs, x) = Gathered(t, got, Append(xs, x))
<1>1. got \o xs \in Seq(V) /\ <<x>> \in Seq(V)
  OBVIOUS
<1>2. Append(got \o xs, x) = (got \o xs) \o <<x>> /\ Append(xs, x) = xs \o <<x>>
  BY <1>1, AppendIsConcat
<1>3. (got \o xs) \o <<x>> = got \o (xs \o <<x>>)
  BY <1>1, ConcatAssociative
<1>4. QED
  BY <1>2, <1>3 DEF Past, Gathered

\* The last of the places, after n others
Ends(P, V, n, xs, bs) ==
    \E ys \in Seq(V), cs \in Seq(Bytes), x \in V, b \in Bytes :
        /\ InPlace(P, n, ys, cs) /\ Goes(P, n + 1, x, b)
        /\ xs = Append(ys, x) /\ bs = Append(cs, b)

\* Places are filled up to the last one.
LEMMA PlaceLast ==
    ASSUME NEW P, NEW V, NEW n \in Nat, NEW xs \in Seq(V), NEW bs \in Seq(Bytes),
           InPlace(P, n + 1, xs, bs)
    PROVE  Ends(P, V, n, xs, bs)
<1>1. Len(xs) = n + 1 /\ Len(bs) = n + 1 /\ \A i \in 1 .. n + 1 : Goes(P, i, xs[i], bs[i])
  BY DEF InPlace
<1>2. PICK ys \in Seq(V), x \in V : xs = Append(ys, x)
  <2>1. xs # <<>>
    BY <1>1, EmptySeq
  <2>2. QED
    BY <2>1, SequenceEmptyOrAppend
<1>3. PICK cs \in Seq(Bytes), b \in Bytes : bs = Append(cs, b)
  <2>1. bs # <<>>
    BY <1>1, EmptySeq
  <2>2. QED
    BY <2>1, SequenceEmptyOrAppend
<1>4. Len(ys) = n /\ xs[n + 1] = x /\ \A i \in 1 .. n : xs[i] = ys[i]
  BY <1>1, <1>2, AppendProperties
<1>5. Len(cs) = n /\ bs[n + 1] = b /\ \A i \in 1 .. n : bs[i] = cs[i]
  BY <1>1, <1>3, AppendProperties
<1>6. Goes(P, n + 1, x, b)
  <2>1. n + 1 \in 1 .. n + 1
    OBVIOUS
  <2>2. QED
    BY <1>1, <1>4, <1>5, <2>1
<1>7. \A i \in 1 .. n : Goes(P, i, ys[i], cs[i])
  <2>1. \A i \in 1 .. n : i \in 1 .. n + 1
    OBVIOUS
  <2>2. QED
    BY <1>1, <1>4, <1>5, <2>1
<1>8. InPlace(P, n, ys, cs)
  BY <1>4, <1>5, <1>7 DEF InPlace
<1>9. QED
  BY <1>2, <1>3, <1>6, <1>8 DEF Ends

\* A reader has come past nothing.
LEMMA NonePast ==
    ASSUME NEW P, NEW V, NEW c \in Readers(V), c.ok
    PROVE  Stands(P, V, 0, c, c) /\ Comes(P, V, 0, c, c)
<1>1. PICK rest \in Bytes, got \in Seq(V) : c = [rest |-> rest, got |-> got, ok |-> TRUE]
  BY DEF Readers
<1>2. <<>> \in Seq(V) /\ <<>> \in Seq(Bytes) /\ Len(<<>>) = 0
  BY EmptySeq
<1>3. FlattenSeq(<<>>) \o rest = rest
  BY RowNone, ConcatEmptySeq DEF Bytes
<1>4. c = Gathered(rest, got, <<>>)
  <2>1. got \o <<>> = got
    BY ConcatEmptySeq
  <2>2. QED
    BY <1>1, <2>1 DEF Gathered
<1>5. InPlace(P, 0, <<>>, <<>>)
  BY <1>2 DEF InPlace
<1>6. Stands(P, V, 0, c, c)
  <2>1. PICK xs \in Seq(V), bs \in Seq(Bytes) : xs = <<>> /\ bs = <<>>
    BY <1>2
  <2>2. InPlace(P, 0, xs, bs) /\ c.rest = FlattenSeq(bs) \o rest /\ c = Gathered(rest, c.got, xs)
    BY <1>1, <1>3, <1>4, <1>5, <2>1
  <2>3. QED
    BY <2>2 DEF Stands
<1>7. ASSUME NEW xs \in Seq(V), NEW bs \in Seq(Bytes), NEW t \in Bytes,
             InPlace(P, 0, xs, bs), c.rest = FlattenSeq(bs) \o t
      PROVE  c = Gathered(t, c.got, xs)
  <2>1. Len(xs) = 0 /\ Len(bs) = 0
    BY <1>7 DEF InPlace
  <2>2. xs = <<>> /\ bs = <<>>
    BY <2>1, EmptySeq
  <2>3. rest = <<>> \o t /\ <<>> \o t = t
    BY <1>1, <1>7, <2>2, RowNone, ConcatEmptySeq DEF Bytes
  <2>4. QED
    BY <1>1, <1>4, <2>2, <2>3
<1>8. QED
  BY <1>6, <1>7 DEF Comes

\* A step that took the bytes of a value comes past it.
LEMMA StandsMore ==
    ASSUME NEW P, NEW V, NEW n \in Nat, NEW c \in Readers(V), NEW r, Stands(P, V, n, c, r),
           NEW x \in V, NEW b \in Bytes, NEW t \in Bytes,
           Goes(P, n + 1, x, b), r.rest = b \o t
    PROVE  Stands(P, V, n + 1, c, Past(t, r.got, x))
<1>1. PICK got \in Seq(V) : got = c.got
  BY DEF Readers
<1>2. PICK xs \in Seq(V), bs \in Seq(Bytes), u \in Bytes :
         /\ InPlace(P, n, xs, bs) /\ c.rest = FlattenSeq(bs) \o u
         /\ r = Gathered(u, got, xs)
  BY <1>1 DEF Stands
<1>3. u = b \o t /\ r.got = got \o xs
  BY <1>2 DEF Gathered
<1>4. PICK ys \in Seq(V), cs \in Seq(Bytes) : ys = Append(xs, x) /\ cs = Append(bs, b)
  BY AppendProperties
<1>5. InPlace(P, n + 1, ys, cs)
  BY <1>2, <1>4, PlaceMore
<1>6. c.rest = FlattenSeq(cs) \o t
  BY <1>2, <1>3, <1>4, RowPast, ZenonT(60)
<1>7. Past(t, r.got, x) = Gathered(t, got, ys)
  BY <1>3, <1>4, ValuesPast
<1>8. QED
  BY <1>1, <1>5, <1>6, <1>7 DEF Stands

\* A step that takes the bytes of a value before the rest comes past it.
LEMMA ComesMore ==
    ASSUME NEW P, NEW V, NEW n \in Nat, NEW c \in Readers(V), NEW r, Comes(P, V, n, c, r),
           NEW q, \A x \in V, b \in Bytes, t \in Bytes :
                      r.ok /\ Goes(P, n + 1, x, b) /\ r.rest = b \o t => q = Past(t, r.got, x)
    PROVE  Comes(P, V, n + 1, c, q)
<1>1. PICK got \in Seq(V) : got = c.got
  BY DEF Readers
<1>2. ASSUME NEW xs \in Seq(V), NEW bs \in Seq(Bytes), NEW t \in Bytes,
             InPlace(P, n + 1, xs, bs), c.rest = FlattenSeq(bs) \o t
      PROVE  q = Gathered(t, got, xs)
  <2>1. PICK ys \in Seq(V), cs \in Seq(Bytes), x \in V, b \in Bytes :
           /\ InPlace(P, n, ys, cs) /\ Goes(P, n + 1, x, b)
           /\ xs = Append(ys, x) /\ bs = Append(cs, b)
    <3>1. Ends(P, V, n, xs, bs)
      BY <1>2, PlaceLast
    <3>2. QED
      BY <3>1 DEF Ends
  <2>2. PICK u \in Bytes : u = b \o t /\ c.rest = FlattenSeq(cs) \o u
    <3>1. FlattenSeq(Append(cs, b)) \o t = FlattenSeq(cs) \o (b \o t) /\ b \o t \in Bytes
      BY RowPast
    <3>2. QED
      BY <1>2, <2>1, <3>1
  <2>3. r = Gathered(u, got, ys)
    BY <1>1, <2>1, <2>2 DEF Comes
  <2>4. r.ok /\ r.rest = b \o t /\ r.got = got \o ys
    BY <2>2, <2>3 DEF Gathered
  <2>5. q = Past(t, r.got, x)
    BY <2>1, <2>4
  <2>6. QED
    BY <2>1, <2>4, <2>5, ValuesPast
<1>3. QED
  BY <1>1, <1>2 DEF Comes

\* Each step that succeeds took the bytes of a value.
StepsStand(s, m, V, P) ==
    \A i \in 1 .. m, r \in Readers(V) :
        s[<<i, r>>].ok =>
            r.ok /\ \E x \in V, b \in Bytes, t \in Bytes :
                        /\ Goes(P, i, x, b) /\ r.rest = b \o t
                        /\ s[<<i, r>>] = Past(t, r.got, x)

\* Each step takes the bytes of a value that stand before the rest.
StepsTake(s, m, V, P) ==
    \A i \in 1 .. m, r \in Readers(V), x \in V, b \in Bytes, t \in Bytes :
        r.ok /\ Goes(P, i, x, b) /\ r.rest = b \o t => s[<<i, r>>] = Past(t, r.got, x)

\* If each step that succeeds took the bytes of a value, what was gathered
\* stands before the rest.
LEMMA GatheredStands ==
    ASSUME NEW m \in Nat, NEW V, NEW P, NEW c \in Readers(V),
           NEW s \in StepsIn(m, Readers(V)), NEW f, Repeats(f, m, Readers(V), c, s),
           StepsStand(s, m, V, P)
    PROVE  f[m].ok => c.ok /\ Stands(P, V, m, c, f[m])
<1>1. f \in [0 .. m -> Readers(V)] /\ f[0] = c /\ \A i \in 1 .. m : f[i] = s[<<i, f[i - 1]>>]
  BY DEF Repeats
<1>2. PICK S : S = {i \in 0 .. m : f[i].ok => c.ok /\ Stands(P, V, i, c, f[i])}
  OBVIOUS
<1>3. 0 \in S
  <2>1. c.ok => Stands(P, V, 0, c, c)
    BY NonePast
  <2>2. QED
    BY <1>1, <1>2, <2>1
<1>4. ASSUME NEW i \in 1 .. m, i - 1 \in S PROVE i \in S
  <2>1. PICK r \in Readers(V), n \in Nat :
           r = f[i - 1] /\ n = i - 1 /\ i = n + 1 /\ f[i] = s[<<i, r>>]
    <3>1. i - 1 \in 0 .. m /\ i - 1 \in Nat /\ i = i - 1 + 1
      OBVIOUS
    <3>2. QED
      BY <1>1, <3>1
  <2>2. ASSUME f[i].ok PROVE c.ok /\ Stands(P, V, i, c, f[i])
    <3>1. PICK x \in V, b \in Bytes, t \in Bytes :
             Goes(P, i, x, b) /\ r.rest = b \o t /\ f[i] = Past(t, r.got, x) /\ r.ok
      <4>1. s[<<i, r>>].ok
        BY <2>1, <2>2
      <4>2. r.ok /\ \E x \in V, b \in Bytes, t \in Bytes :
                        /\ Goes(P, i, x, b) /\ r.rest = b \o t
                        /\ s[<<i, r>>] = Past(t, r.got, x)
        BY <4>1 DEF StepsStand
      <4>3. QED
        BY <2>1, <4>2
    <3>2. c.ok /\ Stands(P, V, n, c, r)
      BY <1>2, <1>4, <2>1, <3>1
    <3>3. Stands(P, V, n + 1, c, Past(t, r.got, x))
      BY <2>1, <3>1, <3>2, StandsMore
    <3>4. QED
      BY <2>1, <3>1, <3>2, <3>3
  <2>3. i \in 0 .. m
    OBVIOUS
  <2>4. QED
    BY <1>2, <2>2, <2>3
<1>5. m \in S
  <2>1. 0 .. m \subseteq S
    BY <1>3, <1>4, UpTo
  <2>2. QED
    BY <2>1
<1>6. QED
  BY <1>2, <1>5

\* If each step takes the bytes of a value that stand before the rest, all of
\* them are gathered.
LEMMA GatheredBack ==
    ASSUME NEW m \in Nat, NEW V, NEW P, NEW c \in Readers(V), c.ok,
           NEW s \in StepsIn(m, Readers(V)), NEW f, Repeats(f, m, Readers(V), c, s),
           StepsTake(s, m, V, P)
    PROVE  Comes(P, V, m, c, f[m])
<1>1. f \in [0 .. m -> Readers(V)] /\ f[0] = c /\ \A i \in 1 .. m : f[i] = s[<<i, f[i - 1]>>]
  BY DEF Repeats
<1>2. PICK S : S = {i \in 0 .. m : Comes(P, V, i, c, f[i])}
  OBVIOUS
<1>3. 0 \in S
  <2>1. Comes(P, V, 0, c, c)
    BY NonePast
  <2>2. QED
    BY <1>1, <1>2, <2>1
<1>4. ASSUME NEW i \in 1 .. m, i - 1 \in S PROVE i \in S
  <2>1. PICK r \in Readers(V), n \in Nat :
           r = f[i - 1] /\ n = i - 1 /\ i = n + 1 /\ f[i] = s[<<i, r>>]
    <3>1. i - 1 \in 0 .. m /\ i - 1 \in Nat /\ i = i - 1 + 1
      OBVIOUS
    <3>2. QED
      BY <1>1, <3>1
  <2>2. Comes(P, V, n, c, r)
    BY <1>2, <1>4, <2>1
  <2>3. \A x \in V, b \in Bytes, t \in Bytes :
            r.ok /\ Goes(P, n + 1, x, b) /\ r.rest = b \o t => f[i] = Past(t, r.got, x)
    BY <2>1 DEF StepsTake
  <2>4. Comes(P, V, n + 1, c, f[i])
    BY <2>2, <2>3, ComesMore
  <2>5. i \in 0 .. m
    OBVIOUS
  <2>6. QED
    BY <1>2, <2>1, <2>4, <2>5
<1>5. m \in S
  <2>1. 0 .. m \subseteq S
    BY <1>3, <1>4, UpTo
  <2>2. QED
    BY <2>1
<1>6. QED
  BY <1>2, <1>5

-----------------------------------------------------------------------------
(* Values of a layout and their bytes *)

Typed(layout) ==
    {vals \in Seq(Values) :
        Len(vals) = Len(layout) /\ \A i \in 1 .. Len(layout) : vals[i] \in ValueOf(layout[i])}

Pieces(layout, vals) == [i \in 1 .. Len(layout) |-> FieldBytes(layout[i], vals[i])]

Enc(layout, vals) == FlattenSeq(Pieces(layout, vals))

\* A piece for each field
LEMMA PieceTypes ==
    ASSUME NEW layout \in Seq(Fields), NEW vals \in Typed(layout)
    PROVE  /\ Pieces(layout, vals) \in Seq(Bytes) /\ Len(Pieces(layout, vals)) = Len(layout)
           /\ Enc(layout, vals) \in Bytes
<1>1. PICK n \in Nat : n = Len(layout)
  OBVIOUS
<1>2. \A i \in 1 .. n : layout[i] \in Fields /\ vals[i] \in ValueOf(layout[i])
  BY <1>1 DEF Typed
<1>3. \A i \in 1 .. n : FieldBytes(layout[i], vals[i]) \in Bytes
  BY <1>2, FieldTypes
<1>4. PICK bs : bs = Pieces(layout, vals)
  OBVIOUS
<1>5. bs \in [1 .. n -> Bytes]
  BY <1>1, <1>3, <1>4 DEF Pieces
<1>6. bs \in Seq(Bytes) /\ Len(bs) = n
  BY <1>5
<1>7. FlattenSeq(bs) \in Bytes
  <2>1. <<>> \in Bytes
    BY EmptySeq DEF Bytes
  <2>2. QED
    BY <1>6, <2>1, RowPast
<1>8. QED
  BY <1>1, <1>4, <1>6, <1>7 DEF Enc

\* The places of the fields of a layout
FieldPlaces(layout) ==
    {p \in (1 .. Len(layout)) \X Values \X Bytes :
        p[2] \in ValueOf(layout[p[1]]) /\ p[3] = FieldBytes(layout[p[1]], p[2])}

\* What goes in a place of a layout is a value of its field, as its bytes.
LEMMA FieldGoes ==
    ASSUME NEW layout \in Seq(Fields), NEW i \in 1 .. Len(layout), NEW x \in Values, NEW b \in Bytes
    PROVE  Goes(FieldPlaces(layout), i, x, b)
               <=> x \in ValueOf(layout[i]) /\ b = FieldBytes(layout[i], x)
<1>1. PICK p : p = <<i, x, b>>
  OBVIOUS
<1>2. p \in (1 .. Len(layout)) \X Values \X Bytes /\ p[1] = i /\ p[2] = x /\ p[3] = b
  BY <1>1
<1>3. QED
  BY <1>1, <1>2 DEF Goes, FieldPlaces

\* Values in the places of a layout are its values, with their pieces.
LEMMA FieldsInPlace ==
    ASSUME NEW layout \in Seq(Fields), NEW vals \in Seq(Values), NEW bs \in Seq(Bytes)
    PROVE  InPlace(FieldPlaces(layout), Len(layout), vals, bs)
               <=> vals \in Typed(layout) /\ bs = Pieces(layout, vals)
<1>1. PICK n \in Nat : n = Len(layout)
  OBVIOUS
<1>2. ASSUME InPlace(FieldPlaces(layout), Len(layout), vals, bs)
      PROVE  vals \in Typed(layout) /\ bs = Pieces(layout, vals)
  <2>1. Len(vals) = n /\ Len(bs) = n
    BY <1>1, <1>2 DEF InPlace
  <2>2. ASSUME NEW i \in 1 .. n
        PROVE  vals[i] \in ValueOf(layout[i]) /\ bs[i] = FieldBytes(layout[i], vals[i])
    <3>1. Goes(FieldPlaces(layout), i, vals[i], bs[i])
      BY <1>1, <1>2 DEF InPlace
    <3>2. PICK x \in Values, b \in Bytes : x = vals[i] /\ b = bs[i]
      BY <2>1
    <3>3. QED
      BY <1>1, <3>1, <3>2, FieldGoes, SMTT(30)
  <2>3. vals \in Typed(layout)
    BY <1>1, <2>1, <2>2 DEF Typed
  <2>4. PICK cs \in Seq(Bytes) : cs = Pieces(layout, vals) /\ Len(cs) = n
    BY <1>1, <2>3, PieceTypes
  <2>5. \A i \in 1 .. n : cs[i] = bs[i]
    BY <1>1, <2>2, <2>4 DEF Pieces
  <2>6. bs = cs
    BY <2>1, <2>4, <2>5, SeqEqual
  <2>7. QED
    BY <2>3, <2>4, <2>6
<1>3. ASSUME vals \in Typed(layout), bs = Pieces(layout, vals)
      PROVE  InPlace(FieldPlaces(layout), Len(layout), vals, bs)
  <2>1. Len(vals) = n /\ Len(bs) = n
    BY <1>1, <1>3, PieceTypes DEF Typed
  <2>2. ASSUME NEW i \in 1 .. n PROVE Goes(FieldPlaces(layout), i, vals[i], bs[i])
    <3>1. vals[i] \in ValueOf(layout[i]) /\ bs[i] = FieldBytes(layout[i], vals[i])
      BY <1>1, <1>3 DEF Typed, Pieces
    <3>2. PICK x \in Values, b \in Bytes : x = vals[i] /\ b = bs[i]
      BY <2>1
    <3>3. QED
      BY <1>1, <3>1, <3>2, FieldGoes
  <2>3. QED
    BY <1>1, <2>1, <2>2 DEF InPlace
<1>4. QED
  BY <1>2, <1>3

\* The steps of ReadAll take their fields, and no others.
LEMMA FieldStepsRead ==
    ASSUME NEW layout \in Seq(Fields)
    PROVE  /\ StepsStand(FieldSteps(layout), Len(layout), Values, FieldPlaces(layout))
           /\ StepsTake(FieldSteps(layout), Len(layout), Values, FieldPlaces(layout))
<1>1. ASSUME NEW i \in 1 .. Len(layout), NEW r \in Readers(Values), FieldSteps(layout)[<<i, r>>].ok
      PROVE  r.ok /\ \E x \in Values, b \in Bytes, t \in Bytes :
                         /\ Goes(FieldPlaces(layout), i, x, b) /\ r.rest = b \o t
                         /\ FieldSteps(layout)[<<i, r>>] = Past(t, r.got, x)
  <2>1. PICK field \in Fields : field = layout[i]
    OBVIOUS
  <2>2. FieldSteps(layout)[<<i, r>>] = ReadField(r, field)
    BY <2>1, FieldStep
  <2>3. r.ok /\ \E x \in ValueOf(field), t \in Bytes :
                    r.rest = FieldBytes(field, x) \o t /\ ReadField(r, field) = Past(t, r.got, x)
    BY <1>1, <2>2, FieldStands
  <2>4. PICK x \in ValueOf(field), t \in Bytes :
           r.rest = FieldBytes(field, x) \o t /\ ReadField(r, field) = Past(t, r.got, x)
    BY <2>3
  <2>5. PICK b \in Bytes : b = FieldBytes(field, x) /\ x \in Values
    BY FieldTypes
  <2>6. Goes(FieldPlaces(layout), i, x, b)
    BY <2>1, <2>5, FieldGoes
  <2>7. QED
    BY <2>2, <2>3, <2>4, <2>5, <2>6
<1>2. ASSUME NEW i \in 1 .. Len(layout), NEW r \in Readers(Values), NEW x \in Values,
             NEW b \in Bytes, NEW t \in Bytes,
             r.ok, Goes(FieldPlaces(layout), i, x, b), r.rest = b \o t
      PROVE  FieldSteps(layout)[<<i, r>>] = Past(t, r.got, x)
  <2>1. PICK field \in Fields : field = layout[i]
    OBVIOUS
  <2>2. x \in ValueOf(field) /\ b = FieldBytes(field, x)
    BY <1>2, <2>1, FieldGoes
  <2>3. ReadField(r, field) = Past(t, r.got, x)
    BY <1>2, <2>2, FieldTaken
  <2>4. QED
    BY <2>1, <2>3, FieldStep
<1>3. QED
  BY <1>1, <1>2, ZenonT(60) DEF StepsStand, StepsTake

\* What ReadAll reads stands before the rest, and what stands there it reads.
LEMMA ReadBoth ==
    ASSUME NEW layout \in Seq(Fields), NEW r \in Readers(Values)
    PROVE  /\ ReadAll(r, layout) \in Readers(Values)
           /\ ReadAll(r, layout).ok =>
                  r.ok /\ Stands(FieldPlaces(layout), Values, Len(layout), r, ReadAll(r, layout))
           /\ r.ok => Comes(FieldPlaces(layout), Values, Len(layout), r, ReadAll(r, layout))
<1>1. PICK n \in Nat : n = Len(layout)
  OBVIOUS
<1>2. PICK f : Repeats(f, n, Readers(Values), r, FieldSteps(layout)) /\ ReadAll(r, layout) = f[n]
  BY <1>1, ReadAllRepeats
<1>3. FieldSteps(layout) \in StepsIn(n, Readers(Values))
  BY <1>1, FieldStep
<1>4. /\ StepsStand(FieldSteps(layout), n, Values, FieldPlaces(layout))
      /\ StepsTake(FieldSteps(layout), n, Values, FieldPlaces(layout))
  BY <1>1, FieldStepsRead
<1>5. f[n] \in Readers(Values)
  BY <1>2 DEF Repeats
<1>6. f[n].ok => r.ok /\ Stands(FieldPlaces(layout), Values, n, r, f[n])
  BY <1>2, <1>3, <1>4, GatheredStands
<1>7. r.ok => Comes(FieldPlaces(layout), Values, n, r, f[n])
  BY <1>2, <1>3, <1>4, GatheredBack
<1>8. QED
  BY <1>1, <1>2, <1>5, <1>6, <1>7

\* The reader that read vals before t, and that such values stand there
ReadTo(r, layout, vals, t) ==
    r.rest = Enc(layout, vals) \o t /\ ReadAll(r, layout) = Gathered(t, r.got, vals)

\* A layout that was read stands before the rest.
LEMMA ReadStands ==
    ASSUME NEW layout \in Seq(Fields), NEW r \in Readers(Values), ReadAll(r, layout).ok
    PROVE  r.ok /\ \E vals \in Typed(layout), t \in Bytes : ReadTo(r, layout, vals, t)
<1>1. r.ok /\ Stands(FieldPlaces(layout), Values, Len(layout), r, ReadAll(r, layout))
  BY ReadBoth
<1>2. PICK vals \in Seq(Values), bs \in Seq(Bytes), t \in Bytes :
         /\ InPlace(FieldPlaces(layout), Len(layout), vals, bs)
         /\ r.rest = FlattenSeq(bs) \o t /\ ReadAll(r, layout) = Gathered(t, r.got, vals)
  BY <1>1 DEF Stands
<1>3. vals \in Typed(layout) /\ bs = Pieces(layout, vals)
  BY <1>2, FieldsInPlace
<1>4. ReadTo(r, layout, vals, t)
  BY <1>2, <1>3 DEF ReadTo, Enc
<1>5. QED
  BY <1>1, <1>3, <1>4

\* The values of a layout that stand before the rest are read.
LEMMA ReadBack ==
    ASSUME NEW layout \in Seq(Fields), NEW r \in Readers(Values), r.ok,
           NEW vals \in Typed(layout), NEW t \in Bytes, r.rest = Enc(layout, vals) \o t
    PROVE  ReadAll(r, layout) = Gathered(t, r.got, vals)
<1>1. Comes(FieldPlaces(layout), Values, Len(layout), r, ReadAll(r, layout))
  BY ReadBoth
<1>2. PICK bs \in Seq(Bytes) : bs = Pieces(layout, vals)
  BY PieceTypes
<1>3. vals \in Seq(Values) /\ InPlace(FieldPlaces(layout), Len(layout), vals, bs)
  BY <1>2, FieldsInPlace DEF Typed
<1>4. r.rest = FlattenSeq(bs) \o t
  BY <1>2 DEF Enc
<1>5. QED
  BY <1>1, <1>3, <1>4 DEF Comes

-----------------------------------------------------------------------------
(* Groups of fields *)

GroupRead(before, layout) ==
    LET one == ReadAll([before EXCEPT !.got = <<>>], layout)
    IN  [one EXCEPT !.got = Append(before.got, @)]

\* A reader with nothing read.
LEMMA Cleared ==
    ASSUME NEW V, NEW W, NEW b \in Readers(V)
    PROVE  /\ [b EXCEPT !.got = <<>>] \in Readers(W)
           /\ [b EXCEPT !.got = <<>>].rest = b.rest /\ [b EXCEPT !.got = <<>>].got = <<>>
           /\ [b EXCEPT !.got = <<>>].ok = b.ok
<1>1. PICK rest \in Bytes, got \in Seq(V), ok \in BOOLEAN : b = [rest |-> rest, got |-> got, ok |-> ok]
  BY DEF Readers
<1>2. [b EXCEPT !.got = <<>>] = [rest |-> rest, got |-> <<>>, ok |-> ok]
  <2>1. [[rest |-> rest, got |-> got, ok |-> ok] EXCEPT !.got = <<>>]
            = [rest |-> rest, got |-> <<>>, ok |-> ok]
    OBVIOUS
  <2>2. QED
    BY <1>1, <2>1, Zenon
<1>3. <<>> \in Seq(W)
  BY EmptySeq
<1>4. [rest |-> rest, got |-> <<>>, ok |-> ok] \in Readers(W)
  BY <1>3 DEF Readers
<1>5. QED
  BY <1>1, <1>2, <1>4

\* A group is read as its fields are.
LEMMA GroupParts ==
    ASSUME NEW layout \in Seq(Fields), NEW b \in Readers(Seq(Values))
    PROVE  \E c \in Readers(Values) :
               /\ c.rest = b.rest /\ c.got = <<>> /\ c.ok = b.ok
               /\ ReadAll(c, layout) \in Readers(Values)
               /\ GroupRead(b, layout) =
                      [rest |-> ReadAll(c, layout).rest,
                       got |-> Append(b.got, ReadAll(c, layout).got),
                       ok |-> ReadAll(c, layout).ok]
<1>1. PICK c \in Readers(Values) :
         c = [b EXCEPT !.got = <<>>] /\ c.rest = b.rest /\ c.got = <<>> /\ c.ok = b.ok
  BY Cleared
<1>2. ReadAll(c, layout) \in Readers(Values)
  BY ReadBoth
<1>3. PICK one, rest, got, ok :
         one = ReadAll(c, layout) /\ one = [rest |-> rest, got |-> got, ok |-> ok]
  BY <1>2 DEF Readers
<1>4. PICK more : more = Append(b.got, one.got)
  OBVIOUS
<1>5. GroupRead(b, layout) = [one EXCEPT !.got = more]
  BY <1>1, <1>3, <1>4 DEF GroupRead
<1>6. [one EXCEPT !.got = more] = [rest |-> one.rest, got |-> more, ok |-> one.ok]
  <2>1. [[rest |-> rest, got |-> got, ok |-> ok] EXCEPT !.got = more]
            = [rest |-> rest, got |-> more, ok |-> ok]
    OBVIOUS
  <2>2. one.rest = rest /\ one.ok = ok
    BY <1>3
  <2>3. QED
    BY <1>3, <2>1, <2>2, Zenon
<1>7. GroupRead(b, layout) = [rest |-> ReadAll(c, layout).rest,
                              got |-> Append(b.got, ReadAll(c, layout).got),
                              ok |-> ReadAll(c, layout).ok]
  BY <1>3, <1>4, <1>5, <1>6
<1>8. QED
  BY <1>1, <1>2, <1>7

\* A group that was read stands before the rest.
LEMMA GroupStands ==
    ASSUME NEW layout \in Seq(Fields), NEW b \in Readers(Seq(Values))
    PROVE  /\ GroupRead(b, layout) \in Readers(Seq(Values))
           /\ GroupRead(b, layout).ok =>
                  b.ok /\ \E vals \in Typed(layout), t \in Bytes :
                              /\ b.rest = Enc(layout, vals) \o t
                              /\ GroupRead(b, layout) = Past(t, b.got, vals)
<1>1. PICK c \in Readers(Values), one \in Readers(Values) :
         /\ c.rest = b.rest /\ c.got = <<>> /\ c.ok = b.ok /\ one = ReadAll(c, layout)
         /\ GroupRead(b, layout) =
                [rest |-> one.rest, got |-> Append(b.got, one.got), ok |-> one.ok]
  <2>1. PICK c \in Readers(Values) :
           /\ c.rest = b.rest /\ c.got = <<>> /\ c.ok = b.ok
           /\ ReadAll(c, layout) \in Readers(Values)
           /\ GroupRead(b, layout) =
                  [rest |-> ReadAll(c, layout).rest,
                   got |-> Append(b.got, ReadAll(c, layout).got),
                   ok |-> ReadAll(c, layout).ok]
    BY GroupParts
  <2>2. PICK one \in Readers(Values) : one = ReadAll(c, layout)
    BY <2>1
  <2>3. QED
    BY <2>1, <2>2
<1>2. PICK gs, x : gs = b.got /\ gs \in Seq(Seq(Values)) /\ x = one.got /\ x \in Seq(Values)
  BY DEF Readers
<1>3. Append(gs, x) \in Seq(Seq(Values))
  BY <1>2, AppendProperties
<1>4. GroupRead(b, layout) \in Readers(Seq(Values))
  <2>1. one.rest \in Bytes /\ one.ok \in BOOLEAN
    BY DEF Readers
  <2>2. [rest |-> one.rest, got |-> Append(gs, x), ok |-> one.ok] \in Readers(Seq(Values))
    BY <1>3, <2>1 DEF Readers
  <2>3. QED
    BY <1>1, <1>2, <2>2
<1>5. ASSUME GroupRead(b, layout).ok
      PROVE  b.ok /\ \E vals \in Typed(layout), t \in Bytes :
                         /\ b.rest = Enc(layout, vals) \o t
                         /\ GroupRead(b, layout) = Past(t, b.got, vals)
  <2>1. ReadAll(c, layout).ok
    BY <1>1, <1>5
  <2>2. c.ok /\ \E vals \in Typed(layout), t \in Bytes : ReadTo(c, layout, vals, t)
    BY <2>1, ReadStands
  <2>3. PICK vals \in Typed(layout), t \in Bytes : ReadTo(c, layout, vals, t)
    BY <2>2
  <2>4. c.rest = Enc(layout, vals) \o t /\ one = Gathered(t, <<>>, vals)
    BY <1>1, <2>3 DEF ReadTo
  <2>5. <<>> \o vals = vals
    BY ConcatEmptySeq DEF Typed
  <2>6. GroupRead(b, layout) = Past(t, b.got, vals)
    BY <1>1, <2>4, <2>5 DEF Gathered, Past
  <2>7. QED
    BY <1>1, <2>2, <2>4, <2>6
<1>6. QED
  BY <1>4, <1>5

\* A group that stands before the rest is read.
LEMMA GroupTaken ==
    ASSUME NEW layout \in Seq(Fields), NEW b \in Readers(Seq(Values)), b.ok,
           NEW vals \in Typed(layout), NEW t \in Bytes, b.rest = Enc(layout, vals) \o t
    PROVE  GroupRead(b, layout) = Past(t, b.got, vals)
<1>1. PICK c \in Readers(Values) :
         /\ c.rest = b.rest /\ c.got = <<>> /\ c.ok = b.ok
         /\ GroupRead(b, layout) =
                [rest |-> ReadAll(c, layout).rest,
                 got |-> Append(b.got, ReadAll(c, layout).got),
                 ok |-> ReadAll(c, layout).ok]
  BY GroupParts
<1>2. ReadAll(c, layout) = Gathered(t, <<>>, vals)
  BY <1>1, ReadBack, ZenonT(60)
<1>3. <<>> \o vals = vals
  BY ConcatEmptySeq DEF Typed
<1>4. QED
  BY <1>1, <1>2, <1>3 DEF Gathered, Past

GroupSteps(n, layout) ==
    [p \in (1 .. n) \X Readers(Seq(Values)) |-> GroupRead(p[2], layout)]

\* Each step of a counted loop reads one group.
LEMMA GroupStep ==
    ASSUME NEW layout \in Seq(Fields), NEW n \in Nat
    PROVE  /\ GroupSteps(n, layout) \in StepsIn(n, Readers(Seq(Values)))
           /\ \A i \in 1 .. n, r \in Readers(Seq(Values)) :
                  GroupSteps(n, layout)[<<i, r>>] = GroupRead(r, layout)
<1>1. ASSUME NEW p \in (1 .. n) \X Readers(Seq(Values))
      PROVE  GroupRead(p[2], layout) \in Readers(Seq(Values))
  <2>1. PICK b \in Readers(Seq(Values)) : b = p[2]
    OBVIOUS
  <2>2. QED
    BY <2>1, GroupStands
<1>2. \A i \in 1 .. n, r \in Readers(Seq(Values)) :
          <<i, r>> \in (1 .. n) \X Readers(Seq(Values))
  OBVIOUS
<1>3. QED
  BY <1>1, <1>2 DEF GroupSteps, StepsIn

\* ReadGroups repeats those steps.
LEMMA GroupsRepeat ==
    ASSUME NEW r \in Readers(Values), NEW n \in Nat, NEW layout \in Seq(Fields)
    PROVE  \E f : /\ Repeats(f, n, Readers(Seq(Values)), [r EXCEPT !.got = <<>>],
                             GroupSteps(n, layout))
                  /\ ReadGroups(r, n, layout) = f[n]
<1> DEFINE Body(f) == [i \in 0 .. n |->
                          IF i = 0 THEN [r EXCEPT !.got = <<>>] ELSE GroupRead(f[i - 1], layout)]
<1>1. PICK T, s, c : T = Readers(Seq(Values)) /\ s = GroupSteps(n, layout)
                     /\ c = [r EXCEPT !.got = <<>>]
  OBVIOUS
<1>2. s \in StepsIn(n, T) /\ c \in T
  <2>1. c \in T
    BY <1>1, Cleared
  <2>2. QED
    BY <1>1, <2>1, GroupStep
<1>3. \A i \in 1 .. n, x \in T : s[<<i, x>>] = GroupRead(x, layout)
  BY <1>1, GroupStep
<1>4. PICK f : Repeats(f, n, T, c, s)
  BY <1>2, Repeated
<1>5. f = Body(f)
  <2>1. f \in [0 .. n -> T] /\ f[0] = c /\ \A i \in 1 .. n : f[i] = s[<<i, f[i - 1]>>]
    BY <1>4 DEF Repeats
  <2>2. ASSUME NEW i \in 0 .. n PROVE f[i] = Body(f)[i]
    <3>1. CASE i = 0
      BY <1>1, <2>1, <3>1
    <3>2. CASE i # 0
      <4>1. i \in 1 .. n /\ f[i - 1] \in T
        BY <2>1, <3>2
      <4>2. f[i] = GroupRead(f[i - 1], layout)
        BY <1>3, <2>1, <4>1
      <4>3. QED
        BY <3>2, <4>2
    <3>3. QED
      BY <3>1, <3>2
  <2>3. f = [i \in 0 .. n |-> f[i]] /\ Body(f) = [i \in 0 .. n |-> Body(f)[i]]
    BY <2>1
  <2> HIDE DEF Body
  <2>4. [i \in 0 .. n |-> f[i]] = [i \in 0 .. n |-> Body(f)[i]]
    BY <2>2
  <2>5. QED
    BY <2>3, <2>4, Zenon
<1>6. PICK g : g = CHOOSE read : read = Body(read)
  OBVIOUS
<1>7. g = Body(g)
  <2> HIDE DEF Body
  <2>1. QED
    BY <1>5, <1>6, Zenon
<1>8. ReadGroups(r, n, layout) = g[n]
  BY <1>6 DEF ReadGroups, GroupRead
<1>9. DOMAIN g = 0 .. n /\ g[0] = c /\ \A i \in 1 .. n : g[i] = GroupRead(g[i - 1], layout)
  BY <1>1, <1>7, SMTT(30)
<1>10. g = [i \in 0 .. n |-> g[i]]
  <2>1. Body(g) = [i \in 0 .. n |-> Body(g)[i]]
    OBVIOUS
  <2> HIDE DEF Body
  <2>2. QED
    BY <1>7, <2>1, Zenon
<1>11. Repeats(g, n, T, c, s)
  <2>1. \A i \in 1 .. n : g[i - 1] \in T => g[i] = s[<<i, g[i - 1]>>]
    BY <1>3, <1>9
  <2>2. QED
    BY <1>2, <1>9, <1>10, <2>1, ChosenRepeats
<1>12. QED
  BY <1>1, <1>8, <1>11

\* The places of the groups
GroupPlaces(n, layout) ==
    {p \in (1 .. n) \X Seq(Values) \X Bytes : p[2] \in Typed(layout) /\ p[3] = Enc(layout, p[2])}

\* What goes in a place of a counted loop is a group of values, as its bytes.
LEMMA GroupGoes ==
    ASSUME NEW layout \in Seq(Fields), NEW n \in Nat, NEW i \in 1 .. n,
           NEW x \in Seq(Values), NEW b \in Bytes
    PROVE  Goes(GroupPlaces(n, layout), i, x, b) <=> x \in Typed(layout) /\ b = Enc(layout, x)
<1>1. PICK p : p = <<i, x, b>>
  OBVIOUS
<1>2. p \in (1 .. n) \X Seq(Values) \X Bytes /\ p[1] = i /\ p[2] = x /\ p[3] = b
  BY <1>1
<1>3. QED
  BY <1>1, <1>2 DEF Goes, GroupPlaces

GroupBytes(layout, gs) == [i \in 1 .. Len(gs) |-> Enc(layout, gs[i])]

Rows(layout, gs) == FlattenSeq(GroupBytes(layout, gs))

\* The bytes of each group
LEMMA GroupTypes ==
    ASSUME NEW layout \in Seq(Fields), NEW gs \in Seq(Typed(layout))
    PROVE  /\ GroupBytes(layout, gs) \in Seq(Bytes) /\ Len(GroupBytes(layout, gs)) = Len(gs)
           /\ Rows(layout, gs) \in Bytes
           /\ gs \in Seq(Seq(Values))
<1>1. PICK n \in Nat : n = Len(gs) /\ \A i \in 1 .. n : gs[i] \in Typed(layout)
  BY LenProperties, ElementOfSeq
<1>2. PICK bs : bs = GroupBytes(layout, gs)
  OBVIOUS
<1>3. \A i \in 1 .. n : Enc(layout, gs[i]) \in Bytes
  BY <1>1, PieceTypes
<1>4. bs \in Seq(Bytes) /\ Len(bs) = n
  <2>1. bs \in [1 .. n -> Bytes]
    BY <1>1, <1>2, <1>3 DEF GroupBytes
  <2>2. QED
    BY <2>1
<1>5. FlattenSeq(bs) \in Bytes
  <2>1. <<>> \in Bytes
    BY EmptySeq DEF Bytes
  <2>2. QED
    BY <1>4, <2>1, RowPast
<1>6. gs \in Seq(Seq(Values))
  <2>1. Typed(layout) \subseteq Seq(Values)
    BY DEF Typed
  <2>2. QED
    BY <2>1, SeqMonotonic
<1>7. QED
  BY <1>1, <1>2, <1>4, <1>5, <1>6 DEF Rows

\* Groups in their places, with their bytes
LEMMA GroupsInPlace ==
    ASSUME NEW layout \in Seq(Fields), NEW n \in Nat, NEW gs \in Seq(Seq(Values)),
           NEW bs \in Seq(Bytes)
    PROVE  InPlace(GroupPlaces(n, layout), n, gs, bs)
               <=> Len(gs) = n /\ gs \in Seq(Typed(layout)) /\ bs = GroupBytes(layout, gs)
<1>1. ASSUME InPlace(GroupPlaces(n, layout), n, gs, bs)
      PROVE  Len(gs) = n /\ gs \in Seq(Typed(layout)) /\ bs = GroupBytes(layout, gs)
  <2>1. Len(gs) = n /\ Len(bs) = n
    BY <1>1 DEF InPlace
  <2>2. ASSUME NEW i \in 1 .. n PROVE gs[i] \in Typed(layout) /\ bs[i] = Enc(layout, gs[i])
    <3>1. Goes(GroupPlaces(n, layout), i, gs[i], bs[i])
      BY <1>1 DEF InPlace
    <3>2. PICK x \in Seq(Values), b \in Bytes : x = gs[i] /\ b = bs[i]
      BY <2>1, ElementOfSeq
    <3>3. QED
      BY <3>1, <3>2, GroupGoes
  <2>3. gs \in Seq(Typed(layout))
    <3>1. gs \in [1 .. n -> Typed(layout)]
      BY <2>1, <2>2, LenProperties
    <3>2. QED
      BY <3>1
  <2>4. PICK cs \in Seq(Bytes) : cs = GroupBytes(layout, gs) /\ Len(cs) = n
    BY <2>1, <2>3, GroupTypes
  <2>5. \A i \in 1 .. n : cs[i] = bs[i]
    BY <2>1, <2>2, <2>4 DEF GroupBytes
  <2>6. bs = cs
    BY <2>1, <2>4, <2>5, SeqEqual
  <2>7. QED
    BY <2>1, <2>3, <2>4, <2>6
<1>2. ASSUME Len(gs) = n, gs \in Seq(Typed(layout)), bs = GroupBytes(layout, gs)
      PROVE  InPlace(GroupPlaces(n, layout), n, gs, bs)
  <2>1. Len(bs) = n
    BY <1>2, GroupTypes
  <2>2. ASSUME NEW i \in 1 .. n PROVE Goes(GroupPlaces(n, layout), i, gs[i], bs[i])
    <3>1. gs[i] \in Typed(layout) /\ bs[i] = Enc(layout, gs[i])
      BY <1>2, ElementOfSeq DEF GroupBytes
    <3>2. PICK x \in Seq(Values), b \in Bytes : x = gs[i] /\ b = bs[i]
      BY <1>2, <2>1, ElementOfSeq
    <3>3. QED
      BY <3>1, <3>2, GroupGoes
  <2>3. QED
    BY <1>2, <2>1, <2>2 DEF InPlace
<1>3. QED
  BY <1>1, <1>2

\* Steps over groups read what stands in front of them, and nothing else.
LEMMA GroupStepsRead ==
    ASSUME NEW layout \in Seq(Fields), NEW n \in Nat
    PROVE  /\ StepsStand(GroupSteps(n, layout), n, Seq(Values), GroupPlaces(n, layout))
           /\ StepsTake(GroupSteps(n, layout), n, Seq(Values), GroupPlaces(n, layout))
<1>1. ASSUME NEW i \in 1 .. n, NEW r \in Readers(Seq(Values)), GroupSteps(n, layout)[<<i, r>>].ok
      PROVE  r.ok /\ \E x \in Seq(Values), b \in Bytes, t \in Bytes :
                         /\ Goes(GroupPlaces(n, layout), i, x, b) /\ r.rest = b \o t
                         /\ GroupSteps(n, layout)[<<i, r>>] = Past(t, r.got, x)
  <2>1. GroupSteps(n, layout)[<<i, r>>] = GroupRead(r, layout)
    BY GroupStep
  <2>2. r.ok /\ \E x \in Typed(layout), t \in Bytes :
                    r.rest = Enc(layout, x) \o t /\ GroupRead(r, layout) = Past(t, r.got, x)
    BY <1>1, <2>1, GroupStands
  <2>3. PICK x \in Typed(layout), t \in Bytes :
           r.rest = Enc(layout, x) \o t /\ GroupRead(r, layout) = Past(t, r.got, x)
    BY <2>2
  <2>4. PICK b \in Bytes : b = Enc(layout, x) /\ x \in Seq(Values)
    BY PieceTypes DEF Typed
  <2>5. Goes(GroupPlaces(n, layout), i, x, b)
    BY <2>4, GroupGoes
  <2>6. QED
    BY <2>1, <2>2, <2>3, <2>4, <2>5
<1>2. ASSUME NEW i \in 1 .. n, NEW r \in Readers(Seq(Values)), NEW x \in Seq(Values),
             NEW b \in Bytes, NEW t \in Bytes,
             r.ok, Goes(GroupPlaces(n, layout), i, x, b), r.rest = b \o t
      PROVE  GroupSteps(n, layout)[<<i, r>>] = Past(t, r.got, x)
  <2>1. x \in Typed(layout) /\ b = Enc(layout, x)
    BY <1>2, GroupGoes
  <2>2. GroupRead(r, layout) = Past(t, r.got, x)
    BY <1>2, <2>1, GroupTaken
  <2>3. QED
    BY <2>2, GroupStep
<1>3. QED
  BY <1>1, <1>2, ZenonT(60) DEF StepsStand, StepsTake

\* What ReadGroups reads stands before the rest, and what stands there it reads.
LEMMA GroupsBoth ==
    ASSUME NEW layout \in Seq(Fields), NEW n \in Nat, NEW r \in Readers(Values)
    PROVE  \E c \in Readers(Seq(Values)) :
               /\ c.rest = r.rest /\ c.got = <<>> /\ c.ok = r.ok
               /\ ReadGroups(r, n, layout) \in Readers(Seq(Values))
               /\ ReadGroups(r, n, layout).ok =>
                      r.ok /\ Stands(GroupPlaces(n, layout), Seq(Values), n, c,
                                     ReadGroups(r, n, layout))
               /\ r.ok => Comes(GroupPlaces(n, layout), Seq(Values), n, c, ReadGroups(r, n, layout))
<1>1. PICK c \in Readers(Seq(Values)) :
         c = [r EXCEPT !.got = <<>>] /\ c.rest = r.rest /\ c.got = <<>> /\ c.ok = r.ok
  BY Cleared
<1>2. PICK f : /\ Repeats(f, n, Readers(Seq(Values)), c, GroupSteps(n, layout))
               /\ ReadGroups(r, n, layout) = f[n]
  BY <1>1, GroupsRepeat
<1>3. GroupSteps(n, layout) \in StepsIn(n, Readers(Seq(Values)))
  BY GroupStep
<1>4. /\ StepsStand(GroupSteps(n, layout), n, Seq(Values), GroupPlaces(n, layout))
      /\ StepsTake(GroupSteps(n, layout), n, Seq(Values), GroupPlaces(n, layout))
  BY GroupStepsRead
<1>5. f[n] \in Readers(Seq(Values))
  BY <1>2 DEF Repeats
<1>6. f[n].ok => c.ok /\ Stands(GroupPlaces(n, layout), Seq(Values), n, c, f[n])
  BY <1>2, <1>3, <1>4, GatheredStands
<1>7. c.ok => Comes(GroupPlaces(n, layout), Seq(Values), n, c, f[n])
  BY <1>2, <1>3, <1>4, GatheredBack
<1>8. QED
  BY <1>1, <1>2, <1>5, <1>6, <1>7

\* The reader that read the groups before t
ReadOver(t, gs) == [rest |-> t, got |-> gs, ok |-> TRUE]

GroupsTo(r, n, layout, gs, t) ==
    /\ Len(gs) = n /\ r.rest = Rows(layout, gs) \o t
    /\ ReadGroups(r, n, layout) = ReadOver(t, gs)

\* Groups that were read stand before the rest.
LEMMA GroupsStand ==
    ASSUME NEW layout \in Seq(Fields), NEW n \in Nat, NEW r \in Readers(Values),
           ReadGroups(r, n, layout).ok
    PROVE  r.ok /\ \E gs \in Seq(Typed(layout)), t \in Bytes : GroupsTo(r, n, layout, gs, t)
<1>1. PICK c \in Readers(Seq(Values)) :
         /\ c.rest = r.rest /\ c.got = <<>> /\ c.ok = r.ok
         /\ ReadGroups(r, n, layout).ok =>
                r.ok /\ Stands(GroupPlaces(n, layout), Seq(Values), n, c, ReadGroups(r, n, layout))
  BY GroupsBoth
<1>2. r.ok /\ Stands(GroupPlaces(n, layout), Seq(Values), n, c, ReadGroups(r, n, layout))
  BY <1>1
<1>3. PICK gs \in Seq(Seq(Values)), bs \in Seq(Bytes), t \in Bytes :
         /\ InPlace(GroupPlaces(n, layout), n, gs, bs) /\ c.rest = FlattenSeq(bs) \o t
         /\ ReadGroups(r, n, layout) = Gathered(t, c.got, gs)
  BY <1>2 DEF Stands
<1>4. Len(gs) = n /\ gs \in Seq(Typed(layout)) /\ bs = GroupBytes(layout, gs)
  BY <1>3, GroupsInPlace
<1>5. Gathered(t, c.got, gs) = ReadOver(t, gs)
  <2>1. <<>> \o gs = gs
    BY ConcatEmptySeq
  <2>2. QED
    BY <1>1, <2>1 DEF Gathered, ReadOver
<1>6. GroupsTo(r, n, layout, gs, t)
  BY <1>1, <1>3, <1>4, <1>5 DEF GroupsTo, Rows
<1>7. QED
  BY <1>2, <1>4, <1>6

\* Groups that stand before the rest are read.
LEMMA GroupsBack ==
    ASSUME NEW layout \in Seq(Fields), NEW r \in Readers(Values), r.ok,
           NEW gs \in Seq(Typed(layout)), NEW t \in Bytes, r.rest = Rows(layout, gs) \o t
    PROVE  ReadGroups(r, Len(gs), layout) = ReadOver(t, gs)
<1>1. PICK n \in Nat : n = Len(gs)
  OBVIOUS
<1>2. PICK c \in Readers(Seq(Values)) :
         /\ c.rest = r.rest /\ c.got = <<>> /\ c.ok = r.ok
         /\ Comes(GroupPlaces(n, layout), Seq(Values), n, c, ReadGroups(r, n, layout))
  BY GroupsBoth
<1>3. PICK bs \in Seq(Bytes) : bs = GroupBytes(layout, gs)
  BY GroupTypes
<1>4. gs \in Seq(Seq(Values)) /\ InPlace(GroupPlaces(n, layout), n, gs, bs)
  <2>1. gs \in Seq(Seq(Values))
    BY GroupTypes
  <2>2. QED
    BY <1>1, <1>3, <2>1, GroupsInPlace
<1>5. c.rest = FlattenSeq(bs) \o t
  BY <1>2, <1>3 DEF Rows
<1>6. ReadGroups(r, n, layout) = Gathered(t, c.got, gs)
  BY <1>2, <1>4, <1>5 DEF Comes
<1>7. <<>> \o gs = gs
  BY <1>4, ConcatEmptySeq
<1>8. QED
  BY <1>1, <1>2, <1>6, <1>7 DEF Gathered, ReadOver

-----------------------------------------------------------------------------
(* Layouts in a row *)

\* A field more
LEMMA EncMore ==
    ASSUME NEW layout \in Seq(Fields), NEW vals \in Typed(layout),
           NEW field \in Fields, NEW x \in ValueOf(field)
    PROVE  /\ Append(vals, x) \in Typed(Append(layout, field))
           /\ Enc(Append(layout, field), Append(vals, x)) = Enc(layout, vals) \o FieldBytes(field, x)
<1>1. PICK n \in Nat : n = Len(layout)
  OBVIOUS
<1>2. PICK more \in Seq(Fields) :
         /\ more = Append(layout, field) /\ Len(more) = n + 1 /\ more[n + 1] = field
         /\ \A i \in 1 .. n : more[i] = layout[i]
  <2>1. PICK new : new = Append(layout, field)
    OBVIOUS
  <2>2. /\ new \in Seq(Fields) /\ Len(new) = n + 1 /\ new[n + 1] = field
        /\ \A i \in 1 .. n : new[i] = layout[i]
    BY <1>1, <2>1, AppendProperties
  <2>3. QED
    BY <2>1, <2>2
<1>3. x \in Values /\ FieldBytes(field, x) \in Bytes
  BY FieldTypes
<1>4. /\ vals \in Seq(Values) /\ Len(vals) = n
      /\ \A i \in 1 .. n : vals[i] \in ValueOf(layout[i])
  BY <1>1 DEF Typed
<1>5. PICK ys \in Seq(Values) :
         /\ ys = Append(vals, x) /\ Len(ys) = n + 1 /\ ys[n + 1] = x
         /\ \A i \in 1 .. n : ys[i] = vals[i]
  <2>1. PICK new : new = Append(vals, x)
    OBVIOUS
  <2>2. /\ new \in Seq(Values) /\ Len(new) = n + 1 /\ new[n + 1] = x
        /\ \A i \in 1 .. n : new[i] = vals[i]
    BY <1>3, <1>4, <2>1, AppendProperties
  <2>3. QED
    BY <2>1, <2>2
<1>6. \A i \in 1 .. n + 1 : ys[i] \in ValueOf(more[i])
  <2>1. ASSUME NEW i \in 1 .. n + 1 PROVE ys[i] \in ValueOf(more[i])
    <3>1. CASE i = n + 1
      BY <1>2, <1>5, <3>1
    <3>2. CASE i # n + 1
      <4>1. i \in 1 .. n
        BY <3>2
      <4>2. QED
        BY <1>2, <1>4, <1>5, <4>1
    <3>3. QED
      BY <3>1, <3>2
  <2>2. QED
    BY <2>1
<1>7. ys \in Typed(more)
  BY <1>2, <1>5, <1>6 DEF Typed
<1>8. PICK bs \in Seq(Bytes) : bs = Pieces(layout, vals) /\ Len(bs) = n
  BY <1>1, PieceTypes
<1>9. PICK b \in Bytes : b = FieldBytes(field, x)
  BY <1>3
<1>10. PICK cs \in Seq(Bytes) : cs = Pieces(more, ys) /\ Len(cs) = n + 1
  BY <1>2, <1>7, PieceTypes
<1>11. PICK ds \in Seq(Bytes) :
          /\ ds = Append(bs, b) /\ Len(ds) = n + 1 /\ ds[n + 1] = b
          /\ \A i \in 1 .. n : ds[i] = bs[i]
  <2>1. PICK new : new = Append(bs, b)
    OBVIOUS
  <2>2. /\ new \in Seq(Bytes) /\ Len(new) = n + 1 /\ new[n + 1] = b
        /\ \A i \in 1 .. n : new[i] = bs[i]
    BY <1>8, <2>1, AppendProperties
  <2>3. QED
    BY <2>1, <2>2
<1>12. \A i \in 1 .. n + 1 : cs[i] = ds[i]
  <2>1. ASSUME NEW i \in 1 .. n + 1 PROVE cs[i] = ds[i]
    <3>1. cs[i] = FieldBytes(more[i], ys[i])
      BY <1>2, <1>10 DEF Pieces
    <3>2. CASE i = n + 1
      BY <1>2, <1>5, <1>9, <1>11, <3>1, <3>2
    <3>3. CASE i # n + 1
      <4>1. i \in 1 .. n
        BY <3>3
      <4>2. bs[i] = FieldBytes(layout[i], vals[i])
        BY <1>1, <1>8, <4>1 DEF Pieces
      <4>3. QED
        BY <1>2, <1>5, <1>11, <3>1, <4>1, <4>2
    <3>4. QED
      BY <3>2, <3>3
  <2>2. QED
    BY <2>1
<1>13. cs = ds
  BY <1>10, <1>11, <1>12, SeqEqual
<1>14. FlattenSeq(ds) = FlattenSeq(bs) \o b
  <2>1. PICK S : S = Nat
    OBVIOUS
  <2>2. bs \in Seq(Seq(S)) /\ b \in Seq(S)
    BY <2>1 DEF Bytes
  <2>3. QED
    BY <1>11, <2>2, RowMore
<1>15. QED
  BY <1>2, <1>5, <1>7, <1>8, <1>9, <1>10, <1>13, <1>14 DEF Enc

\* No field
LEMMA EncNone ==
    /\ <<>> \in Seq(Fields) /\ Len(<<>>) = 0
    /\ <<>> \in Typed(<<>>) /\ Enc(<<>>, <<>>) = <<>>
<1>1. /\ <<>> \in Seq(Fields) /\ <<>> \in Seq(Values) /\ <<>> \in Seq(Bytes)
      /\ Len(<<>>) = 0
  BY EmptySeq
<1>2. <<>> \in Typed(<<>>)
  BY <1>1 DEF Typed
<1>3. PICK bs \in Seq(Bytes) : bs = Pieces(<<>>, <<>>) /\ Len(bs) = 0
  BY <1>1, <1>2, PieceTypes
<1>4. bs = <<>>
  BY <1>3, EmptySeq
<1>5. QED
  BY <1>1, <1>2, <1>3, <1>4, RowNone DEF Enc

\* One field
LEMMA EncOne ==
    ASSUME NEW field \in Fields, NEW x \in ValueOf(field)
    PROVE  /\ <<field>> \in Seq(Fields) /\ Len(<<field>>) = 1 /\ <<x>> \in Typed(<<field>>)
           /\ Enc(<<field>>, <<x>>) = FieldBytes(field, x)
<1>1. PICK l \in Seq(Fields) : l = <<>>
  BY EncNone
<1>2. PICK v \in Typed(l) : v = <<>> /\ Enc(l, v) = <<>>
  BY <1>1, EncNone
<1>3. Append(l, field) = <<field>> /\ Append(v, x) = <<x>>
  BY <1>1, <1>2
<1>4. PICK b \in Bytes : b = FieldBytes(field, x)
  BY FieldTypes
<1>5. <<>> \o b = b
  BY ConcatEmptySeq DEF Bytes
<1>6. /\ Append(v, x) \in Typed(Append(l, field))
      /\ Enc(Append(l, field), Append(v, x)) = Enc(l, v) \o FieldBytes(field, x)
  BY EncMore
<1>7. Enc(<<field>>, <<x>>) = b /\ <<x>> \in Typed(<<field>>)
  BY <1>2, <1>3, <1>4, <1>5, <1>6
<1>8. <<field>> \in Seq(Fields) /\ Len(<<field>>) = 1
  OBVIOUS
<1>9. QED
  BY <1>4, <1>7, <1>8

\* The values of one field
LEMMA TypedOne ==
    ASSUME NEW field \in Fields, NEW vals \in Typed(<<field>>)
    PROVE  \E x \in ValueOf(field) : vals = <<x>>
<1>1. Len(<<field>>) = 1 /\ <<field>>[1] = field
  OBVIOUS
<1>2. vals \in Seq(Values) /\ Len(vals) = 1 /\ vals[1] \in ValueOf(field)
  BY <1>1 DEF Typed
<1>3. vals = <<vals[1]>>
  BY <1>2
<1>4. QED
  BY <1>2, <1>3

\* Values of one layout after another
LEMMA TypedBoth ==
    ASSUME NEW l \in Seq(Fields), NEW k \in Seq(Fields), NEW v \in Typed(l), NEW w \in Typed(k)
    PROVE  v \o w \in Typed(l \o k)
<1>1. PICK m \in Nat, n \in Nat : m = Len(l) /\ n = Len(k)
  OBVIOUS
<1>2. /\ v \in Seq(Values) /\ Len(v) = m /\ \A i \in 1 .. m : v[i] \in ValueOf(l[i])
      /\ w \in Seq(Values) /\ Len(w) = n /\ \A i \in 1 .. n : w[i] \in ValueOf(k[i])
  BY <1>1 DEF Typed
<1>3. PICK y \in Seq(Values) :
         /\ y = v \o w /\ Len(y) = m + n
         /\ \A i \in 1 .. m + n : y[i] = IF i =< m THEN v[i] ELSE w[i - m]
  <2>1. PICK new : new = v \o w
    OBVIOUS
  <2>2. /\ new \in Seq(Values) /\ Len(new) = m + n
        /\ \A i \in 1 .. m + n : new[i] = IF i =< m THEN v[i] ELSE w[i - m]
    BY <1>2, <2>1, ConcatProperties, ZenonT(60)
  <2>3. QED
    BY <2>1, <2>2
<1>4. PICK h \in Seq(Fields) :
         /\ h = l \o k /\ Len(h) = m + n
         /\ \A i \in 1 .. m + n : h[i] = IF i =< m THEN l[i] ELSE k[i - m]
  <2>1. PICK new : new = l \o k
    OBVIOUS
  <2>2. /\ new \in Seq(Fields) /\ Len(new) = m + n
        /\ \A i \in 1 .. m + n : new[i] = IF i =< m THEN l[i] ELSE k[i - m]
    BY <1>1, <2>1, ConcatProperties
  <2>3. QED
    BY <2>1, <2>2
<1>5. ASSUME NEW i \in 1 .. m + n PROVE y[i] \in ValueOf(h[i])
  <2>1. CASE i =< m
    <3>1. i \in 1 .. m
      BY <2>1
    <3>2. QED
      BY <1>2, <1>3, <1>4, <2>1, <3>1
  <2>2. CASE ~ i =< m
    <3>1. i - m \in 1 .. n
      BY <2>2
    <3>2. QED
      BY <1>2, <1>3, <1>4, <2>2, <3>1
  <2>3. QED
    BY <2>1, <2>2
<1>6. QED
  BY <1>3, <1>4, <1>5 DEF Typed

\* Values of layouts in a row are those of each.
LEMMA TypedSplit ==
    ASSUME NEW l \in Seq(Fields), NEW k \in Seq(Fields), NEW g \in Typed(l \o k)
    PROVE  \E v \in Typed(l), w \in Typed(k) : g = v \o w
<1>1. PICK m \in Nat, n \in Nat : m = Len(l) /\ n = Len(k)
  OBVIOUS
<1>2. PICK h \in Seq(Fields) :
         /\ h = l \o k /\ Len(h) = m + n
         /\ \A i \in 1 .. m + n : h[i] = IF i =< m THEN l[i] ELSE k[i - m]
  <2>1. PICK new : new = l \o k
    OBVIOUS
  <2>2. /\ new \in Seq(Fields) /\ Len(new) = m + n
        /\ \A i \in 1 .. m + n : new[i] = IF i =< m THEN l[i] ELSE k[i - m]
    BY <1>1, <2>1, ConcatProperties
  <2>3. QED
    BY <2>1, <2>2
<1>3. g \in Seq(Values) /\ Len(g) = m + n /\ \A i \in 1 .. m + n : g[i] \in ValueOf(h[i])
  BY <1>2 DEF Typed
<1>4. PICK v, w : v = SubSeq(g, 1, m) /\ w = SubSeq(g, m + 1, m + n)
  OBVIOUS
<1>5. v \in Seq(Values) /\ Len(v) = m /\ \A i \in 1 .. m : v[i] = g[i]
  <2>1. \A i \in 1 .. m : g[i] \in Values
    BY <1>3, ElementOfSeq
  <2>2. QED
    BY <1>4, <2>1, SubSeqProperties
<1>6. w \in Seq(Values) /\ Len(w) = n /\ \A i \in 1 .. n : w[i] = g[m + i]
  <2>1. \A i \in m + 1 .. m + n : g[i] \in Values
    BY <1>3, ElementOfSeq
  <2>2. /\ SubSeq(g, m + 1, m + n) \in Seq(Values)
        /\ Len(SubSeq(g, m + 1, m + n)) = IF m + 1 =< m + n THEN m + n - (m + 1) + 1 ELSE 0
        /\ \A i \in 1 .. m + n - (m + 1) + 1 : SubSeq(g, m + 1, m + n)[i] = g[m + 1 + i - 1]
    BY <2>1, SubSeqProperties
  <2>3. QED
    BY <1>4, <2>2
<1>7. g = v \o w
  <2>1. SubSeq(g, 1, m) \o SubSeq(g, m + 1, m + n) = SubSeq(g, 1, m + n)
    <3>1. /\ 1 \in 1 .. Len(g) + 1 /\ m \in 1 - 1 .. Len(g) /\ m + n \in m .. Len(g)
      BY <1>3
    <3>2. QED
      BY <1>3, <3>1, ConcatAdjacentSubSeq
  <2>2. QED
    BY <1>3, <1>4, <2>1, SubSeqFull
<1>8. v \in Typed(l)
  <2>1. ASSUME NEW i \in 1 .. m PROVE v[i] \in ValueOf(l[i])
    <3>1. i \in 1 .. m + n /\ h[i] = l[i]
      BY <1>2
    <3>2. QED
      BY <1>3, <1>5, <3>1
  <2>2. QED
    BY <1>1, <1>5, <2>1 DEF Typed
<1>9. w \in Typed(k)
  <2>1. ASSUME NEW i \in 1 .. n PROVE w[i] \in ValueOf(k[i])
    <3>1. m + i \in 1 .. m + n /\ h[m + i] = k[i]
      BY <1>2
    <3>2. QED
      BY <1>3, <1>6, <3>1
  <2>2. QED
    BY <1>1, <1>6, <2>1 DEF Typed
<1>10. QED
  BY <1>7, <1>8, <1>9

\* Whatever n fields follow, their bytes follow.
Joins(l, v, n) ==
    \A k \in Seq(Fields) : Len(k) = n =>
        \A w \in Typed(k) : Enc(l \o k, v \o w) = Enc(l, v) \o Enc(k, w)

\* A last field after the others
LEMMA AppendLast ==
    ASSUME NEW S, NEW s \in Seq(S), NEW k \in Seq(S), NEW x \in S
    PROVE  s \o Append(k, x) = Append(s \o k, x) /\ s \o k \in Seq(S) /\ Append(k, x) = k \o <<x>>
<1>1. <<x>> \in Seq(S) /\ s \o k \in Seq(S)
  OBVIOUS
<1>2. Append(k, x) = k \o <<x>> /\ Append(s \o k, x) = (s \o k) \o <<x>>
  BY <1>1, AppendIsConcat
<1>3. (s \o k) \o <<x>> = s \o (k \o <<x>>)
  BY <1>1, ConcatAssociative
<1>4. QED
  BY <1>1, <1>2, <1>3

\* If layouts join up to a length, they join up to the next.
LEMMA JoinsMore ==
    ASSUME NEW l \in Seq(Fields), NEW v \in Typed(l), NEW n \in Nat, Joins(l, v, n)
    PROVE  Joins(l, v, n + 1)
<1>1. ASSUME NEW k \in Seq(Fields), Len(k) = n + 1, NEW w \in Typed(k)
      PROVE  Enc(l \o k, v \o w) = Enc(l, v) \o Enc(k, w)
  <2>1. PICK h \in Seq(Fields), field \in Fields : k = Append(h, field)
    <3>1. k # <<>>
      BY <1>1, EmptySeq
    <3>2. QED
      BY <3>1, SequenceEmptyOrAppend
  <2>2. Len(h) = n
    BY <1>1, <2>1, AppendProperties
  <2>3. k = h \o <<field>> /\ l \o k = Append(l \o h, field) /\ l \o h \in Seq(Fields)
    BY <2>1, AppendLast, SMTT(30)
  <2>4. PICK u \in Typed(h), x \in ValueOf(field) : w = Append(u, x)
    <3>1. <<field>> \in Seq(Fields)
      OBVIOUS
    <3>2. PICK u \in Typed(h), y \in Typed(<<field>>) : w = u \o y
      BY <2>3, <3>1, TypedSplit, ZenonT(60)
    <3>3. PICK x \in ValueOf(field) : y = <<x>>
      BY TypedOne
    <3>4. u \in Seq(Values) /\ x \in Values
      BY FieldTypes DEF Typed
    <3>5. Append(u, x) = u \o <<x>>
      BY <3>4, AppendIsConcat
    <3>6. QED
      BY <3>2, <3>3, <3>5
  <2>5. v \o w = Append(v \o u, x)
    <3>1. v \in Seq(Values) /\ u \in Seq(Values) /\ x \in Values
      BY FieldTypes DEF Typed
    <3>2. QED
      BY <2>4, <3>1, AppendLast, SMTT(30)
  <2>6. v \o u \in Typed(l \o h)
    BY TypedBoth
  <2>7. Enc(l \o k, v \o w) = Enc(l \o h, v \o u) \o FieldBytes(field, x)
    BY <2>3, <2>5, <2>6, EncMore, ZenonT(60)
  <2>8. Enc(l \o h, v \o u) = Enc(l, v) \o Enc(h, u)
    BY <2>2 DEF Joins
  <2>9. Enc(k, w) = Enc(h, u) \o FieldBytes(field, x)
    BY <2>1, <2>4, EncMore
  <2>10. PICK p \in Bytes, q \in Bytes, b \in Bytes :
           p = Enc(l, v) /\ q = Enc(h, u) /\ b = FieldBytes(field, x)
    BY PieceTypes, FieldTypes
  <2>11. (p \o q) \o b = p \o (q \o b)
    BY JoinThree, ZenonT(60)
  <2>12. QED
    BY <2>7, <2>8, <2>9, <2>10, <2>11
<1>2. QED
  BY <1>1 DEF Joins

\* Layouts in a row have their bytes in a row.
LEMMA EncBoth ==
    ASSUME NEW l \in Seq(Fields), NEW k \in Seq(Fields), NEW v \in Typed(l), NEW w \in Typed(k)
    PROVE  /\ v \o w \in Typed(l \o k) /\ l \o k \in Seq(Fields)
           /\ Enc(l \o k, v \o w) = Enc(l, v) \o Enc(k, w)
<1>1. PICK m \in Nat : m = Len(k)
  OBVIOUS
<1>2. PICK S : S = {n \in 0 .. m : Joins(l, v, n)}
  OBVIOUS
<1>3. 0 \in S
  <2>1. ASSUME NEW h \in Seq(Fields), Len(h) = 0, NEW u \in Typed(h)
        PROVE  Enc(l \o h, v \o u) = Enc(l, v) \o Enc(h, u)
    <3>1. h = <<>> /\ u = <<>>
      BY <2>1, EmptySeq DEF Typed
    <3>2. l \o h = l /\ v \o u = v
      BY <3>1, ConcatEmptySeq DEF Typed
    <3>3. Enc(l, v) \o <<>> = Enc(l, v)
      BY PieceTypes, ConcatEmptySeq DEF Bytes
    <3>4. QED
      BY <3>1, <3>2, <3>3, EncNone
  <2>2. Joins(l, v, 0)
    BY <2>1 DEF Joins
  <2>3. QED
    BY <1>2, <2>2
<1>4. ASSUME NEW i \in 1 .. m, i - 1 \in S PROVE i \in S
  <2>1. PICK n \in Nat : n = i - 1 /\ i = n + 1 /\ i \in 0 .. m
    OBVIOUS
  <2>2. Joins(l, v, n + 1)
    BY <1>2, <1>4, <2>1, JoinsMore
  <2>3. QED
    BY <1>2, <2>1, <2>2
<1>5. 0 .. m \subseteq S
  BY <1>3, <1>4, UpTo
<1>6. Joins(l, v, m)
  BY <1>2, <1>5
<1>7. QED
  BY <1>1, <1>6, TypedBoth DEF Joins

\* Cells are their own bytes.
CellBytes(n) == \A s \in Bytes : Len(s) = n => s \in Typed(Cells(n)) /\ Enc(Cells(n), s) = s

\* A layout of cells holds numbers.
LEMMA CellTypes ==
    ASSUME NEW n \in Nat
    PROVE  /\ Cells(n) \in Seq(Fields) /\ Len(Cells(n)) = n
           /\ Cells(n + 1) = Append(Cells(n), "cell")
           /\ \A v \in Typed(Cells(n)) : v \in Bytes /\ Len(v) = n
<1>1. "cell" \in Fields
  BY DEF Fields
<1>2. Cells(n) \in Seq(Fields) /\ Len(Cells(n)) = n /\ \A i \in 1 .. n : Cells(n)[i] = "cell"
  BY <1>1 DEF Cells
<1>3. Cells(n + 1) = Append(Cells(n), "cell")
  <2>1. PICK new : new = Append(Cells(n), "cell")
    OBVIOUS
  <2>2. /\ new \in Seq(Fields) /\ Len(new) = n + 1 /\ new[n + 1] = "cell"
        /\ \A i \in 1 .. n : new[i] = Cells(n)[i]
    BY <1>1, <1>2, <2>1, AppendProperties
  <2>3. \A i \in 1 .. n + 1 : new[i] = "cell"
    BY <1>2, <2>2
  <2>4. Cells(n + 1) \in Seq(Fields) /\ Len(Cells(n + 1)) = n + 1
        /\ \A i \in 1 .. n + 1 : Cells(n + 1)[i] = "cell"
    BY <1>1 DEF Cells
  <2>5. Cells(n + 1) = new
    BY <2>2, <2>3, <2>4, SeqEqual
  <2>6. QED
    BY <2>1, <2>5
<1>4. ASSUME NEW v \in Typed(Cells(n)) PROVE v \in Bytes /\ Len(v) = n
  <2>1. v \in Seq(Values) /\ Len(v) = n /\ \A i \in 1 .. n : v[i] \in Nat
    BY <1>2 DEF Typed, ValueOf
  <2>2. v \in [1 .. n -> Nat]
    BY <2>1, LenProperties
  <2>3. v \in Seq(Nat)
    BY <2>2
  <2>4. QED
    BY <2>1, <2>3 DEF Bytes
<1>5. QED
  BY <1>2, <1>3, <1>4

\* Numbers are written as themselves.
LEMMA EncCells ==
    ASSUME NEW m \in Nat, NEW s \in Bytes, Len(s) = m
    PROVE  s \in Typed(Cells(m)) /\ Enc(Cells(m), s) = s
<1>1. PICK S : S = {n \in 0 .. m : CellBytes(n)}
  OBVIOUS
<1>2. 0 \in S
  <2>1. Cells(0) = <<>>
    BY CellTypes, EmptySeq
  <2>2. \A t \in Bytes : Len(t) = 0 => t = <<>>
    BY EmptySeq DEF Bytes
  <2>3. CellBytes(0)
    BY <2>1, <2>2, EncNone DEF CellBytes
  <2>4. QED
    BY <1>1, <2>3
<1>3. ASSUME NEW i \in 1 .. m, i - 1 \in S PROVE i \in S
  <2>1. PICK n \in Nat : n = i - 1 /\ i = n + 1 /\ i \in 0 .. m
    OBVIOUS
  <2>2. ASSUME NEW t \in Bytes, Len(t) = n + 1
        PROVE  t \in Typed(Cells(n + 1)) /\ Enc(Cells(n + 1), t) = t
    <3>1. PICK u \in Bytes, x \in Nat : t = Append(u, x)
      <4>1. t # <<>> /\ t \in Seq(Nat)
        BY <2>2, EmptySeq DEF Bytes
      <4>2. QED
        BY <4>1, SequenceEmptyOrAppend DEF Bytes
    <3>2. Len(u) = n
      BY <2>2, <3>1, AppendProperties DEF Bytes
    <3>3. u \in Typed(Cells(n)) /\ Enc(Cells(n), u) = u
      BY <1>1, <1>3, <2>1, <3>2 DEF CellBytes
    <3>4. "cell" \in Fields /\ x \in ValueOf("cell") /\ FieldBytes("cell", x) = <<x>>
      BY DEF Fields, ValueOf, FieldBytes
    <3>5. t \in Typed(Append(Cells(n), "cell"))
          /\ Enc(Append(Cells(n), "cell"), t) = u \o <<x>>
      <4>1. PICK l \in Seq(Fields), field \in Fields : l = Cells(n) /\ field = "cell"
        BY <3>4, CellTypes
      <4>2. u \in Typed(l) /\ Enc(l, u) = u /\ x \in ValueOf(field) /\ FieldBytes(field, x) = <<x>>
        BY <3>3, <3>4, <4>1
      <4>3. /\ Append(u, x) \in Typed(Append(l, field))
            /\ Enc(Append(l, field), Append(u, x)) = Enc(l, u) \o FieldBytes(field, x)
        BY <4>2, EncMore
      <4>4. QED
        BY <3>1, <4>1, <4>2, <4>3
    <3>6. Append(u, x) = u \o <<x>>
      BY AppendIsConcat DEF Bytes
    <3>7. QED
      BY <3>1, <3>5, <3>6, CellTypes
  <2>3. CellBytes(n + 1)
    BY <2>2 DEF CellBytes
  <2>4. QED
    BY <1>1, <2>1, <2>3
<1>4. 0 .. m \subseteq S
  BY <1>2, <1>3, UpTo
<1>5. CellBytes(m)
  BY <1>1, <1>4
<1>6. QED
  BY <1>5 DEF CellBytes

-----------------------------------------------------------------------------
(* Padding *)

\* Padding adds zeros.
LEMMA PaddingBytes ==
    ASSUME NEW n \in Nat
    PROVE  Padding(n) \in Bytes
<1>1. PICK k : k = (Bucket - (n % Bucket)) % Bucket
  OBVIOUS
<1>2. k \in Nat
  <2>1. Bucket \in Nat \ {0} /\ n % Bucket \in Int
    BY FormatAssumption
  <2>2. QED
    BY <1>1, <2>1
<1>3. [i \in 1 .. k |-> 0] \in Seq(Nat)
  BY <1>2
<1>4. QED
  BY <1>1, <1>3 DEF Padding, Bytes

\* What is padded is stripped to what it was.
LEMMA StrippedPadded ==
    ASSUME NEW body \in Bytes
    PROVE  /\ Padded(body) \in Bytes /\ Padded(body) # <<>>
           /\ Stripped(Padded(body)) = body
<1>1. PICK n \in Nat, pad \in Bytes : n = Len(body) /\ pad = Padding(Len(body) + 1)
  BY PaddingBytes DEF Bytes
<1>2. PICK t \in Bytes : t = body \o pad
  BY JoinThree
<1>3. <<n>> \in Bytes
  BY DEF Bytes
<1>4. PICK p \in Bytes : p = Padded(body) /\ p = <<n>> \o t
  <2>1. (<<n>> \o body) \o pad = <<n>> \o (body \o pad)
    BY <1>3, JoinThree
  <2>2. <<n>> \o t \in Bytes
    BY <1>3, JoinThree
  <2>3. QED
    BY <1>1, <1>2, <2>1, <2>2 DEF Padded, Prefixed
<1>5. p # <<>> /\ Head(p) = n /\ Tail(p) = t
  BY <1>4, HeadOf
<1>6. Len(p) = 1 + Len(t) /\ Len(t) = n + Len(pad) /\ Len(t) \in Nat /\ Len(pad) \in Nat
  BY <1>1, <1>2, <1>4 DEF Bytes
<1>7. SubSeq(p, 2, n + 1) = body
  <2>1. \A i \in 1 .. n : p[i + 1] = body[i]
    <3>1. ASSUME NEW i \in 1 .. n PROVE p[i + 1] = body[i]
      <4>1. p[i + 1] = t[i]
        BY <1>1, <1>3, <1>4, <1>6 DEF Bytes
      <4>2. t[i] = body[i]
        BY <1>1, <1>2 DEF Bytes
      <4>3. QED
        BY <4>1, <4>2
    <3>2. QED
      BY <3>1
  <2>2. /\ SubSeq(p, 2, n + 1) \in Seq(Nat) /\ Len(SubSeq(p, 2, n + 1)) = n
        /\ \A i \in 1 .. n : SubSeq(p, 2, n + 1)[i] = p[i + 1]
    <3>1. \A i \in 2 .. n + 1 : p[i] \in Nat
      BY <1>6, SMTT(30) DEF Bytes
    <3>2. /\ SubSeq(p, 2, n + 1) \in Seq(Nat)
          /\ Len(SubSeq(p, 2, n + 1)) = IF 2 =< n + 1 THEN n + 1 - 2 + 1 ELSE 0
          /\ \A i \in 1 .. n + 1 - 2 + 1 : SubSeq(p, 2, n + 1)[i] = p[2 + i - 1]
      BY <3>1, SubSeqProperties
    <3>3. QED
      BY <3>2
  <2>3. body \in Seq(Nat)
    BY DEF Bytes
  <2>4. QED
    BY <1>1, <2>1, <2>2, <2>3, SeqEqual
<1>8. ~(Head(p) >= Len(p))
  BY <1>5, <1>6
<1>9. QED
  BY <1>4, <1>5, <1>7, <1>8 DEF Stripped

\* What Append appends to
LEMMA LastOf ==
    ASSUME NEW S, NEW s \in Seq(S), NEW n \in Nat, Len(s) = n, NEW x \in S, NEW t, t = Append(s, x)
    PROVE  /\ t \in Seq(S) /\ Len(t) = n + 1 /\ t[n + 1] = x
           /\ \A i \in 1 .. n : t[i] = s[i]
  BY AppendProperties

\* One element, and a second
LEMMA AppendTwo ==
    ASSUME NEW x, NEW y
    PROVE  Append(<<x>>, y) = <<x, y>>
<1>1. PICK S : S = {x, y}
  OBVIOUS
<1>2. x \in S /\ y \in S
  BY <1>1
<1>3. PICK s : s = <<x>>
  OBVIOUS
<1>4. s \in Seq(S) /\ Len(s) = 1 /\ s[1] = x
  BY <1>2, <1>3
<1>5. PICK t : t = <<x, y>>
  OBVIOUS
<1>6. t \in Seq(S) /\ Len(t) = 2 /\ t[1] = x /\ t[2] = y
  BY <1>2, <1>5
<1>7. PICK u : u = Append(s, y)
  OBVIOUS
<1>8. PICK n \in Nat : n = 1
  OBVIOUS
<1>9. u \in Seq(S) /\ Len(u) = n + 1 /\ u[n + 1] = y /\ \A i \in 1 .. n : u[i] = s[i]
  BY <1>2, <1>4, <1>7, <1>8, LastOf
<1>10. \A i \in 1 .. n + 1 : u[i] = t[i]
  BY <1>4, <1>6, <1>8, <1>9
<1>11. u = t
  BY <1>6, <1>8, <1>9, <1>10, SeqEqual
<1>12. QED
  BY <1>3, <1>5, <1>7, <1>11

\* Two elements, and a third
LEMMA AppendThree ==
    ASSUME NEW x, NEW y, NEW z
    PROVE  Append(<<x, y>>, z) = <<x, y, z>>
<1>1. PICK S : S = {x, y, z}
  OBVIOUS
<1>2. x \in S /\ y \in S /\ z \in S
  BY <1>1
<1>3. PICK s : s = <<x, y>>
  OBVIOUS
<1>4. s \in Seq(S) /\ Len(s) = 2 /\ s[1] = x /\ s[2] = y
  BY <1>2, <1>3
<1>5. PICK t : t = <<x, y, z>>
  OBVIOUS
<1>6. t \in Seq(S) /\ Len(t) = 3 /\ t[1] = x /\ t[2] = y /\ t[3] = z
  BY <1>2, <1>5
<1>7. PICK u : u = Append(s, z)
  OBVIOUS
<1>8. PICK n \in Nat : n = 2
  OBVIOUS
<1>9. u \in Seq(S) /\ Len(u) = n + 1 /\ u[n + 1] = z /\ \A i \in 1 .. n : u[i] = s[i]
  BY <1>2, <1>4, <1>7, <1>8, LastOf
<1>10. \A i \in 1 .. n + 1 : u[i] = t[i]
  BY <1>4, <1>6, <1>8, <1>9
<1>11. u = t
  BY <1>6, <1>8, <1>9, <1>10, SeqEqual
<1>12. QED
  BY <1>3, <1>5, <1>7, <1>11

\* Three elements, and a fourth
LEMMA AppendFour ==
    ASSUME NEW x, NEW y, NEW z, NEW w
    PROVE  Append(<<x, y, z>>, w) = <<x, y, z, w>>
<1>1. PICK S : S = {x, y, z, w}
  OBVIOUS
<1>2. x \in S /\ y \in S /\ z \in S /\ w \in S
  BY <1>1
<1>3. PICK s : s = <<x, y, z>>
  OBVIOUS
<1>4. s \in Seq(S) /\ Len(s) = 3 /\ s[1] = x /\ s[2] = y /\ s[3] = z
  BY <1>2, <1>3
<1>5. PICK t : t = <<x, y, z, w>>
  OBVIOUS
<1>6. t \in Seq(S) /\ Len(t) = 4 /\ t[1] = x /\ t[2] = y /\ t[3] = z /\ t[4] = w
  BY <1>2, <1>5
<1>7. PICK u : u = Append(s, w)
  OBVIOUS
<1>8. PICK n \in Nat : n = 3
  OBVIOUS
<1>9. u \in Seq(S) /\ Len(u) = n + 1 /\ u[n + 1] = w /\ \A i \in 1 .. n : u[i] = s[i]
  BY <1>2, <1>4, <1>7, <1>8, LastOf
<1>10. \A i \in 1 .. n + 1 : u[i] = t[i]
  BY <1>4, <1>6, <1>8, <1>9
<1>11. u = t
  BY <1>6, <1>8, <1>9, <1>10, SeqEqual
<1>12. QED
  BY <1>3, <1>5, <1>7, <1>11

-----------------------------------------------------------------------------
(* A whole file or plaintext of one layout *)

\* A reader at the start of the bytes
LEMMA AtStart ==
    ASSUME NEW bytes \in Bytes
    PROVE  /\ Reader(bytes) \in Readers(Values) /\ Reader(bytes).ok
           /\ Reader(bytes).rest = bytes /\ Reader(bytes).got = <<>>
<1>1. <<>> \in Seq(Values)
  BY EmptySeq
<1>2. QED
  BY <1>1 DEF Reader, Readers

\* Bytes that a layout accounts for to their end are its values'.
LEMMA WholeStands ==
    ASSUME NEW layout \in Seq(Fields), NEW bytes \in Bytes,
           ExpectEof(ReadAll(Reader(bytes), layout))
    PROVE  \E vals \in Typed(layout) :
               bytes = Enc(layout, vals) /\ ReadAll(Reader(bytes), layout).got = vals
<1>1. PICK r \in Readers(Values) : r = Reader(bytes) /\ r.rest = bytes /\ r.got = <<>>
  BY AtStart
<1>2. ReadAll(r, layout).ok /\ ReadAll(r, layout).rest = <<>>
  BY <1>1 DEF ExpectEof
<1>3. PICK vals \in Typed(layout), t \in Bytes : ReadTo(r, layout, vals, t)
  BY <1>2, ReadStands
<1>4. bytes = Enc(layout, vals) \o t /\ ReadAll(r, layout) = Gathered(t, <<>>, vals)
  BY <1>1, <1>3 DEF ReadTo
<1>5. t = <<>>
  BY <1>2, <1>4 DEF Gathered
<1>6. Enc(layout, vals) \o <<>> = Enc(layout, vals)
  BY PieceTypes, ConcatEmptySeq DEF Bytes
<1>7. <<>> \o vals = vals
  BY ConcatEmptySeq DEF Typed
<1>8. QED
  BY <1>1, <1>4, <1>5, <1>6, <1>7 DEF Gathered

\* The bytes of values are read to their end.
LEMMA WholeBack ==
    ASSUME NEW layout \in Seq(Fields), NEW vals \in Typed(layout)
    PROVE  /\ ExpectEof(ReadAll(Reader(Enc(layout, vals)), layout))
           /\ ReadAll(Reader(Enc(layout, vals)), layout).got = vals
<1>1. PICK bytes \in Bytes : bytes = Enc(layout, vals)
  BY PieceTypes
<1>2. PICK r \in Readers(Values) : r = Reader(bytes) /\ r.rest = bytes /\ r.got = <<>> /\ r.ok
  BY AtStart
<1>3. PICK t \in Bytes : t = <<>>
  BY EmptySeq DEF Bytes
<1>4. r.rest = Enc(layout, vals) \o t
  BY <1>1, <1>2, <1>3, ConcatEmptySeq DEF Bytes
<1>5. ReadAll(r, layout) = Gathered(t, r.got, vals)
  BY <1>2, <1>4, ReadBack
<1>6. ReadAll(r, layout) = Gathered(t, <<>>, vals)
  BY <1>2, <1>5
<1>7. <<>> \o vals = vals
  BY ConcatEmptySeq DEF Typed
<1>8. QED
  BY <1>1, <1>2, <1>3, <1>6, <1>7 DEF Gathered, ExpectEof

\* The values of three fields
LEMMA ThreeTyped ==
    ASSUME NEW f1 \in Fields, NEW f2 \in Fields, NEW f3 \in Fields,
           NEW vals \in Typed(<<f1, f2, f3>>)
    PROVE  \E x1 \in ValueOf(f1), x2 \in ValueOf(f2), x3 \in ValueOf(f3) : vals = <<x1, x2, x3>>
<1>1. PICK l : l = <<f1, f2, f3>>
  OBVIOUS
<1>2. Len(l) = 3 /\ l[1] = f1 /\ l[2] = f2 /\ l[3] = f3
  BY <1>1
<1>3. /\ vals \in Seq(Values) /\ Len(vals) = 3
      /\ vals[1] \in ValueOf(f1) /\ vals[2] \in ValueOf(f2) /\ vals[3] \in ValueOf(f3)
  BY <1>1, <1>2 DEF Typed
<1>4. vals = <<vals[1], vals[2], vals[3]>>
  BY <1>3
<1>5. QED
  BY <1>3, <1>4

\* The bytes of three fields
LEMMA ThreeFields ==
    ASSUME NEW f1 \in Fields, NEW f2 \in Fields, NEW f3 \in Fields,
           NEW x1 \in ValueOf(f1), NEW x2 \in ValueOf(f2), NEW x3 \in ValueOf(f3)
    PROVE  /\ <<f1, f2, f3>> \in Seq(Fields) /\ <<x1, x2, x3>> \in Typed(<<f1, f2, f3>>)
           /\ Enc(<<f1, f2, f3>>, <<x1, x2, x3>>) =
                  (FieldBytes(f1, x1) \o FieldBytes(f2, x2)) \o FieldBytes(f3, x3)
<1>1. <<f1, f2>> \in Seq(Fields) /\ <<f1, f2, f3>> \in Seq(Fields)
  OBVIOUS
<1>2. Append(<<f1>>, f2) = <<f1, f2>> /\ Append(<<f1, f2>>, f3) = <<f1, f2, f3>>
  BY AppendTwo, AppendThree, Zenon
<1>3. Append(<<x1>>, x2) = <<x1, x2>> /\ Append(<<x1, x2>>, x3) = <<x1, x2, x3>>
  BY AppendTwo, AppendThree, Zenon
<1>4. PICK l1 : l1 = <<f1>>
  OBVIOUS
<1>5. PICK v1 : v1 = <<x1>>
  OBVIOUS
<1>6. l1 \in Seq(Fields) /\ v1 \in Typed(l1) /\ Enc(l1, v1) = FieldBytes(f1, x1)
  BY <1>4, <1>5, EncOne
<1>7. PICK l2 : l2 = Append(l1, f2)
  OBVIOUS
<1>8. PICK v2 : v2 = Append(v1, x2)
  OBVIOUS
<1>9. v2 \in Typed(l2) /\ Enc(l2, v2) = Enc(l1, v1) \o FieldBytes(f2, x2)
  BY <1>6, <1>7, <1>8, EncMore
<1>10. l2 = <<f1, f2>> /\ l2 \in Seq(Fields) /\ v2 = <<x1, x2>>
  BY <1>1, <1>2, <1>3, <1>4, <1>5, <1>7, <1>8
<1>11. /\ Append(v2, x3) \in Typed(Append(l2, f3))
       /\ Enc(Append(l2, f3), Append(v2, x3)) = Enc(l2, v2) \o FieldBytes(f3, x3)
  BY <1>9, <1>10, EncMore
<1>12. QED
  BY <1>1, <1>2, <1>3, <1>6, <1>9, <1>10, <1>11

\* The values of four fields
LEMMA FourTyped ==
    ASSUME NEW f1 \in Fields, NEW f2 \in Fields, NEW f3 \in Fields, NEW f4 \in Fields,
           NEW vals \in Typed(<<f1, f2, f3, f4>>)
    PROVE  \E x1 \in ValueOf(f1), x2 \in ValueOf(f2), x3 \in ValueOf(f3), x4 \in ValueOf(f4) :
               vals = <<x1, x2, x3, x4>>
<1>1. PICK l : l = <<f1, f2, f3, f4>>
  OBVIOUS
<1>2. Len(l) = 4 /\ l[1] = f1 /\ l[2] = f2 /\ l[3] = f3 /\ l[4] = f4
  BY <1>1
<1>3. /\ vals \in Seq(Values) /\ Len(vals) = 4
      /\ vals[1] \in ValueOf(f1) /\ vals[2] \in ValueOf(f2)
      /\ vals[3] \in ValueOf(f3) /\ vals[4] \in ValueOf(f4)
  BY <1>1, <1>2 DEF Typed
<1>4. vals = <<vals[1], vals[2], vals[3], vals[4]>>
  BY <1>3
<1>5. QED
  BY <1>3, <1>4

\* The bytes of four fields
FourAre(f1, f2, f3, f4, x1, x2, x3, x4) ==
    /\ <<f1, f2, f3, f4>> \in Seq(Fields)
    /\ <<x1, x2, x3, x4>> \in Typed(<<f1, f2, f3, f4>>)
    /\ Enc(<<f1, f2, f3, f4>>, <<x1, x2, x3, x4>>) =
           ((FieldBytes(f1, x1) \o FieldBytes(f2, x2)) \o FieldBytes(f3, x3))
               \o FieldBytes(f4, x4)

\* Four fields are written one after the other.
LEMMA FourFields ==
    ASSUME NEW f1 \in Fields, NEW f2 \in Fields, NEW f3 \in Fields, NEW f4 \in Fields,
           NEW x1 \in ValueOf(f1), NEW x2 \in ValueOf(f2), NEW x3 \in ValueOf(f3),
           NEW x4 \in ValueOf(f4)
    PROVE  FourAre(f1, f2, f3, f4, x1, x2, x3, x4)
<1>1. Append(<<f1, f2, f3>>, f4) = <<f1, f2, f3, f4>>
  BY AppendFour, Zenon
<1>3. Append(<<x1, x2, x3>>, x4) = <<x1, x2, x3, x4>>
  BY AppendFour, Zenon
<1>4. PICK l : l = <<f1, f2, f3>>
  OBVIOUS
<1>5. PICK v : v = <<x1, x2, x3>>
  OBVIOUS
<1>6. /\ l \in Seq(Fields) /\ v \in Typed(l)
      /\ Enc(l, v) = (FieldBytes(f1, x1) \o FieldBytes(f2, x2)) \o FieldBytes(f3, x3)
  <2>1. <<f1, f2, f3>> \in Seq(Fields)
    OBVIOUS
  <2>2. <<x1, x2, x3>> \in Typed(<<f1, f2, f3>>)
    BY ThreeFields, ZenonT(60)
  <2>3. Enc(<<f1, f2, f3>>, <<x1, x2, x3>>) =
            (FieldBytes(f1, x1) \o FieldBytes(f2, x2)) \o FieldBytes(f3, x3)
    BY ThreeFields, ZenonT(60)
  <2>4. QED
    BY <1>4, <1>5, <2>1, <2>2, <2>3, Zenon
<1>7. /\ Append(v, x4) \in Typed(Append(l, f4))
      /\ Enc(Append(l, f4), Append(v, x4)) = Enc(l, v) \o FieldBytes(f4, x4)
  BY <1>6, EncMore
<1>8. <<f1, f2, f3, f4>> \in Seq(Fields)
  OBVIOUS
<1>9. QED
  BY <1>1, <1>3, <1>4, <1>5, <1>6, <1>7, <1>8 DEF FourAre

-----------------------------------------------------------------------------
(* Wrap blobs *)

\* The fields of a layout, and a body that its u16 prefix counts
LEMMA FieldKinds ==
    /\ "cell" \in Fields /\ "body" \in Fields /\ "body16" \in Fields
    /\ \A x \in Nat : x \in ValueOf("cell") /\ FieldBytes("cell", x) = <<x>>
    /\ \A b \in Bytes : b \in ValueOf("body") /\ FieldBytes("body", b) = Prefixed(b)
    /\ \A b \in Bytes : Fits16(b) =>
           b \in ValueOf("body16") /\ FieldBytes("body16", b) = Prefixed16(b)
    /\ \A x \in ValueOf("cell") : x \in Nat
    /\ \A b \in ValueOf("body") : b \in Bytes
    /\ \A b \in ValueOf("body16") : b \in Bytes /\ Fits16(b)
<1>1. "cell" \in Fields /\ "body" \in Fields /\ "body16" \in Fields
  BY DEF Fields
<1>2. ASSUME NEW b \in Bytes, Fits16(b)
      PROVE  b \in ValueOf("body16") /\ FieldBytes("body16", b) = Prefixed16(b)
  <2>1. Len(b) \in Nat /\ Max16 \in Nat /\ Len(b) =< Max16
    BY <1>2, FormatAssumption DEF Fits16, Bytes
  <2>2. Prefixed16(b) = <<Len(b)>> \o b
    BY <2>1 DEF Prefixed16
  <2>3. QED
    BY <2>1, <2>2 DEF ValueOf, FieldBytes
<1>3. QED
  BY <1>1, <1>2 DEF ValueOf, FieldBytes, Prefixed, Fits16

\* Two cells in a row
LEMMA TwoCells == ASSUME NEW x \in Nat, NEW y \in Nat PROVE <<x>> \o <<y>> = <<x, y>>
<1>1. PICK s \in Seq(Nat) : s = <<x>>
  <2>1. <<x>> \in Seq(Nat)
    OBVIOUS
  <2>2. QED
    BY <2>1
<1>2. Append(s, y) = s \o <<y>>
  BY AppendIsConcat
<1>3. Append(<<x>>, y) = <<x, y>>
  BY AppendTwo, Zenon
<1>4. QED
  BY <1>1, <1>2, <1>3

\* Sequences of numbers and of values are not the refusal.
LEMMA NotRefused ==
    /\ Refused \notin Bytes /\ Refused \notin Seq(Values) /\ Refused \notin Seq(Bytes)
<1>1. ASSUME NEW S, NEW T, S \subseteq T, NEW s \in Seq(S) PROVE s \in Seq(T)
  <2>1. PICK n \in Nat : n = Len(s)
    BY LenProperties
  <2>2. \A i \in 1 .. n : s[i] \in T
    BY <1>1, <2>1, ElementOfSeq
  <2>3. s = [i \in 1 .. n |-> s[i]]
    BY <2>1, LenProperties
  <2>4. [i \in 1 .. n |-> s[i]] \in Seq(T)
    BY <2>2
  <2>5. QED
    BY <2>3, <2>4, Zenon
<1>2. PICK V : V = Values
  OBVIOUS
<1>3. Nat \subseteq V /\ Bytes \subseteq V
  BY <1>2 DEF Values
<1>4. Refused \notin Seq(V)
  BY <1>2, DocumentAssumption DEF Values, Bytes
<1>5. Refused \notin Seq(Nat) /\ Refused \notin Seq(Bytes)
  BY <1>1, <1>3, <1>4
<1>6. QED
  BY <1>2, <1>4, <1>5 DEF Bytes

\* The fields of a blob and of its payloads
AndroidFields == <<"body16", "cell", "body16">>
TpmFields == <<"cell", "cell", "body16", "body16">>
BlobFields == <<"cell", "cell", "body16">>

\* The payload of the Android backend
LEMMA AndroidEncodes ==
    ASSUME NEW a \in Bytes, NEW n \in Nat, NEW c \in Bytes
    PROVE  /\ EncodeAndroid(<<a, n, c>>) # Refused => Fits16(a) /\ Fits16(c)
           /\ Fits16(a) /\ Fits16(c) =>
                  /\ AndroidFields \in Seq(Fields) /\ <<a, n, c>> \in Typed(AndroidFields)
                  /\ EncodeAndroid(<<a, n, c>>) = Enc(AndroidFields, <<a, n, c>>)
<1>1. EncodeAndroid(<<a, n, c>>) # Refused => Fits16(a) /\ Fits16(c)
  BY DEF EncodeAndroid
<1>2. ASSUME Fits16(a), Fits16(c)
      PROVE  /\ AndroidFields \in Seq(Fields) /\ <<a, n, c>> \in Typed(AndroidFields)
             /\ EncodeAndroid(<<a, n, c>>) = Enc(AndroidFields, <<a, n, c>>)
  <2>1. PICK f \in Fields, g \in Fields : f = "body16" /\ g = "cell"
    BY FieldKinds
  <2>2. /\ a \in ValueOf(f) /\ FieldBytes(f, a) = Prefixed16(a)
        /\ c \in ValueOf(f) /\ FieldBytes(f, c) = Prefixed16(c)
        /\ n \in ValueOf(g) /\ FieldBytes(g, n) = <<n>>
    BY <1>2, <2>1, FieldKinds
  <2>3. /\ <<f, g, f>> \in Seq(Fields) /\ <<a, n, c>> \in Typed(<<f, g, f>>)
        /\ Enc(<<f, g, f>>, <<a, n, c>>) =
               (FieldBytes(f, a) \o FieldBytes(g, n)) \o FieldBytes(f, c)
    BY <2>2, ThreeFields, ZenonT(60)
  <2>4. EncodeAndroid(<<a, n, c>>) = (Prefixed16(a) \o <<n>>) \o Prefixed16(c)
    BY <1>2 DEF EncodeAndroid
  <2>5. QED
    BY <2>1, <2>2, <2>3, <2>4 DEF AndroidFields
<1>3. QED
  BY <1>1, <1>2

\* An accepted payload of the Android backend is encoded to the same bytes.
LEMMA AndroidWhole ==
    ASSUME NEW payload \in Bytes, DecodeAndroid(payload) # Refused
    PROVE  /\ EncodeAndroid(DecodeAndroid(payload)) = payload
           /\ DecodeAndroid(payload) \in Seq(Values)
<1>1. PICK f \in Fields, g \in Fields : f = "body16" /\ g = "cell"
  BY FieldKinds
<1>2. PICK l \in Seq(Fields) : l = AndroidFields /\ l = <<f, g, f>>
  <2>1. <<f, g, f>> \in Seq(Fields)
    OBVIOUS
  <2>2. QED
    BY <1>1, <2>1 DEF AndroidFields
<1>3. PICK r : r = ReadAll(Reader(payload), l)
  OBVIOUS
<1>4. ExpectEof(r) /\ DecodeAndroid(payload) = r.got
  BY <1>2, <1>3 DEF DecodeAndroid, AndroidFields
<1>5. PICK vals \in Typed(l) : payload = Enc(l, vals) /\ r.got = vals
  BY <1>3, <1>4, WholeStands
<1>6. PICK a \in ValueOf(f), n \in ValueOf(g), c \in ValueOf(f) : vals = <<a, n, c>>
  BY <1>2, <1>5, ThreeTyped
<1>7. a \in Bytes /\ Fits16(a) /\ n \in Nat /\ c \in Bytes /\ Fits16(c)
  BY <1>1, FieldKinds
<1>8. EncodeAndroid(<<a, n, c>>) = Enc(AndroidFields, <<a, n, c>>)
  BY <1>7, AndroidEncodes
<1>9. vals \in Seq(Values)
  BY DEF Typed
<1>10. QED
  BY <1>2, <1>4, <1>5, <1>6, <1>8, <1>9

\* A written payload of the Android backend is read back.
LEMMA AndroidBack ==
    ASSUME NEW a \in Bytes, NEW n \in Nat, NEW c \in Bytes, c # <<>>,
           EncodeAndroid(<<a, n, c>>) # Refused
    PROVE  /\ EncodeAndroid(<<a, n, c>>) \in Bytes
           /\ DecodeAndroid(EncodeAndroid(<<a, n, c>>)) = <<a, n, c>>
<1>1. Fits16(a) /\ Fits16(c)
  BY AndroidEncodes
<1>2. PICK l \in Seq(Fields), vals \in Seq(Values) : l = AndroidFields /\ vals = <<a, n, c>>
  <2>1. <<a, n, c>> \in Typed(AndroidFields) /\ AndroidFields \in Seq(Fields)
    BY <1>1, AndroidEncodes
  <2>2. QED
    BY <2>1 DEF Typed
<1>3. vals \in Typed(l) /\ EncodeAndroid(vals) = Enc(l, vals)
  BY <1>1, <1>2, AndroidEncodes
<1>4. PICK r : r = ReadAll(Reader(Enc(l, vals)), l)
  OBVIOUS
<1>5. ExpectEof(r) /\ r.got = vals
  BY <1>3, <1>4, WholeBack
<1>6. vals[3] = c
  BY <1>2
<1>7. DecodeAndroid(Enc(l, vals)) = vals
  BY <1>2, <1>4, <1>5, <1>6 DEF DecodeAndroid, AndroidFields
<1>8. Enc(l, vals) \in Bytes
  BY <1>3, PieceTypes
<1>9. QED
  BY <1>2, <1>3, <1>7, <1>8

\* The last three of four
LEMMA TailOfFour ==
    ASSUME NEW S, NEW x \in S, NEW y \in S, NEW z \in S, NEW w \in S
    PROVE  Tail(<<x, y, z, w>>) = <<y, z, w>>
<1>1. PICK t : t = <<x, y, z, w>>
  OBVIOUS
<1>2. t \in Seq(S) /\ Len(t) = 4 /\ t[1] = x /\ t[2] = y /\ t[3] = z /\ t[4] = w
  BY <1>1
<1>3. PICK u : u = <<y, z, w>>
  OBVIOUS
<1>4. u \in Seq(S) /\ Len(u) = 3 /\ u[1] = y /\ u[2] = z /\ u[3] = w
  BY <1>3
<1>5. PICK v : v = Tail(t)
  OBVIOUS
<1>6. t # <<>>
  <2>1. Len(<<>>) = 0
    BY EmptySeq
  <2>2. Len(t) # 0
    BY <1>2
  <2>3. QED
    BY <2>1, <2>2, Zenon
<1>7. v \in Seq(S) /\ Len(v) = 3 /\ \A i \in 1 .. 3 : v[i] = t[i + 1]
  <2>1. /\ v \in Seq(S) /\ Len(v) = Len(t) - 1
        /\ \A i \in 1 .. Len(v) : v[i] = t[i + 1]
    BY <1>2, <1>5, <1>6, HeadTailProperties
  <2>2. QED
    BY <1>2, <2>1
<1>8. \A i \in 1 .. 3 : v[i] = u[i]
  BY <1>2, <1>4, <1>7
<1>9. v = u
  BY <1>4, <1>7, <1>8, SeqEqual
<1>10. QED
  BY <1>1, <1>3, <1>5, <1>9

\* The payload of the TPM backend
LEMMA TpmEncodes ==
    ASSUME NEW n \in Nat, NEW a \in Bytes, NEW c \in Bytes
    PROVE  /\ EncodeTpm(<<n, a, c>>) # Refused => Fits16(a) /\ Fits16(c)
           /\ Fits16(a) /\ Fits16(c) =>
                  /\ TpmFields \in Seq(Fields) /\ <<0, n, a, c>> \in Typed(TpmFields)
                  /\ EncodeTpm(<<n, a, c>>) = Enc(TpmFields, <<0, n, a, c>>)
<1>1. EncodeTpm(<<n, a, c>>) # Refused => Fits16(a) /\ Fits16(c)
  BY DEF EncodeTpm
<1>2. ASSUME Fits16(a), Fits16(c)
      PROVE  /\ TpmFields \in Seq(Fields) /\ <<0, n, a, c>> \in Typed(TpmFields)
             /\ EncodeTpm(<<n, a, c>>) = Enc(TpmFields, <<0, n, a, c>>)
  <2>1. PICK f \in Fields, g \in Fields, k \in Nat : f = "body16" /\ g = "cell" /\ k = 0
    BY FieldKinds
  <2>2. /\ a \in ValueOf(f) /\ FieldBytes(f, a) = Prefixed16(a)
        /\ c \in ValueOf(f) /\ FieldBytes(f, c) = Prefixed16(c)
        /\ n \in ValueOf(g) /\ FieldBytes(g, n) = <<n>>
        /\ k \in ValueOf(g) /\ FieldBytes(g, k) = <<k>>
    BY <1>2, <2>1, FieldKinds
  <2>3. /\ <<g, g, f, f>> \in Seq(Fields) /\ <<k, n, a, c>> \in Typed(<<g, g, f, f>>)
        /\ Enc(<<g, g, f, f>>, <<k, n, a, c>>) =
               ((FieldBytes(g, k) \o FieldBytes(g, n)) \o FieldBytes(f, a)) \o FieldBytes(f, c)
    <3>1. k \in ValueOf(g) /\ n \in ValueOf(g) /\ a \in ValueOf(f) /\ c \in ValueOf(f)
      BY <2>2
    <3>2. FourAre(g, g, f, f, k, n, a, c)
      BY <3>1, FourFields
    <3>3. QED
      BY <3>2 DEF FourAre
  <2>4. EncodeTpm(<<n, a, c>>) = (<<0, n>> \o Prefixed16(a)) \o Prefixed16(c)
    BY <1>2 DEF EncodeTpm
  <2>5. <<k>> \o <<n>> = <<k, n>>
    BY TwoCells
  <2>6. QED
    BY <2>1, <2>2, <2>3, <2>4, <2>5 DEF TpmFields
<1>3. QED
  BY <1>1, <1>2

\* An accepted payload of the TPM backend is encoded to the same bytes.
LEMMA TpmWhole ==
    ASSUME NEW payload \in Bytes, DecodeTpm(payload) # Refused
    PROVE  /\ EncodeTpm(DecodeTpm(payload)) = payload
           /\ DecodeTpm(payload) \in Seq(Values)
<1>1. PICK f \in Fields, g \in Fields : f = "body16" /\ g = "cell"
  BY FieldKinds
<1>2. PICK l \in Seq(Fields) : l = TpmFields /\ l = <<g, g, f, f>>
  <2>1. <<g, g, f, f>> \in Seq(Fields)
    OBVIOUS
  <2>2. QED
    BY <1>1, <2>1 DEF TpmFields
<1>3. PICK r : r = ReadAll(Reader(payload), l)
  OBVIOUS
<1>4. ExpectEof(r) /\ DecodeTpm(payload) = Tail(r.got) /\ r.got[1] = 0
  BY <1>2, <1>3 DEF DecodeTpm, TpmFields
<1>5. PICK vals \in Typed(l) : payload = Enc(l, vals) /\ r.got = vals
  BY <1>3, <1>4, WholeStands
<1>6. PICK k \in ValueOf(g), n \in ValueOf(g), a \in ValueOf(f), c \in ValueOf(f) :
         vals = <<k, n, a, c>>
  BY <1>2, <1>5, FourTyped
<1>7. a \in Bytes /\ Fits16(a) /\ n \in Nat /\ c \in Bytes /\ Fits16(c)
  BY <1>1, FieldKinds
<1>8. k = 0
  BY <1>4, <1>5, <1>6
<1>9. Tail(vals) = <<n, a, c>> /\ <<n, a, c>> \in Seq(Values)
  <2>1. k \in Values /\ n \in Values /\ a \in Values /\ c \in Values
    BY FieldTypes
  <2>2. Tail(<<k, n, a, c>>) = <<n, a, c>>
    BY <2>1, TailOfFour
  <2>3. QED
    BY <1>6, <2>1, <2>2
<1>10. EncodeTpm(<<n, a, c>>) = Enc(TpmFields, <<0, n, a, c>>)
  BY <1>7, TpmEncodes
<1>11. QED
  BY <1>2, <1>4, <1>5, <1>6, <1>8, <1>9, <1>10

\* A written payload of the TPM backend is read back.
LEMMA TpmBack ==
    ASSUME NEW n \in Nat, NEW a \in Bytes, NEW c \in Bytes, EncodeTpm(<<n, a, c>>) # Refused
    PROVE  /\ EncodeTpm(<<n, a, c>>) \in Bytes
           /\ DecodeTpm(EncodeTpm(<<n, a, c>>)) = <<n, a, c>>
<1>1. Fits16(a) /\ Fits16(c)
  BY TpmEncodes
<1>2. PICK l \in Seq(Fields), vals \in Seq(Values) : l = TpmFields /\ vals = <<0, n, a, c>>
  <2>1. <<0, n, a, c>> \in Typed(TpmFields) /\ TpmFields \in Seq(Fields)
    BY <1>1, TpmEncodes
  <2>2. QED
    BY <2>1 DEF Typed
<1>3. vals \in Typed(l) /\ EncodeTpm(<<n, a, c>>) = Enc(l, vals)
  BY <1>1, <1>2, TpmEncodes
<1>4. PICK r : r = ReadAll(Reader(Enc(l, vals)), l)
  OBVIOUS
<1>5. ExpectEof(r) /\ r.got = vals
  BY <1>3, <1>4, WholeBack
<1>6. vals[1] = 0 /\ Tail(vals) = <<n, a, c>>
  <2>1. 0 \in Values /\ n \in Values /\ a \in Values /\ c \in Values
    BY DEF Values
  <2>2. Tail(<<0, n, a, c>>) = <<n, a, c>>
    BY <2>1, TailOfFour
  <2>3. QED
    BY <1>2, <2>2
<1>7. DecodeTpm(Enc(l, vals)) = <<n, a, c>>
  BY <1>2, <1>4, <1>5, <1>6 DEF DecodeTpm, TpmFields
<1>8. Enc(l, vals) \in Bytes
  BY <1>3, PieceTypes
<1>9. QED
  BY <1>3, <1>7, <1>8

\* What a blob's header and payload are written as
LEMMA BlobEncodes ==
    ASSUME NEW k \in Nat, NEW payload \in Bytes, Fits16(payload)
    PROVE  /\ BlobFields \in Seq(Fields) /\ <<0, k, payload>> \in Typed(BlobFields)
           /\ <<0, k>> \o Prefixed16(payload) = Enc(BlobFields, <<0, k, payload>>)
<1>1. PICK f \in Fields, g \in Fields, z \in Nat : f = "body16" /\ g = "cell" /\ z = 0
  BY FieldKinds
<1>2. /\ payload \in ValueOf(f) /\ FieldBytes(f, payload) = Prefixed16(payload)
      /\ z \in ValueOf(g) /\ FieldBytes(g, z) = <<z>>
      /\ k \in ValueOf(g) /\ FieldBytes(g, k) = <<k>>
  BY <1>1, FieldKinds
<1>3. /\ <<g, g, f>> \in Seq(Fields) /\ <<z, k, payload>> \in Typed(<<g, g, f>>)
      /\ Enc(<<g, g, f>>, <<z, k, payload>>) =
             (FieldBytes(g, z) \o FieldBytes(g, k)) \o FieldBytes(f, payload)
  BY <1>2, ThreeFields, ZenonT(60)
<1>4. <<z>> \o <<k>> = <<z, k>>
  BY TwoCells
<1>5. QED
  BY <1>1, <1>2, <1>3, <1>4 DEF BlobFields

\* The payload of a blob is read back.
LEMMA PartsBack ==
    ASSUME NEW d, IsBlob(d), EncodeParts(d.kind, d.parts) # Refused
    PROVE  /\ d = [kind |-> d.kind, parts |-> d.parts] /\ d.kind \in KindBytes
           /\ EncodeParts(d.kind, d.parts) \in Bytes /\ d.parts # Refused
           /\ DecodeParts(d.kind, EncodeParts(d.kind, d.parts)) = d.parts
<1>1. CASE d \in [kind : {Android}, parts : Seq(Nat) \X Nat \X (Seq(Nat) \ {<<>>})]
  <2>1. /\ d = [kind |-> d.kind, parts |-> d.parts] /\ d.kind = Android
        /\ d.parts \in Seq(Nat) \X Nat \X (Seq(Nat) \ {<<>>})
    BY <1>1
  <2>2. PICK a \in Bytes, n \in Nat, c \in Bytes : c # <<>> /\ d.parts = <<a, n, c>>
    BY <2>1 DEF Bytes
  <2>3. EncodeParts(d.kind, d.parts) = EncodeAndroid(<<a, n, c>>)
    BY <2>1, <2>2 DEF EncodeParts, Tpm, Android
  <2>4. /\ EncodeAndroid(<<a, n, c>>) \in Bytes
        /\ DecodeAndroid(EncodeAndroid(<<a, n, c>>)) = <<a, n, c>>
    BY <2>2, <2>3, AndroidBack
  <2>5. <<a, n, c>> # Refused
    <3>1. a \in Values /\ n \in Values /\ c \in Values
      BY DEF Values
    <3>2. <<a, n, c>> \in Seq(Values)
      BY <3>1
    <3>3. QED
      BY <3>2, NotRefused
  <2>6. QED
    BY <2>1, <2>2, <2>3, <2>4, <2>5 DEF DecodeParts, KindBytes, Tpm, Android
<1>2. CASE d \in [kind : {Tpm}, parts : Nat \X Seq(Nat) \X Seq(Nat)]
  <2>1. /\ d = [kind |-> d.kind, parts |-> d.parts] /\ d.kind = Tpm
        /\ d.parts \in Nat \X Seq(Nat) \X Seq(Nat)
    BY <1>2
  <2>2. PICK n \in Nat, a \in Bytes, c \in Bytes : d.parts = <<n, a, c>>
    BY <2>1 DEF Bytes
  <2>3. EncodeParts(d.kind, d.parts) = EncodeTpm(<<n, a, c>>)
    BY <2>1, <2>2 DEF EncodeParts, Tpm, Android
  <2>4. /\ EncodeTpm(<<n, a, c>>) \in Bytes
        /\ DecodeTpm(EncodeTpm(<<n, a, c>>)) = <<n, a, c>>
    BY <2>2, <2>3, TpmBack
  <2>5. <<n, a, c>> # Refused
    <3>1. a \in Values /\ n \in Values /\ c \in Values
      BY DEF Values
    <3>2. <<n, a, c>> \in Seq(Values)
      BY <3>1
    <3>3. QED
      BY <3>2, NotRefused
  <2>6. QED
    BY <2>1, <2>2, <2>3, <2>4, <2>5 DEF DecodeParts, KindBytes, Tpm, Android
<1>3. CASE d \in [kind : KindBytes \ {Android, Tpm}, parts : Seq(Nat)]
  <2>1. /\ d = [kind |-> d.kind, parts |-> d.parts] /\ d.kind \in KindBytes
        /\ d.kind # Android /\ d.kind # Tpm /\ d.parts \in Bytes
    BY <1>3 DEF Bytes
  <2>2. EncodeParts(d.kind, d.parts) = d.parts /\ DecodeParts(d.kind, d.parts) = d.parts
    BY <2>1 DEF EncodeParts, DecodeParts
  <2>3. QED
    BY <2>1, <2>2, NotRefused
<1>4. QED
  BY <1>1, <1>2, <1>3 DEF IsBlob

\* The payload of an accepted blob is encoded to the same bytes.
LEMMA PartsWhole ==
    ASSUME NEW kind, NEW payload \in Bytes, DecodeParts(kind, payload) # Refused
    PROVE  EncodeParts(kind, DecodeParts(kind, payload)) = payload
<1>1. CASE kind = Android
  BY <1>1, AndroidWhole DEF EncodeParts, DecodeParts, Tpm, Android
<1>2. CASE kind = Tpm
  BY <1>2, TpmWhole DEF EncodeParts, DecodeParts, Tpm, Android
<1>3. CASE kind # Android /\ kind # Tpm
  BY <1>3 DEF EncodeParts, DecodeParts
<1>4. QED
  BY <1>1, <1>2, <1>3

\* A blob that was written is read back.
LEMMA BlobBack ==
    ASSUME NEW d, IsBlob(d), BlobBytes(d) # Refused
    PROVE  BlobBytes(d) \in Bytes /\ BlobParts(BlobBytes(d)) = d
<1>1. PICK payload : payload = EncodeParts(d.kind, d.parts)
  OBVIOUS
<1>2. payload # Refused /\ Fits16(payload) /\ BlobBytes(d) = <<0, d.kind>> \o Prefixed16(payload)
  BY <1>1 DEF BlobBytes
<1>3. /\ d = [kind |-> d.kind, parts |-> d.parts] /\ d.kind \in KindBytes
      /\ payload \in Bytes /\ d.parts # Refused /\ DecodeParts(d.kind, payload) = d.parts
  BY <1>1, <1>2, PartsBack
<1>4. PICK k \in Nat : k = d.kind
  BY <1>3 DEF KindBytes, Tpm, Android
<1>5. /\ BlobFields \in Seq(Fields) /\ <<0, k, payload>> \in Typed(BlobFields)
      /\ BlobBytes(d) = Enc(BlobFields, <<0, k, payload>>)
  BY <1>2, <1>3, <1>4, BlobEncodes
<1>6. PICK vals \in Typed(BlobFields) : vals = <<0, k, payload>> /\ BlobBytes(d) = Enc(BlobFields, vals)
  BY <1>5
<1>7. PICK r : r = ReadAll(Reader(Enc(BlobFields, vals)), BlobFields)
  OBVIOUS
<1>8. ExpectEof(r) /\ r.got = vals
  BY <1>5, <1>7, WholeBack
<1>9. vals[1] = 0 /\ vals[2] = k /\ vals[3] = payload
  BY <1>6
<1>10. BlobParts(Enc(BlobFields, vals)) = [kind |-> k, parts |-> d.parts]
  BY <1>3, <1>4, <1>7, <1>8, <1>9 DEF BlobParts, BlobFields
<1>11. Enc(BlobFields, vals) \in Bytes
  BY <1>5, PieceTypes
<1>12. QED
  BY <1>3, <1>4, <1>6, <1>10, <1>11

\* A blob that is accepted is written as it was read.
LEMMA BlobWhole ==
    ASSUME NEW bytes \in Bytes, BlobParts(bytes) # Refused
    PROVE  BlobBytes(BlobParts(bytes)) = bytes
<1>1. PICK f \in Fields, g \in Fields : f = "body16" /\ g = "cell"
  BY FieldKinds
<1>2. PICK l \in Seq(Fields) : l = BlobFields /\ l = <<g, g, f>>
  <2>1. <<g, g, f>> \in Seq(Fields)
    OBVIOUS
  <2>2. QED
    BY <1>1, <2>1 DEF BlobFields
<1>3. PICK r : r = ReadAll(Reader(bytes), l)
  OBVIOUS
<1>4. PICK parts : parts = DecodeParts(r.got[2], r.got[3])
  OBVIOUS
<1>5. /\ ExpectEof(r) /\ r.got[1] = 0 /\ parts # Refused
      /\ BlobParts(bytes) = [kind |-> r.got[2], parts |-> parts]
  BY <1>2, <1>3, <1>4 DEF BlobParts, BlobFields
<1>6. PICK vals \in Typed(l) : bytes = Enc(l, vals) /\ r.got = vals
  BY <1>3, <1>5, WholeStands
<1>7. PICK z \in ValueOf(g), k \in ValueOf(g), payload \in ValueOf(f) : vals = <<z, k, payload>>
  BY <1>2, <1>6, ThreeTyped
<1>8. z \in Nat /\ k \in Nat /\ payload \in Bytes /\ Fits16(payload)
  BY <1>1, FieldKinds
<1>9. vals[1] = z /\ vals[2] = k /\ vals[3] = payload
  BY <1>7
<1>10. z = 0 /\ parts = DecodeParts(k, payload)
  BY <1>4, <1>5, <1>6, <1>9
<1>11. EncodeParts(k, parts) = payload
  BY <1>5, <1>8, <1>10, PartsWhole
<1>12. payload # Refused
  BY <1>8, NotRefused
<1>13. BlobBytes([kind |-> k, parts |-> parts]) = <<0, k>> \o Prefixed16(payload)
  BY <1>8, <1>11, <1>12 DEF BlobBytes
<1>14. <<0, k>> \o Prefixed16(payload) = Enc(BlobFields, <<0, k, payload>>)
  BY <1>8, BlobEncodes
<1>15. QED
  BY <1>2, <1>5, <1>6, <1>7, <1>9, <1>10, <1>13, <1>14

-----------------------------------------------------------------------------
(* Parts of sequences *)

\* What stands where in a sequence after another
Beside(u, S, s, t, m, n) ==
    /\ u \in Seq(S) /\ Len(u) = m + n
    /\ \A i \in 1 .. m : u[i] = s[i]
    /\ \A i \in 1 .. n : u[m + i] = t[i]

\* Two sequences stand beside each other in their concatenation.
LEMMA ConcatBeside ==
    ASSUME NEW S, NEW s \in Seq(S), NEW t \in Seq(S), NEW m \in Nat, NEW n \in Nat,
           Len(s) = m, Len(t) = n
    PROVE  Beside(s \o t, S, s, t, m, n)
<1>1. PICK u : u = s \o t
  OBVIOUS
<1>2. /\ u \in Seq(S) /\ Len(u) = m + n
      /\ \A i \in 1 .. m + n : u[i] = IF i =< m THEN s[i] ELSE t[i - m]
  BY <1>1, ConcatProperties
<1>3. ASSUME NEW i \in 1 .. m PROVE u[i] = s[i]
  BY <1>2
<1>4. ASSUME NEW i \in 1 .. n PROVE u[m + i] = t[i]
  <2>1. m + i \in 1 .. m + n /\ ~(m + i =< m) /\ m + i - m = i
    OBVIOUS
  <2>2. QED
    BY <1>2, <2>1
<1>5. QED
  BY <1>1, <1>2, <1>3, <1>4 DEF Beside

\* The same, of a sequence that is equal to the concatenation.
LEMMA ConcatAt ==
    ASSUME NEW S, NEW s \in Seq(S), NEW t \in Seq(S), NEW m \in Nat, NEW n \in Nat,
           Len(s) = m, Len(t) = n, NEW u, u = s \o t
    PROVE  /\ u \in Seq(S) /\ Len(u) = m + n
           /\ \A i \in 1 .. m : u[i] = s[i]
           /\ \A i \in 1 .. n : u[m + i] = t[i]
<1>1. Beside(s \o t, S, s, t, m, n)
  BY ConcatBeside
<1>2. QED
  BY <1>1 DEF Beside

\* One value before others
LEMMA OneBefore ==
    ASSUME NEW S, NEW x \in S, NEW s \in Seq(S), NEW u, u = <<x>> \o s
    PROVE  u \in Seq(S) /\ u[1] = x /\ Tail(u) = s /\ Len(u) = Len(s) + 1
<1>1. PICK n \in Nat : n = Len(s)
  BY LenProperties
<1>2. PICK t \in Seq(S) : t = <<x>> /\ Len(t) = 1 /\ t[1] = x
  <2>1. <<x>> \in Seq(S) /\ Len(<<x>>) = 1 /\ <<x>>[1] = x
    OBVIOUS
  <2>2. QED
    BY <2>1
<1>3. PICK m \in Nat : m = 1
  OBVIOUS
<1>4. /\ u \in Seq(S) /\ Len(u) = m + n
      /\ \A i \in 1 .. m : u[i] = t[i]
      /\ \A i \in 1 .. n : u[m + i] = s[i]
  BY <1>1, <1>2, <1>3, ConcatAt
<1>5. u # <<>>
  <2>1. Len(<<>>) = 0
    BY EmptySeq
  <2>2. Len(u) # 0
    BY <1>3, <1>4
  <2>3. QED
    BY <2>1, <2>2, Zenon
<1>6. PICK v \in Seq(S) : v = Tail(u) /\ Len(v) = n /\ \A i \in 1 .. n : v[i] = u[i + 1]
  <2>1. PICK new : new = Tail(u)
    OBVIOUS
  <2>2. new \in Seq(S) /\ Len(new) = Len(u) - 1 /\ \A i \in 1 .. Len(new) : new[i] = u[i + 1]
    BY <1>4, <1>5, <2>1, HeadTailProperties
  <2>3. Len(new) = n
    BY <1>3, <1>4, <2>2
  <2>4. QED
    BY <2>1, <2>2, <2>3
<1>7. \A i \in 1 .. n : v[i] = s[i]
  BY <1>3, <1>4, <1>6
<1>8. v = s
  BY <1>1, <1>6, <1>7, SeqEqual
<1>9. QED
  BY <1>1, <1>2, <1>3, <1>4, <1>6, <1>8

\* A number of the bytes
LEMMA NumberAt ==
    ASSUME NEW s \in Bytes, NEW i \in Nat \ {0}, i =< Len(s)
    PROVE  s[i] \in Nat
<1>1. PICK n \in Nat : n = Len(s)
  BY LenProperties DEF Bytes
<1>2. i \in 1 .. n
  BY <1>1
<1>3. QED
  BY <1>1, <1>2, ElementOfSeq DEF Bytes

\* Three numbers are the same sequence as the same function.
LEMMA Triples ==
    ASSUME NEW f \in [1 .. 3 -> Nat]
    PROVE  /\ f \in Bytes /\ Len(f) = 3
           /\ \A g \in Bytes : Len(g) = 3 /\ g[1] = f[1] /\ g[2] = f[2] /\ g[3] = f[3] => g = f
<1>1. f \in Seq(Nat) /\ Len(f) = 3
  <2>1. PICK n \in Nat : n = 3
    OBVIOUS
  <2>2. f \in [1 .. n -> Nat]
    BY <2>1
  <2>3. f \in Seq(Nat) /\ Len(f) = n
    BY <2>2
  <2>4. QED
    BY <2>1, <2>3
<1>2. ASSUME NEW g \in Bytes, Len(g) = 3, g[1] = f[1], g[2] = f[2], g[3] = f[3] PROVE g = f
  <2>1. \A i \in 1 .. 3 : g[i] = f[i]
    BY <1>2
  <2>2. QED
    BY <1>1, <1>2, <2>1, SeqEqual DEF Bytes
<1>3. QED
  BY <1>1, <1>2 DEF Bytes

\* Three of the values, as numbers
LEMMA SubTriple ==
    ASSUME NEW s \in Seq(Values), NEW a \in Nat \ {0}, NEW b \in Nat, b = a + 2, b =< Len(s),
           s[a] \in Nat, s[a + 1] \in Nat, s[b] \in Nat
    PROVE  /\ SubSeq(s, a, b) \in [1 .. 3 -> Nat]
           /\ SubSeq(s, a, b)[1] = s[a] /\ SubSeq(s, a, b)[2] = s[a + 1] /\ SubSeq(s, a, b)[3] = s[b]
<1>1. \A i \in a .. b : s[i] \in Nat
  OBVIOUS
<1>2. PICK u : u = SubSeq(s, a, b)
  OBVIOUS
<1>3. /\ u \in Seq(Nat) /\ Len(u) = IF a =< b THEN b - a + 1 ELSE 0
      /\ \A i \in 1 .. b - a + 1 : u[i] = s[a + i - 1]
  BY <1>1, <1>2, SubSeqProperties
<1>4. Len(u) = 3 /\ u[1] = s[a] /\ u[2] = s[a + 1] /\ u[3] = s[b]
  BY <1>3, SMTT(30)
<1>5. u \in [1 .. 3 -> Nat]
  BY <1>3, <1>4, LenProperties
<1>6. QED
  BY <1>2, <1>4, <1>5

\* Three of the numbers that agree with others
LEMMA SameTriple ==
    ASSUME NEW s \in Seq(Values), NEW a \in Nat \ {0}, NEW b \in Nat, b = a + 2, b =< Len(s),
           NEW f \in [1 .. 3 -> Nat], s[a] = f[1], s[a + 1] = f[2], s[b] = f[3]
    PROVE  SubSeq(s, a, b) = f
<1>1. s[a] \in Nat /\ s[a + 1] \in Nat /\ s[b] \in Nat
  OBVIOUS
<1>2. PICK g \in [1 .. 3 -> Nat] :
         g = SubSeq(s, a, b) /\ g[1] = s[a] /\ g[2] = s[a + 1] /\ g[3] = s[b]
  <2>1. /\ SubSeq(s, a, b) \in [1 .. 3 -> Nat]
        /\ SubSeq(s, a, b)[1] = s[a] /\ SubSeq(s, a, b)[2] = s[a + 1] /\ SubSeq(s, a, b)[3] = s[b]
    BY <1>1, SubTriple
  <2>2. QED
    BY <2>1
<1>3. \A i \in 1 .. 3 : g[i] = f[i]
  BY <1>2, SMTT(30)
<1>4. QED
  BY <1>2, <1>3, SMTT(30)

-----------------------------------------------------------------------------
(* The head of a file, and bodies after one another *)

\* A reader that has read vals and left t
HasRead(r, vals, t) == r \in Readers(Values) /\ r.ok /\ r.got = vals /\ r.rest = t

\* The values of a layout at the start are read, and the rest is left.
LEMMA HeadBack ==
    ASSUME NEW layout \in Seq(Fields), NEW vals \in Typed(layout), NEW t \in Bytes,
           NEW bytes, bytes = Enc(layout, vals) \o t
    PROVE  bytes \in Bytes /\ HasRead(ReadAll(Reader(bytes), layout), vals, t)
<1>1. bytes \in Bytes
  BY PieceTypes, JoinThree
<1>2. PICK r \in Readers(Values) : r = Reader(bytes) /\ r.rest = bytes /\ r.got = <<>> /\ r.ok
  BY <1>1, AtStart
<1>3. ReadAll(r, layout) = Gathered(t, r.got, vals)
  BY <1>2, ReadBack
<1>4. <<>> \o vals = vals
  BY ConcatEmptySeq DEF Typed
<1>5. ReadAll(r, layout) = [rest |-> t, got |-> vals, ok |-> TRUE]
  BY <1>2, <1>3, <1>4 DEF Gathered
<1>6. ReadAll(r, layout) \in Readers(Values)
  BY ReadBoth
<1>7. ReadAll(r, layout).ok /\ ReadAll(r, layout).got = vals /\ ReadAll(r, layout).rest = t
  BY <1>5
<1>8. QED
  BY <1>1, <1>2, <1>6, <1>7 DEF HasRead

\* What was read of a layout stands at the start.
LEMMA HeadStands ==
    ASSUME NEW layout \in Seq(Fields), NEW bytes \in Bytes, ReadAll(Reader(bytes), layout).ok
    PROVE  /\ ReadAll(Reader(bytes), layout) \in Readers(Values)
           /\ ReadAll(Reader(bytes), layout).got \in Typed(layout)
           /\ bytes = Enc(layout, ReadAll(Reader(bytes), layout).got)
                          \o ReadAll(Reader(bytes), layout).rest
<1>1. PICK r \in Readers(Values) : r = Reader(bytes) /\ r.rest = bytes /\ r.got = <<>>
  BY AtStart
<1>2. PICK vals \in Typed(layout), t \in Bytes : ReadTo(r, layout, vals, t)
  BY <1>1, ReadStands
<1>3. bytes = Enc(layout, vals) \o t /\ ReadAll(r, layout) = Gathered(t, <<>>, vals)
  BY <1>1, <1>2 DEF ReadTo
<1>4. <<>> \o vals = vals
  BY ConcatEmptySeq DEF Typed
<1>5. ReadAll(r, layout) = [rest |-> t, got |-> vals, ok |-> TRUE]
  BY <1>3, <1>4 DEF Gathered
<1>6. ReadAll(r, layout) \in Readers(Values)
  BY ReadBoth
<1>7. ReadAll(r, layout).got = vals /\ ReadAll(r, layout).rest = t
  BY <1>5
<1>8. QED
  BY <1>1, <1>3, <1>6, <1>7

\* Bodies after one another
LEMMA BodiesBytes ==
    ASSUME NEW n \in Nat, NEW bodies \in [1 .. n -> Bytes]
    PROVE  /\ [i \in 1 .. n |-> "body"] \in Seq(Fields)
           /\ bodies \in Typed([i \in 1 .. n |-> "body"])
           /\ Enc([i \in 1 .. n |-> "body"], bodies) = Joined([i \in 1 .. n |-> Prefixed(bodies[i])])
<1>1. PICK l : l = [i \in 1 .. n |-> "body"]
  OBVIOUS
<1>2. l \in Seq(Fields) /\ Len(l) = n /\ \A i \in 1 .. n : l[i] = "body"
  BY <1>1, FieldKinds
<1>3. \A i \in 1 .. n : bodies[i] \in ValueOf(l[i]) /\ FieldBytes(l[i], bodies[i]) = Prefixed(bodies[i])
  BY <1>2, FieldKinds
<1>4. bodies \in Seq(Values) /\ Len(bodies) = n
  <2>1. bodies \in [1 .. n -> Values]
    BY DEF Values
  <2>2. QED
    BY <2>1
<1>5. bodies \in Typed(l)
  BY <1>2, <1>3, <1>4 DEF Typed
<1>6. Pieces(l, bodies) = [i \in 1 .. n |-> Prefixed(bodies[i])]
  BY <1>2, <1>3 DEF Pieces
<1>7. QED
  BY <1>1, <1>2, <1>5, <1>6 DEF Enc, Joined

-----------------------------------------------------------------------------
(* The plaintext of a recovery file *)

\* Two numbers, three and one
SixAre(s, x, y, f, z) ==
    /\ s \in Bytes /\ Len(s) = 6 /\ s[1] = x /\ s[2] = y /\ s[6] = z
    /\ s[3] = f[1] /\ s[4] = f[2] /\ s[5] = f[3]

\* Such six numbers are where they were put.
LEMMA TwoThreeOne ==
    ASSUME NEW x \in Nat, NEW y \in Nat, NEW f \in [1 .. 3 -> Nat], NEW z \in Nat
    PROVE  SixAre((<<x, y>> \o f) \o <<z>>, x, y, f, z)
<1>1. PICK s : s = (<<x, y>> \o f) \o <<z>>
  OBVIOUS
<1>2. PICK two \in Nat, three \in Nat, one \in Nat : two = 2 /\ three = 3 /\ one = 1
  OBVIOUS
<1>3. PICK a \in Seq(Nat) : a = <<x, y>> /\ Len(a) = two /\ a[1] = x /\ a[2] = y
  <2>1. PICK new : new = <<x, y>>
    OBVIOUS
  <2>2. new \in Seq(Nat) /\ Len(new) = 2 /\ new[1] = x /\ new[2] = y
    BY <2>1
  <2>3. QED
    BY <1>2, <2>1, <2>2
<1>4. PICK c \in Seq(Nat) : c = <<z>> /\ Len(c) = one /\ c[1] = z
  <2>1. PICK new : new = <<z>>
    OBVIOUS
  <2>2. new \in Seq(Nat) /\ Len(new) = 1 /\ new[1] = z
    BY <2>1
  <2>3. QED
    BY <1>2, <2>1, <2>2
<1>5. f \in Seq(Nat) /\ Len(f) = three
  BY <1>2, Triples DEF Bytes
<1>6. PICK b : b = a \o f
  OBVIOUS
<1>7. /\ b \in Seq(Nat) /\ Len(b) = two + three
      /\ \A i \in 1 .. two : b[i] = a[i]
      /\ \A i \in 1 .. three : b[two + i] = f[i]
  BY <1>3, <1>5, <1>6, ConcatAt, SMTT(30)
<1>8. PICK five \in Nat : five = two + three
  OBVIOUS
<1>9. /\ s \in Seq(Nat) /\ Len(s) = five + one
      /\ \A i \in 1 .. five : s[i] = b[i]
      /\ \A i \in 1 .. one : s[five + i] = c[i]
  BY <1>1, <1>3, <1>4, <1>6, <1>7, <1>8, ConcatAt, SMTT(30)
<1>10. b[1] = x /\ b[2] = y /\ b[3] = f[1] /\ b[4] = f[2] /\ b[5] = f[3]
  BY <1>2, <1>3, <1>7
<1>11. s[1] = x /\ s[2] = y /\ s[3] = f[1] /\ s[4] = f[2] /\ s[5] = f[3] /\ s[6] = z
  BY <1>2, <1>4, <1>8, <1>9, <1>10, SMTT(30)
<1>12. s \in Bytes /\ Len(s) = 6
  BY <1>2, <1>8, <1>9 DEF Bytes
<1>13. QED
  BY <1>1, <1>11, <1>12 DEF SixAre

\* A value before others
LEMMA ValueBefore ==
    ASSUME NEW x \in Values, NEW s \in Seq(Values)
    PROVE  (<<x>> \o s)[1] = x /\ Tail(<<x>> \o s) = s
<1>1. PICK u : u = <<x>> \o s
  OBVIOUS
<1>2. u[1] = x /\ Tail(u) = s
  BY <1>1, OneBefore
<1>3. QED
  BY <1>1, <1>2

\* The fields and values of an entry
EntryFields == <<"cell">> \o [f \in 1 .. 6 |-> "body"]
EntryVals(e) == <<e[1]>> \o e[2]

\* An entry and its bytes
LEMMA EntryBytes ==
    ASSUME NEW e, e \in Nat \X [1 .. 6 -> Seq(Nat)]
    PROVE  /\ EntryFields \in Seq(Fields) /\ EntryVals(e) \in Typed(EntryFields)
           /\ EntryVals(e)[1] = e[1] /\ Tail(EntryVals(e)) = e[2] /\ e = <<e[1], e[2]>>
           /\ Enc(EntryFields, EntryVals(e)) =
                  <<e[1]>> \o Joined([f \in 1 .. 6 |-> Prefixed(e[2][f])])
<1>1. PICK n \in Nat : n = 6
  OBVIOUS
<1>2. PICK x \in Nat, bodies \in [1 .. n -> Bytes] : e = <<x, bodies>>
  BY <1>1 DEF Bytes
<1>3. e[1] = x /\ e[2] = bodies
  BY <1>2
<1>4. PICK l \in Seq(Fields) : l = [i \in 1 .. n |-> "body"]
  BY BodiesBytes
<1>5. bodies \in Typed(l) /\ Enc(l, bodies) = Joined([i \in 1 .. n |-> Prefixed(bodies[i])])
  BY <1>4, BodiesBytes
<1>6. PICK c \in Fields : c = "cell" /\ x \in ValueOf(c) /\ FieldBytes(c, x) = <<x>>
  BY FieldKinds
<1>7. <<c>> \in Seq(Fields) /\ <<x>> \in Typed(<<c>>) /\ Enc(<<c>>, <<x>>) = <<x>>
  BY <1>6, EncOne
<1>8. /\ <<x>> \o bodies \in Typed(<<c>> \o l) /\ <<c>> \o l \in Seq(Fields)
      /\ Enc(<<c>> \o l, <<x>> \o bodies) = <<x>> \o Enc(l, bodies)
  <2>1. PICK k : k = <<c>>
    OBVIOUS
  <2>2. PICK v : v = <<x>>
    OBVIOUS
  <2>3. k \in Seq(Fields) /\ v \in Typed(k) /\ Enc(k, v) = <<x>>
    BY <1>7, <2>1, <2>2
  <2>4. /\ v \o bodies \in Typed(k \o l) /\ k \o l \in Seq(Fields)
        /\ Enc(k \o l, v \o bodies) = Enc(k, v) \o Enc(l, bodies)
    BY <1>5, <2>3, EncBoth, ZenonT(60)
  <2>5. QED
    BY <2>1, <2>2, <2>3, <2>4
<1>9. EntryFields = <<c>> \o l /\ EntryVals(e) = <<x>> \o bodies
  BY <1>1, <1>3, <1>4, <1>6 DEF EntryFields, EntryVals
<1>10. (<<x>> \o bodies)[1] = x /\ Tail(<<x>> \o bodies) = bodies
  <2>1. x \in Values /\ bodies \in Seq(Values)
    BY <1>5, SMTT(30) DEF Typed, Values
  <2>2. QED
    BY <2>1, ValueBefore
<1>11. QED
  BY <1>1, <1>2, <1>3, <1>5, <1>8, <1>9, <1>10

\* The groups of the entries and their bytes
EntryGroups(entries) == [i \in DOMAIN entries |-> EntryVals(entries[i])]

\* The entries of a payload are written as groups of fields.
LEMMA EntryRows ==
    ASSUME NEW entries \in Seq(Nat \X [1 .. 6 -> Seq(Nat)])
    PROVE  /\ EntryGroups(entries) \in Seq(Typed(EntryFields))
           /\ Len(EntryGroups(entries)) = Len(entries)
           /\ Rows(EntryFields, EntryGroups(entries)) =
                  Joined([i \in DOMAIN entries |->
                             <<entries[i][1]>>
                                 \o Joined([f \in 1 .. 6 |-> Prefixed(entries[i][2][f])])])
           /\ entries = [i \in 1 .. Len(entries) |->
                            <<EntryGroups(entries)[i][1], Tail(EntryGroups(entries)[i])>>]
<1>1. PICK n \in Nat : n = Len(entries) /\ DOMAIN entries = 1 .. n
  BY LenProperties
<1>2. PICK gs : gs = EntryGroups(entries)
  OBVIOUS
<1>3. ASSUME NEW i \in 1 .. n
      PROVE  /\ EntryVals(entries[i]) \in Typed(EntryFields)
             /\ EntryVals(entries[i])[1] = entries[i][1] /\ Tail(EntryVals(entries[i])) = entries[i][2]
             /\ entries[i] = <<entries[i][1], entries[i][2]>>
             /\ Enc(EntryFields, EntryVals(entries[i])) =
                    <<entries[i][1]>> \o Joined([f \in 1 .. 6 |-> Prefixed(entries[i][2][f])])
  <2>1. PICK e : e = entries[i]
    OBVIOUS
  <2>2. e \in Nat \X [1 .. 6 -> Seq(Nat)]
    BY <1>1, <2>1, ElementOfSeq
  <2>3. /\ EntryVals(e) \in Typed(EntryFields)
        /\ EntryVals(e)[1] = e[1] /\ Tail(EntryVals(e)) = e[2] /\ e = <<e[1], e[2]>>
        /\ Enc(EntryFields, EntryVals(e)) =
               <<e[1]>> \o Joined([f \in 1 .. 6 |-> Prefixed(e[2][f])])
    BY <2>2, EntryBytes
  <2>4. QED
    BY <2>1, <2>3
<1>4. gs = [i \in 1 .. n |-> EntryVals(entries[i])]
  BY <1>1, <1>2 DEF EntryGroups
<1>5. gs \in Seq(Typed(EntryFields)) /\ Len(gs) = n
  <2>1. gs \in [1 .. n -> Typed(EntryFields)]
    BY <1>3, <1>4
  <2>2. QED
    BY <2>1
<1>6. \A i \in 1 .. n : gs[i] = EntryVals(entries[i])
  BY <1>4
<1>7. GroupBytes(EntryFields, gs) =
          [i \in 1 .. n |-> <<entries[i][1]>>
                                \o Joined([f \in 1 .. 6 |-> Prefixed(entries[i][2][f])])]
  BY <1>3, <1>5, <1>6, Zenon DEF GroupBytes
<1>8. entries = [i \in 1 .. n |-> <<gs[i][1], Tail(gs[i])>>]
  <2>1. entries = [i \in 1 .. n |-> entries[i]]
    BY <1>1, LenProperties
  <2>2. \A i \in 1 .. n : entries[i] = <<gs[i][1], Tail(gs[i])>>
    BY <1>3, <1>6
  <2>3. QED
    BY <2>1, <2>2, Zenon
<1>9. QED
  BY <1>1, <1>2, <1>5, <1>7, <1>8 DEF Rows, Joined

\* The plaintext of a recovery file is read back.
LEMMA PayloadBack ==
    ASSUME NEW d, IsRecovery(d)
    PROVE  /\ EncodePayload(d) \in Bytes
           /\ DecodePayload(EncodePayload(d)) =
                  [seed |-> d.seed, vaultKdf |-> d.vaultKdf, entries |-> d.entries]
<1>1. /\ d.seed \in Nat /\ d.vaultKdf \in [1 .. 3 -> Nat]
      /\ d.entries \in Seq(Nat \X [1 .. 6 -> Seq(Nat)])
  BY DEF IsRecovery
<1>2. PICK n \in Nat : n = Len(d.entries)
  BY <1>1, LenProperties
<1>3. PICK gs \in Seq(Typed(EntryFields)) :
         /\ gs = EntryGroups(d.entries) /\ Len(gs) = n
         /\ d.entries = [i \in 1 .. n |-> <<gs[i][1], Tail(gs[i])>>]
         /\ Rows(EntryFields, gs) =
                  Joined([i \in DOMAIN d.entries |->
                             <<d.entries[i][1]>>
                                 \o Joined([f \in 1 .. 6 |-> Prefixed(d.entries[i][2][f])])])
  BY <1>1, <1>2, EntryRows
<1>4. PICK h : h = (<<1, d.seed>> \o d.vaultKdf) \o <<n>>
  OBVIOUS
<1>5. /\ h \in Bytes /\ Len(h) = 6 /\ h[1] = 1 /\ h[2] = d.seed /\ h[6] = n
      /\ h[3] = d.vaultKdf[1] /\ h[4] = d.vaultKdf[2] /\ h[5] = d.vaultKdf[3]
  <2>1. PICK x \in Nat, y \in Nat, f \in [1 .. 3 -> Nat] : x = 1 /\ y = d.seed /\ f = d.vaultKdf
    BY <1>1
  <2>2. h = (<<x, y>> \o f) \o <<n>>
    BY <1>4, <2>1
  <2>3. SixAre(h, x, y, f, n)
    BY <2>2, TwoThreeOne
  <2>4. QED
    BY <2>1, <2>3 DEF SixAre
<1>6. PICK l \in Seq(Fields) : l = Cells(6) /\ h \in Typed(l) /\ Enc(l, h) = h
  <2>1. PICK m \in Nat : m = 6
    OBVIOUS
  <2>2. h \in Typed(Cells(m)) /\ Enc(Cells(m), h) = h
    BY <1>5, <2>1, EncCells
  <2>3. QED
    BY <2>1, <2>2, CellTypes
<1>7. EntryFields \in Seq(Fields)
  <2>1. PICK e : e = <<0, [i \in 1 .. 6 |-> <<>>]>>
    OBVIOUS
  <2>2. e \in Nat \X [1 .. 6 -> Seq(Nat)]
    <3>1. <<>> \in Seq(Nat)
      BY EmptySeq
    <3>2. QED
      BY <2>1, <3>1
  <2>3. QED
    BY <2>2, EntryBytes
<1>8. PICK t \in Bytes : t = Rows(EntryFields, gs)
  BY <1>7, GroupTypes
<1>9. PICK bytes : bytes = Enc(l, h) \o t
  OBVIOUS
<1>10. EncodePayload(d) = bytes
  BY <1>2, <1>3, <1>4, <1>6, <1>8, <1>9, ZenonT(60) DEF EncodePayload
<1>11. PICK head \in Readers(Values) :
          head = ReadAll(Reader(bytes), l) /\ head.ok /\ head.got = h /\ head.rest = t
  <2>1. HasRead(ReadAll(Reader(bytes), l), h, t)
    BY <1>6, <1>9, HeadBack
  <2>2. QED
    BY <2>1 DEF HasRead
<1>12. ReadGroups(head, n, EntryFields) = ReadOver(<<>>, gs)
  <2>1. PICK e \in Bytes : e = <<>>
    BY EmptySeq DEF Bytes
  <2>2. t \o e = t
    BY <2>1, ConcatEmptySeq DEF Bytes
  <2>3. head.rest = Rows(EntryFields, gs) \o e
    BY <1>8, <1>11, <2>2
  <2>4. ReadGroups(head, Len(gs), EntryFields) = ReadOver(e, gs)
    BY <1>7, <1>11, <2>3, GroupsBack, ZenonT(60)
  <2>5. QED
    BY <1>3, <2>1, <2>4
<1>13. SubSeq(h, 3, 5) = d.vaultKdf
  <2>1. h \in Seq(Values)
    BY <1>6 DEF Typed
  <2>2. PICK a \in Nat \ {0}, b \in Nat, f \in [1 .. 3 -> Nat] : a = 3 /\ b = 5 /\ f = d.vaultKdf
    BY <1>1
  <2>3. b = a + 2 /\ b =< Len(h) /\ h[a] = f[1] /\ h[a + 1] = f[2] /\ h[b] = f[3]
    BY <1>5, <2>2
  <2>4. SubSeq(h, a, b) = f
    BY <2>1, <2>3, SameTriple, SMTT(30)
  <2>5. QED
    BY <2>2, <2>4
<1>14. PICK all : all = ReadGroups(head, n, EntryFields) /\ all.got = gs /\ ExpectEof(all)
  BY <1>12 DEF ReadOver, ExpectEof
<1>15. DecodePayload(bytes) =
          [seed |-> h[2], vaultKdf |-> SubSeq(h, 3, 5),
           entries |-> [i \in 1 .. n |-> <<gs[i][1], Tail(gs[i])>>]]
  BY <1>5, <1>6, <1>11, <1>14 DEF DecodePayload, EntryFields
<1>16. bytes \in Bytes
  BY <1>6, <1>9, HeadBack
<1>17. QED
  BY <1>3, <1>5, <1>10, <1>13, <1>15, <1>16

-----------------------------------------------------------------------------
(* Sealing and opening *)

\* What was appended is not at the front.
LEMMA FrontOf == ASSUME NEW s \in Bytes, NEW x \in Nat PROVE Front(Append(s, x)) = s
<1>1. PICK n \in Nat : n = Len(s)
  BY LenProperties DEF Bytes
<1>2. PICK t : t = Append(s, x)
  OBVIOUS
<1>3. t \in Seq(Nat) /\ Len(t) = n + 1 /\ \A i \in 1 .. n : t[i] = s[i]
  BY <1>1, <1>2, AppendProperties DEF Bytes
<1>4. \A i \in 1 .. n : t[i] \in Nat
  BY <1>3, ElementOfSeq
<1>5. PICK u : u = SubSeq(t, 1, n)
  OBVIOUS
<1>6. /\ u \in Seq(Nat) /\ Len(u) = IF 1 =< n THEN n - 1 + 1 ELSE 0
      /\ \A i \in 1 .. n - 1 + 1 : u[i] = t[1 + i - 1]
  BY <1>4, <1>5, SubSeqProperties
<1>7. Len(u) = n /\ \A i \in 1 .. n : u[i] = s[i]
  BY <1>3, <1>6
<1>8. u = s
  BY <1>1, <1>6, <1>7, SeqEqual DEF Bytes
<1>9. Front(t) = SubSeq(t, 1, n)
  BY <1>3 DEF Front
<1>10. QED
  BY <1>2, <1>5, <1>8, <1>9

\* What was sealed is opened, and what is opened was sealed so.
LEMMA SealOpens ==
    ASSUME NEW key, NEW nonce, NEW ad, NEW plain \in Bytes, NEW seals,
           Sealing(key, nonce, ad, plain) \in seals
    PROVE  Opened(seals, key, nonce, ad, Append(plain, 0)) = plain
  BY FrontOf DEF Opened, Sealing

\* What opens was sealed so.
LEMMA OpenedSeal ==
    ASSUME NEW seals, NEW key, NEW nonce, NEW ad, NEW ct,
           Opened(seals, key, nonce, ad, ct) # Refused
    PROVE  [key |-> key, nonce |-> nonce, ad |-> ad, ct |-> ct] \in seals
  BY DEF Opened

-----------------------------------------------------------------------------
(* The recovery file *)

\* Three numbers, three and two
EightAre(s, x, y, z, f, p, q) ==
    /\ s \in Bytes /\ Len(s) = 8 /\ s[1] = x /\ s[2] = y /\ s[3] = z
    /\ s[4] = f[1] /\ s[5] = f[2] /\ s[6] = f[3] /\ s[7] = p /\ s[8] = q

\* Such eight numbers are where they were put.
LEMMA ThreeThreeTwo ==
    ASSUME NEW x \in Nat, NEW y \in Nat, NEW z \in Nat, NEW f \in [1 .. 3 -> Nat],
           NEW p \in Nat, NEW q \in Nat
    PROVE  EightAre((<<x, y, z>> \o f) \o <<p, q>>, x, y, z, f, p, q)
<1>1. PICK s : s = (<<x, y, z>> \o f) \o <<p, q>>
  OBVIOUS
<1>2. PICK two \in Nat, three \in Nat, six \in Nat : two = 2 /\ three = 3 /\ six = three + three
  OBVIOUS
<1>3. PICK a \in Seq(Nat) : a = <<x, y, z>> /\ Len(a) = three /\ a[1] = x /\ a[2] = y /\ a[3] = z
  <2>1. PICK new : new = <<x, y, z>>
    OBVIOUS
  <2>2. new \in Seq(Nat) /\ Len(new) = 3 /\ new[1] = x /\ new[2] = y /\ new[3] = z
    BY <2>1
  <2>3. QED
    BY <1>2, <2>1, <2>2
<1>4. PICK c \in Seq(Nat) : c = <<p, q>> /\ Len(c) = two /\ c[1] = p /\ c[2] = q
  <2>1. PICK new : new = <<p, q>>
    OBVIOUS
  <2>2. new \in Seq(Nat) /\ Len(new) = 2 /\ new[1] = p /\ new[2] = q
    BY <2>1
  <2>3. QED
    BY <1>2, <2>1, <2>2
<1>5. f \in Seq(Nat) /\ Len(f) = three
  BY <1>2, Triples DEF Bytes
<1>6. PICK b : b = a \o f
  OBVIOUS
<1>7. /\ b \in Seq(Nat) /\ Len(b) = three + three
      /\ \A i \in 1 .. three : b[i] = a[i]
      /\ \A i \in 1 .. three : b[three + i] = f[i]
  BY <1>3, <1>5, <1>6, ConcatAt, SMTT(30)
<1>8. /\ s \in Seq(Nat) /\ Len(s) = six + two
      /\ \A i \in 1 .. six : s[i] = b[i]
      /\ \A i \in 1 .. two : s[six + i] = c[i]
  BY <1>1, <1>2, <1>3, <1>4, <1>6, <1>7, ConcatAt, SMTT(30)
<1>9. b[1] = x /\ b[2] = y /\ b[3] = z /\ b[4] = f[1] /\ b[5] = f[2] /\ b[6] = f[3]
  BY <1>2, <1>3, <1>7
<1>10. s[1] = x /\ s[2] = y /\ s[3] = z /\ s[4] = f[1] /\ s[5] = f[2] /\ s[6] = f[3]
  <2>1. s[1] = b[1] /\ s[2] = b[2] /\ s[3] = b[3]
    BY <1>2, <1>8
  <2>2. s[4] = b[4] /\ s[5] = b[5] /\ s[6] = b[6]
    BY <1>2, <1>8
  <2>3. QED
    BY <1>9, <2>1, <2>2
<1>11. s[7] = p /\ s[8] = q
  BY <1>2, <1>4, <1>8
<1>12. s \in Bytes /\ Len(s) = 8
  BY <1>2, <1>8 DEF Bytes
<1>13. QED
  BY <1>1, <1>10, <1>11, <1>12 DEF EightAre

\* Cells and a body
BodyAfter(n, s, b, u) ==
    /\ Cells(n) \o <<"body">> \in Seq(Fields) /\ u \in Typed(Cells(n) \o <<"body">>)
    /\ Enc(Cells(n) \o <<"body">>, u) = s \o Prefixed(b)
    /\ \A i \in 1 .. n : u[i] = s[i]
    /\ u[n + 1] = b /\ Len(u) = n + 1

\* Numbers and a body are written one after the other.
LEMMA CellsAndBody ==
    ASSUME NEW n \in Nat, NEW s \in Bytes, Len(s) = n, NEW b \in Bytes
    PROVE  BodyAfter(n, s, b, s \o <<b>>)
<1>1. PICK l \in Seq(Fields) : l = Cells(n) /\ s \in Typed(l) /\ Enc(l, s) = s
  BY CellTypes, EncCells
<1>2. PICK f \in Fields : f = "body" /\ b \in ValueOf(f) /\ FieldBytes(f, b) = Prefixed(b)
  BY FieldKinds
<1>3. PICK k : k = <<f>>
  OBVIOUS
<1>4. PICK w : w = <<b>>
  OBVIOUS
<1>5. k \in Seq(Fields) /\ w \in Typed(k) /\ Enc(k, w) = Prefixed(b)
  BY <1>2, <1>3, <1>4, EncOne
<1>6. /\ s \o w \in Typed(l \o k) /\ l \o k \in Seq(Fields)
      /\ Enc(l \o k, s \o w) = Enc(l, s) \o Enc(k, w)
  <2>1. s \in Typed(l) /\ w \in Typed(k) /\ k \in Seq(Fields)
    BY <1>1, <1>5
  <2>2. QED
    BY <2>1, EncBoth
<1>7. PICK u : u = s \o w
  OBVIOUS
<1>8. (\A i \in 1 .. n : u[i] = s[i]) /\ u[n + 1] = b /\ Len(u) = n + 1
  <2>1. PICK S : S = Values
    OBVIOUS
  <2>2. s \in Seq(S) /\ w \in Seq(S)
    BY <1>1, <1>5, <2>1 DEF Typed
  <2>3. PICK one \in Nat : one = 1
    OBVIOUS
  <2>4. Len(w) = one /\ w[one] = b
    BY <1>4, <2>3
  <2>5. Len(u) = n + one
    BY <1>7, <2>2, <2>4, ConcatProperties
  <2>6. /\ \A i \in 1 .. n : u[i] = s[i]
        /\ \A i \in 1 .. one : u[n + i] = w[i]
    BY <1>7, <2>2, <2>4, ConcatAt, SMTT(30)
  <2>7. QED
    BY <2>3, <2>4, <2>5, <2>6
<1>9. QED
  BY <1>1, <1>2, <1>3, <1>4, <1>5, <1>6, <1>7, <1>8 DEF BodyAfter

\* Cells and a body, as values of the layout
LEMMA CellsAndBodyTyped ==
    ASSUME NEW n \in Nat, NEW vals \in Typed(Cells(n) \o <<"body">>)
    PROVE  \E s \in Bytes, b \in Bytes : Len(s) = n /\ vals = s \o <<b>>
<1>1. PICK l \in Seq(Fields) : l = Cells(n)
  BY CellTypes
<1>2. PICK f \in Fields : f = "body"
  BY FieldKinds
<1>3. PICK k \in Seq(Fields) : k = <<f>>
  <2>1. <<f>> \in Seq(Fields)
    OBVIOUS
  <2>2. QED
    BY <2>1
<1>4. PICK s \in Typed(l), w \in Typed(k) : vals = s \o w
  BY <1>1, <1>2, <1>3, TypedSplit, ZenonT(60)
<1>5. PICK b \in ValueOf(f) : w = <<b>>
  BY <1>3, <1>4, TypedOne
<1>6. b \in Bytes
  BY <1>2, FieldKinds
<1>7. s \in Bytes /\ Len(s) = n
  BY <1>1, CellTypes
<1>8. QED
  BY <1>4, <1>5, <1>6, <1>7

\* The numbers before the ciphertext of a recovery file
RecoveryNumbers(d) == (<<Magic, 1, 0>> \o d.kdf) \o <<d.salt, 1>>

\* The ciphertext of a recovery file
RecoveryText(d) == Append(EncodePayload(d), 0)

\* What is exported
LEMMA ExportBytes ==
    ASSUME NEW d, IsRecovery(d)
    PROVE  /\ EightAre(RecoveryNumbers(d), Magic, 1, 0, d.kdf, d.salt, 1)
           /\ RecoveryText(d) \in Bytes /\ RecoveryText(d) # <<>>
           /\ d.kdf \in [1 .. 3 -> Nat]
           /\ RecoverySealing(d) = [key |-> <<"recovery", d.kdf, d.salt>>, nonce |-> 1,
                                    ad |-> <<Magic>>, ct |-> RecoveryText(d)]
           /\ Exported(d) # Refused =>
                  /\ MeetsFloor(d.kdf) /\ Derivable(d.kdf, d.free)
                  /\ Exported(d) = RecoveryNumbers(d) \o Prefixed(RecoveryText(d))
<1>1. d.kdf \in [1 .. 3 -> Nat] /\ d.salt \in Nat
  BY DEF IsRecovery
<1>2. EightAre(RecoveryNumbers(d), Magic, 1, 0, d.kdf, d.salt, 1)
  BY <1>1, ThreeThreeTwo DEF RecoveryNumbers, Magic
<1>3. PICK plain \in Bytes : plain = EncodePayload(d)
  BY PayloadBack
<1>4. Append(plain, 0) \in Bytes /\ Append(plain, 0) # <<>>
  <2>1. PICK t : t = Append(plain, 0)
    OBVIOUS
  <2>2. t \in Seq(Nat) /\ Len(t) = Len(plain) + 1 /\ Len(plain) \in Nat
    BY <2>1, AppendProperties DEF Bytes
  <2>3. Len(<<>>) = 0
    BY EmptySeq
  <2>4. Len(t) # 0
    BY <2>2
  <2>5. t # <<>>
    BY <2>3, <2>4, Zenon
  <2>6. QED
    BY <2>1, <2>2, <2>5 DEF Bytes
<1>5. RecoverySealing(d) = [key |-> <<"recovery", d.kdf, d.salt>>, nonce |-> 1,
                            ad |-> <<Magic>>, ct |-> RecoveryText(d)]
  BY DEF RecoverySealing, Sealing, RecoveryText
<1>6. RecoverySealing(d).nonce = 1 /\ RecoverySealing(d).ct = RecoveryText(d)
  BY <1>5
<1>7. ASSUME Exported(d) # Refused
      PROVE  /\ MeetsFloor(d.kdf) /\ Derivable(d.kdf, d.free)
             /\ Exported(d) = RecoveryNumbers(d) \o Prefixed(RecoveryText(d))
  BY <1>6, <1>7 DEF Exported, RecoveryNumbers
<1>8. QED
  BY <1>1, <1>2, <1>3, <1>4, <1>5, <1>7 DEF RecoveryText

\* A recovery file that was written is read back.
LEMMA RecoveryBack ==
    ASSUME NEW d, IsRecovery(d), Exported(d) # Refused
    PROVE  /\ Exported(d) \in Bytes
           /\ Imported(Exported(d), {RecoverySealing(d)}, d.free) =
                  [seed |-> d.seed, vaultKdf |-> d.vaultKdf, entries |-> d.entries]
<1>1. PICK h \in Bytes, ct \in Bytes : h = RecoveryNumbers(d) /\ ct = RecoveryText(d) /\ ct # <<>>
  BY ExportBytes DEF EightAre
<1>2. /\ Len(h) = 8 /\ h[1] = Magic /\ h[2] = 1 /\ h[3] = 0 /\ h[4] = d.kdf[1]
      /\ h[5] = d.kdf[2] /\ h[6] = d.kdf[3] /\ h[7] = d.salt /\ h[8] = 1
  BY <1>1, ExportBytes DEF EightAre
<1>3. /\ Exported(d) = h \o Prefixed(ct) /\ Derivable(d.kdf, d.free)
      /\ d.kdf \in [1 .. 3 -> Nat]
      /\ RecoverySealing(d) = [key |-> <<"recovery", d.kdf, d.salt>>, nonce |-> 1,
                               ad |-> <<Magic>>, ct |-> ct]
  BY <1>1, ExportBytes
<1>4. PICK l \in Seq(Fields) : l = Cells(8) \o <<"body">>
  BY <1>2, CellsAndBody, ZenonT(60) DEF BodyAfter
<1>5. PICK g \in Typed(l) :
         /\ g = h \o <<ct>> /\ Enc(l, g) = h \o Prefixed(ct)
         /\ g[1] = Magic /\ g[2] = 1 /\ g[3] = 0
         /\ g[4] = d.kdf[1] /\ g[5] = d.kdf[2] /\ g[6] = d.kdf[3]
         /\ g[7] = d.salt /\ g[8] = 1 /\ g[9] = ct /\ Len(g) = 9
  <2>1. PICK n \in Nat : n = 8
    OBVIOUS
  <2>2. PICK u : u = h \o <<ct>>
    OBVIOUS
  <2>3. /\ u \in Typed(Cells(n) \o <<"body">>)
        /\ Enc(Cells(n) \o <<"body">>, u) = h \o Prefixed(ct)
        /\ \A i \in 1 .. n : u[i] = h[i]
        /\ u[n + 1] = ct /\ Len(u) = n + 1
    BY <1>2, <2>1, <2>2, CellsAndBody, ZenonT(60) DEF BodyAfter
  <2>4. u \in Typed(l) /\ Enc(l, u) = h \o Prefixed(ct)
    BY <1>4, <2>1, <2>3
  <2>5. /\ u[1] = h[1] /\ u[2] = h[2] /\ u[3] = h[3] /\ u[4] = h[4] /\ u[5] = h[5]
        /\ u[6] = h[6] /\ u[7] = h[7] /\ u[8] = h[8] /\ u[9] = ct /\ Len(u) = 9
    BY <2>1, <2>3
  <2>6. QED
    BY <1>2, <2>2, <2>4, <2>5, ZenonT(60)
<1>6. PICK r : r = ReadAll(Reader(Enc(l, g)), l)
  OBVIOUS
<1>7. ExpectEof(r) /\ r.got = g
  BY <1>6, WholeBack
<1>8. SubSeq(g, 4, 6) = d.kdf
  <2>1. PICK a \in Nat \ {0}, b \in Nat, f \in [1 .. 3 -> Nat] : a = 4 /\ b = 6 /\ f = d.kdf
    BY <1>3
  <2>2. g \in Seq(Values)
    BY DEF Typed
  <2>3. b = a + 2 /\ b =< Len(g) /\ g[a] = f[1] /\ g[a + 1] = f[2] /\ g[b] = f[3]
    BY <1>5, <2>1, <2>2
  <2>4. SubSeq(g, a, b) = f
    BY <2>2, <2>3, SameTriple, SMTT(30)
  <2>5. QED
    BY <2>1, <2>4
<1>9. PICK seals : seals = {RecoverySealing(d)}
  OBVIOUS
<1>10. PICK plain \in Bytes : plain = EncodePayload(d) /\ plain # Refused
  BY PayloadBack, NotRefused
<1>11. Opened(seals, <<"recovery", d.kdf, d.salt>>, 1, <<Magic>>, ct) = plain
  <2>1. Sealing(<<"recovery", d.kdf, d.salt>>, 1, <<Magic>>, plain) \in seals
    BY <1>9, <1>10 DEF RecoverySealing
  <2>2. ct = Append(plain, 0)
    BY <1>1, <1>10 DEF RecoveryText
  <2>3. QED
    BY <2>1, <2>2, SealOpens
<1>12. Imported(Enc(l, g), seals, d.free) = DecodePayload(plain)
  BY <1>1, <1>3, <1>4, <1>5, <1>6, <1>7, <1>8, <1>10, <1>11, ZenonT(60) DEF Imported
<1>13. Enc(l, g) \in Bytes
  BY PieceTypes
<1>14. QED
  BY <1>3, <1>5, <1>9, <1>10, <1>12, <1>13, PayloadBack

\* The numbers of eight bytes
LEMMA EightNumbers ==
    ASSUME NEW s \in Bytes, Len(s) = 8
    PROVE  s[4] \in Nat /\ s[5] \in Nat /\ s[6] \in Nat
  BY NumberAt, SMTT(30)

\* A recovery file that is accepted is the one that was written.
LEMMA RecoveryWhole ==
    ASSUME NEW d, IsRecovery(d), Exported(d) # Refused, NEW bytes \in Bytes, NEW free,
           Imported(bytes, {RecoverySealing(d)}, free) # Refused
    PROVE  bytes = Exported(d)
<1>1. PICK h \in Bytes, ct \in Bytes : h = RecoveryNumbers(d) /\ ct = RecoveryText(d)
  BY ExportBytes DEF EightAre
<1>2. /\ Len(h) = 8 /\ h[1] = Magic /\ h[2] = 1 /\ h[3] = 0 /\ h[4] = d.kdf[1]
      /\ h[5] = d.kdf[2] /\ h[6] = d.kdf[3] /\ h[7] = d.salt /\ h[8] = 1
  BY <1>1, ExportBytes DEF EightAre
<1>3. /\ Exported(d) = h \o Prefixed(ct)
      /\ d.kdf \in [1 .. 3 -> Nat]
      /\ RecoverySealing(d) = [key |-> <<"recovery", d.kdf, d.salt>>, nonce |-> 1,
                               ad |-> <<Magic>>, ct |-> ct]
  BY <1>1, ExportBytes
<1>4. PICK l \in Seq(Fields) : l = Cells(8) \o <<"body">>
  BY <1>2, CellsAndBody, ZenonT(60) DEF BodyAfter
<1>5. PICK r : r = ReadAll(Reader(bytes), l)
  OBVIOUS
<1>6. PICK seals : seals = {RecoverySealing(d)}
  OBVIOUS
<1>7. PICK g : g = r.got
  OBVIOUS
<1>8. PICK kdf : kdf = SubSeq(g, 4, 6)
  OBVIOUS
<1>9. /\ ExpectEof(r) /\ g[1] = Magic /\ g[2] = 1 /\ g[3] = 0
      /\ Opened(seals, <<"recovery", kdf, g[7]>>, g[8], <<Magic>>, g[9]) # Refused
  BY <1>4, <1>5, <1>6, <1>7, <1>8 DEF Imported
<1>10. g \in Typed(l) /\ bytes = Enc(l, g)
  BY <1>5, <1>7, <1>9, WholeStands
<1>11. PICK s \in Bytes, b \in Bytes :
          /\ Len(s) = 8 /\ g = s \o <<b>> /\ Enc(l, g) = s \o Prefixed(b)
          /\ g[1] = s[1] /\ g[2] = s[2] /\ g[3] = s[3] /\ g[4] = s[4] /\ g[5] = s[5]
          /\ g[6] = s[6] /\ g[7] = s[7] /\ g[8] = s[8] /\ g[9] = b /\ Len(g) = 9
  <2>1. PICK n \in Nat : n = 8
    OBVIOUS
  <2>2. PICK s \in Bytes, b \in Bytes : Len(s) = n /\ g = s \o <<b>>
    BY <1>4, <1>10, <2>1, CellsAndBodyTyped
  <2>3. /\ Enc(Cells(n) \o <<"body">>, g) = s \o Prefixed(b)
        /\ \A i \in 1 .. n : g[i] = s[i]
        /\ g[n + 1] = b /\ Len(g) = n + 1
    <3>1. BodyAfter(n, s, b, s \o <<b>>)
      BY <2>2, CellsAndBody
    <3>2. QED
      BY <2>2, <3>1 DEF BodyAfter
  <2>4. Enc(l, g) = s \o Prefixed(b)
    BY <1>4, <2>1, <2>3
  <2>5. /\ g[1] = s[1] /\ g[2] = s[2] /\ g[3] = s[3] /\ g[4] = s[4] /\ g[5] = s[5]
        /\ g[6] = s[6] /\ g[7] = s[7] /\ g[8] = s[8] /\ g[9] = b /\ Len(g) = 9
    BY <2>1, <2>3
  <2>6. QED
    BY <2>1, <2>2, <2>4, <2>5
<1>12. PICK seal : seal = [key |-> <<"recovery", kdf, g[7]>>, nonce |-> g[8], ad |-> <<Magic>>,
                           ct |-> g[9]]
  OBVIOUS
<1>13. seal = RecoverySealing(d)
  BY <1>6, <1>9, <1>12, OpenedSeal
<1>14. seal.key = <<"recovery", d.kdf, d.salt>> /\ seal.nonce = 1 /\ seal.ct = ct
  BY <1>3, <1>13
<1>15. kdf = d.kdf /\ g[7] = d.salt /\ g[8] = 1 /\ g[9] = ct
  BY <1>12, <1>14
<1>16. g[4] = d.kdf[1] /\ g[5] = d.kdf[2] /\ g[6] = d.kdf[3]
  <2>1. PICK a \in Nat \ {0}, b6 \in Nat : a = 4 /\ b6 = 6
    OBVIOUS
  <2>2. g \in Seq(Values)
    BY <1>10 DEF Typed
  <2>3. b6 = a + 2 /\ b6 =< Len(g) /\ g[a] \in Nat /\ g[a + 1] \in Nat /\ g[b6] \in Nat
    <3>1. s[4] \in Nat /\ s[5] \in Nat /\ s[6] \in Nat
      BY <1>11, EightNumbers
    <3>2. QED
      BY <1>11, <2>1, <3>1
  <2>4. /\ SubSeq(g, a, b6)[1] = g[a] /\ SubSeq(g, a, b6)[2] = g[a + 1]
        /\ SubSeq(g, a, b6)[3] = g[b6]
    BY <2>2, <2>3, SubTriple
  <2>5. QED
    BY <1>8, <1>15, <2>1, <2>4
<1>17. /\ s[1] = h[1] /\ s[2] = h[2] /\ s[3] = h[3] /\ s[4] = h[4] /\ s[5] = h[5]
       /\ s[6] = h[6] /\ s[7] = h[7] /\ s[8] = h[8]
  BY <1>2, <1>9, <1>11, <1>15, <1>16
<1>18. s = h
  <2>1. \A i \in 1 .. 8 : s[i] = h[i]
    BY <1>17
  <2>2. QED
    BY <1>2, <1>11, <2>1, SeqEqual, ZenonT(60) DEF Bytes
<1>19. QED
  BY <1>3, <1>10, <1>11, <1>15, <1>18

-----------------------------------------------------------------------------
(* Records and the index of a vault *)

\* A record is read back.
LEMMA RecordBack ==
    ASSUME NEW fields, fields \in [1 .. 4 -> Seq(Nat)]
    PROVE  EncodeRecord(fields) \in Bytes /\ DecodeRecord(EncodeRecord(fields)) = fields
<1>1. PICK n \in Nat : n = 4
  OBVIOUS
<1>2. PICK bodies \in [1 .. n -> Bytes] : bodies = fields
  BY <1>1 DEF Bytes
<1>3. PICK l \in Seq(Fields) : l = [i \in 1 .. n |-> "body"]
  BY BodiesBytes
<1>4. bodies \in Typed(l) /\ Enc(l, bodies) = Joined([i \in 1 .. n |-> Prefixed(bodies[i])])
  BY <1>3, BodiesBytes
<1>5. PICK body \in Bytes : body = Enc(l, bodies)
  BY <1>4, PieceTypes
<1>6. EncodeRecord(fields) = Padded(body)
  BY <1>1, <1>2, <1>4, <1>5 DEF EncodeRecord
<1>7. Padded(body) \in Bytes /\ Stripped(Padded(body)) = body
  BY StrippedPadded
<1>8. PICK r : r = ReadAll(Reader(body), l)
  OBVIOUS
<1>9. ExpectEof(r) /\ r.got = bodies
  BY <1>4, <1>5, <1>8, WholeBack
<1>10. body # Refused
  BY NotRefused
<1>11. DecodeRecord(Padded(body)) = bodies
  BY <1>1, <1>3, <1>7, <1>8, <1>9, <1>10 DEF DecodeRecord
<1>12. QED
  BY <1>2, <1>6, <1>7, <1>11

\* Cells of two are their own bytes.
LEMMA PairCells ==
    ASSUME NEW x \in Nat, NEW y \in Nat
    PROVE  /\ <<x, y>> \in Typed(Cells(2)) /\ <<x, y>> \in Bytes
           /\ Enc(Cells(2), <<x, y>>) = <<x, y>>
<1>1. PICK n \in Nat : n = 2
  OBVIOUS
<1>2. PICK s : s = <<x, y>>
  OBVIOUS
<1>3. s \in Seq(Nat) /\ Len(s) = 2
  BY <1>2
<1>4. s \in Bytes /\ Len(s) = n
  BY <1>1, <1>3 DEF Bytes
<1>5. s \in Typed(Cells(n)) /\ Enc(Cells(n), s) = s
  BY <1>4, EncCells
<1>6. QED
  BY <1>1, <1>2, <1>4, <1>5

\* An entry of a vault
Entries == Nat \X Nat \X [1 .. 4 -> Seq(Nat)]
IndexGroups(entries) == [i \in DOMAIN entries |-> <<entries[i][1], entries[i][2]>>]

\* The rows of the entries and their bytes
LEMMA IndexBytes ==
    ASSUME NEW entries \in Seq(Entries)
    PROVE  /\ IndexGroups(entries) \in Seq(Typed(Cells(2)))
           /\ IndexGroups(entries) \in Seq(Bytes)
           /\ Len(IndexGroups(entries)) = Len(entries)
           /\ Rows(Cells(2), IndexGroups(entries)) \in Bytes
           /\ IndexOf(entries) = <<Len(entries)>> \o Rows(Cells(2), IndexGroups(entries))
<1>1. PICK n \in Nat : n = Len(entries) /\ DOMAIN entries = 1 .. n
  BY LenProperties
<1>2. PICK gs : gs = IndexGroups(entries)
  OBVIOUS
<1>3. gs = [i \in 1 .. n |-> <<entries[i][1], entries[i][2]>>]
  BY <1>1, <1>2 DEF IndexGroups
<1>4. ASSUME NEW i \in 1 .. n
      PROVE  /\ gs[i] \in Typed(Cells(2)) /\ gs[i] \in Bytes
             /\ Enc(Cells(2), gs[i]) = <<entries[i][1], entries[i][2]>>
  <2>1. PICK e : e = entries[i]
    OBVIOUS
  <2>2. e \in Entries
    BY <1>1, <2>1, ElementOfSeq
  <2>3. e[1] \in Nat /\ e[2] \in Nat
    BY <2>2 DEF Entries
  <2>4. PICK x \in Nat, y \in Nat : x = e[1] /\ y = e[2]
    BY <2>3
  <2>5. gs[i] = <<x, y>>
    BY <1>3, <2>1, <2>4
  <2>6. QED
    BY <2>1, <2>4, <2>5, PairCells, ZenonT(60)
<1>5. gs \in Seq(Typed(Cells(2))) /\ gs \in Seq(Bytes) /\ Len(gs) = n
  <2>1. gs \in [1 .. n -> Typed(Cells(2))] /\ gs \in [1 .. n -> Bytes]
    BY <1>3, <1>4
  <2>2. QED
    BY <2>1
<1>6. GroupBytes(Cells(2), gs) = [i \in 1 .. n |-> <<entries[i][1], entries[i][2]>>]
  BY <1>4, <1>5, Zenon DEF GroupBytes
<1>7. Cells(2) \in Seq(Fields)
  BY CellTypes
<1>8. Rows(Cells(2), gs) \in Bytes
  BY <1>5, <1>7, GroupTypes
<1>9. QED
  BY <1>1, <1>2, <1>5, <1>6, <1>8 DEF Rows, Joined, IndexOf

\* The rows of either version's index are read back.
LEMMA IndexBack ==
    ASSUME NEW entries \in Seq(Entries), NEW version \in {1, 2}
    PROVE  /\ IndexPlaintext(version, IndexOf(entries)) \in Bytes
           /\ IndexRows(version, IndexPlaintext(version, IndexOf(entries))) = IndexGroups(entries)
           /\ IndexGroups(entries) # Refused
<1>1. PICK gs \in Seq(Typed(Cells(2))), n \in Nat, t \in Bytes :
         /\ gs = IndexGroups(entries) /\ Len(gs) = n /\ n = Len(entries)
         /\ t = Rows(Cells(2), gs)
  <2>1. Len(entries) \in Nat
    BY LenProperties
  <2>2. /\ IndexGroups(entries) \in Seq(Typed(Cells(2)))
        /\ Len(IndexGroups(entries)) = Len(entries)
        /\ Rows(Cells(2), IndexGroups(entries)) \in Bytes
    BY IndexBytes
  <2>3. QED
    BY <2>1, <2>2
<1>2. PICK body : body = <<n>> \o t
  OBVIOUS
<1>3. body \in Bytes /\ body # <<>> /\ Head(body) = n /\ Tail(body) = t
  BY <1>2, HeadOf
<1>4. IndexOf(entries) = body
  BY <1>1, <1>2, IndexBytes
<1>5. PICK plain : plain = IndexPlaintext(version, body)
  OBVIOUS
<1>6. plain \in Bytes /\ body = IF version = 1 THEN plain ELSE Stripped(plain)
  BY <1>3, <1>5, StrippedPadded DEF IndexPlaintext
<1>7. ReadGroups(Reader(t), n, Cells(2)) = ReadOver(<<>>, gs)
  <2>1. PICK r \in Readers(Values) : r = Reader(t) /\ r.ok /\ r.rest = t
    BY AtStart
  <2>2. PICK e \in Bytes : e = <<>>
    BY EmptySeq DEF Bytes
  <2>3. t \o e = t
    BY <2>2, ConcatEmptySeq DEF Bytes
  <2>4. r.rest = Rows(Cells(2), gs) \o e
    BY <1>1, <2>1, <2>3
  <2>5. PICK l \in Seq(Fields) : l = Cells(2)
    BY CellTypes
  <2>6. ReadGroups(r, Len(gs), l) = ReadOver(e, gs)
    BY <2>1, <2>4, <2>5, GroupsBack, ZenonT(60)
  <2>7. QED
    BY <1>1, <2>1, <2>2, <2>5, <2>6
<1>8. PICK r : r = ReadGroups(Reader(t), n, Cells(2)) /\ r.ok /\ r.got = gs
  BY <1>7 DEF ReadOver
<1>9. body # Refused
  BY <1>3, NotRefused
<1>10. IndexRows(version, plain) = gs
  BY <1>3, <1>6, <1>8, <1>9 DEF IndexRows
<1>11. gs # Refused
  BY <1>1, IndexBytes, NotRefused
<1>12. QED
  BY <1>1, <1>4, <1>5, <1>6, <1>10, <1>11

-----------------------------------------------------------------------------
(* The head of a vault file *)

\* Two values
LEMMA TwoTyped ==
    ASSUME NEW f1 \in Fields, NEW f2 \in Fields, NEW vals \in Typed(<<f1, f2>>)
    PROVE  \E x1 \in ValueOf(f1), x2 \in ValueOf(f2) : vals = <<x1, x2>>
<1>1. PICK l : l = <<f1, f2>>
  OBVIOUS
<1>2. Len(l) = 2 /\ l[1] = f1 /\ l[2] = f2
  BY <1>1
<1>3. /\ vals \in Seq(Values) /\ Len(vals) = 2
      /\ vals[1] \in ValueOf(f1) /\ vals[2] \in ValueOf(f2)
  BY <1>1, <1>2 DEF Typed
<1>4. vals = <<vals[1], vals[2]>>
  BY <1>3
<1>5. QED
  BY <1>3, <1>4

\* The bytes of two fields
TwoAre(f1, f2, x1, x2) ==
    /\ <<f1, f2>> \in Seq(Fields) /\ <<x1, x2>> \in Typed(<<f1, f2>>)
    /\ Enc(<<f1, f2>>, <<x1, x2>>) = FieldBytes(f1, x1) \o FieldBytes(f2, x2)

\* Two fields are written one after the other.
LEMMA TwoFields ==
    ASSUME NEW f1 \in Fields, NEW f2 \in Fields, NEW x1 \in ValueOf(f1), NEW x2 \in ValueOf(f2)
    PROVE  TwoAre(f1, f2, x1, x2)
<1>1. <<f1, f2>> \in Seq(Fields)
  OBVIOUS
<1>2. Append(<<f1>>, f2) = <<f1, f2>> /\ Append(<<x1>>, x2) = <<x1, x2>>
  BY AppendTwo, Zenon
<1>3. PICK l : l = <<f1>>
  OBVIOUS
<1>4. PICK v : v = <<x1>>
  OBVIOUS
<1>5. l \in Seq(Fields) /\ v \in Typed(l) /\ Enc(l, v) = FieldBytes(f1, x1)
  BY <1>3, <1>4, EncOne
<1>6. /\ Append(v, x2) \in Typed(Append(l, f2))
      /\ Enc(Append(l, f2), Append(v, x2)) = Enc(l, v) \o FieldBytes(f2, x2)
  BY <1>5, EncMore
<1>7. QED
  BY <1>1, <1>2, <1>3, <1>4, <1>5, <1>6 DEF TwoAre

\* Six numbers and three
NineAre(s, x, y, f, z, p) ==
    /\ s \in Bytes /\ Len(s) = 9 /\ s[1] = x /\ s[2] = y
    /\ s[3] = f[1] /\ s[4] = f[2] /\ s[5] = f[3] /\ s[6] = z
    /\ s[7] = p[1] /\ s[8] = p[2] /\ s[9] = p[3]

\* Such nine numbers are where they were put.
LEMMA SixAndThree ==
    ASSUME NEW x \in Nat, NEW y \in Nat, NEW f \in [1 .. 3 -> Nat], NEW z \in Nat,
           NEW p \in [1 .. 3 -> Nat]
    PROVE  NineAre(((<<x, y>> \o f) \o <<z>>) \o p, x, y, f, z, p)
<1>1. PICK a : a = (<<x, y>> \o f) \o <<z>>
  OBVIOUS
<1>2. PICK s : s = a \o p
  OBVIOUS
<1>3. SixAre(a, x, y, f, z)
  BY <1>1, TwoThreeOne
<1>4. /\ a \in Seq(Nat) /\ Len(a) = 6 /\ a[1] = x /\ a[2] = y /\ a[6] = z
      /\ a[3] = f[1] /\ a[4] = f[2] /\ a[5] = f[3]
  BY <1>3 DEF SixAre, Bytes
<1>5. PICK three \in Nat, six \in Nat : three = 3 /\ six = 6
  OBVIOUS
<1>6. p \in Seq(Nat) /\ Len(p) = three
  BY <1>5, Triples DEF Bytes
<1>7. /\ s \in Seq(Nat) /\ Len(s) = six + three
      /\ \A i \in 1 .. six : s[i] = a[i]
      /\ \A i \in 1 .. three : s[six + i] = p[i]
  <2>1. a \in Seq(Nat) /\ Len(a) = six
    BY <1>4, <1>5
  <2>2. Beside(a \o p, Nat, a, p, six, three)
    BY <1>6, <2>1, ConcatBeside
  <2>3. QED
    BY <1>2, <2>2 DEF Beside
<1>8. s[1] = a[1] /\ s[2] = a[2] /\ s[3] = a[3]
  BY <1>5, <1>7
<1>9. s[4] = a[4] /\ s[5] = a[5] /\ s[6] = a[6]
  BY <1>5, <1>7
<1>10. s[7] = p[1] /\ s[8] = p[2] /\ s[9] = p[3]
  BY <1>5, <1>7
<1>11. s \in Bytes /\ Len(s) = 9
  BY <1>5, <1>7 DEF Bytes
<1>12. QED
  BY <1>1, <1>2, <1>4, <1>8, <1>9, <1>10, <1>11 DEF NineAre

\* Three numbers, two and one
TailAre(s, f, p, q, z) ==
    /\ s \in Bytes /\ Len(s) = 6 /\ s[1] = f[1] /\ s[2] = f[2] /\ s[3] = f[3]
    /\ s[4] = p /\ s[5] = q /\ s[6] = z

\* Such six numbers are where they were put.
LEMMA ThreeTwoOne ==
    ASSUME NEW f \in [1 .. 3 -> Nat], NEW p \in Nat, NEW q \in Nat, NEW z \in Nat
    PROVE  TailAre((f \o <<p, q>>) \o <<z>>, f, p, q, z)
<1>1. PICK s : s = (f \o <<p, q>>) \o <<z>>
  OBVIOUS
<1>2. PICK one \in Nat, two \in Nat, three \in Nat, five \in Nat :
         one = 1 /\ two = 2 /\ three = 3 /\ five = three + two
  OBVIOUS
<1>3. PICK a \in Seq(Nat) : a = <<p, q>> /\ Len(a) = two /\ a[1] = p /\ a[2] = q
  <2>1. PICK new : new = <<p, q>>
    OBVIOUS
  <2>2. new \in Seq(Nat) /\ Len(new) = 2 /\ new[1] = p /\ new[2] = q
    BY <2>1
  <2>3. QED
    BY <1>2, <2>1, <2>2
<1>4. PICK c \in Seq(Nat) : c = <<z>> /\ Len(c) = one /\ c[1] = z
  <2>1. PICK new : new = <<z>>
    OBVIOUS
  <2>2. new \in Seq(Nat) /\ Len(new) = 1 /\ new[1] = z
    BY <2>1
  <2>3. QED
    BY <1>2, <2>1, <2>2
<1>5. f \in Seq(Nat) /\ Len(f) = three
  BY <1>2, Triples DEF Bytes
<1>6. PICK b : b = f \o a
  OBVIOUS
<1>7. /\ b \in Seq(Nat) /\ Len(b) = three + two
      /\ \A i \in 1 .. three : b[i] = f[i]
      /\ \A i \in 1 .. two : b[three + i] = a[i]
  BY <1>3, <1>5, <1>6, ConcatAt, SMTT(30)
<1>8. /\ s \in Seq(Nat) /\ Len(s) = five + one
      /\ \A i \in 1 .. five : s[i] = b[i]
      /\ \A i \in 1 .. one : s[five + i] = c[i]
  BY <1>1, <1>2, <1>3, <1>4, <1>6, <1>7, ConcatAt, SMTT(30)
<1>9. b[1] = f[1] /\ b[2] = f[2] /\ b[3] = f[3] /\ b[4] = p /\ b[5] = q
  BY <1>2, <1>3, <1>7
<1>10. s[1] = f[1] /\ s[2] = f[2] /\ s[3] = f[3] /\ s[4] = p /\ s[5] = q /\ s[6] = z
  BY <1>2, <1>4, <1>8, <1>9, SMTT(30)
<1>11. s \in Bytes /\ Len(s) = 6
  BY <1>2, <1>8 DEF Bytes
<1>12. QED
  BY <1>1, <1>10, <1>11 DEF TailAre

\* The values of a vault's head: nine numbers, two blobs, six numbers, a
\* ciphertext and a count
HeadVals(s, b, u, ct, n) == ((s \o b) \o u) \o <<ct, n>>

\* Where they stand
HeadAre(g, s, b, u, ct, n) ==
    /\ g \in Seq(Values) /\ Len(g) = 19
    /\ \A i \in 1 .. 9 : g[i] = s[i]
    /\ g[10] = b[1] /\ g[11] = b[2]
    /\ g[12] = u[1] /\ g[13] = u[2] /\ g[14] = u[3] /\ g[15] = u[4] /\ g[16] = u[5] /\ g[17] = u[6]
    /\ g[18] = ct /\ g[19] = n

\* Bytes are values.
LEMMA BytesAreValues == ASSUME NEW s \in Bytes PROVE s \in Seq(Values)
<1>1. PICK n \in Nat : n = Len(s)
  BY LenProperties DEF Bytes
<1>2. s \in Typed(Cells(n))
  BY <1>1, EncCells
<1>3. QED
  BY <1>2 DEF Typed

\* The values of a head are where they were put.
LEMMA HeadPlaces ==
    ASSUME NEW s \in Bytes, Len(s) = 9, NEW b \in Seq(Values), Len(b) = 2,
           NEW u \in Bytes, Len(u) = 6, NEW ct \in Values, NEW n \in Nat
    PROVE  HeadAre(HeadVals(s, b, u, ct, n), s, b, u, ct, n)
<1>1. PICK nine \in Nat, two \in Nat, six \in Nat, eleven \in Nat, seventeen \in Nat :
         nine = 9 /\ two = 2 /\ six = 6 /\ eleven = nine + two /\ seventeen = eleven + six
  OBVIOUS
<1>2. s \in Seq(Values) /\ u \in Seq(Values)
  BY BytesAreValues
<1>3. PICK c \in Seq(Values) : c = <<ct, n>> /\ Len(c) = 2 /\ c[1] = ct /\ c[2] = n
  <2>1. PICK new : new = <<ct, n>>
    OBVIOUS
  <2>2. n \in Values
    BY DEF Values
  <2>3. new \in Seq(Values) /\ Len(new) = 2 /\ new[1] = ct /\ new[2] = n
    BY <2>1, <2>2
  <2>4. QED
    BY <2>1, <2>3
<1>4. Len(s) = nine /\ Len(b) = two /\ Len(u) = six /\ Len(c) = two
  BY <1>1, <1>3
<1>5. PICK p : p = s \o b
  OBVIOUS
<1>6. Beside(s \o b, Values, s, b, nine, two)
  BY <1>2, <1>4, ConcatBeside
<1>7. /\ p \in Seq(Values) /\ Len(p) = eleven
      /\ (\A i \in 1 .. nine : p[i] = s[i]) /\ (\A i \in 1 .. two : p[nine + i] = b[i])
  BY <1>1, <1>5, <1>6 DEF Beside
<1>8. PICK q : q = p \o u
  OBVIOUS
<1>9. Beside(p \o u, Values, p, u, eleven, six)
  BY <1>2, <1>4, <1>7, ConcatBeside
<1>10. /\ q \in Seq(Values) /\ Len(q) = seventeen
       /\ (\A i \in 1 .. eleven : q[i] = p[i]) /\ (\A i \in 1 .. six : q[eleven + i] = u[i])
  BY <1>1, <1>8, <1>9 DEF Beside
<1>11. PICK g : g = q \o c
  OBVIOUS
<1>12. Beside(q \o c, Values, q, c, seventeen, two)
  BY <1>4, <1>10, ConcatBeside
<1>13. /\ g \in Seq(Values) /\ Len(g) = seventeen + two
       /\ (\A i \in 1 .. seventeen : g[i] = q[i]) /\ (\A i \in 1 .. two : g[seventeen + i] = c[i])
  BY <1>11, <1>12 DEF Beside
<1>14. \A i \in 1 .. 9 : g[i] = s[i]
  <2>1. ASSUME NEW i \in 1 .. 9 PROVE g[i] = s[i]
    <3>1. i \in 1 .. nine /\ i \in 1 .. eleven /\ i \in 1 .. seventeen
      BY <1>1
    <3>2. QED
      BY <1>7, <1>10, <1>13, <3>1
  <2>2. QED
    BY <2>1
<1>15. ASSUME NEW i \in 1 .. 2 PROVE g[9 + i] = b[i]
  <2>1. i \in 1 .. two /\ nine + i \in 1 .. eleven /\ nine + i \in 1 .. seventeen
    BY <1>1
  <2>2. g[nine + i] = b[i]
    BY <1>7, <1>10, <1>13, <2>1
  <2>3. QED
    BY <1>1, <2>2
<1>16. ASSUME NEW i \in 1 .. 6 PROVE g[11 + i] = u[i]
  <2>1. i \in 1 .. six /\ eleven + i \in 1 .. seventeen
    BY <1>1
  <2>2. g[eleven + i] = u[i]
    BY <1>10, <1>13, <2>1
  <2>3. QED
    BY <1>1, <2>2
<1>17. ASSUME NEW i \in 1 .. 2 PROVE g[17 + i] = c[i]
  BY <1>1, <1>13, SMTT(30)
<1>18. g[10] = b[1] /\ g[11] = b[2]
  BY <1>15
<1>19. g[12] = u[1] /\ g[13] = u[2] /\ g[14] = u[3] /\ g[15] = u[4] /\ g[16] = u[5] /\ g[17] = u[6]
  BY <1>16
<1>20. g[18] = ct /\ g[19] = n
  BY <1>3, <1>17
<1>21. g \in Seq(Values) /\ Len(g) = 19
  BY <1>1, <1>13
<1>22. g = HeadVals(s, b, u, ct, n)
  BY <1>3, <1>5, <1>8, <1>11 DEF HeadVals
<1>23. QED
  BY <1>14, <1>18, <1>19, <1>20, <1>21, <1>22 DEF HeadAre

\* The bytes of the head of a vault file
HeadEncodes(s, b1, b2, u, ct, n) ==
    /\ HeadVals(s, <<b1, b2>>, u, ct, n) \in Typed(VaultHead)
    /\ Enc(VaultHead, HeadVals(s, <<b1, b2>>, u, ct, n)) =
           ((s \o (Prefixed16(b1) \o Prefixed16(b2))) \o u) \o (Prefixed(ct) \o <<n>>)

\* The layout of the head is one.
LEMMA HeadLayout == VaultHead \in Seq(Fields)
<1>1. Cells(9) \in Seq(Fields) /\ Cells(6) \in Seq(Fields)
  BY CellTypes
<1>2. <<"body16", "body16">> \in Seq(Fields) /\ <<"body", "cell">> \in Seq(Fields)
  BY FieldKinds
<1>3. QED
  BY <1>1, <1>2 DEF VaultHead

\* The values of a head are written one after the other.
LEMMA HeadBytes ==
    ASSUME NEW s \in Bytes, Len(s) = 9, NEW b1 \in Bytes, NEW b2 \in Bytes, Fits16(b1), Fits16(b2),
           NEW u \in Bytes, Len(u) = 6, NEW ct \in Bytes, NEW n \in Nat
    PROVE  HeadEncodes(s, b1, b2, u, ct, n)
<1>1. PICK l1 \in Seq(Fields) : l1 = Cells(9) /\ s \in Typed(l1) /\ Enc(l1, s) = s
  <2>1. PICK nine \in Nat : nine = 9 /\ Len(s) = nine
    OBVIOUS
  <2>2. Cells(nine) \in Seq(Fields)
    BY CellTypes
  <2>3. s \in Typed(Cells(nine)) /\ Enc(Cells(nine), s) = s
    BY <2>1, EncCells
  <2>4. QED
    BY <2>1, <2>2, <2>3
<1>2. PICK l3 \in Seq(Fields) : l3 = Cells(6) /\ u \in Typed(l3) /\ Enc(l3, u) = u
  <2>1. PICK six \in Nat : six = 6 /\ Len(u) = six
    OBVIOUS
  <2>2. Cells(six) \in Seq(Fields)
    BY CellTypes
  <2>3. u \in Typed(Cells(six)) /\ Enc(Cells(six), u) = u
    BY <2>1, EncCells
  <2>4. QED
    BY <2>1, <2>2, <2>3
<1>3. PICK f \in Fields : /\ f = "body16" /\ b1 \in ValueOf(f) /\ b2 \in ValueOf(f)
                          /\ FieldBytes(f, b1) = Prefixed16(b1) /\ FieldBytes(f, b2) = Prefixed16(b2)
  BY FieldKinds
<1>4. TwoAre(f, f, b1, b2)
  BY <1>3, TwoFields
<1>5. PICK f2 \in Fields, f3 \in Fields :
         /\ f2 = "body" /\ f3 = "cell" /\ ct \in ValueOf(f2) /\ n \in ValueOf(f3)
         /\ FieldBytes(f2, ct) = Prefixed(ct) /\ FieldBytes(f3, n) = <<n>>
  BY FieldKinds
<1>6. TwoAre(f2, f3, ct, n)
  BY <1>5, TwoFields
<1>7. PICK l2 : l2 = <<f, f>>
  OBVIOUS
<1>8. PICK b : b = <<b1, b2>>
  OBVIOUS
<1>9. PICK l4 : l4 = <<f2, f3>>
  OBVIOUS
<1>10. PICK c : c = <<ct, n>>
  OBVIOUS
<1>11. l2 \in Seq(Fields) /\ b \in Typed(l2) /\ Enc(l2, b) = Prefixed16(b1) \o Prefixed16(b2)
  BY <1>3, <1>4, <1>7, <1>8 DEF TwoAre
<1>12. l4 \in Seq(Fields) /\ c \in Typed(l4) /\ Enc(l4, c) = Prefixed(ct) \o <<n>>
  BY <1>5, <1>6, <1>9, <1>10 DEF TwoAre
<1>13. PICK p : p = s \o b
  OBVIOUS
<1>14. PICK k1 : k1 = l1 \o l2
  OBVIOUS
<1>15. p \in Typed(k1) /\ k1 \in Seq(Fields) /\ Enc(k1, p) = s \o (Prefixed16(b1) \o Prefixed16(b2))
  <2>1. s \in Typed(l1) /\ b \in Typed(l2) /\ l2 \in Seq(Fields)
    BY <1>1, <1>11
  <2>2. /\ s \o b \in Typed(l1 \o l2) /\ l1 \o l2 \in Seq(Fields)
        /\ Enc(l1 \o l2, s \o b) = Enc(l1, s) \o Enc(l2, b)
    BY <2>1, EncBoth
  <2>3. QED
    BY <1>1, <1>11, <1>13, <1>14, <2>2
<1>16. PICK q : q = p \o u
  OBVIOUS
<1>17. PICK k2 : k2 = k1 \o l3
  OBVIOUS
<1>18. /\ q \in Typed(k2) /\ k2 \in Seq(Fields)
       /\ Enc(k2, q) = (s \o (Prefixed16(b1) \o Prefixed16(b2))) \o u
  <2>1. p \in Typed(k1) /\ u \in Typed(l3) /\ k1 \in Seq(Fields)
    BY <1>2, <1>15
  <2>2. /\ p \o u \in Typed(k1 \o l3) /\ k1 \o l3 \in Seq(Fields)
        /\ Enc(k1 \o l3, p \o u) = Enc(k1, p) \o Enc(l3, u)
    BY <2>1, EncBoth
  <2>3. QED
    BY <1>2, <1>15, <1>16, <1>17, <2>2
<1>19. /\ q \o c \in Typed(k2 \o l4)
       /\ Enc(k2 \o l4, q \o c) = Enc(k2, q) \o Enc(l4, c)
  <2>1. q \in Typed(k2) /\ k2 \in Seq(Fields) /\ c \in Typed(l4) /\ l4 \in Seq(Fields)
    BY <1>12, <1>18
  <2>2. QED
    BY <2>1, EncBoth
<1>20. VaultHead = k2 \o l4
  BY <1>1, <1>2, <1>3, <1>5, <1>7, <1>9, <1>14, <1>17 DEF VaultHead
<1>21. HeadVals(s, <<b1, b2>>, u, ct, n) = q \o c
  BY <1>8, <1>10, <1>13, <1>16 DEF HeadVals
<1>22. QED
  BY <1>12, <1>18, <1>19, <1>20, <1>21 DEF HeadEncodes

\* What the values of a head are
HeadMade(g, s, b1, b2, u, ct, n) ==
    /\ s \in Bytes /\ Len(s) = 9 /\ b1 \in Bytes /\ b2 \in Bytes /\ Fits16(b1) /\ Fits16(b2)
    /\ u \in Bytes /\ Len(u) = 6 /\ ct \in Bytes /\ n \in Nat
    /\ g = HeadVals(s, <<b1, b2>>, u, ct, n)

\* Every sequence of values of the head layout is made so.
LEMMA HeadTyped ==
    ASSUME NEW g \in Typed(VaultHead)
    PROVE  \E s, b1, b2, u, ct, n : HeadMade(g, s, b1, b2, u, ct, n)
<1>1. PICK l1 \in Seq(Fields) : l1 = Cells(9) /\ \A v \in Typed(l1) : v \in Bytes /\ Len(v) = 9
  BY CellTypes
<1>2. PICK l3 \in Seq(Fields) : l3 = Cells(6) /\ \A v \in Typed(l3) : v \in Bytes /\ Len(v) = 6
  BY CellTypes
<1>3. PICK f \in Fields : f = "body16" /\ \A b \in ValueOf(f) : b \in Bytes /\ Fits16(b)
  BY FieldKinds
<1>4. PICK f2 \in Fields, f3 \in Fields :
         /\ f2 = "body" /\ f3 = "cell"
         /\ (\A b \in ValueOf(f2) : b \in Bytes) /\ (\A x \in ValueOf(f3) : x \in Nat)
  BY FieldKinds
<1>5. PICK l2 \in Seq(Fields) : l2 = <<f, f>>
  <2>1. <<f, f>> \in Seq(Fields)
    OBVIOUS
  <2>2. QED
    BY <2>1
<1>6. PICK l4 \in Seq(Fields) : l4 = <<f2, f3>>
  <2>1. <<f2, f3>> \in Seq(Fields)
    OBVIOUS
  <2>2. QED
    BY <2>1
<1>7. PICK k1 \in Seq(Fields) : k1 = l1 \o l2
  <2>1. l1 \o l2 \in Seq(Fields)
    OBVIOUS
  <2>2. QED
    BY <2>1
<1>8. PICK k2 \in Seq(Fields) : k2 = k1 \o l3
  <2>1. k1 \o l3 \in Seq(Fields)
    OBVIOUS
  <2>2. QED
    BY <2>1
<1>9. g \in Typed(k2 \o l4)
  BY <1>1, <1>2, <1>3, <1>4, <1>5, <1>6, <1>7, <1>8 DEF VaultHead
<1>10. PICK q \in Typed(k2), c \in Typed(l4) : g = q \o c
  BY <1>9, TypedSplit, ZenonT(60)
<1>11. PICK p \in Typed(k1), u \in Typed(l3) : q = p \o u
  BY <1>8, TypedSplit, ZenonT(60)
<1>12. PICK s \in Typed(l1), b \in Typed(l2) : p = s \o b
  BY <1>7, TypedSplit, ZenonT(60)
<1>13. PICK b1 \in ValueOf(f), b2 \in ValueOf(f) : b = <<b1, b2>>
  BY <1>5, TwoTyped
<1>14. PICK ct \in ValueOf(f2), n \in ValueOf(f3) : c = <<ct, n>>
  BY <1>6, TwoTyped
<1>15. g = HeadVals(s, <<b1, b2>>, u, ct, n)
  BY <1>10, <1>11, <1>12, <1>13, <1>14 DEF HeadVals
<1>16. HeadMade(g, s, b1, b2, u, ct, n)
  BY <1>1, <1>2, <1>3, <1>4, <1>15 DEF HeadMade
<1>17. QED
  BY <1>16

\* Envelopes as groups of fields
EnvFields == <<"cell", "cell", "body">>
EnvVals(e) == <<e.id, e.nonce, e.ct>>
EnvGroups(es) == [i \in DOMAIN es |-> EnvVals(es[i])]
Envelopes == [id : Nat, nonce : Nat, ct : Bytes]

\* An envelope is written as its fields.
LEMMA EnvBytes ==
    ASSUME NEW e \in Envelopes
    PROVE  /\ EnvFields \in Seq(Fields) /\ EnvVals(e) \in Typed(EnvFields)
           /\ Enc(EnvFields, EnvVals(e)) = <<e.id, e.nonce>> \o Prefixed(e.ct)
<1>1. PICK f \in Fields, g \in Fields : f = "body" /\ g = "cell"
  BY FieldKinds
<1>2. PICK x \in Nat, y \in Nat, z \in Bytes : x = e.id /\ y = e.nonce /\ z = e.ct
  BY DEF Envelopes
<1>3. x \in ValueOf(g) /\ y \in ValueOf(g) /\ z \in ValueOf(f)
  BY <1>1, FieldKinds
<1>4. FieldBytes(g, x) = <<x>> /\ FieldBytes(g, y) = <<y>> /\ FieldBytes(f, z) = Prefixed(z)
  BY <1>1, FieldKinds
<1>5. /\ <<g, g, f>> \in Seq(Fields) /\ <<x, y, z>> \in Typed(<<g, g, f>>)
      /\ Enc(<<g, g, f>>, <<x, y, z>>) =
             (FieldBytes(g, x) \o FieldBytes(g, y)) \o FieldBytes(f, z)
  BY <1>3, ThreeFields, ZenonT(60)
<1>6. <<x>> \o <<y>> = <<x, y>>
  BY TwoCells
<1>7. QED
  BY <1>1, <1>2, <1>4, <1>5, <1>6 DEF EnvFields, EnvVals

\* The envelopes of a vault are written as groups of fields.
LEMMA EnvRows ==
    ASSUME NEW es \in Seq(Envelopes)
    PROVE  /\ EnvFields \in Seq(Fields)
           /\ EnvGroups(es) \in Seq(Typed(EnvFields)) /\ Len(EnvGroups(es)) = Len(es)
           /\ Rows(EnvFields, EnvGroups(es)) =
                  Joined([i \in DOMAIN es |-> <<es[i].id, es[i].nonce>> \o Prefixed(es[i].ct)])
           /\ es = [i \in 1 .. Len(es) |-> [id |-> EnvGroups(es)[i][1], nonce |-> EnvGroups(es)[i][2],
                                            ct |-> EnvGroups(es)[i][3]]]
<1>1. PICK n \in Nat : n = Len(es) /\ DOMAIN es = 1 .. n
  BY LenProperties
<1>2. \A i \in 1 .. n : es[i] \in Envelopes
  BY <1>1, ElementOfSeq
<1>3. PICK gs : gs = EnvGroups(es)
  OBVIOUS
<1>4. gs = [i \in 1 .. n |-> EnvVals(es[i])]
  BY <1>1, <1>3 DEF EnvGroups
<1>5. gs \in Seq(Typed(EnvFields)) /\ Len(gs) = n
  <2>1. \A i \in 1 .. n : EnvVals(es[i]) \in Typed(EnvFields)
    BY <1>2, EnvBytes
  <2>2. gs \in [1 .. n -> Typed(EnvFields)]
    BY <1>4, <2>1
  <2>3. QED
    BY <2>2
<1>6. GroupBytes(EnvFields, gs) = [i \in DOMAIN es |-> <<es[i].id, es[i].nonce>> \o Prefixed(es[i].ct)]
  <2>1. \A i \in 1 .. n : Enc(EnvFields, gs[i]) = <<es[i].id, es[i].nonce>> \o Prefixed(es[i].ct)
    <3>1. ASSUME NEW i \in 1 .. n
          PROVE  Enc(EnvFields, gs[i]) = <<es[i].id, es[i].nonce>> \o Prefixed(es[i].ct)
      <4>1. es[i] \in Envelopes /\ gs[i] = EnvVals(es[i])
        BY <1>2, <1>4
      <4>2. Enc(EnvFields, EnvVals(es[i])) = <<es[i].id, es[i].nonce>> \o Prefixed(es[i].ct)
        BY <4>1, EnvBytes
      <4>3. QED
        BY <4>1, <4>2
    <3>2. QED
      BY <3>1
  <2>2. GroupBytes(EnvFields, gs) = [i \in 1 .. n |-> Enc(EnvFields, gs[i])]
    BY <1>5 DEF GroupBytes
  <2>3. QED
    BY <1>1, <2>1, <2>2, Zenon
<1>7. es = [i \in 1 .. n |-> [id |-> gs[i][1], nonce |-> gs[i][2], ct |-> gs[i][3]]]
  <2>1. ASSUME NEW i \in 1 .. n
        PROVE  es[i] = [id |-> gs[i][1], nonce |-> gs[i][2], ct |-> gs[i][3]]
    <3>1. PICK e : e = es[i]
      OBVIOUS
    <3>2. e \in Envelopes /\ gs[i] = <<e.id, e.nonce, e.ct>>
      BY <1>2, <1>4, <3>1 DEF EnvVals
    <3>3. gs[i][1] = e.id /\ gs[i][2] = e.nonce /\ gs[i][3] = e.ct
      BY <3>2
    <3>4. e = [id |-> e.id, nonce |-> e.nonce, ct |-> e.ct]
      BY <3>2 DEF Envelopes
    <3>5. QED
      BY <3>1, <3>3, <3>4
  <2>2. es = [i \in 1 .. n |-> es[i]]
    BY <1>1, LenProperties
  <2>3. QED
    BY <2>1, <2>2, Zenon
<1>8. EnvFields \in Seq(Fields)
  BY FieldKinds DEF EnvFields
<1>9. QED
  BY <1>1, <1>3, <1>5, <1>6, <1>7, <1>8 DEF Rows, Joined

\* The vault of the values of a head and of its envelopes
VaultParsed(g, gs) ==
    [version |-> g[1], kdfId |-> g[2], kdf |-> SubSeq(g, 3, 5), salt |-> g[6],
     probe |-> SubSeq(g, 7, 9), blobs |-> SubSeq(g, 10, 11), lockout |-> SubSeq(g, 12, 14),
     exported |-> IF g[15] = 0 THEN <<>> ELSE <<g[16]>>,
     index |-> [id |-> 0, nonce |-> g[17], ct |-> g[18]],
     envelopes |-> [i \in 1 .. Len(gs) |-> [id |-> gs[i][1], nonce |-> gs[i][2],
                                            ct |-> gs[i][3]]]]

\* Bytes that from_bytes accepts
Accepted(bytes, g, gs) ==
    /\ g \in Typed(VaultHead) /\ gs \in Seq(Typed(EnvFields))
    /\ g[1] \in {1, 2} /\ g[2] = 0 /\ g[15] \in {0, 1} /\ g[19] = Len(gs)
    /\ bytes = Enc(VaultHead, g) \o Rows(EnvFields, gs)

\* The layout of an envelope is one.
LEMMA EnvLayout == EnvFields \in Seq(Fields)
  BY FieldKinds DEF EnvFields

\* What was written is parsed.
LEMMA FromBack ==
    ASSUME NEW bytes, NEW g, NEW gs, Accepted(bytes, g, gs)
    PROVE  bytes \in Bytes /\ FromBytes(bytes) = VaultParsed(g, gs)
<1>1. /\ g \in Typed(VaultHead) /\ gs \in Seq(Typed(EnvFields))
      /\ bytes = Enc(VaultHead, g) \o Rows(EnvFields, gs)
  BY DEF Accepted
<1>2. PICK n \in Nat : n = Len(gs)
  BY <1>1, LenProperties
<1>3. PICK t \in Bytes : t = Rows(EnvFields, gs)
  BY <1>1, EnvLayout, GroupTypes
<1>4. bytes \in Bytes /\ HasRead(ReadAll(Reader(bytes), VaultHead), g, t)
  BY <1>1, <1>3, HeadLayout, HeadBack
<1>5. PICK head \in Readers(Values) :
         head = ReadAll(Reader(bytes), VaultHead) /\ head.ok /\ head.got = g /\ head.rest = t
  BY <1>4 DEF HasRead
<1>6. ReadGroups(head, n, EnvFields) = ReadOver(<<>>, gs)
  <2>1. PICK e \in Bytes : e = <<>>
    BY EmptySeq DEF Bytes
  <2>2. t \o e = t
    BY <2>1, ConcatEmptySeq DEF Bytes
  <2>3. head.rest = Rows(EnvFields, gs) \o e
    BY <1>3, <1>5, <2>2
  <2>4. ReadGroups(head, Len(gs), EnvFields) = ReadOver(e, gs)
    BY <1>1, <1>5, <2>3, EnvLayout, GroupsBack, ZenonT(60)
  <2>5. QED
    BY <1>2, <2>1, <2>4
<1>7. PICK all : all = ReadGroups(head, n, EnvFields) /\ all.got = gs /\ ExpectEof(all)
  BY <1>6 DEF ReadOver, ExpectEof
<1>8. g[1] \in {1, 2} /\ g[2] = 0 /\ g[15] \in {0, 1} /\ g[19] = n
  BY <1>2 DEF Accepted
<1>9. FromBytes(bytes) =
         [version |-> g[1], kdfId |-> g[2], kdf |-> SubSeq(g, 3, 5), salt |-> g[6],
          probe |-> SubSeq(g, 7, 9), blobs |-> SubSeq(g, 10, 11), lockout |-> SubSeq(g, 12, 14),
          exported |-> IF g[15] = 0 THEN <<>> ELSE <<g[16]>>,
          index |-> [id |-> 0, nonce |-> g[17], ct |-> g[18]],
          envelopes |-> [i \in 1 .. n |-> [id |-> all.got[i][1], nonce |-> all.got[i][2],
                                           ct |-> all.got[i][3]]]]
  BY <1>5, <1>7, <1>8 DEF FromBytes, EnvFields
<1>10. FromBytes(bytes) = VaultParsed(g, gs)
  BY <1>2, <1>7, <1>9 DEF VaultParsed
<1>11. QED
  BY <1>4, <1>10

\* What is parsed was written so.
LEMMA FromStands ==
    ASSUME NEW bytes \in Bytes, FromBytes(bytes) # Refused
    PROVE  \E g, gs : Accepted(bytes, g, gs) /\ FromBytes(bytes) = VaultParsed(g, gs)
<1>1. PICK head : head = ReadAll(Reader(bytes), VaultHead)
  OBVIOUS
<1>2. PICK g : g = head.got
  OBVIOUS
<1>3. PICK n : n = g[19]
  OBVIOUS
<1>4. PICK all : all = ReadGroups(head, n, EnvFields)
  OBVIOUS
<1>5. head.ok /\ g[1] \in {1, 2} /\ g[2] = 0 /\ g[15] \in {0, 1} /\ ExpectEof(all)
  BY <1>1, <1>2, <1>3, <1>4 DEF FromBytes, EnvFields
<1>6. FromBytes(bytes) =
         [version |-> g[1], kdfId |-> g[2], kdf |-> SubSeq(g, 3, 5), salt |-> g[6],
          probe |-> SubSeq(g, 7, 9), blobs |-> SubSeq(g, 10, 11), lockout |-> SubSeq(g, 12, 14),
          exported |-> IF g[15] = 0 THEN <<>> ELSE <<g[16]>>,
          index |-> [id |-> 0, nonce |-> g[17], ct |-> g[18]],
          envelopes |-> [i \in 1 .. n |-> [id |-> all.got[i][1], nonce |-> all.got[i][2],
                                           ct |-> all.got[i][3]]]]
  BY <1>1, <1>2, <1>3, <1>4, <1>5 DEF FromBytes, EnvFields
<1>7. head \in Readers(Values) /\ g \in Typed(VaultHead) /\ bytes = Enc(VaultHead, g) \o head.rest
  BY <1>1, <1>2, <1>5, HeadLayout, HeadStands
<1>8. n \in Nat
  <2>1. PICK s, b1, b2, u, ct, m : HeadMade(g, s, b1, b2, u, ct, m)
    BY <1>7, HeadTyped
  <2>2. PICK b : b = <<b1, b2>>
    OBVIOUS
  <2>3. b \in Seq(Values) /\ Len(b) = 2
    BY <2>1, <2>2 DEF HeadMade, Values
  <2>4. s \in Bytes /\ Len(s) = 9 /\ u \in Bytes /\ Len(u) = 6 /\ ct \in Values /\ m \in Nat
    BY <2>1 DEF HeadMade, Values
  <2>5. HeadAre(HeadVals(s, b, u, ct, m), s, b, u, ct, m)
    BY <2>3, <2>4, HeadPlaces
  <2>6. g = HeadVals(s, b, u, ct, m)
    BY <2>1, <2>2 DEF HeadMade
  <2>7. g[19] = m
    BY <2>5, <2>6 DEF HeadAre
  <2>8. QED
    BY <1>3, <2>4, <2>7
<1>9. all.ok /\ all.rest = <<>>
  BY <1>5 DEF ExpectEof
<1>10. PICK gs \in Seq(Typed(EnvFields)), t \in Bytes : GroupsTo(head, n, EnvFields, gs, t)
  BY <1>4, <1>7, <1>8, <1>9, EnvLayout, GroupsStand
<1>11. Len(gs) = n /\ head.rest = Rows(EnvFields, gs) \o t /\ all = ReadOver(t, gs)
  BY <1>4, <1>10 DEF GroupsTo
<1>12. all.got = gs /\ t = <<>>
  BY <1>9, <1>11 DEF ReadOver
<1>13. head.rest = Rows(EnvFields, gs)
  <2>1. Rows(EnvFields, gs) \in Bytes
    BY EnvLayout, GroupTypes
  <2>2. QED
    BY <1>11, <1>12, <2>1, ConcatEmptySeq DEF Bytes
<1>14. Accepted(bytes, g, gs)
  BY <1>3, <1>5, <1>7, <1>10, <1>11, <1>13 DEF Accepted
<1>15. FromBytes(bytes) = VaultParsed(g, gs)
  BY <1>6, <1>11, <1>12 DEF VaultParsed
<1>16. QED
  BY <1>14, <1>15

-----------------------------------------------------------------------------
(* The vault file *)

Fitting == {b \in Bytes : Fits16(b)}

\* A vault whose fields have the types that the file gives them
WholeVaults ==
    [version : {1, 2}, kdfId : {0}, kdf : [1 .. 3 -> Nat], salt : Nat, probe : [1 .. 3 -> Nat],
     blobs : [1 .. 2 -> Fitting], lockout : [1 .. 3 -> Nat],
     exported : {e \in Bytes : Len(e) =< 1}, index : [id : {0}, nonce : Nat, ct : Bytes],
     envelopes : Seq(Envelopes)]

\* The numbers before and after the blobs
FrontNumbers(v) == ((<<v.version, v.kdfId>> \o v.kdf) \o <<v.salt>>) \o v.probe
ExportCells(v) == IF v.exported = <<>> THEN <<0, 0>> ELSE <<1>> \o v.exported
BackNumbers(v) == (v.lockout \o ExportCells(v)) \o <<v.index.nonce>>

HeadValsOf(v) ==
    HeadVals(FrontNumbers(v), <<v.blobs[1], v.blobs[2]>>, BackNumbers(v), v.index.ct, Len(v.envelopes))

\* Joining associates.
Associates(s, t, u) == (s \o t) \o u = s \o (t \o u)

\* Joining bytes associates.
LEMMA Associate ==
    ASSUME NEW s \in Bytes, NEW t \in Bytes, NEW u \in Bytes
    PROVE  Associates(s, t, u)
  BY SMTT(30) DEF Associates, Bytes

\* The order in which eight pieces are joined does not matter.
JoinedSo(s, p, q, l, e, m, c, k) ==
    ((((((s \o p) \o q) \o l) \o e) \o m) \o c) \o k =
        ((s \o (p \o q)) \o ((l \o e) \o m)) \o (c \o k)

\* Eight pieces of bytes are joined the same in either order.
LEMMA JoinEight ==
    ASSUME NEW s \in Bytes, NEW p \in Bytes, NEW q \in Bytes, NEW l \in Bytes, NEW e \in Bytes,
           NEW m \in Bytes, NEW c \in Bytes, NEW k \in Bytes
    PROVE  JoinedSo(s, p, q, l, e, m, c, k)
<1>1. PICK x \in Bytes : x = s \o (p \o q) /\ (s \o p) \o q = x
  <2>1. Associates(s, p, q) /\ p \o q \in Bytes
    BY Associate, JoinThree
  <2>2. s \o (p \o q) \in Bytes
    BY <2>1, JoinThree
  <2>3. QED
    BY <2>1, <2>2 DEF Associates
<1>2. PICK w \in Bytes : w = (l \o e) \o m /\ ((x \o l) \o e) \o m = x \o w
  <2>1. PICK d \in Bytes : d = l \o e
    BY JoinThree
  <2>2. Associates(x, l, e) /\ Associates(x, d, m) /\ d \o m \in Bytes
    BY Associate, JoinThree
  <2>3. QED
    BY <2>1, <2>2 DEF Associates
<1>3. PICK y \in Bytes : y = x \o w
  <2>1. x \o w \in Bytes
    BY JoinThree
  <2>2. QED
    BY <2>1
<1>4. Associates(y, c, k)
  BY Associate
<1>5. QED
  BY <1>1, <1>2, <1>3, <1>4 DEF Associates, JoinedSo

\* The exported timestamp takes two numbers.
ExportAre(v, p, q) ==
    /\ ExportCells(v) = <<p, q>> /\ p \in Nat /\ q \in Nat
    /\ v.exported = IF p = 0 THEN <<>> ELSE <<q>>

\* The timestamp of a vault takes two numbers, the first of them 0 or 1.
LEMMA ExportPair ==
    ASSUME NEW v \in WholeVaults
    PROVE  \E p \in {0, 1}, q \in Nat : ExportAre(v, p, q)
<1>1. v.exported \in Bytes /\ Len(v.exported) =< 1
  BY DEF WholeVaults
<1>2. CASE v.exported = <<>>
  BY <1>2 DEF ExportAre, ExportCells
<1>3. CASE v.exported # <<>>
  <2>1. PICK x : x = v.exported
    OBVIOUS
  <2>2. Head(x) \in Nat /\ x = <<Head(x)>>
    <3>1. Len(x) = 1
      <4>1. Len(x) # 0
        BY <1>1, <1>3, <2>1, EmptySeq DEF Bytes
      <4>2. PICK n \in Nat : n = Len(x)
        BY <1>1, <2>1, LenProperties DEF Bytes
      <4>3. n =< 1 /\ n # 0
        BY <1>1, <2>1, <4>1, <4>2
      <4>4. QED
        BY <4>2, <4>3
    <3>2. x \in Seq(Nat) /\ x # <<>>
      BY <1>1, <1>3, <2>1 DEF Bytes
    <3>3. Head(x) \in Nat /\ Head(x) = x[1]
      BY <3>2, HeadTailProperties
    <3>4. PICK y : y = <<Head(x)>>
      OBVIOUS
    <3>5. y \in Seq(Nat) /\ Len(y) = 1 /\ y[1] = Head(x)
      BY <3>3, <3>4
    <3>6. x = y
      BY <3>1, <3>2, <3>3, <3>5, SeqEqual
    <3>7. QED
      BY <3>3, <3>4, <3>6
  <2>3. PICK q \in Nat : x = <<q>>
    BY <2>2
  <2>4. PICK p \in Nat : p = 1
    OBVIOUS
  <2>5. <<p>> \o <<q>> = <<p, q>>
    BY TwoCells
  <2>6. ExportCells(v) = <<p, q>>
    BY <1>3, <2>1, <2>3, <2>4, <2>5 DEF ExportCells
  <2>7. ExportAre(v, p, q)
    BY <2>1, <2>3, <2>4, <2>6 DEF ExportAre
  <2>8. QED
    BY <2>4, <2>7
<1>4. QED
  BY <1>2, <1>3

\* Where the numbers of a vault stand
LEMMA WholeNumbers ==
    ASSUME NEW v \in WholeVaults, NEW p, NEW q, ExportAre(v, p, q)
    PROVE  /\ NineAre(FrontNumbers(v), v.version, v.kdfId, v.kdf, v.salt, v.probe)
           /\ TailAre(BackNumbers(v), v.lockout, p, q, v.index.nonce)
<1>1. /\ v.version \in Nat /\ v.kdfId \in Nat /\ v.kdf \in [1 .. 3 -> Nat] /\ v.salt \in Nat
      /\ v.probe \in [1 .. 3 -> Nat]
  BY SMTT(30) DEF WholeVaults
<1>2. v.lockout \in [1 .. 3 -> Nat] /\ v.index.nonce \in Nat
  BY DEF WholeVaults
<1>3. p \in Nat /\ q \in Nat /\ ExportCells(v) = <<p, q>>
  BY DEF ExportAre
<1>4. NineAre(FrontNumbers(v), v.version, v.kdfId, v.kdf, v.salt, v.probe)
  BY <1>1, SixAndThree DEF FrontNumbers
<1>5. TailAre((v.lockout \o <<p, q>>) \o <<v.index.nonce>>, v.lockout, p, q, v.index.nonce)
  BY <1>2, <1>3, ThreeTwoOne
<1>6. QED
  BY <1>3, <1>4, <1>5 DEF BackNumbers

\* What the head of a vault is made of
WholeHead(v) ==
    /\ FrontNumbers(v) \in Bytes /\ Len(FrontNumbers(v)) = 9
    /\ BackNumbers(v) \in Bytes /\ Len(BackNumbers(v)) = 6
    /\ v.blobs[1] \in Bytes /\ v.blobs[2] \in Bytes /\ Fits16(v.blobs[1]) /\ Fits16(v.blobs[2])
    /\ v.index.ct \in Bytes /\ Len(v.envelopes) \in Nat

\* The head of a vault is made of numbers and bodies.
LEMMA WholeHeads == ASSUME NEW v \in WholeVaults PROVE WholeHead(v)
<1>1. PICK p \in {0, 1}, q \in Nat : ExportAre(v, p, q)
  BY ExportPair
<1>2. /\ FrontNumbers(v) \in Bytes /\ Len(FrontNumbers(v)) = 9
      /\ BackNumbers(v) \in Bytes /\ Len(BackNumbers(v)) = 6
  BY <1>1, WholeNumbers DEF NineAre, TailAre
<1>3. v.blobs[1] \in Fitting /\ v.blobs[2] \in Fitting /\ v.index.ct \in Bytes
  BY SMTT(30) DEF WholeVaults
<1>4. v.envelopes \in Seq(Envelopes)
  BY DEF WholeVaults
<1>5. Len(v.envelopes) \in Nat
  BY <1>4, LenProperties
<1>6. QED
  BY <1>2, <1>3, <1>5 DEF WholeHead, Fitting

\* A body with its length is made of bytes.
LEMMA PrefixedBytes ==
    ASSUME NEW b \in Bytes
    PROVE  /\ Prefixed(b) \in Bytes
           /\ Fits16(b) => Prefixed16(b) \in Bytes
<1>1. "body" \in Fields /\ b \in ValueOf("body") /\ FieldBytes("body", b) = Prefixed(b)
  BY FieldKinds
<1>2. Fits16(b) => /\ "body16" \in Fields /\ b \in ValueOf("body16")
                   /\ FieldBytes("body16", b) = Prefixed16(b)
  BY FieldKinds
<1>3. Prefixed(b) \in Bytes
  <2>1. FieldBytes("body", b) \in Bytes
    BY <1>1, FieldTypes
  <2>2. QED
    BY <1>1, <2>1
<1>4. Fits16(b) => Prefixed16(b) \in Bytes
  <2>1. Fits16(b) => FieldBytes("body16", b) \in Bytes
    BY <1>2, FieldTypes
  <2>2. QED
    BY <1>2, <2>1
<1>5. QED
  BY <1>3, <1>4

\* A vault is written as its head and its envelopes.
LEMMA ToBytesOf ==
    ASSUME NEW v \in WholeVaults
    PROVE  /\ HeadValsOf(v) \in Typed(VaultHead)
           /\ EnvGroups(v.envelopes) \in Seq(Typed(EnvFields))
           /\ ToBytes(v) = Enc(VaultHead, HeadValsOf(v)) \o Rows(EnvFields, EnvGroups(v.envelopes))
<1>1. WholeHead(v)
  BY WholeHeads
<1>2. PICK s \in Bytes, b1 \in Bytes, b2 \in Bytes, u \in Bytes, ct \in Bytes, n \in Nat :
         /\ s = FrontNumbers(v) /\ b1 = v.blobs[1] /\ b2 = v.blobs[2] /\ u = BackNumbers(v) /\ ct = v.index.ct
         /\ n = Len(v.envelopes) /\ Len(s) = 9 /\ Len(u) = 6 /\ Fits16(b1) /\ Fits16(b2)
  BY <1>1 DEF WholeHead
<1>3. HeadEncodes(s, b1, b2, u, ct, n)
  BY <1>2, HeadBytes
<1>4. PICK g : g = HeadVals(s, <<b1, b2>>, u, ct, n)
  OBVIOUS
<1>5. /\ g \in Typed(VaultHead)
      /\ Enc(VaultHead, g) =
             ((s \o (Prefixed16(b1) \o Prefixed16(b2))) \o u) \o (Prefixed(ct) \o <<n>>)
  BY <1>3, <1>4 DEF HeadEncodes
<1>6. g = HeadValsOf(v)
  BY <1>2, <1>4 DEF HeadValsOf
<1>7. PICK p \in Bytes, q \in Bytes, c \in Bytes :
         p = Prefixed16(b1) /\ q = Prefixed16(b2) /\ c = Prefixed(ct)
  BY <1>2, PrefixedBytes
<1>8. PICK l \in Bytes : l = v.lockout
  <2>1. v.lockout \in [1 .. 3 -> Nat]
    BY DEF WholeVaults
  <2>2. QED
    BY <2>1, Triples
<1>9. PICK e \in Bytes : e = ExportCells(v)
  <2>1. PICK x \in {0, 1}, y \in Nat : ExportAre(v, x, y)
    BY ExportPair
  <2>2. <<x, y>> \in Seq(Nat)
    OBVIOUS
  <2>3. QED
    BY <2>1, <2>2 DEF ExportAre, Bytes
<1>10. PICK m \in Bytes, k \in Bytes : m = <<v.index.nonce>> /\ k = <<n>>
  <2>1. v.index.nonce \in Nat
    BY DEF WholeVaults
  <2>2. <<v.index.nonce>> \in Seq(Nat) /\ <<n>> \in Seq(Nat)
    BY <2>1
  <2>3. QED
    BY <2>2 DEF Bytes
<1>11. u = (l \o e) \o m
  BY <1>2, <1>8, <1>9, <1>10 DEF BackNumbers
<1>12. JoinedSo(s, p, q, l, e, m, c, k)
  BY JoinEight
<1>13. PICK t : t = Joined([i \in DOMAIN v.envelopes |->
                  <<v.envelopes[i].id, v.envelopes[i].nonce>> \o Prefixed(v.envelopes[i].ct)])
  OBVIOUS
<1>14. ToBytes(v) = (((((((s \o p) \o q) \o l) \o e) \o m) \o c) \o k) \o t
  BY <1>2, <1>7, <1>8, <1>9, <1>10, <1>13 DEF ToBytes, FrontNumbers, ExportCells
<1>15. v.envelopes \in Seq(Envelopes)
  BY DEF WholeVaults
<1>16. EnvGroups(v.envelopes) \in Seq(Typed(EnvFields)) /\ Rows(EnvFields, EnvGroups(v.envelopes)) = t
  BY <1>13, <1>15, EnvRows
<1>17. ToBytes(v) = Enc(VaultHead, g) \o t
  BY <1>5, <1>7, <1>10, <1>11, <1>12, <1>14 DEF JoinedSo
<1>18. QED
  BY <1>5, <1>6, <1>16, <1>17

\* Two of the values
LEMMA SubPair ==
    ASSUME NEW V, NEW s \in Seq(V), NEW a \in Nat \ {0}, NEW b \in Nat, b = a + 1, b =< Len(s)
    PROVE  \A T : \A f \in [1 .. 2 -> T] : f[1] = s[a] /\ f[2] = s[b] => SubSeq(s, a, b) = f
<1> SUFFICES ASSUME NEW T, NEW f \in [1 .. 2 -> T], f[1] = s[a], f[2] = s[b]
             PROVE  SubSeq(s, a, b) = f
  OBVIOUS
<1>1. PICK n \in Nat : n = Len(s)
  BY LenProperties
<1>2. \A i \in a .. b : s[i] \in V
  BY <1>1, ElementOfSeq
<1>3. PICK u : u = SubSeq(s, a, b)
  OBVIOUS
<1>4. /\ u \in Seq(V) /\ Len(u) = IF a =< b THEN b - a + 1 ELSE 0
      /\ \A i \in 1 .. b - a + 1 : u[i] = s[a + i - 1]
  BY <1>2, <1>3, SubSeqProperties
<1>5. Len(u) = 2 /\ u[1] = s[a] /\ u[2] = s[b]
  BY <1>4
<1>6. u \in [1 .. 2 -> V]
  BY <1>4, <1>5, LenProperties
<1>7. \A i \in 1 .. 2 : u[i] = f[i]
  BY <1>5
<1>8. DOMAIN u = 1 .. 2 /\ DOMAIN f = 1 .. 2
  BY <1>6
<1>9. u = f
  BY <1>6, <1>7
<1>10. QED
  BY <1>3, <1>9

\* Where a vault's fields stand among the values of its head
HeadHolds(g, v, p, q) ==
    /\ g \in Seq(Values) /\ Len(g) = 19
    /\ g[1] = v.version /\ g[2] = v.kdfId /\ g[6] = v.salt
    /\ g[3] = v.kdf[1] /\ g[4] = v.kdf[2] /\ g[5] = v.kdf[3]
    /\ g[7] = v.probe[1] /\ g[8] = v.probe[2] /\ g[9] = v.probe[3]
    /\ g[10] = v.blobs[1] /\ g[11] = v.blobs[2]
    /\ g[12] = v.lockout[1] /\ g[13] = v.lockout[2] /\ g[14] = v.lockout[3]
    /\ g[15] = p /\ g[16] = q /\ g[17] = v.index.nonce
    /\ g[18] = v.index.ct /\ g[19] = Len(v.envelopes)

\* The head of a vault holds its fields.
LEMMA HeadOfWhole ==
    ASSUME NEW v \in WholeVaults, NEW p, NEW q, ExportAre(v, p, q)
    PROVE  HeadHolds(HeadValsOf(v), v, p, q)
<1>1. WholeHead(v)
  BY WholeHeads
<1>2. NineAre(FrontNumbers(v), v.version, v.kdfId, v.kdf, v.salt, v.probe)
  BY WholeNumbers
<1>3. TailAre(BackNumbers(v), v.lockout, p, q, v.index.nonce)
  BY WholeNumbers
<1>4. PICK s \in Bytes, u \in Bytes, ct \in Bytes, n \in Nat :
         /\ s = FrontNumbers(v) /\ u = BackNumbers(v) /\ ct = v.index.ct /\ n = Len(v.envelopes)
         /\ Len(s) = 9 /\ Len(u) = 6
  BY <1>1 DEF WholeHead
<1>5. PICK b : b = <<v.blobs[1], v.blobs[2]>>
  OBVIOUS
<1>6. b \in Seq(Values) /\ Len(b) = 2 /\ b[1] = v.blobs[1] /\ b[2] = v.blobs[2]
  BY <1>1, <1>5 DEF WholeHead, Values
<1>7. ct \in Values
  BY DEF Values
<1>8. PICK g : g = HeadVals(s, b, u, ct, n)
  OBVIOUS
<1>9. HeadAre(HeadVals(s, b, u, ct, n), s, b, u, ct, n)
  BY <1>4, <1>6, <1>7, HeadPlaces
<1>10. g \in Seq(Values) /\ Len(g) = 19 /\ \A i \in 1 .. 9 : g[i] = s[i]
  BY <1>8, <1>9 DEF HeadAre
<1>11. /\ g[10] = b[1] /\ g[11] = b[2]
       /\ g[12] = u[1] /\ g[13] = u[2] /\ g[14] = u[3] /\ g[15] = u[4] /\ g[16] = u[5] /\ g[17] = u[6]
       /\ g[18] = ct /\ g[19] = n
  BY <1>8, <1>9 DEF HeadAre
<1>12. /\ g[1] = v.version /\ g[2] = v.kdfId /\ g[6] = v.salt
       /\ g[3] = v.kdf[1] /\ g[4] = v.kdf[2] /\ g[5] = v.kdf[3]
       /\ g[7] = v.probe[1] /\ g[8] = v.probe[2] /\ g[9] = v.probe[3]
  <2>1. /\ s[1] = v.version /\ s[2] = v.kdfId /\ s[6] = v.salt
        /\ s[3] = v.kdf[1] /\ s[4] = v.kdf[2] /\ s[5] = v.kdf[3]
        /\ s[7] = v.probe[1] /\ s[8] = v.probe[2] /\ s[9] = v.probe[3]
    BY <1>2, <1>4 DEF NineAre
  <2>2. g[1] = s[1] /\ g[2] = s[2] /\ g[3] = s[3] /\ g[4] = s[4] /\ g[5] = s[5]
    BY <1>10
  <2>3. g[6] = s[6] /\ g[7] = s[7] /\ g[8] = s[8] /\ g[9] = s[9]
    BY <1>10
  <2>4. QED
    BY <2>1, <2>2, <2>3
<1>13. /\ g[12] = v.lockout[1] /\ g[13] = v.lockout[2] /\ g[14] = v.lockout[3]
       /\ g[15] = p /\ g[16] = q /\ g[17] = v.index.nonce
  BY <1>3, <1>4, <1>11 DEF TailAre
<1>14. g = HeadValsOf(v)
  BY <1>4, <1>5, <1>8 DEF HeadValsOf
<1>15. g[10] = v.blobs[1] /\ g[11] = v.blobs[2] /\ g[18] = v.index.ct /\ g[19] = Len(v.envelopes)
  BY <1>4, <1>6, <1>11
<1>16. HeadHolds(g, v, p, q)
  BY <1>10, <1>12, <1>13, <1>15 DEF HeadHolds
<1>17. QED
  BY <1>14, <1>16

\* Values that hold a vault are parsed as that vault.
LEMMA VaultParsedOf ==
    ASSUME NEW v \in WholeVaults, NEW p, NEW q, ExportAre(v, p, q), NEW g, HeadHolds(g, v, p, q),
           NEW gs, gs = EnvGroups(v.envelopes)
    PROVE  VaultParsed(g, gs) = v
<1>1. g \in Seq(Values) /\ Len(g) = 19
  BY DEF HeadHolds
<1>2. SubSeq(g, 3, 5) = v.kdf
  <2>1. PICK a \in Nat \ {0}, b \in Nat, f \in [1 .. 3 -> Nat] : a = 3 /\ b = 5 /\ f = v.kdf
    BY DEF WholeVaults
  <2>2. b = a + 2 /\ b =< Len(g) /\ g[a] = f[1] /\ g[a + 1] = f[2] /\ g[b] = f[3]
    BY <2>1 DEF HeadHolds
  <2>3. SubSeq(g, a, b) = f
    BY <1>1, <2>2, SameTriple
  <2>4. QED
    BY <2>1, <2>3
<1>3. SubSeq(g, 7, 9) = v.probe
  <2>1. PICK a \in Nat \ {0}, b \in Nat, f \in [1 .. 3 -> Nat] : a = 7 /\ b = 9 /\ f = v.probe
    BY DEF WholeVaults
  <2>2. b = a + 2 /\ b =< Len(g) /\ g[a] = f[1] /\ g[a + 1] = f[2] /\ g[b] = f[3]
    BY <2>1 DEF HeadHolds
  <2>3. SubSeq(g, a, b) = f
    BY <1>1, <2>2, SameTriple
  <2>4. QED
    BY <2>1, <2>3
<1>4. SubSeq(g, 12, 14) = v.lockout
  <2>1. PICK a \in Nat \ {0}, b \in Nat, f \in [1 .. 3 -> Nat] : a = 12 /\ b = 14 /\ f = v.lockout
    BY DEF WholeVaults
  <2>2. b = a + 2 /\ b =< Len(g) /\ g[a] = f[1] /\ g[a + 1] = f[2] /\ g[b] = f[3]
    BY <2>1 DEF HeadHolds
  <2>3. SubSeq(g, a, b) = f
    BY <1>1, <2>2, SameTriple
  <2>4. QED
    BY <2>1, <2>3
<1>5. SubSeq(g, 10, 11) = v.blobs
  <2>1. PICK a \in Nat \ {0}, b \in Nat, f \in [1 .. 2 -> Fitting] : a = 10 /\ b = 11 /\ f = v.blobs
    BY DEF WholeVaults
  <2>2. b = a + 1 /\ b =< Len(g) /\ g[a] = f[1] /\ g[b] = f[2]
    BY <2>1 DEF HeadHolds
  <2>3. SubSeq(g, a, b) = f
    BY <1>1, <2>2, SubPair
  <2>4. QED
    BY <2>1, <2>3
<1>6. (IF g[15] = 0 THEN <<>> ELSE <<g[16]>>) = v.exported
  BY DEF HeadHolds, ExportAre
<1>7. [id |-> 0, nonce |-> g[17], ct |-> g[18]] = v.index
  <2>1. v.index \in [id : {0}, nonce : Nat, ct : Bytes]
    BY DEF WholeVaults
  <2>2. v.index = [id |-> 0, nonce |-> v.index.nonce, ct |-> v.index.ct]
    BY <2>1
  <2>3. QED
    BY <2>2 DEF HeadHolds
<1>8. [i \in 1 .. Len(gs) |-> [id |-> gs[i][1], nonce |-> gs[i][2], ct |-> gs[i][3]]] = v.envelopes
  <2>1. v.envelopes \in Seq(Envelopes)
    BY DEF WholeVaults
  <2>2. QED
    BY <2>1, EnvRows, ZenonT(60)
<1>9. g[1] = v.version /\ g[2] = v.kdfId /\ g[6] = v.salt
  BY DEF HeadHolds
<1>10. v = [version |-> v.version, kdfId |-> v.kdfId, kdf |-> v.kdf, salt |-> v.salt,
            probe |-> v.probe, blobs |-> v.blobs, lockout |-> v.lockout,
            exported |-> v.exported, index |-> v.index, envelopes |-> v.envelopes]
  BY DEF WholeVaults
<1>11. QED
  BY <1>2, <1>3, <1>4, <1>5, <1>6, <1>7, <1>8, <1>9, <1>10 DEF VaultParsed

\* A vault that is written is read back.
LEMMA VaultBack ==
    ASSUME NEW v \in WholeVaults
    PROVE  ToBytes(v) \in Bytes /\ FromBytes(ToBytes(v)) = v
<1>1. PICK p \in {0, 1}, q \in Nat : ExportAre(v, p, q)
  BY ExportPair
<1>2. PICK g : g = HeadValsOf(v)
  OBVIOUS
<1>3. PICK gs : gs = EnvGroups(v.envelopes)
  OBVIOUS
<1>4. HeadHolds(g, v, p, q)
  BY <1>1, <1>2, HeadOfWhole
<1>5. v.version \in {1, 2} /\ v.kdfId = 0
  BY DEF WholeVaults
<1>6. g[1] \in {1, 2} /\ g[2] = 0 /\ g[15] \in {0, 1} /\ g[19] = Len(v.envelopes)
  BY <1>1, <1>4, <1>5 DEF HeadHolds
<1>7. Len(gs) = Len(v.envelopes)
  <2>1. v.envelopes \in Seq(Envelopes)
    BY DEF WholeVaults
  <2>2. QED
    BY <1>3, <2>1, EnvRows
<1>8. /\ g \in Typed(VaultHead) /\ gs \in Seq(Typed(EnvFields))
      /\ ToBytes(v) = Enc(VaultHead, g) \o Rows(EnvFields, gs)
  BY <1>2, <1>3, ToBytesOf
<1>9. Accepted(ToBytes(v), g, gs)
  BY <1>6, <1>7, <1>8 DEF Accepted
<1>10. VaultParsed(g, gs) = v
  BY <1>1, <1>3, <1>4, VaultParsedOf
<1>11. ToBytes(v) \in Bytes /\ FromBytes(ToBytes(v)) = VaultParsed(g, gs)
  BY <1>9, FromBack
<1>12. QED
  BY <1>10, <1>11

\* Groups of an envelope's fields are envelopes.
EnvsOf(gs) == [i \in 1 .. Len(gs) |-> [id |-> gs[i][1], nonce |-> gs[i][2], ct |-> gs[i][3]]]

\* They are typed, and are made of those groups again.
LEMMA EnvTyped ==
    ASSUME NEW gs \in Seq(Typed(EnvFields))
    PROVE  EnvsOf(gs) \in Seq(Envelopes) /\ Len(EnvsOf(gs)) = Len(gs) /\ EnvGroups(EnvsOf(gs)) = gs
<1>1. PICK n \in Nat : n = Len(gs)
  BY LenProperties
<1>2. PICK es : es = EnvsOf(gs)
  OBVIOUS
<1>3. es = [i \in 1 .. n |-> [id |-> gs[i][1], nonce |-> gs[i][2], ct |-> gs[i][3]]]
  BY <1>1, <1>2 DEF EnvsOf
<1>4. \A i \in 1 .. n : es[i] \in Envelopes /\ EnvVals(es[i]) = gs[i]
  <2>1. ASSUME NEW i \in 1 .. n PROVE es[i] \in Envelopes /\ EnvVals(es[i]) = gs[i]
    <3>1. gs[i] \in Typed(EnvFields)
      BY <1>1, ElementOfSeq
    <3>2. PICK f1 \in Fields, f3 \in Fields : f1 = "cell" /\ f3 = "body"
      BY FieldKinds
    <3>3. gs[i] \in Typed(<<f1, f1, f3>>)
      BY <3>1, <3>2 DEF EnvFields
    <3>4. PICK x1 \in ValueOf(f1), x2 \in ValueOf(f1), x3 \in ValueOf(f3) : gs[i] = <<x1, x2, x3>>
      BY <3>3, ThreeTyped
    <3>5. x1 \in Nat /\ x2 \in Nat /\ x3 \in Bytes
      BY <3>2, FieldKinds
    <3>6. es[i] = [id |-> x1, nonce |-> x2, ct |-> x3]
      BY <1>3, <3>4
    <3>7. QED
      BY <3>4, <3>5, <3>6 DEF Envelopes, EnvVals
  <2>2. QED
    BY <2>1
<1>5. es \in Seq(Envelopes) /\ Len(es) = n /\ DOMAIN es = 1 .. n
  <2>1. es \in [1 .. n -> Envelopes]
    BY <1>3, <1>4
  <2>2. QED
    BY <2>1
<1>6. EnvGroups(es) = gs
  <2>1. EnvGroups(es) = [i \in 1 .. n |-> EnvVals(es[i])]
    BY <1>5 DEF EnvGroups
  <2>2. gs = [i \in 1 .. n |-> gs[i]]
    BY <1>1, LenProperties
  <2>3. QED
    BY <1>4, <2>1, <2>2, Zenon
<1>7. QED
  BY <1>1, <1>2, <1>5, <1>6

\* Joined pieces are as long as the pieces are.
LEMMA SameLengthJoined ==
    ASSUME NEW s \in Bytes, NEW u \in Bytes, NEW w \in Bytes, Len(u) = Len(w),
           NEW c \in Bytes, NEW r \in Bytes
    PROVE  Len(((s \o u) \o c) \o r) = Len(((s \o w) \o c) \o r)
<1>1. PICK x \in Bytes : x = s \o u
  BY JoinThree
<1>2. PICK y \in Bytes : y = s \o w
  BY JoinThree
<1>3. PICK a \in Bytes : a = x \o c
  BY JoinThree
<1>4. PICK b \in Bytes : b = y \o c
  BY JoinThree
<1>5. Len(x) = Len(s) + Len(u) /\ Len(y) = Len(s) + Len(w)
  BY <1>1, <1>2, ConcatProperties DEF Bytes
<1>6. Len(a) = Len(x) + Len(c) /\ Len(b) = Len(y) + Len(c)
  BY <1>3, <1>4, ConcatProperties DEF Bytes
<1>7. Len(a \o r) = Len(a) + Len(r) /\ Len(b \o r) = Len(b) + Len(r)
  BY ConcatProperties DEF Bytes
<1>8. QED
  BY <1>1, <1>2, <1>3, <1>4, <1>5, <1>6, <1>7

\* The parts of an accepted file
FileParts(bytes, v, s, b1, b2, u, ct, gs) ==
    /\ s \in Bytes /\ Len(s) = 9 /\ u \in Bytes /\ Len(u) = 6
    /\ b1 \in Fitting /\ b2 \in Fitting /\ ct \in Bytes /\ gs \in Seq(Typed(EnvFields))
    /\ bytes = Enc(VaultHead, HeadVals(s, <<b1, b2>>, u, ct, Len(gs))) \o Rows(EnvFields, gs)
    /\ s[1] \in {1, 2} /\ s[2] = 0 /\ u[4] \in {0, 1}
    /\ v.version = s[1] /\ v.kdfId = s[2] /\ v.salt = s[6]
    /\ v.kdf \in [1 .. 3 -> Nat] /\ v.probe \in [1 .. 3 -> Nat] /\ v.lockout \in [1 .. 3 -> Nat]
    /\ v.kdf[1] = s[3] /\ v.kdf[2] = s[4] /\ v.kdf[3] = s[5]
    /\ v.probe[1] = s[7] /\ v.probe[2] = s[8] /\ v.probe[3] = s[9]
    /\ v.blobs = <<b1, b2>>
    /\ v.lockout[1] = u[1] /\ v.lockout[2] = u[2] /\ v.lockout[3] = u[3]
    /\ v.exported = (IF u[4] = 0 THEN <<>> ELSE <<u[5]>>)
    /\ v.index = [id |-> 0, nonce |-> u[6], ct |-> ct]
    /\ v.envelopes = EnvsOf(gs)

\* The numbers of the bytes
NumbersIn(s, n) == \A i \in 1 .. n : s[i] \in Nat

\* Bytes are numbers.
LEMMA NumbersAt ==
    ASSUME NEW s \in Bytes, NEW n \in Nat, Len(s) = n
    PROVE  NumbersIn(s, n)
<1>1. \A i \in 1 .. n : s[i] \in Nat
  BY ElementOfSeq DEF Bytes
<1>2. QED
  BY <1>1 DEF NumbersIn

\* Three of the values, which are numbers, as a field of the vault
IsTriple(f, x, y, z) == f \in [1 .. 3 -> Nat] /\ f[1] = x /\ f[2] = y /\ f[3] = z

\* Three values that are numbers are three numbers.
LEMMA FieldTriple ==
    ASSUME NEW g \in Seq(Values), NEW a \in Nat \ {0}, NEW b \in Nat, b = a + 2, b =< Len(g),
           NEW x \in Nat, NEW y \in Nat, NEW z \in Nat, g[a] = x, g[a + 1] = y, g[b] = z
    PROVE  IsTriple(SubSeq(g, a, b), x, y, z)
<1>1. g[a] \in Nat /\ g[a + 1] \in Nat /\ g[b] \in Nat
  OBVIOUS
<1>2. /\ SubSeq(g, a, b) \in [1 .. 3 -> Nat]
      /\ SubSeq(g, a, b)[1] = g[a] /\ SubSeq(g, a, b)[2] = g[a + 1] /\ SubSeq(g, a, b)[3] = g[b]
  BY <1>1, SubTriple, SMTT(30)
<1>3. QED
  BY <1>2 DEF IsTriple

\* An accepted file has such parts.
LEMMA AcceptedDivides ==
    ASSUME NEW bytes, NEW g, NEW gs, Accepted(bytes, g, gs), NEW v, v = VaultParsed(g, gs)
    PROVE  \E s, b1, b2, u, ct : FileParts(bytes, v, s, b1, b2, u, ct, gs)
<1>1. g \in Typed(VaultHead) /\ gs \in Seq(Typed(EnvFields))
  BY DEF Accepted
<1>2. PICK s, b1, b2, u, ct, n : HeadMade(g, s, b1, b2, u, ct, n)
  BY <1>1, HeadTyped
<1>3. /\ s \in Bytes /\ Len(s) = 9 /\ b1 \in Fitting /\ b2 \in Fitting
      /\ u \in Bytes /\ Len(u) = 6 /\ ct \in Bytes /\ n \in Nat
  BY <1>2 DEF HeadMade, Fitting
<1>4. PICK b : b = <<b1, b2>>
  OBVIOUS
<1>5. b \in Seq(Values) /\ Len(b) = 2 /\ b[1] = b1 /\ b[2] = b2
  BY <1>3, <1>4 DEF Fitting, Values
<1>6. g = HeadVals(s, b, u, ct, n)
  BY <1>2, <1>4 DEF HeadMade
<1>7. HeadAre(g, s, b, u, ct, n)
  <2>1. ct \in Values
    BY <1>3 DEF Values
  <2>2. HeadAre(HeadVals(s, b, u, ct, n), s, b, u, ct, n)
    BY <1>3, <1>5, <2>1, HeadPlaces
  <2>3. QED
    BY <1>6, <2>2
<1>8. g \in Seq(Values) /\ Len(g) = 19 /\ \A i \in 1 .. 9 : g[i] = s[i]
  BY <1>7 DEF HeadAre
<1>9. /\ g[1] = s[1] /\ g[2] = s[2] /\ g[3] = s[3] /\ g[4] = s[4] /\ g[5] = s[5]
      /\ g[6] = s[6] /\ g[7] = s[7] /\ g[8] = s[8] /\ g[9] = s[9]
  <2>1. g[1] = s[1] /\ g[2] = s[2] /\ g[3] = s[3] /\ g[4] = s[4] /\ g[5] = s[5]
    BY <1>8
  <2>2. g[6] = s[6] /\ g[7] = s[7] /\ g[8] = s[8] /\ g[9] = s[9]
    BY <1>8
  <2>3. QED
    BY <2>1, <2>2
<1>10. /\ g[10] = b1 /\ g[11] = b2
       /\ g[12] = u[1] /\ g[13] = u[2] /\ g[14] = u[3] /\ g[15] = u[4] /\ g[16] = u[5]
       /\ g[17] = u[6] /\ g[18] = ct /\ g[19] = n
  BY <1>5, <1>7 DEF HeadAre
<1>11. n = Len(gs)
  BY <1>10 DEF Accepted
<1>12. /\ v.kdf \in [1 .. 3 -> Nat]
       /\ v.kdf[1] = s[3] /\ v.kdf[2] = s[4] /\ v.kdf[3] = s[5]
  <2>1. s[3] \in Nat /\ s[4] \in Nat /\ s[5] \in Nat
    <3>1. PICK m \in Nat : m = 9 /\ Len(s) = m
      BY <1>3
    <3>2. NumbersIn(s, m)
      BY <1>3, <3>1, NumbersAt
    <3>3. QED
      BY <3>1, <3>2 DEF NumbersIn
  <2>2. PICK a \in Nat \ {0}, c \in Nat : a = 3 /\ c = 5
    OBVIOUS
  <2>3. c = a + 2 /\ c =< Len(g) /\ g[a] = s[3] /\ g[a + 1] = s[4] /\ g[c] = s[5]
    BY <1>8, <1>9, <2>2
  <2>4. v.kdf = SubSeq(g, a, c)
    BY <2>2 DEF VaultParsed
  <2>5. IsTriple(SubSeq(g, a, c), s[3], s[4], s[5])
    BY <1>8, <2>1, <2>3, FieldTriple
  <2>6. QED
    BY <2>4, <2>5 DEF IsTriple
<1>13. /\ v.probe \in [1 .. 3 -> Nat]
       /\ v.probe[1] = s[7] /\ v.probe[2] = s[8] /\ v.probe[3] = s[9]
  <2>1. s[7] \in Nat /\ s[8] \in Nat /\ s[9] \in Nat
    <3>1. PICK m \in Nat : m = 9 /\ Len(s) = m
      BY <1>3
    <3>2. NumbersIn(s, m)
      BY <1>3, <3>1, NumbersAt
    <3>3. QED
      BY <3>1, <3>2 DEF NumbersIn
  <2>2. PICK a \in Nat \ {0}, c \in Nat : a = 7 /\ c = 9
    OBVIOUS
  <2>3. c = a + 2 /\ c =< Len(g) /\ g[a] = s[7] /\ g[a + 1] = s[8] /\ g[c] = s[9]
    BY <1>8, <1>9, <2>2
  <2>4. v.probe = SubSeq(g, a, c)
    BY <2>2 DEF VaultParsed
  <2>5. IsTriple(SubSeq(g, a, c), s[7], s[8], s[9])
    BY <1>8, <2>1, <2>3, FieldTriple
  <2>6. QED
    BY <2>4, <2>5 DEF IsTriple
<1>14. /\ v.lockout \in [1 .. 3 -> Nat]
       /\ v.lockout[1] = u[1] /\ v.lockout[2] = u[2] /\ v.lockout[3] = u[3]
  <2>1. u[1] \in Nat /\ u[2] \in Nat /\ u[3] \in Nat
    <3>1. PICK m \in Nat : m = 6 /\ Len(u) = m
      BY <1>3
    <3>2. NumbersIn(u, m)
      BY <1>3, <3>1, NumbersAt
    <3>3. QED
      BY <3>1, <3>2 DEF NumbersIn
  <2>2. PICK a \in Nat \ {0}, c \in Nat : a = 12 /\ c = 14
    OBVIOUS
  <2>3. c = a + 2 /\ c =< Len(g) /\ g[a] = u[1] /\ g[a + 1] = u[2] /\ g[c] = u[3]
    BY <1>8, <1>10, <2>2
  <2>4. v.lockout = SubSeq(g, a, c)
    BY <2>2 DEF VaultParsed
  <2>5. IsTriple(SubSeq(g, a, c), u[1], u[2], u[3])
    BY <1>8, <2>1, <2>3, FieldTriple
  <2>6. QED
    BY <2>4, <2>5 DEF IsTriple
<1>15. v.blobs = <<b1, b2>>
  <2>1. PICK a \in Nat \ {0}, c \in Nat : a = 10 /\ c = 11
    OBVIOUS
  <2>2. b \in [1 .. 2 -> Fitting]
    BY <1>3, <1>4
  <2>3. c = a + 1 /\ c =< Len(g) /\ b[1] = g[a] /\ b[2] = g[c]
    BY <1>5, <1>8, <1>10, <2>1
  <2>4. SubSeq(g, a, c) = b
    BY <1>8, <2>2, <2>3, SubPair
  <2>5. v.blobs = SubSeq(g, a, c)
    BY <2>1 DEF VaultParsed
  <2>6. QED
    BY <1>4, <2>4, <2>5
<1>16. v.version = s[1] /\ v.kdfId = s[2] /\ v.salt = s[6]
  BY <1>9 DEF VaultParsed
<1>17. /\ v.exported = (IF u[4] = 0 THEN <<>> ELSE <<u[5]>>)
       /\ v.index = [id |-> 0, nonce |-> u[6], ct |-> ct]
       /\ v.envelopes = EnvsOf(gs)
  BY <1>10 DEF VaultParsed, EnvsOf
<1>18. s[1] \in {1, 2} /\ s[2] = 0 /\ u[4] \in {0, 1}
  BY <1>9, <1>10 DEF Accepted
<1>19. bytes = Enc(VaultHead, HeadVals(s, <<b1, b2>>, u, ct, Len(gs))) \o Rows(EnvFields, gs)
  BY <1>4, <1>6, <1>11 DEF Accepted
<1>20. FileParts(bytes, v, s, b1, b2, u, ct, gs)
  BY <1>1, <1>3, <1>12, <1>13, <1>14, <1>15, <1>16, <1>17, <1>18, <1>19 DEF FileParts
<1>21. QED
  BY <1>20

\* An accepted file is a vault of the right types.
LEMMA DividedWhole ==
    ASSUME NEW bytes, NEW g, NEW gs, NEW v, v = VaultParsed(g, gs), NEW s, NEW b1, NEW b2, NEW u, NEW ct,
           FileParts(bytes, v, s, b1, b2, u, ct, gs)
    PROVE  v \in WholeVaults
<1>1. v = [version |-> v.version, kdfId |-> v.kdfId, kdf |-> v.kdf, salt |-> v.salt,
           probe |-> v.probe, blobs |-> v.blobs, lockout |-> v.lockout,
           exported |-> v.exported, index |-> v.index, envelopes |-> v.envelopes]
  BY DEF VaultParsed
<1>2. s \in Bytes /\ Len(s) = 9 /\ u \in Bytes /\ Len(u) = 6 /\ ct \in Bytes
  BY DEF FileParts
<1>3. s[6] \in Nat
  <2>1. PICK m \in Nat : m = 9 /\ Len(s) = m
    BY <1>2
  <2>2. NumbersIn(s, m)
    BY <1>2, <2>1, NumbersAt
  <2>3. QED
    BY <2>1, <2>2 DEF NumbersIn
<1>4. u[5] \in Nat /\ u[6] \in Nat
  <2>1. PICK m \in Nat : m = 6 /\ Len(u) = m
    BY <1>2
  <2>2. NumbersIn(u, m)
    BY <1>2, <2>1, NumbersAt
  <2>3. QED
    BY <2>1, <2>2 DEF NumbersIn
<1>5. v.version \in {1, 2} /\ v.kdfId \in {0} /\ v.salt \in Nat
  BY <1>3 DEF FileParts
<1>6. v.kdf \in [1 .. 3 -> Nat] /\ v.probe \in [1 .. 3 -> Nat] /\ v.lockout \in [1 .. 3 -> Nat]
  BY DEF FileParts
<1>7. v.blobs \in [1 .. 2 -> Fitting]
  <2>1. b1 \in Fitting /\ b2 \in Fitting /\ v.blobs = <<b1, b2>>
    BY DEF FileParts
  <2>2. QED
    BY <2>1
<1>8. v.exported \in {e \in Bytes : Len(e) =< 1}
  <2>1. PICK x \in Nat : x = u[5]
    BY <1>4
  <2>2. <<>> \in Bytes /\ Len(<<>>) = 0
    BY EmptySeq DEF Bytes
  <2>3. PICK y : y = <<x>>
    OBVIOUS
  <2>4. y \in Bytes /\ Len(y) = 1
    BY <2>3 DEF Bytes
  <2>5. v.exported = <<>> \/ v.exported = y
    BY <2>1, <2>3 DEF FileParts
  <2>6. PICK z : z = <<>>
    OBVIOUS
  <2>7. z \in Bytes /\ Len(z) = 0
    BY <2>2, <2>6
  <2>8. v.exported = z \/ v.exported = y
    BY <2>5, <2>6
  <2>9. QED
    <3>1. PICK e : e = v.exported
      OBVIOUS
    <3>2. Len(e) = 0 \/ Len(e) = 1
      BY <2>4, <2>7, <2>8, <3>1
    <3>3. Len(e) =< 1
      <4>1. PICK k : k = Len(e)
        OBVIOUS
      <4>2. k \in {0, 1}
        BY <3>2, <4>1
      <4>3. k =< 1
        BY <4>2
      <4>4. QED
        BY <4>1, <4>3
    <3>4. e \in Bytes
      BY <2>4, <2>7, <2>8, <3>1
    <3>5. QED
      BY <3>1, <3>3, <3>4
<1>9. v.index \in [id : {0}, nonce : Nat, ct : Bytes]
  BY <1>2, <1>4 DEF FileParts
<1>10. v.envelopes \in Seq(Envelopes)
  <2>1. gs \in Seq(Typed(EnvFields)) /\ v.envelopes = EnvsOf(gs)
    BY DEF FileParts
  <2>2. QED
    BY <2>1, EnvTyped
<1>11. QED
  BY <1>1, <1>5, <1>6, <1>7, <1>8, <1>9, <1>10 DEF WholeVaults

\* Nine numbers are the same sequence.
LEMMA SameNine ==
    ASSUME NEW s \in Bytes, NEW t \in Bytes, Len(s) = 9, Len(t) = 9,
           s[1] = t[1], s[2] = t[2], s[3] = t[3], s[4] = t[4], s[5] = t[5], s[6] = t[6],
           s[7] = t[7], s[8] = t[8], s[9] = t[9]
    PROVE  s = t
<1>1. \A i \in 1 .. 9 : s[i] = t[i]
  OBVIOUS
<1>2. QED
  BY <1>1, SeqEqual DEF Bytes

\* Six numbers are the same sequence.
LEMMA SameSix ==
    ASSUME NEW s \in Bytes, NEW t \in Bytes, Len(s) = 6, Len(t) = 6,
           s[1] = t[1], s[2] = t[2], s[3] = t[3], s[4] = t[4], s[5] = t[5], s[6] = t[6]
    PROVE  s = t
<1>1. \A i \in 1 .. 6 : s[i] = t[i]
  OBVIOUS
<1>2. QED
  BY <1>1, SeqEqual DEF Bytes

\* An accepted file is what its vault is written as, but for the timestamp of a
\* vault that was never exported.
Canonically(v, bytes) ==
    IF v.exported = <<>> THEN Len(ToBytes(v)) = Len(bytes) ELSE ToBytes(v) = bytes

\* An accepted file is canonical.
LEMMA DividedBack ==
    ASSUME NEW bytes, NEW v \in WholeVaults, NEW s, NEW b1, NEW b2, NEW u, NEW ct, NEW gs,
           FileParts(bytes, v, s, b1, b2, u, ct, gs)
    PROVE  Canonically(v, bytes)
<1>1. /\ s \in Bytes /\ Len(s) = 9 /\ u \in Bytes /\ Len(u) = 6
      /\ b1 \in Fitting /\ b2 \in Fitting /\ ct \in Bytes /\ gs \in Seq(Typed(EnvFields))
  BY DEF FileParts
<1>2. PICK p \in {0, 1}, q \in Nat : ExportAre(v, p, q)
  BY ExportPair
<1>3. PICK t : t = FrontNumbers(v)
  OBVIOUS
<1>4. PICK w : w = BackNumbers(v)
  OBVIOUS
<1>5. t = s
  <2>1. NineAre(t, v.version, v.kdfId, v.kdf, v.salt, v.probe)
    BY <1>2, <1>3, WholeNumbers
  <2>2. t \in Bytes /\ Len(t) = 9
    BY <2>1 DEF NineAre
  <2>3. /\ t[1] = s[1] /\ t[2] = s[2] /\ t[3] = s[3] /\ t[4] = s[4] /\ t[5] = s[5]
        /\ t[6] = s[6] /\ t[7] = s[7] /\ t[8] = s[8] /\ t[9] = s[9]
    BY <2>1 DEF NineAre, FileParts
  <2>4. QED
    BY <1>1, <2>2, <2>3, SameNine
<1>6. TailAre(w, v.lockout, p, q, v.index.nonce)
  BY <1>2, <1>4, WholeNumbers
<1>7. w \in Bytes /\ Len(w) = 6
  BY <1>6 DEF TailAre
<1>8. v.blobs[1] = b1 /\ v.blobs[2] = b2 /\ v.index.ct = ct /\ v.index.nonce = u[6]
  BY DEF FileParts
<1>9. EnvGroups(v.envelopes) = gs /\ Len(v.envelopes) = Len(gs)
  <2>1. v.envelopes = EnvsOf(gs)
    BY DEF FileParts
  <2>2. QED
    BY <1>1, <2>1, EnvTyped
<1>10. PICK n \in Nat : n = Len(gs)
  BY <1>1, LenProperties
<1>11. HeadValsOf(v) = HeadVals(s, <<b1, b2>>, w, ct, n)
  BY <1>3, <1>4, <1>5, <1>8, <1>9, <1>10 DEF HeadValsOf
<1>12. PICK rows \in Bytes : rows = Rows(EnvFields, gs)
  BY <1>1, EnvLayout, GroupTypes
<1>13. ToBytes(v) = Enc(VaultHead, HeadVals(s, <<b1, b2>>, w, ct, n)) \o rows
  BY <1>9, <1>11, <1>12, ToBytesOf
<1>14. bytes = Enc(VaultHead, HeadVals(s, <<b1, b2>>, u, ct, n)) \o rows
  BY <1>10, <1>12 DEF FileParts
<1>15. CASE u[4] = 0
  <2>1. v.exported = <<>>
    BY <1>15 DEF FileParts
  <2>2. HeadEncodes(s, b1, b2, u, ct, n) /\ HeadEncodes(s, b1, b2, w, ct, n)
    <3>1. b1 \in Bytes /\ b2 \in Bytes /\ Fits16(b1) /\ Fits16(b2)
      BY <1>1 DEF Fitting
    <3>2. QED
      BY <1>1, <1>7, <1>10, <3>1, HeadBytes
  <2>3. PICK x : x = s \o (Prefixed16(b1) \o Prefixed16(b2))
    OBVIOUS
  <2>4. PICK c : c = Prefixed(ct) \o <<n>>
    OBVIOUS
  <2>5. x \in Bytes /\ c \in Bytes
    <3>1. PICK p1 \in Bytes, p2 \in Bytes, p3 \in Bytes, p4 \in Bytes :
             p1 = Prefixed16(b1) /\ p2 = Prefixed16(b2) /\ p3 = Prefixed(ct) /\ p4 = <<n>>
      <4>1. b1 \in Bytes /\ b2 \in Bytes /\ Fits16(b1) /\ Fits16(b2)
        BY <1>1 DEF Fitting
      <4>2. Prefixed16(b1) \in Bytes /\ Prefixed16(b2) \in Bytes /\ Prefixed(ct) \in Bytes
        BY <1>1, <4>1, PrefixedBytes
      <4>3. <<n>> \in Bytes
        BY DEF Bytes
      <4>4. QED
        BY <4>2, <4>3
    <3>2. PICK p5 \in Bytes : p5 = p1 \o p2
      BY JoinThree
    <3>3. s \o p5 \in Bytes /\ p3 \o p4 \in Bytes
      BY <1>1, JoinThree
    <3>4. QED
      BY <2>3, <2>4, <3>1, <3>2, <3>3
  <2>6. ToBytes(v) = ((x \o w) \o c) \o rows /\ bytes = ((x \o u) \o c) \o rows
    BY <1>13, <1>14, <2>2, <2>3, <2>4 DEF HeadEncodes
  <2>7. Len(((x \o w) \o c) \o rows) = Len(((x \o u) \o c) \o rows)
    BY <1>1, <1>7, <2>5, SameLengthJoined
  <2>8. QED
    BY <2>1, <2>6, <2>7 DEF Canonically
<1>16. CASE u[4] = 1
  <2>1. v.exported = <<u[5]>>
    BY <1>16 DEF FileParts
  <2>2. v.exported # <<>>
    <3>1. PICK e : e = <<u[5]>>
      OBVIOUS
    <3>2. Len(e) = 1
      BY <3>1
    <3>3. Len(<<>>) = 0
      BY EmptySeq
    <3>4. QED
      BY <2>1, <3>1, <3>2, <3>3
  <2>3. p = 1 /\ v.exported = <<q>>
    BY <1>2, <2>2 DEF ExportAre
  <2>4. q = u[5]
    <3>1. <<q>>[1] = q /\ <<u[5]>>[1] = u[5]
      OBVIOUS
    <3>2. QED
      BY <2>1, <2>3, <3>1
  <2>5. /\ w[1] = u[1] /\ w[2] = u[2] /\ w[3] = u[3] /\ w[4] = u[4] /\ w[5] = u[5] /\ w[6] = u[6]
    <3>1. w[4] = u[4] /\ w[5] = u[5] /\ w[6] = u[6]
      BY <1>6, <1>8, <1>16, <2>3, <2>4 DEF TailAre
    <3>2. w[1] = u[1] /\ w[2] = u[2] /\ w[3] = u[3]
      BY <1>6 DEF TailAre, FileParts
    <3>3. QED
      BY <3>1, <3>2
  <2>6. w = u
    BY <1>1, <1>7, <2>5, SameSix
  <2>7. ToBytes(v) = bytes
    BY <1>13, <1>14, <2>6
  <2>8. QED
    BY <2>2, <2>7 DEF Canonically
<1>17. u[4] \in {0, 1}
  BY DEF FileParts
<1>18. QED
  BY <1>15, <1>16, <1>17

\* What from_bytes accepts is a vault, and is what that vault is written as.
LEMMA VaultWhole ==
    ASSUME NEW bytes \in Bytes, FromBytes(bytes) # Refused
    PROVE  FromBytes(bytes) \in WholeVaults /\ Canonically(FromBytes(bytes), bytes)
<1>1. PICK g, gs : Accepted(bytes, g, gs) /\ FromBytes(bytes) = VaultParsed(g, gs)
  BY FromStands
<1>2. PICK v : v = VaultParsed(g, gs)
  OBVIOUS
<1>3. PICK s, b1, b2, u, ct : FileParts(bytes, v, s, b1, b2, u, ct, gs)
  BY <1>1, <1>2, AcceptedDivides
<1>4. v \in WholeVaults
  BY <1>2, <1>3, DividedWhole
<1>5. Canonically(v, bytes)
  BY <1>3, <1>4, DividedBack
<1>6. QED
  BY <1>1, <1>2, <1>4, <1>5

-----------------------------------------------------------------------------
(* A vault document and its seals *)

\* A document whose blobs the file can hold
Writable(d) == IsVault(d) /\ Fits16(d.blobs[1]) /\ Fits16(d.blobs[2])

IndexText(d) == IndexPlaintext(d.version, IndexOf(d.entries))

\* The fields of the vault of a document
DocumentFields(v, d) ==
    /\ v.version = d.version /\ v.kdfId = d.kdfId /\ v.kdf = d.kdf /\ v.salt = d.salt
    /\ v.probe = <<1>> \o <<5, 0>>
    /\ v.index = [id |-> 0, nonce |-> 2, ct |-> Append(IndexText(d), 0)]
    /\ v.envelopes \in Seq(Envelopes) /\ Len(v.envelopes) = Len(d.entries)
    /\ \A i \in 1 .. Len(d.entries) :
           v.envelopes[i] = [id |-> d.entries[i][1], nonce |-> 2 + i,
                             ct |-> Append(EncodeRecord(d.entries[i][3]), 0)]

\* The entries of a document
LEMMA EntriesOf ==
    ASSUME NEW d, IsVault(d)
    PROVE  /\ d.entries \in Seq(Entries) /\ Len(d.entries) \in Nat
           /\ DOMAIN d.entries = 1 .. Len(d.entries)
           /\ \A i \in 1 .. Len(d.entries) :
                  /\ d.entries[i][1] \in Nat /\ d.entries[i][2] \in Nat
                  /\ d.entries[i][3] \in [1 .. 4 -> Seq(Nat)]
                  /\ d.entries[i] = <<d.entries[i][1], d.entries[i][2], d.entries[i][3]>>
           /\ \A i, j \in 1 .. Len(d.entries) : d.entries[i][1] = d.entries[j][1] => i = j
<1>1. d.entries \in Seq(Entries)
  BY DEF IsVault, Entries
<1>2. Len(d.entries) \in Nat /\ DOMAIN d.entries = 1 .. Len(d.entries)
  BY <1>1, LenProperties
<1>3. ASSUME NEW i \in 1 .. Len(d.entries)
      PROVE  /\ d.entries[i][1] \in Nat /\ d.entries[i][2] \in Nat
             /\ d.entries[i][3] \in [1 .. 4 -> Seq(Nat)]
             /\ d.entries[i] = <<d.entries[i][1], d.entries[i][2], d.entries[i][3]>>
  <2>1. PICK e : e = d.entries[i]
    OBVIOUS
  <2>2. e \in Entries
    BY <1>1, <1>2, <2>1, ElementOfSeq
  <2>3. /\ e[1] \in Nat /\ e[2] \in Nat /\ e[3] \in [1 .. 4 -> Seq(Nat)]
        /\ e = <<e[1], e[2], e[3]>>
    BY <2>2 DEF Entries
  <2>4. QED
    BY <2>1, <2>3
<1>4. ASSUME NEW i \in 1 .. Len(d.entries), NEW j \in 1 .. Len(d.entries),
             d.entries[i][1] = d.entries[j][1]
      PROVE  i = j
  <2>1. PICK f : f = [k \in DOMAIN d.entries |-> d.entries[k][1]]
    OBVIOUS
  <2>2. IsInjective(f)
    BY <2>1 DEF IsVault
  <2>3. i \in DOMAIN f /\ j \in DOMAIN f /\ f[i] = f[j]
    BY <1>2, <1>4, <2>1
  <2>4. QED
    BY <2>2, <2>3 DEF IsInjective
<1>5. QED
  BY <1>1, <1>2, <1>3, <1>4

\* The sealed index
LEMMA IndexTexts ==
    ASSUME NEW d, IsVault(d)
    PROVE  IndexText(d) \in Bytes /\ Append(IndexText(d), 0) \in Bytes
<1>1. d.entries \in Seq(Entries) /\ d.version \in {1, 2}
  BY EntriesOf DEF IsVault
<1>2. IndexText(d) \in Bytes
  BY <1>1, IndexBack DEF IndexText
<1>3. Append(IndexText(d), 0) \in Bytes
  BY <1>2, AppendProperties DEF Bytes
<1>4. QED
  BY <1>2, <1>3

\* The vault of a document has the types of a vault.
LEMMA DocumentWhole ==
    ASSUME NEW d, Writable(d)
    PROVE  VaultOf(d) \in WholeVaults /\ DocumentFields(VaultOf(d), d)
<1>1. IsVault(d)
  BY DEF Writable
<1>2. PICK v : v = VaultOf(d)
  OBVIOUS
<1>3. PICK n \in Nat : n = Len(d.entries) /\ DOMAIN d.entries = 1 .. n
  BY <1>1, EntriesOf
<1>4. v = [version |-> d.version, kdfId |-> d.kdfId, kdf |-> d.kdf, salt |-> d.salt,
           probe |-> <<1>> \o <<5, 0>>, blobs |-> d.blobs, lockout |-> d.lockout,
           exported |-> d.exported,
           index |-> [id |-> 0, nonce |-> 2, ct |-> Append(IndexText(d), 0)],
           envelopes |-> [i \in 1 .. n |->
                              [id |-> d.entries[i][1], nonce |-> 2 + i,
                               ct |-> Append(EncodeRecord(d.entries[i][3]), 0)]]]
  <2>1. Append(<<5>>, 0) = <<5, 0>>
    BY AppendTwo
  <2>2. QED
    BY <1>2, <1>3, <2>1
       DEF VaultOf, ProbeSealing, IndexSealing, EntrySealing, Sealing, Envelope, ProbePlaintext,
           IndexText
<1>5. PICK es : es = v.envelopes
  OBVIOUS
<1>6. es = [i \in 1 .. n |-> [id |-> d.entries[i][1], nonce |-> 2 + i,
                             ct |-> Append(EncodeRecord(d.entries[i][3]), 0)]]
  BY <1>4, <1>5
<1>7. \A i \in 1 .. n : es[i] \in Envelopes
  <2>1. ASSUME NEW i \in 1 .. n PROVE es[i] \in Envelopes
    <3>1. d.entries[i][1] \in Nat /\ d.entries[i][3] \in [1 .. 4 -> Seq(Nat)]
      BY <1>1, <1>3, EntriesOf
    <3>2. PICK r \in Bytes : r = EncodeRecord(d.entries[i][3])
      BY <3>1, RecordBack
    <3>3. Append(r, 0) \in Bytes
      BY AppendProperties DEF Bytes
    <3>4. QED
      BY <1>6, <3>1, <3>2, <3>3, SMTT(30) DEF Envelopes
  <2>2. QED
    BY <2>1
<1>8. es \in Seq(Envelopes) /\ Len(es) = n
  <2>1. es \in [1 .. n -> Envelopes]
    BY <1>6, <1>7
  <2>2. QED
    BY <2>1
<1>9. v.probe \in [1 .. 3 -> Nat]
  <2>1. PICK s \in Seq(Nat) : s = <<5, 0>> /\ Len(s) = 2
    <3>1. PICK new : new = <<5, 0>>
      OBVIOUS
    <3>2. new \in Seq(Nat) /\ Len(new) = 2
      BY <3>1
    <3>3. QED
      BY <3>1, <3>2
  <2>2. PICK u : u = <<1>> \o s
    OBVIOUS
  <2>3. u \in Seq(Nat) /\ Len(u) = 3
    BY <2>1, <2>2, OneBefore
  <2>4. u \in [1 .. 3 -> Nat]
    BY <2>3, LenProperties
  <2>5. QED
    BY <1>4, <2>1, <2>2, <2>4
<1>10. d.blobs \in [1 .. 2 -> Fitting]
  <2>1. d.blobs \in [1 .. 2 -> Bytes]
    BY <1>1 DEF IsVault, Bytes
  <2>2. Fits16(d.blobs[1]) /\ Fits16(d.blobs[2])
    BY DEF Writable
  <2>3. \A i \in 1 .. 2 : d.blobs[i] \in Fitting
    BY <2>1, <2>2 DEF Fitting
  <2>4. QED
    BY <2>1, <2>3
<1>11. v.index \in [id : {0}, nonce : Nat, ct : Bytes]
  BY <1>1, <1>4, IndexTexts
<1>12. /\ d.version \in {1, 2} /\ d.kdfId \in {0} /\ d.kdf \in [1 .. 3 -> Nat] /\ d.salt \in Nat
       /\ d.lockout \in [1 .. 3 -> Nat] /\ d.exported \in {e \in Bytes : Len(e) =< 1}
  BY <1>1 DEF IsVault, Bytes
<1>13. v \in WholeVaults
  BY <1>4, <1>5, <1>8, <1>9, <1>10, <1>11, <1>12 DEF WholeVaults
<1>14. DocumentFields(v, d)
  BY <1>3, <1>4, <1>5, <1>6, <1>8 DEF DocumentFields
<1>15. QED
  BY <1>2, <1>13, <1>14

\* Only the index is sealed with the index key.
LEMMA IndexSealed ==
    ASSUME NEW d, NEW v, NEW n, NEW a, NEW c,
           [key |-> IndexKey(v), nonce |-> n, ad |-> a, ct |-> c] \in VaultSeals(d)
    PROVE  a = <<d.version>> /\ c = Append(IndexText(d), 0)
<1>1. PICK x : x = [key |-> IndexKey(v), nonce |-> n, ad |-> a, ct |-> c]
  OBVIOUS
<1>2. x.key[1] = "index"
  BY <1>1 DEF IndexKey
<1>3. x # ProbeSealing(d)
  <2>1. ProbeSealing(d).key[1] = "master"
    BY DEF ProbeSealing, Sealing, MasterKey
  <2>2. QED
    BY <1>2, <2>1
<1>4. \A i \in DOMAIN d.entries : x # EntrySealing(d, i, d.entries[i])
  <2>1. \A i \in DOMAIN d.entries : EntrySealing(d, i, d.entries[i]).key[1] = "entry"
    BY DEF EntrySealing, Sealing, EntryKey
  <2>2. QED
    BY <1>2, <2>1
<1>5. x = IndexSealing(d, d.entries)
  BY <1>1, <1>3, <1>4 DEF VaultSeals
<1>6. QED
  BY <1>1, <1>5 DEF IndexSealing, Sealing, IndexText

\* Only an entry is sealed with its key.
LEMMA EntrySealed ==
    ASSUME NEW d, NEW v, NEW id, NEW n, NEW a, NEW c,
           [key |-> EntryKey(v, id), nonce |-> n, ad |-> a, ct |-> c] \in VaultSeals(d)
    PROVE  \E i \in DOMAIN d.entries :
               d.entries[i][1] = id /\ c = Append(EncodeRecord(d.entries[i][3]), 0)
<1>1. PICK x : x = [key |-> EntryKey(v, id), nonce |-> n, ad |-> a, ct |-> c]
  OBVIOUS
<1>2. x.key[1] = "entry"
  BY <1>1 DEF EntryKey
<1>3. x # ProbeSealing(d)
  <2>1. ProbeSealing(d).key[1] = "master"
    BY DEF ProbeSealing, Sealing, MasterKey
  <2>2. QED
    BY <1>2, <2>1
<1>4. x # IndexSealing(d, d.entries)
  <2>1. IndexSealing(d, d.entries).key[1] = "index"
    BY DEF IndexSealing, Sealing, IndexKey
  <2>2. QED
    BY <1>2, <2>1
<1>5. PICK i \in DOMAIN d.entries : x = EntrySealing(d, i, d.entries[i])
  BY <1>1, <1>3, <1>4 DEF VaultSeals
<1>6. EntryKey(v, id) = EntryKey(d, d.entries[i][1]) /\ c = Append(EncodeRecord(d.entries[i][3]), 0)
  BY <1>1, <1>5 DEF EntrySealing, Sealing
<1>7. d.entries[i][1] = id
  <2>1. EntryKey(v, id)[4] = id /\ EntryKey(d, d.entries[i][1])[4] = d.entries[i][1]
    BY DEF EntryKey
  <2>2. QED
    BY <1>6, <2>1
<1>8. QED
  BY <1>6, <1>7

\* The rows that the index of a document shows
LEMMA RowsShown ==
    ASSUME NEW d, IsVault(d), NEW rows, rows = IndexGroups(d.entries)
    PROVE  /\ DOMAIN rows = 1 .. Len(d.entries) /\ Len(rows) = Len(d.entries)
           /\ \A i \in 1 .. Len(d.entries) : rows[i][1] = d.entries[i][1] /\ rows[i][2] = d.entries[i][2]
<1>1. d.entries \in Seq(Entries) /\ DOMAIN d.entries = 1 .. Len(d.entries) /\ Len(d.entries) \in Nat
  BY EntriesOf
<1>2. rows = [i \in 1 .. Len(d.entries) |-> <<d.entries[i][1], d.entries[i][2]>>]
  BY <1>1 DEF IndexGroups
<1>3. Len(rows) = Len(d.entries)
  BY <1>1, IndexBytes
<1>4. QED
  BY <1>2, <1>3

\* The envelopes of the vault of a document
LEMMA EnvelopesOf ==
    ASSUME NEW v, NEW d, DocumentFields(v, d), NEW i \in 1 .. Len(d.entries)
    PROVE  /\ v.envelopes[i].id = d.entries[i][1] /\ v.envelopes[i].nonce = 2 + i
           /\ v.envelopes[i].ct = Append(EncodeRecord(d.entries[i][3]), 0)
<1>1. PICK e : e = v.envelopes[i]
  OBVIOUS
<1>2. e = [id |-> d.entries[i][1], nonce |-> 2 + i,
           ct |-> Append(EncodeRecord(d.entries[i][3]), 0)]
  BY <1>1 DEF DocumentFields
<1>3. e.id = d.entries[i][1] /\ e.nonce = 2 + i /\ e.ct = Append(EncodeRecord(d.entries[i][3]), 0)
  BY <1>2
<1>4. QED
  BY <1>1, <1>3

\* The index of the vault of a document is opened.
LEMMA IndexOpens ==
    ASSUME NEW d, Writable(d), NEW v, DocumentFields(v, d)
    PROVE  OpenIndex(v, VaultSeals(d)) = IndexGroups(d.entries) /\ IndexGroups(d.entries) # Refused
<1>1. IsVault(d)
  BY DEF Writable
<1>2. PICK text \in Bytes : text = IndexText(d)
  BY <1>1, IndexTexts
<1>3. Sealing(IndexKey(d), 2, <<d.version>>, text) \in VaultSeals(d)
  BY <1>2 DEF VaultSeals, IndexSealing, IndexText
<1>4. Opened(VaultSeals(d), IndexKey(d), 2, <<d.version>>, Append(text, 0)) = text
  BY <1>3, SealOpens
<1>5. IndexKey(v) = IndexKey(d) /\ v.version = d.version
  BY DEF IndexKey, DocumentFields
<1>6. v.index.nonce = 2 /\ v.index.ct = Append(text, 0)
  BY <1>2 DEF DocumentFields
<1>7. PICK rows : rows = IndexGroups(d.entries)
  OBVIOUS
<1>8. IndexRows(v.version, text) = rows /\ rows # Refused
  <2>1. d.entries \in Seq(Entries) /\ d.version \in {1, 2}
    BY <1>1, EntriesOf DEF IsVault
  <2>2. QED
    BY <1>2, <1>5, <1>7, <2>1, IndexBack DEF IndexText
<1>9. text # Refused
  BY NotRefused
<1>10. SameIds(rows, v.envelopes)
  <2>1. PICK n \in Nat : n = Len(d.entries)
    BY <1>1, EntriesOf
  <2>2. PICK es : es = v.envelopes
    OBVIOUS
  <2>3. /\ DOMAIN rows = 1 .. n /\ Len(rows) = n
        /\ \A i \in 1 .. n : rows[i][1] = d.entries[i][1]
    BY <1>1, <1>7, <2>1, RowsShown
  <2>4. es \in Seq(Envelopes) /\ Len(es) = n /\ DOMAIN es = 1 .. n
    BY <2>1, <2>2, LenProperties DEF DocumentFields
  <2>5. \A i \in 1 .. n : es[i].id = d.entries[i][1]
    BY <2>1, <2>2, EnvelopesOf
  <2>6. \A i, j \in 1 .. n : d.entries[i][1] = d.entries[j][1] => i = j
    BY <1>1, <2>1, EntriesOf
  <2>7. IsInjective([i \in DOMAIN rows |-> rows[i][1]])
    BY <2>3, <2>6 DEF IsInjective
  <2>8. IsInjective([i \in DOMAIN es |-> es[i].id])
    BY <2>4, <2>5, <2>6 DEF IsInjective
  <2>9. {rows[i][1] : i \in DOMAIN rows} = {es[i].id : i \in DOMAIN es}
    BY <2>3, <2>4, <2>5
  <2>10. QED
    BY <2>2, <2>3, <2>4, <2>7, <2>8, <2>9 DEF SameIds
<1>11. OpenIndex(v, VaultSeals(d)) = rows
  BY <1>4, <1>5, <1>6, <1>8, <1>9, <1>10 DEF OpenIndex
<1>12. QED
  BY <1>7, <1>8, <1>11

\* Each record of the vault of a document is opened.
LEMMA EntryOpens ==
    ASSUME NEW d, Writable(d), NEW v, DocumentFields(v, d), NEW i \in 1 .. Len(d.entries)
    PROVE  DecryptEntry(v, VaultSeals(d), d.entries[i][1]) = d.entries[i][3]
<1>1. IsVault(d)
  BY DEF Writable
<1>2. PICK n \in Nat : n = Len(d.entries) /\ DOMAIN d.entries = 1 .. n
  BY <1>1, EntriesOf
<1>3. PICK id : id = d.entries[i][1]
  OBVIOUS
<1>4. PICK es : es = v.envelopes
  OBVIOUS
<1>5. DOMAIN es = 1 .. n
  BY <1>2, <1>4, LenProperties DEF DocumentFields
<1>6. \A j \in 1 .. n : es[j].id = d.entries[j][1]
  BY <1>2, <1>4, EnvelopesOf
<1>7. PICK found : found = {j \in DOMAIN es : es[j].id = id}
  OBVIOUS
<1>8. found = {i}
  <2>1. \A j \in 1 .. n : d.entries[j][1] = id => j = i
    BY <1>1, <1>2, <1>3, EntriesOf
  <2>2. QED
    BY <1>2, <1>3, <1>5, <1>6, <1>7, <2>1
<1>9. (CHOOSE k \in found : \A j \in found : k =< j) = i
  <2>1. i \in Nat
    BY <1>2
  <2>2. PICK first : first = CHOOSE k \in found : \A j \in found : k =< j
    OBVIOUS
  <2>3. \E m \in found : \A j \in found : m =< j
    BY <1>8, <2>1
  <2>4. first \in found
    BY <2>2, <2>3
  <2>5. QED
    BY <1>8, <2>2, <2>4
<1>10. PICK text \in Bytes : text = EncodeRecord(d.entries[i][3]) /\ DecodeRecord(text) = d.entries[i][3]
  <2>1. d.entries[i][3] \in [1 .. 4 -> Seq(Nat)]
    BY <1>1, EntriesOf
  <2>2. QED
    BY <2>1, RecordBack
<1>11. es[i].nonce = 2 + i /\ es[i].ct = Append(text, 0)
  BY <1>4, <1>10, EnvelopesOf
<1>12. Sealing(EntryKey(d, id), 2 + i, EntryAD(d, id), text) \in VaultSeals(d)
  BY <1>2, <1>3, <1>10 DEF VaultSeals, EntrySealing
<1>13. Opened(VaultSeals(d), EntryKey(d, id), 2 + i, EntryAD(d, id), Append(text, 0)) = text
  BY <1>12, SealOpens
<1>14. EntryKey(v, id) = EntryKey(d, id) /\ EntryAD(v, id) = EntryAD(d, id)
  BY DEF EntryKey, EntryAD, DocumentFields
<1>15. text # Refused
  BY NotRefused
<1>16. found # {}
  BY <1>8
<1>17. DecryptEntry(v, VaultSeals(d), id) = DecodeRecord(text)
  BY <1>4, <1>7, <1>9, <1>11, <1>13, <1>14, <1>15, <1>16 DEF DecryptEntry
<1>18. QED
  BY <1>3, <1>10, <1>17

\* The vault of a document is opened, and shows its entries.
LEMMA OpenBack ==
    ASSUME NEW d, Writable(d), NEW v, DocumentFields(v, d), v # Refused,
           NEW bytes, FromBytes(bytes) = v
    PROVE  OpenVault(bytes, VaultSeals(d)) = ToSet(d.entries)
<1>1. IsVault(d)
  BY DEF Writable
<1>2. PICK n \in Nat : n = Len(d.entries) /\ DOMAIN d.entries = 1 .. n
  BY <1>1, EntriesOf
<1>3. PICK rows : rows = IndexGroups(d.entries)
  OBVIOUS
<1>4. OpenIndex(v, VaultSeals(d)) = rows /\ rows # Refused
  BY <1>3, IndexOpens
<1>5. WithinLimits(v.kdf)
  BY <1>1 DEF DocumentFields, IsVault
<1>6. ProbeVerified(v, VaultSeals(d))
  <2>1. PICK t \in Bytes : t = <<5>>
    <3>1. <<5>> \in Seq(Nat)
      OBVIOUS
    <3>2. QED
      BY <3>1 DEF Bytes
  <2>2. PICK c \in Bytes : c = <<5, 0>>
    <3>1. <<5, 0>> \in Seq(Nat)
      OBVIOUS
    <3>2. QED
      BY <3>1 DEF Bytes
  <2>3. Append(t, 0) = c
    BY <2>1, <2>2, AppendTwo
  <2>4. Sealing(MasterKey(d), 1, ProbeAD(d), t) \in VaultSeals(d)
    BY <2>1 DEF VaultSeals, ProbeSealing, ProbePlaintext
  <2>5. Opened(VaultSeals(d), MasterKey(d), 1, ProbeAD(d), c) = t
    <3>1. Opened(VaultSeals(d), MasterKey(d), 1, ProbeAD(d), Append(t, 0)) = t
      BY <2>4, SealOpens
    <3>2. QED
      BY <2>3, <3>1
  <2>6. MasterKey(v) = MasterKey(d) /\ ProbeAD(v) = ProbeAD(d)
    BY DEF MasterKey, ProbeAD, DocumentFields
  <2>7. v.probe[1] = 1 /\ Tail(v.probe) = c
    <3>1. PICK one \in Nat : one = 1
      OBVIOUS
    <3>2. PICK p : p = <<one>> \o c
      OBVIOUS
    <3>3. p[1] = one /\ Tail(p) = c
      BY <3>2, OneBefore DEF Bytes
    <3>4. v.probe = p
      BY <2>2, <3>1, <3>2 DEF DocumentFields
    <3>5. QED
      BY <3>1, <3>3, <3>4
  <2>8. QED
    BY <2>1, <2>5, <2>6, <2>7 DEF ProbeVerified, ProbePlaintext
<1>7. /\ DOMAIN rows = 1 .. n
      /\ \A i \in 1 .. n : rows[i][1] = d.entries[i][1] /\ rows[i][2] = d.entries[i][2]
  BY <1>1, <1>2, <1>3, RowsShown
<1>8. \A i \in 1 .. n :
         <<rows[i][1], rows[i][2], DecryptEntry(v, VaultSeals(d), rows[i][1])>> = d.entries[i]
  <2>1. ASSUME NEW i \in 1 .. n
        PROVE  <<rows[i][1], rows[i][2], DecryptEntry(v, VaultSeals(d), rows[i][1])>> = d.entries[i]
    <3>1. DecryptEntry(v, VaultSeals(d), d.entries[i][1]) = d.entries[i][3]
      BY <1>2, EntryOpens
    <3>2. d.entries[i] = <<d.entries[i][1], d.entries[i][2], d.entries[i][3]>>
      BY <1>1, <1>2, EntriesOf
    <3>3. rows[i][1] = d.entries[i][1] /\ rows[i][2] = d.entries[i][2]
      BY <1>7
    <3>4. QED
      BY <3>1, <3>2, <3>3, Zenon
  <2>2. QED
    BY <2>1
<1>9. OpenVault(bytes, VaultSeals(d)) =
         {<<rows[i][1], rows[i][2], DecryptEntry(v, VaultSeals(d), rows[i][1])>> : i \in DOMAIN rows}
  BY <1>4, <1>5, <1>6 DEF OpenVault
<1>10. ToSet(d.entries) = {d.entries[i] : i \in 1 .. n}
  BY <1>2 DEF ToSet
<1>11. QED
  <2>1. PICK m : m = DOMAIN rows
    OBVIOUS
  <2>2. m = 1 .. n
    BY <1>7, <2>1
  <2>3. {<<rows[i][1], rows[i][2], DecryptEntry(v, VaultSeals(d), rows[i][1])>> : i \in m}
            = {d.entries[i] : i \in m}
    BY <1>8, <2>2, Zenon
  <2>4. QED
    BY <1>9, <1>10, <2>1, <2>2, <2>3, Zenon

\* An index that opens is the one that was sealed.
LEMMA IndexWhole ==
    ASSUME NEW d, Writable(d), NEW v \in WholeVaults, OpenIndex(v, VaultSeals(d)) # Refused
    PROVE  /\ OpenIndex(v, VaultSeals(d)) = IndexGroups(d.entries)
           /\ SameIds(IndexGroups(d.entries), v.envelopes)
<1>1. IsVault(d)
  BY DEF Writable
<1>2. PICK plain :
         plain = Opened(VaultSeals(d), IndexKey(v), v.index.nonce, <<v.version>>, v.index.ct)
  OBVIOUS
<1>3. PICK rows : rows = IndexRows(v.version, plain)
  OBVIOUS
<1>4. plain # Refused /\ OpenIndex(v, VaultSeals(d)) = rows /\ SameIds(rows, v.envelopes)
  BY <1>2, <1>3 DEF OpenIndex
<1>5. [key |-> IndexKey(v), nonce |-> v.index.nonce, ad |-> <<v.version>>, ct |-> v.index.ct]
         \in VaultSeals(d)
  BY <1>2, <1>4, OpenedSeal
<1>6. <<v.version>> = <<d.version>> /\ v.index.ct = Append(IndexText(d), 0)
  BY <1>5, IndexSealed
<1>7. v.version = d.version
  <2>1. <<v.version>>[1] = v.version /\ <<d.version>>[1] = d.version
    OBVIOUS
  <2>2. QED
    BY <1>6, <2>1
<1>8. PICK text \in Bytes : text = IndexText(d)
  BY <1>1, IndexTexts
<1>9. plain = text
  <2>1. plain = Front(v.index.ct)
    BY <1>2, <1>4 DEF Opened
  <2>2. Front(Append(text, 0)) = text
    BY FrontOf
  <2>3. QED
    BY <1>6, <1>8, <2>1, <2>2
<1>10. rows = IndexGroups(d.entries)
  <2>1. d.entries \in Seq(Entries) /\ d.version \in {1, 2}
    BY <1>1, EntriesOf DEF IsVault
  <2>2. IndexRows(d.version, IndexText(d)) = IndexGroups(d.entries)
    BY <2>1, IndexBack DEF IndexText
  <2>3. QED
    BY <1>3, <1>7, <1>8, <1>9, <2>2
<1>11. QED
  BY <1>4, <1>10

\* A record that opens is the one that was sealed for its id.
LEMMA EntryWhole ==
    ASSUME NEW d, Writable(d), NEW v, NEW i \in 1 .. Len(d.entries),
           DecryptEntry(v, VaultSeals(d), d.entries[i][1]) # Refused
    PROVE  DecryptEntry(v, VaultSeals(d), d.entries[i][1]) = d.entries[i][3]
<1>1. IsVault(d)
  BY DEF Writable
<1>2. PICK n \in Nat : n = Len(d.entries) /\ DOMAIN d.entries = 1 .. n
  BY <1>1, EntriesOf
<1>3. PICK id : id = d.entries[i][1]
  OBVIOUS
<1>4. PICK found : found = {j \in DOMAIN v.envelopes : v.envelopes[j].id = id}
  OBVIOUS
<1>5. PICK e : e = v.envelopes[CHOOSE k \in found : \A j \in found : k =< j]
  OBVIOUS
<1>6. PICK plain : plain = Opened(VaultSeals(d), EntryKey(v, id), e.nonce, EntryAD(v, id), e.ct)
  BY Zenon
<1>7. plain # Refused /\ DecryptEntry(v, VaultSeals(d), id) = DecodeRecord(plain)
  BY <1>3, <1>4, <1>5, <1>6, ZenonT(60) DEF DecryptEntry
<1>8. [key |-> EntryKey(v, id), nonce |-> e.nonce, ad |-> EntryAD(v, id), ct |-> e.ct]
         \in VaultSeals(d)
  BY <1>6, <1>7, OpenedSeal
<1>9. PICK j \in DOMAIN d.entries :
         d.entries[j][1] = id /\ e.ct = Append(EncodeRecord(d.entries[j][3]), 0)
  BY <1>8, EntrySealed, SMTT(30)
<1>10. j = i
  BY <1>1, <1>2, <1>3, <1>9, EntriesOf
<1>11. PICK text \in Bytes :
          text = EncodeRecord(d.entries[i][3]) /\ DecodeRecord(text) = d.entries[i][3]
  <2>1. d.entries[i][3] \in [1 .. 4 -> Seq(Nat)]
    BY <1>1, EntriesOf
  <2>2. QED
    BY <2>1, RecordBack
<1>12. plain = text
  <2>1. plain = Front(e.ct)
    BY <1>6, <1>7 DEF Opened
  <2>2. Front(Append(text, 0)) = text
    BY FrontOf
  <2>3. QED
    BY <1>9, <1>10, <1>11, <2>1, <2>2
<1>13. QED
  BY <1>3, <1>7, <1>11, <1>12

\* What a vault that opens must show of its document
ShowsDocument(opened, v, d) ==
    /\ {<<e[1], e[2]>> : e \in opened} = {<<e[1], e[2]>> : e \in ToSet(d.entries)}
    /\ Len(v.envelopes) = Len(d.entries)
    /\ {e.id : e \in ToSet(v.envelopes)} = {e[1] : e \in ToSet(d.entries)}
    /\ \A e \in opened : e[3] # Refused => e \in ToSet(d.entries)

\* A vault that opens shows what its document holds.
LEMMA OpenWhole ==
    ASSUME NEW d, Writable(d), NEW bytes, NEW v \in WholeVaults, FromBytes(bytes) = v,
           OpenVault(bytes, VaultSeals(d)) # Refused
    PROVE  ShowsDocument(OpenVault(bytes, VaultSeals(d)), v, d)
<1>1. IsVault(d)
  BY DEF Writable
<1>2. PICK n \in Nat : n = Len(d.entries) /\ DOMAIN d.entries = 1 .. n
  BY <1>1, EntriesOf
<1>3. PICK opened : opened = OpenVault(bytes, VaultSeals(d))
  OBVIOUS
<1>4. PICK rows : rows = OpenIndex(v, VaultSeals(d))
  OBVIOUS
<1>5. rows # Refused
  BY <1>3, <1>4 DEF OpenVault
<1>6. rows = IndexGroups(d.entries) /\ SameIds(rows, v.envelopes)
  BY <1>4, <1>5, IndexWhole
<1>7. /\ DOMAIN rows = 1 .. n /\ Len(rows) = n
      /\ \A i \in 1 .. n : rows[i][1] = d.entries[i][1] /\ rows[i][2] = d.entries[i][2]
  BY <1>1, <1>2, <1>6, RowsShown
<1>8. opened = {<<rows[i][1], rows[i][2], DecryptEntry(v, VaultSeals(d), rows[i][1])>> :
                    i \in DOMAIN rows}
  BY <1>3, <1>4 DEF OpenVault
<1>9. PICK f : f = [i \in 1 .. n |-> DecryptEntry(v, VaultSeals(d), d.entries[i][1])]
  OBVIOUS
<1>10. \A i \in 1 .. n : f[i] # Refused => f[i] = d.entries[i][3]
  <2>1. ASSUME NEW i \in 1 .. n, f[i] # Refused PROVE f[i] = d.entries[i][3]
    <3>1. f[i] = DecryptEntry(v, VaultSeals(d), d.entries[i][1])
      BY <1>9
    <3>2. QED
      BY <1>2, <2>1, <3>1, EntryWhole
  <2>2. QED
    BY <2>1
<1>11. PICK k : /\ opened = {k[i] : i \in 1 .. n}
                /\ \A i \in 1 .. n : k[i] = <<d.entries[i][1], d.entries[i][2], f[i]>>
  <2>1. PICK k : k = [i \in 1 .. n |-> <<d.entries[i][1], d.entries[i][2], f[i]>>]
    OBVIOUS
  <2>2. \A i \in 1 .. n : k[i] = <<d.entries[i][1], d.entries[i][2], f[i]>>
    BY <2>1
  <2>3. \A i \in 1 .. n :
           <<rows[i][1], rows[i][2], DecryptEntry(v, VaultSeals(d), rows[i][1])>> = k[i]
    BY <1>7, <1>9, <2>2
  <2>4. PICK m : m = DOMAIN rows
    OBVIOUS
  <2>5. m = 1 .. n
    BY <1>7, <2>4
  <2>6. {<<rows[i][1], rows[i][2], DecryptEntry(v, VaultSeals(d), rows[i][1])>> : i \in m}
            = {k[i] : i \in m}
    BY <2>3, <2>5, Zenon
  <2>7. opened = {k[i] : i \in 1 .. n}
    BY <1>8, <2>4, <2>5, <2>6, Zenon
  <2>8. QED
    BY <2>2, <2>7
<1>12. ToSet(d.entries) = {d.entries[i] : i \in 1 .. n}
  BY <1>2 DEF ToSet
<1>13. {<<e[1], e[2]>> : e \in opened} = {<<e[1], e[2]>> : e \in ToSet(d.entries)}
  <2>1. \A i \in 1 .. n : <<k[i][1], k[i][2]>> = <<d.entries[i][1], d.entries[i][2]>>
    BY <1>11
  <2>2. {<<e[1], e[2]>> : e \in opened} = {<<k[i][1], k[i][2]>> : i \in 1 .. n}
    BY <1>11
  <2>3. {<<e[1], e[2]>> : e \in ToSet(d.entries)} =
           {<<d.entries[i][1], d.entries[i][2]>> : i \in 1 .. n}
    BY <1>12
  <2>4. {<<k[i][1], k[i][2]>> : i \in 1 .. n} =
           {<<d.entries[i][1], d.entries[i][2]>> : i \in 1 .. n}
    BY <2>1, ZenonT(60)
  <2>5. QED
    BY <2>2, <2>3, <2>4
<1>14. PICK es : es = v.envelopes
  OBVIOUS
<1>15. Len(es) = n /\ DOMAIN es = 1 .. n
  <2>1. Len(es) = n
    BY <1>6, <1>7, <1>14 DEF SameIds
  <2>2. es \in Seq(Envelopes)
    BY <1>14 DEF WholeVaults
  <2>3. QED
    BY <2>1, <2>2, LenProperties
<1>16. {e.id : e \in ToSet(es)} = {e[1] : e \in ToSet(d.entries)}
  <2>1. {rows[i][1] : i \in DOMAIN rows} = {es[i].id : i \in DOMAIN es}
    BY <1>6, <1>14 DEF SameIds
  <2>2. {es[i].id : i \in DOMAIN es} = {e.id : e \in ToSet(es)}
    BY DEF ToSet
  <2>3. {rows[i][1] : i \in DOMAIN rows} = {e[1] : e \in ToSet(d.entries)}
    BY <1>7, <1>12
  <2>4. QED
    BY <2>1, <2>2, <2>3
<1>17. \A e \in opened : e[3] # Refused => e \in ToSet(d.entries)
  <2>1. ASSUME NEW e \in opened, e[3] # Refused PROVE e \in ToSet(d.entries)
    <3>1. PICK i \in 1 .. n : e = <<d.entries[i][1], d.entries[i][2], f[i]>>
      BY <1>11
    <3>2. f[i] = d.entries[i][3]
      BY <1>10, <2>1, <3>1
    <3>3. d.entries[i] = <<d.entries[i][1], d.entries[i][2], d.entries[i][3]>>
      BY <1>1, <1>2, EntriesOf
    <3>4. e = d.entries[i]
      BY <3>1, <3>2, <3>3, Zenon
    <3>5. QED
      BY <1>12, <3>4
  <2>2. QED
    BY <2>1
<1>18. QED
  BY <1>2, <1>3, <1>13, <1>14, <1>15, <1>16, <1>17 DEF ShowsDocument

-----------------------------------------------------------------------------
(* What is written, and what the disk makes of it *)

\* The document is one that its format can hold.
Documented ==
    /\ format \in {"none", "vault", "recovery", "blob"}
    /\ format = "vault" => Writable(document) /\ VaultOf(document) # Refused
    /\ format = "recovery" => IsRecovery(document) /\ Exported(document) # Refused
    /\ format = "blob" => IsBlob(document) /\ BlobBytes(document) # Refused

\* A file that nothing changed is as it was written.
AsWritten ==
    edits = 0 =>
        /\ format = "vault" => file = ToBytes(VaultOf(document))
        /\ format = "recovery" => file = Exported(document)
        /\ format = "blob" => file = BlobBytes(document)

FileInv == file \in Bytes /\ edits \in Nat /\ Documented /\ AsWritten

\* The inductive invariant implies that what is written is read back.
LEMMA InvRoundTrips == FileInv => RoundTrips
<1> SUFFICES ASSUME FileInv, edits = 0 PROVE RoundTrips
  BY DEF RoundTrips
<1>1. format \in {"none", "vault", "recovery", "blob"}
  BY DEF FileInv, Documented
<1>2. CASE format = "none"
  BY <1>2 DEF RoundTrips
<1>3. CASE format = "vault"
  <2>1. Writable(document) /\ VaultOf(document) # Refused /\ file = ToBytes(VaultOf(document))
    BY <1>3 DEF FileInv, Documented, AsWritten
  <2>2. VaultOf(document) \in WholeVaults /\ DocumentFields(VaultOf(document), document)
    BY <2>1, DocumentWhole
  <2>3. FromBytes(file) = VaultOf(document)
    BY <2>1, <2>2, VaultBack
  <2>4. OpenVault(file, VaultSeals(document)) = ToSet(document.entries)
    BY <2>1, <2>2, <2>3, OpenBack
  <2>5. Seals = VaultSeals(document)
    BY <1>3 DEF Seals
  <2>6. QED
    BY <1>3, <2>3, <2>4, <2>5 DEF RoundTrips
<1>4. CASE format = "recovery"
  <2>1. IsRecovery(document) /\ Exported(document) # Refused /\ file = Exported(document)
    BY <1>4 DEF FileInv, Documented, AsWritten
  <2>2. Imported(file, {RecoverySealing(document)}, document.free) =
           [seed |-> document.seed, vaultKdf |-> document.vaultKdf, entries |-> document.entries]
    BY <2>1, RecoveryBack
  <2>3. Seals = {RecoverySealing(document)}
    BY <1>4 DEF Seals
  <2>4. QED
    BY <1>4, <2>2, <2>3 DEF RoundTrips
<1>5. CASE format = "blob"
  <2>1. IsBlob(document) /\ BlobBytes(document) # Refused /\ file = BlobBytes(document)
    BY <1>5 DEF FileInv, Documented, AsWritten
  <2>2. BlobParts(file) = document
    BY <2>1, BlobBack
  <2>3. QED
    BY <1>5, <2>2 DEF RoundTrips
<1>6. QED
  BY <1>1, <1>2, <1>3, <1>4, <1>5

\* The inductive invariant implies that a damaged file is refused or shows what
\* was written.
LEMMA InvWholeOrRefused == FileInv => WholeOrRefused
<1> SUFFICES ASSUME FileInv PROVE WholeOrRefused
  OBVIOUS
<1>1. format \in {"none", "vault", "recovery", "blob"} /\ file \in Bytes
  BY DEF FileInv, Documented
<1>2. CASE format = "none"
  BY <1>2 DEF WholeOrRefused
<1>3. CASE format = "vault"
  <2>1. Writable(document)
    BY <1>3 DEF FileInv, Documented
  <2>2. PICK parsed : parsed = FromBytes(file)
    OBVIOUS
  <2>3. PICK opened : opened = OpenVault(file, VaultSeals(document))
    OBVIOUS
  <2>4. Seals = VaultSeals(document)
    BY <1>3 DEF Seals
  <2>5. ASSUME parsed # Refused
        PROVE  IF parsed.exported = <<>>
               THEN Len(ToBytes(parsed)) = Len(file) ELSE ToBytes(parsed) = file
    BY <1>1, <2>2, <2>5, VaultWhole DEF Canonically
  <2>6. ASSUME opened # Refused
        PROVE  ShowsDocument(opened, parsed, document)
    <3>1. parsed # Refused
      BY <2>2, <2>3, <2>6 DEF OpenVault
    <3>2. parsed \in WholeVaults
      BY <1>1, <2>2, <3>1, VaultWhole
    <3>3. QED
      BY <2>1, <2>2, <2>3, <2>6, <3>2, OpenWhole
  <2>7. QED
    BY <1>3, <2>2, <2>3, <2>4, <2>5, <2>6 DEF WholeOrRefused, ShowsDocument
<1>4. CASE format = "recovery"
  <2>1. IsRecovery(document) /\ Exported(document) # Refused
    BY <1>4 DEF FileInv, Documented
  <2>2. Imported(file, {RecoverySealing(document)}, 0) # Refused => file = Exported(document)
    BY <1>1, <2>1, RecoveryWhole
  <2>3. Seals = {RecoverySealing(document)}
    BY <1>4 DEF Seals
  <2>4. QED
    BY <1>4, <2>2, <2>3 DEF WholeOrRefused
<1>5. CASE format = "blob"
  <2>1. BlobParts(file) # Refused => BlobBytes(BlobParts(file)) = file
    BY <1>1, BlobWhole
  <2>2. QED
    BY <1>5, <2>1 DEF WholeOrRefused
<1>6. QED
  BY <1>1, <1>2, <1>3, <1>4, <1>5

\* Damage keeps the document.
LEMMA DamageKeeps ==
    ASSUME FileInv, NEW bytes \in Bytes, Damaged(bytes)
    PROVE  FileInv'
<1>1. edits' \in Nat /\ edits' # 0 /\ file' \in Bytes
  BY DEF Damaged, FileInv
<1>2. Documented'
  BY DEF Damaged, FileInv, Documented
<1>3. AsWritten'
  BY <1>1 DEF AsWritten
<1>4. QED
  BY <1>1, <1>2, <1>3 DEF FileInv

\* The invariant holds of an empty disk, and every write and every damage keeps it.
LEMMA FileInvHolds ==
    /\ FileInit => FileInv
    /\ FileInv /\ [FileNext]_fileVars => FileInv'
<1>1. FileInit => FileInv
  <2>1. <<>> \in Bytes
    BY EmptySeq DEF Bytes
  <2>2. QED
    BY <2>1 DEF FileInit, FileInv, Documented, AsWritten
<1>2. ASSUME FileInv, UNCHANGED fileVars PROVE FileInv'
  BY <1>2 DEF FileInv, Documented, AsWritten, fileVars
<1>3. ASSUME FileInv, WriteVault PROVE FileInv'
  <2>1. PICK d \in Vaults :
           /\ \A i \in 1 .. 2 : Fits16(d.blobs[i])
           /\ Written("vault", d, ToBytes(VaultOf(d)))
    BY <1>3 DEF WriteVault
  <2>2. Writable(d) /\ VaultOf(d) # Refused
    BY <2>1, DocumentAssumption DEF Writable
  <2>3. ToBytes(VaultOf(d)) \in Bytes
    BY <2>2, DocumentWhole, VaultBack
  <2>4. format' = "vault" /\ document' = d /\ file' = ToBytes(VaultOf(d)) /\ edits' = edits
    BY <2>1 DEF Written
  <2>5. Documented' /\ AsWritten'
    BY <2>2, <2>4 DEF Documented, AsWritten
  <2>6. QED
    BY <1>3, <2>3, <2>4, <2>5 DEF FileInv
<1>4. ASSUME FileInv, WriteRecovery PROVE FileInv'
  <2>1. PICK d \in Recoveries :
           Exported(d) # Refused /\ Written("recovery", d, Exported(d))
    BY <1>4 DEF WriteRecovery
  <2>2. IsRecovery(d)
    BY DocumentAssumption
  <2>3. Exported(d) \in Bytes
    BY <2>1, <2>2, RecoveryBack
  <2>4. format' = "recovery" /\ document' = d /\ file' = Exported(d) /\ edits' = edits
    BY <2>1 DEF Written
  <2>5. Documented' /\ AsWritten'
    BY <2>1, <2>2, <2>4 DEF Documented, AsWritten
  <2>6. QED
    BY <1>4, <2>3, <2>4, <2>5 DEF FileInv
<1>5. ASSUME FileInv, WriteBlob PROVE FileInv'
  <2>1. PICK d \in Blobs : BlobBytes(d) # Refused /\ Written("blob", d, BlobBytes(d))
    BY <1>5 DEF WriteBlob
  <2>2. IsBlob(d)
    BY DocumentAssumption
  <2>3. BlobBytes(d) \in Bytes
    BY <2>1, <2>2, BlobBack
  <2>4. format' = "blob" /\ document' = d /\ file' = BlobBytes(d) /\ edits' = edits
    BY <2>1 DEF Written
  <2>5. Documented' /\ AsWritten'
    BY <2>1, <2>2, <2>4 DEF Documented, AsWritten
  <2>6. QED
    BY <1>5, <2>3, <2>4, <2>5 DEF FileInv
<1>6. ASSUME FileInv, CutShort PROVE FileInv'
  <2>1. PICK size \in Nat : size = Len(file)
    BY <1>6, LenProperties DEF FileInv, Bytes
  <2>2. PICK n \in 0 .. size - 1 : Damaged(SubSeq(file, 1, n))
    BY <1>6, <2>1 DEF CutShort
  <2>3. SubSeq(file, 1, n) \in Bytes
    <3>1. file \in Bytes /\ n \in Nat /\ n =< Len(file)
      BY <1>6, <2>1, <2>2 DEF FileInv
    <3>2. QED
      BY <3>1, SplitAt
  <2>4. QED
    BY <1>6, <2>2, <2>3, DamageKeeps
<1>7. ASSUME FileInv, Extend PROVE FileInv'
  <2>1. PICK c \in 0 .. 1 : Damaged(Append(file, c))
    BY <1>7 DEF Extend
  <2>2. Append(file, c) \in Bytes
    <3>1. file \in Seq(Nat) /\ c \in Nat
      BY <1>7 DEF FileInv, Bytes
    <3>2. QED
      BY <3>1, AppendProperties DEF Bytes
  <2>3. QED
    BY <1>7, <2>1, <2>2, DamageKeeps
<1>8. ASSUME FileInv, ChangeCell PROVE FileInv'
  <2>1. PICK i \in DOMAIN file, c \in 0 .. MaxCell : Damaged([file EXCEPT ![i] = c])
    BY <1>8 DEF ChangeCell
  <2>2. [file EXCEPT ![i] = c] \in Bytes
    <3>1. file \in Seq(Nat) /\ c \in Nat
      BY <1>8 DEF FileInv, Bytes
    <3>2. QED
      BY <3>1, ExceptSeq DEF Bytes
  <2>3. QED
    BY <1>8, <2>1, <2>2, DamageKeeps
<1>9. ASSUME FileInv, Rearrange PROVE FileInv'
  <2>1. PICK v : v = FromBytes(file)
    OBVIOUS
  <2>2. v # Refused
    BY <1>9, <2>1 DEF Rearrange
  <2>3. v \in WholeVaults
    BY <1>9, <2>1, <2>2, VaultWhole DEF FileInv
  <2>4. PICK es \in Seq(Envelopes) : es = v.envelopes
    BY <2>3 DEF WholeVaults
  <2>5. PICK m \in Nat : m = Len(es)
    BY LenProperties
  <2>6. PICK n \in 0 .. m + 1 :
           \E e \in [1 .. n -> ToSet(es)] : Damaged(ToBytes([v EXCEPT !.envelopes = e]))
    BY <1>9, <2>1, <2>4, <2>5 DEF Rearrange
  <2>7. PICK e \in [1 .. n -> ToSet(es)] : Damaged(ToBytes([v EXCEPT !.envelopes = e]))
    BY <2>6
  <2>8. e \in Seq(Envelopes)
    <3>1. ToSet(es) \subseteq Envelopes
      BY LenProperties, ElementOfSeq DEF ToSet
    <3>2. n \in Nat /\ e \in [1 .. n -> Envelopes]
      BY <3>1
    <3>3. QED
      BY <3>2
  <2>9. [v EXCEPT !.envelopes = e] \in WholeVaults
    BY <2>3, <2>8 DEF WholeVaults
  <2>10. ToBytes([v EXCEPT !.envelopes = e]) \in Bytes
    BY <2>9, VaultBack
  <2>11. QED
    BY <1>9, <2>7, <2>10, DamageKeeps
<1>10. QED
  BY <1>1, <1>2, <1>3, <1>4, <1>5, <1>6, <1>7, <1>8, <1>9 DEF FileNext

\* What was written is read back, of every vault, recovery file and hardware
\* blob: each row and record of a vault of either version with its padding
\* stripped, each entry of a recovery file, both halves of a payload.
THEOREM WrittenIsRead == FileSpec => []RoundTrips
<1>1. FileInit => FileInv
  BY FileInvHolds
<1>2. FileInv /\ [FileNext]_fileVars => FileInv'
  BY FileInvHolds
<1>3. FileInv => RoundTrips
  BY InvRoundTrips
<1>4. QED
  BY <1>1, <1>2, <1>3, PTL DEF FileSpec

\* However the disk cuts, extends, changes or rearranges a file, from_bytes and
\* the opening of its index refuse it or show what was written; no parser passes
\* over a cell of what it accepts.
THEOREM DamagedIsRefused == FileSpec => []WholeOrRefused
<1>1. FileInit => FileInv
  BY FileInvHolds
<1>2. FileInv /\ [FileNext]_fileVars => FileInv'
  BY FileInvHolds
<1>3. FileInv => WholeOrRefused
  BY InvWholeOrRefused
<1>4. QED
  BY <1>1, <1>2, <1>3, PTL DEF FileSpec
=============================================================================
