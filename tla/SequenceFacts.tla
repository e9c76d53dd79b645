---------------------------- MODULE SequenceFacts ----------------------------
(***************************************************************************)
(* Facts about data that no module of this project owns: induction over    *)
(* the natural numbers, stated of sets since the provers take no operator  *)
(* for a parameter; that a function defined by recursion along 0..N is     *)
(* what its definition says; and what FlattenSeq makes of a sequence of    *)
(* sequences that grows at its end.                                        *)
(***************************************************************************)
EXTENDS Integers, Sequences, SequencesExt, SequenceTheorems, WellFoundedInduction, TLAPS

\* A set of naturals that is not empty has a least member.
LEMMA Least ==
  ASSUME NEW T \in SUBSET Nat, T # {}
  PROVE  \E x \in T : \A y \in T : x <= y
<1>1. IsWellFoundedOn({ss \in Nat \X Nat : ss[1] < ss[2]}, Nat)
  BY NatLessThanWellFounded DEF OpToRel
<1>2. \E x \in T : \A y \in T : ~(<<y, x>> \in {ss \in Nat \X Nat : ss[1] < ss[2]})
  BY <1>1, WFMin
<1>3. PICK x \in T : \A y \in T : ~(<<y, x>> \in {ss \in Nat \X Nat : ss[1] < ss[2]})
  BY <1>2
<1>4. ASSUME NEW y \in T PROVE x <= y
  <2>1. x \in Nat /\ y \in Nat
    OBVIOUS
  <2>2. ~(<<y, x>> \in {ss \in Nat \X Nat : ss[1] < ss[2]})
    BY <1>3
  <2>3. ~(y < x)
    BY <2>1, <2>2
  <2> QED  BY <2>1, <2>3
<1> QED  BY <1>4

\* A set that holds 0, and with each number up to N the next, holds them all.
LEMMA Induction ==
  ASSUME NEW N \in Nat, NEW S, 0 \in S, \A n \in 1 .. N : n - 1 \in S => n \in S
  PROVE  \A n \in 0 .. N : n \in S
<1> SUFFICES ASSUME {n \in 0 .. N : n \notin S} # {} PROVE FALSE
  OBVIOUS
<1>1. PICK x \in {n \in 0 .. N : n \notin S} : \A y \in {n \in 0 .. N : n \notin S} : x <= y
  <2>1. {n \in 0 .. N : n \notin S} \in SUBSET Nat
    OBVIOUS
  <2> QED  BY <2>1, Least
<1>2. x \in 1 .. N /\ x - 1 \in 0 .. N
  BY <1>1
<1>3. x - 1 \in S
  BY <1>1, <1>2
<1> QED  BY <1>1, <1>2, <1>3

\* What f is that starts at e and takes the N steps h.
Steps(N, A) == [1 .. N -> [A -> A]]
Follows(f, N, A, e, h) ==
  /\ f \in [0 .. N -> A] /\ f[0] = e
  /\ \A n \in 1 .. N : f[n] = h[n][f[n - 1]]

\* There always is one.
LEMMA Recursion ==
  ASSUME NEW N \in Nat, NEW A, NEW e \in A, NEW h \in Steps(N, A)
  PROVE  \E f : Follows(f, N, A, e, h)
<1> USE DEF Steps, Follows
<1> DEFINE Solves(f, M) == Follows(f, M, A, e, h)
           Solved == {M \in 0 .. N : \E f : Solves(f, M)}
<1>1. 0 \in Solved
  <2>1. Solves([n \in 0 .. 0 |-> e], 0)
    OBVIOUS
  <2> HIDE DEF Solves
  <2> QED  BY <2>1
<1>2. ASSUME NEW n \in 1 .. N, n - 1 \in Solved PROVE n \in Solved
  <2>1. PICK f : Solves(f, n - 1)
    BY <1>2
  <2>2. n - 1 \in 0 .. n - 1 /\ f[n - 1] \in A /\ h[n][f[n - 1]] \in A
    BY <2>1
  <2> DEFINE g == [m \in 0 .. n |-> IF m = n THEN h[n][f[n - 1]] ELSE f[m]]
  <2>3. g \in [0 .. n -> A] /\ g[0] = e
    BY <2>1, <2>2
  <2>4. ASSUME NEW m \in 1 .. n PROVE g[m] = h[m][g[m - 1]]
    <3>1. m - 1 \in 0 .. n /\ m - 1 # n /\ g[m - 1] = f[m - 1]
      OBVIOUS
    <3>2. CASE m = n
      BY <3>1, <3>2
    <3>3. CASE m # n
      <4>1. m \in 1 .. n - 1 /\ g[m] = f[m]
        BY <3>3
      <4> QED  BY <2>1, <3>1, <4>1
    <3> QED  BY <3>2, <3>3
  <2>5. Solves(g, n)
    BY <2>3, <2>4
  <2> HIDE DEF Solves
  <2> QED  BY <2>5
<1>3. \A n \in 0 .. N : n \in Solved
  <2> HIDE DEF Solved
  <2> QED  BY <1>1, <1>2, Induction
<1>4. \E f : Solves(f, N)
  <2>1. N \in Solved
    BY <1>3
  <2> HIDE DEF Solves
  <2> QED  BY <2>1
<1> QED  BY <1>4

-----------------------------------------------------------------------------
(* The ends of a sequence                                                    *)

\* An element that is added is the last, behind all that was there.
LEMMA AppendEnds ==
  ASSUME NEW X, NEW s \in Seq(X), NEW x \in X
  PROVE  Front(Append(s, x)) = s /\ Last(Append(s, x)) = x
<1> DEFINE t == Append(s, x)
<1>1. /\ t \in Seq(X) /\ Len(s) \in Nat /\ Len(t) = Len(s) + 1 /\ t[Len(s) + 1] = x
      /\ \A i \in 1 .. Len(s) : t[i] = s[i] /\ s[i] \in X
  BY AppendProperties, LenProperties, ElementOfSeq
<1> HIDE DEF t
<1>2. Last(t) = x
  BY <1>1 DEF Last
<1>3. Front(t) = SubSeq(t, 1, Len(s))
  BY <1>1 DEF Front
<1>4. \A i \in 1 .. Len(s) : t[i] \in X
  BY <1>1
<1>5. /\ SubSeq(t, 1, Len(s)) \in Seq(X) /\ Len(SubSeq(t, 1, Len(s))) = Len(s)
      /\ \A i \in 1 .. Len(s) : SubSeq(t, 1, Len(s))[i] = t[i]
  BY <1>1, <1>4, SubSeqProperties
<1>6. Front(t) = s
  BY <1>1, <1>3, <1>5, SeqEqual
<1> QED  BY <1>2, <1>6 DEF t

\* It is added to the last of two sequences, or to both as one.
LEMMA ConcatAppend ==
  ASSUME NEW X, NEW s \in Seq(X), NEW t \in Seq(X), NEW x \in X
  PROVE  s \o Append(t, x) = Append(s \o t, x)
<1> DEFINE one == <<x>>
<1>1. one \in Seq(X) /\ Append(t, x) = t \o one /\ s \o t \in Seq(X)
  BY AppendIsConcat, ConcatProperties
<1>2. Append(s \o t, x) = (s \o t) \o one
  BY <1>1, AppendIsConcat
<1> HIDE DEF one
<1>3. (s \o t) \o one = s \o (t \o one)
  BY <1>1, ConcatAssociative
<1> QED  BY <1>1, <1>2, <1>3

\* Longer prefixes add one element.
LEMMA SubSeqAppend ==
  ASSUME NEW X, NEW s \in Seq(X), NEW m \in 1 .. Len(s), NEW n \in m - 1 .. Len(s) - 1
  PROVE  /\ SubSeq(s, m, n) \in Seq(X) /\ s[n + 1] \in X
         /\ SubSeq(s, m, n + 1) = Append(SubSeq(s, m, n), s[n + 1])
<1>1. Len(s) \in Nat /\ \A i \in 1 .. Len(s) : s[i] \in X
  BY LenProperties, ElementOfSeq
<1>2. m \in Int /\ n \in Int /\ n + 1 \in 1 .. Len(s) /\ n + 1 \in Int /\ n \in m - 1 .. Len(s)
  BY <1>1
<1>3. SubSeq(s, m, n) \in Seq(X)
  <2>1. \A i \in m .. n : s[i] \in X
    BY <1>1, <1>2
  <2> QED  BY <1>2, <2>1, SubSeqProperties
<1>4. SubSeq(s, m, n + 1) = SubSeq(s, m, n) \o <<s[n + 1]>>
  <2>1. n + 1 \in m .. Len(s)
    BY <1>1, <1>2
  <2> QED  BY <1>1, <1>2, <2>1, SubSeqRecursiveSecond
<1> QED  BY <1>1, <1>2, <1>3, <1>4, AppendIsConcat

-----------------------------------------------------------------------------
(* FlattenSeq                                                                *)

\* FlattenSeq adds the sequences one by one.
LEMMA Flattening ==
  ASSUME NEW X, NEW seqs \in Seq(Seq(X))
  PROVE  \E f \in [0 .. Len(seqs) -> Seq(X)] :
            /\ f[0] = <<>> /\ FlattenSeq(seqs) = f[Len(seqs)]
            /\ \A n \in 1 .. Len(seqs) : f[n] = f[n - 1] \o seqs[n]
<1> DEFINE N == Len(seqs)
<1>1. N \in Nat /\ \A n \in 1 .. N : seqs[n] \in Seq(X)
  BY LenProperties, ElementOfSeq
<1> HIDE DEF N
<1> DEFINE h == [n \in 1 .. N |-> [x \in Seq(X) |-> x \o seqs[n]]]
<1>2. h \in Steps(N, Seq(X))
  BY <1>1, ConcatProperties DEF Steps
<1>3. PICK g : Follows(g, N, Seq(X), <<>>, h)
  <2> HIDE DEF h
  <2>1. <<>> \in Seq(X)
    BY EmptySeq
  <2> QED  BY <1>1, <1>2, <2>1, Recursion
<1>4. /\ g \in [0 .. N -> Seq(X)] /\ g[0] = <<>>
      /\ \A n \in 1 .. N : g[n] = h[n][g[n - 1]]
  BY <1>3 DEF Follows
<1>5. ASSUME NEW n \in 1 .. N PROVE g[n] = g[n - 1] \o seqs[n] /\ g[n - 1] \in Seq(X)
  <2>1. n - 1 \in 0 .. N
    BY <1>1
  <2>2. g[n] = h[n][g[n - 1]] /\ g[n - 1] \in Seq(X)
    BY <1>4, <2>1
  <2> QED  BY <2>2
<1> HIDE DEF h
<1>6. CASE N = 0
  <2>1. FlattenSeq(seqs) = <<>>
    BY <1>6 DEF FlattenSeq, N
  <2> QED  BY <1>4, <1>5, <1>6, <2>1 DEF N
<1>7. CASE N # 0
  <2> DEFINE P(f) == f = [i \in 1 .. Len(seqs) |-> IF i = 1 THEN seqs[i] ELSE f[i - 1] \o seqs[i]]
             c == CHOOSE f : P(f)
  <2>1. P([i \in 1 .. N |-> g[i]])
    <3>1. ASSUME NEW i \in 1 .. N
          PROVE  g[i] = IF i = 1 THEN seqs[i] ELSE [j \in 1 .. N |-> g[j]][i - 1] \o seqs[i]
      <4>1. CASE i = 1
        <5>1. g[i] = g[0] \o seqs[i]
          <6>1. g[i] = g[i - 1] \o seqs[i]
            BY <1>5
          <6>2. i - 1 = 0
            BY <4>1
          <6> QED  BY <6>1, <6>2
        <5>2. g[0] = <<>> /\ seqs[i] \in Seq(X)
          BY <1>1, <1>4
        <5> QED  BY <4>1, <5>1, <5>2, ConcatEmptySeq
      <4>2. CASE i # 1
        <5>1. i - 1 \in 1 .. N
          BY <1>1, <4>2
        <5> QED  BY <1>5, <4>2, <5>1
      <4> QED  BY <4>1, <4>2
    <3> QED  BY <3>1 DEF N
  <2>2. P(c)
    BY <2>1
  <2>3. FlattenSeq(seqs) = c[N]
    BY Zenon, <1>7 DEF FlattenSeq, N
  <2> HIDE DEF c
  <2>4. \A n \in 1 .. N : c[n] = IF n = 1 THEN seqs[n] ELSE c[n - 1] \o seqs[n]
    BY <2>2 DEF N
  <2> DEFINE f == [n \in 0 .. N |-> IF n = 0 THEN <<>> ELSE c[n]]
             S == {n \in 0 .. N : f[n] = g[n]}
  <2>5. 0 \in S
    BY <1>1, <1>4
  <2>6. ASSUME NEW n \in 1 .. N, n - 1 \in S PROVE n \in S
    <3>1. n \in 0 .. N /\ n - 1 \in 0 .. N /\ f[n - 1] = g[n - 1] /\ f[n] = c[n]
      BY <1>1, <2>6
    <3>2. CASE n = 1
      <4>1. c[n] = seqs[n] /\ g[n] = g[0] \o seqs[n]
        <5>1. g[n] = g[n - 1] \o seqs[n]
          BY <1>5
        <5>2. n - 1 = 0
          BY <3>2
        <5> QED  BY <2>4, <3>2, <5>1, <5>2
      <4>2. g[0] = <<>> /\ seqs[n] \in Seq(X)
        BY <1>1, <1>4
      <4> QED  BY <3>1, <4>1, <4>2, ConcatEmptySeq
    <3>3. CASE n # 1
      <4>1. c[n] = c[n - 1] \o seqs[n]
        BY <2>4, <3>3
      <4>2. n - 1 # 0 /\ f[n - 1] = c[n - 1]
        BY <3>1, <3>3
      <4> QED  BY <1>5, <3>1, <4>1, <4>2
    <3> QED  BY <3>2, <3>3
  <2>7. \A n \in 0 .. N : n \in S
    <3> HIDE DEF S
    <3> QED  BY <1>1, <2>5, <2>6, Induction
  <2>8. c[N] = g[N]
    <3>1. N \in S
      BY <1>1, <2>7
    <3> QED  BY <1>1, <1>7, <3>1
  <2> QED  BY <1>4, <1>5, <2>3, <2>8 DEF N
<1> QED  BY <1>6, <1>7

\* The sequence of their elements.
LEMMA FlattenType ==
  ASSUME NEW X, NEW seqs \in Seq(Seq(X))
  PROVE  FlattenSeq(seqs) \in Seq(X)
<1>1. PICK f \in [0 .. Len(seqs) -> Seq(X)] : FlattenSeq(seqs) = f[Len(seqs)]
  BY Flattening
<1>2. Len(seqs) \in 0 .. Len(seqs)
  BY LenProperties
<1> QED  BY <1>1, <1>2

\* No sequences, no elements.
LEMMA FlattenEmpty == FlattenSeq(<<>>) = <<>>
BY DEF FlattenSeq

\* One more sequence comes last.
LEMMA FlattenAppend ==
  ASSUME NEW X, NEW seqs \in Seq(Seq(X)), NEW s \in Seq(X)
  PROVE  FlattenSeq(Append(seqs, s)) = FlattenSeq(seqs) \o s
<1> DEFINE N == Len(seqs)
           more == Append(seqs, s)
<1>1. /\ more \in Seq(Seq(X)) /\ Len(more) = N + 1 /\ N \in Nat
      /\ \A i \in 1 .. N : more[i] = seqs[i]
      /\ more[N + 1] = s
  BY AppendProperties, LenProperties
<1>2. PICK f \in [0 .. N -> Seq(X)] :
        /\ f[0] = <<>> /\ FlattenSeq(seqs) = f[N]
        /\ \A n \in 1 .. N : f[n] = f[n - 1] \o seqs[n]
  BY Flattening
<1> HIDE DEF more, N
<1>3. PICK g \in [0 .. N + 1 -> Seq(X)] :
        /\ g[0] = <<>> /\ FlattenSeq(more) = g[N + 1]
        /\ \A n \in 1 .. N + 1 : g[n] = g[n - 1] \o more[n]
  <2>1. \E g \in [0 .. Len(more) -> Seq(X)] :
          /\ g[0] = <<>> /\ FlattenSeq(more) = g[Len(more)]
          /\ \A n \in 1 .. Len(more) : g[n] = g[n - 1] \o more[n]
    BY <1>1, Flattening
  <2> QED  BY <1>1, <2>1
<1> DEFINE S == {n \in 0 .. N : f[n] = g[n]}
<1>4. 0 \in S
  BY <1>1, <1>2, <1>3
<1>5. ASSUME NEW n \in 1 .. N, n - 1 \in S PROVE n \in S
  <2>1. n \in 1 .. N + 1 /\ n \in 0 .. N
    BY <1>1
  <2> QED  BY <1>1, <1>2, <1>3, <1>5, <2>1
<1>6. N \in S
  <2>1. \A n \in 0 .. N : n \in S
    <3> HIDE DEF S
    <3> QED  BY <1>1, <1>4, <1>5, Induction
  <2> QED  BY <1>1, <2>1
<1>7. g[N + 1] = g[N] \o more[N + 1]
  <2>1. N + 1 \in 1 .. N + 1 /\ (N + 1) - 1 = N
    BY <1>1
  <2> QED  BY <1>3, <2>1
<1>8. FlattenSeq(more) = FlattenSeq(seqs) \o s
  BY <1>1, <1>2, <1>3, <1>6, <1>7
<1> QED  BY <1>8 DEF more

\* A sequence is what comes before its last element, and that.
LEMMA FrontAndLast ==
  ASSUME NEW X, NEW s \in Seq(X), s # <<>>
  PROVE  Front(s) \in Seq(X) /\ Last(s) \in X /\ s = Append(Front(s), Last(s))
<1>1. PICK t \in Seq(X), x \in X : s = Append(t, x)
  BY SequenceEmptyOrAppend
<1>2. /\ Len(t) \in Nat /\ Len(s) = Len(t) + 1 /\ s[Len(t) + 1] = x
      /\ \A i \in 1 .. Len(t) : s[i] = t[i]
  BY <1>1, AppendProperties, LenProperties
<1>3. Last(s) = x
  BY <1>2 DEF Last
<1>4. Front(s) = t
  <2>1. Front(s) = SubSeq(s, 1, Len(t))
    BY <1>2 DEF Front
  <2>2. \A i \in 1 .. Len(t) : s[i] \in X
    BY <1>2, ElementOfSeq
  <2>3. /\ SubSeq(s, 1, Len(t)) \in Seq(X) /\ Len(SubSeq(s, 1, Len(t))) = Len(t)
        /\ \A i \in 1 .. Len(t) : SubSeq(s, 1, Len(t))[i] = s[i]
    BY <1>2, <2>2, SubSeqProperties
  <2> QED  BY <1>2, <2>1, <2>3, SeqEqual
<1> QED  BY <1>1, <1>3, <1>4

\* One more element of the last sequence comes last.
LEMMA FlattenExtend ==
  ASSUME NEW X, NEW seqs \in Seq(Seq(X)), seqs # <<>>, NEW x \in X
  PROVE  FlattenSeq(Append(Front(seqs), Append(Last(seqs), x))) = Append(FlattenSeq(seqs), x)
<1>1. Front(seqs) \in Seq(Seq(X)) /\ Last(seqs) \in Seq(X) /\ seqs = Append(Front(seqs), Last(seqs))
  BY FrontAndLast
<1> DEFINE f == FlattenSeq(Front(seqs))
           l == Last(seqs)
<1>2. f \in Seq(X) /\ FlattenSeq(seqs) = f \o l /\ f \o l \in Seq(X)
  BY <1>1, FlattenType, FlattenAppend, ConcatProperties
<1>3. l \in Seq(X) /\ <<x>> \in Seq(X)
  BY <1>1
<1>4. FlattenSeq(Append(Front(seqs), Append(l, x))) = f \o Append(l, x)
  <2>1. Append(l, x) \in Seq(X)
    BY <1>3, AppendProperties
  <2> QED  BY <1>1, <2>1, FlattenAppend
<1> HIDE DEF f, l
<1>5. Append(l, x) = l \o <<x>>
  BY <1>3, AppendIsConcat
<1>6. Append(f \o l, x) = (f \o l) \o <<x>>
  BY <1>2, AppendIsConcat
<1>7. (f \o l) \o <<x>> = f \o (l \o <<x>>)
  <2> DEFINE one == <<x>>
  <2>1. one \in Seq(X)
    BY <1>3
  <2> HIDE DEF one
  <2>2. (f \o l) \o one = f \o (l \o one)
    BY <1>2, <1>3, <2>1, ConcatAssociative
  <2> QED  BY <2>2 DEF one
<1> QED  BY <1>2, <1>4, <1>5, <1>6, <1>7 DEF f, l
=============================================================================
