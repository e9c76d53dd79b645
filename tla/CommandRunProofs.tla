-------------------------- MODULE CommandRunProofs --------------------------
(***************************************************************************)
(* What TLAPS proves of CommandRun, for any streams, outputs, pipe and     *)
(* chunk sizes and any number of cancellations.  Where the caller is tells *)
(* how far the child (ChildAt) and the drains (DrainsAt) must be, and each *)
(* of the two is preserved by every step on its own.                       *)
(***************************************************************************)
EXTENDS CommandRun, SequenceFacts, SequenceTheorems, TLAPS

\* Only a gathering or waiting caller has a child that may still run; who has
\* gone past the reaping has a reaped one, unless a second cancellation took
\* it out of there.
ChildAt ==
  /\ caller = "start" <=> status = "none" /\ failure # "unavailable"
  /\ failure = "unavailable" <=> status = "none" /\ caller = "raised"
  /\ caller = "reap" => status \in {"killed", "zombie", "reaped"}
  /\ caller \in {"settle", "returned"} => status = "reaped"
  /\ caller = "raised" /\ failure \notin {"unavailable", "abandoned"} => status = "reaped"
  /\ caller = "raised" /\ failure = "abandoned" => status \in {"killed", "zombie", "reaped"}
  /\ failure = "abandoned" => caller = "raised"

\* No drain has started before the child has, all are done when a call waits
\* for its child, and whoever cleans up has cancelled those that are not.
DrainsAt ==
  \A s \in Stream :
    /\ caller = "start" => drain[s] = "none"
    /\ caller \in {"wait", "returned"} => drain[s] = "done"
    /\ caller \in {"reap", "settle", "raised"} /\ Reading(s) => asked[s]

---------------------------------------------------------------------------
(* Types                                                                     *)

\* No read asks for, and no write adds, a byte the child does not say.
LEMMA Saying ==
  ASSUME TypeOK, NEW s \in Stream
  PROVE  says[s] \in Seq({"x", "lead", "tail", "cr", "nl"}) /\ Len(says[s]) \in Nat
BY CommandRunAssumption, LenProperties DEF TypeOK

LEMMA TypeStep == TypeOK /\ [Next]_vars => TypeOK'
<1> SUFFICES ASSUME TypeOK, [Next]_vars PROVE TypeOK'
  OBVIOUS
<1>1. ASSUME NEW s \in Stream, Write(s) PROVE TypeOK'
  BY <1>1, Saying DEF TypeOK, Write, ends, reader
<1>2. CASE Exit
  BY <1>2 DEF TypeOK, Exit, ends, reader
<1>3. CASE HeirEnds
  BY <1>3 DEF TypeOK, HeirEnds, ends, reader
<1>4. CASE MirrorBreaks
  BY <1>4 DEF TypeOK, MirrorBreaks, ends, child, reader
<1>5. CASE Reap
  BY <1>5 DEF TypeOK, Reap, ends, reader
<1>6. CASE Spawn
  BY <1>6 DEF TypeOK, Spawn
<1>7. CASE SpawnFails
  BY <1>7 DEF TypeOK, SpawnFails, child, reader
<1>8. ASSUME NEW s \in Stream, Drain(s) PROVE TypeOK'
  <2>1. PICK k \in 1 .. Chunk : k <= wrote[s] - read[s] /\ read' = [read EXCEPT ![s] = read[s] + k]
    BY <1>8 DEF Drain
  <2>2. read' \in [Stream -> Nat] /\ \A t \in Stream : read'[t] <= wrote[t]
    BY <2>1, CommandRunAssumption DEF TypeOK
  <2>3. drain' = [drain EXCEPT ![s] = "failed"] \/ drain' = [drain EXCEPT ![s] = "reading"]
    BY <1>8 DEF Drain, Emit
  <2>4. drain' \in [Stream -> {"none", "reading", "done", "failed", "cancelled"}]
    BY <2>3 DEF TypeOK
  <2> QED  BY <1>8, <2>2, <2>4 DEF TypeOK, Drain, ends, child
<1>9. ASSUME NEW s \in Stream, DrainEnd(s) PROVE TypeOK'
  <2>1. drain' = [drain EXCEPT ![s] = "failed"] \/ drain' = [drain EXCEPT ![s] = "done"]
    BY <1>9 DEF DrainEnd, Emit
  <2>2. drain' \in [Stream -> {"none", "reading", "done", "failed", "cancelled"}]
    BY <2>1 DEF TypeOK
  <2> QED  BY <1>9, <2>2 DEF TypeOK, DrainEnd, ends, child
<1>10. ASSUME NEW s \in Stream, DrainCancelled(s) PROVE TypeOK'
  BY <1>10 DEF TypeOK, DrainCancelled, ends, child
<1>11. CASE Gathered
  BY <1>11 DEF TypeOK, Gathered, child, reader
<1>12. ASSUME NEW reason \in {"drain", "cancelled"}, GatherRaises(reason) PROVE TypeOK'
  BY <1>12 DEF TypeOK, GatherRaises, CleanUp, reader
<1>13. CASE CancelGather
  BY <1>13, CommandRunAssumption DEF TypeOK, CancelGather, child, reader
<1>14. CASE CancelWait
  BY <1>14, CommandRunAssumption DEF TypeOK, CancelWait, CleanUp, reader
<1>15. CASE Waited
  BY <1>15 DEF TypeOK, Waited, child, reader
<1>16. CASE Reaped
  BY <1>16 DEF TypeOK, Reaped, child, reader
<1>17. CASE Settled
  BY <1>17 DEF TypeOK, Settled, child, reader
<1>18. CASE CancelReap
  BY <1>18, CommandRunAssumption DEF TypeOK, CancelReap, child, reader
<1>19. CASE CancelSettle
  BY <1>19, CommandRunAssumption DEF TypeOK, CancelSettle, child, reader
<1>20. CASE UNCHANGED vars
  BY <1>20 DEF TypeOK, vars, ends, child, reader
<1> QED
  BY <1>1, <1>2, <1>3, <1>4, <1>5, <1>6, <1>7, <1>8, <1>9, <1>10, <1>11, <1>12, <1>13, <1>14,
     <1>15, <1>16, <1>17, <1>18, <1>19, <1>20
     DEF Next, Child, Drains, Caller, Cancel, Rest

\* Every variable of a call but the text its drains have taken holds what the
\* code puts there, and no drain reads what the child has not written.
THEOREM TypesHold == Spec => []TypeOK
<1>1. Init => TypeOK
  <2> SUFFICES ASSUME Init PROVE TypeOK
    OBVIOUS
  <2>1. \A s \in Stream : Len(says[s]) \in Nat
    BY CommandRunAssumption, LenProperties DEF Init
  <2>2. \A s \in Stream : wrote[s] = 0 /\ read[s] = 0
    BY DEF Init
  <2>3. wrote \in [Stream -> Nat] /\ read \in [Stream -> Nat]
    BY DEF Init
  <2>4. \A s \in Stream : read[s] <= wrote[s] /\ wrote[s] <= Len(says[s])
    BY <2>1, <2>2
  <2>5. says \in [Stream -> Output] /\ asked \in [Stream -> BOOLEAN] /\ cancels \in 0 .. MaxCancel
    BY CommandRunAssumption DEF Init
  <2>6. drain \in [Stream -> {"none", "reading", "done", "failed", "cancelled"}]
    BY DEF Init
  <2> QED  BY <2>3, <2>4, <2>5, <2>6 DEF Init, TypeOK
<1> QED  BY <1>1, TypeStep, PTL DEF Spec

---------------------------------------------------------------------------
(* The child                                                                 *)

LEMMA ChildStep == TypeOK /\ ChildAt /\ [Next]_vars => ChildAt'
<1> SUFFICES ASSUME TypeOK, ChildAt, [Next]_vars PROVE ChildAt'
  OBVIOUS
<1>1. CASE UNCHANGED <<caller, status, failure>>
  BY <1>1 DEF ChildAt
<1>2. CASE Exit
  BY <1>2 DEF TypeOK, ChildAt, Exit, ends
<1>3. CASE Reap
  BY <1>3 DEF TypeOK, ChildAt, Reap, ends
<1>4. CASE Spawn \/ SpawnFails
  BY <1>4 DEF TypeOK, ChildAt, Spawn, SpawnFails, child
<1>5. CASE Gathered \/ Waited
  BY <1>5 DEF TypeOK, ChildAt, Gathered, Waited, child
<1>6. ASSUME NEW reason \in {"drain", "cancelled"}, CleanUp(reason), caller \in {"gather", "wait"}
      PROVE ChildAt'
  BY <1>6 DEF TypeOK, ChildAt, CleanUp
<1>7. CASE CancelGather
  BY <1>7 DEF TypeOK, ChildAt, CancelGather, child
<1>8. CASE Reaped \/ Settled
  BY <1>8 DEF TypeOK, ChildAt, Reaped, Settled, child
<1>9. CASE CancelReap \/ CancelSettle
  BY <1>9 DEF TypeOK, ChildAt, CancelReap, CancelSettle, child
<1>10. CASE HeirEnds \/ MirrorBreaks \/ Drains \/ (\E s \in Stream : Write(s)) \/ UNCHANGED vars
  BY <1>1, <1>10
     DEF HeirEnds, MirrorBreaks, Drains, Drain, DrainEnd, DrainCancelled, Write, vars, ends, child
<1> QED
  BY <1>2, <1>3, <1>4, <1>5, <1>6, <1>7, <1>8, <1>9, <1>10
     DEF Next, Child, Caller, Cancel, Rest, GatherRaises, CancelWait

\* Whatever the child does, whichever drain fails and however often and wherever
\* the call is cancelled, it leaves no child running, and none unreaped unless
\* its cleanup was cancelled.
THEOREM NoChildLeft == Spec => []NoChildIsLeft
<1>1. Init => ChildAt
  BY DEF Init, ChildAt
<1>2. TypeOK /\ ChildAt => NoChildIsLeft
  BY DEF TypeOK, ChildAt, NoChildIsLeft, Ended
<1> QED  BY <1>1, <1>2, ChildStep, TypesHold, PTL DEF Spec

---------------------------------------------------------------------------
(* The drains                                                                *)

LEMMA DrainsStep == TypeOK /\ DrainsAt /\ [Next]_vars => DrainsAt'
<1> SUFFICES ASSUME TypeOK, DrainsAt, [Next]_vars PROVE DrainsAt'
  OBVIOUS
<1>1. CASE UNCHANGED <<caller, drain, asked>>
  BY <1>1 DEF DrainsAt, Reading
<1>2. CASE Spawn \/ SpawnFails
  BY <1>2 DEF TypeOK, DrainsAt, Reading, Spawn, SpawnFails, reader
<1>3. ASSUME NEW s \in Stream, Drain(s) \/ DrainEnd(s) \/ DrainCancelled(s) PROVE DrainsAt'
  <2>1. UNCHANGED <<caller, asked>> /\ Reading(s)
    BY <1>3 DEF Drain, DrainEnd, DrainCancelled, ends
  <2>2. \E to \in {"reading", "done", "failed", "cancelled"} : drain' = [drain EXCEPT ![s] = to]
    BY <1>3 DEF Drain, DrainEnd, DrainCancelled, Emit
  <2> QED  BY <2>1, <2>2 DEF TypeOK, DrainsAt, Reading
<1>4. CASE Gathered \/ Waited
  BY <1>4 DEF TypeOK, DrainsAt, Reading, Gathered, Waited, reader
<1>5. ASSUME NEW reason \in {"drain", "cancelled"}, CleanUp(reason) PROVE DrainsAt'
  BY <1>5 DEF TypeOK, DrainsAt, Reading, CleanUp, reader
<1>6. CASE CancelGather
  BY <1>6 DEF TypeOK, DrainsAt, Reading, CancelGather, reader
<1>7. CASE Reaped \/ Settled \/ CancelReap \/ CancelSettle
  BY <1>7 DEF TypeOK, DrainsAt, Reading, Reaped, Settled, CancelReap, CancelSettle, reader
<1>8. CASE Child \/ HeirEnds \/ MirrorBreaks \/ Reap \/ UNCHANGED vars
  BY <1>1, <1>8 DEF Child, Exit, Write, HeirEnds, MirrorBreaks, Reap, vars, ends, reader
<1> QED
  BY <1>2, <1>3, <1>4, <1>5, <1>6, <1>7, <1>8
     DEF Next, Drains, Caller, Cancel, Rest, GatherRaises, CancelWait

\* A call ends with no drain at work that has not been cancelled, so nothing is
\* written to a mirror the call has closed.
THEOREM SinksLast == Spec => []SinksOutliveDrains
<1>1. Init => DrainsAt
  BY DEF Init, DrainsAt
<1>2. DrainsAt => SinksOutliveDrains
  BY DEF DrainsAt, SinksOutliveDrains, Ended, Reading
<1> QED  BY <1>1, <1>2, DrainsStep, TypesHold, PTL DEF Spec
---------------------------------------------------------------------------
(* Decoding                                                                  *)

Byte == {"x", "lead", "tail", "cr", "nl"}
Char == {"x", "cr", "nl", "wide", "replaced"}
Decoder == [lead : BOOLEAN, out : Seq(Char)]
Fresh(lead) == [lead |-> lead, out |-> <<>>]

\* What a byte adds to the text depends on nothing but the lead byte before it.
LEMMA FedOn ==
  ASSUME NEW d \in Decoder, NEW byte \in Byte
  PROVE  /\ Fed(d, byte) \in Decoder
         /\ \A o \in Seq(Char) : Fed([lead |-> d.lead, out |-> o \o d.out], byte)
              = [lead |-> Fed(d, byte).lead, out |-> o \o Fed(d, byte).out]
<1> DEFINE late == IF d.lead THEN <<"replaced">> ELSE <<>>
           s == d.out
           l == d.lead
<1>1. s \in Seq(Char) /\ l \in BOOLEAN
  BY DEF Decoder
<1>2. late \in Seq(Char)
  <2>1. <<"replaced">> \in Seq(Char) /\ <<>> \in Seq(Char)
    BY DEF Char
  <2> QED  BY <2>1
<1> HIDE DEF late, s, l
<1>3. s \o late \in Seq(Char)
  BY <1>1, <1>2, ConcatProperties
<1>4. ASSUME NEW o \in Seq(Char)
      PROVE  /\ (o \o s) \o late = o \o (s \o late)
             /\ \A c \in Char : /\ Append(o \o s, c) = o \o Append(s, c)
                                /\ Append(o \o (s \o late), c) = o \o Append(s \o late, c)
  <2>1. (o \o s) \o late = o \o (s \o late)
    BY <1>1, <1>2, ConcatAssociative
  <2>2. \A c \in Char : Append(o \o s, c) = o \o Append(s, c)
    <3>1. \A c \in Char : o \o Append(s, c) = Append(o \o s, c)
      BY <1>1, ConcatAppend
    <3> QED  BY <3>1
  <2> DEFINE u == s \o late
  <2>3. u \in Seq(Char)
    BY <1>3
  <2> HIDE DEF u
  <2>4. \A c \in Char : Append(o \o u, c) = o \o Append(u, c)
    <3>1. \A c \in Char : o \o Append(u, c) = Append(o \o u, c)
      BY <2>3, ConcatAppend
    <3> QED  BY <3>1
  <2> QED  BY <2>1, <2>2, <2>4 DEF u
<1>5. \A u \in Seq(Char), c \in Char : Append(u, c) \in Seq(Char)
  BY AppendProperties
<1>6. CASE byte = "lead"
  <2>1. Fed(d, byte) = [lead |-> TRUE, out |-> s \o late]
    BY <1>6 DEF Fed, late, s
  <2>2. \A o \in Seq(Char) :
          Fed([lead |-> d.lead, out |-> o \o d.out], byte) = [lead |-> TRUE, out |-> (o \o s) \o late]
    BY <1>6 DEF Fed, late, s
  <2>3. Fed(d, byte) \in Decoder
    BY <1>3, <2>1 DEF Decoder
  <2>4. ASSUME NEW o \in Seq(Char)
        PROVE  Fed([lead |-> d.lead, out |-> o \o d.out], byte)
                 = [lead |-> TRUE, out |-> o \o (s \o late)]
    <3>1. (o \o s) \o late = o \o (s \o late)
      BY <1>4
    <3> QED  BY Zenon, <2>2, <3>1
  <2>5. Fed(d, byte).lead = TRUE /\ Fed(d, byte).out = s \o late
    BY <2>1
  <2> QED  BY Zenon, <2>3, <2>4, <2>5
<1>7. CASE byte = "tail"
  <2> DEFINE c == IF d.lead THEN "wide" ELSE "replaced"
  <2>1. Fed(d, byte) = [lead |-> FALSE, out |-> Append(s, c)]
    BY <1>7 DEF Fed, s
  <2>2. \A o \in Seq(Char) :
          Fed([lead |-> d.lead, out |-> o \o d.out], byte) = [lead |-> FALSE, out |-> Append(o \o s, c)]
    BY <1>7 DEF Fed, s
  <2>3. c \in Char
    BY DEF Char
  <2> HIDE DEF c
  <2>4. Fed(d, byte) \in Decoder
    BY <1>1, <1>5, <2>1, <2>3 DEF Decoder
  <2>5. ASSUME NEW o \in Seq(Char)
        PROVE  Fed([lead |-> d.lead, out |-> o \o d.out], byte)
                 = [lead |-> FALSE, out |-> o \o Append(s, c)]
    <3>1. Append(o \o s, c) = o \o Append(s, c)
      BY <1>4, <2>3
    <3> QED  BY Zenon, <2>2, <3>1
  <2>6. Fed(d, byte).lead = FALSE /\ Fed(d, byte).out = Append(s, c)
    BY <2>1
  <2> QED  BY Zenon, <2>4, <2>5, <2>6
<1>8. CASE byte \notin {"lead", "tail"}
  <2>1. Fed(d, byte) = [lead |-> FALSE, out |-> Append(s \o late, byte)]
    BY <1>8 DEF Fed, late, s
  <2>2. \A o \in Seq(Char) :
          Fed([lead |-> d.lead, out |-> o \o d.out], byte)
            = [lead |-> FALSE, out |-> Append((o \o s) \o late, byte)]
    BY <1>8 DEF Fed, late, s
  <2>3. byte \in Char
    BY <1>8 DEF Byte, Char
  <2>4. Fed(d, byte) \in Decoder
    BY <1>3, <1>5, <2>1, <2>3 DEF Decoder
  <2>5. ASSUME NEW o \in Seq(Char)
        PROVE  Fed([lead |-> d.lead, out |-> o \o d.out], byte)
                 = [lead |-> FALSE, out |-> o \o Append(s \o late, byte)]
    <3>1. (o \o s) \o late = o \o (s \o late)
          /\ Append(o \o (s \o late), byte) = o \o Append(s \o late, byte)
      BY <1>4, <2>3
    <3> QED  BY Zenon, <2>2, <3>1
  <2>6. Fed(d, byte).lead = FALSE /\ Fed(d, byte).out = Append(s \o late, byte)
    BY <2>1
  <2> QED  BY Zenon, <2>4, <2>5, <2>6
<1> QED  BY <1>6, <1>7, <1>8

\* The recursion of Decoded, as its steps.
LEMMA DecodedFollows ==
  ASSUME NEW lead \in BOOLEAN, NEW x \in Seq(Byte)
  PROVE  \E f : /\ f \in [0 .. Len(x) -> Decoder] /\ f[0] = Fresh(lead)
                /\ \A n \in 1 .. Len(x) : f[n] = Fed(f[n - 1], x[n])
                /\ Decoded(lead, x) = f[Len(x)]
<1> DEFINE N == Len(x)
<1>1. N \in Nat /\ \A n \in 1 .. N : x[n] \in Byte
  BY LenProperties, ElementOfSeq
<1> DEFINE h == [n \in 1 .. N |-> [d \in Decoder |-> Fed(d, x[n])]]
           P(f) == f = [n \in 0 .. Len(x) |->
                     IF n = 0 THEN [lead |-> lead, out |-> <<>>] ELSE Fed(f[n - 1], x[n])]
           c == CHOOSE f : P(f)
<1>2. Decoded(lead, x) = c[N]
  BY Zenon DEF Decoded
<1> HIDE DEF N
<1>3. Fresh(lead) \in Decoder
  BY EmptySeq DEF Fresh, Decoder
<1>4. h \in Steps(N, Decoder)
  BY <1>1, FedOn DEF Steps
<1>5. PICK g : Follows(g, N, Decoder, Fresh(lead), h)
  <2> HIDE DEF h
  <2> QED  BY <1>1, <1>3, <1>4, Recursion
<1>6. /\ g \in [0 .. N -> Decoder] /\ g[0] = Fresh(lead)
      /\ \A n \in 1 .. N : g[n] = Fed(g[n - 1], x[n])
  <2>1. /\ g \in [0 .. N -> Decoder] /\ g[0] = Fresh(lead)
        /\ \A n \in 1 .. N : g[n] = h[n][g[n - 1]]
    BY <1>5 DEF Follows
  <2>2. ASSUME NEW n \in 1 .. N PROVE g[n] = Fed(g[n - 1], x[n])
    <3>1. n - 1 \in 0 .. N
      BY <1>1
    <3> QED  BY <2>1, <3>1
  <2> HIDE DEF h
  <2> QED  BY <2>1, <2>2
<1>7. P(g)
  <2>1. ASSUME NEW n \in 0 .. N, n # 0 PROVE g[n] = Fed(g[n - 1], x[n])
    <3>1. n \in 1 .. N
      BY <1>1, <2>1
    <3> QED  BY <1>6, <3>1
  <2> HIDE DEF h
  <2> QED  BY <1>6, <2>1 DEF N, Fresh
<1>8. P(c)
  <2> HIDE DEF P
  <2> QED  BY <1>7
<1> HIDE DEF c
<1>9. \A n \in 0 .. N : c[n] = g[n]
  <2> DEFINE S == {n \in 0 .. N : c[n] = g[n]}
  <2> HIDE DEF h, P
  <2>1. 0 \in S
    <3>1. 0 \in 0 .. N
      BY <1>1
    <3>2. c[0] = g[0]
      BY <1>1, <1>6, <1>8, <3>1 DEF N, Fresh, P
    <3> QED  BY <3>1, <3>2
  <2>2. ASSUME NEW n \in 1 .. N, n - 1 \in S PROVE n \in S
    <3>1. n \in 0 .. N /\ n # 0 /\ c[n - 1] = g[n - 1]
      BY <1>1, <2>2
    <3>2. c[n] = Fed(c[n - 1], x[n])
      BY <1>8, <3>1 DEF N, P
    <3>3. c[n] = g[n]
      BY <1>6, <3>1, <3>2
    <3> QED  BY <3>1, <3>3
  <2>3. \A n \in 0 .. N : n \in S
    <3> HIDE DEF S
    <3> QED  BY <1>1, <2>1, <2>2, Induction
  <2> QED  BY <2>3
<1>10. Decoded(lead, x) = g[N]
  BY <1>1, <1>2, <1>9
<1> QED  BY <1>6, <1>10 DEF N

\* Decoded takes the bytes one by one.
LEMMA DecodedAppend ==
  ASSUME NEW lead \in BOOLEAN
  PROVE  /\ Decoded(lead, <<>>) = Fresh(lead)
         /\ \A x \in Seq(Byte) : Decoded(lead, x) \in Decoder
         /\ \A x \in Seq(Byte), byte \in Byte :
              Decoded(lead, Append(x, byte)) = Fed(Decoded(lead, x), byte)
<1>1. Decoded(lead, <<>>) = Fresh(lead)
  <2>1. <<>> \in Seq(Byte) /\ Len(<<>>) = 0
    BY EmptySeq
  <2> QED  BY <2>1, DecodedFollows
<1>2. ASSUME NEW x \in Seq(Byte) PROVE Decoded(lead, x) \in Decoder
  <2>1. Len(x) \in 0 .. Len(x)
    BY LenProperties
  <2> QED  BY <2>1, DecodedFollows
<1>3. ASSUME NEW x \in Seq(Byte), NEW byte \in Byte
      PROVE  Decoded(lead, Append(x, byte)) = Fed(Decoded(lead, x), byte)
  <2> DEFINE N == Len(x)
             y == Append(x, byte)
  <2>1. /\ y \in Seq(Byte) /\ Len(y) = N + 1 /\ N \in Nat /\ y[N + 1] = byte
        /\ \A n \in 1 .. N : y[n] = x[n]
    BY AppendProperties, LenProperties
  <2>2. PICK f : /\ f \in [0 .. N -> Decoder] /\ f[0] = Fresh(lead)
                 /\ \A n \in 1 .. N : f[n] = Fed(f[n - 1], x[n])
                 /\ Decoded(lead, x) = f[N]
    BY DecodedFollows
  <2> HIDE DEF y
  <2>3. PICK g : /\ g \in [0 .. Len(y) -> Decoder] /\ g[0] = Fresh(lead)
                 /\ \A n \in 1 .. Len(y) : g[n] = Fed(g[n - 1], y[n])
                 /\ Decoded(lead, y) = g[Len(y)]
    BY <2>1, DecodedFollows
  <2> HIDE DEF N
  <2> DEFINE S == {n \in 0 .. N : f[n] = g[n]}
  <2>4. 0 \in S
    BY <2>1, <2>2, <2>3
  <2>5. ASSUME NEW n \in 1 .. N, n - 1 \in S PROVE n \in S
    <3>1. n \in 1 .. Len(y) /\ n \in 0 .. N /\ y[n] = x[n] /\ f[n - 1] = g[n - 1]
      BY <2>1, <2>5
    <3> QED  BY <2>2, <2>3, <3>1
  <2>6. N \in S
    <3>1. \A n \in 0 .. N : n \in S
      <4> HIDE DEF S
      <4> QED  BY <2>1, <2>4, <2>5, Induction
    <3> QED  BY <2>1, <3>1
  <2>7. g[N + 1] = Fed(g[N], byte)
    <3>1. N + 1 \in 1 .. Len(y) /\ (N + 1) - 1 = N
      BY <2>1
    <3> QED  BY <2>1, <2>3, <3>1
  <2> QED  BY <2>1, <2>2, <2>3, <2>6, <2>7 DEF y
<1> QED  BY <1>1, <1>2, <1>3

\* A read that goes on where the one before stopped, with its lead byte, decodes
\* what both decode as one.
LEMMA DecodedOn ==
  ASSUME NEW x \in Seq(Byte), NEW r \in 0 .. Len(x), NEW k \in 0 .. Len(x) - r
  PROVE  LET d == Decoded(FALSE, SubSeq(x, 1, r))
             more == Decoded(d.lead, SubSeq(x, r + 1, r + k))
         IN /\ d \in Decoder /\ more \in Decoder
            /\ Decoded(FALSE, SubSeq(x, 1, r + k))
                 = [lead |-> more.lead, out |-> d.out \o more.out]
<1> DEFINE d == Decoded(FALSE, SubSeq(x, 1, r))
           More(n) == Decoded(d.lead, SubSeq(x, r + 1, r + n))
           Both(n) == Decoded(FALSE, SubSeq(x, 1, r + n))
<1>1. Len(x) \in Nat /\ r \in Nat /\ k \in Nat /\ r + k <= Len(x) /\ \A n \in 1 .. Len(x) : x[n] \in Byte
  BY LenProperties, ElementOfSeq
<1>2. \A n \in 0 .. k : SubSeq(x, 1, r + n) \in Seq(Byte) /\ SubSeq(x, r + 1, r + n) \in Seq(Byte)
  <2> SUFFICES ASSUME NEW n \in 0 .. k
               PROVE  SubSeq(x, 1, r + n) \in Seq(Byte) /\ SubSeq(x, r + 1, r + n) \in Seq(Byte)
    OBVIOUS
  <2>1. /\ r + n \in Int /\ r + 1 \in Int
        /\ \A i \in 1 .. r + n : x[i] \in Byte
        /\ \A i \in r + 1 .. r + n : x[i] \in Byte
    BY <1>1
  <2> QED  BY <2>1, SubSeqProperties
<1>3. d \in Decoder
  <2>1. SubSeq(x, 1, r) \in Seq(Byte)
    <3>1. 0 \in 0 .. k /\ r + 0 = r
      BY <1>1
    <3> QED  BY <1>2, <3>1
  <2> QED  BY <2>1, DecodedAppend
<1>4. d.lead \in BOOLEAN /\ d.out \in Seq(Char)
  BY <1>3 DEF Decoder
<1> HIDE DEF d
<1>5. \A n \in 0 .. k : More(n) \in Decoder
  BY <1>2, <1>4, DecodedAppend
<1> DEFINE S == {n \in 0 .. k : Both(n) = [lead |-> More(n).lead, out |-> d.out \o More(n).out]}
<1>6. 0 \in S
  <2>1. 0 \in 0 .. k /\ r + 0 = r /\ r < r + 1 /\ r \in Int /\ r + 1 \in Int
    BY <1>1
  <2>2. SubSeq(x, r + 1, r + 0) = <<>>
    BY <2>1, SubSeqEmpty
  <2>3. More(0) = Fresh(d.lead)
    BY <1>4, <2>2, DecodedAppend
  <2>4. Both(0) = d
    BY <2>1 DEF d
  <2>5. d.out \o <<>> = d.out
    BY <1>4, ConcatEmptySeq
  <2>6. d = [lead |-> d.lead, out |-> d.out]
    BY <1>3 DEF Decoder
  <2> HIDE DEF More, Both
  <2>7. Both(0) = [lead |-> More(0).lead, out |-> d.out \o More(0).out]
    <3>1. More(0).lead = d.lead /\ More(0).out = <<>>
      BY <2>3 DEF Fresh
    <3> QED  BY Zenon, <2>4, <2>5, <2>6, <3>1
  <2> QED  BY <2>1, <2>7
<1>7. ASSUME NEW n \in 1 .. k, n - 1 \in S PROVE n \in S
  <2> DEFINE m == r + (n - 1)
  <2>1. /\ n \in 0 .. k /\ n - 1 \in 0 .. k /\ m + 1 = r + n /\ m + 1 \in 1 .. Len(x)
        /\ 1 \in 1 .. Len(x) /\ r + 1 \in 1 .. Len(x)
        /\ m \in 1 - 1 .. Len(x) - 1 /\ m \in (r + 1) - 1 .. Len(x) - 1
    BY <1>1
  <2> HIDE DEF m
  <2>2. /\ SubSeq(x, 1, m + 1) = Append(SubSeq(x, 1, m), x[m + 1])
        /\ SubSeq(x, r + 1, m + 1) = Append(SubSeq(x, r + 1, m), x[m + 1])
    BY <2>1, SubSeqAppend
  <2>3. SubSeq(x, 1, m) \in Seq(Byte) /\ SubSeq(x, r + 1, m) \in Seq(Byte) /\ x[m + 1] \in Byte
    BY <1>1, <1>2, <2>1 DEF m
  <2>4. Both(n) = Fed(Both(n - 1), x[m + 1])
    <3>1. Decoded(FALSE, SubSeq(x, 1, m + 1)) = Fed(Decoded(FALSE, SubSeq(x, 1, m)), x[m + 1])
      BY <2>2, <2>3, DecodedAppend
    <3> QED  BY <2>1, <3>1 DEF m
  <2>5. More(n) = Fed(More(n - 1), x[m + 1])
    <3>1. Decoded(d.lead, SubSeq(x, r + 1, m + 1)) = Fed(Decoded(d.lead, SubSeq(x, r + 1, m)), x[m + 1])
      BY <1>4, <2>2, <2>3, DecodedAppend
    <3> QED  BY <2>1, <3>1 DEF m
  <2>6. Both(n - 1) = [lead |-> More(n - 1).lead, out |-> d.out \o More(n - 1).out]
    BY <1>7
  <2>7. More(n - 1) \in Decoder
    BY <1>5, <2>1
  <2> HIDE DEF More, Both
  <2>8. Both(n) = [lead |-> More(n).lead, out |-> d.out \o More(n).out]
    BY <1>4, <2>3, <2>4, <2>5, <2>6, <2>7, FedOn
  <2> QED  BY <2>1, <2>8
<1>8. k \in 0 .. k
  BY <1>1
<1>9. k \in S
  <2> HIDE DEF S
  <2> QED  BY <1>1, <1>6, <1>7, <1>8, Induction
<1> QED  BY <1>3, <1>5, <1>8, <1>9 DEF d

---------------------------------------------------------------------------
(* Carriage returns                                                          *)

EndsCr(s) == s # <<>> /\ Last(s) = "cr"
Drops(t, n) == t[n] = "cr" /\ n < Len(t) /\ t[n + 1] = "nl"

\* The recursion of Kept, as its steps.
LEMMA KeptFollows ==
  ASSUME NEW t \in Seq(Char)
  PROVE  \E f : /\ f \in [0 .. Len(t) -> Seq(Char)] /\ f[0] = <<>>
                /\ \A n \in 1 .. Len(t) :
                     f[n] = IF Drops(t, n) THEN f[n - 1] ELSE Append(f[n - 1], t[n])
                /\ Kept(t) = f[Len(t)]
<1> DEFINE N == Len(t)
<1>1. N \in Nat /\ \A n \in 1 .. N : t[n] \in Char
  BY LenProperties, ElementOfSeq
<1> DEFINE h == [n \in 1 .. N |-> [k \in Seq(Char) |-> IF Drops(t, n) THEN k ELSE Append(k, t[n])]]
           P(f) == f = [n \in 0 .. Len(t) |->
                     IF n = 0 THEN <<>>
                     ELSE IF t[n] = "cr" /\ n < Len(t) /\ t[n + 1] = "nl" THEN f[n - 1]
                     ELSE Append(f[n - 1], t[n])]
           c == CHOOSE f : P(f)
<1>2. Kept(t) = c[N]
  BY Zenon DEF Kept
<1> HIDE DEF N
<1>3. <<>> \in Seq(Char)
  BY EmptySeq
<1>4. h \in Steps(N, Seq(Char))
  BY <1>1, AppendProperties DEF Steps
<1>5. PICK g : Follows(g, N, Seq(Char), <<>>, h)
  <2> HIDE DEF h
  <2> QED  BY <1>1, <1>3, <1>4, Recursion
<1>6. /\ g \in [0 .. N -> Seq(Char)] /\ g[0] = <<>>
      /\ \A n \in 1 .. N : g[n] = IF Drops(t, n) THEN g[n - 1] ELSE Append(g[n - 1], t[n])
  <2>1. /\ g \in [0 .. N -> Seq(Char)] /\ g[0] = <<>>
        /\ \A n \in 1 .. N : g[n] = h[n][g[n - 1]]
    BY <1>5 DEF Follows
  <2>2. ASSUME NEW n \in 1 .. N
        PROVE  g[n] = IF Drops(t, n) THEN g[n - 1] ELSE Append(g[n - 1], t[n])
    <3>1. n - 1 \in 0 .. N
      BY <1>1
    <3> QED  BY <2>1, <3>1
  <2> HIDE DEF h
  <2> QED  BY <2>1, <2>2
<1>7. P(g)
  <2>1. ASSUME NEW n \in 0 .. N, n # 0
        PROVE  g[n] = IF t[n] = "cr" /\ n < Len(t) /\ t[n + 1] = "nl" THEN g[n - 1]
                      ELSE Append(g[n - 1], t[n])
    <3>1. n \in 1 .. N
      BY <1>1, <2>1
    <3> QED  BY <1>6, <3>1 DEF Drops
  <2> HIDE DEF h
  <2> QED  BY <1>6, <2>1 DEF N
<1>8. P(c)
  <2> HIDE DEF P
  <2> QED  BY <1>7
<1> HIDE DEF c
<1>9. \A n \in 0 .. N : c[n] = g[n]
  <2> DEFINE S == {n \in 0 .. N : c[n] = g[n]}
  <2> HIDE DEF h, P
  <2>1. 0 \in S
    <3>1. 0 \in 0 .. N
      BY <1>1
    <3>2. c[0] = g[0]
      BY <1>1, <1>6, <1>8, <3>1 DEF N, P
    <3> QED  BY <3>1, <3>2
  <2>2. ASSUME NEW n \in 1 .. N, n - 1 \in S PROVE n \in S
    <3>1. n \in 0 .. N /\ n # 0 /\ c[n - 1] = g[n - 1]
      BY <1>1, <2>2
    <3>2. c[n] = IF Drops(t, n) THEN c[n - 1] ELSE Append(c[n - 1], t[n])
      BY <1>8, <3>1 DEF N, P, Drops
    <3>3. c[n] = g[n]
      BY <1>6, <3>1, <3>2
    <3> QED  BY <3>1, <3>3
  <2>3. \A n \in 0 .. N : n \in S
    <3> HIDE DEF S
    <3> QED  BY <1>1, <2>1, <2>2, Induction
  <2> QED  BY <2>3
<1>10. Kept(t) = g[N]
  BY <1>1, <1>2, <1>9
<1> QED  BY <1>6, <1>10 DEF N

\* A newline takes the carriage return before it away, every other character is kept.
LEMMA KeptAppend ==
  /\ Kept(<<>>) = <<>>
  /\ \A t \in Seq(Char), char \in Char :
       Kept(Append(t, char)) = Append(IF char = "nl" /\ EndsCr(t) THEN Front(Kept(t)) ELSE Kept(t), char)
<1>1. Kept(<<>>) = <<>>
  <2>1. <<>> \in Seq(Char) /\ Len(<<>>) = 0
    BY EmptySeq
  <2> QED  BY <2>1, KeptFollows
<1>2. ASSUME NEW t \in Seq(Char), NEW char \in Char
      PROVE  Kept(Append(t, char))
               = Append(IF char = "nl" /\ EndsCr(t) THEN Front(Kept(t)) ELSE Kept(t), char)
  <2> DEFINE N == Len(t)
             u == Append(t, char)
  <2>1. /\ u \in Seq(Char) /\ Len(u) = N + 1 /\ N \in Nat /\ u[N + 1] = char
        /\ \A n \in 1 .. N : u[n] = t[n] /\ t[n] \in Char
    BY AppendProperties, LenProperties, ElementOfSeq
  <2>2. t = <<>> <=> N = 0
    BY EmptySeq
  <2>3. PICK f : /\ f \in [0 .. N -> Seq(Char)] /\ f[0] = <<>>
                 /\ \A n \in 1 .. N : f[n] = IF Drops(t, n) THEN f[n - 1] ELSE Append(f[n - 1], t[n])
                 /\ Kept(t) = f[N]
    BY KeptFollows
  <2> HIDE DEF u
  <2>4. PICK g : /\ g \in [0 .. Len(u) -> Seq(Char)] /\ g[0] = <<>>
                 /\ \A n \in 1 .. Len(u) :
                      g[n] = IF Drops(u, n) THEN g[n - 1] ELSE Append(g[n - 1], u[n])
                 /\ Kept(u) = g[Len(u)]
    BY <2>1, KeptFollows
  <2>5. EndsCr(t) <=> N # 0 /\ t[N] = "cr"
    BY <2>2 DEF EndsCr, Last
  <2>6. \A n \in 1 .. N : /\ n < N => (Drops(u, n) <=> Drops(t, n))
                          /\ n = N => ~Drops(t, n) /\ (Drops(u, n) <=> t[n] = "cr" /\ char = "nl")
    <3> SUFFICES ASSUME NEW n \in 1 .. N
                 PROVE  /\ n < N => (Drops(u, n) <=> Drops(t, n))
                        /\ n = N => ~Drops(t, n) /\ (Drops(u, n) <=> t[n] = "cr" /\ char = "nl")
      OBVIOUS
    <3>1. CASE n < N
      <4>1. n + 1 \in 1 .. N /\ u[n] = t[n] /\ u[n + 1] = t[n + 1] /\ n < Len(u) /\ n # N
        BY <2>1, <3>1
      <4> QED  BY <3>1, <4>1 DEF Drops
    <3>2. CASE n = N
      <4>1. u[n] = t[n] /\ u[n + 1] = char /\ n < Len(u) /\ ~(n < N)
        BY <2>1, <3>2
      <4> QED  BY <3>2, <4>1 DEF Drops
    <3> QED  BY <2>1, <3>1, <3>2
  <2> HIDE DEF N
  <2>7. Kept(u) = Append(g[N], char)
    <3>1. N + 1 \in 1 .. Len(u) /\ (N + 1) - 1 = N /\ ~(N + 1 < Len(u))
      BY <2>1
    <3>2. ~Drops(u, N + 1)
      BY <3>1 DEF Drops
    <3> QED  BY <2>1, <2>4, <3>1, <3>2
  <2>8. CASE N = 0
    BY <2>3, <2>4, <2>5, <2>7, <2>8 DEF u
  <2>9. CASE N # 0
    <3>1. N - 1 \in Nat /\ N \in 1 .. N /\ N \in 1 .. Len(u) /\ N - 1 \in 0 .. N /\ N - 1 \in 0 .. N - 1
      BY <2>1, <2>9
    <3> DEFINE S == {n \in 0 .. N - 1 : f[n] = g[n]}
    <3>2. 0 \in S
      BY <2>1, <2>3, <2>4, <3>1
    <3>3. ASSUME NEW n \in 1 .. N - 1, n - 1 \in S PROVE n \in S
      <4>1. /\ n \in 1 .. N /\ n \in 1 .. Len(u) /\ n < N /\ n \in 0 .. N - 1
            /\ u[n] = t[n] /\ f[n - 1] = g[n - 1]
        BY <2>1, <3>3
      <4>2. Drops(u, n) <=> Drops(t, n)
        BY <2>6, <4>1
      <4>3. f[n] = g[n]
        BY <2>3, <2>4, <4>1, <4>2
      <4> QED  BY <4>1, <4>3
    <3>4. f[N - 1] = g[N - 1]
      <4>1. \A n \in 0 .. N - 1 : n \in S
        <5> HIDE DEF S
        <5> QED  BY <3>1, <3>2, <3>3, Induction
      <4> QED  BY <3>1, <4>1
    <3>5. f[N] = Append(f[N - 1], t[N]) /\ f[N - 1] \in Seq(Char) /\ t[N] \in Char
      BY <2>1, <2>3, <2>6, <3>1
    <3>6. g[N] = IF t[N] = "cr" /\ char = "nl" THEN f[N - 1] ELSE f[N]
      <4>1. u[N] = t[N] /\ (Drops(u, N) <=> t[N] = "cr" /\ char = "nl")
        BY <2>1, <2>6, <3>1
      <4> QED  BY <2>4, <3>1, <3>4, <3>5, <4>1
    <3>7. Front(f[N]) = f[N - 1]
      BY <3>5, AppendEnds
    <3> QED  BY <2>3, <2>5, <2>7, <2>9, <3>6, <3>7 DEF u
  <2> QED  BY <2>8, <2>9
<1> QED  BY <1>1, <1>2

---------------------------------------------------------------------------
(* Line splitting                                                            *)

Splitter == [done : Seq(Seq(Char)), rest : Seq(Char)]
Ending(line) == line # <<>> /\ Last(line) = "nl" /\ \A k \in 1 .. Len(line) - 1 : line[k] # "nl"

\* The lines, and the text pending behind them, are all of the text x but the
\* carriage returns; the next newline finds the carriage return it takes away.
Cuts(done, rest, x) ==
  /\ done \in Seq(Seq(Char)) /\ rest \in Seq(Char) /\ x \in Seq(Char)
  /\ FlattenSeq(done) \o rest = Kept(x)
  /\ EndsCr(rest) <=> EndsCr(x)
  /\ \A i \in 1 .. Len(done) : Ending(done[i])
  /\ \A k \in 1 .. Len(rest) : rest[k] # "nl"

\* A line is what was pending, but for the carriage return at its end.
LEMMA LineEnds ==
  ASSUME NEW rest \in Seq(Char)
  PROVE  LET kept == IF EndsCr(rest) THEN Front(rest) ELSE rest
         IN /\ kept \in Seq(Char) /\ Line(rest) = Append(kept, "nl") /\ Line(rest) \in Seq(Char)
            /\ (\A k \in 1 .. Len(rest) : rest[k] # "nl") => Ending(Line(rest))
<1> DEFINE kept == IF EndsCr(rest) THEN Front(rest) ELSE rest
<1>1. Line(rest) = Append(kept, "nl")
  BY DEF Line, EndsCr
<1>2. /\ kept \in Seq(Char)
      /\ (\A k \in 1 .. Len(rest) : rest[k] # "nl") => \A k \in 1 .. Len(kept) : kept[k] # "nl"
  <2>1. CASE EndsCr(rest)
    <3>1. Front(rest) \in Seq(Char) /\ Last(rest) \in Char /\ rest = Append(Front(rest), Last(rest))
      BY <2>1, FrontAndLast DEF EndsCr
    <3>2. /\ Len(rest) = Len(Front(rest)) + 1 /\ Len(Front(rest)) \in Nat
          /\ \A k \in 1 .. Len(Front(rest)) : rest[k] = Front(rest)[k]
      <4> DEFINE front == Front(rest)
                 last == Last(rest)
      <4>1. front \in Seq(Char) /\ last \in Char /\ rest = Append(front, last)
        BY <3>1
      <4> HIDE DEF front, last
      <4>2. /\ Len(rest) = Len(front) + 1 /\ Len(front) \in Nat
            /\ \A k \in 1 .. Len(front) : rest[k] = front[k]
        BY <4>1, AppendProperties, LenProperties
      <4> QED  BY <4>2 DEF front
    <3> QED  BY <2>1, <3>1, <3>2
  <2>2. CASE ~EndsCr(rest)
    BY <2>2
  <2> QED  BY <2>1, <2>2
<1> HIDE DEF kept
<1>3. "nl" \in Char
  BY DEF Char
<1> DEFINE line == Append(kept, "nl")
<1>4. /\ line \in Seq(Char) /\ line # <<>> /\ Len(line) = Len(kept) + 1 /\ Len(kept) \in Nat
      /\ \A k \in 1 .. Len(kept) : line[k] = kept[k]
  BY <1>2, <1>3, AppendProperties, LenProperties
<1>5. Last(line) = "nl"
  BY <1>2, <1>3, AppendEnds
<1> HIDE DEF line
<1>6. (\A k \in 1 .. Len(rest) : rest[k] # "nl") => Ending(line)
  <2> SUFFICES ASSUME \A k \in 1 .. Len(rest) : rest[k] # "nl" PROVE Ending(line)
    OBVIOUS
  <2>1. \A k \in 1 .. Len(kept) : line[k] # "nl"
    BY <1>2, <1>4
  <2>2. Len(line) - 1 = Len(kept)
    BY <1>4
  <2> QED  BY <1>4, <1>5, <2>1, <2>2 DEF Ending
<1> QED  BY <1>1, <1>2, <1>4, <1>6 DEF line, kept

\* A splitter stays one.
LEMMA SplitTyped ==
  ASSUME NEW p \in Splitter, NEW char \in Char
  PROVE  Split(p, char) \in Splitter
<1> DEFINE done == p.done
           rest == p.rest
<1>1. done \in Seq(Seq(Char)) /\ rest \in Seq(Char) /\ <<>> \in Seq(Char)
  BY EmptySeq DEF Splitter
<1>2. Split(p, char) = IF char = "nl" THEN [done |-> Append(done, Line(rest)), rest |-> <<>>]
                       ELSE [done |-> done, rest |-> Append(rest, char)]
  <2>1. CASE char = "nl"
    BY <2>1 DEF Split
  <2>2. CASE char # "nl"
    <3> DEFINE longer == Append(rest, char)
    <3>1. Split(p, char) = [p EXCEPT !.rest = longer]
      BY <2>2 DEF Split
    <3> HIDE DEF longer
    <3>2. [p EXCEPT !.rest = longer] = [done |-> done, rest |-> longer]
      BY DEF Splitter
    <3> QED  BY <2>2, <3>1, <3>2 DEF longer
  <2> QED  BY <2>1, <2>2
<1> HIDE DEF done, rest
<1>3. Line(rest) \in Seq(Char)
  BY <1>1, LineEnds
<1>4. Append(done, Line(rest)) \in Seq(Seq(Char)) /\ Append(rest, char) \in Seq(Char)
  BY <1>1, <1>3, AppendProperties
<1> QED  BY <1>1, <1>2, <1>4 DEF Splitter

\* One more character is pending, or ends a line.
LEMMA SplitCuts ==
  ASSUME NEW done, NEW p \in Splitter, NEW x, NEW char \in Char,
         done \in Seq(Seq(Char)), Cuts(done \o p.done, p.rest, x)
  PROVE  Cuts(done \o Split(p, char).done, Split(p, char).rest, Append(x, char))
<1> DEFINE all == done \o p.done
           rest == p.rest
           kept == IF EndsCr(rest) THEN Front(rest) ELSE rest
<1>1. p.done \in Seq(Seq(Char)) /\ rest \in Seq(Char) /\ all \in Seq(Seq(Char))
  BY ConcatProperties DEF Splitter
<1>2. /\ x \in Seq(Char) /\ FlattenSeq(all) \o rest = Kept(x) /\ (EndsCr(rest) <=> EndsCr(x))
      /\ \A i \in 1 .. Len(all) : Ending(all[i])
      /\ \A k \in 1 .. Len(rest) : rest[k] # "nl"
  BY DEF Cuts
<1> HIDE DEF all, rest
<1>3. FlattenSeq(all) \in Seq(Char)
  BY <1>1, FlattenType
<1>4. /\ Append(x, char) \in Seq(Char) /\ Append(x, char) # <<>> /\ Last(Append(x, char)) = char
  BY <1>2, AppendProperties, AppendEnds
<1>5. CASE char = "nl"
  <2>1. /\ kept \in Seq(Char) /\ Line(rest) = Append(kept, "nl") /\ Line(rest) \in Seq(Char)
        /\ Ending(Line(rest))
    BY <1>1, <1>2, LineEnds
  <2>2. Split(p, char) = [done |-> Append(p.done, Line(rest)), rest |-> <<>>]
    BY <1>5 DEF Split, rest
  <2>3. Append(p.done, Line(rest)) \in Seq(Seq(Char)) /\ <<>> \in Seq(Char)
    BY <1>1, <2>1, AppendProperties, EmptySeq
  <2>4. done \o Append(p.done, Line(rest)) = Append(all, Line(rest))
    <3> DEFINE new == p.done
               line == Line(rest)
    <3>1. new \in Seq(Seq(Char)) /\ line \in Seq(Char) /\ all = done \o new
      BY <1>1, <2>1 DEF all
    <3> HIDE DEF new, line
    <3>2. done \o Append(new, line) = Append(done \o new, line)
      BY <3>1, ConcatAppend
    <3> QED  BY <3>1, <3>2 DEF new, line
  <2> DEFINE more == Append(all, Line(rest))
  <2>5. /\ more \in Seq(Seq(Char)) /\ Len(more) = Len(all) + 1 /\ Len(all) \in Nat
        /\ \A i \in 1 .. Len(all) : more[i] = all[i]
        /\ more[Len(all) + 1] = Line(rest)
    BY <1>1, <2>1, AppendProperties, LenProperties
  <2>6. FlattenSeq(more) = Kept(Append(x, char))
    <3>1. FlattenSeq(more) = FlattenSeq(all) \o Append(kept, "nl")
      <4>1. FlattenSeq(Append(all, Line(rest))) = FlattenSeq(all) \o Line(rest)
        BY <1>1, <2>1, FlattenAppend
      <4> QED  BY <2>1, <4>1
    <3>2. FlattenSeq(all) \o Append(kept, "nl") = Append(FlattenSeq(all) \o kept, "nl")
      <4>1. "nl" \in Char
        BY DEF Char
      <4> QED  BY <1>3, <2>1, <4>1, ConcatAppend
    <3>3. FlattenSeq(all) \o kept = IF EndsCr(x) THEN Front(Kept(x)) ELSE Kept(x)
      <4>1. CASE EndsCr(rest)
        <5> DEFINE last == Last(rest)
                   f == FlattenSeq(all)
        <5>1. last \in Char /\ rest = Append(kept, last)
          BY <1>1, <4>1, FrontAndLast DEF EndsCr
        <5> HIDE DEF last, kept, f
        <5>2. f \o kept \in Seq(Char)
          BY <1>3, <2>1, ConcatProperties DEF f
        <5>3. f \o Append(kept, last) = Append(f \o kept, last)
          BY <1>3, <2>1, <5>1, ConcatAppend DEF f
        <5>4. Kept(x) = Append(f \o kept, last)
          BY <1>2, <5>1, <5>3 DEF f
        <5>5. Front(Append(f \o kept, last)) = f \o kept
          BY <5>1, <5>2, AppendEnds
        <5> QED  BY <1>2, <4>1, <5>4, <5>5 DEF f
      <4>2. CASE ~EndsCr(rest)
        BY <1>2, <4>2
      <4> QED  BY <4>1, <4>2
    <3>4. Kept(Append(x, char)) = Append(IF EndsCr(x) THEN Front(Kept(x)) ELSE Kept(x), "nl")
      BY <1>2, <1>5, KeptAppend
    <3> QED  BY <3>1, <3>2, <3>3, <3>4
  <2>7. FlattenSeq(more) \o <<>> = Kept(Append(x, char))
    <3>1. FlattenSeq(more) \in Seq(Char)
      BY <2>5, FlattenType
    <3> QED  BY <2>6, <3>1, ConcatEmptySeq
  <2>8. ~EndsCr(<<>>) /\ ~EndsCr(Append(x, char))
    BY <1>4, <1>5 DEF EndsCr
  <2> HIDE DEF more, kept
  <2>9. \A i \in 1 .. Len(more) : Ending(more[i])
    <3> SUFFICES ASSUME NEW i \in 1 .. Len(more) PROVE Ending(more[i])
      OBVIOUS
    <3>1. CASE i = Len(all) + 1
      BY <2>1, <2>5, <3>1
    <3>2. CASE i # Len(all) + 1
      <4>1. i \in 1 .. Len(all)
        BY <2>5, <3>2
      <4> QED  BY <1>2, <2>5, <4>1
    <3> QED  BY <3>1, <3>2
  <2>10. Cuts(more, <<>>, Append(x, char))
    BY <1>4, <2>3, <2>5, <2>7, <2>8, <2>9 DEF Cuts
  <2>11. Split(p, char).done = Append(p.done, Line(rest)) /\ Split(p, char).rest = <<>>
    BY <2>2
  <2> QED  BY <2>4, <2>10, <2>11 DEF more
<1>6. CASE char # "nl"
  <2> DEFINE longer == Append(rest, char)
  <2>1. Split(p, char) = [done |-> p.done, rest |-> longer]
    BY <1>6 DEF Split, Splitter, rest
  <2>2. /\ longer \in Seq(Char) /\ longer # <<>> /\ Last(longer) = char
        /\ Len(longer) = Len(rest) + 1 /\ Len(rest) \in Nat /\ longer[Len(rest) + 1] = char
        /\ \A k \in 1 .. Len(rest) : longer[k] = rest[k]
    BY <1>1, AppendProperties, AppendEnds, LenProperties
  <2>3. FlattenSeq(all) \o longer = Kept(Append(x, char))
    <3>1. FlattenSeq(all) \o Append(rest, char) = Append(FlattenSeq(all) \o rest, char)
      BY <1>1, <1>3, ConcatAppend
    <3>2. Kept(Append(x, char)) = Append(Kept(x), char)
      BY <1>2, <1>6, KeptAppend
    <3> QED  BY <1>2, <3>1, <3>2
  <2> HIDE DEF longer
  <2>4. EndsCr(longer) <=> EndsCr(Append(x, char))
    BY <1>4, <2>2 DEF EndsCr
  <2>5. \A k \in 1 .. Len(longer) : longer[k] # "nl"
    <3> SUFFICES ASSUME NEW k \in 1 .. Len(longer) PROVE longer[k] # "nl"
      OBVIOUS
    <3>1. k = Len(rest) + 1 \/ k \in 1 .. Len(rest)
      BY <2>2
    <3> QED  BY <1>2, <1>6, <2>2, <3>1
  <2>6. Cuts(all, longer, Append(x, char))
    BY <1>1, <1>2, <1>4, <2>2, <2>3, <2>4, <2>5 DEF Cuts
  <2>7. Split(p, char).done = p.done /\ Split(p, char).rest = longer
    BY <2>1
  <2> QED  BY <2>6, <2>7 DEF all
<1> QED  BY <1>5, <1>6

\* The recursion of Lines, as its steps.
LEMMA LinesFollows ==
  ASSUME NEW pending \in Seq(Char), NEW x \in Seq(Char)
  PROVE  \E f : /\ f \in [0 .. Len(x) -> Splitter] /\ f[0] = [done |-> <<>>, rest |-> pending]
                /\ \A n \in 1 .. Len(x) : f[n] = Split(f[n - 1], x[n])
                /\ Lines(pending, x) = f[Len(x)]
<1> DEFINE N == Len(x)
           none == [done |-> <<>>, rest |-> pending]
<1>1. N \in Nat /\ \A n \in 1 .. N : x[n] \in Char
  BY LenProperties, ElementOfSeq
<1> DEFINE h == [n \in 1 .. N |-> [p \in Splitter |-> Split(p, x[n])]]
           P(f) == f = [n \in 0 .. Len(x) |->
                     IF n = 0 THEN [done |-> <<>>, rest |-> pending] ELSE Split(f[n - 1], x[n])]
           c == CHOOSE f : P(f)
<1>2. Lines(pending, x) = c[N]
  BY Zenon DEF Lines
<1> HIDE DEF N
<1>3. none \in Splitter
  <2>1. <<>> \in Seq(Seq(Char))
    BY EmptySeq
  <2> QED  BY <2>1 DEF Splitter
<1>4. h \in Steps(N, Splitter)
  <2>1. \A p \in Splitter, char \in Char : Split(p, char) \in Splitter
    BY SplitTyped
  <2> QED  BY <1>1, <2>1 DEF Steps
<1>5. PICK g : Follows(g, N, Splitter, none, h)
  <2> HIDE DEF h, none
  <2> QED  BY <1>1, <1>3, <1>4, Recursion
<1>6. /\ g \in [0 .. N -> Splitter] /\ g[0] = none
      /\ \A n \in 1 .. N : g[n] = Split(g[n - 1], x[n])
  <2>1. /\ g \in [0 .. N -> Splitter] /\ g[0] = none
        /\ \A n \in 1 .. N : g[n] = h[n][g[n - 1]]
    BY <1>5 DEF Follows
  <2>2. ASSUME NEW n \in 1 .. N PROVE g[n] = Split(g[n - 1], x[n])
    <3>1. n - 1 \in 0 .. N
      BY <1>1
    <3> QED  BY <2>1, <3>1
  <2> HIDE DEF h
  <2> QED  BY <2>1, <2>2
<1>7. P(g)
  <2>1. ASSUME NEW n \in 0 .. N, n # 0 PROVE g[n] = Split(g[n - 1], x[n])
    <3>1. n \in 1 .. N
      BY <1>1, <2>1
    <3> QED  BY <1>6, <3>1
  <2> HIDE DEF h
  <2> QED  BY <1>6, <2>1 DEF N
<1>8. P(c)
  <2> HIDE DEF P
  <2> QED  BY <1>7
<1> HIDE DEF c
<1>9. \A n \in 0 .. N : c[n] = g[n]
  <2> DEFINE S == {n \in 0 .. N : c[n] = g[n]}
  <2> HIDE DEF h, P
  <2>1. 0 \in S
    <3>1. 0 \in 0 .. N
      BY <1>1
    <3>2. c[0] = g[0]
      BY <1>1, <1>6, <1>8, <3>1 DEF N, P
    <3> QED  BY <3>1, <3>2
  <2>2. ASSUME NEW n \in 1 .. N, n - 1 \in S PROVE n \in S
    <3>1. n \in 0 .. N /\ n # 0 /\ c[n - 1] = g[n - 1]
      BY <1>1, <2>2
    <3>2. c[n] = Split(c[n - 1], x[n])
      BY <1>8, <3>1 DEF N, P
    <3>3. c[n] = g[n]
      BY <1>6, <3>1, <3>2
    <3> QED  BY <3>1, <3>3
  <2>3. \A n \in 0 .. N : n \in S
    <3> HIDE DEF S
    <3> QED  BY <1>1, <2>1, <2>2, Induction
  <2> QED  BY <2>3
<1>10. Lines(pending, x) = g[N]
  BY <1>1, <1>2, <1>9
<1> QED  BY <1>6, <1>10 DEF N

\* The lines of a text that goes on where another stopped end where a whole one's do.
LEMMA LinesCut ==
  ASSUME NEW done \in Seq(Seq(Char)), NEW rest \in Seq(Char), NEW t \in Seq(Char),
         Cuts(done, rest, t), NEW x \in Seq(Char)
  PROVE  /\ Lines(rest, x) \in Splitter
         /\ Cuts(done \o Lines(rest, x).done, Lines(rest, x).rest, t \o x)
<1> DEFINE N == Len(x)
<1>1. N \in Nat /\ \A n \in 1 .. N : x[n] \in Char
  BY LenProperties, ElementOfSeq
<1>2. PICK f : /\ f \in [0 .. N -> Splitter] /\ f[0] = [done |-> <<>>, rest |-> rest]
               /\ \A n \in 1 .. N : f[n] = Split(f[n - 1], x[n])
               /\ Lines(rest, x) = f[N]
  BY LinesFollows
<1> DEFINE upTo(n) == t \o SubSeq(x, 1, n)
           S == {n \in 0 .. N : Cuts(done \o f[n].done, f[n].rest, upTo(n))}
<1>3. 0 \in S
  <2>1. f[0].done = <<>> /\ f[0].rest = rest /\ 0 \in 0 .. N
    BY <1>1, <1>2
  <2>2. done \o <<>> = done /\ upTo(0) = t
    <3>1. SubSeq(x, 1, 0) = <<>>
      BY SubSeqEmpty
    <3> QED  BY <3>1, ConcatEmptySeq
  <2> HIDE DEF upTo, N
  <2>3. Cuts(done \o f[0].done, f[0].rest, upTo(0))
    BY Zenon, <2>1, <2>2
  <2> QED  BY <2>1, <2>3
<1>4. ASSUME NEW n \in 1 .. N, n - 1 \in S PROVE n \in S
  <2> DEFINE m == n - 1
             before == SubSeq(x, 1, m)
  <2>1. /\ n \in 0 .. N /\ m \in 0 .. N /\ m + 1 = n /\ 1 \in 1 .. Len(x)
        /\ m \in 1 - 1 .. Len(x) - 1
    BY <1>1
  <2>2. f[m] \in Splitter /\ f[n] = Split(f[m], x[n]) /\ x[n] \in Char
    BY <1>1, <1>2, <2>1
  <2>3. Cuts(done \o f[m].done, f[m].rest, t \o before)
    BY <1>4
  <2> HIDE DEF m
  <2>4. before \in Seq(Char) /\ SubSeq(x, 1, n) = Append(before, x[n])
    <3>1. before \in Seq(Char) /\ SubSeq(x, 1, m + 1) = Append(before, x[m + 1])
      BY <2>1, SubSeqAppend
    <3> QED  BY <2>1, <3>1
  <2> HIDE DEF before
  <2>5. t \o Append(before, x[n]) = Append(t \o before, x[n])
    BY <2>2, <2>4, ConcatAppend
  <2>6. Cuts(done \o f[n].done, f[n].rest, Append(t \o before, x[n]))
    <3>1. Cuts(done \o Split(f[m], x[n]).done, Split(f[m], x[n]).rest, Append(t \o before, x[n]))
      BY <2>2, <2>3, SplitCuts
    <3> QED  BY <2>2, <3>1
  <2>7. upTo(n) = Append(t \o before, x[n])
    BY <2>4, <2>5
  <2> HIDE DEF upTo
  <2> QED  BY <2>1, <2>6, <2>7
<1>5. Cuts(done \o f[N].done, f[N].rest, t \o x)
  <2>1. \A n \in 0 .. N : n \in S
    <3> HIDE DEF S, N
    <3> QED  BY <1>1, <1>3, <1>4, Induction
  <2>2. N \in S
    BY <1>1, <2>1
  <2>3. SubSeq(x, 1, N) = x
    BY SubSeqFull
  <2> QED  BY <2>2, <2>3
<1>6. f[N] \in Splitter
  BY <1>1, <1>2
<1> QED  BY <1>2, <1>5, <1>6

---------------------------------------------------------------------------
(* The capture                                                               *)

TextOK ==
  /\ text \in [Stream -> [lead : BOOLEAN, pending : Seq(Char)]]
  /\ lines \in [Stream -> Seq(Seq(Char))]

\* A whole text, cut into lines of which only the last may have no newline.
Cut(l, x) ==
  /\ FlattenSeq(l) = Kept(x)
  /\ \A i \in DOMAIN l : \A k \in DOMAIN l[i] : l[i][k] = "nl" => k = Len(l[i])
  /\ \A i \in DOMAIN l : i < Len(l) => Last(l[i]) = "nl"

\* A drain that reads has cut the text of the bytes it has read; one that is
\* done has cut the whole text of all that was written.
Taken(s) == Decoded(FALSE, SubSeq(says[s], 1, read[s]))
Captured ==
  \A s \in Stream :
    /\ drain[s] \in {"none", "reading"} =>
         text[s].lead = Taken(s).lead /\ Cuts(lines[s], text[s].pending, Taken(s).out)
    /\ drain[s] = "done" => Dead /\ read[s] = wrote[s] /\ Cut(lines[s], Flushed(Taken(s)))

\* A child is killed only once its output is given up, and ends by itself only
\* when it has said all.
SaidAll ==
  caller \in {"gather", "wait", "returned"} =>
    status # "killed" /\ (Dead => \A s \in Stream : wrote[s] = Len(says[s]))

\* What a drain holds at the end of the stream is the last line.
LEMMA LastLine ==
  ASSUME NEW done \in Seq(Seq(Char)), NEW d \in Decoder, NEW pending \in Seq(Char),
         Cuts(done, pending, d.out),
         NEW rest, rest = pending \o Flushed([lead |-> d.lead, out |-> <<>>]),
         NEW last, last = IF rest = <<>> THEN <<>> ELSE <<rest>>
  PROVE  /\ rest \in Seq(Char) /\ last \in Seq(Seq(Char))
         /\ done \o last \in Seq(Seq(Char)) /\ Cut(done \o last, Flushed(d))
<1> DEFINE held == Flushed([lead |-> d.lead, out |-> <<>>])
           t == d.out
<1>1. t \in Seq(Char) /\ d.lead \in BOOLEAN
  BY DEF Decoder
<1>2. /\ FlattenSeq(done) \o pending = Kept(t)
      /\ \A i \in 1 .. Len(done) : Ending(done[i])
      /\ \A k \in 1 .. Len(pending) : pending[k] # "nl"
  BY DEF Cuts
<1>3. FlattenSeq(done) \in Seq(Char) /\ <<>> \in Seq(Char) /\ "replaced" \in Char
  BY FlattenType, EmptySeq DEF Char
<1>4. /\ rest \in Seq(Char) /\ \A k \in 1 .. Len(rest) : rest[k] # "nl"
      /\ FlattenSeq(done) \o rest = Kept(Flushed(d))
  <2>1. CASE d.lead
    <3> DEFINE longer == Append(pending, "replaced")
    <3>1. rest = longer
      <4>1. held = <<"replaced">>
        BY <2>1 DEF Flushed
      <4>2. Append(pending, "replaced") = pending \o <<"replaced">>
        BY <1>3, AppendIsConcat
      <4> QED  BY <4>1, <4>2
    <3>2. /\ longer \in Seq(Char) /\ Len(longer) = Len(pending) + 1 /\ Len(pending) \in Nat
          /\ longer[Len(pending) + 1] = "replaced"
          /\ \A k \in 1 .. Len(pending) : longer[k] = pending[k]
      BY <1>3, AppendProperties, LenProperties
    <3>3. FlattenSeq(done) \o longer = Kept(Flushed(d))
      <4>1. FlattenSeq(done) \o Append(pending, "replaced") = Append(FlattenSeq(done) \o pending, "replaced")
        BY <1>3, ConcatAppend
      <4>2. Kept(Append(t, "replaced")) = Append(Kept(t), "replaced")
        BY <1>1, <1>3, KeptAppend
      <4>3. Flushed(d) = Append(t, "replaced")
        BY <2>1 DEF Flushed
      <4> QED  BY <1>2, <4>1, <4>2, <4>3
    <3> HIDE DEF longer
    <3>4. \A k \in 1 .. Len(longer) : longer[k] # "nl"
      <4> SUFFICES ASSUME NEW k \in 1 .. Len(longer) PROVE longer[k] # "nl"
        OBVIOUS
      <4>1. k = Len(pending) + 1 \/ k \in 1 .. Len(pending)
        BY <3>2
      <4> QED  BY <1>2, <3>2, <4>1
    <3> QED  BY <3>1, <3>2, <3>3, <3>4
  <2>2. CASE ~d.lead
    <3>1. held = <<>> /\ Flushed(d) = t
      BY <2>2 DEF Flushed
    <3>2. rest = pending
      BY <3>1, ConcatEmptySeq
    <3> QED  BY <1>2, <3>1, <3>2
  <2> QED  BY <1>1, <2>1, <2>2
<1>5. CASE rest = <<>>
  <2>1. done \o last = done /\ last = <<>> /\ last \in Seq(Seq(Char))
    <3>1. last = <<>>
      BY <1>5
    <3>2. <<>> \in Seq(Seq(Char))
      BY EmptySeq
    <3> QED  BY <3>1, <3>2, ConcatEmptySeq
  <2>2. FlattenSeq(done) = Kept(Flushed(d))
    BY <1>3, <1>4, <1>5, ConcatEmptySeq
  <2>3. \A i \in DOMAIN done :
          /\ \A k \in DOMAIN done[i] : done[i][k] = "nl" => k = Len(done[i])
          /\ Last(done[i]) = "nl"
    <3> SUFFICES ASSUME NEW i \in DOMAIN done
                 PROVE  /\ \A k \in DOMAIN done[i] : done[i][k] = "nl" => k = Len(done[i])
                        /\ Last(done[i]) = "nl"
      OBVIOUS
    <3> DEFINE line == done[i]
    <3>1. line \in Seq(Char) /\ Ending(line)
      <4>1. i \in 1 .. Len(done)
        BY LenProperties
      <4> QED  BY <1>2, <4>1, ElementOfSeq
    <3> HIDE DEF line
    <3>2. DOMAIN line = 1 .. Len(line) /\ Len(line) \in Nat
      BY <3>1, LenProperties
    <3>3. \A k \in DOMAIN line : line[k] = "nl" => k = Len(line)
      BY <3>1, <3>2 DEF Ending
    <3> QED  BY <3>1, <3>3 DEF line, Ending
  <2>4. Cut(done, Flushed(d))
    BY <2>2, <2>3 DEF Cut
  <2> QED  BY <1>4, <2>1, <2>4
<1>6. CASE rest # <<>>
  <2> DEFINE all == Append(done, rest)
  <2>1. last = <<rest>> /\ last \in Seq(Seq(Char)) /\ done \o last = all
    <3>1. last = <<rest>>
      BY <1>6
    <3>2. <<rest>> \in Seq(Seq(Char))
      BY <1>4
    <3> QED  BY <1>4, <3>1, <3>2, AppendIsConcat
  <2>2. /\ all \in Seq(Seq(Char)) /\ Len(all) = Len(done) + 1 /\ Len(done) \in Nat
        /\ all[Len(done) + 1] = rest /\ DOMAIN all = 1 .. Len(done) + 1
        /\ \A i \in 1 .. Len(done) : all[i] = done[i]
    BY <1>4, AppendProperties, LenProperties
  <2>3. FlattenSeq(all) = Kept(Flushed(d))
    BY <1>4, FlattenAppend
  <2> HIDE DEF all
  <2>4. ASSUME NEW i \in DOMAIN all
        PROVE  /\ \A k \in DOMAIN all[i] : all[i][k] = "nl" => k = Len(all[i])
               /\ i < Len(all) => Last(all[i]) = "nl"
    <3>1. CASE i = Len(done) + 1
      <4>1. all[i] = rest /\ ~(i < Len(all)) /\ DOMAIN rest = 1 .. Len(rest)
        <5>1. DOMAIN rest = 1 .. Len(rest)
          BY <1>4, LenProperties
        <5>2. all[i] = rest
          BY <2>2, <3>1
        <5>3. ~(i < Len(all))
          BY <2>2, <3>1
        <5> QED  BY <5>1, <5>2, <5>3
      <4> QED  BY <1>4, <4>1
    <3>2. CASE i # Len(done) + 1
      <4> DEFINE line == done[i]
      <4>1. i \in 1 .. Len(done) /\ all[i] = line
        BY <2>2, <3>2
      <4>2. line \in Seq(Char) /\ Ending(line)
        BY <1>2, <4>1, ElementOfSeq
      <4> HIDE DEF line
      <4>3. DOMAIN line = 1 .. Len(line) /\ Len(line) \in Nat
        BY <4>2, LenProperties
      <4>4. \A k \in DOMAIN line : line[k] = "nl" => k = Len(line)
        BY <4>2, <4>3 DEF Ending
      <4>5. Last(line) = "nl"
        BY <4>2 DEF Ending
      <4> QED  BY <4>1, <4>4, <4>5
    <3> QED  BY <3>1, <3>2
  <2>5. Cut(all, Flushed(d))
    BY <2>3, <2>4 DEF Cut
  <2> QED  BY <1>4, <2>1, <2>2, <2>5
<1> QED  BY <1>5, <1>6

\* What is taken of a stream is text.
LEMMA TakenTyped ==
  ASSUME TypeOK, NEW s \in Stream
  PROVE  /\ says[s] \in Seq(Byte) /\ Len(says[s]) \in Nat /\ read[s] \in 0 .. Len(says[s])
         /\ Taken(s) \in Decoder
<1>1. says[s] \in Seq(Byte) /\ Len(says[s]) \in Nat
  BY Saying DEF Byte
<1>2. read[s] \in 0 .. Len(says[s]) /\ read[s] \in Int
  BY <1>1 DEF TypeOK
<1>3. SubSeq(says[s], 1, read[s]) \in Seq(Byte)
  <2>1. \A i \in 1 .. read[s] : says[s][i] \in Byte
    BY <1>1, <1>2, ElementOfSeq
  <2> QED  BY <1>2, <2>1, SubSeqProperties
<1> QED  BY <1>1, <1>2, <1>3, DecodedAppend DEF Taken

\* A line that could be captured is, whether or not it could be mirrored.
LEMMA Emitted ==
  ASSUME TypeOK, TextOK, NEW s \in Stream, NEW new \in Seq(Seq(Char)), NEW onwards, Emit(s, new, onwards)
  PROVE  /\ lines' \in [Stream -> Seq(Seq(Char))]
         /\ \A t \in Stream \ {s} : lines'[t] = lines[t] /\ drain'[t] = drain[t]
         /\ drain'[s] = "failed" \/ (drain'[s] = onwards /\ lines'[s] = lines[s] \o new)
<1>1. lines[s] \in Seq(Seq(Char)) /\ lines \in [Stream -> Seq(Seq(Char))]
      /\ drain \in [Stream -> {"none", "reading", "done", "failed", "cancelled"}]
  BY DEF TextOK, TypeOK
<1>2. CASE broken /\ new # <<>>
  <2> DEFINE all == Append(lines[s], Head(new))
  <2>1. all \in Seq(Seq(Char))
    <3>1. Head(new) \in Seq(Char)
      BY <1>2, HeadTailProperties
    <3> QED  BY <1>1, <3>1, AppendProperties
  <2>2. lines' = [lines EXCEPT ![s] = all] /\ drain' = [drain EXCEPT ![s] = "failed"]
    BY <1>2 DEF Emit
  <2> HIDE DEF all
  <2> QED  BY <1>1, <2>1, <2>2
<1>3. CASE ~(broken /\ new # <<>>)
  <2> DEFINE all == lines[s] \o new
  <2>1. all \in Seq(Seq(Char))
    BY <1>1, ConcatProperties
  <2>2. lines' = [lines EXCEPT ![s] = all] /\ drain' = [drain EXCEPT ![s] = onwards]
    BY Zenon, <1>3 DEF Emit
  <2>3. lines'[s] = all /\ drain'[s] = onwards /\ lines' \in [Stream -> Seq(Seq(Char))]
        /\ \A t \in Stream \ {s} : lines'[t] = lines[t] /\ drain'[t] = drain[t]
    <3> HIDE DEF all
    <3> QED  BY <1>1, <2>1, <2>2
  <2> QED  BY <2>3
<1> QED  BY <1>2, <1>3

\* Nothing is lost where nothing is read or written.
LEMMA Unread ==
  ASSUME Captured, says' = says, read' = read, text' = text, lines' = lines,
         Dead => Dead' /\ wrote' = wrote,
         \A s \in Stream : \/ drain'[s] = drain[s] \/ drain'[s] \notin {"none", "reading", "done"}
                           \/ drain[s] = "none" /\ drain'[s] = "reading"
  PROVE  Captured'
BY DEF Captured, Taken

\* A read adds the lines its bytes end.
LEMMA DrainCaptures ==
  ASSUME TypeOK, TextOK, Captured, NEW s \in Stream, Drain(s)
  PROVE  TextOK' /\ Captured'
<1> DEFINE x == says[s]
           r == read[s]
           d == Taken(s)
<1>1. /\ x \in Seq(Byte) /\ Len(x) \in Nat /\ r \in 0 .. Len(x) /\ d \in Decoder
      /\ \A t \in Stream : Taken(t) \in Decoder
  BY TakenTyped
<1>2. PICK k \in 1 .. Chunk :
        /\ k <= wrote[s] - read[s]
        /\ LET more == Decoded(text[s].lead, SubSeq(says[s], read[s] + 1, read[s] + k))
               p == Lines(text[s].pending, more.out)
           IN /\ text' = [text EXCEPT ![s] = [lead |-> more.lead, pending |-> p.rest]]
              /\ Emit(s, p.done, "reading")
        /\ read' = [read EXCEPT ![s] = read[s] + k]
  BY DEF Drain
<1>3. /\ drain[s] = "reading" /\ says' = says /\ wrote' = wrote /\ status' = status
  BY DEF Drain, Reading, ends, child
<1>4. /\ k \in 0 .. Len(x) - r /\ k \in Nat /\ read' \in [Stream -> Nat] /\ read'[s] = r + k
      /\ \A t \in Stream \ {s} : read'[t] = read[t]
  BY <1>1, <1>2, CommandRunAssumption DEF TypeOK
<1>5. /\ text[s].lead = d.lead /\ Cuts(lines[s], text[s].pending, d.out)
      /\ text[s].lead \in BOOLEAN /\ text[s].pending \in Seq(Char) /\ lines[s] \in Seq(Seq(Char))
      /\ text \in [Stream -> [lead : BOOLEAN, pending : Seq(Char)]]
  BY <1>3 DEF Captured, TextOK
<1> DEFINE more == Decoded(text[s].lead, SubSeq(x, r + 1, r + k))
           p == Lines(text[s].pending, more.out)
<1>6. /\ more \in Decoder
      /\ Decoded(FALSE, SubSeq(x, 1, r + k)) = [lead |-> more.lead, out |-> d.out \o more.out]
  <2>1. d = Decoded(FALSE, SubSeq(x, 1, r))
    BY DEF Taken
  <2>2. more = Decoded(d.lead, SubSeq(x, r + 1, r + k))
    BY <1>5
  <2> HIDE DEF d, more, x, r
  <2> QED  BY <1>1, <1>4, <2>1, <2>2, DecodedOn
<1>7. more.out \in Seq(Char) /\ more.lead \in BOOLEAN /\ d.out \in Seq(Char)
  <2> HIDE DEF more, d
  <2> QED  BY <1>1, <1>6 DEF Decoder
<1>8. /\ p \in Splitter
      /\ Cuts(lines[s] \o p.done, p.rest, d.out \o more.out)
  <2> HIDE DEF more, d
  <2> QED  BY <1>5, <1>7, LinesCut
<1>9. text' = [text EXCEPT ![s] = [lead |-> more.lead, pending |-> p.rest]] /\ Emit(s, p.done, "reading")
  BY <1>2
<1>10. (Taken(s)').lead = more.lead /\ (Taken(s)').out = d.out \o more.out
  <2>1. Taken(s)' = Decoded(FALSE, SubSeq(x, 1, r + k))
    BY <1>3, <1>4 DEF Taken
  <2> DEFINE both == Decoded(FALSE, SubSeq(x, 1, r + k))
             out == d.out \o more.out
  <2> HIDE DEF more, both, out
  <2>2. both.lead = more.lead /\ both.out = out
    <3>1. both = [lead |-> more.lead, out |-> out]
      BY <1>6 DEF both, out
    <3> QED  BY <3>1
  <2> QED  BY <2>1, <2>2 DEF both, out
<1>11. \A t \in Stream \ {s} : Taken(t)' = Taken(t)
  BY <1>3, <1>4 DEF Taken
<1> HIDE DEF more, p, d, x, r
<1>12. p.done \in Seq(Seq(Char)) /\ p.rest \in Seq(Char)
  BY <1>8 DEF Splitter
<1>13. /\ lines' \in [Stream -> Seq(Seq(Char))]
       /\ \A t \in Stream \ {s} : lines'[t] = lines[t] /\ drain'[t] = drain[t]
       /\ drain'[s] = "failed" \/ (drain'[s] = "reading" /\ lines'[s] = lines[s] \o p.done)
  BY <1>9, <1>12, Emitted
<1>14. /\ text' \in [Stream -> [lead : BOOLEAN, pending : Seq(Char)]]
       /\ text'[s].lead = more.lead /\ text'[s].pending = p.rest
       /\ \A t \in Stream \ {s} : text'[t] = text[t]
  BY <1>5, <1>7, <1>9, <1>12
<1>15. TextOK'
  BY <1>13, <1>14 DEF TextOK
<1>16. ASSUME NEW t \in Stream
       PROVE  /\ drain'[t] \in {"none", "reading"} =>
                   text'[t].lead = Taken(t)'.lead /\ Cuts(lines'[t], text'[t].pending, Taken(t)'.out)
              /\ drain'[t] = "done" =>
                   Dead' /\ read'[t] = wrote'[t] /\ Cut(lines'[t], Flushed(Taken(t)'))
  <2>1. CASE t = s
    <3>1. Taken(t)'.lead = more.lead /\ Taken(t)'.out = d.out \o more.out
      <4>1. Taken(t)' = Taken(s)'
        BY <2>1
      <4> QED  BY Zenon, <1>10, <4>1
    <3> QED  BY <1>8, <1>13, <1>14, <2>1, <3>1
  <2>2. CASE t # s
    <3>1. /\ Taken(t)' = Taken(t) /\ lines'[t] = lines[t] /\ drain'[t] = drain[t] /\ text'[t] = text[t]
          /\ read'[t] = read[t] /\ wrote'[t] = wrote[t] /\ Dead' = Dead
      BY <1>3, <1>4, <1>11, <1>13, <1>14, <2>2 DEF Dead
    <3> QED  BY <3>1 DEF Captured
  <2> QED  BY <2>1, <2>2
<1> QED  BY <1>15, <1>16 DEF Captured

\* The end of the stream adds the last line, all that is held.
LEMMA EndCaptures ==
  ASSUME TypeOK, TextOK, Captured, NEW s \in Stream, DrainEnd(s)
  PROVE  TextOK' /\ Captured'
<1> DEFINE d == Taken(s)
           rest == text[s].pending \o Flushed([lead |-> text[s].lead, out |-> <<>>])
           last == IF rest = <<>> THEN <<>> ELSE <<rest>>
<1>1. d \in Decoder
  BY TakenTyped
<1>2. /\ drain[s] = "reading" /\ Dead /\ read[s] = wrote[s] /\ Emit(s, last, "done")
      /\ read' = read /\ text' = text /\ says' = says /\ wrote' = wrote /\ status' = status
  BY DEF DrainEnd, Reading, ends, child
<1>3. /\ text[s].lead = d.lead /\ Cuts(lines[s], text[s].pending, d.out)
      /\ text[s].pending \in Seq(Char) /\ lines[s] \in Seq(Seq(Char))
  BY <1>2 DEF Captured, TextOK
<1>4. rest = text[s].pending \o Flushed([lead |-> d.lead, out |-> <<>>])
  BY <1>3
<1>5. last = IF rest = <<>> THEN <<>> ELSE <<rest>>
  OBVIOUS
<1>6. \A t \in Stream : Taken(t)' = Taken(t)
  BY <1>2 DEF Taken
<1> HIDE DEF d, rest, last
<1>7. last \in Seq(Seq(Char)) /\ Cut(lines[s] \o last, Flushed(d))
  <2> DEFINE pending == text[s].pending
             done == lines[s]
  <2>1. /\ done \in Seq(Seq(Char)) /\ pending \in Seq(Char) /\ Cuts(done, pending, d.out)
        /\ rest = pending \o Flushed([lead |-> d.lead, out |-> <<>>])
    BY <1>3, <1>4
  <2> HIDE DEF pending, done
  <2>2. last \in Seq(Seq(Char)) /\ Cut(done \o last, Flushed(d))
    BY <1>1, <1>5, <2>1, LastLine
  <2> QED  BY <2>2 DEF done
<1>8. /\ lines' \in [Stream -> Seq(Seq(Char))]
      /\ \A t \in Stream \ {s} : lines'[t] = lines[t] /\ drain'[t] = drain[t]
      /\ drain'[s] = "failed" \/ (drain'[s] = "done" /\ lines'[s] = lines[s] \o last)
  BY <1>2, <1>7, Emitted
<1>9. TextOK'
  BY <1>2, <1>8 DEF TextOK
<1>10. ASSUME NEW t \in Stream
       PROVE  /\ drain'[t] \in {"none", "reading"} =>
                   text'[t].lead = Taken(t)'.lead /\ Cuts(lines'[t], text'[t].pending, Taken(t)'.out)
              /\ drain'[t] = "done" =>
                   Dead' /\ read'[t] = wrote'[t] /\ Cut(lines'[t], Flushed(Taken(t)'))
  <2>1. Taken(t)' = Taken(t) /\ text'[t] = text[t] /\ read'[t] = read[t] /\ wrote'[t] = wrote[t]
        /\ Dead' = Dead
    BY <1>2, <1>6 DEF Dead
  <2>2. CASE t = s
    <3>1. Flushed(Taken(t)') = Flushed(d)
      BY <2>1, <2>2 DEF d
    <3> QED  BY <1>2, <1>7, <1>8, <2>1, <2>2, <3>1
  <2>3. CASE t # s
    <3>1. lines'[t] = lines[t] /\ drain'[t] = drain[t]
      BY <1>8, <2>3
    <3> QED  BY <2>1, <3>1 DEF Captured
  <2> QED  BY <2>2, <2>3
<1> QED  BY <1>9, <1>10 DEF Captured

\* Every step keeps what is captured.
LEMMA CaptureStep ==
  TypeOK /\ DrainsAt /\ TextOK /\ Captured /\ [Next]_vars => TextOK' /\ Captured'
<1> SUFFICES ASSUME TypeOK, DrainsAt, TextOK, Captured, [Next]_vars PROVE TextOK' /\ Captured'
  OBVIOUS
<1>1. ASSUME says' = says, read' = read, text' = text, lines' = lines,
             Dead => Dead' /\ wrote' = wrote,
             \A s \in Stream : \/ drain'[s] = drain[s] \/ drain'[s] \notin {"none", "reading", "done"}
                               \/ drain[s] = "none" /\ drain'[s] = "reading"
      PROVE  TextOK' /\ Captured'
  BY <1>1, Unread DEF TextOK
<1>2. CASE Exit \/ HeirEnds \/ MirrorBreaks \/ Reap \/ UNCHANGED vars \/ \E s \in Stream : Write(s)
  BY <1>1, <1>2 DEF Exit, HeirEnds, MirrorBreaks, Reap, Write, Dead, vars, ends, child, reader
<1>3. CASE Spawn
  <2>1. \A s \in Stream : drain'[s] = "reading"
    BY <1>3 DEF Spawn
  <2>2. \A s \in Stream : drain[s] = "none"
    BY <1>3 DEF Spawn, DrainsAt
  <2>3. says' = says /\ read' = read /\ text' = text /\ lines' = lines
    BY <1>3 DEF Spawn
  <2> QED  BY <2>1, <2>2, <2>3 DEF TextOK, Captured, Taken
<1>4. CASE SpawnFails \/ Gathered \/ Waited \/ Reaped \/ Settled
  BY <1>1, <1>4 DEF SpawnFails, Gathered, Waited, Reaped, Settled, Dead, child, reader
<1>5. CASE CancelGather \/ CancelReap \/ CancelSettle
  BY <1>1, <1>5 DEF CancelGather, CancelReap, CancelSettle, Dead, child, reader
<1>6. ASSUME NEW reason \in {"drain", "cancelled"}, CleanUp(reason) PROVE TextOK' /\ Captured'
  BY <1>1, <1>6 DEF CleanUp, Dead, reader
<1>7. ASSUME NEW s \in Stream, DrainCancelled(s) PROVE TextOK' /\ Captured'
  <2>1. \A t \in Stream : drain'[t] = drain[t] \/ drain'[t] = "cancelled"
    BY <1>7 DEF DrainCancelled, TypeOK
  <2> QED  BY <1>1, <1>7, <2>1 DEF DrainCancelled, Dead, child, ends
<1> QED
  BY <1>2, <1>3, <1>4, <1>5, <1>6, <1>7, DrainCaptures, EndCaptures
     DEF Next, Child, Drains, Caller, Cancel, Rest, GatherRaises, CancelWait

\* Every step leaves a child whose output is wanted the time to say all of it.
LEMMA SaidStep == TypeOK /\ SaidAll /\ [Next]_vars => SaidAll'
<1> SUFFICES ASSUME TypeOK, SaidAll, [Next]_vars PROVE SaidAll'
  OBVIOUS
<1>1. CASE Exit \/ HeirEnds \/ MirrorBreaks \/ Reap \/ UNCHANGED vars
  BY <1>1 DEF SaidAll, Dead, Exit, HeirEnds, MirrorBreaks, Reap, vars, ends, child
<1>2. CASE \E s \in Stream : Write(s)
  BY <1>2 DEF SaidAll, Dead, Write, ends
<1>3. CASE Spawn \/ SpawnFails
  BY <1>3 DEF SaidAll, Dead, Spawn, SpawnFails
<1>4. CASE Gathered \/ Waited \/ Reaped \/ Settled
  BY <1>4 DEF SaidAll, Dead, Gathered, Waited, Reaped, Settled, child
<1>5. CASE CancelGather \/ CancelReap \/ CancelSettle
  BY <1>5 DEF SaidAll, Dead, CancelGather, CancelReap, CancelSettle, child
<1>6. ASSUME NEW reason \in {"drain", "cancelled"}, CleanUp(reason) PROVE SaidAll'
  BY <1>6 DEF SaidAll, CleanUp
<1>7. CASE Drains
  BY <1>7 DEF SaidAll, Dead, Drains, Drain, DrainEnd, DrainCancelled, ends, child
<1> QED
  BY <1>1, <1>2, <1>3, <1>4, <1>5, <1>6, <1>7
     DEF Next, Child, Caller, Cancel, Rest, GatherRaises, CancelWait

\* However the reads cut the bytes, in whatever order the two streams are drained,
\* a call that returns has captured the whole text of both, in whole lines.
THEOREM CaptureWhole == Spec => []CaptureIsWhole
<1>1. Init => TextOK /\ Captured /\ SaidAll /\ ChildAt /\ DrainsAt
  <2> SUFFICES ASSUME Init PROVE TextOK /\ Captured /\ SaidAll /\ ChildAt /\ DrainsAt
    OBVIOUS
  <2>1. SaidAll /\ ChildAt /\ DrainsAt
    BY DEF Init, SaidAll, ChildAt, DrainsAt
  <2>2. <<>> \in Seq(Char) /\ <<>> \in Seq(Seq(Char)) /\ Len(<<>>) = 0
    BY EmptySeq
  <2>3. TextOK
    BY <2>2 DEF Init, TextOK
  <2>4. Cuts(<<>>, <<>>, <<>>)
    <3>1. FlattenSeq(<<>>) \o <<>> = Kept(<<>>)
      BY FlattenEmpty, KeptAppend, ConcatEmptySeq, <2>2
    <3> QED  BY <2>2, <3>1 DEF Cuts, EndsCr
  <2>5. ASSUME NEW s \in Stream
        PROVE  /\ drain[s] = "none"
               /\ text[s].lead = Taken(s).lead /\ Cuts(lines[s], text[s].pending, Taken(s).out)
    <3>1. /\ drain[s] = "none" /\ read[s] = 0 /\ text[s].lead = FALSE /\ text[s].pending = <<>>
          /\ lines[s] = <<>>
      BY DEF Init
    <3>2. Taken(s) = Fresh(FALSE)
      <4>1. SubSeq(says[s], 1, 0) = <<>>
        BY SubSeqEmpty
      <4> QED  BY <3>1, <4>1, DecodedAppend DEF Taken
    <3>3. Taken(s).lead = FALSE /\ Taken(s).out = <<>>
      BY <3>2 DEF Fresh
    <3> QED  BY <2>4, <3>1, <3>3
  <2> QED  BY <2>1, <2>3, <2>5 DEF Captured
<1>2. TypeOK /\ Captured /\ SaidAll /\ ChildAt /\ DrainsAt => CaptureIsWhole
  <2> SUFFICES ASSUME TypeOK, Captured, SaidAll, ChildAt, DrainsAt, caller = "returned",
                      NEW s \in Stream
               PROVE  Cut(lines[s], Whole(s))
    BY DEF CaptureIsWhole, Cut
  <2>1. drain[s] = "done" /\ Dead /\ wrote[s] = Len(says[s])
    BY DEF ChildAt, DrainsAt, SaidAll, Dead
  <2>2. read[s] = Len(says[s]) /\ Cut(lines[s], Flushed(Taken(s)))
    BY <2>1 DEF Captured
  <2>3. SubSeq(says[s], 1, Len(says[s])) = says[s]
    BY TakenTyped, SubSeqFull
  <2> QED  BY <2>2, <2>3 DEF Taken, Whole
<1> QED
  BY <1>1, <1>2, CaptureStep, SaidStep, ChildStep, DrainsStep, TypesHold, PTL DEF Spec
===========================================================================
