---------------------------- MODULE CommandRun ----------------------------
(* process.run: one coroutine starts a child process, two tasks drain its   *)
(* two pipes, and whatever happens the coroutine is the one that cleans up.  *)
(* The child, its descendants, the mirror the output is copied to and the    *)
(* caller that cancels are the environment.                                  *)
EXTENDS Integers, FiniteSets, Sequences, SequencesExt

CONSTANTS
  Stream,     \* the child's two output streams
  Output,     \* the byte sequences a child may write to a stream
  Capacity,   \* the bytes a pipe holds before its writer blocks
  Chunk,      \* the most bytes one read returns
  MaxCancel   \* how often the caller may be cancelled

ASSUME CommandRunAssumption ==
  /\ Capacity \in Nat \ {0} /\ Chunk \in Nat \ {0} /\ MaxCancel \in Nat
  /\ \A o \in Output : o \in Seq({"x", "lead", "tail", "cr", "nl"})

VARIABLES
  caller,    \* where run() is
  failure,   \* the exception it propagates
  quiet,     \* whether the mirrors are null devices of its own
  sinks,     \* are those open
  broken,    \* writing to a mirror raises
  status,    \* the child: returncode is known once it is reaped
  heir,      \* a descendant outlived the child and holds its pipes open
  says,      \* what the child has to say on each stream
  wrote, read, \* how many of those bytes entered and left the pipe
  drain,     \* the state of each drain task
  asked,     \* its cancellation is requested
  text,      \* its decoder and its pending text
  lines,     \* its sink_lines
  cancels

ends == <<caller, failure, sinks>>
child == <<status, heir, wrote>>
reader == <<read, drain, text, lines>>
vars == <<ends, quiet, broken, child, says, reader, asked, cancels>>

---------------------------------------------------------------------------
(* Decoding and line splitting                                              *)

\* An incremental decoder: a lead byte waits for its tail.
Fed(d, byte) ==
  LET late == IF d.lead THEN <<"replaced">> ELSE <<>>
  IN CASE byte = "lead" -> [lead |-> TRUE, out |-> d.out \o late]
       [] byte = "tail" -> [lead |-> FALSE,
            out |-> Append(d.out, IF d.lead THEN "wide" ELSE "replaced")]
       [] OTHER -> [lead |-> FALSE, out |-> Append(d.out \o late, byte)]

\* Mutant: every chunk is decoded on its own.
DecodedAlone(lead, bytes) ==
  LET d[n \in 0 .. Len(bytes)] ==
        IF n = 0 THEN [lead |-> FALSE, out |-> <<>>] ELSE Fed(d[n - 1], bytes[n])
  IN d[Len(bytes)]

Decoded(lead, bytes) ==
  LET d[n \in 0 .. Len(bytes)] ==
        IF n = 0 THEN [lead |-> lead, out |-> <<>>] ELSE Fed(d[n - 1], bytes[n])
  IN d[Len(bytes)]

Flushed(d) == IF d.lead THEN Append(d.out, "replaced") ELSE d.out

\* A line loses one carriage return before its newline.
Line(l) == Append(IF l # <<>> /\ Last(l) = "cr" THEN Front(l) ELSE l, "nl")
Split(p, char) ==
  IF char = "nl" THEN [done |-> Append(p.done, Line(p.rest)), rest |-> <<>>]
                 ELSE [p EXCEPT !.rest = Append(p.rest, char)]
Lines(pending, chars) ==
  LET p[n \in 0 .. Len(chars)] ==
        IF n = 0 THEN [done |-> <<>>, rest |-> pending] ELSE Split(p[n - 1], chars[n])
  IN p[Len(chars)]

---------------------------------------------------------------------------
Ended == caller \in {"returned", "raised"}
Dead == status \in {"zombie", "reaped"}
\* Mutant: the second stream is read when the first has ended.
ReadingInTurn(s) ==
  drain[s] = "reading" /\ (s = "stderr" => drain["stdout"] # "reading")

Reading(s) == drain[s] = "reading"

Init ==
  /\ caller = "start" /\ failure = "none" /\ sinks = TRUE
  /\ quiet \in BOOLEAN /\ broken = FALSE
  /\ status = "none" /\ heir = FALSE
  /\ says \in [Stream -> Output]
  /\ wrote = [s \in Stream |-> 0] /\ read = wrote
  /\ drain = [s \in Stream |-> "none"]
  /\ asked = [s \in Stream |-> FALSE]
  /\ text = [s \in Stream |-> [lead |-> FALSE, pending |-> <<>>]]
  /\ lines = [s \in Stream |-> <<>>]
  /\ cancels = 0

---------------------------------------------------------------------------
(* The environment                                                          *)

Write(s) ==
  /\ status = "running"
  /\ wrote[s] < Len(says[s]) /\ wrote[s] - read[s] < Capacity
  /\ wrote' = [wrote EXCEPT ![s] = wrote[s] + 1]
  /\ UNCHANGED <<ends, quiet, broken, status, heir, says, reader, asked, cancels>>

\* A child that said everything, or that was killed, ends; a descendant it
\* leaves behind may keep its pipes open.
Exit ==
  /\ status = "killed" \/ (status = "running" /\ \A s \in Stream : wrote[s] = Len(says[s]))
  /\ status' = "zombie" /\ heir' \in BOOLEAN
  /\ UNCHANGED <<ends, quiet, broken, wrote, says, reader, asked, cancels>>

HeirEnds ==
  /\ Dead /\ heir /\ heir' = FALSE
  /\ UNCHANGED <<ends, quiet, broken, status, wrote, says, reader, asked, cancels>>

MirrorBreaks ==
  /\ ~quiet /\ ~broken /\ ~Ended /\ broken' = TRUE
  /\ UNCHANGED <<ends, quiet, child, says, reader, asked, cancels>>

---------------------------------------------------------------------------
(* The event loop                                                           *)

\* The child watcher learns the return code.
Reap ==
  /\ status = "zombie" /\ status' = "reaped"
  /\ UNCHANGED <<ends, quiet, broken, heir, wrote, says, reader, asked, cancels>>

Spawn ==
  /\ caller = "start" /\ caller' = "gather" /\ status' = "running"
  /\ drain' = [s \in Stream |-> "reading"]
  /\ UNCHANGED <<failure, sinks, quiet, broken, heir, wrote, says, read, text, lines,
                 asked, cancels>>
SpawnFails ==
  /\ caller = "start" /\ caller' = "raised" /\ failure' = "unavailable"
  /\ UNCHANGED <<sinks, quiet, broken, child, says, reader, asked, cancels>>

\* emit appends to the capture before it writes to the mirror: a line that
\* could not be mirrored has been captured, those after it have not.
Emit(s, new, onwards) ==
  IF broken /\ new # <<>>
  THEN /\ lines' = [lines EXCEPT ![s] = Append(lines[s], Head(new))]
       /\ drain' = [drain EXCEPT ![s] = "failed"]
  ELSE /\ lines' = [lines EXCEPT ![s] = lines[s] \o new]
       /\ drain' = [drain EXCEPT ![s] = onwards]

Drain(s) ==
  /\ Reading(s) /\ ~asked[s]
  /\ \E k \in 1 .. Chunk :
       /\ k <= wrote[s] - read[s]
       /\ LET d == Decoded(text[s].lead, SubSeq(says[s], read[s] + 1, read[s] + k))
              p == Lines(text[s].pending, d.out)
          IN /\ text' = [text EXCEPT ![s] = [lead |-> d.lead, pending |-> p.rest]]
             /\ Emit(s, p.done, "reading")
       /\ read' = [read EXCEPT ![s] = read[s] + k]
  /\ UNCHANGED <<ends, quiet, broken, child, says, asked, cancels>>

\* The end of the stream: no writer holds the pipe and it is empty.
DrainEnd(s) ==
  /\ Reading(s) /\ ~asked[s] /\ Dead /\ ~heir /\ read[s] = wrote[s]
  /\ LET rest == text[s].pending \o Flushed([lead |-> text[s].lead, out |-> <<>>])
     IN Emit(s, IF rest = <<>> THEN <<>> ELSE <<rest>>, "done")
  /\ UNCHANGED <<ends, quiet, broken, child, says, read, text, asked, cancels>>

DrainCancelled(s) ==
  /\ Reading(s) /\ asked[s] /\ drain' = [drain EXCEPT ![s] = "cancelled"]
  /\ UNCHANGED <<ends, quiet, broken, child, says, read, text, lines, asked, cancels>>

Gathered ==
  /\ caller = "gather" /\ \A s \in Stream : drain[s] = "done"
  /\ failure = "none" /\ caller' = "wait"
  /\ UNCHANGED <<failure, sinks, quiet, broken, child, says, reader, asked, cancels>>

\* Mutant: the drains are left to run.
CleanUpBesideDrains(reason) ==
  /\ caller' = "reap" /\ failure' = reason
  /\ status' = IF status = "running" THEN "killed" ELSE status
  /\ UNCHANGED <<sinks, quiet, broken, heir, wrote, says, reader, asked>>

\* except BaseException: cancel the drains, kill a child that still runs.
CleanUp(reason) ==
  /\ caller' = "reap" /\ failure' = reason
  /\ asked' = [s \in Stream |-> TRUE]
  /\ status' = IF status = "running" THEN "killed" ELSE status
  /\ UNCHANGED <<sinks, quiet, broken, heir, wrote, says, reader>>

\* gather raises with the first task that failed or, once it was cancelled,
\* with the first task that was; it does not wait for the other.
GatherRaises(reason) ==
  /\ caller = "gather" /\ CleanUp(reason) /\ UNCHANGED cancels
  /\ \/ reason = "drain" /\ \E s \in Stream : drain[s] = "failed"
     \/ /\ reason = "cancelled" /\ failure = "cancelled"
        /\ (\E s \in Stream : drain[s] = "cancelled") \/ (\A s \in Stream : ~Reading(s))

CancelGather ==
  /\ caller = "gather" /\ cancels < MaxCancel /\ cancels' = cancels + 1
  /\ failure' = "cancelled" /\ asked' = [s \in Stream |-> TRUE]
  /\ UNCHANGED <<caller, sinks, quiet, broken, child, says, reader>>

CancelWait ==
  /\ caller = "wait" /\ cancels < MaxCancel /\ cancels' = cancels + 1
  /\ CleanUp("cancelled")

Waited ==
  /\ caller = "wait" /\ status = "reaped"
  /\ caller' = "returned" /\ sinks' = ~quiet
  /\ UNCHANGED <<failure, quiet, broken, child, says, reader, asked, cancels>>

\* Mutant: the killed child is not waited for.
ReapedAtOnce ==
  /\ caller = "reap" /\ caller' = "settle"
  /\ UNCHANGED <<failure, sinks, quiet, broken, child, says, reader, asked, cancels>>

Reaped ==
  /\ caller = "reap" /\ status = "reaped" /\ caller' = "settle"
  /\ UNCHANGED <<failure, sinks, quiet, broken, child, says, reader, asked, cancels>>

Settled ==
  /\ caller = "settle" /\ \A s \in Stream : ~Reading(s)
  /\ caller' = "raised" /\ sinks' = ~quiet
  /\ UNCHANGED <<failure, quiet, broken, child, says, reader, asked, cancels>>

\* A cancellation of the cleanup leaves it while it waits for the child; while
\* it waits for the drains it is noticed once they are settled.
CancelReap ==
  /\ caller = "reap" /\ cancels < MaxCancel /\ cancels' = cancels + 1
  /\ caller' = "raised" /\ failure' = "abandoned" /\ sinks' = ~quiet
  /\ UNCHANGED <<quiet, broken, child, says, reader, asked>>
CancelSettle ==
  /\ caller = "settle" /\ cancels < MaxCancel /\ cancels' = cancels + 1
  /\ failure' = "cancelled"
  /\ UNCHANGED <<caller, sinks, quiet, broken, child, says, reader, asked>>

---------------------------------------------------------------------------
Child == Exit \/ \E s \in Stream : Write(s)
Drains == \E s \in Stream : Drain(s) \/ DrainEnd(s) \/ DrainCancelled(s)
Caller == Spawn \/ SpawnFails \/ Gathered \/ Waited \/ Reaped \/ Settled
            \/ \E reason \in {"drain", "cancelled"} : GatherRaises(reason)
Cancel == CancelGather \/ CancelWait \/ CancelReap \/ CancelSettle

\* Nothing is left to do once the call is over and the child is gone.
Rest == Ended /\ status \in {"none", "reaped"} /\ ~heir /\ (\A s \in Stream : ~Reading(s))
          /\ UNCHANGED vars

Next == Child \/ HeirEnds \/ MirrorBreaks \/ Reap \/ Drains \/ Caller \/ Cancel \/ Rest

Spec == Init /\ [][Next]_vars

\* The loop runs what is ready, and the kernel ends what was killed. That a
\* child says all it has to and ends, or lets go of its pipes, is not assumed;
\* as releases of asyncio differ in it, nor is that process.wait wakes up
\* before nobody holds the pipes.
Fairness ==
  /\ WF_vars(Caller /\ (caller \in {"wait", "reap"} => ~heir)) /\ WF_vars(Reap) /\ WF_vars(status = "killed" /\ Exit)
  /\ \A s \in Stream : WF_vars(Drain(s) \/ DrainEnd(s) \/ DrainCancelled(s))
FairSpec == Spec /\ Fairness

---------------------------------------------------------------------------
TypeOK ==
  /\ caller \in {"start", "gather", "wait", "reap", "settle", "returned", "raised"}
  /\ failure \in {"none", "unavailable", "drain", "cancelled", "abandoned"}
  /\ quiet \in BOOLEAN /\ sinks \in BOOLEAN /\ broken \in BOOLEAN /\ heir \in BOOLEAN
  /\ status \in {"none", "running", "killed", "zombie", "reaped"}
  /\ says \in [Stream -> Output] /\ asked \in [Stream -> BOOLEAN]
  /\ wrote \in [Stream -> Nat] /\ read \in [Stream -> Nat]
  /\ \A s \in Stream : read[s] <= wrote[s] /\ wrote[s] <= Len(says[s])
  /\ drain \in [Stream -> {"none", "reading", "done", "failed", "cancelled"}]
  /\ cancels \in 0 .. MaxCancel

\* The text of a whole output, with every carriage return before a newline
\* dropped: what the capture has to be however the reads cut the bytes.
Whole(s) == Flushed(Decoded(FALSE, says[s]))
Kept(t) ==
  LET kept[n \in 0 .. Len(t)] ==
        IF n = 0 THEN <<>>
        ELSE IF t[n] = "cr" /\ n < Len(t) /\ t[n + 1] = "nl" THEN kept[n - 1]
        ELSE Append(kept[n - 1], t[n])
  IN kept[Len(t)]

\* A call that returns has captured all the child said, cut
\* into lines, although the reads cut characters and line ends in two.
CaptureIsWhole ==
  caller = "returned" => \A s \in Stream :
    /\ FlattenSeq(lines[s]) = Kept(Whole(s))
    /\ \A i \in DOMAIN lines[s] : \A k \in DOMAIN lines[s][i] :
         lines[s][i][k] = "nl" => k = Len(lines[s][i])
    /\ \A i \in DOMAIN lines[s] : i < Len(lines[s]) => Last(lines[s][i]) = "nl"

\* Whatever raised, in whatever order, the call does not leave a child running
\* on its own, and unless the cleanup itself was cancelled it has reaped it.
NoChildIsLeft ==
  Ended => /\ status # "running"
           /\ failure # "abandoned" => status \in {"none", "reaped"}

\* No drain that can still emit outlives the mirrors it writes to.
SinksOutliveDrains ==
  Ended => \A s \in Stream : Reading(s) => asked[s]

\* Once its descendants let go of the pipes, a call comes to an end whose child
\* does, though the child may fill both pipes in any order; and one of whose
\* drains failed, or that was cancelled, even if the child never would.
CallsEnd ==
  /\ WF_vars(Child) /\ WF_vars(HeirEnds) => (caller = "gather" ~> Ended)
  /\ WF_vars(HeirEnds) =>
       (failure # "none" \/ (\E s \in Stream : drain[s] = "failed") ~> Ended)
===========================================================================
