------------------------- MODULE GlobalWallProofs -------------------------
(***************************************************************************)
(* What TLAPS proves of GlobalWall, for any number of callers, identities, *)
(* contents, crashes at any step and acts of the user between any two:     *)
(* its type invariant, that the wall is its owner's, that the files the    *)
(* driver can tell are the user's survive, that what an interrupted create *)
(* left is never adopted, that a released wall leaves nothing, and that a  *)
(* crash leaves a layout the next call recognizes or half a move.          *)
(*                                                                         *)
(* Nothing is assumed of where a process dies or of when the user acts.    *)
(* The inductive invariant says which plans a phase of the journal has     *)
(* (Planned), which of the names beside the target it may have in use      *)
(* (Beside), and what the objects of a plan are (Aimed); a second one, on  *)
(* top of it, says what the names hold at each step while the user keeps   *)
(* away (Undisturbed).                                                     *)
(***************************************************************************)
EXTENDS GlobalWall, SequenceTheorems, TLAPS

\* What is left of the plans after each of their steps.
Fences == <<Do("fence", "target", "target"), Do("claim", "target", "target")>>
Claims == <<Do("claim", "target", "target")>>
Binds == <<Do("bind", "armed", "armed"), Do("link", "armed", "stage")>>
Names == <<Do("link", "armed", "stage")>>
NamesThenDeletes ==
  <<Do("link", "armed", "stage"), Do("confirm", "armed", "armed"), Do("remove", "armed", "armed")>>
Removes(n) == <<Do("remove", n, n)>>
Links(a, b) == <<Do("link", a, b), Do("withdraw", a, a)>>
Withdraws(a) == <<Do("withdraw", a, a)>>
Clears == <<Do("clear", "target", "target")>>
Deleting(n) == {Delete(n), Removes(n)}
Moving(a, b) == {Move(a, b), Links(a, b), Withdraws(a)}

\* The plans of each phase.
Planned ==
  plan # <<>> =>
    /\ call.op # "none"
    /\ wall.phase = "none" => plan \in {Fences, Claims}
    /\ wall.phase = "staging" => plan \in {CreateStage, Binds} \cup Deleting("armed")
    /\ wall.phase = "bound" => plan \in {Names, NamesThenDeletes} \cup Deleting("armed")
    /\ wall.phase = "applying" => plan \in Moving("target", "origin") \cup Moving("stage", "target")
    /\ wall.phase = "restoring" =>
         plan \in Deleting("target") \cup Deleting("managed")
                    \cup Moving("target", "managed") \cup Moving("origin", "target")
    /\ wall.phase = "released" => plan = Clears
    /\ wall.phase \notin {"origin", "applied", "restored"}

\* A wall has an owner, who makes the calls.
Owned ==
  /\ wall.phase # "none" => wall.owner \in Request
  /\ call.op # "none" => call.by \in Request /\ (wall.phase # "none" => call.by = wall.owner)

\* The names no phase before or after has in use, and the bound object's.
Unused(N) == \A n \in N : names[n] = Absent
Beside ==
  /\ wall.phase \in {"none", "origin", "restored", "released"} =>
       Unused({"stage", "armed", "origin", "managed"})
  /\ IF wall.phase \in {"none", "origin", "staging"} THEN wall.bound = Absent ELSE wall.bound \in Ident
  /\ wall.phase = "staging" => Unused({"stage", "origin", "managed"})
  /\ wall.phase = "bound" =>
       /\ Unused({"origin", "managed"})
       /\ {names["armed"], names["stage"]} \in {{wall.bound}, {Absent, wall.bound}}
  /\ wall.phase = "applying" => Unused({"armed", "managed"})
  /\ wall.phase = "applied" => Unused({"stage", "armed", "managed"})
  /\ wall.phase = "restoring" => Unused({"stage", "armed"})

\* An object to be deleted: at the target, where the user may replace it until it
\* is removed, it is not one the driver is to leave; anywhere else it is still
\* there, and is the user's only if it is the target as well.
Doomed(n) ==
  IF n = "target" THEN obj \notin mine /\ (plan = Removes(n) => names[n] \notin mine)
  ELSE names[n] = obj /\ (obj \in mine => names["target"] = obj)

\* What a plan is about: an object that was created is still the armed one, and a
\* name that is withdrawn is not the last of a file the driver is to leave.
Aimed ==
  /\ plan = Binds => obj \in Ident /\ names["armed"] = obj /\ content[obj].by # Torn
  /\ wall.phase = "bound" =>
       /\ plan \in {Names, NamesThenDeletes} => names["armed"] = wall.bound
       /\ plan \in Deleting("armed") => names["stage"] = wall.bound
  /\ \A a \in Name : plan = Withdraws(a) =>
       names[a] \notin mine \/ \E n \in Name \ {a} : names[n] = names[a]
  /\ \A n \in Name : plan \in Deleting(n) \/ (plan = NamesThenDeletes /\ n = "armed") => Doomed(n)

\* What the driver is to leave is a file of the user's, under some name; what is
\* being staged is neither the user's nor the target.
Kept ==
  /\ mine \subseteq UserFiles
  /\ wall.phase = "staging" /\ names["armed"] # Absent =>
       names["armed"] # names["target"] /\ content[names["armed"]].by # User

\* What an interrupted create left is at most armed.
Left ==
  \A i \in Ident : content[i].by = Torn =>
    /\ \A n \in Name \ {"armed"} : names[n] # i
    /\ wall.bound # i

Restful ==
  wall.phase \in {"restored", "released"} => touched \/ Seen("target") = wall.origin

\* The types of all but the plan.
Typed ==
  /\ names \in [Name -> Ident \cup {Absent}] /\ content \in [Ident -> Content]
  /\ wall \in [phase : Phase, owner : Request \cup {Absent},
               origin : Object \cup {Absent}, bound : Ident \cup {Absent}]
  /\ call \in [op : {"none", "apply", "restore"}, by : Request \cup {Absent}]
  /\ obj \in Ident \cup {Absent}
  /\ mine \subseteq Ident /\ touched \in BOOLEAN
  /\ crashes \in 0 .. MaxCrash /\ touches \in 0 .. MaxTouch

WallOK == Typed /\ Planned /\ Owned /\ Beside /\ Aimed /\ Kept /\ Left /\ Restful
---------------------------------------------------------------------------
(* Plans                                                                     *)

LEMMA Joined ==
  ASSUME NEW a, NEW b, NEW c
  PROVE  <<a>> \o <<b, c>> = <<a, b, c>>
<1> DEFINE A == <<a>>
           B == <<b, c>>
           C == <<a, b, c>>
           S == {a, b, c}
<1>1. A \in Seq(S) /\ B \in Seq(S) /\ C \in Seq(S)
  OBVIOUS
<1>2. Len(A) = 1 /\ Len(B) = 2 /\ Len(C) = 3 /\ A[1] = a /\ B[1] = b /\ B[2] = c
      /\ C[1] = a /\ C[2] = b /\ C[3] = c
  OBVIOUS
<1> HIDE DEF A, B, C, S
<1>3. A \o B \in Seq(S) /\ Len(A \o B) = Len(A) + Len(B)
      /\ \A i \in 1 .. Len(A) + Len(B) : (A \o B)[i] = IF i <= Len(A) THEN A[i] ELSE B[i - Len(A)]
  BY <1>1, ConcatProperties
<1>4. \A i \in 1 .. 3 : (A \o B)[i] = C[i]
  BY <1>2, <1>3
<1>5. A \o B = C
  BY <1>1, <1>2, <1>3, <1>4, SeqEqual
<1> QED  BY <1>5 DEF A, B, C

LEMMA Tails ==
  /\ Tail(Fences) = Claims /\ Tail(Claims) = <<>> /\ Tail(Clears) = <<>>
  /\ Tail(CreateStage) = Binds /\ Tail(Binds) = Names /\ Tail(Names) = <<>>
  /\ Tail(NamesThenDeletes) = Delete("armed")
  /\ <<Do("link", "armed", "stage")>> \o Delete("armed") = NamesThenDeletes
  /\ \A n : Tail(Delete(n)) = Removes(n) /\ Tail(Removes(n)) = <<>> /\ Tail(Withdraws(n)) = <<>>
  /\ \A a, b : Tail(Move(a, b)) = Links(a, b) /\ Tail(Links(a, b)) = Withdraws(a)
<1>1. ASSUME NEW a PROVE Tail(<<a>>) = <<>>
  OBVIOUS
<1>2. ASSUME NEW a, NEW b PROVE Tail(<<a, b>>) = <<b>>
  OBVIOUS
<1>3. ASSUME NEW a, NEW b, NEW c PROVE Tail(<<a, b, c>>) = <<b, c>>
  OBVIOUS
<1>4. Tail(Claims) = <<>> /\ Tail(Clears) = <<>> /\ Tail(Names) = <<>>
  BY Zenon, <1>1 DEF Claims, Clears, Names
<1>5. \A n : Tail(Removes(n)) = <<>> /\ Tail(Withdraws(n)) = <<>>
  BY Zenon, <1>1 DEF Removes, Withdraws
<1>6. Tail(Fences) = Claims /\ Tail(Binds) = Names
  BY Zenon, <1>2 DEF Fences, Claims, Binds, Names
<1>7. \A n : Tail(Delete(n)) = Removes(n)
  BY Zenon, <1>2 DEF Delete, Removes
<1>8. \A a, b : Tail(Links(a, b)) = Withdraws(a)
  BY Zenon, <1>2 DEF Links, Withdraws
<1>9. Tail(CreateStage) = Binds
  BY Zenon, <1>3 DEF CreateStage, Binds
<1>10. Tail(NamesThenDeletes) = Delete("armed")
  BY Zenon, <1>3 DEF NamesThenDeletes, Delete
<1>11. \A a, b : Tail(Move(a, b)) = Links(a, b)
  BY Zenon, <1>3 DEF Move, Links
<1>12. <<Do("link", "armed", "stage")>> \o Delete("armed") = NamesThenDeletes
  BY Zenon, Joined DEF NamesThenDeletes, Delete
<1> QED  BY <1>4, <1>5, <1>6, <1>7, <1>8, <1>9, <1>10, <1>11, <1>12

\* The first steps, the last ones and the lengths.
Begins(s, what, n, m) == s # <<>> /\ s[1] = [do |-> what, src |-> n, dst |-> m]
Ends(s, what, n, k) == Len(s) = k /\ s[Len(s)].do = what /\ s[Len(s)].src = n
LEMMA Heads ==
  /\ Begins(Fences, "fence", "target", "target") /\ Ends(Fences, "claim", "target", 2)
  /\ Begins(Claims, "claim", "target", "target") /\ Ends(Claims, "claim", "target", 1)
  /\ Begins(Clears, "clear", "target", "target") /\ Ends(Clears, "clear", "target", 1)
  /\ Begins(CreateStage, "create", "armed", "armed") /\ Ends(CreateStage, "link", "armed", 3)
  /\ Begins(Binds, "bind", "armed", "armed") /\ Ends(Binds, "link", "armed", 2)
  /\ Begins(Names, "link", "armed", "stage") /\ Ends(Names, "link", "armed", 1)
  /\ Begins(NamesThenDeletes, "link", "armed", "stage")
  /\ Ends(NamesThenDeletes, "remove", "armed", 3)
  /\ \A n : /\ Begins(Delete(n), "confirm", n, n) /\ Ends(Delete(n), "remove", n, 2)
            /\ Begins(Removes(n), "remove", n, n) /\ Ends(Removes(n), "remove", n, 1)
            /\ Begins(Withdraws(n), "withdraw", n, n) /\ Ends(Withdraws(n), "withdraw", n, 1)
  /\ \A a, b : /\ Begins(Move(a, b), "confirm", a, a) /\ Ends(Move(a, b), "withdraw", a, 3)
               /\ Begins(Links(a, b), "link", a, b) /\ Ends(Links(a, b), "withdraw", a, 2)
<1>1. ASSUME NEW w, NEW n, NEW m
      PROVE  Begins(<<Do(w, n, m)>>, w, n, m) /\ Ends(<<Do(w, n, m)>>, w, n, 1)
  BY DEF Begins, Ends, Do
<1>2. ASSUME NEW w, NEW n, NEW m, NEW v, NEW k, NEW l
      PROVE  LET s == <<Do(w, n, m), Do(v, k, l)>> IN Begins(s, w, n, m) /\ Ends(s, v, k, 2)
  BY DEF Begins, Ends, Do
<1>3. ASSUME NEW w, NEW n, NEW m, NEW x, NEW v, NEW k, NEW l
      PROVE  LET s == <<Do(w, n, m), x, Do(v, k, l)>> IN Begins(s, w, n, m) /\ Ends(s, v, k, 3)
  BY DEF Begins, Ends, Do
<1>4. /\ Begins(Claims, "claim", "target", "target") /\ Ends(Claims, "claim", "target", 1)
      /\ Begins(Clears, "clear", "target", "target") /\ Ends(Clears, "clear", "target", 1)
      /\ Begins(Names, "link", "armed", "stage") /\ Ends(Names, "link", "armed", 1)
      /\ \A n : /\ Begins(Removes(n), "remove", n, n) /\ Ends(Removes(n), "remove", n, 1)
                /\ Begins(Withdraws(n), "withdraw", n, n) /\ Ends(Withdraws(n), "withdraw", n, 1)
  BY Zenon, <1>1 DEF Claims, Clears, Names, Removes, Withdraws
<1>5. /\ Begins(Fences, "fence", "target", "target") /\ Ends(Fences, "claim", "target", 2)
      /\ Begins(Binds, "bind", "armed", "armed") /\ Ends(Binds, "link", "armed", 2)
      /\ \A n : Begins(Delete(n), "confirm", n, n) /\ Ends(Delete(n), "remove", n, 2)
      /\ \A a, b : Begins(Links(a, b), "link", a, b) /\ Ends(Links(a, b), "withdraw", a, 2)
  BY Zenon, <1>2 DEF Fences, Binds, Delete, Links
<1>6. /\ Begins(CreateStage, "create", "armed", "armed") /\ Ends(CreateStage, "link", "armed", 3)
      /\ Begins(NamesThenDeletes, "link", "armed", "stage")
      /\ Ends(NamesThenDeletes, "remove", "armed", 3)
      /\ \A a, b : Begins(Move(a, b), "confirm", a, a) /\ Ends(Move(a, b), "withdraw", a, 3)
  BY Zenon, <1>3 DEF CreateStage, NamesThenDeletes, Move
<1> QED  BY <1>4, <1>5, <1>6

LEMMA PlanTypes ==
  ASSUME Planned, wall.phase \in Phase
  PROVE  plan \in Seq(Step)
<1>1. \A w \in {"fence", "claim", "confirm", "link", "remove", "withdraw", "create", "bind", "clear"} :
        \A a, b \in Name : Do(w, a, b) \in Step
  BY DEF Do, Step
<1>2. \A a, b, c \in Step : <<a>> \in Seq(Step) /\ <<a, b>> \in Seq(Step) /\ <<a, b, c>> \in Seq(Step)
  OBVIOUS
<1>3. {"target", "stage", "armed", "origin", "managed"} \subseteq Name
  BY DEF Name
<1> HIDE DEF Step, Name
<1>4. {Fences, Claims, Clears, CreateStage, Binds, Names, NamesThenDeletes} \subseteq Seq(Step)
  BY <1>1, <1>2, <1>3 DEF Fences, Claims, Clears, CreateStage, Binds, Names, NamesThenDeletes
<1>5. \A n \in Name : Deleting(n) \subseteq Seq(Step)
  BY <1>1, <1>2 DEF Deleting, Delete, Removes
<1>6. \A a, b \in Name : Moving(a, b) \subseteq Seq(Step)
  BY <1>1, <1>2 DEF Moving, Move, Links, Withdraws
<1>7. <<>> \in Seq(Step)
  OBVIOUS
<1> QED  BY <1>3, <1>4, <1>5, <1>6, <1>7 DEF Planned, Phase

\* A look, and a pause between two calls, are when nothing is left to do.
LEMMA Pauses ==
  ASSUME Planned, wall.phase \in Phase
  PROVE  /\ At = "idle" => call.op = "none" /\ plan = <<>>
         /\ At = "look" => call.op # "none" /\ plan = <<>>
         /\ plan = <<>> => At \in {"idle", "look"}
<1>1. plan \in Seq(Step)
  BY PlanTypes
<1>2. plan # <<>> => plan[1] \in Step
  <2> HIDE DEF Step
  <2> QED  BY <1>1
<1>3. plan # <<>> => plan[1].do \notin {"idle", "look"}
  BY <1>2 DEF Step
<1> QED  BY <1>3 DEF At, Planned

\* The moves of each phase, and its deletions.
Route(a, b) ==
  \/ wall.phase = "applying" /\ ((a = "target" /\ b = "origin") \/ (a = "stage" /\ b = "target"))
  \/ wall.phase = "restoring" /\ ((a = "target" /\ b = "managed") \/ (a = "origin" /\ b = "target"))
Waste(n) ==
  \/ wall.phase \in {"staging", "bound"} /\ n = "armed"
  \/ wall.phase = "restoring" /\ n \in {"target", "managed"}

\* Which plan a step that is not a look belongs to.
LEMMA Steps ==
  ASSUME Planned, wall.phase \in Phase, NEW w, At = w, w \notin {"idle", "look"}
  PROVE  /\ call.op # "none" /\ plan # <<>>
         /\ w = "fence" => wall.phase = "none" /\ plan = Fences
         /\ w = "claim" => wall.phase = "none" /\ plan = Claims
         /\ w = "create" => wall.phase = "staging" /\ plan = CreateStage
         /\ w = "bind" => wall.phase = "staging" /\ plan = Binds
         /\ w = "clear" => wall.phase = "released" /\ plan = Clears
         /\ w = "confirm" => \/ \E n \in Name : Waste(n) /\ plan = Delete(n) /\ Src = n
                             \/ \E a, b \in Name : Route(a, b) /\ plan = Move(a, b) /\ Src = a
         /\ w = "remove" => \E n \in Name : Waste(n) /\ plan = Removes(n) /\ Src = n
         /\ w = "withdraw" => \E a, b \in Name : Route(a, b) /\ plan = Withdraws(a) /\ Src = a
         /\ w = "link" =>
              \/ wall.phase = "bound" /\ plan \in {Names, NamesThenDeletes}
                   /\ Src = "armed" /\ Dst = "stage"
              \/ \E a, b \in Name : Route(a, b) /\ plan = Links(a, b) /\ Src = a /\ Dst = b
<1>1. call.op # "none" /\ plan # <<>> /\ plan[1].do = w
  BY DEF At
<1>2. {"target", "stage", "armed", "origin", "managed"} \subseteq Name
  BY DEF Name
<1>3. \/ wall.phase = "none" /\ plan \in {Fences, Claims}
      \/ wall.phase = "staging" /\ plan \in {CreateStage, Binds}
      \/ wall.phase = "bound" /\ plan \in {Names, NamesThenDeletes}
      \/ wall.phase = "released" /\ plan = Clears
      \/ \E n \in Name : Waste(n) /\ plan \in Deleting(n)
      \/ \E a, b \in Name : Route(a, b) /\ plan \in Moving(a, b)
  <2>1. CASE wall.phase = "staging"
    BY <1>1, <1>2, <2>1 DEF Planned, Waste
  <2>2. CASE wall.phase = "bound"
    BY <1>1, <1>2, <2>2 DEF Planned, Waste
  <2>3. CASE wall.phase = "applying"
    BY <1>1, <1>2, <2>3 DEF Planned, Route
  <2>4. CASE wall.phase = "restoring"
    BY <1>1, <1>2, <2>4 DEF Planned, Route, Waste
  <2>5. CASE wall.phase \in {"none", "origin", "applied", "restored", "released"}
    BY <1>1, <2>5 DEF Planned
  <2> QED  BY <2>1, <2>2, <2>3, <2>4, <2>5 DEF Phase
<1>4. CASE wall.phase = "none" /\ plan \in {Fences, Claims}
  BY <1>1, <1>4, Heads DEF Begins
<1>5. CASE wall.phase = "staging" /\ plan \in {CreateStage, Binds}
  BY <1>1, <1>5, Heads DEF Begins
<1>6. CASE wall.phase = "bound" /\ plan \in {Names, NamesThenDeletes}
  BY <1>1, <1>6, Heads DEF Begins, Src, Dst
<1>7. CASE wall.phase = "released" /\ plan = Clears
  BY <1>1, <1>7, Heads DEF Begins
<1>8. ASSUME NEW n \in Name, Waste(n), plan \in Deleting(n)
      PROVE  \/ w = "confirm" /\ plan = Delete(n) /\ Src = n
             \/ w = "remove" /\ plan = Removes(n) /\ Src = n
  <2>1. Begins(Delete(n), "confirm", n, n) /\ Begins(Removes(n), "remove", n, n)
    BY Heads
  <2>2. (plan = Delete(n) => w = "confirm" /\ Src = n) /\ (plan = Removes(n) => w = "remove" /\ Src = n)
    BY <1>1, <2>1 DEF Begins, Src
  <2> QED  BY <1>8, <2>2 DEF Deleting
<1>9. ASSUME NEW a \in Name, NEW b \in Name, Route(a, b), plan \in Moving(a, b)
      PROVE  \/ w = "confirm" /\ plan = Move(a, b) /\ Src = a
             \/ w = "link" /\ plan = Links(a, b) /\ Src = a /\ Dst = b
             \/ w = "withdraw" /\ plan = Withdraws(a) /\ Src = a
  <2>1. /\ Begins(Move(a, b), "confirm", a, a) /\ Begins(Links(a, b), "link", a, b)
        /\ Begins(Withdraws(a), "withdraw", a, a)
    BY Heads
  <2>2. /\ plan = Move(a, b) => w = "confirm" /\ Src = a
        /\ plan = Links(a, b) => w = "link" /\ Src = a /\ Dst = b
        /\ plan = Withdraws(a) => w = "withdraw" /\ Src = a
    BY <1>1, <2>1 DEF Begins, Src, Dst
  <2> QED  BY <1>9, <2>2 DEF Moving
<1>10. CASE \E n \in Name : Waste(n) /\ plan \in Deleting(n)
  BY <1>1, <1>8, <1>10
<1>11. CASE \E a, b \in Name : Route(a, b) /\ plan \in Moving(a, b)
  BY <1>1, <1>9, <1>11
<1> QED  BY <1>3, <1>4, <1>5, <1>6, <1>7, <1>10, <1>11

\* The plans whose progress Aimed follows differ from each other and from the rest.
Unaimed(s) ==
  /\ s # Binds /\ s # Names /\ s # NamesThenDeletes
  /\ \A n \in Name : s # Delete(n) /\ s # Removes(n) /\ s # Withdraws(n)
LEMMA PlansDiffer ==
  /\ Unaimed(<<>>) /\ Unaimed(Fences) /\ Unaimed(Claims) /\ Unaimed(Clears) /\ Unaimed(CreateStage)
  /\ \A a, b \in Name : Unaimed(Move(a, b)) /\ Unaimed(Links(a, b))
  /\ Binds # Names /\ Binds # NamesThenDeletes /\ Names # NamesThenDeletes
  /\ \A n \in Name :
       /\ Binds \notin {Delete(n), Removes(n), Withdraws(n)}
       /\ Names \notin {Delete(n), Removes(n), Withdraws(n)}
       /\ NamesThenDeletes \notin {Delete(n), Removes(n), Withdraws(n)}
  /\ \A n, m \in Name :
       /\ Delete(n) # Removes(m) /\ Delete(n) # Withdraws(m) /\ Removes(n) # Withdraws(m)
       /\ Delete(n) = Delete(m) => n = m
       /\ Removes(n) = Removes(m) => n = m
       /\ Withdraws(n) = Withdraws(m) => n = m
<1>1. /\ Fences[1].do = "fence" /\ Claims[1].do = "claim" /\ Clears[1].do = "clear"
      /\ CreateStage[1].do = "create" /\ Binds[1].do = "bind" /\ Names[1].do = "link"
      /\ NamesThenDeletes[1].do = "link" /\ Len(Names) = 1 /\ Len(NamesThenDeletes) = 3
  <2>1. /\ Begins(Fences, "fence", "target", "target") /\ Begins(Claims, "claim", "target", "target")
        /\ Begins(Clears, "clear", "target", "target")
        /\ Begins(CreateStage, "create", "armed", "armed") /\ Begins(Binds, "bind", "armed", "armed")
        /\ Begins(Names, "link", "armed", "stage") /\ Ends(Names, "link", "armed", 1)
        /\ Begins(NamesThenDeletes, "link", "armed", "stage")
        /\ Ends(NamesThenDeletes, "remove", "armed", 3)
    BY Zenon, Heads
  <2> QED  BY <2>1 DEF Begins, Ends
<1>2. \A n : /\ Delete(n)[1].do = "confirm" /\ Delete(n)[1].src = n /\ Len(Delete(n)) = 2
             /\ Removes(n)[1].do = "remove" /\ Removes(n)[1].src = n
             /\ Withdraws(n)[1].do = "withdraw" /\ Withdraws(n)[1].src = n
  <2> SUFFICES ASSUME NEW n
               PROVE  /\ Delete(n)[1].do = "confirm" /\ Delete(n)[1].src = n /\ Len(Delete(n)) = 2
                      /\ Removes(n)[1].do = "remove" /\ Removes(n)[1].src = n
                      /\ Withdraws(n)[1].do = "withdraw" /\ Withdraws(n)[1].src = n
    OBVIOUS
  <2>1. /\ Begins(Delete(n), "confirm", n, n) /\ Ends(Delete(n), "remove", n, 2)
        /\ Begins(Removes(n), "remove", n, n) /\ Begins(Withdraws(n), "withdraw", n, n)
    BY Zenon, Heads
  <2> QED  BY <2>1 DEF Begins, Ends
<1>3. \A a, b : /\ Move(a, b)[1].do = "confirm" /\ Len(Move(a, b)) = 3
                /\ Links(a, b)[1].do = "link" /\ Len(Links(a, b)) = 2
  <2> SUFFICES ASSUME NEW a, NEW b
               PROVE  /\ Move(a, b)[1].do = "confirm" /\ Len(Move(a, b)) = 3
                      /\ Links(a, b)[1].do = "link" /\ Len(Links(a, b)) = 2
    OBVIOUS
  <2>1. /\ Begins(Move(a, b), "confirm", a, a) /\ Ends(Move(a, b), "withdraw", a, 3)
        /\ Begins(Links(a, b), "link", a, b) /\ Ends(Links(a, b), "withdraw", a, 2)
    BY Zenon, Heads
  <2> QED  BY <2>1 DEF Begins, Ends
<1>4. <<>> \notin {Fences, Claims, Clears, CreateStage, Binds, Names, NamesThenDeletes}
      /\ \A n : <<>> \notin {Delete(n), Removes(n), Withdraws(n)}
  BY Heads DEF Begins
<1>5. /\ Unaimed(<<>>) /\ Unaimed(Fences) /\ Unaimed(Claims) /\ Unaimed(Clears)
      /\ Unaimed(CreateStage)
  BY <1>1, <1>2, <1>4 DEF Unaimed
<1>6. \A a, b \in Name : Unaimed(Move(a, b)) /\ Unaimed(Links(a, b))
  BY <1>1, <1>2, <1>3 DEF Unaimed
<1>7. Binds # Names /\ Binds # NamesThenDeletes /\ Names # NamesThenDeletes
  BY <1>1
<1>8. \A n \in Name :
       /\ Binds \notin {Delete(n), Removes(n), Withdraws(n)}
       /\ Names \notin {Delete(n), Removes(n), Withdraws(n)}
       /\ NamesThenDeletes \notin {Delete(n), Removes(n), Withdraws(n)}
  BY <1>1, <1>2
<1>9. \A n, m \in Name :
       /\ Delete(n) # Removes(m) /\ Delete(n) # Withdraws(m) /\ Removes(n) # Withdraws(m)
       /\ Delete(n) = Delete(m) => n = m
       /\ Removes(n) = Removes(m) => n = m
       /\ Withdraws(n) = Withdraws(m) => n = m
  BY <1>2
<1> QED  BY <1>5, <1>6, <1>7, <1>8, <1>9

\* What each plan asks of the objects it is about.
Armed(o) == o \in Ident /\ names["armed"] = o /\ content[o].by # Torn

LEMMA Aims ==
  /\ Unaimed(plan') => Aimed'
  /\ plan' = Binds /\ Armed(obj)' => Aimed'
  /\ plan' = Names /\ names'["armed"] = wall'.bound => Aimed'
  /\ plan' = NamesThenDeletes /\ names'["armed"] = wall'.bound /\ Doomed("armed")' => Aimed'
  /\ \A n \in Name :
       /\ plan' = Delete(n) /\ Doomed(n)' /\ (wall'.phase = "bound" => names'["stage"] = wall'.bound) => Aimed'
       /\ plan' = Removes(n) /\ Doomed(n)' /\ (wall'.phase = "bound" => names'["stage"] = wall'.bound) => Aimed'
       /\ plan' = Withdraws(n) /\ (\E m \in Name \ {n} : names'[m] = names'[n]) => Aimed'
<1> USE DEF Deleting
<1>0. "armed" \in Name
  BY DEF Name
<1>1. Unaimed(plan') => Aimed'
  BY <1>0 DEF Unaimed, Aimed
<1>2. plan' = Binds /\ Armed(obj)' => Aimed'
  BY <1>0, PlansDiffer DEF Aimed, Armed
<1>3. plan' = Names /\ names'["armed"] = wall'.bound => Aimed'
  BY <1>0, PlansDiffer DEF Aimed
<1>4. plan' = NamesThenDeletes /\ names'["armed"] = wall'.bound /\ Doomed("armed")' => Aimed'
  BY <1>0, PlansDiffer DEF Aimed
<1>5. ASSUME NEW n \in Name, plan' = Delete(n), Doomed(n)', wall'.phase = "bound" => names'["stage"] = wall'.bound
      PROVE  Aimed'
  BY <1>0, <1>5, PlansDiffer DEF Aimed
<1>6. ASSUME NEW n \in Name, plan' = Removes(n), Doomed(n)',
             wall'.phase = "bound" => names'["stage"] = wall'.bound
      PROVE  Aimed'
  BY <1>0, <1>6, PlansDiffer DEF Aimed
<1>7. ASSUME NEW n \in Name, plan' = Withdraws(n), \E m \in Name \ {n} : names'[m] = names'[n]
      PROVE  Aimed'
  BY <1>0, <1>7, PlansDiffer DEF Aimed
<1> QED  BY <1>1, <1>2, <1>3, <1>4, <1>5, <1>6, <1>7
---------------------------------------------------------------------------
(* Looks                                                                     *)

LEMMA Members == {"target", "stage", "armed", "origin", "managed"} = Name
BY DEF Name

\* What a look tells of a name.
LEMMA Looks ==
  ASSUME Typed, NEW n \in Name
  PROVE  /\ Seen(n) \in Object \cup {Absent}
         /\ Seen(n) = Absent <=> names[n] = Absent
         /\ Seen(n) # Absent => Seen(n).id = names[n] /\ Seen(n).content = content[names[n]]
<1>1. names[n] \in Ident \cup {Absent}
  BY DEF Typed
<1>2. CASE names[n] = Absent
  BY <1>2 DEF Seen
<1>3. CASE names[n] # Absent
  <2>1. [id |-> names[n], content |-> content[names[n]]] \in Object
    BY <1>1, <1>3 DEF Typed, Object
  <2>2. Seen(n) = [id |-> names[n], content |-> content[names[n]]]
    BY <1>3 DEF Seen
  <2>3. [id |-> names[n], content |-> content[names[n]]].id = names[n]
        /\ [id |-> names[n], content |-> content[names[n]]].content = content[names[n]]
    OBVIOUS
  <2> QED  BY <1>3, <2>1, <2>2, <2>3, AbsentAssumption
<1> QED  BY <1>2, <1>3

\* What the journal's own object is: bound, and not written by the user.
LEMMA Wanted ==
  ASSUME WallOK, wall.phase \notin {"none", "origin", "staging"}, NEW n \in Name, Seen(n) = Want
  PROVE  names[n] = wall.bound /\ wall.bound \in Ident /\ wall.bound \notin mine \cup UserFiles
<1>1. Want.id = wall.bound /\ Want.content.by = wall.owner
  BY DEF Want, Desired
<1>2. wall.owner \in Request /\ wall.owner # User /\ Typed /\ wall.bound \in Ident
  BY AbsentAssumption DEF WallOK, Owned, Beside
<1>3. Seen(n) # Absent
  <2>1. Base(wall.origin) \in Bytes
    BY <1>2, ContentsAssumption DEF Typed, Base, Object, Content
  <2>2. Want \in Object
    BY <1>2, <2>1 DEF Want, Desired, Object, Content
  <2> QED  BY <2>2, AbsentAssumption
<1>4. names[n] = wall.bound /\ content[wall.bound].by # User
  BY <1>1, <1>2, <1>3, Looks
<1> QED  BY <1>2, <1>4 DEF WallOK, Kept, UserFiles

\* A step that only moves the call, with or without a look.
LEMMA QuietStep ==
  ASSUME WallOK, UNCHANGED <<disk, wall, touched, bounds>>, mine' \in {mine, mine \cup UserFiles},
         Planned', Owned', Aimed',
         call' \in [op : {"none", "apply", "restore"}, by : Request \cup {Absent}],
         obj' \in Ident \cup {Absent}
  PROVE  WallOK'
<1>1. names' = names /\ content' = content /\ wall' = wall /\ touched' = touched
      /\ crashes' = crashes /\ touches' = touches
  BY DEF disk, bounds
<1>2. UserFiles' = UserFiles /\ UserFiles \subseteq Ident
  BY <1>1 DEF UserFiles
<1>3. Typed'
  BY <1>1, <1>2 DEF WallOK, Typed
<1>4. Beside' /\ Left'
  BY <1>1 DEF WallOK, Beside, Unused, Left
<1>5. Kept'
  BY <1>1, <1>2 DEF WallOK, Kept
<1>6. Restful'
  BY <1>1 DEF WallOK, Restful, Seen
<1> QED  BY <1>3, <1>4, <1>5, <1>6 DEF WallOK

\* No plan is one that nothing is asked of.
LEMMA NoPlan == plan' = <<>> => Planned' /\ Aimed'
BY PlansDiffer, Aims DEF Planned

LEMMA CallSteps ==
  ASSUME WallOK, NEW r \in Request, StartApply(r) \/ StartRestore(r)
  PROVE  WallOK'
<1>1. call.op = "none" /\ plan = <<>>
  BY Pauses DEF StartApply, StartRestore, WallOK, Typed
<1>2. UNCHANGED <<disk, wall, ghosts, bounds>> /\ obj' = obj /\ Admitted(r)
  BY DEF StartApply, StartRestore
<1>3. \/ call' = [op |-> "apply", by |-> r] \/ call' = [op |-> "restore", by |-> r]
  BY DEF StartApply, StartRestore
<1>4. Owned'
  BY <1>2, <1>3 DEF WallOK, Owned, Admitted
<1>5. \/ plan' = <<>> \/ (wall.phase = "none" /\ plan' = Fences)
  BY <1>1 DEF StartApply, StartRestore, Fences
<1>6. Planned' /\ Aimed'
  <2>1. CASE plan' = <<>>
    BY <2>1, NoPlan
  <2>2. CASE wall.phase = "none" /\ plan' = Fences
    BY <1>2, <1>3, <2>2, PlansDiffer, Aims DEF Planned
  <2> QED  BY <1>5, <2>1, <2>2
<1> QED  BY <1>2, <1>3, <1>4, <1>6, QuietStep DEF WallOK, Typed, ghosts

\* The steps a look decides on.
LEMMA DecideSteps ==
  ASSUME WallOK, StageMissing \/ ArmedLeftover \/ ArmedBound \/ WithdrawArmed \/ RetainOrigin
                 \/ PublishStage \/ DeleteManaged \/ RetireManaged \/ PublishOrigin
                 \/ CleanManaged \/ VerifyReleased
  PROVE  WallOK'
<1>1. plan = <<>> /\ call.op # "none" /\ UNCHANGED <<disk, wall, call, touched, bounds>>
      /\ mine' = mine \cup UserFiles
  BY Pauses DEF WallOK, Typed, StageMissing, ArmedLeftover, ArmedBound, WithdrawArmed, RetainOrigin, PublishStage,
         DeleteManaged, RetireManaged, PublishOrigin, CleanManaged, VerifyReleased, Looking,
         Decide, Intend
<1>2. Typed /\ Owned'
  BY <1>1 DEF WallOK, Owned
<1>3. wall' = wall /\ names' = names /\ content' = content /\ call' = call
  BY <1>1 DEF disk
<1>4. obj' \in Ident \cup {Absent} /\ Planned' /\ Aimed' => WallOK'
  BY <1>1, <1>2, <1>3, QuietStep DEF Typed
<1>5. ASSUME NEW a \in Name, NEW b \in Name, Route(a, b), plan' = Move(a, b)
      PROVE  Planned' /\ Aimed'
  <2>1. Planned'
    BY <1>1, <1>3, <1>5 DEF Planned, Route, Moving
  <2> QED  BY <1>5, <2>1, PlansDiffer, Aims
<1>6. ASSUME NEW n \in Name, Waste(n), plan' = Delete(n), obj' = names[n], obj' \notin mine',
             wall.phase = "bound" => names["stage"] = wall.bound
      PROVE  Planned' /\ Aimed'
  <2>1. Planned'
    BY <1>1, <1>3, <1>6 DEF Planned, Waste, Deleting
  <2>2. Doomed(n)'
    BY <1>3, <1>6, PlansDiffer DEF Doomed
  <2> QED  BY <1>3, <1>6, <2>1, <2>2, Aims
<1>7. wall.phase \in Phase /\ wall.bound \in Ident \cup {Absent} /\ \A n \in Name : names[n] \in Ident \cup {Absent}
  BY <1>2 DEF Typed
<1>8. CASE StageMissing
  <2>1. names["stage"] = Absent /\ names["armed"] = Absent
    BY <1>2, <1>8, Looks, Members DEF StageMissing
  <2>2. wall.phase = "staging"
    BY <1>8, <2>1, AbsentAssumption DEF StageMissing, StageResumable, WallOK, Beside
  <2>3. plan' = CreateStage /\ obj' = Absent
    BY <1>8 DEF StageMissing, Decide, Intend
  <2>4. Planned'
    BY <1>1, <1>3, <2>2, <2>3 DEF Planned
  <2> QED  BY <1>4, <2>3, <2>4, PlansDiffer, Aims
<1>9. CASE ArmedLeftover
  <2>1. names["armed"] # Absent /\ wall.phase = "staging" /\ plan' = Delete("armed")
        /\ obj' = names["armed"]
    BY <1>2, <1>9, Looks, Members DEF ArmedLeftover, Decide, Intend
  <2>2. names["armed"] \notin mine'
    BY <1>1, <2>1 DEF WallOK, Kept, UserFiles
  <2> QED  BY <1>4, <1>6, <1>7, <2>1, <2>2, Members DEF Waste
<1>10. CASE ArmedBound
  <2>1. /\ wall.phase = "bound" /\ Seen("armed") = Want /\ obj' = wall.bound
        /\ plan' = <<Do("link", "armed", "stage")>> \o Delete("armed")
    BY <1>10 DEF ArmedBound, Decide, Intend
  <2>2. names["armed"] = wall.bound /\ wall.bound \in Ident /\ wall.bound \notin mine'
    BY <1>1, <2>1, Wanted, Members
  <2>3. plan' = NamesThenDeletes
    BY <2>1, Tails
  <2>4. Planned'
    BY <1>1, <1>3, <2>1, <2>3 DEF Planned
  <2>5. Doomed("armed")'
    BY <1>3, <2>1, <2>2 DEF Doomed
  <2> QED  BY <1>3, <1>4, <2>1, <2>2, <2>3, <2>4, <2>5, Aims
<1>11. CASE WithdrawArmed
  <2>1. /\ wall.phase = "bound" /\ Seen("armed") = Want /\ Seen("stage") = Want
        /\ obj' = wall.bound /\ plan' = Delete("armed")
    BY <1>11 DEF WithdrawArmed, Decide, Intend
  <2>2. names["armed"] = wall.bound /\ names["stage"] = wall.bound /\ wall.bound \in Ident
        /\ wall.bound \notin mine'
    BY <1>1, <2>1, Wanted, Members
  <2> QED  BY <1>4, <1>6, <2>1, <2>2, Members DEF Waste
<1>12. CASE RetainOrigin \/ PublishStage \/ RetireManaged \/ PublishOrigin
  <2>1. /\ obj' = wall.bound \/ (obj' = wall.origin.id /\ wall.origin # Absent)
        /\ \/ Route("target", "origin") /\ plan' = Move("target", "origin")
           \/ Route("stage", "target") /\ plan' = Move("stage", "target")
           \/ Route("target", "managed") /\ plan' = Move("target", "managed")
           \/ Route("origin", "target") /\ plan' = Move("origin", "target")
    BY <1>12 DEF RetainOrigin, PublishStage, RetireManaged, PublishOrigin, OriginPending,
                 Decide, Intend, Route
  <2>2. wall.origin # Absent => wall.origin.id \in Ident
    BY <1>2 DEF Typed, Object
  <2> QED  BY <1>4, <1>5, <1>7, <2>1, <2>2, Members
<1>13. CASE DeleteManaged \/ CleanManaged
  <2>1. /\ wall.phase = "restoring" /\ obj' = wall.bound
        /\ \/ plan' = Delete("target") /\ Seen("target") = Want
           \/ plan' = Delete("managed") /\ Seen("managed") = Want
    BY <1>13 DEF DeleteManaged, CleanManaged, InForce, ManagedLeft, Decide, Intend
  <2>2. \A n \in Name : Seen(n) = Want =>
          names[n] = wall.bound /\ wall.bound \in Ident /\ wall.bound \notin mine'
    BY <1>1, <2>1, Wanted
  <2> QED  BY <1>4, <1>6, <2>1, <2>2, Members DEF Waste
<1>14. CASE VerifyReleased
  <2>1. wall.phase = "released" /\ plan' = Clears /\ obj' = Absent
    BY <1>14 DEF VerifyReleased, Decide, Intend, Clears
  <2>2. Planned'
    BY <1>1, <1>3, <2>1 DEF Planned
  <2> QED  BY <1>4, <2>1, <2>2, PlansDiffer, Aims
<1> QED  BY <1>8, <1>9, <1>10, <1>11, <1>12, <1>13, <1>14

\* A call that ends leaves nothing to do.
LEMMA Ended == Stop => /\ call'.op = "none" /\ plan' = <<>> /\ obj' = Absent
                       /\ call' \in [op : {"none", "apply", "restore"}, by : Request \cup {Absent}]
BY DEF Stop, NoCall

\* The phases the journal records.
LEMMA RecordSteps ==
  ASSUME WallOK, BeginStage \/ BeginApply \/ SettleApply \/ BeginRestore \/ SettleRestore \/ Release
  PROVE  WallOK'
<1>1. plan = <<>> /\ call.op # "none"
  BY Pauses DEF WallOK, Typed, BeginStage, BeginApply, SettleApply, BeginRestore, SettleRestore,
                Release, Looking
<1>2. Typed /\ Owned /\ Beside /\ Kept /\ Left /\ Restful
  BY DEF WallOK
<1>3. ASSUME NEW ph \in Phase, Record(ph),
             UNCHANGED driver \/ Stop \/ (ph = "released" /\ Intend(Clears, Absent)),
             wall.phase # "none", ph # "none", Beside',
             ph \in {"restored", "released"} => Seen("target") = wall.origin,
             ph = "staging" => names["armed"] = Absent
      PROVE  WallOK'
  <2>1. wall' = [wall EXCEPT !.phase = ph] /\ UNCHANGED <<disk, ghosts, bounds>>
    BY <1>3 DEF Record
  <2>2. wall'.phase = ph /\ wall'.owner = wall.owner /\ wall'.origin = wall.origin
        /\ wall'.bound = wall.bound
    BY <1>2, <2>1 DEF Typed
  <2>3. names' = names /\ content' = content /\ mine' = mine /\ touches' = touches
        /\ touched' = touched /\ crashes' = crashes
    BY <2>1 DEF disk, ghosts, bounds
  <2>4. /\ call' \in [op : {"none", "apply", "restore"}, by : Request \cup {Absent}]
        /\ obj' \in Ident \cup {Absent}
        /\ call' = call \/ call'.op = "none"
        /\ plan' = <<>> \/ (ph = "released" /\ plan' = Clears /\ call' = call)
    BY <1>1, <1>2, <1>3, Ended DEF driver, Intend, Typed
  <2>5. Typed'
    BY <1>2, <1>3, <2>1, <2>3, <2>4 DEF Typed
  <2>6. Owned'
    BY <1>2, <1>3, <2>2, <2>4 DEF Owned
  <2>7. Planned' /\ Aimed'
    <3>1. CASE plan' = <<>>
      BY <3>1, NoPlan
    <3>2. CASE ph = "released" /\ plan' = Clears /\ call' = call
      BY <1>1, <2>2, <3>2, PlansDiffer, Aims DEF Planned
    <3> QED  BY <2>4, <3>1, <3>2
  <2>8. Kept'
    BY <1>2, <1>3, <2>2, <2>3 DEF Kept, UserFiles
  <2>9. Left'
    BY <1>2, <2>2, <2>3 DEF Left
  <2>10. Restful'
    BY <1>2, <1>3, <2>2, <2>3 DEF Restful, Seen
  <2> QED  BY <1>3, <2>5, <2>6, <2>7, <2>8, <2>9, <2>10 DEF WallOK
<1>4. ASSUME NEW ph \in Phase, Record(ph)
      PROVE  wall'.phase = ph /\ wall'.bound = wall.bound /\ names' = names
  BY <1>2, <1>4 DEF Record, Typed, disk
<1>5. \A n \in Name : Seen(n) = Absent <=> names[n] = Absent
  BY <1>2, Looks
<1>6. CASE BeginStage
  <2>1. wall.phase = "origin" /\ Record("staging") /\ UNCHANGED driver /\ "staging" \in Phase
    BY <1>6 DEF BeginStage, Phase
  <2>2. Beside' /\ names["armed"] = Absent
    BY <1>2, <1>4, <2>1 DEF Beside, Unused
  <2> QED  BY <1>3, <2>1, <2>2
<1>7. CASE BeginApply
  <2>1. wall.phase = "bound" /\ Record("applying") /\ UNCHANGED driver /\ "applying" \in Phase
        /\ names["armed"] = Absent
    BY <1>5, <1>7, Members DEF BeginApply, Phase
  <2>2. Beside'
    BY <1>2, <1>4, <2>1 DEF Beside, Unused
  <2> QED  BY <1>3, <2>1, <2>2
<1>8. CASE SettleApply
  <2>1. wall.phase \in {"applying", "applied"} /\ Record("applied") /\ Stop /\ "applied" \in Phase
        /\ names["stage"] = Absent
    BY <1>5, <1>8, Members DEF SettleApply, Published, Phase
  <2>2. Beside'
    BY <1>2, <1>4, <2>1 DEF Beside, Unused
  <2> QED  BY <1>3, <2>1, <2>2
<1>9. CASE BeginRestore
  <2>1. wall.phase = "applied" /\ Record("restoring") /\ UNCHANGED driver /\ "restoring" \in Phase
    BY <1>9 DEF BeginRestore, Phase
  <2>2. Beside'
    BY <1>2, <1>4, <2>1 DEF Beside, Unused
  <2> QED  BY <1>3, <2>1, <2>2
<1>10. CASE SettleRestore
  <2>1. wall.phase = "restoring" /\ Record("restored") /\ UNCHANGED driver /\ "restored" \in Phase
        /\ names["origin"] = Absent /\ names["managed"] = Absent /\ Seen("target") = wall.origin
    BY <1>5, <1>10, Members DEF SettleRestore, Restored, Phase
  <2>2. Beside'
    BY <1>2, <1>4, <2>1 DEF Beside, Unused
  <2> QED  BY <1>3, <2>1, <2>2
<1>11. CASE Release
  <2>1. wall.phase = "restored" /\ Record("released") /\ Intend(Clears, Absent) /\ "released" \in Phase
        /\ Seen("target") = wall.origin
    BY <1>11 DEF Release, Restored, Phase, Clears
  <2>2. Beside'
    BY <1>2, <1>4, <2>1 DEF Beside, Unused
  <2> QED  BY <1>3, <2>1, <2>2
<1> QED  BY <1>6, <1>7, <1>8, <1>9, <1>10, <1>11

\* A call that is refused, or whose second observation disagrees.
LEMMA StopSteps ==
  ASSUME WallOK, Stop, UNCHANGED <<disk, wall, ghosts, bounds>>
  PROVE  WallOK'
<1>1. Owned'
  BY Ended DEF WallOK, Owned
<1> QED  BY <1>1, Ended, NoPlan, QuietStep DEF ghosts

LEMMA ConfirmSteps ==
  ASSUME WallOK, Confirm
  PROVE  WallOK'
<1>1. CASE Stop
  BY <1>1, StopSteps DEF Confirm
<1>2. CASE Advance /\ names[Src] = obj
  <2>1. plan' = Tail(plan) /\ UNCHANGED <<call, obj>> /\ UNCHANGED <<disk, wall, ghosts, bounds>>
    BY <1>2 DEF Confirm, Advance
  <2>2. names' = names /\ wall' = wall /\ mine' = mine /\ touches' = touches /\ call' = call
        /\ obj' = obj
    BY <2>1 DEF disk, ghosts, bounds
  <2>3. Typed /\ Planned /\ Aimed /\ Owned' /\ wall.phase \in Phase /\ At = "confirm"
    BY <2>2 DEF WallOK, Typed, Owned, Confirm
  <2>4. /\ call.op # "none"
        /\ \/ \E n \in Name : Waste(n) /\ plan = Delete(n) /\ Src = n
           \/ \E a, b \in Name : Route(a, b) /\ plan = Move(a, b)
    BY <2>3, Steps
  <2>5. ASSUME NEW n \in Name, Waste(n), plan = Delete(n), Src = n PROVE Planned' /\ Aimed'
    <3>1. plan' = Removes(n) /\ plan' \in Deleting(n)
      BY <2>1, <2>5, Tails DEF Deleting
    <3>2. Planned'
      BY <2>2, <2>4, <2>5, <3>1 DEF Planned, Waste
    <3>3. Doomed(n)' /\ (wall'.phase = "bound" => names'["stage"] = wall'.bound)
      BY <1>2, <2>2, <2>3, <2>5 DEF Doomed, Aimed, Deleting, Waste
    <3> QED  BY <3>1, <3>2, <3>3, Aims
  <2>6. ASSUME NEW a \in Name, NEW b \in Name, Route(a, b), plan = Move(a, b) PROVE Planned' /\ Aimed'
    <3>1. plan' = Links(a, b) /\ plan' \in Moving(a, b)
      BY <2>1, <2>6, Tails DEF Moving
    <3>2. Planned'
      BY <2>2, <2>4, <2>6, <3>1 DEF Planned, Route
    <3> QED  BY <3>1, <3>2, PlansDiffer, Aims
  <2>7. Planned' /\ Aimed'
    BY <2>4, <2>5, <2>6
  <2> QED  BY <2>1, <2>2, <2>3, <2>7, QuietStep DEF Typed, ghosts
<1> QED  BY <1>1, <1>2 DEF Confirm
---------------------------------------------------------------------------
(* Steps that change names, objects or the record                            *)

LEMMA FenceSteps ==
  ASSUME WallOK, AllocateFence
  PROVE  WallOK'
<1>1. Typed /\ Planned /\ Owned /\ Beside /\ Kept /\ Left /\ wall.phase \in Phase
  BY DEF WallOK, Typed
<1>2. call.op # "none" /\ plan = Fences /\ wall.phase = "none"
  BY <1>1, Steps DEF AllocateFence
<1>3. /\ plan' = Claims /\ UNCHANGED <<content, wall, call, obj, mine, touched, crashes, touches>>
      /\ names' = [n \in Name |-> IF n = "target" THEN names[n] ELSE Absent]
  BY <1>2, Tails DEF AllocateFence, Advance, ghosts, bounds
<1>4. Typed'
  BY <1>1, <1>3 DEF Typed
<1>5. Planned' /\ Aimed' /\ Owned' /\ Restful'
  BY <1>1, <1>2, <1>3, PlansDiffer, Aims DEF Planned, Owned, Restful
<1>6. \A n \in Name : names'[n] = names[n]
  BY <1>1, <1>2, <1>3, Members DEF Beside, Unused, Typed
<1>7. Beside' /\ Kept' /\ Left'
  BY <1>1, <1>2, <1>3, <1>6, Members DEF Beside, Unused, Kept, UserFiles, Left
<1> QED  BY <1>4, <1>5, <1>7 DEF WallOK

LEMMA ClaimSteps ==
  ASSUME WallOK, Claim
  PROVE  WallOK'
<1>1. Typed /\ Planned /\ Owned /\ Beside /\ Kept /\ Left /\ wall.phase \in Phase
  BY DEF WallOK, Typed
<1>2. call.op # "none" /\ plan = Claims /\ wall.phase = "none" /\ call.by \in Request
  BY <1>1, Steps DEF Claim, Owned
<1>3. UNCHANGED <<disk, mine, bounds>>
  BY DEF Claim
<1>4. CASE Stop /\ UNCHANGED <<wall, touched>>
  BY <1>3, <1>4, StopSteps DEF ghosts
<1>5. CASE /\ wall' = [phase |-> "origin", owner |-> call.by, origin |-> Seen("target"), bound |-> Absent]
           /\ touched' = FALSE /\ Advance
  <2>1. plan' = <<>> /\ UNCHANGED <<names, content, call, obj, mine, crashes, touches>>
    BY <1>2, <1>3, <1>5, Tails DEF Advance, disk, bounds
  <2>2. Seen("target") \in Object \cup {Absent} /\ "origin" \in Phase
    BY <1>1, Looks, Members DEF Phase
  <2>3. Typed'
    BY <1>1, <1>2, <1>5, <2>1, <2>2 DEF Typed
  <2>4. Owned' /\ Restful'
    BY <1>1, <1>2, <1>5, <2>1 DEF Owned, Restful
  <2>5. Beside' /\ Kept'
    BY <1>1, <1>2, <1>5, <2>1 DEF Beside, Unused, Kept, UserFiles
  <2>6. Left'
    BY <1>1, <1>5, <2>1, AbsentAssumption DEF Left
  <2> QED  BY <2>1, <2>3, <2>4, <2>5, <2>6, NoPlan DEF WallOK
<1> QED  BY <1>4, <1>5 DEF Claim

LEMMA LinkSteps ==
  ASSUME WallOK, Link
  PROVE  WallOK'
<1>1. Typed /\ Planned /\ Owned /\ Beside /\ Aimed /\ Kept /\ Left /\ Restful /\ wall.phase \in Phase
  BY DEF WallOK, Typed
<1>2. UNCHANGED <<content, wall, ghosts, bounds>>
  BY DEF Link
<1>3. CASE Stop /\ UNCHANGED names
  BY <1>2, <1>3, StopSteps DEF disk
<1>4. CASE /\ names[Src] # Absent /\ names[Dst] = Absent
           /\ Advance /\ names' = [names EXCEPT ![Dst] = names[Src]]
  <2>1. plan' = Tail(plan) /\ UNCHANGED <<content, wall, call, obj, mine, touched, crashes, touches>>
    BY <1>2, <1>4 DEF Advance, ghosts, bounds
  <2>2. /\ call.op # "none"
        /\ \/ wall.phase = "bound" /\ plan \in {Names, NamesThenDeletes}
                /\ Src = "armed" /\ Dst = "stage"
           \/ \E a, b \in Name : Route(a, b) /\ plan = Links(a, b) /\ Src = a /\ Dst = b
    BY <1>1, Steps DEF Link
  <2>3. Src \in Name /\ Dst \in Name /\ Src # Dst /\ Dst # "armed"
        /\ wall.phase \in {"bound", "applying", "restoring"}
    BY <2>2, Members DEF Route
  <2>4. \A n \in Name : names'[n] = IF n = Dst THEN names[Src] ELSE names[n]
    BY <1>1, <1>4, <2>3 DEF Typed
  <2>5. Typed' /\ Owned'
    BY <1>1, <1>4, <2>1, <2>3 DEF Typed, Owned
  <2>6. Kept' /\ Restful'
    <3>1. ASSUME NEW i \in mine PROVE \E n \in Name : names'[n] = i
      <4>1. i # Absent
        BY <1>1, AbsentAssumption DEF Typed
      <4> QED  BY <1>1, <1>4, <2>4, <4>1 DEF Kept, UserFiles
    <3>2. mine' \subseteq UserFiles'
      BY <1>1, <2>1, <3>1 DEF Kept, UserFiles
    <3> QED  BY <1>1, <2>1, <2>3, <3>2 DEF Kept, Restful
  <2>7. CASE wall.phase = "bound" /\ plan \in {Names, NamesThenDeletes}
                /\ Src = "armed" /\ Dst = "stage"
    <3>1. names["armed"] = wall.bound
      BY <1>1, <2>7 DEF Aimed
    <3>2. names'["armed"] = wall.bound /\ names'["stage"] = wall.bound
          /\ names'["origin"] = names["origin"] /\ names'["managed"] = names["managed"]
          /\ names'["target"] = names["target"]
      BY <2>3, <2>4, <2>7, <3>1, Members
    <3>3. Beside'
      BY <1>1, <2>1, <2>7, <3>2 DEF Beside, Unused
    <3>4. Left'
      BY <1>1, <2>1, <2>7, <3>1, <2>4 DEF Left
    <3>5. Planned' /\ Aimed'
      <4>1. CASE plan = Names
        BY <2>1, <4>1, Tails, NoPlan
      <4>2. CASE plan = NamesThenDeletes
        <5>1. plan' = Delete("armed") /\ "armed" \in Name
          BY <2>1, <4>2, Tails, Members
        <5>2. Planned'
          BY <2>1, <2>2, <2>7, <5>1 DEF Planned, Deleting
        <5>3. Doomed("armed")'
          BY <1>1, <2>1, <3>1, <3>2, <4>2, <5>1 DEF Aimed, Doomed
        <5> QED  BY <2>1, <3>2, <5>1, <5>2, <5>3, Aims
      <4> QED  BY <2>7, <4>1, <4>2
    <3> QED  BY <2>5, <2>6, <3>3, <3>4, <3>5 DEF WallOK
  <2>8. ASSUME NEW a \in Name, NEW b \in Name, Route(a, b), plan = Links(a, b), Src = a, Dst = b
        PROVE  WallOK'
    <3>1. a # "armed" /\ a # b /\ names'[b] = names[a] /\ names'[a] = names[a]
      BY <2>3, <2>4, <2>8 DEF Route
    <3>2. Beside'
      BY <1>1, <2>1, <2>4, <2>8, Members DEF Beside, Unused, Route
    <3>3. Left'
      BY <1>1, <2>1, <2>4, <2>8, <3>1 DEF Left
    <3>4. plan' = Withdraws(a) /\ plan' \in Moving(a, b)
      BY <2>1, <2>8, Tails DEF Moving
    <3>5. Planned'
      BY <2>1, <2>2, <2>8, <3>4 DEF Planned, Route
    <3>6. Aimed'
      BY <2>8, <3>1, <3>4, Aims
    <3> QED  BY <2>5, <2>6, <3>2, <3>3, <3>5, <3>6 DEF WallOK
  <2> QED  BY <2>2, <2>7, <2>8
<1> QED  BY <1>3, <1>4 DEF Link

LEMMA RemoveSteps ==
  ASSUME WallOK, Remove
  PROVE  WallOK'
<1>1. Typed /\ Planned /\ Owned /\ Beside /\ Aimed /\ Kept /\ Left /\ Restful /\ wall.phase \in Phase
  BY DEF WallOK, Typed
<1>2. UNCHANGED <<content, wall, ghosts, bounds>>
  BY DEF Remove
<1>3. CASE Stop /\ UNCHANGED names
  BY <1>2, <1>3, StopSteps DEF disk
<1>4. CASE names[Src] # Absent /\ Advance /\ names' = [names EXCEPT ![Src] = Absent]
  <2>1. plan' = Tail(plan) /\ UNCHANGED <<content, wall, call, obj, mine, touched, crashes, touches>>
    BY <1>2, <1>4 DEF Advance, ghosts, bounds
  <2>2. \/ \E n \in Name : Waste(n) /\ plan = Removes(n) /\ Src = n
        \/ \E a, b \in Name : Route(a, b) /\ plan = Withdraws(a) /\ Src = a
    BY <1>1, Steps DEF Remove
  <2>3. Src \in Name /\ plan' = <<>> /\ wall.phase \in {"staging", "bound", "applying", "restoring"}
    BY <2>1, <2>2, Tails DEF Waste, Route
  <2>4. \A n \in Name : names'[n] = IF n = Src THEN Absent ELSE names[n]
    BY <1>1, <1>4, <2>3 DEF Typed
  <2>5. Typed' /\ Owned'
    BY <1>1, <1>4, <2>1, <2>3 DEF Typed, Owned
  <2>6. Restful'
    BY <2>1, <2>3 DEF Restful
  <2>7. Left'
    BY <1>1, <2>1, <2>4, AbsentAssumption DEF Left
  <2>8. wall.phase \in {"staging", "bound"} => Src = "armed" /\ plan = Removes("armed")
    BY <2>2 DEF Waste, Route
  <2>9. Beside'
    <3>1. CASE wall.phase \in {"applying", "restoring"}
      BY <1>1, <2>1, <2>4, <3>1, Members DEF Beside, Unused
    <3>2. CASE wall.phase = "staging"
      BY <1>1, <2>1, <2>4, <3>2, Members DEF Beside, Unused
    <3>3. CASE wall.phase = "bound"
      <4>1. names'["armed"] = Absent /\ names'["stage"] = wall.bound
        BY <1>1, <2>4, <2>8, <3>3, Members DEF Aimed, Deleting
      <4> QED  BY <1>1, <2>1, <2>4, <3>3, <4>1, Members DEF Beside, Unused
    <3> QED  BY <2>3, <3>1, <3>2, <3>3
  <2>10. Kept'
    <3>1. ASSUME NEW i \in mine PROVE \E n \in Name : names'[n] = i
      <4>1. i # Absent
        BY <1>1, AbsentAssumption DEF Typed
      <4>2. names[Src] \notin mine \/ \E n \in Name \ {Src} : names[n] = names[Src]
        <5>1. ASSUME NEW n \in Name, plan = Removes(n), Src = n
              PROVE  names[n] \notin mine \/ \E m \in Name \ {n} : names[m] = names[n]
          <6>1. Doomed(n)
            BY <1>1, <5>1 DEF Aimed, Deleting
          <6> QED  BY <5>1, <6>1, Members DEF Doomed
        <5>2. ASSUME NEW a \in Name, plan = Withdraws(a), Src = a
              PROVE  names[a] \notin mine \/ \E m \in Name \ {a} : names[m] = names[a]
          BY <1>1, <5>2 DEF Aimed
        <5> QED  BY <2>2, <5>1, <5>2
      <4> QED  BY <1>1, <2>4, <4>1, <4>2 DEF Kept, UserFiles
    <3>2. wall.phase = "staging" => names'["armed"] = Absent
      BY <2>4, <2>8, Members
    <3>3. mine' \subseteq UserFiles'
      BY <1>1, <2>1, <3>1 DEF Kept, UserFiles
    <3> QED  BY <2>1, <3>2, <3>3 DEF Kept
  <2> QED  BY <2>3, <2>5, <2>6, <2>7, <2>9, <2>10, NoPlan DEF WallOK
<1> QED  BY <1>3, <1>4 DEF Remove

\* While a wall is being staged, no file the driver is to leave is armed alone.
LEMMA StagingHides ==
  ASSUME Typed, Kept, wall.phase = "staging", NEW j \in mine
  PROVE  \E n \in Name \ {"armed"} : names[n] = j
<1>1. content[j].by = User /\ j \in Ident /\ \E n \in Name : names[n] = j
  BY DEF Kept, UserFiles
<1> QED  BY <1>1, AbsentAssumption DEF Kept

LEMMA CreateSteps ==
  ASSUME WallOK, Create
  PROVE  WallOK'
<1>1. Typed /\ Planned /\ Owned /\ Beside /\ Kept /\ Left /\ Restful /\ wall.phase \in Phase
  BY DEF WallOK, Typed
<1>2. call.op # "none" /\ plan = CreateStage /\ wall.phase = "staging" /\ Src = "armed"
  <2>1. Begins(CreateStage, "create", "armed", "armed")
    BY Heads
  <2> QED  BY <1>1, <2>1, Steps DEF Create, Src, Begins
<1>3. PICK i \in Free : /\ names' = [names EXCEPT !["armed"] = i]
                        /\ content' = [content EXCEPT ![i] = Desired] /\ obj' = i
  BY <1>2 DEF Create
<1>4. plan' = Binds /\ UNCHANGED <<call, wall, mine, touched, crashes, touches>>
  BY <1>2, Tails DEF Create, ghosts, bounds
<1>5. i \in Ident /\ i # Absent /\ \A n \in Name : names[n] # i
  BY AbsentAssumption DEF Free
<1>6. Desired \in Content /\ Desired.by \notin {User, Torn}
  <2>1. wall.owner \in Request /\ Base(wall.origin) \in Bytes
    BY <1>1, <1>2, ContentsAssumption DEF Owned, Typed, Base, Object, Content
  <2> QED  BY <2>1, AbsentAssumption DEF Desired, Content
<1>7. names'["armed"] = i /\ (\A n \in Name \ {"armed"} : names'[n] = names[n])
      /\ content'[i] = Desired /\ \A j \in Ident \ {i} : content'[j] = content[j]
  BY <1>1, <1>3, <1>5, Members DEF Typed
<1>8. Typed'
  BY <1>1, <1>3, <1>4, <1>5, <1>6 DEF Typed
<1>9. Owned' /\ Restful' /\ Planned'
  BY <1>1, <1>2, <1>4 DEF Owned, Restful, Planned
<1>10. Aimed'
  BY <1>3, <1>4, <1>5, <1>6, <1>7, Aims DEF Armed
<1>11. Beside'
  BY <1>1, <1>2, <1>4, <1>7, Members DEF Beside, Unused
<1>12. Kept'
  <2>1. i \notin mine /\ i # names["target"]
    BY <1>1, <1>5, Members DEF Kept, UserFiles
  <2>2. \A j \in mine : content'[j].by = User
    BY <1>1, <1>7, <2>1 DEF Kept, UserFiles, Typed
  <2>3. \A j \in mine : \E n \in Name : names'[n] = j
    BY <1>1, <1>2, <1>7, StagingHides DEF Typed
  <2>4. mine' \subseteq UserFiles'
    BY <1>1, <1>4, <2>2, <2>3 DEF UserFiles, Typed
  <2> QED  BY <1>4, <1>6, <1>7, <2>1, <2>4, Members DEF Kept
<1>13. Left'
  BY <1>1, <1>2, <1>4, <1>6, <1>7, AbsentAssumption DEF Left, Beside
<1> QED  BY <1>8, <1>9, <1>10, <1>11, <1>12, <1>13 DEF WallOK

LEMMA BindSteps ==
  ASSUME WallOK, Bind
  PROVE  WallOK'
<1>1. Typed /\ Planned /\ Owned /\ Beside /\ Aimed /\ Kept /\ Left /\ wall.phase \in Phase
  BY DEF WallOK, Typed
<1>2. call.op # "none" /\ plan = Binds /\ wall.phase = "staging"
  BY <1>1, Steps DEF Bind
<1>3. UNCHANGED <<disk, ghosts, bounds>>
  BY DEF Bind
<1>4. CASE Stop /\ UNCHANGED wall
  BY <1>3, <1>4, StopSteps
<1>5. CASE Advance /\ wall' = [wall EXCEPT !.phase = "bound", !.bound = obj]
  <2>1. plan' = Names /\ UNCHANGED <<names, content, call, obj, mine, touched, crashes, touches>>
    BY <1>2, <1>3, <1>5, Tails DEF Advance, disk, ghosts, bounds
  <2>2. wall'.phase = "bound" /\ wall'.bound = obj /\ wall'.owner = wall.owner
    BY <1>1, <1>5 DEF Typed
  <2>3. obj \in Ident /\ names["armed"] = obj /\ content[obj].by # Torn /\ "bound" \in Phase
    BY <1>1, <1>2 DEF Aimed, Phase
  <2>4. Typed'
    BY <1>1, <1>5, <2>1, <2>3 DEF Typed
  <2>5. Owned' /\ Restful' /\ Planned' /\ Kept'
    BY <1>1, <1>2, <2>1, <2>2 DEF Owned, Restful, Planned, Kept, UserFiles
  <2>6. Aimed'
    BY <2>1, <2>2, <2>3, Aims
  <2>7. Beside'
    BY <1>1, <1>2, <2>1, <2>2, <2>3 DEF Beside, Unused
  <2>8. Left'
    BY <1>1, <2>1, <2>2, <2>3 DEF Left
  <2> QED  BY <2>4, <2>5, <2>6, <2>7, <2>8 DEF WallOK
<1> QED  BY <1>4, <1>5 DEF Bind

LEMMA ClearSteps ==
  ASSUME WallOK, Clear
  PROVE  WallOK'
<1>1. Typed /\ Planned /\ Owned /\ Beside /\ Kept /\ Left /\ wall.phase \in Phase
  BY DEF WallOK, Typed
<1>2. wall.phase = "released"
  BY <1>1, Steps DEF Clear
<1>3. wall' = NoWall /\ Stop /\ UNCHANGED <<names, content, mine, touched, crashes, touches>>
  BY DEF Clear, disk, ghosts, bounds
<1>4. wall'.phase = "none" /\ wall'.bound = Absent
      /\ wall' \in [phase : Phase, owner : Request \cup {Absent},
                    origin : Object \cup {Absent}, bound : Ident \cup {Absent}]
  BY <1>3 DEF NoWall, Phase
<1>5. Typed'
  BY <1>1, <1>3, <1>4, Ended DEF Typed
<1>6. Owned' /\ Restful' /\ Planned' /\ Aimed'
  BY <1>3, <1>4, Ended, NoPlan DEF Owned, Restful
<1>7. Beside' /\ Kept' /\ Left'
  BY <1>1, <1>2, <1>3, <1>4, AbsentAssumption DEF Beside, Unused, Kept, UserFiles, Left
<1> QED  BY <1>5, <1>6, <1>7 DEF WallOK

LEMMA CrashSteps ==
  ASSUME WallOK, Crash
  PROVE  WallOK'
<1>1. Typed /\ Planned /\ Owned /\ Beside /\ Kept /\ Left /\ Restful /\ wall.phase \in Phase
  BY DEF WallOK, Typed
<1>2. Stop /\ UNCHANGED <<wall, mine, touched, touches>> /\ crashes' = crashes + 1 /\ crashes < MaxCrash
  BY DEF Crash, ghosts
<1>3. crashes' \in 0 .. MaxCrash
  BY <1>1, <1>2, BoundsAssumption DEF Typed
<1>4. Owned' /\ Planned' /\ Aimed'
  BY <1>1, <1>2, Ended, NoPlan DEF Owned
<1>5. CASE UNCHANGED disk
  <2>1. Typed'
    BY <1>1, <1>2, <1>3, <1>5, Ended DEF Typed, disk
  <2>2. Restful' /\ Beside' /\ Kept' /\ Left'
    BY <1>1, <1>2, <1>5 DEF Restful, Seen, Beside, Unused, Kept, UserFiles, Left, disk
  <2> QED  BY <1>4, <2>1, <2>2 DEF WallOK
<1>6. CASE /\ At = "create"
           /\ \E i \in Free : /\ names' = [names EXCEPT ![Src] = i]
                              /\ content' = [content EXCEPT ![i] = [by |-> Torn, from |-> Empty]]
  <2>1. wall.phase = "staging" /\ Src = "armed"
    <3>1. Begins(CreateStage, "create", "armed", "armed")
      BY Heads
    <3> QED  BY <1>1, <1>6, <3>1, Steps DEF Src, Begins
  <2>2. PICK i \in Free : /\ names' = [names EXCEPT !["armed"] = i]
                          /\ content' = [content EXCEPT ![i] = [by |-> Torn, from |-> Empty]]
    BY <1>6, <2>1
  <2>3. i \in Ident /\ i # Absent /\ \A n \in Name : names[n] # i
    BY AbsentAssumption DEF Free
  <2>4. names'["armed"] = i /\ (\A n \in Name \ {"armed"} : names'[n] = names[n])
        /\ content'[i].by = Torn /\ \A j \in Ident \ {i} : content'[j] = content[j]
    BY <1>1, <2>2, <2>3, Members DEF Typed
  <2>5. Typed'
    <3>1. [by |-> Torn, from |-> Empty] \in Content
      BY ContentsAssumption DEF Content
    <3> QED  BY <1>1, <1>2, <1>3, <2>2, <2>3, <3>1, Ended DEF Typed
  <2>6. Restful' /\ Beside'
    BY <1>1, <1>2, <2>1, <2>4, Members DEF Restful, Beside, Unused
  <2>7. Kept'
    <3>1. i \notin mine /\ i # names["target"]
      BY <1>1, <2>3, Members DEF Kept, UserFiles
    <3>2. \A j \in mine : content'[j].by = User
      BY <1>1, <2>4, <3>1 DEF Kept, UserFiles, Typed
    <3>3. \A j \in mine : \E n \in Name : names'[n] = j
      BY <1>1, <2>1, <2>4, StagingHides DEF Typed
    <3>4. mine' \subseteq UserFiles'
      BY <1>1, <1>2, <3>2, <3>3 DEF UserFiles, Typed
    <3> QED  BY <1>2, <2>4, <3>1, <3>4, Members, AbsentAssumption DEF Kept
  <2>8. Left'
    BY <1>1, <1>2, <2>1, <2>3, <2>4, AbsentAssumption DEF Left, Beside
  <2> QED  BY <1>4, <2>5, <2>6, <2>7, <2>8 DEF WallOK
<1> QED  BY <1>5, <1>6 DEF Crash

\* What the user's hand leaves alone.
LEMMA UserStays ==
  ASSUME WallOK, UserStep, \A n \in Name \ {"target"} : names'[n] = names[n]
  PROVE  Owned' /\ Planned' /\ Beside' /\ Restful' /\ touches' \in 0 .. MaxTouch
<1>1. Typed /\ Planned /\ Owned /\ Beside
  BY DEF WallOK
<1>2. UNCHANGED <<wall, call, plan, obj, crashes>> /\ touches' = touches + 1 /\ touches < MaxTouch
      /\ touched' = TRUE
  BY DEF UserStep, driver
<1>3. touches' \in 0 .. MaxTouch
  BY <1>1, <1>2, BoundsAssumption DEF Typed
<1>4. Owned' /\ Planned' /\ Restful'
  BY <1>1, <1>2 DEF Owned, Planned, Restful
<1>5. Beside'
  BY <1>1, <1>2, Members DEF Beside, Unused
<1> QED  BY <1>3, <1>4, <1>5

\* The step that is next in a deletion, and in a move whose link is there.
LEMMA Removals ==
  ASSUME WallOK, NEW n
  PROVE  /\ plan = Delete(n) => plan # <<>> /\ Src = n /\ At = "confirm"
         /\ plan = Removes(n) => plan # <<>> /\ Src = n /\ At = "remove"
         /\ plan = Withdraws(n) => plan # <<>> /\ Src = n /\ At = "withdraw"
<1>1. plan # <<>> => call.op # "none"
  BY DEF WallOK, Planned
<1>2. /\ Begins(Delete(n), "confirm", n, n) /\ Begins(Removes(n), "remove", n, n)
      /\ Begins(Withdraws(n), "withdraw", n, n)
  BY Heads
<1> QED  BY <1>1, <1>2 DEF Begins, At, Src

\* On the target, from the confirmation on, the driver is to leave nothing that it
\* was not to leave before.
Guarded ==
  plan # <<>> /\ Src = "target" =>
    /\ At \in {"confirm", "remove", "withdraw"} => (obj \in mine' => obj \in mine)
    /\ At \in {"remove", "withdraw"} => mine' \subseteq mine

\* The user may act on the target between any two steps of a plan: what it puts
\* there is its own, and what it takes away the driver no longer answers for.
LEMMA UserAims ==
  ASSUME WallOK, UserStep, Guarded,
         \A n \in Name \ {"target"} : names'[n] = names[n],
         \A j \in Ident : content'[j].by = Torn => content[j].by = Torn,
         mine' \subseteq mine \cup {names'["target"]},
         names["target"] \in mine' => names'["target"] = names["target"],
         names'["target"] \in mine => names'["target"] = names["target"]
  PROVE  Aimed'
<1>1. Typed /\ Aimed /\ UNCHANGED <<wall, plan, obj>>
  BY DEF WallOK, UserStep, driver
<1>2. plan = Binds => obj' \in Ident /\ names'["armed"] = obj' /\ content'[obj'].by # Torn
  BY <1>1, Members DEF Aimed
<1>3. wall.phase = "bound" =>
        /\ plan \in {Names, NamesThenDeletes} => names'["armed"] = wall'.bound
        /\ plan \in Deleting("armed") => names'["stage"] = wall'.bound
  BY <1>1, Members DEF Aimed
<1>4. ASSUME NEW a \in Name, plan = Withdraws(a), names'[a] \in mine'
      PROVE  \E n \in Name \ {a} : names'[n] = names'[a]
  <2>1. names[a] \notin mine \/ \E n \in Name \ {a} : names[n] = names[a]
    BY <1>1, <1>4 DEF Aimed
  <2>2. CASE a = "target"
    <3>1. plan # <<>> /\ Src = "target" /\ At = "withdraw"
      BY <1>4, <2>2, Removals
    <3>2. names'[a] \in mine /\ names'[a] = names[a]
      BY <1>4, <2>2, <3>1 DEF Guarded
    <3> QED  BY <2>1, <2>2, <3>2
  <2>3. CASE a # "target"
    BY <1>4, <2>1, <2>3, Members
  <2> QED  BY <2>2, <2>3
<1>5. ASSUME NEW n \in Name, plan \in Deleting(n) \/ (plan = NamesThenDeletes /\ n = "armed")
      PROVE  Doomed(n)'
  <2>1. Doomed(n)
    BY <1>1, <1>5 DEF Aimed
  <2>2. CASE n = "target"
    <3>1. plan # <<>> /\ Src = "target" /\ At \in {"confirm", "remove"}
          /\ (plan = Removes(n) => At = "remove")
      BY <1>5, <2>2, Removals, PlansDiffer DEF Deleting
    <3>2. obj \notin mine /\ obj \notin mine'
      BY <2>1, <2>2, <3>1 DEF Doomed, Guarded
    <3>3. plan = Removes(n) => names'["target"] \notin mine'
      BY <2>1, <2>2, <3>1 DEF Doomed, Guarded
    <3> QED  BY <1>1, <2>2, <3>2, <3>3 DEF Doomed
  <2>3. CASE n # "target"
    BY <1>1, <2>1, <2>3 DEF Doomed
  <2> QED  BY <2>2, <2>3
<1> QED  BY <1>1, <1>2, <1>3, <1>4, <1>5 DEF Aimed

LEMMA ReplaceSteps ==
  ASSUME WallOK, UserReplaces
  PROVE  WallOK'
<1>1. Typed /\ Kept /\ Left
  BY DEF WallOK
<1>2. PICK i \in Free, b \in Bytes :
        /\ names' = [names EXCEPT !["target"] = i]
        /\ content' = [content EXCEPT ![i] = [by |-> User, from |-> b]]
        /\ mine' = (mine \ {names["target"]}) \cup (IF Unnoticed(i) THEN {} ELSE {i})
  BY DEF UserReplaces
<1>3. UserStep /\ UNCHANGED <<wall, call, plan, obj, crashes>> /\ touched' = TRUE
  BY DEF UserReplaces, UserStep, driver
<1>4. i \in Ident /\ i # Absent /\ i \notin mine /\ \A n \in Name : names[n] # i
  BY <1>1, AbsentAssumption DEF Free, Kept, UserFiles
<1>5. names'["target"] = i /\ (\A n \in Name \ {"target"} : names'[n] = names[n])
      /\ content'[i].by = User /\ \A j \in Ident \ {i} : content'[j] = content[j]
  BY <1>1, <1>2, <1>4, Members DEF Typed
<1>6. mine' \subseteq (mine \ {names["target"]}) \cup {i}
  BY <1>2
<1>7. Typed'
  <2>1. [by |-> User, from |-> b] \in Content
    BY DEF Content
  <2> QED  BY <1>1, <1>2, <1>3, <1>4, <1>5, <1>6, <2>1, UserStays DEF Typed
<1>8. Kept'
  <2>1. ASSUME NEW j \in mine' PROVE j \in UserFiles'
    <3>1. CASE j = i
      BY <1>4, <1>5, <3>1, Members DEF UserFiles
    <3>2. CASE j # i
      <4>1. j \in mine /\ j # names["target"] /\ j \in Ident /\ content[j].by = User
        BY <1>1, <1>6, <3>2 DEF Kept, UserFiles
      <4>2. PICK n \in Name : names[n] = j
        BY <1>1, <4>1 DEF Kept, UserFiles
      <4> QED  BY <1>5, <3>2, <4>1, <4>2 DEF UserFiles
    <3> QED  BY <3>1, <3>2
  <2> QED  BY <1>1, <1>3, <1>4, <1>5, <2>1, Members DEF Kept, Typed
<1>9. Left'
  BY <1>1, <1>3, <1>4, <1>5, AbsentAssumption DEF Left
<1>10. Guarded
  <2>1. At \in {"remove", "withdraw"} /\ plan # <<>> /\ Src = "target" => mine' \subseteq mine
    BY <1>2 DEF Unnoticed
  <2>2. At \in {"confirm", "remove", "withdraw"} /\ plan # <<>> /\ Src = "target" =>
          (obj \in mine' => obj \in mine)
    BY <1>2 DEF Unnoticed
  <2> QED  BY <2>1, <2>2 DEF Guarded
<1>11. Aimed'
  BY <1>3, <1>4, <1>5, <1>6, <1>10, AbsentAssumption, UserAims
<1> QED  BY <1>3, <1>5, <1>7, <1>8, <1>9, <1>11, UserStays DEF WallOK

LEMMA EditSteps ==
  ASSUME WallOK, UserEdits
  PROVE  WallOK'
<1>1. Typed /\ Kept /\ Left
  BY DEF WallOK
<1>2. PICK b \in Bytes : content' = [content EXCEPT ![names["target"]] = [by |-> User, from |-> b]]
  BY DEF UserEdits
<1>3. /\ UserStep /\ UNCHANGED <<names, wall, call, plan, obj, crashes>> /\ touched' = TRUE
      /\ names["target"] # Absent
      /\ mine' = mine \cup (IF Unnoticed(names["target"]) THEN {} ELSE {names["target"]})
  BY DEF UserEdits, UserStep, driver
<1>4. names["target"] \in Ident
  BY <1>1, <1>3, Members DEF Typed
<1>5. content'[names["target"]].by = User
      /\ \A j \in Ident \ {names["target"]} : content'[j] = content[j]
  BY <1>1, <1>2, <1>4 DEF Typed
<1>6. mine' \subseteq mine \cup {names["target"]}
  BY <1>3
<1>7. Typed'
  <2>1. [by |-> User, from |-> b] \in Content
    BY DEF Content
  <2> QED  BY <1>1, <1>2, <1>3, <1>4, <1>6, <2>1, UserStays DEF Typed
<1>8. Kept'
  <2>1. ASSUME NEW j \in mine' PROVE j \in UserFiles'
    BY <1>1, <1>3, <1>4, <1>5, <1>6, Members DEF Kept, UserFiles
  <2> QED  BY <1>1, <1>3, <1>4, <1>5, <2>1, Members DEF Kept, Typed
<1>9. Left'
  BY <1>1, <1>3, <1>4, <1>5, AbsentAssumption DEF Left
<1>10. Guarded
  <2>1. At \in {"remove", "withdraw"} /\ plan # <<>> /\ Src = "target" => mine' \subseteq mine
    BY <1>3 DEF Unnoticed
  <2>2. At \in {"confirm", "remove", "withdraw"} /\ plan # <<>> /\ Src = "target" =>
          (obj \in mine' => obj \in mine)
    BY <1>3 DEF Unnoticed
  <2> QED  BY <2>1, <2>2 DEF Guarded
<1>11. \A j \in Ident : content'[j].by = Torn => content[j].by = Torn
  BY <1>5, AbsentAssumption
<1>12. Aimed'
  BY <1>3, <1>6, <1>10, <1>11, UserAims
<1> QED  BY <1>3, <1>7, <1>8, <1>9, <1>12, UserStays DEF WallOK

LEMMA DeleteSteps ==
  ASSUME WallOK, UserDeletes
  PROVE  WallOK'
<1>1. Typed /\ Kept /\ Left
  BY DEF WallOK
<1>2. /\ UserStep /\ UNCHANGED <<content, wall, call, plan, obj, crashes>> /\ touched' = TRUE
      /\ names' = [names EXCEPT !["target"] = Absent] /\ mine' = mine \ {names["target"]}
  BY DEF UserDeletes, UserStep, driver
<1>3. names'["target"] = Absent /\ \A n \in Name \ {"target"} : names'[n] = names[n]
  BY <1>1, <1>2, Members DEF Typed
<1>4. Typed'
  BY <1>1, <1>2, <1>3, UserStays DEF Typed
<1>5. Kept'
  <2>1. ASSUME NEW j \in mine' PROVE j \in UserFiles'
    BY <1>1, <1>2, <1>3 DEF Kept, UserFiles
  <2> QED  BY <1>1, <1>2, <1>3, <2>1, Members DEF Kept
<1>6. Left'
  BY <1>1, <1>2, <1>3, AbsentAssumption DEF Left
<1>7. Absent \notin mine
  BY <1>1, AbsentAssumption DEF Typed
<1>8. Aimed'
  BY <1>2, <1>3, <1>7, UserAims DEF Guarded
<1> QED  BY <1>2, <1>3, <1>4, <1>5, <1>6, <1>8, UserStays DEF WallOK

---------------------------------------------------------------------------
(* The theorems                                                              *)

LEMMA WallStep == WallOK /\ [Next]_vars => WallOK'
<1> SUFFICES ASSUME WallOK, [Next]_vars PROVE WallOK'
  OBVIOUS
<1>1. CASE UNCHANGED vars
  <2>1. /\ UNCHANGED <<disk, wall, touched, bounds>> /\ mine' = mine
        /\ plan' = plan /\ call' = call /\ obj' = obj /\ names' = names /\ content' = content
    BY <1>1 DEF vars, disk, bounds
  <2>2. Planned' /\ Owned'
    BY <2>1 DEF WallOK, Planned, Owned
  <2>3. Aimed'
    BY <2>1 DEF WallOK, Aimed, Doomed
  <2> QED  BY <2>1, <2>2, <2>3, QuietStep DEF WallOK, Typed
<1>2. CASE Refuse
  BY <1>2, StopSteps DEF Refuse
<1>3. CASE Drive /\ ~Refuse
  BY <1>3, DecideSteps, RecordSteps DEF Drive
<1>4. CASE Primitive
  BY <1>4, FenceSteps, ClaimSteps, ConfirmSteps, LinkSteps, RemoveSteps, CreateSteps, BindSteps,
     ClearSteps DEF Primitive
<1> QED
  BY <1>1, <1>2, <1>3, <1>4, CallSteps, CrashSteps, ReplaceSteps, EditSteps, DeleteSteps DEF Next

LEMMA InvariantHolds == Spec => []WallOK
<1>1. Init => WallOK
  <2> SUFFICES ASSUME Init PROVE WallOK
    OBVIOUS
  <2>1. wall.phase = "none" /\ wall.bound = Absent /\ call.op = "none" /\ plan = <<>>
        /\ wall \in [phase : Phase, owner : Request \cup {Absent},
                     origin : Object \cup {Absent}, bound : Ident \cup {Absent}]
        /\ call \in [op : {"none", "apply", "restore"}, by : Request \cup {Absent}]
    BY DEF Init, NoWall, NoCall, Phase
  <2>2. content \in [Ident -> Content] /\ \A i \in Ident : content[i].by = User
    BY DEF Init, Content
  <2>3. PICK t \in Ident \cup {Absent} :
          /\ names = [n \in Name |-> IF n = "target" THEN t ELSE Absent] /\ mine = {t} \ {Absent}
    BY DEF Init
  <2>4. Typed
    <3>1. names \in [Name -> Ident \cup {Absent}] /\ mine \subseteq Ident
      BY <2>3, Members
    <3>2. crashes \in 0 .. MaxCrash /\ touches \in 0 .. MaxTouch
      BY BoundsAssumption DEF Init
    <3>3. touched \in BOOLEAN /\ obj = Absent
      BY DEF Init
    <3> QED  BY <2>1, <2>2, <3>1, <3>2, <3>3 DEF Typed
  <2>5. Planned /\ Owned /\ Restful
    BY <2>1 DEF Planned, Owned, Restful
  <2>6. Beside
    BY <2>1, <2>3, Members DEF Beside, Unused
  <2>7. Aimed
    BY <2>1, PlansDiffer DEF Aimed, Unaimed, Deleting
  <2>8. Kept
    BY <2>1, <2>2, <2>3, Members DEF Kept, UserFiles
  <2>9. Left
    BY <2>2, AbsentAssumption DEF Left
  <2> QED  BY <2>4, <2>5, <2>6, <2>7, <2>8, <2>9 DEF WallOK
<1> QED  BY <1>1, WallStep, PTL DEF Spec

\* Whatever was claimed, recorded, planned and left half done holds what the
\* journal and the driver put there.
THEOREM TypesHold == Spec => []TypeOK
<1>1. WallOK => TypeOK
  <2> SUFFICES ASSUME WallOK PROVE TypeOK
    OBVIOUS
  <2>1. Typed /\ plan \in Seq(Step)
    BY PlanTypes DEF WallOK, Typed
  <2> QED  BY <2>1 DEF Typed, TypeOK
<1> QED  BY <1>1, InvariantHolds, PTL

\* The driver never takes the last name from a file it could see at a look, or one
\* the user made or edited since, wherever it dies and between whichever two steps
\* the user acts, but for the acts that comparing identities cannot show it.
THEOREM UserFilesStay == Spec => []UserFilesSurvive
<1>1. WallOK => UserFilesSurvive
  BY DEF WallOK, Kept, UserFiles, UserFilesSurvive
<1> QED  BY <1>1, InvariantHolds, PTL

\* No object a create left half written is bound, staged or put in force.
THEOREM TornIsLeft == Spec => []TornIsNeverAdopted
<1>1. WallOK => TornIsNeverAdopted
  BY Members DEF WallOK, Left, TornIsNeverAdopted
<1> QED  BY <1>1, InvariantHolds, PTL

\* A wall that is restored has given the target back and keeps no name beside it.
THEOREM ReleasesAreClean == Spec => []ReleaseIsClean
<1>1. WallOK => ReleaseIsClean
  BY Members DEF WallOK, Beside, Unused, Restful, ReleaseIsClean
<1> QED  BY <1>1, InvariantHolds, PTL

\* Nobody but its owner moves a wall, and it changes hands only by being released.
THEOREM OwnersOnly == Spec => WallIsItsOwners
<1> DEFINE Kind == /\ wall.phase # "none" /\ wall'.phase # "none" => wall'.owner = wall.owner
                   /\ wall # wall' /\ wall.phase # "none" => call.by = wall.owner
<1>1. ASSUME WallOK, [Next]_vars PROVE Kind
  <2>1. Typed /\ Planned /\ Owned /\ wall.phase \in Phase
    BY <1>1 DEF WallOK, Typed
  <2>2. ASSUME wall' = wall PROVE Kind
    BY <2>2
  <2>3. ASSUME NEW ph, Record(ph), call.op # "none" PROVE Kind
    BY <2>1, <2>3 DEF Record, Typed, Owned
  <2>4. CASE BeginStage \/ BeginApply \/ SettleApply \/ BeginRestore \/ SettleRestore \/ Release
    <3>1. call.op # "none"
      BY <2>1, <2>4, Pauses DEF BeginStage, BeginApply, SettleApply, BeginRestore, SettleRestore,
                                Release, Looking
    <3> QED  BY <2>3, <2>4, <3>1 DEF BeginStage, BeginApply, SettleApply, BeginRestore,
                                     SettleRestore, Release
  <2>5. CASE Claim
    <3>1. wall.phase = "none"
      BY <2>1, <2>5, Steps DEF Claim
    <3> QED  BY <3>1
  <2>6. CASE Bind
    <3>1. call.op # "none"
      BY <2>1, <2>6, Steps DEF Bind
    <3>2. wall' = wall \/ wall' = [wall EXCEPT !.phase = "bound", !.bound = obj]
      BY <2>6 DEF Bind
    <3> QED  BY <2>1, <3>1, <3>2 DEF Typed, Owned
  <2>7. CASE Clear
    <3>1. call.op # "none"
      BY <2>1, <2>7, Steps DEF Clear
    <3> QED  BY <2>1, <2>7, <3>1 DEF Clear, NoWall, Owned
  <2>8. CASE (\E r \in Request : StartApply(r) \/ StartRestore(r)) \/ Crash
             \/ UserReplaces \/ UserEdits \/ UserDeletes \/ UNCHANGED vars
    BY <2>2, <2>8 DEF StartApply, StartRestore, Crash, UserReplaces, UserEdits, UserDeletes,
                      UserStep, vars
  <2>9. CASE AllocateFence \/ Confirm \/ Link \/ Remove \/ Create \/ Refuse
    BY <2>2, <2>9 DEF AllocateFence, Confirm, Link, Remove, Create, Refuse
  <2>10. CASE StageMissing \/ ArmedLeftover \/ ArmedBound \/ WithdrawArmed \/ RetainOrigin
                 \/ PublishStage \/ DeleteManaged \/ RetireManaged \/ PublishOrigin
                 \/ CleanManaged \/ VerifyReleased
    BY <2>2, <2>10 DEF StageMissing, ArmedLeftover, ArmedBound, WithdrawArmed, RetainOrigin,
         PublishStage, DeleteManaged, RetireManaged, PublishOrigin, CleanManaged, VerifyReleased, Decide
  <2> QED  BY <1>1, <2>4, <2>5, <2>6, <2>7, <2>8, <2>9, <2>10 DEF Next, Drive, Primitive
<1>2. WallOK /\ [Next]_vars => [Kind]_vars
  BY <1>1
<1> QED  BY <1>2, InvariantHolds, PTL DEF Spec, WallIsItsOwners

---------------------------------------------------------------------------
(* Crashes                                                                   *)

\* How far the apply and the restore have come, at a look and at each step of
\* their plans.
Before(a, b) == {Move(a, b), Links(a, b)}
Publishing ==
  /\ plan = <<>> => Prepared \/ Published \/ HalfMoved
  /\ plan \in Before("target", "origin") => Prepared /\ wall.origin # Absent /\ Untaken
  /\ plan = Withdraws("target") => Retaining
  /\ plan \in Before("stage", "target") => Prepared /\ Seen("target") = Absent
  /\ plan = Withdraws("stage") => Staging
Retracting ==
  /\ plan = <<>> => InForce \/ OriginPending \/ ManagedLeft \/ Restored \/ HalfMoved
  /\ plan \in Deleting("target") => InForce /\ wall.origin = Absent
  /\ plan \in Before("target", "managed") => InForce /\ wall.origin # Absent
  /\ plan = Withdraws("target") => Retiring
  /\ plan \in Before("origin", "target") => OriginPending
  /\ plan = Withdraws("origin") => Returning
  /\ plan \in Deleting("managed") => ManagedLeft

\* Where the user has kept away since the claim, the origin is still the target
\* until the apply retains it, and what is bound is what was wanted.
Undisturbed ==
  /\ wall.phase \in {"origin", "staging", "bound"} => Untaken
  /\ plan = Binds => content[obj] = Desired
  /\ wall.phase = "bound" => content[wall.bound] = Desired
  /\ wall.phase = "applied" => Published
  /\ wall.phase = "applying" => Publishing
  /\ wall.phase = "restoring" => Retracting
Kempt == touched \/ Undisturbed

LEMMA MovesDiffer ==
  \A a, b, c, d \in Name :
    /\ Move(a, b) # <<>> /\ Links(a, b) # <<>> /\ Withdraws(a) # <<>>
    /\ Delete(a) # <<>> /\ Removes(a) # <<>> /\ Move(a, b) # Links(c, d)
    /\ Move(a, b) = Move(c, d) => a = c /\ b = d
    /\ Links(a, b) = Links(c, d) => a = c /\ b = d
<1> SUFFICES ASSUME NEW a \in Name, NEW b \in Name, NEW c \in Name, NEW d \in Name
             PROVE  /\ Move(a, b) # <<>> /\ Links(a, b) # <<>> /\ Withdraws(a) # <<>>
                    /\ Delete(a) # <<>> /\ Removes(a) # <<>> /\ Move(a, b) # Links(c, d)
                    /\ Move(a, b) = Move(c, d) => a = c /\ b = d
                    /\ Links(a, b) = Links(c, d) => a = c /\ b = d
  OBVIOUS
<1>1. /\ Begins(Move(a, b), "confirm", a, a) /\ Begins(Links(a, b), "link", a, b)
      /\ Begins(Withdraws(a), "withdraw", a, a) /\ Begins(Links(c, d), "link", c, d)
      /\ Begins(Delete(a), "confirm", a, a) /\ Begins(Removes(a), "remove", a, a)
  BY Zenon, Heads
<1>2. Tail(Move(a, b)) = Links(a, b) /\ Tail(Move(c, d)) = Links(c, d)
  BY Zenon, Tails
<1>3. Links(a, b) = Links(c, d) => a = c /\ b = d
  BY <1>1 DEF Begins
<1>4. Move(a, b) = Move(c, d) => a = c /\ b = d
  BY <1>2, <1>3
<1>5. Move(a, b) # Links(c, d)
  BY <1>1 DEF Begins
<1>6. /\ Move(a, b) # <<>> /\ Links(a, b) # <<>> /\ Withdraws(a) # <<>>
      /\ Delete(a) # <<>> /\ Removes(a) # <<>>
  BY <1>1 DEF Begins
<1> QED  BY <1>3, <1>4, <1>5, <1>6

\* What a step leaves of a look.
LEMMA StillSeen ==
  ASSUME NEW n \in Name, names'[n] = names[n],
         names[n] # Absent => content'[names[n]] = content[names[n]]
  PROVE  Seen(n)' = Seen(n)
BY DEF Seen
LEMMA StillWanted ==
  ASSUME wall'.owner = wall.owner, wall'.origin = wall.origin
  PROVE  Desired' = Desired /\ (wall'.bound = wall.bound => Want' = Want)
BY DEF Desired, Base, Want

\* The layouts stay what they are while the files and the bound object do.
LEMMA StillLaid ==
  ASSUME UNCHANGED <<names, content>>,
         wall'.owner = wall.owner, wall'.origin = wall.origin, wall'.bound = wall.bound
  PROVE  /\ wall'.phase = wall.phase => HalfMoved' = HalfMoved
         /\ Retaining' = Retaining /\ Staging' = Staging
         /\ Retiring' = Retiring /\ Returning' = Returning
         /\ Prepared' = Prepared /\ Published' = Published /\ InForce' = InForce
         /\ OriginPending' = OriginPending /\ ManagedLeft' = ManagedLeft
         /\ Restored' = Restored /\ Untaken' = Untaken
         /\ Desired' = Desired /\ Want' = Want /\ \A n \in Name : Seen(n)' = Seen(n)
<1>1. Desired' = Desired /\ Want' = Want
  BY StillWanted
<1>2. \A n \in Name : Seen(n)' = Seen(n)
  BY DEF Seen
<1>3. /\ Retaining' = Retaining /\ Staging' = Staging
      /\ Retiring' = Retiring /\ Returning' = Returning
  BY <1>1, <1>2, Members DEF Retaining, Staging, Retiring, Returning
<1>4. wall'.phase = wall.phase => HalfMoved' = HalfMoved
  BY <1>3 DEF HalfMoved
<1> QED
  BY <1>1, <1>2, <1>3, <1>4, Members
     DEF Prepared, Published, InForce, OriginPending, ManagedLeft, Restored, Untaken

\* A call that ends leaves a layout that is known, or half a move.
LEMMA KemptStop ==
  ASSUME WallOK, Kempt, UNCHANGED <<disk, wall, touched>>, plan' = <<>>
  PROVE  Kempt'
<1> SUFFICES ASSUME ~touched PROVE Undisturbed'
  BY DEF Kempt
<1>1. Typed /\ Planned /\ Undisturbed /\ wall.phase \in Phase
  BY DEF WallOK, Typed, Kempt
<1>2. <<>> # Binds
  BY PlansDiffer DEF Unaimed
<1>3. UNCHANGED <<names, content, wall>>
  BY DEF disk
<1>4. wall.phase = "applying" => Prepared \/ Published \/ HalfMoved
  BY <1>1, Members DEF Undisturbed, Publishing, Planned, Moving, Before, HalfMoved
<1>5. wall.phase = "restoring" => InForce \/ OriginPending \/ ManagedLeft \/ Restored \/ HalfMoved
  BY <1>1, Members DEF Undisturbed, Retracting, Planned, Moving, Before, HalfMoved
<1>6. Publishing' <=> (Prepared \/ Published \/ HalfMoved)
  BY <1>3, StillLaid, MovesDiffer, Members DEF Publishing, Before
<1>7. Retracting' <=> (InForce \/ OriginPending \/ ManagedLeft \/ Restored \/ HalfMoved)
  BY <1>3, StillLaid, MovesDiffer, Members DEF Retracting, Before, Deleting
<1> QED  BY <1>1, <1>2, <1>3, <1>4, <1>5, <1>6, <1>7, StillLaid DEF Undisturbed

LEMMA KemptCalls ==
  ASSUME WallOK, Kempt, NEW r \in Request, StartApply(r) \/ StartRestore(r)
  PROVE  Kempt'
<1> SUFFICES ASSUME ~touched PROVE Undisturbed'
  BY DEF Kempt, StartApply, StartRestore, ghosts
<1>1. plan = <<>> /\ wall.phase \in Phase
  BY Pauses DEF StartApply, StartRestore, WallOK, Typed
<1>2. UNCHANGED <<names, content, wall, touched>> /\ At = "idle"
  BY DEF StartApply, StartRestore, disk, ghosts
<1>3. CASE plan' = <<>>
  BY <1>2, <1>3, KemptStop DEF disk, Kempt
<1>4. CASE wall.phase = "none" /\ plan' = Fences
  BY <1>2, <1>4, PlansDiffer DEF Undisturbed, Unaimed
<1> QED  BY <1>1, <1>3, <1>4 DEF StartApply, StartRestore, Fences

LEMMA KemptDecisions ==
  ASSUME WallOK, Kempt, StageMissing \/ ArmedLeftover \/ ArmedBound \/ WithdrawArmed \/ RetainOrigin
                        \/ PublishStage \/ DeleteManaged \/ RetireManaged \/ PublishOrigin
                        \/ CleanManaged \/ VerifyReleased
  PROVE  Kempt'
<1>1. plan = <<>> /\ UNCHANGED <<names, content, wall, touched>>
  BY Pauses DEF WallOK, Typed, StageMissing, ArmedLeftover, ArmedBound, WithdrawArmed, RetainOrigin,
     PublishStage, DeleteManaged, RetireManaged, PublishOrigin, CleanManaged, VerifyReleased, Looking,
     Decide, disk, ghosts
<1> SUFFICES ASSUME ~touched PROVE Undisturbed'
  BY <1>1 DEF Kempt
<1>2. Undisturbed /\ Typed /\ Beside
  BY DEF Kempt, WallOK
<1>3. ASSUME plan' # Binds, wall.phase = "applying" => Publishing', wall.phase = "restoring" => Retracting'
      PROVE  Undisturbed'
  BY <1>1, <1>2, <1>3, StillLaid DEF Undisturbed
<1>4. CASE StageMissing \/ ArmedLeftover \/ ArmedBound \/ WithdrawArmed
  <2>1. wall.phase \in {"staging", "bound"}
    BY <1>4 DEF StageMissing, ArmedLeftover, ArmedBound, WithdrawArmed, StageResumable
  <2>2. plan' \in {CreateStage, NamesThenDeletes, Delete("armed")}
    BY <1>4, Tails DEF StageMissing, ArmedLeftover, ArmedBound, WithdrawArmed, Decide, Intend
  <2> QED  BY <1>3, <2>1, <2>2, PlansDiffer, Members DEF Unaimed
<1>5. CASE RetainOrigin
  <2>1. /\ wall.phase = "applying" /\ plan' = Move("target", "origin")
        /\ Prepared /\ wall.origin # Absent /\ Seen("target") = wall.origin
    BY <1>5 DEF RetainOrigin, Decide, Intend
  <2>2. Untaken
    BY <2>1, AbsentAssumption DEF Prepared
  <2>3. Publishing'
    BY <1>1, <2>1, <2>2, StillLaid, MovesDiffer, PlansDiffer, Members DEF Publishing, Before, Unaimed
  <2> QED  BY <1>3, <2>1, <2>3, PlansDiffer, Members DEF Unaimed
<1>6. CASE PublishStage
  <2>1. /\ wall.phase = "applying" /\ plan' = Move("stage", "target")
        /\ Prepared /\ Seen("target") = Absent
    BY <1>6 DEF PublishStage, Decide, Intend
  <2>2. Publishing'
    BY <1>1, <2>1, StillLaid, MovesDiffer, PlansDiffer, Members DEF Publishing, Before, Unaimed
  <2> QED  BY <1>3, <2>1, <2>2, PlansDiffer, Members DEF Unaimed
<1>7. CASE DeleteManaged \/ CleanManaged
  <2>1. /\ wall.phase = "restoring"
        /\ \/ plan' = Delete("target") /\ InForce /\ wall.origin = Absent
           \/ plan' = Delete("managed") /\ ManagedLeft
    BY <1>7 DEF DeleteManaged, CleanManaged, Decide, Intend
  <2>2. Retracting'
    BY <1>1, <2>1, StillLaid, MovesDiffer, PlansDiffer, Members
       DEF Retracting, Before, Deleting, Unaimed
  <2> QED  BY <1>3, <2>1, <2>2, PlansDiffer, Members
<1>8. CASE RetireManaged \/ PublishOrigin
  <2>1. /\ wall.phase = "restoring"
        /\ \/ plan' = Move("target", "managed") /\ InForce /\ wall.origin # Absent
           \/ plan' = Move("origin", "target") /\ OriginPending
    BY <1>8 DEF RetireManaged, PublishOrigin, Decide, Intend
  <2>2. Retracting'
    BY <1>1, <2>1, StillLaid, MovesDiffer, PlansDiffer, Members
       DEF Retracting, Before, Deleting, Unaimed
  <2> QED  BY <1>3, <2>1, <2>2, PlansDiffer, Members DEF Unaimed
<1>9. CASE VerifyReleased
  <2>1. wall.phase = "released" /\ plan' = Clears
    BY <1>9 DEF VerifyReleased, Decide, Intend, Clears
  <2> QED  BY <1>3, <2>1, PlansDiffer DEF Unaimed
<1> QED  BY <1>4, <1>5, <1>6, <1>7, <1>8, <1>9

LEMMA KemptRecords ==
  ASSUME WallOK, Kempt,
         BeginStage \/ BeginApply \/ SettleApply \/ BeginRestore \/ SettleRestore \/ Release
  PROVE  Kempt'
<1>1. plan = <<>> /\ UNCHANGED <<names, content, touched>> /\ Typed
  BY Pauses DEF WallOK, Typed, BeginStage, BeginApply, SettleApply, BeginRestore, SettleRestore,
                Release, Looking, Record, disk, ghosts
<1> SUFFICES ASSUME ~touched PROVE Undisturbed'
  BY <1>1 DEF Kempt
<1>2. Undisturbed
  BY DEF Kempt
<1>3. plan' # Binds /\ plan' \in {<<>>, Clears}
  <2>1. plan' \in {<<>>, Clears}
    BY <1>1, Ended DEF BeginStage, BeginApply, SettleApply, BeginRestore, SettleRestore, Release,
                       driver, Intend, Clears
  <2> QED  BY <2>1, PlansDiffer DEF Unaimed
<1>4. ASSUME NEW ph, Record(ph)
      PROVE  /\ wall'.phase = ph /\ wall'.owner = wall.owner /\ wall'.origin = wall.origin
             /\ wall'.bound = wall.bound
  BY <1>1, <1>4 DEF Record, Typed
<1>5. /\ wall'.owner = wall.owner /\ wall'.origin = wall.origin /\ wall'.bound = wall.bound
  BY <1>4 DEF BeginStage, BeginApply, SettleApply, BeginRestore, SettleRestore, Release
<1>6. /\ Prepared' = Prepared /\ Published' = Published /\ InForce' = InForce /\ Untaken' = Untaken
  BY <1>1, <1>5, StillLaid
<1>7. CASE BeginStage
  <2>1. wall.phase = "origin" /\ wall'.phase = "staging"
    BY <1>4, <1>7 DEF BeginStage
  <2> QED  BY <1>2, <1>3, <1>6, <2>1 DEF Undisturbed
<1>8. CASE BeginApply
  <2>1. wall'.phase = "applying" /\ Prepared /\ plan' = <<>>
    BY <1>1, <1>4, <1>8 DEF BeginApply, Prepared, driver
  <2>2. Publishing'
    BY <1>6, <2>1, MovesDiffer, Members DEF Publishing, Before
  <2> QED  BY <1>3, <2>1, <2>2 DEF Undisturbed
<1>9. CASE SettleApply
  <2>1. wall'.phase = "applied" /\ Published
    BY <1>4, <1>9 DEF SettleApply
  <2> QED  BY <1>3, <1>6, <2>1 DEF Undisturbed
<1>10. CASE BeginRestore
  <2>1. wall'.phase = "restoring" /\ InForce /\ plan' = <<>>
    BY <1>1, <1>4, <1>10 DEF BeginRestore, driver
  <2>2. Retracting'
    BY <1>6, <2>1, MovesDiffer, Members DEF Retracting, Before, Deleting
  <2> QED  BY <1>3, <2>1, <2>2 DEF Undisturbed
<1>11. CASE SettleRestore \/ Release
  BY <1>3, <1>4, <1>11 DEF SettleRestore, Release, Undisturbed
<1> QED  BY <1>7, <1>8, <1>9, <1>10, <1>11

LEMMA KemptConfirms ==
  ASSUME WallOK, Kempt, Confirm
  PROVE  Kempt'
<1> SUFFICES ASSUME ~touched PROVE Undisturbed'
  BY DEF Kempt, Confirm, ghosts
<1>1. Typed /\ Planned /\ Undisturbed /\ wall.phase \in Phase /\ At = "confirm"
  BY DEF WallOK, Typed, Kempt, Confirm
<1>2. UNCHANGED <<names, content, wall, touched>>
  BY DEF Confirm, disk, ghosts
<1>3. CASE Stop
  BY <1>1, <1>2, <1>3, KemptStop, Ended DEF disk, Kempt
<1>4. CASE Advance
  <2>1. \/ \E n \in Name : Waste(n) /\ plan = Delete(n)
        \/ \E a, b \in Name : Route(a, b) /\ plan = Move(a, b)
    BY <1>1, Steps
  <2>2. ASSUME NEW n \in Name, Waste(n), plan = Delete(n) PROVE Undisturbed'
    <3>1. plan' = Removes(n) /\ plan' # Binds
      BY <1>4, <2>2, Tails, PlansDiffer DEF Advance
    <3>2. CASE wall.phase \in {"staging", "bound"}
      BY <1>1, <1>2, <3>1, <3>2, StillLaid DEF Undisturbed
    <3>3. CASE wall.phase = "restoring" /\ n \in {"target", "managed"}
      <4>1. /\ n = "target" => InForce /\ wall.origin = Absent
            /\ n = "managed" => ManagedLeft
        BY <1>1, <2>2, <3>3 DEF Undisturbed, Retracting, Deleting
      <4>2. Retracting'
        BY <1>2, <3>1, <3>3, <4>1, StillLaid, MovesDiffer, PlansDiffer, Members
           DEF Retracting, Before, Deleting, Unaimed
      <4> QED  BY <1>2, <3>1, <3>3, <4>2 DEF Undisturbed
    <3> QED  BY <2>2, <3>2, <3>3 DEF Waste
  <2>3. ASSUME NEW a \in Name, NEW b \in Name, Route(a, b), plan = Move(a, b) PROVE Undisturbed'
    <3>1. plan' = Links(a, b) /\ plan' # Binds /\ plan \in Before(a, b)
      <4>1. plan' = Links(a, b)
        BY <1>4, <2>3, Tails DEF Advance
      <4>2. Links(a, b) # Binds
        BY PlansDiffer DEF Unaimed
      <4> QED  BY <2>3, <4>1, <4>2 DEF Before
    <3>2. CASE wall.phase = "applying"
      <4>1. \/ a = "target" /\ b = "origin" /\ Prepared /\ wall.origin # Absent /\ Untaken
            \/ a = "stage" /\ b = "target" /\ Prepared /\ Seen("target") = Absent
        BY <1>1, <2>3, <3>1, <3>2 DEF Undisturbed, Publishing, Route
      <4>2. Publishing'
        BY <1>2, <3>1, <4>1, StillLaid, MovesDiffer, PlansDiffer, Members
           DEF Publishing, Before, Unaimed
      <4> QED  BY <1>2, <3>1, <3>2, <4>2 DEF Undisturbed
    <3>3. CASE wall.phase = "restoring"
      <4>1. \/ a = "target" /\ b = "managed" /\ InForce /\ wall.origin # Absent
            \/ a = "origin" /\ b = "target" /\ OriginPending
        BY <1>1, <2>3, <3>1, <3>3 DEF Undisturbed, Retracting, Route
      <4>2. Retracting'
        BY <1>2, <3>1, <4>1, StillLaid, MovesDiffer, PlansDiffer, Members
           DEF Retracting, Before, Deleting, Unaimed
      <4> QED  BY <1>2, <3>1, <3>3, <4>2 DEF Undisturbed
    <3> QED  BY <2>3, <3>2, <3>3 DEF Route
  <2> QED  BY <2>1, <2>2, <2>3
<1> QED  BY <1>3, <1>4 DEF Confirm

LEMMA KemptLinks ==
  ASSUME WallOK, Kempt, Link
  PROVE  Kempt'
<1> SUFFICES ASSUME ~touched PROVE Undisturbed'
  BY DEF Kempt, Link, ghosts
<1>1. Typed /\ Planned /\ Undisturbed /\ wall.phase \in Phase /\ At = "link"
  BY DEF WallOK, Typed, Kempt, Link
<1>2. UNCHANGED <<content, wall, touched>>
  BY DEF Link, ghosts
<1>3. CASE Stop /\ UNCHANGED names
  BY <1>1, <1>2, <1>3, KemptStop, Ended DEF disk, Kempt
<1>4. CASE Advance /\ names[Dst] = Absent /\ names' = [names EXCEPT ![Dst] = names[Src]]
  <2>1. \/ /\ wall.phase = "bound" /\ plan \in {Names, NamesThenDeletes}
           /\ Src = "armed" /\ Dst = "stage"
        \/ \E a, b \in Name : Route(a, b) /\ plan = Links(a, b) /\ Src = a /\ Dst = b
    BY <1>1, Steps
  <2>2. PICK s \in Name, d \in Name : Src = s /\ Dst = d
    BY <2>1, Members
  <2>3. (\A n \in Name \ {d} : Seen(n)' = Seen(n)) /\ Seen(d)' = Seen(s)
    <3>1. (\A n \in Name \ {d} : names'[n] = names[n]) /\ names'[d] = names[s]
      BY <1>1, <1>4, <2>2 DEF Typed
    <3> QED  BY <1>2, <3>1 DEF Seen
  <2>4. Desired' = Desired /\ Want' = Want
    BY <1>2, StillWanted
  <2>5. CASE wall.phase = "bound" /\ plan \in {Names, NamesThenDeletes} /\ Dst = "stage"
    <3>1. plan' # Binds
      <4>1. plan' \in {<<>>, Delete("armed")}
        BY <1>4, <2>5, Tails DEF Advance
      <4> QED  BY <4>1, PlansDiffer, Members DEF Unaimed
    <3>2. Untaken'
      BY <1>1, <1>2, <2>2, <2>3, <2>5, Members DEF Undisturbed, Untaken
    <3> QED  BY <1>1, <1>2, <2>4, <2>5, <3>1, <3>2 DEF Undisturbed
  <2>6. ASSUME NEW a \in Name, NEW b \in Name, Route(a, b), plan = Links(a, b), Src = a, Dst = b
        PROVE  Undisturbed'
    <3>1. plan' = Withdraws(a) /\ plan' # Binds /\ plan \in Before(a, b)
      <4>1. plan' = Withdraws(a)
        BY <1>4, <2>6, Tails DEF Advance
      <4>2. Withdraws(a) # Binds
        BY PlansDiffer
      <4> QED  BY <2>6, <4>1, <4>2 DEF Before
    <3>2. CASE wall.phase = "applying"
      <4>1. \/ a = "target" /\ b = "origin" /\ Prepared /\ wall.origin # Absent /\ Untaken
            \/ a = "stage" /\ b = "target" /\ Prepared /\ Seen("target") = Absent
        BY <1>1, <2>6, <3>1, <3>2 DEF Undisturbed, Publishing, Route
      <4>2. (a = "target" => Retaining') /\ (a = "stage" => Staging')
        BY <1>2, <2>2, <2>3, <2>4, <2>6, <4>1, Members DEF Prepared, Untaken, Retaining, Staging
      <4>3. Publishing'
        BY <3>1, <4>1, <4>2, MovesDiffer, PlansDiffer, Members
           DEF Publishing, Before, Unaimed
      <4> QED  BY <1>2, <3>1, <3>2, <4>3 DEF Undisturbed
    <3>3. CASE wall.phase = "restoring"
      <4>1. \/ a = "target" /\ b = "managed" /\ InForce /\ wall.origin # Absent
            \/ a = "origin" /\ b = "target" /\ OriginPending
        BY <1>1, <2>6, <3>1, <3>3 DEF Undisturbed, Retracting, Route
      <4>2. (a = "target" => Retiring') /\ (a = "origin" => Returning')
        BY <1>2, <2>2, <2>3, <2>4, <2>6, <4>1, Members
           DEF InForce, OriginPending, Retiring, Returning
      <4>3. Retracting'
        BY <3>1, <4>1, <4>2, MovesDiffer, PlansDiffer, Members
           DEF Retracting, Before, Deleting, Unaimed
      <4> QED  BY <1>2, <3>1, <3>3, <4>3 DEF Undisturbed
    <3> QED  BY <2>6, <3>2, <3>3 DEF Route
  <2> QED  BY <2>1, <2>5, <2>6
<1> QED  BY <1>3, <1>4 DEF Link

LEMMA KemptRemovals ==
  ASSUME WallOK, Kempt, Remove
  PROVE  Kempt'
<1> SUFFICES ASSUME ~touched PROVE Undisturbed'
  BY DEF Kempt, Remove, ghosts
<1>1. Typed /\ Planned /\ Undisturbed /\ wall.phase \in Phase /\ At \in {"remove", "withdraw"}
  BY DEF WallOK, Typed, Kempt, Remove
<1>2. UNCHANGED <<content, wall, touched>>
  BY DEF Remove, ghosts
<1>3. \/ At = "remove" /\ \E n \in Name : Waste(n) /\ plan = Removes(n) /\ Src = n
      \/ At = "withdraw" /\ \E a, b \in Name : Route(a, b) /\ plan = Withdraws(a) /\ Src = a
  BY <1>1, Steps
<1>4. CASE At = "remove" /\ Stop /\ UNCHANGED names
  BY <1>2, <1>4, KemptStop, Ended DEF disk, Kempt
<1>5. At = "withdraw" => names[Src] # Absent
  <2> SUFFICES ASSUME NEW a \in Name, NEW b \in Name, Route(a, b), plan = Withdraws(a), Src = a
               PROVE  names[Src] # Absent
    BY <1>3
  <2>1. Seen(a) = Want \/ (Seen(a) = wall.origin /\ wall.origin # Absent)
    BY <1>1 DEF Undisturbed, Publishing, Retracting, Route, Retaining, Staging, Retiring, Returning
  <2>2. Seen(a) = Want => names[a] # Absent
    BY Wanted, AbsentAssumption DEF Route
  <2> QED  BY <1>1, <2>1, <2>2, Looks
<1>6. CASE Advance /\ names' = [names EXCEPT ![Src] = Absent]
  <2>1. plan' = <<>> /\ plan' # Binds
    <3>1. plan' = <<>>
      BY <1>3, <1>6, Tails DEF Advance
    <3> QED  BY <3>1, PlansDiffer DEF Unaimed
  <2>2. PICK s \in Name : Src = s
    BY <1>3
  <2>3. (\A n \in Name \ {s} : Seen(n)' = Seen(n)) /\ Seen(s)' = Absent
    <3>1. (\A n \in Name \ {s} : names'[n] = names[n]) /\ names'[s] = Absent
      BY <1>1, <1>6, <2>2 DEF Typed
    <3> QED  BY <1>2, <3>1 DEF Seen
  <2>4. Desired' = Desired /\ Want' = Want
    BY <1>2, StillWanted
  <2>5. CASE wall.phase \in {"staging", "bound"}
    <3>1. Src = "armed"
      BY <1>3, <2>5 DEF Waste, Route
    <3>2. Untaken'
      BY <1>1, <1>2, <2>2, <2>3, <2>5, <3>1, Members DEF Undisturbed, Untaken
    <3> QED  BY <1>1, <1>2, <2>1, <2>4, <2>5, <3>2 DEF Undisturbed
  <2>6. CASE wall.phase = "applying"
    <3>1. \/ /\ Src = "target" /\ Seen("stage") = Want /\ wall.origin # Absent
             /\ Seen("origin") = wall.origin
          \/ Src = "stage" /\ Seen("target") = Want /\ Seen("origin") = wall.origin
      BY <1>1, <1>3, <2>6 DEF Undisturbed, Publishing, Route, Waste, Retaining, Staging
    <3>2. Prepared' \/ Published'
      BY <1>2, <2>2, <2>3, <2>4, <3>1, Members DEF Prepared, Published
    <3>3. Publishing'
      BY <2>1, <3>2, MovesDiffer, Members DEF Publishing, Before
    <3> QED  BY <1>2, <2>1, <2>6, <3>3 DEF Undisturbed
  <2>7. CASE wall.phase = "restoring"
    <3>1. \/ plan = Removes("target") /\ Src = "target"
          \/ plan = Removes("managed") /\ Src = "managed"
          \/ plan = Withdraws("target") /\ Src = "target"
          \/ plan = Withdraws("origin") /\ Src = "origin"
      BY <1>3, <2>7 DEF Route, Waste
    <3>2. \/ Src = "target" /\ InForce /\ wall.origin = Absent
          \/ Src = "managed" /\ ManagedLeft
          \/ /\ Src = "target" /\ wall.origin # Absent /\ Seen("origin") = wall.origin
             /\ Seen("managed") = Want
          \/ /\ Src = "origin" /\ wall.origin # Absent /\ Seen("managed") = Want
             /\ Seen("target") = wall.origin
      BY <1>1, <2>7, <3>1 DEF Undisturbed, Retracting, Deleting, Retiring, Returning
    <3>3. OriginPending' \/ ManagedLeft' \/ Restored'
      BY <1>2, <2>2, <2>3, <2>4, <3>2, Members DEF InForce, OriginPending, ManagedLeft, Restored
    <3>4. Retracting'
      BY <2>1, <3>3, MovesDiffer, Members DEF Retracting, Before, Deleting
    <3> QED  BY <1>2, <2>1, <2>7, <3>4 DEF Undisturbed
  <2> QED  BY <1>3, <2>5, <2>6, <2>7 DEF Waste, Route
<1> QED  BY <1>3, <1>4, <1>5, <1>6 DEF Remove

\* A step that writes the record, or gives a name to what a create made.
LEMMA KemptWrites ==
  ASSUME WallOK, Kempt, AllocateFence \/ Claim \/ Create \/ Bind \/ Clear
  PROVE  Kempt'
<1>1. Typed /\ Planned /\ Beside /\ wall.phase \in Phase
  BY DEF WallOK, Typed
<1>2. CASE AllocateFence
  <2>1. wall.phase = "none" /\ plan' = Claims /\ wall' = wall
    BY <1>1, <1>2, Steps, Tails DEF AllocateFence, Advance
  <2> QED  BY <2>1, PlansDiffer DEF Kempt, Undisturbed, Unaimed
<1>3. CASE Claim
  <2>1. plan = Claims /\ wall.phase = "none" /\ UNCHANGED disk /\ At = "claim"
    BY <1>1, <1>3, Steps DEF Claim
  <2>2. CASE Stop /\ UNCHANGED <<wall, touched>>
    BY <2>1, <2>2, KemptStop, Ended
  <2>3. CASE /\ wall' = [phase |-> "origin", owner |-> call.by, origin |-> Seen("target"), bound |-> Absent]
             /\ Advance
    <3>1. wall'.phase = "origin" /\ wall'.origin = Seen("target") /\ plan' # Binds
      BY <2>1, <2>3, Tails, PlansDiffer DEF Advance, Unaimed
    <3>2. Seen("target")' = Seen("target") /\ Seen("origin")' = Absent
      BY <1>1, <2>1, Members DEF disk, Seen, Beside, Unused
    <3> QED  BY <3>1, <3>2 DEF Kempt, Undisturbed, Untaken
  <2> QED  BY <1>3, <2>2, <2>3 DEF Claim
<1>4. CASE Clear
  <2>1. wall'.phase = "none" /\ plan' # Binds
    BY <1>4, Ended, PlansDiffer DEF Clear, NoWall, Unaimed
  <2> QED  BY <2>1 DEF Kempt, Undisturbed
<1>5. CASE Create
  <2>1. plan = CreateStage /\ wall.phase = "staging" /\ Src = "armed"
    <3>1. Begins(CreateStage, "create", "armed", "armed")
      BY Heads
    <3> QED  BY <1>1, <1>5, <3>1, Steps DEF Create, Src, Begins
  <2>2. PICK i \in Free : /\ names' = [names EXCEPT !["armed"] = i]
                          /\ content' = [content EXCEPT ![i] = Desired] /\ obj' = i
    BY <1>5, <2>1 DEF Create
  <2>3. UNCHANGED <<wall, touched>>
    BY <1>5 DEF Create, ghosts
  <2>4. content'[obj'] = Desired'
    BY <1>1, <2>2, <2>3, StillWanted DEF Free, Typed
  <2>5. \A n \in Name \ {"armed"} : Seen(n)' = Seen(n)
    <3>1. \A n \in Name \ {"armed"} : names'[n] = names[n] /\ names[n] # i /\ names[n] \in Ident \cup {Absent}
      BY <1>1, <2>2 DEF Free, Typed
    <3>2. \A j \in Ident \ {i} : content'[j] = content[j]
      BY <1>1, <2>2 DEF Typed
    <3> QED  BY <3>1, <3>2, StillSeen
  <2> QED  BY <2>1, <2>3, <2>4, <2>5, Members DEF Kempt, Undisturbed, Untaken
<1>6. CASE Bind
  <2>1. plan = Binds /\ wall.phase = "staging" /\ UNCHANGED <<disk, touched>> /\ At = "bind"
    BY <1>1, <1>6, Steps DEF Bind, ghosts
  <2>2. CASE Stop /\ UNCHANGED wall
    BY <2>1, <2>2, KemptStop, Ended
  <2>3. CASE Advance /\ wall' = [wall EXCEPT !.phase = "bound", !.bound = obj]
    <3>1. /\ wall'.phase = "bound" /\ wall'.bound = obj /\ wall'.owner = wall.owner
          /\ wall'.origin = wall.origin /\ plan' # Binds
      BY <1>1, <2>1, <2>3, Tails, PlansDiffer DEF Advance, Typed
    <3>2. Desired' = Desired /\ Seen("target")' = Seen("target") /\ Seen("origin")' = Seen("origin")
      BY <2>1, <3>1, StillWanted DEF disk, Seen
    <3> QED  BY <2>1, <3>1, <3>2 DEF Kempt, Undisturbed, Untaken, disk
  <2> QED  BY <1>6, <2>2, <2>3 DEF Bind
<1> QED  BY <1>2, <1>3, <1>4, <1>5, <1>6

LEMMA KemptCrashes ==
  ASSUME WallOK, Kempt, Crash
  PROVE  Kempt'
<1>1. Typed /\ Planned /\ wall.phase \in Phase
  BY DEF WallOK, Typed
<1>2. UNCHANGED <<wall, touched>> /\ plan' = <<>>
  BY Ended DEF Crash, ghosts
<1>3. CASE UNCHANGED disk
  BY <1>1, <1>2, <1>3, KemptStop
<1>4. CASE /\ At = "create"
           /\ \E i \in Free : /\ names' = [names EXCEPT ![Src] = i]
                              /\ content' = [content EXCEPT ![i] = [by |-> Torn, from |-> Empty]]
  <2>1. wall.phase = "staging" /\ Src = "armed"
    <3>1. Begins(CreateStage, "create", "armed", "armed")
      BY Heads
    <3> QED  BY <1>1, <1>4, <3>1, Steps DEF Src, Begins
  <2>2. PICK i \in Free : /\ names' = [names EXCEPT !["armed"] = i]
                          /\ content' = [content EXCEPT ![i] = [by |-> Torn, from |-> Empty]]
    BY <1>4, <2>1
  <2>3. \A n \in Name \ {"armed"} : Seen(n)' = Seen(n)
    <3>1. \A n \in Name \ {"armed"} : names'[n] = names[n] /\ names[n] # i /\ names[n] \in Ident \cup {Absent}
      BY <1>1, <2>2 DEF Free, Typed
    <3>2. \A j \in Ident \ {i} : content'[j] = content[j]
      BY <1>1, <2>2 DEF Typed
    <3> QED  BY <3>1, <3>2, StillSeen
  <2>4. plan' # Binds
    BY <1>2, PlansDiffer DEF Unaimed
  <2> QED  BY <1>2, <2>1, <2>3, <2>4, Members DEF Kempt, Undisturbed, Untaken
<1> QED  BY <1>3, <1>4 DEF Crash

LEMMA KemptStep ==
  ASSUME WallOK, Kempt, [Next]_vars
  PROVE  Kempt'
<1>1. CASE UNCHANGED vars
  <2>1. UNCHANGED <<names, content, wall, plan, obj, touched>>
    BY <1>1 DEF vars
  <2>2. Undisturbed' <=> Undisturbed
    BY <2>1, StillLaid, Members DEF Undisturbed, Publishing, Retracting
  <2> QED  BY <2>1, <2>2 DEF Kempt
<1>2. CASE Refuse
  <2>1. UNCHANGED <<disk, wall, touched>> /\ plan' = <<>>
    BY <1>2, Ended DEF Refuse, ghosts
  <2> QED  BY <2>1, KemptStop
<1>3. CASE Drive /\ ~Refuse
  BY <1>3, KemptDecisions, KemptRecords DEF Drive
<1>4. CASE Primitive
  BY <1>4, KemptWrites, KemptConfirms, KemptLinks, KemptRemovals DEF Primitive
<1>5. CASE UserReplaces \/ UserEdits \/ UserDeletes
  BY <1>5 DEF UserReplaces, UserEdits, UserDeletes, UserStep, Kempt
<1> QED  BY <1>1, <1>2, <1>3, <1>4, <1>5, KemptCalls, KemptCrashes DEF Next

\* The journal and the names left behind tell the next call how to go on, wherever
\* a process died, if the user kept away from the target since the claim: the only
\* layouts refused are the four that a death half way through a move leaves.
THEOREM CrashesRecover == Spec => []CrashesAreRecovered
<1>1. Init => Kempt
  BY PlansDiffer DEF Init, NoWall, Kempt, Undisturbed, Unaimed
<1>2. WallOK /\ Kempt => CrashesAreRecovered
  <2> SUFFICES ASSUME WallOK, Undisturbed, At = "idle", wall.phase # "none"
               PROVE  ApplyResumable \/ RestoreResumable \/ touched \/ HalfMoved
    BY DEF Kempt, CrashesAreRecovered
  <2>1. Typed /\ Beside /\ Restful /\ plan = <<>> /\ wall.phase \in Phase
    BY Pauses DEF WallOK, Typed
  <2>2. \A n \in Name : names[n] = Absent <=> Seen(n) = Absent
    BY <2>1, Looks
  <2>3. CASE wall.phase \in {"origin", "staging"}
    BY <2>1, <2>2, <2>3, Members DEF ApplyResumable, StageResumable, Beside, Unused
  <2>4. CASE wall.phase = "bound"
    <3>1. wall.bound \in Ident /\ wall.bound # Absent
      BY <2>1, <2>4, AbsentAssumption DEF Beside
    <3>2. \A n \in Name : names[n] = wall.bound => Seen(n) = Want
      BY <2>4, <3>1 DEF Undisturbed, Seen, Want
    <3>3. \/ names["stage"] = Absent /\ names["armed"] = wall.bound
          \/ names["stage"] = wall.bound /\ names["armed"] \in {Absent, wall.bound}
      BY <2>1, <2>4, <3>1 DEF Beside
    <3>4. Untaken
      BY <2>4 DEF Undisturbed
    <3> QED  BY <2>2, <2>4, <3>2, <3>3, <3>4, Members DEF ApplyResumable, StageResumable
  <2>5. CASE wall.phase \in {"applying", "applied"}
    BY <2>1, <2>5 DEF ApplyResumable, Undisturbed, Publishing
  <2>6. CASE wall.phase = "restoring"
    BY <2>1, <2>6 DEF RestoreResumable, Undisturbed, Retracting
  <2>7. CASE wall.phase \in {"restored", "released"}
    BY <2>1, <2>2, <2>7, Members DEF RestoreResumable, Restored, Restful, Beside, Unused
  <2> QED  BY <2>1, <2>3, <2>4, <2>5, <2>6, <2>7 DEF Phase
<1>3. WallOK /\ Kempt /\ [Next]_vars => Kempt'
  BY KemptStep
<1> QED  BY <1>1, <1>2, <1>3, InvariantHolds, PTL DEF Spec

===========================================================================
