-------------------------- MODULE EventSyncProofs --------------------------
(***************************************************************************)
(* Proofs about EventSync, for every set of people and every bound.        *)
(*                                                                         *)
(* That one goroutine at a time writes rests on where the queue is marked  *)
(* running: a goroutine enters only when the mark is off, sets it, and     *)
(* takes it off in the step in which it leaves; a restart ends both.  The  *)
(* types rest on a goroutine running only after its change was committed.  *)
(***************************************************************************)
EXTENDS EventSync, SequenceTheorems, TLAPS

\* The goroutines of changes to come have not started.
NotStarted == \A g \in Runner : g >= Newest => pc[g] = "idle"

Inv == TypeOK /\ NotStarted /\ OneWriter

\* Goroutine g goes on from one step of its pass to the next.
GoesOn(g) ==
  /\ Writing(g) /\ \E x \in Locations \ {"idle", "ready"} : pc' = [pc EXCEPT ![g] = x]
  /\ UNCHANGED <<hist, change, run>>

-----------------------------------------------------------------------------
(* What several actions have in common.                                    *)

\* The goroutines are numbers: the sweep and one for each change.
LEMMA RunnersAreNumbers == Runner \subseteq Nat /\ Sweep \in Runner /\ \A n \in 1..MaxChanges : n \in Runner
  BY SyncAssumption, SMT DEF Runner, Sweep

\* A step of a pass starts nobody, ends nobody and keeps the queue's mark.
LEMMA GoingOnKeepsOneWriter ==
  ASSUME NEW g \in Runner, Inv, GoesOn(g)
  PROVE  NotStarted' /\ OneWriter' /\ pc' \in [Runner -> Locations]
<1> PICK x \in Locations \ {"idle", "ready"} : pc' = [pc EXCEPT ![g] = x]
  BY DEF GoesOn
<1>1. pc \in [Runner -> Locations] /\ pc[g] \notin {"idle", "ready"} /\ Newest' = Newest
      /\ run' = run
  BY DEF Inv, TypeOK, GoesOn, Writing, Newest
<1>2. pc' \in [Runner -> Locations]
  BY <1>1
<1>3. \A h \in Runner : Writing(h)' <=> Writing(h)
  BY <1>1 DEF Writing
<1>4. \A h \in Runner : h # g => pc'[h] = pc[h]
  BY <1>1
<1>5. NotStarted'
  BY <1>1, <1>4 DEF Inv, NotStarted
<1>6. OneWriter'
  BY <1>1, <1>3, Zenon DEF Inv, OneWriter
<1> QED BY <1>2, <1>5, <1>6

\* A step that moves no goroutine and leaves the queue alone keeps both too.
LEMMA StandingStillKeepsOneWriter ==
  ASSUME Inv, UNCHANGED <<hist, pc, run>>
  PROVE  NotStarted' /\ OneWriter'
BY DEF Inv, NotStarted, OneWriter, Writing, Newest

\* What a pass writes down of itself keeps the passes' type.
LEMMA PassesAreTyped ==
  ASSUME NEW g \in Runner, pass \in [Runner -> Pass], NEW p \in Pass, pass' = [pass EXCEPT ![g] = p]
  PROVE  pass' \in [Runner -> Pass]
OBVIOUS

\* There is always a newest version of the roster, and the store holds it.
LEMMA NewestIsAVersion ==
  ASSUME TypeOK
  PROVE  Newest \in Versions /\ Newest \in Nat /\ Newest >= 1 /\ Current \in Roster
<1>1. hist \in Seq(Roster) /\ Newest \in 1..(MaxChanges + 1) /\ MaxChanges \in Nat /\ Newest = Len(hist)
  BY SyncAssumption DEF TypeOK, Versions, Newest
<1> QED BY <1>1 DEF Current, Versions

\* A call to Discord that fails, or one that works, keeps the count of failures in its bound.
LEMMA CallsAreCounted ==
  ASSUME failures \in 0..MaxFailures, Fail \/ Work
  PROVE  failures' \in 0..MaxFailures
BY SyncAssumption DEF Fail, Work

-----------------------------------------------------------------------------
(* The start, and the steps one by one.                                    *)

\* Nobody writes at the start.
LEMMA InitHolds == Init => Inv
<1> SUFFICES ASSUME Init PROVE Inv OBVIOUS
<1>1. hist \in Seq(Roster) /\ Len(hist) = 1
  <2>1. [u \in Users |-> "withdrawn"] \in Roster
    BY DEF Roster, State
  <2> QED BY <2>1 DEF Init
<1>2. 1 \in Versions /\ 0 \in 0..MaxChanges /\ 0 \in 0..MaxFailures /\ 0 \in 0..MaxCrashes
  BY SyncAssumption DEF Versions
<1>3. NoPass \in Pass /\ NoRun \in [running : BOOLEAN, dirty : BOOLEAN, changes : Seq(Change)]
  BY <1>2 DEF NoPass, NoRun, Pass
<1>4. change \in Seq(Change) /\ Len(change) = 0
  BY DEF Init
<1>5. pc \in [Runner -> Locations] /\ pass \in [Runner -> Pass] /\ role \in [Users -> SUBSET Roles]
      /\ taken \in Roster /\ shown \in [Surfaces -> [ev : Versions, list : Versions]]
  BY <1>2, <1>3 DEF Init, Locations, Roster, State
<1>6. TypeOK
  BY <1>1, <1>2, <1>3, <1>4, <1>5 DEF Init, TypeOK, Newest
<1>7. NotStarted /\ OneWriter
  BY DEF Init, NotStarted, OneWriter, Writing, NoRun
<1> QED BY <1>6, <1>7 DEF Inv

\* A commit happens only while there is a goroutine left for it.
LEMMA CommitHasARunner ==
  ASSUME TypeOK, NEW u \in Users, NEW s \in State, Commit(u, s)
  PROVE  Newest <= MaxChanges
<1>1. Newest \in Nat /\ redraws \in Nat /\ MaxChanges \in Nat
  BY NewestIsAVersion, SyncAssumption DEF TypeOK, Versions
<1>2. Newest + redraws <= MaxChanges
  BY DEF Commit
<1> QED BY <1>1, <1>2

\* A handler commits a new roster; its goroutine waits for its turn.
LEMMA CommitKeeps ==
  ASSUME Inv, NEW u \in Users, NEW s \in State, Commit(u, s)
  PROVE  Inv'
<1> USE DEF Inv
<1>1. Newest \in Runner /\ Newest \in Nat /\ Newest # Sweep /\ Newest + 1 \in Versions
      /\ Current \in Roster
  BY NewestIsAVersion, CommitHasARunner, SyncAssumption DEF Runner, Sweep, Versions
<1>2. hist' \in Seq(Roster) /\ Newest' = Newest + 1
  <2>1. hist \in Seq(Roster) /\ [Current EXCEPT ![u] = s] \in Roster
    BY <1>1 DEF TypeOK, Roster
  <2>2. hist' = Append(hist, [Current EXCEPT ![u] = s])
    BY DEF Commit
  <2> HIDE DEF Current
  <2> QED BY <2>1, <2>2, AppendProperties DEF Newest
<1>3. change' \in Seq(Change) /\ Len(change') = Newest' - 1
  <2>1. change \in Seq(Change) /\ Len(change) = Newest - 1 /\ [user |-> u, state |-> s] \in Change
    BY DEF TypeOK, Change
  <2>2. change' = Append(change, [user |-> u, state |-> s])
    BY DEF Commit
  <2> QED BY <2>1, <2>2, <1>1, <1>2, AppendProperties
<1>4. pc \in [Runner -> Locations] /\ pc[Newest] = "idle" /\ pc' = [pc EXCEPT ![Newest] = "ready"]
  BY <1>1 DEF TypeOK, NotStarted, Commit
<1>5. pc' \in [Runner -> Locations]
  BY <1>4 DEF Locations
<1>6. NotStarted'
  <2> SUFFICES ASSUME NEW g \in Runner, g >= Newest' PROVE pc'[g] = "idle"
    BY DEF NotStarted
  <2>1. g >= Newest /\ g # Newest
    BY <1>1, <1>2, RunnersAreNumbers
  <2> QED BY <2>1, <1>4 DEF NotStarted
<1>7. \A h \in Runner : Writing(h)' <=> Writing(h)
  BY <1>4 DEF Writing
<1>8. OneWriter'
  BY <1>7 DEF OneWriter, Commit
<1>9. TypeOK'
  BY <1>1, <1>2, <1>3, <1>5 DEF TypeOK, Commit, others
<1> QED BY <1>6, <1>8, <1>9

\* The sweep starts where something is stale.
LEMMA SweepFindsKeeps ==
  ASSUME Inv, SweepFinds
  PROVE  Inv'
<1>1. pc \in [Runner -> Locations] /\ pc[Sweep] = "idle" /\ pc' = [pc EXCEPT ![Sweep] = "ready"]
      /\ Sweep \in Runner
  BY RunnersAreNumbers DEF Inv, TypeOK, SweepFinds
<1>2. \A h \in Runner : Writing(h)' <=> Writing(h)
  BY <1>1 DEF Writing
<1>3. OneWriter'
  BY <1>2 DEF Inv, OneWriter, SweepFinds
<1>4. NotStarted'
  <2>1. ~(Sweep >= Newest) /\ Newest' = Newest
    BY NewestIsAVersion DEF Inv, Sweep, SweepFinds, Newest
  <2> QED BY <1>1, <2>1 DEF Inv, NotStarted
<1>5. TypeOK'
  <2>1. pc' \in [Runner -> Locations]
    BY <1>1 DEF Locations
  <2> QED BY <2>1 DEF Inv, TypeOK, SweepFinds, Newest, others
<1> QED BY <1>3, <1>4, <1>5 DEF Inv

\* A goroutine that finds a writer leaves its change to it; else it becomes the writer.
LEMMA EnqueueKeeps ==
  ASSUME Inv, NEW g \in Runner, Enqueue(g)
  PROVE  Inv'
<1>1. pc \in [Runner -> Locations] /\ pc[g] = "ready" /\ run.running \in BOOLEAN
      /\ pc' = [pc EXCEPT ![g] = IF run.running THEN "idle" ELSE "claim"]
  BY DEF Inv, TypeOK, Enqueue
<1>2. g < Newest
  BY <1>1, NewestIsAVersion, RunnersAreNumbers DEF Inv, NotStarted
<1>3. Carried(g) \in Seq(Change) /\ (g # Sweep => change[g] \in Change)
  <2>1. g # Sweep => change[g] \in Change
    <3>1. change \in Seq(Change) /\ Len(change) = Newest - 1 /\ g \in Nat /\ Newest \in Nat
      BY NewestIsAVersion, RunnersAreNumbers DEF Inv, TypeOK
    <3> QED BY <3>1, <1>2 DEF Sweep
  <2> QED BY <2>1 DEF Carried
<1>4. run' \in [running : BOOLEAN, dirty : BOOLEAN, changes : Seq(Change)] /\ run'.running = TRUE
  <2>1. run.changes \in Seq(Change)
    BY DEF Inv, TypeOK
  <2>2. run.changes \o Carried(g) \in Seq(Change)
    BY <2>1, <1>3, ConcatProperties
  <2> QED BY <2>2 DEF Enqueue
<1>5. taken' \in Roster
  <2>1. taken \in Roster /\ (g # Sweep => change[g].user \in Users /\ change[g].state \in State)
    BY <1>3 DEF Inv, TypeOK, Change
  <2> QED BY <2>1 DEF Enqueue, Roster
<1>6. pc' \in [Runner -> Locations] /\ Newest' = Newest
  BY <1>1 DEF Locations, Enqueue, Newest
<1>7. TypeOK'
  BY <1>4, <1>5, <1>6 DEF Inv, TypeOK, Enqueue, others
<1>8. NotStarted'
  BY <1>1, <1>2, <1>6, NewestIsAVersion, RunnersAreNumbers DEF Inv, NotStarted
<1>9. OneWriter'
  <2>1. CASE run.running
    <3>1. \A h \in Runner : Writing(h)' <=> Writing(h)
      BY <1>1, <2>1 DEF Writing
    <3> QED BY <3>1, <2>1, <1>4 DEF Inv, OneWriter
  <2>2. CASE ~run.running
    <3>1. \A h \in Runner : ~Writing(h)
      BY <2>2 DEF Inv, OneWriter
    <3>2. \A h \in Runner : Writing(h)' <=> h = g
      BY <1>1, <2>2, <3>1 DEF Writing
    <3> QED BY <3>2, <1>4 DEF OneWriter
  <2> QED BY <2>1, <2>2, <1>1
<1> QED BY <1>7, <1>8, <1>9 DEF Inv

\* The writer takes the batch, or the entry ends with nobody writing.
LEMMA ClaimKeeps ==
  ASSUME Inv, NEW g \in Runner, Claim(g)
  PROVE  Inv'
<1>1. pc \in [Runner -> Locations] /\ pc[g] = "claim" /\ Writing(g) /\ Newest' = Newest
      /\ UNCHANGED <<hist, change>>
  BY DEF Inv, TypeOK, Claim, Writing, Newest
<1>2. run.changes \in Seq(Change) /\ <<>> \in Seq(Change) /\ 1 \in Versions
  BY SyncAssumption DEF Inv, TypeOK, Versions
<1>3. CASE run.running /\ run.dirty
  <2>1. pass' = [pass EXCEPT ![g] = [NoPass EXCEPT !.batch = run.changes]]
        /\ run' = [run EXCEPT !.changes = <<>>, !.dirty = FALSE]
        /\ pc' = [pc EXCEPT ![g] = "reload"]
    BY <1>3 DEF Claim
  <2>2. [NoPass EXCEPT !.batch = run.changes] \in Pass
    BY <1>2 DEF NoPass, Pass
  <2>3. pass' \in [Runner -> Pass]
    BY <2>1, <2>2, PassesAreTyped DEF Inv, TypeOK
  <2>4. run' \in [running : BOOLEAN, dirty : BOOLEAN, changes : Seq(Change)]
        /\ run'.running = run.running
    BY <2>1, <1>2 DEF Inv, TypeOK
  <2>5. pc' \in [Runner -> Locations] /\ \A h \in Runner : Writing(h)' <=> Writing(h)
    BY <2>1, <1>1 DEF Locations, Writing
  <2>6. TypeOK'
    BY <2>3, <2>4, <2>5, <1>1 DEF Inv, TypeOK, Claim, others
  <2>7. OneWriter'
    BY <2>4, <2>5 DEF Inv, OneWriter
  <2>8. NotStarted'
    BY <2>1, <1>1 DEF Inv, NotStarted
  <2> QED BY <2>6, <2>7, <2>8 DEF Inv
<1>4. CASE ~(run.running /\ run.dirty)
  <2>1. run' = NoRun /\ pass' = [pass EXCEPT ![g] = NoPass] /\ pc' = [pc EXCEPT ![g] = "idle"]
    BY <1>4 DEF Claim
  <2>2. NoPass \in Pass /\ NoRun \in [running : BOOLEAN, dirty : BOOLEAN, changes : Seq(Change)]
    BY <1>2 DEF NoPass, NoRun, Pass
  <2>3. pass' \in [Runner -> Pass]
    BY <2>1, <2>2, PassesAreTyped DEF Inv, TypeOK
  <2>4. pc' \in [Runner -> Locations]
    BY <2>1, <1>1 DEF Locations
  <2>5. TypeOK'
    BY <2>1, <2>2, <2>3, <2>4, <1>1 DEF Inv, TypeOK, Claim, others
  <2>6. \A h \in Runner : Writing(h) => h = g
    BY <1>1 DEF Inv, OneWriter
  <2>7. \A h \in Runner : ~Writing(h)'
    BY <2>1, <2>6, <1>1 DEF Writing
  <2>8. OneWriter'
    BY <2>1, <2>7 DEF OneWriter, NoRun
  <2>9. NotStarted'
    BY <2>1, <1>1 DEF Inv, NotStarted
  <2> QED BY <2>5, <2>8, <2>9 DEF Inv
<1> QED BY <1>3, <1>4

\* The pass' own reads: a version, a failure, or the next change of its batch.
LEMMA ReadsKeep ==
  ASSUME Inv, NEW g \in Runner, Reload(g) \/ ReadRoster(g) \/ Draw(g)
  PROVE  Inv'
<1>1. Newest \in Versions /\ pass \in [Runner -> Pass] /\ pass[g] \in Pass
  BY NewestIsAVersion DEF Inv, TypeOK
<1>2. [pass[g] EXCEPT !.ev = Newest] \in Pass /\ [pass[g] EXCEPT !.list = Newest] \in Pass
      /\ [pass[g] EXCEPT !.drawn = Newest] \in Pass
      /\ \A b \in BOOLEAN : [pass[g] EXCEPT !.ok = b] \in Pass
  BY <1>1 DEF Pass
<1>3. \E p \in Pass : pass' = [pass EXCEPT ![g] = p]
  <2>1. CASE Reload(g) \/ ReadRoster(g)
    <3>1. pass' = [pass EXCEPT ![g] = [pass[g] EXCEPT !.ev = Newest]]
          \/ pass' = [pass EXCEPT ![g] = [pass[g] EXCEPT !.list = Newest]]
          \/ pass' = [pass EXCEPT ![g] = pass[g]]
      BY <2>1, <1>1 DEF Reload, ReadRoster
    <3> QED BY <3>1, <1>1, <1>2
  <2>2. CASE Draw(g)
    <3>1. \/ pass' = [pass EXCEPT ![g] = [pass[g] EXCEPT !.drawn = Newest]]
          \/ pass' = [pass EXCEPT ![g] = [pass[g] EXCEPT !.ok = @ /\ pc[g] = "drawTable"]]
      BY <2>2, <1>1 DEF Draw
    <3>2. (pass[g].ok /\ pc[g] = "drawTable") \in BOOLEAN
      OBVIOUS
    <3> QED BY <3>1, <3>2, <1>1, <1>2
  <2> QED BY <2>1, <2>2
<1>4. pass' \in [Runner -> Pass]
  BY <1>1, <1>3
<1>5. (Fail \/ Work) /\ UNCHANGED <<hist, change, run, recorded, shown, role, taken, others, crashes>>
  BY DEF Reload, ReadRoster, Draw
<1>6. GoesOn(g)
  BY <1>5 DEF GoesOn, Reload, ReadRoster, Draw, Writing, Locations
<1>7. pc' \in [Runner -> Locations] /\ OneWriter' /\ NotStarted'
  BY <1>6, GoingOnKeepsOneWriter
<1>8. failures' \in 0..MaxFailures
  BY <1>5, CallsAreCounted DEF Inv, TypeOK
<1>9. TypeOK'
  BY <1>4, <1>5, <1>7, <1>8 DEF Inv, TypeOK, Newest, others
<1> QED BY <1>7, <1>9 DEF Inv

\* Roles are applied by the writer, from its own batch.
LEMMA ApplyRolesKeeps ==
  ASSUME Inv, NEW g \in Runner, ApplyRoles(g)
  PROVE  Inv'
<1>1. pass \in [Runner -> Pass] /\ pass[g] \in Pass /\ pass[g].batch \in Seq(Change) /\ pass[g].batch # <<>>
  BY DEF Inv, TypeOK, Pass, ApplyRoles
<1>2. Tail(pass[g].batch) \in Seq(Change) /\ Head(pass[g].batch) \in Change
  BY <1>1
<1>3. PICK done \in SUBSET Roles :
        /\ IF done = Roles THEN Work ELSE Fail
        /\ role' = [role EXCEPT ![Head(pass[g].batch).user] = (@ \ done) \cup (done \cap {Head(pass[g].batch).state})]
  BY DEF ApplyRoles
<1>4. role' \in [Users -> SUBSET Roles]
  <2>1. role \in [Users -> SUBSET Roles] /\ Head(pass[g].batch).user \in Users
    BY <1>2 DEF Inv, TypeOK, Change
  <2> QED BY <2>1, <1>3
<1>5. pass' \in [Runner -> Pass]
  <2>1. [pass[g] EXCEPT !.batch = Tail(@)] \in Pass
    BY <1>1, <1>2 DEF Pass
  <2>2. pass' = [pass EXCEPT ![g] = [pass[g] EXCEPT !.batch = Tail(@)]]
    BY <1>1 DEF ApplyRoles
  <2> QED BY <1>1, <2>1, <2>2
<1>6. failures' \in 0..MaxFailures
  BY <1>3, CallsAreCounted DEF Inv, TypeOK
<1>7. UNCHANGED <<hist, change, pc, run, recorded, shown, taken, others, crashes>>
  BY DEF ApplyRoles
<1>8. TypeOK'
  BY <1>4, <1>5, <1>6, <1>7 DEF Inv, TypeOK, Newest, others
<1> QED BY <1>7, <1>8, StandingStillKeepsOneWriter DEF Inv

\* The signature only decides where the writer goes next.
LEMMA CompareKeeps ==
  ASSUME Inv, NEW g \in Runner, Compare(g)
  PROVE  Inv'
<1>1. UNCHANGED <<hist, change, pass, run, recorded, shown, role, taken, others, failures, crashes>>
  BY DEF Compare
<1>2. GoesOn(g)
  BY <1>1 DEF GoesOn, Compare, Writing, Locations
<1>3. pc' \in [Runner -> Locations] /\ OneWriter' /\ NotStarted'
  BY <1>2, GoingOnKeepsOneWriter
<1>4. TypeOK'
  BY <1>1, <1>3 DEF Inv, TypeOK, Newest, others
<1> QED BY <1>3, <1>4 DEF Inv

\* A surface is written with versions the pass has read, or the write fails.
LEMMA WritesKeep ==
  ASSUME Inv, NEW g \in Runner,
         RenameOnly(g) \/ SendTable(g) \/ \E s \in Surfaces \ {"table"} : Send(g, s)
  PROVE  Inv'
<1>1. shown \in [Surfaces -> [ev : Versions, list : Versions]]
      /\ pass \in [Runner -> Pass] /\ pass[g] \in Pass
  BY DEF Inv, TypeOK
<1>2. \A v, w \in Versions : [ev |-> v, list |-> w] \in [ev : Versions, list : Versions]
  OBVIOUS
<1>3. pass[g].ev \in Versions /\ pass[g].list \in Versions /\ pass[g].drawn \in Versions
      /\ [pass[g] EXCEPT !.ok = FALSE] \in Pass
  BY <1>1 DEF Pass
<1>4. CASE RenameOnly(g)
  <2>1. shown' = shown \/ shown' = [shown EXCEPT !["native"] = [ev |-> pass[g].ev, list |-> pass[g].list]]
    BY <1>4 DEF RenameOnly
  <2>2. shown' \in [Surfaces -> [ev : Versions, list : Versions]]
    BY <2>1, <1>1, <1>2, <1>3
  <2>3. GoesOn(g)
    BY <1>4 DEF RenameOnly, GoesOn, Writing, Locations
  <2>4. pc' \in [Runner -> Locations] /\ OneWriter' /\ NotStarted'
    BY <2>3, GoingOnKeepsOneWriter
  <2>5. failures' \in 0..MaxFailures
    BY <1>4, CallsAreCounted DEF Inv, TypeOK, RenameOnly
  <2>6. TypeOK'
    BY <2>2, <2>4, <2>5, <1>4 DEF Inv, TypeOK, RenameOnly, Newest, others
  <2> QED BY <2>4, <2>6 DEF Inv
<1>5. CASE SendTable(g)
  <2>1. shown' = shown \/ shown' = [shown EXCEPT !["table"] = [ev |-> pass[g].drawn, list |-> pass[g].drawn]]
    BY <1>5 DEF SendTable
  <2>2. shown' \in [Surfaces -> [ev : Versions, list : Versions]]
    BY <2>1, <1>1, <1>2, <1>3
  <2>3. GoesOn(g)
    BY <1>5 DEF SendTable, GoesOn, Writing, Locations
  <2>4. pc' \in [Runner -> Locations] /\ OneWriter' /\ NotStarted'
    BY <2>3, GoingOnKeepsOneWriter
  <2>5. failures' \in 0..MaxFailures
    BY <1>5, CallsAreCounted DEF Inv, TypeOK, SendTable
  <2>6. TypeOK'
    BY <2>2, <2>4, <2>5, <1>5 DEF Inv, TypeOK, SendTable, Newest, others
  <2> QED BY <2>4, <2>6 DEF Inv
<1>6. ASSUME NEW s \in Surfaces \ {"table"}, Send(g, s)
      PROVE  Inv'
  <2>1. Sent(g, s) \in [ev : Versions, list : Versions]
    BY <1>2, <1>3 DEF Sent
  <2>2. shown' = shown \/ shown' = [shown EXCEPT ![s] = Sent(g, s)]
    BY <1>6 DEF Send
  <2>3. shown' \in [Surfaces -> [ev : Versions, list : Versions]]
    BY <2>1, <2>2, <1>1
  <2>4. pass' = pass \/ pass' = [pass EXCEPT ![g] = [pass[g] EXCEPT !.ok = FALSE]]
    BY <1>6, <1>1 DEF Send
  <2>5. pass' \in [Runner -> Pass]
    BY <2>4, <1>1, <1>3
  <2>6. GoesOn(g)
    <3>1. At[s] \in {"sendForum", "newEvents", "native"} /\ After[s] \in {"newEvents", "native", "record"}
      BY DEF At, After, Surfaces
    <3>2. pc[g] = At[s] /\ pc' = [pc EXCEPT ![g] = After[s]] /\ UNCHANGED <<hist, change, run>>
      BY <1>6 DEF Send
    <3>3. Writing(g)
      BY <3>1, <3>2 DEF Writing
    <3>4. After[s] \in Locations \ {"idle", "ready"}
      BY <3>1 DEF Locations
    <3> QED BY <3>2, <3>3, <3>4 DEF GoesOn
  <2>7. pc' \in [Runner -> Locations] /\ OneWriter' /\ NotStarted'
    BY <2>6, GoingOnKeepsOneWriter
  <2>8. failures' \in 0..MaxFailures
    BY <1>6, CallsAreCounted DEF Inv, TypeOK, Send
  <2>9. TypeOK'
    BY <2>3, <2>5, <2>7, <2>8, <1>6 DEF Inv, TypeOK, Send, Newest, others
  <2> QED BY <2>7, <2>9 DEF Inv
<1> QED BY <1>4, <1>5, <1>6

\* A pass that ends records its signature and goes back to the queue.
LEMMA RecordKeeps ==
  ASSUME Inv, NEW g \in Runner, Record(g)
  PROVE  Inv'
<1>1. pass[g].list \in Versions /\ recorded \in Versions
  BY DEF Inv, TypeOK, Pass
<1>2. recorded' \in Versions
  BY <1>1 DEF Record
<1>3. GoesOn(g)
  BY DEF Record, GoesOn, Writing, Locations
<1>4. pc' \in [Runner -> Locations] /\ OneWriter' /\ NotStarted'
  BY <1>3, GoingOnKeepsOneWriter
<1>5. failures' \in 0..MaxFailures
  BY CallsAreCounted DEF Inv, TypeOK, Record
<1>6. TypeOK'
  BY <1>2, <1>4, <1>5 DEF Inv, TypeOK, Record, Newest, others
<1> QED BY <1>4, <1>6 DEF Inv

\* Redraws of the table by others do not touch the queue.
LEMMA OthersKeep ==
  ASSUME Inv, OtherDraws \/ OtherSends
  PROVE  Inv'
<1>1. UNCHANGED <<hist, change, pc, pass, run, recorded, role, taken, crashes>>
  BY DEF OtherDraws, OtherSends
<1>2. Newest \in Versions
  BY NewestIsAVersion DEF Inv
<1>3. other' \in Versions \cup {NotDrawing} /\ redraws' \in 0..MaxChanges
  BY <1>2, SyncAssumption DEF Inv, TypeOK, OtherDraws, OtherSends, Versions
<1>4. shown' \in [Surfaces -> [ev : Versions, list : Versions]]
  <2>1. CASE OtherDraws
    BY <2>1 DEF Inv, TypeOK, OtherDraws
  <2>2. CASE OtherSends
    <3>1. other \in Versions
      BY <2>2 DEF Inv, TypeOK, OtherSends
    <3>2. shown' = shown \/ shown' = [shown EXCEPT !["table"] = [ev |-> other, list |-> other]]
      BY <2>2 DEF OtherSends
    <3> QED BY <3>1, <3>2 DEF Inv, TypeOK
  <2> QED BY <2>1, <2>2
<1>5. failures' \in 0..MaxFailures
  <2>1. failures' = failures \/ Fail \/ Work
    BY DEF OtherDraws, OtherSends
  <2> QED BY <2>1, CallsAreCounted DEF Inv, TypeOK
<1>6. TypeOK'
  BY <1>1, <1>3, <1>4, <1>5 DEF Inv, TypeOK, Newest
<1> QED BY <1>1, <1>6, StandingStillKeepsOneWriter DEF Inv

\* A restart forgets the queue and every goroutine with it.
LEMMA CrashKeeps ==
  ASSUME Inv, Crash
  PROVE  Inv'
<1>1. 1 \in Versions /\ crashes' \in 0..MaxCrashes
  BY SyncAssumption DEF Inv, TypeOK, Versions, Crash
<1>2. NoPass \in Pass /\ NoRun \in [running : BOOLEAN, dirty : BOOLEAN, changes : Seq(Change)]
  BY <1>1 DEF NoPass, NoRun, Pass
<1>3. pc' \in [Runner -> Locations] /\ pass' \in [Runner -> Pass]
  BY <1>2 DEF Crash, Locations
<1>4. TypeOK'
  BY <1>1, <1>2, <1>3 DEF Inv, TypeOK, Crash, Newest
<1>5. NotStarted' /\ OneWriter'
  BY DEF Crash, NotStarted, OneWriter, Writing, NoRun
<1> QED BY <1>4, <1>5 DEF Inv

\* A step of something else.
LEMMA StutterKeeps ==
  ASSUME Inv, UNCHANGED vars
  PROVE  Inv'
BY DEF Inv, TypeOK, NotStarted, OneWriter, Writing, Newest, vars, others

-----------------------------------------------------------------------------
\* Each action of publishing keeps the invariant.
LEMMA NextHolds == Inv /\ [Next]_vars => Inv'
<1> SUFFICES ASSUME Inv, [Next]_vars PROVE Inv' OBVIOUS
<1>1. CASE \E u \in Users, s \in State : Commit(u, s)
  BY <1>1, CommitKeeps
<1>2. CASE SweepFinds
  BY <1>2, SweepFindsKeeps
<1>3. ASSUME NEW g \in Runner, Step(g) PROVE Inv'
  BY <1>3, EnqueueKeeps, ClaimKeeps, ReadsKeep, ApplyRolesKeeps, CompareKeeps, WritesKeep,
     RecordKeeps, Zenon DEF Step
<1>4. CASE OtherDraws \/ OtherSends
  BY <1>4, OthersKeep
<1>5. CASE Crash
  BY <1>5, CrashKeeps
<1>6. CASE UNCHANGED vars
  BY <1>6, StutterKeeps
<1> QED BY <1>1, <1>2, <1>3, <1>4, <1>5, <1>6, Zenon DEF Next

\* So it holds throughout.
LEMMA InvAlways == Spec => []Inv
BY InitHolds, NextHolds, PTL DEF Spec

\* Every variable of the publishing keeps its type (eventsync.go), for every
\* number of people, changes, failures and restarts.
THEOREM TypeCorrect == Spec => []TypeOK
<1>1. Inv => TypeOK BY DEF Inv
<1> QED BY <1>1, InvAlways, PTL

\* eventSyncQueue (eventsync.go) lets one goroutine at a time publish, and is
\* marked running exactly while one does, in every interleaving of changes,
\* sweeps, failed calls and restarts.
THEOREM OneWriterAtATime == Spec => []OneWriter
<1>1. Inv => OneWriter BY DEF Inv
<1> QED BY <1>1, InvAlways, PTL

-----------------------------------------------------------------------------
(* What a burst of changes comes to when no call fails and the process     *)
(* does not restart: the newest roster is recorded as published, and each  *)
(* person has the role of their last change.                               *)
(*                                                                         *)
(* Both rest on work that is owed being somewhere: with a goroutine about  *)
(* to enqueue, in the queue, or in the pass of the one writer.             *)

\* No call has failed and the process has not restarted.
Sound == failures = 0 /\ crashes = 0

\* Nothing is banked unless a pass is owed, and then a writer runs.
Queue == (run.dirty => run.running) /\ (~run.dirty => run.changes = <<>>)

\* Where a pass has read the roster, and may still record it.
Compared == {"drawTable", "sendTable", "drawForum", "sendForum", "newEvents", "native", "record"}
Past     == {"roles"} \cup Compared
Begun    == {"reload", "roster"} \cup Past

Pending == run.dirty \/ \E g \in Runner : pc[g] = "ready"

AllClean        == \A g \in Runner : pass[g].ok = TRUE
ReadsAreCurrent == \A g \in Runner : pc[g] \in Past => hist[pass[g].list] = Current \/ Pending
StaleIsPending  == hist[recorded] # Current => Pending \/ \E g \in Runner : pc[g] \in Begun

Published == Sound => AllClean /\ ReadsAreCurrent /\ StaleIsPending

-----------------------------------------------------------------------------
(* The queue.                                                              *)

\* While somebody writes, the queue knows it.
LEMMA WriterMeansRunning ==
  ASSUME Inv, NEW g \in Runner, Writing(g)
  PROVE  run.running
BY DEF Inv, OneWriter

\* A change waits in the queue only while somebody writes.
LEMMA QueueStep ==
  ASSUME Inv, Queue, [Next]_vars
  PROVE  Queue'
<1>1. CASE run' = run
  BY <1>1 DEF Queue
<1>2. ASSUME NEW g \in Runner, Enqueue(g) PROVE Queue'
  BY <1>2 DEF Enqueue, Queue
<1>3. ASSUME NEW g \in Runner, Claim(g) PROVE Queue'
  <2>1. CASE run.running /\ run.dirty
    <3>1. run \in [running : BOOLEAN, dirty : BOOLEAN, changes : Seq(Change)]
          /\ run' = [run EXCEPT !.changes = <<>>, !.dirty = FALSE]
      BY <1>3, <2>1 DEF Claim, Inv, TypeOK
    <3> QED BY <3>1 DEF Queue
  <2>2. CASE ~(run.running /\ run.dirty)
    BY <1>3, <2>2 DEF Claim, Queue, NoRun
  <2> QED BY <2>1, <2>2
<1>4. CASE Crash
  BY <1>4 DEF Crash, Queue, NoRun
<1>5. ASSUME NEW g \in Runner, Step(g) PROVE run' = run \/ Enqueue(g) \/ Claim(g)
  BY <1>5 DEF Step, Reload, ReadRoster, ApplyRoles, Compare, RenameOnly, Draw, SendTable, Record, Send
<1>6. \/ run' = run \/ Crash
      \/ \E g \in Runner : Enqueue(g) \/ Claim(g)
  BY <1>5 DEF Next, Commit, SweepFinds, OtherDraws, OtherSends, vars
<1> QED BY <1>1, <1>2, <1>3, <1>4, <1>6

\* Soundness is lost by a failure or a crash and never comes back.
LEMMA SoundBefore ==
  ASSUME Inv, [Next]_vars, Sound'
  PROVE  Sound /\ ~Crash /\ ~Fail
<1>1. failures \in Nat /\ crashes \in Nat
  BY SyncAssumption DEF Inv, TypeOK
<1>2. ~Crash
  BY <1>1 DEF Crash, Sound
<1>3. ~Fail
  BY <1>1 DEF Fail, Sound
<1>4. failures' = failures \/ Fail
  BY <1>2, Zenon DEF Next, Step, Commit, SweepFinds, Enqueue, Claim, Reload, ReadRoster, ApplyRoles, Compare,
     RenameOnly, Draw, SendTable, Record, Send, OtherDraws, OtherSends, Work, vars
<1>5. crashes' = crashes
  BY <1>2, Zenon DEF Next, Step, Commit, SweepFinds, Enqueue, Claim, Reload, ReadRoster, ApplyRoles, Compare,
     RenameOnly, Draw, SendTable, Record, Send, OtherDraws, OtherSends, others, vars
<1> QED BY <1>2, <1>3, <1>4, <1>5 DEF Sound

-----------------------------------------------------------------------------
(* A burst ends published.                                                 *)

\* The event starts published.
LEMMA PublishedInit == Init => Published
<1> SUFFICES ASSUME Init PROVE Published OBVIOUS
<1>1. AllClean /\ ReadsAreCurrent
  BY DEF Init, AllClean, ReadsAreCurrent, NoPass, Past, Compared
<1>2. StaleIsPending
  BY DEF Init, StaleIsPending, Current, Newest
<1> QED BY <1>1, <1>2 DEF Published

\* A step of a pass: where it was and what it does to what is owed.
LEMMA PublishedInAPass ==
  ASSUME Inv, Queue, NEW g \in Runner, Sound', AllClean, ReadsAreCurrent, StaleIsPending,
         Step(g), ~Fail
  PROVE  AllClean' /\ ReadsAreCurrent' /\ StaleIsPending'
<1>1. pc \in [Runner -> Locations] /\ pass \in [Runner -> Pass] /\ pass[g] \in Pass /\ run.dirty \in BOOLEAN
  BY DEF Inv, TypeOK
<1>2. Current' = Current /\ hist' = hist
  BY Zenon DEF Step, Enqueue, Claim, Reload, ReadRoster, ApplyRoles, Compare, RenameOnly, Draw,
     SendTable, Record, Send, Current, Newest
<1>3. CASE Enqueue(g)
  <2>1. Pending' /\ pass' = pass
    BY <1>3 DEF Enqueue, Pending
  <2> QED BY <2>1 DEF AllClean, ReadsAreCurrent, StaleIsPending
<1>4. CASE Claim(g)
  <2>1. pc[g] = "claim" /\ Writing(g) /\ run.running
    BY <1>4, WriterMeansRunning DEF Claim, Writing
  <2>2. CASE run.dirty
    <3>1. /\ pc' = [pc EXCEPT ![g] = "reload"]
          /\ pass' = [pass EXCEPT ![g] = [NoPass EXCEPT !.batch = run.changes]]
      BY <1>4, <2>1, <2>2 DEF Claim
    <3>2. AllClean'
      BY <3>1, <1>1 DEF AllClean, NoPass
    <3>3. \A h \in Runner : pc'[h] \notin Past
      <4>1. \A h \in Runner : h # g => ~Writing(h)
        BY <2>1 DEF Inv, OneWriter
      <4> QED BY <4>1, <3>1, <1>1 DEF Writing, Past, Compared
    <3>4. pc'[g] \in Begun
      BY <3>1, <1>1 DEF Begun
    <3> QED BY <3>2, <3>3, <3>4 DEF ReadsAreCurrent, StaleIsPending
  <2>3. CASE ~run.dirty
    <3>1. pc' = [pc EXCEPT ![g] = "idle"] /\ pass' = [pass EXCEPT ![g] = NoPass] /\ run' = NoRun
          /\ recorded' = recorded
      BY <1>4, <2>3 DEF Claim
    <3>2. AllClean'
      BY <3>1, <1>1 DEF AllClean, NoPass
    <3>3. \A h \in Runner : h # g => pc'[h] = pc[h] /\ pass'[h] = pass[h]
      BY <3>1, <1>1
    <3>4. pc'[g] = "idle"
      BY <3>1, <1>1
    <3>5. Pending <=> Pending'
      BY <2>1, <2>3, <3>1, <3>3, <3>4 DEF Pending, NoRun
    <3>6. ReadsAreCurrent'
      BY <1>2, <3>3, <3>4, <3>5 DEF ReadsAreCurrent, Past, Compared
    <3>7. StaleIsPending'
      BY <1>2, <2>1, <3>1, <3>3, <3>5 DEF StaleIsPending, Begun, Past, Compared
    <3> QED BY <3>2, <3>6, <3>7
  <2> QED BY <2>2, <2>3
<1>5. CASE ~Enqueue(g) /\ ~Claim(g)
  <2>1. run' = run /\ Writing(g) /\ pc[g] # "claim"
    <3>1. CASE \E s \in Surfaces \ {"table"} : Send(g, s)
      BY <3>1 DEF Send, At, Surfaces, Writing
    <3>2. CASE Draw(g)
      BY <3>2 DEF Draw, Writing
    <3>3. CASE Reload(g) \/ ReadRoster(g) \/ ApplyRoles(g) \/ Compare(g) \/ RenameOnly(g)
               \/ SendTable(g) \/ Record(g)
      BY <3>3 DEF Reload, ReadRoster, ApplyRoles, Compare, RenameOnly, SendTable, Record, Writing
    <3> QED BY <1>5, <3>1, <3>2, <3>3 DEF Step
  <2>2. PICK x \in Locations \ {"idle", "ready"} : pc' = [pc EXCEPT ![g] = x]
    <3>1. CASE ApplyRoles(g)
      <4>1. pc' = [pc EXCEPT ![g] = "roles"]
        BY <3>1, <1>1 DEF ApplyRoles
      <4> QED BY <4>1 DEF Locations
    <3>2. CASE \E s \in Surfaces \ {"table"} : Send(g, s)
      <4>1. PICK s \in Surfaces \ {"table"} : Send(g, s)
        BY <3>2
      <4>2. After[s] \in Locations \ {"idle", "ready"}
        BY DEF After, Surfaces, Locations
      <4> QED BY <4>1, <4>2 DEF Send
    <3>3. CASE Reload(g) \/ ReadRoster(g) \/ Compare(g) \/ RenameOnly(g) \/ Draw(g)
               \/ SendTable(g) \/ Record(g)
      BY <3>3 DEF Reload, ReadRoster, Compare, RenameOnly, Draw, SendTable, Record, Locations
    <3> QED BY <1>5, <3>1, <3>2, <3>3 DEF Step
  <2>3. pc'[g] = x /\ \A h \in Runner : h # g => pc'[h] = pc[h]
    BY <2>2, <1>1
  <2>4. Pending <=> Pending'
    BY <2>1, <2>2, <2>3 DEF Pending, Writing
  <2>5. \A h \in Runner : h # g => pass'[h] = pass[h]
    BY <1>1, <1>5 DEF Step, Reload, ReadRoster, ApplyRoles, Compare, RenameOnly, Draw, SendTable, Record, Send
  <2>6. pass'[g].ok = TRUE
    <3>1. pass[g].ok = TRUE
      BY DEF AllClean
    <3>2. CASE Reload(g)
      <4>1. pass' = pass \/ pass' = [pass EXCEPT ![g].ev = Newest]
        BY <3>2 DEF Reload
      <4> QED BY <3>1, <4>1, <1>1 DEF Pass
    <3>3. CASE ReadRoster(g)
      <4>1. pass' = pass \/ pass' = [pass EXCEPT ![g].list = Newest]
        BY <3>3 DEF ReadRoster
      <4> QED BY <3>1, <4>1, <1>1 DEF Pass
    <3>4. CASE Draw(g)
      <4>1. pass' = [pass EXCEPT ![g].drawn = Newest]
        BY <3>4 DEF Draw
      <4> QED BY <3>1, <4>1, <1>1 DEF Pass
    <3>5. CASE ApplyRoles(g)
      <4>1. pass' = [pass EXCEPT ![g].batch = Tail(@)]
        BY <3>5 DEF ApplyRoles
      <4> QED BY <3>1, <4>1, <1>1 DEF Pass
    <3>6. CASE pass' = pass
      BY <3>1, <3>6
    <3>7. Reload(g) \/ ReadRoster(g) \/ Draw(g) \/ ApplyRoles(g) \/ pass' = pass
      BY <1>5, Zenon DEF Step, Compare, RenameOnly, SendTable, Record, Send
    <3> QED BY <3>2, <3>3, <3>4, <3>5, <3>6, <3>7
  <2>7. AllClean'
    BY <2>5, <2>6 DEF AllClean
  <2>8. x \in Past => hist[pass'[g].list] = Current \/ Pending
    <3>1. CASE ReadRoster(g)
      <4>1. pass' = [pass EXCEPT ![g].list = Newest]
        BY <3>1 DEF ReadRoster
      <4> QED BY <4>1, <1>1 DEF Pass, Current
    <3>2. CASE Reload(g)
      BY <3>2, <2>3, <1>1 DEF Reload, Past, Compared
    <3>3. CASE ~ReadRoster(g) /\ ~Reload(g)
      <4>1. pass'[g].list = pass[g].list
        <5>1. CASE Draw(g)
          <6>1. pass' = [pass EXCEPT ![g].drawn = Newest]
            BY <5>1 DEF Draw
          <6> QED BY <6>1, <1>1 DEF Pass
        <5>2. CASE ApplyRoles(g)
          <6>1. pass' = [pass EXCEPT ![g].batch = Tail(@)]
            BY <5>2 DEF ApplyRoles
          <6> QED BY <6>1, <1>1 DEF Pass
        <5>3. Draw(g) \/ ApplyRoles(g) \/ pass' = pass
          BY <1>5, <3>3, Zenon DEF Step, Compare, RenameOnly, SendTable, Record, Send
        <5> QED BY <5>1, <5>2, <5>3
      <4>2. x \in Past => pc[g] \in Past
        <5>1. CASE RenameOnly(g) \/ Record(g)
          BY <5>1, <2>3, <1>1 DEF RenameOnly, Record, Past, Compared
        <5>2. CASE Compare(g) \/ ApplyRoles(g) \/ Draw(g) \/ SendTable(g)
          BY <5>2 DEF Compare, ApplyRoles, Draw, SendTable, Past, Compared
        <5>3. CASE \E s \in Surfaces \ {"table"} : Send(g, s)
          BY <5>3 DEF Send, At, Surfaces, Past, Compared
        <5> QED BY <1>5, <3>3, <5>1, <5>2, <5>3 DEF Step
      <4> QED BY <4>1, <4>2 DEF ReadsAreCurrent
    <3> QED BY <3>1, <3>2, <3>3
  <2>9. ReadsAreCurrent'
    BY <1>2, <2>3, <2>4, <2>5, <2>8 DEF ReadsAreCurrent
  <2>10. StaleIsPending'
    <3>1. CASE Record(g)
      <4>1. recorded' = pass[g].list /\ pc[g] \in Past
        BY <3>1 DEF Record, AllClean, Past, Compared
      <4> QED BY <4>1, <1>2, <2>4 DEF StaleIsPending, ReadsAreCurrent
    <3>2. CASE Compare(g)
      <4>1. recorded' = recorded /\ pc[g] \in Past
        BY <3>2 DEF Compare, Past, Compared
      <4>2. x \in Begun \/ hist[pass[g].list] = hist[recorded]
        BY <3>2, <2>3, <1>1 DEF Compare, Signature, Begun, Past, Compared
      <4> QED BY <4>1, <4>2, <1>2, <2>3, <2>4 DEF StaleIsPending, ReadsAreCurrent
    <3>3. CASE ~Record(g) /\ ~Compare(g)
      <4>1. recorded' = recorded
        BY <1>5, <3>3, Zenon DEF Step, Reload, ReadRoster, ApplyRoles, RenameOnly, Draw, SendTable, Send
      <4>2. pc[g] \in Begun => x \in Begun
        <5>1. CASE Reload(g) \/ ReadRoster(g)
          BY <5>1, <2>3, <1>1 DEF Reload, ReadRoster, Begun, Past
        <5>2. CASE ApplyRoles(g)
          BY <5>2, <2>3 DEF ApplyRoles, Begun, Past
        <5>3. CASE RenameOnly(g)
          BY <5>3 DEF RenameOnly, Begun, Past, Compared
        <5>4. CASE Draw(g) \/ SendTable(g)
          BY <5>4, <2>3, <1>1 DEF Draw, SendTable, Begun, Past, Compared
        <5>5. CASE \E s \in Surfaces \ {"table"} : Send(g, s)
          BY <5>5, <2>3, <1>1 DEF Send, After, Surfaces, Begun, Past, Compared
        <5> QED BY <1>5, <3>3, <5>1, <5>2, <5>3, <5>4, <5>5 DEF Step
      <4> QED BY <4>1, <4>2, <1>2, <2>3, <2>4 DEF StaleIsPending
    <3> QED BY <3>1, <3>2, <3>3
  <2> QED BY <2>7, <2>9, <2>10
<1> QED BY <1>3, <1>4, <1>5

\* A pass without a failure reads what it must, or leaves somebody pending who will.
LEMMA PublishedStep ==
  ASSUME Inv, Queue, Published, [Next]_vars
  PROVE  Published'
<1> SUFFICES ASSUME Sound' PROVE AllClean' /\ ReadsAreCurrent' /\ StaleIsPending'
  BY DEF Published
<1>1. Sound /\ ~Crash /\ ~Fail
  BY SoundBefore
<1>2. AllClean /\ ReadsAreCurrent /\ StaleIsPending
  BY <1>1 DEF Published
<1>3. CASE \E u \in Users, s \in State : Commit(u, s)
  <2>1. pass' = pass /\ Newest \in Runner /\ pc' = [pc EXCEPT ![Newest] = "ready"]
    BY <1>3, NewestIsAVersion, CommitHasARunner, SyncAssumption DEF Commit, Inv, Runner
  <2>2. Pending'
    BY <2>1 DEF Pending, Inv, TypeOK
  <2> QED BY <1>2, <2>1, <2>2 DEF AllClean, ReadsAreCurrent, StaleIsPending
<1>4. CASE SweepFinds
  <2>1. pass' = pass /\ Sweep \in Runner /\ pc' = [pc EXCEPT ![Sweep] = "ready"]
    BY <1>4, RunnersAreNumbers DEF SweepFinds
  <2>2. Pending'
    BY <2>1 DEF Pending, Inv, TypeOK
  <2> QED BY <1>2, <2>1, <2>2 DEF AllClean, ReadsAreCurrent, StaleIsPending
<1>5. ASSUME NEW g \in Runner, Step(g) PROVE AllClean' /\ ReadsAreCurrent' /\ StaleIsPending'
  BY <1>1, <1>2, <1>5, PublishedInAPass
<1>6. CASE OtherDraws \/ OtherSends \/ UNCHANGED vars
  <2>1. UNCHANGED <<hist, pc, pass, run, recorded>>
    BY <1>6 DEF OtherDraws, OtherSends, vars
  <2> QED BY <1>2, <2>1 DEF AllClean, ReadsAreCurrent, StaleIsPending, Pending, Current, Newest
<1> QED BY <1>1, <1>3, <1>4, <1>5, <1>6, Zenon DEF Next
\* Nothing waits at the start.
LEMMA QueueInit == Init => Queue
BY DEF Init, Queue, NoRun

\* Types, the queue and what is published, throughout.
LEMMA PublishedAlways == Spec => [](Inv /\ Queue /\ Published)
<1>1. Init => Inv /\ Queue /\ Published
  BY InitHolds, QueueInit, PublishedInit
<1>2. Inv /\ Queue /\ Published /\ [Next]_vars => (Inv /\ Queue /\ Published)'
  BY NextHolds, QueueStep, PublishedStep
<1> QED BY <1>1, <1>2, PTL DEF Spec

\* Nothing runs, so nothing is owed.
LEMMA QuietOwesNothing ==
  ASSUME Inv, Queue, Quiet
  PROVE  ~run.dirty /\ ~Pending /\ \A g \in Runner : ~Writing(g)
<1>1. \A g \in Runner : ~Writing(g)
  BY DEF Quiet, Writing
<1>2. ~run.dirty
  BY <1>1 DEF Inv, OneWriter, Queue
<1> QED BY <1>1, <1>2 DEF Pending, Quiet

\* With nothing failing, a burst of changes ends with its newest roster
\* recorded as published: claim and enqueue (eventsync.go) never leave a change
\* to nobody, and a change that arrives in the middle of a pass is not taken
\* for published by it.
THEOREM BurstsEndPublished == Spec => []BurstEndsPublished
<1>1. Inv /\ Queue /\ Published => BurstEndsPublished
  <2> SUFFICES ASSUME Inv, Queue, Published, Quiet, failures = 0, crashes = 0
               PROVE  ~Stale
    BY DEF BurstEndsPublished
  <2>1. StaleIsPending
    BY DEF Published, Sound
  <2>2. \A g \in Runner : pc[g] \notin Begun
    BY DEF Quiet, Begun, Past, Compared
  <2> QED BY <2>1, <2>2, QuietOwesNothing DEF StaleIsPending, Stale, Signature
<1> QED BY <1>1, PublishedAlways, PTL
-----------------------------------------------------------------------------
(* Banked changes are applied: where the last change of a person is.       *)

Has(s, u)       == \E i \in 1..Len(s) : s[i].user = u
LastIs(s, u, x) == \E i \in 1..Len(s) : /\ s[i].user = u /\ s[i].state = x
                                       /\ \A j \in 1..Len(s) : j > i => s[j].user # u

\* A batch is drained before the pass compares.
Drained == \A g \in Runner : pc[g] \notin {"reload", "roster", "roles"} => pass[g].batch = <<>>

\* The change the queue took last of somebody is the last of theirs among the
\* banked, or else in the writer's batch, or else is applied.
Held(u) ==
  /\ Has(run.changes, u) => LastIs(run.changes, u, taken[u])
  /\ \A g \in Runner : Has(pass[g].batch, u) =>
       Has(run.changes, u) \/ LastIs(pass[g].batch, u, taken[u])
  /\ \/ Has(run.changes, u) \/ role[u] = {taken[u]} \cap Roles
     \/ \E g \in Runner : Has(pass[g].batch, u)

Banked == Sound => Drained /\ \A u \in Users : Held(u)

\* An empty batch has nobody in it.
LEMMA EmptyHasNobody ==
  ASSUME NEW u
  PROVE  ~Has(<<>>, u)
BY DEF Has

\* What is banked last of a person is the last of theirs; of others nothing changes.
LEMMA AppendedIsLast ==
  ASSUME NEW s \in Seq(Change), NEW c \in Change, NEW u, NEW x
  PROVE  /\ Has(s \o <<c>>, u) <=> Has(s, u) \/ c.user = u
         /\ LastIs(s \o <<c>>, c.user, c.state)
         /\ c.user # u /\ LastIs(s, u, x) => LastIs(s \o <<c>>, u, x)
<1> DEFINE t == s \o <<c>>
<1>1. Len(t) = Len(s) + 1 /\ Len(s) \in Nat /\ t[Len(s) + 1] = c
      /\ \A i \in 1..Len(s) : t[i] = s[i]
  OBVIOUS
<1> HIDE DEF t
<1>2. Has(t, u) <=> Has(s, u) \/ c.user = u
  BY <1>1 DEF Has
<1>3. LastIs(t, c.user, c.state)
  BY <1>1 DEF LastIs
<1>4. c.user # u /\ LastIs(s, u, x) => LastIs(t, u, x)
  BY <1>1 DEF LastIs
<1> QED BY <1>2, <1>3, <1>4 DEF t

\* Taking a batch's first change leaves the last of each person, or that was theirs.
LEMMA HeadGone ==
  ASSUME NEW s \in Seq(Change), s # <<>>, NEW u, NEW x
  PROVE  /\ Has(s, u) <=> Has(Tail(s), u) \/ Head(s).user = u
         /\ LastIs(s, u, x) /\ Has(Tail(s), u) => LastIs(Tail(s), u, x)
         /\ LastIs(s, u, x) /\ ~Has(Tail(s), u) => Head(s).state = x
<1> DEFINE t == Tail(s)
<1>1. Len(s) = Len(t) + 1 /\ Len(t) \in Nat /\ Head(s) = s[1]
      /\ \A i \in 1..Len(t) : t[i] = s[i + 1]
  OBVIOUS
<1> HIDE DEF t
<1>2. \A i \in 1..Len(s) : i = 1 \/ (i - 1 \in 1..Len(t) /\ s[i] = t[i - 1])
  BY <1>1
<1>3. Has(s, u) <=> Has(t, u) \/ Head(s).user = u
  <2>1. Has(s, u) => Has(t, u) \/ Head(s).user = u
    BY <1>1, <1>2 DEF Has
  <2>2. Has(t, u) => Has(s, u)
    <3>1. \A i \in 1..Len(t) : i + 1 \in 1..Len(s)
      BY <1>1
    <3> QED BY <1>1, <3>1 DEF Has
  <2>3. Head(s).user = u => Has(s, u)
    BY <1>1 DEF Has
  <2> QED BY <2>1, <2>2, <2>3
<1>4. ASSUME NEW i \in 1..Len(s), s[i].user = u, s[i].state = x,
             \A j \in 1..Len(s) : j > i => s[j].user # u
      PROVE  /\ Has(t, u) => LastIs(t, u, x)
             /\ ~Has(t, u) => Head(s).state = x
  <2>1. CASE i = 1
    <3>1. ~Has(t, u)
      <4>1. \A j \in 1..Len(t) : j + 1 \in 1..Len(s) /\ j + 1 > i /\ t[j] = s[j + 1]
        BY <1>1, <2>1
      <4> QED BY <4>1, <1>4 DEF Has
    <3> QED BY <3>1, <2>1, <1>1, <1>4
  <2>2. CASE i # 1
    <3>1. i - 1 \in 1..Len(t) /\ t[i - 1] = s[i]
      BY <1>2, <2>2
    <3>2. \A j \in 1..Len(t) : j > i - 1 => t[j].user # u
      <4>1. \A j \in 1..Len(t) : j + 1 \in 1..Len(s) /\ t[j] = s[j + 1] /\ (j > i - 1 => j + 1 > i)
        BY <1>1
      <4> QED BY <4>1, <1>4
    <3> QED BY <3>1, <3>2, <1>4 DEF Has, LastIs
  <2> QED BY <2>1, <2>2
<1> QED BY <1>3, <1>4 DEF LastIs, t

\* Nothing is banked at the start.
LEMMA BankedInit == Init => Banked
<1> SUFFICES ASSUME Init PROVE Drained /\ \A u \in Users : Held(u)
  BY DEF Banked
<1>1. Drained
  BY DEF Init, Drained, NoPass
<1>2. ASSUME NEW u \in Users PROVE Held(u)
  <2>1. role[u] = {taken[u]} \cap Roles
    BY DEF Init, Roles
  <2>2. ~Has(run.changes, u) /\ \A g \in Runner : ~Has(pass[g].batch, u)
    BY EmptyHasNobody DEF Init, NoRun, NoPass
  <2> QED BY <2>1, <2>2 DEF Held
<1> QED BY <1>1, <1>2

\* A change is banked as the last of its person.
LEMMA BankedByEnqueue ==
  ASSUME Inv, Drained, \A u \in Users : Held(u), NEW g \in Runner, Enqueue(g)
  PROVE  Drained' /\ \A u \in Users : Held(u)'
<1>1. pc \in [Runner -> Locations] /\ run.changes \in Seq(Change) /\ taken \in [Users -> State]
      /\ pass' = pass /\ role' = role
      /\ pc' = [pc EXCEPT ![g] = IF run.running THEN "idle" ELSE "claim"] /\ pc[g] = "ready"
      /\ run'.changes = run.changes \o Carried(g)
      /\ taken' = IF g = Sweep THEN taken ELSE [taken EXCEPT ![change[g].user] = change[g].state]
  BY DEF Inv, TypeOK, Roster, Enqueue
<1>2. Drained'
  <2>1. \A h \in Runner : h # g => pc'[h] = pc[h]
    BY <1>1
  <2> QED BY <1>1, <2>1 DEF Drained
<1>3. CASE g = Sweep
  <2>1. run'.changes = run.changes /\ taken' = taken
    BY <1>1, <1>3 DEF Carried
  <2> QED BY <1>1, <1>2, <2>1 DEF Held
<1>4. CASE g # Sweep
  <2>1. change[g] \in Change
    <3>1. g < Newest
      BY <1>1, NewestIsAVersion, RunnersAreNumbers DEF Inv, NotStarted
    <3> QED BY <3>1, <1>4, NewestIsAVersion, RunnersAreNumbers DEF Inv, TypeOK, Sweep
  <2> DEFINE c == change[g]
  <2>2. c \in Change /\ c.user \in Users /\ run'.changes = run.changes \o <<c>>
        /\ taken' = [taken EXCEPT ![c.user] = c.state]
    BY <2>1, <1>1, <1>4 DEF Carried, Change
  <2> HIDE DEF c
  <2>3. ASSUME NEW u \in Users PROVE Held(u)'
    <3>1. CASE u = c.user
      <4>1. taken'[u] = c.state
        BY <2>2, <3>1, <1>1
      <4>2. Has(run'.changes, u) /\ LastIs(run'.changes, u, taken'[u])
        BY <4>1, <2>2, <3>1, <1>1, AppendedIsLast
      <4> QED BY <4>2 DEF Held
    <3>2. CASE u # c.user
      <4>1. taken'[u] = taken[u]
        BY <2>2, <3>2, <1>1
      <4>2. /\ Has(run'.changes, u) <=> Has(run.changes, u)
            /\ LastIs(run.changes, u, taken[u]) => LastIs(run'.changes, u, taken[u])
        <5>1. run.changes \in Seq(Change) /\ c.user # u
          BY <1>1, <3>2
        <5>2. /\ Has(run.changes \o <<c>>, u) <=> Has(run.changes, u) \/ c.user = u
              /\ c.user # u /\ LastIs(run.changes, u, taken[u])
                   => LastIs(run.changes \o <<c>>, u, taken[u])
          BY <5>1, <2>2, AppendedIsLast
        <5> QED BY <5>1, <5>2, <2>2
      <4>3. Held(u)
        OBVIOUS
      <4> QED BY <1>1, <4>1, <4>2, <4>3 DEF Held
    <3> QED BY <3>1, <3>2
  <2> QED BY <1>2, <2>3
<1> QED BY <1>3, <1>4

\* The batch moves from the queue to the writer whole.
LEMMA BankedByClaim ==
  ASSUME Inv, Queue, Drained, \A u \in Users : Held(u), NEW g \in Runner, Claim(g)
  PROVE  Drained' /\ \A u \in Users : Held(u)'
<1>1. pc \in [Runner -> Locations] /\ pass \in [Runner -> Pass] /\ pc[g] = "claim" /\ run.running
      /\ pass[g].batch = <<>> /\ role' = role /\ taken' = taken
  BY WriterMeansRunning DEF Inv, TypeOK, Claim, Writing, Drained
<1>2. \A h \in Runner : pass[h].batch = <<>>
  <2>1. \A h \in Runner : h # g => ~Writing(h)
    BY <1>1 DEF Inv, OneWriter, Writing
  <2> QED BY <2>1, <1>1 DEF Drained, Writing
<1>3. CASE run.dirty
  <2>1. pass' = [pass EXCEPT ![g] = [NoPass EXCEPT !.batch = run.changes]]
        /\ run' = [run EXCEPT !.changes = <<>>, !.dirty = FALSE] /\ pc' = [pc EXCEPT ![g] = "reload"]
    BY <1>1, <1>3 DEF Claim
  <2>2. pass'[g].batch = run.changes /\ pc'[g] = "reload"
        /\ \A h \in Runner : h # g => pass'[h] = pass[h] /\ pc'[h] = pc[h]
    BY <2>1, <1>1 DEF NoPass
  <2>3. run'.changes = <<>>
    BY <2>1 DEF Inv, TypeOK
  <2>4. Drained'
    BY <2>2 DEF Drained
  <2>5. ASSUME NEW u \in Users PROVE Held(u)'
    <3>1. Held(u) /\ ~Has(<<>>, u)
      BY EmptyHasNobody
    <3> QED BY <3>1, <1>1, <1>2, <2>2, <2>3 DEF Held
  <2> QED BY <2>4, <2>5
<1>4. CASE ~run.dirty
  <2>1. pass' = [pass EXCEPT ![g] = NoPass] /\ run' = NoRun /\ pc' = [pc EXCEPT ![g] = "idle"]
    BY <1>4 DEF Claim
  <2>2. pass'[g].batch = <<>> /\ \A h \in Runner : h # g => pass'[h] = pass[h] /\ pc'[h] = pc[h]
    BY <2>1, <1>1 DEF NoPass
  <2>3. run'.changes = <<>> /\ run.changes = <<>>
    BY <2>1, <1>4 DEF NoRun, Queue
  <2>4. Drained'
    BY <2>2 DEF Drained
  <2>5. ASSUME NEW u \in Users PROVE Held(u)'
    <3>1. Held(u) /\ ~Has(<<>>, u)
      BY EmptyHasNobody
    <3> QED BY <3>1, <1>1, <1>2, <2>2, <2>3 DEF Held
  <2> QED BY <2>4, <2>5
<1> QED BY <1>3, <1>4

\* A change leaves the writer's batch as it is applied.
LEMMA BankedByApplyRoles ==
  ASSUME Inv, Drained, \A u \in Users : Held(u), NEW g \in Runner, ApplyRoles(g), ~Fail
  PROVE  Drained' /\ \A u \in Users : Held(u)'
<1>1. pass \in [Runner -> Pass] /\ pass[g].batch \in Seq(Change) /\ pass[g].batch # <<>>
      /\ pc[g] = "roles" /\ pc' = pc /\ run' = run /\ taken' = taken
      /\ pass' = [pass EXCEPT ![g].batch = Tail(@)] /\ role \in [Users -> SUBSET Roles]
  BY DEF Inv, TypeOK, Pass, ApplyRoles
<1> DEFINE b == pass[g].batch
           c == Head(b)
<1>2. c \in Change /\ c.user \in Users
  <2>1. Head(b) \in Change
    BY <1>1
  <2> QED BY <2>1 DEF Change
<1>3. role' = [role EXCEPT ![c.user] = (@ \ Roles) \cup (Roles \cap {c.state})]
  BY DEF ApplyRoles
<1>4. pass'[g].batch = Tail(b) /\ \A h \in Runner : h # g => pass'[h] = pass[h]
  BY <1>1 DEF Pass
<1>5. Drained'
  BY <1>1, <1>4 DEF Drained
<1>6. ASSUME NEW u \in Users PROVE Held(u)'
  <2>1. /\ Has(b, u) <=> Has(Tail(b), u) \/ c.user = u
        /\ LastIs(b, u, taken[u]) /\ Has(Tail(b), u) => LastIs(Tail(b), u, taken[u])
        /\ LastIs(b, u, taken[u]) /\ ~Has(Tail(b), u) => c.state = taken[u]
    BY <1>1, HeadGone
  <2>2. u # c.user => role'[u] = role[u]
    BY <1>1, <1>3
  <2>3. u = c.user => role'[u] = {c.state} \cap Roles
    BY <1>1, <1>3
  <2>4. Held(u)
    OBVIOUS
  <2> HIDE DEF b, c
  <2>5. Has(run.changes, u) => LastIs(run.changes, u, taken[u])
    BY <2>4 DEF Held
  <2>6. ASSUME NEW h \in Runner, Has(pass'[h].batch, u)
        PROVE  Has(run.changes, u) \/ LastIs(pass'[h].batch, u, taken[u])
    BY <2>1, <2>4, <2>6, <1>4 DEF Held, b
  <2>7. \/ Has(run.changes, u) \/ role'[u] = {taken[u]} \cap Roles
        \/ \E h \in Runner : Has(pass'[h].batch, u)
    <3>1. CASE Has(run.changes, u) \/ \E h \in Runner : Has(pass'[h].batch, u)
      BY <3>1
    <3>2. CASE ~Has(run.changes, u) /\ ~\E h \in Runner : Has(pass'[h].batch, u)
      <4>1. ~Has(Tail(b), u) /\ \A h \in Runner : h # g => ~Has(pass[h].batch, u)
        BY <3>2, <1>4
      <4>2. CASE u = c.user
        <5>1. LastIs(b, u, taken[u])
          BY <2>1, <2>4, <3>2, <4>2 DEF Held, b
        <5> QED BY <5>1, <4>1, <4>2, <2>1, <2>3
      <4>3. CASE u # c.user
        <5>1. \A h \in Runner : ~Has(pass[h].batch, u)
          BY <4>1, <4>3, <2>1 DEF b
        <5> QED BY <5>1, <4>3, <2>2, <2>4, <3>2 DEF Held
      <4> QED BY <4>2, <4>3
    <3> QED BY <3>1, <3>2
  <2> QED BY <2>5, <2>6, <2>7, <1>1 DEF Held
<1> QED BY <1>5, <1>6

\* Every other step keeps the batches, the roles and what is banked.
LEMMA BankedByTheRest ==
  ASSUME Inv, Drained, \A u \in Users : Held(u), UNCHANGED <<run, role, taken>>,
         \A g \in Runner : pass'[g].batch = pass[g].batch,
         \A g \in Runner : pc'[g] \notin {"reload", "roster", "roles"} => pass[g].batch = <<>>
  PROVE  Drained' /\ \A u \in Users : Held(u)'
BY DEF Drained, Held

\* The rest of a pass touches neither batch nor roles.
LEMMA BankedInAPass ==
  ASSUME Inv, Queue, Drained, \A u \in Users : Held(u), NEW g \in Runner, Step(g), ~Fail
  PROVE  Drained' /\ \A u \in Users : Held(u)'
<1>1. CASE Enqueue(g)
  BY <1>1, BankedByEnqueue
<1>2. CASE Claim(g)
  BY <1>2, BankedByClaim
<1>3. CASE ApplyRoles(g)
  BY <1>3, BankedByApplyRoles
<1>4. CASE ~Enqueue(g) /\ ~Claim(g) /\ ~ApplyRoles(g)
  <2>1. UNCHANGED <<run, role, taken>>
    BY <1>4, Zenon DEF Step, Reload, ReadRoster, Compare, RenameOnly, Draw, SendTable, Record, Send
  <2>2. pc \in [Runner -> Locations] /\ pass \in [Runner -> Pass]
    BY DEF Inv, TypeOK
  <2>3. \A h \in Runner : pass'[h].batch = pass[h].batch
    <3>1. \/ pass' = pass \/ pass' = [pass EXCEPT ![g].ev = Newest]
          \/ pass' = [pass EXCEPT ![g].list = Newest] \/ pass' = [pass EXCEPT ![g].drawn = Newest]
      <4>1. CASE Reload(g) \/ ReadRoster(g)
        BY <4>1 DEF Reload, ReadRoster
      <4>2. CASE Draw(g)
        BY <4>2 DEF Draw
      <4>3. CASE Compare(g) \/ RenameOnly(g) \/ SendTable(g) \/ Record(g)
        BY <4>3 DEF Compare, RenameOnly, SendTable, Record
      <4>4. CASE \E s \in Surfaces \ {"table"} : Send(g, s)
        <5>1. PICK s \in Surfaces \ {"table"} : Send(g, s)
          BY <4>4
        <5>2. Send(g, s) => pass' = pass \/ Fail
          BY Zenon DEF Send
        <5> QED BY <5>1, <5>2
      <4> QED BY <1>4, <4>1, <4>2, <4>3, <4>4 DEF Step
    <3>2. pass[g] \in [batch : Seq(Change), ev : Versions, list : Versions, drawn : Versions, ok : BOOLEAN]
      BY <2>2 DEF Pass
    <3>3. CASE pass' = pass
      BY <3>3
    <3>4. CASE pass' = [pass EXCEPT ![g].ev = Newest]
      BY <3>2, <3>4, <2>2
    <3>5. CASE pass' = [pass EXCEPT ![g].list = Newest]
      BY <3>2, <3>5, <2>2
    <3>6. CASE pass' = [pass EXCEPT ![g].drawn = Newest]
      BY <3>2, <3>6, <2>2
    <3> QED BY <3>1, <3>3, <3>4, <3>5, <3>6
  <2>4. \A h \in Runner : h # g => pc'[h] = pc[h]
    BY <2>2, <1>4 DEF Step, Reload, ReadRoster, Compare, RenameOnly, Draw, SendTable, Record, Send
  <2>5. pc'[g] \in {"reload", "roster", "roles"} \/ pass[g].batch = <<>>
    <3>1. CASE Reload(g) \/ ReadRoster(g)
      BY <3>1, <2>2 DEF Reload, ReadRoster
    <3>2. CASE Compare(g)
      BY <3>2 DEF Compare
    <3>3. CASE RenameOnly(g) \/ Draw(g) \/ SendTable(g) \/ Record(g)
      BY <3>3 DEF RenameOnly, Draw, SendTable, Record, Drained
    <3>4. CASE \E s \in Surfaces \ {"table"} : Send(g, s)
      <4>1. pc[g] \in {"sendForum", "newEvents", "native"}
        BY <3>4 DEF Send, At, Surfaces
      <4> QED BY <4>1 DEF Drained
    <3> QED BY <1>4, <3>1, <3>2, <3>3, <3>4 DEF Step
  <2>6. \A h \in Runner : pc'[h] \notin {"reload", "roster", "roles"} => pass[h].batch = <<>>
    BY <2>4, <2>5 DEF Drained
  <2> QED BY <2>1, <2>3, <2>6, BankedByTheRest
<1> QED BY <1>1, <1>2, <1>3, <1>4

\* Each action keeps what is known of banked changes, as long as no call fails.
LEMMA BankedStep ==
  ASSUME Inv, Queue, Banked, [Next]_vars
  PROVE  Banked'
<1> SUFFICES ASSUME Sound' PROVE Drained' /\ \A u \in Users : Held(u)'
  BY DEF Banked
<1>1. Sound /\ ~Crash /\ ~Fail
  BY SoundBefore
<1>2. Drained /\ \A u \in Users : Held(u)
  BY <1>1 DEF Banked
<1>3. CASE \/ \E u \in Users, s \in State : Commit(u, s)
           \/ SweepFinds \/ OtherDraws \/ OtherSends \/ UNCHANGED vars
  <2>1. pass' = pass /\ UNCHANGED <<run, role, taken>>
    BY <1>3 DEF Commit, SweepFinds, OtherDraws, OtherSends, vars
  <2>2. \A g \in Runner : pc'[g] = pc[g] \/ (pc[g] = "idle" /\ pc'[g] = "ready")
    <3>1. pc \in [Runner -> Locations]
      BY DEF Inv, TypeOK
    <3>2. CASE \E u \in Users, s \in State : Commit(u, s)
      <4>1. Newest \in Runner /\ pc[Newest] = "idle" /\ pc' = [pc EXCEPT ![Newest] = "ready"]
        BY <3>2, NewestIsAVersion, CommitHasARunner, SyncAssumption DEF Commit, Inv, Runner, NotStarted
      <4> QED BY <4>1, <3>1
    <3>3. CASE SweepFinds
      BY <3>3, <3>1 DEF SweepFinds
    <3>4. CASE OtherDraws \/ OtherSends \/ UNCHANGED vars
      BY <3>4 DEF OtherDraws, OtherSends, vars
    <3> QED BY <1>3, <3>2, <3>3, <3>4
  <2> QED BY <1>2, <2>1, <2>2, BankedByTheRest DEF Drained
<1>4. ASSUME NEW g \in Runner, Step(g) PROVE Drained' /\ \A u \in Users : Held(u)'
  BY <1>1, <1>2, <1>4, BankedInAPass
<1> QED BY <1>1, <1>3, <1>4, Zenon DEF Next

\* With nothing failing, when every goroutine is done each person has the role
\* of the change of theirs that syncAfterChange (eventsync.go) took last: a
\* change handed over to a writer already at work is neither lost nor applied
\* before one it follows.
THEOREM BankedAreApplied == Spec => []BankedChangesAreApplied
<1>1. Init => Inv /\ Queue /\ Banked
  BY InitHolds, QueueInit, BankedInit
<1>2. Inv /\ Queue /\ Banked /\ [Next]_vars => (Inv /\ Queue /\ Banked)'
  BY NextHolds, QueueStep, BankedStep
<1>3. Inv /\ Queue /\ Banked => BankedChangesAreApplied
  <2> SUFFICES ASSUME Inv, Queue, Banked, Quiet, failures = 0, crashes = 0, NEW u \in Users
               PROVE  role[u] = {taken[u]} \cap Roles
    BY DEF BankedChangesAreApplied
  <2>1. Held(u) /\ Drained
    BY DEF Banked, Sound
  <2>2. run.changes = <<>>
    BY QuietOwesNothing DEF Queue
  <2>3. \A g \in Runner : pass[g].batch = <<>>
    BY <2>1 DEF Quiet, Drained
  <2> QED BY <2>1, <2>2, <2>3, EmptyHasNobody DEF Held
<1> QED BY <1>1, <1>2, <1>3, PTL DEF Spec

-----------------------------------------------------------------------------
(* The proof that EventSync implements Mirror: each surface only moves to  *)
(* a roster at least as new as the one it shows, whatever fails, crashes   *)
(* or is redrawn by others.                                                *)
(*                                                                         *)
(* It rests on what is in a writer's hands being no older than the surface *)
(* it will be written to.  For the table, which others redraw, that needs  *)
(* its lock; for the other surfaces, that only one goroutine writes.       *)

\* A pass that has read the roster, and will write it or has.
Knows == {"roles", "titles", "drawTable", "sendTable", "drawForum", "sendForum",
          "newEvents", "native"}

Listed == {"newEvents", "native"}

\* Nothing read or shown is newer than what was committed.
NothingAhead ==
  /\ \A s \in Surfaces : shown[s].list <= Newest
  /\ \A g \in Runner : pass[g].list <= Newest /\ pass[g].drawn <= Newest
  /\ other <= Newest

\* A pass' reading of the roster is as new as what its writer wrote before.
ListIsFresh ==
  \A g \in Runner : pc[g] \in Knows => \A s \in Listed : shown[s].list <= pass[g].list

ForumIsFresh ==
  \A g \in Runner : pc[g] = "sendForum" => shown["forum"].list <= pass[g].drawn

\* One redraw of the table at a time is between its reading and its writing.
TableIsFresh ==
  /\ \A g \in Runner : pc[g] = "sendTable" =>
       other = NotDrawing /\ shown["table"].list <= pass[g].drawn
  /\ other # NotDrawing => shown["table"].list <= other

Fresh == NothingAhead /\ ListIsFresh /\ ForumIsFresh /\ TableIsFresh

copies == [s \in Surfaces |-> shown[s].list]

-----------------------------------------------------------------------------
\* The versions are numbers: what is left of the types for comparing them.
LEMMA VersionsAreNumbers ==
  ASSUME TypeOK
  PROVE  /\ Newest \in Nat /\ Newest >= 1 /\ other \in Nat /\ NotDrawing = 0
         /\ \A s \in Surfaces : shown[s].list \in Nat /\ shown[s].list >= 1
         /\ \A g \in Runner : pass[g].list \in Nat /\ pass[g].drawn \in Nat
         /\ \A g \in Runner : pass[g].drawn >= 1 /\ pass[g].list >= 1
<1>1. MaxChanges \in Nat
  BY SyncAssumption
<1>2. \A v \in Versions : v \in Nat /\ v >= 1
  BY <1>1 DEF Versions
<1>3. \A s \in Surfaces : shown[s].list \in Versions
  BY DEF TypeOK
<1>4. \A g \in Runner : pass[g].list \in Versions /\ pass[g].drawn \in Versions
  BY DEF TypeOK, Pass
<1>5. other \in Versions \/ other = 0
  BY DEF TypeOK, NotDrawing
<1> QED BY <1>2, <1>3, <1>4, <1>5, NewestIsAVersion DEF NotDrawing

\* Nobody holds anything to draw.
LEMMA FreshInit == Init => Fresh
<1> SUFFICES ASSUME Init PROVE Fresh OBVIOUS
<1>1. Newest = 1
  BY DEF Init, Newest
<1>2. NothingAhead
  BY <1>1 DEF Init, NothingAhead, NoPass, NotDrawing
<1>3. ListIsFresh /\ ForumIsFresh /\ TableIsFresh
  BY DEF Init, ListIsFresh, ForumIsFresh, TableIsFresh, Knows
<1> QED BY <1>2, <1>3 DEF Fresh

\* A step that writes no surface: the writer may read the newest roster.
LEMMA ReadingStaysFresh ==
  ASSUME Inv, Fresh, shown' = shown, other' = other, Newest' >= Newest, Newest' \in Nat,
         \A g \in Runner :
           /\ pass'[g].list \in {pass[g].list, Newest, 1}
           /\ pass'[g].drawn \in {pass[g].drawn, Newest, 1}
           /\ pc'[g] \in Knows => pass'[g].list = Newest \/ (pc[g] \in Knows /\ pass'[g].list = pass[g].list)
           /\ pc'[g] = "sendForum" => pass'[g].drawn = Newest
                                      \/ (pc[g] = "sendForum" /\ pass'[g].drawn = pass[g].drawn)
           /\ pc'[g] = "sendTable" => \/ pass'[g].drawn = Newest /\ other = NotDrawing
                                      \/ (pc[g] = "sendTable" /\ pass'[g].drawn = pass[g].drawn)
  PROVE  Fresh'
<1>1. /\ Newest \in Nat /\ Newest >= 1 /\ other \in Nat
      /\ \A s \in Surfaces : shown[s].list \in Nat
      /\ \A g \in Runner : pass[g].list \in Nat /\ pass[g].drawn \in Nat
  BY VersionsAreNumbers DEF Inv
<1>2. NothingAhead'
  <2>1. \A s \in Surfaces : shown'[s].list <= Newest'
    BY <1>1 DEF Fresh, NothingAhead
  <2>2. \A g \in Runner : pass'[g].list <= Newest' /\ pass'[g].drawn <= Newest'
    BY <1>1 DEF Fresh, NothingAhead
  <2>3. other' <= Newest'
    BY <1>1 DEF Fresh, NothingAhead
  <2> QED BY <2>1, <2>2, <2>3 DEF NothingAhead
<1>3. ListIsFresh'
  <2>1. \A s \in Listed : shown[s].list <= Newest
    BY DEF Fresh, NothingAhead, Listed, Surfaces
  <2> QED BY <2>1 DEF Fresh, ListIsFresh
<1>4. ForumIsFresh'
  <2>1. shown["forum"].list <= Newest
    BY DEF Fresh, NothingAhead, Surfaces
  <2> QED BY <2>1 DEF Fresh, ForumIsFresh
<1>5. TableIsFresh'
  <2>1. shown["table"].list <= Newest
    BY DEF Fresh, NothingAhead, Surfaces
  <2> QED BY <2>1 DEF Fresh, TableIsFresh
<1> QED BY <1>2, <1>3, <1>4, <1>5 DEF Fresh

\* What every step does to what the surfaces show.
Shows(s, v) == /\ shown' = [shown EXCEPT ![s] = [ev |-> v.ev, list |-> v.list]]
               /\ v.list \in Nat /\ shown[s].list <= v.list /\ v.list <= Newest

\* A writer's own writing, where nobody else is in a pass.
LEMMA WritingStaysFresh ==
  ASSUME Inv, Fresh, NEW g \in Runner, Writing(g), NEW s \in Surfaces, NEW v, Shows(s, v),
         UNCHANGED <<hist, other>>,
         \A h \in Runner : pass'[h].list = pass[h].list /\ pass'[h].drawn = pass[h].drawn,
         \A h \in Runner : h # g => pc'[h] = pc[h],
         pc'[g] \in Knows => pc[g] \in Knows /\ (s \in Listed => v.list = pass[g].list),
         pc'[g] \notin {"sendForum", "sendTable"},
         s = "table" => other = NotDrawing
  PROVE  Fresh'
<1>1. shown \in [Surfaces -> [ev : Versions, list : Versions]] /\ Newest' = Newest
  BY DEF Inv, TypeOK, Newest
<1>2. shown'[s].list = v.list /\ \A t \in Surfaces : t # s => shown'[t] = shown[t]
  BY <1>1 DEF Shows
<1>3. \A h \in Runner : h # g => pc'[h] \notin Knows
  <2>1. \A h \in Runner : h # g => ~Writing(h)
    BY DEF Inv, OneWriter
  <2> QED BY <2>1 DEF Writing, Knows
<1>4. pass[g].list \in Nat /\ v.list \in Nat
  BY VersionsAreNumbers DEF Inv, Shows
<1>5. NothingAhead'
  <2>1. \A t \in Surfaces : shown'[t].list <= Newest
    BY <1>2 DEF Fresh, NothingAhead, Shows
  <2>2. (\A h \in Runner : pass'[h].list <= Newest /\ pass'[h].drawn <= Newest) /\ other' <= Newest
    BY DEF Fresh, NothingAhead
  <2> QED BY <1>1, <2>1, <2>2 DEF NothingAhead
<1>6. ListIsFresh'
  <2> SUFFICES ASSUME NEW h \in Runner, pc'[h] \in Knows, NEW t \in Listed
               PROVE  shown'[t].list <= pass'[h].list
    BY DEF ListIsFresh
  <2>1. h = g /\ pc[g] \in Knows /\ t \in Surfaces /\ pass'[g].list = pass[g].list
    BY <1>3 DEF Listed, Surfaces
  <2>2. CASE t = s
    BY <2>1, <2>2, <1>2, <1>4
  <2>3. CASE t # s
    BY <2>1, <2>3, <1>2 DEF Fresh, ListIsFresh
  <2> QED BY <2>2, <2>3
<1>7. ForumIsFresh' /\ \A h \in Runner : pc'[h] # "sendTable"
  BY <1>3 DEF ForumIsFresh, Knows
<1>8. TableIsFresh'
  <2>1. other # NotDrawing => shown'["table"].list <= other
    BY <1>2 DEF Fresh, TableIsFresh, Surfaces
  <2> QED BY <2>1, <1>7 DEF TableIsFresh
<1> QED BY <1>5, <1>6, <1>7, <1>8 DEF Fresh

\* A write of a surface is a step of Mirror.
LEMMA WritesRefine ==
  ASSUME Inv, Fresh, NEW s \in Surfaces, NEW v, Shows(s, v), Newest' = Newest
  PROVE  Mirrored!Write(s)
<1>1. shown \in [Surfaces -> [ev : Versions, list : Versions]]
  BY DEF Inv, TypeOK
<1>2. copies' = [copies EXCEPT ![s] = v.list]
  BY <1>1 DEF copies, Shows
<1>3. copies[s] = shown[s].list /\ shown[s].list \in Nat /\ Newest \in Nat
  BY VersionsAreNumbers DEF copies, Inv
<1>4. v.list \in copies[s]..Newest
  BY <1>3 DEF Shows
<1> QED BY <1>2, <1>4 DEF Mirrored!Write, copies

-----------------------------------------------------------------------------
(* Every step keeps this and is a step of Mirror, or a stutter.            *)

Refines == [Mirrored!Next]_(Mirrored!vars)

\* A step that shows nothing new and adds no version stutters in each mirror.
LEMMA StillRefines ==
  ASSUME shown' = shown, Newest' = Newest
  PROVE  Refines
BY DEF Refines, Mirrored!vars

\* A surface drawn anew writes in its own mirror and stutters in the others.
LEMMA WriteRefines ==
  ASSUME NEW s \in Surfaces, Mirrored!Write(s)
  PROVE  Refines
BY DEF Refines, Mirrored!Next

\* The writes of a pass.
LEMMA SendingRefines ==
  ASSUME Inv, Fresh, NEW g \in Runner,
         RenameOnly(g) \/ SendTable(g) \/ \E s \in Surfaces \ {"table"} : Send(g, s)
  PROVE  Fresh' /\ Refines
<1>1. pc \in [Runner -> Locations] /\ pass \in [Runner -> Pass] /\ pass[g] \in Pass
      /\ Newest \in Nat /\ Newest >= 1
      /\ pass[g].list \in Nat /\ pass[g].drawn \in Nat
  BY VersionsAreNumbers DEF Inv, TypeOK
<1>2. UNCHANGED <<hist, other>> /\ Newest' = Newest
  BY DEF RenameOnly, SendTable, Send, others, Newest
<1>3. \A h \in Runner : pass'[h].list = pass[h].list /\ pass'[h].drawn = pass[h].drawn
  <2>1. pass' = pass \/ pass' = [pass EXCEPT ![g].ok = FALSE]
    <3>1. CASE RenameOnly(g) \/ SendTable(g)
      BY <3>1 DEF RenameOnly, SendTable
    <3>2. ASSUME NEW s \in Surfaces, Send(g, s)
          PROVE  pass' = pass \/ pass' = [pass EXCEPT ![g].ok = FALSE]
      BY <3>2 DEF Send
    <3> QED BY <3>1, <3>2
  <2>2. pass' = [pass EXCEPT ![g].ok = FALSE] =>
          \A h \in Runner : pass'[h].list = pass[h].list /\ pass'[h].drawn = pass[h].drawn
    BY <1>1 DEF Pass
  <2> QED BY <2>1, <2>2
<1>4. ASSUME shown' = shown, \A h \in Runner : h # g => pc'[h] = pc[h],
             pc'[g] \in Knows => pc[g] \in Knows, pc'[g] \notin {"sendForum", "sendTable"}
      PROVE  Fresh' /\ Refines
  <2>1. Fresh'
    BY <1>1, <1>2, <1>3, <1>4, ReadingStaysFresh
  <2> QED BY <2>1, <1>2, <1>4, StillRefines
<1>5. pass[g].list <= Newest /\ pass[g].drawn <= Newest
  BY DEF Fresh, NothingAhead
<1>6. CASE RenameOnly(g)
  <2> DEFINE v == [ev |-> pass[g].ev, list |-> pass[g].list]
  <2>1. pc[g] = "titles" /\ Writing(g) /\ pc'[g] = "claim" /\ \A h \in Runner : h # g => pc'[h] = pc[h]
    BY <1>6, <1>1 DEF RenameOnly, Writing
  <2>2. CASE shown' = shown
    <3>1. pc'[g] \notin Knows /\ pc'[g] \notin {"sendForum", "sendTable"}
      BY <2>1 DEF Knows
    <3> QED BY <1>4, <2>1, <2>2, <3>1
  <2>3. CASE shown' = [shown EXCEPT !["native"] = v]
    <3>1. shown["native"].list <= pass[g].list
      BY <2>1 DEF Fresh, ListIsFresh, Knows, Listed
    <3>2. Shows("native", v)
      BY <2>3, <3>1, <1>1, <1>5 DEF Shows
    <3> HIDE DEF v
    <3>3. "native" \in Surfaces /\ pc'[g] \notin Knows
      BY <2>1 DEF Surfaces, Knows
    <3>4. Fresh'
      BY <2>1, <3>2, <3>3, <1>2, <1>3, WritingStaysFresh
    <3> QED BY <3>2, <3>3, <3>4, <1>2, WritesRefine, WriteRefines
  <2> QED BY <1>6, <2>2, <2>3 DEF RenameOnly
<1>7. CASE SendTable(g)
  <2> DEFINE v == [ev |-> pass[g].drawn, list |-> pass[g].drawn]
  <2>1. pc[g] = "sendTable" /\ Writing(g) /\ pc'[g] = "drawForum" /\ \A h \in Runner : h # g => pc'[h] = pc[h]
    BY <1>7, <1>1 DEF SendTable, Writing
  <2>2. CASE shown' = shown
    BY <1>4, <2>1, <2>2 DEF Knows
  <2>3. CASE shown' = [shown EXCEPT !["table"] = v]
    <3>1. shown["table"].list <= pass[g].drawn /\ other = NotDrawing
      BY <2>1 DEF Fresh, TableIsFresh
    <3>2. Shows("table", v)
      BY <2>3, <3>1, <1>1, <1>5 DEF Shows
    <3> HIDE DEF v
    <3>3. "table" \in Surfaces /\ "table" \notin Listed /\ pc[g] \in Knows
      BY <2>1 DEF Surfaces, Listed, Knows
    <3>4. Fresh'
      BY <2>1, <3>1, <3>2, <3>3, <1>2, <1>3, WritingStaysFresh
    <3> QED BY <3>2, <3>3, <3>4, <1>2, WritesRefine, WriteRefines
  <2> QED BY <1>7, <2>2, <2>3 DEF SendTable
<1>8. ASSUME NEW s \in Surfaces \ {"table"}, Send(g, s)
      PROVE  Fresh' /\ Refines
  <2> DEFINE v == Sent(g, s)
  <2>1. /\ pc[g] = At[s] /\ pc'[g] = After[s] /\ \A h \in Runner : h # g => pc'[h] = pc[h]
        /\ s \in {"forum", "newEvents", "native"}
    BY <1>8, <1>1 DEF Send, Surfaces
  <2>2. /\ pc[g] \in Knows /\ Writing(g) /\ pc'[g] \notin {"sendForum", "sendTable"}
        /\ (s = "forum" => pc[g] = "sendForum")
    BY <2>1 DEF At, After, Knows, Writing
  <2>3. CASE shown' = shown
    BY <1>4, <2>1, <2>2, <2>3
  <2>4. CASE shown' = [shown EXCEPT ![s] = v]
    <3>1. /\ v = [ev |-> v.ev, list |-> v.list] /\ v.list \in {pass[g].list, pass[g].drawn}
          /\ (s \in Listed => v.list = pass[g].list) /\ (s = "forum" => v.list = pass[g].drawn)
      BY DEF Sent, Listed
    <3> HIDE DEF v
    <3>2. shown[s].list <= v.list
      <4>1. CASE s = "forum"
        BY <4>1, <3>1, <2>2 DEF Fresh, ForumIsFresh
      <4>2. CASE s # "forum"
        <5>1. s \in Listed
          BY <4>2, <2>1 DEF Listed
        <5> QED BY <5>1, <3>1, <2>2 DEF Fresh, ListIsFresh
      <4> QED BY <4>1, <4>2
    <3>3. Shows(s, v)
      BY <2>4, <3>1, <3>2, <1>1, <1>5 DEF Shows
    <3>4. s \in Surfaces /\ s # "table"
      OBVIOUS
    <3>5. Fresh'
      BY <2>1, <2>2, <3>1, <3>3, <3>4, <1>2, <1>3, WritingStaysFresh
    <3> QED BY <3>3, <3>4, <3>5, <1>2, WritesRefine, WriteRefines
  <2> QED BY <1>8, <2>3, <2>4 DEF Send
<1> QED BY <1>6, <1>7, <1>8

\* The steps of a pass that write nothing.
LEMMA WorkingRefines ==
  ASSUME Inv, Fresh, NEW g \in Runner,
         \/ Enqueue(g) \/ Claim(g) \/ Reload(g) \/ ReadRoster(g) \/ ApplyRoles(g)
         \/ Compare(g) \/ Draw(g) \/ Record(g)
  PROVE  Fresh' /\ Refines
<1>1. pc \in [Runner -> Locations] /\ pass \in [Runner -> Pass] /\ pass[g] \in Pass
      /\ Newest \in Nat /\ Newest >= 1
  BY VersionsAreNumbers DEF Inv, TypeOK
<1>2. UNCHANGED <<hist, other, shown>> /\ Newest' = Newest
  BY DEF Enqueue, Claim, Reload, ReadRoster, ApplyRoles, Compare, Draw, Record, others, Newest
<1>3. \A h \in Runner : h # g => pc'[h] = pc[h] /\ pass'[h] = pass[h]
  <2>1. CASE ApplyRoles(g)
    BY <2>1, <1>1 DEF ApplyRoles
  <2>2. CASE Enqueue(g) \/ Claim(g) \/ Compare(g) \/ Record(g)
    BY <2>2, <1>1 DEF Enqueue, Claim, Compare, Record
  <2>3. CASE Reload(g) \/ ReadRoster(g) \/ Draw(g)
    BY <2>3, <1>1 DEF Reload, ReadRoster, Draw
  <2> QED BY <2>1, <2>2, <2>3
<1>4. /\ pass'[g].list \in {pass[g].list, Newest, 1}
      /\ pass'[g].drawn \in {pass[g].drawn, Newest, 1}
      /\ pc'[g] \in Knows => pass'[g].list = Newest \/ (pc[g] \in Knows /\ pass'[g].list = pass[g].list)
      /\ pc'[g] = "sendForum" => pass'[g].drawn = Newest
      /\ pc'[g] = "sendTable" => pass'[g].drawn = Newest /\ other = NotDrawing
  <2>1. CASE Enqueue(g)
    BY <2>1, <1>1 DEF Enqueue, Knows
  <2>2. CASE Claim(g)
    <3>1. pc'[g] \in {"reload", "idle"}
      BY <2>2, <1>1 DEF Claim
    <3>2. pass'[g].list = 1 /\ pass'[g].drawn = 1
      BY <2>2, <1>1 DEF Claim, NoPass
    <3> QED BY <3>1, <3>2 DEF Knows
  <2>3. CASE Reload(g)
    <3>1. pass' = pass \/ pass' = [pass EXCEPT ![g].ev = Newest]
      BY <2>3 DEF Reload
    <3>2. pass'[g].list = pass[g].list /\ pass'[g].drawn = pass[g].drawn
      BY <3>1, <1>1 DEF Pass
    <3>3. pc'[g] \in {"roster", "claim"}
      BY <2>3, <1>1 DEF Reload
    <3> QED BY <3>2, <3>3 DEF Knows
  <2>4. CASE ReadRoster(g)
    <3>1. \/ pass' = pass /\ pc'[g] = "claim"
          \/ pass' = [pass EXCEPT ![g].list = Newest] /\ pc'[g] = "roles"
      BY <2>4, <1>1 DEF ReadRoster
    <3>2. pass' = [pass EXCEPT ![g].list = Newest] =>
            pass'[g].list = Newest /\ pass'[g].drawn = pass[g].drawn
      BY <1>1 DEF Pass
    <3> QED BY <3>1, <3>2 DEF Knows
  <2>5. CASE ApplyRoles(g)
    <3>1. pass' = [pass EXCEPT ![g].batch = Tail(@)] /\ pc' = pc /\ pc[g] = "roles"
      BY <2>5 DEF ApplyRoles
    <3>2. pass'[g].list = pass[g].list /\ pass'[g].drawn = pass[g].drawn
      BY <3>1, <1>1 DEF Pass
    <3> QED BY <3>1, <3>2 DEF Knows
  <2>6. CASE Compare(g)
    BY <2>6, <1>1 DEF Compare, Knows
  <2>7. CASE Draw(g)
    <3>1. \/ /\ pass' = [pass EXCEPT ![g].drawn = Newest]
             /\ pc'[g] = IF pc[g] = "drawTable" THEN "sendTable" ELSE "sendForum"
          \/ /\ \E x : pass' = [pass EXCEPT ![g].ok = x]
             /\ pc'[g] \in {"drawForum", "newEvents"}
      BY <2>7, <1>1 DEF Draw
    <3>2. pass'[g].list = pass[g].list /\ pass'[g].drawn \in {pass[g].drawn, Newest}
      <4>1. CASE pass' = [pass EXCEPT ![g].drawn = Newest]
        BY <4>1, <1>1 DEF Pass
      <4>2. ASSUME NEW x, pass' = [pass EXCEPT ![g].ok = x]
            PROVE  pass'[g].list = pass[g].list /\ pass'[g].drawn = pass[g].drawn
        BY <4>2, <1>1 DEF Pass
      <4> QED BY <3>1, <4>1, <4>2
    <3>3. pass' = [pass EXCEPT ![g].drawn = Newest] => pass'[g].drawn = Newest
      BY <1>1 DEF Pass
    <3>4. pc[g] \in Knows /\ (pc[g] = "drawTable" => other = NotDrawing)
      BY <2>7 DEF Draw, TableFree, Knows
    <3> QED BY <3>1, <3>2, <3>3, <3>4
  <2>8. CASE Record(g)
    BY <2>8, <1>1 DEF Record, Knows
  <2> QED BY <2>1, <2>2, <2>3, <2>4, <2>5, <2>6, <2>7, <2>8
<1>5. Fresh'
  BY <1>1, <1>2, <1>3, <1>4, ReadingStaysFresh
<1> QED BY <1>2, <1>5, StillRefines

\* A redraw of the table by others reads and writes under the same lock.
LEMMA OthersRefine ==
  ASSUME Inv, Fresh, OtherDraws \/ OtherSends
  PROVE  Fresh' /\ Refines
<1>1. Newest' = Newest /\ pc' = pc /\ pass' = pass
  BY DEF OtherDraws, OtherSends, Newest
<1>2. shown \in [Surfaces -> [ev : Versions, list : Versions]] /\ Newest \in Nat /\ Newest >= 1
      /\ other \in Nat /\ NotDrawing = 0 /\ \A s \in Surfaces : shown[s].list \in Nat
  BY VersionsAreNumbers DEF Inv, TypeOK
<1>3. CASE OtherDraws
  <2>1. shown' = shown /\ other' = Newest /\ \A g \in Runner : pc[g] # "sendTable"
    BY <1>3 DEF OtherDraws, TableFree
  <2>2. Fresh'
    BY <1>1, <1>2, <2>1 DEF Fresh, NothingAhead, ListIsFresh, ForumIsFresh, TableIsFresh, Surfaces
  <2> QED BY <1>1, <2>1, <2>2, StillRefines
<1>4. CASE OtherSends
  <2> DEFINE v == [ev |-> other, list |-> other]
  <2>1. other # NotDrawing /\ other' = NotDrawing /\ (shown' = shown \/ shown' = [shown EXCEPT !["table"] = v])
    BY <1>4 DEF OtherSends
  <2>2. \A g \in Runner : pc[g] # "sendTable"
    BY <2>1 DEF Fresh, TableIsFresh
  <2>3. CASE shown' = shown
    <3>1. Fresh'
      BY <1>1, <1>2, <2>1, <2>2, <2>3 DEF Fresh, NothingAhead, ListIsFresh, ForumIsFresh, TableIsFresh
    <3> QED BY <1>1, <2>3, <3>1, StillRefines
  <2>4. CASE shown' = [shown EXCEPT !["table"] = v]
    <3>1. "table" \in Surfaces /\ Shows("table", v)
      BY <1>2, <2>1, <2>4 DEF Shows, Fresh, TableIsFresh, NothingAhead, Surfaces
    <3>2. \A s \in Surfaces : s # "table" => shown'[s] = shown[s]
      BY <1>2, <2>4
    <3>3. shown'["table"].list = other
      BY <1>2, <2>4, <3>1
    <3>4. NothingAhead'
      BY <1>1, <1>2, <2>1, <3>2, <3>3 DEF Fresh, NothingAhead
    <3>5. ListIsFresh'
      BY <1>1, <3>2 DEF Fresh, ListIsFresh, Listed, Surfaces
    <3>6. ForumIsFresh'
      BY <1>1, <3>2 DEF Fresh, ForumIsFresh, Surfaces
    <3>7. TableIsFresh'
      BY <1>1, <2>1, <2>2 DEF TableIsFresh
    <3> QED BY <3>1, <3>4, <3>5, <3>6, <3>7, <1>1, WritesRefine, WriteRefines DEF Fresh
  <2> QED BY <2>1, <2>3, <2>4
<1> QED BY <1>3, <1>4

\* Each step of publishing is a step of the mirrors and keeps drawings fresh.
LEMMA StepRefines ==
  ASSUME Inv, Fresh, [Next]_vars
  PROVE  Fresh' /\ Refines
<1>1. pc \in [Runner -> Locations] /\ Newest \in Nat /\ Newest >= 1
  BY VersionsAreNumbers DEF Inv, TypeOK
<1>2. CASE \E u \in Users, s \in State : Commit(u, s)
  <2>1. hist \in Seq(Roster) /\ Newest' = Newest + 1 /\ UNCHANGED <<shown, other, pass>>
        /\ pc' = [pc EXCEPT ![Newest] = "ready"]
    BY <1>2, <1>1 DEF Commit, Inv, TypeOK, Newest, others
  <2>2. \A g \in Runner : pc'[g] = pc[g] \/ pc'[g] = "ready"
    BY <2>1, <1>1
  <2>3. Fresh'
    BY <1>1, <2>1, <2>2, ReadingStaysFresh DEF Knows
  <2>4. Refines
    BY <2>1 DEF Refines, Mirrored!Next, Mirrored!Commit
  <2> QED BY <2>3, <2>4
<1>3. CASE SweepFinds \/ UNCHANGED vars
  <2>1. Newest' = Newest /\ UNCHANGED <<shown, other, pass>>
    BY <1>3 DEF SweepFinds, Newest, others, vars
  <2>2. \A g \in Runner : pc'[g] = pc[g] \/ pc'[g] = "ready"
    BY <1>1, <1>3 DEF SweepFinds, vars
  <2>3. Fresh'
    BY <1>1, <2>1, <2>2, ReadingStaysFresh DEF Knows
  <2> QED BY <2>1, <2>3, StillRefines
<1>4. ASSUME NEW g \in Runner, Step(g) PROVE Fresh' /\ Refines
  BY <1>4, SendingRefines, WorkingRefines, Zenon DEF Step
<1>5. CASE OtherDraws \/ OtherSends
  BY <1>5, OthersRefine
<1>6. CASE Crash
  <2>1. Newest' = Newest /\ shown' = shown /\ other' = NotDrawing
        /\ \A g \in Runner : pc'[g] = "idle" /\ pass'[g] = NoPass
    BY <1>6 DEF Crash, Newest
  <2>2. Fresh'
    BY <1>1, <2>1 DEF Fresh, NothingAhead, ListIsFresh, ForumIsFresh, TableIsFresh, Knows, NoPass, NotDrawing
  <2> QED BY <2>1, <2>2, StillRefines
<1> QED BY <1>2, <1>3, <1>4, <1>5, <1>6, Zenon DEF Next

\* However passes, failed calls, redraws by others and restarts interleave with
\* changes (publishEventToDiscord, publishPackedTable), the table, the forum
\* post, the #new-events message and the native event only ever move forward
\* through the rosters, and never show one that was not committed.
THEOREM SurfacesMirrorTheRoster == Spec => NoSurfaceGoesBack
<1>1. Init => Inv /\ Fresh /\ Mirrored!Init
  <2>1. Init => Mirrored!Init
    BY DEF Init, Mirrored!Init, Newest
  <2> QED BY <2>1, InitHolds, FreshInit
<1>2. Inv /\ Fresh /\ [Next]_vars => (Inv /\ Fresh)' /\ Refines
  BY NextHolds, StepRefines
<1> QED BY <1>1, <1>2, PTL DEF Spec, NoSurfaceGoesBack, Mirrored!Spec, Refines
=============================================================================
