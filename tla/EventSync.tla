----------------------------- MODULE EventSync -----------------------------
(***************************************************************************)
(* Publishing one event's roster to Discord (eventsync.go).                *)
(*                                                                         *)
(* Every roster change is committed by a handler which then starts a       *)
(* goroutine; the goroutines hand their changes to a queue that lets one   *)
(* of them be the event's writer.  A pass of the writer reads the event    *)
(* and the roster, applies the roles of its batch, and redraws what        *)
(* Discord shows if the signature of what it read is not the recorded one. *)
(* Every call to Discord or the store may fail; failures are logged and    *)
(* nothing is undone.  A sweep every minute starts a pass when the roster  *)
(* is not the recorded one.                                                *)
(*                                                                         *)
(* A signature stands for the roster it was taken over.  Title renames are *)
(* throttled by time, which is a free choice here; what they write is not  *)
(* modelled.  The event starts published once.                             *)
(***************************************************************************)
EXTENDS Integers, Sequences, FiniteSets

CONSTANTS
  Users,        \* the people
  MaxChanges,   \* bound: roster changes, and redraws of the table by anybody else
  MaxFailures,  \* bound: calls to Discord or the store that fail
  MaxCrashes    \* bound: restarts of the process

ASSUME SyncAssumption ==
  /\ IsFiniteSet(Users)
  /\ MaxChanges \in Nat /\ MaxFailures \in Nat /\ MaxCrashes \in Nat

State    == {"withdrawn", "attending", "waitlisted"}
Roles    == {"attending", "waitlisted"}
Roster   == [Users -> State]
Surfaces == {"table", "forum", "newEvents", "native"}
Change   == [user : Users, state : State]

\* The goroutine of the n-th change is n; the sweep is 0.
Sweep  == 0
Runner == 0..MaxChanges

VARIABLES
  hist,      \* the rosters committed so far, the newest last
  change,    \* what each change's goroutine carries
  pc,        \* where each goroutine is
  pass,      \* the locals of each goroutine's pass
  run,       \* eventSyncQueue's entry for the event
  recorded,  \* the version whose signature is recorded as published
  shown,     \* the versions of event and roster each surface shows
  role,      \* the roles each person has on Discord
  taken,     \* the state of each person's change the queue took last
  other,     \* the version somebody else redraws the table with, or NotDrawing
  redraws,
  failures,
  crashes

others == <<other, redraws>>
vars == <<hist, change, pc, pass, run, recorded, shown, role, taken, others, failures, crashes>>

Newest     == Len(hist)
Versions   == 1..(MaxChanges + 1)
Current == hist[Newest]
Signature(v) == hist[v]
Stale == Signature(recorded) # Current
NotDrawing == 0

NoRun  == [running |-> FALSE, dirty |-> FALSE, changes |-> <<>>]
NoPass == [batch |-> <<>>, ev |-> 1, list |-> 1, drawn |-> 1, ok |-> TRUE]

Locations == {"idle", "ready", "claim", "reload", "roster", "roles", "compare", "titles",
              "drawTable", "sendTable", "drawForum", "sendForum", "newEvents", "native",
              "record"}

Pass == [batch : Seq(Change), ev : Versions, list : Versions, drawn : Versions, ok : BOOLEAN]

TypeOK ==
  /\ hist \in Seq(Roster) /\ Newest \in Versions
  /\ change \in Seq(Change) /\ Len(change) = Newest - 1
  /\ pc \in [Runner -> Locations]
  /\ pass \in [Runner -> Pass]
  /\ run \in [running : BOOLEAN, dirty : BOOLEAN, changes : Seq(Change)]
  /\ recorded \in Versions
  /\ shown \in [Surfaces -> [ev : Versions, list : Versions]]
  /\ role \in [Users -> SUBSET Roles]
  /\ taken \in Roster
  /\ other \in Versions \cup {NotDrawing}
  /\ redraws \in 0..MaxChanges
  /\ failures \in 0..MaxFailures
  /\ crashes \in 0..MaxCrashes

-----------------------------------------------------------------------------
Init ==
  /\ hist = <<[u \in Users |-> "withdrawn"]>>
  /\ change = <<>>
  /\ pc = [g \in Runner |-> "idle"]
  /\ pass = [g \in Runner |-> NoPass]
  /\ run = NoRun
  /\ recorded = 1
  /\ shown = [s \in Surfaces |-> [ev |-> 1, list |-> 1]]
  /\ role = [u \in Users |-> {}]
  /\ taken = [u \in Users |-> "withdrawn"]
  /\ other = NotDrawing
  /\ redraws = 0
  /\ failures = 0
  /\ crashes = 0

\* A handler's transaction commits and its goroutine is started.
Commit(u, s) ==
  /\ Newest + redraws <= MaxChanges
  /\ Current[u] # s
  /\ hist' = Append(hist, [Current EXCEPT ![u] = s])
  /\ change' = Append(change, [user |-> u, state |-> s])
  /\ pc' = [pc EXCEPT ![Newest] = "ready"]
  /\ UNCHANGED <<pass, run, recorded, shown, role, taken, others, failures, crashes>>

\* The sweep finds the event stale, or its titles due for a rename.
SweepFinds ==
  /\ pc[Sweep] = "idle"
  /\ pc' = [pc EXCEPT ![Sweep] = "ready"]
  /\ UNCHANGED <<hist, change, pass, run, recorded, shown, role, taken, others, failures, crashes>>

Carried(g) == IF g = Sweep THEN <<>> ELSE <<change[g]>>

\* Mutant of Enqueue: a second change starts a second writer.
EnqueueAlways(g) ==
  /\ pc[g] = "ready"
  /\ run' = [running |-> TRUE, dirty |-> TRUE, changes |-> run.changes \o Carried(g)]
  /\ pc' = [pc EXCEPT ![g] = "claim"]
  /\ taken' = IF g = Sweep THEN taken ELSE [taken EXCEPT ![change[g].user] = change[g].state]
  /\ UNCHANGED <<hist, change, pass, recorded, shown, role, others, failures, crashes>>

\* Mutant of Enqueue: the changes banked before are overwritten.
EnqueueReplaces(g) ==
  /\ pc[g] = "ready"
  /\ run' = [running |-> TRUE, dirty |-> TRUE, changes |-> Carried(g)]
  /\ pc' = [pc EXCEPT ![g] = IF run.running THEN "idle" ELSE "claim"]
  /\ taken' = IF g = Sweep THEN taken ELSE [taken EXCEPT ![change[g].user] = change[g].state]
  /\ UNCHANGED <<hist, change, pass, recorded, shown, role, others, failures, crashes>>

\* enqueue: become the writer, or hand over to it.
Enqueue(g) ==
  /\ pc[g] = "ready"
  /\ run' = [running |-> TRUE, dirty |-> TRUE, changes |-> run.changes \o Carried(g)]
  /\ pc' = [pc EXCEPT ![g] = IF run.running THEN "idle" ELSE "claim"]
  /\ taken' = IF g = Sweep THEN taken ELSE [taken EXCEPT ![change[g].user] = change[g].state]
  /\ UNCHANGED <<hist, change, pass, recorded, shown, role, others, failures, crashes>>

\* Mutant of Claim: the run ends without looking whether more is owed.
ClaimOnce(g) ==
  /\ pc[g] = "claim"
  /\ IF run.running /\ run.dirty /\ pass[g] = NoPass
     THEN /\ pass' = [pass EXCEPT ![g].batch = run.changes, ![g].ok = FALSE]
          /\ run' = [run EXCEPT !.changes = <<>>, !.dirty = FALSE]
          /\ pc' = [pc EXCEPT ![g] = "reload"]
     ELSE /\ run' = NoRun
          /\ pass' = [pass EXCEPT ![g] = NoPass]
          /\ pc' = [pc EXCEPT ![g] = "idle"]
  /\ UNCHANGED <<hist, change, recorded, shown, role, taken, others, failures, crashes>>

\* claim: take what is banked, or leave the event to the next enqueue.
Claim(g) ==
  /\ pc[g] = "claim"
  /\ IF run.running /\ run.dirty
     THEN /\ pass' = [pass EXCEPT ![g] = [NoPass EXCEPT !.batch = run.changes]]
          /\ run' = [run EXCEPT !.changes = <<>>, !.dirty = FALSE]
          /\ pc' = [pc EXCEPT ![g] = "reload"]
     ELSE /\ run' = NoRun
          /\ pass' = [pass EXCEPT ![g] = NoPass]
          /\ pc' = [pc EXCEPT ![g] = "idle"]
  /\ UNCHANGED <<hist, change, recorded, shown, role, taken, others, failures, crashes>>

-----------------------------------------------------------------------------
(* publishEventToDiscord: one pass.                                        *)

Fail == failures < MaxFailures /\ failures' = failures + 1
Work == failures' = failures

\* The event is read, with its counts, and then the roster: two queries.  A
\* read that fails ends the pass, and its batch is gone.
Reload(g) ==
  /\ pc[g] = "reload"
  /\ \/ Work /\ pass' = [pass EXCEPT ![g].ev = Newest] /\ pc' = [pc EXCEPT ![g] = "roster"]
     \/ Fail /\ pass' = pass /\ pc' = [pc EXCEPT ![g] = "claim"]
  /\ UNCHANGED <<hist, change, run, recorded, shown, role, taken, others, crashes>>

ReadRoster(g) ==
  /\ pc[g] = "roster"
  /\ \/ Work /\ pass' = [pass EXCEPT ![g].list = Newest] /\ pc' = [pc EXCEPT ![g] = "roles"]
     \/ Fail /\ pass' = pass /\ pc' = [pc EXCEPT ![g] = "claim"]
  /\ UNCHANGED <<hist, change, run, recorded, shown, role, taken, others, crashes>>

\* Mutant of ApplyRoles: someone who left is given a role of their own.
ApplyRolesOfAnyState(g) ==
  /\ pc[g] = "roles" /\ pass[g].batch # <<>>
  /\ LET c == Head(pass[g].batch) IN role' = [role EXCEPT ![c.user] = {c.state}]
  /\ pass' = [pass EXCEPT ![g].batch = Tail(@)]
  /\ Work
  /\ UNCHANGED <<hist, change, pc, run, recorded, shown, taken, others, crashes>>

\* applyRoles, for the next change of the batch: the role of the change's
\* state is added and the other removed, each a call of its own.
ApplyRoles(g) ==
  /\ pc[g] = "roles" /\ pass[g].batch # <<>>
  /\ \E done \in SUBSET Roles :
       /\ IF done = Roles THEN Work ELSE Fail
       /\ LET c == Head(pass[g].batch)
          IN role' = [role EXCEPT ![c.user] = (@ \ done) \cup (done \cap {c.state})]
  /\ pass' = [pass EXCEPT ![g].batch = Tail(@)]
  /\ UNCHANGED <<hist, change, pc, run, recorded, shown, taken, others, crashes>>

\* Is there anything to write?  With the roster as recorded, only titles whose
\* time has come.
Compare(g) ==
  /\ pc[g] = "roles" /\ pass[g].batch = <<>>
  /\ \E next \in (IF Signature(pass[g].list) = Signature(recorded)
                  THEN {"claim", "titles"} ELSE {"drawTable"}) :
       pc' = [pc EXCEPT ![g] = next]
  /\ UNCHANGED <<hist, change, pass, run, recorded, shown, role, taken, others, failures, crashes>>

\* The title-only publish: the thread is renamed, then the native event is
\* written whole; the first failure ends it.
RenameOnly(g) ==
  /\ pc[g] = "titles"
  /\ \/ Work /\ shown' = [shown EXCEPT !["native"] = [ev |-> pass[g].ev, list |-> pass[g].list]]
     \/ Fail /\ shown' = shown
  /\ pc' = [pc EXCEPT ![g] = "claim"]
  /\ UNCHANGED <<hist, change, pass, run, recorded, role, taken, others, crashes>>

\* Whether tableLock is free: it is held from the table's read to its write.
TableFree == other = NotDrawing /\ \A g \in Runner : pc[g] # "sendTable"

\* Mutant of Draw: the table is redrawn without its lock.
DrawUnlocked(g) ==
  /\ pc[g] \in {"drawTable", "drawForum"}
  /\ Work
  /\ pass' = [pass EXCEPT ![g].drawn = Newest]
  /\ pc' = [pc EXCEPT ![g] = IF @ = "drawTable" THEN "sendTable" ELSE "sendForum"]
  /\ UNCHANGED <<hist, change, run, recorded, shown, role, taken, others, crashes>>

\* The table and the forum post read the roster again when their turn comes,
\* the table the event too, under the lock of the guild's tables.
Draw(g) ==
  /\ pc[g] \in {"drawTable", "drawForum"}
  /\ pc[g] = "drawTable" => TableFree
  /\ \/ /\ Work
        /\ pass' = [pass EXCEPT ![g].drawn = Newest]
        /\ pc' = [pc EXCEPT ![g] = IF @ = "drawTable" THEN "sendTable" ELSE "sendForum"]
     \/ /\ Fail
        /\ pass' = [pass EXCEPT ![g].ok = @ /\ pc[g] = "drawTable"]
        /\ pc' = [pc EXCEPT ![g] = IF @ = "drawTable" THEN "drawForum" ELSE "newEvents"]
  /\ UNCHANGED <<hist, change, run, recorded, shown, role, taken, others, crashes>>

\* refreshTablesQuietly: a table that fails is logged and the pass goes on as
\* if it had not.
SendTable(g) ==
  /\ pc[g] = "sendTable"
  /\ \/ Work /\ shown' = [shown EXCEPT !["table"] = [ev |-> pass[g].drawn, list |-> pass[g].drawn]]
     \/ Fail /\ shown' = shown
  /\ pc' = [pc EXCEPT ![g] = "drawForum"]
  /\ UNCHANGED <<hist, change, pass, run, recorded, role, taken, others, crashes>>

\* The table is the guild's: the passes of its other events, the sync and the
\* dashboards redraw it too.
OtherDraws ==
  /\ TableFree /\ Newest + redraws <= MaxChanges
  /\ other' = Newest
  /\ redraws' = redraws + 1
  /\ UNCHANGED <<hist, change, pc, pass, run, recorded, shown, role, taken, failures, crashes>>

OtherSends ==
  /\ other # NotDrawing
  /\ \/ Work /\ shown' = [shown EXCEPT !["table"] = [ev |-> other, list |-> other]]
     \/ Fail /\ shown' = shown
  /\ other' = NotDrawing
  /\ UNCHANGED <<hist, change, pc, pass, run, recorded, role, taken, redraws, crashes>>

\* What the surface is sent, and where the pass goes next.
Sent(g, s) ==
  [ev |-> pass[g].ev, list |-> IF s = "forum" THEN pass[g].drawn ELSE pass[g].list]
At    == [forum |-> "sendForum", newEvents |-> "newEvents", native |-> "native"]
After == [forum |-> "newEvents", newEvents |-> "native", native |-> "record"]

\* The forum post, the #new-events message and the native event: a failure
\* leaves the pass unclean.
Send(g, s) ==
  /\ pc[g] = At[s]
  /\ \/ Work /\ shown' = [shown EXCEPT ![s] = Sent(g, s)] /\ pass' = pass
     \/ Fail /\ shown' = shown /\ pass' = [pass EXCEPT ![g].ok = FALSE]
  /\ pc' = [pc EXCEPT ![g] = After[s]]
  /\ UNCHANGED <<hist, change, run, recorded, role, taken, others, crashes>>

\* Mutant of Record: an unclean pass is recorded as published.
RecordAnyway(g) ==
  /\ pc[g] = "record"
  /\ recorded' = pass[g].list
  /\ Work
  /\ pc' = [pc EXCEPT ![g] = "claim"]
  /\ UNCHANGED <<hist, change, pass, run, shown, role, taken, others, crashes>>

\* Only a clean pass is recorded.
Record(g) ==
  /\ pc[g] = "record"
  /\ \/ Work /\ recorded' = IF pass[g].ok THEN pass[g].list ELSE recorded
     \/ pass[g].ok /\ Fail /\ recorded' = recorded
  /\ pc' = [pc EXCEPT ![g] = "claim"]
  /\ UNCHANGED <<hist, change, pass, run, shown, role, taken, others, crashes>>

\* The process stops; what Discord and the store have stays.
Crash ==
  /\ crashes < MaxCrashes
  /\ other # NotDrawing \/ \E g \in Runner : pc[g] # "idle"
  /\ crashes' = crashes + 1
  /\ pc' = [g \in Runner |-> "idle"]
  /\ pass' = [g \in Runner |-> NoPass]
  /\ run' = NoRun
  /\ other' = NotDrawing
  /\ UNCHANGED <<hist, change, recorded, shown, role, taken, redraws, failures>>

Step(g) ==
  \/ Enqueue(g) \/ Claim(g) \/ Reload(g) \/ ReadRoster(g) \/ ApplyRoles(g) \/ Compare(g)
  \/ RenameOnly(g) \/ Draw(g) \/ SendTable(g) \/ Record(g)
  \/ \E s \in Surfaces \ {"table"} : Send(g, s)

Next ==
  \/ \E u \in Users, s \in State : Commit(u, s)
  \/ SweepFinds
  \/ \E g \in Runner : Step(g)
  \/ OtherDraws \/ OtherSends
  \/ Crash

Spec == Init /\ [][Next]_vars

\* Goroutines run; the sweep runs every minute for as long as there is
\* something to find.
Fairness ==
  /\ \A g \in Runner : WF_vars(Step(g))
  /\ WF_vars(Stale /\ SweepFinds)
  /\ WF_vars(OtherSends)

FairSpec == Spec /\ Fairness
-----------------------------------------------------------------------------
(* Properties.                                                             *)

Writing(g) == pc[g] \notin {"idle", "ready"}
Quiet == \A g \in Runner : pc[g] = "idle"

\* One writer: of all the goroutines a burst of changes starts, one at a time
\* writes, and never without the queue knowing of it.
OneWriter ==
  /\ \A g, h \in Runner : Writing(g) /\ Writing(h) => g = h
  /\ run.running <=> \E g \in Runner : Writing(g)

\* However passes, failures and crashes interleave with changes, no surface
\* ever goes back to an older roster than it shows.
Mirrored == INSTANCE Mirror WITH
  Copies <- Surfaces, newest <- Newest, copy <- [s \in Surfaces |-> shown[s].list]
NoSurfaceGoesBack == Mirrored!Spec

\* With nothing failing, when every goroutine is done each person has the
\* role of the change of theirs the queue took last: handing over to the
\* writer loses no change and keeps their order.
BankedChangesAreApplied ==
  Quiet /\ failures = 0 /\ crashes = 0 =>
    \A u \in Users : role[u] = {taken[u]} \cap Roles

\* With nothing failing, a burst of changes ends with the newest roster
\* recorded, without waiting for a sweep.
BurstEndsPublished == Quiet /\ failures = 0 /\ crashes = 0 => ~Stale

\* A roster Discord was never shown before reaches every surface whose failure
\* the pass notices, whatever failed on the way, and stays.
Unseen == \A v \in 1..(Newest - 1) : hist[v] # Current
NewRosterIsShown ==
  <>[](Unseen => \A s \in Surfaces \ {"table"} : hist[shown[s].list] = Current)

-----------------------------------------------------------------------------
(* What comments in the code say, and the code does not keep.              *)

\* eventsync.go: the re-read happens inside the pass, "so the last write always
\* carries the newest committed state".
LastWriteIsNewest ==
  Quiet /\ failures = 0 /\ crashes = 0 =>
    \A s \in Surfaces : hist[shown[s].list] = Current

\* eventsync.go: every failure is logged and "the fix is to re-run the
\* projection, which the ten-minute reconcile does by itself"; the roles each
\* person should hold are part of that projection.
RolesAreRepaired ==
  <>[](\A u \in Users : role[u] = {Current[u]} \cap Roles)
=============================================================================
