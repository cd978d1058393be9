------------------------------- MODULE Roster -------------------------------
(***************************************************************************)
(* The roster of one event as the store keeps it: who is going, waiting in *)
(* line, down as maybe or withdrawn; the places and passes that invites    *)
(* keep; the regulars; the log of every move.                              *)
(*                                                                         *)
(* The store opens SQLite with BEGIN IMMEDIATE, so every store method is   *)
(* one atomic step and is one action here.  Handlers are sequences of      *)
(* these calls by concurrent goroutines, so any interleaving of handlers   *)
(* is a behaviour of this module; what a handler read before its call may  *)
(* be stale, which is why an action's guard holds only what the            *)
(* transaction itself checks.                                              *)
(***************************************************************************)
EXTENDS Integers, FiniteSets, Sequences

CONSTANTS
  Users,        \* the people
  Host,         \* the person who made the event
  Recurring,    \* whether the event has a recurrence rule
  Capacities,   \* the limits an organizer may set; 0 is no limit
  Statuses,     \* the statuses an edit, a sweep or the Discord sync may set
  Fans,         \* the people whose Interested signals Discord sends
  Invitees,     \* the people an organizer invites
  Standbys,     \* the people who may be made regulars
  MaxRows,      \* bound: signup rows ever inserted
  MaxClock,     \* bound: seconds the clock moves
  MaxInvites    \* bound: invites that keep a place or a pass

ASSUME RosterAssumption ==
  /\ IsFiniteSet(Users)
  /\ Host \in Users
  /\ Recurring \in BOOLEAN
  /\ Capacities \subseteq Nat
  /\ Statuses \subseteq {"open", "closed", "completed", "cancelled"}
  /\ Fans \subseteq Users /\ Invitees \subseteq Users /\ Standbys \subseteq Users
  /\ MaxRows \in Nat /\ MaxClock \in Nat /\ MaxInvites \in Nat

VARIABLES
  ev,           \* the event's own settings
  row,          \* the person's row in signups
  invites,      \* the invites that keep something, oldest first
  regular,      \* the person's rows in event_pins, folded to where they stand
  logged,       \* the to_state of the person's last row in signup_updates
  listed,       \* what the last Interested signal for the person said
  unmarking,    \* un-marks whose first transaction is done and second is not
  clock,        \* now(), in seconds
  nextId        \* the id the next inserted row gets (AUTOINCREMENT)

vars == <<ev, row, invites, regular, logged, listed, unmarking, clock, nextId>>

Status   == {"open", "closed", "completed", "cancelled"}
Archived == {"completed", "cancelled"}
State    == {"none", "attending", "waitlisted", "maybe", "withdrawn"}
OnList   == {"attending", "waitlisted"}

\* "none" is a person with no row.
Row == [state : State, rank : Nat, at : Nat, id : Nat, interested : BOOLEAN]
NoRow == [state |-> "none", rank |-> 0, at |-> 0, id |-> 0, interested |-> FALSE]

Settings == [capacity : Capacities, status : Status, waitlistDisabled : BOOLEAN,
             deleted : BOOLEAN]
Edits == [capacity : Capacities, status : Statuses, waitlistDisabled : BOOLEAN,
          deleted : {FALSE}]
Invite == [user : Users, kind : {"place", "pass"}, live : BOOLEAN, delivered : BOOLEAN]

TypeOK ==
  /\ ev \in Settings
  /\ row \in [Users -> Row]
  /\ invites \in Seq(Invite)
  /\ regular \in [Users -> {"never", "regular", "stopped"}]
  /\ logged \in [Users -> State]
  /\ listed \in [Users -> {"no", "yes", "unseen"}]
  /\ unmarking \in SUBSET Users
  /\ clock \in Nat
  /\ nextId \in Nat

-----------------------------------------------------------------------------
(* Counting places, and the line.                                          *)

Going(r)      == {u \in Users : r[u].state = "attending"}
Waiting(r)    == {u \in Users : r[u].state = "waitlisted"}
HeldIn(inv)   == {i \in DOMAIN inv : inv[i].live /\ inv[i].kind = "place"}
Taken(r, inv) == Cardinality(Going(r)) + Cardinality(HeldIn(inv))

HasHold(inv, u, kind) ==
  \E i \in DOMAIN inv : inv[i].user = u /\ inv[i].live /\ inv[i].kind = kind
HasReserve(inv, u) == \E kind \in {"place", "pass"} : HasHold(inv, u, kind)

\* Mutant of Ahead: the id no longer breaks a tie in the second.
AheadWithoutTheId(r, u, v) ==
  \/ r[u].rank # 0 /\ (r[v].rank = 0 \/ r[u].rank < r[v].rank)
  \/ r[u].rank = r[v].rank /\ r[u].at < r[v].at

\* waitlistOrder: (rank = 0), rank, signed_up_at, id.
Ahead(r, u, v) ==
  \/ r[u].rank # 0 /\ (r[v].rank = 0 \/ r[u].rank < r[v].rank)
  \/ /\ r[u].rank = r[v].rank
     /\ r[u].at < r[v].at \/ (r[u].at = r[v].at /\ r[u].id < r[v].id)

AheadOf(r, u) == {v \in Waiting(r) : Ahead(r, v, u)}

\* Mutant of FrontOfLine: arrival order, an organizer's move forgotten.
FrontByArrival(r, n) ==
  {u \in Waiting(r) : Cardinality({v \in Waiting(r) : r[v].id < r[u].id}) < n}

\* The first n people of the line.
FrontOfLine(r, n) == {u \in Waiting(r) : Cardinality(AheadOf(r, u)) < n}

\* Mutant of NextUp: off by one, the last free place is not given.
NextUpOffByOne(r, inv) ==
  IF ev.capacity > 0 /\ Taken(r, inv) + 1 < ev.capacity
  THEN FrontOfLine(r, 1) ELSE {}

\* promoteIfPlaceFreeTx: who moves up when a place has just come free.
NextUp(r, inv) ==
  IF ev.capacity > 0 /\ Taken(r, inv) < ev.capacity
  THEN FrontOfLine(r, 1) ELSE {}

Move(r, P, s) == [u \in Users |-> IF u \in P THEN [r[u] EXCEPT !.state = s] ELSE r[u]]

\* Mutant of Log: moves of others than the one who acted are not logged.
LogOnlyWithdrawals(l, P, s) ==
  [u \in Users |-> IF u \in P /\ s = "withdrawn" THEN s ELSE l[u]]

\* logSignupUpdate, for each person of P.
Log(l, P, s) == [u \in Users |-> IF u \in P THEN s ELSE l[u]]

\* Mutant of EndHold: a held place outlives the invite that replaces it.
EndHoldOnlyPasses(inv, u) ==
  [i \in DOMAIN inv |-> IF inv[i].user = u /\ inv[i].kind = "pass"
                        THEN [inv[i] EXCEPT !.live = FALSE] ELSE inv[i]]

EndHold(inv, u) ==
  [i \in DOMAIN inv |-> IF inv[i].user = u
                        THEN [inv[i] EXCEPT !.live = FALSE] ELSE inv[i]]

\* Mutant of Fresh: the old row is updated in place, keeping its id and rank.
FreshInPlace(r, u, s, id, interested) ==
  [r EXCEPT ![u] = [state |-> s, rank |-> r[u].rank, at |-> clock,
                    id |-> IF r[u].state = "none" THEN id ELSE r[u].id,
                    interested |-> interested]]

\* Mutant of Fresh: the new row forgets what Discord's list said.
FreshForgetsInterest(r, u, s, id, interested) ==
  [r EXCEPT ![u] = [state |-> s, rank |-> 0, at |-> clock, id |-> id,
                    interested |-> FALSE]]

\* The old row, if any, deleted and a new one inserted.
Fresh(r, u, s, id, interested) ==
  [r EXCEPT ![u] = [state |-> s, rank |-> 0, at |-> clock, id |-> id,
                    interested |-> interested]]

\* Mutant of Full: the limit is passed by one.
FullOffByOne(u) ==
  /\ ~HasReserve(invites, u)
  /\ ev.capacity > 0
  /\ Taken(row, EndHold(invites, u)) > ev.capacity

\* Someone coming on by themselves finds no place: they have nothing reserved
\* and everyone going and every place held for others fill the limit.
Full(u) ==
  /\ ~HasReserve(invites, u)
  /\ ev.capacity > 0
  /\ Taken(row, EndHold(invites, u)) >= ev.capacity

-----------------------------------------------------------------------------
Init ==
  /\ ev \in {e \in Edits : ~e.waitlistDisabled}
  /\ row = [u \in Users |-> NoRow]
  /\ invites = <<>>
  /\ regular = [u \in Users |-> "never"]
  /\ logged = [u \in Users |-> "none"]
  /\ listed = [u \in Users |-> "no"]
  /\ unmarking = {}
  /\ clock = 0
  /\ nextId = 1

\* A press of Join.  Someone already on the list changes nothing; someone
\* withdrawn or maybe comes back as a new row, at the back.
Join(u) ==
  /\ ~ev.deleted /\ ev.status = "open"
  /\ row[u].state \notin OnList
  /\ Full(u) => ~ev.waitlistDisabled
  /\ nextId <= MaxRows
  /\ LET s == IF Full(u) THEN "waitlisted" ELSE "attending"
     IN /\ row' = Fresh(row, u, s, nextId, row[u].interested)
        /\ logged' = [logged EXCEPT ![u] = s]
  /\ invites' = EndHold(invites, u)
  /\ nextId' = nextId + 1
  /\ UNCHANGED <<ev, regular, listed, unmarking, clock>>

\* What Leave does to the rows and the log once its guards have passed.
Withdraw(u) ==
  LET gone == Move(row, {u}, "withdrawn")
      up   == IF row[u].state = "attending" THEN NextUp(gone, invites) ELSE {}
  IN /\ row' = Move(gone, up, "attending")
     /\ logged' = Log([logged EXCEPT ![u] = "withdrawn"], up, "attending")

Leave(u) ==
  /\ ~ev.deleted
  /\ row[u].state \notin {"none", "withdrawn"}
  /\ Withdraw(u)
  /\ UNCHANGED <<ev, invites, regular, listed, unmarking, clock, nextId>>

\* The state the person had is read before their hold ends; the promotion
\* their own held place causes may be their own.
MarkMaybe(u) ==
  LET inv   == EndHold(invites, u)
      up1   == IF HasReserve(invites, u) THEN NextUp(row, inv) ELSE {}
      r1    == Move(row, up1, "attending")
      l1    == Log(logged, up1, "attending")
      r2    == Move(r1, {u}, "maybe")
      up2   == IF row[u].state = "attending" THEN NextUp(r2, inv) ELSE {}
  IN /\ ~ev.deleted /\ ev.status = "open"
     /\ invites' = inv
     /\ CASE row[u].state = "maybe" ->
               row' = r1 /\ logged' = l1 /\ nextId' = nextId
          [] row[u].state \in OnList ->
               /\ row' = Move(r2, up2, "attending")
               /\ logged' = [Log(l1, up2, "attending") EXCEPT ![u] = "maybe"]
               /\ nextId' = nextId
          [] OTHER ->
               /\ nextId <= MaxRows
               /\ row' = Fresh(r1, u, "maybe", nextId, row[u].interested)
               /\ logged' = [l1 EXCEPT ![u] = "maybe"]
               /\ nextId' = nextId + 1
     /\ UNCHANGED <<ev, regular, listed, unmarking, clock>>

-----------------------------------------------------------------------------
(* What organizers do.                                                     *)

\* An organizer gives someone waiting or maybe a place, whatever the limit.
GiveAPlace(u) ==
  /\ row[u].state \in {"waitlisted", "maybe"}
  /\ row' = Move(row, {u}, "attending")
  /\ logged' = [logged EXCEPT ![u] = "attending"]
  /\ UNCHANGED <<ev, invites, regular, listed, unmarking, clock, nextId>>

\* An organizer puts someone on the going, maybe or waiting list.
PlaceOnList(u, s) ==
  LET from == row[u].state
      inv  == EndHold(invites, u)
      keep == from \in {"attending", "waitlisted", "maybe"} /\ s # "waitlisted"
      r1   == IF keep THEN Move(row, {u}, s)
              ELSE Fresh(row, u, s, nextId, row[u].interested)
      up   == IF from = "attending" \/ (HasReserve(invites, u) /\ s # "attending")
              THEN NextUp(r1, inv) ELSE {}
  IN /\ ~ev.deleted /\ ev.status \notin Archived
     /\ from # s
     /\ s = "waitlisted" =>
          /\ ~ev.waitlistDisabled
          /\ ev.capacity # 0
          /\ Cardinality(Going(row) \ {u}) + Cardinality(HeldIn(inv)) >= ev.capacity
     /\ keep \/ nextId <= MaxRows
     /\ invites' = inv
     /\ row' = Move(r1, up, "attending")
     /\ logged' = Log([logged EXCEPT ![u] = s], up, "attending")
     /\ nextId' = IF keep THEN nextId ELSE nextId + 1
     /\ UNCHANGED <<ev, regular, listed, unmarking, clock>>

\* The place of v in line once u is taken out of it, 1 at the front.
PlaceWithout(u, v) == 1 + Cardinality(AheadOf(row, v) \ {u})

\* An organizer moves u to a place in the line; the whole line is ranked.
MoveInWaitlist(u, to) ==
  /\ u \in Waiting(row)
  /\ to \in 1..Cardinality(Waiting(row))
  /\ to # 1 + Cardinality(AheadOf(row, u))
  /\ row' = [v \in Users |->
               IF v \notin Waiting(row) THEN row[v]
               ELSE [row[v] EXCEPT !.rank =
                       IF v = u THEN to
                       ELSE IF PlaceWithout(u, v) < to THEN PlaceWithout(u, v)
                       ELSE PlaceWithout(u, v) + 1]]
  /\ logged' = [logged EXCEPT ![u] = "waitlisted"]
  /\ UNCHANGED <<ev, invites, regular, listed, unmarking, clock, nextId>>

\* An invite that keeps a place or a pass.  The invite page reads the person's
\* state and the event's status before this transaction; the transaction does
\* not look again.  A place needs one to be free, counted before the person's
\* earlier hold ends; a pass ends it and looks at nothing.
RecordInvite(u, kind) ==
  /\ Len(invites) < MaxInvites
  /\ kind = "place" => /\ ~ev.deleted
                       /\ ev.capacity # 0
                       /\ Taken(row, invites) < ev.capacity
  /\ invites' = Append(EndHold(invites, u),
                       [user |-> u, kind |-> kind, live |-> TRUE, delivered |-> TRUE])
  /\ UNCHANGED <<ev, row, regular, logged, listed, unmarking, clock, nextId>>

\* Discord did not take the invite's DM; what it still keeps goes back.
SetInviteDelivery(i) ==
  LET inv == [invites EXCEPT ![i].delivered = FALSE, ![i].live = FALSE]
      up  == IF invites[i].live THEN NextUp(row, inv) ELSE {}
  IN /\ invites[i].delivered
     /\ invites' = inv
     /\ row' = Move(row, up, "attending")
     /\ logged' = Log(logged, up, "attending")
     /\ UNCHANGED <<ev, regular, listed, unmarking, clock, nextId>>

\* A reserve is given back: declined by its owner or released by an organizer.
GiveBackHeldPlace(u) ==
  LET inv == EndHold(invites, u)
      up  == NextUp(row, inv)
  IN /\ HasReserve(invites, u)
     /\ invites' = inv
     /\ row' = Move(row, up, "attending")
     /\ logged' = Log(logged, up, "attending")
     /\ UNCHANGED <<ev, regular, listed, unmarking, clock, nextId>>

\* Mutant of UpdateEvent: lowering the limit sends the last ones to the line.
UpdateEventDemotes(e) ==
  /\ ~ev.deleted /\ e # ev
  /\ ev' = e
  /\ row' = [u \in Users |->
               IF /\ e.capacity > 0 /\ row[u].state = "attending"
                  /\ Cardinality({v \in Going(row) : row[v].id < row[u].id}) >= e.capacity
               THEN [row[u] EXCEPT !.state = "waitlisted"] ELSE row[u]]
  /\ UNCHANGED <<invites, regular, logged, listed, unmarking, clock, nextId>>

\* Any edit of the settings, by any surface, the sweeps and the Discord sync.
\* Nobody is demoted, and nobody promoted: that is the next call.
UpdateEvent(e) ==
  /\ ~ev.deleted /\ e # ev
  /\ ev' = e
  /\ UNCHANGED <<row, invites, regular, logged, listed, unmarking, clock, nextId>>

\* Mutant of DeleteEvent: deletion written as a status the schema refuses.
DeleteEventByStatus ==
  /\ ~ev.deleted
  /\ ev' = [ev EXCEPT !.status = "deleted"]
  /\ UNCHANGED <<row, invites, regular, logged, listed, unmarking, clock, nextId>>

DeleteEvent ==
  /\ ~ev.deleted
  /\ ev' = [ev EXCEPT !.deleted = TRUE]
  /\ UNCHANGED <<row, invites, regular, logged, listed, unmarking, clock, nextId>>

\* The call that follows an edit which raised or removed the limit.
PromoteToFillCapacity ==
  LET up == IF ev.capacity = 0 THEN Waiting(row)
            ELSE FrontOfLine(row, ev.capacity - Taken(row, invites))
  IN /\ ~ev.deleted /\ ev.status = "open"
     /\ up # {}
     /\ row' = Move(row, up, "attending")
     /\ logged' = Log(logged, up, "attending")
     /\ UNCHANGED <<ev, invites, regular, listed, unmarking, clock, nextId>>

-----------------------------------------------------------------------------
(* Interested, as Discord tells it.                                        *)

\* MarkInterested finds someone it may bring on the list.
ComesOn(u) ==
  /\ row[u].state \notin OnList
  /\ ~(row[u].state = "withdrawn" /\ row[u].interested)
  /\ ev.status = "open"
  /\ Full(u) => ~ev.waitlistDisabled

\* The signal is recorded on the row if there is one, and may bring the person
\* on.  A row that comes back is updated in place: its id and rank stay.
MarkInterested(u) ==
  /\ ~ev.deleted
  /\ ComesOn(u) /\ row[u].state = "none" => nextId <= MaxRows
  /\ LET s == IF Full(u) THEN "waitlisted" ELSE "attending"
     IN IF ~ComesOn(u)
        THEN /\ row' = IF row[u].state = "none" THEN row
                       ELSE [row EXCEPT ![u].interested = TRUE]
             /\ UNCHANGED <<invites, logged, nextId>>
        ELSE /\ invites' = EndHold(invites, u)
             /\ logged' = [logged EXCEPT ![u] = s]
             /\ IF row[u].state = "none"
                THEN row' = Fresh(row, u, s, nextId, TRUE) /\ nextId' = nextId + 1
                ELSE /\ row' = [row EXCEPT ![u].state = s, ![u].at = clock,
                                           ![u].interested = TRUE]
                     /\ nextId' = nextId
  /\ listed' = [listed EXCEPT ![u] =
                  IF row[u].state = "none" /\ ~ComesOn(u) THEN "unseen" ELSE "yes"]
  /\ UNCHANGED <<ev, regular, unmarking, clock>>

\* The first transaction of MarkNotInterested clears the flag.
ClearInterest(u) ==
  /\ u \notin unmarking
  /\ row' = IF row[u].state = "none" THEN row ELSE [row EXCEPT ![u].interested = FALSE]
  /\ unmarking' = IF row[u].state \in {"none", "withdrawn"} THEN unmarking
                  ELSE unmarking \cup {u}
  /\ listed' = [listed EXCEPT ![u] = "no"]
  /\ UNCHANGED <<ev, invites, regular, logged, clock, nextId>>

\* Its second is a Leave of its own, which finds whatever is there by then.
LeaveUnmarked(u) ==
  /\ u \in unmarking
  /\ unmarking' = unmarking \ {u}
  /\ IF ev.deleted \/ row[u].state \in {"none", "withdrawn"}
     THEN UNCHANGED <<row, logged>>
     ELSE Withdraw(u)
  /\ UNCHANGED <<ev, invites, regular, listed, clock, nextId>>

\* The process stops between the two.
Restart ==
  /\ unmarking # {}
  /\ unmarking' = {}
  /\ UNCHANGED <<ev, row, invites, regular, logged, listed, clock, nextId>>

-----------------------------------------------------------------------------
(* Regulars, and the next date of a recurring event.                       *)

MakeRegular(u) ==
  /\ regular[u] # "regular"
  /\ regular' = [regular EXCEPT ![u] = "regular"]
  /\ UNCHANGED <<ev, row, invites, logged, listed, unmarking, clock, nextId>>

EndRegular(u) ==
  /\ regular[u] = "regular"
  /\ regular' = [regular EXCEPT ![u] = "stopped"]
  /\ UNCHANGED <<ev, row, invites, logged, listed, unmarking, clock, nextId>>

\* The host of a recurring event is made a regular once; one who stopped stays
\* stopped.
WithHostRegular ==
  IF Recurring /\ regular[Host] = "never"
  THEN [regular EXCEPT ![Host] = "regular"] ELSE regular

\* At boot, and when an edit makes the event repeat.
MakeHostRegular ==
  /\ WithHostRegular # regular
  /\ regular' = WithHostRegular
  /\ UNCHANGED <<ev, row, invites, logged, listed, unmarking, clock, nextId>>

\* The next date: signups reopen, reserves expire, everyone is withdrawn and
\* the regulars are put back on as new rows, one after the other.
RollOverOccurrence ==
  LET reg   == WithHostRegular
      seats == {u \in Users : reg[u] = "regular"}
      on    == {u \in Users : row[u].state \notin {"none", "withdrawn"}}
  IN /\ Recurring /\ ~ev.deleted
     /\ nextId + Cardinality(seats) <= MaxRows + 1
     /\ ev' = [ev EXCEPT !.status = "open"]
     /\ invites' = [i \in DOMAIN invites |-> [invites[i] EXCEPT !.live = FALSE]]
     /\ regular' = reg
     /\ logged' = Log(Log(logged, on, "withdrawn"), seats, "attending")
     /\ \E ids \in [seats -> nextId..(nextId + Cardinality(seats) - 1)] :
          /\ \A u, v \in seats : u # v => ids[u] # ids[v]
          /\ row' = [u \in Users |->
                       IF u \in seats
                       THEN [state |-> "attending", rank |-> 0, at |-> clock,
                             id |-> ids[u], interested |-> row[u].interested]
                       ELSE Move(row, on, "withdrawn")[u]]
     /\ nextId' = nextId + Cardinality(seats)
     /\ UNCHANGED <<listed, unmarking, clock>>

Tick ==
  /\ clock < MaxClock
  /\ clock' = clock + 1
  /\ UNCHANGED <<ev, row, invites, regular, logged, listed, unmarking, nextId>>

Next ==
  \/ \E u \in Users : Join(u) \/ Leave(u) \/ MarkMaybe(u) \/ GiveAPlace(u)
  \/ \E u \in Users, s \in {"attending", "maybe", "waitlisted"} : PlaceOnList(u, s)
  \/ \E u \in Users, to \in 1..Cardinality(Users) : MoveInWaitlist(u, to)
  \/ \E u \in Invitees, kind \in {"place", "pass"} : RecordInvite(u, kind)
  \/ \E i \in DOMAIN invites : SetInviteDelivery(i)
  \/ \E u \in Users : GiveBackHeldPlace(u)
  \/ \E e \in Edits : UpdateEvent(e)
  \/ DeleteEvent
  \/ PromoteToFillCapacity
  \/ \E u \in Fans : MarkInterested(u) \/ ClearInterest(u) \/ LeaveUnmarked(u)
  \/ Restart
  \/ \E u \in Standbys : MakeRegular(u) \/ EndRegular(u)
  \/ MakeHostRegular
  \/ RollOverOccurrence
  \/ Tick

Spec == Init /\ [][Next]_vars
-----------------------------------------------------------------------------
(* Properties.                                                             *)

\* What a person may be kept is kept once: however invites, answers, failed
\* deliveries and rollovers interleave, at most one invite per person is live
\* (RecordInvite: "One held place per person").
OneHoldPerPerson ==
  \A i, j \in DOMAIN invites :
    invites[i].live /\ invites[j].live /\ invites[i].user = invites[j].user => i = j

\* The log tells the roster: the last move logged for a person is where they
\* stand, promotions caused by somebody else's move included.
LogTellsTheRoster == \A u \in Users : logged[u] = row[u].state

\* The line is one order: of two people waiting exactly one is ahead, so every
\* query of waitlistOrder names the same next person, also within one second.
OneLine ==
  \A u, v \in Waiting(row) : u # v => (Ahead(row, u, v) <=> ~Ahead(row, v, u))

\* What Discord's list said last is on the person's row whatever rebuilt the
\* row since, unless the signal came when there was no row to keep it.
InterestIsKept ==
  \A u \in Users : row[u].state # "none" /\ listed[u] # "unseen" =>
    (row[u].interested <=> listed[u] = "yes")

\* Nobody moves up past somebody: whoever goes from the line to going, other
\* than by an organizer's pick, leaves nobody waiting who was ahead of them.
MovesUpInOrder ==
  [][\A u \in Waiting(row) :
       row'[u].state = "attending" /\ ~GiveAPlace(u) /\ ~PlaceOnList(u, "attending")
       => \A v \in AheadOf(row, u) : v \notin Waiting(row')]_vars

\* Only an organizer, a pass or a new date takes the event past its limit: in
\* any other step in which the places taken grow, they end within it.
LimitHolds ==
  [][/\ Taken(row', invites') > Taken(row, invites)
     /\ ev' = ev /\ ev.capacity > 0
     /\ ~RollOverOccurrence
     /\ \A u \in Users : ~GiveAPlace(u) /\ ~PlaceOnList(u, "attending")
     /\ \A u \in Users : HasHold(invites, u, "pass") => ~Join(u) /\ ~MarkInterested(u)
     => Taken(row', invites') <= ev.capacity]_vars

\* Everyone who comes into the line comes in behind everyone already in it.
JoinsTheBack ==
  \A u \in Waiting(row') \ Waiting(row) :
    \A v \in Waiting(row) \cap Waiting(row') : Ahead(row', v, u)

\* Every way into the line but an Interested signal for somebody with an old
\* row joins its back, organizers' moves of the line included.
NewcomersJoinTheBack ==
  [][(\A u \in Fans : row[u].state # "none" => ~MarkInterested(u)) => JoinsTheBack]_vars

\* No place stands free with somebody waiting.
NoIdlePlace ==
  \/ Waiting(row) = {}
  \/ ev.capacity > 0 /\ Taken(row, invites) >= ev.capacity

\* Someone counted twice: on the list with a place still held for them.
CountedTwice == \E u \in Users : row[u].state \in OnList /\ HasHold(invites, u, "place")

\* No roster move leaves a place idle that was not: each freed place is given
\* in the same transaction.  Left out are an edit of the settings, which
\* promotes in its next call, people counted twice, and a pass recorded over
\* the person's own held place, which frees it and promotes nobody.
FreedPlaceIsGiven ==
  [][/\ NoIdlePlace /\ ~CountedTwice /\ ev' = ev
     /\ \A u \in Invitees : HasHold(invites, u, "place") => ~RecordInvite(u, "pass")
     => NoIdlePlace']_vars

\* Nobody loses a place or their spot in line by what anybody else does except
\* an organizer placing them or the date passing; an edit of the limit demotes
\* nobody.
NobodyIsBumped ==
  [][\A u \in Users :
       \/ row[u].state \notin OnList
       \/ row'[u].state \in {row[u].state, "attending"}
       \/ Leave(u) \/ LeaveUnmarked(u) \/ MarkMaybe(u)
       \/ \E s \in {"maybe", "waitlisted"} : PlaceOnList(u, s)
       \/ RollOverOccurrence]_vars

-----------------------------------------------------------------------------
(* What comments in the code say of every step, and the code does not keep. *)

\* waitlistorder.go: "Anyone joining the line after a move has rank 0 and waits
\* behind every ranked person ... Rejoining is a new row, so it starts at rank
\* 0 too."
EveryoneJoinsBehindTheRanked ==
  [][\A u \in Waiting(row') \ Waiting(row) :
       \A v \in Waiting(row) \cap Waiting(row') : row[v].rank # 0 => Ahead(row', v, u)]_vars

\* holds.go: a hold that "an organizer releasing it" ends "gives it back, and
\* the next person waiting moves up into it".
ReleasedPlaceIsGiven ==
  [][NoIdlePlace /\ ~CountedTwice /\ ev' = ev => NoIdlePlace']_vars
=============================================================================
