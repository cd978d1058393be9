---------------------------- MODULE RosterProofs ----------------------------
(***************************************************************************)
(* What holds of the roster for every set of people and every setting, and *)
(* not only on the instances TLC explores.                                 *)
(***************************************************************************)
EXTENDS Roster, FiniteSetTheorems, SequenceTheorems, TLAPS

-----------------------------------------------------------------------------
(* What the operators on rows, log and invites return.                     *)

\* Moving people keeps every row a row.
LEMMA MoveType ==
  ASSUME NEW r \in [Users -> Row], NEW P, NEW s \in State
  PROVE  Move(r, P, s) \in [Users -> Row]
  BY DEF Move, Row

\* Logging moves keeps the log a log of states.
LEMMA LogType ==
  ASSUME NEW l \in [Users -> State], NEW P, NEW s \in State
  PROVE  Log(l, P, s) \in [Users -> State]
  BY DEF Log

\* A new row is a row.
LEMMA FreshType ==
  ASSUME NEW r \in [Users -> Row], NEW u \in Users, NEW s \in State,
         NEW id \in Nat, NEW interested \in BOOLEAN, clock \in Nat
  PROVE  Fresh(r, u, s, id, interested) \in [Users -> Row]
  BY DEF Fresh, Row

\* Ending someone's reserves keeps the invites invites.
LEMMA EndHoldType ==
  ASSUME NEW inv \in Seq(Invite), NEW u
  PROVE  EndHold(inv, u) \in Seq(Invite)
  <1>1. \A i \in DOMAIN inv : inv[i] \in Invite
    BY ElementOfSeq, LenProperties
  <1>2. \A i \in DOMAIN inv :
          (IF inv[i].user = u THEN [inv[i] EXCEPT !.live = FALSE] ELSE inv[i]) \in Invite
    BY <1>1 DEF Invite
  <1> QED
    BY <1>2, LenProperties, SeqDef DEF EndHold

\* Only people waiting move up.
LEMMA NextUpWaits ==
  ASSUME NEW r, NEW inv
  PROVE  NextUp(r, inv) \subseteq Waiting(r)
  BY DEF NextUp, FrontOfLine

\* Whoever waits or goes is one of finitely many.
LEMMA FiniteLine ==
  ASSUME NEW S \in SUBSET Users
  PROVE  IsFiniteSet(S) /\ Cardinality(S) \in Nat
  BY FS_Subset, FS_CardinalityType, RosterAssumption

-----------------------------------------------------------------------------
(* Types.                                                                  *)

\* Withdraw leaves rows and log well typed.
LEMMA WithdrawType ==
  ASSUME TypeOK, NEW u \in Users, Withdraw(u)
  PROVE  row' \in [Users -> Row] /\ logged' \in [Users -> State]
  <1> DEFINE gone == Move(row, {u}, "withdrawn")
             up   == IF row[u].state = "attending" THEN NextUp(gone, invites) ELSE {}
             left == [logged EXCEPT ![u] = "withdrawn"]
  <1>1. gone \in [Users -> Row] /\ left \in [Users -> State]
    BY MoveType DEF TypeOK, State
  <1>2. row' = Move(gone, up, "attending") /\ logged' = Log(left, up, "attending")
    BY DEF Withdraw
  <1> HIDE DEF gone, up, left
  <1> QED
    BY <1>1, <1>2, MoveType, LogType DEF State

\* Every step keeps the type invariant.
LEMMA TypeStep ==
  ASSUME TypeOK, [Next]_vars
  PROVE  TypeOK'
  <1> USE RosterAssumption
  <1>1. ASSUME NEW u \in Users, Join(u)
        PROVE  TypeOK'
    <2> DEFINE s == IF Full(u) THEN "waitlisted" ELSE "attending"
    <2>1. row' = Fresh(row, u, s, nextId, row[u].interested)
      BY <1>1 DEF Join
    <2>2. row' \in [Users -> Row]
      BY <2>1, FreshType DEF TypeOK, Row, State
    <2>3. invites' \in Seq(Invite)
      BY <1>1, EndHoldType DEF Join, TypeOK
    <2> QED
      BY <1>1, <2>2, <2>3 DEF Join, TypeOK, State
  <1>2. ASSUME NEW u \in Users, Leave(u)
        PROVE  TypeOK'
    BY <1>2, WithdrawType DEF Leave, TypeOK
  <1>3. ASSUME NEW u \in Users, MarkMaybe(u)
        PROVE  TypeOK'
    <2> DEFINE inv == EndHold(invites, u)
               up1 == IF HasReserve(invites, u) THEN NextUp(row, inv) ELSE {}
               r1  == Move(row, up1, "attending")
               l1  == Log(logged, up1, "attending")
               r2  == Move(r1, {u}, "maybe")
               up2 == IF row[u].state = "attending" THEN NextUp(r2, inv) ELSE {}
               l2  == Log(l1, up2, "attending")
    <2>1. invites' \in Seq(Invite)
      BY <1>3, EndHoldType DEF MarkMaybe, TypeOK
    <2>2. r1 \in [Users -> Row] /\ l1 \in [Users -> State]
      BY MoveType, LogType DEF TypeOK, State
    <2>3. Move(r2, up2, "attending") \in [Users -> Row] /\ l2 \in [Users -> State]
      <3> HIDE DEF r1, l1, up2
      <3>1. r2 \in [Users -> Row]
        BY <2>2, MoveType DEF State
      <3> QED
        BY <2>2, <3>1, MoveType, LogType DEF State
    <2>4. CASE row[u].state = "maybe"
      <3>1. row' = r1 /\ logged' = l1 /\ nextId' = nextId
        BY <1>3, <2>4 DEF MarkMaybe, OnList
      <3>2. UNCHANGED <<ev, regular, listed, unmarking, clock>>
        BY <1>3 DEF MarkMaybe
      <3> HIDE DEF r1, l1
      <3> QED
        BY <2>1, <2>2, <3>1, <3>2 DEF TypeOK
    <2>5. CASE row[u].state \in OnList
      <3>1. /\ row' = Move(r2, up2, "attending")
            /\ logged' = [l2 EXCEPT ![u] = "maybe"]
            /\ nextId' = nextId
        BY <1>3, <2>5 DEF MarkMaybe, OnList
      <3>2. row' \in [Users -> Row]
        BY <2>3, <3>1
      <3>3. logged' \in [Users -> State]
        <4> HIDE DEF l2
        <4> QED BY <2>3, <3>1 DEF State
      <3> QED
        BY <1>3, <2>1, <3>1, <3>2, <3>3 DEF MarkMaybe, TypeOK
    <2>6. CASE row[u].state \notin OnList \cup {"maybe"}
      <3>1. /\ row' = Fresh(r1, u, "maybe", nextId, row[u].interested)
            /\ logged' = [l1 EXCEPT ![u] = "maybe"]
            /\ nextId' = nextId + 1
        BY <1>3, <2>6 DEF MarkMaybe, OnList
      <3>2. row' \in [Users -> Row] /\ logged' \in [Users -> State]
        <4> HIDE DEF r1, l1
        <4>1. row[u].interested \in BOOLEAN
          BY DEF TypeOK, Row
        <4> QED BY <2>2, <3>1, <4>1, FreshType DEF State, TypeOK
      <3> QED
        BY <1>3, <2>1, <3>1, <3>2 DEF MarkMaybe, TypeOK
    <2> QED
      BY <2>4, <2>5, <2>6
  <1>4. ASSUME NEW u \in Users, GiveAPlace(u)
        PROVE  TypeOK'
    <2>1. row' \in [Users -> Row]
      BY <1>4, MoveType DEF GiveAPlace, TypeOK, State
    <2> QED
      BY <1>4, <2>1 DEF GiveAPlace, TypeOK, State
  <1>5. ASSUME NEW u \in Users, NEW s \in {"attending", "maybe", "waitlisted"},
               PlaceOnList(u, s)
        PROVE  TypeOK'
    <2> DEFINE from == row[u].state
               inv  == EndHold(invites, u)
               keep == from \in {"attending", "waitlisted", "maybe"} /\ s # "waitlisted"
               r1   == IF keep THEN Move(row, {u}, s)
                       ELSE Fresh(row, u, s, nextId, row[u].interested)
               up   == IF from = "attending" \/ (HasReserve(invites, u) /\ s # "attending")
                       THEN NextUp(r1, inv) ELSE {}
               l1   == [logged EXCEPT ![u] = s]
    <2>1. /\ invites' = inv
          /\ row' = Move(r1, up, "attending")
          /\ logged' = Log(l1, up, "attending")
          /\ nextId' = IF keep THEN nextId ELSE nextId + 1
          /\ UNCHANGED <<ev, regular, listed, unmarking, clock>>
      BY <1>5 DEF PlaceOnList
    <2>2. inv \in Seq(Invite)
      BY EndHoldType DEF TypeOK
    <2>3. Fresh(row, u, s, nextId, row[u].interested) \in [Users -> Row]
      BY FreshType DEF TypeOK, State, Row
    <2>4. Move(row, {u}, s) \in [Users -> Row]
      BY MoveType DEF TypeOK, State
    <2>5. r1 \in [Users -> Row] /\ l1 \in [Users -> State]
      BY <2>3, <2>4 DEF TypeOK, State
    <2>6. row' \in [Users -> Row] /\ logged' \in [Users -> State]
      <3> HIDE DEF r1, l1, up
      <3> QED BY <2>1, <2>5, MoveType, LogType DEF State
    <2>7. nextId' \in Nat
      BY <2>1 DEF TypeOK
    <2> HIDE DEF inv, r1, up, l1
    <2> QED
      BY <2>1, <2>2, <2>6, <2>7 DEF TypeOK
  <1>6. ASSUME NEW u \in Users, NEW to \in 1..Cardinality(Users), MoveInWaitlist(u, to)
        PROVE  TypeOK'
    <2>1. \A v \in Users : PlaceWithout(u, v) \in Nat
      <3>1. \A v \in Users : AheadOf(row, v) \ {u} \in SUBSET Users
        BY DEF AheadOf, Waiting
      <3> QED BY <3>1, FiniteLine DEF PlaceWithout
    <2>2. row' \in [Users -> Row]
      <3> DEFINE rank(v) == IF v = u THEN to
                            ELSE IF PlaceWithout(u, v) < to THEN PlaceWithout(u, v)
                            ELSE PlaceWithout(u, v) + 1
      <3>1. to \in Nat
        BY FiniteLine
      <3>2. \A v \in Users : rank(v) \in Nat
        BY <2>1, <3>1
      <3>3. row' = [v \in Users |-> IF v \notin Waiting(row) THEN row[v]
                                    ELSE [row[v] EXCEPT !.rank = rank(v)]]
        BY <1>6 DEF MoveInWaitlist
      <3> HIDE DEF rank
      <3>4. \A v \in Users : [row[v] EXCEPT !.rank = rank(v)] \in Row
        BY <3>2 DEF TypeOK, Row
      <3> QED
        BY <3>3, <3>4 DEF TypeOK
    <2> QED
      BY <1>6, <2>2 DEF MoveInWaitlist, TypeOK, State
  <1>7. ASSUME NEW u \in Invitees, NEW kind \in {"place", "pass"}, RecordInvite(u, kind)
        PROVE  TypeOK'
    <2>1. EndHold(invites, u) \in Seq(Invite)
      BY EndHoldType DEF TypeOK
    <2>2. [user |-> u, kind |-> kind, live |-> TRUE, delivered |-> TRUE] \in Invite
      BY DEF Invite
    <2>3. invites' \in Seq(Invite)
      BY <1>7, <2>1, <2>2, AppendProperties DEF RecordInvite
    <2> QED
      BY <1>7, <2>3 DEF RecordInvite, TypeOK
  <1>8. ASSUME NEW i \in DOMAIN invites, SetInviteDelivery(i)
        PROVE  TypeOK'
    <2> DEFINE inv == [invites EXCEPT ![i].delivered = FALSE, ![i].live = FALSE]
               up  == IF invites[i].live THEN NextUp(row, inv) ELSE {}
    <2>1. inv \in Seq(Invite)
      <3>1. invites \in Seq(Invite) /\ i \in 1..Len(invites)
        BY LenProperties DEF TypeOK
      <3>2. invites[i] \in Invite
        BY <3>1, ElementOfSeq
      <3>3. [invites[i] EXCEPT !.delivered = FALSE, !.live = FALSE] \in Invite
        BY <3>2 DEF Invite
      <3>4. inv = [invites EXCEPT ![i] =
                     [invites[i] EXCEPT !.delivered = FALSE, !.live = FALSE]]
        BY <3>1
      <3> QED BY <3>1, <3>3, <3>4, ExceptSeq
    <2>2. row' \in [Users -> Row] /\ logged' \in [Users -> State]
      BY <1>8, MoveType, LogType DEF SetInviteDelivery, TypeOK, State
    <2> QED
      BY <1>8, <2>1, <2>2 DEF SetInviteDelivery, TypeOK
  <1>9. ASSUME NEW u \in Users, GiveBackHeldPlace(u)
        PROVE  TypeOK'
    <2>1. invites' \in Seq(Invite)
      BY <1>9, EndHoldType DEF GiveBackHeldPlace, TypeOK
    <2>2. row' \in [Users -> Row] /\ logged' \in [Users -> State]
      BY <1>9, MoveType, LogType DEF GiveBackHeldPlace, TypeOK, State
    <2> QED
      BY <1>9, <2>1, <2>2 DEF GiveBackHeldPlace, TypeOK
  <1>10. ASSUME NEW e \in Edits, UpdateEvent(e)
         PROVE  TypeOK'
    BY <1>10 DEF UpdateEvent, TypeOK, Edits, Settings, Status
  <1>11. ASSUME DeleteEvent
         PROVE  TypeOK'
    BY <1>11 DEF DeleteEvent, TypeOK, Settings
  <1>12. ASSUME PromoteToFillCapacity
         PROVE  TypeOK'
    <2>1. row' \in [Users -> Row] /\ logged' \in [Users -> State]
      BY <1>12, MoveType, LogType DEF PromoteToFillCapacity, TypeOK, State
    <2> QED
      BY <1>12, <2>1 DEF PromoteToFillCapacity, TypeOK
  <1>13. ASSUME NEW u \in Users, MarkInterested(u)
         PROVE  TypeOK'
    <2> DEFINE s == IF Full(u) THEN "waitlisted" ELSE "attending"
    <2>1. listed' \in [Users -> {"no", "yes", "unseen"}]
      BY <1>13 DEF MarkInterested, TypeOK
    <2>2. CASE ~ComesOn(u)
      <3>1. UNCHANGED <<ev, invites, regular, logged, unmarking, clock, nextId>>
        BY <1>13, <2>2 DEF MarkInterested
      <3>2. \/ row' = row
            \/ row' = [row EXCEPT ![u].interested = TRUE]
        BY <1>13, <2>2 DEF MarkInterested
      <3>3. [row[u] EXCEPT !.interested = TRUE] \in Row
        BY DEF TypeOK, Row
      <3>4. row' \in [Users -> Row]
        BY <3>2, <3>3 DEF TypeOK
      <3> QED
        BY <2>1, <3>1, <3>4 DEF TypeOK
    <2>3. CASE ComesOn(u)
      <3>1. invites' \in Seq(Invite) /\ logged' \in [Users -> State] /\ nextId' \in Nat
        <4>1. /\ invites' = EndHold(invites, u)
              /\ logged' = [logged EXCEPT ![u] = s]
              /\ nextId' \in {nextId, nextId + 1}
          BY <1>13, <2>3 DEF MarkInterested
        <4>2. s \in State
          BY DEF State
        <4> HIDE DEF s
        <4> QED BY <4>1, <4>2, EndHoldType DEF TypeOK
      <3>2. CASE row[u].state = "none"
        <4>1. row' = Fresh(row, u, s, nextId, TRUE)
          BY <1>13, <2>3, <3>2 DEF MarkInterested
        <4>2. row' \in [Users -> Row]
          BY <4>1, FreshType DEF TypeOK, State
        <4> QED BY <1>13, <2>1, <3>1, <4>2 DEF MarkInterested, TypeOK
      <3>3. CASE row[u].state # "none"
        <4>1. row' = [row EXCEPT ![u].state = s, ![u].at = clock, ![u].interested = TRUE]
          BY <1>13, <2>3, <3>3 DEF MarkInterested
        <4>2. row' \in [Users -> Row]
          <5>1. s \in State
            BY DEF State
          <5> HIDE DEF s
          <5>2. [row[u] EXCEPT !.state = s, !.at = clock, !.interested = TRUE] \in Row
            BY <5>1 DEF TypeOK, Row
          <5>3. row' = [row EXCEPT ![u] =
                          [row[u] EXCEPT !.state = s, !.at = clock, !.interested = TRUE]]
            BY Zenon, <4>1 DEF TypeOK
          <5> QED BY <5>2, <5>3 DEF TypeOK
        <4> QED BY <1>13, <2>1, <3>1, <4>2 DEF MarkInterested, TypeOK
      <3> QED BY <3>2, <3>3
    <2> QED
      BY <2>2, <2>3
  <1>14. ASSUME NEW u \in Users, ClearInterest(u)
         PROVE  TypeOK'
    <2> DEFINE q == [row[u] EXCEPT !.interested = FALSE]
    <2>a. row \in [Users -> Row] /\ q \in Row
      BY DEF TypeOK, Row
    <2> HIDE DEF q
    <2>b. row' = row \/ row' = [row EXCEPT ![u] = q]
      BY <1>14, <2>a DEF ClearInterest, q
    <2>1. row' \in [Users -> Row]
      BY <2>a, <2>b
    <2> QED
      BY <1>14, <2>1 DEF ClearInterest, TypeOK
  <1>15. ASSUME NEW u \in Users, LeaveUnmarked(u)
         PROVE  TypeOK'
    <2>1. row' \in [Users -> Row] /\ logged' \in [Users -> State]
      BY <1>15, WithdrawType DEF LeaveUnmarked, TypeOK
    <2> QED
      BY <1>15, <2>1 DEF LeaveUnmarked, TypeOK
  <1>16. ASSUME Restart
         PROVE  TypeOK'
    BY <1>16 DEF Restart, TypeOK
  <1>17. ASSUME NEW u \in Users, MakeRegular(u) \/ EndRegular(u)
         PROVE  TypeOK'
    BY <1>17 DEF MakeRegular, EndRegular, TypeOK
  <1>18. WithHostRegular \in [Users -> {"never", "regular", "stopped"}]
    BY DEF WithHostRegular, TypeOK
  <1>19. ASSUME MakeHostRegular
         PROVE  TypeOK'
    BY <1>18, <1>19 DEF MakeHostRegular, TypeOK
  <1>20. ASSUME RollOverOccurrence
         PROVE  TypeOK'
    <2> DEFINE reg   == WithHostRegular
               seats == {u \in Users : reg[u] = "regular"}
               on    == {u \in Users : row[u].state \notin {"none", "withdrawn"}}
    <2>1. Cardinality(seats) \in Nat
      BY FiniteLine
    <2>2. ev' \in Settings
      BY <1>20 DEF RollOverOccurrence, TypeOK, Settings, Status
    <2>3. invites' \in Seq(Invite)
      <3>1. \A i \in DOMAIN invites : [invites[i] EXCEPT !.live = FALSE] \in Invite
        <4>1. \A i \in DOMAIN invites : invites[i] \in Invite
          BY ElementOfSeq, LenProperties DEF TypeOK
        <4> QED BY <4>1 DEF Invite
      <3>2. invites' = [i \in DOMAIN invites |-> [invites[i] EXCEPT !.live = FALSE]]
        BY <1>20 DEF RollOverOccurrence
      <3>3. invites' \in [1..Len(invites) -> Invite] /\ Len(invites) \in Nat
        BY <3>1, <3>2, LenProperties DEF TypeOK
      <3> QED BY <3>3, SeqDef
    <2>4. logged' \in [Users -> State]
      <3>1. Log(logged, on, "withdrawn") \in [Users -> State]
        BY LogType DEF TypeOK, State
      <3>2. logged' = Log(Log(logged, on, "withdrawn"), seats, "attending")
        BY <1>20 DEF RollOverOccurrence
      <3> QED BY <3>1, <3>2, LogType DEF State
    <2>5. row' \in [Users -> Row]
      <3>1. Move(row, on, "withdrawn") \in [Users -> Row]
        BY MoveType DEF TypeOK, State
      <3>2. PICK ids \in [seats -> nextId..(nextId + Cardinality(seats) - 1)] :
              row' = [u \in Users |->
                       IF u \in seats
                       THEN [state |-> "attending", rank |-> 0, at |-> clock,
                             id |-> ids[u], interested |-> row[u].interested]
                       ELSE Move(row, on, "withdrawn")[u]]
        BY <1>20 DEF RollOverOccurrence
      <3>3. \A u \in seats : ids[u] \in Nat
        <4> HIDE DEF seats
        <4> QED BY <2>1 DEF TypeOK
      <3>4. \A u \in seats :
              [state |-> "attending", rank |-> 0, at |-> clock,
               id |-> ids[u], interested |-> row[u].interested] \in Row
        BY <3>3 DEF TypeOK, Row, State
      <3> HIDE DEF seats, on
      <3> QED BY <3>1, <3>2, <3>4
    <2>6. nextId' \in Nat /\ regular' = reg
      <3>1. nextId' = nextId + Cardinality(seats) /\ regular' = reg
        BY <1>20 DEF RollOverOccurrence
      <3> HIDE DEF seats
      <3> QED BY <2>1, <3>1 DEF TypeOK
    <2> QED
      BY <1>18, <1>20, <2>2, <2>3, <2>4, <2>5, <2>6 DEF RollOverOccurrence, TypeOK
  <1>21. ASSUME Tick
         PROVE  TypeOK'
    BY <1>21 DEF Tick, TypeOK
  <1>22. ASSUME UNCHANGED vars
         PROVE  TypeOK'
    BY <1>22 DEF vars, TypeOK
  <1> QED
    BY <1>1, <1>2, <1>3, <1>4, <1>5, <1>6, <1>7, <1>8, <1>9, <1>10, <1>11, <1>12, <1>13,
       <1>14, <1>15, <1>16, <1>17, <1>19, <1>20, <1>21, <1>22
       DEF Next

\* Whatever anybody does, in any order, rows, invites, regulars and log stay
\* what the schema says they are.
THEOREM TypeCorrect == Spec => []TypeOK
  <1>1. Init => TypeOK
    <2> SUFFICES ASSUME Init PROVE TypeOK
      OBVIOUS
    <2>1. ev \in Settings
      BY RosterAssumption DEF Init, Edits, Settings, Status
    <2>2. row \in [Users -> Row]
      BY DEF Init, Row, NoRow, State
    <2>3. invites \in Seq(Invite)
      BY EmptySeq DEF Init
    <2> QED
      BY <2>1, <2>2, <2>3 DEF Init, TypeOK, State
  <1>2. TypeOK /\ [Next]_vars => TypeOK'
    BY TypeStep
  <1> QED
    BY <1>1, <1>2, PTL DEF Spec
-----------------------------------------------------------------------------
(* The log.                                                                *)

\* The log l says of everyone the state the rows r have.
Tells(l, r) == \A u \in Users : l[u] = r[u].state

\* Moving people and logging the move go together.
LEMMA MoveIsLogged ==
  ASSUME NEW l \in [Users -> State], NEW r \in [Users -> Row], Tells(l, r), NEW P, NEW s
  PROVE  Tells(Log(l, P, s), Move(r, P, s))
  <1>1. \A u \in Users : [r[u] EXCEPT !.state = s].state = s
    BY DEF Row
  <1> QED
    BY <1>1 DEF Tells, Log, Move

\* So do a move of one person and its entry.
LEMMA OneMoveIsLogged ==
  ASSUME NEW l \in [Users -> State], NEW r \in [Users -> Row], Tells(l, r),
         NEW u \in Users, NEW s
  PROVE  Tells([l EXCEPT ![u] = s], Move(r, {u}, s))
  <1>1. \A v \in Users : [r[v] EXCEPT !.state = s].state = s
    BY DEF Row
  <1> QED
    BY <1>1 DEF Tells, Move

\* And a new row and its entry.
LEMMA FreshIsLogged ==
  ASSUME NEW l \in [Users -> State], NEW r \in [Users -> Row], Tells(l, r),
         NEW u \in Users, NEW s, NEW id, NEW interested
  PROVE  Tells([l EXCEPT ![u] = s], Fresh(r, u, s, id, interested))
  BY DEF Tells, Fresh

\* A withdrawal and the promotion it causes are both logged.
LEMMA WithdrawIsLogged ==
  ASSUME TypeOK, Tells(logged, row), NEW u \in Users, Withdraw(u)
  PROVE  Tells(logged, row)'
  <1> DEFINE gone == Move(row, {u}, "withdrawn")
             up   == IF row[u].state = "attending" THEN NextUp(gone, invites) ELSE {}
             left == [logged EXCEPT ![u] = "withdrawn"]
  <1>1. gone \in [Users -> Row] /\ left \in [Users -> State]
    BY MoveType DEF TypeOK, State
  <1>2. Tells(left, gone)
    BY OneMoveIsLogged DEF TypeOK
  <1>3. row' = Move(gone, up, "attending") /\ logged' = Log(left, up, "attending")
    BY DEF Withdraw
  <1> HIDE DEF gone, up, left
  <1>4. Tells(Log(left, up, "attending"), Move(gone, up, "attending"))
    BY <1>1, <1>2, MoveIsLogged
  <1> QED
    BY <1>3, <1>4 DEF Tells

\* Every step logs every move it makes, of whoever it moves.
LEMMA LogStep ==
  ASSUME TypeOK, LogTellsTheRoster, [Next]_vars
  PROVE  LogTellsTheRoster'
  <1> SUFFICES Tells(logged', row')
    BY DEF Tells, LogTellsTheRoster
  <1> USE RosterAssumption
  <1>t. /\ Tells(logged, row)
        /\ logged \in [Users -> State] /\ row \in [Users -> Row]
    BY DEF Tells, LogTellsTheRoster, TypeOK
  <1>1. ASSUME NEW u \in Users, Join(u)
        PROVE  Tells(logged', row')
    BY <1>t, <1>1, FreshIsLogged DEF Join
  <1>2. ASSUME NEW u \in Users, Leave(u) \/ LeaveUnmarked(u)
        PROVE  Tells(logged', row')
    <2>1. Withdraw(u) \/ UNCHANGED <<row, logged>>
      BY <1>2 DEF Leave, LeaveUnmarked
    <2> QED
      BY <1>t, <2>1, WithdrawIsLogged DEF Tells
  <1>3. ASSUME NEW u \in Users, MarkMaybe(u)
        PROVE  Tells(logged', row')
    <2> DEFINE inv == EndHold(invites, u)
               up1 == IF HasReserve(invites, u) THEN NextUp(row, inv) ELSE {}
               r1  == Move(row, up1, "attending")
               l1  == Log(logged, up1, "attending")
               r2  == Move(r1, {u}, "maybe")
               up2 == IF row[u].state = "attending" THEN NextUp(r2, inv) ELSE {}
               l2  == Log(l1, up2, "attending")
    <2>1. r1 \in [Users -> Row] /\ l1 \in [Users -> State] /\ Tells(l1, r1)
      BY <1>t, MoveType, LogType, MoveIsLogged DEF State
    <2>2. CASE row[u].state = "maybe"
      BY <1>3, <2>1, <2>2 DEF MarkMaybe, OnList
    <2>3. CASE row[u].state \in OnList
      <3>1. row' = Move(r2, up2, "attending") /\ logged' = [l2 EXCEPT ![u] = "maybe"]
        BY <1>3, <2>3 DEF MarkMaybe, OnList
      <3>2. up2 \subseteq Waiting(r2)
        BY NextUpWaits
      <3> HIDE DEF r1, l1, up2
      <3>3. r2 \in [Users -> Row] /\ r2[u].state = "maybe"
        <4>1. r2 \in [Users -> Row]
          BY <2>1, MoveType DEF State
        <4>2. r2[u] = [r1[u] EXCEPT !.state = "maybe"]
          BY DEF Move
        <4>3. r1[u] \in Row
          BY <2>1
        <4> QED BY <4>1, <4>2, <4>3 DEF Row
      <3>4. u \notin up2
        BY <3>2, <3>3 DEF Waiting
      <3>5. \A v \in Users \ {u} : r2[v] = r1[v]
        BY DEF Move
      <3>6. \A v \in Users : Move(r2, up2, "attending")[v].state =
                               IF v \in up2 THEN "attending" ELSE r2[v].state
        BY <3>3 DEF Move, Row
      <3>7. \A v \in Users : l2[v] = IF v \in up2 THEN "attending" ELSE l1[v]
        BY DEF Log
      <3>8. l2 \in [Users -> State]
        BY <2>1, LogType DEF State
      <3> HIDE DEF r2, l2
      <3> QED
        BY <2>1, <3>1, <3>3, <3>4, <3>5, <3>6, <3>7, <3>8 DEF Tells
    <2>4. CASE row[u].state \notin OnList \cup {"maybe"}
      <3>1. /\ row' = Fresh(r1, u, "maybe", nextId, row[u].interested)
            /\ logged' = [l1 EXCEPT ![u] = "maybe"]
        BY <1>3, <2>4 DEF MarkMaybe, OnList
      <3> HIDE DEF r1, l1
      <3> QED
        BY <2>1, <3>1, FreshIsLogged
    <2> QED
      BY <2>2, <2>3, <2>4
  <1>4. ASSUME NEW u \in Users, GiveAPlace(u)
        PROVE  Tells(logged', row')
    BY <1>t, <1>4, OneMoveIsLogged DEF GiveAPlace
  <1>5. ASSUME NEW u \in Users, NEW s \in {"attending", "maybe", "waitlisted"},
               PlaceOnList(u, s)
        PROVE  Tells(logged', row')
    <2> DEFINE from == row[u].state
               keep == from \in {"attending", "waitlisted", "maybe"} /\ s # "waitlisted"
               r1   == IF keep THEN Move(row, {u}, s)
                       ELSE Fresh(row, u, s, nextId, row[u].interested)
               l1   == [logged EXCEPT ![u] = s]
    <2>1. PICK up : row' = Move(r1, up, "attending") /\ logged' = Log(l1, up, "attending")
      BY <1>5 DEF PlaceOnList
    <2>2. Tells(l1, r1)
      BY <1>t, OneMoveIsLogged, FreshIsLogged
    <2>3. r1 \in [Users -> Row] /\ l1 \in [Users -> State]
      <3>1. /\ Move(row, {u}, s) \in [Users -> Row]
            /\ Fresh(row, u, s, nextId, row[u].interested) \in [Users -> Row]
        BY MoveType, FreshType DEF TypeOK, State, Row
      <3> QED BY <1>t, <3>1 DEF State
    <2> HIDE DEF r1, l1
    <2> QED
      BY <2>1, <2>2, <2>3, MoveIsLogged
  <1>6. ASSUME NEW u \in Users, NEW to \in 1..Cardinality(Users), MoveInWaitlist(u, to)
        PROVE  Tells(logged', row')
    <2>1. row[u].state = "waitlisted" /\ logged' = [logged EXCEPT ![u] = "waitlisted"]
      BY <1>6 DEF MoveInWaitlist, Waiting
    <2>2. \A v \in Users : row'[v].state = row[v].state
      BY <1>t, <1>6 DEF MoveInWaitlist, Row
    <2> QED
      BY <1>t, <2>1, <2>2 DEF Tells
  <1>7. ASSUME NEW i \in DOMAIN invites, SetInviteDelivery(i)
        PROVE  Tells(logged', row')
    BY <1>t, <1>7, MoveIsLogged DEF SetInviteDelivery
  <1>8. ASSUME NEW u \in Users, GiveBackHeldPlace(u)
        PROVE  Tells(logged', row')
    BY <1>t, <1>8, MoveIsLogged DEF GiveBackHeldPlace
  <1>9. ASSUME PromoteToFillCapacity
        PROVE  Tells(logged', row')
    BY <1>t, <1>9, MoveIsLogged DEF PromoteToFillCapacity
  <1>10. ASSUME NEW u \in Users, MarkInterested(u)
         PROVE  Tells(logged', row')
    <2> DEFINE s == IF Full(u) THEN "waitlisted" ELSE "attending"
    <2>1. CASE ~ComesOn(u)
      <3>1. logged' = logged /\ (row' = row \/ row' = [row EXCEPT ![u].interested = TRUE])
        BY <1>10, <2>1 DEF MarkInterested
      <3>2. [row[u] EXCEPT !.interested = TRUE].state = row[u].state
        BY <1>t DEF Row
      <3> QED
        BY <1>t, <3>1, <3>2 DEF Tells
    <2>2. CASE ComesOn(u)
      <3>1. logged' = [logged EXCEPT ![u] = s]
        BY <1>10, <2>2 DEF MarkInterested
      <3>2. \/ row' = Fresh(row, u, s, nextId, TRUE)
            \/ row' = [row EXCEPT ![u].state = s, ![u].at = clock, ![u].interested = TRUE]
        BY <1>10, <2>2 DEF MarkInterested
      <3> HIDE DEF s
      <3>3. [row[u] EXCEPT !.state = s, !.at = clock, !.interested = TRUE].state = s
        BY <1>t DEF Row
      <3>4. CASE row' = Fresh(row, u, s, nextId, TRUE)
        BY <1>t, <3>1, <3>4, FreshIsLogged
      <3>5. CASE row' = [row EXCEPT ![u].state = s, ![u].at = clock, ![u].interested = TRUE]
        <4>1. row' = [row EXCEPT ![u] =
                        [row[u] EXCEPT !.state = s, !.at = clock, !.interested = TRUE]]
          BY <1>t, <3>5
        <4> QED BY <1>t, <3>1, <3>3, <4>1 DEF Tells
      <3> QED
        BY <3>2, <3>4, <3>5
    <2> QED
      BY <2>1, <2>2
  <1>11. ASSUME NEW u \in Users, ClearInterest(u)
         PROVE  Tells(logged', row')
    <2>1. [row[u] EXCEPT !.interested = FALSE].state = row[u].state
      BY <1>t DEF Row
    <2> QED
      BY <1>t, <1>11, <2>1 DEF ClearInterest, Tells
  <1>12. ASSUME RollOverOccurrence
         PROVE  Tells(logged', row')
    <2> DEFINE seats == {u \in Users : WithHostRegular[u] = "regular"}
               on    == {u \in Users : row[u].state \notin {"none", "withdrawn"}}
    <2>1. logged' = Log(Log(logged, on, "withdrawn"), seats, "attending")
      BY <1>12 DEF RollOverOccurrence
    <2>2. \A u \in seats : row'[u].state = "attending"
      BY <1>12 DEF RollOverOccurrence
    <2>3. \A u \in Users \ seats : row'[u] = Move(row, on, "withdrawn")[u]
      BY <1>12 DEF RollOverOccurrence
    <2>4. Tells(Log(logged, on, "withdrawn"), Move(row, on, "withdrawn"))
      BY <1>t, MoveIsLogged
    <2> HIDE DEF seats, on
    <2> QED
      BY <2>1, <2>2, <2>3, <2>4 DEF Tells, Log
  <1>13. ASSUME UNCHANGED <<row, logged>>
         PROVE  Tells(logged', row')
    BY <1>t, <1>13 DEF Tells
  <1> QED
    BY <1>1, <1>2, <1>3, <1>4, <1>5, <1>6, <1>7, <1>8, <1>9, <1>10, <1>11, <1>12, <1>13
       DEF Next, vars, RecordInvite, UpdateEvent, DeleteEvent, Restart, MakeRegular,
           EndRegular, MakeHostRegular, Tick

\* For any set of people and any settings: the last move logged for a person
\* is where they stand.
THEOREM LogIsTheRoster == Spec => []LogTellsTheRoster
  <1>1. Init => LogTellsTheRoster
    BY DEF Init, LogTellsTheRoster, NoRow
  <1>2. TypeOK /\ LogTellsTheRoster /\ [Next]_vars => LogTellsTheRoster'
    BY LogStep
  <1> QED
    BY <1>1, <1>2, TypeCorrect, PTL DEF Spec
-----------------------------------------------------------------------------
(* Reserves.                                                               *)

Single(inv) == \A i, j \in DOMAIN inv :
                 inv[i].live /\ inv[j].live /\ inv[i].user = inv[j].user => i = j

\* Ending u's reserves leaves u none and nobody more.
LEMMA EndHoldLeavesNone ==
  ASSUME NEW inv \in Seq(Invite), Single(inv), NEW u
  PROVE  /\ DOMAIN EndHold(inv, u) = DOMAIN inv
         /\ Single(EndHold(inv, u))
         /\ \A i \in DOMAIN inv :
              EndHold(inv, u)[i].user = u => ~EndHold(inv, u)[i].live
  <1> DEFINE E == EndHold(inv, u)
  <1>1. \A i \in DOMAIN inv : inv[i] \in Invite
    BY ElementOfSeq, LenProperties
  <1>2. DOMAIN E = DOMAIN inv
    BY DEF EndHold
  <1>3. \A i \in DOMAIN inv : /\ E[i].user = inv[i].user
                              /\ E[i].live <=> inv[i].live /\ inv[i].user # u
    <2> SUFFICES ASSUME NEW i \in DOMAIN inv
                 PROVE  /\ E[i].user = inv[i].user
                        /\ E[i].live <=> inv[i].live /\ inv[i].user # u
      OBVIOUS
    <2>1. E[i] = IF inv[i].user = u THEN [inv[i] EXCEPT !.live = FALSE] ELSE inv[i]
      BY DEF EndHold
    <2>2. /\ [inv[i] EXCEPT !.live = FALSE].user = inv[i].user
          /\ [inv[i] EXCEPT !.live = FALSE].live = FALSE
      BY <1>1 DEF Invite
    <2> HIDE DEF E
    <2>3. CASE inv[i].user = u
      <3>1. E[i] = [inv[i] EXCEPT !.live = FALSE]
        BY <2>1, <2>3
      <3>2. E[i].user = inv[i].user /\ E[i].live = FALSE
        BY <2>2, <3>1
      <3> QED BY <2>3, <3>2
    <2>4. CASE inv[i].user # u
      BY <2>1, <2>4
    <2> QED BY <2>3, <2>4
  <1> HIDE DEF E
  <1>4. Single(E)
    BY <1>2, <1>3 DEF Single
  <1>5. \A i \in DOMAIN inv : E[i].user = u => ~E[i].live
    BY <1>3
  <1> QED
    BY <1>2, <1>4, <1>5 DEF E

\* No step gives a person a second live reserve.
LEMMA HoldStep ==
  ASSUME TypeOK, OneHoldPerPerson, [Next]_vars
  PROVE  OneHoldPerPerson'
  <1> SUFFICES Single(invites')
    BY DEF Single, OneHoldPerPerson
  <1>t. Single(invites) /\ invites \in Seq(Invite)
    BY DEF Single, OneHoldPerPerson, TypeOK
  <1>0. \A i \in DOMAIN invites : invites[i] \in Invite
    BY <1>t, ElementOfSeq, LenProperties
  <1>1. ASSUME NEW u \in Users, invites' = EndHold(invites, u)
        PROVE  Single(invites')
    BY <1>t, <1>1, EndHoldLeavesNone
  <1>2. ASSUME NEW u \in Invitees, NEW kind \in {"place", "pass"}, RecordInvite(u, kind)
        PROVE  Single(invites')
    <2> DEFINE E == EndHold(invites, u)
               x == [user |-> u, kind |-> kind, live |-> TRUE, delivered |-> TRUE]
    <2>1. E \in Seq(Invite)
      BY <1>t, EndHoldType
    <2>2. x \in Invite
      BY RosterAssumption DEF Invite
    <2>3. Single(E) /\ \A i \in DOMAIN E : E[i].user = u => ~E[i].live
      BY <1>t, EndHoldLeavesNone
    <2>4. invites' = Append(E, x) /\ x.user = u
      BY <1>2 DEF RecordInvite
    <2> HIDE DEF E, x
    <2>5. /\ invites' \in Seq(Invite)
          /\ Len(invites') = Len(E) + 1
          /\ \A i \in 1..Len(E) : invites'[i] = E[i]
          /\ invites'[Len(E) + 1] = x
      BY <2>1, <2>2, <2>4, AppendProperties
    <2>6. DOMAIN invites' = 1..(Len(E) + 1) /\ DOMAIN E = 1..Len(E) /\ Len(E) \in Nat
      BY <2>1, <2>5, LenProperties
    <2> QED
      BY <2>3, <2>4, <2>5, <2>6 DEF Single
  <1>3. ASSUME NEW i \in DOMAIN invites, SetInviteDelivery(i)
        PROVE  Single(invites')
    <2> DEFINE inv == [invites EXCEPT ![i].delivered = FALSE, ![i].live = FALSE]
    <2>1. DOMAIN inv = DOMAIN invites /\ invites' = inv
      BY <1>3 DEF SetInviteDelivery
    <2>2. inv[i] = [invites[i] EXCEPT !.delivered = FALSE, !.live = FALSE]
      OBVIOUS
    <2>3. inv[i].live = FALSE
      BY <1>0, <2>2 DEF Invite
    <2>4. \A j \in DOMAIN invites \ {i} : inv[j] = invites[j]
      OBVIOUS
    <2> HIDE DEF inv
    <2> QED
      BY <1>t, <2>1, <2>3, <2>4 DEF Single
  <1>4. ASSUME RollOverOccurrence
        PROVE  Single(invites')
    <2>1. invites' = [i \in DOMAIN invites |-> [invites[i] EXCEPT !.live = FALSE]]
      BY <1>4 DEF RollOverOccurrence
    <2>2. \A i \in DOMAIN invites : [invites[i] EXCEPT !.live = FALSE].live = FALSE
      BY <1>0 DEF Invite
    <2> QED
      BY <2>1, <2>2 DEF Single
  <1>5. ASSUME UNCHANGED invites
        PROVE  Single(invites')
    BY <1>t, <1>5
  <1>6. ASSUME NEW u \in Users, MarkInterested(u)
        PROVE  Single(invites')
    <2>1. invites' = invites \/ invites' = EndHold(invites, u)
      BY <1>6 DEF MarkInterested
    <2> QED
      BY <1>1, <1>5, <2>1
  <1> USE RosterAssumption
  <1>7. ASSUME NEW u \in Users,
               \/ Join(u) \/ MarkMaybe(u) \/ GiveBackHeldPlace(u)
               \/ \E s \in {"attending", "maybe", "waitlisted"} : PlaceOnList(u, s)
        PROVE  Single(invites')
    <2>1. invites' = EndHold(invites, u)
      BY <1>7 DEF Join, MarkMaybe, GiveBackHeldPlace, PlaceOnList
    <2> QED
      BY <1>1, <2>1
  <1> QED
    BY <1>2, <1>3, <1>4, <1>5, <1>6, <1>7
       DEF Next, vars, Leave, GiveAPlace, MoveInWaitlist, UpdateEvent, DeleteEvent,
           PromoteToFillCapacity, ClearInterest, LeaveUnmarked, Restart, MakeRegular,
           EndRegular, MakeHostRegular, Tick

\* For any set of people and any number of invites: no person has two live
\* reserves.
THEOREM OneHold == Spec => []OneHoldPerPerson
  <1>1. Init => OneHoldPerPerson
    BY DEF Init, OneHoldPerPerson
  <1>2. TypeOK /\ OneHoldPerPerson /\ [Next]_vars => OneHoldPerPerson'
    BY HoldStep
  <1> QED
    BY <1>1, <1>2, TypeCorrect, PTL DEF Spec
-----------------------------------------------------------------------------
(* The line.                                                               *)

\* Rows have ids of their own, below the next one.  OneLine is not inductive:
\* without this a new row could tie with an old one.
OwnIds(r, n) ==
  /\ \A u \in Users : r[u].state # "none" => r[u].id < n
  /\ \A u, v \in Users :
       u # v /\ r[u].state # "none" /\ r[v].state # "none" => r[u].id # r[v].id

RowsHaveTheirIds == OwnIds(row, nextId)

\* Moving people who have rows gives nobody an id.
LEMMA MoveKeepsIds ==
  ASSUME NEW r \in [Users -> Row], NEW n \in Nat, OwnIds(r, n), NEW P, NEW s,
         \A u \in Users : u \in P => r[u].state # "none"
  PROVE  OwnIds(Move(r, P, s), n)
  <1>1. \A u \in Users : /\ Move(r, P, s)[u].id = r[u].id
                         /\ Move(r, P, s)[u].state # "none" => r[u].state # "none"
    <2>1. \A u \in Users : [r[u] EXCEPT !.state = s].id = r[u].id
      BY DEF Row
    <2> QED BY <2>1 DEF Move
  <1> QED
    BY <1>1 DEF OwnIds

\* A new row takes the next id.
LEMMA FreshTakesTheNextId ==
  ASSUME NEW r \in [Users -> Row], NEW n \in Nat, OwnIds(r, n),
         NEW u \in Users, NEW s, NEW interested
  PROVE  OwnIds(Fresh(r, u, s, n, interested), n + 1)
  <1> DEFINE f == Fresh(r, u, s, n, interested)
  <1>1. f[u].id = n /\ \A v \in Users \ {u} : f[v] = r[v]
    BY DEF Fresh
  <1>2. \A v \in Users : r[v].id \in Nat
    BY DEF Row
  <1> HIDE DEF f
  <1>3. \A v \in Users : f[v].state # "none" => f[v].id < n + 1
    BY <1>1, <1>2 DEF OwnIds
  <1>4. \A v, w \in Users :
          v # w /\ f[v].state # "none" /\ f[w].state # "none" => f[v].id # f[w].id
    BY <1>1, <1>2 DEF OwnIds
  <1> QED
    BY <1>3, <1>4 DEF OwnIds, f

\* A withdrawal and the promotion it causes move people who have rows.
LEMMA WithdrawKeepsIds ==
  ASSUME TypeOK, RowsHaveTheirIds, NEW u \in Users, row[u].state # "none", Withdraw(u)
  PROVE  OwnIds(row', nextId)
  <1> DEFINE gone == Move(row, {u}, "withdrawn")
             up   == IF row[u].state = "attending" THEN NextUp(gone, invites) ELSE {}
  <1>1. gone \in [Users -> Row] /\ OwnIds(gone, nextId)
    BY MoveType, MoveKeepsIds DEF TypeOK, State, RowsHaveTheirIds
  <1>2. up \subseteq Waiting(gone)
    BY NextUpWaits
  <1>3. row' = Move(gone, up, "attending")
    BY DEF Withdraw
  <1> HIDE DEF gone, up
  <1>4. \A v \in Users : v \in up => gone[v].state # "none"
    BY <1>2 DEF Waiting
  <1> QED
    BY <1>1, <1>3, <1>4, MoveKeepsIds DEF TypeOK

\* Every step keeps ids apart.
LEMMA IdsStep ==
  ASSUME TypeOK, RowsHaveTheirIds, [Next]_vars
  PROVE  RowsHaveTheirIds'
  <1> SUFFICES OwnIds(row', nextId')
    BY DEF RowsHaveTheirIds, OwnIds
  <1> USE RosterAssumption
  <1>t. OwnIds(row, nextId) /\ row \in [Users -> Row] /\ nextId \in Nat
    BY DEF RowsHaveTheirIds, TypeOK
  <1>w. ASSUME NEW inv, NEW r
        PROVE  \A v \in Users : v \in NextUp(r, inv) => r[v].state # "none"
    BY NextUpWaits DEF Waiting
  <1>1. ASSUME NEW u \in Users, Join(u)
        PROVE  OwnIds(row', nextId')
    BY <1>t, <1>1, FreshTakesTheNextId DEF Join
  <1>2. ASSUME NEW u \in Users, Leave(u) \/ LeaveUnmarked(u)
        PROVE  OwnIds(row', nextId')
    <2>1. nextId' = nextId /\ (row' = row \/ (row[u].state # "none" /\ Withdraw(u)))
      BY <1>2 DEF Leave, LeaveUnmarked
    <2> QED
      BY <1>t, <2>1, WithdrawKeepsIds DEF RowsHaveTheirIds
  <1>3. ASSUME NEW u \in Users, MarkMaybe(u)
        PROVE  OwnIds(row', nextId')
    <2> DEFINE inv == EndHold(invites, u)
               up1 == IF HasReserve(invites, u) THEN NextUp(row, inv) ELSE {}
               r1  == Move(row, up1, "attending")
               r2  == Move(r1, {u}, "maybe")
               up2 == IF row[u].state = "attending" THEN NextUp(r2, inv) ELSE {}
    <2>1. r1 \in [Users -> Row] /\ OwnIds(r1, nextId)
      <3>1. \A v \in Users : v \in up1 => row[v].state # "none"
        BY <1>w
      <3> HIDE DEF up1
      <3> QED BY <1>t, <3>1, MoveType, MoveKeepsIds DEF State
    <2>2. CASE row[u].state = "maybe"
      BY <1>3, <2>1, <2>2 DEF MarkMaybe, OnList
    <2>3. CASE row[u].state \in OnList
      <3>1. row' = Move(r2, up2, "attending") /\ nextId' = nextId
        BY <1>3, <2>3 DEF MarkMaybe, OnList
      <3>2. \A v \in Users : v \in up2 => r2[v].state # "none"
        BY <1>w
      <3>3. r1[u].state # "none"
        <4>1. r1[u] = IF u \in up1 THEN [row[u] EXCEPT !.state = "attending"] ELSE row[u]
          BY DEF Move
        <4>2. [row[u] EXCEPT !.state = "attending"].state = "attending"
          BY <1>t DEF Row
        <4> HIDE DEF r1, up1
        <4> QED BY <2>3, <4>1, <4>2 DEF OnList
      <3> HIDE DEF r1, up2
      <3>4. r2 \in [Users -> Row] /\ OwnIds(r2, nextId)
        BY <1>t, <2>1, <3>3, MoveType, MoveKeepsIds DEF State
      <3> HIDE DEF r2
      <3> QED
        BY <1>t, <3>1, <3>2, <3>4, MoveKeepsIds
    <2>4. CASE row[u].state \notin OnList \cup {"maybe"}
      <3>1. /\ row' = Fresh(r1, u, "maybe", nextId, row[u].interested)
            /\ nextId' = nextId + 1
        BY <1>3, <2>4 DEF MarkMaybe, OnList
      <3> HIDE DEF r1
      <3> QED
        BY <1>t, <2>1, <3>1, FreshTakesTheNextId
    <2> QED
      BY <2>2, <2>3, <2>4
  <1>4. ASSUME NEW u \in Users, GiveAPlace(u)
        PROVE  OwnIds(row', nextId')
    BY <1>t, <1>4, MoveKeepsIds DEF GiveAPlace
  <1>5. ASSUME NEW u \in Users, NEW s \in {"attending", "maybe", "waitlisted"},
               PlaceOnList(u, s)
        PROVE  OwnIds(row', nextId')
    <2> DEFINE from == row[u].state
               keep == from \in {"attending", "waitlisted", "maybe"} /\ s # "waitlisted"
               r1   == IF keep THEN Move(row, {u}, s)
                       ELSE Fresh(row, u, s, nextId, row[u].interested)
               inv  == EndHold(invites, u)
               up   == IF from = "attending" \/ (HasReserve(invites, u) /\ s # "attending")
                       THEN NextUp(r1, inv) ELSE {}
    <2>1. /\ row' = Move(r1, up, "attending")
          /\ nextId' = IF keep THEN nextId ELSE nextId + 1
      BY <1>5 DEF PlaceOnList
    <2>2. \A v \in Users : v \in up => r1[v].state # "none"
      BY <1>w
    <2>3. OwnIds(r1, nextId')
      <3>1. CASE keep
        BY <1>t, <2>1, <3>1, MoveKeepsIds
      <3>2. CASE ~keep
        BY <1>t, <2>1, <3>2, FreshTakesTheNextId
      <3> QED BY <3>1, <3>2
    <2>4. r1 \in [Users -> Row]
      <3>1. /\ Move(row, {u}, s) \in [Users -> Row]
            /\ Fresh(row, u, s, nextId, row[u].interested) \in [Users -> Row]
        BY MoveType, FreshType DEF TypeOK, State, Row
      <3> QED BY <3>1
    <2>5. nextId' \in Nat
      BY <1>t, <2>1
    <2> HIDE DEF r1, up
    <2> QED
      BY <2>1, <2>2, <2>3, <2>4, <2>5, MoveKeepsIds
  <1>6. ASSUME NEW u \in Users, NEW to \in 1..Cardinality(Users), MoveInWaitlist(u, to)
        PROVE  OwnIds(row', nextId')
    <2>1. \A v \in Users : row'[v].state = row[v].state /\ row'[v].id = row[v].id
      BY <1>t, <1>6 DEF MoveInWaitlist, Row
    <2>2. nextId' = nextId
      BY <1>6 DEF MoveInWaitlist
    <2> QED
      BY <1>t, <2>1, <2>2 DEF OwnIds
  <1>7. ASSUME NEW i \in DOMAIN invites, SetInviteDelivery(i)
        PROVE  OwnIds(row', nextId')
    <2>1. PICK inv : /\ row' = Move(row, IF invites[i].live THEN NextUp(row, inv) ELSE {},
                                    "attending")
                     /\ nextId' = nextId
      BY <1>7 DEF SetInviteDelivery
    <2> QED
      BY <1>t, <1>w, <2>1, MoveKeepsIds
  <1>8. ASSUME NEW u \in Users, GiveBackHeldPlace(u)
        PROVE  OwnIds(row', nextId')
    BY <1>t, <1>w, <1>8, MoveKeepsIds DEF GiveBackHeldPlace
  <1>9. ASSUME PromoteToFillCapacity
        PROVE  OwnIds(row', nextId')
    <2>1. PICK up \in SUBSET Waiting(row) : row' = Move(row, up, "attending")
      BY <1>9 DEF PromoteToFillCapacity, FrontOfLine
    <2>2. \A v \in Users : v \in up => row[v].state # "none"
      BY DEF Waiting
    <2> QED
      BY <1>t, <1>9, <2>1, <2>2, MoveKeepsIds DEF PromoteToFillCapacity
  <1>10. ASSUME NEW u \in Users, MarkInterested(u)
         PROVE  OwnIds(row', nextId')
    <2>1. CASE ComesOn(u) /\ row[u].state = "none"
      <3>1. nextId' = nextId + 1 /\ \E s : row' = Fresh(row, u, s, nextId, TRUE)
        BY <1>10, <2>1 DEF MarkInterested
      <3> QED BY <1>t, <3>1, FreshTakesTheNextId
    <2>2. CASE ~(ComesOn(u) /\ row[u].state = "none")
      <3>1. nextId' = nextId
        BY <1>10, <2>2 DEF MarkInterested
      <3>2. \A v \in Users : /\ row'[v].id = row[v].id
                             /\ row'[v].state # "none" => row[v].state # "none"
        <4>1. \/ row' = row
              \/ row[u].state # "none" /\ \E q \in Row :
                   q.id = row[u].id /\ row' = [row EXCEPT ![u] = q]
          <5> DEFINE s == IF Full(u) THEN "waitlisted" ELSE "attending"
                     q1 == [row[u] EXCEPT !.interested = TRUE]
                     q2 == [row[u] EXCEPT !.state = s, !.at = clock, !.interested = TRUE]
          <5>1. s \in State
            BY DEF State
          <5>2. q1 \in Row /\ q1.id = row[u].id
            BY <1>t DEF Row
          <5> HIDE DEF s
          <5>3. q2 \in Row /\ q2.id = row[u].id
            BY <1>t, <5>1 DEF Row, TypeOK
          <5>4. \/ row' = row
                \/ row[u].state # "none" /\ row' = [row EXCEPT ![u] = q1]
                \/ row[u].state # "none" /\ row' = [row EXCEPT ![u] = q2]
            BY <1>10, <2>2 DEF MarkInterested, s
          <5> HIDE DEF q1, q2
          <5> QED BY <5>2, <5>3, <5>4
        <4> QED BY <1>t, <4>1
      <3> QED
        BY <1>t, <3>1, <3>2 DEF OwnIds
    <2> QED
      BY <2>1, <2>2
  <1>11. ASSUME NEW u \in Users, ClearInterest(u)
         PROVE  OwnIds(row', nextId')
    <2>1. /\ [row[u] EXCEPT !.interested = FALSE].id = row[u].id
          /\ [row[u] EXCEPT !.interested = FALSE].state = row[u].state
      BY <1>t DEF Row
    <2>2. \A v \in Users : row'[v].state = row[v].state /\ row'[v].id = row[v].id
      BY <1>t, <1>11, <2>1 DEF ClearInterest
    <2>3. nextId' = nextId
      BY <1>11 DEF ClearInterest
    <2> QED
      BY <1>t, <2>2, <2>3 DEF OwnIds
  <1>12. ASSUME RollOverOccurrence
         PROVE  OwnIds(row', nextId')
    <2> DEFINE seats == {u \in Users : WithHostRegular[u] = "regular"}
               on    == {u \in Users : row[u].state \notin {"none", "withdrawn"}}
               gone  == Move(row, on, "withdrawn")
               c     == Cardinality(seats)
    <2>1. PICK ids \in [seats -> nextId..(nextId + c - 1)] :
            /\ \A u, v \in seats : u # v => ids[u] # ids[v]
            /\ row' = [u \in Users |->
                         IF u \in seats
                         THEN [state |-> "attending", rank |-> 0, at |-> clock,
                               id |-> ids[u], interested |-> row[u].interested]
                         ELSE gone[u]]
      BY <1>12 DEF RollOverOccurrence
    <2>2. nextId' = nextId + c
      BY <1>12 DEF RollOverOccurrence
    <2>3. c \in Nat
      BY FiniteLine
    <2>4. OwnIds(gone, nextId)
      BY <1>t, MoveKeepsIds
    <2>5. /\ \A u \in seats : row'[u].id = ids[u]
          /\ \A u \in Users \ seats : row'[u] = gone[u]
      BY <2>1
    <2>6. gone \in [Users -> Row]
      BY <1>t, MoveType DEF State
    <2>7. \A u \in Users : gone[u].id \in Nat
      BY <2>6 DEF Row
    <2>8. seats \subseteq Users
      OBVIOUS
    <2> HIDE DEF seats, gone, c
    <2>9. \A u \in seats : ids[u] \in Nat /\ nextId <= ids[u] /\ ids[u] < nextId + c
      BY <1>t, <2>1, <2>3
    <2>10. \A u \in Users : row'[u].state # "none" => row'[u].id < nextId + c
      BY <1>t, <2>3, <2>4, <2>5, <2>7, <2>9 DEF OwnIds
    <2>11. \A u, v \in Users :
            u # v /\ row'[u].state # "none" /\ row'[v].state # "none"
            => row'[u].id # row'[v].id
      BY <1>t, <2>1, <2>3, <2>4, <2>5, <2>7, <2>9 DEF OwnIds
    <2> QED
      BY <2>2, <2>10, <2>11 DEF OwnIds
  <1>13. ASSUME UNCHANGED <<row, nextId>>
         PROVE  OwnIds(row', nextId')
    BY <1>t, <1>13
  <1> QED
    BY <1>1, <1>2, <1>3, <1>4, <1>5, <1>6, <1>7, <1>8, <1>9, <1>10, <1>11, <1>12, <1>13
       DEF Next, vars, RecordInvite, UpdateEvent, DeleteEvent, Restart, MakeRegular,
           EndRegular, MakeHostRegular, Tick

\* For any number of people and moves of the line: of two people waiting
\* exactly one is ahead.
THEOREM LineIsOne == Spec => []OneLine
  <1>1. Init => RowsHaveTheirIds
    BY DEF Init, RowsHaveTheirIds, OwnIds, NoRow
  <1>2. TypeOK /\ RowsHaveTheirIds /\ [Next]_vars => RowsHaveTheirIds'
    BY IdsStep
  <1>3. TypeOK /\ RowsHaveTheirIds => OneLine
    <2> SUFFICES ASSUME TypeOK, RowsHaveTheirIds,
                        NEW u \in Waiting(row), NEW v \in Waiting(row), u # v
                 PROVE  Ahead(row, u, v) <=> ~Ahead(row, v, u)
      BY DEF OneLine
    <2>1. /\ row[u].rank \in Nat /\ row[v].rank \in Nat
          /\ row[u].at \in Nat /\ row[v].at \in Nat
          /\ row[u].id \in Nat /\ row[v].id \in Nat
      BY DEF TypeOK, Row, Waiting
    <2>2. row[u].id # row[v].id
      BY DEF RowsHaveTheirIds, OwnIds, Waiting
    <2> QED
      BY <2>1, <2>2 DEF Ahead
  <1> QED
    BY <1>1, <1>2, <1>3, TypeCorrect, PTL DEF Spec
-----------------------------------------------------------------------------
(* Interest.                                                               *)

\* InterestIsKept is not inductive: a person without a row must not yet be
\* known as listed, or the row a Join inserts for them would be wrong.
InterestHasARow ==
  \A u \in Users : row[u].state = "none" => ~row[u].interested /\ listed[u] # "yes"

InterestInv == InterestIsKept /\ InterestHasARow

\* No row of r is gone in q or remembers another interest there.
SameInterest(r, q) ==
  \A u \in Users : /\ q[u].interested = r[u].interested
                   /\ r[u].state # "none" => q[u].state # "none"

\* People moved to another state keep their mark.
LEMMA MoveSameInterest ==
  ASSUME NEW r \in [Users -> Row], NEW P, NEW s \in State \ {"none"}
  PROVE  SameInterest(r, Move(r, P, s)) /\ Move(r, P, s) \in [Users -> Row]
  <1>1. \A u \in Users : /\ [r[u] EXCEPT !.state = s].interested = r[u].interested
                         /\ [r[u] EXCEPT !.state = s].state # "none"
    BY DEF Row
  <1> QED
    BY <1>1, MoveType DEF Move, SameInterest

\* A row made anew keeps the mark it is given.
LEMMA FreshSameInterest ==
  ASSUME NEW r \in [Users -> Row], NEW u \in Users, NEW s \in State \ {"none"}, NEW id
  PROVE  SameInterest(r, Fresh(r, u, s, id, r[u].interested))
  BY DEF Fresh, SameInterest

\* Two steps that keep every mark keep it together.
LEMMA SameInterestTwice ==
  ASSUME NEW r, NEW q, NEW t, SameInterest(r, q), SameInterest(q, t)
  PROVE  SameInterest(r, t)
  BY DEF SameInterest

\* A step that neither hears from Discord nor forgets what a row knows.
LEMMA SameInterestKeeps ==
  ASSUME TypeOK, InterestInv, SameInterest(row, row'), listed' = listed
  PROVE  InterestInv'
  BY DEF InterestInv, InterestIsKept, InterestHasARow, SameInterest, TypeOK, Row

\* A withdrawal and the promotion it causes forget nothing.
LEMMA WithdrawSameInterest ==
  ASSUME TypeOK, NEW u \in Users, Withdraw(u)
  PROVE  SameInterest(row, row')
  <1> DEFINE gone == Move(row, {u}, "withdrawn")
  <1>1. gone \in [Users -> Row] /\ SameInterest(row, gone)
    BY MoveSameInterest DEF TypeOK, State
  <1>2. PICK up : row' = Move(gone, up, "attending")
    BY DEF Withdraw
  <1> HIDE DEF gone
  <1> QED
    BY <1>1, <1>2, MoveSameInterest, SameInterestTwice DEF State

\* No step, whatever it rebuilds, forgets what Discord said last.
LEMMA InterestStep ==
  ASSUME TypeOK, InterestInv, [Next]_vars
  PROVE  InterestInv'
  <1> USE RosterAssumption
  <1>t. row \in [Users -> Row] /\ listed \in [Users -> {"no", "yes", "unseen"}]
    BY DEF TypeOK
  <1>1. ASSUME NEW u \in Users, Join(u)
        PROVE  InterestInv'
    <2>1. PICK s \in State \ {"none"} : row' = Fresh(row, u, s, nextId, row[u].interested)
      BY <1>1 DEF Join, State
    <2> QED
      BY <1>t, <1>1, <2>1, FreshSameInterest, SameInterestKeeps DEF Join
  <1>2. ASSUME NEW u \in Users, Leave(u) \/ LeaveUnmarked(u)
        PROVE  InterestInv'
    <2>1. listed' = listed /\ (row' = row \/ Withdraw(u))
      BY <1>2 DEF Leave, LeaveUnmarked
    <2>2. SameInterest(row, row')
      BY <2>1, WithdrawSameInterest DEF SameInterest
    <2> QED
      BY <2>1, <2>2, SameInterestKeeps
  <1>3. ASSUME NEW u \in Users, MarkMaybe(u)
        PROVE  InterestInv'
    <2> DEFINE inv == EndHold(invites, u)
               up1 == IF HasReserve(invites, u) THEN NextUp(row, inv) ELSE {}
               r1  == Move(row, up1, "attending")
               r2  == Move(r1, {u}, "maybe")
               up2 == IF row[u].state = "attending" THEN NextUp(r2, inv) ELSE {}
    <2>1. /\ listed' = listed
          /\ \/ row' = r1
             \/ row' = Move(r2, up2, "attending")
             \/ row' = Fresh(r1, u, "maybe", nextId, row[u].interested)
      BY <1>3 DEF MarkMaybe
    <2>2. r1 \in [Users -> Row] /\ SameInterest(row, r1)
      BY <1>t, MoveSameInterest DEF State
    <2> HIDE DEF r1, up2
    <2>3. r2 \in [Users -> Row] /\ SameInterest(row, r2)
      BY <2>2, MoveSameInterest, SameInterestTwice DEF State
    <2>4. SameInterest(row, Fresh(r1, u, "maybe", nextId, row[u].interested))
      <3>1. r1[u].interested = row[u].interested
        BY <2>2 DEF SameInterest
      <3> QED BY <2>2, <3>1, FreshSameInterest, SameInterestTwice DEF State
    <2> HIDE DEF r2
    <2>5. SameInterest(row, Move(r2, up2, "attending"))
      BY <2>3, MoveSameInterest, SameInterestTwice DEF State
    <2> QED
      BY <2>1, <2>2, <2>4, <2>5, SameInterestKeeps
  <1>4. ASSUME NEW u \in Users, GiveAPlace(u)
        PROVE  InterestInv'
    BY <1>t, <1>4, MoveSameInterest, SameInterestKeeps DEF GiveAPlace, State
  <1>5. ASSUME NEW u \in Users, NEW s \in {"attending", "maybe", "waitlisted"},
               PlaceOnList(u, s)
        PROVE  InterestInv'
    <2>1. PICK r1, up : /\ \/ r1 = Move(row, {u}, s)
                           \/ r1 = Fresh(row, u, s, nextId, row[u].interested)
                        /\ row' = Move(r1, up, "attending")
      BY <1>5 DEF PlaceOnList
    <2>s. s \in State \ {"none"}
      BY DEF State
    <2>2. r1 \in [Users -> Row]
      <3>1. row[u].interested \in BOOLEAN /\ clock \in Nat /\ nextId \in Nat
        BY DEF TypeOK, Row
      <3>2. Fresh(row, u, s, nextId, row[u].interested) \in [Users -> Row]
        BY <1>t, <2>s, <3>1, FreshType
      <3>3. Move(row, {u}, s) \in [Users -> Row]
        BY <1>t, <2>s, MoveType
      <3> QED BY <2>1, <3>2, <3>3
    <2>3. SameInterest(row, r1)
      <3>1. SameInterest(row, Fresh(row, u, s, nextId, row[u].interested))
        BY <1>t, <2>s, FreshSameInterest
      <3>2. SameInterest(row, Move(row, {u}, s))
        BY <1>t, <2>s, MoveSameInterest
      <3> QED BY <2>1, <3>1, <3>2
    <2>4. SameInterest(row, row')
      BY <2>1, <2>2, <2>3, MoveSameInterest, SameInterestTwice DEF State
    <2> QED
      BY <1>5, <2>4, SameInterestKeeps DEF PlaceOnList
  <1>6. ASSUME NEW u \in Users, NEW to \in 1..Cardinality(Users), MoveInWaitlist(u, to)
        PROVE  InterestInv'
    <2>1. SameInterest(row, row')
      BY <1>t, <1>6 DEF MoveInWaitlist, Row, SameInterest
    <2> QED
      BY <1>6, <2>1, SameInterestKeeps DEF MoveInWaitlist
  <1>7. ASSUME listed' = listed, NEW P, row' = Move(row, P, "attending")
        PROVE  InterestInv'
    BY <1>t, <1>7, MoveSameInterest, SameInterestKeeps DEF State
  <1>8. ASSUME NEW u \in Users, MarkInterested(u)
        PROVE  InterestInv'
    <2> DEFINE s == IF Full(u) THEN "waitlisted" ELSE "attending"
    <2>1. /\ \A v \in Users \ {u} : row'[v] = row[v] /\ listed'[v] = listed[v]
          /\ listed'[u] = IF row[u].state = "none" /\ ~ComesOn(u) THEN "unseen" ELSE "yes"
      BY <1>t, <1>8 DEF MarkInterested, Fresh
    <2>2. CASE ~ComesOn(u) /\ row[u].state = "none"
      <3>1. row' = row
        BY <1>8, <2>2 DEF MarkInterested
      <3> QED
        BY <2>1, <2>2, <3>1 DEF InterestInv, InterestIsKept, InterestHasARow
    <2>3. CASE ~(~ComesOn(u) /\ row[u].state = "none")
      <3>1. row'[u].interested = TRUE /\ row'[u].state # "none"
        <4> DEFINE q1 == [row[u] EXCEPT !.interested = TRUE]
                   q2 == [row[u] EXCEPT !.state = s, !.at = clock, !.interested = TRUE]
        <4>1. q1.interested = TRUE /\ q1.state = row[u].state
          BY <1>t DEF Row
        <4>2. q2.interested = TRUE /\ q2.state = s /\ s # "none"
          BY <1>t DEF Row
        <4>3. \/ row[u].state # "none" /\ row' = [row EXCEPT ![u] = q1]
              \/ row' = [row EXCEPT ![u] = q2]
              \/ row' = Fresh(row, u, s, nextId, TRUE)
          BY <1>8, <2>3 DEF MarkInterested
        <4> HIDE DEF q1, q2, s
        <4>4. CASE row[u].state # "none" /\ row' = [row EXCEPT ![u] = q1]
          BY <1>t, <4>1, <4>4
        <4>5. CASE row' = [row EXCEPT ![u] = q2]
          BY <1>t, <4>2, <4>5
        <4>6. CASE row' = Fresh(row, u, s, nextId, TRUE)
          BY <1>t, <4>2, <4>6 DEF Fresh
        <4> QED BY <4>3, <4>4, <4>5, <4>6
      <3>2. listed'[u] = "yes"
        BY <2>1, <2>3
      <3> QED
        BY <2>1, <3>1, <3>2 DEF InterestInv, InterestIsKept, InterestHasARow
    <2> QED
      BY <2>2, <2>3
  <1>9. ASSUME NEW u \in Users, ClearInterest(u)
        PROVE  InterestInv'
    <2>1. [row[u] EXCEPT !.interested = FALSE].interested = FALSE
      BY <1>t DEF Row
    <2>2. [row[u] EXCEPT !.interested = FALSE].state = row[u].state
      BY <1>t DEF Row
    <2>3. \A v \in Users \ {u} : row'[v] = row[v] /\ listed'[v] = listed[v]
      BY <1>t, <1>9 DEF ClearInterest
    <2>4. /\ listed'[u] = "no" /\ row'[u].state = row[u].state
          /\ row'[u].interested = FALSE
      BY <1>t, <1>9, <2>1, <2>2 DEF ClearInterest, InterestInv, InterestHasARow, Row
    <2> QED
      BY <2>3, <2>4 DEF InterestInv, InterestIsKept, InterestHasARow
  <1>10. ASSUME RollOverOccurrence
         PROVE  InterestInv'
    <2> DEFINE seats == {u \in Users : WithHostRegular[u] = "regular"}
               on    == {u \in Users : row[u].state \notin {"none", "withdrawn"}}
               gone  == Move(row, on, "withdrawn")
    <2>1. /\ \A u \in seats : /\ row'[u].interested = row[u].interested
                              /\ row'[u].state = "attending"
          /\ \A u \in Users \ seats : row'[u] = gone[u]
      BY <1>10 DEF RollOverOccurrence
    <2>2. SameInterest(row, gone)
      BY <1>t, MoveSameInterest DEF State
    <2> HIDE DEF seats, gone
    <2>3. SameInterest(row, row')
      BY <2>1, <2>2 DEF SameInterest
    <2> QED
      BY <1>10, <2>3, SameInterestKeeps DEF RollOverOccurrence
  <1>11. ASSUME UNCHANGED <<row, listed>>
         PROVE  InterestInv'
    BY <1>11 DEF InterestInv, InterestIsKept, InterestHasARow
  <1>12. ASSUME \/ \E i \in DOMAIN invites : SetInviteDelivery(i)
                \/ \E u \in Users : GiveBackHeldPlace(u)
                \/ PromoteToFillCapacity
         PROVE  InterestInv'
    <2>1. listed' = listed /\ \E P : row' = Move(row, P, "attending")
      BY <1>12 DEF SetInviteDelivery, GiveBackHeldPlace, PromoteToFillCapacity
    <2> QED
      BY <1>7, <2>1
  <1> QED
    BY <1>1, <1>2, <1>3, <1>4, <1>5, <1>6, <1>8, <1>9, <1>10, <1>11, <1>12
       DEF Next, vars, RecordInvite, UpdateEvent, DeleteEvent, Restart, MakeRegular,
           EndRegular, MakeHostRegular, Tick

\* For any set of people: the row knows what Discord's list said last, however
\* often it was deleted and inserted again since.
THEOREM InterestIsRemembered == Spec => []InterestIsKept
  <1>1. Init => InterestInv
    BY DEF Init, InterestInv, InterestIsKept, InterestHasARow, NoRow
  <1>2. TypeOK /\ InterestInv /\ [Next]_vars => InterestInv'
    BY InterestStep
  <1>3. InterestInv => InterestIsKept
    BY DEF InterestInv
  <1> QED
    BY <1>1, <1>2, <1>3, TypeCorrect, PTL DEF Spec
-----------------------------------------------------------------------------
(* The line, and the places, counted.                                      *)

\* Ahead is a strict total order on the line.
LEMMA AheadIsAnOrder ==
  ASSUME NEW r \in [Users -> Row], NEW n, OwnIds(r, n)
  PROVE  \A u, v, w \in Waiting(r) :
           /\ ~Ahead(r, u, u)
           /\ Ahead(r, u, v) /\ Ahead(r, v, w) => Ahead(r, u, w)
           /\ u # v => Ahead(r, u, v) \/ Ahead(r, v, u)
  <1> SUFFICES ASSUME NEW u \in Waiting(r), NEW v \in Waiting(r), NEW w \in Waiting(r)
               PROVE  /\ ~Ahead(r, u, u)
                      /\ Ahead(r, u, v) /\ Ahead(r, v, w) => Ahead(r, u, w)
                      /\ u # v => Ahead(r, u, v) \/ Ahead(r, v, u)
    OBVIOUS
  <1>1. /\ r[u].rank \in Nat /\ r[v].rank \in Nat /\ r[w].rank \in Nat
        /\ r[u].at \in Nat /\ r[v].at \in Nat /\ r[w].at \in Nat
        /\ r[u].id \in Nat /\ r[v].id \in Nat /\ r[w].id \in Nat
    BY DEF Row, Waiting
  <1>2. u # v => r[u].id # r[v].id
    BY DEF OwnIds, Waiting
  <1> QED
    BY <1>1, <1>2 DEF Ahead

\* Who is further back has more people ahead.
LEMMA MoreAhead ==
  ASSUME NEW r \in [Users -> Row], NEW n, OwnIds(r, n),
         NEW u \in Waiting(r), NEW v \in Waiting(r), Ahead(r, u, v)
  PROVE  /\ AheadOf(r, u) \subseteq AheadOf(r, v)
         /\ Cardinality(AheadOf(r, u)) < Cardinality(AheadOf(r, v))
  <1>1. AheadOf(r, u) \subseteq AheadOf(r, v)
    BY AheadIsAnOrder DEF AheadOf
  <1>2. u \in AheadOf(r, v) /\ u \notin AheadOf(r, u)
    BY AheadIsAnOrder DEF AheadOf
  <1>3. AheadOf(r, v) \in SUBSET Users /\ AheadOf(r, u) \in SUBSET Users
    BY DEF AheadOf, Waiting
  <1>4. /\ IsFiniteSet(AheadOf(r, v)) /\ Cardinality(AheadOf(r, v)) \in Nat
        /\ Cardinality(AheadOf(r, u)) \in Nat
    BY <1>3, FiniteLine
  <1>5. /\ Cardinality(AheadOf(r, u)) <= Cardinality(AheadOf(r, v))
        /\ Cardinality(AheadOf(r, u)) # Cardinality(AheadOf(r, v))
    BY <1>1, <1>2, <1>4, FS_Subset
  <1> QED
    BY <1>1, <1>4, <1>5

\* No two people waiting have the same number of people ahead.
LEMMA PlacesApart ==
  ASSUME NEW r \in [Users -> Row], NEW n, OwnIds(r, n), NEW S \in SUBSET Waiting(r), NEW m \in Nat,
         \A u \in S : Cardinality(AheadOf(r, u)) < m
  PROVE  [u \in S |-> Cardinality(AheadOf(r, u))] \in Injection(S, 0..(m - 1))
  <1> DEFINE place == [u \in S |-> Cardinality(AheadOf(r, u))]
  <1>1. ASSUME NEW u \in S
        PROVE  place[u] \in 0..(m - 1)
    <2>1. AheadOf(r, u) \in SUBSET Users
      BY DEF AheadOf, Waiting
    <2> QED
      BY <2>1, FiniteLine
  <1>2. ASSUME NEW u \in S, NEW v \in S, place[u] = place[v]
        PROVE  u = v
    <2>1. Cardinality(AheadOf(r, u)) = Cardinality(AheadOf(r, v))
      BY <1>2
    <2>2. Cardinality(AheadOf(r, u)) \in Nat /\ Cardinality(AheadOf(r, v)) \in Nat
      <3>1. AheadOf(r, v) \in SUBSET Users /\ AheadOf(r, u) \in SUBSET Users
        BY DEF AheadOf, Waiting
      <3> QED
        BY <3>1, FiniteLine
    <2>3. ~Ahead(r, u, v) /\ ~Ahead(r, v, u)
      BY <2>1, <2>2, MoreAhead
    <2> QED
      BY <2>3, AheadIsAnOrder
  <1>3. place \in [S -> 0..(m - 1)]
    BY <1>1
  <1> HIDE DEF place
  <1>4. place \in Injection(S, 0..(m - 1))
    BY <1>2, <1>3 DEF Injection, IsInjective
  <1> QED
    BY <1>4 DEF place

\* The front of the line is as long as asked, or shorter.
LEMMA FrontAtMost ==
  ASSUME NEW r \in [Users -> Row], NEW n, OwnIds(r, n), NEW m \in Nat
  PROVE  Cardinality(FrontOfLine(r, m)) <= m
  <1>1. FrontOfLine(r, m) \in SUBSET Waiting(r)
        /\ \A u \in FrontOfLine(r, m) : Cardinality(AheadOf(r, u)) < m
    BY DEF FrontOfLine
  <1>2. IsFiniteSet(0..(m - 1)) /\ Cardinality(0..(m - 1)) = m
    BY FS_Interval
  <1>3. PICK place : place \in Injection(FrontOfLine(r, m), 0..(m - 1))
    BY <1>1, PlacesApart
  <1> QED
    BY <1>2, <1>3, FS_Injection

\* Somebody is at the front of a line with anybody in it.
LEMMA SomebodyIsFirst ==
  ASSUME NEW r \in [Users -> Row], NEW n, OwnIds(r, n), Waiting(r) # {}
  PROVE  FrontOfLine(r, 1) # {}
  <1> DEFINE W == Waiting(r)
             m == Cardinality(W)
             place == [u \in W |-> Cardinality(AheadOf(r, u))]
  <1>1. W \in SUBSET Users
    BY DEF Waiting
  <1>2. IsFiniteSet(W) /\ m \in Nat /\ m # 0
    BY <1>1, FiniteLine, FS_EmptySet
  <1>3. ASSUME NEW u \in W
        PROVE  Cardinality(AheadOf(r, u)) < m
    <2>1. AheadOf(r, u) \in SUBSET W /\ u \notin AheadOf(r, u)
      BY AheadIsAnOrder DEF AheadOf
    <2>2. Cardinality(AheadOf(r, u)) <= m /\ Cardinality(AheadOf(r, u)) # m
      BY <1>2, <2>1, FS_Subset
    <2>3. Cardinality(AheadOf(r, u)) \in Nat
      BY <1>1, <2>1, FiniteLine
    <2> QED
      BY <1>2, <2>2, <2>3
  <1>4. place \in Injection(W, 0..(m - 1))
    <2> HIDE DEF m
    <2> QED
      BY <1>2, <1>3, PlacesApart
  <1>5. IsFiniteSet(0..(m - 1)) /\ Cardinality(0..(m - 1)) = m
    BY <1>2, FS_Interval
  <1>6. place \in Surjection(W, 0..(m - 1))
    BY <1>4, <1>5, FS_Injection
  <1>7. 0 \in 0..(m - 1)
    BY <1>2
  <1>8. PICK u \in W : place[u] = 0
    BY <1>6, <1>7 DEF Surjection
  <1> QED
    BY <1>8 DEF FrontOfLine

\* Who moves from where to where.
LEMMA MovedIs ==
  ASSUME NEW r \in [Users -> Row], NEW P \in SUBSET Users, NEW s \in State
  PROVE  /\ \A u \in P : Move(r, P, s)[u].state = s
         /\ \A u \in Users \ P : Move(r, P, s)[u] = r[u]
         /\ Going(Move(r, P, s)) = IF s = "attending" THEN Going(r) \cup P ELSE Going(r) \ P
         /\ Waiting(Move(r, P, s)) = IF s = "waitlisted" THEN Waiting(r) \cup P ELSE Waiting(r) \ P
  <1>1. /\ \A u \in P : Move(r, P, s)[u].state = s
        /\ \A u \in Users \ P : Move(r, P, s)[u] = r[u]
    BY DEF Move, Row
  <1> QED
    BY <1>1 DEF Going, Waiting

\* One person moved.
LEMMA MovedOne ==
  ASSUME NEW r \in [Users -> Row], NEW u \in Users, NEW s \in State
  PROVE  /\ Move(r, {u}, s) \in [Users -> Row]
         /\ Move(r, {u}, s)[u].state = s
         /\ \A v \in Users \ {u} : Move(r, {u}, s)[v] = r[v]
  <1> DEFINE q == Move(r, {u}, s)
  <1>1. q = [v \in Users |-> IF v = u THEN [r[v] EXCEPT !.state = s] ELSE r[v]]
    BY DEF Move
  <1>2. [r[u] EXCEPT !.state = s] \in Row /\ [r[u] EXCEPT !.state = s].state = s
    BY DEF Row
  <1> HIDE DEF q
  <1>3. q \in [Users -> Row]
    BY <1>1, <1>2
  <1>4. q[u].state = s
    BY <1>1, <1>2
  <1>5. \A v \in Users \ {u} : q[v] = r[v]
    BY <1>1
  <1> QED
    BY <1>3, <1>4, <1>5 DEF q

\* What a new row changes.
LEMMA FreshIs ==
  ASSUME NEW r \in [Users -> Row], NEW u \in Users, NEW s, NEW id, NEW interested
  PROVE  /\ Fresh(r, u, s, id, interested)[u].state = s
         /\ \A v \in Users \ {u} : Fresh(r, u, s, id, interested)[v] = r[v]
         /\ Going(Fresh(r, u, s, id, interested)) =
              IF s = "attending" THEN Going(r) \cup {u} ELSE Going(r) \ {u}
         /\ Waiting(Fresh(r, u, s, id, interested)) =
              IF s = "waitlisted" THEN Waiting(r) \cup {u} ELSE Waiting(r) \ {u}
  <1>1. /\ Fresh(r, u, s, id, interested)[u].state = s
        /\ \A v \in Users \ {u} : Fresh(r, u, s, id, interested)[v] = r[v]
    BY DEF Fresh
  <1> QED
    BY <1>1 DEF Going, Waiting

\* The next date leaves nobody waiting.
LEMMA NobodyWaitsAfterTheDate ==
  ASSUME TypeOK, RollOverOccurrence
  PROVE  Waiting(row') = {}
  <1> DEFINE seats == {u \in Users : WithHostRegular[u] = "regular"}
             on    == {u \in Users : row[u].state \notin {"none", "withdrawn"}}
  <1>1. /\ \A u \in seats : row'[u].state = "attending"
        /\ \A u \in Users \ seats : row'[u] = Move(row, on, "withdrawn")[u]
    BY DEF RollOverOccurrence
  <1>2. /\ \A u \in on : Move(row, on, "withdrawn")[u].state = "withdrawn"
        /\ \A u \in Users \ on : Move(row, on, "withdrawn")[u] = row[u]
    BY MovedIs DEF TypeOK, State
  <1> HIDE DEF seats
  <1>3. \A u \in Users : row'[u].state # "waitlisted"
    BY <1>1, <1>2
  <1> QED
    BY <1>3 DEF Waiting

\* How many are going and how many places are held are numbers.
LEMMA TakenType ==
  ASSUME NEW r \in [Users -> Row], NEW inv \in Seq(Invite)
  PROVE  /\ IsFiniteSet(Going(r)) /\ IsFiniteSet(HeldIn(inv))
         /\ Cardinality(Going(r)) \in Nat /\ Cardinality(HeldIn(inv)) \in Nat
         /\ Taken(r, inv) = Cardinality(Going(r)) + Cardinality(HeldIn(inv))
         /\ Taken(r, inv) \in Nat
  <1>1. IsFiniteSet(Going(r)) /\ Cardinality(Going(r)) \in Nat
    BY FiniteLine DEF Going
  <1>2. HeldIn(inv) \in SUBSET (1..Len(inv)) /\ Len(inv) \in Nat
    BY LenProperties DEF HeldIn
  <1>3. IsFiniteSet(HeldIn(inv)) /\ Cardinality(HeldIn(inv)) \in Nat
    <2>1. IsFiniteSet(1..Len(inv))
      BY <1>2, FS_Interval
    <2> QED
      BY <1>2, <2>1, FS_Subset, FS_CardinalityType
  <1> QED
    BY <1>1, <1>3 DEF Taken

\* Whoever moves up leaves the line, and nobody joins it.
LEMMA MoveUpAddsNobody ==
  ASSUME NEW r \in [Users -> Row], NEW P
  PROVE  Waiting(Move(r, P, "attending")) \subseteq Waiting(r)
  <1>1. \A v \in Users : [r[v] EXCEPT !.state = "attending"].state = "attending"
    BY DEF Row
  <1> QED
    BY <1>1 DEF Move, Waiting

-----------------------------------------------------------------------------
(* Nobody is bumped.                                                       *)

\* Everyone of S keeps their state from r to q, or goes.
StayOrGo(S, r, q) == \A v \in S : q[v].state \in {r[v].state, "attending"}

\* Moving people up bumps nobody.
LEMMA MoveUpStays ==
  ASSUME NEW r \in [Users -> Row], NEW P
  PROVE  StayOrGo(Users, r, Move(r, P, "attending"))
  BY DEF StayOrGo, Move, Row

\* What u alone does first, and whom it moves up then, bumps nobody else.
LEMMA OthersStay ==
  ASSUME NEW r \in [Users -> Row], NEW q \in [Users -> Row], NEW u, NEW P,
         \A v \in Users \ {u} : q[v] = r[v]
  PROVE  StayOrGo(Users \ {u}, r, Move(q, P, "attending"))
  BY MoveUpStays DEF StayOrGo

\* A withdrawal bumps nobody but who withdraws.
LEMMA WithdrawBumpsNobody ==
  ASSUME TypeOK, NEW u \in Users, Withdraw(u)
  PROVE  StayOrGo(Users \ {u}, row, row')
  <1> DEFINE gone == Move(row, {u}, "withdrawn")
             up   == IF row[u].state = "attending" THEN NextUp(gone, invites) ELSE {}
  <1>1. gone \in [Users -> Row] /\ \A v \in Users \ {u} : gone[v] = row[v]
    BY MoveType, MovedIs DEF TypeOK, State
  <1>2. row' = Move(gone, up, "attending")
    BY DEF Withdraw
  <1> HIDE DEF gone, up
  <1> QED
    BY <1>1, <1>2, OthersStay DEF TypeOK

\* Where PlaceOnList puts u, before anybody moves up.
Placed(u, s) ==
  IF row[u].state \in {"attending", "waitlisted", "maybe"} /\ s # "waitlisted"
  THEN Move(row, {u}, s)
  ELSE Fresh(row, u, s, nextId, row[u].interested)

\* What PlaceOnList does, first to u and then to who is next.
LEMMA PlacedIs ==
  ASSUME TypeOK, NEW u \in Users, NEW s \in {"attending", "maybe", "waitlisted"}
  PROVE  /\ Placed(u, s) \in [Users -> Row]
         /\ Placed(u, s)[u].state = s
         /\ \A v \in Users \ {u} : Placed(u, s)[v] = row[v]
         /\ RowsHaveTheirIds /\ PlaceOnList(u, s) => OwnIds(Placed(u, s), nextId')
         /\ PlaceOnList(u, s) =>
              row' = Move(Placed(u, s),
                          IF \/ row[u].state = "attending"
                             \/ HasReserve(invites, u) /\ s # "attending"
                          THEN NextUp(Placed(u, s), EndHold(invites, u)) ELSE {},
                          "attending")
  <1> DEFINE keep == row[u].state \in {"attending", "waitlisted", "maybe"} /\ s # "waitlisted"
  <1>1. /\ row \in [Users -> Row] /\ s \in State /\ row[u].interested \in BOOLEAN
        /\ nextId \in Nat /\ clock \in Nat
    BY DEF TypeOK, Row, State
  <1>2. PlaceOnList(u, s) => nextId' = IF keep THEN nextId ELSE nextId + 1
    BY DEF PlaceOnList
  <1>3. PlaceOnList(u, s) =>
              row' = Move(Placed(u, s),
                          IF \/ row[u].state = "attending"
                             \/ HasReserve(invites, u) /\ s # "attending"
                          THEN NextUp(Placed(u, s), EndHold(invites, u)) ELSE {},
                          "attending")
    BY DEF PlaceOnList, Placed
  <1>4. CASE keep
    <2>1. Placed(u, s) = Move(row, {u}, s)
      BY <1>4 DEF Placed
    <2>2. RowsHaveTheirIds => OwnIds(Placed(u, s), nextId)
      BY <1>1, <1>4, <2>1, MoveKeepsIds DEF RowsHaveTheirIds
    <2> QED
      BY <1>1, <1>2, <1>3, <1>4, <2>1, <2>2, MoveType, MovedIs
  <1>5. CASE ~keep
    <2>1. Placed(u, s) = Fresh(row, u, s, nextId, row[u].interested)
      BY <1>5 DEF Placed
    <2>2. RowsHaveTheirIds => OwnIds(Placed(u, s), nextId + 1)
      BY <1>1, <2>1, FreshTakesTheNextId DEF RowsHaveTheirIds
    <2> QED
      BY <1>1, <1>2, <1>3, <1>5, <2>1, <2>2, FreshType, FreshIs
  <1> QED
    BY <1>4, <1>5

\* The moves the property excuses u.
Excused(u) ==
  \/ Leave(u) \/ LeaveUnmarked(u) \/ MarkMaybe(u)
  \/ \E s \in {"maybe", "waitlisted"} : PlaceOnList(u, s)
  \/ RollOverOccurrence

Unbumped == \A u \in Users : \/ row[u].state \notin OnList
                             \/ row'[u].state \in {row[u].state, "attending"}
                             \/ Excused(u)

\* No step bumps anybody the property does not excuse.
LEMMA BumpStep ==
  ASSUME TypeOK, [Next]_vars
  PROVE  Unbumped
  <1>t. row \in [Users -> Row] /\ invites \in Seq(Invite) /\ nextId \in Nat /\ clock \in Nat
    BY DEF TypeOK
  <1>1. ASSUME NEW u \in Users, StayOrGo(Users \ {u}, row, row'), row[u].state \notin OnList
        PROVE  Unbumped
    BY <1>1 DEF Unbumped, StayOrGo
  <1>2. ASSUME NEW u \in Users, StayOrGo(Users \ {u}, row, row'), Excused(u)
        PROVE  Unbumped
    BY <1>2 DEF Unbumped, StayOrGo
  <1>3. ASSUME StayOrGo(Users, row, row')
        PROVE  Unbumped
    BY <1>3 DEF Unbumped, StayOrGo
  <1>4. ASSUME NEW P, row' = Move(row, P, "attending")
        PROVE  Unbumped
    BY <1>t, <1>3, <1>4, MoveUpStays
  <1>5. ASSUME NEW u \in Users, Join(u)
        PROVE  Unbumped
    BY <1>1, <1>5 DEF Join, Fresh, StayOrGo, TypeOK
  <1>6. ASSUME NEW u \in Users, Leave(u)
        PROVE  Unbumped
    BY <1>2, <1>6, WithdrawBumpsNobody DEF Leave, Excused
  <1>7. ASSUME NEW u \in Users, MarkMaybe(u)
        PROVE  Unbumped
    <2> DEFINE inv == EndHold(invites, u)
               up1 == IF HasReserve(invites, u) THEN NextUp(row, inv) ELSE {}
               r1  == Move(row, up1, "attending")
               r2  == Move(r1, {u}, "maybe")
               up2 == IF row[u].state = "attending" THEN NextUp(r2, inv) ELSE {}
    <2>1. r1 \in [Users -> Row] /\ StayOrGo(Users, row, r1)
      BY <1>t, MoveType, MoveUpStays DEF State
    <2>2. \/ row' = r1
          \/ row' = Move(r2, up2, "attending")
          \/ row' = Fresh(r1, u, "maybe", nextId, row[u].interested)
      BY <1>7 DEF MarkMaybe
    <2> HIDE DEF r1, up1
    <2>3. r2 \in [Users -> Row] /\ \A v \in Users \ {u} : r2[v] = r1[v]
      BY <2>1, MoveType, MovedIs DEF State
    <2> HIDE DEF r2, up2
    <2>4. StayOrGo(Users \ {u}, r1, Move(r2, up2, "attending"))
      BY <2>1, <2>3, OthersStay
    <2>5. StayOrGo(Users \ {u}, row, r1)
      BY <2>1 DEF StayOrGo
    <2>6. StayOrGo(Users \ {u}, row, Fresh(r1, u, "maybe", nextId, row[u].interested))
      BY <2>1 DEF StayOrGo, Fresh
    <2>7. StayOrGo(Users \ {u}, row, Move(r2, up2, "attending"))
      BY <2>4, <2>5 DEF StayOrGo
    <2> QED
      BY <1>2, <1>7, <2>2, <2>5, <2>6, <2>7 DEF Excused
  <1>8. ASSUME NEW u \in Users, NEW s \in {"attending", "maybe", "waitlisted"}, PlaceOnList(u, s)
        PROVE  Unbumped
    <2>1. PICK P : row' = Move(Placed(u, s), P, "attending")
      BY <1>8, PlacedIs
    <2>3. Placed(u, s) \in [Users -> Row] /\ \A v \in Users \ {u} : Placed(u, s)[v] = row[v]
      BY PlacedIs
    <2>4. Placed(u, s)[u].state = s
      BY PlacedIs
    <2>5. StayOrGo(Users \ {u}, row, row')
      BY <1>t, <2>1, <2>3, OthersStay
    <2>6. CASE s = "attending"
      <3>1. row'[u].state = "attending"
        BY <2>1, <2>3, <2>4, <2>6, MoveUpStays DEF StayOrGo
      <3> QED
        BY <1>3, <2>5, <3>1 DEF StayOrGo
    <2>7. CASE s # "attending"
      BY <1>2, <1>8, <2>5, <2>7 DEF Excused
    <2> QED
      BY <2>6, <2>7
  <1>9. ASSUME NEW u \in Users, GiveAPlace(u)
        PROVE  Unbumped
    BY <1>4, <1>9 DEF GiveAPlace
  <1>10. ASSUME NEW u \in Users, NEW to, MoveInWaitlist(u, to)
         PROVE  Unbumped
    <2>1. \A v \in Users : \A k : [row[v] EXCEPT !.rank = k].state = row[v].state
      BY <1>t DEF Row
    <2> QED
      BY <1>3, <1>10, <2>1 DEF MoveInWaitlist, StayOrGo
  <1>11. ASSUME NEW i, SetInviteDelivery(i)
         PROVE  Unbumped
    BY <1>4, <1>11 DEF SetInviteDelivery
  <1>12. ASSUME NEW u \in Users, GiveBackHeldPlace(u)
         PROVE  Unbumped
    BY <1>4, <1>12 DEF GiveBackHeldPlace
  <1>13. CASE PromoteToFillCapacity
    BY <1>4, <1>13 DEF PromoteToFillCapacity
  <1>14. ASSUME NEW u \in Users, MarkInterested(u)
         PROVE  Unbumped
    <2>1. \A v \in Users \ {u} : row'[v] = row[v]
      BY <1>t, <1>14 DEF MarkInterested, Fresh
    <2>2. CASE ComesOn(u)
      BY <1>1, <2>1, <2>2 DEF ComesOn, StayOrGo
    <2>3. CASE ~ComesOn(u)
      <3>1. row'[u].state = row[u].state
        BY <1>t, <1>14, <2>3 DEF MarkInterested, Row
      <3> QED
        BY <1>3, <2>1, <3>1 DEF StayOrGo
    <2> QED
      BY <2>2, <2>3
  <1>15. ASSUME NEW u \in Users, ClearInterest(u)
         PROVE  Unbumped
    <2>1. \A v \in Users : row'[v].state = row[v].state
      BY <1>t, <1>15 DEF ClearInterest, Row
    <2> QED
      BY <1>3, <2>1 DEF StayOrGo
  <1>16. ASSUME NEW u \in Users, LeaveUnmarked(u)
         PROVE  Unbumped
    BY <1>2, <1>3, <1>16, WithdrawBumpsNobody DEF LeaveUnmarked, Excused, StayOrGo
  <1>17. CASE RollOverOccurrence
    BY <1>17 DEF Unbumped, Excused
  <1>18. ASSUME row' = row
         PROVE  Unbumped
    BY <1>3, <1>18 DEF StayOrGo
  <1>f. Fans \subseteq Users /\ Invitees \subseteq Users /\ Standbys \subseteq Users
    BY RosterAssumption
  <1> QED
    BY <1>f, <1>5, <1>6, <1>7, <1>8, <1>9, <1>10, <1>11, <1>12, <1>13, <1>14, <1>15, <1>16, <1>17,
       <1>18
       DEF Next, vars, RecordInvite, UpdateEvent, DeleteEvent, Restart, MakeRegular,
           EndRegular, MakeHostRegular, Tick

\* For any number of people and whatever organizers, Discord and the dates do:
\* nobody on the list loses their place or spot but by a move of their own, an
\* organizer placing them, or the next date.
THEOREM NobodyIsEverBumped == Spec => NobodyIsBumped
  <1>1. TypeOK /\ [Next]_vars =>
          [\A u \in Users :
             \/ row[u].state \notin OnList
             \/ row'[u].state \in {row[u].state, "attending"}
             \/ Leave(u) \/ LeaveUnmarked(u) \/ MarkMaybe(u)
             \/ \E s \in {"maybe", "waitlisted"} : PlaceOnList(u, s)
             \/ RollOverOccurrence]_vars
    BY BumpStep DEF Unbumped, Excused
  <1> QED
    BY <1>1, TypeCorrect, PTL DEF Spec, NobodyIsBumped

-----------------------------------------------------------------------------
(* The order people move up in.                                            *)

\* Whoever moves up into a freed place had nobody ahead.
LEMMA NobodyAheadOfTheFirst ==
  ASSUME NEW r, NEW inv, NEW u \in NextUp(r, inv)
  PROVE  AheadOf(r, u) = {}
  <1>1. u \in FrontOfLine(r, 1)
    BY DEF NextUp
  <1>2. AheadOf(r, u) \in SUBSET Users
    BY DEF AheadOf, Waiting
  <1>3. Cardinality(AheadOf(r, u)) \in Nat /\ Cardinality(AheadOf(r, u)) < 1
    BY <1>1, <1>2, FiniteLine DEF FrontOfLine
  <1>4. Cardinality(AheadOf(r, u)) = 0
    BY <1>3
  <1> QED
    BY <1>2, <1>4, FiniteLine, FS_EmptySet

InOrder(r, q) ==
  \A u \in Waiting(r) :
    q[u].state = "attending" => \A v \in AheadOf(r, u) : v \notin Waiting(q)

\* x moves, out of the line if x was in it, and people with nobody ahead of
\* them move up: they passed nobody.
LEMMA MovedInOrder ==
  ASSUME NEW r \in [Users -> Row], NEW q \in [Users -> Row], NEW x, NEW P \in SUBSET Users,
         \A v \in Users \ {x} : q[v] = r[v],
         \A u \in P : AheadOf(q, u) = {},
         x \in Waiting(r) => q[x].state \notin OnList /\ x \notin P
  PROVE  InOrder(r, Move(q, P, "attending"))
  <1> DEFINE m == Move(q, P, "attending")
  <1>1. /\ \A u \in Users \ P : m[u] = q[u]
        /\ Waiting(m) = Waiting(q) \ P
    BY MovedIs DEF State
  <1> HIDE DEF m
  <1> SUFFICES ASSUME NEW u \in Waiting(r), m[u].state = "attending", NEW v \in AheadOf(r, u)
               PROVE  v \notin Waiting(m)
    BY DEF InOrder, m
  <1>2. u # x
    BY <1>1 DEF Waiting, OnList
  <1>3. u \in P
    BY <1>1, <1>2 DEF Waiting
  <1>4. CASE v = x
    BY <1>1, <1>4 DEF AheadOf, Waiting, OnList
  <1>5. CASE v # x
    <2>1. q[v] = r[v] /\ q[u] = r[u]
      BY <1>2, <1>5 DEF AheadOf, Waiting
    <2>2. v \in AheadOf(q, u)
      BY <2>1 DEF AheadOf, Waiting, Ahead
    <2> QED
      BY <1>3, <2>2
  <1> QED
    BY <1>4, <1>5

\* A withdrawal moves up only who is next.
LEMMA WithdrawInOrder ==
  ASSUME TypeOK, NEW u \in Users, Withdraw(u)
  PROVE  InOrder(row, row')
  <1> DEFINE gone == Move(row, {u}, "withdrawn")
             up   == IF row[u].state = "attending" THEN NextUp(gone, invites) ELSE {}
  <1>1. /\ gone \in [Users -> Row] /\ gone[u].state = "withdrawn"
        /\ \A v \in Users \ {u} : gone[v] = row[v]
    <2>1. row \in [Users -> Row] /\ "withdrawn" \in State
      BY DEF TypeOK, State
    <2> QED
      BY <2>1, MovedOne
  <1>2. row' = Move(gone, up, "attending")
    BY DEF Withdraw
  <1> HIDE DEF gone
  <1>3. up \subseteq Waiting(gone)
    BY NextUpWaits
  <1>4. \A v \in up : AheadOf(gone, v) = {}
    BY NobodyAheadOfTheFirst
  <1> HIDE DEF up
  <1>5. up \in SUBSET Users /\ u \notin up
    BY <1>1, <1>3 DEF Waiting
  <1> QED
    BY <1>1, <1>2, <1>4, <1>5, MovedInOrder DEF TypeOK, OnList

\* The moves of the line by an organizer's pick.
Picked(u) == GiveAPlace(u) \/ PlaceOnList(u, "attending")

InOrderButPicked ==
  \A u \in Waiting(row) :
    row'[u].state = "attending" /\ ~GiveAPlace(u) /\ ~PlaceOnList(u, "attending")
    => \A v \in AheadOf(row, u) : v \notin Waiting(row')

\* No step moves anybody up past somebody.
LEMMA OrderStep ==
  ASSUME TypeOK, RowsHaveTheirIds, [Next]_vars
  PROVE  InOrderButPicked
  <1>t. row \in [Users -> Row] /\ invites \in Seq(Invite) /\ nextId \in Nat /\ clock \in Nat
        /\ ev.capacity \in Nat /\ OwnIds(row, nextId)
    BY RosterAssumption DEF TypeOK, RowsHaveTheirIds, Settings
  <1>a. Waiting(row) \subseteq Users
    BY DEF Waiting
  <1>1. ASSUME InOrder(row, row')
        PROVE  InOrderButPicked
    BY <1>1 DEF InOrderButPicked, InOrder
  <1>2. ASSUME \A u \in Waiting(row) : row'[u].state # "attending"
        PROVE  InOrderButPicked
    BY <1>2 DEF InOrderButPicked
  <1>3. ASSUME NEW inv, row' = Move(row, NextUp(row, inv), "attending")
        PROVE  InOrderButPicked
    <2>1. NextUp(row, inv) \in SUBSET Users /\ \A u \in NextUp(row, inv) : AheadOf(row, u) = {}
      BY NextUpWaits, NobodyAheadOfTheFirst DEF Waiting
    <2>2. PICK x : x \notin Users
      <3>1. \E x : x \notin Users
        BY NoSetContainsEverything
      <3> QED
        BY <3>1
    <2> QED
      BY <1>t, <1>1, <1>3, <1>a, <2>1, <2>2, MovedInOrder
  <1>4. ASSUME row' = Move(row, {}, "attending")
        PROVE  InOrderButPicked
    BY <1>t, <1>2, <1>4, <1>a, MovedIs DEF State, Waiting
  <1>5. ASSUME NEW u \in Users, Join(u)
        PROVE  InOrderButPicked
    BY <1>t, <1>2, <1>5, <1>a DEF Join, Fresh, Waiting, OnList
  <1>6. ASSUME NEW u \in Users, Leave(u)
        PROVE  InOrderButPicked
    BY <1>1, <1>6, WithdrawInOrder DEF Leave
  <1>7. ASSUME NEW u \in Users, MarkMaybe(u)
        PROVE  InOrderButPicked
    <2> DEFINE inv == EndHold(invites, u)
               up1 == IF HasReserve(invites, u) THEN NextUp(row, inv) ELSE {}
               r1  == Move(row, up1, "attending")
               r2  == Move(r1, {u}, "maybe")
               up2 == IF row[u].state = "attending" THEN NextUp(r2, inv) ELSE {}
    <2>1. \/ row' = r1
          \/ row' = Move(r2, up2, "attending")
          \/ row[u].state \notin OnList /\ row' = Fresh(r1, u, "maybe", nextId, row[u].interested)
      BY <1>7 DEF MarkMaybe
    <2>2. up1 \subseteq Waiting(row) /\ \A v \in up1 : AheadOf(row, v) = {}
      BY NextUpWaits, NobodyAheadOfTheFirst
    <2>3. up2 \subseteq Waiting(r2) /\ \A v \in up2 : AheadOf(r2, v) = {}
      BY NextUpWaits, NobodyAheadOfTheFirst
    <2>4. up2 # {} => row[u].state = "attending"
      OBVIOUS
    <2> HIDE DEF up1
    <2>5. /\ r1 \in [Users -> Row]
          /\ \A v \in Users \ up1 : r1[v] = row[v]
          /\ Waiting(r1) = Waiting(row) \ up1
          /\ up1 \in SUBSET Users
      BY <1>t, <2>2, MoveType, MovedIs DEF State, Waiting
    <2> HIDE DEF r1
    <2>6. /\ r2 \in [Users -> Row] /\ r2[u].state = "maybe"
          /\ \A v \in Users \ {u} : r2[v] = r1[v]
          /\ Waiting(r2) = Waiting(r1) \ {u}
      <3>1. "maybe" \in State /\ r1 \in [Users -> Row]
        BY <2>5 DEF State
      <3>2. r2 = Move(r1, {u}, "maybe")
        OBVIOUS
      <3> HIDE DEF r2, up2, inv
      <3>3. r2 \in [Users -> Row]
        BY <3>1, <3>2, MovedOne
      <3>4. r2[u].state = "maybe"
        BY <3>1, <3>2, MovedOne
      <3>5. \A v \in Users \ {u} : r2[v] = r1[v]
        BY <3>2 DEF Move
      <3> QED
        BY <3>3, <3>4, <3>5 DEF Waiting
    <2> HIDE DEF r2, up2
    <2>7. /\ \A v \in Users \ up2 : Move(r2, up2, "attending")[v] = r2[v]
          /\ Waiting(Move(r2, up2, "attending")) = Waiting(r2) \ up2
      BY <2>3, <2>6, MovedIs DEF State, Waiting
    <2> SUFFICES ASSUME NEW w \in Waiting(row), row'[w].state = "attending",
                        NEW v \in AheadOf(row, w)
                 PROVE  v \notin Waiting(row')
      BY DEF InOrderButPicked
    <2>8. w \notin up1
      BY <2>2
    <2>9. w \in Waiting(r1) /\ r1[w] = row[w] /\ w \in Users
      BY <2>5, <2>8 DEF Waiting
    <2>10. r1[w].state # "attending" /\ row[w].state = "waitlisted"
      BY <2>9 DEF Waiting
    <2>11. row' = Move(r2, up2, "attending")
      <3>1. row' # r1
        BY <2>10
      <3>2. row[u].state \notin OnList => w # u
        BY <2>10 DEF OnList
      <3>3. w # u => Fresh(r1, u, "maybe", nextId, row[u].interested)[w] = r1[w]
        BY <2>5, <2>9, FreshIs
      <3> QED
        BY <2>1, <2>10, <3>1, <3>2, <3>3
    <2>12. w \in up2
      BY <2>6, <2>7, <2>9, <2>10, <2>11
    <2>13. v \in Waiting(row) /\ v \in Users /\ Ahead(row, v, w)
      BY DEF AheadOf, Waiting
    <2>14. w # u
      BY <2>4, <2>10, <2>12
    <2>15. v \notin Waiting(r2)
      <3> SUFFICES ASSUME v \in Waiting(r2)
                   PROVE  FALSE
        OBVIOUS
      <3>1. r2[v] = row[v] /\ r2[w] = row[w]
        BY <2>5, <2>6, <2>9, <2>13, <2>14
      <3>2. v \in AheadOf(r2, w)
        BY <2>13, <3>1 DEF AheadOf, Ahead
      <3> QED
        BY <2>3, <2>12, <3>2
    <2> QED
      BY <2>7, <2>11, <2>15
  <1>8. ASSUME NEW u \in Users, NEW s \in {"attending", "maybe", "waitlisted"}, PlaceOnList(u, s)
        PROVE  InOrderButPicked
    <2> DEFINE up == IF \/ row[u].state = "attending"
                        \/ HasReserve(invites, u) /\ s # "attending"
                     THEN NextUp(Placed(u, s), EndHold(invites, u)) ELSE {}
    <2>1. row' = Move(Placed(u, s), up, "attending")
      BY <1>8, PlacedIs
    <2>2. /\ Placed(u, s) \in [Users -> Row] /\ Placed(u, s)[u].state = s
          /\ \A v \in Users \ {u} : Placed(u, s)[v] = row[v]
      BY PlacedIs
    <2>3. up \subseteq Waiting(Placed(u, s)) /\ \A v \in up : AheadOf(Placed(u, s), v) = {}
      BY NextUpWaits, NobodyAheadOfTheFirst
    <2>4. row[u].state # s
      BY <1>8 DEF PlaceOnList
    <2>5. s = "attending" => up = {}
      BY <2>4
    <2> HIDE DEF up
    <2>6. up \in SUBSET Users
      BY <2>3 DEF Waiting
    <2>7. CASE s = "attending"
      <3>1. \A v \in Users \ {u} : row'[v] = row[v]
        BY <2>1, <2>2, <2>5, <2>7, MovedIs DEF State
      <3> QED
        BY <1>8, <2>7, <3>1, <1>a DEF InOrderButPicked, Waiting
    <2>8. CASE s # "attending"
      <3>1. u \in Waiting(row) => s = "maybe"
        BY <2>4, <2>8 DEF Waiting
      <3>2. u \in Waiting(row) => Placed(u, s)[u].state \notin OnList /\ u \notin up
        BY <2>2, <2>3, <3>1 DEF OnList, Waiting
      <3>3. InOrder(row, row')
        BY <1>t, <2>1, <2>2, <2>3, <2>6, <3>2, MovedInOrder
      <3> QED
        BY <1>1, <3>3
    <2> QED
      BY <2>7, <2>8
  <1>9. ASSUME NEW u \in Users, GiveAPlace(u)
        PROVE  InOrderButPicked
    <2>1. \A v \in Users \ {u} : row'[v] = row[v]
      <3>1. row' = Move(row, {u}, "attending") /\ "attending" \in State /\ row \in [Users -> Row]
        BY <1>t, <1>9 DEF GiveAPlace, State
      <3>2. \A v \in Users \ {u} : Move(row, {u}, "attending")[v] = row[v]
        BY <3>1, MovedOne
      <3> QED
        BY <3>1, <3>2
    <2> QED
      BY <1>9, <2>1, <1>a DEF InOrderButPicked, Waiting
  <1>10. ASSUME NEW u \in Users, NEW to, MoveInWaitlist(u, to)
         PROVE  InOrderButPicked
    <2>1. \A v \in Users : \A k : [row[v] EXCEPT !.rank = k].state = row[v].state
      BY <1>t DEF Row
    <2> QED
      BY <1>2, <1>10, <1>a, <2>1 DEF MoveInWaitlist, Waiting
  <1>11. ASSUME NEW i, SetInviteDelivery(i)
         PROVE  InOrderButPicked
    BY <1>3, <1>4, <1>11 DEF SetInviteDelivery
  <1>12. ASSUME NEW u \in Users, GiveBackHeldPlace(u)
         PROVE  InOrderButPicked
    BY <1>3, <1>12 DEF GiveBackHeldPlace
  <1>13. CASE PromoteToFillCapacity
    <2> DEFINE up == IF ev.capacity = 0 THEN Waiting(row)
                     ELSE FrontOfLine(row, ev.capacity - Taken(row, invites))
    <2>1. row' = Move(row, up, "attending")
      BY <1>13 DEF PromoteToFillCapacity
    <2>2. PICK n : n = ev.capacity - Taken(row, invites)
      OBVIOUS
    <2>3. up \subseteq Waiting(row)
      BY DEF FrontOfLine
    <2>4. ASSUME NEW u \in up, NEW v \in AheadOf(row, u)
          PROVE  v \in up
      <3>1. v \in Waiting(row) /\ Ahead(row, v, u) /\ u \in Waiting(row)
        BY <2>3, <2>4 DEF AheadOf
      <3>2. CASE ev.capacity = 0
        BY <3>1, <3>2
      <3>3. CASE ev.capacity # 0
        <4>1. up = FrontOfLine(row, n)
          BY <2>2, <3>3
        <4>2. Cardinality(AheadOf(row, v)) < Cardinality(AheadOf(row, u))
          BY <1>t, <3>1, MoreAhead
        <4>3. Cardinality(AheadOf(row, u)) < n
          BY <2>4, <4>1 DEF FrontOfLine
        <4>4. AheadOf(row, u) \in SUBSET Users /\ AheadOf(row, v) \in SUBSET Users
          BY DEF AheadOf, Waiting
        <4>5. Cardinality(AheadOf(row, u)) \in Nat /\ Cardinality(AheadOf(row, v)) \in Nat
          BY <4>4, FiniteLine
        <4>6. n \in Int
          <5>1. Taken(row, invites) \in Int
            BY <1>t, TakenType
          <5> QED
            BY <1>t, <2>2, <5>1
        <4>7. Cardinality(AheadOf(row, v)) < n
          BY <4>2, <4>3, <4>5, <4>6
        <4> QED
          BY <3>1, <4>1, <4>7 DEF FrontOfLine
      <3> QED
        BY <3>2, <3>3
    <2> HIDE DEF up
    <2>5. up \in SUBSET Users
      BY <2>3 DEF Waiting
    <2>6. /\ Waiting(row') = Waiting(row) \ up
          /\ \A u \in Users \ up : row'[u] = row[u]
      BY <1>t, <2>1, <2>5, MovedIs DEF State
    <2>7. \A u \in Waiting(row) : row'[u].state = "attending" => u \in up
      BY <2>6 DEF Waiting
    <2> QED
      BY <2>4, <2>6, <2>7 DEF InOrderButPicked
  <1>14. ASSUME NEW u \in Users, MarkInterested(u)
         PROVE  InOrderButPicked
    <2>1. \A v \in Users \ {u} : row'[v] = row[v]
      BY <1>t, <1>14 DEF MarkInterested, Fresh
    <2>2. CASE ComesOn(u)
      BY <1>2, <2>1, <2>2, <1>a DEF ComesOn, OnList, Waiting
    <2>3. CASE ~ComesOn(u)
      <3>1. row'[u].state = row[u].state
        BY <1>t, <1>14, <2>3 DEF MarkInterested, Row
      <3> QED
        BY <1>2, <2>1, <3>1, <1>a DEF Waiting
    <2> QED
      BY <2>2, <2>3
  <1>15. ASSUME NEW u \in Users, ClearInterest(u)
         PROVE  InOrderButPicked
    <2>1. \A v \in Users : row'[v].state = row[v].state
      BY <1>t, <1>15 DEF ClearInterest, Row
    <2> QED
      BY <1>2, <2>1, <1>a DEF Waiting
  <1>16. ASSUME row' = row
         PROVE  InOrderButPicked
    BY <1>2, <1>16 DEF Waiting
  <1>17. ASSUME NEW u \in Users, LeaveUnmarked(u)
         PROVE  InOrderButPicked
    BY <1>1, <1>16, <1>17, WithdrawInOrder DEF LeaveUnmarked
  <1>18. CASE RollOverOccurrence
    <2>1. Waiting(row') = {}
      BY <1>18, NobodyWaitsAfterTheDate
    <2> QED
      BY <2>1 DEF InOrderButPicked
  <1>f. Fans \subseteq Users /\ Invitees \subseteq Users /\ Standbys \subseteq Users
    BY RosterAssumption
  <1> QED
    BY <1>f, <1>5, <1>6, <1>7, <1>8, <1>9, <1>10, <1>11, <1>12, <1>13, <1>14, <1>15, <1>16, <1>17,
       <1>18
       DEF Next, vars, RecordInvite, UpdateEvent, DeleteEvent, Restart, MakeRegular,
           EndRegular, MakeHostRegular, Tick

\* For any number of people and any limit: whoever goes from the line to going,
\* other than by an organizer's pick, leaves nobody waiting who was ahead of
\* them, whichever of the promotions took them.
THEOREM PeopleMoveUpInOrder == Spec => MovesUpInOrder
  <1>1. Init => RowsHaveTheirIds
    BY DEF Init, RowsHaveTheirIds, OwnIds, NoRow
  <1>2. TypeOK /\ RowsHaveTheirIds /\ [Next]_vars => RowsHaveTheirIds'
    BY IdsStep
  <1>3. TypeOK /\ RowsHaveTheirIds /\ [Next]_vars =>
          [\A u \in Waiting(row) :
             row'[u].state = "attending" /\ ~GiveAPlace(u) /\ ~PlaceOnList(u, "attending")
             => \A v \in AheadOf(row, u) : v \notin Waiting(row')]_vars
    BY OrderStep DEF InOrderButPicked
  <1> QED
    BY <1>1, <1>2, <1>3, TypeCorrect, PTL DEF Spec, MovesUpInOrder

-----------------------------------------------------------------------------
(* The limit, and the places that come free.                               *)

\* Ending u's reserves ends a kept place of theirs, and at most that one.
LEMMA EndHoldFreesOne ==
  ASSUME NEW inv \in Seq(Invite), Single(inv), NEW u
  PROVE  /\ EndHold(inv, u) \in Seq(Invite)
         /\ HeldIn(EndHold(inv, u)) \subseteq HeldIn(inv)
         /\ Cardinality(HeldIn(EndHold(inv, u))) <= Cardinality(HeldIn(inv))
         /\ Cardinality(HeldIn(inv)) <= Cardinality(HeldIn(EndHold(inv, u))) + 1
         /\ ~HasHold(inv, u, "place") => HeldIn(EndHold(inv, u)) = HeldIn(inv)
         /\ HasHold(inv, u, "place") =>
              Cardinality(HeldIn(EndHold(inv, u))) < Cardinality(HeldIn(inv))
  <1> DEFINE H == HeldIn(inv)
             E == HeldIn(EndHold(inv, u))
  <1>1. EndHold(inv, u) \in Seq(Invite)
    BY EndHoldType
  <1>2. \A i \in DOMAIN inv : inv[i] \in Invite
    BY ElementOfSeq, LenProperties
  <1>3. E = {i \in H : inv[i].user # u}
    <2>1. DOMAIN EndHold(inv, u) = DOMAIN inv
      BY DEF EndHold
    <2>2. ASSUME NEW i \in DOMAIN inv
          PROVE  /\ inv[i].user = u => EndHold(inv, u)[i].live = FALSE
                 /\ inv[i].user # u => EndHold(inv, u)[i] = inv[i]
      <3>1. inv[i] \in Invite
        BY <1>2
      <3>2. [inv[i] EXCEPT !.live = FALSE].live = FALSE
        BY <3>1 DEF Invite
      <3> QED
        BY <3>2 DEF EndHold
    <2> QED
      BY <2>1, <2>2 DEF HeldIn
  <1>4. IsFiniteSet(H) /\ Cardinality(H) \in Nat
    <2>1. H \in SUBSET (1..Len(inv)) /\ Len(inv) \in Nat
      BY LenProperties DEF HeldIn
    <2>2. IsFiniteSet(1..Len(inv))
      BY <2>1, FS_Interval
    <2> QED
      BY <2>1, <2>2, FS_Subset, FS_CardinalityType
  <1>5. IsFiniteSet(E) /\ Cardinality(E) \in Nat /\ Cardinality(E) <= Cardinality(H)
    BY <1>3, <1>4, FS_Subset, FS_CardinalityType
  <1>6. \A i, j \in H : inv[i].user = u /\ inv[j].user = u => i = j
    BY DEF HeldIn, Single
  <1>7. HasHold(inv, u, "place") <=> \E i \in H : inv[i].user = u
    BY DEF HasHold, HeldIn
  <1>8. CASE HasHold(inv, u, "place")
    <2>1. PICK i \in H : inv[i].user = u
      BY <1>7, <1>8
    <2>2. E = H \ {i}
      BY <1>3, <1>6, <2>1
    <2>3. Cardinality(E) = Cardinality(H) - 1
      BY <1>4, <2>1, <2>2, FS_RemoveElement
    <2> HIDE DEF E, H
    <2>4. Cardinality(E) < Cardinality(H) /\ Cardinality(H) <= Cardinality(E) + 1
      BY <1>4, <1>5, <2>3
    <2> QED
      BY <1>1, <1>3, <1>5, <1>8, <2>4 DEF E, H
  <1>9. CASE ~HasHold(inv, u, "place")
    <2>1. E = H
      BY <1>3, <1>7, <1>9
    <2> HIDE DEF E, H
    <2>2. Cardinality(H) <= Cardinality(E) + 1
      BY <1>4, <2>1
    <2> QED
      BY <1>1, <1>5, <1>9, <2>1, <2>2 DEF E, H
  <1> QED
    BY <1>8, <1>9

\* Line or limit: nobody waits, or no place is free.
Tight(r, inv) ==
  \/ Waiting(r) = {}
  \/ ev.capacity > 0 /\ Taken(r, inv) >= ev.capacity

\* At most one place has come free.
AlmostTight(r, inv) ==
  \/ Waiting(r) = {}
  \/ ev.capacity > 0 /\ Taken(r, inv) + 1 >= ev.capacity

\* From a to b the places taken did not grow, or they are within the limit.
Within(a, b) == b <= a \/ b <= ev.capacity

\* Whoever moves up into a freed place is one, is somebody when a place is free
\* and anybody waits, and stays within the limit.
LEMMA NextUpFits ==
  ASSUME ev.capacity \in Nat, NEW r \in [Users -> Row], NEW n, OwnIds(r, n),
         NEW inv \in Seq(Invite), NEW q, q = Move(r, NextUp(r, inv), "attending")
  PROVE  /\ q \in [Users -> Row]
         /\ Waiting(q) \subseteq Waiting(r)
         /\ Going(r) \subseteq Going(q) /\ Going(q) \subseteq Going(r) \cup Waiting(r)
         /\ Taken(q, inv) \in Nat /\ Taken(r, inv) \in Nat
         /\ Taken(q, inv) >= Taken(r, inv)
         /\ Within(Taken(r, inv), Taken(q, inv))
         /\ AlmostTight(r, inv) => Tight(q, inv)
  <1> DEFINE up == NextUp(r, inv)
             c  == ev.capacity
  <1>1. up \subseteq Waiting(r) /\ up \in SUBSET Users
    BY NextUpWaits DEF Waiting
  <1>2. /\ q \in [Users -> Row]
        /\ Going(q) = Going(r) \cup up
        /\ Waiting(q) = Waiting(r) \ up
    <2>1. "attending" \in State
      BY DEF State
    <2> HIDE DEF up
    <2>2. Move(r, up, "attending") \in [Users -> Row]
      BY <2>1, MoveType
    <2>3. Going(Move(r, up, "attending")) = Going(r) \cup up
      BY <1>1, <2>1, MovedIs
    <2>4. Waiting(Move(r, up, "attending")) = Waiting(r) \ up
      BY <1>1, <2>1, MovedIs
    <2> QED
      BY <2>2, <2>3, <2>4 DEF up
  <1>3. PICK t, w, h : /\ t = Taken(r, inv) /\ w = Taken(q, inv) /\ h = Cardinality(up)
    OBVIOUS
  <1>4. /\ IsFiniteSet(Going(r)) /\ IsFiniteSet(up) /\ Cardinality(Going(r) \cap up) = 0
        /\ h \in Nat /\ t \in Nat /\ w \in Nat
    <2>1. Going(r) \cap up = {}
      BY <1>1 DEF Going, Waiting
    <2> QED
      BY <1>1, <1>2, <1>3, <2>1, FiniteLine, TakenType, FS_EmptySet
  <1>5. w = t + h
    <2>1. Cardinality(Going(q)) = Cardinality(Going(r)) + h
      <3>1. Cardinality(Going(r)) \in Nat
        BY TakenType
      <3> QED
        <4>1. Cardinality(Going(r) \cup up) =
                Cardinality(Going(r)) + Cardinality(up) - Cardinality(Going(r) \cap up)
          BY <1>4, FS_Union
        <4>2. PICK k : k = Cardinality(Going(r))
          OBVIOUS
        <4>3. Cardinality(Going(r) \cup up) = k + h - 0
          BY <1>3, <1>4, <4>1, <4>2
        <4>4. k \in Nat /\ h \in Nat
          BY <1>4, <3>1, <4>2
        <4>5. k + h - 0 = k + h
          BY ONLY <4>4
        <4> QED
          BY ONLY <1>2, <4>2, <4>3, <4>5
    <2>2. /\ Cardinality(Going(r)) \in Nat /\ Cardinality(HeldIn(inv)) \in Nat
          /\ t = Cardinality(Going(r)) + Cardinality(HeldIn(inv))
          /\ w = Cardinality(Going(q)) + Cardinality(HeldIn(inv))
      BY <1>2, <1>3, TakenType
    <2> QED
      BY <1>4, <2>1, <2>2
  <1>6. /\ t < c /\ c > 0 => up = FrontOfLine(r, 1)
        /\ ~(t < c /\ c > 0) => up = {}
    BY <1>3 DEF NextUp
  <1>7. /\ t < c /\ c > 0 => h <= 1
        /\ ~(t < c /\ c > 0) => h = 0
    BY <1>3, <1>6, FrontAtMost, FS_EmptySet
  <1>8. up = {} => h = 0
    BY <1>3, FS_EmptySet
  <1>9. h = 0 => up = {}
    BY <1>3, <1>4, FS_EmptySet
  <1>10. Within(t, w)
    BY <1>4, <1>5, <1>7 DEF Within
  <1>11. ASSUME AlmostTight(r, inv)
         PROVE  Tight(q, inv)
    <2>1. CASE Waiting(r) = {}
      BY <1>2, <2>1 DEF Tight
    <2>2. CASE Waiting(r) # {}
      <3>1. c > 0 /\ t + 1 >= c
        BY <1>3, <1>11, <2>2 DEF AlmostTight
      <3>2. t < c => h # 0
        BY <1>6, <1>9, <2>2, <3>1, SomebodyIsFirst
      <3>3. w >= c
        BY <1>4, <1>5, <3>1, <3>2
      <3> QED
        BY <1>3, <3>1, <3>3 DEF Tight
    <2> QED
      BY <2>1, <2>2
  <1>12. w >= t
    BY <1>4, <1>5
  <1> HIDE DEF up
  <1> QED
    BY <1>1, <1>2, <1>3, <1>4, <1>10, <1>11, <1>12

-----------------------------------------------------------------------------
(* The limit holds.                                                        *)

\* What a leaving or freed place is followed by stays within the limit.
LEMMA WithinTwice ==
  ASSUME NEW a \in Nat, NEW b \in Nat, NEW d \in Nat, ev.capacity \in Nat,
         Within(a, b), Within(b, d)
  PROVE  Within(a, d)
  BY DEF Within

\* Fewer going and fewer places held are fewer places taken.
LEMMA TakenShrinks ==
  ASSUME NEW r \in [Users -> Row], NEW q \in [Users -> Row],
         NEW inv \in Seq(Invite), NEW kept \in Seq(Invite),
         Going(q) \subseteq Going(r), Cardinality(HeldIn(kept)) <= Cardinality(HeldIn(inv))
  PROVE  Taken(q, kept) <= Taken(r, inv)
  <1>1. Cardinality(Going(q)) <= Cardinality(Going(r))
    BY TakenType, FS_Subset
  <1> QED
    BY <1>1, TakenType

\* One person more going is at most one place more taken.
LEMMA TakenGrowsByOne ==
  ASSUME NEW r \in [Users -> Row], NEW q \in [Users -> Row], NEW u,
         NEW inv \in Seq(Invite), Going(q) = Going(r) \cup {u}
  PROVE  /\ Taken(q, inv) <= Taken(r, inv) + 1
         /\ u \notin Going(r) => Taken(q, inv) = Taken(r, inv) + 1
  <1>1. Cardinality(Going(q)) = IF u \in Going(r) THEN Cardinality(Going(r))
                                ELSE Cardinality(Going(r)) + 1
    BY TakenType, FS_AddElement
  <1>2. PICK k, m, h : k = Cardinality(Going(r)) /\ m = Cardinality(Going(q))
                       /\ h = Cardinality(HeldIn(inv))
    OBVIOUS
  <1>3. /\ k \in Nat /\ m \in Nat /\ h \in Nat
        /\ Taken(r, inv) = k + h /\ Taken(q, inv) = m + h
        /\ m = IF u \in Going(r) THEN k ELSE k + 1
    BY <1>1, <1>2, TakenType
  <1> QED
    BY <1>3

\* One person less going is at most one place less taken.
LEMMA TakenFallsByOne ==
  ASSUME NEW r \in [Users -> Row], NEW q \in [Users -> Row], NEW u,
         NEW inv \in Seq(Invite), Going(q) = Going(r) \ {u}
  PROVE  /\ Taken(q, inv) <= Taken(r, inv)
         /\ Taken(r, inv) <= Taken(q, inv) + 1
         /\ u \notin Going(r) => Taken(q, inv) = Taken(r, inv)
  <1>1. Cardinality(Going(q)) = IF u \in Going(r) THEN Cardinality(Going(r)) - 1
                                ELSE Cardinality(Going(r))
    BY TakenType, FS_RemoveElement
  <1>2. PICK k, m, h : k = Cardinality(Going(r)) /\ m = Cardinality(Going(q))
                       /\ h = Cardinality(HeldIn(inv))
    OBVIOUS
  <1>3. /\ k \in Nat /\ m \in Nat /\ h \in Nat
        /\ Taken(r, inv) = k + h /\ Taken(q, inv) = m + h
        /\ m = IF u \in Going(r) THEN k - 1 ELSE k
    BY <1>1, <1>2, TakenType
  <1> QED
    BY <1>3

\* A withdrawal frees a place and gives at most that one.
LEMMA WithdrawFits ==
  ASSUME TypeOK, RowsHaveTheirIds, NEW u \in Users, row[u].state # "none", Withdraw(u)
  PROVE  /\ Within(Taken(row, invites), Taken(row', invites))
         /\ Tight(row, invites) => Tight(row', invites)
  <1> DEFINE gone == Move(row, {u}, "withdrawn")
  <1>t. /\ row \in [Users -> Row] /\ invites \in Seq(Invite) /\ nextId \in Nat
        /\ ev.capacity \in Nat /\ OwnIds(row, nextId)
    BY RosterAssumption DEF TypeOK, RowsHaveTheirIds, Settings
  <1>1. PICK g : g = gone
    OBVIOUS
  <1>2. row' = Move(g, IF row[u].state = "attending" THEN NextUp(g, invites) ELSE {}, "attending")
    BY <1>1 DEF Withdraw
  <1>3. OwnIds(g, nextId)
    BY <1>t, <1>1, MoveKeepsIds
  <1> HIDE DEF gone
  <1>4. /\ g \in [Users -> Row] /\ g[u].state = "withdrawn"
        /\ Going(g) = Going(row) \ {u} /\ Waiting(g) = Waiting(row) \ {u}
    <2>1. "withdrawn" \in State
      BY DEF State
    <2>2. g = Move(row, {u}, "withdrawn")
      BY <1>1 DEF gone
    <2>3. g \in [Users -> Row] /\ g[u].state = "withdrawn"
      <3>1. row \in [Users -> Row]
        BY <1>t
      <3>2. Move(row, {u}, "withdrawn") \in [Users -> Row]
        BY <2>1, <3>1, MovedOne
      <3>3. Move(row, {u}, "withdrawn")[u].state = "withdrawn"
        BY <2>1, <3>1, MovedOne
      <3> QED
        BY ONLY <2>2, <3>2, <3>3
    <2>4. Going(g) = Going(row) \ {u}
      BY <1>t, <2>2, <2>3 DEF Going, Move
    <2>5. Waiting(g) = Waiting(row) \ {u}
      BY <1>t, <2>2, <2>3 DEF Waiting, Move
    <2> QED
      BY ONLY <2>3, <2>4, <2>5
  <1>5. PICK a, b, d : a = Taken(row, invites) /\ b = Taken(g, invites) /\ d = Taken(row', invites)
    OBVIOUS
  <1>6. /\ a \in Nat /\ b \in Nat /\ b <= a /\ a <= b + 1
        /\ u \notin Going(row) => a = b
    BY <1>t, <1>4, <1>5, TakenFallsByOne, TakenType
  <1>7. CASE row[u].state = "attending"
    <2>1. row' = Move(g, NextUp(g, invites), "attending")
      BY <1>2, <1>7
    <2>2. /\ d \in Nat /\ Within(b, d)
          /\ AlmostTight(g, invites) => Tight(row', invites)
      BY <1>t, <1>3, <1>4, <1>5, <2>1, NextUpFits
    <2>3. Tight(row, invites) => AlmostTight(g, invites)
      BY <1>t, <1>4, <1>5, <1>6 DEF Tight, AlmostTight
    <2> QED
      BY <1>t, <1>5, <1>6, <2>2, <2>3 DEF Within
  <1>8. CASE row[u].state # "attending"
    <2>1. row' = Move(g, {}, "attending")
      BY <1>2, <1>8
    <2>2. row' = g
      BY <1>4, <2>1 DEF Move
    <2>3. a = b
      BY <1>6, <1>8 DEF Going
    <2>4. Tight(row, invites) => Tight(row', invites)
      BY <1>4, <1>5, <2>2, <2>3 DEF Tight
    <2> QED
      BY <1>5, <1>6, <2>2, <2>3, <2>4 DEF Within
  <1> QED
    BY <1>7, <1>8

\* Someone coming on by themselves, from no list, as Full allows them: they wait
\* behind a full event, or take a place there is, or the one kept for them.
LEMMA ComingOnFits ==
  ASSUME TypeOK, OneHoldPerPerson, NEW u \in Users, row[u].state \notin OnList,
         NEW s, s = IF Full(u) THEN "waitlisted" ELSE "attending",
         row' \in [Users -> Row], row'[u].state = s, \A v \in Users \ {u} : row'[v] = row[v],
         invites' = EndHold(invites, u)
  PROVE  /\ ev.capacity > 0 /\ ~HasHold(invites, u, "pass") =>
              Within(Taken(row, invites), Taken(row', invites'))
         /\ Tight(row, invites) => Tight(row', invites')
  <1>t. /\ row \in [Users -> Row] /\ invites \in Seq(Invite) /\ ev.capacity \in Nat
    BY RosterAssumption DEF TypeOK, Settings
  <1>1. /\ invites' \in Seq(Invite)
        /\ Cardinality(HeldIn(invites')) <= Cardinality(HeldIn(invites))
        /\ Cardinality(HeldIn(invites)) <= Cardinality(HeldIn(invites')) + 1
        /\ HasHold(invites, u, "place") =>
             Cardinality(HeldIn(invites')) < Cardinality(HeldIn(invites))
    BY <1>t, EndHoldFreesOne DEF Single, OneHoldPerPerson
  <1>2. u \notin Going(row)
    BY DEF Going, OnList
  <1>3. PICK g, h, k, c : /\ g = Cardinality(Going(row)) /\ h = Cardinality(HeldIn(invites))
                          /\ k = Cardinality(HeldIn(invites')) /\ c = ev.capacity
    OBVIOUS
  <1>4. /\ g \in Nat /\ h \in Nat /\ k \in Nat /\ c \in Nat
        /\ Taken(row, invites) = g + h /\ Taken(row, invites') = g + k
        /\ k <= h /\ h <= k + 1
        /\ HasHold(invites, u, "place") => k < h
    BY <1>t, <1>1, <1>3, TakenType
  <1>5. CASE Full(u)
    <2>1. Going(row') = Going(row)
      BY <1>2, <1>5 DEF Going
    <2>2. Taken(row', invites') = g + k
      BY <1>3, <2>1 DEF Taken
    <2>3. c > 0 /\ g + k >= c
      BY <1>3, <1>4, <1>5 DEF Full
    <2>4. Within(Taken(row, invites), Taken(row', invites'))
      BY <1>4, <2>2 DEF Within
    <2>5. Tight(row', invites')
      BY <1>3, <2>2, <2>3 DEF Tight
    <2> QED
      BY <2>4, <2>5
  <1>6. CASE ~Full(u)
    <2>1. /\ Going(row') = Going(row) \cup {u}
          /\ Waiting(row') = Waiting(row)
      BY <1>6 DEF Going, Waiting, OnList
    <2>2. Taken(row', invites') = g + k + 1
      <3>1. Taken(row', invites') = Taken(row, invites') + 1
        BY <1>t, <1>1, <1>2, <2>1, TakenGrowsByOne
      <3> QED
        BY <1>4, <3>1
    <2>3. ASSUME c > 0, ~HasHold(invites, u, "pass")
          PROVE  Within(Taken(row, invites), Taken(row', invites'))
      <3>1. CASE HasReserve(invites, u)
        <4>1. k < h
          BY <1>4, <2>3, <3>1 DEF HasReserve
        <4> QED
          BY <1>4, <2>2, <4>1 DEF Within
      <3>2. CASE ~HasReserve(invites, u)
        <4>1. g + k < c
          BY <1>3, <1>4, <1>6, <2>3, <3>2 DEF Full
        <4> QED
          BY <1>3, <1>4, <2>2, <4>1 DEF Within
      <3> QED
        BY <3>1, <3>2
    <2>4. ASSUME Tight(row, invites)
          PROVE  Tight(row', invites')
      <3>1. CASE Waiting(row) = {}
        BY <2>1, <3>1 DEF Tight
      <3>2. CASE c > 0 /\ g + h >= c
        <4>1. g + k + 1 >= c
          BY <1>4, <3>2
        <4> QED
          BY <1>3, <2>2, <3>2, <4>1 DEF Tight
      <3> QED
        BY <1>3, <1>4, <2>4, <3>1, <3>2 DEF Tight
    <2> QED
      BY <1>3, <2>3, <2>4
  <1> QED
    BY <1>5, <1>6

\* People who have rows keep their ids when somebody moves up.
LEMMA NextUpKeepsIds ==
  ASSUME NEW r \in [Users -> Row], NEW n \in Nat, OwnIds(r, n), NEW inv
  PROVE  OwnIds(Move(r, NextUp(r, inv), "attending"), n)
  <1>1. \A v \in Users : v \in NextUp(r, inv) => r[v].state # "none"
    BY NextUpWaits DEF Waiting
  <1> QED
    BY <1>1, MoveKeepsIds

\* Moving nobody changes nothing.
LEMMA MoveNobody ==
  ASSUME NEW r \in [Users -> Row], NEW s
  PROVE  Move(r, {}, s) = r
  BY DEF Move

\* Going to the maybe list gives back what was kept for the person, and their
\* own place, each to who is next.
LEMMA MarkMaybeFits ==
  ASSUME TypeOK, RowsHaveTheirIds, OneHoldPerPerson, NEW u \in Users, MarkMaybe(u)
  PROVE  /\ Within(Taken(row, invites), Taken(row', invites'))
         /\ Tight(row, invites) /\ ~CountedTwice => Tight(row', invites')
  <1>t. /\ row \in [Users -> Row] /\ invites \in Seq(Invite) /\ nextId \in Nat /\ clock \in Nat
        /\ ev.capacity \in Nat /\ OwnIds(row, nextId) /\ row[u].interested \in BOOLEAN
    BY RosterAssumption DEF TypeOK, RowsHaveTheirIds, Settings, Row
  <1>1. PICK inv : inv = EndHold(invites, u)
    OBVIOUS
  <1>2. PICK r1 : r1 = Move(row, IF HasReserve(invites, u) THEN NextUp(row, inv) ELSE {},
                            "attending")
    OBVIOUS
  <1>3. PICK r2 : r2 = Move(r1, {u}, "maybe")
    OBVIOUS
  <1>4. /\ invites' = inv
        /\ row[u].state = "maybe" => row' = r1
        /\ row[u].state \in OnList =>
             row' = Move(r2, IF row[u].state = "attending" THEN NextUp(r2, inv) ELSE {},
                         "attending")
        /\ row[u].state \notin OnList /\ row[u].state # "maybe" =>
             row' = Fresh(r1, u, "maybe", nextId, row[u].interested)
    <2>1. "maybe" \notin OnList
      BY DEF OnList
    <2> QED
      BY <1>1, <1>2, <1>3, <2>1 DEF MarkMaybe
  <1>5. /\ inv \in Seq(Invite)
        /\ Cardinality(HeldIn(inv)) <= Cardinality(HeldIn(invites))
        /\ Cardinality(HeldIn(invites)) <= Cardinality(HeldIn(inv)) + 1
        /\ ~HasHold(invites, u, "place") => HeldIn(inv) = HeldIn(invites)
    BY <1>t, <1>1, EndHoldFreesOne DEF Single, OneHoldPerPerson
  <1>6. PICK a, b, d : a = Taken(row, invites) /\ b = Taken(row, inv) /\ d = Taken(r1, inv)
    OBVIOUS
  <1>7. /\ a \in Nat /\ b \in Nat /\ b <= a /\ a <= b + 1
        /\ ~HasHold(invites, u, "place") => a = b
    <2>1. PICK g, h, k : /\ g = Cardinality(Going(row)) /\ h = Cardinality(HeldIn(invites))
                         /\ k = Cardinality(HeldIn(inv))
      OBVIOUS
    <2>2. g \in Nat /\ h \in Nat /\ k \in Nat /\ a = g + h /\ b = g + k
      BY <1>t, <1>5, <1>6, <2>1, TakenType
    <2>3. k <= h /\ h <= k + 1 /\ (~HasHold(invites, u, "place") => k = h)
      BY <1>5, <2>1
    <2> QED
      BY <2>2, <2>3
  <1>8. /\ r1 \in [Users -> Row] /\ OwnIds(r1, nextId)
        /\ Waiting(r1) \subseteq Waiting(row)
        /\ Going(row) \subseteq Going(r1) /\ Going(r1) \subseteq Going(row) \cup Waiting(row)
        /\ d \in Nat /\ Within(a, d)
        /\ Tight(row, invites) => Tight(r1, inv)
        /\ Tight(row, inv) => Going(r1) = Going(row) \/ Waiting(row) = {}
    <2>1. CASE HasReserve(invites, u)
      <3>1. r1 = Move(row, NextUp(row, inv), "attending")
        BY <1>2, <2>1
      <3>2. /\ r1 \in [Users -> Row]
            /\ Waiting(r1) \subseteq Waiting(row)
            /\ Going(row) \subseteq Going(r1) /\ Going(r1) \subseteq Going(row) \cup Waiting(row)
            /\ d \in Nat /\ Within(b, d)
            /\ AlmostTight(row, inv) => Tight(r1, inv)
        BY <1>t, <1>5, <1>6, <3>1, NextUpFits
      <3>3. OwnIds(r1, nextId)
        BY <1>t, <3>1, NextUpKeepsIds
      <3>4. Within(a, d)
        BY <1>t, <1>7, <3>2 DEF Within
      <3>5. Tight(row, invites) => AlmostTight(row, inv)
        BY <1>t, <1>6, <1>7 DEF Tight, AlmostTight
      <3>6. ASSUME Tight(row, inv), Waiting(row) # {}
            PROVE  Going(r1) = Going(row)
        <4>1. NextUp(row, inv) = {}
          BY <1>t, <1>6, <1>7, <3>6 DEF Tight, NextUp
        <4> QED
          BY <1>t, <3>1, <4>1, MoveNobody
      <3> QED
        BY <3>2, <3>3, <3>4, <3>5, <3>6
    <2>2. CASE ~HasReserve(invites, u)
      <3>1. r1 = row
        BY <1>t, <1>2, <2>2, MoveNobody
      <3>2. ~HasHold(invites, u, "place")
        BY <2>2 DEF HasReserve
      <3>3. a = b /\ d = b
        BY <1>6, <1>7, <3>1, <3>2
      <3>4. Tight(row, invites) => Tight(r1, inv)
        BY <1>6, <3>1, <3>3 DEF Tight
      <3>5. Within(a, d)
        BY <1>7, <3>3 DEF Within
      <3> QED
        BY <1>t, <1>7, <3>1, <3>3, <3>4, <3>5
    <2> QED
      BY <2>1, <2>2
  <1>9. CASE row[u].state = "maybe"
    BY <1>4, <1>6, <1>8, <1>9
  <1>10. CASE row[u].state \notin OnList /\ row[u].state # "maybe"
    <2>1. row' = Fresh(r1, u, "maybe", nextId, row[u].interested)
      BY <1>4, <1>10
    <2>2. row' \in [Users -> Row]
      BY <1>t, <1>8, <2>1, FreshType DEF State
    <2>3. Going(row') = Going(r1) \ {u} /\ Waiting(row') = Waiting(r1) \ {u}
      BY <1>8, <2>1 DEF Fresh, Going, Waiting
    <2>4. u \notin Going(r1)
      BY <1>8, <1>10 DEF Going, Waiting, OnList
    <2>5. Taken(row', invites') = d
      BY <1>4, <1>6, <2>3, <2>4 DEF Taken
    <2>6. Tight(r1, inv) => Tight(row', invites')
      BY <1>4, <1>6, <2>3, <2>5 DEF Tight
    <2> QED
      BY <1>6, <1>8, <2>5, <2>6
  <1>11. CASE row[u].state \in OnList
    <2>1. /\ r2 \in [Users -> Row]
          /\ Going(r2) = Going(r1) \ {u} /\ Waiting(r2) = Waiting(r1) \ {u}
      <3>1. "maybe" \in State
        BY DEF State
      <3>2. r2 \in [Users -> Row]
        BY <1>3, <1>8, <3>1, MovedOne
      <3> QED
        BY <1>3, <1>8, <3>2 DEF Move, Going, Waiting
    <2>2. PICK e, f : e = Taken(r2, inv) /\ f = Taken(row', inv)
      OBVIOUS
    <2>3. e \in Nat /\ e <= d /\ d <= e + 1 /\ (u \notin Going(r1) => e = d)
      <3>1. /\ Taken(r2, inv) <= Taken(r1, inv)
            /\ Taken(r1, inv) <= Taken(r2, inv) + 1
            /\ u \notin Going(r1) => Taken(r2, inv) = Taken(r1, inv)
        BY <1>5, <1>8, <2>1, TakenFallsByOne
      <3>2. Taken(r2, inv) \in Nat
        BY <1>5, <2>1, TakenType
      <3> QED
        BY <1>6, <2>2, <3>1, <3>2
    <2>4. CASE row[u].state = "attending"
      <3>1. row' = Move(r2, NextUp(r2, inv), "attending")
        BY <1>4, <1>11, <2>4
      <3>2. OwnIds(r2, nextId)
        <4>1. \A v \in Users : v \in {u} => r1[v].state # "none"
          BY <1>8, <2>4 DEF Going
        <4> QED
          BY <1>t, <1>3, <1>8, <4>1, MoveKeepsIds
      <3>3. f \in Nat /\ Within(e, f) /\ (AlmostTight(r2, inv) => Tight(row', inv))
        BY <1>t, <1>5, <2>1, <2>2, <3>1, <3>2, NextUpFits
      <3>4. Within(a, f)
        BY <1>t, <1>7, <1>8, <2>3, <3>3 DEF Within
      <3>5. Tight(r1, inv) => AlmostTight(r2, inv)
        BY <1>t, <1>6, <1>8, <2>1, <2>2, <2>3 DEF Tight, AlmostTight
      <3> QED
        BY <1>4, <1>6, <1>8, <2>2, <3>3, <3>4, <3>5
    <2>5. CASE row[u].state # "attending"
      <3>1. row' = r2
        BY <1>4, <1>11, <2>1, <2>5, MoveNobody
      <3>2. Within(a, f)
        BY <1>t, <1>7, <1>8, <2>2, <2>3, <3>1 DEF Within
      <3>3. ASSUME Tight(row, invites), ~CountedTwice
            PROVE  Tight(row', inv)
        <4>1. ~HasHold(invites, u, "place")
          BY <1>11, <3>3 DEF CountedTwice
        <4>2. Tight(row, inv)
          BY <1>6, <1>7, <3>3, <4>1 DEF Tight
        <4>3. u \in Waiting(row) /\ u \notin Going(row)
          BY <1>11, <2>5 DEF Waiting, Going, OnList
        <4>4. u \notin Going(r1)
          BY <1>8, <4>2, <4>3
        <4>5. Tight(r1, inv)
          BY <1>8, <3>3
        <4> QED
          BY <1>6, <2>1, <2>2, <2>3, <3>1, <4>4, <4>5 DEF Tight
      <3> QED
        BY <1>4, <1>6, <2>2, <3>2, <3>3
    <2> QED
      BY <2>4, <2>5
  <1> QED
    BY <1>9, <1>10, <1>11

\* An organizer's move frees the person's place and what was kept for them, and
\* gives one place to who is next; a move into the line needs a full event.
LEMMA PlacedFits ==
  ASSUME TypeOK, RowsHaveTheirIds, OneHoldPerPerson,
         NEW u \in Users, NEW s \in {"attending", "maybe", "waitlisted"}, PlaceOnList(u, s)
  PROVE  /\ s # "attending" => Within(Taken(row, invites), Taken(row', invites'))
         /\ Tight(row, invites) /\ ~CountedTwice => Tight(row', invites')
  <1>t. /\ row \in [Users -> Row] /\ invites \in Seq(Invite) /\ nextId' \in Nat
        /\ ev.capacity \in Nat
    <2>1. nextId' = nextId \/ nextId' = nextId + 1
      BY DEF PlaceOnList
    <2>2. nextId \in Nat /\ row \in [Users -> Row] /\ invites \in Seq(Invite)
      BY DEF TypeOK
    <2>3. ev.capacity \in Nat
      BY RosterAssumption DEF TypeOK, Settings
    <2> QED
      BY <2>1, <2>2, <2>3
  <1>1. PICK inv : inv = EndHold(invites, u)
    OBVIOUS
  <1>2. PICK q : q = Placed(u, s)
    OBVIOUS
  <1>3. /\ q \in [Users -> Row] /\ q[u].state = s
        /\ \A v \in Users \ {u} : q[v] = row[v]
        /\ OwnIds(q, nextId')
        /\ row' = Move(q, IF \/ row[u].state = "attending"
                             \/ HasReserve(invites, u) /\ s # "attending"
                          THEN NextUp(q, inv) ELSE {}, "attending")
    BY <1>1, <1>2, PlacedIs
  <1>4. /\ invites' = inv
        /\ row[u].state # s
        /\ s = "waitlisted" =>
             /\ ev.capacity > 0
             /\ Cardinality(Going(row) \ {u}) + Cardinality(HeldIn(inv)) >= ev.capacity
    BY <1>t, <1>1 DEF PlaceOnList
  <1>5. /\ inv \in Seq(Invite)
        /\ Cardinality(HeldIn(inv)) <= Cardinality(HeldIn(invites))
        /\ Cardinality(HeldIn(invites)) <= Cardinality(HeldIn(inv)) + 1
        /\ ~HasHold(invites, u, "place") => HeldIn(inv) = HeldIn(invites)
    BY <1>t, <1>1, EndHoldFreesOne DEF Single, OneHoldPerPerson
  <1>6. PICK a, b, d, f : /\ a = Taken(row, invites) /\ b = Taken(row, inv)
                          /\ d = Taken(q, inv) /\ f = Taken(row', inv)
    OBVIOUS
  <1>7. /\ a \in Nat /\ b \in Nat /\ d \in Nat /\ b <= a /\ a <= b + 1
        /\ ~HasHold(invites, u, "place") => a = b
    <2>1. PICK g, h, k : /\ g = Cardinality(Going(row)) /\ h = Cardinality(HeldIn(invites))
                         /\ k = Cardinality(HeldIn(inv))
      OBVIOUS
    <2>2. g \in Nat /\ h \in Nat /\ k \in Nat /\ a = g + h /\ b = g + k
      BY <1>t, <1>5, <1>6, <2>1, TakenType
    <2>3. k <= h /\ h <= k + 1 /\ (~HasHold(invites, u, "place") => k = h)
      BY <1>5, <2>1
    <2>4. d \in Nat
      BY <1>3, <1>5, <1>6, TakenType
    <2> QED
      BY <2>2, <2>3, <2>4
  <1>8. CASE s = "attending"
    <2>1. Going(q) = Going(row) \cup {u} /\ Waiting(q) \subseteq Waiting(row)
          /\ u \notin Going(row)
      BY <1>3, <1>4, <1>8 DEF Going, Waiting
    <2>2. row' = q
      BY <1>3, <1>4, <1>8, MoveNobody
    <2>3. Taken(q, inv) = Taken(row, inv) + 1
      BY <1>t, <1>3, <1>5, <2>1, TakenGrowsByOne
    <2>4. d = b + 1
      BY <1>6, <2>3
    <2>5. Tight(row, invites) => Tight(row', invites')
      BY <1>t, <1>4, <1>6, <1>7, <2>1, <2>2, <2>4 DEF Tight
    <2> QED
      BY <1>8, <2>5
  <1>9. CASE s # "attending"
    <2>1. /\ Going(q) = Going(row) \ {u}
          /\ s = "maybe" => Waiting(q) = Waiting(row) \ {u}
      BY <1>3, <1>9 DEF Going, Waiting
    <2>2. d <= b /\ b <= d + 1 /\ (u \notin Going(row) => d = b)
      <3>1. /\ Taken(q, inv) <= Taken(row, inv)
            /\ Taken(row, inv) <= Taken(q, inv) + 1
            /\ u \notin Going(row) => Taken(q, inv) = Taken(row, inv)
        BY <1>t, <1>3, <1>5, <2>1, TakenFallsByOne
      <3> QED
        BY <1>6, <3>1
    <2>3. s = "waitlisted" => Tight(q, inv)
      BY <1>4, <2>1 DEF Tight, Taken
    <2>4. Tight(q, inv) => AlmostTight(q, inv)
      BY <1>t, <1>6, <1>7 DEF Tight, AlmostTight
    <2>5. CASE row[u].state = "attending" \/ HasReserve(invites, u)
      <3>1. row' = Move(q, NextUp(q, inv), "attending")
        BY <1>3, <1>9, <2>5
      <3>2. f \in Nat /\ Within(d, f) /\ (AlmostTight(q, inv) => Tight(row', inv))
        BY <1>t, <1>3, <1>5, <1>6, <3>1, NextUpFits
      <3>3. Within(a, f)
        BY <1>t, <1>7, <2>2, <3>2 DEF Within
      <3>4. ASSUME Tight(row, invites), ~CountedTwice, s = "maybe"
            PROVE  AlmostTight(q, inv)
        <4>1. CASE row[u].state = "attending"
          <5>1. a = b
            BY <1>7, <3>4, <4>1 DEF CountedTwice, OnList
          <5> QED
            BY <1>t, <1>6, <1>7, <2>1, <2>2, <3>4, <5>1 DEF Tight, AlmostTight
        <4>2. CASE row[u].state # "attending"
          <5>1. d = b
            BY <2>2, <4>2 DEF Going
          <5> QED
            BY <1>t, <1>6, <1>7, <2>1, <3>4, <5>1 DEF Tight, AlmostTight
        <4> QED
          BY <4>1, <4>2
      <3>5. Tight(row, invites) /\ ~CountedTwice => Tight(row', inv)
        BY <1>9, <2>3, <2>4, <3>2, <3>4
      <3> QED
        BY <1>4, <1>6, <3>3, <3>5
    <2>6. CASE ~(row[u].state = "attending" \/ HasReserve(invites, u))
      <3>1. row' = q
        BY <1>3, <2>6, MoveNobody
      <3>2. d = b /\ a = b
        BY <1>7, <2>2, <2>6 DEF Going, HasReserve
      <3>3. Within(a, d)
        BY <1>7, <3>2 DEF Within
      <3>4. Tight(row, invites) /\ s = "maybe" => Tight(q, inv)
        BY <1>6, <2>1, <3>2 DEF Tight
      <3> QED
        BY <1>4, <1>6, <1>9, <2>3, <3>1, <3>3, <3>4
    <2> QED
      BY <2>5, <2>6
  <1> QED
    BY <1>8, <1>9

\* A reserve that ends and was live is followed by who is next.
LEMMA FreedHoldFits ==
  ASSUME TypeOK, RowsHaveTheirIds, invites' \in Seq(Invite),
         Cardinality(HeldIn(invites')) <= Cardinality(HeldIn(invites)),
         Cardinality(HeldIn(invites)) <= Cardinality(HeldIn(invites')) + 1,
         \/ row' = Move(row, NextUp(row, invites'), "attending")
         \/ row' = row /\ HeldIn(invites') = HeldIn(invites)
  PROVE  /\ Within(Taken(row, invites), Taken(row', invites'))
         /\ Tight(row, invites) => Tight(row', invites')
  <1>t. /\ row \in [Users -> Row] /\ invites \in Seq(Invite) /\ nextId \in Nat
        /\ ev.capacity \in Nat /\ OwnIds(row, nextId)
    BY RosterAssumption DEF TypeOK, RowsHaveTheirIds, Settings
  <1>1. PICK a, b, d : /\ a = Taken(row, invites) /\ b = Taken(row, invites')
                       /\ d = Taken(row', invites')
    OBVIOUS
  <1>2. /\ a \in Nat /\ b \in Nat /\ b <= a /\ a <= b + 1
        /\ HeldIn(invites') = HeldIn(invites) => a = b
    <2>1. PICK g, h, k : /\ g = Cardinality(Going(row)) /\ h = Cardinality(HeldIn(invites))
                         /\ k = Cardinality(HeldIn(invites'))
      OBVIOUS
    <2>2. g \in Nat /\ h \in Nat /\ k \in Nat /\ a = g + h /\ b = g + k
      BY <1>t, <1>1, <2>1, TakenType
    <2>3. k <= h /\ h <= k + 1 /\ (HeldIn(invites') = HeldIn(invites) => k = h)
      BY <2>1
    <2> QED
      BY <2>2, <2>3
  <1>3. CASE row' = Move(row, NextUp(row, invites'), "attending")
    <2>1. d \in Nat /\ Within(b, d) /\ (AlmostTight(row, invites') => Tight(row', invites'))
      BY <1>t, <1>1, <1>3, NextUpFits
    <2>2. Within(a, d)
      BY <1>t, <1>2, <2>1 DEF Within
    <2>3. Tight(row, invites) => AlmostTight(row, invites')
      BY <1>t, <1>1, <1>2 DEF Tight, AlmostTight
    <2> QED
      BY <1>1, <2>1, <2>2, <2>3
  <1>4. CASE row' = row /\ HeldIn(invites') = HeldIn(invites)
    <2>1. a = d /\ a = b
      BY <1>1, <1>2, <1>4
    <2>2. Within(a, d)
      BY <1>2, <2>1 DEF Within
    <2>3. Tight(row, invites) => Tight(row', invites')
      BY <1>1, <1>4, <2>1 DEF Tight
    <2> QED
      BY <1>1, <2>2, <2>3
  <1> QED
    BY <1>3, <1>4

\* A failed delivery ends the reserve, and is followed by who is next if it was
\* live.
LEMMA DeliveryFits ==
  ASSUME TypeOK, RowsHaveTheirIds, NEW i \in DOMAIN invites, SetInviteDelivery(i)
  PROVE  /\ Within(Taken(row, invites), Taken(row', invites'))
         /\ Tight(row, invites) => Tight(row', invites')
  <1>t. row \in [Users -> Row] /\ invites \in Seq(Invite)
    BY DEF TypeOK
  <1>1. invites' = [invites EXCEPT ![i].delivered = FALSE, ![i].live = FALSE]
    BY DEF SetInviteDelivery
  <1>2. /\ invites[i] \in Invite /\ DOMAIN invites = 1..Len(invites) /\ Len(invites) \in Nat
        /\ \A j \in 1..Len(invites) : invites[j] \in Invite
    BY <1>t, ElementOfSeq, LenProperties
  <1>3. PICK x : x = [[invites[i] EXCEPT !.delivered = FALSE] EXCEPT !.live = FALSE]
    OBVIOUS
  <1>4. x \in Invite /\ x.live = FALSE
    BY <1>2, <1>3 DEF Invite
  <1>5. invites' = [invites EXCEPT ![i] = x]
    BY <1>1, <1>3
  <1>6. invites' \in [1..Len(invites) -> Invite]
    BY <1>2, <1>4, <1>5
  <1>7. invites' \in Seq(Invite)
    BY <1>2, <1>6, SeqDef
  <1>8. HeldIn(invites') = HeldIn(invites) \ {i}
    BY <1>2, <1>4, <1>5 DEF HeldIn
  <1>9. PICK h, k : h = Cardinality(HeldIn(invites)) /\ k = Cardinality(HeldIn(invites'))
    OBVIOUS
  <1>10. h \in Nat /\ k \in Nat /\ k = IF i \in HeldIn(invites) THEN h - 1 ELSE h
    BY <1>t, <1>7, <1>8, <1>9, TakenType, FS_RemoveElement
  <1>11. k <= h /\ h <= k + 1
    BY <1>10
  <1>12. CASE invites[i].live
    <2>1. row' = Move(row, NextUp(row, invites'), "attending")
      BY <1>1, <1>12 DEF SetInviteDelivery
    <2> QED
      BY <1>7, <1>9, <1>11, <2>1, FreedHoldFits
  <1>13. CASE ~invites[i].live
    <2>1. row' = Move(row, {}, "attending")
      BY <1>13 DEF SetInviteDelivery
    <2>2. row' = row
      BY <1>t, <2>1, MoveNobody
    <2>3. HeldIn(invites') = HeldIn(invites)
      BY <1>8, <1>13 DEF HeldIn
    <2> QED
      BY <1>7, <1>9, <1>11, <2>2, <2>3, FreedHoldFits
  <1> QED
    BY <1>12, <1>13

\* A reserve given back is followed by who is next.
LEMMA GivenBackFits ==
  ASSUME TypeOK, RowsHaveTheirIds, OneHoldPerPerson, NEW u \in Users, GiveBackHeldPlace(u)
  PROVE  /\ Within(Taken(row, invites), Taken(row', invites'))
         /\ Tight(row, invites) => Tight(row', invites')
  <1>1. invites \in Seq(Invite) /\ Single(invites)
    BY DEF TypeOK, Single, OneHoldPerPerson
  <1>2. invites' = EndHold(invites, u)
    BY DEF GiveBackHeldPlace
  <1>3. /\ invites' \in Seq(Invite)
        /\ Cardinality(HeldIn(invites')) <= Cardinality(HeldIn(invites))
        /\ Cardinality(HeldIn(invites)) <= Cardinality(HeldIn(invites')) + 1
    BY <1>1, <1>2, EndHoldFreesOne
  <1>4. row' = Move(row, NextUp(row, invites'), "attending")
    BY <1>2 DEF GiveBackHeldPlace
  <1> QED
    BY <1>3, <1>4, FreedHoldFits

\* An invite keeps a place only when one is free; a pass over no kept place
\* changes no count.
LEMMA InviteFits ==
  ASSUME TypeOK, OneHoldPerPerson, NEW u, NEW kind \in {"place", "pass"}, u \in Users,
         RecordInvite(u, kind)
  PROVE  /\ ev.capacity > 0 => Within(Taken(row, invites), Taken(row', invites'))
         /\ Tight(row, invites) /\ (HasHold(invites, u, "place") => kind # "pass") =>
              Tight(row', invites')
  <1>t. /\ row \in [Users -> Row] /\ invites \in Seq(Invite) /\ Single(invites)
        /\ ev.capacity \in Nat
    BY RosterAssumption DEF TypeOK, Settings, Single, OneHoldPerPerson
  <1>1. PICK e : e = EndHold(invites, u)
    OBVIOUS
  <1>2. PICK x : x = [user |-> u, kind |-> kind, live |-> TRUE, delivered |-> TRUE]
    OBVIOUS
  <1>3. x \in Invite /\ x.kind = kind /\ x.live = TRUE
    BY <1>2 DEF Invite
  <1>4. invites' = Append(e, x) /\ row' = row
    BY <1>1, <1>2 DEF RecordInvite
  <1>5. /\ e \in Seq(Invite)
        /\ Cardinality(HeldIn(e)) <= Cardinality(HeldIn(invites))
        /\ ~HasHold(invites, u, "place") => HeldIn(e) = HeldIn(invites)
    BY <1>t, <1>1, EndHoldFreesOne
  <1>6. PICK n : n = Len(e) /\ n \in Nat
    BY <1>5, LenProperties
  <1>7. /\ invites' \in Seq(Invite) /\ Len(invites') = n + 1
        /\ \A j \in 1..n : invites'[j] = e[j]
        /\ invites'[n + 1] = x
    BY <1>3, <1>4, <1>5, <1>6, AppendProperties
  <1>8. DOMAIN invites' = 1..(n + 1) /\ DOMAIN e = 1..n
    BY <1>5, <1>6, <1>7, LenProperties
  <1>9. HeldIn(invites') = IF kind = "place" THEN HeldIn(e) \cup {n + 1} ELSE HeldIn(e)
    BY <1>3, <1>6, <1>7, <1>8 DEF HeldIn
  <1>10. PICK g, h, k, m, c : /\ g = Cardinality(Going(row)) /\ h = Cardinality(HeldIn(invites))
                              /\ k = Cardinality(HeldIn(e)) /\ m = Cardinality(HeldIn(invites'))
                              /\ c = ev.capacity
    OBVIOUS
  <1>11. /\ g \in Nat /\ h \in Nat /\ k \in Nat /\ m \in Nat /\ c \in Nat /\ k <= h
         /\ Taken(row, invites) = g + h /\ Taken(row', invites') = g + m
    BY <1>t, <1>4, <1>5, <1>7, <1>10, TakenType
  <1>12. CASE kind = "place"
    <2>1. m <= k + 1
      <3>1. Cardinality(HeldIn(e) \cup {n + 1}) = k \/ Cardinality(HeldIn(e) \cup {n + 1}) = k + 1
        <4>1. PICK S : S = HeldIn(e)
          OBVIOUS
        <4>2. IsFiniteSet(S) /\ Cardinality(S) = k
          BY <1>t, <1>5, <1>10, <4>1, TakenType
        <4>3. Cardinality(S \cup {n + 1}) =
                IF n + 1 \in S THEN Cardinality(S) ELSE Cardinality(S) + 1
          BY <4>2, FS_AddElement
        <4> QED
          BY <4>1, <4>2, <4>3
      <3>2. m = k \/ m = k + 1
        BY <1>9, <1>10, <1>12, <3>1
      <3> QED
        BY <1>11, <3>2
    <2>2. g + h < c
      BY <1>10, <1>11, <1>12 DEF RecordInvite
    <2>3. Within(Taken(row, invites), Taken(row', invites'))
      BY <1>10, <1>11, <2>1, <2>2 DEF Within
    <2>4. Tight(row, invites) => Tight(row', invites')
      BY <1>4, <1>10, <1>11, <2>2 DEF Tight
    <2> QED
      BY <2>3, <2>4
  <1>13. CASE kind = "pass"
    <2>1. m = k
      BY <1>9, <1>10, <1>13
    <2>2. Within(Taken(row, invites), Taken(row', invites'))
      BY <1>10, <1>11, <2>1 DEF Within
    <2>3. ASSUME ~HasHold(invites, u, "place"), Tight(row, invites)
          PROVE  Tight(row', invites')
      <3>1. m = h
        BY <1>5, <1>10, <2>1, <2>3
      <3> QED
        BY <1>4, <1>10, <1>11, <2>3, <3>1 DEF Tight
    <2> QED
      BY <1>13, <2>2, <2>3
  <1> QED
    BY <1>12, <1>13

\* The call that follows a raised limit fills what is free and no more, and
\* finds nothing to do in a roster with no place idle.
LEMMA FilledFits ==
  ASSUME TypeOK, RowsHaveTheirIds, PromoteToFillCapacity
  PROVE  /\ ev.capacity > 0 => Within(Taken(row, invites), Taken(row', invites'))
         /\ ~Tight(row, invites)
  <1>t. /\ row \in [Users -> Row] /\ invites \in Seq(Invite) /\ invites' = invites
        /\ ev.capacity \in Nat /\ OwnIds(row, nextId)
    BY RosterAssumption DEF TypeOK, Settings, RowsHaveTheirIds, PromoteToFillCapacity
  <1>1. PICK c, t, n : c = ev.capacity /\ t = Taken(row, invites) /\ n = c - t
    OBVIOUS
  <1>2. c \in Nat /\ t \in Nat /\ n \in Int
    BY <1>t, <1>1, TakenType
  <1>3. PICK up : up = IF c = 0 THEN Waiting(row) ELSE FrontOfLine(row, n)
    OBVIOUS
  <1>4. row' = Move(row, up, "attending") /\ up # {}
    BY <1>1, <1>3 DEF PromoteToFillCapacity
  <1>5. up \subseteq Waiting(row) /\ up \in SUBSET Users
    BY <1>3 DEF FrontOfLine, Waiting
  <1>6. c # 0 => n > 0
    <2> SUFFICES ASSUME c # 0, n <= 0
                 PROVE  FALSE
      BY <1>2
    <2>1. PICK v \in up : TRUE
      BY <1>4
    <2>2. v \in Waiting(row) /\ Cardinality(AheadOf(row, v)) < n
      BY <1>3, <2>1 DEF FrontOfLine
    <2>3. AheadOf(row, v) \in SUBSET Users
      BY DEF AheadOf, Waiting
    <2>4. Cardinality(AheadOf(row, v)) \in Nat
      BY <2>3, FiniteLine
    <2> QED
      BY <1>2, <2>2, <2>4
  <1>7. ~Tight(row, invites)
    BY <1>1, <1>2, <1>4, <1>5, <1>6 DEF Tight
  <1>8. ASSUME c > 0
        PROVE  Within(t, Taken(row', invites'))
    <2>1. up = FrontOfLine(row, n) /\ n \in Nat
      BY <1>2, <1>3, <1>6, <1>8
    <2>2. PICK h, g, k : /\ h = Cardinality(up) /\ g = Cardinality(Going(row))
                         /\ k = Cardinality(HeldIn(invites))
      OBVIOUS
    <2>3. h <= n /\ h \in Nat
      BY <1>t, <1>5, <2>1, <2>2, FrontAtMost, FiniteLine
    <2>4. row' \in [Users -> Row] /\ Going(row') = Going(row) \cup up
      <3>1. "attending" \in State
        BY DEF State
      <3>2. row' \in [Users -> Row]
        BY <1>t, <1>4, <3>1, MoveType
      <3>3. Going(Move(row, up, "attending")) = Going(row) \cup up
        <4>1. \A v \in up : [row[v] EXCEPT !.state = "attending"].state = "attending"
          BY <1>t, <1>5 DEF Row
        <4> QED
          BY <1>5, <4>1 DEF Move, Going
      <3> QED
        BY <1>4, <3>2, <3>3
    <2>5. Cardinality(Going(row) \cup up) = g + h - Cardinality(Going(row) \cap up)
      BY <1>t, <1>5, <2>2, TakenType, FiniteLine, FS_Union
    <2>6. Going(row) \cap up = {}
      BY <1>5 DEF Going, Waiting
    <2>7. Cardinality(Going(row) \cap up) = 0
      BY <2>6, FS_EmptySet
    <2>8. /\ g \in Nat /\ k \in Nat /\ t = g + k
          /\ Taken(row', invites') = (g + h - 0) + k
      BY <1>t, <1>1, <2>2, <2>4, <2>5, <2>7, TakenType DEF Taken
    <2>9. Taken(row', invites') <= c
      BY <1>1, <1>2, <2>3, <2>8
    <2> QED
      BY <1>1, <2>9 DEF Within
  <1> QED
    BY <1>1, <1>7, <1>8

\* Where nobody's state changes and no kept place does, no count does.
LEMMA SameCounts ==
  ASSUME TypeOK, \A v \in Users : row'[v].state = row[v].state,
         HeldIn(invites') = HeldIn(invites)
  PROVE  /\ Within(Taken(row, invites), Taken(row', invites'))
         /\ Tight(row, invites) => Tight(row', invites')
  <1>1. Going(row') = Going(row) /\ Waiting(row') = Waiting(row)
    BY DEF Going, Waiting
  <1>2. Taken(row', invites') = Taken(row, invites)
    BY <1>1 DEF Taken
  <1>3. Taken(row, invites) \in Nat
    BY TakenType DEF TypeOK
  <1> QED
    BY <1>1, <1>2, <1>3 DEF Within, Tight

LimitKept ==
  /\ Taken(row', invites') > Taken(row, invites)
  /\ ev' = ev /\ ev.capacity > 0
  /\ ~RollOverOccurrence
  /\ \A u \in Users : ~GiveAPlace(u) /\ ~PlaceOnList(u, "attending")
  /\ \A u \in Users : HasHold(invites, u, "pass") => ~Join(u) /\ ~MarkInterested(u)
  => Taken(row', invites') <= ev.capacity

\* Who comes on by themselves, by a press or by Discord's list.
LEMMA JoinFits ==
  ASSUME TypeOK, OneHoldPerPerson, NEW u \in Users, Join(u)
  PROVE  /\ ev.capacity > 0 /\ ~HasHold(invites, u, "pass") =>
              Within(Taken(row, invites), Taken(row', invites'))
         /\ Tight(row, invites) => Tight(row', invites')
  <1>t. row \in [Users -> Row] /\ nextId \in Nat /\ clock \in Nat /\ row[u].interested \in BOOLEAN
    BY DEF TypeOK, Row
  <1>1. PICK s : s = IF Full(u) THEN "waitlisted" ELSE "attending"
    OBVIOUS
  <1>2. s \in State
    BY <1>1 DEF State
  <1>3. row' = Fresh(row, u, s, nextId, row[u].interested) /\ invites' = EndHold(invites, u)
        /\ row[u].state \notin OnList
    BY <1>1 DEF Join
  <1>4. /\ row' \in [Users -> Row] /\ row'[u].state = s
        /\ \A v \in Users \ {u} : row'[v] = row[v]
    BY <1>t, <1>2, <1>3, FreshType, FreshIs
  <1> QED
    BY <1>1, <1>3, <1>4, ComingOnFits

\* Discord's list counts as a press does.
LEMMA InterestedFits ==
  ASSUME TypeOK, OneHoldPerPerson, NEW u \in Users, MarkInterested(u)
  PROVE  /\ ev.capacity > 0 /\ ~HasHold(invites, u, "pass") =>
              Within(Taken(row, invites), Taken(row', invites'))
         /\ Tight(row, invites) => Tight(row', invites')
  <1>t. row \in [Users -> Row] /\ nextId \in Nat /\ clock \in Nat
    BY DEF TypeOK
  <1>1. PICK s : s = IF Full(u) THEN "waitlisted" ELSE "attending"
    OBVIOUS
  <1>2. s \in State
    BY <1>1 DEF State
  <1>3. CASE ComesOn(u)
    <2>1. invites' = EndHold(invites, u) /\ row[u].state \notin OnList
      BY <1>3 DEF MarkInterested, ComesOn
    <2>2. \/ row' = Fresh(row, u, s, nextId, TRUE)
          \/ row' = [row EXCEPT ![u].state = s, ![u].at = clock, ![u].interested = TRUE]
      BY <1>1, <1>3 DEF MarkInterested
    <2>3. CASE row' = Fresh(row, u, s, nextId, TRUE)
      <3>1. /\ row' \in [Users -> Row] /\ row'[u].state = s
            /\ \A v \in Users \ {u} : row'[v] = row[v]
        <4>1. row' \in [Users -> Row]
          BY <1>t, <1>2, <2>3, FreshType
        <4> QED
          BY <1>t, <2>3, <4>1 DEF Fresh
      <3> QED
        BY <1>1, <2>1, <3>1, ComingOnFits
    <2>4. CASE row' = [row EXCEPT ![u].state = s, ![u].at = clock, ![u].interested = TRUE]
      <3>1. /\ row' \in [Users -> Row] /\ row'[u].state = s
            /\ \A v \in Users \ {u} : row'[v] = row[v]
        BY <1>t, <1>2, <2>4 DEF Row
      <3> QED
        BY <1>1, <2>1, <3>1, ComingOnFits
    <2> QED
      BY <2>2, <2>3, <2>4
  <1>4. CASE ~ComesOn(u)
    <2>1. invites' = invites /\ \A v \in Users : row'[v].state = row[v].state
      BY <1>t, <1>4 DEF MarkInterested, Row
    <2> QED
      BY <2>1, SameCounts
  <1> QED
    BY <1>3, <1>4

\* Ranking the line changes nobody's state.
LEMMA MoveInWaitlistFits ==
  ASSUME TypeOK, NEW u, NEW to, MoveInWaitlist(u, to)
  PROVE  \A v \in Users : row'[v].state = row[v].state
  <1>1. \A v \in Users : \A k : [row[v] EXCEPT !.rank = k].state = row[v].state
    BY DEF TypeOK, Row
  <1> QED
    BY <1>1 DEF MoveInWaitlist

\* The steps that change no count.
Idle ==
  \/ \E u \in Users, to \in 1..Cardinality(Users) : MoveInWaitlist(u, to)
  \/ \E u \in Fans : ClearInterest(u)
  \/ row' = row /\ invites' = invites

\* They leave every count as it was.
LEMMA IdleFits ==
  ASSUME TypeOK, Idle
  PROVE  /\ Within(Taken(row, invites), Taken(row', invites'))
         /\ Tight(row, invites) => Tight(row', invites')
  <1>1. \A u : ClearInterest(u) => \A v \in Users : row'[v].state = row[v].state
    BY DEF ClearInterest, TypeOK, Row
  <1>2. \A v \in Users : row'[v].state = row[v].state
    BY <1>1, MoveInWaitlistFits DEF Idle
  <1>3. invites' = invites
    BY DEF Idle, MoveInWaitlist, ClearInterest
  <1> QED
    BY <1>2, <1>3, SameCounts

\* The second half of an un-mark is a withdrawal, or nothing.
LEMMA LeaveUnmarkedFits ==
  ASSUME TypeOK, RowsHaveTheirIds, NEW u \in Users, LeaveUnmarked(u)
  PROVE  /\ Within(Taken(row, invites), Taken(row', invites'))
         /\ Tight(row, invites) => Tight(row', invites')
  <1>1. invites' = invites
    BY DEF LeaveUnmarked
  <1>2. CASE row' = row
    BY <1>1, <1>2, SameCounts
  <1>3. CASE row[u].state # "none" /\ Withdraw(u)
    BY <1>1, <1>3, WithdrawFits
  <1> QED
    BY <1>2, <1>3 DEF LeaveUnmarked

\* No step takes the event past its limit but the ones the property leaves out.
LEMMA LimitStep ==
  ASSUME TypeOK, RowsHaveTheirIds, OneHoldPerPerson, [Next]_vars
  PROVE  LimitKept
  <1> SUFFICES ASSUME Taken(row', invites') > Taken(row, invites),
                      ev' = ev, ev.capacity > 0,
                      ~RollOverOccurrence,
                      \A u \in Users : ~GiveAPlace(u) /\ ~PlaceOnList(u, "attending"),
                      \A u \in Users : HasHold(invites, u, "pass") =>
                                         ~Join(u) /\ ~MarkInterested(u)
               PROVE  Taken(row', invites') <= ev.capacity
    BY DEF LimitKept
  <1>t. TypeOK'
    BY TypeStep
  <1>a. Taken(row, invites) \in Nat /\ Taken(row', invites') \in Nat
    BY <1>t, TakenType DEF TypeOK
  <1>1. ASSUME Within(Taken(row, invites), Taken(row', invites'))
        PROVE  Taken(row', invites') <= ev.capacity
    BY <1>1, <1>a DEF Within
  <1>2. ASSUME NEW u \in Users, Join(u)
        PROVE  Taken(row', invites') <= ev.capacity
    BY <1>1, <1>2, JoinFits
  <1>3. ASSUME NEW u \in Users, Leave(u)
        PROVE  Taken(row', invites') <= ev.capacity
    <2>1. row[u].state # "none" /\ Withdraw(u) /\ invites' = invites
      BY <1>3 DEF Leave
    <2> QED
      BY <1>1, <2>1, WithdrawFits
  <1>4. ASSUME NEW u \in Users, MarkMaybe(u)
        PROVE  Taken(row', invites') <= ev.capacity
    BY <1>1, <1>4, MarkMaybeFits
  <1>5. ASSUME NEW u \in Users, NEW s \in {"attending", "maybe", "waitlisted"}, PlaceOnList(u, s)
        PROVE  Taken(row', invites') <= ev.capacity
    BY <1>1, <1>5, PlacedFits
  <1>6. ASSUME NEW u \in Users, NEW kind \in {"place", "pass"}, RecordInvite(u, kind)
        PROVE  Taken(row', invites') <= ev.capacity
    BY <1>1, <1>6, InviteFits
  <1>7. ASSUME NEW i \in DOMAIN invites, SetInviteDelivery(i)
        PROVE  Taken(row', invites') <= ev.capacity
    BY <1>1, <1>7, DeliveryFits
  <1>8. ASSUME NEW u \in Users, GiveBackHeldPlace(u)
        PROVE  Taken(row', invites') <= ev.capacity
    BY <1>1, <1>8, GivenBackFits
  <1>9. CASE PromoteToFillCapacity
    BY <1>1, <1>9, FilledFits
  <1>10. ASSUME NEW u \in Users, MarkInterested(u)
         PROVE  Taken(row', invites') <= ev.capacity
    BY <1>1, <1>10, InterestedFits
  <1>11. ASSUME NEW u \in Users, LeaveUnmarked(u)
         PROVE  Taken(row', invites') <= ev.capacity
    BY <1>1, <1>11, LeaveUnmarkedFits
  <1>12. CASE Idle
    BY <1>1, <1>12, IdleFits
  <1>f. Fans \subseteq Users /\ Invitees \subseteq Users
    BY RosterAssumption
  <1>13. CASE row' = row /\ invites' = invites
    BY <1>12, <1>13 DEF Idle
  <1>14. ASSUME NEW u \in Users, NEW to \in 1..Cardinality(Users), MoveInWaitlist(u, to)
         PROVE  Taken(row', invites') <= ev.capacity
    BY <1>12, <1>14 DEF Idle
  <1>15. ASSUME NEW u \in Fans, ClearInterest(u)
         PROVE  Taken(row', invites') <= ev.capacity
    BY <1>12, <1>15 DEF Idle
  <1> QED
    BY <1>f, <1>2, <1>3, <1>4, <1>5, <1>6, <1>7, <1>8, <1>9, <1>10, <1>11, <1>13, <1>14, <1>15
       DEF Next, vars, UpdateEvent, DeleteEvent, Restart, MakeRegular, EndRegular,
           MakeHostRegular, Tick

\* The invariants the counts rest on.
LEMMA RosterInvariant ==
  Spec => [](TypeOK /\ RowsHaveTheirIds /\ OneHoldPerPerson)
  <1>1. Init => RowsHaveTheirIds
    BY DEF Init, RowsHaveTheirIds, OwnIds, NoRow
  <1>2. TypeOK /\ RowsHaveTheirIds /\ [Next]_vars => RowsHaveTheirIds'
    BY IdsStep
  <1> QED
    BY <1>1, <1>2, TypeCorrect, OneHold, PTL DEF Spec

\* For any number of people and invites and any limit: a step in which the
\* places taken grow, other than by an organizer, a pass or a new date, ends
\* within the limit.
THEOREM TheLimitHolds == Spec => LimitHolds
  <1>1. (TypeOK /\ RowsHaveTheirIds /\ OneHoldPerPerson) /\ [Next]_vars =>
          [/\ Taken(row', invites') > Taken(row, invites)
           /\ ev' = ev /\ ev.capacity > 0
           /\ ~RollOverOccurrence
           /\ \A u \in Users : ~GiveAPlace(u) /\ ~PlaceOnList(u, "attending")
           /\ \A u \in Users : HasHold(invites, u, "pass") => ~Join(u) /\ ~MarkInterested(u)
           => Taken(row', invites') <= ev.capacity]_vars
    BY LimitStep DEF LimitKept
  <1> QED
    BY <1>1, RosterInvariant, PTL DEF Spec, LimitHolds

-----------------------------------------------------------------------------
(* Each freed place is given.                                              *)

FreedIsGiven ==
  /\ NoIdlePlace /\ ~CountedTwice /\ ev' = ev
  /\ \A u \in Invitees : HasHold(invites, u, "place") => ~RecordInvite(u, "pass")
  => NoIdlePlace'

\* Tight is NoIdlePlace, for any rows and invites.
LEMMA TightIsNoIdle == ev' = ev => /\ NoIdlePlace <=> Tight(row, invites)
                                   /\ NoIdlePlace' <=> Tight(row', invites')
  BY DEF NoIdlePlace, Tight, Waiting, Taken, Going, HeldIn

\* No step leaves a freed place idle.
LEMMA FreedStep ==
  ASSUME TypeOK, RowsHaveTheirIds, OneHoldPerPerson, [Next]_vars
  PROVE  FreedIsGiven
  <1> SUFFICES ASSUME Tight(row, invites), ~CountedTwice, ev' = ev,
                      \A u \in Invitees :
                        HasHold(invites, u, "place") => ~RecordInvite(u, "pass")
               PROVE  Tight(row', invites')
    BY TightIsNoIdle DEF FreedIsGiven
  <1>1. ASSUME NEW u \in Users, Join(u)
        PROVE  Tight(row', invites')
    BY <1>1, JoinFits
  <1>2. ASSUME NEW u \in Users, Leave(u)
        PROVE  Tight(row', invites')
    <2>1. row[u].state # "none" /\ Withdraw(u) /\ invites' = invites
      BY <1>2 DEF Leave
    <2> QED
      BY <2>1, WithdrawFits
  <1>3. ASSUME NEW u \in Users, MarkMaybe(u)
        PROVE  Tight(row', invites')
    BY <1>3, MarkMaybeFits
  <1>4. ASSUME NEW u \in Users, NEW s \in {"attending", "maybe", "waitlisted"}, PlaceOnList(u, s)
        PROVE  Tight(row', invites')
    BY <1>4, PlacedFits
  <1>5. ASSUME NEW u \in Users, GiveAPlace(u)
        PROVE  Tight(row', invites')
    <2>1. row \in [Users -> Row] /\ invites \in Seq(Invite) /\ ev.capacity \in Nat
      BY RosterAssumption DEF TypeOK, Settings
    <2>2. /\ row' = Move(row, {u}, "attending") /\ invites' = invites
          /\ row[u].state \in {"waitlisted", "maybe"}
      BY <1>5 DEF GiveAPlace
    <2>3. row' \in [Users -> Row]
      BY <2>1, <2>2, MoveType DEF State
    <2>4. [row[u] EXCEPT !.state = "attending"].state = "attending"
      BY <2>1 DEF Row
    <2>5. /\ Going(row') = Going(row) \cup {u} /\ u \notin Going(row)
          /\ Waiting(row') \subseteq Waiting(row)
      BY <2>2, <2>4 DEF Going, Waiting, Move
    <2>6. Taken(row', invites) = Taken(row, invites) + 1 /\ Taken(row, invites) \in Nat
      BY <2>1, <2>3, <2>5, TakenGrowsByOne, TakenType
    <2>7. CASE Waiting(row) = {}
      BY <2>5, <2>7 DEF Tight
    <2>8. CASE ev.capacity > 0 /\ Taken(row, invites) >= ev.capacity
      <3>1. Taken(row', invites) >= ev.capacity
        BY <2>1, <2>6, <2>8
      <3> QED
        BY <2>2, <2>8, <3>1 DEF Tight
    <2> QED
      BY <2>7, <2>8 DEF Tight
  <1>6. ASSUME NEW u \in Invitees, NEW kind \in {"place", "pass"}, RecordInvite(u, kind)
        PROVE  Tight(row', invites')
    BY <1>6, InviteFits, RosterAssumption
  <1>7. ASSUME NEW i \in DOMAIN invites, SetInviteDelivery(i)
        PROVE  Tight(row', invites')
    BY <1>7, DeliveryFits
  <1>8. ASSUME NEW u \in Users, GiveBackHeldPlace(u)
        PROVE  Tight(row', invites')
    BY <1>8, GivenBackFits
  <1>9. CASE PromoteToFillCapacity
    BY <1>9, FilledFits
  <1>10. ASSUME NEW u \in Users, MarkInterested(u)
         PROVE  Tight(row', invites')
    BY <1>10, InterestedFits
  <1>11. ASSUME NEW u \in Users, LeaveUnmarked(u)
         PROVE  Tight(row', invites')
    BY <1>11, LeaveUnmarkedFits
  <1>12. CASE Idle
    BY <1>12, IdleFits
  <1>13. CASE row' = row /\ invites' = invites
    BY <1>12, <1>13 DEF Idle
  <1>14. ASSUME NEW u \in Users, NEW to \in 1..Cardinality(Users), MoveInWaitlist(u, to)
         PROVE  Tight(row', invites')
    BY <1>12, <1>14 DEF Idle
  <1>15. ASSUME NEW u \in Fans, ClearInterest(u)
         PROVE  Tight(row', invites')
    BY <1>12, <1>15 DEF Idle
  <1>16. CASE RollOverOccurrence
    BY <1>16, NobodyWaitsAfterTheDate DEF Tight
  <1>f. Fans \subseteq Users
    BY RosterAssumption
  <1> QED
    BY <1>f, <1>1, <1>2, <1>3, <1>4, <1>5, <1>6, <1>7, <1>8, <1>9, <1>10, <1>11, <1>13, <1>14,
       <1>15, <1>16
       DEF Next, vars, UpdateEvent, DeleteEvent, Restart, MakeRegular, EndRegular,
           MakeHostRegular, Tick

\* For any number of people and invites and any limit: no roster move leaves a
\* place idle that was not, somebody waiting; the place each frees is given in
\* the same transaction.
THEOREM EachFreedPlaceIsGiven == Spec => FreedPlaceIsGiven
  <1>1. (TypeOK /\ RowsHaveTheirIds /\ OneHoldPerPerson) /\ [Next]_vars =>
          [/\ NoIdlePlace /\ ~CountedTwice /\ ev' = ev
           /\ \A u \in Invitees : HasHold(invites, u, "place") => ~RecordInvite(u, "pass")
           => NoIdlePlace']_vars
    BY FreedStep DEF FreedIsGiven
  <1> QED
    BY <1>1, RosterInvariant, PTL DEF Spec, FreedPlaceIsGiven

-----------------------------------------------------------------------------
(* Newcomers join the back.                                                *)

\* No row was signed up later than now.
NoRowIsFromLater == \A u \in Users : row[u].at <= clock

\* Moves of people change no time of theirs.
LEMMA MoveKeepsTimes ==
  ASSUME NEW r \in [Users -> Row], NEW P, NEW s, NEW v \in Users
  PROVE  Move(r, P, s)[v].at = r[v].at /\ Move(r, P, s)[v].rank = r[v].rank
         /\ Move(r, P, s)[v].id = r[v].id
  BY DEF Move, Row

Timely(q) == \A v \in Users : q[v].at <= clock

\* Moving people brings no row from the future.
LEMMA MoveTimely ==
  ASSUME NEW r \in [Users -> Row], Timely(r), NEW P, NEW s
  PROVE  Timely(Move(r, P, s))
  BY MoveKeepsTimes DEF Timely

\* A new row is from now.
LEMMA FreshTimely ==
  ASSUME NEW r \in [Users -> Row], Timely(r), NEW u \in Users, NEW s, NEW id, NEW interested,
         clock \in Nat
  PROVE  Timely(Fresh(r, u, s, id, interested))
  BY DEF Timely, Fresh, Row

\* Nobody new is waiting after a move that puts nobody there.
LEMMA WithdrawTimely ==
  ASSUME TypeOK, Timely(row), NEW u \in Users, Withdraw(u)
  PROVE  Timely(row') /\ Waiting(row') \subseteq Waiting(row)
  <1> DEFINE gone == Move(row, {u}, "withdrawn")
             up   == IF row[u].state = "attending" THEN NextUp(gone, invites) ELSE {}
  <1>1. gone \in [Users -> Row]
    BY MovedOne DEF TypeOK, State
  <1>2. Timely(gone)
    BY MoveTimely DEF TypeOK
  <1>3. row' = Move(gone, up, "attending")
    BY DEF Withdraw
  <1>4. Waiting(gone) \subseteq Waiting(row)
    <2>1. [row[u] EXCEPT !.state = "withdrawn"].state = "withdrawn"
      BY DEF TypeOK, Row
    <2> QED
      BY <2>1 DEF Waiting, Move
  <1> HIDE DEF gone, up
  <1>5. Timely(row')
    BY <1>1, <1>2, <1>3, MoveTimely
  <1>6. Waiting(row') \subseteq Waiting(gone)
    BY <1>1, <1>3, MoveUpAddsNobody
  <1> QED
    BY <1>4, <1>5, <1>6

\* Every step keeps rows from the past.
LEMMA TimesStep ==
  ASSUME TypeOK, NoRowIsFromLater, [Next]_vars
  PROVE  NoRowIsFromLater'
  <1>t. /\ row \in [Users -> Row] /\ clock \in Nat /\ nextId \in Nat /\ Timely(row)
        /\ \A u \in Users : row[u].interested \in BOOLEAN
    BY DEF TypeOK, Timely, NoRowIsFromLater, Row
  <1>0. ASSUME clock' = clock, Timely(row')
        PROVE  NoRowIsFromLater'
    BY <1>0 DEF NoRowIsFromLater, Timely
  <1>1. ASSUME NEW u \in Users, Join(u)
        PROVE  NoRowIsFromLater'
    BY <1>t, <1>0, <1>1, FreshTimely DEF Join
  <1>2. ASSUME NEW u \in Users, Leave(u)
        PROVE  NoRowIsFromLater'
    BY <1>t, <1>0, <1>2, WithdrawTimely DEF Leave
  <1>3. ASSUME NEW u \in Users, MarkMaybe(u)
        PROVE  NoRowIsFromLater'
    <2>1. PICK r1 : /\ r1 = Move(row, IF HasReserve(invites, u)
                                      THEN NextUp(row, EndHold(invites, u)) ELSE {}, "attending")
      OBVIOUS
    <2>2. PICK r2 : r2 = Move(r1, {u}, "maybe")
      OBVIOUS
    <2>3. /\ \/ row' = r1
             \/ \E P : row' = Move(r2, P, "attending")
             \/ row' = Fresh(r1, u, "maybe", nextId, row[u].interested)
          /\ clock' = clock
      BY <1>3, <2>1, <2>2 DEF MarkMaybe
    <2>4. r1 \in [Users -> Row] /\ Timely(r1)
      BY <1>t, <2>1, MoveType, MoveTimely DEF State
    <2>5. r2 \in [Users -> Row] /\ Timely(r2)
      BY <2>2, <2>4, MoveType, MoveTimely DEF State
    <2>6. Timely(Fresh(r1, u, "maybe", nextId, row[u].interested))
      BY <1>t, <2>4, FreshTimely
    <2> QED
      BY <1>0, <2>3, <2>4, <2>5, <2>6, MoveTimely
  <1>4. ASSUME NEW u \in Users, GiveAPlace(u)
        PROVE  NoRowIsFromLater'
    BY <1>t, <1>0, <1>4, MoveTimely DEF GiveAPlace
  <1>5. ASSUME NEW u \in Users, NEW s \in {"attending", "maybe", "waitlisted"}, PlaceOnList(u, s)
        PROVE  NoRowIsFromLater'
    <2>1. PICK P : row' = Move(Placed(u, s), P, "attending")
      BY <1>5, PlacedIs
    <2>2. clock' = clock
      BY <1>5 DEF PlaceOnList
    <2>3. Placed(u, s) \in [Users -> Row]
      BY PlacedIs
    <2>4. Timely(Placed(u, s))
      BY <1>t, MoveTimely, FreshTimely DEF Placed
    <2> QED
      BY <1>0, <2>1, <2>2, <2>3, <2>4, MoveTimely
  <1>6. ASSUME NEW u \in Users, NEW to, MoveInWaitlist(u, to)
        PROVE  NoRowIsFromLater'
    <2>1. \A v \in Users : \A k : [row[v] EXCEPT !.rank = k].at = row[v].at
      BY <1>t DEF Row
    <2> QED
      BY <1>t, <1>0, <1>6, <2>1 DEF MoveInWaitlist, Timely
  <1>7. ASSUME NEW i, SetInviteDelivery(i)
        PROVE  NoRowIsFromLater'
    BY <1>t, <1>0, <1>7, MoveTimely DEF SetInviteDelivery
  <1>8. ASSUME NEW u \in Users, GiveBackHeldPlace(u)
        PROVE  NoRowIsFromLater'
    BY <1>t, <1>0, <1>8, MoveTimely DEF GiveBackHeldPlace
  <1>9. CASE PromoteToFillCapacity
    BY <1>t, <1>0, <1>9, MoveTimely DEF PromoteToFillCapacity
  <1>10. ASSUME NEW u \in Users, MarkInterested(u)
         PROVE  NoRowIsFromLater'
    <2>1. clock' = clock
      BY <1>10 DEF MarkInterested
    <2>2. \A v \in Users : row'[v].at \in {row[v].at, clock}
      BY <1>t, <1>10 DEF MarkInterested, Fresh, Row
    <2> QED
      BY <1>t, <1>0, <2>1, <2>2 DEF Timely
  <1>11. ASSUME NEW u \in Users, ClearInterest(u)
         PROVE  NoRowIsFromLater'
    <2>1. clock' = clock
      BY <1>11 DEF ClearInterest
    <2>2. \A v \in Users : row'[v].at = row[v].at
      BY <1>t, <1>11 DEF ClearInterest, Row
    <2> QED
      BY <1>t, <1>0, <2>1, <2>2 DEF Timely
  <1>12. ASSUME row' = row, clock' = clock
         PROVE  NoRowIsFromLater'
    BY <1>t, <1>0, <1>12
  <1>13. ASSUME NEW u \in Users, LeaveUnmarked(u)
         PROVE  NoRowIsFromLater'
    BY <1>t, <1>0, <1>12, <1>13, WithdrawTimely DEF LeaveUnmarked
  <1>14. CASE RollOverOccurrence
    <2> DEFINE on == {u \in Users : row[u].state \notin {"none", "withdrawn"}}
    <2>1. clock' = clock
      BY <1>14 DEF RollOverOccurrence
    <2>2. \A v \in Users : row'[v].at = clock \/ row'[v] = Move(row, on, "withdrawn")[v]
      BY <1>14 DEF RollOverOccurrence
    <2>3. \A v \in Users : Move(row, on, "withdrawn")[v].at <= clock
      BY <1>t, MoveTimely DEF Timely
    <2> HIDE DEF on
    <2> QED
      BY <1>t, <1>0, <2>1, <2>2, <2>3 DEF Timely
  <1>15. CASE Tick
    <2>1. row' = row /\ clock' = clock + 1
      BY <1>15 DEF Tick
    <2>2. \A v \in Users : row[v].at \in Nat
      BY <1>t DEF Row
    <2> QED
      BY <1>t, <2>1, <2>2 DEF NoRowIsFromLater, Timely
  <1>f. Fans \subseteq Users
    BY RosterAssumption
  <1> QED
    BY <1>f, <1>1, <1>2, <1>3, <1>4, <1>5, <1>6, <1>7, <1>8, <1>9, <1>10, <1>11, <1>12, <1>13,
       <1>14, <1>15
       DEF Next, vars, RecordInvite, UpdateEvent, DeleteEvent, Restart, MakeRegular,
           EndRegular, MakeHostRegular

\* A new row, put behind everybody of the line.
LEMMA FreshJoinsTheBack ==
  ASSUME TypeOK, RowsHaveTheirIds, NoRowIsFromLater, NEW u \in Users, NEW interested,
         NEW q, q = Fresh(row, u, "waitlisted", nextId, interested),
         \A v \in Users : v \in Waiting(row') => row'[v] = q[v]
  PROVE  JoinsTheBack
  <1> SUFFICES ASSUME NEW x \in Waiting(row') \ Waiting(row),
                      NEW v \in Waiting(row) \cap Waiting(row')
               PROVE  Ahead(row', v, x)
    BY DEF JoinsTheBack
  <1>1. x \in Users /\ v \in Users /\ row'[x] = q[x] /\ row'[v] = q[v]
    BY DEF Waiting
  <1>2. \A w \in Users \ {u} : q[w] = row[w]
    BY FreshIs DEF TypeOK
  <1>3. x = u
    BY <1>1, <1>2 DEF Waiting
  <1>4. /\ q[u] = [state |-> "waitlisted", rank |-> 0, at |-> clock, id |-> nextId,
                   interested |-> interested]
    BY DEF Fresh, TypeOK
  <1>5. v # u
    BY <1>3
  <1>6. row'[v] = row[v] /\ row[v].state # "none"
    BY <1>1, <1>2, <1>5 DEF Waiting
  <1>7. PICK rank, at, id : rank = row[v].rank /\ at = row[v].at /\ id = row[v].id
    OBVIOUS
  <1>8. rank \in Nat /\ at \in Nat /\ id \in Nat /\ at <= clock /\ id < nextId
        /\ clock \in Nat /\ nextId \in Nat
    BY <1>1, <1>6, <1>7 DEF TypeOK, Row, NoRowIsFromLater, RowsHaveTheirIds, OwnIds
  <1>9. /\ row'[v].rank = rank /\ row'[v].at = at /\ row'[v].id = id
        /\ row'[x].rank = 0 /\ row'[x].at = clock /\ row'[x].id = nextId
    BY <1>1, <1>3, <1>4, <1>6, <1>7
  <1> QED
    BY <1>8, <1>9 DEF Ahead

\* Where nobody new waits there is nothing to show.
LEMMA NobodyNewJoinsTheBack == Waiting(row') \subseteq Waiting(row) => JoinsTheBack
  BY DEF JoinsTheBack

\* Every step that adds to the line adds at its back.
LEMMA NewcomerStep ==
  ASSUME TypeOK, RowsHaveTheirIds, NoRowIsFromLater, [Next]_vars,
         \A u \in Fans : row[u].state # "none" => ~MarkInterested(u)
  PROVE  JoinsTheBack
  <1>t. /\ row \in [Users -> Row] /\ clock \in Nat /\ nextId \in Nat
        /\ Timely(row) /\ \A u \in Users : row[u].interested \in BOOLEAN
    BY DEF TypeOK, Timely, NoRowIsFromLater, Row
  <1>0. ASSUME Waiting(row') \subseteq Waiting(row)
        PROVE  JoinsTheBack
    BY <1>0, NobodyNewJoinsTheBack
  <1>1. ASSUME NEW u \in Users, Join(u)
        PROVE  JoinsTheBack
    <2>1. CASE Full(u)
      <3>1. row' = Fresh(row, u, "waitlisted", nextId, row[u].interested)
        BY <1>1, <2>1 DEF Join
      <3> QED
        BY <3>1, FreshJoinsTheBack
    <2>2. CASE ~Full(u)
      <3>1. row' = Fresh(row, u, "attending", nextId, row[u].interested)
        BY <1>1, <2>2 DEF Join
      <3>2. Waiting(row') \subseteq Waiting(row)
        BY <1>t, <3>1 DEF Fresh, Waiting
      <3> QED
        BY <1>0, <3>2
    <2> QED
      BY <2>1, <2>2
  <1>2. ASSUME NEW u \in Users, Leave(u)
        PROVE  JoinsTheBack
    BY <1>t, <1>0, <1>2, WithdrawTimely DEF Leave
  <1>3. ASSUME NEW u \in Users, MarkMaybe(u)
        PROVE  JoinsTheBack
    <2>1. PICK r1 : /\ r1 = Move(row, IF HasReserve(invites, u)
                                      THEN NextUp(row, EndHold(invites, u)) ELSE {}, "attending")
      OBVIOUS
    <2>2. PICK r2 : r2 = Move(r1, {u}, "maybe")
      OBVIOUS
    <2>3. \/ row' = r1
          \/ \E P : row' = Move(r2, P, "attending")
          \/ row' = Fresh(r1, u, "maybe", nextId, row[u].interested)
      BY <1>3, <2>1, <2>2 DEF MarkMaybe
    <2>4. r1 \in [Users -> Row] /\ Waiting(r1) \subseteq Waiting(row)
      BY <1>t, <2>1, MoveType, MoveUpAddsNobody DEF State
    <2>5. r2 \in [Users -> Row] /\ Waiting(r2) \subseteq Waiting(r1)
      <3>1. r2 \in [Users -> Row]
        BY <2>2, <2>4, MoveType DEF State
      <3>2. [r1[u] EXCEPT !.state = "maybe"].state = "maybe"
        BY <2>4 DEF Row
      <3> QED
        BY <2>2, <3>1, <3>2 DEF Waiting, Move
    <2>6. Waiting(Fresh(r1, u, "maybe", nextId, row[u].interested)) \subseteq Waiting(r1)
      BY <2>4 DEF Waiting, Fresh
    <2> QED
      BY <1>0, <2>3, <2>4, <2>5, <2>6, MoveUpAddsNobody
  <1>4. ASSUME NEW u \in Users, GiveAPlace(u)
        PROVE  JoinsTheBack
    BY <1>t, <1>0, <1>4, MoveUpAddsNobody DEF GiveAPlace
  <1>5. ASSUME NEW u \in Users, NEW s \in {"attending", "maybe", "waitlisted"}, PlaceOnList(u, s)
        PROVE  JoinsTheBack
    <2>1. PICK P : row' = Move(Placed(u, s), P, "attending")
      BY <1>5, PlacedIs
    <2>2. /\ Placed(u, s) \in [Users -> Row] /\ Placed(u, s)[u].state = s
          /\ \A v \in Users \ {u} : Placed(u, s)[v] = row[v]
      BY PlacedIs
    <2>3. Waiting(row') \subseteq Waiting(Placed(u, s))
      BY <2>1, <2>2, MoveUpAddsNobody
    <2>4. CASE s = "waitlisted"
      <3>1. PICK q : q = Fresh(row, u, "waitlisted", nextId, row[u].interested)
        OBVIOUS
      <3>2. q = Placed(u, s)
        BY <2>4, <3>1 DEF Placed
      <3>3. ASSUME NEW v \in Users, v \in Waiting(row')
            PROVE  row'[v] = q[v]
        <4>1. row'[v].state = "waitlisted"
          BY <3>3 DEF Waiting
        <4>2. [q[v] EXCEPT !.state = "attending"].state = "attending"
          BY <2>2, <3>2 DEF Row
        <4> QED
          BY <2>1, <3>2, <4>1, <4>2 DEF Move
      <3> QED
        BY <3>1, <3>3, FreshJoinsTheBack
    <2>5. CASE s # "waitlisted"
      <3>1. Waiting(Placed(u, s)) \subseteq Waiting(row)
        BY <2>2, <2>5 DEF Waiting
      <3> QED
        BY <1>0, <2>3, <3>1
    <2> QED
      BY <2>4, <2>5
  <1>6. ASSUME NEW u, NEW to, MoveInWaitlist(u, to)
        PROVE  JoinsTheBack
    BY <1>0, <1>6, MoveInWaitlistFits DEF Waiting
  <1>7. ASSUME NEW i, SetInviteDelivery(i)
        PROVE  JoinsTheBack
    BY <1>t, <1>0, <1>7, MoveUpAddsNobody DEF SetInviteDelivery
  <1>8. ASSUME NEW u \in Users, GiveBackHeldPlace(u)
        PROVE  JoinsTheBack
    BY <1>t, <1>0, <1>8, MoveUpAddsNobody DEF GiveBackHeldPlace
  <1>9. CASE PromoteToFillCapacity
    BY <1>t, <1>0, <1>9, MoveUpAddsNobody DEF PromoteToFillCapacity
  <1>10. ASSUME NEW u \in Fans, u \in Users, MarkInterested(u)
         PROVE  JoinsTheBack
    <2>1. row[u].state = "none"
      BY <1>10
    <2>2. CASE ComesOn(u) /\ Full(u)
      <3>1. row' = Fresh(row, u, "waitlisted", nextId, TRUE)
        BY <1>10, <2>1, <2>2 DEF MarkInterested
      <3> QED
        BY <1>10, <3>1, FreshJoinsTheBack
    <2>3. CASE ComesOn(u) /\ ~Full(u)
      <3>1. row' = Fresh(row, u, "attending", nextId, TRUE)
        BY <1>10, <2>1, <2>3 DEF MarkInterested
      <3>2. Waiting(row') \subseteq Waiting(row)
        BY <1>t, <3>1 DEF Fresh, Waiting
      <3> QED
        BY <1>0, <3>2
    <2>4. CASE ~ComesOn(u)
      <3>1. row' = row
        BY <1>10, <2>1, <2>4 DEF MarkInterested
      <3> QED
        BY <1>0, <3>1
    <2> QED
      BY <2>2, <2>3, <2>4
  <1>11. ASSUME NEW u, ClearInterest(u)
         PROVE  JoinsTheBack
    <2>1. \A v \in Users : row'[v].state = row[v].state
      BY <1>t, <1>11 DEF ClearInterest, Row
    <2> QED
      BY <1>0, <2>1 DEF Waiting
  <1>12. ASSUME row' = row
         PROVE  JoinsTheBack
    BY <1>0, <1>12
  <1>13. ASSUME NEW u \in Users, LeaveUnmarked(u)
         PROVE  JoinsTheBack
    BY <1>t, <1>0, <1>12, <1>13, WithdrawTimely DEF LeaveUnmarked
  <1>14. CASE RollOverOccurrence
    BY <1>0, <1>14, NobodyWaitsAfterTheDate
  <1>f. Fans \subseteq Users
    BY RosterAssumption
  <1> QED
    BY <1>f, <1>1, <1>2, <1>3, <1>4, <1>5, <1>6, <1>7, <1>8, <1>9, <1>10, <1>11, <1>12, <1>13,
       <1>14
       DEF Next, vars, RecordInvite, UpdateEvent, DeleteEvent, Restart, MakeRegular,
           EndRegular, MakeHostRegular, Tick

\* For any number of people and moves of the line: whoever comes into the line,
\* other than by an Interested signal over an old row, comes in behind everyone
\* already in it.  The order alone does not give it: it needs that ids only
\* grow, and that nobody signed up later than now.
THEOREM NewcomersAlwaysJoinTheBack == Spec => NewcomersJoinTheBack
  <1>1. Init => NoRowIsFromLater
    BY DEF Init, NoRowIsFromLater, NoRow
  <1>2. TypeOK /\ NoRowIsFromLater /\ [Next]_vars => NoRowIsFromLater'
    BY TimesStep
  <1>3. (TypeOK /\ RowsHaveTheirIds /\ OneHoldPerPerson) /\ NoRowIsFromLater /\ [Next]_vars =>
          [(\A u \in Fans : row[u].state # "none" => ~MarkInterested(u)) => JoinsTheBack]_vars
    BY NewcomerStep
  <1> QED
    BY <1>1, <1>2, <1>3, RosterInvariant, PTL DEF Spec, NewcomersJoinTheBack
=============================================================================
