--------------------------- MODULE GatewayProofs ---------------------------
(***************************************************************************)
(* What holds of the gateway supervisor for every bound on its faults and  *)
(* its waits: its types, and that no death of the socket goes unnoticed.   *)
(***************************************************************************)
EXTENDS Gateway, TLAPS

\* The longest wait is a length (nextGatewayRetryDelay's max).
DelayIsPositive == MaxDelay \in Nat \ {0}

\* The type invariant in two halves, for the provers: numbers, and the rest.
Counted == delay \in Nat \ {0} /\ notices \in Nat /\ left \in Nat /\ faults \in Nat
Placed  == /\ phase \in Phase /\ reported \in Status
           /\ socket \in {"closed", "live", "deaf"} /\ stuck \in BOOLEAN /\ noticed \in BOOLEAN

\* nextGatewayRetryDelay: a wait doubled and cut off is a wait.
LEMMA NextDelayType ==
  ASSUME DelayIsPositive, NEW d \in Nat \ {0}
  PROVE  NextRetryDelay(d) \in Nat \ {0}
BY DEF NextRetryDelay, DelayIsPositive

\* Each step keeps the numbers.
LEMMA CountedStep == ASSUME DelayIsPositive, Counted, [Next]_vars PROVE Counted'
<1> USE DEF Counted
<1>1. CASE Run
  BY <1>1 DEF Run
<1>2. CASE BuildSocket
  BY <1>2 DEF BuildSocket, FirstDelay
<1>3. CASE BuildFails
  <2>1. Fault /\ UNCHANGED <<delay, notices, left>>
    BY <1>3, Zenon DEF BuildFails
  <2>2. faults' \in Nat
    BY <2>1 DEF Fault
  <2> QED
    BY <2>1, <2>2
<1>13. CASE OpenFails
  <2>1. Fault /\ UNCHANGED <<delay, notices, left>>
    BY <1>13, Zenon DEF OpenFails
  <2>2. faults' \in Nat
    BY <2>1 DEF Fault
  <2> QED
    BY <2>1, <2>2
<1>4. CASE RetryDelayPasses
  BY <1>4, NextDelayType DEF RetryDelayPasses
<1>5. CASE OpenSucceeds \/ Connected
  BY <1>5 DEF OpenSucceeds, Connected, FirstDelay
<1>6. CASE OpenDoesNotReturn \/ CheckHeartbeat
  BY <1>6 DEF OpenDoesNotReturn, CheckHeartbeat, Abandon, FirstDelay
<1>7. CASE NoticeDisconnect \/ Stop \/ CloseOnStop
  BY <1>7 DEF NoticeDisconnect, Stop, CloseOnStop
<1>8. CASE CloseAbandoned
  BY <1>8 DEF CloseAbandoned
<1>9. CASE SocketCloses \/ ClosesTwice
  BY <1>9 DEF SocketCloses, ClosesTwice, Fault
<1>10. CASE HeartbeatsStop \/ LockSticks
  BY <1>10 DEF HeartbeatsStop, LockSticks, Fault
<1>11. CASE Notify
  BY <1>11 DEF Notify
<1>12. CASE UNCHANGED vars
  BY <1>12 DEF vars
<1> QED
  BY <1>1, <1>2, <1>3, <1>4, <1>5, <1>6, <1>7, <1>8, <1>9, <1>10, <1>11, <1>12, <1>13 DEF Next, Supervise

\* Each step goes to a place of the code, with a socket in one of its states.
LEMMA PlacedStep == ASSUME Placed, [Next]_vars PROVE Placed'
<1> USE DEF Placed, Phase, Status
<1>1. CASE Run
  BY <1>1, Zenon DEF Run
<1>2. CASE BuildSocket \/ BuildFails
  BY <1>2, Zenon DEF BuildSocket, BuildFails
<1>3. CASE RetryDelayPasses
  BY <1>3, Zenon DEF RetryDelayPasses
<1>4. CASE OpenSucceeds
  BY <1>4, Zenon DEF OpenSucceeds
<1>5. CASE Connected \/ OpenFails
  BY <1>5, Zenon DEF Connected, OpenFails
<1>6. CASE OpenDoesNotReturn \/ CheckHeartbeat
  BY <1>6, Zenon DEF OpenDoesNotReturn, CheckHeartbeat, Abandon
<1>7. CASE NoticeDisconnect \/ CloseAbandoned
  BY <1>7, Zenon DEF NoticeDisconnect, CloseAbandoned
<1>8. CASE Stop \/ CloseOnStop
  BY <1>8, Zenon DEF Stop, CloseOnStop
<1>9. CASE SocketCloses \/ ClosesTwice
  BY <1>9, Zenon DEF SocketCloses, ClosesTwice
<1>10. CASE HeartbeatsStop \/ LockSticks
  BY <1>10, Zenon DEF HeartbeatsStop, LockSticks
<1>11. CASE Notify
  BY <1>11, Zenon DEF Notify
<1>12. CASE UNCHANGED vars
  BY <1>12, Zenon DEF vars
<1> QED
  BY <1>1, <1>2, <1>3, <1>4, <1>5, <1>6, <1>7, <1>8, <1>9, <1>10, <1>11, <1>12 DEF Next, Supervise

\* The counters start at zero and the supervisor at its first step.
LEMMA TypesInitially == Init => Counted /\ Placed
<1>1. Init => Counted
  BY DEF Init, Counted, FirstDelay
<1>2. Init => Placed
  BY Zenon DEF Init, Placed, Phase, Status
<1> QED
  BY <1>1, <1>2

\* The two halves of the typing together are TypeOK.
LEMMA TypesFollow == Counted /\ Placed => TypeOK
BY Zenon DEF Counted, Placed, TypeOK

\* Every state of the supervisor and of its session is one the code has.
THEOREM TypeCorrect == ASSUME DelayIsPositive PROVE Spec => []TypeOK
<1>1. Counted /\ [Next]_vars => Counted'
  BY CountedStep
<1>2. Placed /\ [Next]_vars => Placed'
  BY PlacedStep
<1> QED
  BY <1>1, <1>2, TypesInitially, TypesFollow, PTL DEF Spec

\* A socket that is open, or a wait that has not begun, has nothing to be
\* noticed; a close leaves a handler on its way, and only a reopening ends it.
LEMMA NoticedStep == ASSUME TypeOK, EveryDeathIsNoticed, [Next]_vars PROVE EveryDeathIsNoticed'
<1> USE DEF EveryDeathIsNoticed
<1>1. CASE Run \/ BuildSocket \/ BuildFails \/ RetryDelayPasses
  BY <1>1 DEF Run, BuildSocket, BuildFails, RetryDelayPasses
<1>2. CASE OpenSucceeds
  BY <1>2 DEF OpenSucceeds
<1>3. CASE Connected
  BY <1>3 DEF Connected
<1>4. CASE OpenFails
  BY <1>4 DEF OpenFails
<1>5. CASE OpenDoesNotReturn \/ CheckHeartbeat
  BY <1>5 DEF OpenDoesNotReturn, CheckHeartbeat, Abandon
<1>6. CASE NoticeDisconnect
  BY <1>6 DEF NoticeDisconnect
<1>7. CASE CloseAbandoned \/ Stop \/ CloseOnStop
  BY <1>7 DEF CloseAbandoned, Stop, CloseOnStop
<1>8. CASE SocketCloses \/ ClosesTwice
  BY <1>8 DEF SocketCloses, ClosesTwice, TypeOK
<1>9. CASE HeartbeatsStop \/ LockSticks
  BY <1>9 DEF HeartbeatsStop, LockSticks
<1>10. CASE Notify
  BY <1>10 DEF Notify
<1>11. CASE UNCHANGED vars
  BY <1>11 DEF vars
<1> QED
  BY <1>1, <1>2, <1>3, <1>4, <1>5, <1>6, <1>7, <1>8, <1>9, <1>10, <1>11 DEF Next, Supervise

\* gateway_supervisor.go: while the supervisor waits on a socket that closed,
\* the Disconnect is in its channel or on its way there.
THEOREM DeathsAreNoticed == ASSUME DelayIsPositive PROVE Spec => []EveryDeathIsNoticed
<1>1. Init => EveryDeathIsNoticed
  BY DEF Init, EveryDeathIsNoticed
<1>2. TypeOK /\ EveryDeathIsNoticed /\ [Next]_vars => EveryDeathIsNoticed'
  BY NoticedStep
<1>3. Spec => []TypeOK
  BY TypeCorrect
<1> QED
  BY <1>1, <1>2, <1>3, PTL DEF Spec
=============================================================================
