------------------------ MODULE EventLifecycleProofs ------------------------
(***************************************************************************)
(* What is proved of EventLifecycle for every bound: its type invariant,   *)
(* and that the roster is never of another date than the event.  The       *)
(* second is inductive with the first; liveness stays with TLC.            *)
(***************************************************************************)
EXTENDS EventLifecycle, TLAPS

\* The next date is one of the dates the bound on time allows: half of a
\* number within the bound, rounded up, is within it.
LEMMA NextDateIsADate ==
  ASSUME time \in 0..MaxTime, MaxTime \in Nat
  PROVE  NextDate \in Dates
  BY DEF NextDate, Dates

\* Where a goroutine goes next, it is a step of the model that it goes to.
LEMMA GoToIsTyped ==
  ASSUME NEW p \in Actors, NEW step \in Steps, TypeOK, LifecycleAssumption, GoTo(p, step)
  PROVE  job' \in [Actors -> Job]
<1>1. 0 \in Dates
  BY DEF LifecycleAssumption, Dates
<1>2. Idle \in Job
  BY <1>1 DEF Idle, Job, Steps, Status
<1>3. [Idle EXCEPT !.step = step] \in Job
  BY <1>2 DEF Job
<1>4. job[p] \in Job
  BY DEF TypeOK
<1>5. [Idle EXCEPT !.step = step, !.seen = job[p].seen] \in Job
  BY <1>2, <1>4 DEF Job
<1> QED
  BY <1>3, <1>5 DEF GoTo, TypeOK

\* What a goroutine remembers stays typed when one field of it is set.
LEMMA RememberingIsTyped ==
  ASSUME NEW f \in [Actors -> Job], NEW p \in Actors
  PROVE  /\ \A step \in Steps : [f EXCEPT ![p].step = step] \in [Actors -> Job]
         /\ \A date \in Dates : [f EXCEPT ![p].date = date] \in [Actors -> Job]
         /\ \A status \in Status : [f EXCEPT ![p].status = status] \in [Actors -> Job]
         /\ \A seen \in Dates \cup {NotListed} : [f EXCEPT ![p].seen = seen] \in [Actors -> Job]
<1>1. f[p] \in Job
  OBVIOUS
<1>2. ASSUME NEW step \in Steps PROVE [f EXCEPT ![p].step = step] \in [Actors -> Job]
  BY <1>1 DEF Job
<1>3. ASSUME NEW date \in Dates PROVE [f EXCEPT ![p].date = date] \in [Actors -> Job]
  BY <1>1 DEF Job
<1>4. ASSUME NEW status \in Status PROVE [f EXCEPT ![p].status = status] \in [Actors -> Job]
  BY <1>1 DEF Job
<1>5. ASSUME NEW seen \in Dates \cup {NotListed} PROVE [f EXCEPT ![p].seen = seen] \in [Actors -> Job]
  BY <1>1 DEF Job
<1> QED
  BY <1>2, <1>3, <1>4, <1>5

\* A goroutine that is about to roll the event remembers the date to roll it to.
LEMMA RollIsTyped ==
  ASSUME NEW p \in Actors, NEW d \in Dates, TypeOK,
         job' = [job EXCEPT ![p].step = "roll", ![p].date = d]
  PROVE  job' \in [Actors -> Job]
<1> DEFINE rolling == [job EXCEPT ![p].step = "roll"]
<1>1. rolling \in [Actors -> Job]
  BY RememberingIsTyped DEF TypeOK, Steps
<1>2. job' = [rolling EXCEPT ![p].date = d]
  OBVIOUS
<1> HIDE DEF rolling
<1>3. \A date \in Dates : [rolling EXCEPT ![p].date = date] \in [Actors -> Job]
  BY <1>1, RememberingIsTyped
<1>4. [rolling EXCEPT ![p].date = d] \in [Actors -> Job]
  BY <1>3
<1> QED
  BY <1>2, <1>4

\* A restart leaves every goroutine idle, which is typed too.
LEMMA IdleIsTyped ==
  ASSUME LifecycleAssumption
  PROVE  [p \in Actors |-> Idle] \in [Actors -> Job]
  BY DEF LifecycleAssumption, Idle, Job, Steps, Status, Dates

\* A bounded counter that steps while below its bound stays within it.
LEMMA CounterStaysBounded ==
  ASSUME NEW n, NEW bound \in Nat, n \in 0..bound, n < bound
  PROVE  n + 1 \in 0..bound
  OBVIOUS

\* Every step keeps the types.
LEMMA TypeStep ==
  ASSUME LifecycleAssumption, TypeOK, [Next]_vars
  PROVE  TypeOK'
<1> USE DEF LifecycleAssumption
<1>1. CASE UNCHANGED vars
  BY <1>1 DEF TypeOK, vars, counters
<1>2. ASSUME NEW p \in Sweepers, FindFinished(p) PROVE TypeOK'
  <2>1. p \in Actors
    BY DEF Actors
  <2>2. CASE GoTo(p, "complete")
    <3>1. job' \in [Actors -> Job]
      BY <2>1, <2>2, GoToIsTyped DEF Steps
    <3> QED
      BY <3>1, <1>2 DEF FindFinished, TypeOK, counters
  <2>3. CASE job' = [job EXCEPT ![p].step = "roll", ![p].date = NextDate]
    <3>1. NextDate \in Dates
      BY NextDateIsADate DEF TypeOK
    <3>2. job' \in [Actors -> Job]
      BY <2>1, <2>3, <3>1, RollIsTyped
    <3> QED
      BY <3>2, <1>2 DEF FindFinished, TypeOK, counters
  <2> QED
    BY <1>2, <2>2, <2>3 DEF FindFinished
<1>3. ASSUME NEW p \in Actors, Proceed(p) PROVE TypeOK'
  <2>0. job[p] \in Job
    BY <1>3 DEF TypeOK
  <2>1. CASE Complete(p)
    <3>1. job' \in [Actors -> Job]
      BY <1>3, <2>1, GoToIsTyped DEF Complete, Steps
    <3> QED
      BY <3>1, <2>1 DEF Complete, TypeOK, counters, Status
  <2>2. CASE RollOver(p)
    <3>1. job' \in [Actors -> Job]
      BY <1>3, <2>2, GoToIsTyped DEF RollOver, Steps
    <3>2. ev' \in [status : Status, rule : Rules, date : Dates, inPast : BOOLEAN]
      BY <2>0, <2>2 DEF RollOver, TypeOK, Status, Job
    <3> QED
      BY <3>1, <3>2, <2>2 DEF RollOver, TypeOK, counters
  <2>3. CASE Push(p)
    <3>1. job' \in [Actors -> Job]
      BY <1>3, <2>3, GoToIsTyped DEF Push, Steps
    <3>2. native' \in Native
      BY <2>3 DEF Push, TypeOK, Native
    <3>3. failures' \in 0..MaxFailures
      BY <2>3 DEF Push, Works, Fails, TypeOK
    <3> QED
      BY <3>1, <3>2, <3>3, <2>3 DEF Push, TypeOK
  <2>4. CASE CheckLine(p)
    <3>1. job' \in [Actors -> Job]
      BY <1>3, <2>4, GoToIsTyped DEF CheckLine, AfterLine, Steps
    <3> QED
      BY <3>1, <2>4 DEF CheckLine, TypeOK, counters
  <2>5. CASE PostLine(p)
    <3>1. job' \in [Actors -> Job]
      BY <1>3, <2>5, GoToIsTyped DEF PostLine, AfterLine, Steps
    <3>2. failures' \in 0..MaxFailures
      BY <2>5 DEF PostLine, Works, Fails, TypeOK
    <3> QED
      BY <3>1, <3>2, <2>5 DEF PostLine, TypeOK
  <2>6. CASE CompleteLive(p)
    <3>1. job' \in [Actors -> Job]
      BY <1>3, <2>6, GoToIsTyped DEF CompleteLive, Steps
    <3> QED
      BY <3>1, <2>6 DEF CompleteLive, TypeOK, counters, Status
  <2>7. CASE EndNative(p)
    <3>1. job' \in [Actors -> Job]
      BY <1>3, <2>7, GoToIsTyped DEF EndNative, Steps
    <3>2. native' \in Native
      BY <2>7 DEF EndNative, TypeOK, Native
    <3>3. failures' \in 0..MaxFailures
      BY <2>7 DEF EndNative, Works, Fails, TypeOK
    <3> QED
      BY <3>1, <3>2, <3>3, <2>7 DEF EndNative, TypeOK
  <2>8. CASE SaveToggle(p)
    <3>1. job' \in [Actors -> Job]
      BY <1>3, <2>8, GoToIsTyped DEF SaveToggle, Steps
    <3>2. ev' \in [status : Status, rule : Rules, date : Dates, inPast : BOOLEAN]
      BY <2>0, <2>8 DEF SaveToggle, TypeOK, Job
    <3> QED
      BY <3>1, <3>2, <2>8 DEF SaveToggle, TypeOK, counters
  <2>9. CASE CancelEverywhere(p)
    <3>1. job' \in [Actors -> Job]
      BY <1>3, <2>9, GoToIsTyped DEF CancelEverywhere, Steps
    <3> QED
      BY <3>1, <2>9 DEF CancelEverywhere, TypeOK, counters, Status
  <2>10. CASE Import(p)
    <3>1. CASE job' = [job EXCEPT ![p].step = "roll", ![p].date = job[p].seen] /\ Slid(job[p].seen)
      <4>1. job[p].seen \in Dates
        <5>1. job[p].seen \in Dates \cup {NotListed} /\ job[p].seen > ev.date /\ ev.date \in Dates
          BY <2>0, <3>1 DEF Job, Slid, TypeOK
        <5> QED
          BY <5>1 DEF NotListed, Dates
      <4>2. job' \in [Actors -> Job]
        BY <1>3, <3>1, <4>1, RollIsTyped
      <4> QED
        BY <4>2, <2>10 DEF Import, TypeOK, counters
    <3>2. CASE GoTo(p, "push") \/ GoTo(p, "reconcile")
      <4>1. job' \in [Actors -> Job]
        BY <1>3, <3>2, GoToIsTyped DEF Steps
      <4> QED
        BY <4>1, <2>10 DEF Import, TypeOK, counters
    <3> QED
      BY <2>10, <3>1, <3>2 DEF Import
  <2>11. CASE Reconcile(p)
    <3>1. NativeVerdict \in Steps
      BY DEF NativeVerdict, Steps
    <3>2. job' \in [Actors -> Job]
      <4>1. GoTo(p, NativeVerdict) \/ GoTo(p, "idle") \/ GoTo(p, "delete")
        BY <2>11 DEF Reconcile
      <4>2. "idle" \in Steps /\ "delete" \in Steps
        BY DEF Steps
      <4> QED
        BY <1>3, <3>1, <4>1, <4>2, GoToIsTyped
    <3>3. failures' \in 0..MaxFailures
      BY <2>11 DEF Reconcile, Works, Fails, TypeOK
    <3> QED
      BY <3>2, <3>3, <2>11 DEF Reconcile, TypeOK
  <2>12. CASE DeleteNative(p)
    <3>1. job' \in [Actors -> Job]
      BY <1>3, <2>12, GoToIsTyped DEF DeleteNative, Steps
    <3>2. native' \in Native /\ notice' \in BOOLEAN
      BY <2>12 DEF DeleteNative, TypeOK, Native
    <3>3. failures' \in 0..MaxFailures
      BY <2>12 DEF DeleteNative, Works, Fails, TypeOK
    <3> QED
      BY <3>1, <3>2, <3>3, <2>12 DEF DeleteNative, TypeOK
  <2> QED
    BY <1>3, <2>1, <2>2, <2>3, <2>4, <2>5, <2>6, <2>7, <2>8, <2>9, <2>10, <2>11, <2>12 DEF Proceed
<1>4. CASE PressEnd
  <2>1. "end" \in Actors /\ presses' \in 0..MaxPresses
    BY <1>4 DEF PressEnd, At, Press, TypeOK
  <2>2. CASE GoTo("end", "completeLive")
    <3>1. job' \in [Actors -> Job]
      BY <2>1, <2>2, GoToIsTyped DEF Steps
    <3> QED
      BY <2>1, <3>1, <1>4 DEF PressEnd, TypeOK
  <2>3. CASE job' = [job EXCEPT !["end"].step = "roll", !["end"].date = NextDate]
    <3>1. NextDate \in Dates
      BY NextDateIsADate DEF TypeOK
    <3>2. job' \in [Actors -> Job]
      BY <2>1, <2>3, <3>1, RollIsTyped
    <3> QED
      BY <2>1, <3>2, <1>4 DEF PressEnd, TypeOK
  <2> QED
    BY <1>4, <2>2, <2>3 DEF PressEnd
<1>5. CASE PressToggle
  <2>1. "toggle" \in Actors /\ presses' \in 0..MaxPresses
    BY <1>5 DEF PressToggle, At, Press, TypeOK
  <2> DEFINE saving == [job EXCEPT !["toggle"].step = "save"]
             other  == IF ev.status = "open" THEN "closed" ELSE "open"
  <2>2. job' \in [Actors -> Job]
    <3>1. saving \in [Actors -> Job]
      BY <2>1, RememberingIsTyped DEF TypeOK, Steps
    <3>2. job' = [saving EXCEPT !["toggle"].status = other]
      BY <1>5 DEF PressToggle
    <3>3. other \in Status
      BY DEF Status
    <3> HIDE DEF saving, other
    <3> QED
      BY <2>1, <3>1, <3>2, <3>3, RememberingIsTyped
  <2> QED
    BY <1>5, <2>1, <2>2 DEF PressToggle, TypeOK
<1>6. CASE PressCancel
  <2>1. "cancel" \in Actors /\ presses' \in 0..MaxPresses
    BY <1>6 DEF PressCancel, At, Press, TypeOK
  <2>2. job' \in [Actors -> Job]
    BY <1>6, <2>1, GoToIsTyped DEF PressCancel, Steps
  <2> QED
    BY <1>6, <2>1, <2>2 DEF PressCancel, TypeOK
<1>7. CASE SignUp
  BY <1>7 DEF SignUp, TypeOK, counters
<1>8. CASE SyncList
  <2>1. "sync" \in Actors
    BY DEF Actors
  <2> DEFINE importing == [job EXCEPT !["sync"].step = "import"]
             date      == IF Listed THEN native.date ELSE NotListed
  <2>2. job' \in [Actors -> Job]
    <3>1. importing \in [Actors -> Job]
      BY <2>1, RememberingIsTyped DEF TypeOK, Steps
    <3>2. job' = [importing EXCEPT !["sync"].seen = date]
      BY <1>8 DEF SyncList
    <3>3. date \in Dates \cup {NotListed}
      BY DEF TypeOK, Native
    <3> HIDE DEF importing, date
    <3> QED
      BY <2>1, <3>1, <3>2, <3>3, RememberingIsTyped
  <2> QED
    BY <1>8, <2>2 DEF SyncList, TypeOK, counters
<1>9. CASE HearDelete
  <2>1. "gateway" \in Actors
    BY DEF Actors
  <2>2. job' \in [Actors -> Job]
    BY <1>9, <2>1, GoToIsTyped DEF HearDelete, Steps
  <2> QED
    BY <1>9, <2>2 DEF HearDelete, TypeOK, counters
<1>10. CASE NativeBegins
  BY <1>10 DEF NativeBegins, TypeOK, Native, counters
<1>11. CASE NativeEnds
  <2>1. NextDate \in Dates
    BY NextDateIsADate DEF TypeOK
  <2> QED
    BY <1>11, <2>1 DEF NativeEnds, TypeOK, Native, counters
<1>12. CASE NativeDeleted
  <2>1. native' \in Native
    BY <1>12 DEF NativeDeleted, TypeOK, Native
  <2>2. notice' \in BOOLEAN
    BY <1>12 DEF NativeDeleted, TypeOK
  <2>3. failures' \in 0..MaxFailures
    BY <1>12 DEF NativeDeleted, Works, Fails, TypeOK
  <2> QED
    BY <1>12, <2>1, <2>2, <2>3 DEF NativeDeleted, TypeOK
<1>13. CASE Tick
  BY <1>13, CounterStaysBounded DEF Tick, TypeOK
<1>14. CASE Restart
  BY <1>14, IdleIsTyped, CounterStaysBounded DEF Restart, TypeOK
<1> QED
  BY <1>1, <1>2, <1>3, <1>4, <1>5, <1>6, <1>7, <1>8, <1>9, <1>10, <1>11, <1>12, <1>13, <1>14
  DEF Next

-----------------------------------------------------------------------------
\* The model's states keep to their types for every bound: what a goroutine
\* remembers of the event is always a status and a date it can have.
THEOREM TypeCorrect == Spec => []TypeOK
<1>1. Init => TypeOK
  <2> SUFFICES ASSUME Init PROVE TypeOK
    OBVIOUS
  <2>1. 0 \in Dates /\ "open" \in Status
    BY LifecycleAssumption DEF LifecycleAssumption, Dates, Status
  <2>2. ev \in [status : Status, rule : Rules, date : Dates, inPast : BOOLEAN]
    BY <2>1 DEF Init
  <2>3. native \in Native
    BY <2>1 DEF Init, Native
  <2>4. job \in [Actors -> Job]
    BY LifecycleAssumption, IdleIsTyped DEF Init
  <2>5. time \in 0..MaxTime /\ presses \in 0..MaxPresses
        /\ failures \in 0..MaxFailures /\ crashes \in 0..MaxCrashes
    BY LifecycleAssumption DEF LifecycleAssumption, Init
  <2> QED
    BY <2>2, <2>3, <2>4, <2>5 DEF Init, TypeOK
<1>2. TypeOK /\ [Next]_vars => TypeOK'
  BY LifecycleAssumption, TypeStep
<1> QED
  BY <1>1, <1>2, PTL DEF Spec

\* Whichever of the sweep, the import and End moves the event to another date
\* (rollOverOccurrence), and in whatever order, nobody stays on the roster from
\* the date before: a step that moves the date empties the roster.
THEOREM RosterIsOfTheDate == Spec => []NobodyCarriesOver
<1>1. Init => NobodyCarriesOver
  BY DEF Init, NobodyCarriesOver
<1>2. TypeOK /\ NobodyCarriesOver /\ [Next]_vars => NobodyCarriesOver'
  <2> SUFFICES ASSUME TypeOK, NobodyCarriesOver, [Next]_vars PROVE NobodyCarriesOver'
    OBVIOUS
  <2> USE DEF NobodyCarriesOver
  <2>1. CASE UNCHANGED <<ev, roster>>
    BY <2>1
  <2>2. ASSUME NEW p \in Actors, Proceed(p) PROVE NobodyCarriesOver'
    <3>1. CASE RollOver(p)
      BY <3>1 DEF RollOver
    <3>2. CASE Complete(p)
      BY <3>2 DEF Complete, TypeOK
    <3>3. CASE PostLine(p)
      BY <3>3 DEF PostLine, TypeOK
    <3>4. CASE CompleteLive(p)
      BY <3>4 DEF CompleteLive, TypeOK
    <3>5. CASE SaveToggle(p)
      BY <3>5 DEF SaveToggle, TypeOK
    <3>6. CASE CancelEverywhere(p)
      BY <3>6 DEF CancelEverywhere, TypeOK
    <3>7. CASE Push(p) \/ CheckLine(p) \/ EndNative(p) \/ Import(p) \/ Reconcile(p) \/ DeleteNative(p)
      BY <3>7, <2>1 DEF Push, CheckLine, EndNative, Import, Reconcile, DeleteNative
    <3> QED
      BY <2>2, <3>1, <3>2, <3>3, <3>4, <3>5, <3>6, <3>7 DEF Proceed
  <2>3. CASE SignUp
    BY <2>3 DEF SignUp
  <2>4. ASSUME NEW p \in Sweepers, FindFinished(p) PROVE NobodyCarriesOver'
    BY <2>1, <2>4 DEF FindFinished
  <2>5. CASE PressEnd \/ PressToggle \/ PressCancel \/ SyncList \/ HearDelete
    BY <2>1, <2>5 DEF PressEnd, PressToggle, PressCancel, SyncList, HearDelete
  <2>6. CASE NativeBegins \/ NativeEnds \/ NativeDeleted \/ Tick \/ Restart
    BY <2>1, <2>6 DEF NativeBegins, NativeEnds, NativeDeleted, Tick, Restart
  <2>7. CASE UNCHANGED vars
    BY <2>1, <2>7 DEF vars
  <2> QED
    BY <2>2, <2>3, <2>4, <2>5, <2>6, <2>7 DEF Next
<1> QED
  BY <1>1, <1>2, TypeCorrect, PTL DEF Spec
=============================================================================
