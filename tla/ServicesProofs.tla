--------------------------- MODULE ServicesProofs ---------------------------
(***************************************************************************)
(* What holds of the parts that have something to finish, for any bounds   *)
(* and not only on the instance TLC explores.  A part's invariant is       *)
(* proved in a module about the part alone; here are the parts together.   *)
(***************************************************************************)
EXTENDS MCServices, FiniteSetTheorems, WellFoundedInduction, TLAPS

OfGateway  == INSTANCE GatewayProofs
OfMessages == INSTANCE EventMessagesProofs
OfNotices  == INSTANCE RosterNoticesProofs
-----------------------------------------------------------------------------
(* A step is one of the part the behaviour is about.                       *)

\* A step is of the part the behaviour is about, or leaves it alone.
LEMMA StepOfAPart ==
  ASSUME [Next]_vars
  PROVE  /\ part' = part
         /\ part = "gateway" => Gateway!Next \/ UNCHANGED gatewayVars
         /\ part = "forum" => ForumPost!Next \/ UNCHANGED forumVars
         /\ part = "messages" => EventMessages!Next \/ UNCHANGED messagesVars
         /\ part = "notices" => RosterNotices!Next \/ UNCHANGED noticesVars
         /\ part = "pictures" => EventPictures!Next \/ UNCHANGED picturesVars
         /\ part = "setup" => GuildSetup!Next \/ UNCHANGED setupVars
         /\ part = "native" => NativeEvents!Next \/ UNCHANGED nativeVars
         /\ part = "recurrence" => Recurrence!Next \/ UNCHANGED recurrenceVars
  <1>1. CASE UNCHANGED vars
    BY <1>1 DEF vars
  <1>2. CASE Next
    BY <1>2 DEF Next, Except
  <1> QED
    BY <1>1, <1>2
-----------------------------------------------------------------------------
(* The gateway supervisor.                                                 *)

\* The supervisor starts as it does alone.
LEMMA GatewayInitially == Gateway!Init => OfGateway!Init
  BY Zenon DEF Gateway!Init, OfGateway!Init, Gateway!FirstDelay, OfGateway!FirstDelay

\* Each of its steps is one it takes alone.
LEMMA GatewayStep ==
  Gateway!Next \/ UNCHANGED gatewayVars => [OfGateway!Next]_(OfGateway!vars)
  <1>1. /\ Gateway!Run => OfGateway!Run
        /\ Gateway!BuildSocket => OfGateway!BuildSocket
    BY Zenon DEF Gateway!Run, OfGateway!Run, Gateway!BuildSocket, OfGateway!BuildSocket,
       Gateway!FirstDelay, OfGateway!FirstDelay
  <1>2. /\ Gateway!BuildFails => OfGateway!BuildFails
        /\ Gateway!OpenFails => OfGateway!OpenFails
    BY Zenon DEF Gateway!BuildFails, OfGateway!BuildFails, Gateway!OpenFails,
       OfGateway!OpenFails, Gateway!Fault, OfGateway!Fault
  <1>3. Gateway!RetryDelayPasses => OfGateway!RetryDelayPasses
    BY Zenon DEF Gateway!RetryDelayPasses, OfGateway!RetryDelayPasses, Gateway!NextRetryDelay,
       OfGateway!NextRetryDelay
  <1>4. /\ Gateway!OpenSucceeds => OfGateway!OpenSucceeds
        /\ Gateway!Connected => OfGateway!Connected
    BY Zenon DEF Gateway!OpenSucceeds, OfGateway!OpenSucceeds, Gateway!Connected,
       OfGateway!Connected, Gateway!FirstDelay, OfGateway!FirstDelay
  <1>5. /\ Gateway!OpenDoesNotReturn => OfGateway!OpenDoesNotReturn
        /\ Gateway!CheckHeartbeat => OfGateway!CheckHeartbeat
    BY Zenon DEF Gateway!OpenDoesNotReturn, OfGateway!OpenDoesNotReturn, Gateway!CheckHeartbeat,
       OfGateway!CheckHeartbeat, Gateway!Abandon, OfGateway!Abandon, Gateway!FirstDelay,
       OfGateway!FirstDelay
  <1>6. /\ Gateway!NoticeDisconnect => OfGateway!NoticeDisconnect
        /\ Gateway!CloseAbandoned => OfGateway!CloseAbandoned
    BY Zenon DEF Gateway!NoticeDisconnect, OfGateway!NoticeDisconnect, Gateway!CloseAbandoned,
       OfGateway!CloseAbandoned
  <1>7. /\ Gateway!Stop => OfGateway!Stop
        /\ Gateway!CloseOnStop => OfGateway!CloseOnStop
    BY Zenon DEF Gateway!Stop, OfGateway!Stop, Gateway!CloseOnStop, OfGateway!CloseOnStop
  <1>8. /\ Gateway!SocketCloses => OfGateway!SocketCloses
        /\ Gateway!ClosesTwice => OfGateway!ClosesTwice
    BY Zenon DEF Gateway!SocketCloses, OfGateway!SocketCloses, Gateway!ClosesTwice,
       OfGateway!ClosesTwice, Gateway!Fault, OfGateway!Fault
  <1>9. /\ Gateway!HeartbeatsStop => OfGateway!HeartbeatsStop
        /\ Gateway!LockSticks => OfGateway!LockSticks
    BY Zenon DEF Gateway!HeartbeatsStop, OfGateway!HeartbeatsStop, Gateway!LockSticks,
       OfGateway!LockSticks, Gateway!Fault, OfGateway!Fault
  <1>10. Gateway!Notify => OfGateway!Notify
    BY Zenon DEF Gateway!Notify, OfGateway!Notify
  <1>11. Gateway!Supervise => OfGateway!Supervise
    BY <1>1, <1>2, <1>3, <1>4, <1>5, <1>6 DEF Gateway!Supervise, OfGateway!Supervise
  <1>12. Gateway!Next => OfGateway!Next
    BY <1>1, <1>6, <1>7, <1>8, <1>9, <1>10, <1>11 DEF Gateway!Next, OfGateway!Next
  <1>13. UNCHANGED gatewayVars => UNCHANGED OfGateway!vars
    BY DEF gatewayVars, OfGateway!vars
  <1> QED
    BY <1>12, <1>13

GatewayInv ==
  part = "gateway" => OfGateway!Counted /\ OfGateway!Placed /\ OfGateway!EveryDeathIsNoticed

\* So what always holds of it alone holds here.
LEMMA GatewayInvAlways == Spec => []GatewayInv
  <1>1. Init => GatewayInv
    <2>1. OfGateway!Init => OfGateway!EveryDeathIsNoticed
      BY DEF OfGateway!Init, OfGateway!EveryDeathIsNoticed
    <2> QED
      BY <2>1, GatewayInitially, OfGateway!TypesInitially DEF Init, GatewayInv
  <1>2. GatewayInv /\ [Next]_vars => GatewayInv'
    BY StepOfAPart, GatewayStep, OfGateway!CountedStep, OfGateway!PlacedStep,
       OfGateway!TypesFollow, OfGateway!NoticedStep, ServicesAssumption
       DEF GatewayInv, OfGateway!DelayIsPositive
  <1> QED
    BY <1>1, <1>2, PTL DEF Spec

\* Which says its types.
LEMMA GatewayTypes == OfGateway!Counted /\ OfGateway!Placed => Gateway!TypeOK
  <1>1. OfGateway!TypeOK => Gateway!TypeOK
    BY Zenon DEF Gateway!TypeOK, OfGateway!TypeOK, Gateway!Phase, OfGateway!Phase,
       Gateway!Status, OfGateway!Status
  <1> QED
    BY <1>1, OfGateway!TypesFollow
-----------------------------------------------------------------------------
(* Messages to an event's people: the part is the one the proofs are about. *)

\* What the two instances of the messages define is the same.
LEMMA MessagesAreTheSame ==
  /\ EventMessages!Claimed = OfMessages!Claimed /\ EventMessages!Recent = OfMessages!Recent
  /\ \A S : EventMessages!Cardinality(S) = OfMessages!Cardinality(S)
  <1>1. EventMessages!Ids = OfMessages!Ids /\ EventMessages!Unused = OfMessages!Unused
    BY Zenon DEF EventMessages!Ids, OfMessages!Ids, EventMessages!Unused, OfMessages!Unused
  <1>2. EventMessages!Claimed = OfMessages!Claimed
    BY Zenon, <1>1 DEF EventMessages!Claimed, OfMessages!Claimed
  <1>3. EventMessages!Window = OfMessages!Window
    BY Zenon DEF EventMessages!Window, OfMessages!Window
  <1>4. EventMessages!Recent = OfMessages!Recent
    BY <1>2, <1>3 DEF EventMessages!Recent, OfMessages!Recent
  <1>5. \A S : EventMessages!Cardinality(S) = OfMessages!Cardinality(S)
    BY Zenon DEF EventMessages!Cardinality, OfMessages!Cardinality
  <1> QED
    BY <1>2, <1>4, <1>5

\* They start as they do alone.
LEMMA MessagesInitially == EventMessages!Init => OfMessages!Init
  BY Zenon DEF EventMessages!Init, OfMessages!Init, EventMessages!Ids, OfMessages!Ids,
     EventMessages!Unused, OfMessages!Unused, EventMessages!NotSending, OfMessages!NotSending

\* Each of their steps is one they take alone.
LEMMA MessagesStep ==
  EventMessages!Next \/ UNCHANGED messagesVars => [OfMessages!Next]_(OfMessages!vars)
  <1>1. ASSUME NEW o, NEW via, EventMessages!ClaimMessage(o, via)
        PROVE  OfMessages!ClaimMessage(o, via)
    BY Zenon, <1>1, MessagesAreTheSame DEF EventMessages!ClaimMessage, OfMessages!ClaimMessage,
       EventMessages!NotSending, OfMessages!NotSending, EventMessages!Ids, OfMessages!Ids,
       EventMessages!Limit, OfMessages!Limit
  <1>2. ASSUME NEW o, EventMessages!Send(o) PROVE OfMessages!Send(o)
    BY Zenon, <1>2 DEF EventMessages!Send, OfMessages!Send
  <1>3. ASSUME NEW o, EventMessages!FinishMessage(o) PROVE OfMessages!FinishMessage(o)
    BY Zenon, <1>3 DEF EventMessages!FinishMessage, OfMessages!FinishMessage,
       EventMessages!NotSending, OfMessages!NotSending
  <1>4. EventMessages!Restart => OfMessages!Restart
    BY Zenon DEF EventMessages!Restart, OfMessages!Restart, EventMessages!NotSending,
       OfMessages!NotSending
  <1>5. EventMessages!Tick => OfMessages!Tick
    BY Zenon DEF EventMessages!Tick, OfMessages!Tick
  <1>6. EventMessages!Next => OfMessages!Next
    BY Zenon, <1>1, <1>2, <1>3, <1>4, <1>5 DEF EventMessages!Next, OfMessages!Next,
       EventMessages!Via, OfMessages!Via
  <1>7. UNCHANGED messagesVars => UNCHANGED OfMessages!vars
    BY DEF messagesVars, OfMessages!vars
  <1> QED
    BY <1>6, <1>7

MessagesInv == part = "messages" => OfMessages!Inv

\* So what always holds of them alone holds here.
LEMMA MessagesInvAlways == Spec => []MessagesInv
  <1>1. Init => MessagesInv
    BY MessagesInitially, OfMessages!Initially, ServicesAssumption DEF Init, MessagesInv,
       OfMessages!BoundIsANumber
  <1>2. MessagesInv /\ [Next]_vars => MessagesInv'
    BY StepOfAPart, MessagesStep, OfMessages!Inductive, ServicesAssumption DEF MessagesInv,
       OfMessages!BoundIsANumber
  <1> QED
    BY <1>1, <1>2, PTL DEF Spec

\* Nor does the limit differ.
LEMMA LimitIsTheSame ==
  OfMessages!DirectMessagesAreLimited => EventMessages!DirectMessagesAreLimited
  BY Zenon, MessagesAreTheSame DEF EventMessages!DirectMessagesAreLimited,
     OfMessages!DirectMessagesAreLimited, EventMessages!Limit, OfMessages!Limit,
     EventMessages!Window, OfMessages!Window

\* However many organizers send at once, and whatever restarts cut off, no
\* window holds more direct messages of an event than its limit
\* (ClaimMessage, eventmessages.go).
THEOREM DirectMessagesStayLimited == Spec => []DirectMessagesAreLimited
  <1>1. MessagesInv => DirectMessagesAreLimited
    BY OfMessages!LimitFollows, LimitIsTheSame, ServicesAssumption DEF MessagesInv,
       DirectMessagesAreLimited, OfMessages!BoundIsANumber
  <1> QED
    BY <1>1, MessagesInvAlways, PTL
-----------------------------------------------------------------------------
(* Roster notices.                                                         *)

\* What the two instances of the notices define is the same.
LEMMA NoticesAreTheSame ==
  /\ RosterNotices!On = OfNotices!On /\ RosterNotices!Off = OfNotices!Off
  /\ RosterNotices!NoticeGrace = OfNotices!NoticeGrace
  /\ RosterNotices!Unwatched = OfNotices!Unwatched /\ RosterNotices!NoNotice = OfNotices!NoNotice
  /\ \A u : RosterNotices!State(u) = OfNotices!State(u)
  /\ \A s, a, t :
       RosterNotices!SettledRosterChanges(s, a, t) = OfNotices!SettledRosterChanges(s, a, t)
  <1>1. /\ RosterNotices!On = OfNotices!On /\ RosterNotices!Off = OfNotices!Off
        /\ RosterNotices!NoticeGrace = OfNotices!NoticeGrace
    BY Zenon DEF RosterNotices!On, OfNotices!On, RosterNotices!Off, OfNotices!Off,
       RosterNotices!NoticeGrace, OfNotices!NoticeGrace
  <1>2. /\ RosterNotices!Unwatched = OfNotices!Unwatched
        /\ RosterNotices!NoNotice = OfNotices!NoNotice
    BY Zenon DEF RosterNotices!Unwatched, OfNotices!Unwatched, RosterNotices!NoNotice,
       OfNotices!NoNotice
  <1>3. \A u : RosterNotices!State(u) = OfNotices!State(u)
    BY Zenon DEF RosterNotices!State, OfNotices!State, RosterNotices!Off, OfNotices!Off
  <1>4. \A i, s : RosterNotices!Mine(i, s) = OfNotices!Mine(i, s)
    BY Zenon DEF RosterNotices!Mine, OfNotices!Mine
  <1>5. \A i, j, s : RosterNotices!Follows(i, j, s) <=> OfNotices!Follows(i, j, s)
    BY Zenon, <1>4 DEF RosterNotices!Follows, OfNotices!Follows
  <1>6. \A i, s : /\ RosterNotices!EndsBurst(i, s) <=> OfNotices!EndsBurst(i, s)
                  /\ RosterNotices!StartsBurst(i, s) <=> OfNotices!StartsBurst(i, s)
    BY Zenon, <1>1, <1>5 DEF RosterNotices!EndsBurst, OfNotices!EndsBurst,
       RosterNotices!StartsBurst, OfNotices!StartsBurst
  <1>7. \A f, i, s : /\ RosterNotices!Begins(f, i, s) <=> OfNotices!Begins(f, i, s)
                     /\ RosterNotices!Burst(f, i, s) = OfNotices!Burst(f, i, s)
    BY Zenon, <1>4, <1>6 DEF RosterNotices!Begins, OfNotices!Begins, RosterNotices!Burst,
       OfNotices!Burst
  <1>8. \A s, a, t : RosterNotices!SettledRosterChanges(s, a, t)
                       = OfNotices!SettledRosterChanges(s, a, t)
    <2> SUFFICES ASSUME NEW s, NEW a, NEW t
                 PROVE  RosterNotices!SettledRosterChanges(s, a, t)
                          = OfNotices!SettledRosterChanges(s, a, t)
      OBVIOUS
    <2> DEFINE Ends == {i \in DOMAIN log :
                          /\ log[i].at > s /\ RosterNotices!EndsBurst(i, s)
                          /\ log[i].at > a /\ log[i].at <= t
                          /\ \E f \in DOMAIN log :
                               /\ RosterNotices!Begins(f, i, s) /\ log[f].from # log[i].to
                               /\ \E k \in RosterNotices!Burst(f, i, s) : log[k].own}
    <2>1. Ends = OfNotices!Telling(s, a, t)
      <3>1. \A i : i \in Ends <=> i \in OfNotices!Telling(s, a, t)
        BY Zenon, <1>6, <1>7 DEF OfNotices!Telling
      <3> HIDE DEF Ends
      <3> QED
        BY Zenon, <3>1
    <2>2. RosterNotices!SettledRosterChanges(s, a, t) = {OfNotices!ChangeOf(i) : i \in Ends}
      BY Zenon DEF RosterNotices!SettledRosterChanges, OfNotices!ChangeOf
    <2>3. OfNotices!SettledRosterChanges(s, a, t)
            = {OfNotices!ChangeOf(i) : i \in OfNotices!Telling(s, a, t)}
      BY OfNotices!SettledAreTelling
    <2> HIDE DEF Ends
    <2> QED
      BY <2>1, <2>2, <2>3
  <1> QED
    BY <1>1, <1>2, <1>3, <1>8

\* They start as they do alone.
LEMMA NoticesInitially == RosterNotices!Init => OfNotices!Init
  BY Zenon, NoticesAreTheSame DEF RosterNotices!Init, OfNotices!Init

\* Each of their steps is one they take alone.
LEMMA NoticesStep ==
  RosterNotices!Next \/ UNCHANGED noticesVars => [OfNotices!Next]_(OfNotices!vars)
  <1>1. ASSUME NEW u, RosterNotices!LogSignupUpdate(u) PROVE OfNotices!LogSignupUpdate(u)
    BY Zenon, <1>1, NoticesAreTheSame DEF RosterNotices!LogSignupUpdate, OfNotices!LogSignupUpdate
  <1>2. /\ RosterNotices!WatchRoster => OfNotices!WatchRoster
        /\ RosterNotices!UnwatchRoster => OfNotices!UnwatchRoster
    BY Zenon, NoticesAreTheSame DEF RosterNotices!WatchRoster, OfNotices!WatchRoster,
       RosterNotices!UnwatchRoster, OfNotices!UnwatchRoster
  <1>3. /\ RosterNotices!ReadWatch => OfNotices!ReadWatch
        /\ RosterNotices!ReadLog => OfNotices!ReadLog
    BY Zenon, NoticesAreTheSame DEF RosterNotices!ReadWatch, OfNotices!ReadWatch,
       RosterNotices!ReadLog, OfNotices!ReadLog
  <1>4. /\ RosterNotices!SendRosterNotice => OfNotices!SendRosterNotice
        /\ RosterNotices!MarkRosterReported => OfNotices!MarkRosterReported
    BY Zenon, NoticesAreTheSame DEF RosterNotices!SendRosterNotice, OfNotices!SendRosterNotice,
       RosterNotices!MarkRosterReported, OfNotices!MarkRosterReported, RosterNotices!Fails,
       OfNotices!Fails, RosterNotices!Works, OfNotices!Works
  <1>5. /\ RosterNotices!Restart => OfNotices!Restart
        /\ RosterNotices!Tick => OfNotices!Tick
    BY Zenon, NoticesAreTheSame DEF RosterNotices!Restart, OfNotices!Restart,
       RosterNotices!Tick, OfNotices!Tick, RosterNotices!Fails, OfNotices!Fails
  <1>6. RosterNotices!Next => OfNotices!Next
    BY Zenon, <1>1, <1>2, <1>3, <1>4, <1>5 DEF RosterNotices!Next, OfNotices!Next,
       RosterNotices!Sweep, OfNotices!Sweep
  <1>7. UNCHANGED noticesVars => UNCHANGED OfNotices!vars
    BY DEF noticesVars, OfNotices!vars
  <1> QED
    BY <1>6, <1>7

NoticesInv == part = "notices" => OfNotices!Inv

\* So what always holds of them alone holds here.
LEMMA NoticesInvAlways == Spec => []NoticesInv
  <1>1. Init => NoticesInv
    BY NoticesInitially, OfNotices!InvInitially DEF Init, NoticesInv
  <1>2. NoticesInv /\ [Next]_vars => NoticesInv'
    BY StepOfAPart, NoticesStep, OfNotices!InvInductive DEF NoticesInv
  <1> QED
    BY <1>1, <1>2, PTL DEF Spec

\* However updates, sweeps, failed calls and restarts interleave, what an
\* organizer watching a roster was told is what the log says was settled, each
\* change once (sendRosterNotice, rosternotices.go).
THEOREM SettledChangesAreToldOnce == Spec => []ToldOnce
  <1>1. OfNotices!Inv => RosterNotices!ToldOnce
    <2> SUFFICES ASSUME OfNotices!ToldOnce PROVE RosterNotices!ToldOnce
      BY DEF OfNotices!Inv
    <2> QED
      BY Zenon, NoticesAreTheSame DEF RosterNotices!ToldOnce, OfNotices!ToldOnce
  <1>2. NoticesInv => ToldOnce
    BY <1>1 DEF NoticesInv, ToldOnce
  <1> QED
    BY <1>2, NoticesInvAlways, PTL
-----------------------------------------------------------------------------
(* An event's forum post.                                                  *)

Statuses  == {"open", "completed", "cancelled"}
AnyList   == {<<>>} \cup [Users -> ForumPost!State]
WriterRun == [at : {"idle", "reactions", "post", "settle", "follow", "record"},
              batch : SUBSET ForumPost!Change, list : AnyList, ev : Statuses,
              todo : SUBSET Users, ok : BOOLEAN]
SweepRun  == [at : {"idle", "open", "take off"}, ev : Statuses, due : SUBSET Users]

PeopleTyped ==
  /\ state \in [Users -> ForumPost!State] /\ rolled \subseteq Users
  /\ status \in Statuses /\ graceOver \in BOOLEAN /\ moves \in Nat

ThreadTyped ==
  /\ post \in {"none", "open", "archived"} /\ ticked \subseteq Users /\ member \subseteq Users
  /\ inbox \subseteq ForumPost!Reaction

PassesTyped ==
  /\ owed \subseteq ForumPost!Change /\ followed \subseteq Users
  /\ writer \in WriterRun /\ sweep \in SweepRun

ForumTyped == PeopleTyped /\ ThreadTyped /\ PassesTyped /\ followFaults \in Nat

\* The forum post's types, by its parts.
LEMMA ForumTypes == ForumTyped => ForumPost!TypeOK
  BY DEF ForumTyped, PeopleTyped, ThreadTyped, PassesTyped, WriterRun, SweepRun, Statuses,
         ForumPost!TypeOK

\* A writer and a sweep at rest are of their types.
LEMMA NoForumPass == ForumPost!NoPass \in WriterRun /\ ForumPost!NoSweep \in SweepRun
  BY DEF ForumPost!NoPass, ForumPost!NoSweep, WriterRun, SweepRun, Statuses, AnyList

\* A post starts typed.
LEMMA ForumInit == ForumPost!Init => ForumTyped
  <1> SUFFICES ASSUME ForumPost!Init PROVE ForumTyped
    OBVIOUS
  <1>1. PeopleTyped /\ followFaults \in Nat
    BY DEF ForumPost!Init, PeopleTyped, Statuses, ForumPost!State
  <1>2. ThreadTyped
    BY DEF ForumPost!Init, ThreadTyped
  <1>3. PassesTyped
    BY NoForumPass DEF ForumPost!Init, PassesTyped
  <1> QED
    BY <1>1, <1>2, <1>3 DEF ForumTyped

\* Somebody's change of state.
LEMMA MoveTyped ==
  ASSUME PeopleTyped, owed \subseteq ForumPost!Change, NEW u \in Users,
         NEW s \in {"attending", "maybe", "withdrawn"}, ForumPost!Move(u, s)
  PROVE  /\ state' \in [Users -> ForumPost!State] /\ rolled' \subseteq Users
         /\ owed' \subseteq ForumPost!Change
  <1>1. [user |-> u, state |-> s] \in ForumPost!Change
    BY DEF ForumPost!Change, ForumPost!State
  <1>2. owed' \subseteq ForumPost!Change
    BY <1>1 DEF ForumPost!Move
  <1>3. state' \in [Users -> ForumPost!State] /\ rolled' \subseteq Users
    BY DEF ForumPost!Move, PeopleTyped, ForumPost!State
  <1> QED
    BY <1>2, <1>3

\* A call that may fail leaves the faults counted.
LEMMA FailsTyped ==
  ASSUME followFaults \in Nat, ForumPost!Fails \/ ForumPost!Works
  PROVE  followFaults' \in Nat
  BY DEF ForumPost!Fails, ForumPost!Works

\* What people, Discord and the date do.
LEMMA PeopleKeepTypes ==
  ASSUME ForumTyped,
         \/ \E u \in Users : ForumPost!Press(u) \/ ForumPost!Tick(u)
         \/ ForumPost!RollOver \/ ForumPost!Finish \/ ForumPost!DayPasses
         \/ ForumPost!QuietPostIsArchived \/ ForumPost!Handle
  PROVE  ForumTyped'
  <1>0. PeopleTyped /\ ThreadTyped /\ PassesTyped /\ followFaults \in Nat
    BY DEF ForumTyped
  <1>1. ASSUME NEW u \in Users, ForumPost!Press(u) PROVE ForumTyped'
    <2>1. UNCHANGED <<status, graceOver, post, ticked, inbox, member, published, writer, sweep,
                      followed, followFaults>>
      BY <1>1 DEF ForumPost!Press, ForumPost!thread
    <2>2. \E s \in {"attending", "maybe", "withdrawn"} : ForumPost!Move(u, s)
      BY <1>1 DEF ForumPost!Press
    <2>3. /\ state' \in [Users -> ForumPost!State] /\ rolled' \subseteq Users
          /\ owed' \subseteq ForumPost!Change
      BY <1>0, <2>2, MoveTyped DEF PassesTyped
    <2>4. moves' \in Nat
      BY <1>0, <1>1 DEF ForumPost!Press, ForumPost!Counted, PeopleTyped
    <2> QED
      BY <1>0, <2>1, <2>3, <2>4 DEF ForumTyped, PeopleTyped, ThreadTyped, PassesTyped
  <1>2. ASSUME NEW u \in Users, ForumPost!Tick(u) PROVE ForumTyped'
    <2>1. UNCHANGED <<state, rolled, status, graceOver, post, member, owed, published, writer,
                      sweep, followed, followFaults>>
      BY <1>2 DEF ForumPost!Tick, ForumPost!passes
    <2>2. /\ [user |-> u, kind |-> "add", by |-> "person"] \in ForumPost!Reaction
          /\ [user |-> u, kind |-> "remove", by |-> "person"] \in ForumPost!Reaction
      BY DEF ForumPost!Reaction
    <2>3. ticked' \subseteq Users /\ inbox' \subseteq ForumPost!Reaction
      BY <1>0, <1>2, <2>2 DEF ForumPost!Tick, ThreadTyped
    <2>4. moves' \in Nat
      BY <1>0, <1>2 DEF ForumPost!Tick, ForumPost!Counted, PeopleTyped
    <2> QED
      BY <1>0, <2>1, <2>3, <2>4 DEF ForumTyped, PeopleTyped, ThreadTyped, PassesTyped
  <1>3. ASSUME NEW r \in inbox, ForumPost!OnReactionAdd(r) \/ ForumPost!OnReactionRemove(r)
        PROVE  ForumTyped'
    <2>1. /\ UNCHANGED <<status, graceOver, moves, post, ticked, member, published, writer,
                         sweep, followed, followFaults>>
          /\ inbox' \subseteq inbox
      BY <1>3 DEF ForumPost!OnReactionAdd, ForumPost!OnReactionRemove, ForumPost!Handled
    <2>2. r.user \in Users
      BY <1>0 DEF ThreadTyped, ForumPost!Reaction
    <2>3. \/ \E s \in {"attending", "maybe", "withdrawn"} : ForumPost!Move(r.user, s)
          \/ UNCHANGED <<state, rolled, owed>>
      BY <1>3 DEF ForumPost!OnReactionAdd, ForumPost!OnReactionRemove
    <2>4. /\ state' \in [Users -> ForumPost!State] /\ rolled' \subseteq Users
          /\ owed' \subseteq ForumPost!Change
      BY <1>0, <2>2, <2>3, MoveTyped DEF PeopleTyped, PassesTyped
    <2> QED
      BY <1>0, <2>1, <2>4 DEF ForumTyped, PeopleTyped, ThreadTyped, PassesTyped
  <1>4. CASE ForumPost!RollOver
    <2>1. UNCHANGED <<status, post, ticked, inbox, member, published, writer, sweep, followed,
                      followFaults>>
      BY <1>4 DEF ForumPost!RollOver, ForumPost!thread
    <2>2. state' \in [Users -> ForumPost!State] /\ rolled' \subseteq Users
      BY <1>0, <1>4 DEF ForumPost!RollOver, PeopleTyped, ForumPost!State
    <2>3. owed' \subseteq ForumPost!Change
      BY <1>0, <1>4 DEF ForumPost!RollOver, PassesTyped, ForumPost!Change, ForumPost!State
    <2>4. moves' \in Nat
      BY <1>0, <1>4 DEF ForumPost!RollOver, ForumPost!Counted, PeopleTyped
    <2>5. graceOver' \in BOOLEAN
      BY <1>4 DEF ForumPost!RollOver
    <2> QED
      BY <1>0, <2>1, <2>2, <2>3, <2>4, <2>5 DEF ForumTyped, PeopleTyped, ThreadTyped, PassesTyped
  <1>5. CASE ForumPost!Finish
    <2>1. UNCHANGED <<state, rolled, ticked, inbox, member, owed, published, writer, sweep,
                      followed>>
      BY <1>5 DEF ForumPost!Finish, ForumPost!passes
    <2>2. moves' \in Nat
      BY <1>0, <1>5 DEF ForumPost!Finish, ForumPost!Counted, PeopleTyped
    <2>5. status' \in Statuses /\ graceOver' \in BOOLEAN
      BY <1>5 DEF ForumPost!Finish, Statuses
    <2>3. post' \in {"none", "open", "archived"}
      BY <1>0, <1>5 DEF ForumPost!Finish, ThreadTyped
    <2>4. followFaults' \in Nat
      BY <1>0, <1>5, FailsTyped DEF ForumPost!Finish
    <2> QED
      BY <1>0, <2>1, <2>2, <2>3, <2>4, <2>5 DEF ForumTyped, PeopleTyped, ThreadTyped, PassesTyped
  <1>6. CASE ForumPost!DayPasses
    BY <1>0, <1>6 DEF ForumPost!DayPasses, ForumPost!thread, ForumPost!passes, ForumTyped,
       PeopleTyped, ThreadTyped, PassesTyped
  <1>7. CASE ForumPost!QuietPostIsArchived
    <2>1. /\ UNCHANGED <<state, rolled, status, graceOver, ticked, inbox, member, owed, published,
                         writer, sweep, followed, followFaults>>
          /\ post' = "archived"
      BY <1>7 DEF ForumPost!QuietPostIsArchived, ForumPost!passes
    <2>2. moves' \in Nat
      BY <1>0, <1>7 DEF ForumPost!QuietPostIsArchived, ForumPost!Counted, PeopleTyped
    <2> QED
      BY <1>0, <2>1, <2>2 DEF ForumTyped, PeopleTyped, ThreadTyped, PassesTyped
  <1> QED
    BY <1>1, <1>2, <1>3, <1>4, <1>5, <1>6, <1>7 DEF ForumPost!Handle

\* The writer keeps the types.
LEMMA WriterKeepsTypes ==
  ASSUME ForumTyped, ForumPost!Pass
  PROVE  ForumTyped'
  <1>0. PeopleTyped /\ ThreadTyped /\ PassesTyped /\ followFaults \in Nat
    BY DEF ForumTyped
  <1>1. UNCHANGED <<state, rolled, status, graceOver, moves, sweep>>
    BY DEF ForumPost!Pass, ForumPost!Read, ForumPost!RemoveUserReactions,
       ForumPost!RefreshForumPost, ForumPost!SettleLeavers, ForumPost!Record,
       ForumPost!FollowForumPost, ForumPost!people
  <1>2. PeopleTyped'
    BY <1>0, <1>1 DEF PeopleTyped
  <1>3. ASSUME NEW run \in WriterRun, NEW at \in {"post", "settle", "follow", "record"},
               NEW todo \in SUBSET Users
        PROVE  /\ [run EXCEPT !.at = at] \in WriterRun
               /\ [run EXCEPT !.at = at, !.todo = todo] \in WriterRun
               /\ [run EXCEPT !.todo = todo] \in WriterRun
               /\ [run EXCEPT !.ok = FALSE, !.at = at] \in WriterRun
    BY DEF WriterRun
  <1>4. writer \in WriterRun /\ sweep \in SweepRun
    BY <1>0 DEF PassesTyped
  <1>5. CASE ForumPost!Read
    <2>1. writer' \in WriterRun
      BY <1>0, <1>5, NoForumPass
         DEF ForumPost!Read, WriterRun, AnyList, PeopleTyped, PassesTyped
    <2> QED
      BY <1>0, <1>1, <1>2, <1>5, <2>1
         DEF ForumPost!Read, ForumPost!thread, ForumTyped, ThreadTyped, PassesTyped
  <1>6. CASE ForumPost!RemoveUserReactions
    <2>1. writer' \in WriterRun
      BY <1>3, <1>4, <1>6, NoForumPass DEF ForumPost!RemoveUserReactions, WriterRun
    <2>2. ticked' \subseteq Users /\ inbox' \subseteq ForumPost!Reaction
      <3>1. PICK off : /\ off \subseteq ticked
                       /\ \/ /\ ticked' = ticked \ off
                             /\ inbox' = inbox \cup [user : off, kind : {"remove"}, by : {"bot"}]
                          \/ UNCHANGED <<ticked, inbox>>
        <4> DEFINE off == IF post = "none" THEN {}
                          ELSE ForumPost!Leavers(writer.batch) \cap ticked
        <4>1. off \subseteq ticked
          OBVIOUS
        <4>2. \/ /\ ticked' = ticked \ off
                 /\ inbox' = inbox \cup [user : off, kind : {"remove"}, by : {"bot"}]
              \/ UNCHANGED <<ticked, inbox>>
          BY <1>6 DEF ForumPost!RemoveUserReactions
        <4> QED
          BY <4>1, <4>2
      <3>2. [user : off, kind : {"remove"}, by : {"bot"}] \subseteq ForumPost!Reaction
        BY <1>0, <3>1 DEF ThreadTyped, ForumPost!Reaction
      <3> QED
        BY <1>0, <3>1, <3>2 DEF ThreadTyped
    <2>3. followFaults' \in Nat
      BY <1>0, <1>6, FailsTyped DEF ForumPost!RemoveUserReactions
    <2> QED
      BY <1>0, <1>1, <1>2, <1>6, <2>1, <2>2, <2>3
         DEF ForumPost!RemoveUserReactions, ForumTyped, ThreadTyped, PassesTyped
  <1>7. CASE ForumPost!RefreshForumPost
    <2>1. ForumPost!Going(writer.list) \subseteq Users
      BY DEF ForumPost!Going
    <2>2. writer' \in WriterRun
      <3>1. PICK todo \in SUBSET Users, at \in {"record", "settle"} :
              \/ writer' = [writer EXCEPT !.at = at, !.todo = todo]
              \/ writer' = [writer EXCEPT !.at = at]
              \/ writer' = [writer EXCEPT !.ok = FALSE, !.at = at]
        BY <1>7, <2>1 DEF ForumPost!RefreshForumPost
      <3>2. at \in {"post", "settle", "follow", "record"}
        OBVIOUS
      <3>3. /\ [writer EXCEPT !.at = at, !.todo = todo] \in WriterRun
            /\ [writer EXCEPT !.at = at] \in WriterRun
            /\ [writer EXCEPT !.ok = FALSE, !.at = at] \in WriterRun
        BY ONLY <1>3, <1>4, <3>2, todo \in SUBSET Users
      <3> QED
        BY ONLY <3>1, <3>3
    <2>3. post' \in {"none", "open", "archived"}
      BY <1>0, <1>7 DEF ForumPost!RefreshForumPost, ThreadTyped
    <2>4. followFaults' \in Nat
      BY <1>0, <1>7, FailsTyped DEF ForumPost!RefreshForumPost
    <2> QED
      BY <1>0, <1>1, <1>2, <1>7, <2>2, <2>3, <2>4
         DEF ForumPost!RefreshForumPost, ForumTyped, ThreadTyped, PassesTyped
  <1>8. CASE ForumPost!SettleLeavers
    <2>1. writer.batch \subseteq ForumPost!Change /\ writer.todo \subseteq Users
      BY <1>4 DEF WriterRun
    <2>2. writer.todo \cup ForumPost!Joiners(writer.batch) \subseteq Users
      BY <2>1 DEF ForumPost!Joiners, ForumPost!Change
    <2>3. writer' \in WriterRun
      BY <1>3, <1>4, <1>8, <2>2 DEF ForumPost!SettleLeavers
    <2>4. member' \subseteq Users /\ followed' \subseteq Users
      BY <1>0, <1>8 DEF ForumPost!SettleLeavers, ThreadTyped, PassesTyped
    <2>5. followFaults' \in Nat
      BY <1>0, <1>8, FailsTyped DEF ForumPost!SettleLeavers
    <2> QED
      BY <1>0, <1>1, <1>2, <1>8, <2>3, <2>4, <2>5
         DEF ForumPost!SettleLeavers, ForumTyped, ThreadTyped, PassesTyped
  <1>9. ASSUME NEW u \in Users, ForumPost!FollowForumPost(u) PROVE ForumTyped'
    <2>1. writer.todo \ {u} \subseteq Users
      BY <1>4 DEF WriterRun
    <2>2. writer' \in WriterRun
      BY <1>3, <1>4, <1>9, <2>1 DEF ForumPost!FollowForumPost
    <2>3. member' \subseteq Users /\ followed' \subseteq Users
      BY <1>0, <1>9 DEF ForumPost!FollowForumPost, ThreadTyped, PassesTyped
    <2>4. followFaults' \in Nat
      BY <1>0, <1>9, FailsTyped DEF ForumPost!FollowForumPost
    <2> QED
      BY <1>0, <1>1, <1>2, <1>9, <2>2, <2>3, <2>4
         DEF ForumPost!FollowForumPost, ForumTyped, ThreadTyped, PassesTyped
  <1>10. CASE ForumPost!Record
    BY <1>0, <1>1, <1>2, <1>10, NoForumPass
       DEF ForumPost!Record, ForumPost!thread, ForumTyped, ThreadTyped, PassesTyped
  <1> QED
    BY <1>5, <1>6, <1>7, <1>8, <1>9, <1>10 DEF ForumPost!Pass

\* So does the sweep.
LEMMA SweepKeepsTypes ==
  ASSUME ForumTyped, ForumPost!SweepStep \/ ForumPost!Restart
  PROVE  ForumTyped'
  <1>0. PeopleTyped /\ ThreadTyped /\ PassesTyped /\ followFaults \in Nat
    BY DEF ForumTyped
  <1>1. UNCHANGED <<state, rolled, status, graceOver, moves, ticked, published>>
    BY DEF ForumPost!SweepStep, ForumPost!ReadDue, ForumPost!ReopenFinished,
       ForumPost!ArchiveAgain, ForumPost!UnfollowForumPost, ForumPost!Restart,
       ForumPost!people, ForumPost!thread
  <1>2. PeopleTyped'
    BY <1>0, <1>1 DEF PeopleTyped
  <1>3. writer \in WriterRun /\ sweep \in SweepRun
    BY <1>0 DEF PassesTyped
  <1>4. CASE ForumPost!ReadDue
    <2>1. ForumPost!DueOff \subseteq Users
      BY <1>0 DEF ForumPost!DueOff, PassesTyped
    <2>2. sweep' \in SweepRun
      BY <1>0, <1>4, <2>1 DEF ForumPost!ReadDue, SweepRun, PeopleTyped
    <2> QED
      BY <1>0, <1>1, <1>2, <1>4, <2>2
         DEF ForumPost!ReadDue, ForumPost!thread, ForumTyped, ThreadTyped, PassesTyped
  <1>5. CASE ForumPost!ReopenFinished
    <2>1. sweep' \in SweepRun
      BY <1>3, <1>5, NoForumPass DEF ForumPost!ReopenFinished, SweepRun
    <2>2. post' \in {"none", "open", "archived"}
      BY <1>0, <1>5 DEF ForumPost!ReopenFinished, ThreadTyped
    <2>3. followFaults' \in Nat
      BY <1>0, <1>5, FailsTyped DEF ForumPost!ReopenFinished
    <2> QED
      BY <1>0, <1>1, <1>2, <1>5, <2>1, <2>2, <2>3
         DEF ForumPost!ReopenFinished, ForumTyped, ThreadTyped, PassesTyped
  <1>6. ASSUME NEW u \in Users, ForumPost!UnfollowForumPost(u) PROVE ForumTyped'
    <2>1. sweep' \in SweepRun
      BY <1>3, <1>6 DEF ForumPost!UnfollowForumPost, SweepRun
    <2>2. member' \subseteq Users /\ followed' \subseteq Users
      BY <1>0, <1>6 DEF ForumPost!UnfollowForumPost, ThreadTyped, PassesTyped
    <2>3. followFaults' \in Nat
      BY <1>0, <1>6, FailsTyped DEF ForumPost!UnfollowForumPost
    <2> QED
      BY <1>0, <1>1, <1>2, <1>6, <2>1, <2>2, <2>3
         DEF ForumPost!UnfollowForumPost, ForumTyped, ThreadTyped, PassesTyped
  <1>7. CASE ForumPost!ArchiveAgain
    <2>1. post' \in {"none", "open", "archived"} /\ sweep' \in SweepRun
      BY <1>0, <1>7, NoForumPass DEF ForumPost!ArchiveAgain, ThreadTyped
    <2>2. followFaults' \in Nat
      BY <1>0, <1>7, FailsTyped DEF ForumPost!ArchiveAgain
    <2> QED
      BY <1>0, <1>1, <1>2, <1>7, <2>1, <2>2
         DEF ForumPost!ArchiveAgain, ForumTyped, ThreadTyped, PassesTyped
  <1>8. CASE ForumPost!Restart
    <2>1. followFaults' \in Nat
      BY <1>0, <1>8, FailsTyped DEF ForumPost!Restart
    <2> QED
      BY <1>0, <1>1, <1>2, <1>8, <2>1, NoForumPass
         DEF ForumPost!Restart, ForumTyped, ThreadTyped, PassesTyped
  <1> QED
    BY <1>4, <1>5, <1>6, <1>7, <1>8 DEF ForumPost!SweepStep

\* And every step of the post.
LEMMA ForumStep ==
  ASSUME ForumTyped, ForumPost!Next \/ UNCHANGED forumVars
  PROVE  ForumTyped'
  <1>1. CASE UNCHANGED forumVars
    BY <1>1 DEF forumVars, ForumTyped, PeopleTyped, ThreadTyped, PassesTyped
  <1>2. CASE ForumPost!Next
    BY <1>2, PeopleKeepTypes, WriterKeepsTypes, SweepKeepsTypes DEF ForumPost!Next
  <1> QED
    BY <1>1, <1>2
-----------------------------------------------------------------------------
(* An event's picture.                                                     *)

SceneDetails == {"none", "d0", "d1"}
SceneRow == [details : SceneDetails, version : Nat, failed : SceneDetails,
             request : 0..MaxSceneRequests, asked : 0..MaxSceneRequests]
PrintOf  == SceneDetails \X Nat \X SUBSET Sitters
PainterRun == [at : {"resting", "writing", "printing"}, details : SceneDetails,
               people : SUBSET Sitters, request : 0..MaxSceneRequests, signature : PrintOf]

PicturesTyped ==
  /\ details \in {"d0", "d1"} /\ sitters \subseteq Sitters /\ picturesOff \in BOOLEAN
  /\ scene \in SceneRow /\ scene.request \in {0, scene.asked}
  /\ \A p \in prints : p.shows \subseteq Sitters
  /\ painter \in PainterRun
  /\ answers \subseteq 0..MaxSceneRequests

\* The pictures' types, by their parts.
LEMMA PictureTypes == PicturesTyped => EventPictures!TypeOK
  BY DEF PicturesTyped, SceneRow, PainterRun, SceneDetails, EventPictures!TypeOK

\* A painter at rest is of its type.
LEMMA PainterRests ==
  /\ EventPictures!Resting \in PainterRun /\ EventPictures!NoSignature \in PrintOf
  /\ 0 \in 0..MaxSceneRequests
  BY ServicesAssumption DEF EventPictures!Resting, EventPictures!NoSignature, PainterRun,
     SceneDetails, PrintOf

\* Pictures start typed.
LEMMA PicturesInit == EventPictures!Init => PicturesTyped
  <1> SUFFICES ASSUME EventPictures!Init PROVE PicturesTyped
    OBVIOUS
  <1>1. EventPictures!NoScene \in SceneRow /\ EventPictures!NoScene.request = 0
    BY PainterRests DEF EventPictures!NoScene, SceneRow, SceneDetails
  <1>2. /\ details = "d0" /\ sitters = {} /\ picturesOff = FALSE
        /\ scene = EventPictures!NoScene /\ prints = {} /\ painter = EventPictures!Resting
        /\ answers = {}
    BY DEF EventPictures!Init
  <1> QED
    BY <1>1, <1>2, PainterRests DEF PicturesTyped

\* A picture cleared is of its type.
LEMMA ClearedTyped ==
  ASSUME NEW kept \in SceneRow, kept.request \in {0, kept.asked}, NEW answered
  PROVE  /\ EventPictures!Cleared(kept, answered) \in SceneRow
         /\ EventPictures!Cleared(kept, answered).asked = kept.asked
         /\ EventPictures!Cleared(kept, answered).request \in {0, kept.asked}
  BY PainterRests DEF EventPictures!Cleared, SceneRow

\* Every step of the pictures keeps their types.
LEMMA PicturesStep ==
  ASSUME PicturesTyped, EventPictures!Next \/ UNCHANGED picturesVars
  PROVE  PicturesTyped'
  <1>0. /\ details \in {"d0", "d1"} /\ sitters \subseteq Sitters /\ picturesOff \in BOOLEAN
        /\ scene \in SceneRow /\ scene.request \in {0, scene.asked}
        /\ \A p \in prints : p.shows \subseteq Sitters
        /\ painter \in PainterRun /\ answers \subseteq 0..MaxSceneRequests
    BY DEF PicturesTyped
  <1>1. EventPictures!Signature(sitters) \in PrintOf
    BY <1>0, PainterRests DEF EventPictures!Signature, PrintOf, SceneRow
  <1>2. /\ scene.details \in SceneDetails /\ scene.version \in Nat
        /\ scene.request \in 0..MaxSceneRequests /\ scene.asked \in 0..MaxSceneRequests
        /\ painter.details \in SceneDetails /\ painter.people \subseteq Sitters
        /\ painter.request \in 0..MaxSceneRequests /\ details \in SceneDetails
    BY <1>0 DEF SceneRow, PainterRun, SceneDetails
  <1>3. CASE EventPictures!ListDue
    <2>1. painter' \in PainterRun
      BY <1>0, <1>1, <1>2, <1>3, PainterRests DEF EventPictures!ListDue, PainterRun
    <2> QED
      BY <1>0, <1>3, <2>1 DEF EventPictures!ListDue, EventPictures!sources, EventPictures!kept,
         PicturesTyped
  <1>4. CASE EventPictures!SaveScene
    <2> DEFINE written == [scene EXCEPT !.details = painter.details, !.version = @ + 1,
                                        !.failed = "none"]
               saved == EventPictures!Cleared(written, painter.request)
    <2>1. written \in SceneRow /\ written.asked = scene.asked /\ written.request = scene.request
      <3>1. scene.version + 1 \in Nat /\ "none" \in SceneDetails
        BY <1>2 DEF SceneDetails
      <3>2. written = [scene EXCEPT !.details = painter.details, !.version = scene.version + 1,
                                    !.failed = "none"]
        OBVIOUS
      <3> HIDE DEF written
      <3>3. written \in SceneRow
        BY <1>0, <1>2, <3>1, <3>2 DEF SceneRow
      <3> QED
        BY <1>0, <3>2, <3>3 DEF SceneRow
    <2>2. saved \in SceneRow /\ saved.request \in {0, saved.asked}
      BY <1>0, <2>1, ClearedTyped
    <2>3. /\ scene' \in {scene, saved} /\ answers' \subseteq answers \cup {painter.request}
          /\ UNCHANGED <<details, sitters, picturesOff, prints>>
      BY <1>4 DEF EventPictures!SaveScene, EventPictures!sources
    <2>4. painter' \in PainterRun
      <3>1. <<saved.details, saved.version, sitters>> \in PrintOf
        BY <1>0, <2>2 DEF SceneRow, PrintOf
      <3>2. PICK signature \in PrintOf :
              painter' \in {EventPictures!Resting,
                            [painter EXCEPT !.at = "printing", !.signature = signature]}
        BY <1>4, <3>1, PainterRests DEF EventPictures!SaveScene
      <3>3. [painter EXCEPT !.at = "printing", !.signature = signature] \in PainterRun
        BY <1>0 DEF PainterRun
      <3> QED
        BY <3>2, <3>3, PainterRests
    <2> HIDE DEF saved
    <2> QED
      BY <1>0, <1>2, <2>2, <2>3, <2>4 DEF PicturesTyped
  <1>5. CASE EventPictures!FailScene
    <2> DEFINE failing == [scene EXCEPT !.failed = painter.details]
               saved == EventPictures!Cleared(failing, painter.request)
    <2>1. failing \in SceneRow /\ failing.asked = scene.asked /\ failing.request = scene.request
      BY <1>0, <1>2 DEF SceneRow, SceneDetails
    <2>2. saved \in SceneRow /\ saved.request \in {0, saved.asked}
      BY <1>0, <2>1, ClearedTyped
    <2>3. /\ scene' = saved /\ answers' = answers \cup {painter.request}
          /\ painter' = EventPictures!Resting
          /\ UNCHANGED <<details, sitters, picturesOff, prints>>
      BY <1>5 DEF EventPictures!FailScene, EventPictures!sources
    <2> HIDE DEF saved
    <2> QED
      BY <1>0, <1>2, <2>2, <2>3, PainterRests DEF PicturesTyped
  <1>6. CASE EventPictures!SavePicture
    <2>1. \A p \in prints' : p.shows \subseteq Sitters
      BY <1>0, <1>2, <1>6 DEF EventPictures!SavePicture
    <2> QED
      BY <1>0, <1>6, <2>1, PainterRests
         DEF EventPictures!SavePicture, EventPictures!sources, PicturesTyped
  <1>7. CASE EventPictures!RetryPasses \/ EventPictures!RequestEventScene
    <2>1. scene' \in SceneRow /\ scene'.request \in {0, scene'.asked}
      <3>1. CASE EventPictures!RetryPasses
        BY <1>0, <3>1 DEF EventPictures!RetryPasses, SceneRow, SceneDetails
      <3>2. CASE EventPictures!RequestEventScene
        <4>1. scene.asked + 1 \in 0..MaxSceneRequests
          BY <1>2, <3>2, ServicesAssumption DEF EventPictures!RequestEventScene
        <4> QED
          BY <1>0, <3>2, <4>1 DEF EventPictures!RequestEventScene, SceneRow
      <3> QED
        BY <1>7, <3>1, <3>2
    <2>2. UNCHANGED <<details, sitters, picturesOff, prints, painter, answers>>
      BY <1>7 DEF EventPictures!RetryPasses, EventPictures!RequestEventScene,
         EventPictures!sources
    <2> QED
      BY <1>0, <2>1, <2>2 DEF PicturesTyped
  <1>8. CASE EventPictures!KillPainter
    BY <1>0, <1>8, PainterRests DEF EventPictures!KillPainter, EventPictures!sources,
       EventPictures!kept, PicturesTyped
  <1>9. CASE EventPictures!Edit
    <2>1. details' \in {"d0", "d1"} /\ sitters' \subseteq Sitters /\ picturesOff' \in BOOLEAN
      BY <1>0, <1>9 DEF EventPictures!Edit
    <2>2. UNCHANGED <<scene, prints, answers, painter>>
      BY <1>9 DEF EventPictures!Edit, EventPictures!kept
    <2> QED
      BY <1>0, <2>1, <2>2 DEF PicturesTyped
  <1>10. CASE UNCHANGED picturesVars
    BY <1>0, <1>10 DEF picturesVars, PicturesTyped
  <1> QED
    BY <1>3, <1>4, <1>5, <1>6, <1>7, <1>8, <1>9, <1>10
       DEF EventPictures!Next, EventPictures!PaintDue
-----------------------------------------------------------------------------
(* A server's channels, and its row in the list of servers.                *)

Channel  == [id : 1..MaxChannels, kind : GuildSetup!Kinds, named : BOOLEAN]
ChannelId == 0..MaxChannels
SetupStages == {"idle", "record", "adopt"} \cup GuildSetup!Kinds
SettingUp == [at : SetupStages, seen : SUBSET Channel,
              recorded : [board : ChannelId, forum : ChannelId],
              found : [GuildSetup!Kinds -> ChannelId]]

SetupTyped ==
  /\ channels \subseteq Channel /\ guildRow \in [board : ChannelId, forum : ChannelId]
  /\ made \in ChannelId /\ setups \in [Setups -> SettingUp]

ServersTyped ==
  /\ botGuild \in {"none", "named", "whole"} /\ botMember \in BOOLEAN
  /\ sync \in {"idle", "listed in", "listed out", "owner"}

\* The set-up's types, by their parts.
LEMMA SetupTypes == SetupTyped /\ ServersTyped => GuildSetup!TypeOK
  BY DEF SetupTyped, ServersTyped, SettingUp, SetupStages, Channel, ChannelId,
         GuildSetup!TypeOK

\* A call of nobody is of its type.
LEMMA FreeSetup == GuildSetup!Free \in SettingUp
  BY ServicesAssumption DEF GuildSetup!Free, SettingUp, SetupStages, ChannelId

\* The set-up starts typed.
LEMMA SetupInit == GuildSetup!Init => SetupTyped /\ ServersTyped
  <1>1. 0 \in ChannelId
    BY ServicesAssumption DEF ChannelId
  <1>2. GuildSetup!Init => SetupTyped
    BY <1>1, FreeSetup DEF GuildSetup!Init, SetupTyped
  <1>3. GuildSetup!Init => ServersTyped
    BY DEF GuildSetup!Init, ServersTyped
  <1> QED
    BY <1>2, <1>3

\* What a call finds of the server is of its type.
LEMMA FoundSetup ==
  ASSUME SetupTyped, NEW s \in Setups, NEW kind \in GuildSetup!Kinds, NEW id \in ChannelId
  PROVE  [setups EXCEPT ![s].found[kind] = id, ![s].at = GuildSetup!Following(kind)]
           \in [Setups -> SettingUp]
  <1>1. GuildSetup!Following(kind) \in SetupStages
    BY DEF GuildSetup!Following, GuildSetup!Kinds, SetupStages
  <1>2. setups[s] \in SettingUp /\ setups \in [Setups -> SettingUp]
    BY DEF SetupTyped
  <1>3. [setups[s].found EXCEPT ![kind] = id] \in [GuildSetup!Kinds -> ChannelId]
    BY <1>2 DEF SettingUp
  <1>4. [setups[s] EXCEPT !.found = [setups[s].found EXCEPT ![kind] = id],
                          !.at = GuildSetup!Following(kind)] \in SettingUp
    BY <1>1, <1>2, <1>3 DEF SettingUp
  <1>5. [setups EXCEPT ![s].found[kind] = id, ![s].at = GuildSetup!Following(kind)]
          = [setups EXCEPT ![s] = [setups[s] EXCEPT
               !.found = [setups[s].found EXCEPT ![kind] = id],
               !.at = GuildSetup!Following(kind)]]
    BY <1>2 DEF SettingUp
  <1> QED
    BY <1>2, <1>4, <1>5

\* So is a call begun.
LEMMA BegunSetup ==
  ASSUME SetupTyped, NEW s \in Setups, GuildSetup!Begin(s)
  PROVE  setups' \in [Setups -> SettingUp]
  <1>1. [GuildSetup!Free EXCEPT !.at = "category", !.seen = channels, !.recorded = guildRow]
          \in SettingUp
    BY FreeSetup DEF SetupTyped, SettingUp, SetupStages, GuildSetup!Kinds
  <1> QED
    BY <1>1 DEF GuildSetup!Begin, SetupTyped

\* Every step of the set-up keeps its types.
LEMMA SetupStep ==
  ASSUME SetupTyped, ServersTyped, GuildSetup!Next \/ UNCHANGED setupVars
  PROVE  SetupTyped' /\ ServersTyped'
  <1>0. /\ channels \subseteq Channel /\ guildRow \in [board : ChannelId, forum : ChannelId]
        /\ made \in ChannelId /\ setups \in [Setups -> SettingUp]
    BY DEF SetupTyped
  <1>1. ASSUME NEW s \in Setups, GuildSetup!Setup(s)
        PROVE  SetupTyped' /\ ServersTyped'
    <2>1. UNCHANGED <<botMember, botGuild, sync>>
      BY <1>1 DEF GuildSetup!Setup, GuildSetup!HandleSetUpGuild, GuildSetup!RecordChannels,
         GuildSetup!AdoptForum, GuildSetup!SetupFails, GuildSetup!Reuse,
         GuildSetup!CreateGuildChannel, GuildSetup!guilds
    <2>2. CASE GuildSetup!HandleSetUpGuild(s)
      <3>1. GuildSetup!Begin(s) /\ UNCHANGED <<channels, made, guildRow>>
        BY <2>2 DEF GuildSetup!HandleSetUpGuild
      <3>2. setups' \in [Setups -> SettingUp]
        BY <3>1, BegunSetup
      <3> QED
        BY <1>0, <2>1, <3>1, <3>2 DEF SetupTyped, ServersTyped
    <2>3. ASSUME NEW kind \in GuildSetup!Kinds, GuildSetup!Reuse(s, kind) PROVE SetupTyped'
      <3>1. PICK c \in GuildSetup!Reusable(setups[s], kind) :
              setups' = [setups EXCEPT ![s].found[kind] = c.id,
                                       ![s].at = GuildSetup!Following(kind)]
        BY <2>3 DEF GuildSetup!Reuse
      <3>2. c \in Channel
        BY <1>0, <3>1 DEF GuildSetup!Reusable, SettingUp
      <3>3. c.id \in ChannelId
        BY <3>2, ServicesAssumption DEF Channel, ChannelId
      <3> QED
        BY <1>0, <2>3, <3>1, <3>3, FoundSetup DEF GuildSetup!Reuse, SetupTyped
    <2>4. ASSUME NEW kind \in GuildSetup!Kinds, GuildSetup!CreateGuildChannel(s, kind)
          PROVE  SetupTyped'
      <3>1. made + 1 \in ChannelId /\ made + 1 \in 1..MaxChannels
        BY <1>0, <2>4, ServicesAssumption DEF GuildSetup!CreateGuildChannel, ChannelId
      <3>2. channels' \subseteq Channel
        <4>1. [id |-> made + 1, kind |-> kind, named |-> TRUE] \in Channel
          BY <3>1 DEF Channel
        <4> QED
          BY <1>0, <2>4, <4>1 DEF GuildSetup!CreateGuildChannel
      <3> QED
        BY <1>0, <2>4, <3>1, <3>2, FoundSetup DEF GuildSetup!CreateGuildChannel, SetupTyped
    <2>5. CASE \/ GuildSetup!RecordChannels(s) \/ GuildSetup!AdoptForum(s)
               \/ GuildSetup!SetupFails(s)
      <3>1. /\ UNCHANGED <<channels, made>>
            /\ \/ setups' = [setups EXCEPT ![s].at = "adopt"]
               \/ setups' = [setups EXCEPT ![s] = GuildSetup!Free]
        BY <2>5 DEF GuildSetup!RecordChannels, GuildSetup!AdoptForum, GuildSetup!SetupFails
      <3>2. guildRow' \in [board : ChannelId, forum : ChannelId]
        BY <1>0, <2>5 DEF GuildSetup!RecordChannels, GuildSetup!AdoptForum,
           GuildSetup!SetupFails, SettingUp, GuildSetup!Kinds
      <3>3. [setups EXCEPT ![s].at = "adopt"] \in [Setups -> SettingUp]
        BY <1>0 DEF SettingUp, SetupStages
      <3>4. [setups EXCEPT ![s] = GuildSetup!Free] \in [Setups -> SettingUp]
        BY <1>0, FreeSetup
      <3> QED
        <4>1. setups' \in [Setups -> SettingUp]
          BY <3>1, <3>3, <3>4
        <4> QED
          BY <1>0, <2>1, <3>1, <3>2, <4>1 DEF SetupTyped, ServersTyped
    <2> QED
      BY <1>1, <2>1, <2>2, <2>3, <2>4, <2>5 DEF GuildSetup!Setup, ServersTyped
  <1>2. CASE GuildSetup!Meddle
    <2>1. channels' \subseteq Channel
      BY <1>0, <1>2 DEF GuildSetup!Meddle, Channel
    <2> QED
      BY <1>0, <1>2, <2>1 DEF GuildSetup!Meddle, GuildSetup!guilds, SetupTyped, ServersTyped
  <1>3. CASE GuildSetup!OnGuildCreate
    <2>1. setups' = setups \/ \E s \in Setups : GuildSetup!Begin(s)
      BY <1>3 DEF GuildSetup!OnGuildCreate
    <2>2. setups' \in [Setups -> SettingUp]
      BY <1>0, <2>1, BegunSetup
    <2> QED
      BY <1>0, <1>3, <2>2 DEF GuildSetup!OnGuildCreate, SetupTyped, ServersTyped
  <1>4. CASE \/ GuildSetup!JoinOrLeave \/ GuildSetup!Reconnect \/ GuildSetup!OnReadyOrDelete
             \/ GuildSetup!RefreshBotGuilds
    <2>1. UNCHANGED <<channels, made, guildRow, setups>>
      BY <1>4 DEF GuildSetup!JoinOrLeave, GuildSetup!Reconnect, GuildSetup!OnReadyOrDelete,
         GuildSetup!RefreshBotGuilds, GuildSetup!ListBotGuilds, GuildSetup!KeepOnlyBotGuilds,
         GuildSetup!ReadOwner, GuildSetup!server
    <2>2. ServersTyped'
      <3>1. CASE GuildSetup!JoinOrLeave
        BY <3>1 DEF GuildSetup!JoinOrLeave, ServersTyped
      <3>2. CASE GuildSetup!Reconnect \/ GuildSetup!OnReadyOrDelete
        BY <3>2 DEF GuildSetup!Reconnect, GuildSetup!OnReadyOrDelete, ServersTyped
      <3>3. CASE GuildSetup!RefreshBotGuilds
        BY <3>3 DEF GuildSetup!RefreshBotGuilds, GuildSetup!ListBotGuilds,
           GuildSetup!KeepOnlyBotGuilds, GuildSetup!ReadOwner, ServersTyped
      <3> QED
        BY <1>4, <3>1, <3>2, <3>3
    <2> QED
      BY <2>1, <2>2 DEF SetupTyped
  <1>5. CASE UNCHANGED setupVars
    BY <1>0, <1>5 DEF setupVars, SetupTyped, ServersTyped
  <1> QED
    BY <1>1, <1>2, <1>3, <1>4, <1>5 DEF GuildSetup!Next
-----------------------------------------------------------------------------
(* An event here and Discord's copy of it.                                 *)

TextNo   == 0..MaxTexts
NativeNo == 1..MaxNatives
Linked   == 0..MaxNatives
RowHere  == [text : TextNo, status : {"none", "open", "completed", "cancelled"},
             link : Linked, wrote : TextNo]
NativeThere == [text : TextNo, ours : BOOLEAN,
                status : {"none", "scheduled", "completed", "deleted"}]
PassCopy == [text : TextNo, link : Linked, wrote : TextNo]
SyncPass == [at : {"idle", "compare", "imported", "settle", "record", "reconcile", "link"},
             list : [NativeNo -> TextNo], copy : PassCopy, raced : BOOLEAN]
PushRun  == [at : {"idle", "patch", "record"}, copy : [text : TextNo, link : Linked]]

NativeTyped ==
  /\ row \in RowHere /\ native \in [NativeNo -> NativeThere]
  /\ passes \in [Passes -> SyncPass] /\ push \in PushRun /\ due \in BOOLEAN
  /\ texts \in 1..MaxTexts /\ crossed \in BOOLEAN /\ typed \subseteq 1..texts

\* A pass compares with the row's own native.
SettlesLinked == \A p \in Passes : passes[p].at = "settle" => passes[p].copy.link # 0

\* The types of Discord's event, by their parts.
LEMMA NativeTypes == NativeTyped => NativeEvents!TypeOK
  <1> SUFFICES ASSUME NativeTyped PROVE NativeEvents!TypeOK
    OBVIOUS
  <1>1. /\ row.text \in 0..MaxTexts /\ row.wrote \in 0..MaxTexts /\ row.link \in 0..MaxNatives
        /\ row.status \in {"none", "open", "completed", "cancelled"}
    BY DEF NativeTyped, RowHere, TextNo, Linked
  <1>2. native \in [NativeEvents!Natives -> [text : NativeEvents!Texts, ours : BOOLEAN,
                     status : {"none", "scheduled", "completed", "deleted"}]]
    BY DEF NativeTyped, NativeThere, NativeNo, TextNo, NativeEvents!Natives, NativeEvents!Texts
  <1>3. /\ \A p \in Passes : passes[p].at \in {"idle", "compare", "imported", "settle", "record",
                                               "reconcile", "link"}
        /\ push.at \in {"idle", "patch", "record"} /\ due \in BOOLEAN
    BY DEF NativeTyped, SyncPass, PushRun
  <1>4. typed \subseteq 0..MaxTexts
    BY ServicesAssumption DEF NativeTyped
  <1> QED
    BY <1>1, <1>2, <1>3, <1>4 DEF NativeEvents!TypeOK, NativeEvents!Texts

\* A row with its fields in range is of its type.
LEMMA RowTyped ==
  ASSUME NativeTyped
  PROVE  /\ row = [text |-> row.text, status |-> row.status, link |-> row.link,
                   wrote |-> row.wrote]
         /\ row.text \in 0..MaxTexts /\ row.link \in 0..MaxNatives /\ row.wrote \in 0..MaxTexts
         /\ row.status \in {"none", "open", "completed", "cancelled"}
         /\ texts \in Nat /\ texts <= MaxTexts /\ 1 <= texts
         /\ push.copy.text \in 0..MaxTexts /\ push.copy.link \in 0..MaxNatives
         /\ push.at \in {"idle", "patch", "record"} /\ DOMAIN passes = Passes
         /\ DOMAIN native = NativeNo
  BY ServicesAssumption DEF NativeTyped, RowHere, PushRun, TextNo, Linked

\* So is a pass.
LEMMA PassTyped ==
  ASSUME NativeTyped, NEW p \in Passes
  PROVE  /\ passes[p] \in SyncPass
         /\ passes[p].list \in [NativeNo -> 0..MaxTexts] /\ passes[p].copy \in PassCopy
         /\ passes[p].copy.text \in 0..MaxTexts /\ passes[p].copy.wrote \in 0..MaxTexts
         /\ passes[p].copy.link \in 0..MaxNatives /\ passes[p].raced \in BOOLEAN
  BY DEF NativeTyped, SyncPass, PassCopy, TextNo, Linked

\* And an event of Discord's that is there.
LEMMA NativeThereTyped ==
  ASSUME NativeTyped, NEW n \in NativeNo
  PROVE  /\ native[n] \in NativeThere /\ native[n].text \in 0..MaxTexts
         /\ native[n].ours \in BOOLEAN
         /\ native[n].status \in {"none", "scheduled", "completed", "deleted"}
  BY DEF NativeTyped, NativeThere, TextNo

\* The first of each number is in range, and so is none.
LEMMA FirstNative == 1 \in NativeNo /\ 1 \in TextNo /\ 0 \in TextNo /\ 0 \in Linked
  BY ServicesAssumption DEF NativeNo, TextNo, Linked

\* A pass at rest, one done with the row, one raced, and one that moved on.
LEMMA RacedPassesTyped ==
  ASSUME NativeTyped
  PROVE  /\ NativeEvents!Resting \in SyncPass
         /\ \A p \in Passes : NativeEvents!AfterSettle(p) \in SyncPass
         /\ \A late \in BOOLEAN : NativeEvents!Race(late) \in [Passes -> SyncPass]
  <1>1. NativeEvents!Resting \in SyncPass
    BY FirstNative DEF NativeEvents!Resting, NativeEvents!CopyOf, NativeEvents!NoRow,
       NativeEvents!Natives, SyncPass, PassCopy, NativeNo
  <1>2. ASSUME NEW p \in Passes
        PROVE  NativeEvents!AfterSettle(p) \in SyncPass
    <2>1. [n \in NativeNo |-> IF passes[p].list[n] = 0 THEN 0 ELSE 1] \in [NativeNo -> TextNo]
      BY FirstNative
    <2> QED
      BY <1>1, <2>1 DEF NativeEvents!AfterSettle, NativeEvents!Natives, SyncPass, NativeNo
  <1>3. ASSUME NEW late \in BOOLEAN
        PROVE  NativeEvents!Race(late) \in [Passes -> SyncPass]
    <2>1. ASSUME NEW p \in Passes
          PROVE  [passes[p] EXCEPT !.raced = @ \/ late] \in SyncPass
      BY PassTyped DEF SyncPass
    <2> QED
      BY <2>1, PassTyped DEF NativeEvents!Race
  <1> QED
    BY <1>1, <1>2, <1>3

\* A row copied to a pass stays typed.
LEMMA RowCopied ==
  ASSUME NativeTyped
  PROVE  NativeEvents!CopyOf(row) \in PassCopy
         /\ NativeEvents!Sent(row) \in [text : TextNo, link : Linked]
  BY RowTyped DEF NativeEvents!CopyOf, NativeEvents!Sent, PassCopy, TextNo, Linked

\* They start typed.
LEMMA NativeTypesInit == NativeEvents!Init => NativeTyped /\ SettlesLinked
  <1> SUFFICES ASSUME NativeEvents!Init
               PROVE  NativeTyped /\ SettlesLinked
    OBVIOUS
  <1>1. NativeEvents!Resting \in SyncPass
    BY FirstNative DEF NativeEvents!Resting, NativeEvents!CopyOf, NativeEvents!NoRow,
       NativeEvents!Natives, SyncPass, PassCopy, NativeNo
  <1>2. push = [at |-> "idle", copy |-> [text |-> 0, link |-> 0]]
    BY DEF NativeEvents!Init, NativeEvents!Quiet, NativeEvents!Sent, NativeEvents!NoRow
  <1>3. /\ passes = [p \in Passes |-> NativeEvents!Resting] /\ due = FALSE /\ texts = 1
        /\ crossed = FALSE /\ typed \subseteq {1}
    BY DEF NativeEvents!Init
  <1>4. \/ row = [text |-> 1, status |-> "open", link |-> 0, wrote |-> 0]
        \/ row = [text |-> 0, status |-> "none", link |-> 0, wrote |-> 0]
        \/ row = [text |-> 1, status |-> "open", link |-> 1, wrote |-> 0]
    BY DEF NativeEvents!Init, NativeEvents!NoRow
  <1>5. \/ native = [n \in NativeNo |-> NativeEvents!Unmade]
        \/ \E own \in BOOLEAN : native = NativeEvents!OneNative(own)
    BY DEF NativeEvents!Init, NativeEvents!Natives, NativeNo
  <1>6. native \in [NativeNo -> NativeThere]
    <2>1. CASE native = [n \in NativeNo |-> NativeEvents!Unmade]
      BY <2>1, FirstNative DEF NativeEvents!Unmade, NativeThere
    <2>2. ASSUME NEW own \in BOOLEAN, native = NativeEvents!OneNative(own)
          PROVE  <1>6
      BY <2>2, FirstNative DEF NativeEvents!OneNative, NativeEvents!Unmade,
         NativeEvents!Natives, NativeThere, NativeNo
    <2> QED
      BY <1>5, <2>1, <2>2
  <1>7. NativeTyped
    <2>1. row \in RowHere /\ push \in PushRun
      BY <1>2, <1>4, FirstNative DEF RowHere, PushRun, Linked, NativeNo
    <2>2. texts \in 1..MaxTexts /\ typed \subseteq 1..texts
      BY <1>3, ServicesAssumption
    <2>3. passes \in [Passes -> SyncPass] /\ due \in BOOLEAN /\ crossed \in BOOLEAN
      BY <1>1, <1>3
    <2> QED
      BY <1>6, <2>1, <2>2, <2>3 DEF NativeTyped
  <1>8. SettlesLinked
    <2>1. NativeEvents!Resting.at = "idle"
      BY DEF NativeEvents!Resting
    <2> QED
      BY <1>3, <2>1 DEF SettlesLinked
  <1> QED
    BY <1>7, <1>8

\* Every step keeps their types.
LEMMA NativeTypesStep ==
  ASSUME NativeTyped, SettlesLinked, NativeEvents!Next \/ UNCHANGED nativeVars
  PROVE  NativeTyped'
  <1>0. /\ row \in RowHere /\ native \in [NativeNo -> NativeThere]
        /\ passes \in [Passes -> SyncPass] /\ push \in PushRun /\ due \in BOOLEAN
        /\ texts \in 1..MaxTexts /\ crossed \in BOOLEAN /\ typed \subseteq 1..texts
    BY DEF NativeTyped
  <1>1. CASE UNCHANGED nativeVars
    BY <1>1, <1>0 DEF nativeVars, NativeTyped
  <1>2. CASE NativeEvents!EditHere
    <2>1. texts' \in 1..MaxTexts /\ typed' \subseteq 1..texts' /\ due' \in BOOLEAN
      BY <1>2, <1>0, ServicesAssumption DEF NativeEvents!EditHere
    <2>2. row' \in RowHere
      BY <1>2, <1>0, <2>1 DEF NativeEvents!EditHere, RowHere, TextNo
    <2> QED
      BY <1>2, <1>0, <2>1, <2>2 DEF NativeEvents!EditHere, NativeTyped
  <1>3. CASE NativeEvents!EditThere
    <2>1. texts' \in 1..MaxTexts /\ typed' \subseteq 1..texts' /\ texts + 1 \in TextNo
      BY <1>3, <1>0, ServicesAssumption DEF NativeEvents!EditThere, TextNo
    <2>2. native' \in [NativeNo -> NativeThere]
      BY <1>3, <1>0, <2>1
         DEF NativeEvents!EditThere, NativeThere, NativeEvents!Natives, NativeNo
    <2> QED
      BY <1>3, <1>0, <2>1, <2>2 DEF NativeEvents!EditThere, NativeTyped
  <1>4. CASE NativeEvents!CancelHere
    BY <1>4, <1>0 DEF NativeEvents!CancelHere, NativeTyped, RowHere
  <1>5. CASE NativeEvents!EndOrDeleteThere
    <2>1. native' \in [NativeNo -> NativeThere]
      BY <1>5, <1>0 DEF NativeEvents!EndOrDeleteThere, NativeThere
    <2> QED
      BY <1>5, <1>0, <2>1 DEF NativeEvents!EndOrDeleteThere, NativeTyped
  <1>6. CASE NativeEvents!ReadToPush
    <2>1. push' \in PushRun
      BY <1>6, RowCopied DEF NativeEvents!ReadToPush, PushRun
    <2> QED
      BY <1>6, <1>0, <2>1 DEF NativeEvents!ReadToPush, NativeTyped
  <1>7. ASSUME NEW sent \in [text : TextNo, link : Linked], NativeEvents!Patch(sent)
        PROVE  native' \in [NativeNo -> NativeThere] /\ crossed' \in BOOLEAN
    <2>1. native' = [native EXCEPT ![sent.link].text = sent.text]
      BY <1>7 DEF NativeEvents!Patch
    <2>2. sent.text \in TextNo
      OBVIOUS
    <2>3. native' \in [NativeNo -> NativeThere]
      BY <1>0, <2>1, <2>2 DEF NativeThere
    <2>4. crossed' \in BOOLEAN
      BY <1>7 DEF NativeEvents!Patch, NativeEvents!Writes, NativeEvents!Unrecorded
    <2> QED
      BY <2>3, <2>4
  <1>8. NativeEvents!Quiet \in PushRun
    BY FirstNative DEF NativeEvents!Quiet, NativeEvents!Sent, NativeEvents!NoRow, PushRun
  <1>9. CASE NativeEvents!PushEditToDiscord
    <2>1. push' \in PushRun /\ due' \in BOOLEAN
      BY <1>9, <1>0, <1>8 DEF NativeEvents!PushEditToDiscord, PushRun
    <2>2. passes' \in [Passes -> SyncPass]
      BY <1>9, <1>0, RacedPassesTyped DEF NativeEvents!PushEditToDiscord, NativeEvents!Raced
    <2>3. native' \in [NativeNo -> NativeThere] /\ crossed' \in BOOLEAN
      <3>1. push.copy \in [text : TextNo, link : Linked]
        BY <1>0 DEF PushRun
      <3> QED
        BY <1>9, <1>0, <1>7, <3>1 DEF NativeEvents!PushEditToDiscord, NativeEvents!Refuse
    <2> QED
      BY <1>9, <1>0, <2>1, <2>2, <2>3 DEF NativeEvents!PushEditToDiscord, NativeTyped
  <1>10. CASE NativeEvents!RecordNativeWrite
    <2>1. row' \in RowHere
      <3>1. push.copy.text \in TextNo
        BY <1>0 DEF PushRun
      <3> QED
        BY <1>10, <1>0, <3>1 DEF NativeEvents!RecordNativeWrite, RowHere
    <2> QED
      BY <1>10, <1>0, <1>8, <2>1 DEF NativeEvents!RecordNativeWrite, NativeTyped
  <1>11. ASSUME NEW p \in Passes, NativeEvents!ListScheduledEvents(p)
         PROVE  NativeTyped'
    <2> DEFINE listed == [n \in NativeNo |-> IF native[n].status = "scheduled"
                                             THEN native[n].text ELSE 0]
    <2>1. listed \in [NativeNo -> TextNo]
      BY <1>0, FirstNative DEF NativeThere
    <2> HIDE DEF listed
    <2>2. [NativeEvents!Resting EXCEPT !.at = "compare",
             !.raced = NativeEvents!Unrecorded \/ crossed, !.list = listed] \in SyncPass
      BY <2>1, <1>0, RacedPassesTyped DEF SyncPass, NativeEvents!Unrecorded
    <2>3. passes' \in [Passes -> SyncPass]
      BY <1>11, <1>0, <2>2
         DEF NativeEvents!ListScheduledEvents, listed, NativeEvents!Natives, NativeNo
    <2> QED
      BY <1>11, <1>0, <2>3 DEF NativeEvents!ListScheduledEvents, NativeTyped
  <1>12. ASSUME NEW p \in Passes, NativeEvents!Import(p)
         PROVE  NativeTyped'
    <2>1. PICK n \in NativeNo :
            /\ row' = [text |-> passes[p].list[n], status |-> "open", link |-> n, wrote |-> 0]
            /\ passes' = [passes EXCEPT ![p].at = "imported", ![p].copy = NativeEvents!CopyOf(row)']
      BY <1>12 DEF NativeEvents!Import, NativeEvents!Natives, NativeNo
    <2>2. passes[p].list[n] \in TextNo /\ n \in Linked
      <3>1. passes[p].list[n] \in TextNo
        BY PassTyped DEF TextNo
      <3>2. n \in Linked
        BY ServicesAssumption DEF NativeNo, Linked
      <3> QED
        BY <3>1, <3>2
    <2>3. row' \in RowHere
      BY <2>1, <2>2, FirstNative DEF RowHere
    <2>4. PICK c : c = NativeEvents!CopyOf(row)'
      OBVIOUS
    <2>5. c \in PassCopy
      BY <2>3, <2>4 DEF NativeEvents!CopyOf, RowHere, PassCopy
    <2>6. passes' \in [Passes -> SyncPass]
      <3>1. [passes[p] EXCEPT !.at = "imported", !.copy = c] \in SyncPass
        BY <1>0, <2>5 DEF SyncPass
      <3>2. passes' = [passes EXCEPT ![p] = [passes[p] EXCEPT !.at = "imported", !.copy = c]]
        BY <1>0, <2>1, <2>4
      <3> QED
        BY <1>0, <3>1, <3>2
    <2> QED
      BY <1>12, <1>0, <2>3, <2>6
         DEF NativeEvents!Import, NativeEvents!Writes, NativeEvents!Unrecorded, NativeTyped
  <1>13. ASSUME NEW p \in Passes, NativeEvents!ReadRow(p)
         PROVE  NativeTyped'
    <2>1. passes' \in [Passes -> SyncPass]
      <3>1. NativeEvents!CopyOf(row) \in PassCopy /\ NativeEvents!AfterSettle(p) \in SyncPass
        BY RowCopied, RacedPassesTyped
      <3> QED
        BY <1>13, <1>0, <3>1 DEF NativeEvents!ReadRow, NativeEvents!Settled, SyncPass
    <2> QED
      BY <1>13, <1>0, <2>1 DEF NativeEvents!ReadRow, NativeTyped
  <1>14. ASSUME NEW p \in Passes
         PROVE  NativeEvents!Settled(p) \in [Passes -> SyncPass]
                /\ (passes[p].at = "settle" => NativeEvents!Theirs(p) \in TextNo)
    <2>1. passes[p].at = "settle" => passes[p].copy.link \in NativeNo
      BY PassTyped, <1>0, ServicesAssumption DEF SettlesLinked, NativeNo
    <2> QED
      BY <1>0, <2>1, PassTyped, RacedPassesTyped
         DEF NativeEvents!Settled, NativeEvents!Theirs, TextNo
  <1>15. ASSUME NEW p \in Passes, NativeEvents!TakeDiscordEdit(p)
         PROVE  NativeTyped'
    <2>1. row' \in RowHere
      BY <1>15, <1>0, <1>14 DEF NativeEvents!TakeDiscordEdit, RowHere
    <2> QED
      BY <1>15, <1>0, <1>14, <2>1 DEF NativeEvents!TakeDiscordEdit, NativeTyped
  <1>16. ASSUME NEW p \in Passes, NativeEvents!PushOurs(p)
         PROVE  NativeTyped'
    <2>1. native' \in [NativeNo -> NativeThere] /\ crossed' \in BOOLEAN
      <3>1. CASE NativeEvents!Patch(passes[p].copy)
        BY <3>1, <1>0, PassTyped
           DEF NativeEvents!Patch, NativeEvents!Writes, NativeEvents!Unrecorded, NativeThere, TextNo
      <3> QED
        BY <3>1, <1>16, <1>0 DEF NativeEvents!PushOurs, NativeEvents!Refuse
    <2>2. passes' \in [Passes -> SyncPass]
      <3>1. NativeEvents!Raced \in [Passes -> SyncPass]
        BY RacedPassesTyped DEF NativeEvents!Raced
      <3>2. [NativeEvents!Raced EXCEPT ![p].at = "record", ![p].raced = FALSE]
              \in [Passes -> SyncPass]
        BY <3>1 DEF SyncPass
      <3> QED
        BY <1>16, <1>14, <3>2 DEF NativeEvents!PushOurs
    <2> QED
      BY <1>16, <1>0, <2>1, <2>2 DEF NativeEvents!PushOurs, NativeTyped
  <1>17. ASSUME NEW p \in Passes, NativeEvents!Agree(p)
         PROVE  NativeTyped'
    <2>1. row' \in RowHere /\ crossed' \in BOOLEAN
      BY <1>17, <1>0, <1>14, PassTyped DEF NativeEvents!Agree, RowHere
    <2>2. passes' \in [Passes -> SyncPass]
      <3>1. /\ passes[p].raced \in BOOLEAN /\ NativeEvents!AfterSettle(p) \in SyncPass
            /\ \A late \in BOOLEAN : NativeEvents!Race(late) \in [Passes -> SyncPass]
        BY PassTyped, RacedPassesTyped
      <3> QED
        BY <1>17, <1>14, <3>1 DEF NativeEvents!Agree
    <2> QED
      BY <1>17, <1>0, <2>1, <2>2 DEF NativeEvents!Agree, NativeTyped
  <1>18. ASSUME NEW p \in Passes, NativeEvents!RecordSent(p)
         PROVE  NativeTyped'
    <2>1. row' \in RowHere
      BY <1>18, <1>0, PassTyped DEF NativeEvents!RecordSent, RowHere, TextNo
    <2> QED
      BY <1>18, <1>0, <1>14, <2>1 DEF NativeEvents!RecordSent, NativeTyped
  <1>19. ASSUME NEW p \in Passes, NativeEvents!PublishToDiscord(p)
         PROVE  NativeTyped'
    <2>1. native' \in [NativeNo -> NativeThere] /\ crossed' \in BOOLEAN
      <3>1. [text |-> row.text, status |-> "scheduled", ours |-> TRUE] \in NativeThere
        BY <1>0 DEF NativeThere, RowHere
      <3> QED
        BY <1>19, <1>0, <3>1
           DEF NativeEvents!PublishToDiscord, NativeEvents!Writes, NativeEvents!Unrecorded
    <2>2. passes' \in [Passes -> SyncPass]
      <3>1. NativeEvents!Raced \in [Passes -> SyncPass]
        BY RacedPassesTyped DEF NativeEvents!Raced
      <3>2. ASSUME NEW n \in NativeNo
            PROVE  [NativeEvents!Raced EXCEPT ![p].at = "link",
                      ![p].copy = [NativeEvents!CopyOf(row) EXCEPT !.link = n]]
                     \in [Passes -> SyncPass]
        <4>1. [NativeEvents!CopyOf(row) EXCEPT !.link = n] \in PassCopy
          BY RowCopied DEF PassCopy, Linked, NativeNo
        <4> QED
          BY <3>1, <4>1 DEF SyncPass
      <3>3. [passes EXCEPT ![p] = NativeEvents!Resting] \in [Passes -> SyncPass]
        BY <1>0, RacedPassesTyped
      <3>4. \/ passes' = [passes EXCEPT ![p] = NativeEvents!Resting]
            \/ \E n \in NativeNo :
                 passes' = [NativeEvents!Raced EXCEPT ![p].at = "link",
                              ![p].copy = [NativeEvents!CopyOf(row) EXCEPT !.link = n]]
        BY <1>19 DEF NativeEvents!PublishToDiscord, NativeEvents!Natives, NativeNo
      <3>5. ASSUME NEW n \in NativeNo,
                   passes' = [NativeEvents!Raced EXCEPT ![p].at = "link",
                                ![p].copy = [NativeEvents!CopyOf(row) EXCEPT !.link = n]]
            PROVE  passes' \in [Passes -> SyncPass]
        BY ONLY <3>2, <3>5, n \in NativeNo
      <3> QED
        BY ONLY <3>3, <3>4, <3>5
    <2> QED
      BY <1>19, <1>0, <2>1, <2>2 DEF NativeEvents!PublishToDiscord, NativeTyped
  <1>20. ASSUME NEW p \in Passes, NativeEvents!LinkNative(p)
         PROVE  NativeTyped'
    <2>1. row' \in RowHere
      BY <1>20, <1>0, PassTyped DEF NativeEvents!LinkNative, RowHere, Linked
    <2>2. passes' \in [Passes -> SyncPass]
      BY <1>20, <1>0 DEF NativeEvents!LinkNative, NativeEvents!At, SyncPass
    <2> QED
      BY <1>20, <1>0, <2>1, <2>2 DEF NativeEvents!LinkNative, NativeTyped
  <1>21. ASSUME NEW p \in Passes, NativeEvents!SettleMissing(p)
         PROVE  NativeTyped'
    <2>1. row' \in RowHere
      BY <1>21, <1>0 DEF NativeEvents!SettleMissing, RowHere
    <2>2. passes' \in [Passes -> SyncPass]
      BY <1>21, <1>0, RacedPassesTyped DEF NativeEvents!SettleMissing
    <2> QED
      BY <1>21, <1>0, <2>1, <2>2 DEF NativeEvents!SettleMissing, NativeTyped
  <1>22. ASSUME NEW p \in Passes, NativeEvents!DeleteNative(p)
         PROVE  NativeTyped'
    <2>1. native' \in [NativeNo -> NativeThere]
      BY <1>22, <1>0 DEF NativeEvents!DeleteNative, NativeThere
    <2>2. passes' \in [Passes -> SyncPass]
      BY <1>22, <1>0, RacedPassesTyped DEF NativeEvents!DeleteNative
    <2> QED
      BY <1>22, <1>0, <2>1, <2>2 DEF NativeEvents!DeleteNative, NativeTyped
  <1> QED
    BY <1>1, <1>2, <1>3, <1>4, <1>5, <1>6, <1>9, <1>10, <1>11, <1>12, <1>13, <1>15, <1>16,
       <1>17,
       <1>18, <1>19, <1>20, <1>21, <1>22
       DEF NativeEvents!Next, NativeEvents!Pass, NativeEvents!Publish

\* A pass that settles an end has an event to settle.
LEMMA SettlesLinkedStep ==
  ASSUME NativeTyped, SettlesLinked, NativeEvents!Next \/ UNCHANGED nativeVars
  PROVE  SettlesLinked'
  <1>0. passes \in [Passes -> SyncPass]
    BY DEF NativeTyped
  <1>1. ASSUME NEW late \in BOOLEAN, NEW q \in Passes
        PROVE  /\ NativeEvents!Race(late)[q].at = passes[q].at
               /\ NativeEvents!Race(late)[q].copy = passes[q].copy
    BY <1>0 DEF NativeEvents!Race, SyncPass
  <1>2. /\ NativeEvents!Resting.at = "idle"
        /\ \A p \in Passes : NativeEvents!AfterSettle(p).at = "reconcile"
    BY DEF NativeEvents!AfterSettle, NativeEvents!Resting
  <1>3. ASSUME NEW p \in Passes, NativeEvents!ReadRow(p) PROVE SettlesLinked'
    <2>1. CASE NativeEvents!Listed(p)
      <3>1. row.link # 0
        BY <2>1, ServicesAssumption DEF NativeEvents!Listed, NativeEvents!Natives
      <3>2. NativeEvents!CopyOf(row).link # 0
        BY <3>1 DEF NativeEvents!CopyOf
      <3>3. passes' = [passes EXCEPT ![p].copy = NativeEvents!CopyOf(row), ![p].at = "settle"]
        BY <1>3, <2>1 DEF NativeEvents!ReadRow
      <3> QED
        BY <1>0, <3>2, <3>3 DEF SettlesLinked, SyncPass
    <2>2. CASE ~NativeEvents!Listed(p)
      BY <1>0, <1>2, <1>3, <2>2 DEF NativeEvents!ReadRow, NativeEvents!Settled, SettlesLinked
    <2> QED
      BY <2>1, <2>2
  <1>4. ASSUME NEW p \in Passes,
               \/ NativeEvents!ListScheduledEvents(p) \/ NativeEvents!Import(p)
               \/ NativeEvents!TakeDiscordEdit(p) \/ NativeEvents!RecordSent(p)
               \/ NativeEvents!LinkNative(p) \/ NativeEvents!SettleMissing(p)
               \/ NativeEvents!DeleteNative(p)
        PROVE  SettlesLinked'
    <2>1. \A q \in Passes \ {p} : passes'[q] = passes[q]
      BY <1>0, <1>4 DEF NativeEvents!ListScheduledEvents, NativeEvents!Import,
         NativeEvents!TakeDiscordEdit, NativeEvents!RecordSent, NativeEvents!LinkNative,
         NativeEvents!SettleMissing, NativeEvents!DeleteNative, NativeEvents!Settled,
         NativeEvents!At
    <2>2. passes'[p].at # "settle"
      <3>1. CASE NativeEvents!ListScheduledEvents(p) \/ NativeEvents!Import(p)
        BY <1>0, <3>1 DEF NativeEvents!ListScheduledEvents, NativeEvents!Import,
           NativeEvents!Resting, SyncPass
      <3>2. CASE NativeEvents!TakeDiscordEdit(p) \/ NativeEvents!RecordSent(p)
        BY <1>0, <1>2, <3>2 DEF NativeEvents!TakeDiscordEdit, NativeEvents!RecordSent,
           NativeEvents!Settled
      <3>3. CASE NativeEvents!LinkNative(p)
        BY <1>0, <3>3 DEF NativeEvents!LinkNative, NativeEvents!At, SyncPass
      <3>4. CASE NativeEvents!SettleMissing(p) \/ NativeEvents!DeleteNative(p)
        BY <1>0, <1>2, <3>4 DEF NativeEvents!SettleMissing, NativeEvents!DeleteNative
      <3> QED
        BY <1>4, <3>1, <3>2, <3>3, <3>4
    <2> QED
      BY <2>1, <2>2 DEF SettlesLinked
  <1>5. ASSUME NEW p \in Passes,
               \/ NativeEvents!PushOurs(p) \/ NativeEvents!Agree(p)
               \/ NativeEvents!PublishToDiscord(p)
        PROVE  SettlesLinked'
    <2>1. /\ \A q \in Passes \ {p} :
               passes'[q].at = passes[q].at /\ passes'[q].copy = passes[q].copy
          /\ passes'[p].at # "settle"
      <3>1. \A late \in BOOLEAN : NativeEvents!Race(late) \in [Passes -> SyncPass]
        BY RacedPassesTyped
      <3>2. CASE NativeEvents!PushOurs(p)
        <4> DEFINE raced == NativeEvents!Race(TRUE)
        <4>1. \/ passes' = [raced EXCEPT ![p].at = "record", ![p].raced = FALSE]
              \/ passes' = [passes EXCEPT ![p] = NativeEvents!AfterSettle(p)]
          BY <3>2 DEF NativeEvents!PushOurs, NativeEvents!Settled, NativeEvents!Raced
        <4>2. /\ raced \in [Passes -> SyncPass]
              /\ \A q \in Passes : raced[q].at = passes[q].at /\ raced[q].copy = passes[q].copy
          BY <1>1, <3>1
        <4> HIDE DEF raced
        <4> QED
          BY <1>0, <1>2, <4>1, <4>2 DEF SyncPass
      <3>3. CASE NativeEvents!Agree(p)
        <4>1. passes[p].raced \in BOOLEAN
          BY <1>0 DEF SyncPass
        <4> QED
          BY <1>0, <1>1, <1>2, <3>1, <3>3, <4>1 DEF NativeEvents!Agree, NativeEvents!Settled
      <3>4. CASE NativeEvents!PublishToDiscord(p)
        <4> DEFINE raced == NativeEvents!Race(TRUE)
        <4>1. \/ \E c : passes' = [raced EXCEPT ![p].at = "link", ![p].copy = c]
              \/ passes' = [passes EXCEPT ![p] = NativeEvents!Resting]
          BY <3>4 DEF NativeEvents!PublishToDiscord, NativeEvents!Raced
        <4>2. /\ raced \in [Passes -> SyncPass]
              /\ \A q \in Passes : raced[q].at = passes[q].at /\ raced[q].copy = passes[q].copy
          BY <1>1, <3>1
        <4> HIDE DEF raced
        <4> QED
          BY <1>0, <1>2, <4>1, <4>2 DEF SyncPass
      <3> QED
        BY <1>5, <3>2, <3>3, <3>4
    <2> QED
      BY <2>1 DEF SettlesLinked
  <1>6. CASE NativeEvents!PushEditToDiscord
    <2>1. passes' = passes \/ passes' = NativeEvents!Race(TRUE)
      BY <1>6 DEF NativeEvents!PushEditToDiscord, NativeEvents!Raced
    <2> QED
      BY <1>1, <2>1 DEF SettlesLinked
  <1>7. CASE \/ NativeEvents!EditHere \/ NativeEvents!EditThere \/ NativeEvents!CancelHere
             \/ NativeEvents!EndOrDeleteThere \/ NativeEvents!ReadToPush
             \/ NativeEvents!RecordNativeWrite \/ UNCHANGED nativeVars
    <2>1. UNCHANGED passes
      BY <1>7 DEF NativeEvents!EditHere, NativeEvents!EditThere, NativeEvents!CancelHere,
         NativeEvents!EndOrDeleteThere, NativeEvents!ReadToPush, NativeEvents!RecordNativeWrite,
         nativeVars
    <2> QED
      BY <2>1 DEF SettlesLinked
  <1> QED
    BY <1>3, <1>4, <1>5, <1>6, <1>7 DEF NativeEvents!Next, NativeEvents!Pass,
       NativeEvents!Publish
-----------------------------------------------------------------------------
(* The calendar.                                                           *)

\* The days of a year, counted from its March.
Days == {doy \in Nat : doy <= 365}

\* The year of its era that a day of the era is in.
YearWithin(doe) == (doe - doe \div 1460 + doe \div 36524 - doe \div 146096) \div 365

\* The year of a day of an era: the day is one of that year's.
LEMMA YearOfEra ==
  ASSUME NEW doe \in Nat, doe < 146096
  PROVE  LET w == YearWithin(doe) IN
         /\ w \in Nat /\ w < 400
         /\ doe - (365 * w + w \div 4 - w \div 100) \in Days
         /\ doe < 365 * (w + 1) + (w + 1) \div 4 - (w + 1) \div 100 + (w + 1) \div 400
  <1> DEFINE w == YearWithin(doe)
  <1> HIDE DEF w
  <1>1. PICK b \in 0..3, d \in Nat : d < 36524 /\ doe = 36524 * b + d
    <2> DEFINE b0 == doe \div 36524
               d0 == doe % 36524
    <2>1. b0 \in 0..3 /\ d0 \in Nat /\ d0 < 36524 /\ doe = 36524 * b0 + d0
      BY SMT
    <2> HIDE DEF b0, d0
    <2> QED
      BY SMT, <2>1
  <1>2. doe \div 36524 = b /\ doe \div 146096 = 0
    BY SMT, <1>1
  <1>3. PICK g \in 0..24, h \in Nat : h <= 1460 /\ d = 1461 * g + h
    <2> DEFINE g0 == d \div 1461
               h0 == d % 1461
    <2>1. g0 \in 0..24 /\ h0 \in Nat /\ h0 <= 1460 /\ d = 1461 * g0 + h0
      BY SMT, <1>1
    <2> HIDE DEF g0, h0
    <2> QED
      BY SMT, <2>1
  <1>4. doe = 36524 * b + 1461 * g + h /\ (g = 24 => h <= 1459)
    BY SMT, <1>1, <1>3
  <1>5. PICK k \in 0..1 : /\ doe \div 1460 = 25 * b + g + k
                          /\ k = 1 <=> h + g + 24 * b >= 1460
    <2>1. doe = 1460 * (25 * b + g) + (24 * b + g + h)
      BY SMT, <1>4
    <2>2. 24 * b + g + h \in Nat /\ 24 * b + g + h <= 1556
      BY SMT, <1>1, <1>3
    <2>3. CASE h + g + 24 * b >= 1460
      <3>1. doe \div 1460 = 25 * b + g + 1
        BY SMT, <2>1, <2>2, <2>3, <1>1, <1>3
      <3> QED
        BY SMT, <3>1, <2>3
    <2>4. CASE h + g + 24 * b < 1460
      <3>1. doe \div 1460 = 25 * b + g
        BY SMT, <2>1, <2>2, <2>4, <1>1, <1>3
      <3> QED
        BY SMT, <3>1, <2>4, <1>1, <1>3
    <2> QED
      BY SMT, <2>3, <2>4, <1>1, <1>3
  <1>6. w = (36500 * b + 1460 * g + h - k) \div 365
    <2>1. doe - doe \div 1460 + doe \div 36524 - doe \div 146096
            = 36500 * b + 1460 * g + h - k
      BY SMT, <1>2, <1>4, <1>5, <1>1, <1>3
    <2> QED
      BY SMT, <2>1 DEF w, YearWithin
  <1>7. PICK j \in 0..3, r \in Nat : r < 365 /\ h - k = 365 * j + r
    <2>1. h - k \in Nat /\ h - k <= 1459
      BY SMT, <1>1, <1>3, <1>5
    <2> DEFINE j0 == (h - k) \div 365
               r0 == (h - k) % 365
    <2>2. j0 \in 0..3 /\ r0 \in Nat /\ r0 < 365 /\ h - k = 365 * j0 + r0
      BY SMT, <2>1
    <2> HIDE DEF j0, r0
    <2> QED
      BY SMT, <2>2
  <1>8. w = 100 * b + 4 * g + j
    BY SMT, <1>6, <1>7, <1>1, <1>3, <1>5
  <1>9. w \div 4 = 25 * b + g /\ w \div 100 = b
    BY SMT, <1>8, <1>1, <1>3, <1>7
  <1>10. doe - (365 * w + w \div 4 - w \div 100) = r + k
    <2>1. 365 * w + w \div 4 - w \div 100 = 36524 * b + 1461 * g + 365 * j
      BY SMT, <1>8, <1>9, <1>1, <1>3, <1>7
    <2>2. doe = 36524 * b + 1461 * g + 365 * j + r + k
      BY SMT, <1>4, <1>7, <1>1, <1>3, <1>5
    <2> QED
      BY SMT, <2>1, <2>2, <1>1, <1>3, <1>5, <1>7
  <1>11. w \in Nat /\ w < 400
    BY SMT, <1>8, <1>1, <1>3, <1>7
  <1>12. doe < 365 * (w + 1) + (w + 1) \div 4 - (w + 1) \div 100 + (w + 1) \div 400
    <2>1. 365 * (w + 1) = 36500 * b + 1460 * g + 365 * j + 365
      BY SMT, <1>8, <1>1, <1>3, <1>7
    <2>2. CASE j < 3
      <3>1. /\ (w + 1) \div 4 = 25 * b + g /\ (w + 1) \div 100 = b
            /\ (w + 1) \div 400 = 0
        BY SMT, <1>8, <1>1, <1>3, <1>7, <2>2
      <3>2. k = 0
        BY SMT, <1>1, <1>3, <1>5, <1>7, <2>2
      <3> QED
        BY SMT, <2>1, <3>1, <3>2, <1>4, <1>1, <1>3, <1>7
    <2>3. CASE j = 3 /\ g < 24
      <3>1. /\ (w + 1) \div 4 = 25 * b + g + 1 /\ (w + 1) \div 100 = b
            /\ (w + 1) \div 400 = 0
        BY SMT, <1>8, <1>1, <1>3, <1>7, <2>3
      <3> QED
        BY SMT, <2>1, <2>3, <3>1, <1>4, <1>1, <1>3, <1>7
    <2>4. CASE j = 3 /\ g = 24
      <3>1. w + 1 = 100 * b + 100
        BY SMT, <1>8, <1>1, <1>3, <1>7, <2>4
      <3>2. /\ (w + 1) \div 4 = 25 * b + 25 /\ (w + 1) \div 100 = b + 1
            /\ (w + 1) \div 400 >= 0
        BY SMT, <3>1, <1>1
      <3>3. (w + 1) \div 400 \in Int
        BY SMT, <1>11
      <3> QED
        BY SMT, <2>1, <2>4, <3>2, <3>3, <1>4, <1>1, <1>3, <1>7
    <2> QED
      BY SMT, <2>2, <2>3, <2>4, <1>3, <1>7
  <1>13. r + k \in Days
    BY SMT, <1>5, <1>7 DEF Days
  <1> QED
    BY SMT, <1>10, <1>11, <1>12, <1>13 DEF w

\* A day is one of its year's.
LEMMA DayIsOfItsYear ==
  ASSUME NEW z \in Int
  PROVE  /\ Recurrence!YearOf(z) \in Int
         /\ Recurrence!FirstOfYear(Recurrence!YearOf(z)) \in Int
         /\ z - Recurrence!FirstOfYear(Recurrence!YearOf(z)) \in Days
         /\ z < Recurrence!FirstOfYear(Recurrence!YearOf(z) + 1)
  <1> DEFINE e   == z \div 146097
             doe == z % 146097
             w   == YearWithin(doe)
  <1>1. e \in Int /\ doe \in Nat /\ doe < 146097 /\ z = 146097 * e + doe
    BY SMT
  <1>2. Recurrence!YearOf(z) = 400 * e + w
    BY SMT DEF Recurrence!YearOf, YearWithin
  <1> HIDE DEF e, doe, w
  <1>3. /\ w \in Nat /\ w < 400
        /\ doe - (365 * w + w \div 4 - w \div 100) \in Days
        /\ doe < 365 * (w + 1) + (w + 1) \div 4 - (w + 1) \div 100 + (w + 1) \div 400
    <2>1. CASE doe < 146096
      BY SMT, <1>1, <2>1, YearOfEra DEF w
    <2>2. CASE doe = 146096
      <3>1. w = 399
        BY SMT, <2>2 DEF w, YearWithin
      <3> QED
        BY SMT, <2>2, <3>1 DEF Days
    <2>3. doe < 146096 \/ doe = 146096
      BY SMT, <1>1
    <2> QED
      BY SMT, <2>1, <2>2, <2>3
  <1> DEFINE First(x) == Recurrence!FirstOfYear(400 * e + x)
             Count(x) == 146097 * e + 365 * x + x \div 4 - x \div 100 + x \div 400
  <1>4. ASSUME NEW x \in Nat, x <= 400
        PROVE  First(x) = Count(x)
    <2>1. e \in Int /\ x <= 400
      BY SMT, <1>1, <1>4
    <2>2. /\ (400 * e + x) \div 4 = 100 * e + x \div 4
          /\ (400 * e + x) \div 100 = 4 * e + x \div 100
          /\ (400 * e + x) \div 400 = e + x \div 400
      BY ONLY <2>1, SMT
    <2> QED
      BY ONLY <2>1, <2>2, SMT DEF First, Recurrence!FirstOfYear
  <1>f. First(w) = Recurrence!FirstOfYear(400 * e + w)
        /\ First(w + 1) = Recurrence!FirstOfYear(400 * e + (w + 1))
    BY SMT
  <1> HIDE DEF First, Count
  <1>w. w \in Nat /\ w + 1 \in Nat /\ w + 1 <= 400
    BY SMT, <1>3
  <1>c. First(w) = Count(w) /\ First(w + 1) = Count(w + 1)
    BY SMT, <1>4, <1>w
  <1>5. /\ First(w) = 146097 * e + 365 * w + w \div 4 - w \div 100 + w \div 400
        /\ First(w + 1) = 146097 * e + 365 * (w + 1) + (w + 1) \div 4 - (w + 1) \div 100
                            + (w + 1) \div 400
    BY SMT, <1>c DEF Count
  <1>6. w \div 400 = 0 /\ w \div 4 \in Int /\ w \div 100 \in Int
    BY SMT, <1>3
  <1>7. Recurrence!YearOf(z) + 1 = 400 * e + (w + 1)
    BY SMT, <1>1, <1>2, <1>3
  <1>8. z < Recurrence!FirstOfYear(Recurrence!YearOf(z) + 1)
    BY SMT, <1>1, <1>3, <1>5, <1>7, <1>f
  <1>9. /\ Recurrence!FirstOfYear(Recurrence!YearOf(z)) \in Int
        /\ z - Recurrence!FirstOfYear(Recurrence!YearOf(z)) \in Days
    BY SMT, <1>1, <1>2, <1>3, <1>5, <1>6, <1>f DEF Days
  <1>10. Recurrence!YearOf(z) \in Int
    BY SMT, <1>1, <1>2, <1>3
  <1> QED
    BY Zenon, <1>8, <1>9, <1>10

\* The month of a day of the year, and the day of that month.
LEMMA DayIsOfItsMonth ==
  ASSUME NEW doy \in Days
  PROVE  /\ Recurrence!MonthOf(doy) \in 0..11
         /\ doy - Recurrence!FirstOfMonth(Recurrence!MonthOf(doy)) + 1 \in 1..31
         /\ doy < Recurrence!FirstOfMonth(Recurrence!MonthOf(doy) + 1)
  <1> DEFINE k == Recurrence!MonthOf(doy)
             q == Recurrence!FirstOfMonth(k)
             s == Recurrence!FirstOfMonth(k + 1)
  <1>1. k \in 0..11 /\ 153 * k <= 5 * doy + 2 /\ 5 * doy + 2 <= 153 * k + 152
    BY SMT DEF Recurrence!MonthOf, Days
  <1> HIDE DEF k
  <1>2. q \in Int /\ 5 * q <= 153 * k + 2 /\ 153 * k + 2 <= 5 * q + 4
    BY SMT, <1>1 DEF Recurrence!FirstOfMonth
  <1>3. s \in Int /\ 153 * k + 155 <= 5 * s + 4
    BY SMT, <1>1 DEF Recurrence!FirstOfMonth
  <1> HIDE DEF q, s
  <1>4. doy - q + 1 \in 1..31 /\ doy < s
    BY SMT, <1>1, <1>2, <1>3 DEF Days
  <1> QED
    BY Zenon, <1>1, <1>4 DEF k, q, s

\* A date is a year, a month and a day of a month.
LEMMA DateOfRange ==
  ASSUME NEW n \in Int
  PROVE  /\ Recurrence!DateOf(n).year \in Int
         /\ Recurrence!DateOf(n).month \in 1..12 /\ Recurrence!DateOf(n).day \in 1..31
  <1> DEFINE z   == n + Recurrence!Epoch
             y   == Recurrence!YearOf(z)
             doy == z - Recurrence!FirstOfYear(y)
             k   == Recurrence!MonthOf(doy)
  <1>1. Recurrence!DateOf(n) = [year |-> y + k \div 10, month |-> ((k + 2) % 12) + 1,
                                day |-> doy - Recurrence!FirstOfMonth(k) + 1]
    BY SMT DEF Recurrence!DateOf
  <1>2. z \in Int
    BY SMT DEF Recurrence!Epoch
  <1> HIDE DEF z
  <1>3. y \in Int /\ doy \in Days
    BY Zenon, <1>2, DayIsOfItsYear
  <1> HIDE DEF y, doy
  <1>4. k \in 0..11 /\ doy - Recurrence!FirstOfMonth(k) + 1 \in 1..31
    BY Zenon, <1>3, DayIsOfItsMonth
  <1> HIDE DEF k
  <1>5. ((k + 2) % 12) + 1 \in 1..12 /\ y + k \div 10 \in Int
    BY SMT, <1>3, <1>4
  <1> QED
    BY SMT, <1>1, <1>4, <1>5

\* A date has a day number.
LEMMA DayNumberRange ==
  ASSUME NEW y \in Int, NEW m \in 1..12, NEW d \in Int
  PROVE  Recurrence!DayNumber(y, m, d) \in Int
  <1>1. ASSUME NEW x \in Int PROVE Recurrence!FirstOfYear(x) \in Int
    BY SMT DEF Recurrence!FirstOfYear
  <1>2. ASSUME NEW k \in Int PROVE Recurrence!FirstOfMonth(k) \in Int
    BY SMT DEF Recurrence!FirstOfMonth
  <1>3. (IF m <= 2 THEN y - 1 ELSE y) \in Int /\ (m + 9) % 12 \in Int
    BY SMT
  <1>4. /\ Recurrence!FirstOfYear(IF m <= 2 THEN y - 1 ELSE y) \in Int
        /\ Recurrence!FirstOfMonth((m + 9) % 12) \in Int
    BY Zenon, <1>1, <1>2, <1>3
  <1> QED
    BY SMT, <1>4 DEF Recurrence!DayNumber, Recurrence!Epoch

\* A later year begins at least 365 days later for each year between.
LEMMA YearsGoOn ==
  ASSUME NEW y \in Int, NEW x \in Int, y <= x
  PROVE  /\ Recurrence!FirstOfYear(y) \in Int /\ Recurrence!FirstOfYear(x) \in Int
         /\ Recurrence!FirstOfYear(y) + 365 * (x - y) <= Recurrence!FirstOfYear(x)
  <1> DEFINE leaps(t) == t \div 4 - t \div 100
  <1>1. ASSUME NEW t \in Int
        PROVE  \E a \in Int, b \in 0..24, c \in 0..3 :
                 /\ t = 100 * a + 4 * b + c /\ leaps(t) = 24 * a + b
    <2> DEFINE a == t \div 100
               b == (t % 100) \div 4
               c == (t % 100) % 4
    <2>1. a \in Int /\ b \in 0..24 /\ c \in 0..3 /\ t = 100 * a + 4 * b + c
      BY SMT
    <2> HIDE DEF a, b, c
    <2>2. t \div 4 = 25 * a + b /\ t \div 100 = a
      BY SMT, <2>1
    <2> QED
      BY SMT, <2>1, <2>2
  <1>2. leaps(y) \in Int /\ leaps(x) \in Int
    BY SMT
  <1>3. y \div 400 \in Int /\ x \div 400 \in Int /\ y \div 400 <= x \div 400
    BY SMT
  <1>4. /\ Recurrence!FirstOfYear(y) = 365 * y + leaps(y) + y \div 400
        /\ Recurrence!FirstOfYear(x) = 365 * x + leaps(x) + x \div 400
    BY SMT DEF Recurrence!FirstOfYear
  <1> HIDE DEF leaps
  <1>5. leaps(y) <= leaps(x)
    <2>1. PICK a \in Int, b \in 0..24, c \in 0..3 :
            y = 100 * a + 4 * b + c /\ leaps(y) = 24 * a + b
      BY Zenon, <1>1
    <2>2. PICK d \in Int, e \in 0..24, f \in 0..3 :
            x = 100 * d + 4 * e + f /\ leaps(x) = 24 * d + e
      BY Zenon, <1>1
    <2> QED
      BY SMT, <2>1, <2>2
  <1> QED
    BY SMT, <1>2, <1>3, <1>4, <1>5

\* A month begins at least 28 days after an earlier one.
LEMMA MonthsOfAYear ==
  ASSUME NEW k \in 0..11, NEW j \in 0..11
  PROVE  /\ Recurrence!FirstOfMonth(k) \in Int /\ Recurrence!FirstOfMonth(j) \in Int
         /\ 0 <= Recurrence!FirstOfMonth(k) /\ Recurrence!FirstOfMonth(k) <= 337
         /\ k < j => Recurrence!FirstOfMonth(k) + 28 <= Recurrence!FirstOfMonth(j)
  BY SMT DEF Recurrence!FirstOfMonth

\* The first of a month, its year counted from March.
LEMMA FirstOfAMonth ==
  ASSUME NEW y \in Int, NEW m \in 1..12, NEW d \in Int
  PROVE  \E x \in Int, k \in 0..11 :
           /\ 12 * y + m = 12 * x + k + 3
           /\ m <= 2 => x = y - 1
           /\ m > 2 => x = y
           /\ Recurrence!DayNumber(y, m, d)
                = Recurrence!FirstOfYear(x) + Recurrence!FirstOfMonth(k) + d - 1
                    - Recurrence!Epoch
  <1> DEFINE x == IF m <= 2 THEN y - 1 ELSE y
             k == (m + 9) % 12
  <1>1. /\ x \in Int /\ k \in 0..11 /\ 12 * y + m = 12 * x + k + 3
        /\ m <= 2 => x = y - 1
        /\ m > 2 => x = y
    BY SMT
  <1>2. Recurrence!DayNumber(y, m, d)
          = Recurrence!FirstOfYear(x) + Recurrence!FirstOfMonth(k) + d - 1 - Recurrence!Epoch
    BY SMT DEF Recurrence!DayNumber
  <1> HIDE DEF x, k
  <1> QED
    BY Zenon, <1>1, <1>2

\* A later month begins at least 28 days later, and the same month of a later
\* year at least 365.
LEMMA MonthsGoOn ==
  ASSUME NEW y \in Int, NEW m \in 1..12, NEW x \in Int, NEW l \in 1..12
  PROVE  /\ 12 * y + m < 12 * x + l =>
              Recurrence!DayNumber(y, m, 1) + 28 <= Recurrence!DayNumber(x, l, 1)
         /\ y < x /\ m = l =>
              Recurrence!DayNumber(y, m, 1) + 365 <= Recurrence!DayNumber(x, l, 1)
  <1> DEFINE a == Recurrence!DayNumber(y, m, 1)
             b == Recurrence!DayNumber(x, l, 1)
  <1>1. PICK u \in Int, k \in 0..11 :
          /\ 12 * y + m = 12 * u + k + 3
          /\ a = Recurrence!FirstOfYear(u) + Recurrence!FirstOfMonth(k) + 1 - 1
                   - Recurrence!Epoch
    <2>1. 1 \in Int
      BY SMT
    <2> QED
      BY SMT, <2>1, FirstOfAMonth
  <1>2. PICK v \in Int, j \in 0..11 :
          /\ 12 * x + l = 12 * v + j + 3
          /\ b = Recurrence!FirstOfYear(v) + Recurrence!FirstOfMonth(j) + 1 - 1
                   - Recurrence!Epoch
    <2>1. 1 \in Int
      BY SMT
    <2> QED
      BY SMT, <2>1, FirstOfAMonth
  <1> HIDE DEF a, b
  <1> DEFINE U == Recurrence!FirstOfYear(u)
             V == Recurrence!FirstOfYear(v)
             K == Recurrence!FirstOfMonth(k)
             J == Recurrence!FirstOfMonth(j)
  <1>3. /\ u <= v => U \in Int /\ V \in Int /\ U + 365 * (v - u) <= V
        /\ U \in Int /\ V \in Int
    <2>1. u <= u /\ v <= v
      BY SMT
    <2>2. U \in Int /\ V \in Int
      BY Zenon, <2>1, YearsGoOn
    <2>3. u <= v => U + 365 * (v - u) <= V
      BY SMT, YearsGoOn
    <2> QED
      BY Zenon, <2>2, <2>3
  <1>4. /\ K \in Int /\ J \in Int /\ 0 <= K /\ K <= 337 /\ 0 <= J /\ J <= 337
        /\ k < j => K + 28 <= J
    BY SMT, MonthsOfAYear
  <1>5. a = U + K - Recurrence!Epoch /\ b = V + J - Recurrence!Epoch /\ Recurrence!Epoch \in Int
    BY SMT, <1>1, <1>2, <1>3, <1>4 DEF Recurrence!Epoch
  <1>6. k = j => K = J
    OBVIOUS
  <1>7. u = v => U = V
    OBVIOUS
  <1> HIDE DEF U, V, K, J
  <1>8. 12 * y + m < 12 * x + l => a + 28 <= b
    BY SMT, <1>1, <1>2, <1>3, <1>4, <1>5, <1>7
  <1>9. y < x /\ m = l => a + 365 <= b
    BY SMT, <1>1, <1>2, <1>3, <1>4, <1>5, <1>6
  <1> QED
    BY Zenon, <1>8, <1>9 DEF a, b

\* A date's day number is the day it is the date of.
LEMMA DateIsBack ==
  ASSUME NEW n \in Int
  PROVE  LET d == Recurrence!DateOf(n) IN
         /\ Recurrence!DayNumber(d.year, d.month, d.day) = n
         /\ \E x \in Int, k \in 0..11 :
              /\ 12 * d.year + d.month = 12 * x + k + 3
              /\ n + Recurrence!Epoch < Recurrence!FirstOfYear(x) + Recurrence!FirstOfMonth(k + 1)
              /\ n + Recurrence!Epoch < Recurrence!FirstOfYear(x + 1)
  <1> DEFINE z   == n + Recurrence!Epoch
             y   == Recurrence!YearOf(z)
             doy == z - Recurrence!FirstOfYear(y)
             k   == Recurrence!MonthOf(doy)
             d   == Recurrence!DateOf(n)
  <1>1. d = [year |-> y + k \div 10, month |-> ((k + 2) % 12) + 1,
             day |-> doy - Recurrence!FirstOfMonth(k) + 1]
    BY SMT DEF Recurrence!DateOf
  <1>2. z \in Int
    BY SMT DEF Recurrence!Epoch
  <1>3. z = n + Recurrence!Epoch
    OBVIOUS
  <1> HIDE DEF z
  <1>4. /\ y \in Int /\ doy \in Days /\ Recurrence!FirstOfYear(y) \in Int
        /\ z < Recurrence!FirstOfYear(y + 1)
    BY Zenon, <1>2, DayIsOfItsYear
  <1>5. doy = z - Recurrence!FirstOfYear(y)
    OBVIOUS
  <1> HIDE DEF y, doy
  <1>6. k \in 0..11 /\ doy < Recurrence!FirstOfMonth(k + 1)
    BY Zenon, <1>4, DayIsOfItsMonth
  <1> HIDE DEF k, d
  <1>7. Recurrence!FirstOfMonth(k) \in Int /\ Recurrence!FirstOfMonth(k + 1) \in Int
    BY SMT, <1>6 DEF Recurrence!FirstOfMonth
  <1>8. /\ d.year \in Int /\ d.month \in 1..12 /\ 12 * d.year + d.month = 12 * y + k + 3
        /\ (IF d.month <= 2 THEN d.year - 1 ELSE d.year) = y /\ (d.month + 9) % 12 = k
        /\ d.day = doy - Recurrence!FirstOfMonth(k) + 1 /\ doy \in Int
    BY SMT, <1>1, <1>4, <1>6, <1>7 DEF Days
  <1>9. Recurrence!DayNumber(d.year, d.month, d.day) = n
    <2>1. Recurrence!DayNumber(d.year, d.month, d.day)
            = Recurrence!FirstOfYear(y) + Recurrence!FirstOfMonth(k) + d.day - 1 - Recurrence!Epoch
      BY SMT, <1>8 DEF Recurrence!DayNumber
    <2>2. Recurrence!Epoch \in Int
      BY SMT DEF Recurrence!Epoch
    <2> QED
      BY SMT, <1>2, <1>3, <1>4, <1>5, <1>7, <1>8, <2>1, <2>2
  <1>10. z < Recurrence!FirstOfYear(y) + Recurrence!FirstOfMonth(k + 1)
    BY SMT, <1>2, <1>4, <1>5, <1>6, <1>7, <1>8
  <1> QED
    BY Zenon, <1>3, <1>4, <1>6, <1>8, <1>9, <1>10 DEF d

\* A day comes before every later month.
LEMMA DayBeforeLaterMonths ==
  ASSUME NEW n \in Int, NEW x \in Int, NEW l \in 1..12,
         12 * Recurrence!DateOf(n).year + Recurrence!DateOf(n).month < 12 * x + l
  PROVE  n < Recurrence!DayNumber(x, l, 1)
  <1> DEFINE d == Recurrence!DateOf(n)
             b == Recurrence!DayNumber(x, l, 1)
  <1>1. PICK u \in Int, k \in 0..11 :
          /\ 12 * d.year + d.month = 12 * u + k + 3
          /\ n + Recurrence!Epoch < Recurrence!FirstOfYear(u) + Recurrence!FirstOfMonth(k + 1)
          /\ n + Recurrence!Epoch < Recurrence!FirstOfYear(u + 1)
    BY Zenon, DateIsBack
  <1>2. PICK v \in Int, j \in 0..11 :
          /\ 12 * x + l = 12 * v + j + 3
          /\ b = Recurrence!FirstOfYear(v) + Recurrence!FirstOfMonth(j) + 1 - 1
                   - Recurrence!Epoch
    <2>1. 1 \in Int
      BY SMT
    <2> QED
      BY SMT, <2>1, FirstOfAMonth
  <1>3. d.year \in Int /\ d.month \in 1..12 /\ 12 * d.year + d.month < 12 * x + l
    BY Zenon, DateOfRange
  <1> HIDE DEF d, b
  <1>4. Recurrence!Epoch \in Int
    BY SMT DEF Recurrence!Epoch
  <1>5. /\ Recurrence!FirstOfMonth(j) \in Int /\ 0 <= Recurrence!FirstOfMonth(j)
        /\ Recurrence!FirstOfYear(v) \in Int
    <2>1. v <= v /\ Recurrence!FirstOfMonth(j) \in Int /\ 0 <= Recurrence!FirstOfMonth(j)
      BY SMT, MonthsOfAYear
    <2> QED
      BY Zenon, <2>1, YearsGoOn
  <1>6. b = Recurrence!FirstOfYear(v) + Recurrence!FirstOfMonth(j) - Recurrence!Epoch
    BY SMT, <1>2, <1>4, <1>5
  <1>7. CASE u < v
    <2>1. u + 1 \in Int /\ u + 1 <= v
      BY SMT, <1>7
    <2>2. /\ Recurrence!FirstOfYear(u + 1) \in Int
          /\ Recurrence!FirstOfYear(u + 1) + 365 * (v - (u + 1)) <= Recurrence!FirstOfYear(v)
      BY Zenon, <2>1, YearsGoOn
    <2> QED
      BY SMT, <1>1, <1>4, <1>5, <1>6, <2>1, <2>2 DEF b
  <1>8. CASE u = v /\ k < j
    <2>1. k + 1 \in 0..11
      BY SMT, <1>8
    <2>2. /\ Recurrence!FirstOfMonth(k + 1) \in Int
          /\ Recurrence!FirstOfMonth(k + 1) <= Recurrence!FirstOfMonth(j)
      BY SMT, <1>8, <2>1, MonthsOfAYear
    <2> QED
      BY SMT, <1>1, <1>4, <1>5, <1>6, <1>8, <2>2 DEF b
  <1>9. u < v \/ (u = v /\ k < j)
    BY SMT, <1>1, <1>2, <1>3
  <1> QED
    BY Zenon, <1>7, <1>8, <1>9

\* The days of a month follow its first.
LEMMA DaysOfAMonth ==
  ASSUME NEW y \in Int, NEW m \in 1..12, NEW d \in Int
  PROVE  /\ Recurrence!DayNumber(y, m, 1) \in Int
         /\ Recurrence!DayNumber(y, m, d) = Recurrence!DayNumber(y, m, 1) + d - 1
  <1> DEFINE f == Recurrence!FirstOfYear(IF m <= 2 THEN y - 1 ELSE y)
                    + Recurrence!FirstOfMonth((m + 9) % 12)
  <1>1. f \in Int
    <2>1. (IF m <= 2 THEN y - 1 ELSE y) \in Int /\ (m + 9) % 12 \in 0..11
      BY SMT
    <2> DEFINE u == IF m <= 2 THEN y - 1 ELSE y
               k == (m + 9) % 12
    <2> HIDE DEF u, k
    <2>2. u <= u /\ u \in Int /\ k \in 0..11
      BY SMT, <2>1 DEF u, k
    <2>3. Recurrence!FirstOfYear(u) \in Int /\ Recurrence!FirstOfMonth(k) \in Int
      BY Zenon, <2>2, YearsGoOn, MonthsOfAYear
    <2> QED
      BY SMT, <2>3 DEF u, k
  <1>2. /\ Recurrence!DayNumber(y, m, d) = f + d - 1 - Recurrence!Epoch
        /\ Recurrence!DayNumber(y, m, 1) = f + 1 - 1 - Recurrence!Epoch
    BY SMT, <1>1 DEF Recurrence!DayNumber
  <1> HIDE DEF f
  <1> QED
    BY SMT, <1>1, <1>2 DEF Recurrence!Epoch

\* A day's month begins on a day of its own.
LEMMA MonthOfADay ==
  ASSUME NEW n \in Int
  PROVE  LET d == Recurrence!DateOf(n) IN
         /\ d.year \in Int /\ d.month \in 1..12 /\ d.day \in 1..31
         /\ Recurrence!DayNumber(d.year, d.month, 1) = n - d.day + 1
  <1> DEFINE d == Recurrence!DateOf(n)
  <1>1. d.year \in Int /\ d.month \in 1..12 /\ d.day \in 1..31
    BY Zenon, DateOfRange
  <1>2. Recurrence!DayNumber(d.year, d.month, d.day) = n
    BY Zenon, DateIsBack
  <1> HIDE DEF d
  <1>3. d.day \in Int
    BY SMT, <1>1
  <1>4. /\ Recurrence!DayNumber(d.year, d.month, 1) \in Int
        /\ Recurrence!DayNumber(d.year, d.month, d.day)
             = Recurrence!DayNumber(d.year, d.month, 1) + d.day - 1
    BY Zenon, <1>1, <1>3, DaysOfAMonth
  <1>5. Recurrence!DayNumber(d.year, d.month, 1) = n - d.day + 1
    BY SMT, <1>2, <1>3, <1>4
  <1> QED
    BY SMT, <1>1, <1>5 DEF d

\* Months are in the order of their days.
LEMMA MonthsInOrder ==
  ASSUME NEW n \in Int, NEW o \in Int, n <= o
  PROVE  12 * Recurrence!DateOf(n).year + Recurrence!DateOf(n).month
           <= 12 * Recurrence!DateOf(o).year + Recurrence!DateOf(o).month
  <1> DEFINE d == Recurrence!DateOf(n)
             e == Recurrence!DateOf(o)
  <1>1. /\ d.year \in Int /\ d.month \in 1..12
        /\ e.year \in Int /\ e.month \in 1..12 /\ e.day \in 1..31
    BY Zenon, DateOfRange
  <1>2. 12 * e.year + e.month < 12 * d.year + d.month
          => o < Recurrence!DayNumber(d.year, d.month, 1)
    BY Zenon, <1>1, DayBeforeLaterMonths
  <1>3. Recurrence!DayNumber(d.year, d.month, 1) = n - d.day + 1 /\ d.day \in 1..31
    BY Zenon, MonthOfADay
  <1> HIDE DEF d, e
  <1> QED
    BY SMT, <1>1, <1>2, <1>3 DEF d, e

\* A day soon after the first of a month, and in a month of that name, is in
\* that month.
LEMMA InThatMonth ==
  ASSUME NEW y \in Int, NEW m \in 1..12, NEW n \in Int, Recurrence!DateOf(n).month = m,
         Recurrence!DayNumber(y, m, 1) <= n, n < Recurrence!DayNumber(y, m, 1) + 365
  PROVE  /\ Recurrence!DateOf(n).year = y
         /\ Recurrence!DateOf(n).day = n - Recurrence!DayNumber(y, m, 1) + 1
  <1> DEFINE d == Recurrence!DateOf(n)
             a == Recurrence!DayNumber(y, m, 1)
  <1>1. /\ d.year \in Int /\ d.month = m /\ d.day \in 1..31
        /\ Recurrence!DayNumber(d.year, m, 1) = n - d.day + 1
    BY Zenon, MonthOfADay
  <1>2. a \in Int
    <2>1. 1 \in Int
      BY SMT
    <2> QED
      BY Zenon, <2>1, DayNumberRange
  <1>3. ASSUME 12 * d.year + m < 12 * y + m PROVE n < a
    <2>1. 12 * d.year + d.month < 12 * y + m
      BY Zenon, <1>1, <1>3
    <2> QED
      BY ONLY <2>1, DayBeforeLaterMonths, y \in Int, m \in 1..12, n \in Int, Zenon
  <1>4. ASSUME y < d.year PROVE a + 365 <= Recurrence!DayNumber(d.year, m, 1)
    BY Zenon, <1>1, <1>4, MonthsGoOn
  <1>5. a <= n /\ n < a + 365
    OBVIOUS
  <1> HIDE DEF d, a
  <1>6. d.year = y
    BY SMT, <1>1, <1>2, <1>3, <1>4, <1>5
  <1>7. Recurrence!DayNumber(d.year, m, 1) = a
    BY Zenon, <1>6 DEF a
  <1>8. d.day = n - a + 1
    BY SMT, <1>1, <1>2, <1>7
  <1> QED
    BY Zenon, <1>6, <1>8 DEF d, a
-----------------------------------------------------------------------------
(* An event's recurrence.                                                  *)

\* Of numbers bounded below there is a least.
LEMMA LeastIsOne ==
  ASSUME NEW S, S \subseteq Int, S # {}, NEW b \in Int, \A n \in S : b <= n
  PROVE  Recurrence!Least(S) \in S /\ \A o \in S : Recurrence!Least(S) <= o
  <1> DEFINE T == {n - b : n \in S}
  <1>1. T \subseteq Nat /\ T # {}
    <2>1. T # {}
      BY Zenon
    <2>2. ASSUME NEW n \in S PROVE n - b \in Nat
      BY SMT
    <2> QED
      BY Zenon, <2>1, <2>2
  <1>2. PICK t \in T : \A u \in T : ~(<<u, t>> \in OpToRel(<, Nat))
    BY Zenon, <1>1, NatLessThanWellFounded, WFMin
  <1>3. ASSUME NEW u \in T PROVE t <= u
    <2>1. u \in Nat /\ t \in Nat
      BY Zenon, <1>1
    <2>2. u < t => <<u, t>> \in OpToRel(<, Nat)
      BY Zenon, <2>1 DEF OpToRel
    <2>3. ~(u < t)
      BY Zenon, <1>2, <2>2
    <2> QED
      BY ONLY <2>1, <2>3, SMT
  <1>4. PICK n \in S : t = n - b
    BY Zenon
  <1>5. ASSUME NEW o \in S PROVE n <= o
    <2>1. t <= o - b
      BY Zenon, <1>3
    <2>2. n \in Int /\ o \in Int
      BY Zenon
    <2> QED
      BY ONLY <2>1, <2>2, <1>4, b \in Int, SMT
  <1> HIDE DEF T
  <1> QED
    BY Zenon, <1>4, <1>5 DEF Recurrence!Least

\* A month has up to five of a weekday.
LEMMA NthOfMonthRange ==
  ASSUME NEW n \in Int PROVE Recurrence!NthOfMonth(n) \in 1..5
  BY SMT, DateOfRange DEF Recurrence!NthOfMonth

\* A date has one of the seven weekdays.
LEMMA DiscordWeekdayRange ==
  ASSUME NEW n \in Int PROVE Recurrence!DiscordWeekday(n) \in Recurrence!Weekdays
  BY SMT DEF Recurrence!DiscordWeekday, Recurrence!Weekdays

\* Not repeating is a rule.
LEMMA NoRuleTyped == Recurrence!NoRule \in Recurrence!Rule
  BY SMT DEF Recurrence!NoRule, Recurrence!Rule

\* A rule is made of its fields, each in its range.
LEMMA RuleFields ==
  ASSUME NEW r \in Recurrence!Rule
  PROVE  /\ r.freq \in {"none", "daily", "weekly", "monthly", "yearly"} /\ r.interval \in 1..2
         /\ r.days \subseteq Recurrence!Weekdays /\ r.nth \in 0..5
         /\ r.month \in 0..12 /\ r.monthDay \in 0..31
  BY DEF Recurrence!Rule

\* The day and the week a rule stands for, its own or the start's.
LEMMA RuleDayTyped ==
  ASSUME NEW r \in Recurrence!Rule, NEW start \in Int
  PROVE  /\ Recurrence!RuleDay(r, start) \in Recurrence!Weekdays
         /\ Recurrence!RuleNth(r, start) \in 1..5
  <1>1. r.days = {} => Recurrence!RuleDay(r, start) = Recurrence!DiscordWeekday(start)
    BY Zenon DEF Recurrence!RuleDay
  <1>2. r.days # {} => Recurrence!RuleDay(r, start) \in r.days
    BY Zenon DEF Recurrence!RuleDay, Recurrence!TheDay
  <1>3. Recurrence!RuleDay(r, start) \in Recurrence!Weekdays
    BY Zenon, <1>1, <1>2, DiscordWeekdayRange, RuleFields
  <1>4. Recurrence!RuleNth(r, start) \in 1..5
    BY SMT, RuleFields, NthOfMonthRange DEF Recurrence!RuleNth
  <1> QED
    BY <1>3, <1>4

\* A rule filled in is a rule.
LEMMA FilledTyped ==
  ASSUME NEW r \in Recurrence!Rule, NEW start \in Int
  PROVE  Recurrence!Filled(r, start) \in Recurrence!Rule
  <1>1. /\ Recurrence!RuleDay(r, start) \in Recurrence!Weekdays
        /\ Recurrence!RuleNth(r, start) \in 0..5
        /\ Recurrence!DateOf(start).month \in 0..12 /\ Recurrence!DateOf(start).day \in 0..31
    BY SMT, RuleDayTyped, DateOfRange
  <1>2. CASE r.freq = "weekly"
    BY <1>1, <1>2 DEF Recurrence!Filled, Recurrence!Rule
  <1>3. CASE r.freq = "monthly"
    BY <1>1, <1>3 DEF Recurrence!Filled, Recurrence!Rule
  <1>4. CASE r.freq = "yearly" /\ r.month = 0
    BY <1>1, <1>4 DEF Recurrence!Filled, Recurrence!Rule
  <1>5. CASE r.freq \notin {"weekly", "monthly"} /\ ~(r.freq = "yearly" /\ r.month = 0)
    BY <1>5 DEF Recurrence!Filled
  <1> QED
    BY <1>2, <1>3, <1>4, <1>5

\* A rule moved between zones is a rule.
LEMMA MovedTyped ==
  ASSUME NEW r \in Recurrence!Rule, NEW from \in Int, NEW to \in Int
  PROVE  Recurrence!MoveRuleDays(r, from, to) \in Recurrence!Rule
  <1> DEFINE days  == {(d + to - from) % 7 : d \in r.days}
             week  == IF r.nth = Recurrence!NthOfMonth(from)
                          /\ r.days = {Recurrence!DiscordWeekday(from)}
                      THEN Recurrence!NthOfMonth(to) ELSE r.nth
             own   == /\ r.month = Recurrence!DateOf(from).month
                      /\ r.monthDay = Recurrence!DateOf(from).day
             month == IF own THEN Recurrence!DateOf(to).month ELSE r.month
             date  == IF own THEN Recurrence!DateOf(to).day ELSE r.monthDay
  <1>1. Recurrence!MoveRuleDays(r, from, to)
          = [r EXCEPT !.days = days, !.nth = week, !.month = month, !.monthDay = date]
    BY Zenon DEF Recurrence!MoveRuleDays
  <1>2. days \subseteq Recurrence!Weekdays
    <2>1. ASSUME NEW d \in r.days PROVE (d + to - from) % 7 \in Recurrence!Weekdays
      <3>1. d \in Int
        BY SMT, RuleFields DEF Recurrence!Weekdays
      <3> QED
        BY ONLY <3>1, to \in Int, from \in Int, SMT DEF Recurrence!Weekdays
    <2> QED
      BY Zenon, <2>1
  <1>3. week \in 0..5
    BY SMT, NthOfMonthRange, RuleFields
  <1>4. month \in 0..12 /\ date \in 0..31
    BY SMT, DateOfRange, RuleFields
  <1> HIDE DEF days, week, own, month, date
  <1> QED
    BY Zenon, <1>1, <1>2, <1>3, <1>4 DEF Recurrence!Rule

\* The rules of each frequency.
LEMMA DailyTyped ==
  ASSUME NEW D, D \subseteq Recurrence!Weekdays
  PROVE  Recurrence!DailyRule(D) \in Recurrence!Rule
  <1>1. D \in SUBSET Recurrence!Weekdays
    OBVIOUS
  <1> QED
    BY Zenon, <1>1, NoRuleTyped DEF Recurrence!DailyRule, Recurrence!Rule

\* A week.
LEMMA WeeklyTyped ==
  ASSUME NEW i \in 1..2, NEW D, D \subseteq Recurrence!Weekdays
  PROVE  Recurrence!WeeklyRule(i, D) \in Recurrence!Rule
  <1>1. D \in SUBSET Recurrence!Weekdays
    OBVIOUS
  <1> QED
    BY Zenon, <1>1, NoRuleTyped DEF Recurrence!WeeklyRule, Recurrence!Rule

\* A month.
LEMMA MonthlyTyped ==
  ASSUME NEW n \in 0..5, NEW d \in Recurrence!Weekdays
  PROVE  Recurrence!MonthlyRule(n, d) \in Recurrence!Rule
  <1>1. {d} \in SUBSET Recurrence!Weekdays
    OBVIOUS
  <1> QED
    BY Zenon, <1>1, NoRuleTyped DEF Recurrence!MonthlyRule, Recurrence!Rule

\* A year.
LEMMA YearlyTyped ==
  ASSUME NEW m \in 0..12, NEW d \in 0..31
  PROVE  Recurrence!YearlyRule(m, d) \in Recurrence!Rule
  BY Zenon, NoRuleTyped DEF Recurrence!YearlyRule, Recurrence!Rule

\* A repeat word makes a rule.
LEMMA WordsMakeRules ==
  ASSUME NEW word \in Recurrence!Words, NEW start \in Int
  PROVE  Recurrence!RepeatWordToRRule(word, start) \in Recurrence!Rule
  <1> DEFINE today == Recurrence!DiscordWeekday(start)
  <1>1. today \in Recurrence!Weekdays /\ {today} \subseteq Recurrence!Weekdays
    BY Zenon, DiscordWeekdayRange
  <1>2. {} \subseteq Recurrence!Weekdays /\ 0..4 \subseteq Recurrence!Weekdays
    BY SMT DEF Recurrence!Weekdays
  <1>3. /\ Recurrence!NthOfMonth(start) \in 0..5
        /\ Recurrence!DateOf(start).month \in 0..12 /\ Recurrence!DateOf(start).day \in 0..31
        /\ 1 \in 1..2 /\ 2 \in 1..2
    BY SMT, NthOfMonthRange, DateOfRange
  <1>4. /\ Recurrence!DailyRule({}) \in Recurrence!Rule
        /\ Recurrence!DailyRule(0..4) \in Recurrence!Rule
        /\ Recurrence!WeeklyRule(1, {today}) \in Recurrence!Rule
        /\ Recurrence!WeeklyRule(2, {today}) \in Recurrence!Rule
    BY Zenon, <1>1, <1>2, <1>3, DailyTyped, WeeklyTyped
  <1>5. Recurrence!MonthlyRule(Recurrence!NthOfMonth(start), today) \in Recurrence!Rule
    BY Zenon, <1>1, <1>3, MonthlyTyped
  <1>6. Recurrence!YearlyRule(Recurrence!DateOf(start).month, Recurrence!DateOf(start).day)
          \in Recurrence!Rule
    BY Zenon, <1>3, YearlyTyped
  <1> QED
    BY Zenon, <1>4, <1>5, <1>6, NoRuleTyped DEF Recurrence!Words, Recurrence!RepeatWordToRRule

\* Only rules that are understood are taken.
LEMMA ParsedAreRules ==
  /\ \A r \in Recurrence!Typed : Recurrence!ParseRRule(r) => r \in Recurrence!Rule
  /\ Recurrence!Made \subseteq Recurrence!Rule
  <1>1. ASSUME NEW D \in Recurrence!DailyKnownSets \cup {{}, {0, 2}}
        PROVE  Recurrence!DailyRule(D) \in Recurrence!Rule
    <2>1. D \subseteq Recurrence!Weekdays
      BY SMT DEF Recurrence!Weekdays, Recurrence!DailyKnownSets
    <2> QED
      BY Zenon, <2>1, DailyTyped
  <1>2. ASSUME NEW i \in 1..3, NEW D \in {{}, {0, 1}} \cup {{d} : d \in Recurrence!Weekdays},
               Recurrence!ParseRRule(Recurrence!WeeklyRule(i, D))
        PROVE  Recurrence!WeeklyRule(i, D) \in Recurrence!Rule
    <2>1. i \in 1..2
      BY SMT, <1>2 DEF Recurrence!ParseRRule, Recurrence!WeeklyRule, Recurrence!NoRule
    <2>2. D \subseteq Recurrence!Weekdays
      BY SMT DEF Recurrence!Weekdays
    <2> QED
      BY Zenon, <2>1, <2>2, WeeklyTyped
  <1>3. ASSUME NEW n \in 0..5, NEW d \in Recurrence!Weekdays
        PROVE  Recurrence!MonthlyRule(n, d) \in Recurrence!Rule
    BY Zenon, MonthlyTyped
  <1>4. ASSUME NEW d \in {<<0, 0>>, <<1, 1>>, <<2, 29>>, <<10, 31>>, <<12, 31>>}
        PROVE  Recurrence!YearlyRule(d[1], d[2]) \in Recurrence!Rule
    <2>1. d[1] \in 0..12 /\ d[2] \in 0..31
      BY SMT
    <2> QED
      BY Zenon, <2>1, YearlyTyped
  <1>5. ASSUME NEW r \in Recurrence!Typed, Recurrence!ParseRRule(r)
        PROVE  r \in Recurrence!Rule
    <2>1. r \in {Recurrence!DailyRule(D) : D \in Recurrence!DailyKnownSets \cup {{}, {0, 2}}}
            => r \in Recurrence!Rule
      BY SMT, <1>1
    <2>2. r \in {Recurrence!WeeklyRule(i, D) :
                   i \in 1..3, D \in {{}, {0, 1}} \cup {{d} : d \in Recurrence!Weekdays}}
            => r \in Recurrence!Rule
      BY SMT, <1>2, <1>5
    <2>3. r \in {Recurrence!MonthlyRule(n, d) : n \in 0..5, d \in Recurrence!Weekdays}
            => r \in Recurrence!Rule
      BY SMT, <1>3
    <2>4. r \in {Recurrence!YearlyRule(d[1], d[2]) :
                   d \in {<<0, 0>>, <<1, 1>>, <<2, 29>>, <<10, 31>>, <<12, 31>>}}
            => r \in Recurrence!Rule
      BY Zenon, <1>4
    <2> QED
      BY <1>5, <2>1, <2>2, <2>3, <2>4 DEF Recurrence!Typed
  <1> QED
    BY Zenon, <1>5 DEF Recurrence!Made

\* The dates looked at are dates after the present.
LEMMA DatesAfter ==
  ASSUME NEW r \in Recurrence!Rule, NEW start \in Int, NEW after \in Int
  PROVE  /\ Recurrence!NextDaily(r, start, after) \subseteq Int
         /\ \A n \in Recurrence!NextDaily(r, start, after) : after < n
         /\ \E x \in Int : Recurrence!NextWeekly(r, start, after) = {x}
         /\ Recurrence!NextMonthly(r, start, after) \subseteq Int
         /\ \A n \in Recurrence!NextMonthly(r, start, after) : after < n
         /\ Recurrence!NextYearly(r, start, after) \subseteq Int
         /\ \A n \in Recurrence!NextYearly(r, start, after) : after < n
  <1>2. /\ Recurrence!NextDaily(r, start, after) \subseteq Int
        /\ \A n \in Recurrence!NextDaily(r, start, after) : after < n
    BY SMT DEF Recurrence!NextDaily
  <1>3. PICK x \in Int : Recurrence!NextWeekly(r, start, after) = {x}
    <2>1. Recurrence!RuleDay(r, start) \in Int /\ Recurrence!DiscordWeekday(start) \in Int
      BY SMT, RuleDayTyped, DiscordWeekdayRange DEF Recurrence!Weekdays
    <2> DEFINE first == start - (Recurrence!DiscordWeekday(start) - Recurrence!RuleDay(r, start))
               step  == 7 * r.interval
    <2>2. first \in Int /\ step \in {7, 14}
      BY SMT, <2>1, RuleFields
    <2>3. Recurrence!NextWeekly(r, start, after)
            = IF first > after THEN {first}
              ELSE {first + step * ((after - first) \div step + 1)}
      BY Zenon DEF Recurrence!NextWeekly
    <2> HIDE DEF first, step
    <2>4. first + step * ((after - first) \div step + 1) \in Int
      <3>1. CASE step = 7
        BY SMT, <2>2, <3>1
      <3>2. CASE step = 14
        BY SMT, <2>2, <3>2
      <3> QED
        BY <2>2, <3>1, <3>2
    <2> QED
      BY Zenon, <2>2, <2>3, <2>4
  <1>5. ASSUME NEW k \in 0..59
        PROVE  Recurrence!NthWeekdayOfMonth(k, start, Recurrence!RuleNth(r, start),
                 Recurrence!RuleDay(r, start)) \subseteq Int
    <2> DEFINE month == Recurrence!DateOf(start).month + k - 1
               first == Recurrence!DayNumber(Recurrence!DateOf(start).year + month \div 12,
                          (month % 12) + 1, 1)
               day   == Recurrence!RuleDay(r, start)
               nth   == Recurrence!RuleNth(r, start)
               c     == first + ((day - Recurrence!DiscordWeekday(first)) % 7) + 7 * (nth - 1)
    <2>1. Recurrence!NthWeekdayOfMonth(k, start, nth, day)
            = {n \in {c} : Recurrence!DateOf(n).month = (month % 12) + 1}
      BY SMT DEF Recurrence!NthWeekdayOfMonth
    <2>2. month \in Int /\ Recurrence!DateOf(start).year \in Int
      BY SMT, DateOfRange
    <2>3. first \in Int
      <3> HIDE DEF month
      <3>1. /\ Recurrence!DateOf(start).year + month \div 12 \in Int
            /\ (month % 12) + 1 \in 1..12 /\ 1 \in Int
        BY SMT, <2>2
      <3> QED
        BY Zenon, <3>1, DayNumberRange
    <2>4. day \in Int /\ nth \in Int /\ Recurrence!DiscordWeekday(first) \in Int
      BY SMT, <2>3, RuleDayTyped, DiscordWeekdayRange DEF Recurrence!Weekdays
    <2> HIDE DEF first, day, nth
    <2>5. c \in Int
      BY SMT, <2>3, <2>4
    <2> HIDE DEF c
    <2> QED
      BY Zenon, <2>1, <2>5 DEF day, nth
  <1>6. /\ Recurrence!NextMonthly(r, start, after) \subseteq Int
        /\ \A n \in Recurrence!NextMonthly(r, start, after) : after < n
    BY SMT, <1>5 DEF Recurrence!NextMonthly
  <1>7. /\ Recurrence!NextYearly(r, start, after) \subseteq Int
        /\ \A n \in Recurrence!NextYearly(r, start, after) : after < n
    <2> DEFINE month == IF r.month = 0 THEN Recurrence!DateOf(start).month ELSE r.month
               day   == IF r.month = 0 THEN Recurrence!DateOf(start).day ELSE r.monthDay
               at(k) == Recurrence!DayNumber(Recurrence!DateOf(start).year + k, month, day)
    <2>1. Recurrence!NextYearly(r, start, after)
            = {c \in {at(k) : k \in 0..7} : Recurrence!DateOf(c).month = month /\ c > after}
      BY SMT DEF Recurrence!NextYearly
    <2>2. month \in 1..12 /\ day \in 0..31
      BY SMT, DateOfRange, RuleFields
    <2> HIDE DEF month, day
    <2>3. ASSUME NEW k \in 0..7 PROVE at(k) \in Int
      <3>1. Recurrence!DateOf(start).year + k \in Int /\ day \in Int
        BY SMT, DateOfRange, <2>2
      <3> QED
        BY Zenon, <3>1, <2>2, DayNumberRange
    <2> HIDE DEF at
    <2> QED
      BY SMT, <2>1, <2>3
  <1> QED
    BY Zenon, <1>2, <1>3, <1>6, <1>7

\* The date a series moves on to is a date.
LEMMA NextIsADate ==
  ASSUME NEW r \in Recurrence!Rule, NEW start \in Int, NEW after \in Int
  PROVE  Recurrence!NextOccurrence(r, start, after) \subseteq Int
  <1>1. ASSUME NEW S, S \subseteq Int, \A n \in S : after < n, S # {}
        PROVE  Recurrence!Least(S) \in Int
    <2>1. \A n \in S : after <= n
      BY SMT, <1>1
    <2> QED
      BY Zenon, <1>1, <2>1, LeastIsOne
  <1>2. PICK y \in Int : Recurrence!NextWeekly(r, start, after) = {y}
    BY Zenon, DatesAfter
  <1>3. Recurrence!Least({y}) = y
    BY SMT, <1>2 DEF Recurrence!Least
  <1> DEFINE found == IF ~Recurrence!ParseRRule(r) THEN {}
                      ELSE CASE r.freq = "daily"   -> Recurrence!NextDaily(r, start, after)
                             [] r.freq = "weekly"  -> Recurrence!NextWeekly(r, start, after)
                             [] r.freq = "monthly" -> Recurrence!NextMonthly(r, start, after)
                             [] r.freq = "yearly"  -> Recurrence!NextYearly(r, start, after)
  <1>8. Recurrence!NextOccurrence(r, start, after)
          = IF found = {} THEN {} ELSE {Recurrence!Least(found)}
    BY Zenon DEF Recurrence!NextOccurrence
  <1>9. Recurrence!ParseRRule(r) => r.freq \in {"daily", "weekly", "monthly", "yearly"}
    BY Zenon DEF Recurrence!ParseRRule
  <1>10. \/ found = {} \/ found = Recurrence!NextDaily(r, start, after)
         \/ found = Recurrence!NextWeekly(r, start, after)
         \/ found = Recurrence!NextMonthly(r, start, after)
         \/ found = Recurrence!NextYearly(r, start, after)
    BY SMT, <1>9
  <1> HIDE DEF found
  <1>11. found # {} => Recurrence!Least(found) \in Int
    BY Zenon, <1>1, <1>2, <1>3, <1>10, DatesAfter
  <1> QED
    BY Zenon, <1>8, <1>11

\* A series starts typed.
LEMMA RecurrenceTypesInit == Recurrence!Init => Recurrence!TypeOK
  <1> SUFFICES ASSUME Recurrence!Init PROVE Recurrence!TypeOK
    OBVIOUS
  <1>1. /\ series \in [rule : {Recurrence!NoRule}, start : Starts, ahead : Recurrence!Shifts]
        /\ nativeRule = Recurrence!NoRule /\ origin = "local" /\ steps = 0
    BY Zenon DEF Recurrence!Init
  <1>2. series \in [rule : Recurrence!Rule, start : Int, ahead : Recurrence!Shifts]
    <2>1. Starts \subseteq Int /\ {Recurrence!NoRule} \subseteq Recurrence!Rule
      BY Zenon, NoRuleTyped, ServicesAssumption
    <2> QED
      BY ONLY <1>1, <2>1, Zenon
  <1>3. steps \in 0..MaxSteps
    BY SMT, <1>1, ServicesAssumption
  <1> QED
    BY Zenon, <1>1, <1>2, <1>3, NoRuleTyped DEF Recurrence!TypeOK

\* Every step of a series keeps its types.
LEMMA RecurrenceTypesStep ==
  ASSUME Recurrence!TypeOK, Recurrence!Next \/ UNCHANGED recurrenceVars
  PROVE  Recurrence!TypeOK'
  <1> DEFINE Series == [rule : Recurrence!Rule, start : Int, ahead : Recurrence!Shifts]
  <1>0. /\ series \in Series /\ nativeRule \in Recurrence!Rule
        /\ origin \in {"local", "discord"} /\ steps \in 0..MaxSteps
    BY Zenon DEF Recurrence!TypeOK
  <1>1. /\ series.rule \in Recurrence!Rule /\ series.start \in Int
        /\ series.start - series.ahead \in Int
        /\ series.ahead \in Recurrence!Shifts
    BY SMT, <1>0 DEF Recurrence!Shifts
  <1>2. ASSUME Recurrence!Step PROVE steps' \in 0..MaxSteps
    BY SMT, <1>0, <1>2, ServicesAssumption DEF Recurrence!Step
  <1>3. ASSUME NEW rule \in Recurrence!Rule PROVE [series EXCEPT !.rule = rule] \in Series
    BY SMT, <1>0
  <1>4. ASSUME NEW r \in Recurrence!Rule, Recurrence!EditRule(r) PROVE Recurrence!TypeOK'
    <2>1. /\ series' = [series EXCEPT !.rule = r] /\ origin' = "local" /\ nativeRule' = nativeRule
          /\ Recurrence!Step
      BY Zenon, <1>4 DEF Recurrence!EditRule
    <2> QED
      BY Zenon, <1>0, <1>2, <1>3, <2>1 DEF Recurrence!TypeOK
  <1>5. ASSUME NEW r \in Recurrence!Made, Recurrence!ImportSeries(r) PROVE Recurrence!TypeOK'
    <2> DEFINE read == Recurrence!RRuleInZoneFromDiscord(r, series.start, series.ahead)
    <2>1. /\ series' = [series EXCEPT !.rule = read] /\ origin' = "discord" /\ nativeRule' = r
          /\ Recurrence!Step
      BY Zenon, <1>5 DEF Recurrence!ImportSeries
    <2>2. r \in Recurrence!Rule
      BY Zenon, ParsedAreRules
    <2>3. read \in Recurrence!Rule
      BY Zenon, <1>1, <2>2, MovedTyped DEF Recurrence!RRuleInZoneFromDiscord
    <2> HIDE DEF read
    <2> QED
      BY Zenon, <1>2, <1>3, <2>1, <2>2, <2>3 DEF Recurrence!TypeOK
  <1>6. ASSUME Recurrence!Edit PROVE Recurrence!TypeOK'
    <2>1. ASSUME NEW word \in Recurrence!Words, Recurrence!ApplyRepeatForm(word)
          PROVE  Recurrence!TypeOK'
      BY Zenon, <1>1, <1>4, <2>1, WordsMakeRules DEF Recurrence!ApplyRepeatForm
    <2>2. ASSUME NEW r \in Recurrence!Typed, Recurrence!ValidateRecurrence(r)
          PROVE  Recurrence!TypeOK'
      BY Zenon, <1>4, <2>2, ParsedAreRules DEF Recurrence!ValidateRecurrence
    <2>3. ASSUME NEW start \in Starts, NEW ahead \in Recurrence!Shifts,
                 Recurrence!MoveStart(start, ahead)
          PROVE  Recurrence!TypeOK'
      <3>1. /\ series' = [series EXCEPT !.start = start, !.ahead = ahead] /\ origin' = "local"
            /\ nativeRule' = nativeRule /\ Recurrence!Step
        BY Zenon, <2>3 DEF Recurrence!MoveStart
      <3>2. start \in Int
        BY ServicesAssumption
      <3>3. series' \in Series
        BY Zenon, <1>0, <3>1, <3>2
      <3> QED
        BY Zenon, <1>0, <1>2, <3>1, <3>3 DEF Recurrence!TypeOK
    <2> QED
      BY Zenon, <1>6, <2>1, <2>2, <2>3 DEF Recurrence!Edit
  <1>7. ASSUME Recurrence!PushRule PROVE Recurrence!TypeOK'
    <2>1. /\ series' = series /\ origin' = origin /\ Recurrence!Step
          /\ nativeRule' \in {nativeRule, Recurrence!DiscordRecurrenceRule(series)}
      BY Zenon, <1>7 DEF Recurrence!PushRule
    <2>2. Recurrence!DiscordRecurrenceRule(series) \in Recurrence!Rule
      <3>1. Recurrence!Filled(series.rule, series.start) \in Recurrence!Rule
        BY Zenon, <1>1, FilledTyped
      <3> QED
        BY Zenon, <1>1, <3>1, MovedTyped DEF Recurrence!DiscordRecurrenceRule, Recurrence!UTC
    <2> QED
      BY Zenon, <1>0, <1>2, <2>1, <2>2 DEF Recurrence!TypeOK
  <1>8. ASSUME NEW late \in Missed, Recurrence!NextOccurrenceOf(late) PROVE Recurrence!TypeOK'
    <2>1. PICK next \in Recurrence!NextOccurrence(series.rule, series.start, series.start + late) :
            series' = [series EXCEPT !.start = next]
      BY Zenon, <1>8 DEF Recurrence!NextOccurrenceOf
    <2>2. origin' = "local" /\ nativeRule' = nativeRule /\ Recurrence!Step
      BY Zenon, <1>8 DEF Recurrence!NextOccurrenceOf
    <2>3. series.start + late \in Int
      BY SMT, <1>1, ServicesAssumption
    <2>4. next \in Int
      BY Zenon, <1>1, <2>3, NextIsADate
    <2>5. series' \in Series
      BY SMT, <1>0, <2>1, <2>4
    <2> QED
      BY Zenon, <1>0, <1>2, <2>2, <2>5 DEF Recurrence!TypeOK
  <1>9. CASE UNCHANGED recurrenceVars
    <2>1. series' = series /\ nativeRule' = nativeRule /\ origin' = origin /\ steps' = steps
      BY Zenon, <1>9 DEF recurrenceVars
    <2> QED
      BY Zenon, <1>0, <2>1 DEF Recurrence!TypeOK
  <1>10. CASE Recurrence!Next
    BY Zenon, <1>5, <1>6, <1>7, <1>8, <1>10 DEF Recurrence!Next
  <1> QED
    BY <1>9, <1>10
-----------------------------------------------------------------------------
(* The first date of a rule.                                               *)

\* Daily: fourteen days are looked through.
LEMMA FirstOfDaily ==
  ASSUME NEW r \in Recurrence!Rule, r.freq = "daily", NEW start \in Int, NEW after \in Int,
         start <= after, NEW x \in Recurrence!NextDaily(r, start, after),
         \A o \in Recurrence!NextDaily(r, start, after) : x <= o
  PROVE  /\ Recurrence!Fires(r, start, x)
         /\ \A n \in Int : after < n /\ n < x => ~Recurrence!Fires(r, start, n)
  <1> DEFINE Ok(n) == r.days = {} \/ Recurrence!DiscordWeekday(n) \in r.days
  <1>1. ASSUME NEW n PROVE Recurrence!Fires(r, start, n) <=> Ok(n)
    BY Zenon DEF Recurrence!Fires
  <1>2. Recurrence!NextDaily(r, start, after) = {c \in after + 1 .. after + 14 : Ok(c)}
    <2>1. ~(start > after)
      BY SMT
    <2> QED
      BY Zenon, <2>1 DEF Recurrence!NextDaily
  <1> HIDE DEF Ok
  <1>3. Ok(x) /\ x \in Int /\ x <= after + 14
    BY SMT, <1>2
  <1>4. ASSUME NEW n \in Int, after < n, n < x, Ok(n) PROVE FALSE
    <2>1. n \in after + 1 .. after + 14
      BY SMT, <1>3, <1>4
    <2>2. x <= n
      BY Zenon, <1>2, <1>4, <2>1
    <2> QED
      BY SMT, <1>3, <1>4, <2>2
  <1> QED
    BY Zenon, <1>1, <1>3, <1>4

\* A date by its week and its weekday.
LEMMA WeekOfADay ==
  ASSUME NEW n \in Int
  PROVE  \E q \in Int : (n + 3) \div 7 = q /\ n + 3 = 7 * q + Recurrence!DiscordWeekday(n)
  BY SMT DEF Recurrence!DiscordWeekday

\* Weekly: the day in the start's week, and from it a step at a time.
LEMMA FirstOfWeekly ==
  ASSUME NEW r \in Recurrence!Rule, r.freq = "weekly", NEW start \in Int, NEW after \in Int,
         start <= after, NEW x \in Recurrence!NextWeekly(r, start, after)
  PROVE  /\ Recurrence!Fires(r, start, x)
         /\ \A n \in Int : after < n /\ n < x => ~Recurrence!Fires(r, start, n)
  <1> DEFINE day   == Recurrence!RuleDay(r, start)
             today == Recurrence!DiscordWeekday(start)
             i     == r.interval
             first == start - (today - day)
             step  == 7 * i
             week(n) == (n + 3) \div 7
  <1>1. /\ day \in Int /\ 0 <= day /\ day <= 6 /\ today \in Int /\ 0 <= today /\ today <= 6
        /\ i \in 1..2
    BY SMT, RuleDayTyped, DiscordWeekdayRange, RuleFields DEF Recurrence!Weekdays
  <1>2. x = IF first > after THEN first ELSE first + step * ((after - first) \div step + 1)
    BY Zenon DEF Recurrence!NextWeekly
  <1>3. ASSUME NEW n
        PROVE Recurrence!Fires(r, start, n)
                <=> Recurrence!DiscordWeekday(n) = day /\ (week(n) - week(start)) % i = 0
    BY Zenon DEF Recurrence!Fires
  <1>4. PICK s \in Int : week(start) = s /\ start + 3 = 7 * s + today
    BY Zenon, WeekOfADay
  <1> HIDE DEF day, today, i, week
  <1>5. first \in Int /\ first + 3 = 7 * s + day /\ step \in {7, 14}
    BY SMT, <1>1, <1>4
  <1>6. ASSUME NEW n \in Int
        PROVE  Recurrence!Fires(r, start, n) <=> \E t \in Int : n = first + step * t
    <2>1. PICK q \in Int : week(n) = q /\ n + 3 = 7 * q + Recurrence!DiscordWeekday(n)
      BY Zenon, WeekOfADay DEF week
    <2> DEFINE d == Recurrence!DiscordWeekday(n)
    <2>2. d \in Int /\ 0 <= d /\ d <= 6
      BY SMT, DiscordWeekdayRange DEF Recurrence!Weekdays
    <2> HIDE DEF d
    <2>3. n + 3 = 7 * q + d
      BY Zenon, <2>1 DEF d
    <2>4. ASSUME d = day, (q - s) % i = 0 PROVE \E t \in Int : n = first + step * t
      <3>1. CASE i = 1
        <4>1. n = first + 7 * (q - s) /\ step = 7 /\ q - s \in Int
          BY SMT, <1>5, <2>2, <2>3, <2>4, <3>1
        <4> QED
          BY Zenon, <4>1
      <3>2. CASE i = 2
        <4> DEFINE t == (q - s) \div 2
        <4>1. t \in Int /\ q - s = 2 * t
          BY SMT, <2>4, <3>2
        <4> HIDE DEF t
        <4>2. n = first + 14 * t /\ step = 14
          BY SMT, <1>1, <1>5, <2>3, <2>4, <3>2, <4>1
        <4> QED
          BY Zenon, <4>1, <4>2
      <3> QED
        BY SMT, <1>1, <3>1, <3>2
    <2>5. ASSUME NEW t \in Int, n = first + step * t PROVE d = day /\ (q - s) % i = 0
      <3>1. CASE i = 1
        <4>1. n + 3 = 7 * (s + t) + day
          BY SMT, <1>1, <1>5, <2>5, <3>1
        <4>2. d = day
          BY SMT, <1>1, <2>2, <2>3, <4>1
        <4> QED
          BY SMT, <3>1, <4>2
      <3>2. CASE i = 2
        <4>1. n + 3 = 7 * (s + 2 * t) + day
          BY SMT, <1>1, <1>5, <2>5, <3>2
        <4>2. d = day /\ q = s + 2 * t
          BY SMT, <1>1, <2>2, <2>3, <4>1
        <4> QED
          BY SMT, <3>2, <4>2
      <3> QED
        BY SMT, <1>1, <3>1, <3>2
    <2> QED
      BY Zenon, <1>3, <1>4, <2>1, <2>4, <2>5 DEF d
  <1>7. CASE first > after
    <2>1. x = first /\ first = first + step * 0 /\ 0 \in Int
      BY SMT, <1>2, <1>5, <1>7
    <2>2. Recurrence!Fires(r, start, x)
      BY Zenon, <1>5, <1>6, <2>1
    <2>3. ASSUME NEW n \in Int, after < n, n < x, NEW t \in Int, n = first + step * t PROVE FALSE
      <3>1. n > first - 7
        BY SMT, <1>1, <1>4, <1>5, <2>3
      <3> QED
        BY SMT, <1>5, <2>1, <2>3, <3>1
    <2> QED
      BY Zenon, <1>6, <2>2, <2>3
  <1>8. CASE first <= after
    <2> DEFINE t0 == (after - first) \div step
    <2>1. t0 \in Int /\ step * t0 <= after - first /\ after - first < step * (t0 + 1)
      <3>1. CASE step = 7
        BY SMT, <1>5, <3>1
      <3>2. CASE step = 14
        BY SMT, <1>5, <3>2
      <3> QED
        BY Zenon, <1>5, <3>1, <3>2
    <2>2. ~(first > after)
      BY SMT, <1>5, <1>8
    <2>3. x = first + step * (t0 + 1)
      BY Zenon, <1>2, <2>2
    <2> HIDE DEF t0, first, step
    <2>4. t0 + 1 \in Int /\ x \in Int
      BY SMT, <1>5, <2>1, <2>3
    <2>5. Recurrence!Fires(r, start, x)
      BY Zenon, <1>6, <2>3, <2>4
    <2>6. ASSUME NEW n \in Int, after < n, n < x, NEW t \in Int, n = first + step * t PROVE FALSE
      BY SMT, <1>5, <2>1, <2>3, <2>6
    <2> QED
      BY Zenon, <1>6, <2>5, <2>6
  <1> QED
    BY SMT, <1>5, <1>7, <1>8

\* The week of the month is the days from seven to seven.
LEMMA WeekOfTheMonth ==
  ASSUME NEW n \in Int, NEW nth \in 1..5
  PROVE  LET d == Recurrence!DateOf(n).day IN
         Recurrence!NthOfMonth(n) = nth <=> 7 * (nth - 1) <= d - 1 /\ d - 1 <= 7 * (nth - 1) + 6
  BY SMT, DateOfRange DEF Recurrence!NthOfMonth

\* The months since the calendar began.
MonthIndex(n) == 12 * Recurrence!DateOf(n).year + Recurrence!DateOf(n).month

\* The nth weekday of the month m of year y, which begins on f, is e days
\* into its week of the month; the month is k months on from the start's.
IsNth(y, m, f, e, k, start, nth, day) ==
  /\ 12 * y + m = MonthIndex(start) + k /\ f = Recurrence!DayNumber(y, m, 1)
  /\ 0 <= e /\ e <= 6 /\ Recurrence!DiscordWeekday(f + e) = day
  /\ Recurrence!NthWeekdayOfMonth(k, start, nth, day)
       = {n \in {f + e + 7 * (nth - 1)} : Recurrence!DateOf(n).month = m}

\* There is such a month, and such a week of it.
LEMMA NthOfAMonth ==
  ASSUME NEW k \in Nat, NEW start \in Int, NEW nth \in 1..5, NEW day \in Recurrence!Weekdays
  PROVE  \E y \in Int, m \in 1..12, f \in Int, e \in Int :
           IsNth(y, m, f, e, k, start, nth, day)
  <1> DEFINE d     == Recurrence!DateOf(start)
             month == d.month + k - 1
             y     == d.year + month \div 12
             m     == (month % 12) + 1
             f     == Recurrence!DayNumber(y, m, 1)
             e     == (day - Recurrence!DiscordWeekday(f)) % 7
             c     == f + e + 7 * (nth - 1)
  <1>1. Recurrence!NthWeekdayOfMonth(k, start, nth, day)
          = {n \in {c} : Recurrence!DateOf(n).month = m}
    BY Zenon DEF Recurrence!NthWeekdayOfMonth
  <1>2. d.year \in Int /\ d.month \in 1..12
    BY Zenon, DateOfRange
  <1> HIDE DEF d
  <1>3. y \in Int /\ m \in 1..12 /\ 12 * y + m = 12 * d.year + d.month + k
    <2>1. month \in Int /\ month = d.month + k - 1
      BY SMT, <1>2
    <2> DEFINE q == month \div 12
               w == month % 12
    <2>2. y = d.year + q /\ m = w + 1
      BY Zenon
    <2> HIDE DEF month
    <2>3. q \in Int /\ w \in 0..11 /\ month = 12 * q + w
      BY SMT, <2>1
    <2> HIDE DEF q, w, y, m
    <2> QED
      BY SMT, <1>2, <2>1, <2>2, <2>3
  <1> HIDE DEF y, m
  <1>4. f \in Int
    <2>1. 1 \in Int
      BY SMT
    <2> QED
      BY Zenon, <1>3, <2>1, DayNumberRange
  <1> HIDE DEF f
  <1>5. e \in Int /\ 0 <= e /\ e <= 6 /\ Recurrence!DiscordWeekday(f + e) = day
    BY SMT, <1>4 DEF Recurrence!DiscordWeekday, Recurrence!Weekdays
  <1> HIDE DEF e
  <1>6. IsNth(y, m, f, e, k, start, nth, day)
    BY Zenon, <1>1, <1>3, <1>5 DEF d, f, IsNth, MonthIndex
  <1> QED
    BY Zenon, <1>3, <1>4, <1>5, <1>6

\* Monthly: such a weekday of sixty months.
LEMMA FirstOfMonthly ==
  ASSUME NEW r \in Recurrence!Rule, r.freq = "monthly", NEW start \in Int, NEW after \in Int,
         start <= after, NEW x \in Recurrence!NextMonthly(r, start, after),
         \A o \in Recurrence!NextMonthly(r, start, after) : x <= o
  PROVE  /\ Recurrence!Fires(r, start, x)
         /\ \A n \in Int : after < n /\ n < x => ~Recurrence!Fires(r, start, n)
  <1> DEFINE day   == Recurrence!RuleDay(r, start)
             nth   == Recurrence!RuleNth(r, start)
             At(k) == Recurrence!NthWeekdayOfMonth(k, start, nth, day)
  <1>1. day \in Recurrence!Weekdays /\ nth \in 1..5
    BY Zenon, RuleDayTyped
  <1>2. ASSUME NEW n
        PROVE  Recurrence!Fires(r, start, n)
                 <=> Recurrence!DiscordWeekday(n) = day /\ Recurrence!NthOfMonth(n) = nth
    BY Zenon DEF Recurrence!Fires
  <1>3. Recurrence!NextMonthly(r, start, after) = {c \in UNION {At(k) : k \in 0..59} : c > after}
    BY Zenon DEF Recurrence!NextMonthly
  <1>4. ASSUME NEW n \in Int PROVE MonthIndex(n) \in Int
    BY SMT, DateOfRange DEF MonthIndex
  <1> HIDE DEF day, nth
  <1>5. ASSUME NEW k \in Nat
        PROVE  \E y \in Int, m \in 1..12, f \in Int, e \in Int :
                 IsNth(y, m, f, e, k, start, nth, day)
    BY Zenon, <1>1, NthOfAMonth
  \* A date taken fires, and is of the month it was taken for.
  <1>6. ASSUME NEW k \in Nat, NEW n \in At(k)
        PROVE  n \in Int /\ MonthIndex(n) = MonthIndex(start) + k /\ Recurrence!Fires(r, start, n)
    <2>0. PICK y \in Int, m \in 1..12, f \in Int, e \in Int :
             IsNth(y, m, f, e, k, start, nth, day)
      BY Zenon, <1>5
    <2> DEFINE c == f + e + 7 * (nth - 1)
    <2>1. /\ 12 * y + m = MonthIndex(start) + k
          /\ f = Recurrence!DayNumber(y, m, 1) /\ c = f + e + 7 * (nth - 1) /\ c \in Int
          /\ 0 <= e /\ e <= 6 /\ Recurrence!DiscordWeekday(f + e) = day
          /\ At(k) = {o \in {c} : Recurrence!DateOf(o).month = m}
      <3>1. c \in Int
        BY SMT, <1>1
      <3> QED
        BY Zenon, <2>0, <3>1 DEF IsNth
    <2> HIDE DEF c, At
    <2>2. n = c /\ n \in Int /\ Recurrence!DateOf(n).month = m
      BY Zenon, <1>6, <2>1
    <2>3. /\ Recurrence!DayNumber(y, m, 1) <= n /\ n < Recurrence!DayNumber(y, m, 1) + 365
          /\ n - Recurrence!DayNumber(y, m, 1) = e + 7 * (nth - 1)
      BY SMT, <1>1, <2>1, <2>2
    <2>4. /\ Recurrence!DateOf(n).year = y
          /\ Recurrence!DateOf(n).day = n - Recurrence!DayNumber(y, m, 1) + 1
      BY Zenon, <2>2, <2>3, InThatMonth
    <2>5. Recurrence!NthOfMonth(n) = nth
      <3>1. /\ 7 * (nth - 1) <= Recurrence!DateOf(n).day - 1
            /\ Recurrence!DateOf(n).day - 1 <= 7 * (nth - 1) + 6
        BY SMT, <1>1, <2>1, <2>2, <2>3, <2>4
      <3> QED
        BY Zenon, <1>1, <2>2, <3>1, WeekOfTheMonth
    <2>6. Recurrence!DiscordWeekday(n) = day
      <3>1. n = f + e + 7 * (nth - 1) /\ (n + 3) % 7 = (f + e + 3) % 7
        BY SMT, <1>1, <2>1, <2>2
      <3> QED
        BY Zenon, <2>1, <3>1 DEF Recurrence!DiscordWeekday
    <2> QED
      BY Zenon, <1>2, <2>1, <2>2, <2>4, <2>5, <2>6 DEF MonthIndex
  \* A date that fires is the one taken for its month.
  <1>7. ASSUME NEW k \in Nat, NEW n \in Int, MonthIndex(n) = MonthIndex(start) + k,
               Recurrence!Fires(r, start, n)
        PROVE  n \in At(k)
    <2>0. PICK y \in Int, m \in 1..12, f \in Int, e \in Int :
             IsNth(y, m, f, e, k, start, nth, day)
      BY Zenon, <1>5
    <2> DEFINE c == f + e + 7 * (nth - 1)
    <2>1. /\ 12 * y + m = MonthIndex(start) + k
          /\ f = Recurrence!DayNumber(y, m, 1) /\ c = f + e + 7 * (nth - 1) /\ c \in Int
          /\ 0 <= e /\ e <= 6 /\ Recurrence!DiscordWeekday(f + e) = day
          /\ At(k) = {o \in {c} : Recurrence!DateOf(o).month = m}
      <3>1. c \in Int
        BY SMT, <1>1
      <3> QED
        BY Zenon, <2>0, <3>1 DEF IsNth
    <2> HIDE DEF c, At
    <2> DEFINE d == Recurrence!DateOf(n)
    <2>2. /\ d.year \in Int /\ d.month \in 1..12 /\ d.day \in 1..31
          /\ Recurrence!DayNumber(d.year, d.month, 1) = n - d.day + 1
      BY Zenon, MonthOfADay
    <2>3. 12 * y + m = 12 * d.year + d.month
      BY Zenon, <1>7, <2>1 DEF MonthIndex
    <2>4. 7 * (nth - 1) <= d.day - 1 /\ d.day - 1 <= 7 * (nth - 1) + 6
      BY Zenon, <1>1, <1>2, <1>7, WeekOfTheMonth
    <2>5. Recurrence!DiscordWeekday(n) = day
      BY Zenon, <1>2, <1>7
    <2> HIDE DEF d
    <2>6. y = d.year /\ m = d.month
      <3> DEFINE u == d.year
                 v == d.month
      <3>1. u \in Int /\ v \in 1..12 /\ 12 * y + m = 12 * u + v
        BY Zenon, <2>2, <2>3
      <3> HIDE DEF u, v
      <3>2. y = u /\ m = v
        BY SMT, <3>1
      <3> QED
        BY Zenon, <3>2 DEF u, v
    <2>7. f = n - d.day + 1
      BY Zenon, <2>1, <2>2, <2>6
    <2>8. PICK g \in Int : n = f + g + 7 * (nth - 1) /\ 0 <= g /\ g <= 6
      <3> DEFINE g == d.day - 1 - 7 * (nth - 1)
      <3>1. g \in Int /\ n = f + g + 7 * (nth - 1) /\ 0 <= g /\ g <= 6
        BY SMT, <1>1, <2>2, <2>4, <2>7
      <3> QED
        BY Zenon, <3>1
    <2>9. g = e
      <3>1. (f + e + 3) % 7 = day /\ (n + 3) % 7 = day
        BY Zenon, <2>1, <2>5 DEF Recurrence!DiscordWeekday
      <3>2. (n + 3) % 7 = (f + g + 3) % 7
        BY SMT, <1>1, <2>8
      <3> QED
        BY SMT, <2>1, <2>8, <3>1, <3>2
    <2>10. n = c
      BY Zenon, <2>1, <2>8, <2>9
    <2> QED
      BY Zenon, <2>1, <2>6, <2>10 DEF d
  <1> HIDE DEF At
  <1>8. PICK j \in 0..59 : x \in At(j)
    BY Zenon, <1>3
  <1>9. x \in Int /\ MonthIndex(x) = MonthIndex(start) + j /\ Recurrence!Fires(r, start, x)
    <2>1. j \in Nat
      BY SMT
    <2> QED
      BY Zenon, <1>6, <1>8, <2>1
  <1>10. ASSUME NEW n \in Int, after < n, n < x, Recurrence!Fires(r, start, n) PROVE FALSE
    <2>1. MonthIndex(start) <= MonthIndex(n) /\ MonthIndex(n) <= MonthIndex(x)
      <3>1. start <= n /\ n <= x
        BY SMT, <1>9, <1>10
      <3> QED
        BY Zenon, <1>9, <3>1, MonthsInOrder DEF MonthIndex
    <2> DEFINE a == MonthIndex(start)
               b == MonthIndex(n)
               c == MonthIndex(x)
               k == b - a
    <2>2. k \in 0..59 /\ k \in Nat /\ b = a + k
      <3>1. a \in Int /\ b \in Int /\ a <= b /\ b <= c /\ c = a + j
        BY Zenon, <1>4, <1>9, <2>1
      <3> HIDE DEF a, b, c
      <3> QED
        BY SMT, <3>1
    <2> HIDE DEF k
    <2>3. n \in At(k)
      BY Zenon, <1>7, <1>10, <2>2
    <2>4. n > after
      BY SMT, <1>10
    <2>5. x <= n
      BY Zenon, <1>3, <2>2, <2>3, <2>4
    <2> QED
      BY SMT, <1>9, <1>10, <2>5
  <1> QED
    BY Zenon, <1>9, <1>10

\* Yearly: the date in eight years.
LEMMA FirstOfYearly ==
  ASSUME NEW r \in Recurrence!Rule, r.freq = "yearly", Recurrence!ParseRRule(r),
         NEW start \in Int, NEW after \in Int, start <= after,
         NEW x \in Recurrence!NextYearly(r, start, after),
         \A o \in Recurrence!NextYearly(r, start, after) : x <= o
  PROVE  /\ Recurrence!Fires(r, start, x)
         /\ \A n \in Int : after < n /\ n < x => ~Recurrence!Fires(r, start, n)
  <1> DEFINE s     == Recurrence!DateOf(start)
             month == IF r.month = 0 THEN s.month ELSE r.month
             day   == IF r.month = 0 THEN s.day ELSE r.monthDay
             at(k) == Recurrence!DayNumber(s.year + k, month, day)
  <1>1. Recurrence!NextYearly(r, start, after)
          = {c \in {at(k) : k \in 0..7} : Recurrence!DateOf(c).month = month /\ c > after}
    BY Zenon DEF Recurrence!NextYearly
  <1>2. /\ (r.month = 0 /\ r.monthDay = 0) \/ (r.month \in 1..12 /\ r.monthDay \in 1..31)
        /\ r.month \in Int /\ r.monthDay \in Int
    BY SMT, RuleFields DEF Recurrence!ParseRRule
  <1>3. s.year \in Int /\ s.month \in 1..12 /\ s.day \in 1..31
    BY Zenon, DateOfRange
  <1>4. month \in 1..12 /\ day \in 1..31 /\ day \in Int
    BY SMT, <1>2, <1>3
  <1>5. ASSUME NEW n
        PROVE  Recurrence!Fires(r, start, n)
                 <=> Recurrence!DateOf(n).month = month /\ Recurrence!DateOf(n).day = day
    <2>1. /\ Recurrence!Filled(r, start).month = month
          /\ Recurrence!Filled(r, start).monthDay = day
      BY Zenon, RuleFields DEF Recurrence!Filled, Recurrence!Rule
    <2> QED
      BY Zenon, <2>1 DEF Recurrence!Fires
  <1> HIDE DEF s, month, day
  <1>6. PICK j \in 0..7 : x = at(j)
    BY Zenon, <1>1
  <1>7. Recurrence!DateOf(x).month = month
    BY Zenon, <1>1
  <1> DEFINE f == Recurrence!DayNumber(s.year + j, month, 1)
  <1>8. s.year + j \in Int /\ f \in Int /\ x = f + day - 1 /\ x \in Int
    <2>1. s.year + j \in Int
      BY SMT, <1>3
    <2>2. f \in Int /\ at(j) = f + day - 1
      BY Zenon, <1>4, <2>1, DaysOfAMonth
    <2> HIDE DEF at, f
    <2> QED
      BY SMT, <1>4, <1>6, <2>1, <2>2
  <1>9. Recurrence!DateOf(x).year = s.year + j /\ Recurrence!DateOf(x).day = x - f + 1
    <2>1. f <= x /\ x < f + 365
      BY SMT, <1>4, <1>8
    <2> QED
      BY Zenon, <1>4, <1>7, <1>8, <2>1, InThatMonth
  <1> HIDE DEF f
  <1>10. Recurrence!Fires(r, start, x)
    <2>1. Recurrence!DateOf(x).day = day
      BY SMT, <1>4, <1>8, <1>9
    <2> QED
      BY Zenon, <1>5, <1>7, <2>1
  <1>11. ASSUME NEW n \in Int, after < n, n < x, Recurrence!Fires(r, start, n) PROVE FALSE
    <2> DEFINE d == Recurrence!DateOf(n)
    <2>1. d.year \in Int /\ d.month = month /\ d.day = day
      BY Zenon, <1>5, <1>11, DateOfRange
    <2>2. n = Recurrence!DayNumber(d.year, month, day)
      BY Zenon, <2>1, DateIsBack
    <2>3. /\ 12 * s.year + s.month <= 12 * d.year + d.month
          /\ 12 * d.year + d.month <= 12 * Recurrence!DateOf(x).year + Recurrence!DateOf(x).month
      <3>1. start <= n /\ n <= x
        BY SMT, <1>8, <1>11
      <3> QED
        BY Zenon, <1>8, <3>1, MonthsInOrder DEF s
    <2> HIDE DEF d
    <2> DEFINE k == d.year - s.year
    <2>4. k \in 0..7 /\ d.year = s.year + k
      BY SMT, <1>3, <1>4, <1>7, <1>9, <2>1, <2>3
    <2> HIDE DEF k
    <2>5. n = at(k)
      BY Zenon, <2>2, <2>4
    <2>6. n > after /\ Recurrence!DateOf(n).month = month
      BY SMT, <1>11, <2>1 DEF d
    <2>7. x <= n
      BY Zenon, <1>1, <2>4, <2>5, <2>6
    <2> QED
      BY SMT, <1>8, <1>11, <2>7
  <1> QED
    BY Zenon, <1>10, <1>11

\* The date a series moves on to fires, and none between does.
LEMMA NextIsFirst ==
  ASSUME NEW r \in Recurrence!Rule, NEW start \in Int, NEW after \in Int, start <= after,
         NEW x \in Recurrence!NextOccurrence(r, start, after)
  PROVE  /\ Recurrence!Fires(r, start, x)
         /\ \A n \in Int : after < n /\ n < x => ~Recurrence!Fires(r, start, n)
  <1> DEFINE found == IF ~Recurrence!ParseRRule(r) THEN {}
                      ELSE CASE r.freq = "daily"   -> Recurrence!NextDaily(r, start, after)
                             [] r.freq = "weekly"  -> Recurrence!NextWeekly(r, start, after)
                             [] r.freq = "monthly" -> Recurrence!NextMonthly(r, start, after)
                             [] r.freq = "yearly"  -> Recurrence!NextYearly(r, start, after)
  <1>1. Recurrence!NextOccurrence(r, start, after)
          = IF found = {} THEN {} ELSE {Recurrence!Least(found)}
    BY Zenon DEF Recurrence!NextOccurrence
  <1>2. Recurrence!ParseRRule(r) => r.freq \in {"daily", "weekly", "monthly", "yearly"}
    BY Zenon DEF Recurrence!ParseRRule
  <1>a. ~Recurrence!ParseRRule(r) => found = {}
    BY SMT
  <1>b. Recurrence!ParseRRule(r) /\ r.freq = "daily"
          => found = Recurrence!NextDaily(r, start, after)
    BY SMT
  <1>c. Recurrence!ParseRRule(r) /\ r.freq = "weekly"
          => found = Recurrence!NextWeekly(r, start, after)
    BY SMT
  <1>d. Recurrence!ParseRRule(r) /\ r.freq = "monthly"
          => found = Recurrence!NextMonthly(r, start, after)
    BY SMT
  <1>e. Recurrence!ParseRRule(r) /\ r.freq = "yearly"
          => found = Recurrence!NextYearly(r, start, after)
    BY SMT
  <1>3. /\ ~Recurrence!ParseRRule(r) => found = {}
        /\ Recurrence!ParseRRule(r) =>
             /\ r.freq = "daily" => found = Recurrence!NextDaily(r, start, after)
             /\ r.freq = "weekly" => found = Recurrence!NextWeekly(r, start, after)
             /\ r.freq = "monthly" => found = Recurrence!NextMonthly(r, start, after)
             /\ r.freq = "yearly" => found = Recurrence!NextYearly(r, start, after)
    BY Zenon, <1>a, <1>b, <1>c, <1>d, <1>e
  <1> HIDE DEF found
  <1>4. found # {} /\ x = Recurrence!Least(found) /\ Recurrence!ParseRRule(r)
    BY Zenon, <1>1, <1>3
  <1>5. ASSUME found \subseteq Int, \A n \in found : after < n
        PROVE  x \in found /\ \A o \in found : x <= o
    <2>1. \A n \in found : after <= n
      BY SMT, <1>5
    <2> QED
      BY Zenon, <1>4, <1>5, <2>1, LeastIsOne
  <1>6. CASE r.freq = "daily"
    BY Zenon, <1>3, <1>4, <1>5, <1>6, DatesAfter, FirstOfDaily
  <1>7. CASE r.freq = "weekly"
    <2>1. PICK y \in Int : found = {y}
      BY Zenon, <1>3, <1>4, <1>7, DatesAfter
    <2>2. x \in Recurrence!NextWeekly(r, start, after)
      <3>1. x = y
        BY SMT, <1>4, <2>1 DEF Recurrence!Least
      <3> QED
        BY Zenon, <1>3, <1>4, <1>7, <2>1, <3>1
    <2> QED
      BY Zenon, <1>7, <2>2, FirstOfWeekly
  <1>8. CASE r.freq = "monthly"
    BY Zenon, <1>3, <1>4, <1>5, <1>8, DatesAfter, FirstOfMonthly
  <1>9. CASE r.freq = "yearly"
    BY Zenon, <1>3, <1>4, <1>5, <1>9, DatesAfter, FirstOfYearly
  <1> QED
    BY Zenon, <1>2, <1>4, <1>6, <1>7, <1>8, <1>9
-----------------------------------------------------------------------------
(* A rule read from Discord goes back as it came.                          *)

\* Rules with the same fields are the same.
LEMMA SameRules ==
  ASSUME NEW r \in Recurrence!Rule, NEW q \in Recurrence!Rule,
         r.freq = q.freq, r.interval = q.interval, r.days = q.days, r.nth = q.nth,
         r.month = q.month, r.monthDay = q.monthDay
  PROVE  r = q
  BY DEF Recurrence!Rule

\* Weekdays moved from a date to another.
Shifted(D, from, to) == {(d + to - from) % 7 : d \in D}

\* The fields of a rule that is moved.
LEMMA MovedFields ==
  ASSUME NEW r \in Recurrence!Rule, NEW from \in Int, NEW to \in Int
  PROVE  LET m == Recurrence!MoveRuleDays(r, from, to) IN
         /\ m \in Recurrence!Rule /\ m.freq = r.freq /\ m.interval = r.interval
         /\ m.days = Shifted(r.days, from, to)
         /\ r.nth = 0 => m.nth = 0
         /\ r.month = 0 => m.month = 0 /\ m.monthDay = r.monthDay
         /\ r.nth = Recurrence!NthOfMonth(from) /\ r.days = {Recurrence!DiscordWeekday(from)}
              => m.nth = Recurrence!NthOfMonth(to)
         /\ r.month = Recurrence!DateOf(from).month /\ r.monthDay = Recurrence!DateOf(from).day
              => /\ m.month = Recurrence!DateOf(to).month
                 /\ m.monthDay = Recurrence!DateOf(to).day
  <1> DEFINE days  == Shifted(r.days, from, to)
             own   == /\ r.nth = Recurrence!NthOfMonth(from)
                      /\ r.days = {Recurrence!DiscordWeekday(from)}
             week  == IF own THEN Recurrence!NthOfMonth(to) ELSE r.nth
             date  == /\ r.month = Recurrence!DateOf(from).month
                      /\ r.monthDay = Recurrence!DateOf(from).day
             month == IF date THEN Recurrence!DateOf(to).month ELSE r.month
             day   == IF date THEN Recurrence!DateOf(to).day ELSE r.monthDay
             m     == Recurrence!MoveRuleDays(r, from, to)
  <1>1. m = [r EXCEPT !.days = days, !.nth = week, !.month = month, !.monthDay = day]
    BY Zenon DEF Recurrence!MoveRuleDays, Shifted
  <1>2. m \in Recurrence!Rule
    BY Zenon, MovedTyped
  <1>3. /\ Recurrence!NthOfMonth(from) # 0 /\ Recurrence!DateOf(from).month # 0
    BY SMT, NthOfMonthRange, DateOfRange
  <1>4. /\ own => week = Recurrence!NthOfMonth(to)
        /\ date => month = Recurrence!DateOf(to).month /\ day = Recurrence!DateOf(to).day
        /\ r.nth = 0 => week = 0
        /\ r.month = 0 => month = 0 /\ day = r.monthDay
    BY Zenon, <1>3
  <1> HIDE DEF days, week, month, day, m
  <1>5. /\ m.freq = r.freq /\ m.interval = r.interval /\ m.days = days /\ m.nth = week
        /\ m.month = month /\ m.monthDay = day
    BY Zenon, <1>1 DEF Recurrence!Rule
  <1> QED
    BY Zenon, <1>2, <1>4, <1>5 DEF days, m

\* Weekdays moved to another date and back.
LEMMA DaysMoveBack ==
  ASSUME NEW D, D \subseteq Recurrence!Weekdays, NEW u \in Int, NEW s \in Int
  PROVE  Shifted(Shifted(D, u, s), s, u) = D
  <1>1. ASSUME NEW d \in D PROVE (((d + s - u) % 7) + u - s) % 7 = d
    <2>1. d \in Int /\ 0 <= d /\ d <= 6
      BY SMT DEF Recurrence!Weekdays
    <2> DEFINE e == (d + s - u) % 7
               q == (d + s - u) \div 7
    <2>2. e \in Int /\ q \in Int /\ d + s - u = 7 * q + e
      BY SMT, <2>1
    <2> HIDE DEF e, q
    <2>3. e + u - s = d + 7 * (0 - q)
      BY SMT, <2>1, <2>2
    <2>4. (e + u - s) % 7 = d
      BY SMT, <2>1, <2>2, <2>3
    <2> QED
      BY Zenon, <2>4 DEF e
  <1>2. {(e + u - s) % 7 : e \in {(d + s - u) % 7 : d \in D}} = D
    BY Zenon, <1>1
  <1> QED
    BY Zenon, <1>2 DEF Shifted

\* The weekday of a date, moved to another date, is that date's.
LEMMA WeekdayMoves ==
  ASSUME NEW u \in Int, NEW s \in Int
  PROVE  (Recurrence!DiscordWeekday(u) + s - u) % 7 = Recurrence!DiscordWeekday(s)
  BY SMT DEF Recurrence!DiscordWeekday

\* A rule that is understood and has a day, has one.
LEMMA OneDay ==
  ASSUME NEW D, D \subseteq Recurrence!Weekdays, D # {}, Recurrence!Cardinality(D) <= 1
  PROVE  \E w \in Recurrence!Weekdays : D = {w} /\ Recurrence!TheDay(D) = w
  <1>1. Recurrence!Cardinality(D) = Cardinality(D)
    BY Zenon DEF Cardinality, Recurrence!Cardinality
  <1>2. IsFiniteSet(0..6)
    <2>1. 0 \in Int /\ 6 \in Int
      BY SMT
    <2> QED
      BY Zenon, <2>1, FS_Interval
  <1>3. IsFiniteSet(D) /\ Cardinality(D) \in Nat
    BY <1>2, FS_Subset, FS_CardinalityType DEF Recurrence!Weekdays
  <1>4. Cardinality(D) # 0
    BY <1>3, FS_EmptySet
  <1>5. Cardinality(D) = 1
    BY SMT, <1>1, <1>3, <1>4
  <1>6. PICK w : D = {w}
    BY <1>3, <1>5, FS_Singleton
  <1> QED
    BY Zenon, <1>6 DEF Recurrence!TheDay

\* What Discord's form makes is understood and names its days.
LEMMA MadeRules ==
  ASSUME NEW r \in Recurrence!Made
  PROVE  /\ r \in Recurrence!Rule /\ Recurrence!ParseRRule(r)
         /\ r.freq = "weekly" => r.days # {}
         /\ r.freq = "monthly" => r.nth # 0
         /\ r.freq = "yearly" => r.month # 0
  BY Zenon, ParsedAreRules DEF Recurrence!Made

\* Imported on one of its dates and pushed, a rule is what it was.
LEMMA MovesBack ==
  ASSUME NEW r \in Recurrence!Made, NEW u \in Int, NEW s \in Int, Recurrence!Fires(r, u, u)
  PROVE  Recurrence!MoveRuleDays(Recurrence!Filled(Recurrence!MoveRuleDays(r, u, s), s), s, u) = r
  <1> DEFINE read   == Recurrence!MoveRuleDays(r, u, s)
             filled == Recurrence!Filled(read, s)
             back   == Recurrence!MoveRuleDays(filled, s, u)
  <1>1. /\ r \in Recurrence!Rule /\ Recurrence!ParseRRule(r)
        /\ r.freq = "weekly" => r.days # {}
        /\ r.freq = "monthly" => r.nth # 0
        /\ r.freq = "yearly" => r.month # 0
    BY MadeRules
  <1>2. /\ read \in Recurrence!Rule /\ read.freq = r.freq /\ read.interval = r.interval
        /\ read.days = Shifted(r.days, u, s)
    BY Zenon, <1>1, MovedFields
  <1>3. filled \in Recurrence!Rule
    BY Zenon, <1>2, FilledTyped
  <1>4. /\ back \in Recurrence!Rule /\ back.freq = filled.freq /\ back.interval = filled.interval
        /\ back.days = Shifted(filled.days, s, u)
    BY Zenon, <1>3, MovedFields
  \* A week of the month, and a date, there and back.
  <1>5. /\ r.nth = 0 => read.nth = 0
        /\ r.month = 0 => read.month = 0 /\ read.monthDay = r.monthDay
        /\ r.nth = Recurrence!NthOfMonth(u) /\ r.days = {Recurrence!DiscordWeekday(u)}
             => read.nth = Recurrence!NthOfMonth(s)
        /\ r.month = Recurrence!DateOf(u).month /\ r.monthDay = Recurrence!DateOf(u).day
             => read.month = Recurrence!DateOf(s).month /\ read.monthDay = Recurrence!DateOf(s).day
    BY ONLY <1>1, u \in Int, s \in Int, MovedFields, Zenon
  <1>6. /\ filled.nth = 0 => back.nth = 0
        /\ filled.month = 0 => back.month = 0 /\ back.monthDay = filled.monthDay
        /\ filled.nth = Recurrence!NthOfMonth(s) /\ filled.days = {Recurrence!DiscordWeekday(s)}
             => back.nth = Recurrence!NthOfMonth(u)
        /\ filled.month = Recurrence!DateOf(s).month /\ filled.monthDay = Recurrence!DateOf(s).day
             => back.month = Recurrence!DateOf(u).month /\ back.monthDay = Recurrence!DateOf(u).day
    <2> HIDE DEF filled
    <2> QED
      BY ONLY <1>3, u \in Int, s \in Int, MovedFields, Zenon
  <1> HIDE DEF back
  <1>7. Recurrence!NthOfMonth(s) # 0 /\ Recurrence!DateOf(s).month # 0
    BY SMT, NthOfMonthRange, DateOfRange
  <1>8. ASSUME filled.days = read.days PROVE back.days = r.days
    <2> HIDE DEF filled, read
    <2>1. back.days = Shifted(Shifted(r.days, u, s), s, u)
      BY Zenon, <1>2, <1>4, <1>8
    <2>2. r.days \subseteq Recurrence!Weekdays
      BY Zenon, <1>1, RuleFields
    <2> QED
      BY Zenon, <2>1, <2>2, DaysMoveBack
  <1>9. ASSUME filled = read, r.nth = 0, r.month = 0 PROVE back = r
    <2> HIDE DEF filled, read
    <2>1. back.nth = 0 /\ back.month = 0 /\ back.monthDay = r.monthDay
      BY Zenon, <1>5, <1>6, <1>9
    <2> QED
      BY Zenon, <1>1, <1>2, <1>4, <1>8, <1>9, <2>1, SameRules
  <1>10. CASE r.freq = "daily"
    <2>1. r.nth = 0 /\ r.month = 0
      BY SMT, <1>1, <1>10 DEF Recurrence!ParseRRule
    <2>2. filled = read
      BY SMT, <1>2, <1>10 DEF Recurrence!Filled
    <2> QED
      BY Zenon, <1>9, <2>1, <2>2 DEF back
  <1>11. CASE r.freq = "weekly"
    <2>1. r.nth = 0 /\ r.month = 0 /\ Recurrence!Cardinality(r.days) <= 1
      BY SMT, <1>1, <1>11 DEF Recurrence!ParseRRule
    <2>2. PICK w \in Recurrence!Weekdays : r.days = {w}
      BY Zenon, <1>1, <1>11, <2>1, RuleFields, OneDay
    <2>3. read.days = {(w + s - u) % 7}
      BY Zenon, <1>2, <2>2 DEF Shifted
    <2>4. filled = [read EXCEPT !.days = {Recurrence!RuleDay(read, s)}]
      BY SMT, <1>2, <1>11 DEF Recurrence!Filled
    <2>5. Recurrence!RuleDay(read, s) = (w + s - u) % 7
      BY Zenon, <2>3 DEF Recurrence!RuleDay, Recurrence!TheDay
    <2> HIDE DEF filled, read
    <2>6. filled = read
      BY Zenon, <1>2, <2>3, <2>4, <2>5 DEF Recurrence!Rule
    <2> QED
      BY Zenon, <1>9, <2>1, <2>6 DEF back, filled, read
  <1>12. CASE r.freq = "monthly"
    <2>1. /\ r.month = 0 /\ r.monthDay = 0 /\ Recurrence!Cardinality(r.days) <= 1
          /\ r.days # {}
      BY SMT, <1>1, <1>12 DEF Recurrence!ParseRRule
    <2>2. PICK w \in Recurrence!Weekdays : r.days = {w} /\ Recurrence!TheDay(r.days) = w
      BY Zenon, <1>1, <2>1, RuleFields, OneDay
    <2>3. Recurrence!DiscordWeekday(u) = w /\ Recurrence!NthOfMonth(u) = r.nth
      <3>1. /\ Recurrence!DiscordWeekday(u) = Recurrence!RuleDay(r, u)
            /\ Recurrence!NthOfMonth(u) = Recurrence!RuleNth(r, u)
        BY SMT, <1>12 DEF Recurrence!Fires
      <3> QED
        BY Zenon, <1>1, <1>12, <2>1, <2>2, <3>1 DEF Recurrence!RuleDay, Recurrence!RuleNth
    <2>4. /\ read.days = {Recurrence!DiscordWeekday(s)}
          /\ read.nth = Recurrence!NthOfMonth(s) /\ read.month = 0 /\ read.monthDay = 0
      <3>1. read.days = {(w + s - u) % 7}
        BY Zenon, <1>2, <2>2 DEF Shifted
      <3> QED
        BY Zenon, <1>5, <2>1, <2>2, <2>3, <3>1, WeekdayMoves
    <2>5. filled = [read EXCEPT !.days = {Recurrence!RuleDay(read, s)},
                                !.nth = Recurrence!RuleNth(read, s)]
      BY SMT, <1>2, <1>12 DEF Recurrence!Filled
    <2>6. /\ Recurrence!RuleDay(read, s) = Recurrence!DiscordWeekday(s)
          /\ Recurrence!RuleNth(read, s) = Recurrence!NthOfMonth(s)
      BY Zenon, <1>7, <2>4 DEF Recurrence!RuleDay, Recurrence!RuleNth, Recurrence!TheDay
    <2> HIDE DEF filled, read
    <2>7. filled = read
      BY Zenon, <1>2, <2>4, <2>5, <2>6 DEF Recurrence!Rule
    <2>8. back.nth = r.nth /\ back.month = r.month /\ back.monthDay = r.monthDay
      BY Zenon, <1>6, <2>1, <2>3, <2>4, <2>7
    <2> QED
      BY Zenon, <1>1, <1>2, <1>4, <1>8, <2>7, <2>8, SameRules DEF back, filled, read
  <1>13. CASE r.freq = "yearly"
    <2>1. r.nth = 0 /\ r.month # 0
      BY SMT, <1>1, <1>13 DEF Recurrence!ParseRRule
    <2>2. Recurrence!DateOf(u).month = r.month /\ Recurrence!DateOf(u).day = r.monthDay
      <3>1. Recurrence!Filled(r, u) = r
        BY SMT, <1>13, <2>1 DEF Recurrence!Filled
      <3>2. /\ Recurrence!DateOf(u).month = Recurrence!Filled(r, u).month
            /\ Recurrence!DateOf(u).day = Recurrence!Filled(r, u).monthDay
        BY SMT, <1>13 DEF Recurrence!Fires
      <3> QED
        BY Zenon, <3>1, <3>2
    <2>3. /\ read.nth = 0 /\ read.month = Recurrence!DateOf(s).month
          /\ read.monthDay = Recurrence!DateOf(s).day
      BY Zenon, <1>5, <2>1, <2>2
    <2>4. filled = read
      BY SMT, <1>2, <1>7, <1>13, <2>3 DEF Recurrence!Filled
    <2>5. back.nth = 0 /\ back.month = r.month /\ back.monthDay = r.monthDay
      BY Zenon, <1>6, <2>2, <2>3, <2>4
    <2> QED
      BY Zenon, <1>1, <1>2, <1>4, <1>8, <2>1, <2>4, <2>5, SameRules DEF back
  <1>14. r.freq \in {"daily", "weekly", "monthly", "yearly"}
    BY Zenon, <1>1 DEF Recurrence!ParseRRule
  <1> QED
    BY Zenon, <1>10, <1>11, <1>12, <1>13, <1>14

\* A step of the series leaves an imported rule one that goes back as it came.
LEMMA ImportedComeBackStep ==
  ASSUME Recurrence!TypeOK, Recurrence!ImportedRulesComeBack,
         Recurrence!Next \/ UNCHANGED recurrenceVars
  PROVE  Recurrence!ImportedRulesComeBack'
  <1> DEFINE sent == Recurrence!DiscordRecurrenceRule(series)
  <1>1. series.start \in Int /\ series.start - series.ahead \in Int
    BY SMT DEF Recurrence!TypeOK, Recurrence!Shifts
  <1>2. origin = "discord" => sent = nativeRule
    BY Zenon DEF Recurrence!ImportedRulesComeBack
  <1>3. ASSUME origin' = "local" PROVE Recurrence!ImportedRulesComeBack'
    BY SMT, <1>3 DEF Recurrence!ImportedRulesComeBack
  <1>4. ASSUME NEW r \in Recurrence!Made, Recurrence!ImportSeries(r)
        PROVE  Recurrence!ImportedRulesComeBack'
    <2> DEFINE s    == series.start
               u    == Recurrence!UTC(series)
               read == Recurrence!MoveRuleDays(r, u, s)
    <2>1. Recurrence!Fires(r, u, u) /\ nativeRule' = r
      BY Zenon, <1>4 DEF Recurrence!ImportSeries
    <2>2. series' = [series EXCEPT !.rule = read]
      BY Zenon, <1>4
         DEF Recurrence!ImportSeries, Recurrence!RRuleInZoneFromDiscord, Recurrence!UTC
    <2>3. series'.rule = read /\ series'.start = s /\ Recurrence!UTC(series') = u
      BY SMT, <2>2 DEF Recurrence!TypeOK, Recurrence!UTC
    <2>4. u \in Int
      BY Zenon, <1>1 DEF Recurrence!UTC
    <2> HIDE DEF s, u
    <2>5. Recurrence!MoveRuleDays(Recurrence!Filled(read, s), s, u) = r
      BY Zenon, <1>1, <2>1, <2>4, MovesBack DEF s
    <2>6. Recurrence!DiscordRecurrenceRule(series') = r
      BY Zenon, <2>3, <2>5 DEF Recurrence!DiscordRecurrenceRule
    <2> QED
      BY Zenon, <2>1, <2>6 DEF Recurrence!ImportedRulesComeBack
  <1>5. ASSUME Recurrence!Edit PROVE origin' = "local"
    BY Zenon, <1>5 DEF Recurrence!Edit, Recurrence!ApplyRepeatForm, Recurrence!ValidateRecurrence,
       Recurrence!EditRule, Recurrence!MoveStart
  <1>6. ASSUME Recurrence!PushRule PROVE Recurrence!ImportedRulesComeBack'
    <2>1. series' = series /\ origin' = origin /\ nativeRule' \in {nativeRule, sent}
      BY Zenon, <1>6 DEF Recurrence!PushRule
    <2> HIDE DEF sent
    <2>2. origin' = "discord" => sent = nativeRule'
      BY Zenon, <1>2, <2>1
    <2> QED
      BY Zenon, <2>1, <2>2 DEF sent, Recurrence!ImportedRulesComeBack
  <1>7. ASSUME NEW late \in Missed, Recurrence!NextOccurrenceOf(late) PROVE origin' = "local"
    BY Zenon, <1>7 DEF Recurrence!NextOccurrenceOf
  <1>8. CASE UNCHANGED recurrenceVars
    <2>1. series' = series /\ origin' = origin /\ nativeRule' = nativeRule
      BY Zenon, <1>8 DEF recurrenceVars
    <2> QED
      BY Zenon, <1>2, <2>1 DEF Recurrence!ImportedRulesComeBack
  <1>9. CASE Recurrence!Next
    BY Zenon, <1>3, <1>4, <1>5, <1>6, <1>7, <1>9 DEF Recurrence!Next
  <1> QED
    BY Zenon, <1>8, <1>9

\* A series that moves on goes to the first date its rule names.
LEMMA MovesOnToTheFirst ==
  ASSUME Recurrence!TypeOK
  PROVE  Recurrence!GoesToTheFirst
  <1> SUFFICES ASSUME NEW late \in Missed, Recurrence!NextOccurrenceOf(late)
               PROVE  /\ Recurrence!Fires(series.rule, series.start, series'.start)
                      /\ \A n \in series.start + late + 1 .. series'.start - 1 :
                           ~Recurrence!Fires(series.rule, series.start, n)
    BY Zenon DEF Recurrence!GoesToTheFirst
  <1>1. /\ series \in [rule : Recurrence!Rule, start : Int, ahead : Recurrence!Shifts]
        /\ series.rule \in Recurrence!Rule /\ series.start \in Int
    BY Zenon DEF Recurrence!TypeOK
  <1> DEFINE after == series.start + late
  <1>2. PICK next \in Recurrence!NextOccurrence(series.rule, series.start, after) :
          series' = [series EXCEPT !.start = next]
    BY Zenon DEF Recurrence!NextOccurrenceOf
  <1>3. series'.start = next
    BY Zenon, <1>1, <1>2
  <1>4. after \in Int /\ series.start <= after
    BY SMT, <1>1, ServicesAssumption
  <1> HIDE DEF after
  <1>5. next \in Int
    BY Zenon, <1>1, <1>4, NextIsADate
  <1>6. /\ Recurrence!Fires(series.rule, series.start, next)
        /\ \A n \in Int : after < n /\ n < next => ~Recurrence!Fires(series.rule, series.start, n)
    BY Zenon, <1>1, <1>4, NextIsFirst
  <1>7. ASSUME NEW n \in after + 1 .. next - 1 PROVE n \in Int /\ after < n /\ n < next
    BY SMT, <1>4, <1>5
  <1> QED
    BY Zenon, <1>3, <1>6, <1>7 DEF after

KeepsItsRule ==
  part = "recurrence" => Recurrence!TypeOK /\ Recurrence!ImportedRulesComeBack

\* A series that moves on goes to the first date its rule names after the
\* present, whatever the rule, the start and the number of dates missed, and a
\* rule read from Discord and not touched since goes back as it came.
THEOREM RepeatsStayKept == Spec => RepeatsAreKept
  <1>1. Init => KeepsItsRule
    BY SMT, RecurrenceTypesInit DEF Init, KeepsItsRule, Recurrence!Init,
       Recurrence!ImportedRulesComeBack
  <1>2. KeepsItsRule /\ [Next]_vars => KeepsItsRule'
    BY Zenon, StepOfAPart, RecurrenceTypesStep, ImportedComeBackStep DEF KeepsItsRule
  <1>3. KeepsItsRule /\ [Next]_vars
          => [part = "recurrence" => Recurrence!GoesToTheFirst]_recurrenceVars
    BY Zenon, MovesOnToTheFirst DEF KeepsItsRule
  <1>4. KeepsItsRule => (part = "recurrence" => Recurrence!ImportedRulesComeBack)
    BY Zenon DEF KeepsItsRule
  <1> QED
    BY <1>1, <1>2, <1>3, <1>4, PTL DEF Spec, RepeatsAreKept
-----------------------------------------------------------------------------
(* Every part keeps its types.                                             *)

\* The messages' types.
LEMMA MessagesTypes == OfMessages!Inv => EventMessages!TypeOK
  <1> SUFFICES ASSUME OfMessages!TypeOK PROVE EventMessages!TypeOK
    BY Zenon DEF OfMessages!Inv
  <1> QED
    BY Zenon DEF OfMessages!TypeOK, EventMessages!TypeOK, OfMessages!Ids, EventMessages!Ids,
       OfMessages!Via, EventMessages!Via, OfMessages!Status, EventMessages!Status,
       OfMessages!Unused, EventMessages!Unused

\* The notices' types.
LEMMA NoticesTypes == OfNotices!Inv => RosterNotices!TypeOK
  <1> SUFFICES ASSUME OfNotices!TypeOK PROVE RosterNotices!TypeOK
    BY Zenon DEF OfNotices!Inv
  <1>1. RosterNotices!Update = OfNotices!Update
    BY Zenon, NoticesAreTheSame DEF RosterNotices!Update, OfNotices!Update
  <1> QED
    BY Zenon, <1>1, NoticesAreTheSame DEF OfNotices!TypeOK, RosterNotices!TypeOK

\* The parts proved here alone.
PartsTyped ==
  /\ part \in Parts
  /\ part = "forum" => ForumTyped
  /\ part = "pictures" => PicturesTyped
  /\ part = "setup" => SetupTyped /\ ServersTyped
  /\ part = "native" => NativeTyped /\ SettlesLinked
  /\ part = "recurrence" => Recurrence!TypeOK

\* Whatever a part does, and for any bounds, its variables keep their types.
THEOREM ServicesAreTyped == Spec => []TypeOK
  <1>1. Init => PartsTyped
    BY Zenon, ForumInit, PicturesInit, SetupInit, NativeTypesInit, RecurrenceTypesInit
       DEF Init, PartsTyped
  <1>2. PartsTyped /\ [Next]_vars => PartsTyped'
    <2> SUFFICES ASSUME PartsTyped, [Next]_vars PROVE PartsTyped'
      OBVIOUS
    <2>1. part' = part
      BY StepOfAPart
    <2>2. CASE part = "forum"
      BY Zenon, <2>1, <2>2, StepOfAPart, ForumStep DEF PartsTyped
    <2>3. CASE part = "pictures"
      BY Zenon, <2>1, <2>3, StepOfAPart, PicturesStep DEF PartsTyped
    <2>4. CASE part = "setup"
      BY Zenon, <2>1, <2>4, StepOfAPart, SetupStep DEF PartsTyped
    <2>5. CASE part = "native"
      BY Zenon, <2>1, <2>5, StepOfAPart, NativeTypesStep, SettlesLinkedStep DEF PartsTyped
    <2>6. CASE part = "recurrence"
      BY Zenon, <2>1, <2>6, StepOfAPart, RecurrenceTypesStep DEF PartsTyped
    <2>7. CASE part \notin {"forum", "pictures", "setup", "native", "recurrence"}
      BY Zenon, <2>1, <2>7 DEF PartsTyped
    <2> QED
      BY Zenon, <2>2, <2>3, <2>4, <2>5, <2>6, <2>7
  <1>3. PartsTyped /\ GatewayInv /\ MessagesInv /\ NoticesInv => TypeOK
    BY Zenon, GatewayTypes, ForumTypes, MessagesTypes, NoticesTypes, PictureTypes, SetupTypes,
       NativeTypes DEF PartsTyped, GatewayInv, MessagesInv, NoticesInv, TypeOK
  <1> QED
    BY <1>1, <1>2, <1>3, GatewayInvAlways, MessagesInvAlways, NoticesInvAlways, PTL DEF Spec
=============================================================================
