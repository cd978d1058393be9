------------------------ MODULE RosterNoticesProofs ------------------------
(***************************************************************************)
(* What a watcher of a roster is told, for any people, any log and any     *)
(* times.  It rests on a burst whose last update is a grace old being      *)
(* closed: an update logged now is no part of it and ends no burst before  *)
(* it, so reading the log again says the same of every time up to then.    *)
(***************************************************************************)
EXTENDS RosterNotices, SequenceTheorems, TLAPS

Change == [user : Watched, to : {On, Off}, at : Nat]
Notice == [at : {"idle", "log", "send", "mark"}, through : Nat, since : Nat, after : Nat,
           changes : SUBSET Change]

\* Up to when what was told goes.
Sent == IF notice.at = "mark" THEN notice.through ELSE watching.through
All  == UNION {told[i] : i \in DOMAIN told}

LoggedByNow == \A i \in DOMAIN log : log[i].at <= second
LastIsThere ==
  \A u \in Watched : (\E i \in DOMAIN log : log[i].user = u) =>
    \E i \in DOMAIN log : log[i].user = u /\ \A j \in DOMAIN log : log[j].user = u => j <= i

\* A sweep under way has the watch as it is, and a time a grace ago.
SweepIsOfTheWatch ==
  notice.at # "idle" => /\ watching.on
                        /\ notice.since = watching.since /\ notice.after = watching.through
                        /\ watching.through < notice.through
                        /\ notice.through <= second - NoticeGrace
CursorIsPast ==
  watching.on => /\ watching.since <= watching.through
                 /\ \/ watching.through = watching.since
                    \/ watching.through <= second - NoticeGrace
ChangesAreTheLogs ==
  notice.at \in {"send", "mark"} =>
    notice.changes = SettledRosterChanges(notice.since, notice.after, notice.through)
NothingToldUnwatched == ~watching.on => told = <<>> /\ retold = FALSE

Inv == /\ TypeOK /\ notice \in Notice /\ LoggedByNow /\ LastIsThere
       /\ SweepIsOfTheWatch /\ CursorIsPast /\ ChangesAreTheLogs /\ NothingToldUnwatched
       /\ ToldOnce

-----------------------------------------------------------------------------
(* What settledRosterChanges returns.                                      *)

\* The updates that end a burst to be told of.
Telling(since, after, through) ==
  {i \in DOMAIN log :
     /\ log[i].at > since /\ EndsBurst(i, since)
     /\ log[i].at > after /\ log[i].at <= through
     /\ \E f \in DOMAIN log : /\ Begins(f, i, since) /\ log[f].from # log[i].to
                              /\ \E k \in Burst(f, i, since) : log[k].own}
ChangeOf(i) == [user |-> log[i].user, to |-> log[i].to, at |-> log[i].at]

\* The settled changes are those of the updates that end a burst in time.
LEMMA SettledAreTelling ==
  ASSUME NEW s, NEW a, NEW t
  PROVE  SettledRosterChanges(s, a, t) = {ChangeOf(i) : i \in Telling(s, a, t)}
  BY DEF SettledRosterChanges, Telling, ChangeOf

\* An entry of the log is an update with a time.
LEMMA LoggedIsTyped ==
  ASSUME log \in Seq(Update), NEW i \in DOMAIN log
  PROVE  log[i] \in Update /\ log[i].at \in Nat
  <1>1. log[i] \in Update
    OBVIOUS
  <1> QED
    BY <1>1 DEF Update

\* A change is somebody's of the roster, after the one time and up to the other.
LEMMA SettledInTime ==
  ASSUME log \in Seq(Update), NEW s \in Nat, NEW a \in Nat, NEW t \in Nat,
         NEW c \in SettledRosterChanges(s, a, t)
  PROVE  c \in Change /\ a < c.at /\ c.at <= t
  <1>1. PICK i \in Telling(s, a, t) : c = ChangeOf(i)
    BY SettledAreTelling
  <1>2. i \in DOMAIN log /\ a < log[i].at /\ log[i].at <= t
    BY DEF Telling
  <1>3. log[i] \in Update
    BY <1>2
  <1> QED
    BY <1>1, <1>2, <1>3 DEF ChangeOf, Change, Update

\* Nothing is settled after a time and up to that time.
LEMMA SettledOfNoTime ==
  ASSUME log \in Seq(Update), NEW s \in Nat, NEW t \in Nat, t <= s
  PROVE  SettledRosterChanges(s, s, t) = {}
  BY SettledInTime DEF Change

\* A window of no time settles nothing, in the state after a step as well.
LEMMA SettledOfNoTimeThen ==
  ASSUME log' \in Seq(Update), NEW s \in Nat, NEW t \in Nat, t <= s
  PROVE  SettledRosterChanges(s, s, t)' = {}
  <1> SUFFICES ASSUME NEW i \in DOMAIN log', log'[i].at > s, log'[i].at <= t
               PROVE  FALSE
    BY DEF SettledRosterChanges
  <1>1. log'[i] \in Update
    OBVIOUS
  <1> QED
    BY <1>1 DEF Update

\* What is settled up to a time is what was up to one before, and the rest.
LEMMA SettledAdds ==
  ASSUME log \in Seq(Update), NEW s \in Nat, NEW a \in Nat, NEW t \in Nat, s <= a, a <= t
  PROVE  SettledRosterChanges(s, s, t)
           = SettledRosterChanges(s, s, a) \cup SettledRosterChanges(s, a, t)
  <1>1. \A i \in DOMAIN log : log[i].at \in Nat
    BY LoggedIsTyped
  <1>2. Telling(s, s, t) = Telling(s, s, a) \cup Telling(s, a, t)
    BY <1>1 DEF Telling
  <1> QED
    BY <1>2, SettledAreTelling

-----------------------------------------------------------------------------
(* An update logged now changes nothing that was settled.                  *)

\* What the log is after one more update.
LEMMA LogGrows ==
  ASSUME log \in Seq(Update), NEW e \in Update, log' = Append(log, e)
  PROVE  /\ Len(log) \in Nat /\ DOMAIN log = 1..Len(log) /\ DOMAIN log' = 1..(Len(log) + 1)
         /\ \A i \in DOMAIN log : log'[i] = log[i]
         /\ log'[Len(log) + 1] = e /\ log' \in Seq(Update)
  OBVIOUS

\* A new entry does not change which older ones are of the same person.
LEMMA MineStays ==
  ASSUME log \in Seq(Update), NEW e \in Update, log' = Append(log, e),
         NEW s, NEW i \in DOMAIN log, NEW k \in DOMAIN log
  PROVE  k \in Mine(i, s)' <=> k \in Mine(i, s)
  BY LogGrows DEF Mine

\* Nor which follows which.
LEMMA FollowsStays ==
  ASSUME log \in Seq(Update), NEW e \in Update, log' = Append(log, e),
         NEW s, NEW i \in DOMAIN log, NEW j \in DOMAIN log
  PROVE  Follows(i, j, s)' <=> Follows(i, j, s)
  <1>1. /\ Len(log) \in Nat /\ DOMAIN log = 1..Len(log) /\ DOMAIN log' = 1..(Len(log) + 1)
    BY LogGrows
  <1>2. \A k \in DOMAIN log : k \in Mine(i, s)' <=> k \in Mine(i, s)
    BY MineStays
  <1>3. Mine(i, s) \subseteq DOMAIN log /\ Mine(i, s)' \subseteq DOMAIN log'
    BY DEF Mine
  <1>4. \A k : k < j => (k \in Mine(i, s)' <=> k \in Mine(i, s))
    BY <1>1, <1>2, <1>3
  <1> QED
    BY <1>1, <1>2, <1>4 DEF Follows

\* Nor which starts a burst.
LEMMA StartsBurstStays ==
  ASSUME log \in Seq(Update), NEW e \in Update, log' = Append(log, e),
         NEW s, NEW i \in DOMAIN log
  PROVE  StartsBurst(i, s)' <=> StartsBurst(i, s)
  <1>1. /\ Len(log) \in Nat /\ DOMAIN log = 1..Len(log) /\ DOMAIN log' = 1..(Len(log) + 1)
        /\ \A j \in DOMAIN log : log'[j] = log[j]
    BY LogGrows
  <1>2. \A j \in DOMAIN log : Follows(j, i, s)' <=> Follows(j, i, s)
    BY FollowsStays
  <1>3. \A j : Follows(j, i, s)' => j < i
    BY DEF Follows
  <1> QED
    BY <1>1, <1>2, <1>3 DEF StartsBurst

\* A burst that ended a grace ago still ends there.
LEMMA EndsBurstStays ==
  ASSUME log \in Seq(Update), NEW e \in Update, log' = Append(log, e),
         NEW s, NEW i \in DOMAIN log, e.at - log[i].at >= NoticeGrace
  PROVE  EndsBurst(i, s)' <=> EndsBurst(i, s)
  <1>1. /\ Len(log) \in Nat /\ DOMAIN log = 1..Len(log) /\ DOMAIN log' = 1..(Len(log) + 1)
        /\ \A j \in DOMAIN log : log'[j] = log[j]
        /\ log'[Len(log) + 1] = e
    BY LogGrows
  <1>2. \A j \in DOMAIN log : Follows(i, j, s)' <=> Follows(i, j, s)
    BY FollowsStays
  <1>3. ~(log'[Len(log) + 1].at - log'[i].at < NoticeGrace)
    <2>1. e.at \in Nat /\ log[i].at \in Nat /\ log'[i] = log[i]
      BY <1>1, LoggedIsTyped DEF Update
    <2> QED
      BY <1>1, <2>1 DEF NoticeGrace
  <1> QED
    BY <1>1, <1>2, <1>3 DEF EndsBurst

\* Nor a burst's first entry and its members.
LEMMA BeginsStays ==
  ASSUME log \in Seq(Update), NEW e \in Update, log' = Append(log, e),
         NEW s, NEW i \in DOMAIN log, NEW f \in DOMAIN log
  PROVE  /\ Begins(f, i, s)' <=> Begins(f, i, s)
         /\ Burst(f, i, s)' = Burst(f, i, s)
  <1>1. /\ Len(log) \in Nat /\ DOMAIN log = 1..Len(log) /\ DOMAIN log' = 1..(Len(log) + 1)
    BY LogGrows
  <1>2. \A k \in DOMAIN log : k \in Mine(i, s)' <=> k \in Mine(i, s)
    BY MineStays
  <1>3. Mine(i, s) \subseteq DOMAIN log /\ Mine(i, s)' \subseteq DOMAIN log'
    BY DEF Mine
  <1>4. \A k : k <= i => (k \in Mine(i, s)' <=> k \in Mine(i, s))
    BY <1>1, <1>2, <1>3
  <1>5. \A k \in DOMAIN log : StartsBurst(k, s)' <=> StartsBurst(k, s)
    BY StartsBurstStays
  <1>6. Begins(f, i, s)' <=> Begins(f, i, s)
    BY <1>2, <1>3, <1>4, <1>5 DEF Begins
  <1>7. Burst(f, i, s)' = Burst(f, i, s)
    BY <1>4 DEF Burst
  <1> QED
    BY <1>6, <1>7

\* What was settled a grace ago is what is settled then with the update of now.
LEMMA SettledStays ==
  ASSUME log \in Seq(Update), NEW e \in Update, log' = Append(log, e),
         NEW s \in Nat, NEW a \in Nat, NEW t \in Nat, t <= e.at - NoticeGrace
  PROVE  SettledRosterChanges(s, a, t)' = SettledRosterChanges(s, a, t)
  <1>1. /\ Len(log) \in Nat /\ DOMAIN log = 1..Len(log) /\ DOMAIN log' = 1..(Len(log) + 1)
        /\ \A j \in DOMAIN log : log'[j] = log[j]
        /\ log'[Len(log) + 1] = e
    BY LogGrows
  <1>2. e.at \in Nat /\ \A j \in DOMAIN log : log[j].at \in Nat
    BY LoggedIsTyped DEF Update
  <1>3. \A i \in DOMAIN log : i \in Telling(s, a, t)' <=> i \in Telling(s, a, t)
    <2> SUFFICES ASSUME NEW i \in DOMAIN log PROVE i \in Telling(s, a, t)' <=> i \in Telling(s, a, t)
      OBVIOUS
    <2>1. CASE log[i].at <= t
      <3>1. EndsBurst(i, s)' <=> EndsBurst(i, s)
        <4>1. e.at - log[i].at >= NoticeGrace
          BY <1>2, <2>1 DEF NoticeGrace
        <4> QED
          BY <4>1, EndsBurstStays
      <3>2. \A f \in DOMAIN log : /\ Begins(f, i, s)' <=> Begins(f, i, s)
                                  /\ Burst(f, i, s)' = Burst(f, i, s)
        BY BeginsStays
      <3>3. \A f : Begins(f, i, s)' => f <= i /\ f \in DOMAIN log'
        BY DEF Begins, Mine
      <3>4. \A f \in DOMAIN log : Burst(f, i, s) \subseteq DOMAIN log
        BY DEF Burst, Mine
      <3>5. (\E f \in DOMAIN log' : /\ Begins(f, i, s)' /\ log'[f].from # log'[i].to
                                    /\ \E k \in Burst(f, i, s)' : log'[k].own)
              <=> (\E f \in DOMAIN log : /\ Begins(f, i, s) /\ log[f].from # log[i].to
                                         /\ \E k \in Burst(f, i, s) : log[k].own)
        <4>1. \A f \in DOMAIN log' : Begins(f, i, s)' => f \in DOMAIN log
          BY <1>1, <3>3
        <4> QED
          BY <1>1, <3>2, <3>4, <4>1
      <3>6. i \in DOMAIN log' /\ log'[i] = log[i]
        BY <1>1
      <3> QED
        BY ONLY <3>1, <3>5, <3>6, i \in DOMAIN log DEF Telling
    <2>2. CASE ~(log[i].at <= t)
      BY <1>1, <2>2 DEF Telling
    <2> QED
      BY <2>1, <2>2
  <1>4. Len(log) + 1 \notin Telling(s, a, t)'
    BY <1>1, <1>2 DEF Telling, NoticeGrace
  <1>5. Telling(s, a, t)' = Telling(s, a, t)
    <2>1. Telling(s, a, t)' \subseteq DOMAIN log' /\ Telling(s, a, t) \subseteq DOMAIN log
      BY DEF Telling
    <2>2. \A i : i \in DOMAIN log' => i \in DOMAIN log \/ i = Len(log) + 1
      BY <1>1
    <2> QED
      BY ONLY <1>3, <1>4, <2>1, <2>2
  <1>6. \A i \in DOMAIN log : ChangeOf(i)' = ChangeOf(i)
    BY <1>1 DEF ChangeOf
  <1>7. /\ SettledRosterChanges(s, a, t) = {ChangeOf(i) : i \in Telling(s, a, t)}
        /\ SettledRosterChanges(s, a, t)' = {ChangeOf(i)' : i \in Telling(s, a, t)'}
    BY SettledAreTelling DEF SettledRosterChanges, Telling, ChangeOf
  <1>8. Telling(s, a, t) \subseteq DOMAIN log
    BY DEF Telling
  <1> QED
    BY <1>5, <1>6, <1>7, <1>8

-----------------------------------------------------------------------------
(* The invariant.                                                          *)

\* Without an update, what was settled is what is settled.
LEMMA SettledOfTheLog ==
  ASSUME log' = log, NEW s, NEW a, NEW t
  PROVE  SettledRosterChanges(s, a, t)' = SettledRosterChanges(s, a, t)
  BY DEF SettledRosterChanges, EndsBurst, Begins, StartsBurst, Burst, Follows, Mine

\* What is told, in the parts a step may change.
LEMMA ToldParts ==
  ToldOnce <=>
    (watching.on /\ ~retold =>
       /\ All = SettledRosterChanges(watching.since, watching.since, Sent)
       /\ \A i, j \in DOMAIN told : i # j => told[i] \cap told[j] = {})
  BY DEF ToldOnce, All, Sent

\* What was told stays told once while the watch, and what it says of the log
\* up to what was told, stay as they are.
LEMMA ToldStays ==
  ASSUME ToldOnce, NEW s, NEW t, s = watching.since, t = Sent,
         watching' = watching, told' = told, retold' = retold, Sent' = t,
         watching.on => SettledRosterChanges(s, s, t)' = SettledRosterChanges(s, s, t)
  PROVE  ToldOnce'
  <1>1. SettledRosterChanges(watching.since, watching.since, Sent)' = SettledRosterChanges(s, s, t)'
    OBVIOUS
  <1>2. watching.on /\ ~retold =>
          /\ All = SettledRosterChanges(s, s, t)
          /\ \A i, j \in DOMAIN told : i # j => told[i] \cap told[j] = {}
    BY ToldParts
  <1>3. All' = All
    BY DEF All
  <1>4. watching'.on /\ ~retold' =>
          /\ All' = SettledRosterChanges(watching.since, watching.since, Sent)'
          /\ \A i, j \in DOMAIN told' : i # j => told'[i] \cap told'[j] = {}
    BY <1>1, <1>2, <1>3
  <1> QED
    BY <1>4 DEF ToldOnce, All, Sent

\* Nothing is watched or told yet.
LEMMA InvInitially == Init => Inv
  <1> SUFFICES ASSUME Init PROVE Inv
    OBVIOUS
  <1>1. log = <<>> /\ log \in Seq(Update) /\ DOMAIN log = {}
    BY DEF Init
  <1>2. told = <<>> /\ told \in Seq(SUBSET [user : Watched, to : {On, Off}, at : Nat])
    BY DEF Init
  <1>3. notice \in Notice /\ notice.at = "idle"
    BY DEF Init, NoNotice, Notice
  <1>4. watching \in [since : Nat, through : Nat, on : BOOLEAN] /\ ~watching.on
    BY DEF Init, Unwatched
  <1>5. TypeOK
    BY <1>1, <1>2, <1>3, <1>4 DEF Init, TypeOK
  <1>6. LoggedByNow /\ LastIsThere
    BY <1>1 DEF LoggedByNow, LastIsThere
  <1>7. NothingToldUnwatched
    BY <1>2 DEF Init, NothingToldUnwatched
  <1> QED
    BY <1>3, <1>4, <1>5, <1>6, <1>7 DEF Inv, SweepIsOfTheWatch, CursorIsPast,
       ChangesAreTheLogs, ToldOnce

\* Somebody's last update says whether they are on the roster.
LEMMA StateIsOnOrOff ==
  ASSUME log \in Seq(Update), LastIsThere, NEW u \in Watched
  PROVE  State(u) \in {On, Off}
  <1>1. CASE \E i \in DOMAIN log : log[i].user = u
    <2> DEFINE Last(i) == log[i].user = u /\ \A j \in DOMAIN log : log[j].user = u => j <= i
               last == CHOOSE i \in DOMAIN log : Last(i)
    <2>1. \E i \in DOMAIN log : Last(i)
      BY <1>1 DEF LastIsThere
    <2>2. last \in DOMAIN log
      BY <2>1
    <2>3. log[last] \in Update
      BY <2>2, LoggedIsTyped
    <2>4. State(u) = log[last].to
      BY <1>1 DEF State
    <2> QED
      BY <2>3, <2>4 DEF Update
  <1>2. CASE ~\E i \in DOMAIN log : log[i].user = u
    BY <1>2 DEF State
  <1> QED
    BY <1>1, <1>2

\* An update of now is later than all that is looked at.
LEMMA LogKeeps ==
  ASSUME Inv, NEW u \in Watched, LogSignupUpdate(u)
  PROVE  Inv'
  <1>1. PICK own \in BOOLEAN :
          log' = Append(log, [user |-> u, from |-> State(u),
                              to |-> IF State(u) = On THEN Off ELSE On, own |-> own, at |-> second])
    BY DEF LogSignupUpdate
  <1> DEFINE e == [user |-> u, from |-> State(u), to |-> IF State(u) = On THEN Off ELSE On,
                   own |-> own, at |-> second]
  <1>2. /\ second' = second /\ watching' = watching /\ notice' = notice /\ told' = told
        /\ retold' = retold /\ noticeFaults' = noticeFaults
    BY DEF LogSignupUpdate
  <1>3. log \in Seq(Update) /\ second \in Nat /\ notice \in Notice
        /\ watching \in [since : Nat, through : Nat, on : BOOLEAN]
    BY DEF Inv, TypeOK
  <1>4. e \in Update
    <2>1. State(u) \in {On, Off}
      BY <1>3, StateIsOnOrOff DEF Inv
    <2> QED
      BY <1>3, <2>1 DEF Update
  <1>5. log' = Append(log, e) /\ e.at = second /\ e.user = u
    BY <1>1
  <1> HIDE DEF e
  <1>6. /\ Len(log) \in Nat /\ DOMAIN log = 1..Len(log) /\ DOMAIN log' = 1..(Len(log) + 1)
        /\ \A i \in DOMAIN log : log'[i] = log[i]
        /\ log'[Len(log) + 1] = e /\ log' \in Seq(Update)
    BY <1>3, <1>4, <1>5, LogGrows
  <1>7. TypeOK' /\ notice' \in Notice
    BY <1>2, <1>3, <1>6 DEF Inv, TypeOK
  <1>8. LoggedByNow'
    BY <1>2, <1>3, <1>5, <1>6 DEF Inv, LoggedByNow
  <1>9. LastIsThere'
    <2> SUFFICES ASSUME NEW v \in Watched, NEW k \in DOMAIN log', log'[k].user = v
                 PROVE  \E i \in DOMAIN log' : log'[i].user = v /\
                          \A j \in DOMAIN log' : log'[j].user = v => j <= i
      BY DEF LastIsThere
    <2>1. CASE v = u
      <3>1. Len(log) + 1 \in DOMAIN log' /\ log'[Len(log) + 1].user = v
        BY <1>5, <1>6, <2>1
      <3>2. \A j \in DOMAIN log' : j <= Len(log) + 1
        BY <1>6
      <3> QED
        BY <3>1, <3>2
    <2>2. CASE v # u
      <3>1. k \in DOMAIN log /\ log[k].user = v
        BY <1>5, <1>6, <2>2
      <3>2. PICK i \in DOMAIN log : log[i].user = v /\ \A j \in DOMAIN log : log[j].user = v => j <= i
        BY <3>1 DEF Inv, LastIsThere
      <3>3. \A j \in DOMAIN log' : log'[j].user = v => j \in DOMAIN log /\ log[j].user = v
        BY <1>5, <1>6, <2>2
      <3>4. i \in DOMAIN log' /\ log'[i].user = v
        BY <1>6, <3>2
      <3> QED
        BY <3>2, <3>3, <3>4
    <2> QED
      BY <2>1, <2>2
  <1>10. SweepIsOfTheWatch' /\ CursorIsPast' /\ NothingToldUnwatched'
    BY <1>2 DEF Inv, SweepIsOfTheWatch, CursorIsPast, NothingToldUnwatched
  <1>11. ChangesAreTheLogs'
    <2> SUFFICES ASSUME notice.at \in {"send", "mark"}
                 PROVE  notice'.changes
                          = SettledRosterChanges(notice.since, notice.after, notice.through)'
      BY <1>2 DEF ChangesAreTheLogs
    <2>1. PICK s, a, t : s = notice.since /\ a = notice.after /\ t = notice.through
      OBVIOUS
    <2>2. s \in Nat /\ a \in Nat /\ t \in Nat /\ t <= e.at - NoticeGrace
      BY <1>3, <1>5, <2>1 DEF Inv, SweepIsOfTheWatch, Notice
    <2>3. SettledRosterChanges(s, a, t)' = SettledRosterChanges(s, a, t)
      BY <1>3, <1>4, <1>5, <2>2, SettledStays
    <2>4. notice.changes = SettledRosterChanges(s, a, t)
      BY <2>1 DEF Inv, ChangesAreTheLogs
    <2> QED
      BY <1>2, <2>1, <2>3, <2>4
  <1>12. ToldOnce'
    <2>2. PICK s, t : s = watching.since /\ t = Sent
      OBVIOUS
    <2>4. /\ watching.since \in Nat /\ watching.through \in Nat /\ notice.through \in Nat
          /\ notice.at \in {"idle", "log", "send", "mark"}
      BY <1>3 DEF Notice
    <2>5. s \in Nat /\ t \in Nat
      BY <2>2, <2>4 DEF Sent
    <2>6. watching.on => Sent <= watching.since \/ Sent <= second - NoticeGrace
      BY <1>3, <2>4 DEF Inv, CursorIsPast, SweepIsOfTheWatch, Sent, NoticeGrace
    <2>1. s \in Nat /\ t \in Nat /\ (watching.on => t <= s \/ t <= e.at - NoticeGrace)
      BY <1>5, <2>2, <2>5, <2>6
    <2>3. ASSUME watching.on PROVE SettledRosterChanges(s, s, t)' = SettledRosterChanges(s, s, t)
      <3>1. CASE t <= s
        BY <1>3, <1>6, <2>1, <3>1, SettledOfNoTime, SettledOfNoTimeThen
      <3>2. CASE t <= e.at - NoticeGrace
        BY <1>3, <1>4, <1>5, <2>1, <3>2, SettledStays
      <3> QED
        BY <2>1, <2>3, <3>1, <3>2
    <2> QED
      BY <1>2, <2>2, <2>3, ToldStays DEF Inv, Sent
  <1> QED
    BY <1>7, <1>8, <1>9, <1>10, <1>11, <1>12 DEF Inv

\* A watch begins with nothing told and nothing to tell.
LEMMA WatchKeeps == ASSUME Inv, WatchRoster PROVE Inv'
  <1>1. /\ ~watching.on /\ watching' = [since |-> second, through |-> second, on |-> TRUE]
        /\ second' = second /\ log' = log /\ notice' = notice /\ told' = told
        /\ retold' = retold /\ noticeFaults' = noticeFaults
    BY DEF WatchRoster
  <1>2. /\ told = <<>> /\ notice.at = "idle" /\ notice \in Notice
        /\ log \in Seq(Update) /\ second \in Nat
    BY <1>1 DEF Inv, TypeOK, NothingToldUnwatched, SweepIsOfTheWatch, Notice
  <1>3. TypeOK'
    BY <1>1, <1>2 DEF Inv, TypeOK
  <1>4. LoggedByNow' /\ LastIsThere'
    BY <1>1 DEF Inv, LoggedByNow, LastIsThere
  <1>5. SweepIsOfTheWatch' /\ ChangesAreTheLogs'
    BY <1>1, <1>2 DEF SweepIsOfTheWatch, ChangesAreTheLogs
  <1>6. CursorIsPast' /\ NothingToldUnwatched'
    BY <1>1, <1>2 DEF CursorIsPast, NothingToldUnwatched
  <1>7. ToldOnce'
    <2>1. PICK s : s = second
      OBVIOUS
    <2>2. SettledRosterChanges(s, s, s)' = {}
      BY <1>1, <1>2, <2>1, SettledOfNoTimeThen
    <2>3. DOMAIN told' = {} /\ All' = {}
      BY <1>1, <1>2 DEF All
    <2>4. watching'.since = s /\ Sent' = s
      BY <1>1, <1>2, <2>1 DEF Sent
    <2> QED
      BY <2>2, <2>3, <2>4 DEF ToldOnce, All, Sent
  <1> QED
    BY <1>1, <1>2, <1>3, <1>4, <1>5, <1>6, <1>7 DEF Inv

\* Somebody stops watching; a notice under way ends.
LEMMA UnwatchKeeps == ASSUME Inv, UnwatchRoster PROVE Inv'
  <1>1. /\ watching' = Unwatched /\ told' = <<>> /\ retold' = FALSE /\ notice.at = "idle"
        /\ second' = second /\ log' = log /\ notice' = notice /\ noticeFaults' = noticeFaults
    BY DEF UnwatchRoster
  <1>2. ~watching'.on
    BY <1>1 DEF Unwatched
  <1>3. TypeOK'
    <2>1. watching' \in [since : Nat, through : Nat, on : BOOLEAN]
      BY <1>1 DEF Unwatched
    <2>2. told' \in Seq(SUBSET [user : Watched, to : {On, Off}, at : Nat])
      BY <1>1
    <2> QED
      BY <1>1, <2>1, <2>2 DEF Inv, TypeOK
  <1>4. LoggedByNow' /\ LastIsThere'
    BY <1>1 DEF Inv, LoggedByNow, LastIsThere
  <1>5. SweepIsOfTheWatch' /\ ChangesAreTheLogs' /\ CursorIsPast' /\ NothingToldUnwatched'
    BY <1>1, <1>2 DEF SweepIsOfTheWatch, ChangesAreTheLogs, CursorIsPast, NothingToldUnwatched
  <1>6. ToldOnce'
    BY <1>2 DEF ToldOnce
  <1> QED
    BY <1>1, <1>3, <1>4, <1>5, <1>6 DEF Inv

\* A step that leaves the log, the watch and what was told as they are, and
\* what was told of the sweep, keeps what is told once.
LEMMA ToldStaysOfTheLog ==
  ASSUME ToldOnce, log' = log, watching' = watching, told' = told, retold' = retold, Sent' = Sent
  PROVE  ToldOnce'
  <1>1. PICK s, t : s = watching.since /\ t = Sent
    OBVIOUS
  <1>2. SettledRosterChanges(s, s, t)' = SettledRosterChanges(s, s, t)
    BY SettledOfTheLog
  <1> QED
    BY <1>1, <1>2, ToldStays

\* Reading the watch begins a sweep of it, up to a grace ago.
LEMMA ReadWatchKeeps == ASSUME Inv, ReadWatch PROVE Inv'
  <1>1. /\ notice.at = "idle" /\ watching.on /\ second - NoticeGrace > watching.through
        /\ notice' = [at |-> "log", through |-> second - NoticeGrace, since |-> watching.since,
                      after |-> watching.through, changes |-> {}]
        /\ second' = second /\ log' = log /\ watching' = watching /\ told' = told
        /\ retold' = retold /\ noticeFaults' = noticeFaults
    BY DEF ReadWatch
  <1>2. /\ second \in Nat /\ watching.through \in Nat /\ watching.since \in Nat
        /\ second - NoticeGrace \in Nat
    BY <1>1 DEF Inv, TypeOK, NoticeGrace
  <1>3. notice' \in Notice /\ notice'.at = "log"
    BY <1>1, <1>2 DEF Notice
  <1>4. TypeOK'
    BY <1>1 DEF Inv, TypeOK
  <1>5. LoggedByNow' /\ LastIsThere' /\ CursorIsPast' /\ NothingToldUnwatched'
    BY <1>1 DEF Inv, LoggedByNow, LastIsThere, CursorIsPast, NothingToldUnwatched
  <1>6. SweepIsOfTheWatch'
    BY <1>1, <1>2 DEF SweepIsOfTheWatch
  <1>7. ChangesAreTheLogs'
    BY <1>3 DEF ChangesAreTheLogs
  <1>8. ToldOnce'
    BY <1>1, ToldStaysOfTheLog DEF Inv, Sent
  <1> QED
    BY <1>3, <1>4, <1>5, <1>6, <1>7, <1>8 DEF Inv

\* Reading the log settles what the notice will say.
LEMMA ReadLogKeeps == ASSUME Inv, ReadLog PROVE Inv'
  <1> DEFINE found == SettledRosterChanges(notice.since, notice.after, notice.through)
  <1>1. /\ notice.at = "log"
        /\ notice' = [notice EXCEPT !.changes = found, !.at = IF found = {} THEN "mark" ELSE "send"]
        /\ second' = second /\ log' = log /\ watching' = watching /\ told' = told
        /\ retold' = retold /\ noticeFaults' = noticeFaults
    BY DEF ReadLog
  <1>2. notice \in Notice /\ log \in Seq(Update)
    BY DEF Inv, TypeOK
  <1>3. found \subseteq Change
    BY <1>2, SettledInTime DEF Notice
  <1> HIDE DEF found
  <1>4. /\ notice'.since = notice.since /\ notice'.after = notice.after
        /\ notice'.through = notice.through /\ notice'.changes = found
        /\ notice'.at = IF found = {} THEN "mark" ELSE "send"
    BY <1>1, <1>2 DEF Notice
  <1>5. notice' \in Notice
    BY <1>1, <1>2, <1>3 DEF Notice
  <1>6. TypeOK'
    BY <1>1, <1>4 DEF Inv, TypeOK
  <1>7. LoggedByNow' /\ LastIsThere' /\ CursorIsPast' /\ NothingToldUnwatched'
    BY <1>1 DEF Inv, LoggedByNow, LastIsThere, CursorIsPast, NothingToldUnwatched
  <1>8. SweepIsOfTheWatch'
    BY <1>1, <1>4 DEF Inv, SweepIsOfTheWatch
  <1>9. PICK s, a, t : s = notice.since /\ a = notice.after /\ t = notice.through
    OBVIOUS
  <1>10. ChangesAreTheLogs'
    <2>1. SettledRosterChanges(s, a, t)' = SettledRosterChanges(s, a, t)
      BY <1>1, SettledOfTheLog
    <2>2. found = SettledRosterChanges(s, a, t)
      BY <1>9 DEF found
    <2> QED
      BY <1>4, <1>9, <2>1, <2>2 DEF ChangesAreTheLogs
  <1>11. ToldOnce'
    <2>1. CASE found # {}
      BY <1>1, <1>4, <2>1, ToldStaysOfTheLog DEF Inv, Sent
    <2>2. CASE found = {}
      <3>1. PICK w : w = watching.through
        OBVIOUS
      <3>2. /\ s = watching.since /\ a = w /\ w < t /\ s <= w
            /\ s \in Nat /\ w \in Nat /\ t \in Nat
        BY <1>1, <1>2, <1>9, <3>1 DEF Inv, SweepIsOfTheWatch, CursorIsPast, Notice
      <3>3. SettledRosterChanges(s, s, t) = SettledRosterChanges(s, s, w)
        <4>1. SettledRosterChanges(s, w, t) = {}
          BY <1>9, <2>2, <3>2 DEF found
        <4> QED
          <5>1. SettledRosterChanges(s, s, t)
                  = SettledRosterChanges(s, s, w) \cup SettledRosterChanges(s, w, t)
            <6>1. w <= t
              BY <3>2
            <6> QED
              BY ONLY <1>2, <3>2, <6>1, SettledAdds
          <5> QED
            BY <4>1, <5>1
      <3>4. SettledRosterChanges(s, s, t)' = SettledRosterChanges(s, s, t)
        BY <1>1, SettledOfTheLog
      <3>5. watching.on /\ ~retold =>
              /\ All = SettledRosterChanges(s, s, w)
              /\ \A i, j \in DOMAIN told : i # j => told[i] \cap told[j] = {}
        BY <1>1, <3>1, <3>2, ToldParts DEF Inv, Sent
      <3>6. All' = All /\ Sent' = t
        BY <1>1, <1>4, <1>9, <2>2 DEF All, Sent
      <3>7. watching'.on /\ ~retold' =>
              /\ All' = SettledRosterChanges(watching.since, watching.since, Sent)'
              /\ \A i, j \in DOMAIN told' : i # j => told'[i] \cap told'[j] = {}
        BY <1>1, <3>2, <3>3, <3>4, <3>5, <3>6
      <3> QED
        BY <3>7 DEF ToldOnce, All, Sent
    <2> QED
      BY <2>1, <2>2
  <1> QED
    BY <1>5, <1>6, <1>7, <1>8, <1>10, <1>11 DEF Inv

\* Sending tells what was settled since the cursor, all of it later than what
\* was told before.
LEMMA SendTells ==
  ASSUME Inv, notice.at = "send", told' = Append(told, notice.changes),
         notice' = [notice EXCEPT !.at = "mark"],
         watching' = watching, retold' = retold, log' = log
  PROVE  ToldOnce'
  <1>1. PICK s, w, t, batch : /\ s = watching.since /\ w = watching.through
                              /\ t = notice.through /\ batch = notice.changes
    OBVIOUS
  <1>2. notice \in Notice /\ log \in Seq(Update)
        /\ told \in Seq(SUBSET [user : Watched, to : {On, Off}, at : Nat])
    BY DEF Inv, TypeOK
  <1>3. /\ watching.on /\ notice.since = s /\ notice.after = w /\ w < t /\ s <= w
        /\ s \in Nat /\ w \in Nat /\ t \in Nat
    BY <1>1, <1>2 DEF Inv, SweepIsOfTheWatch, CursorIsPast, Notice
  <1>4. batch = SettledRosterChanges(s, w, t)
    BY <1>1, <1>3 DEF Inv, ChangesAreTheLogs
  <1>5. SettledRosterChanges(s, s, t) = SettledRosterChanges(s, s, w) \cup batch
    <2>1. w <= t
      BY <1>3
    <2> QED
      BY ONLY <1>2, <1>3, <1>4, <2>1, SettledAdds
  <1>6. /\ Len(told) \in Nat /\ DOMAIN told = 1..Len(told) /\ DOMAIN told' = 1..(Len(told) + 1)
        /\ \A i \in DOMAIN told : told'[i] = told[i]
        /\ told'[Len(told) + 1] = batch
    BY <1>1, <1>2
  <1>7. ~retold => /\ All = SettledRosterChanges(s, s, w)
                   /\ \A i, j \in DOMAIN told : i # j => told[i] \cap told[j] = {}
    <2>1. Sent = w
      BY <1>1 DEF Sent
    <2> QED
      BY <1>1, <1>3, <2>1, ToldParts DEF Inv
  <1>8. All' = All \cup batch
    <2>1. All' = UNION {told'[i] : i \in DOMAIN told'}
      BY DEF All
    <2>2. \A c : c \in All' <=> \E i \in DOMAIN told' : c \in told'[i]
      BY <2>1
    <2>3. \A c : c \in All <=> \E i \in DOMAIN told : c \in told[i]
      BY DEF All
    <2>4. \A c : (\E i \in DOMAIN told' : c \in told'[i])
                   <=> (\E i \in DOMAIN told : c \in told[i]) \/ c \in batch
      BY <1>6
    <2> QED
      BY ONLY <2>2, <2>3, <2>4
  <1>9. ~retold => \A i \in DOMAIN told : told[i] \cap batch = {}
    <2> SUFFICES ASSUME ~retold, NEW i \in DOMAIN told, NEW c \in told[i], c \in batch
                 PROVE  FALSE
      OBVIOUS
    <2>1. c \in SettledRosterChanges(s, s, w)
      BY <1>7 DEF All
    <2>2. c \in Change /\ c.at <= w
      BY <1>2, <1>3, <2>1, SettledInTime
    <2>3. w < c.at
      BY <1>2, <1>3, <1>4, SettledInTime
    <2> QED
      BY <1>3, <2>2, <2>3 DEF Change
  <1>10. ~retold => \A i, j \in DOMAIN told' : i # j => told'[i] \cap told'[j] = {}
    <2> SUFFICES ASSUME ~retold, NEW i \in DOMAIN told', NEW j \in DOMAIN told', i # j
                 PROVE  told'[i] \cap told'[j] = {}
      OBVIOUS
    <2>1. ASSUME NEW x \in DOMAIN told', x \notin DOMAIN told
          PROVE  x = Len(told) + 1 /\ told'[x] = batch
      BY <1>6, <2>1
    <2>5. \A x \in DOMAIN told : told'[x] = told[x]
      BY <1>6
    <2>2. \A x, y \in DOMAIN told : x # y => told[x] \cap told[y] = {}
      BY <1>7
    <2>3. \A x \in DOMAIN told : told[x] \cap batch = {}
      BY <1>9
    <2>4. \A x \in DOMAIN told : batch \cap told[x] = {}
      BY <2>3
    <2>6. CASE i \in DOMAIN told /\ j \in DOMAIN told
      BY <2>2, <2>5, <2>6
    <2>7. CASE i \in DOMAIN told /\ j \notin DOMAIN told
      BY <2>1, <2>3, <2>5, <2>7
    <2>8. CASE i \notin DOMAIN told /\ j \in DOMAIN told
      BY <2>1, <2>4, <2>5, <2>8
    <2>9. CASE i \notin DOMAIN told /\ j \notin DOMAIN told
      BY <2>1, <2>9
    <2> QED
      BY <2>6, <2>7, <2>8, <2>9
  <1>11. Sent' = t
    BY <1>1, <1>2 DEF Sent, Notice
  <1>12. SettledRosterChanges(s, s, t)' = SettledRosterChanges(s, s, t)
    BY SettledOfTheLog
  <1>13. SettledRosterChanges(watching.since, watching.since, Sent)' = SettledRosterChanges(s, s, t)
    BY <1>1, <1>11, <1>12
  <1>14. watching'.on /\ ~retold' =>
           /\ All' = SettledRosterChanges(watching.since, watching.since, Sent)'
           /\ \A i, j \in DOMAIN told' : i # j => told'[i] \cap told'[j] = {}
    BY <1>5, <1>7, <1>8, <1>10, <1>13
  <1> QED
    BY <1>14 DEF ToldOnce, All, Sent

\* A notice is sent, or its call fails.
LEMMA SendKeeps == ASSUME Inv, SendRosterNotice PROVE Inv'
  <1>1. /\ notice.at = "send" /\ notice \in Notice
        /\ second' = second /\ log' = log /\ watching' = watching /\ retold' = retold
    BY DEF SendRosterNotice, Inv
  <1>2. noticeFaults' \in Nat
    BY DEF SendRosterNotice, Works, Fails, Inv, TypeOK
  <1>3. LoggedByNow' /\ LastIsThere' /\ CursorIsPast'
    BY <1>1 DEF Inv, LoggedByNow, LastIsThere, CursorIsPast
  <1>4. watching'.on
    BY <1>1 DEF Inv, SweepIsOfTheWatch
  <1>5. CASE told' = Append(told, notice.changes) /\ notice' = [notice EXCEPT !.at = "mark"]
    <2>1. /\ notice' \in Notice /\ notice'.at = "mark" /\ notice'.since = notice.since
          /\ notice'.after = notice.after /\ notice'.through = notice.through
          /\ notice'.changes = notice.changes
      BY <1>1, <1>5 DEF Notice
    <2>2. told' \in Seq(SUBSET [user : Watched, to : {On, Off}, at : Nat])
      <3>1. /\ told \in Seq(SUBSET [user : Watched, to : {On, Off}, at : Nat])
            /\ notice.changes \in SUBSET [user : Watched, to : {On, Off}, at : Nat]
        BY <1>1 DEF Inv, TypeOK, Notice, Change
      <3> QED
        BY <1>5, <3>1
    <2>3. TypeOK'
      BY <1>1, <1>2, <2>1, <2>2 DEF Inv, TypeOK
    <2>4. SweepIsOfTheWatch'
      BY <1>1, <2>1 DEF Inv, SweepIsOfTheWatch
    <2>5. ChangesAreTheLogs'
      <3>1. PICK s, a, t : s = notice.since /\ a = notice.after /\ t = notice.through
        OBVIOUS
      <3>2. SettledRosterChanges(s, a, t)' = SettledRosterChanges(s, a, t)
        BY <1>1, SettledOfTheLog
      <3> QED
        BY <1>1, <2>1, <3>1, <3>2 DEF Inv, ChangesAreTheLogs
    <2>6. ToldOnce'
      BY <1>1, <1>5, SendTells
    <2> QED
      BY <1>3, <1>4, <2>1, <2>3, <2>4, <2>5, <2>6 DEF Inv, NothingToldUnwatched
  <1>6. CASE UNCHANGED told /\ notice' = NoNotice
    <2>1. notice' \in Notice /\ notice'.at = "idle"
      BY <1>6 DEF NoNotice, Notice
    <2>2. TypeOK'
      BY <1>1, <1>2, <1>6, <2>1 DEF Inv, TypeOK
    <2>3. ToldOnce'
      BY <1>1, <1>6, <2>1, ToldStaysOfTheLog DEF Inv, Sent
    <2> QED
      BY <1>3, <1>4, <2>1, <2>2, <2>3 DEF Inv, SweepIsOfTheWatch, ChangesAreTheLogs,
         NothingToldUnwatched
  <1> QED
    BY <1>5, <1>6 DEF SendRosterNotice

\* The cursor moves to where the notice went; a notice whose cursor is lost
\* had nothing in it, or is told again.
LEMMA MarkKeeps == ASSUME Inv, MarkRosterReported PROVE Inv'
  <1>1. /\ notice.at = "mark" /\ notice \in Notice /\ notice' = NoNotice
        /\ second' = second /\ log' = log /\ told' = told
        /\ watching \in [since : Nat, through : Nat, on : BOOLEAN] /\ second \in Nat
        /\ log \in Seq(Update)
    BY DEF MarkRosterReported, Inv, TypeOK
  <1>2. noticeFaults' \in Nat
    BY DEF MarkRosterReported, Works, Fails, Inv, TypeOK
  <1>3. notice' \in Notice /\ notice'.at = "idle"
    BY <1>1 DEF NoNotice, Notice
  <1>4. LoggedByNow' /\ LastIsThere'
    BY <1>1 DEF Inv, LoggedByNow, LastIsThere
  <1>5. SweepIsOfTheWatch' /\ ChangesAreTheLogs'
    BY <1>3 DEF SweepIsOfTheWatch, ChangesAreTheLogs
  <1>6. PICK s, w, t : s = watching.since /\ w = watching.through /\ t = notice.through
    OBVIOUS
  <1>7. /\ watching.on /\ notice.since = s /\ notice.after = w /\ w < t /\ s <= w
        /\ s \in Nat /\ w \in Nat /\ t \in Nat /\ t <= second - NoticeGrace
        /\ w = s \/ w <= second - NoticeGrace
    BY <1>1, <1>6 DEF Inv, SweepIsOfTheWatch, CursorIsPast, Notice
  <1>8. ~retold => /\ All = SettledRosterChanges(s, s, t)
                   /\ \A i, j \in DOMAIN told : i # j => told[i] \cap told[j] = {}
    <2>1. Sent = t
      BY <1>1, <1>6 DEF Sent
    <2> QED
      BY <1>6, <1>7, <2>1, ToldParts DEF Inv
  <1>9. All' = All
    BY <1>1 DEF All
  <1>10. CASE watching' = [watching EXCEPT !.through = notice.through] /\ UNCHANGED retold
    <2>1. /\ watching' \in [since : Nat, through : Nat, on : BOOLEAN]
          /\ watching'.since = s /\ watching'.through = t /\ watching'.on
      BY <1>1, <1>6, <1>7, <1>10
    <2>2. TypeOK'
      BY <1>1, <1>2, <1>3, <1>10, <2>1 DEF Inv, TypeOK
    <2>3. CursorIsPast'
      BY <1>1, <1>7, <2>1 DEF CursorIsPast
    <2>4. NothingToldUnwatched'
      BY <2>1 DEF NothingToldUnwatched
    <2>5. Sent' = t
      BY <1>3, <2>1 DEF Sent
    <2>6. SettledRosterChanges(s, s, t)' = SettledRosterChanges(s, s, t)
      BY <1>1, SettledOfTheLog
    <2>7. SettledRosterChanges(watching.since, watching.since, Sent)' = SettledRosterChanges(s, s, t)
      BY <2>1, <2>5, <2>6
    <2>8. watching'.on /\ ~retold' =>
            /\ All' = SettledRosterChanges(watching.since, watching.since, Sent)'
            /\ \A i, j \in DOMAIN told' : i # j => told'[i] \cap told'[j] = {}
      BY <1>1, <1>8, <1>9, <1>10, <2>7
    <2>9. ToldOnce'
      BY <2>8 DEF ToldOnce, All, Sent
    <2> QED
      BY <1>3, <1>4, <1>5, <2>2, <2>3, <2>4, <2>9 DEF Inv
  <1>11. CASE UNCHANGED watching /\ retold' = (retold \/ notice.changes # {})
    <2>1. retold' \in BOOLEAN
      BY <1>11
    <2>2. TypeOK'
      BY <1>1, <1>2, <1>3, <1>11, <2>1 DEF Inv, TypeOK
    <2>3. CursorIsPast' /\ NothingToldUnwatched'
      BY <1>1, <1>7, <1>11 DEF Inv, CursorIsPast, NothingToldUnwatched
    <2>4. ASSUME ~retold'
          PROVE  ~retold /\ SettledRosterChanges(s, s, t) = SettledRosterChanges(s, s, w)
      <3>1. ~retold /\ notice.changes = {}
        BY <1>11, <2>4
      <3>2. SettledRosterChanges(s, w, t) = {}
        BY <1>1, <1>6, <1>7, <3>1 DEF Inv, ChangesAreTheLogs
      <3>3. w <= t
        BY <1>7
      <3>4. SettledRosterChanges(s, s, t)
              = SettledRosterChanges(s, s, w) \cup SettledRosterChanges(s, w, t)
        BY ONLY <1>1, <1>7, <3>3, SettledAdds
      <3> QED
        BY <3>1, <3>2, <3>4
    <2>5. Sent' = w
      BY <1>3, <1>6, <1>11 DEF Sent
    <2>6. SettledRosterChanges(s, s, w)' = SettledRosterChanges(s, s, w)
      BY <1>1, SettledOfTheLog
    <2>7. SettledRosterChanges(watching.since, watching.since, Sent)' = SettledRosterChanges(s, s, w)
      BY <1>6, <1>11, <2>5, <2>6
    <2>8. watching'.on /\ ~retold' =>
            /\ All' = SettledRosterChanges(watching.since, watching.since, Sent)'
            /\ \A i, j \in DOMAIN told' : i # j => told'[i] \cap told'[j] = {}
      BY <1>1, <1>8, <1>9, <2>4, <2>7
    <2>9. ToldOnce'
      BY <2>8 DEF ToldOnce, All, Sent
    <2> QED
      BY <1>3, <1>4, <1>5, <2>2, <2>3, <2>9 DEF Inv
  <1> QED
    BY <1>10, <1>11 DEF MarkRosterReported

\* A restart loses the sweep; what it had told and not marked is told again.
LEMMA RestartKeeps == ASSUME Inv, Restart PROVE Inv'
  <1>1. /\ notice.at # "idle" /\ notice \in Notice /\ notice' = NoNotice
        /\ second' = second /\ log' = log /\ told' = told /\ watching' = watching
        /\ retold' = (retold \/ (notice.at = "mark" /\ notice.changes # {}))
        /\ watching \in [since : Nat, through : Nat, on : BOOLEAN] /\ log \in Seq(Update)
    BY DEF Restart, Inv, TypeOK
  <1>2. noticeFaults' \in Nat /\ retold' \in BOOLEAN
    BY <1>1 DEF Restart, Fails, Inv, TypeOK
  <1>3. notice' \in Notice /\ notice'.at = "idle"
    BY <1>1 DEF NoNotice, Notice
  <1>4. LoggedByNow' /\ LastIsThere' /\ CursorIsPast'
    BY <1>1 DEF Inv, LoggedByNow, LastIsThere, CursorIsPast
  <1>5. SweepIsOfTheWatch' /\ ChangesAreTheLogs'
    BY <1>3 DEF SweepIsOfTheWatch, ChangesAreTheLogs
  <1>6. TypeOK'
    BY <1>1, <1>2, <1>3 DEF Inv, TypeOK
  <1>7. NothingToldUnwatched'
    BY <1>1 DEF Inv, SweepIsOfTheWatch, NothingToldUnwatched
  <1>8. ToldOnce'
    <2>1. CASE notice.at # "mark"
      <3>1. retold' = retold
        BY <1>1, <2>1 DEF Inv, TypeOK
      <3> QED
        BY <1>1, <1>3, <2>1, <3>1, ToldStaysOfTheLog DEF Inv, Sent
    <2>2. CASE notice.at = "mark" /\ notice.changes # {}
      BY <1>1, <2>2 DEF ToldOnce
    <2>3. CASE notice.at = "mark" /\ notice.changes = {}
      <3>1. retold' = retold
        BY <1>1, <2>3 DEF Inv, TypeOK
      <3>2. PICK s, w, t : s = watching.since /\ w = watching.through /\ t = notice.through
        OBVIOUS
      <3>3. /\ watching.on /\ notice.since = s /\ notice.after = w /\ w <= t /\ s <= w
            /\ s \in Nat /\ w \in Nat /\ t \in Nat
        BY <1>1, <3>2 DEF Inv, SweepIsOfTheWatch, CursorIsPast, Notice
      <3>4. SettledRosterChanges(s, w, t) = {}
        BY <2>3, <3>2, <3>3 DEF Inv, ChangesAreTheLogs
      <3>5. SettledRosterChanges(s, s, t) = SettledRosterChanges(s, s, w)
        <4>1. SettledRosterChanges(s, s, t)
                = SettledRosterChanges(s, s, w) \cup SettledRosterChanges(s, w, t)
          BY ONLY <1>1, <3>3, SettledAdds
        <4> QED
          BY <3>4, <4>1
      <3>6. Sent = t /\ Sent' = w
        BY <1>1, <1>3, <2>3, <3>2 DEF Sent
      <3>7. ~retold => /\ All = SettledRosterChanges(s, s, w)
                       /\ \A i, j \in DOMAIN told : i # j => told[i] \cap told[j] = {}
        BY <3>2, <3>3, <3>5, <3>6, ToldParts DEF Inv
      <3>8. All' = All
        BY <1>1 DEF All
      <3>9. SettledRosterChanges(s, s, w)' = SettledRosterChanges(s, s, w)
        BY <1>1, SettledOfTheLog
      <3>10. watching'.on /\ ~retold' =>
               /\ All' = SettledRosterChanges(watching.since, watching.since, Sent)'
               /\ \A i, j \in DOMAIN told' : i # j => told'[i] \cap told'[j] = {}
        BY <1>1, <3>1, <3>2, <3>6, <3>7, <3>8, <3>9
      <3> QED
        BY <3>10 DEF ToldOnce, All, Sent
    <2> QED
      BY <2>1, <2>2, <2>3
  <1> QED
    BY <1>3, <1>4, <1>5, <1>6, <1>7, <1>8 DEF Inv

\* A second passes.
LEMMA TickKeeps == ASSUME Inv, Tick PROVE Inv'
  <1>1. /\ second \in Nat /\ second' = second + 1
        /\ log' = log /\ watching' = watching /\ notice' = notice /\ told' = told
        /\ retold' = retold /\ noticeFaults' = noticeFaults
    BY DEF Tick, Inv, TypeOK
  <1>2. TypeOK' /\ notice' \in Notice /\ LastIsThere' /\ NothingToldUnwatched'
    BY <1>1 DEF Inv, TypeOK, LastIsThere, NothingToldUnwatched
  <1>3. LoggedByNow'
    <2>1. \A i \in DOMAIN log : log[i].at \in Nat
      BY LoggedIsTyped DEF Inv, TypeOK
    <2> QED
      BY <1>1, <2>1 DEF Inv, LoggedByNow
  <1>4. SweepIsOfTheWatch' /\ CursorIsPast'
    <2>1. notice.through \in Nat /\ watching.through \in Nat /\ watching.since \in Nat
      BY DEF Inv, TypeOK, Notice
    <2> QED
      BY <1>1, <2>1 DEF Inv, SweepIsOfTheWatch, CursorIsPast, NoticeGrace
  <1>5. ChangesAreTheLogs'
    <2>1. PICK s, a, t : s = notice.since /\ a = notice.after /\ t = notice.through
      OBVIOUS
    <2>2. SettledRosterChanges(s, a, t)' = SettledRosterChanges(s, a, t)
      BY <1>1, SettledOfTheLog
    <2> QED
      BY <1>1, <2>1, <2>2 DEF Inv, ChangesAreTheLogs
  <1>6. ToldOnce'
    BY <1>1, ToldStaysOfTheLog DEF Inv, Sent
  <1> QED
    BY <1>2, <1>3, <1>4, <1>5, <1>6 DEF Inv

\* Each action keeps the invariant.
LEMMA InvInductive == ASSUME Inv, [Next]_vars PROVE Inv'
  <1>1. ASSUME NEW u \in Watched, LogSignupUpdate(u) PROVE Inv'
    BY <1>1, LogKeeps
  <1>2. CASE WatchRoster \/ UnwatchRoster
    BY <1>2, WatchKeeps, UnwatchKeeps
  <1>3. CASE Sweep
    BY <1>3, ReadWatchKeeps, ReadLogKeeps, SendKeeps, MarkKeeps DEF Sweep
  <1>4. CASE Restart \/ Tick
    BY <1>4, RestartKeeps, TickKeeps
  <1>5. CASE UNCHANGED vars
    <2>1. /\ second' = second /\ log' = log /\ watching' = watching /\ notice' = notice
          /\ told' = told /\ retold' = retold /\ noticeFaults' = noticeFaults
      BY <1>5 DEF vars
    <2>2. ToldOnce'
      BY <2>1, ToldStaysOfTheLog DEF Inv, Sent
    <2>3. ChangesAreTheLogs'
      <3>1. PICK s, a, t : s = notice.since /\ a = notice.after /\ t = notice.through
        OBVIOUS
      <3>2. SettledRosterChanges(s, a, t)' = SettledRosterChanges(s, a, t)
        BY <2>1, SettledOfTheLog
      <3> QED
        BY <2>1, <3>1, <3>2 DEF Inv, ChangesAreTheLogs
    <2> QED
      BY <2>1, <2>2, <2>3 DEF Inv, TypeOK, LoggedByNow, LastIsThere, SweepIsOfTheWatch,
         CursorIsPast, NothingToldUnwatched
  <1> QED
    BY <1>1, <1>2, <1>3, <1>4, <1>5 DEF Next

\* Every update, watch and notice under way is a record of its kind.
THEOREM TypeCorrect == Spec => []TypeOK
  <1>1. Inv => TypeOK
    BY DEF Inv
  <1> QED
    BY <1>1, InvInitially, InvInductive, PTL DEF Spec

\* However updates, sweeps, failed calls and restarts interleave, what an
\* organizer watching a roster was told is what the log says was settled, each
\* change once (sendRosterNotice, rosternotices.go).
THEOREM ChangesAreToldOnce == Spec => []ToldOnce
  <1>1. Inv => ToldOnce
    BY DEF Inv
  <1> QED
    BY <1>1, InvInitially, InvInductive, PTL DEF Spec
=============================================================================
