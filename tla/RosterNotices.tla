--------------------------- MODULE RosterNotices ---------------------------
(***************************************************************************)
(* Roster notices of one organizer watching one event (rosternotices.go).  *)
(* The log of signup updates is cut into bursts, one person's updates      *)
(* closer together than a grace; a burst that ended is told if it moved    *)
(* the person on or off the roster by their own doing.  A sweep tells what *)
(* ended since the watch's cursor and moves the cursor.                    *)
(*                                                                         *)
(* Updates, sweeps and the clock interleave freely; a sweep reads the log, *)
(* sends, and writes the cursor in steps of its own.                       *)
(***************************************************************************)
EXTENDS Integers, Sequences, FiniteSets

CONSTANTS
  Watched,           \* the people on the roster
  MaxUpdates,        \* bound: updates of the log
  MaxSecond,         \* bound: the clock
  MaxNoticeFaults    \* bound: calls that fail, and restarts

NoticeGrace == 2  \* rosterNoticeGrace, in ticks

VARIABLES
  second,    \* the time
  log,       \* signup_updates of the event, in the order committed
  watching,  \* the watch: since when, and how far it was told
  notice,    \* the sweep's call
  told,      \* the changes of each direct message handed to Discord
  retold,    \* whether a notice went out whose cursor was not written
  noticeFaults

vars == <<second, log, watching, notice, told, retold, noticeFaults>>

Off == "off"
On  == "on"     \* attending or waitlisted
Update == [user : Watched, from : {On, Off}, to : {On, Off}, own : BOOLEAN, at : Nat]
Unwatched == [since |-> 0, through |-> 0, on |-> FALSE]
NoNotice  == [at |-> "idle", through |-> 0, since |-> 0, after |-> 0, changes |-> {}]

Init ==
  /\ second = 0 /\ log = <<>>
  /\ watching = Unwatched /\ notice = NoNotice
  /\ told = <<>> /\ retold = FALSE /\ noticeFaults = 0

Fails == noticeFaults < MaxNoticeFaults /\ noticeFaults' = noticeFaults + 1
Works == UNCHANGED noticeFaults

-----------------------------------------------------------------------------
\* settledRosterChanges, on the updates after since.

Mine(i, since) == {j \in DOMAIN log : log[j].user = log[i].user /\ log[j].at > since}
\* j is the person's next update after i, of those looked at.
Follows(i, j, since) == /\ {i, j} \subseteq Mine(i, since) /\ i < j
                        /\ ~\E k \in Mine(i, since) : i < k /\ k < j
EndsBurst(i, since)   == ~\E j \in DOMAIN log : Follows(i, j, since) /\ log[j].at - log[i].at < NoticeGrace
StartsBurst(i, since) == ~\E j \in DOMAIN log : Follows(j, i, since) /\ log[i].at - log[j].at < NoticeGrace

\* f is the first update of the burst that i ends.
Begins(f, i, since) ==
  /\ f \in Mine(i, since) /\ f <= i /\ StartsBurst(f, since)
  /\ \A k \in Mine(i, since) : f < k /\ k <= i => ~StartsBurst(k, since)

Burst(f, i, since) == {k \in Mine(i, since) : f <= k /\ k <= i}

SettledRosterChanges(since, after, through) ==
  {[user |-> log[i].user, to |-> log[i].to, at |-> log[i].at] :
     i \in {i \in DOMAIN log :
              /\ log[i].at > since /\ EndsBurst(i, since)
              /\ log[i].at > after /\ log[i].at <= through
              /\ \E f \in DOMAIN log : /\ Begins(f, i, since) /\ log[f].from # log[i].to
                                       /\ \E k \in Burst(f, i, since) : log[k].own}}

-----------------------------------------------------------------------------
State(u) == IF \E i \in DOMAIN log : log[i].user = u
            THEN log[CHOOSE i \in DOMAIN log : /\ log[i].user = u
                       /\ \A j \in DOMAIN log : log[j].user = u => j <= i].to
            ELSE Off

\* Somebody joins or leaves, by their own press or by another's.
LogSignupUpdate(u) ==
  /\ Len(log) < MaxUpdates
  /\ \E own \in BOOLEAN :
       log' = Append(log, [user |-> u, from |-> State(u),
                           to |-> IF State(u) = On THEN Off ELSE On, own |-> own, at |-> second])
  /\ UNCHANGED <<second, watching, notice, told, retold, noticeFaults>>

WatchRoster ==
  /\ ~watching.on
  /\ watching' = [since |-> second, through |-> second, on |-> TRUE]
  /\ UNCHANGED <<second, log, notice, told, retold, noticeFaults>>

\* The button, the page, or a sweep that finds they may no longer edit.
UnwatchRoster ==
  /\ watching.on /\ notice.at = "idle"
  /\ watching' = Unwatched /\ told' = <<>> /\ retold' = FALSE
  /\ UNCHANGED <<second, log, notice, noticeFaults>>

\* Mutant of ReadWatch: the sweep does not wait out the grace.
ReadWatchAtOnce ==
  /\ notice.at = "idle" /\ watching.on
  /\ second > watching.through
  /\ notice' = [at |-> "log", through |-> second, since |-> watching.since,
                after |-> watching.through, changes |-> {}]
  /\ UNCHANGED <<second, log, watching, told, retold, noticeFaults>>

\* SendRosterNotices: a sweep reads the watch, then the log.
ReadWatch ==
  /\ notice.at = "idle" /\ watching.on
  /\ second - NoticeGrace > watching.through
  /\ notice' = [at |-> "log", through |-> second - NoticeGrace, since |-> watching.since,
                after |-> watching.through, changes |-> {}]
  /\ UNCHANGED <<second, log, watching, told, retold, noticeFaults>>

ReadLog ==
  /\ notice.at = "log"
  /\ LET changes == SettledRosterChanges(notice.since, notice.after, notice.through)
     IN  notice' = [notice EXCEPT !.changes = changes,
                                  !.at = IF changes = {} THEN "mark" ELSE "send"]
  /\ UNCHANGED <<second, log, watching, told, retold, noticeFaults>>

\* A direct message Discord refuses is not tried again: both count as told.
\* A check or a read that fails before it leaves the watch where it was.
SendRosterNotice ==
  /\ notice.at = "send"
  /\ \/ told' = Append(told, notice.changes) /\ notice' = [notice EXCEPT !.at = "mark"] /\ Works
     \/ UNCHANGED told /\ notice' = NoNotice /\ Fails
  /\ UNCHANGED <<second, log, watching, retold>>

MarkRosterReported ==
  /\ notice.at = "mark"
  /\ \/ /\ watching' = [watching EXCEPT !.through = notice.through]
        /\ UNCHANGED retold /\ Works
     \/ /\ UNCHANGED watching /\ retold' = (retold \/ notice.changes # {}) /\ Fails
  /\ notice' = NoNotice
  /\ UNCHANGED <<second, log, told>>

Restart ==
  /\ Fails /\ notice.at # "idle"
  /\ retold' = (retold \/ (notice.at = "mark" /\ notice.changes # {}))
  /\ notice' = NoNotice
  /\ UNCHANGED <<second, log, watching, told>>

Tick ==
  /\ second < MaxSecond /\ second' = second + 1
  /\ UNCHANGED <<log, watching, notice, told, retold, noticeFaults>>

Sweep == ReadWatch \/ ReadLog \/ SendRosterNotice \/ MarkRosterReported

Next ==
  \/ \E u \in Watched : LogSignupUpdate(u)
  \/ WatchRoster \/ UnwatchRoster \/ Sweep \/ Restart \/ Tick

Spec == Init /\ [][Next]_vars
-----------------------------------------------------------------------------
TypeOK ==
  /\ second \in Nat /\ log \in Seq(Update)
  /\ watching \in [since : Nat, through : Nat, on : BOOLEAN]
  /\ notice.at \in {"idle", "log", "send", "mark"}
  /\ told \in Seq(SUBSET [user : Watched, to : {On, Off}, at : Nat])
  /\ retold \in BOOLEAN /\ noticeFaults \in Nat

\* rosternotices.go: up to the cursor every settled change was told and nothing
\* else, each in one message; only a notice whose cursor was lost is told
\* again.  What was told burst by burst is what the whole log says now, so an
\* update that came later never changed a burst already told.
ToldOnce ==
  LET all == UNION {told[i] : i \in DOMAIN told}
      sent == IF notice.at = "mark" THEN notice.through ELSE watching.through
  IN  watching.on /\ ~retold =>
        /\ all = SettledRosterChanges(watching.since, watching.since, sent)
        /\ \A i, j \in DOMAIN told : i # j => told[i] \cap told[j] = {}

=============================================================================
