--------------------------- MODULE EventLifecycle ---------------------------
(***************************************************************************)
(* How one event ends: completed, cancelled, or rolled over to its next    *)
(* date when it repeats.                                                   *)
(*                                                                         *)
(* Nine things can end an event or undo the ending of one, each in its own *)
(* goroutine: the sweep on a timer, the same sweep by HTTP, the End and    *)
(* Cancel buttons, the open/close toggle, the ten-minute sync with         *)
(* Discord's own event, and the gateway's notice that that event was       *)
(* deleted.  Each reads the event, decides, and writes later; only         *)
(* CompleteLiveEvent decides inside its write.                             *)
(*                                                                         *)
(* Time is counted in half-dates: date d begins at 2d + 1 and is over at   *)
(* 2d + 2.  The roster is kept as the dates its people signed up for.  The *)
(* event starts published: it has a native event on Discord.               *)
(***************************************************************************)
EXTENDS Integers

CONSTANTS
  Rules,        \* recurrence rules: "none", "weekly", or one it cannot expand
  Sweepers,     \* the goroutines that sweep: the timer's and the HTTP route's
  Buttons,      \* the buttons organizers press
  MaxTime,      \* bound: half-dates that pass
  MaxPresses,   \* bound: presses of those buttons
  MaxFailures,  \* bound: calls to Discord that fail, and notices it loses
  MaxCrashes    \* bound: restarts of the process

ASSUME LifecycleAssumption ==
  /\ Rules \subseteq {"none", "weekly", "unreadable"}
  /\ Sweepers \subseteq {"timer", "route"}
  /\ Buttons \subseteq {"end", "cancel", "toggle"}
  /\ MaxTime \in Nat /\ MaxPresses \in Nat /\ MaxFailures \in Nat /\ MaxCrashes \in Nat

VARIABLES
  ev,        \* the row of the event
  native,    \* Discord's scheduled event
  roster,    \* the dates for which the people on the roster signed up
  job,       \* what each goroutine has read and will do next
  notice,    \* whether a GUILD_SCHEDULED_EVENT_DELETE is on its way
  time, presses, failures, crashes

vars == <<ev, native, roster, job, notice, time, presses, failures, crashes>>
counters == <<time, presses, failures, crashes>>

Actors   == Sweepers \cup Buttons \cup {"sync", "gateway"}
Status   == {"open", "closed", "completed", "cancelled"}
Archived == {"completed", "cancelled"}
Dates    == 0..MaxTime

Begins(d) == 2 * d + 1
EndsAt(d) == 2 * d + 2

Live     == ev.status \notin Archived
Underway == Live /\ Begins(ev.date) <= time
Over     == EndsAt(ev.date) <= time

\* nextOccurrence: the first date that begins after now.
NextDate == (time + 1) \div 2

\* Whether ListScheduledEvents lists the native event.
Listed == native.status \in {"scheduled", "active"}

Native == [status : {"scheduled", "active", "completed", "gone"}, date : Dates]
Steps  == {"idle", "complete", "completeLive", "line", "post", "endNative", "roll", "push",
           "save", "cancel", "import", "reconcile", "delete"}
NotListed == -1
\* seen is the date the sync's list gives the native event.
Job == [step : Steps, date : Dates, status : Status, seen : Dates \cup {NotListed}]

TypeOK ==
  /\ ev \in [status : Status, rule : Rules, date : Dates, inPast : BOOLEAN]
  /\ native \in Native
  /\ roster \in SUBSET Dates
  /\ job \in [Actors -> Job]
  /\ notice \in BOOLEAN
  /\ time \in 0..MaxTime /\ presses \in 0..MaxPresses
  /\ failures \in 0..MaxFailures /\ crashes \in 0..MaxCrashes

Idle == [step |-> "idle", date |-> 0, status |-> "open", seen |-> NotListed]

Init ==
  /\ ev \in [status : {"open"}, rule : Rules, date : {0}, inPast : {FALSE}]
  /\ native = [status |-> "scheduled", date |-> 0]
  /\ roster = {}
  /\ job = [p \in Actors |-> Idle]
  /\ notice = FALSE
  /\ time = 0 /\ presses = 0 /\ failures = 0 /\ crashes = 0

At(p, step) == p \in Actors /\ job[p].step = step

\* p goes on to a step; what it read is kept as long as a later step uses it.
GoTo(p, step) ==
  job' = [job EXCEPT ![p] =
            IF step \in {"push", "reconcile"} THEN [Idle EXCEPT !.step = step, !.seen = job[p].seen]
                                              ELSE [Idle EXCEPT !.step = step]]

\* A call to Discord that fails; the caller logs it and goes on.
Fails == failures < MaxFailures /\ failures' = failures + 1
Works == failures' = failures

Press == presses < MaxPresses /\ presses' = presses + 1

-----------------------------------------------------------------------------
(* Time passing: Store.CompleteFinishedEvents, then the recurring ones.    *)

\* Mutant of FindFinished: an event with signups closed is taken for archived.
FindFinishedOpen(p) ==
  /\ At(p, "idle") /\ p \in Sweepers
  /\ ev.status = "open" /\ Over
  /\ \/ ev.rule = "none" /\ GoTo(p, "complete")
     \/ ev.rule = "weekly" /\ job' = [job EXCEPT ![p].step = "roll", ![p].date = NextDate]
  /\ UNCHANGED <<ev, native, roster, notice, counters>>

\* The two scans.  An occurrence whose rule cannot be expanded is left as is.
FindFinished(p) ==
  /\ At(p, "idle") /\ p \in Sweepers
  /\ Live /\ Over
  /\ \/ ev.rule = "none" /\ GoTo(p, "complete")
     \/ ev.rule = "weekly" /\ job' = [job EXCEPT ![p].step = "roll", ![p].date = NextDate]
  /\ UNCHANGED <<ev, native, roster, notice, counters>>

\* The write after the scan (and the sync's, when Discord says it is over),
\* which does not look at the status again.
Complete(p) ==
  /\ At(p, "complete")
  /\ ev' = [ev EXCEPT !.status = "completed"]
  /\ GoTo(p, "line")
  /\ UNCHANGED <<native, roster, notice, counters>>

\* Mutant of RollOver: the roster carries over, as Discord's Interested does.
RollOverKeepingRoster(p) ==
  /\ At(p, "roll")
  /\ ev' = [ev EXCEPT !.status = "open", !.date = job[p].date]
  /\ GoTo(p, "push")
  /\ UNCHANGED <<native, roster, notice, counters>>

\* rollOverOccurrence: RollOverOccurrence's one transaction.  What it writes
\* for regulars, potluck and roles is left out here.
RollOver(p) ==
  /\ At(p, "roll")
  /\ ev' = [ev EXCEPT !.status = "open", !.date = job[p].date]
  /\ roster' = {}
  /\ GoTo(p, "push")
  /\ UNCHANGED <<native, notice, counters>>

\* PushEditToDiscord.  The times go only while the event is ahead, and Discord
\* refuses them for an event that is running.
Push(p) ==
  /\ At(p, "push")
  /\ \/ /\ Works
        /\ native' = IF native.status = "scheduled" /\ Begins(ev.date) > time
                     THEN [native EXCEPT !.date = ev.date] ELSE native
     \/ Fails /\ native' = native
  /\ GoTo(p, IF p = "sync" THEN "reconcile" ELSE "idle")
  /\ UNCHANGED <<ev, roster, notice, time, presses, crashes>>

-----------------------------------------------------------------------------
(* Settling a finished event: its line in past events.                     *)

AfterLine(p) == IF p = "end" THEN "endNative" ELSE "idle"

\* postPastEventLine up to the check that the line is there already.
CheckLine(p) ==
  /\ At(p, "line")
  /\ GoTo(p, IF ev.inPast THEN AfterLine(p) ELSE "post")
  /\ UNCHANGED <<ev, native, roster, notice, counters>>

\* The message, and the event repointed at it.
PostLine(p) ==
  /\ At(p, "post")
  /\ \/ Works /\ ev' = [ev EXCEPT !.inPast = TRUE]
     \/ Fails /\ ev' = ev
  /\ GoTo(p, AfterLine(p))
  /\ UNCHANGED <<native, roster, notice, time, presses, crashes>>

-----------------------------------------------------------------------------
(* Organizers.                                                             *)

\* EndEventNow up to its write.
PressEnd ==
  /\ Press /\ At("end", "idle") /\ Underway
  /\ \/ /\ ev.rule = "weekly"
        /\ job' = [job EXCEPT !["end"].step = "roll", !["end"].date = NextDate]
     \/ ev.rule # "weekly" /\ GoTo("end", "completeLive")
  /\ UNCHANGED <<ev, native, roster, notice, time, failures, crashes>>

\* Mutant of CompleteLive: End marks the event and settles nothing.
CompleteLiveOnly(p) ==
  /\ At(p, "completeLive")
  /\ ev' = IF Live THEN [ev EXCEPT !.status = "completed"] ELSE ev
  /\ GoTo(p, "idle")
  /\ UNCHANGED <<native, roster, notice, counters>>

\* CompleteLiveEvent: who loses the race settles nothing.
CompleteLive(p) ==
  /\ At(p, "completeLive")
  /\ ev' = IF Live THEN [ev EXCEPT !.status = "completed"] ELSE ev
  /\ GoTo(p, IF Live THEN "line" ELSE "idle")
  /\ UNCHANGED <<native, roster, notice, counters>>

\* EndScheduledEvent.
EndNative(p) ==
  /\ At(p, "endNative")
  /\ \/ /\ Works
        /\ native' = IF Listed THEN [native EXCEPT !.status = "completed"] ELSE native
     \/ Fails /\ native' = native
  /\ GoTo(p, "idle")
  /\ UNCHANGED <<ev, roster, notice, time, presses, crashes>>

\* toggleSignups, as far as what it saw.
PressToggle ==
  /\ Press /\ At("toggle", "idle") /\ Live
  /\ job' = [job EXCEPT !["toggle"].step = "save",
               !["toggle"].status = IF ev.status = "open" THEN "closed" ELSE "open"]
  /\ UNCHANGED <<ev, native, roster, notice, time, failures, crashes>>

\* applyEventEdit with the status of the toggle.
SaveToggle(p) ==
  /\ At(p, "save")
  /\ ev' = [ev EXCEPT !.status = job[p].status]
  /\ GoTo(p, "push")
  /\ UNCHANGED <<native, roster, notice, counters>>

\* handleCancelButton: only the press that opens the confirm looks at the status.
PressCancel ==
  /\ Press /\ At("cancel", "idle") /\ Live
  /\ GoTo("cancel", "cancel")
  /\ UNCHANGED <<ev, native, roster, notice, time, failures, crashes>>

\* Mutant of CancelEverywhere: Discord's spelling of the status is stored.
CancelMisspelled(p) ==
  /\ At(p, "cancel")
  /\ ev' = [ev EXCEPT !.status = "canceled"]
  /\ GoTo(p, "idle")
  /\ UNCHANGED <<native, roster, notice, counters>>

\* cancelEventEverywhere.  The native event is left to the next sync.
CancelEverywhere(p) ==
  /\ At(p, "cancel")
  /\ ev' = [ev EXCEPT !.status = "cancelled"]
  /\ GoTo(p, "idle")
  /\ UNCHANGED <<native, roster, notice, counters>>

\* Join, for the date the event is at.
SignUp ==
  /\ ev.status = "open"
  /\ roster' = roster \cup {ev.date}
  /\ UNCHANGED <<ev, native, job, notice, counters>>

-----------------------------------------------------------------------------
(* The sync with Discord, every ten minutes.                               *)

\* ListScheduledEvents.
SyncList ==
  /\ At("sync", "idle")
  /\ job' = [job EXCEPT !["sync"].step = "import",
                       !["sync"].seen = IF Listed THEN native.date ELSE NotListed]
  /\ UNCHANGED <<ev, native, roster, notice, counters>>

\* The start of the copy the sync listed has slid past an occurrence that ended.
Slid(seen)   == ev.rule = "weekly" /\ seen > ev.date /\ Over
\* Our date has not reached Discord (compareWithDiscordCopy).
Unsent(seen) == seen \notin {NotListed, ev.date} /\ Begins(ev.date) > time

\* syncOneScheduledEvent, where it meets an event of ours.
Import(p) ==
  LET seen == job[p].seen IN
  /\ At(p, "import")
  /\ \/ Slid(seen) /\ job' = [job EXCEPT ![p].step = "roll", ![p].date = seen]
     \/ ~Slid(seen) /\ Unsent(seen) /\ GoTo(p, "push")
     \/ ~Slid(seen) /\ ~Unsent(seen) /\ GoTo(p, "reconcile")
  /\ UNCHANGED <<ev, native, roster, notice, counters>>

\* Mutant of NativeVerdict: a completed native event is left to the sweep.
VerdictLeavesCompleted == IF native.status = "gone" THEN "cancel" ELSE "idle"

\* What is due to a live event whose native event is not listed any more.
NativeVerdict == CASE native.status = "completed" -> "complete"
                   [] native.status = "gone"      -> "cancel"
                   [] OTHER                       -> "idle"

\* reconcileWithNative up to its write; asking for the native event may fail.
Reconcile(p) ==
  LET listed == job[p].seen # NotListed IN
  /\ At(p, "reconcile")
  /\ \/ Live /\ ~listed /\ Works /\ GoTo(p, NativeVerdict)
     \/ Live /\ ~listed /\ Fails /\ GoTo(p, "idle")
     \/ ev.status = "cancelled" /\ listed /\ Works /\ GoTo(p, "delete")
     \/ (IF Live THEN listed ELSE ev.status = "completed" \/ ~listed) /\ Works /\ GoTo(p, "idle")
  /\ UNCHANGED <<ev, native, roster, notice, time, presses, crashes>>

\* Mutant of DeleteNative: an event that is running is not deleted.
DeleteNativeScheduled(p) ==
  /\ At(p, "delete")
  /\ \/ /\ Works
        /\ native' = IF native.status = "scheduled" THEN [native EXCEPT !.status = "gone"] ELSE native
        /\ notice' = (notice \/ native.status = "scheduled")
     \/ Fails /\ UNCHANGED <<native, notice>>
  /\ GoTo(p, "idle")
  /\ UNCHANGED <<ev, roster, time, presses, crashes>>

\* DeleteScheduledEvent on behalf of a cancelled event.
DeleteNative(p) ==
  /\ At(p, "delete")
  /\ \/ /\ Works
        /\ native' = [native EXCEPT !.status = "gone"]
        /\ notice' = (notice \/ native.status # "gone")
     \/ Fails /\ UNCHANGED <<native, notice>>
  /\ GoTo(p, "idle")
  /\ UNCHANGED <<ev, roster, time, presses, crashes>>

\* onScheduledEventDeleted up to its write.
HearDelete ==
  /\ notice /\ At("gateway", "idle")
  /\ notice' = FALSE
  /\ GoTo("gateway", IF Live THEN "cancel" ELSE "idle")
  /\ UNCHANGED <<ev, native, roster, counters>>

-----------------------------------------------------------------------------
(* Discord and the world.                                                  *)

NativeBegins ==
  /\ native.status = "scheduled" /\ Begins(native.date) <= time
  /\ native' = [native EXCEPT !.status = "active"]
  /\ UNCHANGED <<ev, roster, job, notice, counters>>

\* Its end time passes or somebody presses End there; one that repeats slides
\* to its next date.
NativeEnds ==
  /\ native.status = "active"
  /\ native' = IF ev.rule = "weekly" THEN [status |-> "scheduled", date |-> NextDate]
               ELSE [native EXCEPT !.status = "completed"]
  /\ UNCHANGED <<ev, roster, job, notice, counters>>

\* Somebody deletes it there; the notice is lost while the socket is down.
NativeDeleted ==
  /\ Listed
  /\ native' = [native EXCEPT !.status = "gone"]
  /\ \/ Works /\ notice' = TRUE
     \/ Fails /\ notice' = notice
  /\ UNCHANGED <<ev, roster, job, time, presses, crashes>>

Tick ==
  /\ time < MaxTime /\ time' = time + 1
  /\ UNCHANGED <<ev, native, roster, job, notice, presses, failures, crashes>>

\* The process restarts; what it had read and not written is gone.
Restart ==
  /\ crashes < MaxCrashes /\ crashes' = crashes + 1
  /\ job' = [p \in Actors |-> Idle]
  /\ notice' = FALSE
  /\ UNCHANGED <<ev, native, roster, time, presses, failures>>

-----------------------------------------------------------------------------
\* A goroutine going on with what it began.
Proceed(p) ==
  \/ Complete(p) \/ RollOver(p) \/ Push(p)
  \/ CheckLine(p) \/ PostLine(p)
  \/ CompleteLive(p) \/ EndNative(p)
  \/ SaveToggle(p) \/ CancelEverywhere(p)
  \/ Import(p) \/ Reconcile(p) \/ DeleteNative(p)

Next ==
  \/ \E p \in Sweepers : FindFinished(p)
  \/ \E p \in Actors : Proceed(p)
  \/ PressEnd \/ PressToggle \/ PressCancel \/ SignUp
  \/ SyncList \/ HearDelete
  \/ NativeBegins \/ NativeEnds \/ NativeDeleted
  \/ Tick \/ Restart

Spec == Init /\ [][Next]_vars

\* Goroutines run, the gateway calls its handlers, and the two timers (main's
\* five minutes, the scheduler's ten) tick; people, Discord and the clock owe
\* nothing.
Fairness ==
  /\ \A p \in Actors : WF_vars(Proceed(p))
  /\ \A p \in Sweepers \cap {"timer"} : WF_vars(FindFinished(p))
  /\ WF_vars(SyncList) /\ WF_vars(HearDelete)

FairSpec == Spec /\ Fairness

-----------------------------------------------------------------------------
(* Properties.                                                             *)

\* Nobody is on the roster for a date but the one the event is at: whichever
\* of sweep, import and End rolls it, a rollover never carries people over.
NobodyCarriesOver == roster \subseteq {ev.date}

\* An event whose date is over does not stay: it is archived, or moves on to
\* its next date, whether its signups were open or closed.
OverdueIsSettled ==
  (Live /\ Over /\ ev.rule # "unreadable") ~> (~Live \/ ~Over)

\* An event whose native event was ended or deleted in Discord is archived,
\* also if the gateway's notice was lost and its own end is far away.
NativeOverIsTaken ==
  (Live /\ native.status \in {"completed", "gone"}) ~> ~Live

\* Cancelling an event here takes down its native event too.
CancelReachesDiscord ==
  (ev.status = "cancelled" /\ Listed) ~> (ev.status # "cancelled" \/ ~Listed)

\* A completed event has its line in past events, however it was completed,
\* unless a call to Discord failed or the process restarted on the way.
CompletedLeavesALine ==
  (ev.status = "completed") ~> (ev.inPast \/ failures > 0 \/ crashes > 0)

\* eventmanage.go: "Canceling deletes the native Discord event and cannot be
\* undone."  A cancelled event stays cancelled.
CancelIsFinal == [][ev.status = "cancelled" => ev'.status = "cancelled"]_vars
=============================================================================
