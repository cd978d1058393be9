----------------------------- MODULE Reminders -----------------------------
(***************************************************************************)
(* The reminders of one event (reminders.go, potluckreminders.go): a       *)
(* message an hour before the start, one at the start, and a direct        *)
(* message asking a person what they bring from a day before.  A scheduler *)
(* calls the sweep every minute and does not wait for the call before.     *)
(*                                                                         *)
(* A sweep reads the event once and works from that copy, with the time it *)
(* started at; what it sends is stamped or recorded afterwards.  The hour, *)
(* the day and the quarter of an hour of grace are a few ticks here.       *)
(***************************************************************************)
EXTENDS Integers, FiniteSets

CONSTANTS
  Sweepers,          \* the calls of the sweep that may overlap
  MaxDate,           \* bound: dates the event moves through
  MaxMinute,         \* bound: the clock
  MaxUpsets          \* bound: what people change meanwhile, calls that fail, restarts

Lead   == 1  \* reminderLead
Grace  == 1  \* reminderGrace
Day    == 2  \* potluckReminderLead
Period == 2  \* from one date to the next

Stage == {"before", "start", "potluck"}
Dates == 1..MaxDate

VARIABLES
  minute,    \* the time
  date,      \* which date of the event this is
  startsAt,  \* when it starts
  stamps,    \* the stages stamped on the event's row
  asked,     \* potluck_reminders rows of this date
  going,     \* whether the person is going
  answered,  \* whether the person has said what they bring
  channel,   \* whether the guild has a reminder channel
  minuteRun, \* each sweep's call
  pings,     \* how often each stage of each date was sent
  slips,     \* sends whose stamp or row was lost
  upsets

event == <<date, startsAt, stamps, asked>>
settings == <<going, answered, channel>>
vars  == <<minute, event, settings, minuteRun, pings, slips, upsets>>

Idle == [at |-> "idle", now |-> 0, date |-> 1, startsAt |-> 0, stamps |-> {}]

Init ==
  /\ minute = 0 /\ date = 1 /\ startsAt = 2 /\ stamps = {} /\ asked = {}
  /\ going = TRUE /\ answered = FALSE /\ channel = TRUE
  /\ minuteRun = [s \in Sweepers |-> Idle]
  /\ pings = [d \in Dates |-> [g \in Stage |-> 0]]
  /\ slips = [d \in Dates |-> [g \in Stage |-> 0]]
  /\ upsets = 0

Upset == upsets < MaxUpsets /\ upsets' = upsets + 1
Fails == Upset
Works == UNCHANGED upsets

-----------------------------------------------------------------------------
\* What a sweep owes, from the copy it read.

BeforeIsDue(r)   == "before" \notin r.stamps /\ r.now >= r.startsAt - Lead /\ r.now < r.startsAt
BeforeIsOver(r)  == "before" \notin r.stamps /\ r.now >= r.startsAt
StartIsDue(r)    == "start" \notin r.stamps /\ r.now >= r.startsAt /\ r.now - r.startsAt <= Grace
StartIsOver(r)   == "start" \notin r.stamps /\ r.now - r.startsAt > Grace

\* Mutant of Reminded: the rows of an earlier day do not count, an automatic one included.
RemindedWithinTheDay == \E row \in asked : row.at > startsAt - Day

\* An automatic one, or a nudge within the day: a nudge before it does not
\* stand in for it.
Reminded == \E row \in asked : row.kind = "automatic" \/ row.at >= startsAt - Day

PotluckIsDue == minute < startsAt /\ startsAt <= minute + Day /\ ~Reminded

Due(r, g)  == IF g = "before" THEN BeforeIsDue(r) ELSE StartIsDue(r)
Over(r, g) == IF g = "before" THEN BeforeIsOver(r) ELSE StartIsOver(r)

\* The first stage after those in `done` the copy owes something for, or none:
\* the others are passed over without a step that anybody could see.
NextOwed(r, done) ==
  LET owed == {h \in {"before", "start"} \ done : Due(r, h) \/ Over(r, h)}
  IN  IF "before" \in owed THEN "before" ELSE IF owed # {} THEN "start" ELSE "idle"

-----------------------------------------------------------------------------
\* A call of the sweep sends the reminders of the event from a copy it reads, and
\* then, from what it reads anew, the direct message.

Copy == [Idle EXCEPT !.now = minute, !.date = date, !.startsAt = startsAt, !.stamps = stamps]

Starts(s, r, stage) ==
  /\ minuteRun[s].at = "idle" /\ stage # "idle"
  /\ minuteRun' = [minuteRun EXCEPT ![s] = [r EXCEPT !.at = stage]]
  /\ UNCHANGED <<minute, event, settings, pings, slips, upsets>>

SendDueReminders(s) == Starts(s, Copy, NextOwed(Copy, {}))
SendDuePotluckReminders(s) == PotluckIsDue /\ Starts(s, [Idle EXCEPT !.date = date], "potluck")

Goes(s, next) == minuteRun' = IF next = "idle" THEN [minuteRun EXCEPT ![s] = Idle]
                              ELSE [minuteRun EXCEPT ![s].at = next]
GoesOn(s, g) == Goes(s, NextOwed(minuteRun[s], IF g = "before" THEN {g} ELSE {"before", g}))

\* Stamping touches the row as it is now, whichever date it holds by then.
Stamp(g) == stamps' = stamps \cup {g} /\ UNCHANGED asked

\* Its moment went by: stamped without a message.
StampAsOver(s, g) ==
  /\ minuteRun[s].at = g /\ Over(minuteRun[s], g)
  /\ \/ Stamp(g) /\ Works
     \/ UNCHANGED <<stamps, asked>> /\ Fails
  /\ GoesOn(s, g)
  /\ UNCHANGED <<minute, date, startsAt, settings, pings, slips>>

\* sendReminder: nobody to tell is stamped, no channel and a refused message
\* are not.
SendReminder(s, g) ==
  LET r == minuteRun[s]
  IN
  /\ r.at = g /\ Due(r, g)
  /\ \/ ~going /\ Stamp(g) /\ UNCHANGED pings /\ Works /\ GoesOn(s, g)
     \/ going /\ ~channel /\ UNCHANGED <<stamps, asked, pings>> /\ Works /\ GoesOn(s, g)
     \/ going /\ channel /\ UNCHANGED <<stamps, asked, pings>> /\ Fails /\ GoesOn(s, g)
     \/ /\ going /\ channel /\ Works
        /\ pings' = [pings EXCEPT ![r.date][g] = @ + 1]
        /\ UNCHANGED <<stamps, asked>>
        /\ Goes(s, IF g = "before" THEN "stamp before" ELSE "stamp start")
  /\ UNCHANGED <<minute, date, startsAt, settings, slips>>

StampReminder(s, g) ==
  /\ minuteRun[s].at = IF g = "before" THEN "stamp before" ELSE "stamp start"
  /\ \/ Stamp(g) /\ Works /\ UNCHANGED slips
     \/ /\ UNCHANGED <<stamps, asked>> /\ Fails
        /\ slips' = [slips EXCEPT ![minuteRun[s].date][g] = @ + 1]
  /\ GoesOn(s, g)
  /\ UNCHANGED <<minute, date, startsAt, settings, pings>>

\* The direct message, whose row follows whether Discord took it or not.
SendPotluckReminder(s) ==
  LET r == minuteRun[s]
  IN
  /\ r.at = "potluck"
  /\ \/ /\ ~going \/ answered
        /\ Works /\ UNCHANGED pings /\ Goes(s, "idle")
     \/ /\ going /\ ~answered
        /\ \/ Works /\ pings' = [pings EXCEPT ![r.date]["potluck"] = @ + 1]
           \/ Fails /\ UNCHANGED pings
        /\ Goes(s, "record")
  /\ UNCHANGED <<minute, event, settings, slips>>

RecordPotluckReminder(s) ==
  /\ minuteRun[s].at = "record"
  /\ \/ /\ asked' = asked \cup {[kind |-> "automatic", at |-> minute]}
        /\ Works /\ UNCHANGED slips
     \/ /\ UNCHANGED asked /\ Fails
        /\ slips' = [slips EXCEPT ![minuteRun[s].date]["potluck"] = @ + 1]
  /\ Goes(s, "idle")
  /\ UNCHANGED <<minute, date, startsAt, stamps, settings, pings>>

-----------------------------------------------------------------------------
\* Everybody else.

Minute ==
  /\ minute < MaxMinute /\ minute' = minute + 1
  /\ UNCHANGED <<event, settings, minuteRun, pings, slips, upsets>>

\* The date has run: the event moves on, and its stamps and rows are cleared.
RollOverOccurrence ==
  /\ date < MaxDate /\ minute >= startsAt
  /\ date' = date + 1 /\ startsAt' = startsAt + Period
  /\ stamps' = {} /\ asked' = {} /\ answered' = FALSE
  /\ UNCHANGED <<minute, going, channel, minuteRun, pings, slips, upsets>>

\* An edit of the start keeps the stamps.
Reschedule ==
  /\ Upset
  /\ minute < startsAt /\ startsAt + 1 <= MaxMinute
  /\ startsAt' = startsAt + 1
  /\ UNCHANGED <<minute, date, stamps, asked, settings, minuteRun, pings, slips>>

\* The person joins or leaves, says what they bring; the channel is named.
Change ==
  /\ Upset
  /\ \/ going' = ~going /\ UNCHANGED <<answered, channel>>
     \/ ~answered /\ answered' = TRUE /\ UNCHANGED <<going, channel>>
     \/ channel' = ~channel /\ UNCHANGED <<going, answered>>
  /\ UNCHANGED <<minute, event, minuteRun, pings, slips>>

\* An organizer asks whoever has not answered.
Nudge ==
  /\ Upset
  /\ going /\ ~answered
  /\ asked' = asked \cup {[kind |-> "nudge", at |-> minute]}
  /\ UNCHANGED <<minute, date, startsAt, stamps, settings, minuteRun, pings, slips>>

\* A restart between a send and its stamp loses the stamp.
Restart ==
  /\ Fails
  /\ minuteRun' = [s \in Sweepers |-> Idle]
  /\ slips' = [d \in Dates |-> [g \in Stage |-> slips[d][g] + Cardinality(
       {s \in Sweepers : /\ minuteRun[s].date = d
                         /\ minuteRun[s].at = CASE g = "before" -> "stamp before"
                                                [] g = "start" -> "stamp start"
                                                [] g = "potluck" -> "record"})]]
  /\ UNCHANGED <<minute, event, settings, pings>>

Sweep(s) ==
  \/ SendDueReminders(s) \/ SendDuePotluckReminders(s)
  \/ SendPotluckReminder(s) \/ RecordPotluckReminder(s)
  \/ \E g \in {"before", "start"} : StampAsOver(s, g) \/ SendReminder(s, g) \/ StampReminder(s, g)

Next ==
  \/ \E s \in Sweepers : Sweep(s)
  \/ Minute \/ RollOverOccurrence \/ Reschedule \/ Change \/ Nudge \/ Restart

Spec == Init /\ [][Next]_vars
-----------------------------------------------------------------------------
TypeOK ==
  /\ minute \in Nat /\ date \in Dates /\ startsAt \in Nat
  /\ stamps \subseteq Stage
  /\ asked \subseteq [kind : {"automatic", "nudge"}, at : Nat]
  /\ going \in BOOLEAN /\ answered \in BOOLEAN /\ channel \in BOOLEAN
  /\ pings \in [Dates -> [Stage -> Nat]] /\ slips \in [Dates -> [Stage -> Nat]]
  /\ upsets \in Nat

\* A stage of a date is sent once: a call that overlaps another may send it
\* once more, and so may each send whose stamp or row was lost, and nothing
\* else can, whatever is edited, rolled over or nudged meanwhile.
RemindersAreBounded ==
  \A d \in Dates, g \in Stage : pings[d][g] <= Cardinality(Sweepers) + slips[d][g]

=============================================================================
