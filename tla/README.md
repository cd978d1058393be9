# A verification project for discord-signup-store

The service keeps the sign-ups of Discord events: a roster with a limit, a
waiting line, places kept by invites, and everything Discord shows of it. This
directory holds TLA+ modules of its core, TLC runs that check them on small
instances, and TLAPS proofs of what holds for every instance: of every safety
property the runs check. `PROJECT.json`
lists components, runs, mutants, hazards, theorems, and for each definition the
source lines it models. Paths below are relative to `src/`.

Run a check with `tlc -config MCRosterLine.cfg MCRoster`; check the proofs with
`tlapm RosterProofs.tla`.

## Inventory

One Go process, one SQLite file, one Discord guild per installation or several.
Requests (Discord interactions, web pages, the machine API), gateway callbacks
and timers each run in their own goroutine; they share the store and a few
locks, nothing else. Every store transaction is `BEGIN IMMEDIATE`, so each is
atomic; a handler is a sequence of transactions and calls to Discord, and
what it read may be stale when it writes.

| Component | State | Operations | Modelled by |
|---|---|---|---|
| Roster (`roster.go`, `waitlistorder.go`, `holds.go`, `interest.go`, `rosterplace.go`, `regulars.go`) | `signups`, `event_invites`, `event_pins`, `signup_updates` | join, leave, maybe, place, move, invite, release, Interested on and off, regulars, rollover | `Roster` |
| Settings and capacity (`store.go`, `capacity.go`, `eventmanage.go`) | `events` | edit, delete, promote to fill, toggle, cancel | `Roster`, `EventLifecycle` |
| Publishing (`eventsync.go`, `eventtablerender.go`, `forum.go`, `newevents.go`, `message.go`) | the queue in memory, `published_signature`, the messages on Discord, roles | enqueue, claim, one pass, the republish sweep, the tables' lock | `EventSync`, `Mirror` |
| Lifecycle (`eventend.go`, `occurrence.go`, `discordevents.go`, `gateway.go`) | event status and date, Discord's own event, the line in past events | completion by time, End, Cancel, toggle, rollover, import, reconcile, delete notice | `EventLifecycle` |
| Two-way edits with Discord's event (`discordevents.go`) | the row, the fields last written to Discord, Discord's copy | publish, import, compare, take, resend, settle what is on one side | `NativeEvents` |
| Forum posts (`forum.go`, `forumfollows.go`, `gateway.go`) | the thread, its reactions, `forum_post_follows` | react, follow, unfollow, refresh, reopen | `ForumPost` |
| Gateway supervisor (`gateway_supervisor.go`) | the session, its socket and lock, a channel of Disconnects | open, watch, give up, close | `Gateway` |
| Reminders (`reminders.go`, `potluckreminders.go`) | stamps on the event, `potluck_reminders` | send, stamp, nudge | `Reminders` |
| Messages (`eventmessages.go`) | `event_messages` | claim, send, finish | `EventMessages` |
| Roster notices (`rosternotices.go`) | `roster_watches` and its cursor over the log | watch, tell, mark | `RosterNotices` |
| Drawings (`avatars.go`, `mascots*.go`, `filestore.go`, the drawer) | requests, drawings, photos in file-store | ask, withdraw, draw, keep, purge, choose | `Drawings` |
| Event pictures (`eventpictures.go`, the painter) | a scene, its request, prints | ask, write, print, fail | `EventPictures` |
| Server set-up (`guildsetup.go`, `botguilds.go`) | channels on Discord, the server's row, `bot_guilds` | make, adopt, record, list, prune | `GuildSetup` |
| Potluck (`potluck*.go`) | items, requests, the copied rows of a spreadsheet | answer, take, ask, edit, copy | `Potluck` |
| Event roles (`sheetroles.go`) | `sheet_roles`, `sheet_role_signups` | take, leave, add, edit, place, copy | `SheetRoles` |
| Web sessions and rights (`websession.go`, `weboauth.go`, `sessionrefresh.go`, `editauthority.go`, `webjoin.go`) | `web_sessions`, `oauth_states`, rules and names of editors | log in and out, refresh, extend, sweep, edit, join | `WebAccess` |
| Replies (`dmreplies.go`, `dmreplyattachments.go`, `dmhandoffs.go`, `messagestore.go`) | what was sent, replies, their images, handoffs | receive, match, keep, record, purge, retry | `Replies` |
| Recurrence (`recurrence.go`) | the rule, Discord's form of it | parse, move between zones, next date | `Recurrence` |
| Pages, one-statement rows, time words, clients, assets | rows and text | pages, lookups | not modelled, see below |

How they interact. A handler changes the roster in the store, answers, and
starts a goroutine that hands the change to the publishing queue; the queue's
writer re-reads the store and writes Discord. The lifecycle's sweep (every five
minutes) and sync (every ten) change status and date in the store, and through
a rollover the roster too; both end by publishing. Discord's gateway calls back
into the roster (Interested, reactions) and the lifecycle (an event deleted).

What is hard, and what makes each part correct:

* Roster: one limit shared by people and by kept places, changed by seven kinds
  of call; an order of the line that survives ties in a second and organizers'
  moves; a log that must tell the same story; two transactions for one un-mark.
  Correct: no overfilling, nobody passed over, no freed place left idle, nobody
  moved by others' acts.
* Publishing: many goroutines per event, reads at different times in one pass,
  failures and restarts in the middle. Correct: one writer, nothing shown goes
  back, everything new is shown in the end.
* Lifecycle: nine goroutines that end an event, each from what it read. Correct:
  every event is settled, here and on Discord; nobody is carried to a date they
  did not sign up for; what was cancelled stays so (it does not, see below).

* The others are smaller machines with the same troubles: a step after a call
  that failed or was cut off by a restart (reminders, set-up, drawings, images),
  two runs of one sweep or two deliveries of one message, and a decision from a
  list read before (Discord's events, spreadsheet copies, the painter, a login's
  permissions). Correct: nothing is done twice without a failure that explains
  it, nothing is lost, and what was asked for happens in the end.

`PROJECT.json` lists each hazard at its line; one that no property covers says
why.

## The modules

### Roster

One action per store method, for one event. `row[u]` is the person's row in
`signups` ("none" is no row), `invites` the rows of `event_invites` that keep a
place or a pass, `regular[u]` the person's pins folded to their state,
`logged[u]` the last `to_state` in `signup_updates`, `listed[u]` the last
Interested signal, `unmarking` the un-marks whose first transaction is done.
Guards hold only what the transaction itself checks, since a handler's own checks
may be stale by then; so any interleaving of handlers is a behaviour. An event
is created open, empty, with any limit.

Left out: names, wording, potluck and event-role rows, paths that only read.
Time is kept where it matters: arrival is a second and an id,
and the clock may stand still between arrivals. After an edit raises the limit,
`PromoteToFillCapacity` is an action of its own, as in the code it is a
transaction of its own.

Properties: `LogTellsTheRoster`, `OneHoldPerPerson`, `OneLine`,
`InterestIsKept` (invariants); `MovesUpInOrder`, `LimitHolds`,
`NewcomersJoinTheBack`, `FreedPlaceIsGiven`, `NobodyIsBumped` (of steps). Each
names the exceptions the code intends: an organizer's pick, a pass, a new date.

### EventSync and Mirror

`EventSync` is one event's publishing. A change's goroutine is a number, the
sweep's is 0; `pc` is where each is in `syncAfterChange` and
`publishEventToDiscord`, `pass` its locals, `run` the queue's entry. A roster is
a version in `hist`; a signature stands for the roster it is taken over, so two
versions with one roster have one signature. Event and roster are read in two
steps, the table and the forum post read the roster again when their turn comes,
and each call may fail or be the last before a restart. The tables are the
guild's, so others redraw them as well (`OtherDraws`, `OtherSends`) under
`tableLock`.

`Mirror` is the abstract specification: copies that each move to newer versions
and never back. `NoSurfaceGoesBack` is the refinement: the version of the roster
each surface shows implements `Mirror`.

Left out: settings edits (and with them the import's resend outside the queue),
✅ removal, forum follows, the text of titles; whether a title rename is due is a
free choice, since it depends on time only. The table's event and roster are
drawn in one read. The event starts published once.

### EventLifecycle

How one event ends. `job[p]` is what goroutine `p` (sweep, route, buttons, sync,
gateway) read and will do next, so every read-then-write of the code is two
actions with anything in between. Time is in half-dates: date d begins at
2d + 1 and is over at 2d + 2. `native` is Discord's scheduled event, `roster`
the set of dates its people signed up for, `notice` the delete notice on its way.

Left out: the first publish (an event starts with a native event), a date edited
by hand or in Discord, the machine API's status patch, soft delete, regulars and
potluck rows at a rollover, the line a rollover posts for the date it leaves, and how often a
line is posted (two goroutines may both find none and post two). A past-events
channel is configured. A list of Discord's events that fails is a sync that does
not happen. Rules are "none", "weekly" and one that cannot be expanded; the next
date of a rule is the first that begins after now.

### MCServices and MCOverlaps, sums of the parts that share no state

Fourteen components share no state with each other that their properties are
about. Each is a module with its own Init, Next and properties. Two modules
instantiate them side by side, and a variable `part` says which one a behaviour
is about: `Except(p)` fixes `part` and leaves every variable of the other parts
alone, so the behaviours are those of the parts, one beside the other. A
property is asked where `part` is its own; a part that a behaviour is not about
stays in an initial state. That gives a run where each part would ask one.

`MCOverlaps` has the parts whose calls run beside each other, with two calls at
once: reminders, drawings, set-up, Discord's event, potluck, roles, access and
replies. `Calls` is the set of calls of each of them, which are alike, so states
that differ by exchanging them count as one. It checks no liveness. `MCServices` has the other
parts, and set-up and Discord's event once more with one call at a time, for what
must happen in the end; the fairness is each part's own.

**Gateway**. `phase` is where the supervisor's goroutine is in `Run` and
`connect`, `socket` and `stuck` are the discordgo session's, external and known
from how the supervisor uses them, `notices` the Disconnect handlers that have
not run, `noticed` its channel of one place. Opening, the heartbeat check
(which must not wait for the session's lock), giving a session up and shutdown are actions.

**ForumPost**. One event's thread. `writer` is the pass of the event's one
writer (take the changes, remove reactions of leavers, refresh the post, follow
and unfollow, record), `sweep` is `UnfollowDueForumPosts`, which runs beside it,
`inbox` the reaction events not handled yet, in any order and with the bot's own
removals. The waitlist, separate roles and wording are left out.

**Reminders**. `minuteRun[s]` is a call of the sweep with the copy of the event it
read; it sends and then stamps. People reschedule, roll over, answer and nudge
in between. One call is `SendDueReminders` and then `SendDuePotluckReminders`, which
reads anew; here either may come at any time. The lead, the grace and the day are one or two ticks.

**EventMessages**. `messages` is `event_messages`; a claim and its check of the
limit are one transaction, the sends one action per person, the finish another.

**RosterNotices**. The log is cut into bursts (`StartsBurst`, `EndsBurst`), a sweep
reads, sends and moves the cursor in three steps.

**Drawings**. A person's avatars and a server's mascots are one life of a request,
for two owners. A form's upload, its transaction and the purge of what it replaced are
steps; a drawer claims, draws, saves, purges. `orphans` are photos whose purge
failed, which the code only logs.

**EventPictures**. The painter works from a list (`painter`), while details, people
and the switch change; `answers` are the requests a scene or a failure came for.

**GuildSetup**. A set-up reads the channels once and creates one at a time; the
board stands for all text channels. `botMember` is the truth, `guildNotices` what the
gateway has sent, `sync` the ten-minute pass between its listing and its pruning.

**NativeEvents**. One event here and Discord's copy of it, both ways. `row.wrote` is what
was last written there, `passes[p]` a sync with the list it took, `push` the
publisher, `raced` whether a write of ours reached Discord, or a stale copy was
recorded, while the pass worked from its list. One text stands for the fields,
which the code compares one at a time. `PublishedTwice` is an event for which two passes
that both found no link each made an event on Discord (`discordevents.go:620-688` reads
the link, calls Discord and then writes it).

**Potluck**. `rows` are the items on the sheet, `polls[p]` a copy of the
spreadsheet that read lines, then the roster, and then writes line by line.

**SheetRoles**. `places` are the sign-ups for roles, `copy` the poll with the roles it
read before its download.

**WebAccess**. One browser's login; `requests[q]` is a request with the session it
loaded and whether Discord refused that request's own refresh (`kept`), `standing` what
Discord says of the person, `lost` since when. An hour is
the unit of the clock, and no request outlives two.

**Replies**. `worker[w]` is a delivery or a retry, `attachments` what is recorded
of a message's images, `stored` file-store, `leftFiles` what a failed purge left.
The page's hiding of messages by a handoff's span is left out.

**Recurrence**. Pure operators on day numbers of a real calendar (leap years,
months' lengths, weekdays: `YearOf`, `MonthOf` and `FirstOfMonth` between a day's
number and its date), written without recursion, used by actions that
import, edit, push and move on. `DailyRule`, `WeeklyRule`, `MonthlyRule` and
`YearlyRule` build the rules the program itself offers. Reference definition: `Fires(rule, start, n)`, whether a
rule names a day, in terms of the calendar alone.

## The runs

| Run | Instance | Shows |
|---|---|---|
| `line` | three people, limits 0, 1, 2, one invitee, 4 rows, 1 invite, one second | order, limit, freed places, nobody bumped |
| `signals` | two people, host a regular, Interested, limit 1, 2 seconds, 2 invites | holds, interest over rebuilt rows and restarts, rollover |
| `sync` | one person, 2 changes, or 1 and a redraw of the table by others, 1 failure, 1 restart | one writer, no change lost, refinement of `Mirror`, new rosters shown |
| `lifecycle` | 3 rules, timer sweep, 3 buttons, 2 half-dates, 1 press, 1 failure, 1 restart | settled here and on Discord, no carry-over |
| `services` | eight parts, each on the instance below | their properties, liveness among them |
| `overlaps` | eight parts with two calls at once, each on the instance below | their safety properties |
| `rejoin`, `release`, `sync_newest`, `sync_roles`, `cancelled_reopens`, `sent_rules` | as small as the counterexample allows | the divergences below |

Why the bounds are enough for the interesting cases. Three people are the least
with somebody going, somebody ahead and somebody behind; limits 0, 1 and 2 give
no limit, raising, lowering under the number going. Four rows let one person
leave and come back. `line` keeps the event open; in `signals` it is closed and
opened too, which the archived statuses would differ from only in that nobody is
placed by an organizer any more. `line` needs no clock: all arrivals fall into one second,
the tie the id must break; `signals` has two. Two changes are the least for a
burst, an overtaking and an undo; redraws by others are bounded together with
them. Two half-dates let a date begin and end with its
successor still ahead; the run with two presses (all pairs of buttons,
292,640 states) passes as well but takes minutes. In `line`, the two people who
may do the same things are symmetric; no liveness is checked there.

Part by part, in `services`:

| Part | Instance | Property |
|---|---|---|
| gateway | 6 faults, waits 1 to 5 | `SocketComesBack`: every death is noticed, and mended in the end (live) |
| forum | 2 people, 2 moves, 1 fault | `LeaversComeOff` (live) |
| messages | 2 organizers, 3 messages, 3 moments | `DirectMessagesAreLimited` |
| notices | 1 person, 3 updates, 5 moments, 1 fault | `ToldOnce`: what was told is what the whole log says, once |
| pictures | 2 people, 2 edits, 2 requests, 1 killed run | `RequestsAreAnswered` (live) |
| setup | 1 set-up, 4 channels, 1 renamed or deleted, 2 joins or leaves, 1 fault | `GuildListComesRight` (live) |
| native | 1 pass and the publisher, 1 edit, 1 fault | `EndsReachBothSides` (live) |
| recurrence | starts on 1 January and 29 February 2028, in zones up to a day off UTC, swept at once or 8 days late, 2 steps, every shape of rule | `RepeatsAreKept`: the next date is the rule's first; an imported rule goes back as it came |

and in `overlaps`:

| Part | Instance | Property |
|---|---|---|
| reminders | 1 person, 2 sweeps, 2 dates, 1 edit, failed call or restart | `RemindersAreBounded`: sends of a stage are explained by overlap and failures |
| drawings | 2 drawers, 1 request, 2 drawings, 1 fault | `DrawingsAreAccountedFor`: photos, and drawings shown |
| setup | 2 set-ups, 4 channels, 1 join or leave, 1 fault | `SetupMakesNoChannelTwice` |
| native | 2 passes and the publisher, 1 event on Discord, 1 edit on either side, 1 fault | `OnlyTypedEditsAreTaken` (of steps); with more events on Discord it is proved |
| potluck | 2 people, 1 line, 2 polls, 1 wanted, 2 rows, 1 move | `ClaimsAddUp` |
| roles | 2 people, 1 role, cap 1, 2 organizers, 2 moves, 2 joins, 1 copy | `RolesAddUp` (of steps) |
| access | 2 requests, 5 hours, 1 change of rights, 1 refusal | `LostPermissionsRunOut` |
| replies | 1 message with 1 file, 2 deliveries and 1 retry, 1 fault | `ImagesAreAccountedFor` |

`TypeOK` is asked in both. The instances are the least in which the case a property
is about happens, which its mutant shows: the property fails there when the code
is changed the way a plausible bug would. Two calls are the least that overlap;
three are a value of the same CONSTANT, and do not fit in five minutes with eight
parts. Every action and every disjunct of each part fires.

Deadlock checking is off: each instance stops at its bounds, and a quiet system
really has nothing to do.

Each property of a passing run has a mutant in `PROJECT.json`: a mutated copy of
one operation (defined beside it, marked "Mutant of") under which TLC finds the
property violated.

### Fairness

`Roster` needs none. In `EventSync`: weak fairness of each goroutine's next step
(the Go scheduler runs what is runnable, calls to Discord time out), of a
redraw that holds the lock finishing, and of the republish sweep while something is stale,
which `cmd/discord-signup-store/main.go` and the scheduler start on a timer. In
`EventLifecycle`: weak fairness of each goroutine's next step, of the timer's
sweep (five minutes), the sync (ten minutes) and the gateway's handler. The HTTP sweep, people, Discord
and the clock owe nothing. Failures and restarts are bounded, which says that
Discord answers eventually. In `services`: weak
fairness of the supervisor's goroutine and of Disconnect handlers (`Gateway`;
none of a Close that may hang), of the writer, the sweep and a day passing (`ForumPost`),
of the painter's run (`EventPictures`), of the ten-minute pass and the gateway's
handlers (`GuildSetup`), of the publisher and each pass (`NativeEvents`).

## Proofs

Each safety property that a passing run checks (invariants, properties of steps, the
refinement of `Mirror`) is also a theorem, for every value of the constants: any
people, calls at once, failures, restarts and lengths of time. `PROJECT.json` lists
the theorems. A proof gives a component an inductive invariant, one lemma per action or
group of actions, and a temporal step at the end.

| Module | About | Theorems |
|---|---|---|
| `RosterProofs` | `Roster` | `TypeCorrect`, `LogIsTheRoster`, `OneHold`, `LineIsOne`, `InterestIsRemembered`; of steps: `NobodyIsEverBumped`, `PeopleMoveUpInOrder`, `TheLimitHolds`, `EachFreedPlaceIsGiven`, `NewcomersAlwaysJoinTheBack` |
| `EventSyncProofs` | `EventSync`, `Mirror` | `TypeCorrect`, `OneWriterAtATime`, `BurstsEndPublished`, `BankedAreApplied`, `SurfacesMirrorTheRoster` |
| `EventLifecycleProofs` | `EventLifecycle` | `TypeCorrect`, `RosterIsOfTheDate` |
| `GatewayProofs` | `Gateway` | `TypeCorrect`, `DeathsAreNoticed` |
| `EventMessagesProofs` | `EventMessages` | `TypeCorrect`, `LimitIsKept` |
| `RosterNoticesProofs` | `RosterNotices` | `TypeCorrect`, `ChangesAreToldOnce` |
| `ServicesProofs` | `MCServices` | `ServicesAreTyped`, `DirectMessagesStayLimited`, `SettledChangesAreToldOnce`, `RepeatsStayKept` |
| `OverlapsProofs` | `MCOverlaps` | `OverlapsAreTyped` and one for each of its eight parts |

They take a few minutes each, `OverlapsProofs` a quarter of an hour.

### The arguments

*Roster.* The log's, the holds' and the mark's invariants are inductive with `TypeOK`
and small companions (`InterestHasARow`: a mark is only ever on a row). `OneLine` needs
`RowsHaveTheirIds` and `OwnIds`: ids in use are below `nextId` and no two people share
one, so `Ahead` is total. The properties of steps all come down to what a promotion
does. `FrontOfLine` of k places takes a front: nobody left is ahead of anybody taken
(`MovesUpInOrder`). Counting going people and live holds as finite sets, a roster is
`Tight` when nobody waits or no place is free; a move that frees at most one place
leaves it `AlmostTight`, and promoting `NextUp` makes it `Tight` again
(`FreedPlaceIsGiven`). `Within(a, b)`, places taken fell or are within the limit, composes
over the steps of one transaction (`LimitHolds`). `NewcomersJoinTheBack` rests on the clock and
`nextId` only growing, and on the ranks of those who wait.

*EventSync.* `OneWriter`: the queue's entry names the one goroutine that is past
`enqueue`, and one that has not started writes nothing (`NotStarted`).
`BurstEndsPublished` needs `Published`: a pass with nothing failed has read or will
still read, and a signature that is stale has somebody pending.
`BankedChangesAreApplied` needs `Drained` and `Held`: the last change the queue took
of a person is the last of theirs among the banked, else in the writer's batch, else
applied. The refinement needs `Fresh`: what a writer holds to draw is never behind the
surface it is drawn on, which for the table rests on `tableLock` and for the rest on
`OneWriter`; then each step is a step of `Mirror` or a stutter on each surface.

*EventLifecycle.* Only a rollover moves the date, and it empties the roster with it.

*Messages and notices.* Claims that are not failed are counted whatever becomes of
their sends, and none is dated after the clock, so a window that ended gets no new one.
A burst of changes whose last is a grace old is closed: what is logged later is no part
of it and ends no burst before it, so reading the log again tells the same changes up to
the cursor. Both are proved of the part alone, and carried into the sum by instances of
the proof modules, with a lemma that a step of the sum is one of the part.

*Calls that overlap.* What TLC checks with two calls is here for any finite set of
them. Most invariants add to what was done what is still on its way: `RemindersAreBounded`
counts sends together with the calls that will still send, `SetupMakesNoChannelTwice` the
channels of a name together with the set-ups that may make one. `ImagesAreAccountedFor`
needs that a file belongs to the worker that kept it, `DrawingsAreAccountedFor` that a
photo has one holder and a request one saver, `LostPermissionsRunOut` what each request
read and when, `RolesAddUp` how many come above the cap by which copy, `ClaimsAddUp` who
holds each claim. `OnlyTypedEditsAreTaken` follows each text from where it was typed
through lists, copies and writes.

*Recurrence.* `RepeatsAreKept` says that the code's next date is the first that the
reference `Fires` names. It is arithmetic of `\div` and `%` over a real calendar, which
the solver does only in small steps: years and months come in order and without gaps,
a day is in exactly one of each, and a date made from a day's number leads back to it.
From these, per frequency, the candidate the code steps to is on the rule and nothing
between is; and a rule moved to UTC and back is the rule. No bound on years is used.

### Assumptions

`RosterAssumption`, `SyncAssumption`, `LifecycleAssumption`, `ServicesAssumption`,
`OverlapsAssumption`, `RolesAssumption` and `NativeAssumption` say that bounds are
numbers and the sets of people, calls and roles that are counted are finite; TLC evaluates each in the
runs. The theorems of `Gateway`, `EventMessages` and `RosterNotices` state theirs, which
follow from those of the sums. Nothing else is assumed.

### What the proofs found

* `OnlyTypedEditsAreTaken` fails when Discord may hold two events of ours: two passes
  find no link and each publish, and the link records one. The run's bound of one event on
  Discord hid it. The property now excepts `PublishedTwice`, and the theorem needs no bound.
* `NextOccurrence` was a CASE with arms that overlap for a rule that does not parse,
  whose value TLA+ leaves open. The code returns before it looks at the frequency; so does
  the module now.
* Whether a refresh was refused was one flag for all requests of `WebAccess`, which excused
  requests that had nothing to do with it. It is a field of the request now, and the
  property is stronger for it.

### Only model-checked

* Liveness: `SocketComesBack`, `LeaversComeOff`, `RequestsAreAnswered`,
  `GuildListComesRight`, `EndsReachBothSides`, `NewRosterIsShown`, `OverdueIsSettled`,
  `NativeOverIsTaken`, `CancelReachesDiscord`, `CompletedLeavesALine`. They rest on
  fairness, hence on ENABLED, which the prover does not reason about.
* What a recursive definition computes for every input is out of reach as well, and there
  is none in these modules: counts are cardinalities, the calendar is closed arithmetic.
* The runs that expect a violation are TLC's: each is a behaviour, not a theorem.

## Where the code and its words disagree

Checked by a run each:

* `rejoin`: `waitlistorder.go:14-16` says who comes back starts at rank 0; by way
  of Interested they keep the old row and its rank (`interest.go:172`).
* `release`: `holds.go:15-17` says a released place goes to the next person
  waiting; re-inviting with a pass releases it and promotes nobody (`holds.go:84`).
* `sync_newest`: `eventsync.go:35-38` says the last write carries the newest
  state; a change made and undone during a pass leaves a surface with it.
* `sync_roles`: `eventsync.go:104-106` says the reconcile repairs the
  projections; roles are never reapplied.
* `cancelled_reopens`: `eventmanage.go:80-81` says Cancel cannot be undone; the
  import rolls a cancelled repeating event over and opens it.

* `sent_rules`: `recurrence.go:308-310` says a rule Discord cannot be told is left
  out; a daily set of days is moved to UTC and sent although the moved set may be none
  that Discord takes.

Met on the way and not checked: `discordevents.go:1286` says a completed
native event is left to the time sweep, lines 1321-1339 complete it; two settling
goroutines may post two lines in past events, which `capacity.go` says cannot be;
two rollovers of one date, the later from a stale read, withdraw the people of
the next date, against the comment at `discordevents.go:320-322`;
two passes may publish one event twice and one of the two is then nobody's
(`PublishedTwice`);
`server.go:486-489` says calling the reminders more often sends nothing extra, and two
calls that overlap may each send (`RemindersAreBounded` counts them).

## Not modelled

* Web pages, dashboards and the interaction handlers' text: rendering and form
  parsing. What they change goes through the methods the modules model.
* Attendance, automatic reactions, display names, settings: rows written by single
  statements, with nothing between two of them that could go wrong and that
  reading or writing again would not repair. (`UpdateAutoReaction` reads and writes all fields; the later of two
  edits wins, as it would in any order.)
* Time and length words, table layout, clients of Discord and file-store, assets.
* One-off migrations of old tables.
* Two runs of the roster notices at once, which would tell a change twice: nothing in the
  code keeps a slow run and the next minute's apart, and no comment promises it.
* What `Roster`, `EventSync`, `EventLifecycle`, `NativeEvents`, `Potluck`, `SheetRoles` and
  `ForumPost` leave out is said with each.

## Plan

What would come next:

1. `EventSync` composed with `EventLifecycle`, so that an event at rest is never both in
   #new-events and in past events.
2. The handlers over `Roster` (an edit as it was read, saved, promoted by two
   organizers at once), for the stale decision at `capacity.go:194`.
3. `NativeEvents` with two fields and dates, to join it with `EventLifecycle`.
4. Proofs that composed modules of 1 to 3 keep what the parts promise, from the parts'
   invariants; and the safety halves of the liveness properties, which say that what is due
   is never forgotten (`OverdueIsSettled`, `RequestsAreAnswered`), as invariants of their own.
