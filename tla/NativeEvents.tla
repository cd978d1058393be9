---------------------------- MODULE NativeEvents ----------------------------
(***************************************************************************)
(* An event here and the scheduled event Discord keeps of it               *)
(* (discordevents.go): created from the row or imported into it, edited on *)
(* either side, ended or deleted on either side.  A pass of the sync lists *)
(* Discord's events, compares each with the row and with what was last     *)
(* written there, and then settles what is on one side only.  The sweep    *)
(* and every notice of the gateway start a pass, so passes overlap each    *)
(* other and the publisher.                                                *)
(*                                                                         *)
(* One text stands for the fields, which are compared one by one; every    *)
(* edit has a text of its own, numbered in the order they were made.       *)
(***************************************************************************)
EXTENDS Integers, FiniteSets

CONSTANTS
  Passes,           \* passes of the sync that may overlap
  MaxTexts,         \* bound: edits on either side
  MaxNatives,       \* bound: scheduled events made
  MaxNativeFaults   \* bound: calls Discord refuses

Natives == 1..MaxNatives
Texts   == 0..MaxTexts

VARIABLES
  row,          \* the event here
  native,       \* Discord's scheduled events
  passes,       \* each pass of the sync
  push,         \* the publisher's pass over the event
  due,          \* whether the event is to be published
  texts,        \* edits made so far
  typed,        \* the texts typed in Discord's screen
  crossed,      \* whether the last write began before another was recorded
  nativeFaults

vars == <<row, native, passes, push, due, texts, typed, crossed, nativeFaults>>

NoRow    == [text |-> 0, status |-> "none", link |-> 0, wrote |-> 0]
Unmade   == [text |-> 0, status |-> "none", ours |-> FALSE]
\* Of the row, what a pass and the publisher work from.
CopyOf(r) == [text |-> r.text, link |-> r.link, wrote |-> r.wrote]
Sent(r)   == [text |-> r.text, link |-> r.link]
Resting  == [at |-> "idle", list |-> [n \in Natives |-> 0], copy |-> CopyOf(NoRow), raced |-> FALSE]
Quiet    == [at |-> "idle", copy |-> Sent(NoRow)]

OneNative(own) == [n \in Natives |-> IF n = 1 THEN [text |-> 1, status |-> "scheduled", ours |-> own]
                                     ELSE Unmade]

\* Made here and not published yet, made in Discord and not imported yet, or
\* published before what was written was recorded.
Init ==
  /\ \/ /\ row = [NoRow EXCEPT !.text = 1, !.status = "open"]
        /\ native = [n \in Natives |-> Unmade] /\ typed = {}
     \/ /\ row = NoRow /\ typed = {1} /\ native = OneNative(FALSE)
     \/ /\ row = [text |-> 1, status |-> "open", link |-> 1, wrote |-> 0] /\ typed = {}
        /\ native = OneNative(TRUE)
  /\ passes = [p \in Passes |-> Resting] /\ push = Quiet /\ due = FALSE
  /\ texts = 1 /\ crossed = FALSE /\ nativeFaults = 0

Refused == nativeFaults < MaxNativeFaults /\ nativeFaults' = nativeFaults + 1
Accepted == UNCHANGED nativeFaults

\* A write of ours is at Discord and not recorded yet.
Unrecorded == push.at = "record" \/ \E p \in Passes : passes[p].at \in {"record", "link", "imported"}

\* A write reaches Discord: every pass under way worked from a list without it.
Writes == crossed' = Unrecorded
Race(late) == [p \in Passes |->
  IF passes[p].at \in {"compare", "settle"} THEN [passes[p] EXCEPT !.raced = @ \/ late] ELSE passes[p]]
Raced == Race(TRUE)

\* Done with the row: of its list, what it held is of use from here.
AfterSettle(p) ==
  [Resting EXCEPT !.at = "reconcile",
                  !.list = [n \in Natives |-> IF passes[p].list[n] = 0 THEN 0 ELSE 1]]
At(p, state) == [passes EXCEPT ![p].at = state]
Settled(p) == [passes EXCEPT ![p] = AfterSettle(p)]
-----------------------------------------------------------------------------
\* People.

EditHere ==
  /\ texts < MaxTexts /\ texts' = texts + 1
  /\ row.status = "open" /\ row' = [row EXCEPT !.text = texts + 1]
  /\ due' = TRUE
  /\ UNCHANGED <<native, passes, push, typed, crossed, nativeFaults>>

EditThere ==
  /\ texts < MaxTexts /\ texts' = texts + 1
  /\ \E n \in Natives : /\ native[n].status = "scheduled"
                        /\ native' = [native EXCEPT ![n].text = texts + 1]
  /\ typed' = typed \cup {texts + 1}
  /\ UNCHANGED <<row, passes, push, due, crossed, nativeFaults>>

CancelHere ==
  /\ row.status = "open" /\ row' = [row EXCEPT !.status = "cancelled"]
  /\ UNCHANGED <<native, passes, push, due, texts, typed, crossed, nativeFaults>>

EndOrDeleteThere ==
  /\ \E n \in Natives, status \in {"completed", "deleted"} :
       /\ native[n].status = "scheduled" /\ row.link = n
       /\ native' = [native EXCEPT ![n].status = status]
  /\ UNCHANGED <<row, passes, push, due, texts, typed, crossed, nativeFaults>>

-----------------------------------------------------------------------------
\* The publisher: PushEditToDiscord, and RecordNativeWrite once it was accepted.

ReadToPush ==
  /\ push.at = "idle" /\ due /\ due' = FALSE
  /\ row.link # 0 /\ row.status = "open"
  /\ push' = [at |-> "patch", copy |-> Sent(row)]
  /\ UNCHANGED <<row, native, passes, texts, typed, crossed, nativeFaults>>

\* What Discord accepts, or refuses.
Patch(copy) == /\ native[copy.link].status = "scheduled" /\ Accepted /\ Writes
               /\ native' = [native EXCEPT ![copy.link].text = copy.text]
Refuse(copy) == /\ (native[copy.link].status # "scheduled" /\ Accepted) \/ Refused
                /\ UNCHANGED crossed

\* Mutant of PushEditToDiscord: what is sent is recorded before it is accepted.
PushRecordsFirst ==
  /\ push.at = "patch"
  /\ row' = [row EXCEPT !.wrote = push.copy.text]
  /\ \/ Patch(push.copy) /\ passes' = Raced /\ push' = [push EXCEPT !.at = "record"] /\ UNCHANGED due
     \/ Refuse(push.copy) /\ UNCHANGED <<native, passes>> /\ push' = Quiet /\ due' = TRUE
  /\ UNCHANGED <<texts, typed>>

PushEditToDiscord ==
  /\ push.at = "patch"
  /\ \/ Patch(push.copy) /\ passes' = Raced /\ push' = [push EXCEPT !.at = "record"] /\ UNCHANGED due
     \/ Refuse(push.copy) /\ UNCHANGED <<native, passes>> /\ push' = Quiet /\ due' = TRUE
  /\ UNCHANGED <<row, texts, typed>>

RecordNativeWrite ==
  /\ push.at = "record"
  /\ row' = [row EXCEPT !.wrote = push.copy.text] /\ push' = Quiet
  /\ UNCHANGED <<native, passes, due, texts, typed, crossed, nativeFaults>>

-----------------------------------------------------------------------------
\* A pass of the sync.

\* The row's event is in the list the pass read.
Listed(p) == \E n \in Natives : n = row.link /\ passes[p].list[n] # 0

\* The list holds scheduled events alone.
ListScheduledEvents(p) ==
  /\ passes[p].at = "idle"
  /\ passes' = [passes EXCEPT ![p] =
       [Resting EXCEPT !.at = "compare", !.raced = Unrecorded \/ crossed,
                       !.list = [n \in Natives |-> IF native[n].status = "scheduled"
                                                   THEN native[n].text ELSE 0]]]
  /\ UNCHANGED <<row, native, push, due, texts, typed, crossed, nativeFaults>>

\* An event no row points at: one a person made is imported, and the copy
\* recorded after; one this bot made waits for its link.
Import(p) ==
  /\ passes[p].at = "compare" /\ row.status = "none"
  /\ \E n \in Natives :
       /\ passes[p].list[n] # 0 /\ ~native[n].ours
       /\ row' = [text |-> passes[p].list[n], status |-> "open", link |-> n, wrote |-> 0]
       /\ passes' = [passes EXCEPT ![p].at = "imported", ![p].copy = CopyOf(row)']
  /\ Writes
  /\ UNCHANGED <<native, push, due, texts, typed, nativeFaults>>

\* The row is read once.  Nothing to compare: the linked event is not listed.
ReadRow(p) ==
  /\ passes[p].at = "compare" /\ row.status # "none"
  /\ passes' = IF Listed(p) THEN [passes EXCEPT ![p].copy = CopyOf(row), ![p].at = "settle"] ELSE Settled(p)
  /\ UNCHANGED <<row, native, push, due, texts, typed, crossed, nativeFaults>>

Theirs(p) == passes[p].list[passes[p].copy.link]

\* compareWithDiscordCopy: Discord moved away from what was written there.
EditedThere(p) == /\ Theirs(p) # passes[p].copy.text
                  /\ passes[p].copy.wrote # 0 /\ Theirs(p) # passes[p].copy.wrote
Unsent(p) == Theirs(p) # passes[p].copy.text /\ ~EditedThere(p)

\* applyEventEdit publishes what it took, like any edit.
TakeDiscordEdit(p) ==
  /\ passes[p].at = "settle" /\ EditedThere(p)
  /\ row' = [row EXCEPT !.text = Theirs(p)] /\ due' = TRUE
  /\ passes' = Settled(p)
  /\ UNCHANGED <<native, push, texts, typed, crossed, nativeFaults>>

\* Ours has not reached Discord: pushed from the copy the pass read.
PushOurs(p) ==
  /\ passes[p].at = "settle" /\ Unsent(p)
  /\ \/ /\ Patch(passes[p].copy)
        /\ passes' = [Raced EXCEPT ![p].at = "record", ![p].raced = FALSE]
     \/ Refuse(passes[p].copy) /\ UNCHANGED native /\ passes' = Settled(p)
  /\ UNCHANGED <<row, push, due, texts, typed>>

\* Both agree, and nothing was ever recorded: the copy is.  From an old list
\* that puts a wrong record under the other passes too.
Agree(p) ==
  /\ passes[p].at = "settle" /\ Theirs(p) = passes[p].copy.text
  /\ \/ passes[p].copy.wrote # 0 /\ passes' = Settled(p) /\ UNCHANGED <<row, crossed>>
     \/ /\ passes[p].copy.wrote = 0
        /\ row' = [row EXCEPT !.wrote = Theirs(p)]
        /\ crossed' = (crossed \/ passes[p].raced)
        /\ passes' = [Race(passes[p].raced) EXCEPT ![p] = AfterSettle(p)]
  /\ UNCHANGED <<native, push, due, texts, typed, nativeFaults>>

RecordSent(p) ==
  /\ passes[p].at \in {"record", "imported"}
  /\ row' = [row EXCEPT !.wrote = passes[p].copy.text]
  /\ passes' = Settled(p)
  /\ UNCHANGED <<native, push, due, texts, typed, crossed, nativeFaults>>

\* reconcileWithNative: PublishToDiscord for an event with no link,
PublishToDiscord(p) ==
  /\ passes[p].at = "reconcile" /\ row.status = "open" /\ row.link = 0
  /\ \/ /\ \E n \in Natives :
             /\ \A m \in Natives : native[m].status = "none" <=> m >= n
             /\ native' = [native EXCEPT ![n] = [text |-> row.text, status |-> "scheduled", ours |-> TRUE]]
             /\ passes' = [Raced EXCEPT ![p].at = "link", ![p].copy = [CopyOf(row) EXCEPT !.link = n]]
        /\ Accepted /\ Writes
     \/ passes' = [passes EXCEPT ![p] = Resting] /\ UNCHANGED <<native, crossed>> /\ Refused
  /\ UNCHANGED <<row, push, due, texts, typed>>

LinkNative(p) ==
  /\ passes[p].at = "link"
  /\ row' = [row EXCEPT !.link = passes[p].copy.link] /\ passes' = At(p, "record")
  /\ UNCHANGED <<native, push, due, texts, typed, crossed, nativeFaults>>

\* Mutant of SettleMissing: an event the list does not hold is left alone.
SettleMissingNever(p) ==
  /\ passes[p].at = "reconcile" /\ row.status = "open" /\ row.link # 0
  /\ passes' = [passes EXCEPT ![p] = Resting]
  /\ UNCHANGED <<row, native, push, due, texts, typed, crossed, nativeFaults>>

\* Mutant of SettleMissing: Discord's word for the end is copied as it is.
SettleMissingInItsWords(p) ==
  /\ passes[p].at = "reconcile" /\ row.status = "open" /\ row.link # 0
  /\ \/ /\ ~Listed(p) /\ Accepted
        /\ row' = [row EXCEPT !.status = IF native[row.link].status = "scheduled" THEN "open"
                                         ELSE native[row.link].status]
     \/ ~Listed(p) /\ Refused /\ UNCHANGED row
     \/ Listed(p) /\ UNCHANGED row /\ Accepted
  /\ passes' = [passes EXCEPT ![p] = Resting]
  /\ UNCHANGED <<native, push, due, texts, typed, crossed>>

\* a linked event the list does not hold, which is asked for by itself,
SettleMissing(p) ==
  /\ passes[p].at = "reconcile" /\ row.status = "open" /\ row.link # 0
  /\ \/ /\ ~Listed(p) /\ Accepted
        /\ row' = [row EXCEPT !.status = CASE native[row.link].status = "completed" -> "completed"
                                           [] native[row.link].status = "deleted" -> "cancelled"
                                           [] OTHER -> "open"]
     \/ ~Listed(p) /\ Refused /\ UNCHANGED row
     \/ Listed(p) /\ UNCHANGED row /\ Accepted
  /\ passes' = [passes EXCEPT ![p] = Resting]
  /\ UNCHANGED <<native, push, due, texts, typed, crossed>>

\* and one cancelled here that Discord still lists, which is deleted there.
DeleteNative(p) ==
  /\ passes[p].at = "reconcile" /\ row.status \in {"cancelled", "completed"}
  /\ \/ /\ row.status = "cancelled" /\ Listed(p)
        /\ \/ Accepted /\ native' = [native EXCEPT ![row.link].status = "deleted"]
           \/ Refused /\ UNCHANGED native
     \/ (row.status = "completed" \/ ~Listed(p)) /\ UNCHANGED native /\ Accepted
  /\ passes' = [passes EXCEPT ![p] = Resting]
  /\ UNCHANGED <<row, push, due, texts, typed, crossed>>

Publish == ReadToPush \/ PushEditToDiscord \/ RecordNativeWrite

Pass(p) ==
  \/ ListScheduledEvents(p) \/ Import(p) \/ ReadRow(p) \/ TakeDiscordEdit(p) \/ PushOurs(p)
  \/ Agree(p) \/ RecordSent(p) \/ PublishToDiscord(p) \/ LinkNative(p)
  \/ SettleMissing(p) \/ DeleteNative(p)

Next ==
  \/ EditHere \/ EditThere \/ CancelHere \/ EndOrDeleteThere \/ Publish
  \/ \E p \in Passes : Pass(p)

\* The ten-minute sync and the publisher run.
Fairness == WF_vars(Publish) /\ \A p \in Passes : WF_vars(Pass(p))

Spec == Init /\ [][Next]_vars /\ Fairness
-----------------------------------------------------------------------------
TypeOK ==
  /\ row.text \in Texts /\ row.wrote \in Texts /\ row.link \in 0..MaxNatives
  /\ row.status \in {"none", "open", "completed", "cancelled"}
  /\ native \in [Natives -> [text : Texts, ours : BOOLEAN,
                             status : {"none", "scheduled", "completed", "deleted"}]]
  /\ \A p \in Passes : passes[p].at \in {"idle", "compare", "imported", "settle", "record",
                                         "reconcile", "link"}
  /\ push.at \in {"idle", "patch", "record"} /\ due \in BOOLEAN
  /\ typed \subseteq Texts

\* Two passes that each found the row without a link published it, and the row
\* points at one of the two natives alone.
PublishedTwice == \E m, n \in Natives : m # n /\ native[m].ours /\ native[n].ours

\* discordevents.go:331-340: what a pass takes from Discord's copy was typed
\* in Discord's screen, whatever Discord refused before and whichever side was
\* edited when, unless a write of ours reached Discord while the pass worked
\* from its list, or had and was not recorded when it listed, or went to the
\* other native of an event published twice.
TakesTypedOnly ==
  \A p \in Passes :
    TakeDiscordEdit(p) => passes[p].raced \/ Theirs(p) \in typed \/ PublishedTwice

OnlyTypedEditsAreTaken == [][TakesTypedOnly]_vars

\* discordevents.go:1276-1288: an event ended or deleted in Discord is over
\* here in the end, and one cancelled here is gone from Discord.
EndedApart(n) ==
  /\ row.link = n
  /\ \/ native[n].status \in {"completed", "deleted"} /\ row.status \notin {"completed", "cancelled"}
     \/ native[n].status = "scheduled" /\ row.status = "cancelled"

EndsReachBothSides == \A n \in Natives : EndedApart(n) ~> ~EndedApart(n)

=============================================================================
