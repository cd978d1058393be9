------------------------------ MODULE Potluck ------------------------------
(***************************************************************************)
(* The potluck sheet of one event (potluck.go), one thing an organizer     *)
(* asked for on it (potluckrequests.go), and the copy of a spreadsheet     *)
(* people had filled in before (potlucksheetimport.go).  People answer for *)
(* themselves, organizers edit and take off, polls of the spreadsheet      *)
(* overlap each other and all of them, and the roster changes under it.    *)
(*                                                                         *)
(* An item is a row that is on the sheet; a row taken off is forgotten.    *)
(* What an item says matters only in that an edit makes it another row.    *)
(* Every change also starts the event's sync, which is EventSync's.        *)
(***************************************************************************)
EXTENDS Integers, FiniteSets

CONSTANTS
  Guests,          \* the people of the roster
  Lines,           \* the spreadsheet's lines
  Polls,           \* polls that may overlap
  Wanted,          \* how many of the thing the organizer asks for
  ItemsPerPerson,  \* potluckItemsPerPerson
  MaxRows,         \* bound: rows ever put on the sheet
  MaxPotluckMoves, \* bound: moves of the roster, of the event and of lines
  MaxPolls         \* bound: polls started

VARIABLES
  going,     \* who is attending
  answering, \* potluckTakesAnswers
  rows,      \* potluck_items that are not removed; left says whether the owner left since
  made,      \* rows ever made
  request,   \* the organizer's request
  lines,     \* the spreadsheet
  copied,    \* potluck_sheet_rows: the line each guest's item was copied from
  polls,     \* the polls under way
  reread,    \* what each line said when a poll last went over it
  potluckMoves, polled

vars == <<going, answering, rows, made, request, lines, copied, polls, reread,
          potluckMoves, polled>>
sheet  == <<rows, made>>
import == <<lines, copied, polls, reread, polled>>

Nothing == "nothing"   \* potluckNothing
Item    == "item"
Row     == [n : 1..MaxRows, who : Guests, what : {Item, Nothing}, asked : BOOLEAN, copied : BOOLEAN, left : BOOLEAN]

\* What a line ticks: an item of either kind, or neither.
Ticks   == {"none", "food", "drinks"}
NoPoll  == [at |-> "idle", read |-> [l \in Lines |-> [who |-> CHOOSE g \in Guests : TRUE, brings |-> "none"]],
            left |-> {}, going |-> {}]

Init ==
  /\ going \in SUBSET Guests /\ answering = TRUE
  /\ rows = {} /\ made = 0 /\ request = "unasked"
  /\ lines \in [Lines -> [who : Guests, brings : {"food", "none"}]]
  /\ copied = [g \in Guests |-> "never"] /\ reread = [l \in Lines |-> "never"]
  /\ polls = [p \in Polls |-> NoPoll]
  /\ potluckMoves = 0 /\ polled = 0

RowsOf(g)     == {r \in rows : r.who = g}
ItemsOf(g)    == {r \in RowsOf(g) : r.what = Item}
\* PotluckSheetOf: only the rows of people going are on the sheet.
PotluckSheetOf == {r \in rows : r.who \in going}
Claims        == {r \in PotluckSheetOf : r.asked}

NewRow(g, what) ==
  [n |-> made + 1, who |-> g, what |-> what, asked |-> FALSE, copied |-> FALSE, left |-> FALSE]
\* The rows of off come off and the row r goes on.
Puts(off, r) == made < MaxRows /\ made' = r.n /\ rows' = (rows \ off) \cup {r}
TakesOff(off) == rows' = rows \ off /\ UNCHANGED made

PotluckMoves == potluckMoves < MaxPotluckMoves /\ potluckMoves' = potluckMoves + 1
-----------------------------------------------------------------------------
\* The roster and the event move under the sheet.

Joins(g) ==
  /\ PotluckMoves /\ g \notin going /\ going' = going \cup {g}
  /\ UNCHANGED <<answering, sheet, request, import>>

\* What they said stays stored, and comes back if they rejoin.
Leaves(g) ==
  /\ PotluckMoves /\ g \in going /\ going' = going \ {g}
  /\ rows' = {[r EXCEPT !.left = @ \/ r.who = g] : r \in rows}
  /\ UNCHANGED <<answering, made, request, import>>

\* The sheet is switched off or on, or the event ends.
Switches ==
  /\ PotluckMoves /\ answering' = ~answering
  /\ UNCHANGED <<going, sheet, request, import>>

\* A repeating event's next date starts with an empty roster and sheet; what
\* was copied from the spreadsheet is remembered across it.
ClearPotluckForNextDate ==
  /\ PotluckMoves /\ rows' = {} /\ going' = {}
  /\ UNCHANGED <<answering, made, request, import>>
-----------------------------------------------------------------------------
\* People's answers, each in one transaction.

BeginPotluckChange(g) ==
  /\ answering /\ g \in going
  /\ UNCHANGED <<going, answering, import, potluckMoves>>

\* Mutant of CheckRequestOpen: the page showed it open, which is not asked again.
CheckRequestOpenAsShown(g) ==
  request = "asked" /\ ~\E r \in Claims : r.who = g
\* checkRequestOpenTx
CheckRequestOpen(g) ==
  /\ request = "asked" /\ ~\E r \in Claims : r.who = g
  /\ Cardinality(Claims) < Wanted

AddPotluckItem(g, asked) ==
  /\ BeginPotluckChange(g)
  /\ Cardinality(ItemsOf(g)) < ItemsPerPerson
  /\ asked => CheckRequestOpen(g)
  /\ Puts({r \in RowsOf(g) : r.what = Nothing}, [NewRow(g, Item) EXCEPT !.asked = asked])
  /\ UNCHANGED request

TakePotluckRequest(g) == AddPotluckItem(g, TRUE)

SayBringingNothing(g) ==
  /\ BeginPotluckChange(g)
  /\ Puts(RowsOf(g), NewRow(g, Nothing))
  /\ UNCHANGED request

ClearPotluckAnswer(g) ==
  /\ BeginPotluckChange(g)
  /\ RowsOf(g) # {} /\ TakesOff(RowsOf(g))
  /\ UNCHANGED request

\* From the sheet's page: one's own row, whether or not the sheet still
\* takes answers.
RemoveOwnPotluckItem(r) ==
  /\ TakesOff({r})
  /\ UNCHANGED <<going, answering, request, import, potluckMoves>>

\* The presses of the private view on Discord, and its form.
HandlePotluckComponent(g) == SayBringingNothing(g) \/ ClearPotluckAnswer(g)
HandlePotluckModal(g)     == AddPotluckItem(g, FALSE)
HandleTakeRequestMenu(g)  == TakePotluckRequest(g)
\* The forms of the event's page, for the person's own answers.
HandleWebMyPotluck(g) ==
  \/ AddPotluckItem(g, FALSE) \/ SayBringingNothing(g)
  \/ \E r \in RowsOf(g) : RemoveOwnPotluckItem(r)
-----------------------------------------------------------------------------
\* Organizers.

\* An edited row is the old one taken off and a new one typed by a person,
\* under the same request.
EditPotluckItem(r) ==
  /\ r.what = Item
  /\ Puts({r}, [r EXCEPT !.n = made + 1, !.copied = FALSE])
  /\ UNCHANGED <<going, answering, request, import, potluckMoves>>

RemovePotluckItem(r) == RemoveOwnPotluckItem(r)

AddPotluckRequest ==
  /\ request = "unasked" /\ request' = "asked"
  /\ UNCHANGED <<going, answering, sheet, import, potluckMoves>>

\* What people said they would bring for it stays.
RemovePotluckRequest ==
  /\ request = "asked" /\ request' = "removed"
  /\ UNCHANGED <<going, answering, sheet, import, potluckMoves>>
\* Their forms, of whoever may edit the event.
HandleWebPotluckRequest == AddPotluckRequest \/ RemovePotluckRequest
HandleWebPotluckEdit    == \E r \in rows : EditPotluckItem(r)
HandleWebPotluckRemove  == \E r \in rows : RemovePotluckItem(r)
-----------------------------------------------------------------------------
\* The copy of the spreadsheet.

EditsLine(l) ==
  /\ PotluckMoves
  /\ \E t \in Ticks \ {lines[l].brings} : lines' = [lines EXCEPT ![l].brings = t]
  /\ UNCHANGED <<going, answering, sheet, request, copied, polls, reread, polled>>

\* The event still takes answers, and the download begins.
PollPotluckSheet(p) ==
  /\ polls[p].at = "idle" /\ answering
  /\ polled < MaxPolls /\ polled' = polled + 1
  /\ polls' = [polls EXCEPT ![p].at = "fetch"]
  /\ UNCHANGED <<going, answering, sheet, request, lines, copied, reread, potluckMoves>>

\* The download is what the spreadsheet said; or it fails, and the poll ends.
FetchPotluckSheet(p) ==
  /\ polls[p].at = "fetch"
  /\ polls' = [polls EXCEPT ![p] = [NoPoll EXCEPT !.at = "roster", !.read = lines, !.left = Lines]]
  /\ UNCHANGED <<going, answering, sheet, request, lines, copied, reread, potluckMoves, polled>>

FetchFails(p) ==
  /\ polls[p].at = "fetch" /\ polls' = [polls EXCEPT ![p] = NoPoll]
  /\ UNCHANGED <<going, answering, sheet, request, lines, copied, reread, potluckMoves, polled>>

ReadGoing(p) ==
  /\ polls[p].at = "roster"
  /\ polls' = [polls EXCEPT ![p].at = "copy", ![p].going = going]
  /\ UNCHANGED <<going, answering, sheet, request, lines, copied, reread, potluckMoves, polled>>

\* The rows of g that come off as a line that changed is copied: what the
\* copy made before and, if the line brings something, the nothing answer.
ClearedByLine(g, brings) ==
  {r \in RowsOf(g) : r.copied \/ (brings # "none" /\ r.what = Nothing)}

\* copySheetRow: nothing when the line's signature is the one kept.
CopySheetRow(g, brings) ==
  IF copied[g] = brings
  THEN UNCHANGED <<sheet, copied>>
  ELSE /\ copied' = [copied EXCEPT ![g] = brings]
       /\ IF brings = "none" THEN TakesOff(ClearedByLine(g, brings))
          ELSE Puts(ClearedByLine(g, brings), [NewRow(g, Item) EXCEPT !.copied = TRUE])

\* The lines in turn; a line whose name is nobody going is left alone.
CopyLine(p) ==
  LET l == CHOOSE l \in polls[p].left : TRUE
      line == polls[p].read[l]
  IN /\ polls[p].at = "copy" /\ polls[p].left # {}
     /\ polls' = [polls EXCEPT ![p].left = @ \ {l}]
     /\ IF line.who \in polls[p].going
        THEN CopySheetRow(line.who, line.brings) /\ reread' = [reread EXCEPT ![l] = line.brings]
        ELSE UNCHANGED <<sheet, copied, reread>>
     /\ UNCHANGED <<going, answering, request, lines, potluckMoves, polled>>

\* recordSheetPoll
PollEnds(p) ==
  /\ polls[p].at = "copy" /\ polls[p].left = {}
  /\ polls' = [polls EXCEPT ![p] = NoPoll]
  /\ UNCHANGED <<going, answering, sheet, request, lines, copied, reread, potluckMoves, polled>>

PollSteps(p) == FetchPotluckSheet(p) \/ FetchFails(p) \/ ReadGoing(p) \/ CopyLine(p) \/ PollEnds(p)
-----------------------------------------------------------------------------
Next ==
  \/ \E g \in Guests :
       \/ Joins(g) \/ Leaves(g)
       \/ HandlePotluckComponent(g) \/ HandlePotluckModal(g) \/ HandleTakeRequestMenu(g)
       \/ HandleWebMyPotluck(g)
  \/ HandleWebPotluckRequest \/ HandleWebPotluckEdit \/ HandleWebPotluckRemove
  \/ Switches \/ ClearPotluckForNextDate
  \/ \E l \in Lines : EditsLine(l)
  \/ \E p \in Polls : PollPotluckSheet(p) \/ PollSteps(p)

Spec == Init /\ [][Next]_vars
-----------------------------------------------------------------------------
TypeOK ==
  /\ going \subseteq Guests /\ answering \in BOOLEAN
  /\ rows \subseteq Row /\ made \in 0..MaxRows
  /\ request \in {"unasked", "asked", "removed"}
  /\ lines \in [Lines -> [who : Guests, brings : Ticks]]
  /\ copied \in [Guests -> Ticks \cup {"never"}] /\ reread \in [Lines -> Ticks \cup {"never"}]
  /\ \A p \in Polls : /\ polls[p].at \in {"idle", "fetch", "roster", "copy"}
                      /\ polls[p].left \subseteq Lines /\ polls[p].going \subseteq Guests
  /\ potluckMoves \in 0..MaxPotluckMoves /\ polled \in 0..MaxPolls

\* Nobody is on the sheet both with something and as bringing nothing,
\* whichever of their own answers, an organizer's edit, a copied line or a
\* return to the roster came last.
AnswersAgree ==
  \A g \in Guests : (\E r \in RowsOf(g) : r.what = Nothing) => ItemsOf(g) = {}

\* A request is taken by no more people than it wants: only those who took it,
\* left and came back may find it full.
ClaimsWithinWanted ==
  Cardinality({r \in Claims : ~r.left}) <= Wanted

=============================================================================
