----------------------------- MODULE SheetRoles -----------------------------
(***************************************************************************)
(* The roles of one event (sheetroles.go): people take and leave them,     *)
(* organizers add, edit and remove roles and put people in and out, and    *)
(* the copy of a spreadsheet ticks people into them                        *)
(* (potlucksheetimport.go), with roles and a roster it read before.        *)
(*                                                                         *)
(* A role that takes a place is for people going, and shows only them; any *)
(* other is open to everybody.  Names and emojis are left out: a role is   *)
(* an id, and the spreadsheet's column of that name.                       *)
(***************************************************************************)
EXTENDS Integers, FiniteSets

CONSTANTS
  Helpers,        \* the people
  Roles,          \* ids a role may get
  Caps,           \* caps an organizer may set, 0 for none
  RolesPerEvent,  \* sheetRolesPerEvent
  Adders,         \* organizers adding a role at once
  MaxRoleMoves,   \* bound: moves of the roster and edits of roles
  MaxCopies,      \* bound: polls of the spreadsheet
  MaxJoins        \* bound: joins of a role

VARIABLES
  attending,  \* who is going
  taking,     \* sheetRolesTakeAnswers
  roles,      \* sheet_roles
  places,     \* sheet_role_signups nobody left
  ticks,      \* the spreadsheet: who is ticked in each role's column
  signatures, \* potluck_sheet_rows.role_signature
  copy,       \* the poll: the roles and ticks it read, and whom of those going it has left
  adding,     \* which adders have counted the roles
  roleMoves, copies, joins

vars == <<attending, taking, roles, places, ticks, signatures, copy, adding, roleMoves, copies, joins>>
polling == <<ticks, signatures, copy, copies>>

Missing == [there |-> FALSE, capacity |-> 0, takesPlace |-> TRUE]
NoCopy  == [at |-> "idle", roles |-> [r \in Roles |-> Missing], ticks |-> [r \in Roles |-> {}],
            left |-> {}]

Live(rs) == {r \in Roles : rs[r].there}
\* readSheetRoles: who a role shows.
ReadSheetRole(r) == {p \in places : p.role = r /\ (roles[r].takesPlace => p.who \in attending)}

Init ==
  /\ attending = Helpers /\ taking = TRUE
  /\ roles \in [Roles -> {Missing} \cup [there : {TRUE}, capacity : Caps, takesPlace : BOOLEAN]]
  /\ Cardinality(Live(roles)) <= RolesPerEvent
  /\ places = {} /\ ticks \in [Roles -> SUBSET Helpers]
  /\ signatures = [h \in Helpers |-> {}] /\ copy = NoCopy /\ adding = {}
  /\ roleMoves = 0 /\ copies = 0 /\ joins = 0

RoleMoves == roleMoves < MaxRoleMoves /\ roleMoves' = roleMoves + 1
-----------------------------------------------------------------------------
Comes(h) ==
  /\ RoleMoves /\ h \notin attending /\ attending' = attending \cup {h}
  /\ UNCHANGED <<taking, roles, places, adding, joins, polling>>

Goes(h) ==
  /\ RoleMoves /\ h \in attending /\ attending' = attending \ {h}
  /\ UNCHANGED <<taking, roles, places, adding, joins, polling>>

RolesSwitch ==
  /\ RoleMoves /\ taking' = ~taking
  /\ UNCHANGED <<attending, roles, places, adding, joins, polling>>

\* The next date starts with nobody in a role; the roles stay.
ClearRolesForNextDate ==
  /\ RoleMoves /\ places' = {} /\ attending' = {}
  /\ UNCHANGED <<taking, roles, adding, joins, polling>>
-----------------------------------------------------------------------------
\* Taking a role.

BeginSheetRoleChange(r) == taking /\ roles[r].there

MayJoin(r, h) == roles[r].takesPlace => h \in attending

\* Mutant of Taken: only people going count toward the cap of any role.
TakenByGoing(r, role) == {p \in places : p.role = r /\ p.who \in attending}
\* Who counts toward a role's cap, to a writer that read the role as `role`.
Taken(r, role) == {p \in places : p.role = r /\ (role.takesPlace => p.who \in attending)}

HasRoom(r, role) == role.capacity > 0 => Cardinality(Taken(r, role)) < role.capacity

JoinSheetRole(r, role, h, copied) ==
  /\ joins < MaxJoins /\ joins' = joins + 1
  /\ HasRoom(r, role)
  /\ places' = places \cup {[role |-> r, who |-> h, copied |-> copied]}

LeavesRole(r, h) == places' = {p \in places : p.role # r \/ p.who # h}
In(r, h)        == \E p \in places : p.role = r /\ p.who = h

ToggleSheetRole(r, h) ==
  /\ BeginSheetRoleChange(r)
  /\ \/ In(r, h) /\ LeavesRole(r, h) /\ UNCHANGED joins
     \/ ~In(r, h) /\ MayJoin(r, h) /\ JoinSheetRole(r, roles[r], h, FALSE)
  /\ UNCHANGED <<attending, taking, roles, adding, roleMoves, polling>>

HandleSheetRoleButton(r, h) == ToggleSheetRole(r, h)
\* Who is not on the roster is looked up on Discord, which may fail.
HandleWebMySheetRole(r, h)  == ToggleSheetRole(r, h)

PutInSheetRole(r, h) ==
  /\ BeginSheetRoleChange(r)
  /\ ~In(r, h) /\ MayJoin(r, h) /\ JoinSheetRole(r, roles[r], h, FALSE)
  /\ UNCHANGED <<attending, taking, roles, adding, roleMoves, polling>>

TakeOutOfSheetRole(r, h) ==
  /\ In(r, h) /\ LeavesRole(r, h)
  /\ UNCHANGED <<attending, taking, roles, adding, roleMoves, joins, polling>>

OrganizerSheetRoleChange(r, h) == PutInSheetRole(r, h) \/ TakeOutOfSheetRole(r, h)
-----------------------------------------------------------------------------
\* The roles themselves.

\* AddSheetRole counts the live roles, and inserts in another statement.
CountRoles(a) ==
  /\ a \notin adding /\ Cardinality(Live(roles)) < RolesPerEvent
  /\ adding' = adding \cup {a}
  /\ UNCHANGED <<attending, taking, roles, places, roleMoves, joins, polling>>

InsertRole(a) ==
  /\ a \in adding /\ adding' = adding \ {a}
  /\ RoleMoves
  /\ \E r \in Roles \ Live(roles), c \in Caps, b \in BOOLEAN :
       /\ ~\E p \in places : p.role = r      \* an id not used before
       /\ roles' = [roles EXCEPT ![r] = [there |-> TRUE, capacity |-> c, takesPlace |-> b]]
  /\ UNCHANGED <<attending, taking, places, joins, polling>>

RemoveSheetRole(r) ==
  /\ RoleMoves /\ roles[r].there /\ roles' = [roles EXCEPT ![r].there = FALSE]
  /\ UNCHANGED <<attending, taking, places, adding, joins, polling>>

\* A lower cap and a switched place move nobody.
EditSheetRole(r) ==
  /\ RoleMoves /\ roles[r].there
  /\ \E c \in Caps, b \in BOOLEAN :
       roles' = [roles EXCEPT ![r].capacity = c, ![r].takesPlace = b]
  /\ roles' # roles
  /\ UNCHANGED <<attending, taking, places, adding, joins, polling>>

\* Their forms, of whoever may edit the event.
HandleWebSheetRoleRemove == \E r \in Roles : RemoveSheetRole(r)
HandleWebEditSheetRole   == \E r \in Roles : EditSheetRole(r)
-----------------------------------------------------------------------------
\* The spreadsheet's role columns.

Tick(r, h) ==
  /\ RoleMoves
  /\ ticks' = [ticks EXCEPT ![r] = IF h \in @ THEN @ \ {h} ELSE @ \cup {h}]
  /\ UNCHANGED <<attending, taking, roles, places, signatures, copy, copies, adding, joins>>

\* The event with its roles is read before the download, the roster once the
\* download is there.
PollReadsRoles ==
  /\ copy.at = "idle" /\ copies < MaxCopies /\ copies' = copies + 1
  /\ copy' = [NoCopy EXCEPT !.at = "fetch", !.roles = roles]
  /\ UNCHANGED <<attending, taking, roles, places, ticks, signatures, adding, roleMoves, joins>>

PollReadsGoing ==
  /\ copy.at = "fetch"
  /\ copy' = [copy EXCEPT !.at = "copy", !.ticks = ticks, !.left = attending]
  /\ UNCHANGED <<attending, taking, roles, places, ticks, signatures, copies, adding, roleMoves, joins>>

RoleSignature(h) == {[role |-> r, ticked |-> h \in copy.ticks[r]] : r \in Live(copy.roles)}

\* A tick puts in whoever is not in the role, however they got there.
CopiesIn(r, h) == h \in copy.ticks[r] /\ ~In(r, h)

\* One person's row, in one transaction: a tick puts them in the roles with
\* room, and a tick withdrawn takes them out of those a tick put them in.
Ins(h)  == {[role |-> r, who |-> h, copied |-> TRUE] :
              r \in {r \in Live(copy.roles) : CopiesIn(r, h) /\ HasRoom(r, copy.roles[r])}}
Outs(h) == {[role |-> r, who |-> h, copied |-> TRUE] :
              r \in {r \in Live(copy.roles) : h \notin copy.ticks[r]}}

CopySheetRow(h) ==
  /\ copy.at = "copy" /\ h \in copy.left
  /\ copy' = [copy EXCEPT !.left = @ \ {h}]
  /\ signatures' = [signatures EXCEPT ![h] = RoleSignature(h)]
  /\ places' = IF signatures[h] = RoleSignature(h) THEN places
               ELSE (places \ Outs(h)) \cup Ins(h)
  /\ UNCHANGED <<attending, taking, roles, ticks, copies, adding, roleMoves, joins>>

PollEnds ==
  /\ copy.at = "copy" /\ copy.left = {} /\ copy' = NoCopy
  /\ UNCHANGED <<attending, taking, roles, places, ticks, signatures, copies, adding, roleMoves, joins>>
-----------------------------------------------------------------------------
Next ==
  \/ \E h \in Helpers :
       \/ Comes(h) \/ Goes(h) \/ CopySheetRow(h)
       \/ \E r \in Roles : \/ HandleSheetRoleButton(r, h) \/ HandleWebMySheetRole(r, h)
                           \/ OrganizerSheetRoleChange(r, h) \/ Tick(r, h)
  \/ HandleWebSheetRoleRemove \/ HandleWebEditSheetRole
  \/ \E a \in Adders : CountRoles(a) \/ InsertRole(a)
  \/ RolesSwitch \/ ClearRolesForNextDate \/ PollReadsRoles \/ PollReadsGoing \/ PollEnds

Spec == Init /\ [][Next]_vars
-----------------------------------------------------------------------------
TypeOK ==
  /\ attending \subseteq Helpers /\ taking \in BOOLEAN
  /\ roles \in [Roles -> [there : BOOLEAN, capacity : Caps \cup {0}, takesPlace : BOOLEAN]]
  /\ places \subseteq [role : Roles, who : Helpers, copied : BOOLEAN]
  /\ ticks \in [Roles -> SUBSET Helpers] /\ adding \subseteq Adders
  /\ \A h \in Helpers : signatures[h] \subseteq [role : Roles, ticked : BOOLEAN]
  /\ copy.at \in {"idle", "fetch", "copy"} /\ copy.left \subseteq Helpers
  /\ roleMoves \in 0..MaxRoleMoves /\ copies \in 0..MaxCopies /\ joins \in 0..MaxJoins

\* Nobody is in a role twice, whether they took it, were put in it or ticked
\* into it.
InARoleOnce == \A p, q \in places : p.role = q.role /\ p.who = q.who => p = q

Over(r) == roles[r].capacity > 0 /\ Cardinality(ReadSheetRole(r)) > roles[r].capacity
\* A role gets over its cap by a lowered cap, a switched place or people coming
\* back to the roster, or by a copy that works from a cap of before: never by
\* somebody taking it or being put in.
KeepsTheCap ==
  \A r \in Roles :
    Over(r)' /\ Cardinality(ReadSheetRole(r)') > Cardinality(ReadSheetRole(r)) =>
    roles' # roles \/ attending' # attending \/ copy.roles[r] # roles[r]

JoinsKeepTheCap == [][KeepsTheCap]_vars

=============================================================================
