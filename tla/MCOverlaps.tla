----------------------------- MODULE MCOverlaps -----------------------------
(***************************************************************************)
(* The parts whose calls run beside each other - two sweeps, two passes,   *)
(* two polls, two requests - in one model: `part` says which of them this  *)
(* behaviour is about, and the variables of the others stay as they        *)
(* started.  A property below is one of a part's, asked in the behaviours  *)
(* about it.                                                               *)
(***************************************************************************)
EXTENDS Integers, FiniteSets, TLC

CONSTANTS
  Calls,   \* the calls of a part that may overlap
  MaxDate, MaxMinute, MaxUpsets,
  MaxAsked, MaxDrawn, MaxDrawingFaults,
  MaxChannels, MaxMeddling, MaxMembership, MaxSetupFaults,
  MaxTexts, MaxNatives, MaxNativeFaults,
  Guests, Lines, Wanted, ItemsPerPerson, MaxRows, MaxPotluckMoves, MaxPolls,
  Helpers, Roles, Caps, RolesPerEvent, MaxRoleMoves, MaxCopies, MaxJoins,
  RefreshInterval, IdleLifetime, MaxHour, MaxGrants, MaxAccessFaults,
  About, Written, Retries, FilesPerReply, MaxSent, MaxInstant, MaxReplyFaults

ASSUME OverlapsAssumption ==
  /\ IsFiniteSet(Calls)
  /\ MaxDate \in Nat \ {0}
  /\ MaxAsked \in Nat
  /\ MaxHour \in Nat \ {0} /\ MaxGrants \in Nat /\ MaxAccessFaults \in Nat
  /\ RefreshInterval \in Nat /\ IdleLifetime \in Nat
  /\ MaxChannels \in Nat
  /\ Guests # {} /\ Wanted \in Nat /\ MaxRows \in Nat
  /\ MaxPotluckMoves \in Nat /\ MaxPolls \in Nat
  /\ FilesPerReply \in Nat /\ MaxSent \in Nat /\ MaxInstant \in Nat /\ MaxReplyFaults \in Nat

ASSUME RolesAssumption ==
  /\ IsFiniteSet(Roles) /\ Caps \subseteq Nat
  /\ MaxRoleMoves \in Nat /\ MaxCopies \in Nat /\ MaxJoins \in Nat

ASSUME NativeAssumption ==
  MaxTexts \in Nat \ {0} /\ MaxNatives \in Nat \ {0} /\ MaxNativeFaults \in Nat

VARIABLES
  part,
  minute, date, startsAt, stamps, asked, going, answered, channel, minuteRun, pings, slips,
    upsets,
  askedDrawing, gallery, chosen, mascot, photo, files, orphans, form, drawing, saves, drawn,
    uploaded, drawingFaults,
  channels, madeChannels, guildRow, setups, member, botGuild, notices, sync, meddling,
    membership, setupFaults,
  row, native, passes, push, due, texts, typed, crossed, nativeFaults,
  guestsGoing, answering, rows, made, request, lines, copied, polls, reread, potluckMoves, polled,
  attending, taking, roles, places, ticks, signatures, copy, adding, roleMoves, copies, joins,
  hour, standing, lost, editorRole, holds, named, session, state, requests, grants,
    accessFaults,
  instant, sent, eventDMs, message, reply, attachments, worker, handedOff, stored, left,
    filing, replyFaults

Reminders    == INSTANCE Reminders WITH Sweepers <- Calls
Drawings     == INSTANCE Drawings WITH Drawers <- Calls, asked <- askedDrawing
GuildSetup   == INSTANCE GuildSetup WITH Setups <- Calls, made <- madeChannels
NativeEvents == INSTANCE NativeEvents WITH Passes <- Calls
Potluck      == INSTANCE Potluck WITH Polls <- Calls, going <- guestsGoing
SheetRoles   == INSTANCE SheetRoles WITH Adders <- Calls
WebAccess    == INSTANCE WebAccess WITH Requests <- Calls
Replies      == INSTANCE Replies WITH Deliveries <- Calls

remindersVars == <<minute, date, startsAt, stamps, asked, going, answered, channel, minuteRun,
  pings, slips, upsets>>
drawingsVars == <<askedDrawing, gallery, chosen, mascot, photo, files, orphans, form, drawing,
  saves, drawn, uploaded, drawingFaults>>
setupVars == <<channels, madeChannels, guildRow, setups, member, botGuild, notices, sync,
  meddling, membership, setupFaults>>
nativeVars == <<row, native, passes, push, due, texts, typed, crossed, nativeFaults>>
potluckVars == <<guestsGoing, answering, rows, made, request, lines, copied, polls, reread,
  potluckMoves, polled>>
rolesVars == <<attending, taking, roles, places, ticks, signatures, copy, adding, roleMoves,
  copies, joins>>
accessVars == <<hour, standing, lost, editorRole, holds, named, session, state, requests,
  grants, accessFaults>>
repliesVars == <<instant, sent, eventDMs, message, reply, attachments, worker, handedOff,
  stored, left, filing, replyFaults>>

vars == <<part, remindersVars, drawingsVars, setupVars, nativeVars, potluckVars, rolesVars,
          accessVars, repliesVars>>

Parts == {"reminders", "drawings", "setup", "native", "potluck", "roles", "access", "replies"}

-----------------------------------------------------------------------------
\* A part the behaviour is not about starts in one state, and stays in it.
Init ==
  /\ part \in Parts
  /\ Reminders!Init /\ Drawings!Init /\ GuildSetup!Init /\ NativeEvents!Init
  /\ Potluck!Init /\ SheetRoles!Init /\ WebAccess!Init /\ Replies!Init
  /\ part # "native" => row.text = 0
  /\ part # "potluck" =>
       guestsGoing = {} /\ lines = [l \in Lines |-> [who |-> CHOOSE g \in Guests : TRUE, brings |-> "none"]]
  /\ part # "roles" => \A r \in Roles : roles[r] = SheetRoles!Missing /\ ticks[r] = {}
  /\ part # "access" => standing = WebAccess!Member

Except(p) ==
  /\ part = p /\ part' = part
  /\ IF p = "reminders" THEN TRUE ELSE UNCHANGED remindersVars
  /\ IF p = "drawings"  THEN TRUE ELSE UNCHANGED drawingsVars
  /\ IF p = "setup"     THEN TRUE ELSE UNCHANGED setupVars
  /\ IF p = "native"    THEN TRUE ELSE UNCHANGED nativeVars
  /\ IF p = "potluck"   THEN TRUE ELSE UNCHANGED potluckVars
  /\ IF p = "roles"     THEN TRUE ELSE UNCHANGED rolesVars
  /\ IF p = "access"    THEN TRUE ELSE UNCHANGED accessVars
  /\ IF p = "replies"   THEN TRUE ELSE UNCHANGED repliesVars

Next ==
  \/ Except("reminders") /\ Reminders!Next
  \/ Except("drawings")  /\ Drawings!Next
  \/ Except("setup")     /\ GuildSetup!Next
  \/ Except("native")    /\ NativeEvents!Next
  \/ Except("potluck")   /\ Potluck!Next
  \/ Except("roles")     /\ SheetRoles!Next
  \/ Except("access")    /\ WebAccess!Next
  \/ Except("replies")   /\ Replies!Next

Spec == Init /\ [][Next]_vars

\* The calls of a part are alike.
Alike == Permutations(Calls)

-----------------------------------------------------------------------------
\* The variables of the part the behaviour is about keep their types.
TypeOK ==
  /\ part \in Parts
  /\ part = "reminders" => Reminders!TypeOK
  /\ part = "drawings" => Drawings!TypeOK
  /\ part = "setup" => GuildSetup!TypeOK
  /\ part = "native" => NativeEvents!TypeOK
  /\ part = "potluck" => Potluck!TypeOK
  /\ part = "roles" => SheetRoles!TypeOK
  /\ part = "access" => WebAccess!TypeOK
  /\ part = "replies" => Replies!TypeOK

-----------------------------------------------------------------------------
\* Each is the property of that name in its part's module, which says what it means.

\* A date is pinged no more often than overlaps, restarts and failures explain (reminders.go).
RemindersAreBounded ==
  part = "reminders" => Reminders!RemindersAreBounded

\* Photos asked from are purged or known, and what is shown exists (avatars.go).
DrawingsAreAccountedFor ==
  part = "drawings" => Drawings!PhotosAreAccountedFor /\ Drawings!ShownDrawingsExist

\* Set-ups that fail, overlap or are repeated do not double the channels (setup.go).
SetupMakesNoChannelTwice ==
  part = "setup" => GuildSetup!SetupMakesNoChannelTwice

\* A sync takes from Discord only what somebody typed there (discordevents.go).
OnlyTypedEditsAreTaken == [][part = "native" => NativeEvents!TakesTypedOnly]_nativeVars

\* A request is taken by no more than it wants, and nobody who brings
\* something also brings nothing (potluck.go, potlucksheetimport.go).
ClaimsAddUp ==
  part = "potluck" => Potluck!ClaimsWithinWanted /\ Potluck!AnswersAgree

\* Taking a role never passes its cap, and nobody is in one twice (sheetroles.go).
RolesAddUp ==
  /\ [][part = "roles" => SheetRoles!KeepsTheCap]_rolesVars
  /\ [](part = "roles" => SheetRoles!InARoleOnce)

\* What permissions were lost runs out with the refresh of the session (sessionrefresh.go).
LostPermissionsRunOut ==
  part = "access" => WebAccess!LostPermissionsRunOut

\* An image stored for a reply is recorded, being worked on, or was reported (dmreplyattachments.go).
ImagesAreAccountedFor ==
  part = "replies" => Replies!ImagesAreAccountedFor
=============================================================================
