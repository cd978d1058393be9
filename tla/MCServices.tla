----------------------------- MODULE MCServices -----------------------------
(***************************************************************************)
(* The parts that have something to finish, or one call of each kind at a  *)
(* time, in one model: `part` says which of them this behaviour is about,  *)
(* and the variables of the others stay as they started.  A property below *)
(* is one of a part's, asked in the behaviours about it.  GuildSetup and   *)
(* NativeEvents are here for what must happen in the end; MCOverlaps has   *)
(* their calls beside each other.                                          *)
(***************************************************************************)
EXTENDS Integers

CONSTANTS
  MaxDelay, MaxFaults,
  Users, MaxMoves, MaxFollowFaults,
  Organizers, Readers, MaxMessages, MaxMoment,
  Watched, MaxUpdates, MaxSecond, MaxNoticeFaults,
  Sitters, MaxPictureEdits, MaxSceneRequests, MaxPainterFaults,
  Setups, MaxChannels, MaxMeddling, MaxMembership, MaxSetupFaults,
  Passes, MaxTexts, MaxNatives, MaxNativeFaults,
  Starts, Missed, MaxSteps

ASSUME ServicesAssumption ==
  /\ MaxDelay \in Nat \ {0}
  /\ MaxMessages \in Nat
  /\ MaxSceneRequests \in Nat
  /\ MaxChannels \in Nat
  /\ MaxTexts \in Nat \ {0} /\ MaxNatives \in Nat \ {0}
  /\ Starts \subseteq Int /\ Missed \subseteq Nat /\ MaxSteps \in Nat

VARIABLES
  part,
  phase, reported, delay, socket, stuck, notices, noticed, left, faults,
  state, rolled, status, graceOver, post, ticked, inbox, owed, published, writer, sweep,
    member, followed, moves, followFaults,
  moment, messages, sending, reached,
  second, log, watching, notice, told, retold, noticeFaults,
  details, sitters, picturesOff, scene, prints, painter, answers, pictureEdits, painterFaults,
  channels, made, guildRow, setups, botMember, botGuild, guildNotices, sync, meddling,
    membership, setupFaults,
  row, native, passes, push, due, texts, typed, crossed, nativeFaults,
  series, nativeRule, origin, steps

Gateway       == INSTANCE Gateway
ForumPost     == INSTANCE ForumPost
EventMessages == INSTANCE EventMessages
RosterNotices == INSTANCE RosterNotices
EventPictures == INSTANCE EventPictures
GuildSetup    == INSTANCE GuildSetup WITH member <- botMember, notices <- guildNotices
NativeEvents  == INSTANCE NativeEvents
Recurrence    == INSTANCE Recurrence WITH native <- nativeRule

gatewayVars == <<phase, reported, delay, socket, stuck, notices, noticed, left, faults>>
forumVars == <<state, rolled, status, graceOver, post, ticked, inbox, owed, published, writer,
  sweep, member, followed, moves, followFaults>>
messagesVars == <<moment, messages, sending, reached>>
noticesVars == <<second, log, watching, notice, told, retold, noticeFaults>>
picturesVars == <<details, sitters, picturesOff, scene, prints, painter, answers, pictureEdits,
  painterFaults>>
setupVars == <<channels, made, guildRow, setups, botMember, botGuild, guildNotices, sync,
  meddling, membership, setupFaults>>
nativeVars == <<row, native, passes, push, due, texts, typed, crossed, nativeFaults>>
recurrenceVars == <<series, nativeRule, origin, steps>>

vars == <<part, gatewayVars, forumVars, messagesVars, noticesVars, picturesVars, setupVars,
          nativeVars, recurrenceVars>>

Parts == {"gateway", "forum", "messages", "notices", "pictures", "setup", "native", "recurrence"}

-----------------------------------------------------------------------------
\* A part the behaviour is not about starts in one state, and stays in it.
Init ==
  /\ part \in Parts
  /\ Gateway!Init /\ ForumPost!Init /\ EventMessages!Init /\ RosterNotices!Init
  /\ EventPictures!Init /\ GuildSetup!Init /\ NativeEvents!Init /\ Recurrence!Init
  /\ part # "native" => row.text = 0
  /\ part # "recurrence" => series.start = (CHOOSE n \in Starts : TRUE) /\ series.ahead = 0

Except(p) ==
  /\ part = p /\ part' = part
  /\ IF p = "gateway"    THEN TRUE ELSE UNCHANGED gatewayVars
  /\ IF p = "forum"      THEN TRUE ELSE UNCHANGED forumVars
  /\ IF p = "messages"   THEN TRUE ELSE UNCHANGED messagesVars
  /\ IF p = "notices"    THEN TRUE ELSE UNCHANGED noticesVars
  /\ IF p = "pictures"   THEN TRUE ELSE UNCHANGED picturesVars
  /\ IF p = "setup"      THEN TRUE ELSE UNCHANGED setupVars
  /\ IF p = "native"     THEN TRUE ELSE UNCHANGED nativeVars
  /\ IF p = "recurrence" THEN TRUE ELSE UNCHANGED recurrenceVars

Next ==
  \/ Except("gateway")    /\ Gateway!Next
  \/ Except("forum")      /\ ForumPost!Next
  \/ Except("messages")   /\ EventMessages!Next
  \/ Except("notices")    /\ RosterNotices!Next
  \/ Except("pictures")   /\ EventPictures!Next
  \/ Except("setup")      /\ GuildSetup!Next
  \/ Except("native")     /\ NativeEvents!Next
  \/ Except("recurrence") /\ Recurrence!Next

\* The parts' own fairness, each in the behaviours about it.
Fairness ==
  /\ WF_gatewayVars(part = "gateway" /\ Gateway!Supervise)
  /\ WF_gatewayVars(part = "gateway" /\ Gateway!Notify)
  /\ WF_forumVars(part = "forum" /\ ForumPost!Pass)
  /\ WF_forumVars(part = "forum" /\ ForumPost!SweepStep)
  /\ WF_forumVars(part = "forum" /\ ForumPost!DayPasses)
  /\ WF_picturesVars(part = "pictures" /\ EventPictures!PaintDue)
  /\ WF_setupVars(part = "setup" /\ GuildSetup!RefreshBotGuilds)
  /\ WF_setupVars(part = "setup" /\ (GuildSetup!OnGuildCreate \/ GuildSetup!OnReadyOrDelete))
  /\ WF_nativeVars(part = "native" /\ NativeEvents!Publish)
  /\ \A p \in Passes : WF_nativeVars(part = "native" /\ NativeEvents!Pass(p))

Spec == Init /\ [][Next]_vars /\ Fairness

-----------------------------------------------------------------------------
\* The variables of the part the behaviour is about keep their types.
TypeOK ==
  /\ part \in Parts
  /\ part = "gateway" => Gateway!TypeOK
  /\ part = "forum" => ForumPost!TypeOK
  /\ part = "messages" => EventMessages!TypeOK
  /\ part = "notices" => RosterNotices!TypeOK
  /\ part = "pictures" => EventPictures!TypeOK
  /\ part = "setup" => GuildSetup!TypeOK
  /\ part = "native" => NativeEvents!TypeOK
  /\ part = "recurrence" => Recurrence!TypeOK

-----------------------------------------------------------------------------
\* Each is the property of that name in its part's module, which says what it means.

\* A gateway socket that died is noticed by the supervisor, and one that is
\* closed, deaf or stuck works again in the end (gateway_supervisor.go).
SocketComesBack ==
  /\ [](part = "gateway" => Gateway!EveryDeathIsNoticed)
  /\ Gateway!SocketComesBack

\* Who left an event is taken off its forum post's followers (forumposts.go).
LeaversComeOff == ForumPost!LeaversComeOff

\* No window holds more direct messages of an event than its limit (eventmessages.go).
DirectMessagesAreLimited ==
  part = "messages" => EventMessages!DirectMessagesAreLimited

\* Every settled change of a roster is told once to who watches it (rosternotices.go).
ToldOnce ==
  part = "notices" => RosterNotices!ToldOnce

\* A picture asked for on the page is painted or its failure told (eventpictures.go).
RequestsAreAnswered == EventPictures!RequestsAreAnswered

\* The list of servers comes to say whether the bot is in each (botguilds.go).
GuildListComesRight == part = "setup" => GuildSetup!GuildListComesRight

\* An end on either side reaches the other (discordevents.go).
EndsReachBothSides == NativeEvents!EndsReachBothSides

\* The next date is the rule's first after now, and a rule taken from Discord
\* goes back as it came (recurrence.go).
RepeatsAreKept ==
  /\ [][part = "recurrence" => Recurrence!GoesToTheFirst]_recurrenceVars
  /\ [](part = "recurrence" => Recurrence!ImportedRulesComeBack)
=============================================================================
