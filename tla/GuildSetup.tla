----------------------------- MODULE GuildSetup -----------------------------
(***************************************************************************)
(* A server the bot is in: making its channels (guildsetup.go, AdoptForum  *)
(* of forum.go), started by the gateway when the bot joins and by an       *)
(* operator, and the row of bot_guilds that says the bot is there          *)
(* (botguilds.go, the guild handlers of gateway.go).                       *)
(*                                                                         *)
(* A set-up reads the channels once and works from that list, creating one *)
(* channel at a time.  The board stands for the other text channels, which *)
(* are found, made and recorded with it.  The gateway hands its notices to *)
(* handlers in no order, and loses those of a time it is not connected.    *)
(***************************************************************************)
EXTENDS Integers, FiniteSets

CONSTANTS
  Setups,           \* set-ups that may overlap
  MaxChannels,      \* bound: channels ever made
  MaxMeddling,      \* bound: channels people rename or delete
  MaxMembership,    \* bound: times the bot joins or leaves
  MaxSetupFaults    \* bound: calls that fail

Kinds == {"category", "board", "forum"}

VARIABLES
  channels,     \* the server's channels at Discord
  made,         \* channels ever made, for their ids
  guildRow,     \* the recorded board and forum, 0 for none
  setups,       \* each set-up under way
  member,       \* whether the bot is in the server
  botGuild,     \* the row of bot_guilds: none, without its owner, whole
  notices,      \* gateway notices not handled yet
  sync,         \* the ten-minute sync's pass over the servers
  meddling, membership, setupFaults

server == <<channels, made, guildRow, setups, meddling>>
guilds == <<member, botGuild, notices, sync, membership>>
vars   == <<server, guilds, setupFaults>>

Free == [at |-> "idle", seen |-> {}, recorded |-> [board |-> 0, forum |-> 0],
         found |-> [k \in Kinds |-> 0]]

Init ==
  /\ channels = {} /\ made = 0 /\ guildRow = [board |-> 0, forum |-> 0]
  /\ setups = [s \in Setups |-> Free]
  /\ member = FALSE /\ botGuild = "none" /\ notices = {} /\ sync = "idle"
  /\ meddling = 0 /\ membership = 0 /\ setupFaults = 0

Fails == setupFaults < MaxSetupFaults /\ setupFaults' = setupFaults + 1
Works == UNCHANGED setupFaults
-----------------------------------------------------------------------------
\* SetUpGuild.

Following(kind) == CASE kind = "category" -> "board"
                     [] kind = "board" -> "forum"
                     [] kind = "forum" -> "record"

\* ListGuildChannels and the recorded rows.
Begin(s) ==
  /\ setups[s].at = "idle" /\ member
  /\ setups' = [setups EXCEPT ![s] = [Free EXCEPT !.at = "category", !.seen = channels,
                                                  !.recorded = guildRow]]

\* POST /api/guilds/{id}/setup.
HandleSetUpGuild(s) ==
  /\ Begin(s)
  /\ UNCHANGED <<channels, made, guildRow, meddling, guilds, setupFaults>>

Recorded(r, kind) == CASE kind = "category" -> 0
                       [] kind = "board" -> r.recorded.board
                       [] kind = "forum" -> r.recorded.forum

\* Mutant of Reusable: only a recorded channel is kept.
RecordedOnly(r, kind) == {c \in r.seen : c.id = Recorded(r, kind)}

\* find: the recorded channel the list still has, else one of the name.
Reusable(r, kind) ==
  LET recorded == {c \in r.seen : c.id = Recorded(r, kind)}
  IN  IF recorded # {} THEN recorded ELSE {c \in r.seen : c.kind = kind /\ c.named}

Reuse(s, kind) ==
  /\ setups[s].at = kind
  /\ \E c \in Reusable(setups[s], kind) :
       setups' = [setups EXCEPT ![s].found[kind] = c.id, ![s].at = Following(kind)]
  /\ UNCHANGED <<channels, made, guildRow, meddling, guilds, setupFaults>>

CreateGuildChannel(s, kind) ==
  /\ setups[s].at = kind /\ Reusable(setups[s], kind) = {}
  /\ member /\ made < MaxChannels
  /\ made' = made + 1
  /\ channels' = channels \cup {[id |-> made + 1, kind |-> kind, named |-> TRUE]}
  /\ setups' = [setups EXCEPT ![s].found[kind] = made + 1, ![s].at = Following(kind)]
  /\ UNCHANGED <<guildRow, meddling, guilds, setupFaults>>

\* SetGuildChannels, SetGuildTable, SetGuildManagementChannel: before anything
\* is posted.
RecordChannels(s) ==
  /\ setups[s].at = "record"
  /\ guildRow' = [guildRow EXCEPT !.board = setups[s].found["board"]]
  /\ setups' = [setups EXCEPT ![s].at = "adopt"]
  /\ UNCHANGED <<channels, made, meddling, guilds, setupFaults>>

\* AdoptForum: tags and the default reaction at Discord, then the forum's row,
\* then its posts and the tables.
AdoptForum(s) ==
  /\ setups[s].at = "adopt"
  /\ \E c \in channels : c.id = setups[s].found["forum"]
  /\ guildRow' = [guildRow EXCEPT !.forum = setups[s].found["forum"]]
  /\ setups' = [setups EXCEPT ![s] = Free]
  /\ UNCHANGED <<channels, made, meddling, guilds, setupFaults>>

\* Any call of it fails, and what was made stays.
SetupFails(s) ==
  /\ setups[s].at # "idle"
  /\ Fails \/ (Works /\ ~member)
           \/ (Works /\ setups[s].at = "adopt" /\ \A c \in channels : c.id # setups[s].found["forum"])
  /\ setups' = [setups EXCEPT ![s] = Free]
  /\ UNCHANGED <<channels, made, guildRow, meddling, guilds>>

\* People rename and delete the server's channels.
Meddle ==
  /\ meddling < MaxMeddling /\ meddling' = meddling + 1
  /\ \E c \in channels :
       channels' = (channels \ {c}) \cup (IF c.named THEN {[c EXCEPT !.named = FALSE]} ELSE {})
  /\ UNCHANGED <<made, guildRow, setups, guilds, setupFaults>>

-----------------------------------------------------------------------------
\* The list of servers.

JoinOrLeave ==
  /\ membership < MaxMembership /\ membership' = membership + 1
  /\ member' = ~member
  /\ notices' \in {notices, notices \cup {IF member THEN "delete" ELSE "create"}}
  /\ UNCHANGED <<server, botGuild, sync, setupFaults>>

\* The gateway connects again: READY lists the servers, and a GUILD_CREATE
\* follows for each.
Reconnect ==
  /\ Fails
  /\ notices' = IF member THEN {"ready in", "create"} ELSE {"ready out"}
  /\ UNCHANGED <<server, member, botGuild, sync, membership>>

\* onGuildCreate: recorded, and set up unless a board is recorded.
OnGuildCreate ==
  /\ "create" \in notices /\ notices' = notices \ {"create"}
  /\ botGuild' = "whole"
  /\ IF guildRow.board = 0 /\ member
     THEN \E s \in Setups : Begin(s) \/ (setups[s].at # "idle" /\ UNCHANGED setups)
     ELSE UNCHANGED setups
  /\ UNCHANGED <<channels, made, guildRow, meddling, member, sync, membership, setupFaults>>

\* onReady prunes, onGuildDelete removes.
OnReadyOrDelete ==
  /\ \E n \in notices \ {"create"} :
       /\ notices' = notices \ {n}
       /\ botGuild' = IF n = "ready in" THEN botGuild ELSE "none"
  /\ UNCHANGED <<server, member, sync, membership, setupFaults>>

\* RefreshBotGuilds: Discord's list,
ListBotGuilds ==
  /\ sync = "idle"
  /\ sync' = IF member THEN "listed in" ELSE "listed out"
  /\ UNCHANGED <<server, member, botGuild, notices, membership, setupFaults>>

\* Mutant of KeepOnlyBotGuilds: a server Discord no longer lists keeps its row.
KeepAllBotGuilds ==
  /\ sync \in {"listed in", "listed out"}
  /\ botGuild' = IF sync = "listed in" /\ botGuild = "none" THEN "named" ELSE botGuild
  /\ sync' = IF sync = "listed in" THEN "owner" ELSE "idle"
  /\ UNCHANGED <<server, member, notices, membership, setupFaults>>

\* each recorded by name, the rest forgotten,
KeepOnlyBotGuilds ==
  /\ sync \in {"listed in", "listed out"}
  /\ botGuild' = CASE sync = "listed out" -> "none"
                   [] sync = "listed in" /\ botGuild = "none" -> "named"
                   [] OTHER -> botGuild
  /\ sync' = IF sync = "listed in" THEN "owner" ELSE "idle"
  /\ UNCHANGED <<server, member, notices, membership, setupFaults>>

\* and the owner read of any whose owner is not known.
ReadOwner ==
  /\ sync = "owner" /\ sync' = "idle"
  /\ \/ botGuild = "whole" /\ UNCHANGED botGuild /\ Works
     \/ botGuild # "whole" /\ member /\ botGuild' = "whole" /\ Works
     \/ botGuild # "whole" /\ UNCHANGED botGuild /\ (Fails \/ (~member /\ Works))
  /\ UNCHANGED <<server, member, notices, membership>>

Setup(s) ==
  \/ HandleSetUpGuild(s) \/ RecordChannels(s) \/ AdoptForum(s) \/ SetupFails(s)
  \/ \E kind \in Kinds : Reuse(s, kind) \/ CreateGuildChannel(s, kind)

RefreshBotGuilds == ListBotGuilds \/ KeepOnlyBotGuilds \/ ReadOwner

Next ==
  \/ \E s \in Setups : Setup(s)
  \/ Meddle \/ JoinOrLeave \/ Reconnect \/ OnGuildCreate \/ OnReadyOrDelete
  \/ RefreshBotGuilds

\* The sync runs every ten minutes, and the gateway's handlers run.
Fairness == WF_vars(RefreshBotGuilds) /\ WF_vars(OnGuildCreate \/ OnReadyOrDelete)

Spec == Init /\ [][Next]_vars /\ Fairness
-----------------------------------------------------------------------------
TypeOK ==
  /\ channels \subseteq [id : 1..MaxChannels, kind : Kinds, named : BOOLEAN]
  /\ guildRow \in [board : 0..MaxChannels, forum : 0..MaxChannels]
  /\ made \in 0..MaxChannels
  /\ \A s \in Setups : setups[s].at \in {"idle", "record", "adopt"} \cup Kinds
  /\ botGuild \in {"none", "named", "whole"} /\ member \in BOOLEAN
  /\ sync \in {"idle", "listed in", "listed out", "owner"}

\* guildsetup.go: a set-up that failed half way, or whose channels people
\* renamed and deleted, makes no second channel of a name when it runs again:
\* there are never more of one name than set-ups that overlapped.
SetupMakesNoChannelTwice ==
  \A kind \in Kinds :
    Cardinality({c \in channels : c.kind = kind /\ c.named}) <= Cardinality(Setups)

\* botguilds.go: whatever notices are lost or come late, and whichever pass of
\* the sync they race, the row of a server ends up saying whether the bot is there.
GuildListComesRight == <>[]((botGuild # "none") = member)

=============================================================================
