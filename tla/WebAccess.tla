----------------------------- MODULE WebAccess -----------------------------
(***************************************************************************)
(* One browser's login (websession.go, weboauth.go), the copy of Discord's *)
(* permissions it carries and their refresh (sessionrefresh.go), and what  *)
(* the pages let its owner do in one server with one event                 *)
(* (editauthority.go, siteadmins.go, eventorganizers.go, webjoin.go).      *)
(*                                                                         *)
(* Requests of the same login overlap.  A request takes at most one unit   *)
(* of the clock, an hour, which is far longer than its timeouts allow.     *)
(* Permissions are what the pages tell apart: out of the server, in it, or *)
(* in it with Manage Events.                                               *)
(***************************************************************************)
EXTENDS Integers, FiniteSets

CONSTANTS
  Requests,         \* requests that may overlap
  RefreshInterval,  \* permissionRefreshInterval, in hours
  IdleLifetime,     \* sessionIdleLifetime, in hours
  MaxHour,          \* bound: the clock
  MaxGrants,        \* bound: changes of anybody's rights
  MaxAccessFaults   \* bound: reads Discord refuses

VARIABLES
  hour,
  standing,   \* the person's permissions in the server, as Discord has them
  lost,       \* since when they do not hold Manage Events
  editorRole, \* GuildEditingRule: whether an editor role replaces Manage Events
  holds,      \* whether they hold the editor role
  named,      \* what they were made: a site admin, an organizer of the event
  session,    \* web_sessions: their row
  state,      \* oauth_states: a login that was started and did not come back
  requests,   \* each request's; kept: its refresh failed and left the permissions as they were
  grants, accessFaults

vars == <<hour, standing, lost, editorRole, holds, named, session, state, requests,
          grants, accessFaults>>
discordSide == <<standing, lost, editorRole, holds, named>>

Out == "out"
Member == "member"
Manages == "manages"   \* permissionManageEvents or permissionAdministrator
NoSession == [live |-> FALSE, perms |-> Out, expires |-> 0, checked |-> 0]
Waiting   == [at |-> "idle", perms |-> Out, expires |-> 0, since |-> 0, gone |-> FALSE,
              kept |-> FALSE]

Init ==
  /\ hour = 1 /\ standing \in {Member, Manages} /\ lost = IF standing = Manages THEN 0 ELSE 1
  /\ editorRole = FALSE /\ holds = FALSE /\ named = {}
  /\ session = NoSession /\ state = FALSE /\ requests = [q \in Requests |-> Waiting]
  /\ grants = 0 /\ accessFaults = 0

Refuses == accessFaults < MaxAccessFaults /\ accessFaults' = accessFaults + 1
Answers == UNCHANGED accessFaults

Step(q, at) == requests' = [requests EXCEPT ![q].at = at]
Ends(q) == requests' = [requests EXCEPT ![q] = Waiting]
-----------------------------------------------------------------------------
\* The world.

HourPasses ==
  /\ hour < MaxHour /\ hour' = hour + 1
  /\ \A q \in Requests : requests[q].at # "idle" => requests[q].since = hour
  /\ UNCHANGED <<discordSide, session, state, requests, grants, accessFaults>>

Grant == grants < MaxGrants /\ grants' = grants + 1

StandingChanges ==
  /\ Grant /\ \E to \in {Out, Member, Manages} \ {standing} :
       /\ standing' = to
       /\ lost' = IF to = Manages THEN 0 ELSE IF standing = Manages THEN hour ELSE lost
       /\ holds' = (holds /\ to # Out)
  /\ UNCHANGED <<hour, editorRole, named, session, state, requests,
                 accessFaults>>

RoleChanges ==
  /\ Grant /\ standing # Out /\ holds' = ~holds
  /\ UNCHANGED <<hour, standing, lost, editorRole, named, session, state, requests,
                 accessFaults>>

\* handleSetGuildEditing
SetGuildEditingRule ==
  /\ Grant /\ editorRole' = ~editorRole
  /\ UNCHANGED <<hour, standing, lost, holds, named, session, state, requests,
                 accessFaults>>

Names(title) ==
  /\ Grant /\ named' = IF title \in named THEN named \ {title} ELSE named \cup {title}
  /\ UNCHANGED <<hour, standing, lost, editorRole, holds, session, state, requests,
                 accessFaults>>

AddSiteAdmin      == Names("admin")
SetEventOrganizer == Names("organizer")
-----------------------------------------------------------------------------
\* Logging in and out.

HandleLogin ==
  /\ ~state /\ state' = TRUE
  /\ UNCHANGED <<hour, discordSide, session, requests, grants, accessFaults>>

\* The state is used up whether or not the exchange that follows works.
ConsumeOAuthState(q) ==
  /\ requests[q].at = "idle" /\ state /\ state' = FALSE
  /\ requests' = [requests EXCEPT ![q] = [Waiting EXCEPT !.at = "exchange", !.since = hour]]
  /\ UNCHANGED <<hour, discordSide, session, grants, accessFaults>>

ExchangeCode(q) ==
  /\ requests[q].at = "exchange"
  /\ \/ /\ Answers /\ requests' = [requests EXCEPT ![q].at = "create", ![q].perms = standing]
     \/ /\ Refuses /\ Ends(q)
  /\ UNCHANGED <<hour, discordSide, session, state, grants>>

\* The requests under way belong to a login whose row is gone, or is not the
\* browser's any more.
Forgotten == [q \in Requests |-> IF requests[q].at = "idle" THEN Waiting
                                 ELSE [requests[q] EXCEPT !.gone = TRUE]]

\* A browser that logs in again gets another token, and the cookie with it.
CreateWebSession(q) ==
  /\ requests[q].at = "create"
  /\ session' = [live |-> TRUE, perms |-> requests[q].perms, expires |-> hour + IdleLifetime,
                 checked |-> hour]
  /\ requests' = [Forgotten EXCEPT ![q] = Waiting]
  /\ UNCHANGED <<hour, discordSide, state, grants, accessFaults>>

HandleOAuthCallback(q) == ConsumeOAuthState(q) \/ ExchangeCode(q) \/ CreateWebSession(q)

HandleLogout ==
  /\ session.live /\ session' = NoSession /\ requests' = Forgotten
  /\ UNCHANGED <<hour, discordSide, state, grants, accessFaults>>

\* Hourly; and the logins started and not come back within ten minutes.
SweepExpiredSessions ==
  /\ session' = IF session.live /\ session.expires <= hour THEN NoSession ELSE session
  /\ requests' = IF session' = session THEN requests ELSE Forgotten
  /\ state' \in {state, FALSE} /\ <<session', state'>> # <<session, state>>
  /\ UNCHANGED <<hour, discordSide, grants, accessFaults>>
-----------------------------------------------------------------------------
\* One request: sessionFrom, then the page's own handler.

\* Mutant of Old: a login that was used is taken for one that was checked.
OldLogin(perms, expires, checked) == hour >= expires
\* The permissions are as old as they may get.
Old(perms, expires, checked) == hour - checked >= RefreshInterval

WebSessionByToken(q) ==
  /\ requests[q].at = "idle" /\ session.live
  /\ IF session.expires <= hour
     THEN session' = NoSession /\ requests' = Forgotten
     ELSE /\ UNCHANGED session
          /\ requests' = [requests EXCEPT ![q] =
               [at |-> IF Old(session.perms, session.expires, session.checked) THEN "refresh" ELSE "extend",
                perms |-> session.perms, expires |-> session.expires, since |-> hour,
                gone |-> FALSE, kept |-> FALSE]]
  /\ UNCHANGED <<hour, discordSide, state, grants, accessFaults>>

\* The bot reads the person's permissions in each server; when it cannot, the
\* login keeps those it had, and its next request tries again.
MemberPermissions(q) ==
  /\ requests[q].at = "refresh"
  /\ \/ /\ Answers
        /\ requests' = [requests EXCEPT ![q].at = "replace", ![q].perms = standing]
     \/ /\ Refuses
        /\ requests' = [requests EXCEPT ![q].at = "extend", ![q].kept = TRUE]
  /\ UNCHANGED <<hour, discordSide, session, state, grants>>

\* A statement on the token: of a login that is gone it changes nothing.
ReplaceWebSessionPermissions(q) ==
  /\ requests[q].at = "replace"
  /\ session' = IF session.live /\ ~requests[q].gone THEN [session EXCEPT !.perms = requests[q].perms, !.checked = hour]
                ELSE session
  /\ Step(q, "extend")
  /\ UNCHANGED <<hour, discordSide, state, grants, accessFaults>>

\* A visit moves the end forward.
KeepSessionCurrent(q) ==
  /\ requests[q].at = "extend"
  /\ requests' = [requests EXCEPT ![q] = [Waiting EXCEPT !.at = "act", !.perms = requests[q].perms,
                                                          !.since = requests[q].since,
                                                          !.kept = requests[q].kept]]
  /\ session' = IF session.live /\ ~requests[q].gone /\ hour + IdleLifetime > requests[q].expires
                THEN [session EXCEPT !.expires = hour + IdleLifetime] ELSE session
  /\ UNCHANGED <<hour, discordSide, state, grants, accessFaults>>

\* The rights that open an edit, of any event and of this one.
MayEditAllEventsIn(q) ==
  (named \cap {"admin"})
  \cup (IF ~editorRole /\ requests[q].perms = Manages THEN {"permissions"} ELSE {})
  \cup (IF editorRole /\ holds THEN {"role"} ELSE {})
MayEditEvent(q) == (named \cap {"organizer"}) \cup MayEditAllEventsIn(q)

\* A page that edits; reading the roles it needs, Discord may refuse.
EditEvent(q) ==
  /\ requests[q].at = "act" /\ Ends(q)
  /\ requests[q].perms # Out \/ "admin" \in named
  /\ MayEditEvent(q) # {}
  /\ UNCHANGED <<hour, discordSide, session, state, grants, accessFaults>>

EventForSelfSignup(q) == requests[q].perms # Out

\* Joining asks Discord for the name, and so whether they are still in the server.
HandleWebJoin(q) ==
  /\ requests[q].at = "act" /\ Ends(q)
  /\ EventForSelfSignup(q) /\ standing # Out
  /\ UNCHANGED <<hour, discordSide, session, state, grants, accessFaults>>

HandleWebLeave(q) ==
  /\ requests[q].at = "act" /\ Ends(q)
  /\ EventForSelfSignup(q)
  /\ UNCHANGED <<hour, discordSide, session, state, grants, accessFaults>>

\* A page that only shows, or a refusal.
Shows(q) ==
  /\ requests[q].at = "act" /\ Ends(q)
  /\ UNCHANGED <<hour, discordSide, session, state, grants, accessFaults>>
-----------------------------------------------------------------------------
Next ==
  \/ HourPasses \/ StandingChanges \/ RoleChanges \/ SetGuildEditingRule
  \/ AddSiteAdmin \/ SetEventOrganizer
  \/ HandleLogin \/ HandleLogout \/ SweepExpiredSessions
  \/ \E q \in Requests :
       \/ HandleOAuthCallback(q)
       \/ WebSessionByToken(q) \/ MemberPermissions(q) \/ ReplaceWebSessionPermissions(q)
       \/ KeepSessionCurrent(q)
       \/ EditEvent(q) \/ HandleWebJoin(q) \/ HandleWebLeave(q) \/ Shows(q)

Spec == Init /\ [][Next]_vars
-----------------------------------------------------------------------------
TypeOK ==
  /\ hour \in 1..MaxHour /\ standing \in {Out, Member, Manages} /\ lost \in 0..MaxHour
  /\ editorRole \in BOOLEAN /\ holds \in BOOLEAN /\ state \in BOOLEAN
  /\ named \subseteq {"admin", "organizer"}
  /\ session \in [live : BOOLEAN, perms : {Out, Member, Manages}, expires : 0..(MaxHour + IdleLifetime),
                  checked : 0..MaxHour]
  /\ \A q \in Requests :
       requests[q].at \in {"idle", "exchange", "create", "refresh", "replace", "extend", "act"}
  /\ grants \in 0..MaxGrants /\ accessFaults \in 0..MaxAccessFaults

\* A permission taken away in Discord lets a request of its former holder edit
\* for no longer than the refresh interval and the request that read it and the
\* one that uses it (websession.go:23-26), unless Discord refused that request's refresh.
LostPermissionsRunOut ==
  \A q \in Requests :
    requests[q].at = "act" /\ MayEditEvent(q) = {"permissions"} /\ standing # Manages =>
    hour - lost < RefreshInterval + 2 \/ requests[q].kept
=============================================================================
