--------------------------- MODULE OverlapsProofs ---------------------------
(***************************************************************************)
(* What holds of the parts whose calls overlap for any number of calls and *)
(* any bounds, and not only on the instance TLC explores.  Each part has   *)
(* an inductive invariant of its own; a step of another part leaves its    *)
(* variables as they are.                                                  *)
(***************************************************************************)
EXTENDS MCOverlaps, Sequences, FiniteSetTheorems, TLAPS

-----------------------------------------------------------------------------
(* A step is one of the part the behaviour is about.                       *)

\* A behaviour stays with its part; each step is one of that part or leaves it alone.
LEMMA StepOfAPart ==
  ASSUME [Next]_vars
  PROVE  /\ part' = part
         /\ part = "reminders" => Reminders!Next \/ UNCHANGED remindersVars
         /\ part = "drawings" => Drawings!Next \/ UNCHANGED drawingsVars
         /\ part = "setup" => GuildSetup!Next \/ UNCHANGED setupVars
         /\ part = "native" => NativeEvents!Next \/ UNCHANGED nativeVars
         /\ part = "potluck" => Potluck!Next \/ UNCHANGED potluckVars
         /\ part = "roles" => SheetRoles!Next \/ UNCHANGED rolesVars
         /\ part = "access" => WebAccess!Next \/ UNCHANGED accessVars
         /\ part = "replies" => Replies!Next \/ UNCHANGED repliesVars
  <1>1. CASE UNCHANGED vars
    BY <1>1 DEF vars
  <1>2. CASE Next
    BY <1>2 DEF Next, Except
  <1> QED
    BY <1>1, <1>2

-----------------------------------------------------------------------------
(* Web sessions: what permissions were lost runs out.                      *)

Perms == {WebAccess!Out, WebAccess!Member, WebAccess!Manages}
Ends  == 0..(MaxHour + IdleLifetime)

WebRequest == [at : {"idle", "exchange", "create", "refresh", "replace", "extend", "act"},
               perms : Perms, expires : Ends, since : 0..MaxHour, gone : BOOLEAN,
               kept : BOOLEAN]
WebSession == [live : BOOLEAN, perms : Perms, expires : Ends, checked : 0..MaxHour]

FlagsTyped == editorRole \in BOOLEAN /\ holds \in BOOLEAN /\ state \in BOOLEAN

RightsTyped ==
  /\ hour \in 1..MaxHour /\ standing \in Perms /\ lost \in 0..MaxHour
  /\ named \subseteq {"admin", "organizer"}
  /\ grants \in 0..MaxGrants /\ accessFaults \in 0..MaxAccessFaults

\* Manage Events gone, no copy of it is younger than its loss: a session's is
\* checked no later than a request after it, and a request that would use or
\* write one began in time.  A request lasts at most an hour.
PermissionsAge ==
  /\ standing # WebAccess!Manages => lost \in 1..hour
  /\ session.checked <= hour
  /\ \A q \in Calls : requests[q].at # "idle" =>
       requests[q].since <= hour /\ hour <= requests[q].since + 1
  /\ standing # WebAccess!Manages =>
       /\ session.live /\ session.perms = WebAccess!Manages => session.checked <= lost + 1
       /\ \A q \in Calls : requests[q].perms = WebAccess!Manages =>
            /\ requests[q].at \in {"create", "replace"} => requests[q].since <= lost
            /\ requests[q].at \in {"extend", "act"} =>
                 requests[q].since <= lost + RefreshInterval \/ requests[q].kept

AccessInv ==
  /\ RightsTyped /\ FlagsTyped
  /\ session \in WebSession
  /\ requests \in [Calls -> WebRequest]
  /\ PermissionsAge

\* The invariant of web sessions has the part's TypeOK in it.
LEMMA AccessTypes ==
  AccessInv => WebAccess!TypeOK
  BY DEF AccessInv, RightsTyped, FlagsTyped, WebSession, WebRequest, Perms, Ends,
         WebAccess!TypeOK

\* The requests and sessions the steps build.
LEMMA WebRecords ==
  /\ WebAccess!Waiting \in WebRequest
  /\ WebAccess!NoSession \in WebSession
  /\ hour \in 1..MaxHour => hour \in 0..MaxHour /\ hour + IdleLifetime \in Ends
  BY OverlapsAssumption
     DEF WebAccess!Waiting, WebAccess!NoSession, WebRequest, WebSession, Perms, Ends

\* A request that forgets its session keeps what it read of the person.
LEMMA ForgottenRequests ==
  ASSUME requests \in [Calls -> WebRequest]
  PROVE  /\ WebAccess!Forgotten \in [Calls -> WebRequest]
         /\ \A q \in Calls : /\ WebAccess!Forgotten[q].at = requests[q].at
                             /\ requests[q].at # "idle" =>
                                  /\ WebAccess!Forgotten[q].perms = requests[q].perms
                                  /\ WebAccess!Forgotten[q].since = requests[q].since
                                  /\ WebAccess!Forgotten[q].kept = requests[q].kept
                             /\ requests[q].at = "idle" =>
                                  WebAccess!Forgotten[q] = WebAccess!Waiting
  <1>1. \A q \in Calls : [requests[q] EXCEPT !.gone = TRUE] \in WebRequest
    BY DEF WebRequest
  <1>2. \A q \in Calls : WebAccess!Forgotten[q] \in WebRequest
    BY <1>1, WebRecords DEF WebAccess!Forgotten
  <1>3. WebAccess!Waiting.at = "idle"
    BY DEF WebAccess!Waiting
  <1> QED
    BY <1>2, <1>3 DEF WebAccess!Forgotten, WebRequest

\* The invariant of web sessions holds at the start.
LEMMA AccessInit ==
  ASSUME WebAccess!Init
  PROVE  AccessInv
  <1> USE OverlapsAssumption
      DEF WebAccess!Init, WebAccess!Waiting, WebAccess!NoSession, WebAccess!Out,
          WebAccess!Member, WebAccess!Manages
  <1>1. requests \in [Calls -> WebRequest] /\ session \in WebSession
    BY WebRecords
  <1>2. RightsTyped
    BY DEF RightsTyped, Perms
  <1>3. FlagsTyped
    BY DEF FlagsTyped
  <1>4. PermissionsAge
    BY DEF PermissionsAge
  <1> QED
    BY <1>1, <1>2, <1>3, <1>4 DEF AccessInv

\* Each step of web sessions keeps their invariant.
LEMMA AccessStep ==
  ASSUME AccessInv, WebAccess!Next \/ UNCHANGED accessVars
  PROVE  AccessInv'
  <1> USE OverlapsAssumption, WebRecords
      DEF AccessInv, WebAccess!discordSide, WebAccess!Grant, WebAccess!Answers,
          WebAccess!Refuses, WebAccess!Step, WebAccess!Ends
  <1>1. ASSUME WebAccess!HourPasses
        PROVE  AccessInv'
    <2>1. requests' \in [Calls -> WebRequest]
      BY <1>1 DEF WebRequest, RightsTyped, WebSession, WebAccess!HourPasses
    <2>2. session' \in WebSession
      BY <1>1 DEF WebSession, WebRequest, RightsTyped, WebAccess!HourPasses
    <2>3. RightsTyped'
      BY <1>1 DEF RightsTyped, Perms, WebAccess!HourPasses
    <2>4. PermissionsAge'
      BY <1>1 DEF PermissionsAge, RightsTyped, WebSession, WebRequest, Ends, WebAccess!Waiting,
                  WebAccess!NoSession, WebAccess!HourPasses
    <2>5. FlagsTyped'
      BY <1>1 DEF FlagsTyped, WebAccess!HourPasses
    <2> QED
      BY <2>1, <2>2, <2>3, <2>4, <2>5
  <1>2. ASSUME WebAccess!StandingChanges
        PROVE  AccessInv'
    <2>1. requests' \in [Calls -> WebRequest]
      BY <1>2 DEF WebRequest, RightsTyped, WebSession, WebAccess!StandingChanges
    <2>2. session' \in WebSession
      BY <1>2 DEF WebSession, WebRequest, RightsTyped, WebAccess!StandingChanges
    <2>3. RightsTyped'
      BY <1>2 DEF RightsTyped, Perms, WebAccess!StandingChanges
    <2>4. PermissionsAge'
      BY <1>2 DEF PermissionsAge, RightsTyped, WebSession, WebRequest, Ends, WebAccess!Waiting,
                  WebAccess!NoSession, WebAccess!StandingChanges
    <2>5. FlagsTyped'
      BY <1>2 DEF FlagsTyped, WebAccess!StandingChanges
    <2> QED
      BY <2>1, <2>2, <2>3, <2>4, <2>5
  <1>3. ASSUME \/ WebAccess!RoleChanges \/ WebAccess!SetGuildEditingRule \/ WebAccess!HandleLogin
        PROVE  AccessInv'
    <2>1. requests' \in [Calls -> WebRequest]
      BY <1>3 DEF WebRequest, RightsTyped, WebSession, WebAccess!RoleChanges,
                  WebAccess!SetGuildEditingRule, WebAccess!HandleLogin
    <2>2. session' \in WebSession
      BY <1>3 DEF WebSession, WebRequest, RightsTyped, WebAccess!RoleChanges,
                  WebAccess!SetGuildEditingRule, WebAccess!HandleLogin
    <2>3. RightsTyped'
      <3>1. /\ UNCHANGED <<hour, standing, lost, named, accessFaults>>
            /\ grants' \in 0..MaxGrants
        BY <1>3 DEF RightsTyped, WebAccess!RoleChanges, WebAccess!SetGuildEditingRule,
                    WebAccess!HandleLogin
      <3> QED
        BY <3>1 DEF RightsTyped
    <2>4. PermissionsAge'
      BY <1>3 DEF PermissionsAge, RightsTyped, WebSession, WebRequest, Ends, WebAccess!Waiting,
                  WebAccess!NoSession, WebAccess!RoleChanges, WebAccess!SetGuildEditingRule,
                  WebAccess!HandleLogin
    <2>5. FlagsTyped'
      BY <1>3 DEF FlagsTyped, WebAccess!RoleChanges, WebAccess!SetGuildEditingRule,
                  WebAccess!HandleLogin
    <2> QED
      BY <2>1, <2>2, <2>3, <2>4, <2>5
  <1>4. ASSUME NEW title \in {"admin", "organizer"}, WebAccess!Names(title)
        PROVE  AccessInv'
    <2>1. requests' \in [Calls -> WebRequest]
      BY <1>4 DEF WebRequest, RightsTyped, WebSession, WebAccess!Names
    <2>2. session' \in WebSession
      BY <1>4 DEF WebSession, WebRequest, RightsTyped, WebAccess!Names
    <2>3. RightsTyped'
      BY <1>4 DEF RightsTyped, Perms, WebAccess!Names
    <2>4. PermissionsAge'
      BY <1>4 DEF PermissionsAge, RightsTyped, WebSession, WebRequest, Ends, WebAccess!Waiting,
                  WebAccess!NoSession, WebAccess!Names
    <2>5. FlagsTyped'
      BY <1>4 DEF FlagsTyped, WebAccess!Names
    <2> QED
      BY <2>1, <2>2, <2>3, <2>4, <2>5
  <1>5. ASSUME WebAccess!HandleLogout
        PROVE  AccessInv'
    <2>1. requests' \in [Calls -> WebRequest]
      BY <1>5, ForgottenRequests DEF WebRequest, RightsTyped, WebSession, WebAccess!HandleLogout
    <2>2. session' \in WebSession
      BY <1>5 DEF WebSession, WebRequest, RightsTyped, WebAccess!HandleLogout
    <2>3. RightsTyped'
      BY <1>5 DEF RightsTyped, Perms, WebAccess!HandleLogout
    <2>4. PermissionsAge'
      BY <1>5, ForgottenRequests DEF PermissionsAge, RightsTyped, WebSession, WebRequest, Ends,
                                     WebAccess!Waiting, WebAccess!NoSession,
                                     WebAccess!HandleLogout
    <2>5. FlagsTyped'
      BY <1>5 DEF FlagsTyped, WebAccess!HandleLogout
    <2> QED
      BY <2>1, <2>2, <2>3, <2>4, <2>5
  <1>6. ASSUME WebAccess!SweepExpiredSessions
        PROVE  AccessInv'
    <2>1. requests' \in [Calls -> WebRequest]
      BY <1>6, ForgottenRequests DEF WebRequest, RightsTyped, WebSession,
                                     WebAccess!SweepExpiredSessions
    <2>2. session' \in WebSession
      BY <1>6 DEF WebSession, WebRequest, RightsTyped, WebAccess!SweepExpiredSessions
    <2>3. RightsTyped'
      BY <1>6 DEF RightsTyped, Perms, WebAccess!SweepExpiredSessions
    <2>4. PermissionsAge'
      BY <1>6, ForgottenRequests DEF PermissionsAge, RightsTyped, WebSession, WebRequest, Ends,
                                     WebAccess!Waiting, WebAccess!NoSession,
                                     WebAccess!SweepExpiredSessions
    <2>5. FlagsTyped'
      BY <1>6 DEF FlagsTyped, WebAccess!SweepExpiredSessions
    <2> QED
      BY <2>1, <2>2, <2>3, <2>4, <2>5
  <1>7. ASSUME NEW q \in Calls, WebAccess!ConsumeOAuthState(q)
        PROVE  AccessInv'
    <2>1. requests' \in [Calls -> WebRequest]
      BY <1>7 DEF WebRequest, RightsTyped, WebSession, WebAccess!ConsumeOAuthState
    <2>2. session' \in WebSession
      BY <1>7 DEF WebSession, WebRequest, RightsTyped, WebAccess!ConsumeOAuthState
    <2>3. RightsTyped'
      BY <1>7 DEF RightsTyped, Perms, WebAccess!ConsumeOAuthState
    <2>4. PermissionsAge'
      BY <1>7 DEF PermissionsAge, RightsTyped, WebSession, WebRequest, Ends, WebAccess!Waiting,
                  WebAccess!NoSession, WebAccess!ConsumeOAuthState
    <2>5. FlagsTyped'
      BY <1>7 DEF FlagsTyped, WebAccess!ConsumeOAuthState
    <2> QED
      BY <2>1, <2>2, <2>3, <2>4, <2>5
  <1>8. ASSUME NEW q \in Calls, WebAccess!ExchangeCode(q)
        PROVE  AccessInv'
    <2> DEFINE afresh == [requests[q] EXCEPT !.at = "create", !.perms = standing]
    <2>0. /\ requests[q].at = "exchange" /\ UNCHANGED <<hour, standing, lost, session>>
          /\ \/ requests' = [requests EXCEPT ![q] = afresh]
             \/ requests' = [requests EXCEPT ![q] = WebAccess!Waiting]
      BY <1>8 DEF WebAccess!ExchangeCode
    <2>1. requests' \in [Calls -> WebRequest]
      <3>1. requests[q] \in WebRequest /\ standing \in Perms
        BY DEF RightsTyped
      <3>2. afresh \in WebRequest
        BY <3>1 DEF WebRequest
      <3> QED
        BY <2>0, <3>2
    <2>2. session' \in WebSession
      BY <1>8 DEF WebSession, WebRequest, RightsTyped, WebAccess!ExchangeCode
    <2>3. RightsTyped'
      BY <1>8 DEF RightsTyped, Perms, WebAccess!ExchangeCode
    <2>4. PermissionsAge'
      <3>1. CASE requests' = [requests EXCEPT ![q] = afresh]
        BY <2>0, <3>1 DEF PermissionsAge, RightsTyped, WebSession, WebRequest, Ends,
                          WebAccess!Waiting
      <3>2. CASE requests' = [requests EXCEPT ![q] = WebAccess!Waiting]
        BY <2>0, <3>2 DEF PermissionsAge, RightsTyped, WebSession, WebRequest, Ends,
                          WebAccess!Waiting
      <3> QED
        BY <2>0, <3>1, <3>2
    <2>5. FlagsTyped'
      BY <1>8 DEF FlagsTyped, WebAccess!ExchangeCode
    <2> QED
      BY <2>1, <2>2, <2>3, <2>4, <2>5
  <1>9. ASSUME NEW q \in Calls, WebAccess!CreateWebSession(q)
        PROVE  AccessInv'
    <2>1. requests' \in [Calls -> WebRequest]
      BY <1>9, ForgottenRequests DEF WebRequest, RightsTyped, WebSession,
                                     WebAccess!CreateWebSession
    <2>2. session' \in WebSession
      BY <1>9 DEF WebSession, WebRequest, RightsTyped, WebAccess!CreateWebSession
    <2>3. RightsTyped'
      BY <1>9 DEF RightsTyped, Perms, WebAccess!CreateWebSession
    <2>4. PermissionsAge'
      BY <1>9, ForgottenRequests DEF PermissionsAge, RightsTyped, WebSession, WebRequest, Ends,
                                     WebAccess!Waiting, WebAccess!NoSession,
                                     WebAccess!CreateWebSession
    <2>5. FlagsTyped'
      BY <1>9 DEF FlagsTyped, WebAccess!CreateWebSession
    <2> QED
      BY <2>1, <2>2, <2>3, <2>4, <2>5
  <1>10. ASSUME NEW q \in Calls, WebAccess!WebSessionByToken(q)
        PROVE  AccessInv'
    <2> DEFINE old   == WebAccess!Old(session.perms, session.expires, session.checked)
               begun == [at |-> IF old THEN "refresh" ELSE "extend", perms |-> session.perms,
                         expires |-> session.expires, since |-> hour, gone |-> FALSE,
                         kept |-> FALSE]
    <2>0. /\ session.live /\ UNCHANGED <<hour, standing, lost>>
          /\ \/ session' = WebAccess!NoSession /\ requests' = WebAccess!Forgotten
             \/ session' = session /\ requests' = [requests EXCEPT ![q] = begun]
      BY <1>10 DEF WebAccess!WebSessionByToken
    <2>1. requests' \in [Calls -> WebRequest]
      <3>1. begun \in WebRequest
        BY DEF WebRequest, RightsTyped, WebSession
      <3> QED
        BY <2>0, <3>1, ForgottenRequests
    <2>2. session' \in WebSession
      BY <1>10 DEF WebSession, WebRequest, RightsTyped, WebAccess!WebSessionByToken,
                   WebAccess!Old
    <2>3. RightsTyped'
      BY <1>10 DEF RightsTyped, Perms, WebAccess!WebSessionByToken, WebAccess!Old
    <2>4. PermissionsAge'
      <3>1. CASE session' = WebAccess!NoSession /\ requests' = WebAccess!Forgotten
        BY <2>0, <3>1, ForgottenRequests
           DEF PermissionsAge, RightsTyped, WebSession, WebRequest, Ends, WebAccess!Waiting,
               WebAccess!NoSession
      <3>2. CASE session' = session /\ requests' = [requests EXCEPT ![q] = begun]
        <4>1. session.perms = WebAccess!Manages /\ standing # WebAccess!Manages /\ ~old =>
                hour <= lost + RefreshInterval
          BY <2>0 DEF PermissionsAge, RightsTyped, WebSession, WebAccess!Old
        <4> HIDE DEF old
        <4> QED
          BY <2>0, <3>2, <4>1 DEF PermissionsAge, RightsTyped, WebSession, WebRequest
      <3> QED
        BY <2>0, <3>1, <3>2
    <2>5. FlagsTyped'
      BY <1>10 DEF FlagsTyped, WebAccess!WebSessionByToken, WebAccess!Old
    <2> QED
      BY <2>1, <2>2, <2>3, <2>4, <2>5
  <1>11. ASSUME NEW q \in Calls, WebAccess!MemberPermissions(q)
        PROVE  AccessInv'
    <2> DEFINE afresh == [requests[q] EXCEPT !.at = "replace", !.perms = standing]
               refused  == [requests[q] EXCEPT !.at = "extend", !.kept = TRUE]
    <2>0. /\ requests[q].at = "refresh" /\ UNCHANGED <<hour, standing, lost, session>>
          /\ \/ requests' = [requests EXCEPT ![q] = afresh]
             \/ requests' = [requests EXCEPT ![q] = refused]
      BY <1>11 DEF WebAccess!MemberPermissions
    <2>1. requests' \in [Calls -> WebRequest]
      <3>1. afresh \in WebRequest /\ refused \in WebRequest
        BY DEF WebRequest, RightsTyped
      <3> QED
        BY <2>0, <3>1
    <2>2. session' \in WebSession
      BY <1>11 DEF WebSession, WebRequest, RightsTyped, WebAccess!MemberPermissions
    <2>3. RightsTyped'
      BY <1>11 DEF RightsTyped, Perms, WebAccess!MemberPermissions
    <2>4. PermissionsAge'
      <3>1. CASE requests' = [requests EXCEPT ![q] = afresh]
        BY <2>0, <3>1 DEF PermissionsAge, RightsTyped, WebSession, WebRequest, Ends,
                          WebAccess!Waiting
      <3>2. CASE requests' = [requests EXCEPT ![q] = refused]
        BY <2>0, <3>2 DEF PermissionsAge, RightsTyped, WebSession, WebRequest, Ends,
                          WebAccess!Waiting
      <3> QED
        BY <2>0, <3>1, <3>2
    <2>5. FlagsTyped'
      BY <1>11 DEF FlagsTyped, WebAccess!MemberPermissions
    <2> QED
      BY <2>1, <2>2, <2>3, <2>4, <2>5
  <1>12. ASSUME NEW q \in Calls, WebAccess!ReplaceWebSessionPermissions(q)
        PROVE  AccessInv'
    <2>1. requests' \in [Calls -> WebRequest]
      BY <1>12 DEF WebRequest, RightsTyped, WebSession, WebAccess!ReplaceWebSessionPermissions
    <2>2. session' \in WebSession
      BY <1>12 DEF WebSession, WebRequest, RightsTyped, WebAccess!ReplaceWebSessionPermissions
    <2>3. RightsTyped'
      BY <1>12 DEF RightsTyped, Perms, WebAccess!ReplaceWebSessionPermissions
    <2>4. PermissionsAge'
      BY <1>12 DEF PermissionsAge, RightsTyped, WebSession, WebRequest, Ends, WebAccess!Waiting,
                   WebAccess!NoSession, WebAccess!ReplaceWebSessionPermissions
    <2>5. FlagsTyped'
      BY <1>12 DEF FlagsTyped, WebAccess!ReplaceWebSessionPermissions
    <2> QED
      BY <2>1, <2>2, <2>3, <2>4, <2>5
  <1>13. ASSUME NEW q \in Calls, WebAccess!KeepSessionCurrent(q)
        PROVE  AccessInv'
    <2>1. requests' \in [Calls -> WebRequest]
      BY <1>13 DEF WebRequest, RightsTyped, WebSession, WebAccess!KeepSessionCurrent
    <2>2. session' \in WebSession
      BY <1>13 DEF WebSession, WebRequest, RightsTyped, WebAccess!KeepSessionCurrent
    <2>3. RightsTyped'
      BY <1>13 DEF RightsTyped, Perms, WebAccess!KeepSessionCurrent
    <2>4. PermissionsAge'
      BY <1>13 DEF PermissionsAge, RightsTyped, WebSession, WebRequest, Ends, WebAccess!Waiting,
                   WebAccess!NoSession, WebAccess!KeepSessionCurrent
    <2>5. FlagsTyped'
      BY <1>13 DEF FlagsTyped, WebAccess!KeepSessionCurrent
    <2> QED
      BY <2>1, <2>2, <2>3, <2>4, <2>5
  <1>14. ASSUME NEW q \in Calls, \/ WebAccess!EditEvent(q) \/ WebAccess!HandleWebJoin(q)
               \/ WebAccess!HandleWebLeave(q) \/ WebAccess!Shows(q)
        PROVE  AccessInv'
    <2>1. requests' \in [Calls -> WebRequest]
      BY <1>14 DEF WebRequest, RightsTyped, WebSession, WebAccess!EditEvent,
                   WebAccess!HandleWebJoin, WebAccess!HandleWebLeave, WebAccess!Shows
    <2>2. session' \in WebSession
      BY <1>14 DEF WebSession, WebRequest, RightsTyped, WebAccess!EditEvent,
                   WebAccess!HandleWebJoin, WebAccess!HandleWebLeave, WebAccess!Shows
    <2>3. RightsTyped'
      BY <1>14 DEF RightsTyped, Perms, WebAccess!EditEvent, WebAccess!HandleWebJoin,
                   WebAccess!HandleWebLeave, WebAccess!Shows
    <2>4. PermissionsAge'
      <3>1. /\ requests' = [requests EXCEPT ![q] = WebAccess!Waiting]
            /\ UNCHANGED <<hour, standing, lost, session>>
        BY <1>14 DEF WebAccess!EditEvent, WebAccess!HandleWebJoin, WebAccess!HandleWebLeave,
                     WebAccess!Shows
      <3> QED
        BY <3>1 DEF PermissionsAge, RightsTyped, WebSession, WebRequest, Ends, WebAccess!Waiting
    <2>5. FlagsTyped'
      BY <1>14 DEF FlagsTyped, WebAccess!EditEvent, WebAccess!HandleWebJoin,
                   WebAccess!HandleWebLeave, WebAccess!Shows
    <2> QED
      BY <2>1, <2>2, <2>3, <2>4, <2>5
  <1>15. ASSUME UNCHANGED accessVars
        PROVE  AccessInv'
    BY <1>15 DEF accessVars, PermissionsAge, RightsTyped, FlagsTyped
  <1> QED
    BY <1>1, <1>2, <1>3, <1>4, <1>5, <1>6, <1>7, <1>8, <1>9, <1>10, <1>11, <1>12, <1>13,
       <1>14, <1>15
       DEF WebAccess!Next, WebAccess!HandleOAuthCallback, WebAccess!AddSiteAdmin,
           WebAccess!SetEventOrganizer

\* The invariant of web sessions holds throughout a behaviour about them.
LEMMA AccessInvariant == Spec => [](part = "access" => AccessInv)
  <1>1. Init => (part = "access" => AccessInv)
    BY AccessInit DEF Init
  <1>2. (part = "access" => AccessInv) /\ [Next]_vars => (part = "access" => AccessInv)'
    BY AccessStep, StepOfAPart
  <1> QED
    BY <1>1, <1>2, PTL DEF Spec

\* A permission taken away in Discord is used for less than the refresh
\* interval and two requests, however logins, refreshes and requests overlap,
\* unless Discord refused the refresh of the request that uses it.
THEOREM LostPermissionsAreRefreshed == Spec => []LostPermissionsRunOut
  <1>1. (part = "access" => AccessInv) => LostPermissionsRunOut
    BY OverlapsAssumption
       DEF AccessInv, RightsTyped, PermissionsAge, WebRequest, LostPermissionsRunOut,
           WebAccess!LostPermissionsRunOut, WebAccess!MayEditEvent,
           WebAccess!MayEditAllEventsIn
  <1> QED
    BY <1>1, AccessInvariant, PTL
-----------------------------------------------------------------------------
(* Server set-up: no channel is made twice.                                *)

Channel == [id : 1..MaxChannels, kind : GuildSetup!Kinds, named : BOOLEAN]
Ids     == 0..MaxChannels
SetupStages == {"idle", "record", "adopt"} \cup GuildSetup!Kinds
SettingUp == [at : SetupStages, seen : SUBSET Channel, recorded : [board : Ids, forum : Ids],
              found : [GuildSetup!Kinds -> Ids]]

SetupTyped ==
  /\ channels \subseteq Channel /\ IsFiniteSet(channels)
  /\ guildRow \in [board : Ids, forum : Ids]
  /\ madeChannels \in Ids
  /\ setups \in [Calls -> SettingUp]

GuildListTyped ==
  /\ botGuild \in {"none", "named", "whole"} /\ member \in BOOLEAN
  /\ sync \in {"idle", "listed in", "listed out", "owner"}

\* The stages at which a set-up has not come past a kind.
UpTo(kind) == CASE kind = "category" -> {"category"}
                [] kind = "board" -> {"category", "board"}
                [] kind = "forum" -> {"category", "board", "forum"}

OfName(S, kind) == {c \in S : c.kind = kind /\ c.named}

\* The set-ups that may yet make a channel of a name: the list they work from
\* shows none.
MayMake(kind) ==
  {s \in Calls : setups[s].at \in UpTo(kind) /\ OfName(setups[s].seen, kind) = {}}

\* Each channel of a name, and each set-up that may yet make one, is one of
\* the set-ups that overlap: a set-up that begins with none there counts as
\* one that may, and one that begins later finds the channel.
ChannelsAndMakers ==
  \A kind \in GuildSetup!Kinds :
    Cardinality(OfName(channels, kind)) + Cardinality(MayMake(kind)) <= Cardinality(Calls)

SetupInv == SetupTyped /\ GuildListTyped /\ ChannelsAndMakers

\* The invariant of the set-up has the part's TypeOK in it.
LEMMA SetupTypes ==
  SetupInv => GuildSetup!TypeOK
  BY DEF SetupInv, SetupTyped, GuildListTyped, SettingUp, SetupStages, Channel, Ids,
         GuildSetup!TypeOK

\* What a set-up leaves behind never lies before it.
LEMMA FollowingIsLater ==
  ASSUME NEW kind \in GuildSetup!Kinds, NEW other \in GuildSetup!Kinds
  PROVE  /\ GuildSetup!Following(kind) \in SetupStages
         /\ kind \in UpTo(kind)
         /\ GuildSetup!Following(kind) \in UpTo(other) => kind \in UpTo(other) /\ kind # other
         /\ {"idle", "record", "adopt"} \cap UpTo(other) = {}
  BY DEF GuildSetup!Following, UpTo, GuildSetup!Kinds, SetupStages

\* Fewer channels and fewer makers are within the same bound.
LEMMA WithinStill ==
  ASSUME NEW N, IsFiniteSet(N), NEW M \in SUBSET Calls,
         NEW N2 \in SUBSET N, NEW M2 \in SUBSET M,
         Cardinality(N) + Cardinality(M) <= Cardinality(Calls)
  PROVE  Cardinality(N2) + Cardinality(M2) <= Cardinality(Calls)
  <1>1. /\ Cardinality(N2) <= Cardinality(N) /\ Cardinality(N2) \in Nat
        /\ Cardinality(N) \in Nat
    BY FS_Subset, FS_CardinalityType
  <1>2. /\ Cardinality(M2) <= Cardinality(M) /\ Cardinality(M2) \in Nat
        /\ Cardinality(M) \in Nat /\ Cardinality(Calls) \in Nat
    BY FS_Subset, FS_CardinalityType, OverlapsAssumption
  <1> QED
    BY <1>1, <1>2

\* A set-up that is not running.
LEMMA FreeSetup ==
  GuildSetup!Free \in SettingUp /\ GuildSetup!Free.at = "idle"
  BY OverlapsAssumption DEF GuildSetup!Free, SettingUp, SetupStages, Ids

\* A channel found or made is noted, and the set-up goes on.
Found(r, kind, id) ==
  [r EXCEPT !.found = [r.found EXCEPT ![kind] = id], !.at = GuildSetup!Following(kind)]

\* What a channel found or made changes of a set-up.
LEMMA FoundSetup ==
  ASSUME NEW r \in SettingUp, NEW kind \in GuildSetup!Kinds, NEW id \in Ids
  PROVE  /\ Found(r, kind, id) \in SettingUp
         /\ Found(r, kind, id).seen = r.seen
         /\ Found(r, kind, id).at = GuildSetup!Following(kind)
  <1>1. GuildSetup!Following(kind) \in SetupStages
    BY FollowingIsLater
  <1>2. [r.found EXCEPT ![kind] = id] \in [GuildSetup!Kinds -> Ids]
    BY DEF SettingUp
  <1> QED
    BY <1>1, <1>2 DEF Found, SettingUp

\* The invariant of the set-up holds at the start.
LEMMA SetupInit ==
  ASSUME GuildSetup!Init
  PROVE  SetupInv
  <1>0. IsFiniteSet(Calls) /\ MaxChannels \in Nat
    BY OverlapsAssumption
  <1>1. SetupTyped
    BY <1>0, FS_EmptySet
       DEF SetupTyped, SettingUp, SetupStages, Ids, GuildSetup!Init, GuildSetup!Free
  <1>2. GuildListTyped
    BY DEF GuildListTyped, GuildSetup!Init
  <1>3. ChannelsAndMakers
    <2> SUFFICES ASSUME NEW kind \in GuildSetup!Kinds
                 PROVE  Cardinality(OfName(channels, kind)) + Cardinality(MayMake(kind))
                          <= Cardinality(Calls)
      BY DEF ChannelsAndMakers
    <2>1. OfName(channels, kind) = {} /\ MayMake(kind) = {}
      BY FollowingIsLater DEF OfName, MayMake, GuildSetup!Init, GuildSetup!Free
    <2>2. Cardinality({}) = 0 /\ Cardinality(Calls) \in Nat
      BY <1>0, FS_EmptySet, FS_CardinalityType
    <2> QED
      BY <2>1, <2>2
  <1> QED
    BY <1>1, <1>2, <1>3 DEF SetupInv

\* A step that leaves every list as it is and takes no set-up back keeps the
\* count.
LEMMA NoNewMaker ==
  ASSUME SetupInv,
         \A kind \in GuildSetup!Kinds :
           /\ OfName(channels', kind) \subseteq OfName(channels, kind)
           /\ MayMake(kind)' \subseteq MayMake(kind)
  PROVE  ChannelsAndMakers'
  <1> SUFFICES ASSUME NEW kind \in GuildSetup!Kinds
               PROVE  Cardinality(OfName(channels', kind)) + Cardinality(MayMake(kind)')
                        <= Cardinality(Calls)
    BY DEF ChannelsAndMakers
  <1>1. IsFiniteSet(OfName(channels, kind)) /\ MayMake(kind) \in SUBSET Calls
    BY FS_Subset DEF SetupInv, SetupTyped, OfName, MayMake
  <1> QED
    BY <1>1, WithinStill DEF SetupInv, ChannelsAndMakers

\* A set-up begins: with the name there it finds it, and without it there is
\* nothing yet to count.
LEMMA BeginKeepsTheCount ==
  ASSUME SetupInv, NEW s \in Calls, GuildSetup!Begin(s), channels' = channels
  PROVE  setups' \in [Calls -> SettingUp] /\ ChannelsAndMakers'
  <1> DEFINE begun == [GuildSetup!Free EXCEPT !.at = "category", !.seen = channels,
                                              !.recorded = guildRow]
  <1>1. setups' = [setups EXCEPT ![s] = begun]
    BY DEF GuildSetup!Begin
  <1>2. begun \in SettingUp /\ begun.seen = channels
    <2>1. channels \in SUBSET Channel /\ guildRow \in [board : Ids, forum : Ids]
      BY DEF SetupInv, SetupTyped
    <2>2. "category" \in SetupStages
      BY DEF SetupStages, GuildSetup!Kinds
    <2> QED
      BY <2>1, <2>2, FreeSetup DEF SettingUp
  <1>3. setups' \in [Calls -> SettingUp]
    BY <1>1, <1>2 DEF SetupInv, SetupTyped
  <1>4. ASSUME NEW kind \in GuildSetup!Kinds
        PROVE  Cardinality(OfName(channels', kind)) + Cardinality(MayMake(kind)')
                 <= Cardinality(Calls)
    <2> HIDE DEF begun
    <2>1. MayMake(kind)' \subseteq Calls
      BY DEF MayMake
    <2>2. CASE OfName(channels, kind) = {}
      <3>1. Cardinality(OfName(channels', kind)) = 0
        BY <2>2, FS_EmptySet
      <3>2. Cardinality(MayMake(kind)') <= Cardinality(Calls)
        BY <2>1, FS_Subset, OverlapsAssumption
      <3>3. Cardinality(MayMake(kind)') \in Nat /\ Cardinality(Calls) \in Nat
        BY <2>1, FS_Subset, FS_CardinalityType, OverlapsAssumption
      <3> QED
        BY <3>1, <3>2, <3>3
    <2>3. CASE OfName(channels, kind) # {}
      <3>1. MayMake(kind)' \subseteq MayMake(kind)
        BY <1>1, <1>2, <2>3 DEF MayMake, SetupInv, SetupTyped
      <3>2. IsFiniteSet(OfName(channels, kind)) /\ MayMake(kind) \in SUBSET Calls
        BY FS_Subset DEF SetupInv, SetupTyped, OfName, MayMake
      <3> QED
        BY <3>1, <3>2, WithinStill DEF SetupInv, ChannelsAndMakers
    <2> QED
      BY <2>2, <2>3
  <1> QED
    BY <1>3, <1>4 DEF ChannelsAndMakers

\* A channel made is one more of its name, and its set-up one less that may.
LEMMA CreateKeepsTheCount ==
  ASSUME SetupInv, NEW s \in Calls, NEW sort \in GuildSetup!Kinds,
         GuildSetup!CreateGuildChannel(s, sort)
  PROVE  SetupTyped' /\ ChannelsAndMakers'
  <1> DEFINE new  == [id |-> madeChannels + 1, kind |-> sort, named |-> TRUE]
             next == Found(setups[s], sort, madeChannels + 1)
  <1>1. /\ setups[s].at = sort /\ madeChannels < MaxChannels
        /\ madeChannels' = madeChannels + 1 /\ guildRow' = guildRow
        /\ channels' = channels \cup {new}
        /\ setups' = [setups EXCEPT ![s] = next]
        /\ GuildSetup!Reusable(setups[s], sort) = {}
    BY DEF GuildSetup!CreateGuildChannel, SetupInv, SetupTyped, SettingUp, Found
  <1>2. new \in Channel /\ madeChannels + 1 \in Ids
    BY <1>1, OverlapsAssumption DEF Channel, SetupInv, SetupTyped, Ids
  <1>3. next \in SettingUp /\ next.seen = setups[s].seen /\ next.at = GuildSetup!Following(sort)
    BY <1>2, FoundSetup DEF SetupInv, SetupTyped
  <1>4. SetupTyped'
    BY <1>1, <1>2, <1>3, FS_AddElement DEF SetupInv, SetupTyped
  <1>5. OfName(setups[s].seen, sort) = {}
    BY <1>1 DEF GuildSetup!Reusable, OfName
  <1>6. ASSUME NEW kind \in GuildSetup!Kinds
        PROVE  Cardinality(OfName(channels', kind)) + Cardinality(MayMake(kind)')
                 <= Cardinality(Calls)
    <2> HIDE DEF next
    <2>1. /\ IsFiniteSet(OfName(channels, kind)) /\ MayMake(kind) \in SUBSET Calls
          /\ Cardinality(OfName(channels, kind)) + Cardinality(MayMake(kind))
               <= Cardinality(Calls)
      BY FS_Subset DEF SetupInv, SetupTyped, OfName, MayMake, ChannelsAndMakers
    <2>2. MayMake(kind)' \subseteq MayMake(kind)
      BY <1>1, <1>3, FollowingIsLater DEF MayMake, SetupInv, SetupTyped
    <2>3. CASE kind # sort
      <3>1. OfName(channels', kind) \subseteq OfName(channels, kind)
        BY <1>1, <2>3 DEF OfName
      <3> QED
        BY <2>1, <2>2, <3>1, WithinStill
    <2>4. CASE kind = sort
      <3>1. OfName(channels', kind) = OfName(channels, kind) \cup {new}
        BY <1>1, <2>4 DEF OfName
      <3>2. s \in MayMake(kind) /\ s \notin MayMake(kind)'
        BY <1>1, <1>3, <1>5, <2>4, FollowingIsLater DEF MayMake, SetupInv, SetupTyped
      <3>3. Cardinality(OfName(channels', kind)) <= Cardinality(OfName(channels, kind)) + 1
        <4>1. \/ Cardinality(OfName(channels, kind) \cup {new})
                   = Cardinality(OfName(channels, kind))
              \/ Cardinality(OfName(channels, kind) \cup {new})
                   = Cardinality(OfName(channels, kind)) + 1
          BY <2>1, FS_AddElement
        <4>2. Cardinality(OfName(channels, kind)) \in Nat
          BY <2>1, FS_CardinalityType
        <4> QED
          BY <3>1, <4>1, <4>2
      <3>4. IsFiniteSet(MayMake(kind)) /\ MayMake(kind)' \subseteq MayMake(kind) \ {s}
        BY <2>1, <2>2, <3>2, FS_Subset, OverlapsAssumption
      <3>5. /\ Cardinality(MayMake(kind)') <= Cardinality(MayMake(kind) \ {s})
            /\ Cardinality(MayMake(kind) \ {s}) = Cardinality(MayMake(kind)) - 1
            /\ Cardinality(MayMake(kind)') \in Nat
        BY <3>2, <3>4, FS_Subset, FS_RemoveElement, FS_CardinalityType
      <3>6. /\ Cardinality(OfName(channels, kind)) \in Nat /\ Cardinality(Calls) \in Nat
            /\ Cardinality(OfName(channels', kind)) \in Nat
            /\ Cardinality(MayMake(kind)) \in Nat
        <4>1. IsFiniteSet(OfName(channels, kind) \cup {new})
          BY <2>1, FS_AddElement
        <4> QED
          BY <2>1, <3>1, <3>4, <4>1, FS_CardinalityType, OverlapsAssumption
      <3> QED
        BY <2>1, <3>3, <3>5, <3>6
    <2> QED
      BY <2>3, <2>4
  <1> QED
    BY <1>4, <1>6 DEF ChannelsAndMakers

\* Each step of the set-up keeps its invariant.
LEMMA SetupStep ==
  ASSUME SetupInv, GuildSetup!Next \/ UNCHANGED setupVars
  PROVE  SetupInv'
  <1>1. ASSUME NEW s \in Calls, GuildSetup!HandleSetUpGuild(s)
        PROVE  SetupInv'
    <2>1. /\ GuildSetup!Begin(s)
          /\ UNCHANGED <<channels, madeChannels, guildRow, member, botGuild, sync>>
      BY <1>1 DEF GuildSetup!HandleSetUpGuild, GuildSetup!guilds
    <2> QED
      BY <2>1, BeginKeepsTheCount DEF SetupInv, SetupTyped, GuildListTyped
  <1>2. ASSUME NEW s \in Calls, NEW kind \in GuildSetup!Kinds, GuildSetup!Reuse(s, kind)
        PROVE  SetupInv'
    <2>1. PICK c \in GuildSetup!Reusable(setups[s], kind) :
            setups' = [setups EXCEPT ![s].found[kind] = c.id,
                                     ![s].at = GuildSetup!Following(kind)]
      BY <1>2 DEF GuildSetup!Reuse
    <2> DEFINE next == Found(setups[s], kind, c.id)
    <2>2. /\ setups[s].at = kind /\ setups' = [setups EXCEPT ![s] = next]
          /\ UNCHANGED <<channels, madeChannels, guildRow, member, botGuild, sync>>
      BY <1>2, <2>1
         DEF GuildSetup!Reuse, GuildSetup!guilds, SetupInv, SetupTyped, SettingUp, Found
    <2>3. c \in Channel
      BY <2>1 DEF GuildSetup!Reusable, SetupInv, SetupTyped, SettingUp
    <2>4. next \in SettingUp /\ next.seen = setups[s].seen /\ next.at = GuildSetup!Following(kind)
      <3>1. c.id \in Ids
        BY <2>3, OverlapsAssumption DEF Channel, Ids
      <3> QED
        BY <3>1, FoundSetup DEF SetupInv, SetupTyped
    <2> HIDE DEF next
    <2>5. \A other \in GuildSetup!Kinds : MayMake(other)' \subseteq MayMake(other)
      BY <2>2, <2>4, FollowingIsLater DEF MayMake, SetupInv, SetupTyped
    <2>6. ChannelsAndMakers'
      BY <2>2, <2>5, NoNewMaker
    <2> QED
      BY <2>2, <2>4, <2>6 DEF SetupInv, SetupTyped, GuildListTyped
  <1>3. ASSUME NEW s \in Calls, NEW kind \in GuildSetup!Kinds,
               GuildSetup!CreateGuildChannel(s, kind)
        PROVE  SetupInv'
    <2>1. UNCHANGED <<member, botGuild, sync>>
      BY <1>3 DEF GuildSetup!CreateGuildChannel, GuildSetup!guilds
    <2> QED
      BY <1>3, <2>1, CreateKeepsTheCount DEF SetupInv, GuildListTyped
  <1>4. ASSUME NEW s \in Calls,
               \/ GuildSetup!RecordChannels(s) \/ GuildSetup!AdoptForum(s)
               \/ GuildSetup!SetupFails(s)
        PROVE  SetupInv'
    <2>1. /\ UNCHANGED <<channels, madeChannels, member, botGuild, sync>>
          /\ guildRow' \in [board : Ids, forum : Ids]
          /\ \/ setups' = [setups EXCEPT ![s].at = "adopt"]
             \/ setups' = [setups EXCEPT ![s] = GuildSetup!Free]
      BY <1>4 DEF GuildSetup!RecordChannels, GuildSetup!AdoptForum, GuildSetup!SetupFails,
                  GuildSetup!guilds, SetupInv, SetupTyped, SettingUp, GuildSetup!Kinds
    <2> DEFINE adopting == [setups[s] EXCEPT !.at = "adopt"]
    <2>2. PICK next \in SettingUp : /\ setups' = [setups EXCEPT ![s] = next]
                                    /\ next.at \in {"idle", "adopt"}
      <3>1. CASE setups' = [setups EXCEPT ![s].at = "adopt"]
        <4>1. adopting \in SettingUp /\ adopting.at = "adopt"
          BY DEF SetupInv, SetupTyped, SettingUp, SetupStages
        <4> QED
          BY <3>1, <4>1
      <3>2. CASE setups' = [setups EXCEPT ![s] = GuildSetup!Free]
        BY <3>2, FreeSetup
      <3> QED
        BY <2>1, <3>1, <3>2
    <2>3. setups' \in [Calls -> SettingUp]
      BY <2>2 DEF SetupInv, SetupTyped
    <2>4. ASSUME NEW other \in GuildSetup!Kinds
          PROVE  MayMake(other)' \subseteq MayMake(other)
      <3>1. next.at \notin UpTo(other)
        BY <2>2, FollowingIsLater
      <3> QED
        BY <2>2, <3>1 DEF MayMake, SetupInv, SetupTyped
    <2>5. ChannelsAndMakers'
      BY <2>1, <2>4, NoNewMaker
    <2> QED
      BY <2>1, <2>3, <2>5 DEF SetupInv, SetupTyped, GuildListTyped
  <1>5. ASSUME GuildSetup!Meddle
        PROVE  SetupInv'
    <2>1. PICK c \in channels :
            channels' = (channels \ {c}) \cup
                        (IF c.named THEN {[c EXCEPT !.named = FALSE]} ELSE {})
      BY <1>5 DEF GuildSetup!Meddle
    <2>2. UNCHANGED <<madeChannels, guildRow, setups, member, botGuild, sync>>
      BY <1>5 DEF GuildSetup!Meddle, GuildSetup!guilds
    <2>3. [c EXCEPT !.named = FALSE] \in Channel /\ ~[c EXCEPT !.named = FALSE].named
      BY <2>1 DEF Channel, SetupInv, SetupTyped
    <2>4. IsFiniteSet(channels')
      <3>1. IsFiniteSet(channels \ {c})
        BY FS_RemoveElement DEF SetupInv, SetupTyped
      <3>2. IsFiniteSet((channels \ {c}) \cup {[c EXCEPT !.named = FALSE]})
        BY <3>1, FS_AddElement
      <3> QED
        BY <2>1, <3>1, <3>2
    <2>5. \A kind \in GuildSetup!Kinds :
            /\ OfName(channels', kind) \subseteq OfName(channels, kind)
            /\ MayMake(kind)' = MayMake(kind)
      BY <2>1, <2>2, <2>3 DEF OfName, MayMake
    <2>6. ChannelsAndMakers'
      BY <2>5, NoNewMaker
    <2> QED
      BY <2>1, <2>2, <2>3, <2>4, <2>6 DEF SetupInv, SetupTyped, GuildListTyped
  <1>6. ASSUME GuildSetup!OnGuildCreate
        PROVE  SetupInv'
    <2>1. /\ UNCHANGED <<channels, madeChannels, guildRow, member, sync>>
          /\ botGuild' = "whole"
          /\ setups' = setups \/ \E s \in Calls : GuildSetup!Begin(s)
      BY <1>6 DEF GuildSetup!OnGuildCreate
    <2>2. CASE setups' = setups
      BY <2>1, <2>2 DEF SetupInv, SetupTyped, GuildListTyped, ChannelsAndMakers, MayMake
    <2>3. CASE \E s \in Calls : GuildSetup!Begin(s)
      BY <2>1, <2>3, BeginKeepsTheCount DEF SetupInv, SetupTyped, GuildListTyped
    <2> QED
      BY <2>1, <2>2, <2>3
  <1>7. ASSUME \/ GuildSetup!JoinOrLeave \/ GuildSetup!Reconnect \/ GuildSetup!OnReadyOrDelete
               \/ GuildSetup!RefreshBotGuilds \/ UNCHANGED setupVars
        PROVE  SetupInv'
    <2>1. UNCHANGED <<channels, madeChannels, guildRow, setups>>
      BY <1>7 DEF GuildSetup!JoinOrLeave, GuildSetup!Reconnect, GuildSetup!OnReadyOrDelete,
                  GuildSetup!RefreshBotGuilds, GuildSetup!ListBotGuilds,
                  GuildSetup!KeepOnlyBotGuilds, GuildSetup!ReadOwner, GuildSetup!server,
                  setupVars
    <2>2. CASE \/ GuildSetup!JoinOrLeave \/ GuildSetup!Reconnect \/ GuildSetup!OnReadyOrDelete
               \/ UNCHANGED setupVars
      <3>1. GuildListTyped'
        BY <2>2 DEF GuildSetup!JoinOrLeave, GuildSetup!Reconnect, GuildSetup!OnReadyOrDelete,
                    SetupInv, GuildListTyped, setupVars
      <3> QED
        BY <2>1, <3>1 DEF SetupInv, SetupTyped, ChannelsAndMakers, MayMake
    <2>3. CASE GuildSetup!RefreshBotGuilds
      <3>1. GuildListTyped'
        BY <2>3 DEF GuildSetup!RefreshBotGuilds, GuildSetup!ListBotGuilds,
                    GuildSetup!KeepOnlyBotGuilds, GuildSetup!ReadOwner, SetupInv,
                    GuildListTyped
      <3> QED
        BY <2>1, <3>1 DEF SetupInv, SetupTyped, ChannelsAndMakers, MayMake
    <2> QED
      BY <1>7, <2>2, <2>3
  <1> QED
    BY <1>1, <1>2, <1>3, <1>4, <1>5, <1>6, <1>7 DEF GuildSetup!Next, GuildSetup!Setup

\* The invariant of the set-up holds throughout a behaviour about it.
LEMMA SetupInvariant == Spec => [](part = "setup" => SetupInv)
  <1>1. Init => (part = "setup" => SetupInv)
    BY SetupInit DEF Init
  <1>2. (part = "setup" => SetupInv) /\ [Next]_vars => (part = "setup" => SetupInv)'
    BY SetupStep, StepOfAPart
  <1> QED
    BY <1>1, <1>2, PTL DEF Spec

\* However many set-ups overlap, fail half way and run again, and whatever
\* people rename and delete, there are no more channels of a name than set-ups
\* that can overlap.
THEOREM ChannelsAreMadeOnce == Spec => []SetupMakesNoChannelTwice
  <1>1. (part = "setup" => SetupInv) => SetupMakesNoChannelTwice
    <2>1. ASSUME SetupInv, NEW kind \in GuildSetup!Kinds
          PROVE  Cardinality(OfName(channels, kind)) <= Cardinality(Calls)
      <3>1. IsFiniteSet(OfName(channels, kind)) /\ IsFiniteSet(MayMake(kind))
        BY <2>1, FS_Subset, OverlapsAssumption DEF SetupInv, SetupTyped, OfName, MayMake
      <3>2. /\ Cardinality(OfName(channels, kind)) \in Nat /\ Cardinality(MayMake(kind)) \in Nat
            /\ Cardinality(Calls) \in Nat
        BY <3>1, FS_CardinalityType, OverlapsAssumption
      <3> QED
        BY <2>1, <3>2 DEF SetupInv, ChannelsAndMakers
    <2>2. ASSUME SetupInv, NEW kind \in GuildSetup!Kinds
          PROVE  Cardinality({c \in channels : c.kind = kind /\ c.named}) <= Cardinality(Calls)
      BY <2>1, <2>2 DEF OfName
    <2>3. \A S : GuildSetup!Cardinality(S) = Cardinality(S)
      BY Zenon DEF GuildSetup!Cardinality, Cardinality
    <2> QED
      BY <2>2, <2>3 DEF SetupMakesNoChannelTwice, GuildSetup!SetupMakesNoChannelTwice
  <1> QED
    BY <1>1, SetupInvariant, PTL
-----------------------------------------------------------------------------
(* The potluck sheet: a request is not oversubscribed, and answers agree.  *)

SheetLine == [who : Guests, brings : Potluck!Ticks]
PollPass  == [at : {"idle", "fetch", "roster", "copy"}, read : [Lines -> SheetLine],
              left : SUBSET Lines, going : SUBSET Guests]

PotluckTyped ==
  /\ guestsGoing \subseteq Guests /\ answering \in BOOLEAN
  /\ request \in {"unasked", "asked", "removed"}
  /\ potluckMoves \in 0..MaxPotluckMoves

ImportTyped ==
  /\ lines \in [Lines -> SheetLine]
  /\ copied \in [Guests -> Potluck!Ticks \cup {"never"}]
  /\ reread \in [Lines -> Potluck!Ticks \cup {"never"}]
  /\ polls \in [Calls -> PollPass] /\ polled \in 0..MaxPolls

RowsTyped == rows \subseteq Potluck!Row /\ IsFiniteSet(rows) /\ made \in 0..MaxRows

\* Somebody who brings nothing has no item.
NothingIsAlone ==
  \A r, s \in rows : r.who = s.who /\ r.what = Potluck!Nothing => s.what = Potluck!Nothing

\* Who took the request and is not going has left since.
TakersGoOrLeft == \A r \in rows : r.asked /\ r.who \notin guestsGoing => r.left

\* The takers who never left are no more than were wanted.
Held == {r \in rows : r.asked /\ ~r.left}

SheetInv == RowsTyped /\ NothingIsAlone /\ TakersGoOrLeft /\ Cardinality(Held) <= Wanted

PotluckInv == PotluckTyped /\ ImportTyped /\ SheetInv

\* The library's cardinality is the one the part counts with.
LEMMA PotluckCounts == \A S : Potluck!Cardinality(S) = Cardinality(S)
  BY Zenon DEF Potluck!Cardinality, Cardinality

\* Rows taken off leave the sheet as it should be.
LEMMA RowsTakenOff ==
  ASSUME SheetInv, rows' \subseteq rows, made' = made,
         guestsGoing \subseteq guestsGoing' \/ rows' = {}
  PROVE  SheetInv'
  <1>1. RowsTyped' /\ IsFiniteSet(Held)
    BY FS_Subset DEF SheetInv, RowsTyped, Held
  <1>2. Held' \subseteq Held
    BY DEF Held
  <1>3. Cardinality(Held') <= Wanted
    BY <1>1, <1>2, FS_Subset, FS_CardinalityType, OverlapsAssumption DEF SheetInv
  <1>4. NothingIsAlone' /\ TakersGoOrLeft'
    BY DEF SheetInv, NothingIsAlone, TakersGoOrLeft
  <1> QED
    BY <1>1, <1>3, <1>4 DEF SheetInv

\* So does a row put on in the place of others, when it agrees with what else
\* its owner brings, and takes the request only of somebody going and only
\* where there is room or in the place of a row that took it.
LEMMA RowPutOn ==
  ASSUME SheetInv, NEW off, NEW new \in Potluck!Row, Potluck!Puts(off, new),
         guestsGoing' = guestsGoing,
         \A r \in rows \ off : r.who = new.who => r.what = Potluck!Item /\ new.what = Potluck!Item,
         new.asked /\ new.who \notin guestsGoing => new.left,
         new.asked /\ ~new.left => Cardinality(Held) < Wanted \/ off \cap Held # {}
  PROVE  SheetInv'
  <1>1. /\ rows' = (rows \ off) \cup {new} /\ made' \in 0..MaxRows
        /\ rows \subseteq Potluck!Row /\ IsFiniteSet(rows)
    BY OverlapsAssumption DEF Potluck!Puts, SheetInv, RowsTyped, Potluck!Row
  <1>2. RowsTyped'
    <2>1. IsFiniteSet(rows \ off)
      BY <1>1, FS_Subset
    <2> QED
      BY <1>1, <2>1, FS_AddElement DEF RowsTyped
  <1>3. NothingIsAlone'
    <2> SUFFICES ASSUME NEW r \in rows', NEW s \in rows', r.who = s.who,
                        r.what = Potluck!Nothing
                 PROVE  s.what = Potluck!Nothing
      BY DEF NothingIsAlone
    <2>1. Potluck!Item # Potluck!Nothing
      BY DEF Potluck!Item, Potluck!Nothing
    <2> QED
      BY <1>1, <2>1 DEF SheetInv, NothingIsAlone
  <1>4. TakersGoOrLeft'
    BY <1>1 DEF SheetInv, TakersGoOrLeft
  <1>5. Cardinality(Held') <= Wanted
    <2>1. IsFiniteSet(Held) /\ Cardinality(Held) \in Nat /\ Cardinality(Held) <= Wanted
      BY <1>1, FS_Subset, FS_CardinalityType DEF Held, SheetInv
    <2>2. CASE ~(new.asked /\ ~new.left)
      <3>1. Held' \subseteq Held
        BY <1>1, <2>2 DEF Held
      <3> QED
        BY <2>1, <3>1, FS_Subset, FS_CardinalityType, OverlapsAssumption
    <2>3. CASE new.asked /\ ~new.left /\ Cardinality(Held) < Wanted
      <3>1. Held' \subseteq Held \cup {new}
        BY <1>1 DEF Held
      <3>5. /\ IsFiniteSet(Held \cup {new})
            /\ \/ Cardinality(Held \cup {new}) = Cardinality(Held)
               \/ Cardinality(Held \cup {new}) = Cardinality(Held) + 1
        BY <2>1, FS_AddElement, Zenon
      <3>2. IsFiniteSet(Held \cup {new}) /\ Cardinality(Held \cup {new}) <= Cardinality(Held) + 1
        BY <2>1, <3>5
      <3>3. IsFiniteSet(Held') /\ Cardinality(Held') <= Cardinality(Held \cup {new})
        BY <3>1, <3>2, FS_Subset
      <3>4. Cardinality(Held') \in Nat /\ Cardinality(Held \cup {new}) \in Nat
        BY <3>2, <3>3, FS_CardinalityType
      <3> QED
        BY <2>1, <2>3, <3>2, <3>3, <3>4, OverlapsAssumption
    <2>4. ASSUME NEW old \in off \cap Held PROVE Cardinality(Held') <= Wanted
      <3>1. Held' \subseteq (Held \ {old}) \cup {new}
        BY <1>1, <2>4 DEF Held
      <3>2. IsFiniteSet(Held \ {old}) /\ Cardinality(Held \ {old}) = Cardinality(Held) - 1
        BY <2>1, <2>4, FS_RemoveElement
      <3> DEFINE rest == Held \ {old}
      <3>6. IsFiniteSet(rest) /\ Cardinality(rest) \in Nat
        BY <3>2, FS_CardinalityType
      <3> HIDE DEF rest
      <3>7. /\ IsFiniteSet(rest \cup {new})
            /\ \/ Cardinality(rest \cup {new}) = Cardinality(rest)
               \/ Cardinality(rest \cup {new}) = Cardinality(rest) + 1
        BY <3>6, FS_AddElement, Zenon
      <3>8. IsFiniteSet(rest \cup {new}) /\ Cardinality(rest \cup {new}) <= Cardinality(rest) + 1
        BY <3>6, <3>7
      <3>3. /\ IsFiniteSet((Held \ {old}) \cup {new})
            /\ Cardinality((Held \ {old}) \cup {new}) <= Cardinality(Held \ {old}) + 1
        BY <3>8 DEF rest
      <3>4. IsFiniteSet(Held') /\ Cardinality(Held') <= Cardinality((Held \ {old}) \cup {new})
        BY <3>1, <3>3, FS_Subset
      <3>5. Cardinality(Held') \in Nat /\ Cardinality((Held \ {old}) \cup {new}) \in Nat
        BY <3>3, <3>4, FS_CardinalityType
      <3> QED
        BY <2>1, <3>2, <3>3, <3>4, <3>5, OverlapsAssumption
    <2> QED
      BY <2>2, <2>3, <2>4
  <1> QED
    BY <1>2, <1>3, <1>4, <1>5 DEF SheetInv

\* Somebody leaving keeps their rows, which say so from then on.
LEMMA RowsOfALeaver ==
  ASSUME SheetInv, NEW g \in Guests, guestsGoing' = guestsGoing \ {g}, made' = made,
         rows' = {[r EXCEPT !.left = @ \/ r.who = g] : r \in rows}
  PROVE  SheetInv'
  <1> DEFINE Marked(r) == [r EXCEPT !.left = r.left \/ r.who = g]
             mark == [r \in rows |-> Marked(r)]
  <1>1. \A r \in rows : /\ r \in Potluck!Row /\ Marked(r) \in Potluck!Row
                        /\ Marked(r).who = r.who /\ Marked(r).what = r.what
                        /\ Marked(r).asked = r.asked
                        /\ (r.left \/ r.who = g => Marked(r).left)
                        /\ (r.left = Marked(r).left => Marked(r) = r)
    BY DEF SheetInv, RowsTyped, Potluck!Row
  <1>2. rows' = {Marked(r) : r \in rows}
    OBVIOUS
  <1>3. RowsTyped'
    <2>1. mark \in Surjection(rows, rows')
      BY <1>2 DEF Surjection
    <2>2. IsFiniteSet(rows')
      BY <2>1, FS_Surjection DEF SheetInv, RowsTyped
    <2> QED
      BY <1>1, <1>2, <2>2 DEF SheetInv, RowsTyped
  <1> HIDE DEF Marked
  <1>4. NothingIsAlone'
    <2> SUFFICES ASSUME NEW r \in rows', NEW s \in rows', r.who = s.who,
                        r.what = Potluck!Nothing
                 PROVE  s.what = Potluck!Nothing
      BY DEF NothingIsAlone
    <2>1. PICK a \in rows, b \in rows : r = Marked(a) /\ s = Marked(b)
      BY <1>2
    <2>2. a.who = b.who /\ a.what = Potluck!Nothing /\ s.what = b.what
      BY <1>1, <2>1
    <2> QED
      BY <2>2 DEF SheetInv, NothingIsAlone
  <1>5. TakersGoOrLeft'
    <2> SUFFICES ASSUME NEW s \in rows', s.asked, s.who \notin guestsGoing' PROVE s.left
      BY DEF TakersGoOrLeft
    <2>1. PICK r \in rows : s = Marked(r)
      BY <1>2
    <2> QED
      BY <1>1, <2>1 DEF SheetInv, TakersGoOrLeft
  <1>6. Held' \subseteq Held
    <2> SUFFICES ASSUME NEW s \in rows', s.asked, ~s.left PROVE s \in Held
      BY DEF Held
    <2>1. PICK r \in rows : s = Marked(r)
      BY <1>2
    <2>2. ~r.left /\ r.left \in BOOLEAN /\ Marked(r).left \in BOOLEAN
      BY <1>1, <2>1 DEF Potluck!Row
    <2>3. Marked(r) = r
      BY <1>1, <2>1, <2>2
    <2> QED
      BY <2>1, <2>3 DEF Held
  <1>7. Cardinality(Held') <= Wanted
    <2>1. IsFiniteSet(Held) /\ Cardinality(Held) <= Wanted
      BY FS_Subset DEF SheetInv, RowsTyped, Held
    <2>2. Wanted \in Nat
      BY OverlapsAssumption
    <2>3. /\ Cardinality(Held') <= Cardinality(Held)
          /\ Cardinality(Held) \in Nat /\ Cardinality(Held') \in Nat
      BY <1>6, <2>1, FS_Subset, FS_CardinalityType
    <2> QED
      BY <2>1, <2>2, <2>3
  <1> QED
    BY <1>3, <1>4, <1>5, <1>7 DEF SheetInv

\* The invariant of the potluck holds at the start.
LEMMA PotluckInit ==
  ASSUME Init
  PROVE  PotluckInv
  <1>1. Potluck!Init
    BY DEF Init
  <1>2. PotluckTyped
    BY <1>1, OverlapsAssumption DEF Potluck!Init, PotluckTyped
  <1>3. ImportTyped
    <2>1. Potluck!NoPoll \in PollPass
      <3>1. (CHOOSE g \in Guests : TRUE) \in Guests
        BY OverlapsAssumption
      <3> QED
        BY <3>1 DEF Potluck!NoPoll, PollPass, SheetLine, Potluck!Ticks
    <2>2. lines \in [Lines -> SheetLine]
      BY <1>1 DEF Potluck!Init, SheetLine, Potluck!Ticks
    <2> QED
      BY <1>1, <2>1, <2>2, OverlapsAssumption DEF Potluck!Init, ImportTyped
  <1>4. SheetInv
    <2>1. rows = {} /\ made = 0
      BY <1>1 DEF Potluck!Init
    <2>2. Held = {}
      BY <2>1 DEF Held
    <2> QED
      BY <2>1, <2>2, FS_EmptySet, OverlapsAssumption
         DEF SheetInv, RowsTyped, NothingIsAlone, TakersGoOrLeft
  <1> QED
    BY <1>2, <1>3, <1>4 DEF PotluckInv

\* An item added by somebody going, who may take the request with it.
LEMMA AnItemAdded ==
  ASSUME PotluckInv, NEW g \in Guests, NEW takes \in BOOLEAN, Potluck!AddPotluckItem(g, takes)
  PROVE  SheetInv'
  <1> DEFINE new == [Potluck!NewRow(g, Potluck!Item) EXCEPT !.asked = takes]
             off == {r \in Potluck!RowsOf(g) : r.what = Potluck!Nothing}
  <1>1. SheetInv /\ guestsGoing' = guestsGoing /\ g \in guestsGoing
    BY DEF Potluck!AddPotluckItem, Potluck!BeginPotluckChange, PotluckInv
  <1>2. Potluck!Puts(off, new)
    BY DEF Potluck!AddPotluckItem
  <1>3. new \in Potluck!Row /\ new.asked = takes /\ new.who = g /\ new.what = Potluck!Item
    <2>1. made + 1 \in 1..MaxRows
      BY <1>1, <1>2, OverlapsAssumption DEF Potluck!Puts, SheetInv, RowsTyped
    <2> QED
      BY <2>1 DEF Potluck!Row, Potluck!NewRow
  <1>4. \A r \in rows \ off : r.who = new.who =>
                                r.what = Potluck!Item /\ new.what = Potluck!Item
    BY <1>1, <1>3 DEF SheetInv, RowsTyped, Potluck!Row, Potluck!RowsOf
  <1>5. new.asked => Cardinality(Held) < Wanted
    <2> SUFFICES ASSUME takes PROVE Cardinality(Held) < Wanted
      BY <1>3
    <2>1. Cardinality(Potluck!Claims) < Wanted
      BY PotluckCounts DEF Potluck!AddPotluckItem, Potluck!CheckRequestOpen
    <2>2. Held \subseteq Potluck!Claims /\ Potluck!Claims \subseteq rows
      BY <1>1 DEF Held, Potluck!Claims, Potluck!PotluckSheetOf, SheetInv, TakersGoOrLeft
    <2>3. IsFiniteSet(Potluck!Claims)
      BY <1>1, <2>2, FS_Subset DEF SheetInv, RowsTyped
    <2>4. Cardinality(Held) <= Cardinality(Potluck!Claims) /\ IsFiniteSet(Held)
      BY <2>2, <2>3, FS_Subset
    <2>5. Cardinality(Held) \in Nat /\ Cardinality(Potluck!Claims) \in Nat
      BY <2>3, <2>4, FS_CardinalityType
    <2> QED
      BY <2>1, <2>4, <2>5, OverlapsAssumption
  <1> HIDE DEF new, off
  <1> QED
    BY <1>1, <1>2, <1>3, <1>4, <1>5, RowPutOn

\* Who says they bring nothing leaves a sheet whose claims still add up.
LEMMA NothingSaid ==
  ASSUME PotluckInv, NEW g \in Guests, Potluck!SayBringingNothing(g)
  PROVE  SheetInv'
  <1> DEFINE new == [n |-> made + 1, who |-> g, what |-> Potluck!Nothing, asked |-> FALSE,
                     copied |-> FALSE, left |-> FALSE]
             off == Potluck!RowsOf(g)
  <1>1. SheetInv /\ guestsGoing' = guestsGoing /\ g \in guestsGoing
    BY DEF Potluck!SayBringingNothing, Potluck!BeginPotluckChange, PotluckInv
  <1>2. Potluck!Puts(off, new)
    BY DEF Potluck!SayBringingNothing, Potluck!NewRow
  <1>3. new \in Potluck!Row
    BY <1>1, <1>2, OverlapsAssumption DEF Potluck!Row, Potluck!Puts, SheetInv, RowsTyped
  <1>4. \A r \in rows \ off : r.who # g
    BY DEF Potluck!RowsOf
  <1>5. new.who = g /\ ~new.asked
    OBVIOUS
  <1> HIDE DEF new, off
  <1> QED
    BY <1>1, <1>2, <1>3, <1>4, <1>5, RowPutOn

\* An edit of an item leaves a sheet whose claims still add up.
LEMMA AnItemEdited ==
  ASSUME PotluckInv, NEW r \in rows, Potluck!EditPotluckItem(r)
  PROVE  SheetInv'
  <1> DEFINE new == [r EXCEPT !.n = made + 1, !.copied = FALSE]
             off == {r}
  <1>1. SheetInv /\ guestsGoing' = guestsGoing /\ r \in Potluck!Row /\ r.what = Potluck!Item
    BY DEF Potluck!EditPotluckItem, PotluckInv, SheetInv, RowsTyped
  <1>2. Potluck!Puts(off, new)
    BY DEF Potluck!EditPotluckItem
  <1>3. /\ new \in Potluck!Row /\ new.who = r.who /\ new.what = Potluck!Item
        /\ new.asked = r.asked /\ new.left = r.left
    <2>1. made + 1 \in 1..MaxRows
      BY <1>1, <1>2, OverlapsAssumption DEF Potluck!Puts, SheetInv, RowsTyped
    <2> QED
      BY <1>1, <2>1 DEF Potluck!Row
  <1>4. \A s \in rows : s.who = r.who => s.what = Potluck!Item
    <2>1. Potluck!Item # Potluck!Nothing
      BY DEF Potluck!Item, Potluck!Nothing
    <2> QED
      BY <1>1, <2>1 DEF SheetInv, NothingIsAlone, RowsTyped, Potluck!Row
  <1>5. new.asked /\ ~new.left => r \in off \cap Held
    BY <1>3 DEF Held
  <1>6. new.asked /\ new.who \notin guestsGoing => new.left
    BY <1>1, <1>3 DEF SheetInv, TakersGoOrLeft
  <1> HIDE DEF new
  <1> QED
    BY <1>1, <1>2, <1>3, <1>4, <1>5, <1>6, RowPutOn

\* One line of a spreadsheet is written as the poll read it.
LEMMA ALineCopied ==
  ASSUME PotluckInv, NEW p \in Calls, Potluck!CopyLine(p)
  PROVE  PotluckInv'
  <1> DEFINE l == CHOOSE l \in polls[p].left : TRUE
             g == polls[p].read[l].who
             brings == polls[p].read[l].brings
  <1>1. polls[p] \in PollPass /\ l \in polls[p].left /\ l \in Lines
    BY DEF Potluck!CopyLine, PotluckInv, ImportTyped, PollPass
  <1>2. polls[p].read[l] \in SheetLine
    BY <1>1 DEF PollPass
  <1>3. g \in Guests /\ brings \in Potluck!Ticks
    BY <1>2 DEF SheetLine
  <1>4. /\ UNCHANGED <<guestsGoing, answering, request, lines, potluckMoves, polled>>
        /\ polls' = [polls EXCEPT ![p].left = @ \ {l}]
        /\ \/ Potluck!CopySheetRow(g, brings) /\ reread' = [reread EXCEPT ![l] = brings]
           \/ UNCHANGED <<rows, made, copied, reread>>
    BY DEF Potluck!CopyLine, Potluck!sheet
  <1> HIDE DEF l, g, brings
  <1>5. PotluckTyped'
    BY <1>4 DEF PotluckInv, PotluckTyped
  <1>6. ImportTyped'
    <2>1. polls' \in [Calls -> PollPass]
      <3>1. [polls[p] EXCEPT !.left = @ \ {l}] \in PollPass
        BY <1>1 DEF PollPass
      <3> QED
        BY <1>4, <3>1 DEF PotluckInv, ImportTyped
    <2>2. reread' \in [Lines -> Potluck!Ticks \cup {"never"}]
      BY <1>1, <1>3, <1>4 DEF PotluckInv, ImportTyped
    <2>3. copied' \in [Guests -> Potluck!Ticks \cup {"never"}]
      <3>1. copied' = copied \/ copied' = [copied EXCEPT ![g] = brings]
        BY <1>4 DEF Potluck!CopySheetRow
      <3> QED
        BY <1>3, <3>1 DEF PotluckInv, ImportTyped
    <2> QED
      BY <1>4, <2>1, <2>2, <2>3 DEF PotluckInv, ImportTyped
  <1>7. SheetInv'
    <2> DEFINE off == Potluck!ClearedByLine(g, brings)
               new == [Potluck!NewRow(g, Potluck!Item) EXCEPT !.copied = TRUE]
    <2>1. \/ rows' = rows /\ made' = made
          \/ rows' = rows \ off /\ made' = made
          \/ brings # "none" /\ Potluck!Puts(off, new)
      <3> HIDE DEF new, off
      <3> QED
        BY <1>4 DEF new, off, Potluck!CopySheetRow, Potluck!TakesOff, Potluck!sheet
    <2>2. SheetInv
      BY DEF PotluckInv
    <2>3. CASE (rows' = rows \/ rows' = rows \ off) /\ made' = made
      BY <1>4, <2>2, <2>3, RowsTakenOff
    <2>4. CASE brings # "none" /\ Potluck!Puts(off, new)
      <3>1. new \in Potluck!Row /\ new.what = Potluck!Item /\ new.who = g /\ ~new.asked
        <4>1. made + 1 \in 1..MaxRows
          BY <2>2, <2>4, OverlapsAssumption
             DEF Potluck!Puts, Potluck!NewRow, SheetInv, RowsTyped
        <4> QED
          BY <1>3, <4>1 DEF Potluck!Row, Potluck!NewRow
      <3>2. \A r \in rows \ off : r.who = new.who =>
                                    r.what = Potluck!Item /\ new.what = Potluck!Item
        BY <2>2, <2>4, <3>1
           DEF SheetInv, RowsTyped, Potluck!Row, Potluck!RowsOf, Potluck!ClearedByLine
      <3> HIDE DEF new, off
      <3> QED
        BY <1>4, <2>2, <2>4, <3>1, <3>2, RowPutOn
    <2> QED
      BY <2>1, <2>3, <2>4
  <1> QED
    BY <1>5, <1>6, <1>7 DEF PotluckInv

\* What a poll does besides copying.
LEMMA ThePollMoves ==
  ASSUME PotluckInv, NEW p \in Calls,
         \/ Potluck!PollPotluckSheet(p) \/ Potluck!FetchPotluckSheet(p)
         \/ Potluck!FetchFails(p) \/ Potluck!ReadGoing(p) \/ Potluck!PollEnds(p)
  PROVE  PotluckInv'
  <1>1. /\ UNCHANGED <<guestsGoing, answering, request, rows, made, lines, copied, reread,
                       potluckMoves>>
        /\ polled' \in 0..MaxPolls
    BY OverlapsAssumption
       DEF Potluck!PollPotluckSheet, Potluck!FetchPotluckSheet, Potluck!FetchFails,
           Potluck!ReadGoing, Potluck!PollEnds, Potluck!sheet, PotluckInv, ImportTyped
  <1>2. polls \in [Calls -> PollPass] /\ polls[p] \in PollPass
    BY DEF PotluckInv, ImportTyped
  <1>3. Potluck!NoPoll \in PollPass
    <2>1. (CHOOSE g \in Guests : TRUE) \in Guests
      BY OverlapsAssumption
    <2> QED
      BY <2>1 DEF Potluck!NoPoll, PollPass, SheetLine, Potluck!Ticks
  <1>4. polls' \in [Calls -> PollPass]
    <2>1. PICK rec \in PollPass : polls' = [polls EXCEPT ![p] = rec]
      <3>1. CASE Potluck!PollPotluckSheet(p)
        <4>1. [polls[p] EXCEPT !.at = "fetch"] \in PollPass
          BY <1>2 DEF PollPass
        <4> QED
          BY <3>1, <4>1, <1>2 DEF Potluck!PollPotluckSheet
      <3>2. CASE Potluck!FetchPotluckSheet(p)
        <4>1. [Potluck!NoPoll EXCEPT !.at = "roster", !.read = lines, !.left = Lines]
                \in PollPass
          BY <1>3 DEF PollPass, PotluckInv, ImportTyped
        <4> QED
          BY <3>2, <4>1 DEF Potluck!FetchPotluckSheet
      <3>3. CASE Potluck!FetchFails(p) \/ Potluck!PollEnds(p)
        BY <3>3, <1>3 DEF Potluck!FetchFails, Potluck!PollEnds
      <3>4. CASE Potluck!ReadGoing(p)
        <4>1. [polls[p] EXCEPT !.at = "copy", !.going = guestsGoing] \in PollPass
          BY <1>2 DEF PollPass, PotluckInv, PotluckTyped
        <4> QED
          BY <3>4, <4>1, <1>2 DEF Potluck!ReadGoing
      <3> QED
        BY <3>1, <3>2, <3>3, <3>4
    <2> QED
      BY <1>2, <2>1
  <1>5. PotluckTyped' /\ ImportTyped'
    BY <1>1, <1>4 DEF PotluckInv, PotluckTyped, ImportTyped
  <1>6. SheetInv'
    BY <1>1, RowsTakenOff DEF PotluckInv
  <1> QED
    BY <1>5, <1>6 DEF PotluckInv

\* Each step of the potluck keeps its invariant.
LEMMA PotluckStep ==
  ASSUME PotluckInv, Potluck!Next \/ UNCHANGED potluckVars
  PROVE  PotluckInv'
  <1> USE DEF PotluckInv
  <1>1. CASE \/ \E g \in Guests : Potluck!Joins(g) \/ Potluck!Leaves(g)
             \/ Potluck!Switches \/ Potluck!ClearPotluckForNextDate
    <2>3. /\ UNCHANGED <<request, lines, copied, reread, polls, polled>>
          /\ potluckMoves < MaxPotluckMoves /\ potluckMoves' = potluckMoves + 1
          /\ answering' = answering \/ answering' = ~answering
      BY <1>1
         DEF Potluck!Joins, Potluck!Leaves, Potluck!Switches, Potluck!ClearPotluckForNextDate,
             Potluck!PotluckMoves, Potluck!import
    <2>4. guestsGoing' \subseteq Guests
      BY <1>1
         DEF Potluck!Joins, Potluck!Leaves, Potluck!Switches, Potluck!ClearPotluckForNextDate,
             PotluckTyped
    <2>5. potluckMoves' \in 0..MaxPotluckMoves
      BY <2>3, OverlapsAssumption DEF PotluckTyped
    <2>1. PotluckTyped' /\ ImportTyped'
      BY <2>3, <2>4, <2>5 DEF PotluckTyped, ImportTyped
    <2>2. SheetInv'
      <3>1. CASE \E g \in Guests : Potluck!Leaves(g)
        BY <3>1, RowsOfALeaver DEF Potluck!Leaves
      <3>2. CASE \/ \E g \in Guests : Potluck!Joins(g)
                 \/ Potluck!Switches
        BY <3>2, RowsTakenOff DEF Potluck!Joins, Potluck!Switches, Potluck!sheet
      <3>3. CASE Potluck!ClearPotluckForNextDate
        BY <3>3, RowsTakenOff DEF Potluck!ClearPotluckForNextDate
      <3> QED
        BY <1>1, <3>1, <3>2, <3>3
    <2> QED
      BY <2>1, <2>2
  <1>2. CASE \/ \E g \in Guests : \/ Potluck!HandlePotluckComponent(g)
                                 \/ Potluck!HandlePotluckModal(g)
                                 \/ Potluck!HandleTakeRequestMenu(g)
                                 \/ Potluck!HandleWebMyPotluck(g)
             \/ Potluck!HandleWebPotluckEdit \/ Potluck!HandleWebPotluckRemove
    <2>1. UNCHANGED <<guestsGoing, answering, request, lines, copied, polls, reread,
                      potluckMoves, polled>>
      BY <1>2
         DEF Potluck!HandlePotluckComponent, Potluck!HandlePotluckModal,
             Potluck!HandleTakeRequestMenu, Potluck!HandleWebMyPotluck,
             Potluck!HandleWebPotluckEdit, Potluck!HandleWebPotluckRemove,
             Potluck!TakePotluckRequest, Potluck!AddPotluckItem, Potluck!SayBringingNothing,
             Potluck!ClearPotluckAnswer, Potluck!RemoveOwnPotluckItem,
             Potluck!RemovePotluckItem, Potluck!EditPotluckItem, Potluck!BeginPotluckChange,
             Potluck!import
    <2>2. PotluckTyped' /\ ImportTyped'
      BY <2>1 DEF PotluckTyped, ImportTyped
    <2>3. SheetInv'
      <3>1. CASE \E g \in Guests, takes \in BOOLEAN : Potluck!AddPotluckItem(g, takes)
        BY <3>1, AnItemAdded
      <3>2. CASE \E g \in Guests : Potluck!SayBringingNothing(g)
        BY <3>2, NothingSaid
      <3>3. CASE \/ \E g \in Guests : Potluck!ClearPotluckAnswer(g)
                 \/ \E r \in rows : Potluck!RemoveOwnPotluckItem(r)
        <4>1. rows' \subseteq rows /\ made' = made
          BY <3>3
             DEF Potluck!ClearPotluckAnswer, Potluck!RemoveOwnPotluckItem, Potluck!TakesOff
        <4> QED
          BY <2>1, <4>1, RowsTakenOff
      <3>4. CASE Potluck!HandleWebPotluckEdit
        BY <3>4, AnItemEdited DEF Potluck!HandleWebPotluckEdit
      <3> QED
        BY <1>2, <3>1, <3>2, <3>3, <3>4
           DEF Potluck!HandlePotluckComponent, Potluck!HandlePotluckModal,
               Potluck!HandleTakeRequestMenu, Potluck!HandleWebMyPotluck,
               Potluck!HandleWebPotluckRemove, Potluck!TakePotluckRequest,
               Potluck!RemovePotluckItem, Potluck!RowsOf
    <2> QED
      BY <2>2, <2>3
  <1>3. CASE \/ Potluck!HandleWebPotluckRequest \/ \E l \in Lines : Potluck!EditsLine(l)
             \/ UNCHANGED potluckVars
    <2>1. PotluckTyped'
      BY <1>3, OverlapsAssumption
         DEF Potluck!HandleWebPotluckRequest, Potluck!AddPotluckRequest,
             Potluck!RemovePotluckRequest, Potluck!EditsLine, Potluck!PotluckMoves,
             PotluckTyped, potluckVars
    <2>2. lines' \in [Lines -> SheetLine]
      <3>1. ASSUME NEW l \in Lines, NEW t \in Potluck!Ticks,
                   lines' = [lines EXCEPT ![l].brings = t]
            PROVE  lines' \in [Lines -> SheetLine]
        <4>1. [lines[l] EXCEPT !.brings = t] \in SheetLine
          BY <3>1 DEF ImportTyped, SheetLine
        <4> QED
          BY <3>1, <4>1 DEF ImportTyped
      <3> QED
        BY <1>3, <3>1
           DEF Potluck!HandleWebPotluckRequest, Potluck!AddPotluckRequest,
               Potluck!RemovePotluckRequest, Potluck!EditsLine, Potluck!import, ImportTyped,
               potluckVars
    <2>3. UNCHANGED <<rows, made, guestsGoing, copied, reread, polls, polled>>
      BY <1>3
         DEF Potluck!HandleWebPotluckRequest, Potluck!AddPotluckRequest,
             Potluck!RemovePotluckRequest, Potluck!EditsLine, Potluck!import, Potluck!sheet,
             potluckVars
    <2> QED
      BY <2>1, <2>2, <2>3, RowsTakenOff DEF ImportTyped
  <1>4. CASE \E p \in Calls : Potluck!PollPotluckSheet(p) \/ Potluck!PollSteps(p)
    BY <1>4, ALineCopied, ThePollMoves DEF Potluck!PollSteps
  <1> QED
    BY <1>1, <1>2, <1>3, <1>4 DEF Potluck!Next

\* The invariant of the potluck holds throughout a behaviour about it.
LEMMA PotluckInvariant == Spec => [](part = "potluck" => PotluckInv)
  <1>1. Init => (part = "potluck" => PotluckInv)
    BY PotluckInit
  <1>2. (part = "potluck" => PotluckInv) /\ [Next]_vars => (part = "potluck" => PotluckInv)'
    BY PotluckStep, StepOfAPart
  <1> QED
    BY <1>1, <1>2, PTL DEF Spec

\* Whatever answers, edits, copied lines and moves of the roster interleave, a
\* request is taken by no more people than it wants, those who left and came
\* back aside, and nobody who brings something brings nothing too.
THEOREM ClaimsAlwaysAddUp == Spec => []ClaimsAddUp
  <1>1. PotluckInv => Potluck!ClaimsWithinWanted
    <2> SUFFICES ASSUME PotluckInv PROVE Potluck!ClaimsWithinWanted
      OBVIOUS
    <2>1. {r \in Potluck!Claims : ~r.left} \subseteq Held
      BY DEF Potluck!Claims, Potluck!PotluckSheetOf, Held
    <2>2. IsFiniteSet(Held) /\ Cardinality(Held) <= Wanted
      BY FS_Subset DEF PotluckInv, SheetInv, RowsTyped, Held
    <2>3. /\ IsFiniteSet({r \in Potluck!Claims : ~r.left})
          /\ Cardinality({r \in Potluck!Claims : ~r.left}) <= Cardinality(Held)
      BY <2>1, <2>2, FS_Subset
    <2>4. Cardinality({r \in Potluck!Claims : ~r.left}) <= Wanted
      BY <2>2, <2>3, FS_CardinalityType, OverlapsAssumption
    <2> QED
      BY <2>4, PotluckCounts DEF Potluck!ClaimsWithinWanted
  <1>2. PotluckInv => Potluck!AnswersAgree
    <2>1. Potluck!Item # Potluck!Nothing
      BY DEF Potluck!Item, Potluck!Nothing
    <2> QED
      BY <2>1
         DEF PotluckInv, SheetInv, NothingIsAlone, Potluck!AnswersAgree, Potluck!RowsOf,
             Potluck!ItemsOf
  <1>3. (part = "potluck" => PotluckInv) => ClaimsAddUp
    BY <1>1, <1>2 DEF ClaimsAddUp
  <1> QED
    BY <1>3, PotluckInvariant, PTL
-----------------------------------------------------------------------------
(* Reminders: a stage of a date is sent once, overlaps and losses aside.   *)

MinuteRun == [at : {"idle", "before", "stamp before", "start", "stamp start", "potluck", "record"},
              now : Nat, date : Reminders!Dates, startsAt : Nat, stamps : SUBSET Reminders!Stage]

EventTyped ==
  /\ minute \in Nat /\ date \in Reminders!Dates /\ startsAt \in Nat
  /\ stamps \subseteq Reminders!Stage
  /\ asked \subseteq [kind : {"automatic", "nudge"}, at : Nat]
  /\ upsets \in Nat

SettingsTyped == going \in BOOLEAN /\ answered \in BOOLEAN /\ channel \in BOOLEAN

RunsTyped ==
  /\ minuteRun \in [Calls -> MinuteRun]
  /\ \A s \in Calls : minuteRun[s].date <= date

TalliesTyped ==
  /\ pings \in [Reminders!Dates -> [Reminders!Stage -> Nat]]
  /\ slips \in [Reminders!Dates -> [Reminders!Stage -> Nat]]

\* A call that may still send the stage, from what it read of the event.
MaySend(r, g) ==
  \/ g = "before" /\ r.at = "before" /\ g \notin r.stamps
  \/ g = "start" /\ r.at \in {"before", "stamp before", "start"} /\ g \notin r.stamps
  \/ g = "potluck" /\ r.at = "potluck"
\* A call that sent it and has not stamped or recorded it yet.
Unstamped(r, g) == r.at = CASE g = "before" -> "stamp before"
                            [] g = "start" -> "stamp start"
                            [] g = "potluck" -> "record"
Senders(d, g) == {s \in Calls : minuteRun[s].date = d /\ MaySend(minuteRun[s], g)}
Holders(d, g) == {s \in Calls : minuteRun[s].date = d /\ Unstamped(minuteRun[s], g)}

\* A call that starts now does not send the stage.
Settled(g) == IF g = "potluck" THEN \E asking \in asked : asking.kind = "automatic"
              ELSE g \in stamps

\* Sent as often as stamps were lost or are still to come, while nothing says
\* it was sent; and with the calls that may still send it, as often as stamps
\* were lost and calls can overlap.
SentAsOften(d, g) ==
  /\ pings[d][g] + Cardinality(Senders(d, g)) <= slips[d][g] + Cardinality(Calls)
  /\ d = date /\ ~Settled(g) => pings[d][g] <= slips[d][g] + Cardinality(Holders(d, g))
  /\ d > date => pings[d][g] = 0

RemindersInv ==
  /\ EventTyped /\ SettingsTyped /\ RunsTyped /\ TalliesTyped
  /\ \A d \in Reminders!Dates, g \in Reminders!Stage : SentAsOften(d, g)

\* Dates are numbers, and the first is one of them.
LEMMA DatesAreNumbers == 1 \in Reminders!Dates /\ Reminders!Dates \subseteq Nat
  BY OverlapsAssumption DEF Reminders!Dates

\* Cardinality means the same inside the instance.
LEMMA RemindersCount == \A S : Reminders!Cardinality(S) = Cardinality(S)
  BY Zenon DEF Reminders!Cardinality, Cardinality

\* No call has both a stage to send and a stamp of it to make.
LEMMA StagesApart ==
  ASSUME NEW r, NEW g \in Reminders!Stage
  PROVE  ~(MaySend(r, g) /\ Unstamped(r, g))
  BY DEF MaySend, Unstamped, Reminders!Stage

\* A set of calls in which at most one call changes.
LEMMA OneCallChanges ==
  ASSUME NEW S \in SUBSET Calls, NEW T \in SUBSET Calls, NEW s \in Calls, T \ {s} = S \ {s}
  PROVE  /\ IsFiniteSet(S) /\ Cardinality(S) \in Nat /\ Cardinality(T) \in Nat
         /\ s \in T /\ s \notin S => Cardinality(T) = Cardinality(S) + 1
         /\ s \notin T /\ s \in S => Cardinality(T) = Cardinality(S) - 1
         /\ (s \in T <=> s \in S) => T = S
  <1>1. IsFiniteSet(S) /\ IsFiniteSet(T)
    BY FS_Subset, OverlapsAssumption
  <1>2. Cardinality(S) \in Nat /\ Cardinality(T) \in Nat
    BY <1>1, FS_CardinalityType
  <1>3. ASSUME s \in T, s \notin S PROVE Cardinality(T) = Cardinality(S) + 1
    <2>1. T = S \cup {s}
      BY <1>3
    <2> QED
      BY <1>1, <1>3, <2>1, FS_AddElement
  <1>4. ASSUME s \notin T, s \in S PROVE Cardinality(T) = Cardinality(S) - 1
    <2>1. T = S \ {s}
      BY <1>4
    <2> QED
      BY <1>1, <1>4, <2>1, FS_RemoveElement
  <1> QED
    BY <1>1, <1>2, <1>3, <1>4

\* What a step of one call does to one stage of one date.
Nothing(s, d, g) ==
  /\ pings'[d][g] = pings[d][g] /\ slips'[d][g] = slips[d][g]
  /\ s \in Senders(d, g)' => s \in Senders(d, g)
  /\ s \in Holders(d, g) => s \in Holders(d, g)' \/ Settled(g)' \/ d # date
Sends(s, d, g) ==
  /\ pings'[d][g] = pings[d][g] + 1 /\ slips'[d][g] = slips[d][g]
  /\ s \in Senders(d, g) /\ s \notin Senders(d, g)'
  /\ s \notin Holders(d, g) /\ s \in Holders(d, g)'
Slips(s, d, g) ==
  /\ pings'[d][g] = pings[d][g] /\ slips'[d][g] = slips[d][g] + 1
  /\ s \in Senders(d, g)' => s \in Senders(d, g)
StartsTo(s, d, g) ==
  /\ pings'[d][g] = pings[d][g] /\ slips'[d][g] = slips[d][g]
  /\ d = date /\ ~Settled(g)
  /\ s \notin Senders(d, g) /\ s \in Senders(d, g)'
  /\ s \notin Holders(d, g) /\ s \notin Holders(d, g)'

\* One call that sends, slips or does nothing leaves the tallies in balance.
LEMMA ACallMoves ==
  ASSUME RemindersInv, RunsTyped', TalliesTyped', NEW s \in Calls, NEW new,
         minuteRun' = [minuteRun EXCEPT ![s] = new], date' = date,
         NEW d \in Reminders!Dates, NEW g \in Reminders!Stage, Settled(g) => Settled(g)',
         \/ Nothing(s, d, g) \/ Sends(s, d, g) \/ Slips(s, d, g) \/ StartsTo(s, d, g)
  PROVE  SentAsOften(d, g)'
  <1>1. /\ SentAsOften(d, g) /\ date \in Nat /\ d \in Nat
        /\ pings[d][g] \in Nat /\ slips[d][g] \in Nat
        /\ pings'[d][g] \in Nat /\ slips'[d][g] \in Nat
    BY OverlapsAssumption DEF RemindersInv, EventTyped, TalliesTyped, Reminders!Dates
  <1>2. /\ Senders(d, g) \subseteq Calls /\ Senders(d, g)' \subseteq Calls
        /\ Holders(d, g) \subseteq Calls /\ Holders(d, g)' \subseteq Calls
    BY DEF Senders, Holders
  <1>3. /\ Senders(d, g)' \ {s} = Senders(d, g) \ {s}
        /\ Holders(d, g)' \ {s} = Holders(d, g) \ {s}
    BY DEF Senders, Holders, RemindersInv, RunsTyped
  <1>4. Cardinality(Calls) \in Nat /\ IsFiniteSet(Calls)
    BY FS_CardinalityType, OverlapsAssumption
  <1> DEFINE a == Cardinality(Senders(d, g))
             b == Cardinality(Senders(d, g)')
             h == Cardinality(Holders(d, g))
             k == Cardinality(Holders(d, g)')
  <1>5. /\ a \in Nat /\ b \in Nat
        /\ s \in Senders(d, g)' /\ s \notin Senders(d, g) => b = a + 1
        /\ s \notin Senders(d, g)' /\ s \in Senders(d, g) => b = a - 1
        /\ (s \in Senders(d, g)' <=> s \in Senders(d, g)) => b = a
    BY <1>2, <1>3, OneCallChanges
  <1>6. /\ h \in Nat /\ k \in Nat
        /\ s \in Holders(d, g)' /\ s \notin Holders(d, g) => k = h + 1
        /\ s \notin Holders(d, g)' /\ s \in Holders(d, g) => k = h - 1
        /\ (s \in Holders(d, g)' <=> s \in Holders(d, g)) => k = h
    BY <1>2, <1>3, OneCallChanges
  <1>8. /\ pings[d][g] + a <= slips[d][g] + Cardinality(Calls)
        /\ d = date /\ ~Settled(g) => pings[d][g] <= slips[d][g] + h
        /\ d > date => pings[d][g] = 0
    BY <1>1 DEF SentAsOften
  <1>9. d > date => s \notin Senders(d, g)
    <2>1. minuteRun[s].date <= date /\ minuteRun[s].date \in Nat
      <3>1. minuteRun[s] \in MinuteRun /\ minuteRun[s].date <= date
        BY DEF RemindersInv, RunsTyped
      <3>2. minuteRun[s].date \in Reminders!Dates
        BY <3>1 DEF MinuteRun
      <3> QED
        BY <3>1, <3>2, DatesAreNumbers
    <2>2. s \in Senders(d, g) => minuteRun[s].date = d
      BY DEF Senders
    <2> QED
      BY <1>1, <2>1, <2>2
  <1>10. b + k <= Cardinality(Calls)
    <2>1. Senders(d, g)' \cap Holders(d, g)' = {}
      BY StagesApart DEF Senders, Holders, MaySend, Unstamped, Reminders!Stage
    <2>2. IsFiniteSet(Senders(d, g)') /\ IsFiniteSet(Holders(d, g)')
      BY <1>2, <1>4, FS_Subset
    <2>3. Cardinality(Senders(d, g)' \cup Holders(d, g)') = b + k
      <3>1. /\ IsFiniteSet(Senders(d, g)' \cup Holders(d, g)')
            /\ Cardinality(Senders(d, g)' \cup Holders(d, g)')
                 = b + k - Cardinality(Senders(d, g)' \cap Holders(d, g)')
        BY <2>2, FS_Union
      <3>2. Cardinality(Senders(d, g)' \cap Holders(d, g)') = 0
        BY <2>1, FS_EmptySet
      <3> QED
        BY <3>1, <3>2, <1>5, <1>6
    <2>4. Cardinality(Senders(d, g)' \cup Holders(d, g)') <= Cardinality(Calls)
      BY <1>2, <1>4, FS_Subset
    <2> QED
      BY <2>3, <2>4
  <1> DEFINE p == pings[d][g]  q == pings'[d][g]  u == slips[d][g]  v == slips'[d][g]
             c == Cardinality(Calls)
  <1>11. q + b <= v + c
    <2>1. CASE Nothing(s, d, g)
      BY <2>1, <1>1, <1>4, <1>5, <1>8 DEF Nothing
    <2>2. CASE Sends(s, d, g)
      BY <2>2, <1>1, <1>4, <1>5, <1>8 DEF Sends
    <2>3. CASE Slips(s, d, g)
      BY <2>3, <1>1, <1>4, <1>5, <1>8 DEF Slips
    <2>4. CASE StartsTo(s, d, g)
      BY <2>4, <1>1, <1>4, <1>5, <1>6, <1>8, <1>10 DEF StartsTo
    <2> QED
      BY <2>1, <2>2, <2>3, <2>4
  <1>12. d = date /\ ~Settled(g)' => q <= v + k
    <2> SUFFICES ASSUME d = date, ~Settled(g)' PROVE q <= v + k
      OBVIOUS
    <2>0. p <= u + h
      BY <1>8
    <2>1. CASE Nothing(s, d, g)
      BY <2>0, <2>1, <1>1, <1>6 DEF Nothing
    <2>2. CASE Sends(s, d, g)
      BY <2>0, <2>2, <1>1, <1>6 DEF Sends
    <2>3. CASE Slips(s, d, g)
      BY <2>0, <2>3, <1>1, <1>6 DEF Slips
    <2>4. CASE StartsTo(s, d, g)
      BY <2>0, <2>4, <1>1, <1>6 DEF StartsTo
    <2> QED
      BY <2>1, <2>2, <2>3, <2>4
  <1>13. d > date => q = 0
    BY <1>1, <1>8, <1>9 DEF Nothing, Sends, Slips, StartsTo
  <1> QED
    BY <1>11, <1>12, <1>13 DEF SentAsOften

\* A call that is not running.
LEMMA IdleRun ==
  Reminders!Idle \in MinuteRun /\ Reminders!Idle.at = "idle" /\ Reminders!Idle.date = 1
  BY DatesAreNumbers DEF Reminders!Idle, MinuteRun

\* The invariant of reminders holds at the start.
LEMMA RemindersInit ==
  ASSUME Init
  PROVE  RemindersInv
  <1>1. Reminders!Init
    BY DEF Init
  <1>2. EventTyped /\ SettingsTyped /\ RunsTyped /\ TalliesTyped
    <2>1. EventTyped /\ SettingsTyped
      BY <1>1, DatesAreNumbers DEF Reminders!Init, EventTyped, SettingsTyped
    <2>2. RunsTyped
      BY <1>1, IdleRun DEF Reminders!Init, RunsTyped
    <2>3. TalliesTyped
      BY <1>1 DEF Reminders!Init, TalliesTyped
    <2> QED
      BY <2>1, <2>2, <2>3
  <1>3. ASSUME NEW d \in Reminders!Dates, NEW g \in Reminders!Stage PROVE SentAsOften(d, g)
    <2>1. Senders(d, g) = {} /\ Holders(d, g) = {}
      BY <1>1
         DEF Reminders!Init, Reminders!Idle, Senders, Holders, MaySend, Unstamped,
             Reminders!Stage
    <2>2. pings[d][g] = 0 /\ slips[d][g] = 0
      BY <1>1 DEF Reminders!Init
    <2>3. Cardinality(Calls) \in Nat /\ Cardinality({}) = 0
      BY FS_CardinalityType, FS_EmptySet, OverlapsAssumption
    <2> QED
      BY <2>1, <2>2, <2>3 DEF SentAsOften
  <1> QED
    BY <1>2, <1>3 DEF RemindersInv

\* What a call goes on to.
LEMMA NextOwedIs ==
  ASSUME NEW r, NEW done
  PROVE  /\ Reminders!NextOwed(r, done) \in {"before", "start", "idle"}
         /\ "before" \in done => Reminders!NextOwed(r, done) # "before"
         /\ {"before", "start"} \subseteq done => Reminders!NextOwed(r, done) = "idle"
  BY DEF Reminders!NextOwed

\* A call that goes on changes its own record alone.
LEMMA ACallGoes ==
  ASSUME RemindersInv, NEW s \in Calls,
         NEW next \in {"idle", "stamp before", "start", "stamp start", "record"},
         Reminders!Goes(s, next), date' = date
  PROVE  /\ RunsTyped' /\ minuteRun'[s].at = next
         /\ \E new : minuteRun' = [minuteRun EXCEPT ![s] = new]
         /\ next # "idle" => /\ minuteRun'[s].date = minuteRun[s].date
                             /\ minuteRun'[s].stamps = minuteRun[s].stamps
  <1>1. /\ minuteRun \in [Calls -> MinuteRun] /\ minuteRun[s] \in MinuteRun
        /\ minuteRun[s].date <= date /\ date \in Reminders!Dates
    BY DEF RemindersInv, RunsTyped, EventTyped
  <1> DEFINE new == IF next = "idle" THEN Reminders!Idle ELSE [minuteRun[s] EXCEPT !.at = next]
  <1>2. minuteRun' = [minuteRun EXCEPT ![s] = new]
    BY <1>1 DEF Reminders!Goes
  <1>3. /\ new \in MinuteRun /\ new.at = next /\ new.date <= date
        /\ next # "idle" => new.date = minuteRun[s].date /\ new.stamps = minuteRun[s].stamps
    <2>1. CASE next = "idle"
      BY <1>1, <2>1, IdleRun, OverlapsAssumption DEF Reminders!Dates
    <2>2. CASE next # "idle"
      BY <1>1, <2>2 DEF MinuteRun
    <2> QED
      BY <2>1, <2>2
  <1> HIDE DEF new
  <1>4. RunsTyped'
    BY <1>1, <1>2, <1>3 DEF RemindersInv, RunsTyped
  <1> QED
    BY <1>1, <1>2, <1>3, <1>4

\* A call ready for a step of a stage, and where it goes from there.
LEMMA StartedCall ==
  ASSUME RemindersInv, NEW s \in Calls, NEW r \in MinuteRun,
         NEW stage \in {"before", "start", "potluck"},
         Reminders!Starts(s, r, stage), r.date = date, stage = "potluck" \/ r.stamps = stamps,
         stage = "potluck" => ~Settled("potluck")
  PROVE  RemindersInv'
  <1> DEFINE new == [r EXCEPT !.at = stage]
  <1>1. /\ minuteRun' = [minuteRun EXCEPT ![s] = new] /\ minuteRun[s].at = "idle"
        /\ UNCHANGED <<minute, date, startsAt, stamps, asked, going, answered, channel, pings,
                       slips, upsets>>
    BY DEF Reminders!Starts, Reminders!event, Reminders!settings
  <1>2. new \in MinuteRun /\ new.at = stage /\ new.date = date /\ new.stamps = r.stamps
    BY DEF MinuteRun
  <1> HIDE DEF new
  <1>3. RunsTyped'
    BY <1>1, <1>2, OverlapsAssumption DEF RemindersInv, RunsTyped, EventTyped, Reminders!Dates
  <1>4. EventTyped' /\ SettingsTyped' /\ TalliesTyped'
    BY <1>1 DEF RemindersInv, EventTyped, SettingsTyped, TalliesTyped
  <1>5. ASSUME NEW d \in Reminders!Dates, NEW g \in Reminders!Stage
        PROVE  SentAsOften(d, g)'
    <2>1. minuteRun'[s] = new
      BY <1>1 DEF RemindersInv, RunsTyped
    <2>2. /\ s \notin Senders(d, g) /\ s \notin Holders(d, g) /\ s \notin Holders(d, g)'
          /\ s \in Senders(d, g)' => date = d /\ MaySend(new, g)
      <3>1. ~MaySend(minuteRun[s], g) /\ ~Unstamped(minuteRun[s], g) /\ ~Unstamped(new, g)
        BY <1>1, <1>2 DEF MaySend, Unstamped, Reminders!Stage
      <3>2. s \in Holders(d, g)' => Unstamped(new, g)
        BY <2>1 DEF Holders, Unstamped
      <3>3. s \in Senders(d, g)' => date = d /\ MaySend(new, g)
        BY <1>2, <2>1 DEF Senders, MaySend
      <3> QED
        BY <3>1, <3>2, <3>3 DEF Senders, Holders
    <2>3. MaySend(new, g) => ~Settled(g)
      BY <1>2 DEF MaySend, Settled, Reminders!Stage
    <2>4. Nothing(s, d, g) \/ StartsTo(s, d, g)
      BY <1>1, <2>2, <2>3 DEF Nothing, StartsTo
    <2>5. Settled(g) => Settled(g)'
      BY <1>1 DEF Settled
    <2> QED
      BY <1>1, <1>3, <1>4, <2>4, <2>5, ACallMoves
  <1> QED
    BY <1>3, <1>4, <1>5 DEF RemindersInv

\* A step of a call under way keeps the types and goes somewhere.
Under(s) ==
  \/ Reminders!SendPotluckReminder(s) \/ Reminders!RecordPotluckReminder(s)
  \/ \E g \in {"before", "start"} :
       Reminders!StampAsOver(s, g) \/ Reminders!SendReminder(s, g) \/ Reminders!StampReminder(s, g)

\* A tally that counts one more is still a tally.
LEMMA OneMore ==
  ASSUME NEW D, NEW G, NEW f \in [D -> [G -> Nat]], NEW d \in D, NEW g \in G
  PROVE  [f EXCEPT ![d][g] = @ + 1] \in [D -> [G -> Nat]]
  <1>1. f[d] \in [G -> Nat] /\ f[d][g] \in Nat
    OBVIOUS
  <1>2. [f[d] EXCEPT ![g] = f[d][g] + 1] \in [G -> Nat]
    BY <1>1
  <1> QED
    BY <1>2

\* What a call under way leaves typed and alone.
LEMMA CallTypes ==
  ASSUME RemindersInv, NEW s \in Calls, Under(s)
  PROVE  /\ EventTyped' /\ SettingsTyped' /\ RunsTyped' /\ TalliesTyped' /\ date' = date
         /\ \E new : minuteRun' = [minuteRun EXCEPT ![s] = new]
         /\ \A g \in Reminders!Stage : Settled(g) => Settled(g)'
  <1>1. UNCHANGED <<minute, date, startsAt, going, answered, channel>>
    BY DEF Under, Reminders!SendPotluckReminder, Reminders!RecordPotluckReminder,
           Reminders!StampAsOver, Reminders!SendReminder, Reminders!StampReminder,
           Reminders!event, Reminders!settings
  <1>2. /\ stamps' = stamps \/ \E g \in {"before", "start"} : stamps' = stamps \cup {g}
        /\ asked' = asked \/ asked' = asked \cup {[kind |-> "automatic", at |-> minute]}
    BY DEF Under, Reminders!SendPotluckReminder, Reminders!RecordPotluckReminder,
           Reminders!StampAsOver, Reminders!SendReminder, Reminders!StampReminder,
           Reminders!Stamp, Reminders!event
  <1>3. upsets' = upsets \/ upsets' = upsets + 1
    BY DEF Under, Reminders!SendPotluckReminder, Reminders!RecordPotluckReminder,
           Reminders!StampAsOver, Reminders!SendReminder, Reminders!StampReminder,
           Reminders!Works, Reminders!Fails, Reminders!Upset
  <1>4. EventTyped' /\ SettingsTyped'
    <2>1. stamps' \subseteq Reminders!Stage
      BY <1>2 DEF RemindersInv, EventTyped, Reminders!Stage
    <2>2. asked' \subseteq [kind : {"automatic", "nudge"}, at : Nat]
      BY <1>2 DEF RemindersInv, EventTyped
    <2> QED
      BY <1>1, <1>3, <2>1, <2>2 DEF RemindersInv, EventTyped, SettingsTyped
  <1>5. PICK next \in {"idle", "stamp before", "start", "stamp start", "record"} :
          Reminders!Goes(s, next)
    <2>1. CASE Reminders!SendPotluckReminder(s) \/ Reminders!RecordPotluckReminder(s)
      BY <2>1 DEF Reminders!SendPotluckReminder, Reminders!RecordPotluckReminder
    <2>2. ASSUME NEW g \in {"before", "start"}, Reminders!GoesOn(s, g)
          PROVE  \E next \in {"idle", "stamp before", "start", "stamp start", "record"} :
                   Reminders!Goes(s, next)
      <3> DEFINE done == IF g = "before" THEN {g} ELSE {"before", g}
      <3>1. "before" \in done
        BY <2>2
      <3>2. Reminders!Goes(s, Reminders!NextOwed(minuteRun[s], done))
        BY <2>2 DEF Reminders!GoesOn
      <3> HIDE DEF done
      <3> QED
        BY <3>1, <3>2, NextOwedIs
    <2>3. ASSUME NEW g \in {"before", "start"},
                 \/ Reminders!StampAsOver(s, g) \/ Reminders!SendReminder(s, g)
                 \/ Reminders!StampReminder(s, g)
          PROVE  \/ Reminders!GoesOn(s, g) \/ Reminders!Goes(s, "stamp before")
                 \/ Reminders!Goes(s, "stamp start")
      BY <2>3 DEF Reminders!StampAsOver, Reminders!SendReminder, Reminders!StampReminder
    <2> QED
      BY <2>1, <2>2, <2>3 DEF Under
  <1>6. RunsTyped' /\ \E new : minuteRun' = [minuteRun EXCEPT ![s] = new]
    BY <1>1, <1>5, ACallGoes
  <1>7. TalliesTyped'
    <2>1. minuteRun[s].date \in Reminders!Dates
      BY DEF RemindersInv, RunsTyped, MinuteRun
    <2>2. /\ \/ pings' = pings
             \/ \E g \in Reminders!Stage : pings' = [pings EXCEPT ![minuteRun[s].date][g] = @ + 1]
          /\ \/ slips' = slips
             \/ \E g \in Reminders!Stage : slips' = [slips EXCEPT ![minuteRun[s].date][g] = @ + 1]
      BY DEF Under, Reminders!SendPotluckReminder, Reminders!RecordPotluckReminder,
             Reminders!StampAsOver, Reminders!SendReminder, Reminders!StampReminder,
             Reminders!Stage
    <2>4. pings' \in [Reminders!Dates -> [Reminders!Stage -> Nat]]
      <3>1. pings \in [Reminders!Dates -> [Reminders!Stage -> Nat]]
        BY DEF RemindersInv, TalliesTyped
      <3>2. ASSUME NEW g \in Reminders!Stage,
                   pings' = [pings EXCEPT ![minuteRun[s].date][g] = @ + 1]
            PROVE  pings' \in [Reminders!Dates -> [Reminders!Stage -> Nat]]
        BY <2>1, <3>1, <3>2, OneMore
      <3> QED
        BY <2>2, <3>1, <3>2
    <2>5. slips' \in [Reminders!Dates -> [Reminders!Stage -> Nat]]
      <3>1. slips \in [Reminders!Dates -> [Reminders!Stage -> Nat]]
        BY DEF RemindersInv, TalliesTyped
      <3>2. ASSUME NEW g \in Reminders!Stage,
                   slips' = [slips EXCEPT ![minuteRun[s].date][g] = @ + 1]
            PROVE  slips' \in [Reminders!Dates -> [Reminders!Stage -> Nat]]
        BY <2>1, <3>1, <3>2, OneMore
      <3> QED
        BY <2>2, <3>1, <3>2
    <2> QED
      BY <2>4, <2>5 DEF TalliesTyped
  <1>8. \A g \in Reminders!Stage : Settled(g) => Settled(g)'
    BY <1>2 DEF Settled
  <1> QED
    BY <1>1, <1>4, <1>6, <1>7, <1>8

\* Each step of a call under way sends a stage, loses its stamp, or does neither.
LEMMA CallCounts ==
  ASSUME RemindersInv, NEW s \in Calls, Under(s),
         NEW d \in Reminders!Dates, NEW g \in Reminders!Stage
  PROVE  Nothing(s, d, g) \/ Sends(s, d, g) \/ Slips(s, d, g)
  <1> DEFINE r == minuteRun[s]
             n == minuteRun'[s]
             pinged(h) == pings' = [pings EXCEPT ![r.date][h] = @ + 1]
             slipped(h) == slips' = [slips EXCEPT ![r.date][h] = @ + 1]
  <1>1. /\ r \in MinuteRun /\ r.date \in Reminders!Dates /\ TalliesTyped /\ date' = date
    BY CallTypes DEF RemindersInv, RunsTyped, MinuteRun
  <1>2. ASSUME NEW next \in {"idle", "stamp before", "start", "stamp start", "record"},
               Reminders!Goes(s, next)
        PROVE  n.at = next /\ (next # "idle" => n.date = r.date /\ n.stamps = r.stamps)
    BY <1>1, <1>2, ACallGoes
  <1>3. ASSUME NEW h \in {"before", "start"}, Reminders!GoesOn(s, h)
        PROVE  n.at = "idle" \/ (h = "before" /\ n.at = "start" /\ n.date = r.date
                                               /\ n.stamps = r.stamps)
    <2> DEFINE done == IF h = "before" THEN {h} ELSE {"before", h}
               next == Reminders!NextOwed(r, done)
    <2>1. "before" \in done /\ (h = "start" => {"before", "start"} \subseteq done)
      BY <1>3
    <2>2. Reminders!Goes(s, next)
      BY <1>3 DEF Reminders!GoesOn
    <2> HIDE DEF done
    <2>3. next \in {"idle", "start"} /\ (h = "start" => next = "idle")
      BY <2>1, NextOwedIs
    <2> HIDE DEF next
    <2> QED
      BY <1>2, <1>3, <2>2, <2>3
  <1>4. /\ s \in Senders(d, g) <=> r.date = d /\ MaySend(r, g)
        /\ s \in Senders(d, g)' <=> n.date = d /\ MaySend(n, g)
        /\ s \in Holders(d, g) <=> r.date = d /\ Unstamped(r, g)
        /\ s \in Holders(d, g)' <=> n.date = d /\ Unstamped(n, g)
    BY DEF Senders, Holders, MaySend, Unstamped
  <1>5. /\ pings' = pings => pings'[d][g] = pings[d][g]
        /\ slips' = slips => slips'[d][g] = slips[d][g]
        /\ \A h \in Reminders!Stage :
             /\ pinged(h) => pings'[d][g] = IF d = r.date /\ g = h THEN pings[d][g] + 1
                                            ELSE pings[d][g]
             /\ slipped(h) => slips'[d][g] = IF d = r.date /\ g = h THEN slips[d][g] + 1
                                             ELSE slips[d][g]
    BY <1>1 DEF TalliesTyped
  <1> HIDE DEF n
  <1>6. ASSUME NEW h \in {"before", "start"}, Reminders!StampAsOver(s, h)
        PROVE  Nothing(s, d, g)
    <2>1. r.at = h /\ pings' = pings /\ slips' = slips /\ Reminders!GoesOn(s, h)
      BY <1>6 DEF Reminders!StampAsOver
    <2>2. ~Unstamped(r, g)
      BY <1>6, <2>1 DEF Unstamped, Reminders!Stage
    <2>3. MaySend(n, g) => MaySend(r, g) /\ n.date = r.date
      BY <1>3, <2>1 DEF MaySend
    <2> QED
      BY <1>4, <1>5, <2>1, <2>2, <2>3 DEF Nothing
  <1>7. ASSUME NEW h \in {"before", "start"}, Reminders!SendReminder(s, h)
        PROVE  Nothing(s, d, g) \/ Sends(s, d, g)
    <2>1. r.at = h /\ slips' = slips /\ Reminders!Due(r, h) /\ h \in Reminders!Stage
      BY <1>7 DEF Reminders!SendReminder, Reminders!Stage
    <2>2. ~Unstamped(r, g) /\ h \notin r.stamps /\ MaySend(r, h)
      BY <1>7, <2>1
         DEF Unstamped, Reminders!Stage, MaySend, Reminders!Due, Reminders!BeforeIsDue,
             Reminders!StartIsDue
    <2>3. CASE pings' = pings /\ Reminders!GoesOn(s, h)
      <3>1. MaySend(n, g) => MaySend(r, g) /\ n.date = r.date
        BY <1>3, <2>1, <2>3 DEF MaySend
      <3> QED
        BY <1>4, <1>5, <2>1, <2>2, <2>3, <3>1 DEF Nothing
    <2>4. CASE /\ pinged(h)
               /\ Reminders!Goes(s, IF h = "before" THEN "stamp before" ELSE "stamp start")
      <3>1. /\ n.at = (IF h = "before" THEN "stamp before" ELSE "stamp start")
            /\ n.date = r.date /\ n.stamps = r.stamps
        BY <1>2, <2>4
      <3>2. Unstamped(n, h) /\ ~MaySend(n, h)
        BY <1>7, <3>1 DEF Unstamped, MaySend
      <3>3. MaySend(n, g) => MaySend(r, g)
        BY <1>7, <2>1, <3>1 DEF MaySend
      <3>4. CASE d = r.date /\ g = h
        BY <1>4, <1>5, <2>1, <2>2, <2>4, <3>1, <3>2, <3>4 DEF Sends
      <3>5. CASE ~(d = r.date /\ g = h)
        BY <1>4, <1>5, <2>1, <2>2, <2>4, <3>1, <3>3, <3>5 DEF Nothing
      <3> QED
        BY <3>4, <3>5
    <2> QED
      BY <1>7, <2>3, <2>4 DEF Reminders!SendReminder
  <1>8. ASSUME NEW h \in {"before", "start"}, Reminders!StampReminder(s, h)
        PROVE  Nothing(s, d, g) \/ Slips(s, d, g)
    <2>1. /\ r.at = (IF h = "before" THEN "stamp before" ELSE "stamp start")
          /\ pings' = pings /\ Reminders!GoesOn(s, h) /\ h \in Reminders!Stage
      BY <1>8 DEF Reminders!StampReminder, Reminders!Stage
    <2>2. Unstamped(r, g) => g = h
      <3>1. r.at \in {"stamp before", "stamp start"} /\ (r.at = "stamp before" <=> h = "before")
        BY <1>8, <2>1
      <3> QED
        BY <1>8, <3>1 DEF Unstamped, Reminders!Stage
    <2>3. MaySend(n, g) => MaySend(r, g) /\ n.date = r.date
      BY <1>3, <1>8, <2>1 DEF MaySend
    <2>4. CASE Reminders!Stamp(h) /\ slips' = slips
      <3>1. g = h => Settled(g)'
        BY <1>8, <2>4 DEF Reminders!Stamp, Settled
      <3> QED
        BY <1>4, <1>5, <2>1, <2>2, <2>3, <2>4, <3>1 DEF Nothing
    <2>5. CASE slipped(h)
      <3>1. CASE d = r.date /\ g = h
        BY <1>4, <1>5, <2>1, <2>3, <2>5, <3>1 DEF Slips
      <3>2. CASE ~(d = r.date /\ g = h)
        BY <1>4, <1>5, <2>1, <2>2, <2>3, <2>5, <3>2 DEF Nothing
      <3> QED
        BY <3>1, <3>2
    <2> QED
      BY <1>8, <2>4, <2>5 DEF Reminders!StampReminder
  <1>9. ASSUME Reminders!SendPotluckReminder(s)
        PROVE  Nothing(s, d, g) \/ Sends(s, d, g)
    <2>1. /\ r.at = "potluck" /\ slips' = slips
          /\ \/ Reminders!Goes(s, "idle") /\ pings' = pings
             \/ Reminders!Goes(s, "record") /\ (pings' = pings \/ pinged("potluck"))
      BY <1>9 DEF Reminders!SendPotluckReminder
    <2>2. ~Unstamped(r, g) /\ MaySend(r, "potluck") /\ "potluck" \in Reminders!Stage
      BY <2>1 DEF Unstamped, MaySend, Reminders!Stage
    <2>3. n.at \in {"idle", "record"} /\ (n.at = "record" => n.date = r.date)
      BY <1>2, <2>1
    <2>4. ~MaySend(n, g) /\ (n.at = "record" => Unstamped(n, "potluck"))
      BY <2>3 DEF Unstamped, MaySend
    <2>5. CASE pings' = pings
      BY <1>4, <1>5, <2>1, <2>2, <2>4, <2>5 DEF Nothing
    <2>6. CASE pinged("potluck") /\ Reminders!Goes(s, "record")
      <3>1. n.at = "record"
        BY <1>2, <2>6
      <3>2. CASE d = r.date /\ g = "potluck"
        BY <1>4, <1>5, <2>1, <2>2, <2>3, <2>4, <2>6, <3>1, <3>2 DEF Sends
      <3>3. CASE ~(d = r.date /\ g = "potluck")
        BY <1>4, <1>5, <2>1, <2>2, <2>4, <2>6, <3>3 DEF Nothing
      <3> QED
        BY <3>2, <3>3
    <2> QED
      BY <2>1, <2>5, <2>6
  <1>10. ASSUME Reminders!RecordPotluckReminder(s)
         PROVE  Nothing(s, d, g) \/ Slips(s, d, g)
    <2>1. r.at = "record" /\ pings' = pings /\ Reminders!Goes(s, "idle")
      BY <1>10 DEF Reminders!RecordPotluckReminder
    <2>2. ~MaySend(n, g)
      BY <1>2, <2>1 DEF MaySend
    <2>3. (Unstamped(r, g) => g = "potluck") /\ "potluck" \in Reminders!Stage
      BY <2>1 DEF Unstamped, Reminders!Stage
    <2>4. CASE /\ slips' = slips
               /\ asked' = asked \cup {[kind |-> "automatic", at |-> minute]}
      <3>1. g = "potluck" => Settled(g)'
        <4> DEFINE new == [kind |-> "automatic", at |-> minute]
        <4>1. new \in asked' /\ new.kind = "automatic"
          BY <2>4
        <4> QED
          BY <4>1 DEF Settled
      <3> QED
        BY <1>4, <1>5, <2>1, <2>2, <2>3, <2>4, <3>1 DEF Nothing
    <2>5. CASE slipped("potluck")
      <3>1. CASE d = r.date /\ g = "potluck"
        BY <1>4, <1>5, <2>1, <2>2, <2>3, <2>5, <3>1 DEF Slips
      <3>2. CASE ~(d = r.date /\ g = "potluck")
        BY <1>4, <1>5, <2>1, <2>2, <2>3, <2>5, <3>2 DEF Nothing
      <3> QED
        BY <3>1, <3>2
    <2> QED
      BY <1>10, <2>4, <2>5 DEF Reminders!RecordPotluckReminder
  <1> QED
    BY <1>6, <1>7, <1>8, <1>9, <1>10 DEF Under

\* A restart loses the stamps to come, which are counted as lost.
LEMMA RestartCounts ==
  ASSUME RemindersInv, Reminders!Restart
  PROVE  RemindersInv'
  <1>1. /\ UNCHANGED <<minute, date, startsAt, stamps, asked, going, answered, channel, pings>>
        /\ upsets' = upsets + 1
        /\ minuteRun' = [s \in Calls |-> Reminders!Idle]
    BY DEF Reminders!Restart, Reminders!Fails, Reminders!Upset, Reminders!event,
           Reminders!settings
  <1>2. ASSUME NEW d \in Reminders!Dates, NEW g \in Reminders!Stage
        PROVE  slips'[d][g] = slips[d][g] + Cardinality(Holders(d, g))
    BY RemindersCount DEF Reminders!Restart, Holders, Unstamped
  <1>3. ASSUME NEW d \in Reminders!Dates, NEW g \in Reminders!Stage
        PROVE  Cardinality(Holders(d, g)) \in Nat /\ Cardinality(Senders(d, g)) \in Nat
    <2>1. Holders(d, g) \subseteq Calls /\ Senders(d, g) \subseteq Calls
      BY DEF Holders, Senders
    <2>2. IsFiniteSet(Holders(d, g)) /\ IsFiniteSet(Senders(d, g))
      BY <2>1, FS_Subset, OverlapsAssumption
    <2> QED
      BY <2>2, FS_CardinalityType
  <1>4. EventTyped' /\ SettingsTyped' /\ RunsTyped'
    BY <1>1, IdleRun, DatesAreNumbers
       DEF RemindersInv, EventTyped, SettingsTyped, RunsTyped, Reminders!Dates
  <1>5. TalliesTyped'
    <2>1. ASSUME NEW d \in Reminders!Dates, NEW g \in Reminders!Stage
          PROVE  slips[d][g] + Cardinality(Holders(d, g)) \in Nat
      BY <1>3 DEF RemindersInv, TalliesTyped
    <2>2. slips' = [d \in Reminders!Dates |-> [g \in Reminders!Stage |->
                     slips[d][g] + Cardinality(Holders(d, g))]]
      BY RemindersCount DEF Reminders!Restart, Holders, Unstamped
    <2> QED
      BY <1>1, <2>1, <2>2 DEF RemindersInv, TalliesTyped
  <1>6. ASSUME NEW d \in Reminders!Dates, NEW g \in Reminders!Stage
        PROVE  SentAsOften(d, g)'
    <2>1. Senders(d, g)' = {} /\ Holders(d, g)' = {}
      BY <1>1, IdleRun DEF Senders, Holders, MaySend, Unstamped, Reminders!Stage
    <2>2. /\ Cardinality({}) = 0 /\ Cardinality(Calls) \in Nat
      BY FS_CardinalityType, FS_EmptySet, OverlapsAssumption
    <2>3. /\ SentAsOften(d, g) /\ pings'[d][g] = pings[d][g] /\ date' = date
          /\ Settled(g) => Settled(g)'
          /\ pings[d][g] \in Nat /\ slips[d][g] \in Nat
      BY <1>1 DEF RemindersInv, Settled, TalliesTyped
    <2>4. /\ slips'[d][g] = slips[d][g] + Cardinality(Holders(d, g))
          /\ Cardinality(Holders(d, g)) \in Nat /\ Cardinality(Senders(d, g)) \in Nat
      BY <1>2, <1>3
    <2> QED
      BY <2>1, <2>2, <2>3, <2>4 DEF SentAsOften
  <1> QED
    BY <1>4, <1>5, <1>6 DEF RemindersInv

\* Each step of reminders keeps their invariant.
LEMMA RemindersStep ==
  ASSUME RemindersInv, Reminders!Next \/ UNCHANGED remindersVars
  PROVE  RemindersInv'
  <1>1. ASSUME NEW s \in Calls, Under(s)
        PROVE  RemindersInv'
    BY <1>1, CallTypes, CallCounts, ACallMoves DEF RemindersInv
  <1>2. ASSUME NEW s \in Calls,
               Reminders!SendDueReminders(s) \/ Reminders!SendDuePotluckReminders(s)
        PROVE  RemindersInv'
    <2>1. CASE Reminders!SendDueReminders(s)
      <3>1. /\ Reminders!Copy \in MinuteRun /\ Reminders!Copy.date = date
            /\ Reminders!Copy.stamps = stamps
        BY IdleRun DEF Reminders!Copy, RemindersInv, EventTyped, MinuteRun
      <3>2. PICK stage \in {"before", "start"} : Reminders!Starts(s, Reminders!Copy, stage)
        BY <2>1, NextOwedIs DEF Reminders!SendDueReminders, Reminders!Starts
      <3> QED
        BY <3>1, <3>2, StartedCall
    <2>2. CASE Reminders!SendDuePotluckReminders(s)
      <3> DEFINE r == [Reminders!Idle EXCEPT !.date = date]
      <3>1. r \in MinuteRun /\ r.date = date
        BY IdleRun DEF RemindersInv, EventTyped, MinuteRun
      <3>2. ~Settled("potluck") /\ Reminders!Starts(s, r, "potluck")
        BY <2>2
           DEF Reminders!SendDuePotluckReminders, Reminders!PotluckIsDue, Reminders!Reminded,
               Settled
      <3> HIDE DEF r
      <3> QED
        BY <3>1, <3>2, StartedCall
    <2> QED
      BY <1>2, <2>1, <2>2
  <1>3. CASE \/ Reminders!Minute \/ Reminders!Reschedule \/ Reminders!Change
             \/ Reminders!Nudge \/ UNCHANGED remindersVars
    <2>1. /\ UNCHANGED <<date, stamps, minuteRun, pings, slips>>
          /\ minute' \in {minute, minute + 1} /\ startsAt' \in {startsAt, startsAt + 1}
          /\ upsets' \in {upsets, upsets + 1}
      BY <1>3
         DEF Reminders!Minute, Reminders!Reschedule, Reminders!Change, Reminders!Nudge,
             Reminders!Upset, Reminders!event, Reminders!settings, remindersVars
    <2>2. asked' = asked \/ asked' = asked \cup {[kind |-> "nudge", at |-> minute]}
      BY <1>3
         DEF Reminders!Minute, Reminders!Reschedule, Reminders!Change, Reminders!Nudge,
             Reminders!event, remindersVars
    <2>3. asked' \subseteq [kind : {"automatic", "nudge"}, at : Nat]
      BY <2>2 DEF RemindersInv, EventTyped
    <2>4. SettingsTyped'
      BY <1>3
         DEF Reminders!Minute, Reminders!Reschedule, Reminders!Change, Reminders!Nudge,
             Reminders!settings, remindersVars, RemindersInv, SettingsTyped
    <2>5. EventTyped' /\ RunsTyped' /\ TalliesTyped'
      BY <2>1, <2>3 DEF RemindersInv, EventTyped, RunsTyped, TalliesTyped
    <2>6. ASSUME NEW d \in Reminders!Dates, NEW g \in Reminders!Stage
          PROVE  SentAsOften(d, g)'
      <3>1. Senders(d, g)' = Senders(d, g) /\ Holders(d, g)' = Holders(d, g)
        BY <2>1 DEF Senders, Holders, MaySend, Unstamped
      <3>2. Settled(g) => Settled(g)'
        BY <2>1, <2>2 DEF Settled
      <3> QED
        BY <2>1, <3>1, <3>2 DEF RemindersInv, SentAsOften
    <2> QED
      BY <2>4, <2>5, <2>6 DEF RemindersInv
  <1>4. CASE Reminders!RollOverOccurrence
    <2>1. /\ UNCHANGED <<minute, going, channel, minuteRun, pings, slips, upsets>>
          /\ date < MaxDate /\ date' = date + 1 /\ startsAt' = startsAt + 2
          /\ stamps' = {} /\ asked' = {} /\ answered' = FALSE
      BY <1>4 DEF Reminders!RollOverOccurrence, Reminders!Period
    <2>2. date' \in Reminders!Dates /\ date \in Nat /\ date' > date
      BY <2>1, OverlapsAssumption DEF RemindersInv, EventTyped, Reminders!Dates
    <2>3. EventTyped' /\ SettingsTyped' /\ TalliesTyped'
      <3>1. startsAt' \in Nat
        BY <2>1 DEF RemindersInv, EventTyped
      <3> QED
        BY <2>1, <2>2, <3>1 DEF RemindersInv, EventTyped, SettingsTyped, TalliesTyped
    <2>4. RunsTyped'
      <3>1. ASSUME NEW s \in Calls PROVE minuteRun[s].date <= date'
        <4>1. minuteRun[s].date <= date /\ minuteRun[s].date \in Reminders!Dates
          BY DEF RemindersInv, RunsTyped, MinuteRun
        <4>2. minuteRun[s].date \in Nat
          BY <4>1, DatesAreNumbers
        <4> QED
          BY <2>1, <2>2, <4>1, <4>2
      <3> QED
        BY <2>1, <3>1 DEF RemindersInv, RunsTyped
    <2>5. ASSUME NEW d \in Reminders!Dates, NEW g \in Reminders!Stage
          PROVE  SentAsOften(d, g)'
      <3>1. Senders(d, g)' = Senders(d, g) /\ Holders(d, g)' = Holders(d, g)
        BY <2>1 DEF Senders, Holders, MaySend, Unstamped
      <3>2. /\ SentAsOften(d, g) /\ d \in Nat /\ slips[d][g] \in Nat
        BY DatesAreNumbers DEF RemindersInv, TalliesTyped
      <3>3. Cardinality(Holders(d, g)) \in Nat
        <4>1. IsFiniteSet(Holders(d, g))
          BY FS_Subset, OverlapsAssumption DEF Holders
        <4> QED
          BY <4>1, FS_CardinalityType
      <3>4. d >= date' => pings[d][g] = 0
        BY <2>1, <2>2, <3>2 DEF SentAsOften
      <3> QED
        BY <2>1, <2>2, <3>1, <3>2, <3>3, <3>4 DEF SentAsOften
    <2> QED
      BY <2>3, <2>4, <2>5 DEF RemindersInv
  <1> QED
    BY <1>1, <1>2, <1>3, <1>4, RestartCounts DEF Reminders!Next, Reminders!Sweep, Under

\* The invariant of reminders holds throughout a behaviour about them.
LEMMA RemindersInvariant == Spec => [](part = "reminders" => RemindersInv)
  <1>1. Init => (part = "reminders" => RemindersInv)
    BY RemindersInit
  <1>2. (part = "reminders" => RemindersInv) /\ [Next]_vars
          => (part = "reminders" => RemindersInv)'
    BY RemindersStep, StepOfAPart
  <1> QED
    BY <1>1, <1>2, PTL DEF Spec

\* However sweeps overlap, fail and are cut short, and whatever is edited,
\* rolled over and nudged meanwhile, a stage of a date is sent no more often
\* than sweeps can overlap and stamps of it were lost.
THEOREM RemindersStayBounded == Spec => []RemindersAreBounded
  <1>1. RemindersInv => Reminders!RemindersAreBounded
    <2> SUFFICES ASSUME RemindersInv, NEW d \in Reminders!Dates, NEW g \in Reminders!Stage
                 PROVE  pings[d][g] <= Cardinality(Calls) + slips[d][g]
      BY RemindersCount DEF Reminders!RemindersAreBounded
    <2>1. IsFiniteSet(Senders(d, g))
      BY FS_Subset, OverlapsAssumption DEF Senders
    <2>2. Cardinality(Senders(d, g)) \in Nat /\ Cardinality(Calls) \in Nat
      BY <2>1, FS_CardinalityType, OverlapsAssumption
    <2>3. /\ SentAsOften(d, g) /\ pings[d][g] \in Nat /\ slips[d][g] \in Nat
      BY DEF RemindersInv, TalliesTyped
    <2> QED
      BY <2>2, <2>3 DEF SentAsOften
  <1>2. (part = "reminders" => RemindersInv) => RemindersAreBounded
    BY <1>1 DEF RemindersAreBounded
  <1> QED
    BY <1>2, RemindersInvariant, PTL
-----------------------------------------------------------------------------
(* Replies: every image kept is recorded, held or left, and none recorded  *)
(* is purged.                                                              *)

StoredReply == [event : About \cup {Replies!NoEvent}, matched : {"", "reply", "latest"},
                files : 0..FilesPerReply]
WrittenMessage == [written : BOOLEAN, files : 0..FilesPerReply, repliedTo : 0..MaxSent]
KeptFile == Replies!File \cup {Replies!NoFile}
Working  == [at : {"idle", "find", "record", "keep", "purge", "done"},
             message : Written \cup {Replies!NoMessage}, found : StoredReply,
             kept : Seq(KeptFile)]
SentRow  == [id : 1..MaxSent, event : About, at : 0..MaxInstant]

RepliesTyped ==
  /\ instant \in 0..MaxInstant /\ handedOff \in BOOLEAN /\ replyFaults \in 0..MaxReplyFaults
  /\ filing \in [filed : BOOLEAN, posting : BOOLEAN, known : BOOLEAN]

\* Each message the bot sent is recorded once.
SentTyped ==
  /\ sent \in Seq(About) /\ Len(sent) <= MaxSent
  /\ eventDMs \in Seq(SentRow)
  /\ \A i \in DOMAIN eventDMs : eventDMs[i].id <= Len(sent)
  /\ \A i, j \in DOMAIN eventDMs : eventDMs[i].id = eventDMs[j].id => i = j

WritingTyped ==
  /\ message \in [Written -> WrittenMessage] /\ reply \in [Written -> StoredReply]

WorkersTyped == worker \in [Replies!Workers -> Working]

FilesTyped ==
  /\ attachments \in [Written -> Seq(KeptFile)]
  /\ stored \subseteq Replies!File /\ left \subseteq Replies!File

\* A worker has files of the message it works on only, by itself, and only
\* until its rows are recorded or its files purged.
OwnFiles(w) ==
  /\ worker[w].at \in {"find", "record", "keep"} => worker[w].message \in Written
  /\ worker[w].kept # <<>> => worker[w].at \in {"keep", "purge"}
  /\ \A p \in DOMAIN worker[w].kept :
       /\ p \in Replies!Positions
       /\ worker[w].kept[p] \in {Replies!NoFile, <<worker[w].message, w, p>>}
  /\ Replies!Held(w) \subseteq stored

\* The files recorded are of a worker that is done, and in file-store.
RecordedByDone(m) ==
  /\ \A p \in DOMAIN attachments[m] :
       \/ attachments[m][p] = Replies!NoFile
       \/ \E w \in Replies!Workers : worker[w].at = "done" /\ attachments[m][p] = <<m, w, p>>
  /\ Replies!RecordedFiles(m) \subseteq stored

Known(f) == \/ \E m \in Written : f \in Replies!RecordedFiles(m)
            \/ \E w \in Replies!Workers : f \in Replies!Held(w)
            \/ f \in left

FilesInv ==
  /\ \A w \in Replies!Workers : OwnFiles(w)
  /\ \A m \in Written : RecordedByDone(m)
  /\ \A f \in stored : Known(f)

RepliesInv ==
  RepliesTyped /\ SentTyped /\ WritingTyped /\ WorkersTyped /\ FilesTyped /\ FilesInv

\* A worker that rests, or is done, holds no image.
LEMMA RestingIs ==
  /\ Replies!Resting \in Working /\ Replies!Resting.at = "idle" /\ Replies!Resting.kept = <<>>
  /\ Replies!Done \in Working /\ Replies!Done.at = "done" /\ Replies!Done.kept = <<>>
  <1>1. <<>> \in Seq(KeptFile) /\ 0 \in 0..FilesPerReply
    BY OverlapsAssumption
  <1>2. Replies!NoReply \in StoredReply
    BY <1>1 DEF Replies!NoReply, StoredReply
  <1>3. Replies!Resting \in Working /\ Replies!Resting.at = "idle" /\ Replies!Resting.kept = <<>>
    BY <1>1, <1>2 DEF Replies!Resting, Working
  <1> QED
    BY <1>3 DEF Replies!Done, Working

\* The invariant of replies holds at the start.
LEMMA RepliesInit ==
  ASSUME Init
  PROVE  RepliesInv
  <1>1. Replies!Init
    BY DEF Init
  <1>2. RepliesTyped
    <2>1. 0 \in 0..MaxInstant /\ 0 \in 0..MaxReplyFaults
      BY OverlapsAssumption
    <2>2. filing \in [filed : BOOLEAN, posting : BOOLEAN, known : BOOLEAN]
      BY <1>1 DEF Replies!Init
    <2> QED
      BY <1>1, <2>1, <2>2 DEF Replies!Init, RepliesTyped
  <1>3. SentTyped
    BY <1>1, OverlapsAssumption DEF Replies!Init, SentTyped
  <1>4. WritingTyped
    <2>1. 0 \in 0..FilesPerReply /\ 0 \in 0..MaxSent
      BY OverlapsAssumption
    <2>2. Replies!Unwritten \in WrittenMessage
      BY <2>1 DEF WrittenMessage, Replies!Unwritten
    <2>3. Replies!NoReply \in StoredReply
      BY <2>1 DEF StoredReply, Replies!NoReply
    <2> QED
      BY <1>1, <2>2, <2>3 DEF Replies!Init, WritingTyped
  <1>5. WorkersTyped
    BY <1>1, RestingIs DEF Replies!Init, WorkersTyped
  <1>6. FilesTyped
    BY <1>1 DEF Replies!Init, FilesTyped
  <1>7. ASSUME NEW w \in Replies!Workers PROVE OwnFiles(w)
    <2>1. worker[w].at = "idle" /\ worker[w].kept = <<>>
      BY <1>1, RestingIs DEF Replies!Init
    <2> QED
      BY <2>1 DEF OwnFiles, Replies!Held
  <1>8. ASSUME NEW m \in Written PROVE RecordedByDone(m)
    BY <1>1 DEF Replies!Init, RecordedByDone, Replies!RecordedFiles
  <1>9. stored = {}
    BY <1>1 DEF Replies!Init
  <1> QED
    BY <1>2, <1>3, <1>4, <1>5, <1>6, <1>7, <1>8, <1>9 DEF RepliesInv, FilesInv

\* A message of the bot has one row, so there are no more rows than messages.
LEMMA RowsWithinSent ==
  ASSUME SentTyped
  PROVE  DOMAIN eventDMs \subseteq 1..MaxSent
  <1> DEFINE f == [i \in 1..Len(eventDMs) |-> eventDMs[i].id]
  <1>1. /\ Len(eventDMs) \in Nat /\ DOMAIN eventDMs = 1..Len(eventDMs)
        /\ Len(sent) \in Nat /\ Len(sent) <= MaxSent
    BY DEF SentTyped
  <1>2. ASSUME NEW i \in 1..Len(eventDMs) PROVE eventDMs[i].id \in 1..Len(sent)
    <2>1. eventDMs[i] \in SentRow /\ eventDMs[i].id <= Len(sent)
      BY <1>1 DEF SentTyped
    <2>2. eventDMs[i].id \in 1..MaxSent
      BY <2>1 DEF SentRow
    <2> QED
      BY <1>1, <2>1, <2>2, OverlapsAssumption
  <1>3. f \in Injection(1..Len(eventDMs), 1..Len(sent))
    <2>1. f \in [1..Len(eventDMs) -> 1..Len(sent)]
      BY <1>2
    <2>2. \A i, j \in 1..Len(eventDMs) : f[i] = f[j] => i = j
      BY <1>1 DEF SentTyped
    <2> QED
      BY <2>1, <2>2 DEF Injection, IsInjective
  <1>4. ASSUME NEW n \in Nat PROVE IsFiniteSet(1..n) /\ Cardinality(1..n) = n
    BY FS_Interval
  <1>5. Cardinality(1..Len(eventDMs)) <= Cardinality(1..Len(sent))
    BY <1>1, <1>3, <1>4, FS_Injection
  <1>6. Len(eventDMs) <= Len(sent)
    BY <1>1, <1>4, <1>5
  <1> QED
    BY <1>1, <1>6, OverlapsAssumption

\* No two workers' files are one file.
LEMMA FilesApart ==
  ASSUME FilesInv, NEW v \in Replies!Workers, NEW w \in Replies!Workers, v # w
  PROVE  Replies!Held(v) \cap Replies!Held(w) = {}
  <1> SUFFICES ASSUME NEW f \in Replies!Held(v), f \in Replies!Held(w) PROVE FALSE
    OBVIOUS
  <1>1. PICK p \in DOMAIN worker[v].kept : worker[v].kept[p] = f
    BY DEF Replies!Held
  <1>2. PICK q \in DOMAIN worker[w].kept : worker[w].kept[q] = f
    BY DEF Replies!Held
  <1>3. f \in Replies!File
    BY DEF Replies!Held
  <1>4. f # Replies!NoFile
    BY <1>3 DEF Replies!File, Replies!NoFile
  <1>5. f = <<worker[v].message, v, p>> /\ f = <<worker[w].message, w, q>>
    BY <1>1, <1>2, <1>4 DEF FilesInv, OwnFiles
  <1> QED
    BY <1>5

\* A recorded file is no file of a worker under way.
LEMMA RecordedApart ==
  ASSUME FilesInv, NEW w \in Replies!Workers, worker[w].at # "done", NEW m \in Written
  PROVE  Replies!RecordedFiles(m) \cap Replies!Held(w) = {}
  <1> SUFFICES ASSUME NEW f \in Replies!RecordedFiles(m), f \in Replies!Held(w) PROVE FALSE
    OBVIOUS
  <1>1. PICK p \in DOMAIN attachments[m] : attachments[m][p] = f
    BY DEF Replies!RecordedFiles
  <1>2. PICK q \in DOMAIN worker[w].kept : worker[w].kept[q] = f
    BY DEF Replies!Held
  <1>3. f \in Replies!File
    BY DEF Replies!Held
  <1>4. f # Replies!NoFile
    BY <1>3 DEF Replies!File, Replies!NoFile
  <1>5. f = <<worker[w].message, w, q>>
    BY <1>2, <1>4 DEF FilesInv, OwnFiles
  <1>6. PICK v \in Replies!Workers : worker[v].at = "done" /\ f = <<m, v, p>>
    BY <1>1, <1>4 DEF FilesInv, RecordedByDone
  <1> QED
    BY <1>5, <1>6

\* A worker with no file goes on with none.
LEMMA WorkerGoes ==
  ASSUME WorkersTyped, FilesTyped, FilesInv, NEW w \in Replies!Workers, NEW new \in Working,
         worker[w].kept = <<>>, worker[w].at # "done", new.kept = <<>>,
         new.at \in {"find", "record", "keep"} => new.message \in Written,
         worker' = [worker EXCEPT ![w] = new], UNCHANGED <<attachments, stored, left>>
  PROVE  WorkersTyped' /\ FilesTyped' /\ FilesInv'
  <1>1. WorkersTyped' /\ FilesTyped'
    BY DEF WorkersTyped, FilesTyped
  <1>2. worker'[w] = new /\ \A v \in Replies!Workers \ {w} : worker'[v] = worker[v]
    BY DEF WorkersTyped
  <1>3. ASSUME NEW v \in Replies!Workers PROVE Replies!Held(v)' = Replies!Held(v)
    BY <1>2 DEF Replies!Held
  <1>4. ASSUME NEW v \in Replies!Workers PROVE OwnFiles(v)'
    <2>1. CASE v = w
      <3>1. Replies!Held(w)' = {}
        BY <1>2 DEF Replies!Held
      <3> QED
        BY <1>2, <2>1, <3>1 DEF OwnFiles
    <2>2. CASE v # w
      <3>1. OwnFiles(v) /\ worker'[v] = worker[v] /\ Replies!Held(v)' = Replies!Held(v)
        BY <1>2, <1>3, <2>2 DEF FilesInv
      <3> QED
        BY <3>1 DEF OwnFiles
    <2> QED
      BY <2>1, <2>2
  <1>5. ASSUME NEW m \in Written PROVE RecordedByDone(m)'
    BY <1>2 DEF FilesInv, RecordedByDone, Replies!RecordedFiles
  <1>6. ASSUME NEW f \in stored' PROVE Known(f)'
    <2>1. \A m \in Written : Replies!RecordedFiles(m)' = Replies!RecordedFiles(m)
      BY DEF Replies!RecordedFiles
    <2>2. Known(f)
      BY DEF FilesInv
    <2> QED
      BY <1>3, <2>1, <2>2 DEF Known
  <1> QED
    BY <1>1, <1>4, <1>5, <1>6 DEF FilesInv

\* A file kept or noted is held, next after those held before.
LEMMA AFileKept ==
  ASSUME RepliesInv, NEW w \in Replies!Workers, Replies!KeepReplyAttachment(w)
  PROVE  RepliesInv'
  <1> DEFINE r == worker[w]
             m == r.message
             p == Len(r.kept) + 1
             f == <<m, w, p>>
  <1>1. /\ r.at = "keep" /\ m \in Written /\ r \in Working
        /\ worker \in [Replies!Workers -> Working]
        /\ p <= message[m].files
        /\ UNCHANGED <<instant, sent, eventDMs, message, reply, attachments, handedOff, filing,
                       replyFaults>>
    BY DEF Replies!KeepReplyAttachment, RepliesInv, WorkersTyped, FilesInv, OwnFiles
  <1>2. p \in Replies!Positions /\ f \in Replies!File /\ f # Replies!NoFile
    <2>1. r.kept \in Seq(KeptFile) /\ message[m].files \in 0..FilesPerReply
      BY <1>1 DEF Working, RepliesInv, WritingTyped, WrittenMessage
    <2>2. p \in Replies!Positions
      BY <1>1, <2>1, OverlapsAssumption DEF Replies!Positions
    <2> QED
      BY <1>1, <2>2 DEF Replies!File, Replies!NoFile
  <1>3. PICK x \in {f, Replies!NoFile} :
          /\ worker' = [worker EXCEPT ![w] = [r EXCEPT !.kept = Append(r.kept, x)]]
          /\ x = f => stored' = stored \cup {f} /\ left' = left \ {f}
          /\ x # f => UNCHANGED <<stored, left>>
    BY <1>2 DEF Replies!KeepReplyAttachment, Replies!Goes
  <1> DEFINE new == [r EXCEPT !.kept = Append(r.kept, x)]
  <1>4. /\ new \in Working /\ new.at = "keep" /\ new.message = m
        /\ new.kept = Append(r.kept, x) /\ new.kept # <<>>
        /\ DOMAIN new.kept = DOMAIN r.kept \cup {p}
        /\ \A q \in DOMAIN r.kept : new.kept[q] = r.kept[q]
        /\ new.kept[p] = x
    <2>1. r.kept \in Seq(KeptFile) /\ x \in KeptFile
      BY <1>1, <1>2, <1>3 DEF Working, KeptFile
    <2>2. /\ Append(r.kept, x) \in Seq(KeptFile) /\ Append(r.kept, x) # <<>>
          /\ DOMAIN Append(r.kept, x) = DOMAIN r.kept \cup {p}
          /\ \A q \in DOMAIN r.kept : Append(r.kept, x)[q] = r.kept[q]
          /\ Append(r.kept, x)[p] = x
      BY <2>1
    <2>3. new \in Working /\ new.at = "keep" /\ new.message = m /\ new.kept = Append(r.kept, x)
      BY <1>1, <2>2 DEF Working
    <2> QED
      BY <2>2, <2>3
  <1> HIDE DEF new
  <1>5. worker'[w] = new /\ \A v \in Replies!Workers \ {w} : worker'[v] = worker[v]
    BY <1>1, <1>3 DEF new
  <1>6. RepliesTyped' /\ SentTyped' /\ WritingTyped' /\ WorkersTyped'
    BY <1>1, <1>3, <1>4 DEF new, RepliesInv, RepliesTyped, SentTyped, WritingTyped, WorkersTyped
  <1>7. FilesTyped' /\ stored \subseteq stored'
    BY <1>1, <1>2, <1>3 DEF RepliesInv, FilesTyped
  <1>8. /\ Replies!Held(w)' = Replies!Held(w) \cup ({f} \ {g \in {f} : x # f})
        /\ \A v \in Replies!Workers \ {w} : Replies!Held(v)' = Replies!Held(v)
    <2>1. Replies!Held(w)' = {g \in Replies!File : \E q \in DOMAIN new.kept : new.kept[q] = g}
      BY <1>5 DEF Replies!Held
    <2>2. Replies!NoFile \notin Replies!File
      BY DEF Replies!NoFile, Replies!File
    <2>3. Replies!Held(w) = {g \in Replies!File : \E q \in DOMAIN r.kept : r.kept[q] = g}
      BY DEF Replies!Held
    <2>4. f \in Replies!File /\ (x = f \/ x = Replies!NoFile)
      BY <1>2, <1>3
    <2>5. \A g \in Replies!File :
            (\E q \in DOMAIN new.kept : new.kept[q] = g)
              <=> (\E q \in DOMAIN r.kept : r.kept[q] = g) \/ x = g
      BY ONLY <1>4
    <2>6. Replies!Held(w)' = Replies!Held(w) \cup ({f} \ {g \in {f} : x # f})
      BY ONLY <2>1, <2>2, <2>3, <2>4, <2>5
    <2>7. \A v \in Replies!Workers \ {w} : Replies!Held(v)' = Replies!Held(v)
      BY ONLY <1>5 DEF Replies!Held
    <2> QED
      BY ONLY <2>6, <2>7
  <1>9. ASSUME NEW v \in Replies!Workers PROVE OwnFiles(v)'
    <2>1. OwnFiles(v)
      BY DEF RepliesInv, FilesInv
    <2>2. CASE v = w
      <3>1. Replies!Held(w)' \subseteq stored'
        BY <1>3, <1>7, <1>8, <2>1, <2>2 DEF OwnFiles
      <3>2. ASSUME NEW q \in DOMAIN new.kept
            PROVE  /\ q \in Replies!Positions
                   /\ new.kept[q] \in {Replies!NoFile, <<new.message, w, q>>}
        BY <1>2, <1>3, <1>4, <2>1, <2>2, <3>2 DEF OwnFiles
      <3> QED
        BY <1>1, <1>4, <1>5, <2>2, <3>1, <3>2 DEF OwnFiles
    <2>3. CASE v # w
      BY <1>5, <1>7, <1>8, <2>1, <2>3 DEF OwnFiles
    <2> QED
      BY <2>2, <2>3
  <1>10. ASSUME NEW k \in Written PROVE RecordedByDone(k)'
    <2>1. RecordedByDone(k)
      BY DEF RepliesInv, FilesInv
    <2>2. \A v \in Replies!Workers : worker[v].at = "done" => worker'[v] = worker[v]
      BY <1>1, <1>5
    <2> QED
      BY <1>1, <1>7, <2>1, <2>2 DEF RecordedByDone, Replies!RecordedFiles
  <1>11. ASSUME NEW g \in stored' PROVE Known(g)'
    <2>1. CASE x = f /\ g = f
      <3>1. f \in Replies!Held(w)'
        BY <1>2, <1>8, <2>1
      <3> QED
        BY <2>1, <3>1 DEF Known
    <2>2. CASE ~(x = f /\ g = f)
      <3>1. Known(g)
        BY <1>3, <2>2 DEF RepliesInv, FilesInv
      <3>2. g \in left => g \in left'
        BY <1>3, <2>2
      <3>3. \A v \in Replies!Workers : Replies!Held(v) \subseteq Replies!Held(v)'
        BY <1>8
      <3>4. \A k \in Written : Replies!RecordedFiles(k)' = Replies!RecordedFiles(k)
        BY <1>1 DEF Replies!RecordedFiles
      <3> QED
        BY <3>1, <3>2, <3>3, <3>4 DEF Known
    <2> QED
      BY <2>1, <2>2
  <1> QED
    BY <1>6, <1>7, <1>9, <1>10, <1>11 DEF RepliesInv, FilesInv

\* The rows of a reply are recorded once, by a worker that is done then; the
\* others' are refused, and their files go to be purged.
LEMMA RowsRecorded ==
  ASSUME RepliesInv, NEW w \in Replies!Workers, Replies!RecordReplyAttachments(w)
  PROVE  RepliesInv'
  <1> DEFINE r == worker[w]
  <1>0. PICK m \in Written : m = r.message
    BY DEF Replies!RecordReplyAttachments
  <1>1. /\ r.at = "keep" /\ m \in Written /\ r \in Working
        /\ worker \in [Replies!Workers -> Working]
        /\ UNCHANGED <<instant, sent, eventDMs, message, reply, handedOff, stored, left, filing>>
        /\ replyFaults' \in 0..MaxReplyFaults
    <2>1. replyFaults' = replyFaults
            \/ (replyFaults < MaxReplyFaults /\ replyFaults' = replyFaults + 1)
      BY DEF Replies!RecordReplyAttachments, Replies!Works, Replies!Fails
    <2>2. replyFaults' \in 0..MaxReplyFaults
      BY <2>1, OverlapsAssumption DEF RepliesInv, RepliesTyped
    <2> QED
      BY <2>2 DEF Replies!RecordReplyAttachments, RepliesInv, WorkersTyped
  <1>2. RepliesTyped' /\ SentTyped' /\ WritingTyped'
    BY <1>1 DEF RepliesInv, RepliesTyped, SentTyped, WritingTyped
  <1>3. CASE /\ attachments[m] = <<>> /\ attachments' = [attachments EXCEPT ![m] = r.kept]
             /\ worker' = [worker EXCEPT ![w] = Replies!Done]
    <2>1. /\ worker'[w] = Replies!Done /\ worker'[w].at = "done" /\ worker'[w].kept = <<>>
          /\ \A v \in Replies!Workers \ {w} : worker'[v] = worker[v]
      BY <1>1, <1>3, RestingIs
    <2>2. attachments'[m] = r.kept /\ \A k \in Written \ {m} : attachments'[k] = attachments[k]
      BY <1>1, <1>3 DEF RepliesInv, FilesTyped
    <2>3. WorkersTyped' /\ FilesTyped'
      BY <1>1, <1>3, RestingIs DEF RepliesInv, WorkersTyped, FilesTyped, Working
    <2>4. /\ Replies!Held(w)' = {} /\ Replies!RecordedFiles(m)' = Replies!Held(w)
          /\ \A v \in Replies!Workers \ {w} : Replies!Held(v)' = Replies!Held(v)
          /\ \A k \in Written \ {m} : Replies!RecordedFiles(k)' = Replies!RecordedFiles(k)
          /\ Replies!RecordedFiles(m) = {}
      <3>1. Replies!Held(w)' = {}
        BY <2>1 DEF Replies!Held
      <3>2. Replies!RecordedFiles(m)' = Replies!Held(w)
        BY <2>2 DEF Replies!Held, Replies!RecordedFiles
      <3>3. Replies!RecordedFiles(m) = {}
        BY <1>3 DEF Replies!RecordedFiles
      <3>4. \A v \in Replies!Workers \ {w} : Replies!Held(v)' = Replies!Held(v)
        BY <2>1 DEF Replies!Held
      <3>5. \A k \in Written \ {m} : Replies!RecordedFiles(k)' = Replies!RecordedFiles(k)
        BY <2>2 DEF Replies!RecordedFiles
      <3> QED
        BY <3>1, <3>2, <3>3, <3>4, <3>5
    <2>5. ASSUME NEW v \in Replies!Workers PROVE OwnFiles(v)'
      <3>1. CASE v = w
        BY <2>1, <2>4, <3>1 DEF OwnFiles
      <3>2. CASE v # w
        BY <1>1, <2>1, <2>4, <3>2 DEF RepliesInv, FilesInv, OwnFiles
      <3> QED
        BY <3>1, <3>2
    <2>6. ASSUME NEW k \in Written PROVE RecordedByDone(k)'
      <3>1. CASE k = m
        <4>1. Replies!RecordedFiles(m)' \subseteq stored'
          BY <1>1, <2>4 DEF RepliesInv, FilesInv, OwnFiles
        <4>2. ASSUME NEW p \in DOMAIN r.kept
              PROVE  \/ r.kept[p] = Replies!NoFile
                     \/ r.kept[p] = <<m, w, p>>
          BY <1>0, <4>2 DEF RepliesInv, FilesInv, OwnFiles
        <4>3. \A p \in DOMAIN attachments'[m] :
                \/ attachments'[m][p] = Replies!NoFile
                \/ \E v \in Replies!Workers : /\ worker'[v].at = "done"
                                              /\ attachments'[m][p] = <<m, v, p>>
          BY <2>1, <2>2, <4>2
        <4> QED
          BY <1>1, <3>1, <4>1, <4>3 DEF RecordedByDone
      <3>2. CASE k # m
        <4>1. RecordedByDone(k) /\ attachments'[k] = attachments[k]
          BY <2>2, <3>2 DEF RepliesInv, FilesInv
        <4>2. \A v \in Replies!Workers : worker[v].at = "done" => worker'[v] = worker[v]
          BY <1>1, <2>1
        <4> QED
          BY <1>1, <2>4, <3>2, <4>1, <4>2 DEF RecordedByDone
      <3> QED
        BY <3>1, <3>2
    <2>7. ASSUME NEW g \in stored' PROVE Known(g)'
      <3>1. Known(g)
        BY <1>1 DEF RepliesInv, FilesInv
      <3>2. g \in Replies!Held(w) => g \in Replies!RecordedFiles(m)'
        BY <2>4
      <3> QED
        BY <1>1, <2>4, <3>1, <3>2 DEF Known
    <2> QED
      BY <1>2, <2>3, <2>5, <2>6, <2>7 DEF RepliesInv, FilesInv
  <1>4. CASE /\ attachments' = attachments
             /\ worker' = [worker EXCEPT ![w] = [r EXCEPT !.at = "purge"]]
    <2> DEFINE new == [r EXCEPT !.at = "purge"]
    <2>1. new \in Working /\ new.at = "purge" /\ new.kept = r.kept /\ new.message = m
      BY <1>0, <1>1 DEF Working
    <2>2. worker'[w] = new /\ \A v \in Replies!Workers \ {w} : worker'[v] = worker[v]
      BY <1>1, <1>4
    <2>3. WorkersTyped' /\ FilesTyped'
      BY <1>1, <1>4, <2>1 DEF RepliesInv, WorkersTyped, FilesTyped
    <2> HIDE DEF new
    <2>4. /\ \A v \in Replies!Workers : Replies!Held(v)' = Replies!Held(v)
          /\ \A k \in Written : Replies!RecordedFiles(k)' = Replies!RecordedFiles(k)
      BY <1>4, <2>1, <2>2 DEF Replies!Held, Replies!RecordedFiles
    <2>5. ASSUME NEW v \in Replies!Workers PROVE OwnFiles(v)'
      <3>0. OwnFiles(v) /\ stored' = stored
        BY <1>1 DEF RepliesInv, FilesInv
      <3>1. CASE v = w
        <4>1. /\ worker'[w].at = "purge" /\ worker'[w].message = worker[w].message
              /\ worker'[w].kept = worker[w].kept
          BY <1>0, <2>1, <2>2
        <4> QED
          BY <2>4, <3>0, <3>1, <4>1 DEF OwnFiles
      <3>2. CASE v # w
        BY <2>2, <2>4, <3>0, <3>2 DEF OwnFiles
      <3> QED
        BY <3>1, <3>2
    <2>6. ASSUME NEW k \in Written PROVE RecordedByDone(k)'
      <3>1. RecordedByDone(k)
        BY DEF RepliesInv, FilesInv
      <3>2. \A v \in Replies!Workers : worker[v].at = "done" => worker'[v] = worker[v]
        BY <1>1, <2>2
      <3> QED
        BY <1>1, <1>4, <2>4, <3>1, <3>2 DEF RecordedByDone
    <2>7. ASSUME NEW g \in stored' PROVE Known(g)'
      <3>1. Known(g)
        BY <1>1 DEF RepliesInv, FilesInv
      <3> QED
        BY <1>1, <2>4, <3>1 DEF Known
    <2> QED
      BY <1>2, <2>3, <2>5, <2>6, <2>7 DEF RepliesInv, FilesInv
  <1> QED
    BY <1>0, <1>3, <1>4
       DEF Replies!RecordReplyAttachments, Replies!Goes, Replies!AfterRefusal

\* The files of a worker that lost are purged, or left where the purge failed.
LEMMA FilesPurged ==
  ASSUME RepliesInv, NEW w \in Replies!Workers, Replies!PurgePhotos(w)
  PROVE  RepliesInv'
  <1>1. PICK gone \in SUBSET Replies!Held(w) :
          /\ stored' = stored \ gone
          /\ left \subseteq left' /\ Replies!Held(w) \ gone \subseteq left'
          /\ left' \subseteq left \cup Replies!Held(w)
    BY DEF Replies!PurgePhotos
  <1>2. /\ worker[w].at = "purge" /\ worker' = [worker EXCEPT ![w] = Replies!Done]
        /\ UNCHANGED <<instant, sent, eventDMs, message, reply, attachments, handedOff, filing>>
    BY DEF Replies!PurgePhotos, Replies!Goes
  <1>3. replyFaults' \in 0..MaxReplyFaults
    <2>1. replyFaults' = replyFaults
            \/ (replyFaults < MaxReplyFaults /\ replyFaults' = replyFaults + 1)
      BY DEF Replies!PurgePhotos, Replies!Works, Replies!Fails
    <2> QED
      BY <2>1, OverlapsAssumption DEF RepliesInv, RepliesTyped
  <1>4. /\ worker'[w].at = "done" /\ worker'[w].kept = <<>>
        /\ \A v \in Replies!Workers \ {w} : worker'[v] = worker[v]
    BY <1>2, RestingIs DEF RepliesInv, WorkersTyped
  <1>5. RepliesTyped' /\ SentTyped' /\ WritingTyped'
    BY <1>2, <1>3 DEF RepliesInv, RepliesTyped, SentTyped, WritingTyped
  <1>6. WorkersTyped'
    BY <1>2, RestingIs DEF RepliesInv, WorkersTyped
  <1>7. FilesTyped'
    BY <1>1, <1>2 DEF RepliesInv, FilesTyped, Replies!Held
  <1>8. /\ Replies!Held(w)' = {}
        /\ \A v \in Replies!Workers \ {w} : Replies!Held(v)' = Replies!Held(v)
        /\ \A k \in Written : Replies!RecordedFiles(k)' = Replies!RecordedFiles(k)
    BY <1>2, <1>4 DEF Replies!Held, Replies!RecordedFiles
  <1>9. ASSUME NEW v \in Replies!Workers PROVE OwnFiles(v)'
    <2>1. CASE v = w
      BY <1>4, <1>8, <2>1 DEF OwnFiles
    <2>2. CASE v # w
      <3>1. OwnFiles(v) /\ Replies!Held(v) \cap Replies!Held(w) = {}
        BY <2>2, FilesApart DEF RepliesInv, FilesInv
      <3>2. Replies!Held(v)' \subseteq stored'
        BY <1>1, <1>8, <2>2, <3>1 DEF OwnFiles
      <3> QED
        BY <1>4, <2>2, <3>1, <3>2 DEF OwnFiles
    <2> QED
      BY <2>1, <2>2
  <1>10. ASSUME NEW k \in Written PROVE RecordedByDone(k)'
    <2>1. RecordedByDone(k) /\ Replies!RecordedFiles(k) \cap Replies!Held(w) = {}
      BY <1>2, RecordedApart DEF RepliesInv, FilesInv
    <2>2. \A v \in Replies!Workers : worker[v].at = "done" => worker'[v] = worker[v]
      BY <1>2, <1>4
    <2>3. Replies!RecordedFiles(k)' \subseteq stored'
      BY <1>1, <1>8, <2>1 DEF RecordedByDone
    <2> QED
      BY <1>2, <2>1, <2>2, <2>3 DEF RecordedByDone
  <1>11. ASSUME NEW g \in stored' PROVE Known(g)'
    <2>1. Known(g) /\ g \notin gone
      BY <1>1 DEF RepliesInv, FilesInv
    <2>2. g \in Replies!Held(w) => g \in left'
      BY <1>1, <2>1
    <2> QED
      BY <1>1, <1>8, <2>1, <2>2 DEF Known
  <1> QED
    BY <1>5, <1>6, <1>7, <1>9, <1>10, <1>11 DEF RepliesInv, FilesInv

\* A restart leaves what workers held.
LEMMA RestartLeavesFiles ==
  ASSUME RepliesInv, Replies!Restart
  PROVE  RepliesInv'
  <1>1. /\ UNCHANGED <<instant, sent, eventDMs, message, reply, attachments, handedOff, stored>>
        /\ replyFaults < MaxReplyFaults /\ replyFaults' = replyFaults + 1
        /\ filing' = [filing EXCEPT !.filed = FALSE, !.posting = FALSE]
        /\ left' = left \cup UNION {Replies!Held(w) : w \in Replies!Workers}
    BY DEF Replies!Restart, Replies!Fails
  <1>2. worker' = [w \in Replies!Workers |-> IF worker[w] = Replies!Resting THEN Replies!Resting
                                            ELSE Replies!Done]
    BY DEF Replies!Restart
  <1>3. ASSUME NEW w \in Replies!Workers
        PROVE  /\ worker'[w] \in Working /\ worker'[w].at \in {"idle", "done"}
               /\ worker'[w].kept = <<>> /\ (worker[w].at = "done" => worker'[w].at = "done")
    BY <1>2, RestingIs
  <1>4. RepliesTyped'
    <2>1. replyFaults' \in 0..MaxReplyFaults
      BY <1>1, OverlapsAssumption DEF RepliesInv, RepliesTyped
    <2>2. filing' \in [filed : BOOLEAN, posting : BOOLEAN, known : BOOLEAN]
      BY <1>1 DEF RepliesInv, RepliesTyped
    <2> QED
      BY <1>1, <2>1, <2>2 DEF RepliesInv, RepliesTyped
  <1>5. SentTyped' /\ WritingTyped' /\ WorkersTyped'
    BY <1>1, <1>2, <1>3 DEF RepliesInv, SentTyped, WritingTyped, WorkersTyped
  <1>6. FilesTyped'
    BY <1>1 DEF RepliesInv, FilesTyped, Replies!Held
  <1>7. /\ \A w \in Replies!Workers : Replies!Held(w)' = {}
        /\ \A k \in Written : Replies!RecordedFiles(k)' = Replies!RecordedFiles(k)
    BY <1>1, <1>3 DEF Replies!Held, Replies!RecordedFiles
  <1>8. ASSUME NEW w \in Replies!Workers PROVE OwnFiles(w)'
    BY <1>3, <1>7 DEF OwnFiles
  <1>9. ASSUME NEW k \in Written PROVE RecordedByDone(k)'
    BY <1>1, <1>3, <1>7 DEF RepliesInv, FilesInv, RecordedByDone
  <1>10. ASSUME NEW g \in stored' PROVE Known(g)'
    <2>1. Known(g)
      BY <1>1 DEF RepliesInv, FilesInv
    <2>2. g \in left => g \in left'
      BY <1>1
    <2>3. ASSUME NEW w \in Replies!Workers, g \in Replies!Held(w) PROVE g \in left'
      BY <1>1, <2>3
    <2> QED
      BY <1>7, <2>1, <2>2, <2>3 DEF Known
  <1> QED
    BY <1>4, <1>5, <1>6, <1>8, <1>9, <1>10 DEF RepliesInv, FilesInv

\* Steps that touch no worker and no file.
LEMMA FilesUntouched ==
  ASSUME RepliesInv, UNCHANGED <<attachments, worker, stored, left>>
  PROVE  WorkersTyped' /\ FilesTyped' /\ FilesInv'
  <1>1. /\ \A v \in Replies!Workers : Replies!Held(v)' = Replies!Held(v)
        /\ \A k \in Written : Replies!RecordedFiles(k)' = Replies!RecordedFiles(k)
    BY DEF Replies!Held, Replies!RecordedFiles
  <1>2. ASSUME NEW g \in stored' PROVE Known(g)'
    BY <1>1 DEF RepliesInv, FilesInv, Known
  <1>3. ASSUME NEW w \in Replies!Workers PROVE OwnFiles(w)'
    BY <1>1 DEF RepliesInv, FilesInv, OwnFiles
  <1>4. ASSUME NEW m \in Written PROVE RecordedByDone(m)'
    BY <1>1 DEF RepliesInv, FilesInv, RecordedByDone
  <1> QED
    BY <1>2, <1>3, <1>4 DEF RepliesInv, FilesInv, WorkersTyped, FilesTyped

\* Each step of replies keeps their invariant.
LEMMA RepliesStep ==
  ASSUME RepliesInv, Replies!Next \/ UNCHANGED repliesVars
  PROVE  RepliesInv'
  <1>1. CASE \/ Replies!Tick \/ Replies!EnableMessageStore \/ Replies!FileConversations
             \/ Replies!CreateDMHandoff \/ Replies!EndDMHandoff \/ UNCHANGED repliesVars
    <2>1. /\ UNCHANGED <<sent, eventDMs, message, reply, attachments, worker, stored, left>>
          /\ instant' = instant \/ (instant < MaxInstant /\ instant' = instant + 1)
          /\ \/ replyFaults' = replyFaults
             \/ replyFaults < MaxReplyFaults /\ replyFaults' = replyFaults + 1
      BY <1>1
         DEF Replies!Tick, Replies!EnableMessageStore, Replies!FileConversations,
             Replies!CreateDMHandoff, Replies!EndDMHandoff, repliesVars, Replies!Works,
             Replies!Fails
    <2>2. /\ handedOff' \in BOOLEAN
          /\ filing' \in [filed : BOOLEAN, posting : BOOLEAN, known : BOOLEAN]
      BY <1>1
         DEF Replies!Tick, Replies!EnableMessageStore, Replies!FileConversations,
             Replies!CreateDMHandoff, Replies!EndDMHandoff, Replies!Filed, repliesVars,
             RepliesInv, RepliesTyped
    <2>3. instant' \in 0..MaxInstant /\ replyFaults' \in 0..MaxReplyFaults
      BY <2>1, OverlapsAssumption DEF RepliesInv, RepliesTyped
    <2> QED
      BY <2>1, <2>2, <2>3, FilesUntouched DEF RepliesInv, RepliesTyped, SentTyped, WritingTyped
  <1>2. ASSUME NEW e \in About, Replies!SendEventDM(e)
        PROVE  RepliesInv'
    <2>1. /\ UNCHANGED <<instant, eventDMs, message, reply, attachments, worker, handedOff,
                         stored, left, replyFaults>>
          /\ Len(sent) < MaxSent /\ sent' = Append(sent, e)
      BY <1>2 DEF Replies!SendEventDM
    <2>2. filing' \in [filed : BOOLEAN, posting : BOOLEAN, known : BOOLEAN]
      BY <1>2 DEF Replies!SendEventDM, Replies!Filed, RepliesInv, RepliesTyped
    <2>3. SentTyped'
      <3>1. /\ sent' \in Seq(About) /\ Len(sent') = Len(sent) + 1 /\ Len(sent) \in Nat
        BY <2>1 DEF RepliesInv, SentTyped
      <3>2. ASSUME NEW i \in DOMAIN eventDMs PROVE eventDMs[i].id <= Len(sent')
        <4>1. eventDMs[i].id \in Nat /\ eventDMs[i].id <= Len(sent)
          <5>1. eventDMs[i] \in SentRow
            BY DEF RepliesInv, SentTyped
          <5> QED
            BY <5>1, OverlapsAssumption DEF RepliesInv, SentTyped, SentRow
        <4> QED
          BY <3>1, <4>1
      <3>3. Len(sent') <= MaxSent
        BY <2>1, <3>1, OverlapsAssumption
      <3> QED
        BY <2>1, <3>1, <3>2, <3>3 DEF RepliesInv, SentTyped
    <2> QED
      BY <2>1, <2>2, <2>3, FilesUntouched DEF RepliesInv, RepliesTyped, WritingTyped
  <1>3. ASSUME NEW i \in 1..Len(sent), Replies!RecordEventDM(i)
        PROVE  RepliesInv'
    <2> DEFINE new == [id |-> i, event |-> sent[i], at |-> instant]
    <2>1. /\ UNCHANGED <<instant, sent, message, reply, attachments, worker, handedOff, stored,
                         left, filing, replyFaults>>
          /\ eventDMs' = Append(eventDMs, new)
          /\ \A sentRow \in DOMAIN eventDMs : eventDMs[sentRow].id # i
      BY <1>3 DEF Replies!RecordEventDM, Replies!Recorded
    <2>2. new \in SentRow /\ new.id = i
      <3>1. i \in 1..MaxSent /\ sent[i] \in About /\ instant \in 0..MaxInstant
        BY <1>3, OverlapsAssumption DEF RepliesInv, SentTyped, RepliesTyped
      <3> QED
        BY <3>1 DEF SentRow
    <2> HIDE DEF new
    <2>3. SentTyped'
      <3>1. /\ eventDMs' \in Seq(SentRow)
            /\ DOMAIN eventDMs' = DOMAIN eventDMs \cup {Len(eventDMs) + 1}
            /\ Len(eventDMs) + 1 \notin DOMAIN eventDMs
            /\ \A j \in DOMAIN eventDMs : eventDMs'[j] = eventDMs[j]
            /\ eventDMs'[Len(eventDMs) + 1] = new
        BY <2>1, <2>2 DEF RepliesInv, SentTyped
      <3>2. \A j \in DOMAIN eventDMs' : eventDMs'[j].id <= Len(sent)
        BY <2>2, <3>1 DEF RepliesInv, SentTyped
      <3>3. ASSUME NEW j \in DOMAIN eventDMs', NEW k \in DOMAIN eventDMs',
                   eventDMs'[j].id = eventDMs'[k].id
            PROVE  j = k
        BY <2>1, <2>2, <3>1, <3>3 DEF RepliesInv, SentTyped
      <3> QED
        BY <2>1, <3>1, <3>2, <3>3 DEF RepliesInv, SentTyped
    <2> QED
      BY <2>1, <2>3, FilesUntouched DEF RepliesInv, RepliesTyped, WritingTyped
  <1>4. ASSUME NEW m \in Written, NEW n \in 0..FilesPerReply, NEW i \in 0..MaxSent,
               Replies!Write(m, n, i)
        PROVE  RepliesInv'
    <2>1. /\ UNCHANGED <<instant, sent, eventDMs, reply, attachments, worker, handedOff, stored,
                         left, filing, replyFaults>>
          /\ message' = [message EXCEPT ![m] = [written |-> TRUE, files |-> n, repliedTo |-> i]]
      BY <1>4 DEF Replies!Write
    <2>2. WritingTyped'
      <3>1. [written |-> TRUE, files |-> n, repliedTo |-> i] \in WrittenMessage
        BY <1>4 DEF WrittenMessage
      <3> QED
        BY <2>1, <3>1 DEF RepliesInv, WritingTyped
    <2> QED
      BY <2>1, <2>2, FilesUntouched DEF RepliesInv, RepliesTyped, SentTyped
  <1>5. ASSUME NEW d \in Calls, NEW m \in Written, Replies!ReceiveDMReply(d, m)
        PROVE  RepliesInv'
    <2> DEFINE new == [Replies!Resting EXCEPT !.at = "find", !.message = m]
    <2>1. /\ UNCHANGED <<instant, sent, eventDMs, message, reply, attachments, handedOff, stored,
                         left, replyFaults>>
          /\ worker[d] = Replies!Resting /\ worker' = [worker EXCEPT ![d] = new]
          /\ d \in Replies!Workers
      BY <1>5 DEF Replies!ReceiveDMReply, Replies!Goes, Replies!Workers
    <2>2. filing' \in [filed : BOOLEAN, posting : BOOLEAN, known : BOOLEAN]
      BY <1>5 DEF Replies!ReceiveDMReply, Replies!Filed, RepliesInv, RepliesTyped
    <2>3. new \in Working /\ new.at = "find" /\ new.message = m /\ new.kept = <<>>
      BY <1>5, RestingIs DEF Working
    <2>4. worker[d].kept = <<>> /\ worker[d].at # "done"
      BY <2>1, RestingIs
    <2> HIDE DEF new
    <2>5. WorkersTyped' /\ FilesTyped' /\ FilesInv'
      BY <1>5, <2>1, <2>3, <2>4, WorkerGoes DEF RepliesInv
    <2> QED
      BY <2>1, <2>2, <2>5 DEF RepliesInv, RepliesTyped, SentTyped, WritingTyped
  <1>6. ASSUME NEW w \in Replies!Workers, NEW m \in Written,
               Replies!HandleKeepReplyAttachments(w, m)
        PROVE  RepliesInv'
    <2> DEFINE new == [Replies!Resting EXCEPT !.at = "keep", !.message = m]
    <2>1. /\ UNCHANGED <<instant, sent, eventDMs, message, reply, attachments, handedOff, stored,
                         left, filing, replyFaults>>
          /\ worker[w] = Replies!Resting /\ worker' = [worker EXCEPT ![w] = new]
      BY <1>6 DEF Replies!HandleKeepReplyAttachments, Replies!Goes
    <2>2. new \in Working /\ new.message = m /\ new.kept = <<>>
      BY <1>6, RestingIs DEF Working
    <2>3. worker[w].kept = <<>> /\ worker[w].at # "done"
      BY <2>1, RestingIs
    <2> HIDE DEF new
    <2>4. WorkersTyped' /\ FilesTyped' /\ FilesInv'
      BY <1>6, <2>1, <2>2, <2>3, WorkerGoes DEF RepliesInv
    <2> QED
      BY <2>1, <2>4 DEF RepliesInv, RepliesTyped, SentTyped, WritingTyped
  <1>7. ASSUME NEW d \in Calls, Replies!FindEvent(d)
        PROVE  RepliesInv'
    <2>1. /\ UNCHANGED <<instant, sent, eventDMs, message, reply, attachments, handedOff, stored,
                         left, filing, replyFaults>>
          /\ worker[d].at = "find" /\ d \in Replies!Workers
      BY <1>7 DEF Replies!FindEvent, Replies!Workers
    <2>2. /\ worker[d] \in Working /\ worker[d].message \in Written /\ worker[d].kept = <<>>
      BY <2>1 DEF RepliesInv, WorkersTyped, FilesInv, OwnFiles
    <2>3. PICK new \in Working : /\ worker' = [worker EXCEPT ![d] = new] /\ new.kept = <<>>
                                 /\ new.at = "record" => new.message \in Written
                                 /\ new.at \in {"record", "done"}
      <3>1. ASSUME NEW found \in Replies!EventForDMReply(worker[d].message)
            PROVE  found.event \in About /\ found.matched \in {"", "reply", "latest"}
        <4>1. PICK i \in DOMAIN eventDMs : /\ found.event = eventDMs[i].event
                                           /\ found.matched \in {"reply", "latest"}
          BY <3>1 DEF Replies!EventForDMReply
        <4>2. eventDMs[i] \in SentRow
          BY DEF RepliesInv, SentTyped
        <4> QED
          BY <4>1, <4>2 DEF SentRow
      <3>2. ASSUME NEW found \in Replies!EventForDMReply(worker[d].message)
            PROVE  [worker[d] EXCEPT !.at = "record", !.found.event = found.event,
                                     !.found.matched = found.matched] \in Working
        <4>1. worker[d].found \in StoredReply
          BY <2>2 DEF Working
        <4>2. [worker[d].found EXCEPT !.event = found.event, !.matched = found.matched]
                \in StoredReply
          BY <3>1, <3>2, <4>1 DEF StoredReply
        <4> QED
          BY <2>2, <4>2 DEF Working
      <3>3. CASE \E found \in Replies!EventForDMReply(worker[d].message) :
                   Replies!Goes(d, [worker[d] EXCEPT !.at = "record", !.found.event = found.event,
                                                     !.found.matched = found.matched])
        <4>1. PICK found \in Replies!EventForDMReply(worker[d].message) :
                worker' = [worker EXCEPT ![d] =
                             [worker[d] EXCEPT !.at = "record", !.found.event = found.event,
                                               !.found.matched = found.matched]]
          BY <3>3 DEF Replies!Goes
        <4> DEFINE new == [worker[d] EXCEPT !.at = "record", !.found.event = found.event,
                                            !.found.matched = found.matched]
        <4>2. new \in Working
          BY <3>2
        <4>3. new.at = "record" /\ new.kept = worker[d].kept /\ new.message = worker[d].message
          BY <2>2 DEF Working
        <4> HIDE DEF new
        <4>4. worker' = [worker EXCEPT ![d] = new]
          BY <4>1 DEF new
        <4> QED
          BY <2>2, <4>2, <4>3, <4>4
      <3>4. CASE Replies!Goes(d, Replies!Done)
        BY <3>4, RestingIs DEF Replies!Goes
      <3> QED
        BY <1>7, <3>3, <3>4 DEF Replies!FindEvent
    <2>4. WorkersTyped' /\ FilesTyped' /\ FilesInv'
      BY <2>1, <2>2, <2>3, WorkerGoes DEF RepliesInv
    <2> QED
      BY <2>1, <2>4 DEF RepliesInv, RepliesTyped, SentTyped, WritingTyped
  <1>8. ASSUME NEW d \in Calls, Replies!RecordDMReply(d)
        PROVE  RepliesInv'
    <2> DEFINE m == worker[d].message
    <2>1. /\ UNCHANGED <<instant, sent, eventDMs, message, attachments, handedOff, stored, left,
                         filing, replyFaults>>
          /\ worker[d].at = "record" /\ d \in Replies!Workers
          /\ \/ reply' = reply
             \/ reply' = [reply EXCEPT ![m] = [worker[d].found EXCEPT !.files = message[m].files]]
      BY <1>8 DEF Replies!RecordDMReply, Replies!Workers
    <2>2. worker[d] \in Working /\ m \in Written /\ worker[d].kept = <<>>
      BY <2>1 DEF RepliesInv, WorkersTyped, FilesInv, OwnFiles
    <2>3. WritingTyped'
      <3>1. worker[d].found \in StoredReply /\ message[m].files \in 0..FilesPerReply
        BY <2>2 DEF Working, RepliesInv, WritingTyped, WrittenMessage
      <3>2. [worker[d].found EXCEPT !.files = message[m].files] \in StoredReply
        BY <3>1 DEF StoredReply
      <3> QED
        BY <2>1, <2>2, <3>2 DEF RepliesInv, WritingTyped
    <2>4. PICK new \in Working : /\ worker' = [worker EXCEPT ![d] = new] /\ new.kept = <<>>
                                 /\ new.at = "keep" => new.message \in Written
                                 /\ new.at \in {"keep", "done"}
      <3>1. /\ [Replies!Resting EXCEPT !.at = "keep", !.message = m] \in Working
            /\ [Replies!Resting EXCEPT !.at = "keep", !.message = m].kept = <<>>
            /\ [Replies!Resting EXCEPT !.at = "keep", !.message = m].message = m
            /\ [Replies!Resting EXCEPT !.at = "keep", !.message = m].at = "keep"
        BY <2>2, RestingIs DEF Working
      <3>2. \/ Replies!Goes(d, Replies!Done)
            \/ Replies!Goes(d, [Replies!Resting EXCEPT !.at = "keep", !.message = m])
        BY <1>8 DEF Replies!RecordDMReply
      <3> QED
        BY <2>2, <3>1, <3>2, RestingIs DEF Replies!Goes
    <2>5. WorkersTyped' /\ FilesTyped' /\ FilesInv'
      BY <2>1, <2>2, <2>4, WorkerGoes DEF RepliesInv
    <2> QED
      BY <2>1, <2>3, <2>5 DEF RepliesInv, RepliesTyped, SentTyped
  <1>9. ASSUME NEW w \in Replies!Workers,
               \/ Replies!KeepReplyAttachment(w) \/ Replies!RecordReplyAttachments(w)
               \/ Replies!PurgePhotos(w)
        PROVE  RepliesInv'
    BY <1>9, AFileKept, RowsRecorded, FilesPurged
  <1> QED
    BY <1>1, <1>2, <1>3, <1>4, <1>5, <1>6, <1>7, <1>8, <1>9, RestartLeavesFiles
       DEF Replies!Next, Replies!Workers

\* The invariant of replies holds throughout a behaviour about them.
LEMMA RepliesInvariant == Spec => [](part = "replies" => RepliesInv)
  <1>1. Init => (part = "replies" => RepliesInv)
    BY RepliesInit
  <1>2. (part = "replies" => RepliesInv) /\ [Next]_vars => (part = "replies" => RepliesInv)'
    BY RepliesStep, StepOfAPart
  <1> QED
    BY <1>1, <1>2, PTL DEF Spec

\* Whichever deliveries and retries of a message overlap, fail and are cut
\* short by a restart, an image in file-store is recorded, held by a worker or
\* reported as left, and no recorded image is purged.
THEOREM ImagesStayAccountedFor == Spec => []ImagesAreAccountedFor
  <1>1. RepliesInv => Replies!ImagesAreAccountedFor
    <2>1. ASSUME RepliesInv, NEW f \in stored
          PROVE  f \in (UNION {Replies!RecordedFiles(m) : m \in Written})
                         \cup (UNION {Replies!Held(w) : w \in Replies!Workers}) \cup left
      <3>1. Known(f)
        BY <2>1 DEF RepliesInv, FilesInv
      <3>2. ASSUME NEW k \in Written, f \in Replies!RecordedFiles(k)
            PROVE  f \in UNION {Replies!RecordedFiles(m) : m \in Written}
        BY <3>2
      <3>3. ASSUME NEW v \in Replies!Workers, f \in Replies!Held(v)
            PROVE  f \in UNION {Replies!Held(w) : w \in Replies!Workers}
        BY <3>3
      <3>4. \/ \E m \in Written : f \in Replies!RecordedFiles(m)
            \/ \E w \in Replies!Workers : f \in Replies!Held(w)
            \/ f \in left
        BY <3>1 DEF Known
      <3>5. CASE \E m \in Written : f \in Replies!RecordedFiles(m)
        BY <3>2, <3>5
      <3>6. CASE \E w \in Replies!Workers : f \in Replies!Held(w)
        BY <3>3, <3>6
      <3> QED
        BY <3>4, <3>5, <3>6
    <2>2. ASSUME RepliesInv, NEW m \in Written PROVE Replies!RecordedFiles(m) \subseteq stored
      BY <2>2 DEF RepliesInv, FilesInv, RecordedByDone
    <2> QED
      BY <2>1, <2>2 DEF Replies!ImagesAreAccountedFor
  <1>2. (part = "replies" => RepliesInv) => ImagesAreAccountedFor
    BY <1>1 DEF ImagesAreAccountedFor
  <1> QED
    BY <1>2, RepliesInvariant, PTL
-----------------------------------------------------------------------------
(* Drawings: every photo is accounted for, and what is shown exists.       *)

Owner    == Drawings!Owner
AskKinds == {"none", "new_photo", "redraw_photo", "edit_drawing", "from_photo", "describe"}
Asking   == [no : 0..MaxAsked, state : {"none", "waiting", "drawing", "done", "failed"},
             kind : AskKinds, base : Nat, photo : Nat, stale : BOOLEAN]
PhotoForm == [at : {"none", "request", "purge", "forget", "remove"}, owner : Owner,
              kind : AskKinds, photo : Nat]
DrawerRun == [at : {"idle", "start", "draw", "save", "fail", "purge"}, owner : Owner,
              no : 0..MaxAsked, hasPhoto : BOOLEAN, photo : Nat]

AskedTyped  == askedDrawing \in [Owner -> Asking]
FormTyped   == form \in PhotoForm
DrawersTyped == drawing \in [Calls -> DrawerRun]
GalleryTyped ==
  /\ gallery \in [Owner -> SUBSET Nat] /\ drawn \in Nat
  /\ \A o \in Owner : \A g \in gallery[o] : 1 <= g /\ g <= drawn
FilesNumbered ==
  /\ uploaded \in Nat /\ drawingFaults \in Nat /\ photo \in 0..uploaded
  /\ files \subseteq 1..uploaded /\ orphans \subseteq 1..uploaded

\* What is shown is in a gallery.
Shown ==
  /\ chosen \in gallery["person"] \cup {Drawings!None}
  /\ mascot \in gallery["person"] \cup gallery["server"] \cup {Drawings!None}

\* A request under way has saved nothing, and no two requests have a number.
SavedOnce ==
  /\ saves \in [1..MaxAsked -> Nat] /\ \A n \in 1..MaxAsked : saves[n] <= 1
  /\ \A o \in Owner : Drawings!Open(askedDrawing[o]) =>
       askedDrawing[o].no \in 1..MaxAsked /\ saves[askedDrawing[o].no] = 0
  /\ \A n \in 1..MaxAsked :
       askedDrawing["person"].no < n /\ askedDrawing["server"].no < n => saves[n] = 0
  /\ askedDrawing["person"].no = askedDrawing["server"].no => askedDrawing["person"].no = 0

\* Photos asked for and drawn from are photos uploaded, and a person's request
\* names none.
PhotosNumbered ==
  /\ askedDrawing["person"].photo = Drawings!None
  /\ askedDrawing["server"].photo <= uploaded /\ form.photo <= uploaded
  /\ \A d \in Calls : /\ drawing[d].photo <= uploaded
                      /\ drawing[d].owner = "person" => drawing[d].photo = Drawings!None
                      /\ drawing[d].no <= Drawings!Newest

\* A drawer under way on the server's request has its photo, and one that
\* purges has the photo of no request under way.
DrawersPhotos ==
  \A d \in Calls :
    /\ /\ drawing[d].at \in {"start", "draw", "save", "fail"} /\ drawing[d].owner = "server"
       /\ drawing[d].no = askedDrawing["server"].no /\ Drawings!Open(askedDrawing["server"])
       => drawing[d].photo = askedDrawing["server"].photo
    /\ drawing[d].at = "purge" =>
         /\ drawing[d].photo # Drawings!None
         /\ Drawings!Open(askedDrawing["server"]) =>
              drawing[d].photo # askedDrawing["server"].photo

\* A form's upload is nobody else's photo; and a form that forgets the kept
\* photo has purged it.
FormsPhoto ==
  /\ form.at = "request" =>
       /\ form.photo \in 1..uploaded /\ form.photo # askedDrawing["server"].photo
       /\ \A d \in Calls : drawing[d].photo # form.photo
  /\ form.at = "purge" => form.photo # Drawings!None
  /\ form.at \in {"forget", "remove"} => photo \notin files /\ form.photo = Drawings!None

Live == files \ orphans
Purging(f) == \E d \in Calls : drawing[d].at = "purge" /\ drawing[d].photo = f

\* Who has a photo that is in file-store, and did not stay there by a failure.
Accounted(f) == f = photo \/ f = askedDrawing["server"].photo \/ f = form.photo \/ Purging(f)

PhotosAccounted ==
  /\ \A f \in Live : Accounted(f)
  /\ ~Drawings!Open(askedDrawing["server"]) /\ askedDrawing["server"].photo \in Live
       => Purging(askedDrawing["server"].photo)

PhotosInv == PhotosNumbered /\ DrawersPhotos /\ FormsPhoto /\ PhotosAccounted

DrawingsTyped == AskedTyped /\ FormTyped /\ DrawersTyped /\ GalleryTyped /\ FilesNumbered

DrawingsInv == DrawingsTyped /\ Shown /\ SavedOnce /\ PhotosInv

\* The named values of drawings are typed.
LEMMA DrawingWords ==
  /\ Owner = {"person", "server"} /\ Drawings!None = 0
  /\ \A o \in Owner : Drawings!Kinds[o] \subseteq AskKinds
  /\ Drawings!NoRequest \in Asking /\ ~Drawings!Open(Drawings!NoRequest)
  /\ Drawings!NoRequest.no = 0 /\ Drawings!NoRequest.photo = 0
  /\ Drawings!NoForm \in PhotoForm /\ Drawings!NoForm.at = "none" /\ Drawings!NoForm.photo = 0
  /\ Drawings!NoDrawing \in DrawerRun /\ Drawings!NoDrawing.at = "idle"
  /\ Drawings!NoDrawing.photo = 0 /\ Drawings!NoDrawing.no = 0
  <1>1. Owner = {"person", "server"} /\ Drawings!None = 0 /\ 0 \in 0..MaxAsked
    BY OverlapsAssumption DEF Owner, Drawings!Owner, Drawings!None
  <1>2. ASSUME NEW o \in Owner PROVE Drawings!Kinds[o] \subseteq AskKinds
    BY <1>1 DEF Drawings!Kinds, AskKinds
  <1>3. /\ Drawings!NoRequest \in Asking /\ ~Drawings!Open(Drawings!NoRequest)
        /\ Drawings!NoRequest.no = 0 /\ Drawings!NoRequest.photo = 0
    BY <1>1 DEF Drawings!NoRequest, Asking, Drawings!Open, AskKinds, Drawings!None
  <1>4. /\ Drawings!NoForm \in PhotoForm /\ Drawings!NoForm.at = "none"
        /\ Drawings!NoForm.photo = 0
    BY <1>1 DEF Drawings!NoForm, PhotoForm, AskKinds
  <1>5. /\ Drawings!NoDrawing \in DrawerRun /\ Drawings!NoDrawing.at = "idle"
        /\ Drawings!NoDrawing.photo = 0 /\ Drawings!NoDrawing.no = 0
    BY <1>1 DEF Drawings!NoDrawing, DrawerRun
  <1> QED
    BY <1>1, <1>2, <1>3, <1>4, <1>5

\* The newest request's number is one of the two owners'.
LEMMA NewestIs ==
  ASSUME AskedTyped
  PROVE  /\ Drawings!Newest \in 0..MaxAsked
         /\ askedDrawing["person"].no <= Drawings!Newest
         /\ askedDrawing["server"].no <= Drawings!Newest
         /\ \/ Drawings!Newest = askedDrawing["person"].no
            \/ Drawings!Newest = askedDrawing["server"].no
  <1>1. askedDrawing["person"].no \in 0..MaxAsked /\ askedDrawing["server"].no \in 0..MaxAsked
    BY DrawingWords DEF AskedTyped, Asking
  <1> QED
    BY <1>1, OverlapsAssumption DEF Drawings!Newest

\* The invariant of drawings holds at the start.
LEMMA DrawingsInit ==
  ASSUME Init
  PROVE  DrawingsInv
  <1>1. Drawings!Init
    BY DEF Init
  <1>2. /\ askedDrawing = [o \in Owner |-> Drawings!NoRequest] /\ form = Drawings!NoForm
        /\ drawing = [d \in Calls |-> Drawings!NoDrawing] /\ files = {} /\ orphans = {}
        /\ gallery = [o \in Owner |-> {}] /\ drawn = 0 /\ uploaded = 0 /\ drawingFaults = 0
        /\ photo = 0 /\ chosen = 0 /\ mascot = 0 /\ saves = [n \in 1..MaxAsked |-> 0]
    BY <1>1, DrawingWords DEF Drawings!Init, Owner
  <1>3. AskedTyped /\ FormTyped /\ DrawersTyped
    BY <1>2, DrawingWords DEF AskedTyped, FormTyped, DrawersTyped
  <1>4. GalleryTyped /\ FilesNumbered /\ Shown
    BY <1>2, DrawingWords DEF GalleryTyped, FilesNumbered, Shown
  <1>5. SavedOnce
    BY <1>2, DrawingWords DEF SavedOnce
  <1>6. PhotosNumbered
    <2>1. Drawings!Newest \in 0..MaxAsked
      BY <1>3, NewestIs
    <2>2. 0 <= Drawings!Newest
      BY <2>1, OverlapsAssumption
    <2>3. \A d \in Calls : drawing[d] = Drawings!NoDrawing
      BY <1>2
    <2> QED
      BY <1>2, <2>2, <2>3, DrawingWords DEF PhotosNumbered
  <1>7. DrawersPhotos /\ FormsPhoto /\ PhotosAccounted
    BY <1>2, DrawingWords DEF DrawersPhotos, FormsPhoto, PhotosAccounted, Live
  <1> QED
    BY <1>3, <1>4, <1>5, <1>6, <1>7 DEF DrawingsInv, DrawingsTyped, PhotosInv

\* What a step keeps of the requests, said of the fields the photos rest on.
ServersRequestStays ==
  /\ askedDrawing'["server"].no = askedDrawing["server"].no
  /\ askedDrawing'["server"].photo = askedDrawing["server"].photo

\* The fields of a typed request.
LEMMA AskedFields ==
  ASSUME AskedTyped, NEW o \in Owner
  PROVE  /\ askedDrawing[o].no \in 0..MaxAsked /\ askedDrawing[o].photo \in Nat
         /\ askedDrawing[o].base \in Nat /\ askedDrawing[o].kind \in AskKinds
         /\ askedDrawing[o].state \in {"none", "waiting", "drawing", "done", "failed"}
         /\ askedDrawing[o].stale \in BOOLEAN /\ askedDrawing[o] \in Asking
  BY DEF AskedTyped, Asking

\* The fields of a typed form, and of each drawer.
LEMMA FieldsOfForms ==
  ASSUME DrawingsTyped
  PROVE  /\ form.at \in {"none", "request", "purge", "forget", "remove"}
         /\ form.owner \in Owner /\ form.kind \in AskKinds /\ form.photo \in Nat
         /\ \A d \in Calls :
              /\ drawing[d].at \in {"idle", "start", "draw", "save", "fail", "purge"}
              /\ drawing[d].owner \in Owner /\ drawing[d].no \in 0..MaxAsked
              /\ drawing[d].photo \in Nat /\ drawing[d] \in DrawerRun
         /\ uploaded \in Nat
  BY DEF DrawingsTyped, FormTyped, PhotoForm, DrawersTyped, DrawerRun, FilesNumbered

\* Nobody numbers the photos backwards.
LEMMA PhotosStill ==
  ASSUME DrawingsTyped, PhotosInv, AskedTyped', ServersRequestStays,
         Drawings!Open(askedDrawing["server"])' = Drawings!Open(askedDrawing["server"]),
         askedDrawing'["person"].photo = Drawings!None,
         Drawings!Newest <= Drawings!Newest',
         UNCHANGED <<photo, files, orphans, form, drawing, uploaded>>
  PROVE  PhotosInv'
  <1>0. \A o \in Owner : askedDrawing'[o].no \in 0..MaxAsked
    BY DEF AskedTyped, Asking
  <1>1. Drawings!Newest \in 0..MaxAsked /\ Drawings!Newest' \in 0..MaxAsked
    <2>1. Drawings!Newest \in 0..MaxAsked
      BY NewestIs DEF DrawingsTyped
    <2>2. Drawings!Newest' \in 0..MaxAsked
      BY <1>0, DrawingWords DEF Drawings!Newest
    <2> QED
      BY <2>1, <2>2
  <1>2. \A d \in Calls : drawing[d].no \in 0..MaxAsked
    BY FieldsOfForms
  <1>3. PhotosNumbered'
    BY <1>1, <1>2, OverlapsAssumption
       DEF PhotosInv, PhotosNumbered, ServersRequestStays, Drawings!None
  <1>4. DrawersPhotos' /\ FormsPhoto'
    BY DEF PhotosInv, DrawersPhotos, FormsPhoto, ServersRequestStays, Drawings!None
  <1>5. PhotosAccounted'
    BY DEF PhotosInv, PhotosAccounted, Accounted, Purging, Live, ServersRequestStays
  <1> QED
    BY <1>3, <1>4, <1>5 DEF PhotosInv

\* A drawer that purges nothing goes on, or to the purge of its settled
\* request's photo.
LEMMA ADrawerGoes ==
  ASSUME DrawingsTyped, PhotosInv, AskedTyped', ServersRequestStays,
         askedDrawing'["person"].no = askedDrawing["person"].no,
         askedDrawing'["person"].photo = Drawings!None,
         UNCHANGED <<photo, files, orphans, form, uploaded>>,
         NEW d \in Calls, NEW r \in DrawerRun,
         drawing' = [drawing EXCEPT ![d] = r], drawing[d].at # "purge",
         Drawings!Open(askedDrawing["server"])' => Drawings!Open(askedDrawing["server"]),
         r.photo <= uploaded, r.owner = "person" => r.photo = Drawings!None,
         r.no <= Drawings!Newest,
         form.at = "request" => r.photo # form.photo,
         r.at \in {"start", "draw", "save", "fail"} /\ r.owner = "server"
           /\ r.no = askedDrawing["server"].no /\ Drawings!Open(askedDrawing["server"])'
         => r.photo = askedDrawing["server"].photo,
         r.at = "purge" => r.photo # Drawings!None
           /\ (Drawings!Open(askedDrawing["server"])' => r.photo # askedDrawing["server"].photo),
         Drawings!Open(askedDrawing["server"]) =>
           \/ Drawings!Open(askedDrawing["server"])' \/ askedDrawing["server"].photo = Drawings!None
           \/ r.at = "purge" /\ r.photo = askedDrawing["server"].photo
  PROVE  PhotosInv'
  <1>1. \A e \in Calls : drawing'[e] = IF e = d THEN r ELSE drawing[e]
    BY DEF DrawingsTyped, DrawersTyped
  <1>2. Drawings!Newest' = Drawings!Newest
    BY DEF ServersRequestStays, Drawings!Newest
  <1>3. PhotosNumbered'
    BY <1>1, <1>2 DEF PhotosInv, PhotosNumbered, ServersRequestStays, Drawings!None
  <1>4. DrawersPhotos'
    <2> SUFFICES ASSUME NEW e \in Calls
                 PROVE  /\ /\ drawing'[e].at \in {"start", "draw", "save", "fail"}
                           /\ drawing'[e].owner = "server"
                           /\ drawing'[e].no = askedDrawing'["server"].no
                           /\ Drawings!Open(askedDrawing["server"])'
                           => drawing'[e].photo = askedDrawing'["server"].photo
                        /\ drawing'[e].at = "purge" =>
                             /\ drawing'[e].photo # Drawings!None
                             /\ Drawings!Open(askedDrawing["server"])' =>
                                  drawing'[e].photo # askedDrawing'["server"].photo
      BY DEF DrawersPhotos, Drawings!None
    <2>1. CASE e = d
      BY <2>1, <1>1 DEF ServersRequestStays
    <2>2. CASE e # d
      BY <2>2, <1>1 DEF PhotosInv, DrawersPhotos, ServersRequestStays
    <2> QED
      BY <2>1, <2>2
  <1>5. FormsPhoto'
    BY <1>1 DEF PhotosInv, FormsPhoto, ServersRequestStays
  <1>6. \A f : Purging(f) => Purging(f)'
    <2> SUFFICES ASSUME NEW f, Purging(f)
                 PROVE  \E e \in Calls : drawing'[e].at = "purge" /\ drawing'[e].photo = f
      BY DEF Purging
    <2>1. PICK e \in Calls : drawing[e].at = "purge" /\ drawing[e].photo = f
      BY DEF Purging
    <2> QED
      BY <2>1, <1>1
  <1>7. \A f : Accounted(f) => Accounted(f)'
    BY <1>6 DEF Accounted, ServersRequestStays
  <1>8. Live' = Live /\ 0 \notin Live
    BY DEF Live, DrawingsTyped, FilesNumbered
  <1>9. PhotosAccounted'
    <2>1. \A f \in Live' : Accounted(f)'
      BY <1>7, <1>8 DEF PhotosInv, PhotosAccounted
    <2>2. ASSUME ~Drawings!Open(askedDrawing["server"])', askedDrawing'["server"].photo \in Live'
          PROVE  Purging(askedDrawing["server"].photo)'
      <3> DEFINE f == askedDrawing["server"].photo
      <3>1. f \in Live /\ askedDrawing'["server"].photo = f /\ f # 0
        BY <2>2, <1>8 DEF ServersRequestStays
      <3>2. PICK g : g = f
        OBVIOUS
      <3>3. CASE ~Drawings!Open(askedDrawing["server"])
        <4>1. Purging(g)
          BY <3>1, <3>2, <3>3 DEF PhotosInv, PhotosAccounted
        <4>2. Purging(g)'
          BY <4>1, <1>6
        <4> QED
          BY <4>2, <3>1, <3>2 DEF Purging
      <3>4. CASE Drawings!Open(askedDrawing["server"])
        <4>1. r.at = "purge" /\ r.photo = f
          BY <2>2, <3>1, <3>4 DEF Drawings!None
        <4> QED
          BY <4>1, <3>1, <1>1 DEF Purging
      <3> QED
        BY <3>3, <3>4
    <2> QED
      BY <2>1, <2>2 DEF PhotosAccounted
  <1> QED
    BY <1>3, <1>4, <1>5, <1>9 DEF PhotosInv

\* A request that is made is the newest, and saves nothing yet.
LEMMA ARequestIsMade ==
  ASSUME DrawingsTyped, SavedOnce, NEW o \in Owner, NEW k \in AskKinds,
         NEW b \in Nat, NEW p \in Nat, Drawings!Ask(o, k, b, p)
  PROVE  /\ AskedTyped' /\ SavedOnce'
         /\ askedDrawing'[o].photo = (IF o = "server" THEN p ELSE Drawings!None)
         /\ askedDrawing'[o].no = Drawings!Newest + 1 /\ Drawings!Open(askedDrawing[o])'
         /\ \A u \in Owner \ {o} : askedDrawing'[u] = askedDrawing[u]
         /\ Drawings!Newest' = Drawings!Newest + 1
         /\ UNCHANGED <<gallery, chosen, mascot, saves, drawn>>
  <1> DEFINE r == [no |-> Drawings!Newest + 1, state |-> "waiting", kind |-> k, base |-> b,
                   photo |-> IF o = "server" THEN p ELSE Drawings!None, stale |-> FALSE]
  <1>1. /\ askedDrawing' = [askedDrawing EXCEPT ![o] = r] /\ Drawings!Newest < MaxAsked
        /\ UNCHANGED <<gallery, chosen, mascot, saves, drawn>>
    BY DEF Drawings!Ask
  <1>2. Drawings!Newest \in 0..MaxAsked /\ \A u \in Owner : askedDrawing[u].no <= Drawings!Newest
    BY NewestIs, DrawingWords DEF DrawingsTyped
  <1>4. /\ r \in Asking /\ r.no = Drawings!Newest + 1 /\ r.state = "waiting"
        /\ r.photo = (IF o = "server" THEN p ELSE Drawings!None)
    BY <1>1, <1>2, DrawingWords, OverlapsAssumption DEF Asking
  <1> HIDE DEF r
  <1>5. \A u \in Owner : askedDrawing'[u] = IF u = o THEN r ELSE askedDrawing[u]
    BY <1>1 DEF DrawingsTyped, AskedTyped
  <1>6. AskedTyped'
    BY <1>1, <1>4 DEF DrawingsTyped, AskedTyped
  <1>7. Drawings!Open(r) /\ Drawings!Open(askedDrawing[o])'
    BY <1>4, <1>5 DEF Drawings!Open
  <1>8. \A u \in Owner : askedDrawing[u].no \in 0..MaxAsked
    BY AskedFields DEF DrawingsTyped
  <1>9. Drawings!Newest' = Drawings!Newest + 1
    BY <1>2, <1>4, <1>5, <1>8, DrawingWords DEF Drawings!Newest
  <1>10. SavedOnce'
    <2>1. saves' = saves /\ Drawings!Newest + 1 \in 1..MaxAsked
      BY <1>1, <1>2, OverlapsAssumption
    <2>2. saves'[Drawings!Newest + 1] = 0
      <3>1. /\ askedDrawing["person"].no < Drawings!Newest + 1
            /\ askedDrawing["server"].no < Drawings!Newest + 1
        BY <1>2, <1>8, DrawingWords
      <3> QED
        BY <3>1, <2>1 DEF SavedOnce
    <2>3. \A u \in Owner : Drawings!Open(askedDrawing[u])' =>
            askedDrawing'[u].no \in 1..MaxAsked /\ saves'[askedDrawing'[u].no] = 0
      <3> SUFFICES ASSUME NEW u \in Owner, Drawings!Open(askedDrawing[u])'
                   PROVE  askedDrawing'[u].no \in 1..MaxAsked /\ saves'[askedDrawing'[u].no] = 0
        OBVIOUS
      <3>1. CASE u = o
        BY <3>1, <2>1, <2>2, <1>4, <1>5
      <3>2. CASE u # o
        <4>1. askedDrawing'[u] = askedDrawing[u] /\ Drawings!Open(askedDrawing[u])
          BY <3>2, <1>5 DEF Drawings!Open
        <4> QED
          BY <4>1, <2>1 DEF SavedOnce
      <3> QED
        BY <3>1, <3>2
    <2>4. \A n \in 1..MaxAsked :
            askedDrawing'["person"].no < n /\ askedDrawing'["server"].no < n => saves'[n] = 0
      <3>1. \A u \in Owner : askedDrawing[u].no <= askedDrawing'[u].no
        BY <1>2, <1>4, <1>5, <1>8
      <3> SUFFICES ASSUME NEW n \in 1..MaxAsked,
                          askedDrawing'["person"].no < n, askedDrawing'["server"].no < n
                   PROVE  saves'[n] = 0
        OBVIOUS
      <3>3. \A u \in Owner : askedDrawing'[u].no \in 0..MaxAsked
        BY <1>6 DEF AskedTyped, Asking
      <3>2. askedDrawing["person"].no < n /\ askedDrawing["server"].no < n
        BY <3>1, <3>3, <1>8, DrawingWords
      <3> QED
        BY <3>2, <2>1 DEF SavedOnce
    <2>5. askedDrawing'["person"].no # askedDrawing'["server"].no
      BY <1>2, <1>4, <1>5, <1>8, DrawingWords
    <2> QED
      BY <2>1, <2>3, <2>4, <2>5 DEF SavedOnce, Drawings!Open
  <1> QED
    BY <1>1, <1>4, <1>5, <1>6, <1>7, <1>9, <1>10

\* The requests keep their numbers, nothing is saved, and none is under way
\* that was not.
LEMMA NothingSaved ==
  ASSUME SavedOnce, AskedTyped,
         \A o \in Owner : /\ askedDrawing'[o].no = askedDrawing[o].no
                          /\ Drawings!Open(askedDrawing[o])' => Drawings!Open(askedDrawing[o]),
         saves' = saves
  PROVE  SavedOnce'
  <1>1. askedDrawing'["person"].no = askedDrawing["person"].no
        /\ askedDrawing'["server"].no = askedDrawing["server"].no
    BY DrawingWords
  <1>2. \A o \in Owner : Drawings!Open(askedDrawing[o])' =>
          askedDrawing'[o].no \in 1..MaxAsked /\ saves'[askedDrawing'[o].no] = 0
    BY DEF SavedOnce
  <1>3. /\ saves' \in [1..MaxAsked -> Nat] /\ \A n \in 1..MaxAsked : saves'[n] <= 1
        /\ \A n \in 1..MaxAsked :
             askedDrawing'["person"].no < n /\ askedDrawing'["server"].no < n => saves'[n] = 0
        /\ askedDrawing'["person"].no = askedDrawing'["server"].no => askedDrawing'["person"].no = 0
    BY <1>1 DEF SavedOnce
  <1> QED
    BY <1>2, <1>3 DEF SavedOnce, Drawings!Open

\* Galleries shrink, and what was deleted is shown no more.
LEMMA GallerySmaller ==
  ASSUME GalleryTyped, drawn' = drawn, gallery' \in [Owner -> SUBSET Nat],
         \A o \in Owner : gallery'[o] \subseteq gallery[o]
  PROVE  GalleryTyped'
  BY DEF GalleryTyped

\* Each step of drawings keeps their invariant.
LEMMA DrawingsStep ==
  ASSUME DrawingsInv, Drawings!Next \/ UNCHANGED drawingsVars
  PROVE  DrawingsInv'
  <1>1. /\ AskedTyped /\ FormTyped /\ DrawersTyped /\ GalleryTyped /\ FilesNumbered
        /\ DrawingsTyped /\ Shown /\ SavedOnce /\ PhotosInv
        /\ PhotosNumbered /\ DrawersPhotos /\ FormsPhoto /\ PhotosAccounted
    BY DEF DrawingsInv, DrawingsTyped, PhotosInv
  <1>2. askedDrawing["person"].photo = 0 /\ Drawings!None = 0 /\ Owner = {"person", "server"}
        /\ Drawings!Owner = Owner
    BY <1>1, DrawingWords DEF PhotosNumbered, Owner
  <1>3. Drawings!Newest \in 0..MaxAsked
    BY <1>1, NewestIs
  <1>4. ASSUME UNCHANGED <<askedDrawing, saves>> PROVE AskedTyped' /\ SavedOnce'
    BY <1>1, <1>4, NothingSaved DEF AskedTyped, Drawings!Open
  <1>5. ASSUME UNCHANGED form PROVE FormTyped'
    BY <1>1, <1>5 DEF FormTyped
  <1>6. ASSUME UNCHANGED drawing PROVE DrawersTyped'
    BY <1>1, <1>6 DEF DrawersTyped
  <1>7. ASSUME UNCHANGED <<gallery, drawn>> PROVE GalleryTyped'
    BY <1>1, <1>7 DEF GalleryTyped
  <1>8. ASSUME UNCHANGED <<uploaded, photo, files, orphans>>, drawingFaults' \in Nat
        PROVE  FilesNumbered'
    BY <1>1, <1>8 DEF FilesNumbered
  <1>9. ASSUME UNCHANGED <<gallery, chosen, mascot>> PROVE Shown'
    BY <1>1, <1>9 DEF Shown
  <1>10. ASSUME UNCHANGED <<askedDrawing, photo, files, orphans, form, drawing, uploaded>>
         PROVE  PhotosInv'
    <2>1. ServersRequestStays /\ Drawings!Newest' = Drawings!Newest
          /\ Drawings!Open(askedDrawing["server"])' = Drawings!Open(askedDrawing["server"])
      BY <1>10 DEF ServersRequestStays, Drawings!Newest, Drawings!Open
    <2>2. AskedTyped' /\ Drawings!Newest <= Drawings!Newest'
      BY <2>1, <1>1, <1>3, <1>10, OverlapsAssumption DEF AskedTyped
    <2> QED
      BY <2>1, <2>2, <1>1, <1>2, <1>10, PhotosStill
  <1>11. drawingFaults \in Nat /\ drawingFaults + 1 \in Nat
    BY <1>1 DEF FilesNumbered
  <1>12. ASSUME UNCHANGED <<askedDrawing, photo, files, orphans, form, drawing, uploaded, saves>>,
                drawingFaults' = drawingFaults, GalleryTyped', Shown'
         PROVE  DrawingsInv'
    BY <1>4, <1>5, <1>6, <1>8, <1>10, <1>11, <1>12 DEF DrawingsInv, DrawingsTyped
  <1>13. CASE UNCHANGED drawingsVars
    BY <1>7, <1>9, <1>12, <1>13 DEF drawingsVars
  <1>14. CASE Drawings!ChooseAvatarDrawing
    <2>1. /\ UNCHANGED <<askedDrawing, photo, files, orphans, form, drawing, uploaded, saves>>
          /\ drawingFaults' = drawingFaults /\ UNCHANGED <<gallery, drawn, mascot>>
          /\ chosen' \in gallery["person"] \cup {Drawings!None}
      BY <1>14 DEF Drawings!ChooseAvatarDrawing, Drawings!shownElse
    <2>2. Shown'
      BY <2>1, <1>1 DEF Shown, Drawings!None
    <2> QED
      BY <2>1, <2>2, <1>7, <1>12
  <1>15. CASE Drawings!SetGuildMascotToMascotDrawing \/ Drawings!SetGuildMascotToAvatar
              \/ Drawings!ClearGuildMascot
    <2>1. /\ UNCHANGED <<askedDrawing, photo, files, orphans, form, drawing, uploaded, saves>>
          /\ drawingFaults' = drawingFaults /\ UNCHANGED <<gallery, drawn, chosen>>
          /\ mascot' \in gallery["person"] \cup gallery["server"] \cup {Drawings!None}
      BY <1>1, <1>15 DEF Drawings!SetGuildMascotToMascotDrawing,
                         Drawings!SetGuildMascotToAvatar,
         Drawings!ClearGuildMascot, Drawings!shownElse, Shown
    <2>2. Shown'
      BY <2>1, <1>1 DEF Shown, Drawings!None
    <2> QED
      BY <2>1, <2>2, <1>7, <1>12
  <1>16. CASE Drawings!SetAvatarByOperator
    <2>0. drawn \in Nat /\ drawn + 1 \in Nat
      BY <1>1 DEF GalleryTyped
    <2>1. /\ UNCHANGED <<askedDrawing, photo, files, orphans, form, drawing, uploaded, saves>>
          /\ drawingFaults' = drawingFaults /\ mascot' = mascot
          /\ drawn' = drawn + 1 /\ chosen' = drawn + 1
          /\ gallery' = [gallery EXCEPT !["person"] = @ \cup {drawn + 1}]
      BY <1>16 DEF Drawings!SetAvatarByOperator
    <2>2. /\ gallery'["person"] = gallery["person"] \cup {drawn + 1}
          /\ gallery'["server"] = gallery["server"] /\ gallery' \in [Owner -> SUBSET Nat]
      BY <2>0, <2>1, <1>1, <1>2 DEF GalleryTyped
    <2>3. GalleryTyped'
      <3>1. ASSUME NEW o \in Owner, NEW g \in gallery'[o] PROVE 1 <= g /\ g <= drawn'
        <4>1. g = drawn + 1 \/ g \in gallery[o]
          BY <3>1, <2>2, <1>2
        <4>2. g \in Nat
          BY <3>1, <2>2
        <4> QED
          BY <4>1, <4>2, <2>0, <2>1, <1>1 DEF GalleryTyped
      <3> QED
        BY <2>0, <2>1, <2>2, <3>1 DEF GalleryTyped
    <2>4. Shown'
      BY <2>1, <2>2, <1>1 DEF Shown, Drawings!None
    <2> QED
      BY <2>1, <2>3, <2>4, <1>12
  <1>17. ASSUME NEW o \in Owner, NEW g, Drawings!DeleteDrawing(o, g)
         PROVE  DrawingsInv'
    <2>1. /\ UNCHANGED <<askedDrawing, photo, files, orphans, form, drawing, uploaded, saves>>
          /\ drawingFaults' = drawingFaults /\ drawn' = drawn
          /\ chosen' = (IF chosen = g THEN Drawings!None ELSE chosen)
          /\ mascot' = (IF mascot = g THEN Drawings!None ELSE mascot)
          /\ gallery' = [gallery EXCEPT ![o] = @ \ {g}]
      BY <1>17 DEF Drawings!DeleteDrawing, Drawings!DropShown
    <2>2. /\ gallery' \in [Owner -> SUBSET Nat]
          /\ \A u \in Owner : /\ gallery'[u] \subseteq gallery[u]
                              /\ gallery[u] \ {g} \subseteq gallery'[u]
      BY <2>1, <1>1 DEF GalleryTyped
    <2>3. GalleryTyped'
      BY <2>1, <2>2, <1>1, GallerySmaller
    <2>4. Shown'
      BY <2>1, <2>2, <1>1, <1>2 DEF Shown, Drawings!None
    <2> QED
      BY <2>1, <2>3, <2>4, <1>12
  <1>18. CASE Drawings!DeleteAvatarDrawing \/ Drawings!DeleteMascotDrawing
    BY <1>2, <1>17, <1>18 DEF Drawings!DeleteAvatarDrawing, Drawings!DeleteMascotDrawing
  <1>19. CASE Drawings!UploadPhoto
    <2>0. uploaded \in Nat /\ uploaded + 1 \in Nat /\ files \subseteq 1..uploaded
          /\ orphans \subseteq 1..uploaded /\ form = Drawings!NoForm /\ uploaded' = uploaded + 1
          /\ files' = files \cup {uploaded + 1} /\ form.photo = 0
          /\ UNCHANGED <<askedDrawing, gallery, chosen, mascot, photo, saves, drawn>>
          /\ UNCHANGED <<orphans, drawing, drawingFaults>>
      BY <1>1, <1>19, DrawingWords DEF Drawings!UploadPhoto, Drawings!rows, FilesNumbered
    <2>1. /\ form' \in PhotoForm /\ form'.at = "request" /\ form'.photo = uploaded + 1
      <3>1. PICK o \in Owner, k \in {"new_photo", "from_photo"} :
              form' = [at |-> "request", owner |-> o, kind |-> k, photo |-> uploaded + 1]
        BY <1>2, <1>19 DEF Drawings!UploadPhoto
      <3> QED
        BY <3>1, <2>0 DEF PhotoForm, AskKinds
    <2>2. FilesNumbered'
      BY <2>0, <1>1 DEF FilesNumbered
    <2>3. PhotosNumbered'
      <3>1. Drawings!Newest' = Drawings!Newest
        BY <2>0 DEF Drawings!Newest
      <3>2. askedDrawing["server"].photo \in Nat /\ \A d \in Calls : drawing[d].photo \in Nat
        BY <1>1, <1>2, AskedFields, FieldsOfForms
      <3> QED
        BY <2>0, <2>1, <3>1, <3>2, <1>1 DEF PhotosNumbered, Drawings!None
    <2>4. DrawersPhotos'
      BY <2>0, <1>1 DEF DrawersPhotos, Drawings!Open, Drawings!None
    <2>5. FormsPhoto'
      <3>1. askedDrawing["server"].photo \in Nat /\ \A d \in Calls : drawing[d].photo \in Nat
        BY <1>1, <1>2, AskedFields, FieldsOfForms
      <3>2. /\ askedDrawing["server"].photo # uploaded + 1
            /\ \A d \in Calls : drawing[d].photo # uploaded + 1
        BY <3>1, <2>0, <1>1 DEF PhotosNumbered
      <3>3. uploaded + 1 \in 1..(uploaded + 1)
        BY <2>0
      <3> QED
        BY <2>0, <2>1, <3>2, <3>3 DEF FormsPhoto
    <2>6. PhotosAccounted'
      <3>1. /\ Live' \subseteq Live \cup {uploaded + 1} /\ 0 \notin Live
            /\ askedDrawing["server"].photo # uploaded + 1
        <4>1. askedDrawing["server"].photo \in Nat
          BY <1>1, <1>2, AskedFields
        <4> QED
          BY <4>1, <2>0, <1>1 DEF Live, PhotosNumbered
      <3>2. \A f : Purging(f)' <=> Purging(f)
        BY <2>0 DEF Purging
      <3>3. ASSUME NEW f \in Live' PROVE Accounted(f)'
        BY <3>1, <3>2, <2>0, <2>1, <1>1 DEF Accounted, PhotosAccounted
      <3>4. ASSUME ~Drawings!Open(askedDrawing["server"])', askedDrawing'["server"].photo \in Live'
            PROVE  Purging(askedDrawing["server"].photo)'
        <4>1. ~Drawings!Open(askedDrawing["server"]) /\ askedDrawing["server"].photo \in Live
          BY <3>1, <3>4, <2>0 DEF Drawings!Open
        <4> QED
          BY <4>1, <3>2, <2>0, <1>1 DEF PhotosAccounted, Purging
      <3> QED
        BY <3>3, <3>4 DEF PhotosAccounted
    <2>7. AskedTyped' /\ SavedOnce' /\ DrawersTyped' /\ GalleryTyped' /\ Shown' /\ FormTyped'
      BY <2>0, <2>1, <1>4, <1>6, <1>7, <1>9 DEF FormTyped
    <2> QED
      BY <2>2, <2>3, <2>4, <2>5, <2>6, <2>7 DEF DrawingsInv, DrawingsTyped, PhotosInv
  <1>20. CASE Drawings!RequestDrawing
    <2>0. UNCHANGED <<photo, files, orphans, form, drawing, uploaded, drawingFaults>>
          /\ form = Drawings!NoForm /\ form.photo = 0
      BY <1>20, DrawingWords DEF Drawings!RequestDrawing
    <2>1. PICK o \in Owner, k \in AskKinds, b \in Nat :
            Drawings!Ask(o, k, b, 0) /\ ~Drawings!Open(askedDrawing[o])
      <3>1. PICK o \in Owner, k \in {"redraw_photo", "describe", "edit_drawing"} :
              /\ k \in Drawings!Kinds[o] /\ ~Drawings!Open(askedDrawing[o])
              /\ \E b \in IF k = "edit_drawing" THEN gallery[o] ELSE {Drawings!None} :
                   Drawings!Ask(o, k, b, Drawings!None)
        BY <1>2, <1>20 DEF Drawings!RequestDrawing
      <3>2. PICK b \in IF k = "edit_drawing" THEN gallery[o] ELSE {Drawings!None} :
              Drawings!Ask(o, k, b, Drawings!None)
        BY <3>1
      <3>3. b \in Nat
        BY <1>1, <1>2, <3>2 DEF GalleryTyped
      <3> QED
        BY <3>1, <3>2, <3>3, <1>2 DEF AskKinds
    <2>2. /\ AskedTyped' /\ SavedOnce' /\ askedDrawing'[o].photo = 0
          /\ Drawings!Open(askedDrawing[o])' /\ askedDrawing'[o].no = Drawings!Newest + 1
          /\ \A u \in Owner \ {o} : askedDrawing'[u] = askedDrawing[u]
          /\ Drawings!Newest' = Drawings!Newest + 1
          /\ UNCHANGED <<gallery, chosen, mascot, saves, drawn>>
      <3>1. 0 \in Nat
        OBVIOUS
      <3> QED
        BY <3>1, <2>1, <1>1, <1>2, ARequestIsMade
    <2>3. PhotosInv'
      <3>1. CASE o = "person"
        <4>1. ServersRequestStays /\ askedDrawing'["person"].photo = Drawings!None
              /\ Drawings!Open(askedDrawing["server"])' = Drawings!Open(askedDrawing["server"])
              /\ Drawings!Newest <= Drawings!Newest'
          BY <3>1, <2>2, <1>2, <1>3, OverlapsAssumption DEF ServersRequestStays, Drawings!Open
        <4> QED
          BY <4>1, <2>0, <2>2, <1>1, PhotosStill
      <3>2. CASE o = "server"
        <4>1. askedDrawing'["person"] = askedDrawing["person"] /\ askedDrawing'["server"].photo = 0
              /\ askedDrawing'["server"].no = Drawings!Newest + 1
              /\ Drawings!Open(askedDrawing["server"])'
          BY <3>2, <2>2, <1>2
        <4>2. \A d \in Calls : drawing[d].no \in Int /\ drawing[d].no <= Drawings!Newest
          BY <1>1, FieldsOfForms, OverlapsAssumption DEF PhotosNumbered
        <4>3. PhotosNumbered'
          BY <4>1, <4>2, <2>0, <2>2, <1>1, <1>2, <1>3, OverlapsAssumption
             DEF PhotosNumbered, Drawings!None, FilesNumbered
        <4>4. DrawersPhotos'
          BY <4>1, <4>2, <2>0, <1>1, <1>3, OverlapsAssumption DEF DrawersPhotos, Drawings!None
        <4>5. FormsPhoto'
          BY <2>0, <1>1, DrawingWords DEF FormsPhoto
        <4>6. PhotosAccounted'
          <5>1. \A f : Purging(f)' <=> Purging(f)
            BY <2>0 DEF Purging
          <5>2. Live' = Live /\ 0 \notin Live
            BY <2>0, <1>1 DEF Live, FilesNumbered
          <5>3. ASSUME NEW f \in Live' PROVE Accounted(f)'
            <6>1. f # 0 /\ (f = photo \/ f = askedDrawing["server"].photo \/ Purging(f))
              BY <5>2, <5>3, <2>0, <1>1 DEF PhotosAccounted, Accounted
            <6>2. f = askedDrawing["server"].photo => Purging(f)
              BY <2>1, <3>2, <5>2, <5>3, <1>1 DEF PhotosAccounted
            <6> QED
              BY <6>1, <6>2, <5>1, <2>0 DEF Accounted
          <5> QED
            BY <5>3, <4>1 DEF PhotosAccounted
        <4> QED
          BY <4>3, <4>4, <4>5, <4>6 DEF PhotosInv
      <3> QED
        BY <3>1, <3>2, <1>2
    <2> QED
      BY <2>0, <2>2, <2>3, <1>5, <1>6, <1>7, <1>8, <1>9, <1>11 DEF DrawingsInv, DrawingsTyped
  <1>21. ASSUME form' = Drawings!NoForm
         PROVE  FormTyped' /\ FormsPhoto' /\ form'.photo = 0 /\ form'.at = "none"
    BY <1>21, DrawingWords DEF FormTyped, FormsPhoto
  <1>22. ASSUME ServersRequestStays, askedDrawing'["person"].photo = 0,
                Drawings!Open(askedDrawing["server"])' => Drawings!Open(askedDrawing["server"]),
                Drawings!Newest <= Drawings!Newest', Drawings!Newest' \in Int,
                UNCHANGED <<drawing, uploaded>>, form'.photo <= uploaded
         PROVE  PhotosNumbered' /\ DrawersPhotos'
    <2>1. PhotosNumbered'
      <3>1. \A d \in Calls : drawing[d].no \in Int /\ drawing[d].no <= Drawings!Newest
        BY <1>1, FieldsOfForms, OverlapsAssumption DEF PhotosNumbered
      <3>2. \A d \in Calls : drawing'[d].no <= Drawings!Newest'
        BY <3>1, <1>3, <1>22, OverlapsAssumption
      <3> QED
        BY <3>2, <1>1, <1>22 DEF PhotosNumbered, ServersRequestStays, Drawings!None
    <2>2. DrawersPhotos'
      BY <1>1, <1>22 DEF DrawersPhotos, ServersRequestStays, Drawings!None
    <2> QED
      BY <2>1, <2>2
  <1>23. ASSUME ServersRequestStays, UNCHANGED drawing,
                Drawings!Open(askedDrawing["server"])' = Drawings!Open(askedDrawing["server"]),
                NEW p, Live' \subseteq Live \ {p},
                \A f \in Live \ {p} : f \in {photo, form.photo} => f \in {photo', form'.photo}
         PROVE  PhotosAccounted'
    <2>1. \A f : Purging(f)' <=> Purging(f)
      BY <1>23 DEF Purging
    <2>2. ASSUME NEW f \in Live' PROVE Accounted(f)'
      BY <2>1, <2>2, <1>1, <1>23 DEF PhotosAccounted, Accounted, ServersRequestStays
    <2>3. ASSUME ~Drawings!Open(askedDrawing["server"])', askedDrawing'["server"].photo \in Live'
          PROVE  Purging(askedDrawing["server"].photo)'
      <3>1. ~Drawings!Open(askedDrawing["server"]) /\ askedDrawing["server"].photo \in Live
        BY <2>3, <1>23 DEF ServersRequestStays
      <3> QED
        BY <2>1, <3>1, <1>1, <1>23 DEF PhotosAccounted, Purging, ServersRequestStays
    <2> QED
      BY <2>2, <2>3 DEF PhotosAccounted
  <1>0. ASSUME UNCHANGED askedDrawing
        PROVE  /\ ServersRequestStays /\ askedDrawing'["person"].photo = 0
               /\ Drawings!Open(askedDrawing["server"])' = Drawings!Open(askedDrawing["server"])
               /\ Drawings!Newest <= Drawings!Newest' /\ Drawings!Newest' \in Int
    <2>1. Drawings!Newest' = Drawings!Newest
      BY <1>0 DEF Drawings!Newest
    <2> QED
      BY <2>1, <1>0, <1>2, <1>3, OverlapsAssumption DEF ServersRequestStays, Drawings!Open
  <1>24. /\ form.photo \in 0..uploaded /\ photo \in 0..uploaded /\ 0 <= uploaded
         /\ 0 \notin Live /\ uploaded \in Nat /\ files \subseteq 1..uploaded
         /\ orphans \subseteq 1..uploaded
    BY <1>1, FieldsOfForms DEF PhotosNumbered, FilesNumbered, Live
  <1>25. CASE Drawings!PurgeUnkept
    <2>0. /\ form.at = "purge" /\ form' = Drawings!NoForm
          /\ Drawings!PurgePhoto(form.photo)
          /\ UNCHANGED <<askedDrawing, gallery, chosen, mascot, photo, saves, drawn>>
          /\ UNCHANGED <<drawing, uploaded>>
      BY <1>25 DEF Drawings!PurgeUnkept, Drawings!rows
    <2>1. form.photo \in 1..uploaded
      BY <2>0, <1>1, <1>24 DEF FormsPhoto, Drawings!None
    <2>2. /\ files' \subseteq 1..uploaded /\ orphans' \subseteq 1..uploaded
          /\ drawingFaults' \in Nat /\ Live' \subseteq Live \ {form.photo}
      <3>1. CASE files' = files \ {form.photo} /\ UNCHANGED orphans /\ UNCHANGED drawingFaults
        BY <3>1, <1>11, <1>24 DEF Live
      <3>2. CASE UNCHANGED files /\ orphans' = orphans \cup {form.photo}
                 /\ drawingFaults' = drawingFaults + 1
        BY <3>2, <2>1, <1>11, <1>24 DEF Live
      <3> QED
        BY <2>0, <3>1, <3>2 DEF Drawings!PurgePhoto, Drawings!Works, Drawings!Fails
    <2>3. FilesNumbered'
      BY <2>0, <2>2, <1>24 DEF FilesNumbered
    <2>4. FormTyped' /\ FormsPhoto' /\ form'.photo = 0
      BY <2>0, <1>21
    <2>5. PhotosNumbered' /\ DrawersPhotos'
      BY <2>0, <2>4, <1>0, <1>22, <1>24
    <2>6. PhotosAccounted'
      BY <2>0, <2>2, <2>4, <1>0, <1>23
    <2> QED
      BY <2>0, <2>3, <2>4, <2>5, <2>6, <1>4, <1>6, <1>7, <1>9
         DEF DrawingsInv, DrawingsTyped, PhotosInv
  <1>26. CASE Drawings!Restart
    <2>0. /\ form' = Drawings!NoForm /\ drawingFaults' = drawingFaults + 1
          /\ orphans' = (IF form.photo # 0 THEN orphans \cup {form.photo} ELSE orphans)
          /\ UNCHANGED <<askedDrawing, gallery, chosen, mascot, photo, saves, drawn>>
          /\ UNCHANGED <<files, drawing, uploaded>>
      BY <1>2, <1>26 DEF Drawings!Restart, Drawings!rows, Drawings!Fails
    <2>2. /\ orphans' \subseteq 1..uploaded /\ Live' \subseteq Live \ {form.photo}
      <3>1. CASE form.photo = 0
        BY <3>1, <2>0, <1>24 DEF Live
      <3>2. CASE form.photo # 0
        <4>1. form.photo \in 1..uploaded /\ orphans' = orphans \cup {form.photo} /\ files' = files
          BY <3>2, <2>0, <1>24
        <4>2. orphans' \subseteq 1..uploaded
          BY <4>1, <1>24
        <4>3. Live' \subseteq Live \ {form.photo}
          BY <4>1 DEF Live
        <4> QED
          BY <4>2, <4>3
      <3> QED
        BY <3>1, <3>2
    <2>3. FilesNumbered'
      BY <2>0, <2>2, <1>11, <1>24 DEF FilesNumbered
    <2>4. FormTyped' /\ FormsPhoto' /\ form'.photo = 0
      BY <2>0, <1>21
    <2>5. PhotosNumbered' /\ DrawersPhotos'
      BY <2>0, <2>4, <1>0, <1>22, <1>24
    <2>6. PhotosAccounted'
      BY <2>0, <2>2, <2>4, <1>0, <1>23
    <2> QED
      BY <2>0, <2>3, <2>4, <2>5, <2>6, <1>4, <1>6, <1>7, <1>9
         DEF DrawingsInv, DrawingsTyped, PhotosInv
  <1>27. CASE Drawings!PurgeKept
    <2>0. /\ form = Drawings!NoForm /\ form.photo = 0 /\ form.at = "none"
          /\ UNCHANGED <<askedDrawing, gallery, chosen, mascot, photo, saves, drawn>>
          /\ UNCHANGED <<orphans, drawing, uploaded>>
      BY <1>27, DrawingWords DEF Drawings!PurgeKept, Drawings!rows
    <2>1. CASE UNCHANGED <<form, files>> /\ drawingFaults' = drawingFaults + 1
      BY <2>0, <2>1, <1>4, <1>5, <1>6, <1>7, <1>8, <1>9, <1>10, <1>11
         DEF DrawingsInv, DrawingsTyped
    <2>2. ASSUME NEW at \in {"forget", "remove"}, form' = [Drawings!NoForm EXCEPT !.at = at],
                 files' = files \ {photo}, drawingFaults' = drawingFaults
          PROVE  DrawingsInv'
      <3>1. FormTyped' /\ form'.photo = 0 /\ form'.at = at
        BY <2>2, DrawingWords DEF FormTyped, Drawings!NoForm, PhotoForm
      <3>2. FormsPhoto'
        BY <2>0, <2>2, <3>1, <1>2 DEF FormsPhoto, Drawings!None
      <3>3. FilesNumbered' /\ Live' \subseteq Live \ {photo}
        BY <2>0, <2>2, <1>1 DEF FilesNumbered, Live
      <3>4. PhotosNumbered' /\ DrawersPhotos'
        BY <2>0, <3>1, <1>0, <1>22, <1>24
      <3>5. PhotosAccounted'
        BY <2>0, <3>1, <3>3, <1>0, <1>23
      <3> QED
        BY <2>0, <3>1, <3>2, <3>3, <3>4, <3>5, <1>4, <1>6, <1>7, <1>9
           DEF DrawingsInv, DrawingsTyped, PhotosInv
    <2> QED
      BY <2>1, <2>2, <1>27 DEF Drawings!PurgeKept, Drawings!Works, Drawings!Fails
  <1>28. CASE Drawings!ForgetPhoto
    <2>0. /\ form.at = "forget" /\ form' = Drawings!NoForm /\ photo' \in {photo, 0}
          /\ UNCHANGED <<askedDrawing, gallery, chosen, mascot, saves, drawn>>
          /\ UNCHANGED <<files, orphans, drawing, uploaded, drawingFaults>>
      BY <1>2, <1>28 DEF Drawings!ForgetPhoto
    <2>1. form'.photo = 0 /\ FormTyped' /\ FormsPhoto'
      BY <2>0, <1>21
    <2>2. FilesNumbered'
      BY <2>0, <1>11, <1>24 DEF FilesNumbered
    <2>3. PhotosNumbered' /\ DrawersPhotos'
      BY <2>0, <2>1, <1>0, <1>22, <1>24
    <2>4. PhotosAccounted'
      <3>1. Live' = Live /\ photo \notin Live
        BY <2>0, <1>1 DEF Live, FormsPhoto
      <3>2. form.photo \notin Live
        BY <2>0, <1>1, <1>24 DEF FormsPhoto, Drawings!None
      <3> QED
        BY <2>0, <2>1, <3>1, <3>2, <1>0, <1>23
    <2> QED
      BY <2>0, <2>1, <2>2, <2>3, <2>4, <1>4, <1>6, <1>7, <1>9
         DEF DrawingsInv, DrawingsTyped, PhotosInv
  <1>29. CASE Drawings!RemoveEverything
    <2> DEFINE r == [Drawings!NoRequest EXCEPT !.no = askedDrawing["person"].no]
    <2>0. /\ form.at = "remove" /\ form' = Drawings!NoForm /\ photo' = 0
          /\ askedDrawing' = [askedDrawing EXCEPT !["person"] = r]
          /\ gallery' = [gallery EXCEPT !["person"] = {}]
          /\ chosen' = (IF chosen \in gallery["person"] THEN 0 ELSE chosen)
          /\ mascot' = (IF mascot \in gallery["person"] THEN 0 ELSE mascot)
          /\ UNCHANGED <<saves, drawn, files, orphans, drawing, uploaded, drawingFaults>>
      BY <1>2, <1>29 DEF Drawings!RemoveEverything, Drawings!DropShown
    <2>1. r \in Asking /\ r.no = askedDrawing["person"].no /\ r.photo = 0 /\ r.state = "none"
      <3>1. askedDrawing["person"].no \in 0..MaxAsked
        BY <1>1, <1>2, AskedFields
      <3> QED
        BY <3>1, <1>2 DEF Drawings!NoRequest, Asking, AskKinds
    <2> HIDE DEF r
    <2>2. /\ AskedTyped' /\ askedDrawing'["person"] = r
          /\ askedDrawing'["server"] = askedDrawing["server"]
      BY <2>0, <2>1, <1>1, <1>2 DEF AskedTyped
    <2>3. /\ ServersRequestStays /\ askedDrawing'["person"].photo = 0
          /\ Drawings!Open(askedDrawing["server"])' = Drawings!Open(askedDrawing["server"])
          /\ ~Drawings!Open(askedDrawing["person"])'
          /\ Drawings!Newest <= Drawings!Newest' /\ Drawings!Newest' \in Int
      <3>1. Drawings!Newest' = Drawings!Newest
        BY <2>1, <2>2 DEF Drawings!Newest
      <3> QED
        BY <3>1, <2>1, <2>2, <1>3, OverlapsAssumption DEF ServersRequestStays, Drawings!Open
    <2>4. SavedOnce'
      BY <2>0, <2>1, <2>2, <2>3, <1>1, <1>2, NothingSaved
    <2>5. form'.photo = 0 /\ FormTyped' /\ FormsPhoto'
      BY <2>0, <1>21
    <2>6. FilesNumbered'
      BY <2>0, <1>11, <1>24 DEF FilesNumbered
    <2>7. PhotosNumbered' /\ DrawersPhotos'
      BY <2>0, <2>3, <2>5, <1>22, <1>24
    <2>8. PhotosAccounted'
      <3>1. Live' = Live /\ photo \notin Live
        BY <2>0, <1>1 DEF Live, FormsPhoto
      <3>2. form.photo \notin Live
        BY <2>0, <1>1, <1>24 DEF FormsPhoto, Drawings!None
      <3> QED
        BY <2>0, <2>3, <2>5, <3>1, <3>2, <1>23
    <2>9. /\ GalleryTyped' /\ gallery'["person"] = {} /\ gallery'["server"] = gallery["server"]
      <3>1. gallery' \in [Owner -> SUBSET Nat] /\ \A u \in Owner : gallery'[u] \subseteq gallery[u]
        BY <2>0, <1>1 DEF GalleryTyped
      <3> QED
        BY <3>1, <2>0, <1>1, <1>2, GallerySmaller DEF GalleryTyped
    <2>10. Shown'
      BY <2>0, <2>9, <1>1, <1>2 DEF Shown, Drawings!None
    <2> QED
      BY <2>0, <2>2, <2>4, <2>5, <2>6, <2>7, <2>8, <2>9, <2>10, <1>6
         DEF DrawingsInv, DrawingsTyped, PhotosInv
  <1>30. CASE Drawings!RequestFromPhoto
    <2>0. /\ form.at = "request" /\ UNCHANGED <<files, orphans, drawing, uploaded, drawingFaults>>
          /\ form.photo \in 1..uploaded /\ form.photo \in Nat
          /\ form.owner \in Owner /\ form.kind \in AskKinds
      BY <1>1, <1>30, <1>24, FieldsOfForms DEF Drawings!RequestFromPhoto, FormsPhoto
    <2>10. Live' = Live
      BY <2>0 DEF Live
    <2>11. ASSUME NEW p \in 1..uploaded, form' = [form EXCEPT !.at = "purge", !.photo = p]
           PROVE  FormTyped' /\ FormsPhoto' /\ form'.photo = p
      <3>1. p \in Nat
        BY <1>24
      <3>2. form' \in PhotoForm /\ form'.photo = p /\ form'.at = "purge"
        BY <3>1, <2>11, <1>1 DEF FormTyped, PhotoForm
      <3> QED
        BY <3>2, <1>2 DEF FormTyped, FormsPhoto
    <2>1. CASE /\ form' = [form EXCEPT !.at = "purge"] /\ UNCHANGED Drawings!rows
      <3>1. /\ UNCHANGED <<askedDrawing, gallery, chosen, mascot, photo, saves, drawn>>
            /\ form' = [form EXCEPT !.at = "purge", !.photo = form.photo]
        BY <2>1, <1>1 DEF Drawings!rows, FormTyped, PhotoForm
      <3>2. FormTyped' /\ FormsPhoto' /\ form'.photo = form.photo
        BY <2>0, <2>11, <3>1
      <3>3. PhotosNumbered' /\ DrawersPhotos'
        BY <2>0, <3>1, <3>2, <1>0, <1>22, <1>24
      <3>4. PhotosAccounted'
        <4>1. Live' \subseteq Live \ {0}
          BY <2>10, <1>24
        <4>2. \A f \in Live \ {0} : f \in {photo, form.photo} => f \in {photo', form'.photo}
          BY <3>1, <3>2
        <4> QED
          BY <4>1, <4>2, <3>1, <2>0, <1>0, <1>23
      <3> QED
        BY <2>0, <3>1, <3>2, <3>3, <3>4, <1>4, <1>6, <1>7, <1>8, <1>9, <1>11
           DEF DrawingsInv, DrawingsTyped, PhotosInv
    <2>2. ASSUME NEW o \in Owner, NEW k \in AskKinds, o = form.owner,
                 ~Drawings!Open(askedDrawing[o]),
                 Drawings!Ask(o, k, 0, form.photo),
                 photo' = (IF o = "person" THEN form.photo ELSE photo),
                 form' = IF o = "person" /\ photo # 0
                         THEN [form EXCEPT !.at = "purge", !.photo = photo] ELSE Drawings!NoForm
          PROVE  DrawingsInv'
      <3>1. /\ AskedTyped' /\ SavedOnce'
            /\ askedDrawing'[o].photo = (IF o = "server" THEN form.photo ELSE 0)
            /\ askedDrawing'[o].no = Drawings!Newest + 1 /\ Drawings!Open(askedDrawing[o])'
            /\ \A u \in Owner \ {o} : askedDrawing'[u] = askedDrawing[u]
            /\ Drawings!Newest' = Drawings!Newest + 1
            /\ UNCHANGED <<gallery, chosen, mascot, saves, drawn>>
        <4>1. PICK p \in Nat, b \in Nat : p = form.photo /\ b = 0
          BY <2>0
        <4>2. Drawings!Ask(o, k, b, p)
          BY <4>1, <2>2
        <4>3. /\ AskedTyped' /\ SavedOnce'
              /\ askedDrawing'[o].photo = (IF o = "server" THEN p ELSE Drawings!None)
              /\ askedDrawing'[o].no = Drawings!Newest + 1 /\ Drawings!Open(askedDrawing[o])'
              /\ \A u \in Owner \ {o} : askedDrawing'[u] = askedDrawing[u]
              /\ Drawings!Newest' = Drawings!Newest + 1
              /\ UNCHANGED <<gallery, chosen, mascot, saves, drawn>>
          BY <4>2, <1>1, ARequestIsMade
        <4> QED
          BY <4>1, <4>3, <1>2
      <3>2. FilesNumbered'
        BY <2>0, <2>2, <1>11, <1>24 DEF FilesNumbered
      <3>3. Drawings!Newest <= Drawings!Newest' /\ Drawings!Newest' \in Int
        BY <3>1, <1>3, OverlapsAssumption
      <3>4. CASE o = "person"
        <4>1. ServersRequestStays /\ askedDrawing'["person"].photo = 0
              /\ Drawings!Open(askedDrawing["server"])' = Drawings!Open(askedDrawing["server"])
          BY <3>1, <3>4, <1>2 DEF ServersRequestStays, Drawings!Open
        <4>2. /\ FormTyped' /\ FormsPhoto' /\ form'.photo = photo /\ form'.photo <= uploaded
          <5>1. CASE photo = 0
            BY <5>1, <2>2, <1>21, <1>24
          <5>2. CASE photo # 0
            <6>1. PICK p \in 1..uploaded : p = photo
              BY <5>2, <1>24
            <6>2. form' = [form EXCEPT !.at = "purge", !.photo = p]
              BY <6>1, <5>2, <2>2, <3>4
            <6>3. FormTyped' /\ FormsPhoto' /\ form'.photo = p
              BY <6>2, <2>11
            <6> QED
              BY <6>1, <6>3, <1>24
          <5> QED
            BY <5>1, <5>2
        <4>3. PhotosNumbered' /\ DrawersPhotos'
          BY <2>0, <3>3, <4>1, <4>2, <1>22
        <4>4. PhotosAccounted'
          <5>1. Live' \subseteq Live \ {0}
            BY <2>10, <1>24
          <5>2. \A f \in Live \ {0} : f \in {photo, form.photo} => f \in {photo', form'.photo}
            BY <2>2, <3>4, <4>2
          <5> QED
            BY <5>1, <5>2, <4>1, <2>0, <1>23
        <4> QED
          BY <2>0, <3>1, <3>2, <4>2, <4>3, <4>4, <1>6, <1>7, <1>9
             DEF DrawingsInv, DrawingsTyped, PhotosInv
      <3>5. CASE o = "server"
        <4>1. /\ askedDrawing'["person"] = askedDrawing["person"]
              /\ askedDrawing'["server"].photo = form.photo
              /\ askedDrawing'["server"].no = Drawings!Newest + 1
              /\ Drawings!Open(askedDrawing["server"])' /\ form' = Drawings!NoForm
              /\ photo' = photo
          BY <3>1, <3>5, <2>2, <1>2
        <4>2. \A d \in Calls : drawing[d].no \in Int /\ drawing[d].no <= Drawings!Newest
          BY <1>1, FieldsOfForms, OverlapsAssumption DEF PhotosNumbered
        <4>3. FormTyped' /\ FormsPhoto' /\ form'.photo = 0
          BY <4>1, <1>21
        <4>4. PhotosNumbered'
          BY <4>1, <4>2, <4>3, <2>0, <3>1, <1>1, <1>2, <1>3, <1>24, OverlapsAssumption
             DEF PhotosNumbered, Drawings!None
        <4>5. DrawersPhotos'
          <5>1. \A d \in Calls : drawing[d].photo # form.photo
            BY <2>0, <1>1 DEF FormsPhoto
          <5> QED
            BY <5>1, <4>1, <4>2, <2>0, <1>1, <1>3, OverlapsAssumption
               DEF DrawersPhotos, Drawings!None
        <4>6. PhotosAccounted'
          <5>1. \A f : Purging(f)' <=> Purging(f)
            BY <2>0 DEF Purging
          <5>2. ASSUME NEW f \in Live' PROVE Accounted(f)'
            <6>1. f = photo \/ f = askedDrawing["server"].photo \/ f = form.photo \/ Purging(f)
              BY <2>10, <5>2, <1>1 DEF PhotosAccounted, Accounted
            <6>2. f = askedDrawing["server"].photo => Purging(f)
              BY <2>2, <2>10, <3>5, <5>2, <1>1 DEF PhotosAccounted
            <6> QED
              BY <6>1, <6>2, <5>1, <4>1 DEF Accounted
          <5> QED
            BY <5>2, <4>1 DEF PhotosAccounted
        <4> QED
          BY <2>0, <3>1, <3>2, <4>3, <4>4, <4>5, <4>6, <1>6, <1>7, <1>9
             DEF DrawingsInv, DrawingsTyped, PhotosInv
      <3> QED
        BY <3>4, <3>5, <1>2
    <2> QED
      BY <2>0, <2>1, <2>2, <1>2, <1>30 DEF Drawings!RequestFromPhoto
  <1>31. ASSUME NEW o \in Drawings!Owner, Drawings!HourPasses(o)
         PROVE  DrawingsInv'
    <2>0. /\ askedDrawing[o].state = "drawing"
          /\ askedDrawing' = [askedDrawing EXCEPT ![o].stale = TRUE]
          /\ UNCHANGED <<gallery, chosen, mascot, photo, saves, drawn, files, orphans, form>>
          /\ UNCHANGED <<drawing, uploaded, drawingFaults>>
      BY <1>31 DEF Drawings!HourPasses
    <2>1. /\ AskedTyped'
          /\ \A u \in Owner : /\ askedDrawing'[u].no = askedDrawing[u].no
                              /\ askedDrawing'[u].photo = askedDrawing[u].photo
                              /\ askedDrawing'[u].state = askedDrawing[u].state
      <3>1. [askedDrawing[o] EXCEPT !.stale = TRUE] \in Asking
        BY <1>1, <1>2, <1>31 DEF AskedTyped, Asking
      <3> QED
        BY <2>0, <3>1, <1>1, <1>2, <1>31 DEF AskedTyped, Asking
    <2>2. /\ ServersRequestStays /\ askedDrawing'["person"].photo = Drawings!None
          /\ Drawings!Newest <= Drawings!Newest'
          /\ \A u \in Owner : Drawings!Open(askedDrawing[u])' = Drawings!Open(askedDrawing[u])
      <3>1. Drawings!Newest' = Drawings!Newest
        BY <2>1, <1>2 DEF Drawings!Newest
      <3> QED
        BY <3>1, <2>1, <1>2, <1>3, OverlapsAssumption DEF ServersRequestStays, Drawings!Open
    <2>3. SavedOnce'
      BY <2>0, <2>1, <2>2, <1>1, NothingSaved
    <2>4. PhotosInv'
      BY <2>0, <2>1, <2>2, <1>1, <1>2, PhotosStill
    <2> QED
      BY <2>0, <2>1, <2>3, <2>4, <1>5, <1>6, <1>7, <1>8, <1>9, <1>11
         DEF DrawingsInv, DrawingsTyped
  <1>32. ASSUME NEW d \in Calls PROVE /\ drawing[d] \in DrawerRun /\ drawing[d].owner \in Owner
                                      /\ drawing[d].no \in 0..MaxAsked /\ drawing[d].photo \in Nat
                                      /\ drawing[d].photo <= uploaded
                                      /\ drawing[d].no <= Drawings!Newest
                                      /\ drawing[d].owner = "person" => drawing[d].photo = 0
                                      /\ form.at = "request" => drawing[d].photo # form.photo
    BY <1>1, <1>2, <1>32, FieldsOfForms DEF PhotosNumbered, FormsPhoto
  \* A drawer gives up, with the requests as they are.
  <1>33. ASSUME NEW d \in Calls, drawing' = [drawing EXCEPT ![d] = Drawings!NoDrawing],
                drawing[d].at # "purge",
                UNCHANGED <<askedDrawing, photo, files, orphans, form, uploaded>>
         PROVE  DrawersTyped' /\ PhotosInv'
    <2>1. /\ DrawersTyped'
      BY <1>1, <1>33, DrawingWords DEF DrawersTyped
    <2>2. AskedTyped' /\ ServersRequestStays
          /\ askedDrawing'["person"].no = askedDrawing["person"].no
          /\ askedDrawing'["person"].photo = Drawings!None
          /\ Drawings!Open(askedDrawing["server"])' = Drawings!Open(askedDrawing["server"])
      BY <1>1, <1>2, <1>33 DEF AskedTyped, ServersRequestStays, Drawings!Open
    <2>3. PICK r \in DrawerRun : r = Drawings!NoDrawing /\ r.at = "idle" /\ r.photo = 0 /\ r.no = 0
      BY DrawingWords
    <2>4. r.photo <= uploaded /\ r.no <= Drawings!Newest
          /\ (form.at = "request" => r.photo # form.photo)
          /\ drawing' = [drawing EXCEPT ![d] = r]
      BY <2>3, <1>1, <1>3, <1>24, <1>33, OverlapsAssumption DEF FormsPhoto
    <2> QED
      BY <2>1, <2>2, <2>3, <2>4, <1>1, <1>2, <1>33, ADrawerGoes
  <1>34. ASSUME NEW d \in Calls, Drawings!Killed(d)
         PROVE  DrawingsInv'
    <2>0. /\ drawing[d].at # "purge" /\ drawing' = [drawing EXCEPT ![d] = Drawings!NoDrawing]
          /\ drawingFaults' = drawingFaults + 1
          /\ UNCHANGED <<askedDrawing, gallery, chosen, mascot, photo, saves, drawn>>
          /\ UNCHANGED <<files, orphans, form, uploaded>>
      BY <1>34 DEF Drawings!Killed, Drawings!rows, Drawings!Fails
    <2>1. DrawersTyped' /\ PhotosInv'
      BY <2>0, <1>33
    <2> QED
      BY <2>0, <2>1, <1>4, <1>5, <1>7, <1>8, <1>9, <1>11 DEF DrawingsInv, DrawingsTyped
  <1>35. ASSUME NEW d \in Calls, NEW to \in {"draw", "save", "fail"},
                drawing' = [drawing EXCEPT ![d] = [drawing[d] EXCEPT !.at = to]],
                drawing[d].at \in {"start", "draw"},
                AskedTyped', ServersRequestStays,
                askedDrawing'["person"].no = askedDrawing["person"].no,
                askedDrawing'["person"].photo = 0,
                Drawings!Open(askedDrawing["server"])' = Drawings!Open(askedDrawing["server"]),
                UNCHANGED <<photo, files, orphans, form, uploaded>>
         PROVE  DrawersTyped' /\ PhotosInv'
    <2>1. PICK r : r = [drawing[d] EXCEPT !.at = to]
      OBVIOUS
    <2>2. /\ r \in DrawerRun /\ r.at = to /\ r.owner = drawing[d].owner /\ r.no = drawing[d].no
          /\ r.photo = drawing[d].photo
      BY <2>1, <1>32 DEF DrawerRun
    <2>3. drawing' = [drawing EXCEPT ![d] = r]
      BY <2>1, <1>35
    <2>4. DrawersTyped'
      BY <2>2, <2>3, <1>1 DEF DrawersTyped
    <2>5. r.owner = "server" /\ r.no = askedDrawing["server"].no
            /\ Drawings!Open(askedDrawing["server"])' => r.photo = askedDrawing["server"].photo
      BY <2>2, <1>1, <1>35 DEF DrawersPhotos
    <2>6. /\ r.photo <= uploaded /\ (r.owner = "person" => r.photo = Drawings!None)
          /\ r.no <= Drawings!Newest /\ (form.at = "request" => r.photo # form.photo)
          /\ drawing[d].at # "purge" /\ r.at # "purge"
          /\ askedDrawing'["person"].photo = Drawings!None
      BY <2>2, <1>2, <1>32, <1>35
    <2>7. PhotosInv'
      BY <2>2, <2>3, <2>5, <2>6, <1>1, <1>35, ADrawerGoes
    <2> QED
      BY <2>4, <2>7
  <1>36. ASSUME NEW d \in Calls, Drawings!Draw(d)
         PROVE  DrawingsInv'
    <2>0. /\ drawing[d].at = "draw" /\ drawingFaults' \in Nat
          /\ UNCHANGED <<askedDrawing, gallery, chosen, mascot, photo, saves, drawn>>
          /\ UNCHANGED <<files, orphans, form, uploaded>>
          /\ \/ drawing' = [drawing EXCEPT ![d].at = "save"]
             \/ drawing' = [drawing EXCEPT ![d].at = "fail"]
      BY <1>11, <1>36 DEF Drawings!Draw, Drawings!rows, Drawings!Fails, Drawings!Works
    <2>1. PICK to \in {"save", "fail"} :
            drawing' = [drawing EXCEPT ![d] = [drawing[d] EXCEPT !.at = to]]
      BY <2>0
    <2>2. AskedTyped' /\ SavedOnce'
      BY <2>0, <1>4
    <2>3. askedDrawing'["person"].no = askedDrawing["person"].no /\ ServersRequestStays
          /\ askedDrawing'["person"].photo = 0
          /\ Drawings!Open(askedDrawing["server"])' = Drawings!Open(askedDrawing["server"])
      BY <2>0, <1>0
    <2>4. DrawersTyped' /\ PhotosInv'
      BY <2>0, <2>1, <2>2, <2>3, <1>35
    <2> QED
      BY <2>0, <2>2, <2>4, <1>5, <1>7, <1>8, <1>9 DEF DrawingsInv, DrawingsTyped
  <1>37. ASSUME NEW d \in Calls, Drawings!NextRequest(d)
         PROVE  DrawingsInv'
    <2>0. /\ drawing[d].at = "idle"
          /\ UNCHANGED <<askedDrawing, gallery, chosen, mascot, photo, saves, drawn>>
          /\ UNCHANGED <<files, orphans, form, uploaded, drawingFaults>>
      BY <1>37 DEF Drawings!NextRequest, Drawings!rows
    <2>1. PICK o \in Owner, has \in BOOLEAN :
            drawing' = [drawing EXCEPT ![d] =
              [at |-> "start", owner |-> o, no |-> askedDrawing[o].no, hasPhoto |-> has,
               photo |-> askedDrawing[o].photo]]
      <3>1. PICK o \in Owner :
              drawing' = [drawing EXCEPT ![d] =
                [at |-> "start", owner |-> o, no |-> askedDrawing[o].no,
                 hasPhoto |-> IF o = "person" THEN photo # Drawings!None
                              ELSE askedDrawing[o].photo # Drawings!None,
                 photo |-> askedDrawing[o].photo]]
        BY <1>2, <1>37 DEF Drawings!NextRequest
      <3>2. PICK has : has = IF o = "person" THEN photo # Drawings!None
                             ELSE askedDrawing[o].photo # Drawings!None
        OBVIOUS
      <3>3. has \in BOOLEAN
        BY <3>2
      <3>4. drawing' = [drawing EXCEPT ![d] =
              [at |-> "start", owner |-> o, no |-> askedDrawing[o].no, hasPhoto |-> has,
               photo |-> askedDrawing[o].photo]]
        BY <3>1, <3>2
      <3> QED
        BY <3>3, <3>4
    <2>2. PICK r : r = [at |-> "start", owner |-> o, no |-> askedDrawing[o].no, hasPhoto |-> has,
                        photo |-> askedDrawing[o].photo]
      OBVIOUS
    <2>3. /\ r \in DrawerRun /\ r.at = "start" /\ r.owner = o /\ r.no = askedDrawing[o].no
          /\ r.photo = askedDrawing[o].photo
      BY <2>1, <2>2, <1>1, AskedFields DEF DrawerRun
    <2>4. drawing' = [drawing EXCEPT ![d] = r]
      BY <2>1, <2>2
    <2>5. DrawersTyped' /\ AskedTyped' /\ SavedOnce'
      BY <2>0, <2>3, <2>4, <1>1, <1>4 DEF DrawersTyped
    <2>6. /\ r.photo <= uploaded /\ (r.owner = "person" => r.photo = 0)
          /\ r.no <= Drawings!Newest /\ (form.at = "request" => r.photo # form.photo)
          /\ r.owner = "server" => r.photo = askedDrawing["server"].photo
      <3>1. CASE o = "person"
        BY <3>1, <2>3, <1>1, <1>2, <1>24, NewestIs DEF FormsPhoto
      <3>2. CASE o = "server"
        BY <3>2, <2>3, <1>1, <1>2, NewestIs DEF FormsPhoto, PhotosNumbered
      <3> QED
        BY <3>1, <3>2, <1>2
    <2>7. PhotosInv'
      BY <2>0, <2>3, <2>4, <2>5, <2>6, <1>0, <1>1, <1>2, ADrawerGoes
    <2> QED
      BY <2>0, <2>5, <2>7, <1>5, <1>7, <1>8, <1>9, <1>11 DEF DrawingsInv, DrawingsTyped
  <1>38. ASSUME NEW o \in Owner, NEW r \in Asking,
                r.no = askedDrawing[o].no, r.photo = askedDrawing[o].photo,
                askedDrawing' = [askedDrawing EXCEPT ![o] = r]
         PROVE  /\ AskedTyped' /\ askedDrawing'[o] = r
                /\ \A u \in Owner : /\ askedDrawing'[u].no = askedDrawing[u].no
                                    /\ askedDrawing'[u].photo = askedDrawing[u].photo
                                    /\ u # o => askedDrawing'[u] = askedDrawing[u]
                /\ ServersRequestStays /\ askedDrawing'["person"].photo = 0
    <2>1. AskedTyped' /\ \A u \in Owner : askedDrawing'[u] = IF u = o THEN r ELSE askedDrawing[u]
      BY <1>38, <1>1 DEF AskedTyped
    <2> QED
      BY <2>1, <1>2, <1>38 DEF ServersRequestStays
  <1>39. ASSUME NEW d \in Calls, Drawings!Start(d)
         PROVE  DrawingsInv'
    <2> DEFINE o == drawing[d].owner
               mayStart == Drawings!Holds(d, {"waiting"})
                           \/ (Drawings!Holds(d, {"drawing"}) /\ askedDrawing[o].stale)
    <2>0. /\ drawing[d].at = "start"
          /\ UNCHANGED <<gallery, chosen, mascot, photo, saves, drawn>>
          /\ UNCHANGED <<files, orphans, form, uploaded, drawingFaults>>
      BY <1>39 DEF Drawings!Start
    <2>1. CASE mayStart
      <3>1. /\ askedDrawing' = [askedDrawing EXCEPT ![o].state = "drawing", ![o].stale = FALSE]
            /\ drawing' = [drawing EXCEPT ![d] = [@ EXCEPT !.at = "draw"]]
            /\ Drawings!Open(askedDrawing[o])
        BY <2>1, <1>39 DEF Drawings!Start, Drawings!Holds, Drawings!Open
      <3>2. PICK u \in Owner : u = drawing[d].owner
        BY <1>32
      <3>3. askedDrawing' = [askedDrawing EXCEPT
                               ![u] = [@ EXCEPT !.state = "drawing", !.stale = FALSE]]
        BY <3>1, <3>2, <1>1 DEF AskedTyped
      <3>4. /\ AskedTyped' /\ ServersRequestStays /\ askedDrawing'["person"].photo = 0
            /\ \A v \in Owner : /\ askedDrawing'[v].no = askedDrawing[v].no
                                /\ v # u => askedDrawing'[v] = askedDrawing[v]
            /\ askedDrawing'[u].state = "drawing"
        <4>1. PICK r : r = [askedDrawing[u] EXCEPT !.state = "drawing", !.stale = FALSE]
          OBVIOUS
        <4>2. /\ r \in Asking /\ r.no = askedDrawing[u].no /\ r.photo = askedDrawing[u].photo
              /\ r.state = "drawing"
          BY <4>1, <1>1 DEF AskedTyped, Asking
        <4> QED
          BY <3>3, <4>1, <4>2, <1>38
      <3>5. \A v \in Owner : Drawings!Open(askedDrawing[v])' = Drawings!Open(askedDrawing[v])
        <4>1. Drawings!Open(askedDrawing[u])
          BY <3>1, <3>2
        <4>2. Drawings!Open(askedDrawing[u])'
          BY <3>4 DEF Drawings!Open
        <4>3. ASSUME NEW v \in Owner \ {u}
              PROVE  Drawings!Open(askedDrawing[v])' = Drawings!Open(askedDrawing[v])
          <5>1. askedDrawing'[v] = askedDrawing[v]
            BY <3>4
          <5> QED
            BY ONLY <5>1 DEF Drawings!Open
        <4>4. Drawings!Open(askedDrawing[u])' = Drawings!Open(askedDrawing[u])
          BY ONLY <4>1, <4>2 DEF Drawings!Open
        <4> QED
          BY <4>3, <4>4
      <3>6. DrawersTyped' /\ PhotosInv'
        BY <2>0, <3>1, <3>4, <3>5, <1>2, <1>35
      <3>7. SavedOnce'
        BY <2>0, <3>4, <3>5, <1>1, NothingSaved
      <3> QED
        BY <2>0, <3>4, <3>6, <3>7, <1>5, <1>7, <1>8, <1>9, <1>11 DEF DrawingsInv, DrawingsTyped
    <2>2. CASE ~mayStart
      <3>1. UNCHANGED askedDrawing /\ drawing' = [drawing EXCEPT ![d] = Drawings!NoDrawing]
        BY <2>2, <1>39 DEF Drawings!Start
      <3>2. DrawersTyped' /\ PhotosInv'
        BY <2>0, <3>1, <1>33
      <3> QED
        BY <2>0, <3>1, <3>2, <1>4, <1>5, <1>7, <1>8, <1>9, <1>11 DEF DrawingsInv, DrawingsTyped
    <2> QED
      BY <2>1, <2>2
  \* A request under way is settled by the drawer that holds it.
  <1>40. ASSUME NEW d \in Calls, NEW s \in {"done", "failed"}, Drawings!Holds(d, {"drawing"}),
                drawing[d].at \in {"save", "fail"}, Drawings!Move(d, s), Drawings!Left(d),
                UNCHANGED <<photo, files, orphans, form, uploaded>>
         PROVE  /\ AskedTyped' /\ DrawersTyped' /\ PhotosInv'
                /\ \A v \in Owner : /\ askedDrawing'[v].no = askedDrawing[v].no
                                    /\ v # drawing[d].owner => askedDrawing'[v] = askedDrawing[v]
                /\ askedDrawing'[drawing[d].owner].state = s
    <2>1. PICK u \in Owner : u = drawing[d].owner
      BY <1>32
    <2>2. /\ askedDrawing[u].state = "drawing" /\ askedDrawing[u].no = drawing[d].no
          /\ Drawings!Open(askedDrawing[u])
      BY <2>1, <1>40 DEF Drawings!Holds, Drawings!Open
    <2>3. PICK b \in BOOLEAN : b = askedDrawing[u].stale
      BY <1>1, AskedFields
    <2>4. PICK m : m = [askedDrawing[u] EXCEPT !.state = s, !.stale = b]
      OBVIOUS
    <2>5. /\ AskedTyped' /\ ServersRequestStays /\ askedDrawing'["person"].photo = 0
          /\ \A v \in Owner : /\ askedDrawing'[v].no = askedDrawing[v].no
                              /\ v # u => askedDrawing'[v] = askedDrawing[v]
          /\ askedDrawing'[u].state = s
      <3>1. /\ m \in Asking /\ m.state = s
            /\ m.no = askedDrawing[u].no /\ m.photo = askedDrawing[u].photo
        BY <2>4, <1>1 DEF AskedTyped, Asking
      <3>2. askedDrawing' = [askedDrawing EXCEPT ![u] = m]
        BY <2>1, <2>3, <2>4, <1>1, <1>40 DEF Drawings!Move, AskedTyped, Asking
      <3> QED
        BY <3>1, <3>2, <1>38
    <2>6. /\ ~Drawings!Open(askedDrawing[u])'
          /\ Drawings!Open(askedDrawing["server"])' => Drawings!Open(askedDrawing["server"])
      BY <2>2, <2>5, <1>2 DEF Drawings!Open
    <2>7. PICK r : r = IF drawing[d].photo # 0 THEN [drawing[d] EXCEPT !.at = "purge"]
                       ELSE Drawings!NoDrawing
      OBVIOUS
    <2>8. /\ r \in DrawerRun /\ r.photo = drawing[d].photo
          /\ r.at = (IF drawing[d].photo # 0 THEN "purge" ELSE "idle")
          /\ r.no <= Drawings!Newest /\ (r.owner = "person" => r.photo = 0)
      <3>1. CASE drawing[d].photo = 0
        BY <3>1, <2>7, <1>3, <1>32, DrawingWords, OverlapsAssumption
      <3>2. CASE drawing[d].photo # 0
        BY <3>2, <2>7, <1>32 DEF DrawerRun
      <3> QED
        BY <3>1, <3>2
    <2>9. drawing' = [drawing EXCEPT ![d] = r]
      BY <2>7, <1>1, <1>2, <1>40 DEF Drawings!Left, DrawersTyped
    <2>10. DrawersTyped'
      BY <2>8, <2>9, <1>1 DEF DrawersTyped
    <2>11. u = "server" => drawing[d].photo = askedDrawing["server"].photo
      BY <2>1, <2>2, <1>1, <1>40 DEF DrawersPhotos
    <2>12. r.at = "purge" => u = "server" /\ r.photo # Drawings!None
      BY <2>1, <2>8, <1>2, <1>32
    <2>13. Drawings!Open(askedDrawing["server"]) =>
             \/ Drawings!Open(askedDrawing["server"])'
             \/ askedDrawing["server"].photo = Drawings!None
             \/ r.at = "purge" /\ r.photo = askedDrawing["server"].photo
      <3>1. CASE u = "server"
        BY <3>1, <2>8, <2>11, <1>2
      <3>2. CASE u # "server"
        BY <3>2, <2>5, <1>2 DEF Drawings!Open
      <3> QED
        BY <3>1, <3>2
    <2>14. /\ r.at = "purge" => ~Drawings!Open(askedDrawing["server"])'
           /\ r.at \notin {"start", "draw", "save", "fail"}
      BY <2>6, <2>8, <2>12
    <2>15. /\ r.photo <= uploaded /\ (form.at = "request" => r.photo # form.photo)
           /\ drawing[d].at # "purge" /\ askedDrawing'["person"].photo = Drawings!None
           /\ askedDrawing'["person"].no = askedDrawing["person"].no
      BY <2>5, <2>8, <1>2, <1>32, <1>40
    <2>16. PhotosInv'
      BY <2>5, <2>6, <2>8, <2>9, <2>12, <2>13, <2>14, <2>15, <1>1, <1>2, <1>40, ADrawerGoes
    <2> QED
      BY <2>1, <2>5, <2>10, <2>16
  <1>41. ASSUME NEW d \in Calls, Drawings!ReportFailed(d)
         PROVE  DrawingsInv'
    <2>0. /\ drawing[d].at = "fail"
          /\ UNCHANGED <<gallery, chosen, mascot, photo, saves, drawn>>
          /\ UNCHANGED <<files, orphans, form, uploaded, drawingFaults>>
      BY <1>41 DEF Drawings!ReportFailed
    <2>1. CASE Drawings!Holds(d, {"drawing"})
      <3>1. Drawings!Move(d, "failed") /\ Drawings!Left(d)
        BY <2>1, <1>41 DEF Drawings!ReportFailed
      <3>2. /\ AskedTyped' /\ DrawersTyped' /\ PhotosInv'
            /\ \A v \in Owner : /\ askedDrawing'[v].no = askedDrawing[v].no
                                /\ v # drawing[d].owner => askedDrawing'[v] = askedDrawing[v]
            /\ askedDrawing'[drawing[d].owner].state = "failed"
        BY <2>0, <2>1, <3>1, <1>40
      <3>3. \A v \in Owner : Drawings!Open(askedDrawing[v])' => Drawings!Open(askedDrawing[v])
        BY <3>2 DEF Drawings!Open
      <3>4. SavedOnce'
        BY <2>0, <3>2, <3>3, <1>1, NothingSaved
      <3> QED
        BY <2>0, <3>2, <3>4, <1>5, <1>7, <1>8, <1>9, <1>11 DEF DrawingsInv, DrawingsTyped
    <2>2. CASE ~Drawings!Holds(d, {"drawing"})
      <3>1. UNCHANGED askedDrawing /\ drawing' = [drawing EXCEPT ![d] = Drawings!NoDrawing]
        BY <2>2, <1>41 DEF Drawings!ReportFailed
      <3>2. DrawersTyped' /\ PhotosInv'
        BY <2>0, <3>1, <1>33
      <3> QED
        BY <2>0, <3>1, <3>2, <1>4, <1>5, <1>7, <1>8, <1>9, <1>11 DEF DrawingsInv, DrawingsTyped
    <2> QED
      BY <2>1, <2>2
  <1>42. ASSUME NEW d \in Calls, Drawings!SaveDrawing(d)
         PROVE  DrawingsInv'
    <2>0. /\ drawing[d].at = "save"
          /\ UNCHANGED <<chosen, photo, files, orphans, form, uploaded, drawingFaults>>
      BY <1>42 DEF Drawings!SaveDrawing
    <2>1. CASE Drawings!Holds(d, {"drawing"}) /\ Drawings!FinishRequest(d)
      <3>0. PICK o \in Owner : o = drawing[d].owner
        BY <1>32
      <3>1. /\ Drawings!Move(d, "done") /\ Drawings!Left(d) /\ drawn' = drawn + 1
            /\ gallery' = [gallery EXCEPT ![o] = @ \cup {drawn + 1}]
            /\ saves' = [saves EXCEPT ![drawing[d].no] = @ + 1]
            /\ mascot' \in {mascot, drawn + 1}
            /\ mascot' = drawn + 1 => o = "server" \/ mascot = drawn + 1
        BY <2>1, <3>0 DEF Drawings!FinishRequest
      <3>2. /\ AskedTyped' /\ DrawersTyped' /\ PhotosInv'
            /\ \A v \in Owner : /\ askedDrawing'[v].no = askedDrawing[v].no
                                /\ v # o => askedDrawing'[v] = askedDrawing[v]
            /\ askedDrawing'[o].state = "done"
        BY <2>0, <2>1, <3>0, <3>1, <1>40
      <3>3. drawn \in Nat /\ drawn + 1 \in Nat
        BY <1>1 DEF GalleryTyped
      <3>4. /\ gallery' \in [Owner -> SUBSET Nat] /\ drawn + 1 \in gallery'[o]
            /\ \A u \in Owner : gallery[u] \subseteq gallery'[u]
            /\ \A u \in Owner : gallery'[u] \subseteq gallery[u] \cup {drawn + 1}
        BY <3>1, <3>3, <1>1 DEF GalleryTyped
      <3>5. GalleryTyped'
        <4>1. ASSUME NEW u \in Owner, NEW g \in gallery'[u] PROVE 1 <= g /\ g <= drawn'
          <5>1. g = drawn + 1 \/ g \in gallery[u]
            BY <4>1, <3>4
          <5>2. g \in Nat
            BY <4>1, <3>4
          <5> QED
            BY <5>1, <5>2, <3>1, <3>3, <1>1 DEF GalleryTyped
        <4> QED
          BY <4>1, <3>1, <3>3, <3>4 DEF GalleryTyped
      <3>6. Shown'
        BY <2>0, <3>1, <3>4, <1>1, <1>2 DEF Shown, Drawings!None
      <3>7. PICK n : n = askedDrawing[o].no
        OBVIOUS
      <3>8. /\ n \in 1..MaxAsked /\ saves[n] = 0 /\ drawing[d].no = n
            /\ Drawings!Open(askedDrawing[o])
        BY <2>1, <3>0, <3>7, <1>1 DEF Drawings!Holds, Drawings!Open, SavedOnce
      <3>9. /\ saves' \in [1..MaxAsked -> Nat]
            /\ \A m \in 1..MaxAsked : saves'[m] = IF m = n THEN 1 ELSE saves[m]
        <4>1. saves' = [saves EXCEPT ![n] = 1] /\ saves \in [1..MaxAsked -> Nat]
          BY <3>1, <3>8, <1>1 DEF SavedOnce
        <4> QED
          BY <4>1, <3>8
      <3>10. \A v \in Owner : Drawings!Open(askedDrawing[v])' =>
               v # o /\ Drawings!Open(askedDrawing[v]) /\ askedDrawing[v].no # n
        <4> SUFFICES ASSUME NEW v \in Owner, Drawings!Open(askedDrawing[v])'
                     PROVE  v # o /\ Drawings!Open(askedDrawing[v]) /\ askedDrawing[v].no # n
          OBVIOUS
        <4>1. v # o
          BY <3>2 DEF Drawings!Open
        <4>2. Drawings!Open(askedDrawing[v])
          BY <4>1, <3>2 DEF Drawings!Open
        <4>3. askedDrawing[v].no = n => n = 0
          BY <4>1, <3>7, <1>1, <1>2 DEF SavedOnce
        <4> QED
          BY <4>1, <4>2, <4>3, <3>8
      <3>11. \A v \in Owner : Drawings!Open(askedDrawing[v])' =>
               askedDrawing'[v].no \in 1..MaxAsked /\ saves'[askedDrawing'[v].no] = 0
        BY <3>2, <3>9, <3>10, <1>1 DEF SavedOnce
      <3>12. \A m \in 1..MaxAsked :
               askedDrawing'["person"].no < m /\ askedDrawing'["server"].no < m => saves'[m] = 0
        <4> SUFFICES ASSUME NEW m \in 1..MaxAsked, askedDrawing'["person"].no < m,
                            askedDrawing'["server"].no < m
                     PROVE  saves'[m] = 0
          OBVIOUS
        <4>1. askedDrawing["person"].no < m /\ askedDrawing["server"].no < m
          BY <3>2, <1>2
        <4>2. m # n
          BY <4>1, <3>7, <3>8, <1>2
        <4> QED
          BY <4>1, <4>2, <3>9, <1>1 DEF SavedOnce
      <3>13. /\ \A m \in 1..MaxAsked : saves'[m] <= 1
             /\ askedDrawing'["person"].no = askedDrawing'["server"].no
                  => askedDrawing'["person"].no = 0
        BY <3>2, <3>9, <1>1, <1>2 DEF SavedOnce
      <3>14. SavedOnce'
        BY <3>9, <3>11, <3>12, <3>13 DEF SavedOnce, Drawings!Open
      <3> QED
        BY <2>0, <3>2, <3>5, <3>6, <3>14, <1>5, <1>8, <1>11 DEF DrawingsInv, DrawingsTyped
    <2>2. CASE /\ drawing' = [drawing EXCEPT ![d] = Drawings!NoDrawing]
               /\ UNCHANGED <<askedDrawing, gallery, mascot, saves, drawn>>
      <3>2. DrawersTyped' /\ PhotosInv'
        BY <2>0, <2>2, <1>33
      <3> QED
        BY <2>0, <2>2, <3>2, <1>4, <1>5, <1>7, <1>8, <1>9, <1>11 DEF DrawingsInv, DrawingsTyped
    <2> QED
      BY <2>1, <2>2, <1>42 DEF Drawings!SaveDrawing
  <1>43. ASSUME NEW d \in Calls, Drawings!PurgeMascotPhoto(d)
         PROVE  DrawingsInv'
    <2>1. PICK p \in 1..uploaded : p = drawing[d].photo
      BY <1>2, <1>24, <1>32, <1>43, <1>1 DEF Drawings!PurgeMascotPhoto, DrawersPhotos
    <2>2. /\ drawing[d].at = "purge" /\ p = drawing[d].photo /\ p # 0
          /\ Drawings!PurgePhoto(p)
          /\ askedDrawing' = (IF p \in files' THEN askedDrawing
                              ELSE [o \in Owner |-> IF askedDrawing[o].photo = p
                                                    THEN [askedDrawing[o] EXCEPT !.photo = 0]
                                                    ELSE askedDrawing[o]])
          /\ drawing' = [drawing EXCEPT ![d] = Drawings!NoDrawing]
          /\ UNCHANGED <<gallery, chosen, mascot, photo, saves, drawn, form, uploaded>>
      BY <2>1, <1>2, <1>24, <1>43 DEF Drawings!PurgeMascotPhoto
    <2>3. /\ files' \subseteq 1..uploaded /\ orphans' \subseteq 1..uploaded
          /\ drawingFaults' \in Nat /\ Live' \subseteq Live \ {p}
      <3>1. CASE files' = files \ {p} /\ UNCHANGED orphans /\ UNCHANGED drawingFaults
        BY <3>1, <1>11, <1>24 DEF Live
      <3>2. CASE UNCHANGED files /\ orphans' = orphans \cup {p}
                 /\ drawingFaults' = drawingFaults + 1
        BY <3>2, <2>1, <1>11, <1>24 DEF Live
      <3> QED
        BY <2>2, <3>1, <3>2 DEF Drawings!PurgePhoto, Drawings!Works, Drawings!Fails
    <2>4. FilesNumbered'
      BY <2>2, <2>3, <1>24 DEF FilesNumbered
    <2>5. /\ AskedTyped'
          /\ \A u \in Owner : /\ askedDrawing'[u].no = askedDrawing[u].no
                              /\ askedDrawing'[u].state = askedDrawing[u].state
                              /\ askedDrawing'[u].photo \in {askedDrawing[u].photo, 0}
                              /\ askedDrawing[u].photo # p =>
                                   askedDrawing'[u].photo = askedDrawing[u].photo
      <3>1. CASE p \in files'
        BY <2>2, <3>1, <1>1 DEF AskedTyped
      <3>2. CASE p \notin files'
        <4>1. \A u \in Owner : LET r == [askedDrawing[u] EXCEPT !.photo = 0]
                               IN  r \in Asking /\ r.no = askedDrawing[u].no /\ r.photo = 0
                                   /\ r.state = askedDrawing[u].state
          BY <1>1 DEF AskedTyped, Asking
        <4>2. \A u \in Owner : askedDrawing'[u] = IF askedDrawing[u].photo = p
                                 THEN [askedDrawing[u] EXCEPT !.photo = 0] ELSE askedDrawing[u]
          BY <2>2, <3>2
        <4>3. AskedTyped'
          BY <4>1, <2>2, <3>2, <1>1 DEF AskedTyped
        <4> QED
          BY <4>1, <4>2, <4>3
      <3> QED
        BY <3>1, <3>2
    <2>6. \A u \in Owner : Drawings!Open(askedDrawing[u])' = Drawings!Open(askedDrawing[u])
      BY <2>5 DEF Drawings!Open
    <2>7. SavedOnce'
      BY <2>2, <2>5, <2>6, <1>1, NothingSaved
    <2>8. \A e \in Calls : drawing'[e] = IF e = d THEN Drawings!NoDrawing ELSE drawing[e]
      BY <2>2, <1>1 DEF DrawersTyped
    <2>9. DrawersTyped'
      BY <2>2, <1>1, DrawingWords DEF DrawersTyped
    <2>10. /\ askedDrawing["server"].photo \in Nat
           /\ Drawings!Open(askedDrawing["server"])' =>
                askedDrawing'["server"].photo = askedDrawing["server"].photo
      <3>1. Drawings!Open(askedDrawing["server"]) => askedDrawing["server"].photo # p
        BY <2>2, <1>1 DEF DrawersPhotos
      <3> QED
        BY <3>1, <2>5, <2>6, <1>1, <1>2, AskedFields
    <2>11. PhotosNumbered'
      <3>1. Drawings!Newest' = Drawings!Newest
        BY <2>5, <1>2 DEF Drawings!Newest
      <3>2. askedDrawing'["person"].photo = 0 /\ askedDrawing'["server"].photo <= uploaded
        BY <2>5, <2>10, <1>1, <1>2, <1>24 DEF PhotosNumbered
      <3>3. \A e \in Calls : /\ drawing'[e].photo <= uploaded
                             /\ drawing'[e].owner = "person" => drawing'[e].photo = 0
                             /\ drawing'[e].no <= Drawings!Newest
        <4>1. 0 <= Drawings!Newest
          BY <1>3, OverlapsAssumption
        <4> QED
          BY <4>1, <2>8, <1>1, <1>24, DrawingWords DEF PhotosNumbered
      <3> QED
        BY <3>1, <3>2, <3>3, <2>2, <1>1 DEF PhotosNumbered, Drawings!None
    <2>12. DrawersPhotos'
      <3> SUFFICES ASSUME NEW e \in Calls
                   PROVE  /\ /\ drawing'[e].at \in {"start", "draw", "save", "fail"}
                             /\ drawing'[e].owner = "server"
                             /\ drawing'[e].no = askedDrawing'["server"].no
                             /\ Drawings!Open(askedDrawing["server"])'
                             => drawing'[e].photo = askedDrawing'["server"].photo
                          /\ drawing'[e].at = "purge" =>
                               /\ drawing'[e].photo # 0
                               /\ Drawings!Open(askedDrawing["server"])' =>
                                    drawing'[e].photo # askedDrawing'["server"].photo
        BY <1>2 DEF DrawersPhotos, Drawings!None
      <3>1. CASE e = d
        BY <3>1, <2>8, DrawingWords
      <3>2. CASE e # d
        BY <3>2, <2>5, <2>6, <2>8, <2>10, <1>1, <1>2 DEF DrawersPhotos
      <3> QED
        BY <3>1, <3>2
    <2>13. FormsPhoto'
      <3>1. askedDrawing'["server"].photo \in {askedDrawing["server"].photo, 0}
        BY <2>5, <1>2
      <3>2. \A e \in Calls : drawing'[e].photo \in {drawing[e].photo, 0}
        BY <2>8, DrawingWords
      <3>3. photo \notin files => photo \notin files'
        BY <2>2 DEF Drawings!PurgePhoto
      <3>4. form.at = "request" => form.photo # 0
        BY <1>1, <1>24 DEF FormsPhoto
      <3> QED
        BY <3>1, <3>2, <3>3, <3>4, <2>2, <1>1 DEF FormsPhoto, Drawings!None
    <2>14. \A f : f # p /\ Purging(f) => Purging(f)'
      <3> SUFFICES ASSUME NEW f, f # p, Purging(f)
                   PROVE  \E e \in Calls : drawing'[e].at = "purge" /\ drawing'[e].photo = f
        BY DEF Purging
      <3>1. PICK e \in Calls : drawing[e].at = "purge" /\ drawing[e].photo = f
        BY DEF Purging
      <3> QED
        BY <3>1, <2>2, <2>8
    <2>15. PhotosAccounted'
      <3>1. ASSUME NEW f \in Live' PROVE Accounted(f)'
        <4>1. f \in Live /\ f # p /\ f # 0
          BY <3>1, <2>3, <1>24
        <4>2. f = photo \/ f = askedDrawing["server"].photo \/ f = form.photo \/ Purging(f)
          BY <4>1, <1>1 DEF PhotosAccounted, Accounted
        <4>3. f = askedDrawing["server"].photo => f = askedDrawing'["server"].photo
          BY <4>1, <2>5, <1>2
        <4> QED
          BY <4>1, <4>2, <4>3, <2>2, <2>14 DEF Accounted
      <3>2. ASSUME ~Drawings!Open(askedDrawing["server"])', askedDrawing'["server"].photo \in Live'
            PROVE  Purging(askedDrawing["server"].photo)'
        <4>1. PICK f : f = askedDrawing'["server"].photo
          OBVIOUS
        <4>2. f \in Live /\ f # p /\ f # 0
          BY <4>1, <3>2, <2>3, <1>24
        <4>3. f = askedDrawing["server"].photo /\ ~Drawings!Open(askedDrawing["server"])
          BY <4>1, <4>2, <3>2, <2>5, <2>6, <1>2
        <4>4. Purging(f)'
          BY <4>2, <4>3, <2>14, <1>1 DEF PhotosAccounted
        <4> QED
          BY <4>1, <4>4 DEF Purging
      <3> QED
        BY <3>1, <3>2 DEF PhotosAccounted
    <2> QED
      BY <2>2, <2>4, <2>5, <2>7, <2>9, <2>11, <2>12, <2>13, <2>15, <1>5, <1>7, <1>9
         DEF DrawingsInv, DrawingsTyped, PhotosInv
  <1>44. CASE Drawings!Next
    <2>1. CASE Drawings!Page
      BY <2>1, <1>14, <1>15, <1>16, <1>18, <1>19, <1>20, <1>25, <1>27, <1>28, <1>29, <1>30
         DEF Drawings!Page
    <2>2. CASE \E d \in Calls : Drawings!DrawerStep(d) \/ Drawings!Killed(d)
      BY <2>2, <1>34, <1>36, <1>37, <1>39, <1>41, <1>42, <1>43 DEF Drawings!DrawerStep
    <2>3. CASE \E o \in Drawings!Owner : Drawings!HourPasses(o)
      BY <2>3, <1>31
    <2> QED
      BY <2>1, <2>2, <2>3, <1>26, <1>44 DEF Drawings!Next
  <1> QED
    BY <1>13, <1>44

\* The invariant of drawings holds throughout a behaviour about them.
LEMMA DrawingsInvariant == Spec => [](part = "drawings" => DrawingsInv)
  <1>1. Init => (part = "drawings" => DrawingsInv)
    BY DrawingsInit
  <1>2. (part = "drawings" => DrawingsInv) /\ [Next]_vars => (part = "drawings" => DrawingsInv)'
    BY StepOfAPart, DrawingsStep
  <1> QED
    BY <1>1, <1>2, PTL DEF Spec

\* DrawingsAreAccountedFor, for any number of drawers, requests and failures:
\* a photo in file-store is kept, asked about, or in hands that will purge it
\* (avatars.go, mascots.go), what is shown exists, and a request saves once.
THEOREM DrawingsStayAccountedFor == Spec => []DrawingsAreAccountedFor
  <1>1. (part = "drawings" => DrawingsInv) => DrawingsAreAccountedFor
    <2> SUFFICES ASSUME DrawingsInv
                 PROVE  Drawings!PhotosAreAccountedFor /\ Drawings!ShownDrawingsExist
      BY DEF DrawingsAreAccountedFor
    <2>1. ASSUME NEW f \in files \ orphans
          PROVE  f \in {photo, askedDrawing["server"].photo, form.photo}
                       \cup {drawing[d].photo : d \in {d \in Calls : drawing[d].at = "purge"}}
      <3>1. Accounted(f)
        BY <2>1 DEF DrawingsInv, PhotosInv, PhotosAccounted, Live
      <3>2. CASE Purging(f)
        BY <3>2 DEF Purging
      <3> QED
        BY <3>1, <3>2 DEF Accounted
    <2>2. Drawings!PhotosAreAccountedFor
      BY <2>1 DEF Drawings!PhotosAreAccountedFor
    <2>3. Drawings!ShownDrawingsExist
      BY DEF DrawingsInv, Shown, SavedOnce, Drawings!ShownDrawingsExist
    <2> QED
      BY <2>2, <2>3
  <1> QED
    BY <1>1, DrawingsInvariant, PTL

-----------------------------------------------------------------------------
(* Event roles: nobody is in one twice, and nobody is put over a cap.      *)

RoleRow == [there : BOOLEAN, capacity : Caps \cup {0}, takesPlace : BOOLEAN]
RolePlace == [role : Roles, who : Helpers, copied : BOOLEAN]
RoleCopy == [at : {"idle", "fetch", "copy"}, roles : [Roles -> RoleRow],
             ticks : [Roles -> SUBSET Helpers], left : SUBSET Helpers]

RolesTyped ==
  /\ attending \subseteq Helpers /\ taking \in BOOLEAN /\ roles \in [Roles -> RoleRow]
  /\ ticks \in [Roles -> SUBSET Helpers] /\ adding \subseteq Calls
RowsSigned ==
  /\ signatures \in [Helpers -> SUBSET [role : Roles, ticked : BOOLEAN]]
  /\ copy \in RoleCopy
MovesBounded ==
  roleMoves \in 0..MaxRoleMoves /\ copies \in 0..MaxCopies /\ joins \in 0..MaxJoins
PlacesTyped == places \subseteq RolePlace /\ IsFiniteSet(places)

RolesInv == RolesTyped /\ RowsSigned /\ MovesBounded /\ PlacesTyped /\ SheetRoles!InARoleOnce

\* Cardinality means the same inside the instance.
LEMMA RolesCount == \A S : SheetRoles!Cardinality(S) = Cardinality(S)
  BY Zenon DEF SheetRoles!Cardinality, Cardinality

\* A role's limit is a number; 0 is none.
LEMMA CapsAreNumbers == \A c \in Caps \cup {0} : c \in Nat
  <1>1. Caps \subseteq Nat
    BY RolesAssumption
  <1> QED
    BY <1>1

\* The invariant of event roles has the part's TypeOK in it.
LEMMA RolesTypes == RolesInv => SheetRoles!TypeOK
  BY DEF RolesInv, RolesTyped, RowsSigned, MovesBounded, PlacesTyped, RoleRow, RolePlace,
         RoleCopy, SheetRoles!TypeOK

\* No copy, and a row that is missing, are typed.
LEMMA NoCopyTyped == SheetRoles!NoCopy \in RoleCopy /\ SheetRoles!Missing \in RoleRow
  BY DEF SheetRoles!NoCopy, SheetRoles!Missing, RoleCopy, RoleRow

\* The invariant of event roles holds at the start.
LEMMA RolesInit ==
  ASSUME SheetRoles!Init
  PROVE  RolesInv
  <1>1. RolesTyped
    <2>1. roles \in [Roles -> {SheetRoles!Missing}
                               \cup [there : {TRUE}, capacity : Caps, takesPlace : BOOLEAN]]
      BY DEF SheetRoles!Init
    <2>2. {SheetRoles!Missing} \cup [there : {TRUE}, capacity : Caps, takesPlace : BOOLEAN]
            \subseteq RoleRow
      BY NoCopyTyped DEF RoleRow
    <2> QED
      BY <2>1, <2>2 DEF SheetRoles!Init, RolesTyped
  <1>2. RowsSigned
    BY NoCopyTyped DEF SheetRoles!Init, RowsSigned
  <1>3. MovesBounded
    BY RolesAssumption DEF SheetRoles!Init, MovesBounded
  <1>4. PlacesTyped /\ SheetRoles!InARoleOnce
    BY FS_EmptySet DEF SheetRoles!Init, PlacesTyped, SheetRoles!InARoleOnce
  <1> QED
    BY <1>1, <1>2, <1>3, <1>4 DEF RolesInv

\* Who a role shows is who counts toward the cap of the role as it is.
LEMMA ShownAreTaken ==
  \A r \in Roles : SheetRoles!ReadSheetRole(r) = SheetRoles!Taken(r, roles[r])
  BY DEF SheetRoles!ReadSheetRole, SheetRoles!Taken

\* One that takes a role with room is in it once, and not over its cap.
LEMMA ARoleTaken ==
  ASSUME RolesInv, NEW r \in Roles, NEW h \in Helpers, NEW b \in BOOLEAN,
         ~SheetRoles!In(r, h), SheetRoles!JoinSheetRole(r, roles[r], h, b),
         UNCHANGED <<attending, roles>>
  PROVE  /\ PlacesTyped' /\ SheetRoles!InARoleOnce' /\ joins' \in 0..MaxJoins
         /\ SheetRoles!KeepsTheCap
  <1> DEFINE new == [role |-> r, who |-> h, copied |-> b]
  <1>1. /\ joins < MaxJoins /\ joins' = joins + 1 /\ SheetRoles!HasRoom(r, roles[r])
        /\ places' = places \cup {new}
    BY DEF SheetRoles!JoinSheetRole
  <1>2. /\ new \in RolePlace /\ new.role = r /\ new.who = h
        /\ \A p \in places : p.role # r \/ p.who # h
    BY DEF RolePlace, SheetRoles!In
  <1>3. PlacesTyped'
    BY <1>1, <1>2, FS_AddElement DEF RolesInv, PlacesTyped
  <1>4. SheetRoles!InARoleOnce'
    BY <1>1, <1>2 DEF RolesInv, SheetRoles!InARoleOnce
  <1>5. joins' \in 0..MaxJoins
    BY <1>1, RolesAssumption DEF RolesInv, MovesBounded
  <1>6. ASSUME NEW s \in Roles, SheetRoles!Over(s)',
               SheetRoles!Cardinality(SheetRoles!ReadSheetRole(s)') >
                 SheetRoles!Cardinality(SheetRoles!ReadSheetRole(s))
        PROVE  FALSE
    <2> DEFINE old == SheetRoles!ReadSheetRole(s)
    <2>1. SheetRoles!ReadSheetRole(s)' \subseteq old \cup {new}
      BY <1>1 DEF SheetRoles!ReadSheetRole
    <2>2. IsFiniteSet(old) /\ IsFiniteSet(old \cup {new})
      BY FS_Subset, FS_AddElement DEF RolesInv, PlacesTyped, SheetRoles!ReadSheetRole
    <2>3. CASE s # r
      <3>1. SheetRoles!ReadSheetRole(s)' \subseteq old
        BY <1>1, <1>2, <2>3 DEF SheetRoles!ReadSheetRole
      <3>2. /\ Cardinality(SheetRoles!ReadSheetRole(s)') <= Cardinality(old)
            /\ Cardinality(old) \in Nat /\ Cardinality(SheetRoles!ReadSheetRole(s)') \in Nat
        BY <2>2, <3>1, FS_Subset, FS_CardinalityType
      <3> QED
        BY <3>2, <1>6, RolesCount
    <2>4. CASE s = r
      <3>1. /\ Cardinality(SheetRoles!ReadSheetRole(s)') <= Cardinality(old \cup {new})
            /\ Cardinality(old) \in Nat /\ Cardinality(SheetRoles!ReadSheetRole(s)') \in Nat
            /\ Cardinality(old \cup {new}) \in Nat
        BY <2>1, <2>2, FS_Subset, FS_CardinalityType
      <3>2. Cardinality(old \cup {new}) <= Cardinality(old) + 1
        <4>1. Cardinality(old \cup {new}) = Cardinality(old)
              \/ Cardinality(old \cup {new}) = Cardinality(old) + 1
          BY <2>2, FS_AddElement
        <4> QED
          BY <3>1, <4>1
      <3>3. /\ roles[r].capacity > 0 => Cardinality(old) < roles[r].capacity
            /\ roles[r].capacity \in Nat
        <4>1. roles[r].capacity > 0 => SheetRoles!Cardinality(old) < roles[r].capacity
          BY <1>1, <2>4, ShownAreTaken DEF SheetRoles!HasRoom
        <4>2. roles[r].capacity \in Nat
          <5>1. roles[r] \in RoleRow
            BY DEF RolesInv, RolesTyped
          <5>2. roles[r].capacity \in Caps \cup {0}
            BY <5>1 DEF RoleRow
          <5> QED
            BY <5>2, CapsAreNumbers
        <4> QED
          BY <4>1, <4>2, RolesCount
      <3>4. /\ roles[r].capacity > 0
            /\ Cardinality(SheetRoles!ReadSheetRole(s)') > roles[r].capacity
        <4>1. /\ roles'[s].capacity > 0
              /\ SheetRoles!Cardinality(SheetRoles!ReadSheetRole(s)') > roles'[s].capacity
          BY <1>6 DEF SheetRoles!Over
        <4> QED
          BY <4>1, <2>4, RolesCount
      <3> QED
        BY <3>1, <3>2, <3>3, <3>4
    <2> QED
      BY <2>3, <2>4
  <1>7. SheetRoles!KeepsTheCap
    BY <1>6 DEF SheetRoles!KeepsTheCap
  <1> QED
    BY <1>3, <1>4, <1>5, <1>7

\* Nothing that leaves the places alone, or only takes some away, puts a role
\* over its cap.
LEMMA NobodyPutIn ==
  ASSUME RolesInv, places' \subseteq places, roles' # roles \/ attending' # attending
                     \/ UNCHANGED <<attending, roles>>
  PROVE  PlacesTyped' /\ SheetRoles!InARoleOnce' /\ SheetRoles!KeepsTheCap
  <1>1. PlacesTyped' /\ SheetRoles!InARoleOnce'
    BY FS_Subset DEF RolesInv, PlacesTyped, SheetRoles!InARoleOnce
  <1>2. ASSUME NEW s \in Roles, UNCHANGED <<attending, roles>>,
               SheetRoles!Cardinality(SheetRoles!ReadSheetRole(s)') >
                 SheetRoles!Cardinality(SheetRoles!ReadSheetRole(s))
        PROVE  FALSE
    <2>1. SheetRoles!ReadSheetRole(s)' \subseteq SheetRoles!ReadSheetRole(s)
      BY <1>2 DEF SheetRoles!ReadSheetRole
    <2>2. IsFiniteSet(SheetRoles!ReadSheetRole(s))
      BY FS_Subset DEF RolesInv, PlacesTyped, SheetRoles!ReadSheetRole
    <2>3. /\ Cardinality(SheetRoles!ReadSheetRole(s)') <= Cardinality(SheetRoles!ReadSheetRole(s))
          /\ Cardinality(SheetRoles!ReadSheetRole(s)) \in Nat
          /\ Cardinality(SheetRoles!ReadSheetRole(s)') \in Nat
      BY <2>1, <2>2, FS_Subset, FS_CardinalityType
    <2> QED
      BY <2>3, <1>2, RolesCount
  <1>3. SheetRoles!KeepsTheCap
    BY <1>2 DEF SheetRoles!KeepsTheCap
  <1> QED
    BY <1>1, <1>3

\* A row's ticks put one person in the roles with room, and in each once.
LEMMA ARowCopied ==
  ASSUME RolesInv, NEW h \in Helpers, SheetRoles!CopySheetRow(h)
  PROVE  PlacesTyped' /\ SheetRoles!InARoleOnce' /\ SheetRoles!KeepsTheCap
  <1>1. CASE places' = places
    BY <1>1, NobodyPutIn DEF SheetRoles!CopySheetRow
  <1>2. CASE places' = (places \ SheetRoles!Outs(h)) \cup SheetRoles!Ins(h)
    <2>0. UNCHANGED <<attending, roles>>
      BY DEF SheetRoles!CopySheetRow
    <2>1. \A p \in SheetRoles!Ins(h) :
            /\ p \in RolePlace /\ p = [role |-> p.role, who |-> h, copied |-> TRUE]
            /\ p.who = h /\ ~SheetRoles!In(p.role, h)
            /\ SheetRoles!HasRoom(p.role, copy.roles[p.role])
      <3> SUFFICES ASSUME NEW p \in SheetRoles!Ins(h)
                   PROVE  /\ p \in RolePlace /\ p = [role |-> p.role, who |-> h, copied |-> TRUE]
                          /\ p.who = h /\ ~SheetRoles!In(p.role, h)
                          /\ SheetRoles!HasRoom(p.role, copy.roles[p.role])
        OBVIOUS
      <3>1. PICK r \in SheetRoles!Live(copy.roles) :
              /\ SheetRoles!CopiesIn(r, h) /\ SheetRoles!HasRoom(r, copy.roles[r])
              /\ p = [role |-> r, who |-> h, copied |-> TRUE]
        BY DEF SheetRoles!Ins
      <3>2. r \in Roles /\ p.role = r /\ p.who = h
        BY <3>1 DEF SheetRoles!Live
      <3> QED
        BY <3>1, <3>2 DEF SheetRoles!CopiesIn, RolePlace
    <2>2. IsFiniteSet(SheetRoles!Ins(h))
      <3> DEFINE rs == {r \in SheetRoles!Live(copy.roles) :
                         SheetRoles!CopiesIn(r, h) /\ SheetRoles!HasRoom(r, copy.roles[r])}
                 put == [r \in rs |-> [role |-> r, who |-> h, copied |-> TRUE]]
      <3>1. IsFiniteSet(rs)
        BY RolesAssumption, FS_Subset DEF SheetRoles!Live
      <3>2. put \in Surjection(rs, SheetRoles!Ins(h))
        BY DEF Surjection, SheetRoles!Ins
      <3> QED
        BY <3>1, <3>2, FS_Surjection
    <2>3. PlacesTyped'
      <3>1. IsFiniteSet(places \ SheetRoles!Outs(h)) /\ places \subseteq RolePlace
        BY FS_Subset DEF RolesInv, PlacesTyped
      <3> QED
        BY <1>2, <2>1, <2>2, <3>1, FS_Union DEF PlacesTyped
    <2>4. SheetRoles!InARoleOnce'
      <3> SUFFICES ASSUME NEW p \in places', NEW q \in places', p.role = q.role, p.who = q.who
                   PROVE  p = q
        BY DEF SheetRoles!InARoleOnce
      <3>1. CASE p \in places /\ q \in places
        BY <3>1 DEF RolesInv, SheetRoles!InARoleOnce
      <3>2. CASE p \in SheetRoles!Ins(h) /\ q \in SheetRoles!Ins(h)
        BY <2>1, <3>2
      <3>3. ASSUME NEW a \in places, NEW b \in SheetRoles!Ins(h), a.role = b.role, a.who = b.who
            PROVE  FALSE
        BY <2>1, <3>3 DEF SheetRoles!In
      <3> QED
        BY <1>2, <3>1, <3>2, <3>3
    <2>5. ASSUME NEW s \in Roles, SheetRoles!Over(s)', copy.roles[s] = roles[s],
                 SheetRoles!Cardinality(SheetRoles!ReadSheetRole(s)') >
                   SheetRoles!Cardinality(SheetRoles!ReadSheetRole(s))
          PROVE  FALSE
      <3> DEFINE old == SheetRoles!ReadSheetRole(s)
                 new == [role |-> s, who |-> h, copied |-> TRUE]
      <3>1. IsFiniteSet(old) /\ IsFiniteSet(old \cup {new})
        BY FS_Subset, FS_AddElement DEF RolesInv, PlacesTyped, SheetRoles!ReadSheetRole
      <3>2. SheetRoles!ReadSheetRole(s)' \subseteq old \cup {new}
        <4> SUFFICES ASSUME NEW p \in places', p.role = s,
                            roles'[s].takesPlace => p.who \in attending'
                     PROVE  p \in old \cup {new}
          BY DEF SheetRoles!ReadSheetRole
        <4>1. CASE p \in places
          BY <2>0, <4>1 DEF SheetRoles!ReadSheetRole
        <4>2. CASE p \in SheetRoles!Ins(h)
          BY <2>1, <4>2
        <4> QED
          BY <1>2, <4>1, <4>2
      <3>3. /\ Cardinality(SheetRoles!ReadSheetRole(s)') <= Cardinality(old \cup {new})
            /\ Cardinality(old) \in Nat /\ Cardinality(SheetRoles!ReadSheetRole(s)') \in Nat
            /\ Cardinality(old \cup {new}) \in Nat
        BY <3>1, <3>2, FS_Subset, FS_CardinalityType
      <3>4. Cardinality(old \cup {new}) = Cardinality(old)
            \/ Cardinality(old \cup {new}) = Cardinality(old) + 1
        BY <3>1, FS_AddElement
      <3>5. /\ roles[s].capacity \in Nat /\ roles[s].capacity > 0
            /\ Cardinality(SheetRoles!ReadSheetRole(s)') > roles[s].capacity
            /\ Cardinality(SheetRoles!ReadSheetRole(s)') > Cardinality(old)
        <4>1. roles[s] \in RoleRow
          BY DEF RolesInv, RolesTyped
        <4>2. roles[s].capacity \in Caps \cup {0}
          BY <4>1 DEF RoleRow
        <4>3. /\ roles'[s].capacity > 0
              /\ SheetRoles!Cardinality(SheetRoles!ReadSheetRole(s)') > roles'[s].capacity
          BY <2>5 DEF SheetRoles!Over
        <4>4. roles[s].capacity \in Nat
          BY <4>2, CapsAreNumbers
        <4> QED
          BY <4>3, <4>4, <2>0, <2>5, RolesCount
      <3>6. CASE \E p \in SheetRoles!Ins(h) : p.role = s
        <4>1. SheetRoles!HasRoom(s, roles[s])
          BY <2>1, <2>5, <3>6
        <4>2. Cardinality(old) < roles[s].capacity
          <5>1. SheetRoles!Cardinality(old) < roles[s].capacity
            BY <3>5, <4>1, ShownAreTaken DEF SheetRoles!HasRoom
          <5> QED
            BY <5>1, RolesCount
        <4> QED
          BY <3>3, <3>4, <3>5, <4>2
      <3>7. CASE ~\E p \in SheetRoles!Ins(h) : p.role = s
        <4>1. SheetRoles!ReadSheetRole(s)' \subseteq old
          <5> SUFFICES ASSUME NEW p \in places', p.role = s,
                              roles'[s].takesPlace => p.who \in attending'
                       PROVE  p \in old
            BY DEF SheetRoles!ReadSheetRole
          <5>1. p \in places
            BY <1>2, <3>7
          <5> QED
            BY <2>0, <5>1 DEF SheetRoles!ReadSheetRole
        <4>2. Cardinality(SheetRoles!ReadSheetRole(s)') <= Cardinality(old)
          BY <3>1, <4>1, FS_Subset
        <4> QED
          BY <3>3, <3>5, <4>2
      <3> QED
        BY <3>6, <3>7
    <2>6. SheetRoles!KeepsTheCap
      BY <2>5 DEF SheetRoles!KeepsTheCap
    <2> QED
      BY <2>3, <2>4, <2>6
  <1> QED
    BY <1>1, <1>2 DEF SheetRoles!CopySheetRow

\* Each step of event roles keeps their invariant.
LEMMA RolesStep ==
  ASSUME RolesInv, SheetRoles!Next \/ UNCHANGED rolesVars
  PROVE  RolesInv' /\ SheetRoles!KeepsTheCap
  <1>0. /\ RolesTyped /\ RowsSigned /\ MovesBounded /\ PlacesTyped
        /\ roleMoves \in 0..MaxRoleMoves /\ copies \in 0..MaxCopies /\ joins \in 0..MaxJoins
    BY DEF RolesInv, MovesBounded
  <1>1. ASSUME UNCHANGED SheetRoles!polling PROVE RowsSigned' /\ copies' = copies /\ ticks' = ticks
    BY <1>0, <1>1 DEF RowsSigned, SheetRoles!polling
  <1>2. ASSUME SheetRoles!RoleMoves PROVE roleMoves' \in 0..MaxRoleMoves
    BY <1>0, <1>2, RolesAssumption DEF SheetRoles!RoleMoves
  <1>3. ASSUME places' \subseteq places, roles' # roles \/ UNCHANGED roles,
               attending' # attending \/ UNCHANGED attending
        PROVE  PlacesTyped' /\ SheetRoles!InARoleOnce' /\ SheetRoles!KeepsTheCap
    BY <1>3, NobodyPutIn
  <1>4. CASE UNCHANGED rolesVars
    BY <1>0, <1>3, <1>4 DEF rolesVars, RolesInv, RolesTyped, RowsSigned, MovesBounded
  <1>5. CASE \/ \E h \in Helpers : SheetRoles!Comes(h) \/ SheetRoles!Goes(h)
             \/ SheetRoles!RolesSwitch \/ SheetRoles!ClearRolesForNextDate
    <2>1. /\ SheetRoles!RoleMoves /\ UNCHANGED SheetRoles!polling /\ places' \subseteq places
          /\ UNCHANGED <<roles, adding, joins>> /\ attending' \subseteq Helpers
          /\ taking' \in BOOLEAN
      BY <1>0, <1>5 DEF SheetRoles!Comes, SheetRoles!Goes, SheetRoles!RolesSwitch,
         SheetRoles!ClearRolesForNextDate, RolesTyped
    <2>2. PlacesTyped' /\ SheetRoles!InARoleOnce' /\ SheetRoles!KeepsTheCap
      BY <2>1, <1>3
    <2> QED
      BY <2>1, <2>2, <1>0, <1>1, <1>2 DEF RolesInv, RolesTyped, MovesBounded
  <1>6. ASSUME NEW r \in Roles, NEW h \in Helpers,
               SheetRoles!HandleSheetRoleButton(r, h) \/ SheetRoles!HandleWebMySheetRole(r, h)
                 \/ SheetRoles!OrganizerSheetRoleChange(r, h)
        PROVE  RolesInv' /\ SheetRoles!KeepsTheCap
    <2>1. /\ UNCHANGED <<attending, taking, roles, adding, roleMoves>>
          /\ UNCHANGED SheetRoles!polling
          /\ \/ places' \subseteq places /\ UNCHANGED joins
             \/ ~SheetRoles!In(r, h) /\ SheetRoles!JoinSheetRole(r, roles[r], h, FALSE)
      BY <1>6 DEF SheetRoles!HandleSheetRoleButton, SheetRoles!HandleWebMySheetRole,
         SheetRoles!OrganizerSheetRoleChange, SheetRoles!ToggleSheetRole,
         SheetRoles!PutInSheetRole, SheetRoles!TakeOutOfSheetRole, SheetRoles!LeavesRole
    <2>2. /\ PlacesTyped' /\ SheetRoles!InARoleOnce' /\ SheetRoles!KeepsTheCap
          /\ joins' \in 0..MaxJoins
      <3>1. CASE places' \subseteq places /\ UNCHANGED joins
        BY <2>1, <3>1, <1>0, <1>3
      <3>2. CASE ~SheetRoles!In(r, h) /\ SheetRoles!JoinSheetRole(r, roles[r], h, FALSE)
        <4>1. PICK b \in BOOLEAN : b = FALSE
          OBVIOUS
        <4>2. SheetRoles!JoinSheetRole(r, roles[r], h, b)
          BY <3>2, <4>1
        <4> QED
          BY <2>1, <3>2, <4>2, ARoleTaken
      <3> QED
        BY <2>1, <3>1, <3>2
    <2> QED
      BY <2>1, <2>2, <1>0, <1>1 DEF RolesInv, RolesTyped, MovesBounded
  <1>7. ASSUME NEW a \in Calls, SheetRoles!CountRoles(a) PROVE RolesInv' /\ SheetRoles!KeepsTheCap
    <2>1. /\ UNCHANGED <<attending, taking, roles, places, roleMoves, joins>>
          /\ UNCHANGED SheetRoles!polling /\ adding' = adding \cup {a}
      BY <1>7 DEF SheetRoles!CountRoles
    <2> QED
      BY <2>1, <1>0, <1>1, <1>3 DEF RolesInv, RolesTyped, MovesBounded
  <1>8. ASSUME NEW a \in Calls, SheetRoles!InsertRole(a) PROVE RolesInv' /\ SheetRoles!KeepsTheCap
    <2>1. /\ UNCHANGED <<attending, taking, places, joins>> /\ SheetRoles!RoleMoves
          /\ UNCHANGED SheetRoles!polling /\ adding' = adding \ {a}
          /\ \E r \in Roles, c \in Caps, b \in BOOLEAN :
               roles' = [roles EXCEPT ![r] = [there |-> TRUE, capacity |-> c, takesPlace |-> b]]
      BY <1>8 DEF SheetRoles!InsertRole, SheetRoles!Live
    <2>2. roles' \in [Roles -> RoleRow]
      <3>1. PICK r \in Roles, c \in Caps, b \in BOOLEAN :
              roles' = [roles EXCEPT ![r] = [there |-> TRUE, capacity |-> c, takesPlace |-> b]]
        BY <2>1
      <3>2. [there |-> TRUE, capacity |-> c, takesPlace |-> b] \in RoleRow
        BY DEF RoleRow
      <3> QED
        BY <3>1, <3>2, <1>0 DEF RolesTyped
    <2>3. PlacesTyped' /\ SheetRoles!InARoleOnce' /\ SheetRoles!KeepsTheCap
      BY <2>1, <1>3
    <2> QED
      BY <2>1, <2>2, <2>3, <1>0, <1>1, <1>2 DEF RolesInv, RolesTyped, MovesBounded
  <1>9. ASSUME NEW r \in Roles, SheetRoles!RemoveSheetRole(r) \/ SheetRoles!EditSheetRole(r)
        PROVE  RolesInv' /\ SheetRoles!KeepsTheCap
    <2>1. /\ UNCHANGED <<attending, taking, places, adding, joins>> /\ SheetRoles!RoleMoves
          /\ UNCHANGED SheetRoles!polling
      BY <1>9 DEF SheetRoles!RemoveSheetRole, SheetRoles!EditSheetRole
    <2>2. roles' \in [Roles -> RoleRow]
      <3>1. roles[r] \in RoleRow
        BY <1>0 DEF RolesTyped
      <3>2. CASE SheetRoles!RemoveSheetRole(r)
        BY <3>1, <3>2, <1>0 DEF SheetRoles!RemoveSheetRole, RolesTyped, RoleRow
      <3>3. CASE SheetRoles!EditSheetRole(r)
        <4>1. PICK c \in Caps, b \in BOOLEAN :
                roles' = [roles EXCEPT ![r].capacity = c, ![r].takesPlace = b]
          BY <3>3 DEF SheetRoles!EditSheetRole
        <4> QED
          BY <3>1, <4>1, <1>0 DEF RolesTyped, RoleRow
      <3> QED
        BY <1>9, <3>2, <3>3
    <2>3. PlacesTyped' /\ SheetRoles!InARoleOnce' /\ SheetRoles!KeepsTheCap
      BY <2>1, <1>3
    <2> QED
      BY <2>1, <2>2, <2>3, <1>0, <1>1, <1>2 DEF RolesInv, RolesTyped, MovesBounded
  <1>10. ASSUME NEW r \in Roles, NEW h \in Helpers, SheetRoles!Tick(r, h)
         PROVE  RolesInv' /\ SheetRoles!KeepsTheCap
    <2>1. /\ UNCHANGED <<attending, taking, roles, places, adding, joins>> /\ SheetRoles!RoleMoves
          /\ UNCHANGED <<signatures, copy, copies>>
          /\ ticks' = [ticks EXCEPT ![r] = IF h \in @ THEN @ \ {h} ELSE @ \cup {h}]
      BY <1>10 DEF SheetRoles!Tick
    <2>2. ticks' \in [Roles -> SUBSET Helpers]
      BY <2>1, <1>0 DEF RolesTyped
    <2> QED
      BY <2>1, <2>2, <1>0, <1>2, <1>3 DEF RolesInv, RolesTyped, RowsSigned, MovesBounded
  <1>11. CASE SheetRoles!PollReadsRoles \/ SheetRoles!PollReadsGoing \/ SheetRoles!PollEnds
    <2>1. /\ UNCHANGED <<attending, taking, roles, places, ticks, signatures, adding>>
          /\ UNCHANGED <<roleMoves, joins>> /\ copies' \in 0..MaxCopies
      BY <1>0, <1>11, RolesAssumption
         DEF SheetRoles!PollReadsRoles, SheetRoles!PollReadsGoing, SheetRoles!PollEnds
    <2>2. copy' \in RoleCopy
      <3>1. CASE SheetRoles!PollReadsRoles
        BY <3>1, <1>0, NoCopyTyped DEF SheetRoles!PollReadsRoles, RolesTyped, RoleCopy
      <3>2. CASE SheetRoles!PollReadsGoing
        BY <3>2, <1>0 DEF SheetRoles!PollReadsGoing, RolesTyped, RowsSigned, RoleCopy
      <3>3. CASE SheetRoles!PollEnds
        BY <3>3, NoCopyTyped DEF SheetRoles!PollEnds
      <3> QED
        BY <1>11, <3>1, <3>2, <3>3
    <2> QED
      BY <2>1, <2>2, <1>0, <1>3 DEF RolesInv, RolesTyped, RowsSigned, MovesBounded
  <1>12. ASSUME NEW h \in Helpers, SheetRoles!CopySheetRow(h)
         PROVE  RolesInv' /\ SheetRoles!KeepsTheCap
    <2>1. /\ UNCHANGED <<attending, taking, roles, ticks, copies, adding, roleMoves, joins>>
          /\ copy' = [copy EXCEPT !.left = @ \ {h}]
          /\ signatures' = [signatures EXCEPT ![h] = SheetRoles!RoleSignature(h)]
      BY <1>12 DEF SheetRoles!CopySheetRow
    <2>2. copy' \in RoleCopy
      BY <2>1, <1>0 DEF RowsSigned, RoleCopy
    <2>3. SheetRoles!RoleSignature(h) \subseteq [role : Roles, ticked : BOOLEAN]
      <3>1. \A r \in SheetRoles!Live(copy.roles) :
              [role |-> r, ticked |-> h \in copy.ticks[r]] \in [role : Roles, ticked : BOOLEAN]
        BY DEF SheetRoles!Live
      <3> QED
        BY <3>1 DEF SheetRoles!RoleSignature
    <2>4. RowsSigned'
      BY <2>1, <2>2, <2>3, <1>0 DEF RowsSigned
    <2>5. PlacesTyped' /\ SheetRoles!InARoleOnce' /\ SheetRoles!KeepsTheCap
      BY <1>12, ARowCopied
    <2> QED
      BY <2>1, <2>4, <2>5, <1>0 DEF RolesInv, RolesTyped, MovesBounded
  <1> QED
    BY <1>4, <1>5, <1>6, <1>7, <1>8, <1>9, <1>10, <1>11, <1>12
       DEF SheetRoles!Next, SheetRoles!HandleWebSheetRoleRemove, SheetRoles!HandleWebEditSheetRole

\* The invariant of event roles holds throughout a behaviour about them.
LEMMA RolesInvariant == Spec => [](part = "roles" => RolesInv)
  <1>1. Init => (part = "roles" => RolesInv)
    BY RolesInit DEF Init
  <1>2. (part = "roles" => RolesInv) /\ [Next]_vars => (part = "roles" => RolesInv)'
    BY StepOfAPart, RolesStep
  <1> QED
    BY <1>1, <1>2, PTL DEF Spec

\* RolesAddUp, for any number of people, roles and organizers: taking a role,
\* being put in one and a tick never pass the cap the role has, and nobody is
\* in a role twice (sheetroles.go, potlucksheetimport.go).
THEOREM RolesAlwaysAddUp == Spec => RolesAddUp
  <1>1. (part = "roles" => RolesInv) => (part = "roles" => SheetRoles!InARoleOnce)
    BY DEF RolesInv
  <1>2. (part = "roles" => RolesInv) /\ [Next]_vars =>
          [part = "roles" => SheetRoles!KeepsTheCap]_rolesVars
    BY StepOfAPart, RolesStep
  <1> QED
    BY <1>1, <1>2, RolesInvariant, PTL DEF Spec, RolesAddUp

-----------------------------------------------------------------------------
(* Discord's copy of an event: only what was typed there is taken.         *)

TextNo   == 0..MaxTexts
NativeNo == 1..MaxNatives
Linked   == 0..MaxNatives
RowHere  == [text : TextNo, status : {"none", "open", "completed", "cancelled"},
             link : Linked, wrote : TextNo]
NativeThere == [text : TextNo, ours : BOOLEAN,
                status : {"none", "scheduled", "completed", "deleted"}]
PassCopy == [text : TextNo, link : Linked, wrote : TextNo]
SyncPass == [at : {"idle", "compare", "imported", "settle", "record", "reconcile", "link"},
             list : [NativeNo -> TextNo], copy : PassCopy, raced : BOOLEAN]
PushRun  == [at : {"idle", "patch", "record"}, copy : [text : TextNo, link : Linked]]

NativeTyped ==
  /\ row \in RowHere /\ native \in [NativeNo -> NativeThere]
  /\ passes \in [Calls -> SyncPass] /\ push \in PushRun /\ due \in BOOLEAN
  /\ texts \in 1..MaxTexts /\ crossed \in BOOLEAN /\ typed \subseteq 1..texts

\* Every text there is was numbered before.
NumberedPass(pass, last) ==
  /\ pass.copy.text <= last /\ \A n \in NativeNo : pass.list[n] <= last
  /\ pass.at \in {"imported", "settle", "record", "link"} =>
       pass.copy.text # 0 /\ pass.copy.link # 0
  /\ pass.at = "settle" => pass.list[pass.copy.link] # 0

TextsNumbered ==
  /\ row.text <= texts /\ (row.status # "none" => row.text # 0)
  /\ push.copy.text <= texts /\ (push.at # "idle" => push.copy.text # 0 /\ push.copy.link # 0)
  /\ \A n \in NativeNo : /\ native[n].text <= texts
                         /\ native[n].status # "none" => native[n].text # 0
  /\ \A p \in Calls : NumberedPass(passes[p], texts)

\* What a pass listed was made.
ListedMade ==
  \A p \in Calls, n \in NativeNo : passes[p].list[n] # 0 => native[n].status # "none"

There == native[1]

\* Published once, an event has one native: the first one made.
OneNativeAlone ==
  /\ \A n \in NativeNo \ {1} : native[n].status = "none" /\ ~native[n].ours
  /\ \A p \in Calls, n \in NativeNo \ {1} : passes[p].list[n] = 0
  /\ row.link \in {0, 1} /\ (row.status = "none" => row.link = 0)
  /\ push.at # "idle" => push.copy.link = 1
  /\ \A p \in Calls : /\ passes[p].at \in {"settle", "record", "link"} => passes[p].copy.link = 1
                      /\ passes[p].at \in {"imported", "settle", "record", "link"} =>
                           row.status # "none" /\ There.status # "none"
  /\ row.link # 0 \/ push.at # "idle" => There.status # "none" /\ row.status # "none"
  /\ row.status # "none" /\ row.link = 0 /\ There.status # "none" => There.ours

\* The passes with a write of theirs at Discord that is not recorded.
Writing(p) == passes[p].at \in {"record", "link", "imported"}
Writers == {p \in Calls : Writing(p)}
\* A pass whose list nobody wrote under.
Fresh(p) == passes[p].at \in {"compare", "settle"} /\ ~passes[p].raced /\ passes[p].list[1] # 0

\* One write at a time is at Discord, and is what Discord holds, if nobody
\* typed since; with none, what was recorded is.
WritesKnown ==
  ~crossed =>
    /\ \A p, q \in Writers : p = q
    /\ push.at = "record" => Writers = {} /\ There.text \in typed \cup {push.copy.text}
    /\ \A p \in Writers : There.text \in typed \cup {passes[p].copy.text}
    /\ Writers = {} /\ push.at # "record" /\ row.wrote # 0 =>
         There.text \in typed \cup {row.wrote}

\* The passes not written under listed one text of ours at most, which is at
\* Discord or was typed over, and is what was recorded.
ListsAgree ==
  /\ \A p \in Calls : Fresh(p) =>
       /\ There.text \in typed \cup {passes[p].list[1]}
       /\ row.wrote # 0 => passes[p].list[1] \in typed \cup {row.wrote}
       /\ Writers # {} \/ push.at = "record" => passes[p].list[1] \in typed
  /\ \A p, q \in Calls : Fresh(p) /\ Fresh(q) =>
       passes[p].list[1] \in typed \/ passes[q].list[1] \in typed \cup {passes[p].list[1]}

\* What a pass read of the row goes with its list.
CopiesAgree ==
  \A p \in Calls : passes[p].at = "settle" =>
    /\ passes[p].copy.wrote # 0 => row.wrote # 0
    /\ Fresh(p) /\ passes[p].copy.wrote # 0 =>
         passes[p].list[1] \in typed \cup {passes[p].copy.wrote}
    /\ Fresh(p) /\ passes[p].copy.wrote = 0 /\ passes[p].copy.text \in typed =>
         \A q \in Calls : Fresh(q) => passes[q].list[1] \in typed

\* An event not imported yet holds what was typed, and an imported one waits
\* for its record.
ImportsTyped ==
  /\ row.status = "none" => /\ There.text \in typed
                            /\ \A p \in Calls : passes[p].list[1] \in typed \cup {0}
  /\ row.status # "none" /\ row.wrote = 0 /\ row.text \in typed =>
       \E p \in Calls : passes[p].at = "imported"

WritesInv == OneNativeAlone /\ WritesKnown /\ ListsAgree /\ CopiesAgree /\ ImportsTyped

NativeInv ==
  /\ NativeTyped /\ TextsNumbered /\ ListedMade
  /\ ~NativeEvents!PublishedTwice => WritesInv

\* The event's row field by field.
LEMMA RowTyped ==
  ASSUME NativeTyped
  PROVE  /\ row = [text |-> row.text, status |-> row.status, link |-> row.link,
                   wrote |-> row.wrote]
         /\ row.text \in 0..MaxTexts /\ row.link \in 0..MaxNatives /\ row.wrote \in 0..MaxTexts
         /\ row.status \in {"none", "open", "completed", "cancelled"}
         /\ texts \in Nat /\ texts <= MaxTexts /\ 1 <= texts
         /\ push.copy.text \in 0..MaxTexts /\ push.copy.link \in 0..MaxNatives
         /\ push.at \in {"idle", "patch", "record"} /\ DOMAIN passes = Calls
         /\ DOMAIN native = NativeNo
  BY NativeAssumption DEF NativeTyped, RowHere, PushRun, TextNo, Linked

\* A pass's fields.
LEMMA PassTyped ==
  ASSUME NativeTyped, NEW p \in Calls
  PROVE  /\ passes[p] \in SyncPass
         /\ passes[p].list \in [NativeNo -> 0..MaxTexts] /\ passes[p].copy \in PassCopy
         /\ passes[p].copy.text \in 0..MaxTexts /\ passes[p].copy.wrote \in 0..MaxTexts
         /\ passes[p].copy.link \in 0..MaxNatives /\ passes[p].raced \in BOOLEAN
  BY DEF NativeTyped, SyncPass, PassCopy, TextNo, Linked

\* Discord's copy, field by field.
LEMMA NativeThereTyped ==
  ASSUME NativeTyped, NEW n \in NativeNo
  PROVE  /\ native[n] \in NativeThere /\ native[n].text \in 0..MaxTexts
         /\ native[n].ours \in BOOLEAN
         /\ native[n].status \in {"none", "scheduled", "completed", "deleted"}
  BY DEF NativeTyped, NativeThere, TextNo

\* The first event on Discord and the first text exist.
LEMMA FirstNative == 1 \in NativeNo /\ 1 \in TextNo /\ 0 \in TextNo /\ 0 \in Linked
  BY NativeAssumption DEF NativeNo, TextNo, Linked

\* A pass at rest, one done with the row, one raced, and one that moved on.
LEMMA PassesTyped ==
  ASSUME NativeTyped
  PROVE  /\ NativeEvents!Resting \in SyncPass
         /\ \A p \in Calls : NativeEvents!AfterSettle(p) \in SyncPass
         /\ \A late \in BOOLEAN : NativeEvents!Race(late) \in [Calls -> SyncPass]
  <1>1. NativeEvents!Resting \in SyncPass
    BY FirstNative DEF NativeEvents!Resting, NativeEvents!CopyOf, NativeEvents!NoRow,
       NativeEvents!Natives, SyncPass, PassCopy, NativeNo
  <1>2. ASSUME NEW p \in Calls
        PROVE  NativeEvents!AfterSettle(p) \in SyncPass
    <2>1. [n \in NativeNo |-> IF passes[p].list[n] = 0 THEN 0 ELSE 1] \in [NativeNo -> TextNo]
      BY FirstNative
    <2> QED
      BY <1>1, <2>1 DEF NativeEvents!AfterSettle, NativeEvents!Natives, SyncPass, NativeNo
  <1>3. ASSUME NEW late \in BOOLEAN
        PROVE  NativeEvents!Race(late) \in [Calls -> SyncPass]
    <2>1. ASSUME NEW p \in Calls
          PROVE  [passes[p] EXCEPT !.raced = @ \/ late] \in SyncPass
      BY PassTyped DEF SyncPass
    <2> QED
      BY <2>1, PassTyped DEF NativeEvents!Race
  <1> QED
    BY <1>1, <1>2, <1>3

\* What a pass copies of the row, and what a publish sends, are typed.
LEMMA RowCopied ==
  ASSUME NativeTyped
  PROVE  NativeEvents!CopyOf(row) \in PassCopy
         /\ NativeEvents!Sent(row) \in [text : TextNo, link : Linked]
  BY RowTyped DEF NativeEvents!CopyOf, NativeEvents!Sent, PassCopy, TextNo, Linked

\* Types hold at the start.
LEMMA NativeTypesInit == NativeEvents!Init => NativeTyped /\ TextsNumbered
  <1> SUFFICES ASSUME NativeEvents!Init
               PROVE  NativeTyped /\ TextsNumbered
    OBVIOUS
  <1>1. NativeEvents!Resting \in SyncPass
    BY FirstNative DEF NativeEvents!Resting, NativeEvents!CopyOf, NativeEvents!NoRow,
       NativeEvents!Natives, SyncPass, PassCopy, NativeNo
  <1>2. push = [at |-> "idle", copy |-> [text |-> 0, link |-> 0]]
    BY DEF NativeEvents!Init, NativeEvents!Quiet, NativeEvents!Sent, NativeEvents!NoRow
  <1>3. /\ passes = [p \in Calls |-> NativeEvents!Resting] /\ due = FALSE /\ texts = 1
        /\ crossed = FALSE /\ typed \subseteq {1}
    BY DEF NativeEvents!Init
  <1>4. \/ row = [text |-> 1, status |-> "open", link |-> 0, wrote |-> 0]
        \/ row = [text |-> 0, status |-> "none", link |-> 0, wrote |-> 0]
        \/ row = [text |-> 1, status |-> "open", link |-> 1, wrote |-> 0]
    BY DEF NativeEvents!Init, NativeEvents!NoRow
  <1>5. \/ native = [n \in NativeNo |-> NativeEvents!Unmade]
        \/ \E own \in BOOLEAN : native = NativeEvents!OneNative(own)
    BY DEF NativeEvents!Init, NativeEvents!Natives, NativeNo
  <1>6. /\ native \in [NativeNo -> NativeThere]
        /\ \A n \in NativeNo : /\ native[n].text \in {0, 1}
                               /\ native[n].status # "none" => native[n].text # 0
    <2>1. CASE native = [n \in NativeNo |-> NativeEvents!Unmade]
      BY <2>1, FirstNative DEF NativeEvents!Unmade, NativeThere
    <2>2. ASSUME NEW own \in BOOLEAN, native = NativeEvents!OneNative(own)
          PROVE  <1>6
      BY <2>2, FirstNative DEF NativeEvents!OneNative, NativeEvents!Unmade,
         NativeEvents!Natives, NativeThere, NativeNo
    <2> QED
      BY <1>5, <2>1, <2>2
  <1>7. NativeTyped
    <2>1. row \in RowHere /\ push \in PushRun
      BY <1>2, <1>4, FirstNative DEF RowHere, PushRun, Linked, NativeNo
    <2>2. texts \in 1..MaxTexts /\ typed \subseteq 1..texts
      BY <1>3, NativeAssumption
    <2>3. passes \in [Calls -> SyncPass] /\ due \in BOOLEAN /\ crossed \in BOOLEAN
      BY <1>1, <1>3
    <2> QED
      BY <1>6, <2>1, <2>2, <2>3 DEF NativeTyped
  <1>8. ASSUME NEW p \in Calls
        PROVE  /\ passes[p].at = "idle" /\ passes[p].copy.text <= texts
               /\ \A n \in NativeNo : passes[p].list[n] <= texts
    <2>1. /\ NativeEvents!Resting.at = "idle" /\ NativeEvents!Resting.copy.text = 0
          /\ NativeEvents!Resting.list = [n \in NativeNo |-> 0]
      BY DEF NativeEvents!Resting, NativeEvents!CopyOf, NativeEvents!NoRow,
         NativeEvents!Natives, NativeNo
    <2>2. passes[p] = NativeEvents!Resting /\ texts = 1
      BY <1>3
    <2> QED
      BY <2>1, <2>2
  <1>9. /\ row.text <= texts /\ (row.status # "none" => row.text # 0)
        /\ push.copy.text <= texts /\ push.at = "idle"
    BY <1>2, <1>3, <1>4
  <1> QED
    BY <1>3, <1>6, <1>7, <1>8, <1>9 DEF TextsNumbered, NumberedPass

\* Each step keeps the types.
LEMMA NativeTypesStep ==
  ASSUME NativeTyped, TextsNumbered, NativeEvents!Next \/ UNCHANGED nativeVars
  PROVE  NativeTyped'
  <1>0. /\ row \in RowHere /\ native \in [NativeNo -> NativeThere]
        /\ passes \in [Calls -> SyncPass] /\ push \in PushRun /\ due \in BOOLEAN
        /\ texts \in 1..MaxTexts /\ crossed \in BOOLEAN /\ typed \subseteq 1..texts
    BY DEF NativeTyped
  <1>1. CASE UNCHANGED nativeVars
    BY <1>1, <1>0 DEF nativeVars, NativeTyped
  <1>2. CASE NativeEvents!EditHere
    <2>1. texts' \in 1..MaxTexts /\ typed' \subseteq 1..texts' /\ due' \in BOOLEAN
      BY <1>2, <1>0, NativeAssumption DEF NativeEvents!EditHere
    <2>2. row' \in RowHere
      BY <1>2, <1>0, <2>1 DEF NativeEvents!EditHere, RowHere, TextNo
    <2> QED
      BY <1>2, <1>0, <2>1, <2>2 DEF NativeEvents!EditHere, NativeTyped
  <1>3. CASE NativeEvents!EditThere
    <2>1. texts' \in 1..MaxTexts /\ typed' \subseteq 1..texts' /\ texts + 1 \in TextNo
      BY <1>3, <1>0, NativeAssumption DEF NativeEvents!EditThere, TextNo
    <2>2. native' \in [NativeNo -> NativeThere]
      BY <1>3, <1>0, <2>1
         DEF NativeEvents!EditThere, NativeThere, NativeEvents!Natives, NativeNo
    <2> QED
      BY <1>3, <1>0, <2>1, <2>2 DEF NativeEvents!EditThere, NativeTyped
  <1>4. CASE NativeEvents!CancelHere
    BY <1>4, <1>0 DEF NativeEvents!CancelHere, NativeTyped, RowHere
  <1>5. CASE NativeEvents!EndOrDeleteThere
    <2>1. native' \in [NativeNo -> NativeThere]
      BY <1>5, <1>0 DEF NativeEvents!EndOrDeleteThere, NativeThere
    <2> QED
      BY <1>5, <1>0, <2>1 DEF NativeEvents!EndOrDeleteThere, NativeTyped
  <1>6. CASE NativeEvents!ReadToPush
    <2>1. push' \in PushRun
      BY <1>6, RowCopied DEF NativeEvents!ReadToPush, PushRun
    <2> QED
      BY <1>6, <1>0, <2>1 DEF NativeEvents!ReadToPush, NativeTyped
  <1>7. ASSUME NEW sending \in [text : TextNo, link : Linked], NativeEvents!Patch(sending)
        PROVE  native' \in [NativeNo -> NativeThere] /\ crossed' \in BOOLEAN
    <2>1. native' = [native EXCEPT ![sending.link].text = sending.text]
      BY <1>7 DEF NativeEvents!Patch
    <2>2. sending.text \in TextNo
      OBVIOUS
    <2>3. native' \in [NativeNo -> NativeThere]
      BY <1>0, <2>1, <2>2 DEF NativeThere
    <2>4. crossed' \in BOOLEAN
      BY <1>7 DEF NativeEvents!Patch, NativeEvents!Writes, NativeEvents!Unrecorded
    <2> QED
      BY <2>3, <2>4
  <1>8. NativeEvents!Quiet \in PushRun
    BY FirstNative DEF NativeEvents!Quiet, NativeEvents!Sent, NativeEvents!NoRow, PushRun
  <1>9. CASE NativeEvents!PushEditToDiscord
    <2>1. push' \in PushRun /\ due' \in BOOLEAN
      BY <1>9, <1>0, <1>8 DEF NativeEvents!PushEditToDiscord, PushRun
    <2>2. passes' \in [Calls -> SyncPass]
      BY <1>9, <1>0, PassesTyped DEF NativeEvents!PushEditToDiscord, NativeEvents!Raced
    <2>3. native' \in [NativeNo -> NativeThere] /\ crossed' \in BOOLEAN
      <3>1. push.copy \in [text : TextNo, link : Linked]
        BY <1>0 DEF PushRun
      <3> QED
        BY <1>9, <1>0, <1>7, <3>1 DEF NativeEvents!PushEditToDiscord, NativeEvents!Refuse
    <2> QED
      BY <1>9, <1>0, <2>1, <2>2, <2>3 DEF NativeEvents!PushEditToDiscord, NativeTyped
  <1>10. CASE NativeEvents!RecordNativeWrite
    <2>1. row' \in RowHere
      <3>1. push.copy.text \in TextNo
        BY <1>0 DEF PushRun
      <3> QED
        BY <1>10, <1>0, <3>1 DEF NativeEvents!RecordNativeWrite, RowHere
    <2> QED
      BY <1>10, <1>0, <1>8, <2>1 DEF NativeEvents!RecordNativeWrite, NativeTyped
  <1>11. ASSUME NEW p \in Calls, NativeEvents!ListScheduledEvents(p)
         PROVE  NativeTyped'
    <2> DEFINE listed == [n \in NativeNo |-> IF native[n].status = "scheduled"
                                             THEN native[n].text ELSE 0]
    <2>1. listed \in [NativeNo -> TextNo]
      BY <1>0, FirstNative DEF NativeThere
    <2> HIDE DEF listed
    <2>2. [NativeEvents!Resting EXCEPT !.at = "compare",
             !.raced = NativeEvents!Unrecorded \/ crossed, !.list = listed] \in SyncPass
      BY <2>1, <1>0, PassesTyped DEF SyncPass, NativeEvents!Unrecorded
    <2>3. passes' \in [Calls -> SyncPass]
      BY <1>11, <1>0, <2>2
         DEF NativeEvents!ListScheduledEvents, listed, NativeEvents!Natives, NativeNo
    <2> QED
      BY <1>11, <1>0, <2>3 DEF NativeEvents!ListScheduledEvents, NativeTyped
  <1>12. ASSUME NEW p \in Calls, NativeEvents!Import(p)
         PROVE  NativeTyped'
    <2>1. PICK n \in NativeNo :
            /\ row' = [text |-> passes[p].list[n], status |-> "open", link |-> n, wrote |-> 0]
            /\ passes' = [passes EXCEPT ![p].at = "imported", ![p].copy = NativeEvents!CopyOf(row)']
      BY <1>12 DEF NativeEvents!Import, NativeEvents!Natives, NativeNo
    <2>2. passes[p].list[n] \in TextNo /\ n \in Linked
      <3>1. passes[p].list[n] \in TextNo
        BY PassTyped DEF TextNo
      <3>2. n \in Linked
        BY NativeAssumption DEF NativeNo, Linked
      <3> QED
        BY <3>1, <3>2
    <2>3. row' \in RowHere
      BY <2>1, <2>2, FirstNative DEF RowHere
    <2>4. PICK c : c = NativeEvents!CopyOf(row)'
      OBVIOUS
    <2>5. c \in PassCopy
      BY <2>3, <2>4 DEF NativeEvents!CopyOf, RowHere, PassCopy
    <2>6. passes' \in [Calls -> SyncPass]
      <3>1. [passes[p] EXCEPT !.at = "imported", !.copy = c] \in SyncPass
        BY <1>0, <2>5 DEF SyncPass
      <3>2. passes' = [passes EXCEPT ![p] = [passes[p] EXCEPT !.at = "imported", !.copy = c]]
        BY <1>0, <2>1, <2>4
      <3> QED
        BY <1>0, <3>1, <3>2
    <2> QED
      BY <1>12, <1>0, <2>3, <2>6
         DEF NativeEvents!Import, NativeEvents!Writes, NativeEvents!Unrecorded, NativeTyped
  <1>13. ASSUME NEW p \in Calls, NativeEvents!ReadRow(p)
         PROVE  NativeTyped'
    <2>1. passes' \in [Calls -> SyncPass]
      <3>1. NativeEvents!CopyOf(row) \in PassCopy /\ NativeEvents!AfterSettle(p) \in SyncPass
        BY RowCopied, PassesTyped
      <3> QED
        BY <1>13, <1>0, <3>1 DEF NativeEvents!ReadRow, NativeEvents!Settled, SyncPass
    <2> QED
      BY <1>13, <1>0, <2>1 DEF NativeEvents!ReadRow, NativeTyped
  <1>14. ASSUME NEW p \in Calls
         PROVE  NativeEvents!Settled(p) \in [Calls -> SyncPass]
                /\ (passes[p].at = "settle" => NativeEvents!Theirs(p) \in TextNo)
    <2>1. passes[p].at = "settle" => passes[p].copy.link \in NativeNo
      BY PassTyped, <1>0, NativeAssumption DEF TextsNumbered, NumberedPass, NativeNo
    <2> QED
      BY <1>0, <2>1, PassTyped, PassesTyped
         DEF NativeEvents!Settled, NativeEvents!Theirs, TextNo
  <1>15. ASSUME NEW p \in Calls, NativeEvents!TakeDiscordEdit(p)
         PROVE  NativeTyped'
    <2>1. row' \in RowHere
      BY <1>15, <1>0, <1>14 DEF NativeEvents!TakeDiscordEdit, RowHere
    <2> QED
      BY <1>15, <1>0, <1>14, <2>1 DEF NativeEvents!TakeDiscordEdit, NativeTyped
  <1>16. ASSUME NEW p \in Calls, NativeEvents!PushOurs(p)
         PROVE  NativeTyped'
    <2>1. native' \in [NativeNo -> NativeThere] /\ crossed' \in BOOLEAN
      <3>1. CASE NativeEvents!Patch(passes[p].copy)
        BY <3>1, <1>0, PassTyped
           DEF NativeEvents!Patch, NativeEvents!Writes, NativeEvents!Unrecorded, NativeThere, TextNo
      <3> QED
        BY <3>1, <1>16, <1>0 DEF NativeEvents!PushOurs, NativeEvents!Refuse
    <2>2. passes' \in [Calls -> SyncPass]
      <3>1. NativeEvents!Raced \in [Calls -> SyncPass]
        BY PassesTyped DEF NativeEvents!Raced
      <3>2. [NativeEvents!Raced EXCEPT ![p].at = "record", ![p].raced = FALSE]
              \in [Calls -> SyncPass]
        BY <3>1 DEF SyncPass
      <3> QED
        BY <1>16, <1>14, <3>2 DEF NativeEvents!PushOurs
    <2> QED
      BY <1>16, <1>0, <2>1, <2>2 DEF NativeEvents!PushOurs, NativeTyped
  <1>17. ASSUME NEW p \in Calls, NativeEvents!Agree(p)
         PROVE  NativeTyped'
    <2>1. row' \in RowHere /\ crossed' \in BOOLEAN
      BY <1>17, <1>0, <1>14, PassTyped DEF NativeEvents!Agree, RowHere
    <2>2. passes' \in [Calls -> SyncPass]
      <3>1. /\ passes[p].raced \in BOOLEAN /\ NativeEvents!AfterSettle(p) \in SyncPass
            /\ \A late \in BOOLEAN : NativeEvents!Race(late) \in [Calls -> SyncPass]
        BY PassTyped, PassesTyped
      <3> QED
        BY <1>17, <1>14, <3>1 DEF NativeEvents!Agree
    <2> QED
      BY <1>17, <1>0, <2>1, <2>2 DEF NativeEvents!Agree, NativeTyped
  <1>18. ASSUME NEW p \in Calls, NativeEvents!RecordSent(p)
         PROVE  NativeTyped'
    <2>1. row' \in RowHere
      BY <1>18, <1>0, PassTyped DEF NativeEvents!RecordSent, RowHere, TextNo
    <2> QED
      BY <1>18, <1>0, <1>14, <2>1 DEF NativeEvents!RecordSent, NativeTyped
  <1>19. ASSUME NEW p \in Calls, NativeEvents!PublishToDiscord(p)
         PROVE  NativeTyped'
    <2>1. native' \in [NativeNo -> NativeThere] /\ crossed' \in BOOLEAN
      <3>1. [text |-> row.text, status |-> "scheduled", ours |-> TRUE] \in NativeThere
        BY <1>0 DEF NativeThere, RowHere
      <3> QED
        BY <1>19, <1>0, <3>1
           DEF NativeEvents!PublishToDiscord, NativeEvents!Writes, NativeEvents!Unrecorded
    <2>2. passes' \in [Calls -> SyncPass]
      <3>1. NativeEvents!Raced \in [Calls -> SyncPass]
        BY PassesTyped DEF NativeEvents!Raced
      <3>2. ASSUME NEW n \in NativeNo
            PROVE  [NativeEvents!Raced EXCEPT ![p].at = "link",
                      ![p].copy = [NativeEvents!CopyOf(row) EXCEPT !.link = n]]
                     \in [Calls -> SyncPass]
        <4>1. [NativeEvents!CopyOf(row) EXCEPT !.link = n] \in PassCopy
          BY RowCopied DEF PassCopy, Linked, NativeNo
        <4> QED
          BY <3>1, <4>1 DEF SyncPass
      <3>3. [passes EXCEPT ![p] = NativeEvents!Resting] \in [Calls -> SyncPass]
        BY <1>0, PassesTyped
      <3>4. \/ passes' = [passes EXCEPT ![p] = NativeEvents!Resting]
            \/ \E n \in NativeNo :
                 passes' = [NativeEvents!Raced EXCEPT ![p].at = "link",
                              ![p].copy = [NativeEvents!CopyOf(row) EXCEPT !.link = n]]
        BY <1>19 DEF NativeEvents!PublishToDiscord, NativeEvents!Natives, NativeNo
      <3>5. ASSUME NEW n \in NativeNo,
                   passes' = [NativeEvents!Raced EXCEPT ![p].at = "link",
                                ![p].copy = [NativeEvents!CopyOf(row) EXCEPT !.link = n]]
            PROVE  passes' \in [Calls -> SyncPass]
        BY ONLY <3>2, <3>5, n \in NativeNo
      <3> QED
        BY ONLY <3>3, <3>4, <3>5
    <2> QED
      BY <1>19, <1>0, <2>1, <2>2 DEF NativeEvents!PublishToDiscord, NativeTyped
  <1>20. ASSUME NEW p \in Calls, NativeEvents!LinkNative(p)
         PROVE  NativeTyped'
    <2>1. row' \in RowHere
      BY <1>20, <1>0, PassTyped DEF NativeEvents!LinkNative, RowHere, Linked
    <2>2. passes' \in [Calls -> SyncPass]
      BY <1>20, <1>0 DEF NativeEvents!LinkNative, NativeEvents!At, SyncPass
    <2> QED
      BY <1>20, <1>0, <2>1, <2>2 DEF NativeEvents!LinkNative, NativeTyped
  <1>21. ASSUME NEW p \in Calls, NativeEvents!SettleMissing(p)
         PROVE  NativeTyped'
    <2>1. row' \in RowHere
      BY <1>21, <1>0 DEF NativeEvents!SettleMissing, RowHere
    <2>2. passes' \in [Calls -> SyncPass]
      BY <1>21, <1>0, PassesTyped DEF NativeEvents!SettleMissing
    <2> QED
      BY <1>21, <1>0, <2>1, <2>2 DEF NativeEvents!SettleMissing, NativeTyped
  <1>22. ASSUME NEW p \in Calls, NativeEvents!DeleteNative(p)
         PROVE  NativeTyped'
    <2>1. native' \in [NativeNo -> NativeThere]
      BY <1>22, <1>0 DEF NativeEvents!DeleteNative, NativeThere
    <2>2. passes' \in [Calls -> SyncPass]
      BY <1>22, <1>0, PassesTyped DEF NativeEvents!DeleteNative
    <2> QED
      BY <1>22, <1>0, <2>1, <2>2 DEF NativeEvents!DeleteNative, NativeTyped
  <1> QED
    BY <1>1, <1>2, <1>3, <1>4, <1>5, <1>6, <1>9, <1>10, <1>11, <1>12, <1>13, <1>15, <1>16,
       <1>17,
       <1>18, <1>19, <1>20, <1>21, <1>22
       DEF NativeEvents!Next, NativeEvents!Pass, NativeEvents!Publish

\* Passes that rest, settle or are overtaken hold no text that is not made yet.
LEMMA PassesNumbered ==
  ASSUME NativeTyped, TextsNumbered
  PROVE  /\ \A p \in Calls : NumberedPass(NativeEvents!Resting, texts)
                             /\ NumberedPass(NativeEvents!AfterSettle(p), texts)
         /\ \A late \in BOOLEAN, p \in Calls : NumberedPass(NativeEvents!Race(late)[p], texts)
  <1>0. 0 <= texts /\ 1 <= texts
    BY RowTyped
  <1>1. /\ NativeEvents!Resting.at = "idle" /\ NativeEvents!Resting.copy.text = 0
        /\ NativeEvents!Resting.list = [n \in NativeNo |-> 0]
    BY DEF NativeEvents!Resting, NativeEvents!CopyOf, NativeEvents!NoRow,
       NativeEvents!Natives, NativeNo
  <1>2. NumberedPass(NativeEvents!Resting, texts)
    BY <1>0, <1>1 DEF NumberedPass
  <1>3. ASSUME NEW p \in Calls
        PROVE  NumberedPass(NativeEvents!AfterSettle(p), texts)
    <2>1. NativeEvents!Resting \in SyncPass
      BY PassesTyped
    <2>2. /\ NativeEvents!AfterSettle(p).at = "reconcile"
          /\ NativeEvents!AfterSettle(p).copy.text = 0
          /\ NativeEvents!AfterSettle(p).list
               = [n \in NativeNo |-> IF passes[p].list[n] = 0 THEN 0 ELSE 1]
      BY <1>1, <2>1 DEF NativeEvents!AfterSettle, NativeEvents!Natives, NativeNo, SyncPass
    <2> QED
      BY <1>0, <2>2 DEF NumberedPass
  <1>4. ASSUME NEW late \in BOOLEAN, NEW p \in Calls
        PROVE  NumberedPass(NativeEvents!Race(late)[p], texts)
    <2>1. /\ NativeEvents!Race(late)[p].at = passes[p].at
          /\ NativeEvents!Race(late)[p].list = passes[p].list
          /\ NativeEvents!Race(late)[p].copy = passes[p].copy
      BY PassTyped DEF NativeEvents!Race, SyncPass
    <2> QED
      BY <2>1 DEF TextsNumbered, NumberedPass
  <1> QED
    BY <1>2, <1>3, <1>4

\* What a pass's list says was made was made.
LEMMA ListedStep ==
  ASSUME NativeTyped, NativeTyped', ListedMade, NativeEvents!Next \/ UNCHANGED nativeVars
  PROVE  ListedMade'
  <1>0. /\ passes \in [Calls -> SyncPass] /\ native \in [NativeNo -> NativeThere]
        /\ NativeEvents!Natives = NativeNo
    BY DEF NativeTyped, NativeEvents!Natives, NativeNo
  <1>1. ASSUME NEW n \in NativeNo, native[n].status # "none"
        PROVE  native'[n].status # "none"
    <2>1. CASE NativeEvents!EditThere
      BY <2>1, <1>1, <1>0 DEF NativeEvents!EditThere, NativeThere
    <2>2. CASE NativeEvents!EndOrDeleteThere
      BY <2>2, <1>1, <1>0 DEF NativeEvents!EndOrDeleteThere, NativeThere
    <2>3. ASSUME NEW sending \in [text : TextNo, link : Linked], NativeEvents!Patch(sending)
          PROVE  native'[n].status # "none"
      BY <2>3, <1>1, <1>0 DEF NativeEvents!Patch, NativeThere
    <2>4. CASE NativeEvents!PushEditToDiscord
      <3>1. push.copy \in [text : TextNo, link : Linked]
        BY DEF NativeTyped, PushRun
      <3> QED
        BY <2>3, <2>4, <3>1, <1>1 DEF NativeEvents!PushEditToDiscord
    <2>5. ASSUME NEW p \in Calls, NativeEvents!PushOurs(p)
          PROVE  native'[n].status # "none"
      BY <2>5, <1>1, <1>0 DEF NativeEvents!PushOurs, NativeEvents!Patch, NativeThere
    <2>6. ASSUME NEW p \in Calls, NativeEvents!PublishToDiscord(p)
          PROVE  native'[n].status # "none"
      BY <2>6, <1>1, <1>0 DEF NativeEvents!PublishToDiscord
    <2>7. ASSUME NEW p \in Calls, NativeEvents!DeleteNative(p)
          PROVE  native'[n].status # "none"
      <3>1. native' = native \/ native' = [native EXCEPT ![row.link].status = "deleted"]
        BY <2>7 DEF NativeEvents!DeleteNative
      <3>2. [native EXCEPT ![row.link].status = "deleted"][n].status # "none"
        BY <1>0, <1>1 DEF NativeThere
      <3> QED
        BY <3>1, <3>2, <1>1
    <2>8. \/ UNCHANGED native \/ NativeEvents!EditThere \/ NativeEvents!EndOrDeleteThere
          \/ NativeEvents!PushEditToDiscord
          \/ \E p \in Calls : \/ NativeEvents!PushOurs(p) \/ NativeEvents!PublishToDiscord(p)
                              \/ NativeEvents!DeleteNative(p)
      <3>1. ASSUME \/ NativeEvents!EditHere \/ NativeEvents!CancelHere
                   \/ NativeEvents!ReadToPush \/ NativeEvents!RecordNativeWrite
                   \/ UNCHANGED nativeVars
            PROVE  UNCHANGED native
        BY <3>1 DEF nativeVars, NativeEvents!EditHere, NativeEvents!CancelHere,
           NativeEvents!ReadToPush, NativeEvents!RecordNativeWrite
      <3>2. ASSUME NEW p \in Calls,
                   \/ NativeEvents!ListScheduledEvents(p) \/ NativeEvents!Import(p)
                   \/ NativeEvents!ReadRow(p) \/ NativeEvents!TakeDiscordEdit(p)
            PROVE  UNCHANGED native
        BY <3>2 DEF NativeEvents!ListScheduledEvents, NativeEvents!Import,
           NativeEvents!ReadRow, NativeEvents!TakeDiscordEdit
      <3>3. ASSUME NEW p \in Calls,
                   \/ NativeEvents!Agree(p) \/ NativeEvents!RecordSent(p)
                   \/ NativeEvents!LinkNative(p) \/ NativeEvents!SettleMissing(p)
            PROVE  UNCHANGED native
        BY <3>3 DEF NativeEvents!Agree, NativeEvents!RecordSent, NativeEvents!LinkNative,
           NativeEvents!SettleMissing
      <3> QED
        BY <3>1, <3>2, <3>3 DEF NativeEvents!Next, NativeEvents!Pass, NativeEvents!Publish
    <2> QED
      BY <2>1, <2>2, <2>4, <2>5, <2>6, <2>7, <2>8, <1>1
  <1>2. NativeEvents!Resting.list = [n \in NativeNo |-> 0]
    BY DEF NativeEvents!Resting, NativeEvents!Natives, NativeNo
  <1>3. ASSUME NEW p \in Calls
        PROVE  NativeEvents!AfterSettle(p).list
                 = [n \in NativeNo |-> IF passes[p].list[n] = 0 THEN 0 ELSE 1]
    BY PassesTyped DEF NativeEvents!AfterSettle, NativeEvents!Natives, NativeNo, SyncPass
  <1>4. ASSUME NEW late \in BOOLEAN, NEW q \in Calls
        PROVE  NativeEvents!Race(late)[q].list = passes[q].list
    BY PassTyped DEF NativeEvents!Race, SyncPass
  <1>5. ASSUME NEW q \in Calls, NEW n \in NativeNo, passes'[q].list[n] # 0
        PROVE  passes[q].list[n] # 0 \/ native[n].status = "scheduled"
    <2>1. CASE UNCHANGED passes
      BY <2>1, <1>5
    <2>2. CASE passes' = NativeEvents!Raced
      BY <2>2, <1>4, <1>5 DEF NativeEvents!Raced
    <2>3. ASSUME NEW p \in Calls,
                 \/ passes' = NativeEvents!Settled(p)
                 \/ passes' = [passes EXCEPT ![p] = NativeEvents!Resting]
          PROVE  passes[q].list[n] # 0
      <3>1. CASE passes' = [passes EXCEPT ![p] = NativeEvents!Resting]
        BY <3>1, <1>0, <1>2, <1>5
      <3>2. CASE passes' = [passes EXCEPT ![p] = NativeEvents!AfterSettle(p)]
        <4>1. CASE q = p
          <5>1. passes'[q].list = [m \in NativeNo |-> IF passes[p].list[m] = 0 THEN 0 ELSE 1]
            BY <3>2, <4>1, <1>0, <1>3
          <5> QED
            BY <4>1, <5>1, <1>5
        <4> QED
          BY <3>2, <4>1, <1>0, <1>5
      <3> QED
        BY <2>3, <3>1, <3>2 DEF NativeEvents!Settled
    <2>4. ASSUME NEW p \in Calls, NativeEvents!ListScheduledEvents(p)
          PROVE  passes[q].list[n] # 0 \/ native[n].status = "scheduled"
      BY <2>4, <1>0, <1>5, PassesTyped DEF NativeEvents!ListScheduledEvents, SyncPass
    <2>5. ASSUME NEW p \in Calls, NativeEvents!Import(p) \/ NativeEvents!LinkNative(p)
          PROVE  passes[q].list[n] # 0
      <3>1. CASE NativeEvents!LinkNative(p)
        BY <3>1, <1>0, <1>5 DEF NativeEvents!LinkNative, NativeEvents!At, SyncPass
      <3>2. PICK c : c = NativeEvents!CopyOf(row)'
        OBVIOUS
      <3>3. CASE passes' = [passes EXCEPT ![p].at = "imported", ![p].copy = c]
        BY <3>3, <1>0, <1>5 DEF SyncPass
      <3> QED
        BY <2>5, <3>1, <3>2, <3>3 DEF NativeEvents!Import
    <2>6. ASSUME NEW p \in Calls, NativeEvents!ReadRow(p)
          PROVE  passes[q].list[n] # 0
      <3>1. CASE passes' = [passes EXCEPT ![p].copy = NativeEvents!CopyOf(row), ![p].at = "settle"]
        BY <3>1, <1>0, <1>5 DEF SyncPass
      <3> QED
        BY <3>1, <2>3, <2>6 DEF NativeEvents!ReadRow
    <2>7. NativeEvents!Raced \in [Calls -> SyncPass]
      BY PassesTyped DEF NativeEvents!Raced
    <2>8. ASSUME NEW p \in Calls, NativeEvents!PushOurs(p)
          PROVE  passes[q].list[n] # 0
      <3>1. CASE passes' = [NativeEvents!Raced EXCEPT ![p].at = "record", ![p].raced = FALSE]
        BY <3>1, <2>7, <1>4, <1>5 DEF SyncPass, NativeEvents!Raced
      <3> QED
        BY <3>1, <2>3, <2>8 DEF NativeEvents!PushOurs
    <2>9. ASSUME NEW p \in Calls, NativeEvents!Agree(p)
          PROVE  passes[q].list[n] # 0
      <3>1. CASE passes' = [NativeEvents!Race(passes[p].raced) EXCEPT
                              ![p] = NativeEvents!AfterSettle(p)]
        <4>1. NativeEvents!Race(passes[p].raced) \in [Calls -> SyncPass]
          BY PassesTyped, PassTyped
        <4>2. CASE q = p
          <5>1. passes'[q].list = [m \in NativeNo |-> IF passes[p].list[m] = 0 THEN 0 ELSE 1]
            BY <3>1, <4>1, <4>2, <1>3
          <5> QED
            BY <4>2, <5>1, <1>5
        <4>3. CASE q # p
          <5>1. passes'[q] = NativeEvents!Race(passes[p].raced)[q]
            BY <3>1, <4>1, <4>3
          <5> QED
            BY <5>1, <1>4, <1>5, PassTyped
        <4> QED
          BY <4>2, <4>3
      <3> QED
        BY <3>1, <2>3, <2>9 DEF NativeEvents!Agree
    <2>10. ASSUME NEW p \in Calls, NativeEvents!PublishToDiscord(p)
           PROVE  passes[q].list[n] # 0
      <3>1. ASSUME NEW m \in NativeNo,
                   passes' = [NativeEvents!Raced EXCEPT ![p].at = "link",
                                ![p].copy = [NativeEvents!CopyOf(row) EXCEPT !.link = m]]
            PROVE  passes[q].list[n] # 0
        BY <3>1, <2>7, <1>4, <1>5 DEF SyncPass, NativeEvents!Raced
      <3> QED
        BY <3>1, <2>3, <2>10, <1>0 DEF NativeEvents!PublishToDiscord
    <2>11. \/ UNCHANGED passes \/ passes' = NativeEvents!Raced
           \/ \E p \in Calls :
                \/ passes' = NativeEvents!Settled(p)
                \/ passes' = [passes EXCEPT ![p] = NativeEvents!Resting]
                \/ NativeEvents!ListScheduledEvents(p) \/ NativeEvents!Import(p)
                \/ NativeEvents!LinkNative(p) \/ NativeEvents!ReadRow(p)
                \/ NativeEvents!PushOurs(p) \/ NativeEvents!Agree(p)
                \/ NativeEvents!PublishToDiscord(p)
      BY DEF NativeEvents!Next, NativeEvents!Pass, NativeEvents!Publish, nativeVars,
         NativeEvents!EditHere, NativeEvents!EditThere, NativeEvents!EndOrDeleteThere,
         NativeEvents!CancelHere, NativeEvents!ReadToPush, NativeEvents!PushEditToDiscord,
         NativeEvents!RecordNativeWrite, NativeEvents!TakeDiscordEdit, NativeEvents!RecordSent,
         NativeEvents!SettleMissing, NativeEvents!DeleteNative
    <2> QED
      BY <2>1, <2>2, <2>3, <2>4, <2>5, <2>6, <2>8, <2>9, <2>10, <2>11
  <1> QED
    BY <1>0, <1>1, <1>5 DEF ListedMade

\* No text is used before somebody typed it.
LEMMA TextsStep ==
  ASSUME NativeTyped, NativeTyped', TextsNumbered, ListedMade,
         NativeEvents!Next \/ UNCHANGED nativeVars
  PROVE  TextsNumbered'
  <1>0. /\ row.text <= texts /\ (row.status # "none" => row.text # 0)
        /\ push.copy.text <= texts
        /\ push.at # "idle" => push.copy.text # 0 /\ push.copy.link # 0
        /\ \A n \in NativeNo : /\ native[n].text <= texts
                               /\ native[n].status # "none" => native[n].text # 0
        /\ \A p \in Calls : NumberedPass(passes[p], texts)
        /\ passes \in [Calls -> SyncPass] /\ row \in RowHere
        /\ native \in [NativeNo -> NativeThere] /\ push \in PushRun
    BY DEF TextsNumbered, NativeTyped
  <1>n. NativeEvents!Natives = NativeNo
    BY DEF NativeEvents!Natives, NativeNo
  <1>1. CASE UNCHANGED nativeVars
    BY <1>1, <1>0 DEF nativeVars, TextsNumbered
  <1>2. ASSUME texts' = texts + 1, UNCHANGED <<passes, push>>
        PROVE  /\ \A p \in Calls : NumberedPass(passes'[p], texts')
               /\ push'.copy.text <= texts'
    <2>1. ASSUME NEW p \in Calls
          PROVE  NumberedPass(passes'[p], texts')
      <3>1. passes[p].list \in [NativeNo -> 0..MaxTexts] /\ passes[p].copy.text \in 0..MaxTexts
            /\ texts \in Nat /\ texts <= texts'
        BY PassTyped, RowTyped, <1>2
      <3>2. ASSUME NEW n \in NativeNo
            PROVE  passes[p].list[n] <= texts'
        <4>1. PICK l : l = passes[p].list[n]
          OBVIOUS
        <4>2. l <= texts /\ l \in 0..MaxTexts
          BY <4>1, <3>1, <1>0 DEF NumberedPass
        <4> QED
          BY <4>1, <4>2, <3>1, <1>2
      <3> QED
        BY <1>0, <1>2, <3>1, <3>2 DEF NumberedPass
    <2> QED
      BY <2>1, <1>2, <1>0, RowTyped
  <1>3. ASSUME texts' = texts + 1
        PROVE  row.text <= texts' /\ \A n \in NativeNo : native[n].text <= texts'
    BY <1>3, <1>0, RowTyped, NativeThereTyped
  <1>4. CASE NativeEvents!EditHere
    <2>1. row'.text = texts' /\ row'.text # 0
      BY <1>4, <1>0, RowTyped DEF NativeEvents!EditHere, RowHere
    <2>2. texts' = texts + 1 /\ UNCHANGED <<passes, push, native>>
      BY <1>4 DEF NativeEvents!EditHere
    <2> QED
      BY <2>1, <2>2, <1>0, <1>2, <1>3, RowTyped DEF TextsNumbered
  <1>5. CASE NativeEvents!EditThere
    <2>1. texts' = texts + 1 /\ UNCHANGED <<passes, push, row>>
      BY <1>5 DEF NativeEvents!EditThere
    <2>2. PICK n \in NativeNo : native' = [native EXCEPT ![n].text = texts + 1]
      BY <1>5, <1>n DEF NativeEvents!EditThere
    <2>3. ASSUME NEW m \in NativeNo
          PROVE  native'[m].text <= texts' /\ (native'[m].status # "none" => native'[m].text # 0)
      BY <2>1, <2>2, <1>0, <1>3, RowTyped, NativeThereTyped DEF NativeThere
    <2> QED
      BY <2>1, <2>3, <1>0, <1>2, <1>3 DEF TextsNumbered
  <1>6. CASE NativeEvents!CancelHere
    BY <1>6, <1>0 DEF NativeEvents!CancelHere, TextsNumbered, RowHere
  <1>7. CASE NativeEvents!EndOrDeleteThere
    <2>1. /\ UNCHANGED <<passes, push, row, texts>>
          /\ \E n \in NativeNo, status \in {"completed", "deleted"} :
               native[n].status = "scheduled" /\ native' = [native EXCEPT ![n].status = status]
      BY <1>7, <1>n DEF NativeEvents!EndOrDeleteThere
    <2>2. ASSUME NEW m \in NativeNo
          PROVE  native'[m].text <= texts' /\ (native'[m].status # "none" => native'[m].text # 0)
      BY <2>1, <1>0, NativeThereTyped DEF NativeThere
    <2> QED
      BY <2>1, <2>2, <1>0 DEF TextsNumbered
  <1>8. CASE NativeEvents!ReadToPush
    BY <1>8, <1>0 DEF NativeEvents!ReadToPush, NativeEvents!Sent, TextsNumbered
  <1>9. /\ NativeEvents!Quiet.at = "idle" /\ NativeEvents!Quiet.copy.text = 0
        /\ 0 <= texts
    BY RowTyped DEF NativeEvents!Quiet, NativeEvents!Sent, NativeEvents!NoRow
  <1>10. ASSUME NEW sending \in [text : TextNo, link : Linked], NativeEvents!Patch(sending),
                sending.text # 0, sending.text <= texts, sending.link # 0
         PROVE  \A m \in NativeNo :
                  native'[m].text <= texts /\ (native'[m].status # "none" => native'[m].text # 0)
    BY <1>10, <1>0, NativeThereTyped DEF NativeEvents!Patch, NativeThere
  <1>11. CASE NativeEvents!PushEditToDiscord
    <2>1. UNCHANGED <<row, texts>>
      BY <1>11 DEF NativeEvents!PushEditToDiscord
    <2>2. push'.copy.text <= texts /\ (push'.at # "idle" => push'.copy.text # 0
                                                          /\ push'.copy.link # 0)
      <3>1. push.at # "idle"
        BY <1>11 DEF NativeEvents!PushEditToDiscord
      <3> QED
        BY <1>11, <1>0, <1>9, <3>1 DEF NativeEvents!PushEditToDiscord, PushRun
    <2>3. \A q \in Calls : NumberedPass(passes'[q], texts)
      BY <1>11, <1>0, PassesNumbered DEF NativeEvents!PushEditToDiscord, NativeEvents!Raced
    <2>4. \A m \in NativeNo :
            native'[m].text <= texts /\ (native'[m].status # "none" => native'[m].text # 0)
      <3>1. push.at # "idle" /\ push.copy \in [text : TextNo, link : Linked]
        BY <1>11, <1>0 DEF NativeEvents!PushEditToDiscord, PushRun
      <3> QED
        BY <1>11, <1>0, <1>10, <3>1 DEF NativeEvents!PushEditToDiscord
    <2> QED
      BY <2>1, <2>2, <2>3, <2>4, <1>0 DEF TextsNumbered
  <1>12. CASE NativeEvents!RecordNativeWrite
    BY <1>12, <1>0, <1>9 DEF NativeEvents!RecordNativeWrite, TextsNumbered, RowHere
  <1>13. ASSUME NEW p \in Calls, NEW moved \in SyncPass, NumberedPass(moved, texts),
                passes' = [passes EXCEPT ![p] = moved], UNCHANGED texts
         PROVE  \A q \in Calls : NumberedPass(passes'[q], texts')
    BY <1>13, <1>0
  <1>14. ASSUME NEW p \in Calls, NativeEvents!Settled(p) = passes', UNCHANGED texts
         PROVE  \A q \in Calls : NumberedPass(passes'[q], texts')
    BY <1>14, <1>0, PassesNumbered DEF NativeEvents!Settled
  <1>15. ASSUME NEW p \in Calls, NativeEvents!ListScheduledEvents(p)
         PROVE  TextsNumbered'
    <2>1. UNCHANGED <<row, native, push, texts>>
      BY <1>15 DEF NativeEvents!ListScheduledEvents
    <2>2. /\ \A q \in Calls \ {p} : passes'[q] = passes[q]
          /\ passes'[p].at = "compare" /\ passes'[p].copy = NativeEvents!Resting.copy
          /\ passes'[p].list = [n \in NativeNo |-> IF native[n].status = "scheduled"
                                                   THEN native[n].text ELSE 0]
      BY <1>15, <1>0, <1>n, PassesTyped DEF NativeEvents!ListScheduledEvents, SyncPass
    <2>3. NativeEvents!Resting.copy.text = 0
      BY DEF NativeEvents!Resting, NativeEvents!CopyOf, NativeEvents!NoRow
    <2>4. NumberedPass(passes'[p], texts)
      BY <2>2, <2>3, <1>0, <1>9 DEF NumberedPass
    <2> QED
      BY <2>1, <2>2, <2>4, <1>0 DEF TextsNumbered
  <1>16. ASSUME NEW p \in Calls, NativeEvents!Import(p)
         PROVE  TextsNumbered'
    <2>1. UNCHANGED <<native, push, texts>>
      BY <1>16 DEF NativeEvents!Import
    <2>2. PICK n \in NativeNo :
            /\ passes[p].list[n] # 0
            /\ row' = [text |-> passes[p].list[n], status |-> "open", link |-> n, wrote |-> 0]
            /\ passes' = [passes EXCEPT ![p].at = "imported", ![p].copy = NativeEvents!CopyOf(row)']
      BY <1>16, <1>n DEF NativeEvents!Import
    <2>3. passes[p].list[n] <= texts
      BY <1>0 DEF NumberedPass
    <2>4. PICK c : c = NativeEvents!CopyOf(row)'
      OBVIOUS
    <2>5. c.text = passes[p].list[n] /\ c.link = n /\ n # 0
      BY <2>2, <2>4 DEF NativeEvents!CopyOf, NativeNo
    <2>6. /\ \A q \in Calls \ {p} : passes'[q] = passes[q]
          /\ passes'[p].at = "imported" /\ passes'[p].copy = c /\ passes'[p].list = passes[p].list
      BY <2>2, <2>4, <1>0 DEF SyncPass
    <2>7. NumberedPass(passes'[p], texts)
      BY <2>2, <2>3, <2>5, <2>6, <1>0 DEF NumberedPass
    <2> QED
      BY <2>1, <2>2, <2>3, <2>6, <2>7, <1>0 DEF TextsNumbered
  <1>17. ASSUME NEW p \in Calls, NativeEvents!ReadRow(p)
         PROVE  TextsNumbered'
    <2>1. UNCHANGED <<row, native, push, texts>> /\ row.status # "none"
      BY <1>17 DEF NativeEvents!ReadRow
    <2>2. CASE passes' = NativeEvents!Settled(p)
      BY <2>1, <2>2, <1>0, <1>14 DEF TextsNumbered
    <2>3. CASE /\ NativeEvents!Listed(p)
               /\ passes' = [passes EXCEPT ![p].copy = NativeEvents!CopyOf(row), ![p].at = "settle"]
      <3>1. /\ \A q \in Calls \ {p} : passes'[q] = passes[q]
            /\ passes'[p].copy = NativeEvents!CopyOf(row) /\ passes'[p].list = passes[p].list
        BY <2>3, <1>0 DEF SyncPass
      <3>2. row.link # 0 /\ passes[p].list[row.link] # 0
        BY <2>3 DEF NativeEvents!Listed, NativeEvents!Natives
      <3>3. NativeEvents!CopyOf(row).text = row.text /\ NativeEvents!CopyOf(row).link = row.link
        BY DEF NativeEvents!CopyOf
      <3>4. NumberedPass(passes'[p], texts)
        BY <2>1, <3>1, <3>2, <3>3, <1>0 DEF NumberedPass
      <3> QED
        BY <2>1, <3>1, <3>4, <1>0 DEF TextsNumbered
    <2> QED
      BY <1>17, <2>2, <2>3 DEF NativeEvents!ReadRow
  <1>18. ASSUME NEW p \in Calls, NativeEvents!TakeDiscordEdit(p)
         PROVE  TextsNumbered'
    <2>1. /\ UNCHANGED <<native, push, texts>> /\ passes' = NativeEvents!Settled(p)
          /\ passes[p].at = "settle" /\ row' = [row EXCEPT !.text = NativeEvents!Theirs(p)]
      BY <1>18 DEF NativeEvents!TakeDiscordEdit
    <2>2. passes[p].copy.link \in NativeNo
      BY <2>1, <1>0, PassTyped, NativeAssumption DEF NumberedPass, NativeNo
    <2>3. NativeEvents!Theirs(p) # 0 /\ NativeEvents!Theirs(p) <= texts
      BY <2>1, <2>2, <1>0 DEF NativeEvents!Theirs, NumberedPass
    <2>4. row'.text = NativeEvents!Theirs(p)
      BY <2>1, <1>0 DEF RowHere
    <2> QED
      BY <2>1, <2>3, <2>4, <1>0, <1>14 DEF TextsNumbered
  <1>19. ASSUME NEW p \in Calls, NativeEvents!PushOurs(p)
         PROVE  TextsNumbered'
    <2>1. UNCHANGED <<row, push, texts>> /\ passes[p].at = "settle"
      BY <1>19 DEF NativeEvents!PushOurs
    <2>2. CASE NativeEvents!Patch(passes[p].copy)
               /\ passes' = [NativeEvents!Raced EXCEPT ![p].at = "record", ![p].raced = FALSE]
      <3>0. NativeEvents!Raced \in [Calls -> SyncPass]
            /\ \A q \in Calls : NumberedPass(NativeEvents!Raced[q], texts)
        BY PassesTyped, PassesNumbered DEF NativeEvents!Raced
      <3>1. /\ NativeEvents!Raced[p].copy = passes[p].copy
            /\ NativeEvents!Raced[p].list = passes[p].list
        BY PassTyped DEF NativeEvents!Raced, NativeEvents!Race, SyncPass
      <3>2. /\ \A q \in Calls \ {p} : passes'[q] = NativeEvents!Raced[q]
            /\ passes'[p].copy = passes[p].copy /\ passes'[p].list = passes[p].list
            /\ passes'[p].at = "record"
        BY <2>2, <3>0, <3>1 DEF SyncPass
      <3>3. NumberedPass(passes'[p], texts)
        BY <2>1, <3>2, <1>0 DEF NumberedPass
      <3>4. /\ passes[p].copy.text # 0 /\ passes[p].copy.text <= texts /\ passes[p].copy.link # 0
        BY <2>1, <1>0 DEF NumberedPass
      <3>5. \A m \in NativeNo :
              native'[m].text <= texts /\ (native'[m].status # "none" => native'[m].text # 0)
        BY <2>2, <3>4, <1>0, PassTyped, NativeThereTyped DEF NativeEvents!Patch, NativeThere
      <3> QED
        BY <2>1, <3>0, <3>2, <3>3, <3>5, <1>0 DEF TextsNumbered
    <2>3. CASE UNCHANGED native /\ passes' = NativeEvents!Settled(p)
      BY <2>1, <2>3, <1>0, <1>14 DEF TextsNumbered
    <2> QED
      BY <1>19, <2>2, <2>3 DEF NativeEvents!PushOurs
  <1>20. ASSUME NEW p \in Calls, NativeEvents!Agree(p)
         PROVE  TextsNumbered'
    <2>1. /\ UNCHANGED <<native, push, texts>>
          /\ row' = row \/ row' = [row EXCEPT !.wrote = NativeEvents!Theirs(p)]
          /\ \/ passes' = NativeEvents!Settled(p)
             \/ passes' = [NativeEvents!Race(passes[p].raced) EXCEPT
                             ![p] = NativeEvents!AfterSettle(p)]
      BY <1>20 DEF NativeEvents!Agree
    <2>2. row'.text = row.text /\ row'.status = row.status
      BY <2>1, <1>0 DEF RowHere
    <2>3. \A q \in Calls : NumberedPass(passes'[q], texts)
      BY <2>1, <1>14, PassTyped, PassesTyped, PassesNumbered
    <2> QED
      BY <2>1, <2>2, <2>3, <1>0 DEF TextsNumbered
  <1>21. ASSUME NEW p \in Calls, NativeEvents!RecordSent(p)
         PROVE  TextsNumbered'
    <2>1. /\ UNCHANGED <<native, push, texts>> /\ passes' = NativeEvents!Settled(p)
          /\ row'.text = row.text /\ row'.status = row.status
      BY <1>21, <1>0 DEF NativeEvents!RecordSent, RowHere
    <2> QED
      BY <2>1, <1>0, <1>14 DEF TextsNumbered
  <1>22. ASSUME NEW p \in Calls, NativeEvents!PublishToDiscord(p)
         PROVE  TextsNumbered'
    <2>1. UNCHANGED <<row, push, texts>> /\ row.text # 0
      BY <1>22, <1>0 DEF NativeEvents!PublishToDiscord
    <2>2. CASE passes' = [passes EXCEPT ![p] = NativeEvents!Resting] /\ UNCHANGED native
      BY <2>1, <2>2, <1>0, PassesNumbered DEF TextsNumbered
    <2>3. ASSUME NEW n \in NativeNo,
                 native' = [native EXCEPT ![n] = [text |-> row.text, status |-> "scheduled",
                                                  ours |-> TRUE]],
                 passes' = [NativeEvents!Raced EXCEPT ![p].at = "link",
                              ![p].copy = [NativeEvents!CopyOf(row) EXCEPT !.link = n]]
          PROVE  TextsNumbered'
      <3>0. NativeEvents!Raced \in [Calls -> SyncPass]
            /\ \A q \in Calls : NumberedPass(NativeEvents!Raced[q], texts)
        BY PassesTyped, PassesNumbered DEF NativeEvents!Raced
      <3>1. PICK c : c = [NativeEvents!CopyOf(row) EXCEPT !.link = n]
        OBVIOUS
      <3>2. c.text = row.text /\ c.link = n /\ n # 0
        BY <3>1 DEF NativeEvents!CopyOf, NativeNo
      <3>3. /\ \A q \in Calls \ {p} : passes'[q] = NativeEvents!Raced[q]
            /\ passes'[p].copy = c /\ passes'[p].list = NativeEvents!Raced[p].list
            /\ passes'[p].at = "link"
        BY <2>3, <3>0, <3>1 DEF SyncPass
      <3>4. NumberedPass(passes'[p], texts)
        BY <2>1, <3>0, <3>2, <3>3, <1>0 DEF NumberedPass
      <3>5. \A m \in NativeNo :
              native'[m].text <= texts /\ (native'[m].status # "none" => native'[m].text # 0)
        BY <2>1, <2>3, <1>0
      <3> QED
        BY <2>1, <3>0, <3>3, <3>4, <3>5, <1>0 DEF TextsNumbered
    <2> QED
      BY <1>22, <1>n, <2>2, <2>3 DEF NativeEvents!PublishToDiscord
  <1>23. ASSUME NEW p \in Calls, NativeEvents!LinkNative(p)
         PROVE  TextsNumbered'
    <2>1. /\ UNCHANGED <<native, push, texts>>
          /\ row'.text = row.text /\ row'.status = row.status
      BY <1>23, <1>0 DEF NativeEvents!LinkNative, RowHere
    <2>2. /\ \A q \in Calls \ {p} : passes'[q] = passes[q]
          /\ passes'[p].copy = passes[p].copy /\ passes'[p].list = passes[p].list
          /\ passes'[p].at = "record" /\ passes[p].at = "link"
      BY <1>23, <1>0 DEF NativeEvents!LinkNative, NativeEvents!At, SyncPass
    <2>3. NumberedPass(passes'[p], texts)
      BY <2>2, <1>0 DEF NumberedPass
    <2> QED
      BY <2>1, <2>2, <2>3, <1>0 DEF TextsNumbered
  <1>24. ASSUME NEW p \in Calls, NativeEvents!SettleMissing(p)
         PROVE  TextsNumbered'
    <2>1. /\ UNCHANGED <<native, push, texts>> /\ row'.text = row.text /\ row.status # "none"
          /\ passes' = [passes EXCEPT ![p] = NativeEvents!Resting]
      BY <1>24, <1>0 DEF NativeEvents!SettleMissing, RowHere
    <2> QED
      BY <2>1, <1>0, PassesNumbered DEF TextsNumbered
  <1>25. ASSUME NEW p \in Calls, NativeEvents!DeleteNative(p)
         PROVE  TextsNumbered'
    <2>1. /\ UNCHANGED <<row, push, texts>>
          /\ passes' = [passes EXCEPT ![p] = NativeEvents!Resting]
      BY <1>25 DEF NativeEvents!DeleteNative
    <2>2. \/ UNCHANGED native
          \/ row.link \in NativeNo /\ native[row.link].text # 0
             /\ native' = [native EXCEPT ![row.link].status = "deleted"]
      BY <1>25, <1>0, <1>n DEF NativeEvents!DeleteNative, NativeEvents!Listed, ListedMade
    <2>3. \A m \in NativeNo :
            native'[m].text <= texts /\ (native'[m].status # "none" => native'[m].text # 0)
      BY <2>2, <1>0 DEF NativeThere
    <2> QED
      BY <2>1, <2>3, <1>0, PassesNumbered DEF TextsNumbered
  <1> QED
    BY <1>1, <1>4, <1>5, <1>6, <1>7, <1>8, <1>11, <1>12, <1>15, <1>16, <1>17, <1>18, <1>19,
       <1>20,
       <1>21, <1>22, <1>23, <1>24, <1>25
       DEF NativeEvents!Next, NativeEvents!Pass, NativeEvents!Publish

\* What a step that writes nothing, and records nothing, leaves as it was.
LEMMA NothingWritten ==
  ASSUME NativeTyped, WritesKnown, ListsAgree, CopiesAgree,
         typed' = typed, crossed' = crossed, There'.text = There.text, row'.wrote = row.wrote,
         push'.at = "record" <=> push.at = "record",
         push.at = "record" => push'.copy.text = push.copy.text,
         \A q \in Calls :
           /\ Writing(q)' <=> Writing(q)
           /\ Writing(q) => passes'[q].copy.text = passes[q].copy.text
           /\ Fresh(q)' => Fresh(q) /\ passes'[q].list[1] = passes[q].list[1]
           /\ passes'[q].at = "settle" =>
                passes[q].at = "settle" /\ passes'[q].copy = passes[q].copy
  PROVE  WritesKnown' /\ ListsAgree' /\ CopiesAgree'
  <1>1. Writers' = Writers
    BY DEF Writers
  <1>2. \A q \in Writers : passes'[q].copy.text = passes[q].copy.text
    BY DEF Writers
  <1>3. WritesKnown'
    BY <1>1, <1>2 DEF WritesKnown
  <1>4. ListsAgree'
    BY <1>1 DEF ListsAgree
  <1>5. CopiesAgree'
    BY DEF CopiesAgree
  <1> QED
    BY <1>3, <1>4, <1>5

\* A pass done with the row, or at rest.
Leaves(p) ==
  /\ \A q \in Calls \ {p} : passes'[q] = passes[q]
  /\ passes'[p].at \in {"idle", "reconcile"}
  /\ \A n \in NativeNo : passes'[p].list[n] \in {0, 1}
                         /\ (passes[p].list[n] = 0 => passes'[p].list[n] = 0)

\* A pass that settles or rests is done with its copy, and its list names no more events.
LEMMA PassLeaves ==
  ASSUME NativeTyped, NEW p \in Calls,
         \/ passes' = NativeEvents!Settled(p)
         \/ passes' = [passes EXCEPT ![p] = NativeEvents!Resting]
  PROVE  Leaves(p)
  <1>0. passes \in [Calls -> SyncPass]
    BY DEF NativeTyped
  <1>1. CASE passes' = [passes EXCEPT ![p] = NativeEvents!Resting]
    <2>1. NativeEvents!Resting.list = [n \in NativeNo |-> 0] /\ NativeEvents!Resting.at = "idle"
      BY DEF NativeEvents!Resting, NativeEvents!Natives, NativeNo
    <2> QED
      BY <1>0, <1>1, <2>1 DEF Leaves
  <1>2. CASE passes' = [passes EXCEPT ![p] = NativeEvents!AfterSettle(p)]
    <2>1. /\ NativeEvents!AfterSettle(p).list
               = [n \in NativeNo |-> IF passes[p].list[n] = 0 THEN 0 ELSE 1]
          /\ NativeEvents!AfterSettle(p).at = "reconcile"
      BY PassesTyped DEF NativeEvents!AfterSettle, NativeEvents!Natives, NativeNo, SyncPass
    <2>2. passes'[p] = NativeEvents!AfterSettle(p) /\ \A q \in Calls \ {p} : passes'[q] = passes[q]
      BY <1>0, <1>2
    <2>3. \A n \in NativeNo : passes'[p].list[n] = IF passes[p].list[n] = 0 THEN 0 ELSE 1
      BY <2>1, <2>2
    <2> QED
      BY <2>1, <2>2, <2>3 DEF Leaves
  <1> QED
    BY <1>1, <1>2 DEF NativeEvents!Settled

\* A pass that leaves changes nothing about what was written where.
LEMMA LeavingWritesNothing ==
  ASSUME NativeTyped, WritesKnown, ListsAgree, CopiesAgree, NEW p \in Calls, Leaves(p), ~Writing(p),
         typed' = typed, crossed' = crossed, There'.text = There.text, row'.wrote = row.wrote,
         push' = push
  PROVE  WritesKnown' /\ ListsAgree' /\ CopiesAgree'
  <1>1. ASSUME NEW q \in Calls
        PROVE  /\ Writing(q)' <=> Writing(q)
               /\ Writing(q) => passes'[q].copy.text = passes[q].copy.text
               /\ Fresh(q)' => Fresh(q) /\ passes'[q].list[1] = passes[q].list[1]
               /\ passes'[q].at = "settle" =>
                    passes[q].at = "settle" /\ passes'[q].copy = passes[q].copy
    BY DEF Leaves, Writing, Fresh
  <1> QED
    BY <1>1, NothingWritten

\* A pass that leaves makes no second event on Discord.
LEMMA LeavingAlone ==
  ASSUME NativeTyped, OneNativeAlone, NEW p \in Calls, Leaves(p),
         row'.link = row.link, push' = push,
         row'.status = "none" <=> row.status = "none",
         \A n \in NativeNo : /\ native'[n].status = "none" <=> native[n].status = "none"
                             /\ native'[n].ours = native[n].ours
  PROVE  OneNativeAlone'
  BY FirstNative DEF Leaves, OneNativeAlone, There

\* A pass that leaves imports nothing.
LEMMA LeavingImportsNothing ==
  ASSUME NativeTyped, ImportsTyped, NEW p \in Calls, Leaves(p), row.status # "none",
         passes[p].at # "imported", typed' = typed, row'.status # "none",
         row'.wrote = 0 => row.wrote = 0 /\ row'.text = row.text
  PROVE  ImportsTyped'
  BY DEF Leaves, ImportsTyped

\* A write races every pass under way.
LEMMA WriteRaces ==
  ASSUME NativeTyped
  PROVE  /\ NativeEvents!Raced \in [Calls -> SyncPass]
         /\ \A q \in Calls :
              /\ NativeEvents!Raced[q].at = passes[q].at
              /\ NativeEvents!Raced[q].list = passes[q].list
              /\ NativeEvents!Raced[q].copy = passes[q].copy
              /\ passes[q].at \in {"compare", "settle"} => NativeEvents!Raced[q].raced
  <1>1. ASSUME NEW q \in Calls
        PROVE  /\ NativeEvents!Raced[q].at = passes[q].at
               /\ NativeEvents!Raced[q].list = passes[q].list
               /\ NativeEvents!Raced[q].copy = passes[q].copy
               /\ passes[q].at \in {"compare", "settle"} => NativeEvents!Raced[q].raced
    BY PassTyped DEF NativeEvents!Raced, NativeEvents!Race, SyncPass
  <1> QED
    BY <1>1, PassesTyped DEF NativeEvents!Raced

\* An event that was published twice stays so.
LEMMA StaysPublishedTwice ==
  ASSUME NativeTyped, NativeEvents!Next \/ UNCHANGED nativeVars, ~NativeEvents!PublishedTwice'
  PROVE  ~NativeEvents!PublishedTwice
  <1>1. ASSUME NEW n \in NativeNo, native[n].ours
        PROVE  native'[n].ours
    <2>0. native \in [NativeNo -> NativeThere] /\ NativeEvents!Natives = NativeNo
      BY DEF NativeTyped, NativeEvents!Natives, NativeNo
    <2>1. CASE NativeEvents!EditThere
      BY <2>0, <2>1, <1>1 DEF NativeEvents!EditThere, NativeThere
    <2>2. CASE NativeEvents!EndOrDeleteThere
      BY <2>0, <2>2, <1>1 DEF NativeEvents!EndOrDeleteThere, NativeThere
    <2>3. CASE NativeEvents!PushEditToDiscord
      BY <2>0, <2>3, <1>1 DEF NativeEvents!PushEditToDiscord, NativeEvents!Patch, NativeThere
    <2>4. ASSUME NEW p \in Calls, NativeEvents!PushOurs(p)
          PROVE  native'[n].ours
      BY <2>0, <2>4, <1>1 DEF NativeEvents!PushOurs, NativeEvents!Patch, NativeThere
    <2>5. ASSUME NEW p \in Calls, NativeEvents!PublishToDiscord(p)
          PROVE  native'[n].ours
      BY <2>0, <2>5, <1>1 DEF NativeEvents!PublishToDiscord
    <2>6. ASSUME NEW p \in Calls, NativeEvents!DeleteNative(p)
          PROVE  native'[n].ours
      <3>1. native' = native \/ native' = [native EXCEPT ![row.link].status = "deleted"]
        BY <2>6 DEF NativeEvents!DeleteNative
      <3>2. [native EXCEPT ![row.link].status = "deleted"][n].ours
        BY <2>0, <1>1 DEF NativeThere
      <3> QED
        BY <3>1, <3>2, <1>1
    <2>7. \/ UNCHANGED native \/ NativeEvents!EditThere \/ NativeEvents!EndOrDeleteThere
          \/ NativeEvents!PushEditToDiscord
          \/ \E p \in Calls : \/ NativeEvents!PushOurs(p) \/ NativeEvents!PublishToDiscord(p)
                              \/ NativeEvents!DeleteNative(p)
      <3>1. ASSUME \/ NativeEvents!EditHere \/ NativeEvents!CancelHere
                   \/ NativeEvents!ReadToPush \/ NativeEvents!RecordNativeWrite
                   \/ UNCHANGED nativeVars
            PROVE  UNCHANGED native
        BY <3>1 DEF nativeVars, NativeEvents!EditHere, NativeEvents!CancelHere,
           NativeEvents!ReadToPush, NativeEvents!RecordNativeWrite
      <3>2. ASSUME NEW p \in Calls,
                   \/ NativeEvents!ListScheduledEvents(p) \/ NativeEvents!Import(p)
                   \/ NativeEvents!ReadRow(p) \/ NativeEvents!TakeDiscordEdit(p)
            PROVE  UNCHANGED native
        BY <3>2 DEF NativeEvents!ListScheduledEvents, NativeEvents!Import,
           NativeEvents!ReadRow, NativeEvents!TakeDiscordEdit
      <3>3. ASSUME NEW p \in Calls,
                   \/ NativeEvents!Agree(p) \/ NativeEvents!RecordSent(p)
                   \/ NativeEvents!LinkNative(p) \/ NativeEvents!SettleMissing(p)
            PROVE  UNCHANGED native
        BY <3>3 DEF NativeEvents!Agree, NativeEvents!RecordSent, NativeEvents!LinkNative,
           NativeEvents!SettleMissing
      <3> QED
        BY <3>1, <3>2, <3>3 DEF NativeEvents!Next, NativeEvents!Pass, NativeEvents!Publish
    <2> QED
      BY <2>1, <2>2, <2>3, <2>4, <2>5, <2>6, <2>7, <1>1
  <1> QED
    BY <1>1 DEF NativeEvents!PublishedTwice, NativeEvents!Natives, NativeNo

\* Each step keeps account of who wrote which text, unless the event is published twice.
LEMMA WritesStep ==
  ASSUME NativeTyped, NativeTyped', TextsNumbered, ListedMade, WritesInv,
         NativeEvents!Next \/ UNCHANGED nativeVars, ~NativeEvents!PublishedTwice'
  PROVE  WritesInv'
  <1>0. /\ row \in RowHere /\ native \in [NativeNo -> NativeThere]
        /\ passes \in [Calls -> SyncPass] /\ push \in PushRun
        /\ NativeEvents!Natives = NativeNo /\ 1 \in NativeNo
    BY FirstNative DEF NativeTyped, NativeEvents!Natives, NativeNo
  <1>1. OneNativeAlone /\ WritesKnown /\ ListsAgree /\ CopiesAgree /\ ImportsTyped
    BY DEF WritesInv
  <1>2. CASE UNCHANGED nativeVars
    <2>1. UNCHANGED <<row, native, passes, push, typed, crossed>>
      BY <1>2 DEF nativeVars
    <2>2. WritesKnown' /\ ListsAgree' /\ CopiesAgree'
      BY <2>1, <1>1, NothingWritten DEF There, Writing, Fresh
    <2>3. OneNativeAlone' /\ ImportsTyped'
      BY <2>1, <1>1 DEF OneNativeAlone, ImportsTyped, There
    <2> QED
      BY <2>2, <2>3 DEF WritesInv
  <1>3. CASE NativeEvents!EditHere
    <2>1. /\ UNCHANGED <<native, passes, push, typed, crossed>> /\ row'.link = row.link
          /\ row'.status = row.status /\ row'.wrote = row.wrote /\ row'.text = texts + 1
          /\ row.status # "none"
      BY <1>3, <1>0 DEF NativeEvents!EditHere, RowHere
    <2>2. WritesKnown' /\ ListsAgree' /\ CopiesAgree'
      BY <2>1, <1>1, NothingWritten DEF There, Writing, Fresh
    <2>3. OneNativeAlone'
      BY <2>1, <1>1 DEF OneNativeAlone, There
    <2>4. texts + 1 \notin typed
      BY RowTyped DEF NativeTyped
    <2>5. ImportsTyped'
      BY <2>1, <2>4, <1>1 DEF ImportsTyped, There
    <2> QED
      BY <2>2, <2>3, <2>5 DEF WritesInv
  <1>4. CASE NativeEvents!EditThere
    <2>1. UNCHANGED <<row, passes, push, crossed>> /\ typed' = typed \cup {texts + 1}
      BY <1>4 DEF NativeEvents!EditThere
    <2>2. PICK n \in NativeNo : native[n].status = "scheduled"
                                /\ native' = [native EXCEPT ![n].text = texts + 1]
      BY <1>4, <1>0 DEF NativeEvents!EditThere
    <2>3. n = 1
      BY <2>2, <1>1 DEF OneNativeAlone
    <2>4. /\ There'.text = texts + 1 /\ There'.status = There.status /\ There'.ours = There.ours
          /\ \A m \in NativeNo \ {1} : native'[m] = native[m]
      BY <2>2, <2>3, <1>0 DEF There, NativeThere
    <2>5. /\ texts + 1 # row.text
          /\ \A p \in Calls : passes[p].copy.text # texts + 1
      <3>1. ASSUME NEW p \in Calls
            PROVE  passes[p].copy.text # texts + 1
        BY RowTyped, PassTyped DEF TextsNumbered, NumberedPass
      <3> QED
        BY <3>1, RowTyped DEF TextsNumbered
    <2>6. OneNativeAlone'
      BY <2>1, <2>4, <1>1 DEF OneNativeAlone, There
    <2>7. Writers' = Writers
      BY <2>1 DEF Writers, Writing
    <2>8. WritesKnown'
      BY <2>1, <2>4, <2>7, <1>1 DEF WritesKnown
    <2>9. ListsAgree' /\ CopiesAgree'
      BY <2>1, <2>4, <2>5, <2>7, <1>1 DEF ListsAgree, CopiesAgree, Fresh
    <2>10. ImportsTyped'
      BY <2>1, <2>4, <2>5, <1>1 DEF ImportsTyped
    <2> QED
      BY <2>6, <2>8, <2>9, <2>10 DEF WritesInv
  <1>5. CASE NativeEvents!CancelHere
    <2>1. /\ UNCHANGED <<native, passes, push, typed, crossed>> /\ row'.link = row.link
          /\ row'.text = row.text /\ row'.wrote = row.wrote
          /\ row.status # "none" /\ row'.status # "none"
      BY <1>5, <1>0 DEF NativeEvents!CancelHere, RowHere
    <2>2. WritesKnown' /\ ListsAgree' /\ CopiesAgree'
      BY <2>1, <1>1, NothingWritten DEF There, Writing, Fresh
    <2>3. OneNativeAlone' /\ ImportsTyped'
      BY <2>1, <1>1 DEF OneNativeAlone, ImportsTyped, There
    <2> QED
      BY <2>2, <2>3 DEF WritesInv
  <1>6. CASE NativeEvents!EndOrDeleteThere
    <2>1. UNCHANGED <<row, passes, push, typed, crossed>>
      BY <1>6 DEF NativeEvents!EndOrDeleteThere
    <2>2. \A n \in NativeNo : /\ native'[n].text = native[n].text
                              /\ native'[n].ours = native[n].ours
                              /\ native'[n].status = "none" <=> native[n].status = "none"
      BY <1>6, <1>0 DEF NativeEvents!EndOrDeleteThere, NativeThere
    <2>3. WritesKnown' /\ ListsAgree' /\ CopiesAgree'
      BY <2>1, <2>2, <1>0, <1>1, NothingWritten DEF There, Writing, Fresh
    <2>4. OneNativeAlone' /\ ImportsTyped'
      BY <2>1, <2>2, <1>0, <1>1 DEF OneNativeAlone, ImportsTyped, There
    <2> QED
      BY <2>3, <2>4 DEF WritesInv
  <1>7. CASE NativeEvents!ReadToPush
    <2>1. /\ UNCHANGED <<row, native, passes, typed, crossed>> /\ push.at = "idle"
          /\ push'.at = "patch" /\ push'.copy.link = row.link
          /\ row.link # 0 /\ row.status # "none"
      BY <1>7 DEF NativeEvents!ReadToPush, NativeEvents!Sent
    <2>2. WritesKnown' /\ ListsAgree' /\ CopiesAgree'
      BY <2>1, <1>1, NothingWritten DEF There, Writing, Fresh
    <2>3. OneNativeAlone' /\ ImportsTyped'
      BY <2>1, <1>1 DEF OneNativeAlone, ImportsTyped, There
    <2> QED
      BY <2>2, <2>3 DEF WritesInv
  <1>8. ASSUME NEW sending \in [text : TextNo, link : Linked], NativeEvents!Patch(sending),
               sending.link = 1
        PROVE  /\ There'.text = sending.text /\ There.status # "none" /\ There'.status # "none"
               /\ There'.ours = There.ours
               /\ \A n \in NativeNo \ {1} : native'[n] = native[n]
               /\ ~crossed' => Writers = {} /\ push.at # "record"
    BY <1>8, <1>0 DEF NativeEvents!Patch, NativeEvents!Writes, NativeEvents!Unrecorded,
                      NativeThere,
       There, Writers, Writing
  <1>9. CASE NativeEvents!PushEditToDiscord
    <2>1. UNCHANGED <<row, typed>> /\ push.at = "patch"
      BY <1>9 DEF NativeEvents!PushEditToDiscord
    <2>2. push.copy.link = 1 /\ push.copy \in [text : TextNo, link : Linked]
          /\ row.status # "none"
      BY <2>1, <1>0, <1>1 DEF OneNativeAlone, PushRun
    <2>3. CASE UNCHANGED <<native, passes, crossed>> /\ push' = NativeEvents!Quiet
      <3>1. push'.at = "idle"
        BY <2>3 DEF NativeEvents!Quiet
      <3>2. WritesKnown' /\ ListsAgree' /\ CopiesAgree'
        BY <2>1, <2>3, <3>1, <1>1, NothingWritten DEF There, Writing, Fresh
      <3>3. OneNativeAlone' /\ ImportsTyped'
        BY <2>1, <2>3, <3>1, <1>1 DEF OneNativeAlone, ImportsTyped, There
      <3> QED
        BY <3>2, <3>3 DEF WritesInv
    <2>4. CASE /\ NativeEvents!Patch(push.copy) /\ passes' = NativeEvents!Raced
               /\ push' = [push EXCEPT !.at = "record"]
      <3>1. push'.at = "record" /\ push'.copy = push.copy
        BY <2>4, <1>0 DEF PushRun
      <3>2. \A q \in Calls : /\ passes'[q].at = passes[q].at /\ passes'[q].list = passes[q].list
                             /\ passes'[q].copy = passes[q].copy
                             /\ passes[q].at \in {"compare", "settle"} => passes'[q].raced
        BY <2>4, WriteRaces
      <3>3. Writers' = Writers /\ \A q \in Calls : ~Fresh(q)'
        BY <3>2 DEF Writers, Writing, Fresh
      <3>4. WritesKnown'
        BY <2>2, <2>4, <3>1, <3>3, <1>8 DEF WritesKnown
      <3>5. ListsAgree' /\ CopiesAgree'
        BY <2>1, <3>2, <3>3, <1>1 DEF ListsAgree, CopiesAgree
      <3>6. OneNativeAlone' /\ ImportsTyped'
        <4>1. /\ There.status # "none" /\ There'.status # "none" /\ There'.ours = There.ours
              /\ \A n \in NativeNo \ {1} : native'[n] = native[n]
          BY <2>2, <2>4, <1>8
        <4>2. OneNativeAlone'
          BY <2>1, <2>2, <3>1, <3>2, <4>1, <1>1 DEF OneNativeAlone
        <4>3. ImportsTyped'
          BY <2>1, <2>2, <3>2, <1>1 DEF ImportsTyped
        <4> QED
          BY <4>2, <4>3
      <3> QED
        BY <3>4, <3>5, <3>6 DEF WritesInv
    <2> QED
      BY <1>9, <2>3, <2>4 DEF NativeEvents!PushEditToDiscord, NativeEvents!Refuse
  <1>10. CASE NativeEvents!RecordNativeWrite
    <2>1. /\ UNCHANGED <<native, passes, typed, crossed>> /\ push.at = "record"
          /\ row'.wrote = push.copy.text /\ row'.link = row.link /\ row'.status = row.status
          /\ push'.at = "idle"
      BY <1>10, <1>0 DEF NativeEvents!RecordNativeWrite, NativeEvents!Quiet, RowHere
    <2>2. push.copy.text # 0 /\ row.status # "none"
      BY <2>1, <1>1 DEF TextsNumbered, OneNativeAlone
    <2>3. Writers' = Writers /\ There' = There
      BY <2>1 DEF Writers, Writing, There
    <2>4. WritesKnown'
      BY <2>1, <2>3, <1>1 DEF WritesKnown
    <2>5. ListsAgree' /\ CopiesAgree'
      BY <2>1, <2>2, <2>3, <1>1 DEF ListsAgree, CopiesAgree, Fresh
    <2>6. OneNativeAlone' /\ ImportsTyped'
      BY <2>1, <2>2, <2>3, <1>1 DEF OneNativeAlone, ImportsTyped
    <2> QED
      BY <2>4, <2>5, <2>6 DEF WritesInv
  <1>11. ASSUME NEW p \in Calls, NativeEvents!ListScheduledEvents(p)
         PROVE  WritesInv'
    <2>1. UNCHANGED <<row, native, push, typed, crossed>> /\ passes[p].at = "idle"
      BY <1>11 DEF NativeEvents!ListScheduledEvents
    <2>2. /\ \A q \in Calls \ {p} : passes'[q] = passes[q]
          /\ passes'[p].at = "compare"
          /\ passes'[p].list = [n \in NativeNo |-> IF native[n].status = "scheduled"
                                                   THEN native[n].text ELSE 0]
          /\ ~passes'[p].raced => ~NativeEvents!Unrecorded /\ ~crossed
      BY <1>11, <1>0, PassesTyped DEF NativeEvents!ListScheduledEvents, SyncPass
    <2>3. /\ passes'[p].list[1] # 0 => passes'[p].list[1] = There.text
          /\ \A n \in NativeNo \ {1} : passes'[p].list[n] = 0
      BY <2>2, <1>0, <1>1 DEF OneNativeAlone, There
    <2>4. Writers' = Writers /\ There' = There
      BY <2>1, <2>2 DEF Writers, Writing, There
    <2>5. Fresh(p)' => /\ ~crossed /\ Writers = {} /\ push.at # "record"
                       /\ passes'[p].list[1] = There.text
      BY <2>2, <2>3 DEF Fresh, NativeEvents!Unrecorded, Writers, Writing
    <2>6. \A q \in Calls \ {p} : Fresh(q)' <=> Fresh(q)
      BY <2>2 DEF Fresh
    <2>7. WritesKnown'
      <3>1. \A q \in Writers : passes'[q] = passes[q]
        BY <2>1, <2>2 DEF Writers, Writing
      <3> QED
        BY <2>1, <2>4, <3>1, <1>1 DEF WritesKnown
    <2>8. ListsAgree'
      <3>1. ASSUME NEW q \in Calls, Fresh(q)'
            PROVE  /\ There.text \in typed \cup {passes'[q].list[1]}
                   /\ row.wrote # 0 => passes'[q].list[1] \in typed \cup {row.wrote}
                   /\ Writers # {} \/ push.at = "record" => passes'[q].list[1] \in typed
        BY <3>1, <2>2, <2>5, <2>6, <1>1 DEF ListsAgree, WritesKnown
      <3>2. ASSUME NEW q \in Calls, NEW r \in Calls, Fresh(q)', Fresh(r)'
            PROVE  \/ passes'[q].list[1] \in typed
                   \/ passes'[r].list[1] \in typed \cup {passes'[q].list[1]}
        <4>1. CASE q # p /\ r # p
          BY <4>1, <3>2, <2>2, <2>6, <1>1 DEF ListsAgree
        <4>2. CASE q = p \/ r = p
          BY <4>2, <3>1, <3>2, <2>2, <2>5
        <4> QED
          BY <4>1, <4>2
      <3> QED
        BY <2>1, <2>4, <3>1, <3>2 DEF ListsAgree
    <2>9. CopiesAgree'
      <3>1. ASSUME NEW q \in Calls, passes'[q].at = "settle"
            PROVE  q # p /\ passes'[q] = passes[q] /\ (Fresh(q)' <=> Fresh(q))
        BY <3>1, <2>2, <2>6
      <3>2. ASSUME NEW q \in Calls \ {p}, passes[q].at = "settle", Fresh(q),
                   passes[q].copy.wrote = 0,
                   passes[q].copy.text \in typed, Fresh(p)'
            PROVE  passes'[p].list[1] \in typed
        BY <3>2, <2>5, <1>1 DEF CopiesAgree, ListsAgree
      <3> QED
        BY <2>1, <2>2, <2>6, <3>1, <3>2, <1>1 DEF CopiesAgree
    <2>10. OneNativeAlone'
      BY <2>1, <2>2, <2>3, <2>4, <1>1 DEF OneNativeAlone
    <2>11. ImportsTyped'
      BY <2>1, <2>2, <2>3, <2>4, <1>1 DEF ImportsTyped
    <2> QED
      BY <2>7, <2>8, <2>9, <2>10, <2>11 DEF WritesInv
  <1>12. ASSUME NEW p \in Calls, NativeEvents!Import(p)
         PROVE  WritesInv'
    <2>1. /\ UNCHANGED <<native, push, typed>> /\ passes[p].at = "compare" /\ row.status = "none"
          /\ crossed' = NativeEvents!Unrecorded
      BY <1>12 DEF NativeEvents!Import, NativeEvents!Writes
    <2>2. PICK n \in NativeNo :
            /\ passes[p].list[n] # 0
            /\ row' = [text |-> passes[p].list[n], status |-> "open", link |-> n, wrote |-> 0]
            /\ passes' = [passes EXCEPT ![p].at = "imported", ![p].copy = NativeEvents!CopyOf(row)']
      BY <1>12, <1>0 DEF NativeEvents!Import
    <2>3. n = 1
      BY <2>2, <1>1 DEF OneNativeAlone
    <2>4. PICK c : c = NativeEvents!CopyOf(row)'
      OBVIOUS
    <2>5. /\ \A q \in Calls \ {p} : passes'[q] = passes[q]
          /\ passes'[p].at = "imported" /\ passes'[p].copy = c /\ passes'[p].list = passes[p].list
      BY <2>2, <2>4, <1>0 DEF SyncPass
    <2>6. /\ c.text = passes[p].list[1] /\ row'.text = passes[p].list[1] /\ row'.wrote = 0
          /\ row'.link = 1 /\ row'.status = "open" /\ c.link = 1
      BY <2>2, <2>3, <2>4 DEF NativeEvents!CopyOf
    <2>7. /\ There.text \in typed /\ There.status # "none" /\ There' = There
          /\ \A q \in Calls : passes[q].list[1] \in typed \cup {0}
      BY <2>1, <2>2, <2>3, <1>1 DEF ImportsTyped, There, ListedMade
    <2>8. /\ \A q \in Calls : passes[q].at \notin {"imported", "settle", "record", "link"}
          /\ push.at = "idle"
      BY <2>1, <1>1, <1>0 DEF OneNativeAlone, PushRun
    <2>9. /\ \A q \in Calls : Fresh(q)' => passes'[q].list[1] \in typed
          /\ \A q \in Calls : passes'[q].at # "settle"
      BY <2>5, <2>7, <2>8 DEF Fresh
    <2>10. WritesKnown'
      <3>1. Writers' = {p}
        BY <2>5, <2>8 DEF Writers, Writing
      <3> QED
        BY <2>1, <2>7, <2>8, <3>1 DEF WritesKnown
    <2>11. ListsAgree' /\ CopiesAgree'
      BY <2>1, <2>7, <2>9 DEF ListsAgree, CopiesAgree
    <2>12. OneNativeAlone'
      BY <2>1, <2>5, <2>6, <2>7, <2>8, <1>1 DEF OneNativeAlone
    <2>13. ImportsTyped'
      BY <2>5, <2>6 DEF ImportsTyped
    <2> QED
      BY <2>10, <2>11, <2>12, <2>13 DEF WritesInv
  <1>13. ASSUME NEW p \in Calls, NativeEvents!ReadRow(p)
         PROVE  WritesInv'
    <2>1. /\ UNCHANGED <<row, native, push, typed, crossed>> /\ row.status # "none"
          /\ passes[p].at = "compare"
      BY <1>13 DEF NativeEvents!ReadRow
    <2>2. CASE passes' = NativeEvents!Settled(p)
      <3>1. Leaves(p) /\ ~Writing(p)
        BY <2>1, <2>2, PassLeaves DEF Writing
      <3>2. WritesKnown' /\ ListsAgree' /\ CopiesAgree'
        BY <2>1, <3>1, <1>1, LeavingWritesNothing DEF There
      <3>3. OneNativeAlone'
        BY <2>1, <3>1, <1>1, LeavingAlone
      <3>4. ImportsTyped'
        BY <2>1, <3>1, <1>1, LeavingImportsNothing
      <3> QED
        BY <3>2, <3>3, <3>4 DEF WritesInv
    <2>3. CASE /\ NativeEvents!Listed(p)
               /\ passes' = [passes EXCEPT ![p].copy = NativeEvents!CopyOf(row), ![p].at = "settle"]
      <3>1. row.link = 1 /\ passes[p].list[1] # 0
        BY <2>3, <1>0, <1>1 DEF NativeEvents!Listed, OneNativeAlone
      <3>2. /\ \A q \in Calls \ {p} : passes'[q] = passes[q]
            /\ passes'[p].copy = NativeEvents!CopyOf(row) /\ passes'[p].list = passes[p].list
            /\ passes'[p].at = "settle" /\ passes'[p].raced = passes[p].raced
        BY <2>3, <1>0 DEF SyncPass
      <3>3. /\ NativeEvents!CopyOf(row).text = row.text /\ NativeEvents!CopyOf(row).link = row.link
            /\ NativeEvents!CopyOf(row).wrote = row.wrote
        BY DEF NativeEvents!CopyOf
      <3>4. /\ Writers' = Writers /\ There' = There /\ There.status # "none"
            /\ \A q \in Calls : (Fresh(q)' <=> Fresh(q)) /\ passes'[q].list = passes[q].list
        BY <2>1, <3>1, <3>2, <1>1 DEF Writers, Writing, There, Fresh, OneNativeAlone
      <3>5. WritesKnown'
        <4>1. \A q \in Writers : passes'[q] = passes[q]
          BY <2>1, <3>2 DEF Writers, Writing
        <4> QED
          BY <2>1, <3>4, <4>1, <1>1 DEF WritesKnown
      <3>6. ListsAgree'
        BY <2>1, <3>4, <1>1 DEF ListsAgree
      <3>7. row.wrote = 0 /\ row.text \in typed =>
              \A q \in Calls : Fresh(q) => passes[q].list[1] \in typed
        <4>1. row.wrote = 0 /\ row.text \in typed => Writers # {}
          BY <2>1, <1>1 DEF ImportsTyped, Writers, Writing
        <4> QED
          BY <4>1, <1>1 DEF ListsAgree
      <3>8. CopiesAgree'
        BY <2>1, <3>2, <3>3, <3>4, <3>7, <1>1 DEF CopiesAgree, ListsAgree
      <3>9. OneNativeAlone'
        BY <2>1, <3>1, <3>2, <3>3, <3>4, <1>1 DEF OneNativeAlone
      <3>10. ImportsTyped'
        BY <2>1, <3>2, <3>4, <1>1 DEF ImportsTyped
      <3> QED
        BY <3>5, <3>6, <3>8, <3>9, <3>10 DEF WritesInv
    <2> QED
      BY <1>13, <2>2, <2>3 DEF NativeEvents!ReadRow
  <1>14. ASSUME NEW p \in Calls, passes[p].at = "settle"
         PROVE  /\ passes[p].copy.link = 1 /\ row.status # "none" /\ There.status # "none"
                /\ NativeEvents!Theirs(p) = passes[p].list[1] /\ passes[p].list[1] # 0
                /\ passes[p].copy.text # 0
    <2>1. passes[p].copy.link = 1 /\ row.status # "none" /\ There.status # "none"
      BY <1>14, <1>1 DEF OneNativeAlone
    <2>2. NumberedPass(passes[p], texts)
      BY DEF TextsNumbered
    <2> QED
      BY <2>1, <2>2, <1>14 DEF NativeEvents!Theirs, NumberedPass
  <1>15. ASSUME NEW p \in Calls, NativeEvents!TakeDiscordEdit(p)
         PROVE  WritesInv'
    <2>1. /\ UNCHANGED <<native, push, typed, crossed>> /\ passes[p].at = "settle"
          /\ row'.status = row.status /\ row'.link = row.link /\ row'.wrote = row.wrote
          /\ passes' = NativeEvents!Settled(p) /\ passes[p].copy.wrote # 0
      BY <1>15, <1>0 DEF NativeEvents!TakeDiscordEdit, NativeEvents!EditedThere, RowHere
    <2>2. row.wrote # 0 /\ row.status # "none"
      BY <2>1, <1>1, <1>14 DEF CopiesAgree
    <2>3. Leaves(p) /\ ~Writing(p)
      BY <2>1, PassLeaves DEF Writing
    <2>4. WritesKnown' /\ ListsAgree' /\ CopiesAgree'
      BY <2>1, <2>3, <1>1, LeavingWritesNothing DEF There
    <2>5. OneNativeAlone'
      BY <2>1, <2>3, <1>1, LeavingAlone
    <2>6. ImportsTyped'
      BY <2>1, <2>2, <2>3, <1>1, LeavingImportsNothing
    <2> QED
      BY <2>4, <2>5, <2>6 DEF WritesInv
  <1>16. ASSUME NEW p \in Calls, NativeEvents!PushOurs(p)
         PROVE  WritesInv'
    <2>1. UNCHANGED <<row, push, typed>> /\ passes[p].at = "settle"
      BY <1>16 DEF NativeEvents!PushOurs
    <2>2. CASE UNCHANGED <<native, crossed>> /\ passes' = NativeEvents!Settled(p)
      <3>1. Leaves(p) /\ ~Writing(p) /\ row.status # "none"
        BY <2>1, <2>2, <1>14, PassLeaves DEF Writing
      <3>2. WritesKnown' /\ ListsAgree' /\ CopiesAgree'
        BY <2>1, <2>2, <3>1, <1>1, LeavingWritesNothing DEF There
      <3>3. OneNativeAlone'
        BY <2>1, <2>2, <3>1, <1>1, LeavingAlone
      <3>4. ImportsTyped'
        BY <2>1, <3>1, <1>1, LeavingImportsNothing
      <3> QED
        BY <3>2, <3>3, <3>4 DEF WritesInv
    <2>3. CASE NativeEvents!Patch(passes[p].copy)
               /\ passes' = [NativeEvents!Raced EXCEPT ![p].at = "record", ![p].raced = FALSE]
      <3>0. NativeEvents!Raced \in [Calls -> SyncPass]
            /\ \A q \in Calls :
                 /\ NativeEvents!Raced[q].at = passes[q].at
                 /\ NativeEvents!Raced[q].list = passes[q].list
                 /\ NativeEvents!Raced[q].copy = passes[q].copy
                 /\ passes[q].at \in {"compare", "settle"} => NativeEvents!Raced[q].raced
        BY WriteRaces
      <3>1. /\ \A q \in Calls \ {p} :
                 /\ passes'[q].at = passes[q].at /\ passes'[q].list = passes[q].list
                 /\ passes'[q].copy = passes[q].copy
                 /\ passes[q].at \in {"compare", "settle"} => passes'[q].raced
            /\ passes'[p].at = "record" /\ passes'[p].list = passes[p].list
            /\ passes'[p].copy = passes[p].copy
        BY <2>3, <3>0 DEF SyncPass
      <3>2. passes[p].copy.link = 1 /\ row.status # "none"
        BY <2>1, <1>14
      <3>3. /\ There'.text = passes[p].copy.text /\ There.status # "none" /\ There'.status # "none"
            /\ There'.ours = There.ours /\ \A n \in NativeNo \ {1} : native'[n] = native[n]
            /\ ~crossed' => Writers = {} /\ push.at # "record"
        BY <2>3, <3>2, <1>0
           DEF NativeEvents!Patch, NativeEvents!Writes, NativeEvents!Unrecorded, NativeThere,
               There, Writers, Writing
      <3>4. \A q \in Calls : ~Fresh(q)'
        BY <3>1 DEF Fresh
      <3>5. WritesKnown'
        <4>1. Writers = {} => Writers' = {p}
          BY <3>1 DEF Writers, Writing
        <4> QED
          BY <2>1, <3>1, <3>3, <4>1 DEF WritesKnown
      <3>6. ListsAgree' /\ CopiesAgree'
        BY <2>1, <3>1, <3>4, <1>1 DEF ListsAgree, CopiesAgree
      <3>7. OneNativeAlone'
        BY <2>1, <3>1, <3>2, <3>3, <1>1 DEF OneNativeAlone
      <3>8. ImportsTyped'
        BY <2>1, <3>1, <3>2, <1>1 DEF ImportsTyped
      <3> QED
        BY <3>5, <3>6, <3>7, <3>8 DEF WritesInv
    <2> QED
      BY <1>16, <2>2, <2>3 DEF NativeEvents!PushOurs, NativeEvents!Refuse
  <1>17. ASSUME NEW p \in Calls, NativeEvents!Agree(p)
         PROVE  WritesInv'
    <2>1. /\ UNCHANGED <<native, push, typed>> /\ passes[p].at = "settle"
          /\ passes[p].list[1] = passes[p].copy.text /\ passes[p].list[1] # 0
          /\ row.status # "none" /\ There' = There
      BY <1>17, <1>14 DEF NativeEvents!Agree, There
    <2>2. CASE passes' = NativeEvents!Settled(p) /\ UNCHANGED <<row, crossed>>
      <3>1. Leaves(p) /\ ~Writing(p)
        BY <2>1, <2>2, PassLeaves DEF Writing
      <3>2. WritesKnown' /\ ListsAgree' /\ CopiesAgree'
        BY <2>1, <2>2, <3>1, <1>1, LeavingWritesNothing
      <3>3. OneNativeAlone'
        BY <2>1, <2>2, <3>1, <1>1, LeavingAlone
      <3>4. ImportsTyped'
        BY <2>1, <2>2, <3>1, <1>1, LeavingImportsNothing
      <3> QED
        BY <3>2, <3>3, <3>4 DEF WritesInv
    <2>3. CASE /\ passes[p].copy.wrote = 0 /\ row' = [row EXCEPT !.wrote = NativeEvents!Theirs(p)]
               /\ crossed' = (crossed \/ passes[p].raced)
               /\ passes' = [NativeEvents!Race(passes[p].raced) EXCEPT
                               ![p] = NativeEvents!AfterSettle(p)]
      <3>1. /\ row'.wrote = passes[p].list[1] /\ row'.text = row.text /\ row'.link = row.link
            /\ row'.status = row.status
        <4>1. NativeEvents!Theirs(p) = passes[p].list[1]
          BY <2>1, <1>14
        <4>2. row' = [row EXCEPT !.wrote = passes[p].list[1]] /\ row \in RowHere
          BY <2>3, <4>1, <1>0
        <4> QED
          BY ONLY <4>2 DEF RowHere
      <3>2. /\ NativeEvents!AfterSettle(p).at = "reconcile"
            /\ NativeEvents!AfterSettle(p).list
                 = [n \in NativeNo |-> IF passes[p].list[n] = 0 THEN 0 ELSE 1]
        BY PassesTyped DEF NativeEvents!AfterSettle, NativeEvents!Natives, NativeNo, SyncPass
      <3>3. /\ \A q \in Calls \ {p} :
                 /\ passes'[q].at = passes[q].at /\ passes'[q].list = passes[q].list
                 /\ passes'[q].copy = passes[q].copy
                 /\ passes[q].at \in {"compare", "settle"} =>
                      (passes'[q].raced <=> passes[q].raced \/ passes[p].raced)
            /\ passes'[p].at = "reconcile" /\ \A n \in NativeNo \ {1} : passes'[p].list[n] = 0
        <4>1. NativeEvents!Race(passes[p].raced) \in [Calls -> SyncPass]
          BY PassesTyped, PassTyped
        <4>2. ASSUME NEW q \in Calls \ {p}
              PROVE  /\ passes'[q].at = passes[q].at /\ passes'[q].list = passes[q].list
                     /\ passes'[q].copy = passes[q].copy
                     /\ passes[q].at \in {"compare", "settle"} =>
                          (passes'[q].raced <=> passes[q].raced \/ passes[p].raced)
          <5>1. passes'[q] = NativeEvents!Race(passes[p].raced)[q]
            BY <2>3, <4>1
          <5> QED
            BY <5>1, PassTyped DEF NativeEvents!Race, SyncPass
        <4>3. passes'[p] = NativeEvents!AfterSettle(p)
          BY <2>3, <4>1
        <4>4. \A n \in NativeNo \ {1} : passes[p].list[n] = 0
          BY <1>1 DEF OneNativeAlone
        <4>5. \A n \in NativeNo \ {1} : passes'[p].list[n] = 0
          BY <3>2, <4>3, <4>4
        <4> QED
          BY <3>2, <4>2, <4>3, <4>5
      <3>4. /\ Writers' = Writers /\ p \notin Writers
            /\ \A q \in Writers : passes'[q].copy = passes[q].copy
        BY <2>1, <3>3 DEF Writers, Writing
      <3>5. \A q \in Calls : Fresh(q)' => Fresh(q) /\ Fresh(p) /\ q # p
        BY <2>1, <3>3, PassTyped DEF Fresh
      <3>6. ~crossed' => Fresh(p) /\ ~crossed
        BY <2>1, <2>3, PassTyped DEF Fresh
      <3>7. WritesKnown'
        BY <2>1, <3>1, <3>4, <3>6, <1>1 DEF WritesKnown, ListsAgree
      <3>8. \A q \in Calls : Fresh(q)' => passes[q].list[1] \in typed \cup {passes[p].list[1]}
        BY <2>1, <2>3, <3>5, <1>1 DEF ListsAgree, CopiesAgree
      <3>9. ListsAgree'
        BY <2>1, <3>1, <3>3, <3>4, <3>5, <3>8, <1>1 DEF ListsAgree
      <3>10. CopiesAgree'
        BY <2>1, <3>1, <3>3, <3>5, <1>1 DEF CopiesAgree
      <3>11. OneNativeAlone'
        BY <2>1, <3>1, <3>3, <1>1 DEF OneNativeAlone, There
      <3>12. ImportsTyped'
        BY <2>1, <3>1 DEF ImportsTyped
      <3> QED
        BY <3>7, <3>9, <3>10, <3>11, <3>12 DEF WritesInv
    <2> QED
      BY <1>17, <2>2, <2>3 DEF NativeEvents!Agree
  <1>18. ASSUME NEW p \in Calls, NativeEvents!RecordSent(p)
         PROVE  WritesInv'
    <2>1. /\ UNCHANGED <<native, push, typed, crossed>> /\ passes[p].at \in {"record", "imported"}
          /\ row'.wrote = passes[p].copy.text /\ row'.text = row.text /\ row'.link = row.link
          /\ row'.status = row.status /\ There' = There
      BY <1>18, <1>0 DEF NativeEvents!RecordSent, RowHere, There
    <2>2. Leaves(p)
      BY <1>18, PassLeaves DEF NativeEvents!RecordSent
    <2>3. passes[p].copy.text # 0 /\ row.status # "none"
      BY <2>1, <1>1 DEF TextsNumbered, NumberedPass, OneNativeAlone
    <2>4. /\ p \in Writers /\ Writers' = Writers \ {p}
          /\ \A q \in Writers \ {p} : passes'[q] = passes[q]
      BY <2>1, <2>2 DEF Leaves, Writers, Writing
    <2>5. WritesKnown'
      BY <2>1, <2>2, <2>4, <1>1 DEF WritesKnown
    <2>6. \A q \in Calls : (Fresh(q)' => Fresh(q) /\ q # p) /\ (q # p => passes'[q] = passes[q])
      BY <2>2 DEF Leaves, Fresh
    <2>7. \A q \in Calls : Fresh(q) => passes[q].list[1] \in typed
      BY <2>4, <1>1 DEF ListsAgree
    <2>8. ListsAgree'
      BY <2>1, <2>6, <2>7, <1>1 DEF ListsAgree
    <2>9. CopiesAgree'
      <3>1. passes'[p].at # "settle"
        BY <2>2 DEF Leaves
      <3> QED
        BY <2>1, <2>3, <2>6, <2>7, <3>1, <1>1 DEF CopiesAgree
    <2>10. OneNativeAlone'
      BY <2>1, <2>2, <1>1, LeavingAlone
    <2>11. ImportsTyped'
      BY <2>1, <2>3 DEF ImportsTyped
    <2> QED
      BY <2>5, <2>8, <2>9, <2>10, <2>11 DEF WritesInv
  <1>19. ASSUME NEW p \in Calls, NativeEvents!PublishToDiscord(p)
         PROVE  WritesInv'
    <2>1. /\ UNCHANGED <<row, push, typed>> /\ passes[p].at = "reconcile"
          /\ row.status # "none" /\ row.link = 0
      BY <1>19 DEF NativeEvents!PublishToDiscord
    <2>2. CASE /\ UNCHANGED <<native, crossed>>
               /\ passes' = [passes EXCEPT ![p] = NativeEvents!Resting]
      <3>1. Leaves(p) /\ ~Writing(p)
        BY <2>1, <2>2, PassLeaves DEF Writing
      <3>2. WritesKnown' /\ ListsAgree' /\ CopiesAgree'
        BY <2>1, <2>2, <3>1, <1>1, LeavingWritesNothing DEF There
      <3>3. OneNativeAlone'
        BY <2>1, <2>2, <3>1, <1>1, LeavingAlone
      <3>4. ImportsTyped'
        BY <2>1, <3>1, <1>1, LeavingImportsNothing
      <3> QED
        BY <3>2, <3>3, <3>4 DEF WritesInv
    <2>3. ASSUME NEW n \in NativeNo,
                 \A m \in NativeNo : native[m].status = "none" <=> m >= n,
                 native' = [native EXCEPT ![n] = [text |-> row.text, status |-> "scheduled",
                                                  ours |-> TRUE]],
                 passes' = [NativeEvents!Raced EXCEPT ![p].at = "link",
                              ![p].copy = [NativeEvents!CopyOf(row) EXCEPT !.link = n]],
                 crossed' = NativeEvents!Unrecorded
          PROVE  WritesInv'
      <3>1. n = 1 /\ There.status = "none"
        <4>1. ASSUME n # 1
              PROVE  FALSE
          <5>1. There.status # "none"
            BY <2>3, <4>1, <1>0 DEF There, NativeNo
          <5>2. native[1].ours
            BY <2>1, <5>1, <1>1 DEF OneNativeAlone, There
          <5>3. native'[1].ours /\ native'[n].ours
            BY <2>3, <4>1, <5>2, <1>0
          <5> QED
            BY <4>1, <5>3, <1>0 DEF NativeEvents!PublishedTwice
        <4> QED
          BY <4>1, <2>3, <1>0 DEF There
      <3>2. /\ There'.text = row.text /\ There'.status # "none" /\ There'.ours
            /\ \A m \in NativeNo \ {1} : native'[m] = native[m]
        BY <2>3, <3>1, <1>0 DEF There
      <3>3. NativeEvents!Raced \in [Calls -> SyncPass]
            /\ \A q \in Calls :
                 /\ NativeEvents!Raced[q].at = passes[q].at
                 /\ NativeEvents!Raced[q].list = passes[q].list
                 /\ NativeEvents!Raced[q].copy = passes[q].copy
                 /\ passes[q].at \in {"compare", "settle"} => NativeEvents!Raced[q].raced
        BY WriteRaces
      <3>4. PICK c : c = [NativeEvents!CopyOf(row) EXCEPT !.link = n]
        OBVIOUS
      <3>5. c.text = row.text /\ c.link = 1
        BY <3>1, <3>4 DEF NativeEvents!CopyOf
      <3>6. /\ \A q \in Calls \ {p} :
                 /\ passes'[q].at = passes[q].at /\ passes'[q].list = passes[q].list
                 /\ passes'[q].copy = passes[q].copy
                 /\ passes[q].at \in {"compare", "settle"} => passes'[q].raced
            /\ passes'[p].at = "link" /\ passes'[p].list = passes[p].list /\ passes'[p].copy = c
        BY <2>3, <3>3, <3>4 DEF SyncPass
      <3>7. /\ \A q \in Calls : passes[q].at \notin {"imported", "settle", "record", "link"}
            /\ push.at = "idle"
        BY <3>1, <1>1, <1>0 DEF OneNativeAlone, PushRun
      <3>8. Writers' = {p} /\ \A q \in Calls : ~Fresh(q)' /\ passes'[q].at # "settle"
        BY <3>6, <3>7 DEF Writers, Writing, Fresh
      <3>9. WritesKnown'
        BY <2>1, <3>2, <3>5, <3>6, <3>7, <3>8 DEF WritesKnown
      <3>10. ListsAgree' /\ CopiesAgree'
        BY <3>8 DEF ListsAgree, CopiesAgree
      <3>11. OneNativeAlone'
        BY <2>1, <3>2, <3>5, <3>6, <3>7, <1>1 DEF OneNativeAlone
      <3>12. ImportsTyped'
        BY <2>1, <3>6, <3>7, <1>1 DEF ImportsTyped
      <3> QED
        BY <3>9, <3>10, <3>11, <3>12 DEF WritesInv
    <2> QED
      BY <1>19, <1>0, <2>2, <2>3 DEF NativeEvents!PublishToDiscord, NativeEvents!Writes
  <1>20. ASSUME NEW p \in Calls, NativeEvents!LinkNative(p)
         PROVE  WritesInv'
    <2>1. /\ UNCHANGED <<native, push, typed, crossed>> /\ passes[p].at = "link"
          /\ row'.link = passes[p].copy.link /\ row'.text = row.text /\ row'.wrote = row.wrote
          /\ row'.status = row.status /\ There' = There
      BY <1>20, <1>0 DEF NativeEvents!LinkNative, RowHere, There
    <2>2. /\ \A q \in Calls \ {p} : passes'[q] = passes[q]
          /\ passes'[p].at = "record" /\ passes'[p].copy = passes[p].copy
          /\ passes'[p].list = passes[p].list
      BY <1>20, <1>0 DEF NativeEvents!LinkNative, NativeEvents!At, SyncPass
    <2>3. passes[p].copy.link = 1 /\ row.status # "none" /\ There.status # "none"
      BY <2>1, <1>1 DEF OneNativeAlone
    <2>4. WritesKnown' /\ ListsAgree' /\ CopiesAgree'
      <3>1. ASSUME NEW q \in Calls
            PROVE  /\ Writing(q)' <=> Writing(q)
                   /\ Writing(q) => passes'[q].copy.text = passes[q].copy.text
                   /\ Fresh(q)' => Fresh(q) /\ passes'[q].list[1] = passes[q].list[1]
                   /\ passes'[q].at = "settle" =>
                        passes[q].at = "settle" /\ passes'[q].copy = passes[q].copy
        BY <2>1, <2>2 DEF Writing, Fresh
      <3> QED
        BY <2>1, <3>1, <1>1, NothingWritten
    <2>5. OneNativeAlone'
      BY <2>1, <2>2, <2>3, <1>1 DEF OneNativeAlone
    <2>6. ImportsTyped'
      BY <2>1, <2>2, <2>3, <1>1 DEF ImportsTyped
    <2> QED
      BY <2>4, <2>5, <2>6 DEF WritesInv
  <1>21. ASSUME NEW p \in Calls, NativeEvents!SettleMissing(p) \/ NativeEvents!DeleteNative(p)
         PROVE  WritesInv'
    <2>1. /\ UNCHANGED <<push, typed, crossed>> /\ passes[p].at = "reconcile"
          /\ passes' = [passes EXCEPT ![p] = NativeEvents!Resting]
          /\ row'.text = row.text /\ row'.wrote = row.wrote /\ row'.link = row.link
          /\ row.status # "none" /\ row'.status # "none"
      BY <1>21, <1>0 DEF NativeEvents!SettleMissing, NativeEvents!DeleteNative, RowHere
    <2>2. \A n \in NativeNo : /\ native'[n].text = native[n].text
                              /\ native'[n].ours = native[n].ours
                              /\ native'[n].status = "none" <=> native[n].status = "none"
      <3>1. CASE UNCHANGED native
        BY <3>1
      <3>2. CASE NativeEvents!Listed(p) /\ native' = [native EXCEPT ![row.link].status = "deleted"]
        <4>1. row.link \in NativeNo /\ native[row.link].status # "none"
          BY <3>2, <1>0 DEF NativeEvents!Listed, ListedMade
        <4> QED
          BY <3>2, <4>1, <1>0 DEF NativeThere
      <3> QED
        BY <1>21, <3>1, <3>2 DEF NativeEvents!SettleMissing, NativeEvents!DeleteNative
    <2>3. Leaves(p) /\ ~Writing(p) /\ There'.text = There.text
      BY <2>1, <2>2, <1>0, PassLeaves DEF Writing, There
    <2>4. WritesKnown' /\ ListsAgree' /\ CopiesAgree'
      BY <2>1, <2>3, <1>1, LeavingWritesNothing
    <2>5. OneNativeAlone'
      BY <2>1, <2>2, <2>3, <1>1, LeavingAlone
    <2>6. ImportsTyped'
      BY <2>1, <2>3, <1>1, LeavingImportsNothing
    <2> QED
      BY <2>4, <2>5, <2>6 DEF WritesInv
  <1> QED
    BY <1>2, <1>3, <1>4, <1>5, <1>6, <1>7, <1>9, <1>10, <1>11, <1>12, <1>13, <1>15, <1>16,
       <1>17,
       <1>18, <1>19, <1>20, <1>21
       DEF NativeEvents!Next, NativeEvents!Pass, NativeEvents!Publish

\* The invariant of Discord's event holds at the start.
LEMMA NativeInit == NativeEvents!Init => NativeInv
  <1> SUFFICES ASSUME NativeEvents!Init
               PROVE  NativeInv
    OBVIOUS
  <1>1. NativeTyped /\ TextsNumbered
    BY NativeTypesInit
  <1>2. /\ NativeEvents!Resting.at = "idle" /\ NativeEvents!Resting.list = [n \in NativeNo |-> 0]
        /\ NativeEvents!Natives = NativeNo /\ 1 \in NativeNo
    BY FirstNative DEF NativeEvents!Resting, NativeEvents!Natives, NativeNo
  <1>3. \A p \in Calls : passes[p].at = "idle" /\ \A n \in NativeNo : passes[p].list[n] = 0
    BY <1>2 DEF NativeEvents!Init
  <1>4. push.at = "idle"
    BY DEF NativeEvents!Init, NativeEvents!Quiet
  <1>5. /\ row.wrote = 0 /\ row.link \in {0, 1}
        /\ row.status = "none" => row.link = 0 /\ There.text \in typed
        /\ row.link # 0 => There.status # "none" /\ row.status # "none"
        /\ row.status # "none" => row.text \notin typed
        /\ row.status # "none" /\ row.link = 0 => There.status = "none"
        /\ \A n \in NativeNo \ {1} : native[n].status = "none" /\ ~native[n].ours
    <2>1. CASE /\ row = [NativeEvents!NoRow EXCEPT !.text = 1, !.status = "open"]
               /\ native = [n \in NativeNo |-> NativeEvents!Unmade] /\ typed = {}
      BY <2>1, <1>2 DEF NativeEvents!NoRow, NativeEvents!Unmade, There
    <2>2. CASE row = NativeEvents!NoRow /\ typed = {1} /\ native = NativeEvents!OneNative(FALSE)
      BY <2>2, <1>2 DEF NativeEvents!NoRow, NativeEvents!Unmade, NativeEvents!OneNative, There
    <2>3. CASE /\ row = [text |-> 1, status |-> "open", link |-> 1, wrote |-> 0] /\ typed = {}
               /\ native = NativeEvents!OneNative(TRUE)
      BY <2>3, <1>2 DEF NativeEvents!Unmade, NativeEvents!OneNative, There
    <2> QED
      BY <1>2, <2>1, <2>2, <2>3 DEF NativeEvents!Init
  <1>6. ListedMade /\ OneNativeAlone /\ ImportsTyped
    BY <1>2, <1>3, <1>4, <1>5 DEF ListedMade, OneNativeAlone, ImportsTyped
  <1>7. WritesKnown /\ ListsAgree /\ CopiesAgree
    BY <1>3, <1>4, <1>5 DEF WritesKnown, ListsAgree, CopiesAgree, Writers, Writing, Fresh
  <1> QED
    BY <1>1, <1>6, <1>7 DEF NativeInv, WritesInv

\* Each step of Discord's event keeps its invariant.
LEMMA NativeStep ==
  ASSUME NativeInv, NativeEvents!Next \/ UNCHANGED nativeVars
  PROVE  NativeInv'
  <1>1. NativeTyped /\ TextsNumbered /\ ListedMade
    BY DEF NativeInv
  <1>2. NativeTyped'
    BY <1>1, NativeTypesStep
  <1>3. TextsNumbered' /\ ListedMade'
    BY <1>1, <1>2, TextsStep, ListedStep
  <1>4. ASSUME ~NativeEvents!PublishedTwice'
        PROVE  WritesInv'
    <2>1. ~NativeEvents!PublishedTwice
      BY <1>1, <1>4, StaysPublishedTwice
    <2>2. WritesInv
      BY <2>1 DEF NativeInv
    <2> QED
      BY <1>1, <1>2, <1>4, <2>2, WritesStep
  <1> QED
    BY <1>2, <1>3, <1>4 DEF NativeInv

\* The invariant of Discord's event holds throughout a behaviour about it.
LEMMA NativeInvariant == Spec => [](part = "native" => NativeInv)
  <1>1. Init => (part = "native" => NativeInv)
    BY NativeInit DEF Init
  <1>2. (part = "native" => NativeInv) /\ [Next]_vars => (part = "native" => NativeInv)'
    BY StepOfAPart, NativeStep
  <1> QED
    BY <1>1, <1>2, PTL DEF Spec

\* A pass that takes an edit worked from a list with a typed text, or raced, or
\* the event is published twice.
LEMMA TakingIsTyped ==
  ASSUME NativeInv
  PROVE  NativeEvents!TakesTypedOnly
  <1>1. ASSUME NEW p \in Calls, NativeEvents!TakeDiscordEdit(p), ~NativeEvents!PublishedTwice,
               ~passes[p].raced
        PROVE  NativeEvents!Theirs(p) \in typed
    <2>1. WritesInv /\ NativeTyped /\ TextsNumbered
      BY <1>1 DEF NativeInv
    <2>2. /\ passes[p].at = "settle" /\ passes[p].copy.wrote # 0
          /\ NativeEvents!Theirs(p) # passes[p].copy.wrote
      BY <1>1 DEF NativeEvents!TakeDiscordEdit, NativeEvents!EditedThere
    <2>3. passes[p].copy.link = 1
      BY <2>1, <2>2 DEF WritesInv, OneNativeAlone
    <2>4. NativeEvents!Theirs(p) = passes[p].list[1] /\ passes[p].list[1] # 0
      BY <2>1, <2>2, <2>3 DEF NativeEvents!Theirs, TextsNumbered, NumberedPass
    <2>5. Fresh(p)
      BY <1>1, <2>2, <2>4 DEF Fresh
    <2> QED
      BY <2>1, <2>2, <2>4, <2>5 DEF WritesInv, CopiesAgree
  <1> QED
    BY <1>1 DEF NativeEvents!TakesTypedOnly

\* OnlyTypedEditsAreTaken, for any number of passes, edits and natives: what a
\* pass of the sync takes from Discord's copy was typed in Discord's screen
\* unless its list was raced by a write of ours, or the event was published
\* twice (discordevents.go).
THEOREM OnlyTypedEditsAreEverTaken == Spec => OnlyTypedEditsAreTaken
  <1>1. (part = "native" => NativeInv) /\ [Next]_vars =>
          [part = "native" => NativeEvents!TakesTypedOnly]_nativeVars
    BY TakingIsTyped
  <1> QED
    BY <1>1, NativeInvariant, PTL DEF Spec, OnlyTypedEditsAreTaken
-----------------------------------------------------------------------------
(* The types, in the behaviours about each part.                           *)

\* The invariant of reminders has the part's TypeOK in it.
LEMMA RemindersTypes == RemindersInv => Reminders!TypeOK
  BY DEF RemindersInv, EventTyped, SettingsTyped, TalliesTyped, Reminders!TypeOK

\* The invariant of drawings has the part's TypeOK in it.
LEMMA DrawingsTypes == DrawingsInv => Drawings!TypeOK
  <1> SUFFICES ASSUME DrawingsInv
               PROVE  Drawings!TypeOK
    OBVIOUS
  <1>1. /\ askedDrawing \in [Owner -> Asking] /\ form \in PhotoForm
        /\ drawing \in [Calls -> DrawerRun] /\ uploaded \in Nat /\ drawingFaults \in Nat
        /\ photo \in 0..uploaded /\ files \subseteq 1..uploaded /\ orphans \subseteq 1..uploaded
        /\ gallery \in [Owner -> SUBSET Nat] /\ drawn \in Nat
        /\ \A o \in Owner : \A g \in gallery[o] : 1 <= g /\ g <= drawn
    BY DEF DrawingsInv, DrawingsTyped, AskedTyped, FormTyped, DrawersTyped, GalleryTyped,
       FilesNumbered
  <1>2. ASSUME NEW o \in Owner
        PROVE  /\ askedDrawing[o].state \in {"none", "waiting", "drawing", "done", "failed"}
               /\ askedDrawing[o].no \in Nat /\ askedDrawing[o].photo \in Nat
               /\ askedDrawing[o].base \in Nat
    BY <1>1 DEF Asking
  <1>3. ASSUME NEW o \in Owner
        PROVE  gallery[o] \subseteq 1..drawn
    BY <1>1
  <1>4. chosen \in Nat /\ mascot \in Nat
    <2>1. gallery["person"] \subseteq Nat /\ gallery["server"] \subseteq Nat
          /\ Drawings!None = 0
      BY <1>1, DrawingWords
    <2> QED
      BY <2>1 DEF DrawingsInv, Shown
  <1>5. photo \in Nat /\ form.at \in {"none", "request", "purge", "forget", "remove"}
        /\ \A d \in Calls : drawing[d].at \in {"idle", "start", "draw", "save", "fail", "purge"}
    BY <1>1 DEF PhotoForm, DrawerRun
  <1> QED
    BY <1>1, <1>2, <1>3, <1>4, <1>5 DEF Drawings!TypeOK, Owner

\* The invariant of Discord's event has the part's TypeOK in it.
LEMMA NativeTypes == NativeInv => NativeEvents!TypeOK
  <1> SUFFICES ASSUME NativeInv
               PROVE  NativeEvents!TypeOK
    OBVIOUS
  <1>1. NativeTyped
    BY DEF NativeInv
  <1>2. \A p \in Calls : passes[p].at \in {"idle", "compare", "imported", "settle", "record",
                                           "reconcile", "link"}
    BY <1>1 DEF NativeTyped, SyncPass
  <1>3. typed \subseteq 0..MaxTexts
    BY <1>1, NativeAssumption DEF NativeTyped
  <1>4. /\ row.text \in 0..MaxTexts /\ row.wrote \in 0..MaxTexts /\ row.link \in 0..MaxNatives
        /\ row.status \in {"none", "open", "completed", "cancelled"}
        /\ push.at \in {"idle", "patch", "record"}
    BY <1>1, RowTyped
  <1>5. native \in [NativeNo -> NativeThere] /\ due \in BOOLEAN
    BY <1>1 DEF NativeTyped
  <1> QED
    BY <1>2, <1>3, <1>4, <1>5
       DEF NativeEvents!TypeOK, NativeEvents!Texts, NativeEvents!Natives, NativeNo, NativeThere,
           TextNo

\* The invariant of the potluck has the part's TypeOK in it.
LEMMA PotluckTypes == PotluckInv => Potluck!TypeOK
  <1> SUFFICES ASSUME PotluckInv
               PROVE  Potluck!TypeOK
    OBVIOUS
  <1>1. \A p \in Calls : /\ polls[p].at \in {"idle", "fetch", "roster", "copy"}
                         /\ polls[p].left \subseteq Lines /\ polls[p].going \subseteq Guests
    BY DEF PotluckInv, ImportTyped, PollPass
  <1> QED
    BY <1>1
       DEF PotluckInv, PotluckTyped, ImportTyped, SheetInv, RowsTyped, SheetLine, Potluck!TypeOK

\* The invariant of replies has the part's TypeOK in it.
LEMMA RepliesTypes == RepliesInv => Replies!TypeOK
  <1> SUFFICES ASSUME RepliesInv
               PROVE  Replies!TypeOK
    OBVIOUS
  <1>1. \A w \in Replies!Workers :
          worker[w].at \in {"idle", "find", "record", "keep", "purge", "done"}
    BY DEF RepliesInv, WorkersTyped, Working
  <1>2. DOMAIN eventDMs \subseteq 1..MaxSent
    BY RowsWithinSent DEF RepliesInv
  <1>3. /\ sent \in Seq(About) /\ Len(sent) <= MaxSent
        /\ message \in [Written -> WrittenMessage] /\ reply \in [Written -> StoredReply]
        /\ stored \subseteq Replies!File /\ left \subseteq Replies!File /\ RepliesTyped
    BY DEF RepliesInv, SentTyped, WritingTyped, FilesTyped
  <1>4. /\ message \in [Written -> [written : BOOLEAN, files : 0..FilesPerReply,
                                    repliedTo : 0..MaxSent]]
        /\ reply \in [Written -> [event : About \cup {Replies!NoEvent},
                                  matched : {"", "reply", "latest"}, files : 0..FilesPerReply]]
    BY <1>3, Zenon DEF WrittenMessage, StoredReply
  <1> QED
    BY <1>1, <1>2, <1>3, <1>4, Zenon DEF RepliesTyped, Replies!TypeOK

\* TypeOK of the parts, for any number of calls and any bounds: the variables
\* of the part a behaviour is about keep their types.
THEOREM OverlapsAreTyped == Spec => []TypeOK
  <1>1. Init => part \in Parts
    BY DEF Init
  <1>2. part \in Parts /\ [Next]_vars => (part \in Parts)'
    BY StepOfAPart
  <1>3. Spec => [](part \in Parts)
    BY <1>1, <1>2, PTL DEF Spec
  <1>4. /\ part \in Parts
        /\ part = "reminders" => RemindersInv
        /\ part = "drawings" => DrawingsInv
        /\ part = "setup" => SetupInv
        /\ part = "native" => NativeInv
        /\ part = "potluck" => PotluckInv
        /\ part = "roles" => RolesInv
        /\ part = "access" => AccessInv
        /\ part = "replies" => RepliesInv
        => TypeOK
    BY RemindersTypes, DrawingsTypes, SetupTypes, NativeTypes, PotluckTypes, RolesTypes,
       AccessTypes, RepliesTypes DEF TypeOK
  <1> QED
    BY <1>3, <1>4, RemindersInvariant, DrawingsInvariant, SetupInvariant, NativeInvariant,
       PotluckInvariant, RolesInvariant, AccessInvariant, RepliesInvariant, PTL
=============================================================================
