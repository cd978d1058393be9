------------------------------ MODULE Gateway ------------------------------
(***************************************************************************)
(* The gateway supervisor (gateway_supervisor.go): one goroutine that      *)
(* keeps one discordgo session's socket open, reopens it when it closes,   *)
(* and gives the session up for a new one when it is stuck.                *)
(*                                                                         *)
(* The session is modelled from how the supervisor uses it: its socket is  *)
(* "closed", "live", or "deaf" (it reads as open and no heartbeat is       *)
(* acknowledged), and its lock may be stuck, which blocks Open, Close and  *)
(* the reading of the heartbeat.  A Disconnect reaches the supervisor      *)
(* through a handler goroutine and a channel of one place, so one may      *)
(* arrive after the socket was reopened, and two may come for one death.   *)
(***************************************************************************)
EXTENDS Integers

CONSTANTS
  MaxDelay,   \* bound: the longest wait between two tries
  MaxFaults   \* bound: what goes wrong outside the supervisor

FirstDelay == 1

VARIABLES
  phase,      \* where the supervisor's goroutine is
  reported,   \* the state on /healthz
  delay,      \* the wait before the next try
  socket,     \* the current session's socket
  stuck,      \* whether the current session's lock is held for good
  notices,    \* Disconnect handlers started and not yet run
  noticed,    \* whether the channel of Disconnects holds one
  left,       \* sessions given up on whose Close has not returned
  faults

vars == <<phase, reported, delay, socket, stuck, notices, noticed, left, faults>>

Phase   == {"off", "building", "opening", "opened", "connected", "waiting to build",
            "waiting to open", "closing", "stopped"}
Status  == {"disabled", "down", "connecting", "connected"}

Init ==
  /\ phase = "off" /\ reported = "disabled" /\ delay = FirstDelay
  /\ socket = "closed" /\ stuck = FALSE
  /\ notices = 0 /\ noticed = FALSE
  /\ left = 0 /\ faults = 0

Fault == faults < MaxFaults /\ faults' = faults + 1

NextRetryDelay(d) == IF 2 * d < MaxDelay THEN 2 * d ELSE MaxDelay

-----------------------------------------------------------------------------
\* The supervisor.

Run ==
  /\ phase = "off"
  /\ phase' = "building" /\ reported' = "down"
  /\ UNCHANGED <<delay, socket, stuck, notices, noticed, left, faults>>

\* A session built is a new one with a channel of its own: handlers of the
\* session before it fill a channel nobody reads.
BuildSocket ==
  /\ phase = "building"
  /\ phase' = "opening" /\ reported' = "connecting" /\ delay' = FirstDelay
  /\ socket' = "closed" /\ stuck' = FALSE /\ notices' = 0 /\ noticed' = FALSE
  /\ UNCHANGED <<left, faults>>

BuildFails ==
  /\ phase = "building" /\ Fault
  /\ phase' = "waiting to build" /\ reported' = "down"
  /\ UNCHANGED <<delay, socket, stuck, notices, noticed, left>>

RetryDelayPasses ==
  /\ \/ phase = "waiting to build" /\ phase' = "building" /\ UNCHANGED reported
     \/ phase = "waiting to open" /\ phase' = "opening" /\ reported' = "connecting"
  /\ delay' = NextRetryDelay(delay)
  /\ UNCHANGED <<socket, stuck, notices, noticed, left, faults>>

\* Open returned nil, or that the socket is open already.
OpenSucceeds ==
  /\ phase = "opening" /\ ~stuck
  /\ phase' = "opened"
  /\ socket' = IF socket = "closed" THEN "live" ELSE socket
  /\ UNCHANGED <<reported, delay, stuck, notices, noticed, left, faults>>

\* Mutant of Connected: a socket just opened starts with an empty channel.
ConnectedDrains ==
  /\ phase = "opened"
  /\ phase' = "connected" /\ reported' = "connected" /\ delay' = FirstDelay
  /\ noticed' = FALSE
  /\ UNCHANGED <<socket, stuck, notices, left, faults>>

\* The socket may have closed again before the wait begins: what the channel
\* holds is kept for it.
Connected ==
  /\ phase = "opened"
  /\ phase' = "connected" /\ reported' = "connected" /\ delay' = FirstDelay
  /\ UNCHANGED <<socket, stuck, notices, noticed, left, faults>>

OpenFails ==
  /\ phase = "opening" /\ ~stuck /\ socket = "closed" /\ Fault
  /\ phase' = "waiting to open" /\ reported' = "down"
  /\ UNCHANGED <<delay, socket, stuck, notices, noticed, left>>

\* Giving the session up: its Close runs in the background.
Abandon ==
  /\ phase' = "building" /\ reported' = "down" /\ delay' = FirstDelay
  /\ left' = left + 1
  /\ UNCHANGED <<socket, stuck, notices, noticed, faults>>

OpenDoesNotReturn == phase = "opening" /\ stuck /\ Abandon

\* A channel receive, then Open on the same session, which RESUMEs.
NoticeDisconnect ==
  /\ phase = "connected" /\ noticed
  /\ noticed' = FALSE
  /\ phase' = "opening" /\ reported' = "connecting"
  /\ UNCHANGED <<delay, socket, stuck, notices, left, faults>>

\* Mutant of CheckHeartbeat: only the age of the heartbeat is looked at, without a limit on the read.
CheckHeartbeatBlocks ==
  /\ phase = "connected"
  /\ ~stuck /\ socket # "live"
  /\ Abandon

\* The ticker: the lock cannot be taken, or the last acknowledged heartbeat is
\* too old.  A closed socket's last heartbeat grows old as well.
CheckHeartbeat ==
  /\ phase = "connected"
  /\ stuck \/ socket # "live"
  /\ Abandon

CloseAbandoned ==
  /\ left > 0 /\ left' = left - 1
  /\ UNCHANGED <<phase, reported, delay, socket, stuck, notices, noticed, faults>>

\* The caller closes stop: only the waits look at it.
Stop ==
  /\ phase \in {"connected", "waiting to build", "waiting to open"}
  /\ phase' = IF phase = "waiting to build" THEN "stopped" ELSE "closing"
  /\ UNCHANGED <<reported, delay, socket, stuck, notices, noticed, left, faults>>

CloseOnStop ==
  /\ phase = "closing" /\ ~stuck
  /\ phase' = "stopped" /\ socket' = "closed"
  /\ UNCHANGED <<reported, delay, stuck, notices, noticed, left, faults>>

-----------------------------------------------------------------------------
\* The library and the network.

SocketCloses ==
  /\ phase # "off" /\ socket # "closed" /\ ~stuck /\ Fault
  /\ socket' = "closed" /\ notices' = notices + 1
  /\ UNCHANGED <<phase, reported, delay, stuck, noticed, left>>

\* The listen and the heartbeat goroutine each close the socket.
ClosesTwice ==
  /\ socket = "closed" /\ phase \in {"opened", "connected"} /\ Fault
  /\ notices' = notices + 1
  /\ UNCHANGED <<phase, reported, delay, socket, stuck, noticed, left>>

HeartbeatsStop ==
  /\ socket = "live" /\ Fault /\ socket' = "deaf"
  /\ UNCHANGED <<phase, reported, delay, stuck, notices, noticed, left>>

LockSticks ==
  /\ phase \in {"opening", "opened", "connected"} /\ ~stuck /\ Fault /\ stuck' = TRUE
  /\ UNCHANGED <<phase, reported, delay, socket, notices, noticed, left>>

\* notifyDisconnected never blocks: a full channel keeps what it holds.
Notify ==
  /\ notices > 0 /\ notices' = notices - 1
  /\ noticed' = TRUE
  /\ UNCHANGED <<phase, reported, delay, socket, stuck, left, faults>>

Supervise ==
  \/ BuildSocket \/ BuildFails \/ RetryDelayPasses
  \/ OpenSucceeds \/ Connected \/ OpenFails \/ OpenDoesNotReturn
  \/ NoticeDisconnect \/ CheckHeartbeat

Next ==
  \/ Run \/ Supervise \/ CloseAbandoned \/ Stop \/ CloseOnStop
  \/ SocketCloses \/ ClosesTwice \/ HeartbeatsStop \/ LockSticks \/ Notify

\* The supervisor's goroutine is always runnable and its calls are cut off by
\* timers; handler goroutines are scheduled too.  Nothing is assumed of the Close
\* of a session given up on: its lock may be held for good.
Fairness == WF_vars(Supervise) /\ WF_vars(Notify)

Spec == Init /\ [][Next]_vars /\ Fairness
-----------------------------------------------------------------------------

TypeOK ==
  /\ phase \in Phase /\ reported \in Status
  /\ delay \in Nat \ {0}
  /\ socket \in {"closed", "live", "deaf"} /\ stuck \in BOOLEAN
  /\ notices \in Nat /\ noticed \in BOOLEAN
  /\ left \in Nat /\ faults \in Nat

\* gateway_supervisor.go's promise that every death is followed by an Open:
\* while the supervisor waits on a socket that has closed, a Disconnect is
\* still on its way to it, however the deaths and their notices interleave
\* with its reopening.
EveryDeathIsNoticed ==
  phase \in {"opened", "connected"} /\ socket = "closed" => noticed \/ notices > 0

\* A socket that is closed, deaf or stuck while the supervisor runs is working
\* again in the end, or the supervisor was stopped.
Working == phase = "connected" /\ socket = "live" /\ ~stuck
Broken  == phase \notin {"off", "closing", "stopped"} /\ ~Working

SocketComesBack == Broken ~> (Working \/ phase \in {"closing", "stopped"})

=============================================================================
