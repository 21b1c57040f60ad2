------------------------------ MODULE WsClient ------------------------------
(***************************************************************************)
(* The browser's end of /ws: WSClient of                                   *)
(* frontend/src/lib/ws/WebSocketProvider.tsx, started and stopped by the   *)
(* provider's effect.  JavaScript runs one callback at a time, so every    *)
(* action is one callback; a closed socket's onclose and a timer come      *)
(* later, when the client may have been stopped and started again.         *)
(***************************************************************************)
EXTENDS Integers, FiniteSets

CONSTANTS Sockets,    \* WebSocket objects; ids are reused after onclose
          None,
          MaxMounts   \* bound: how often the provider's effect runs

ASSUME ClientAssumption == /\ None \notin Sockets
                           /\ IsFiniteSet(Sockets)
                           /\ MaxMounts \in Nat

\* reconnectAttempts is only compared with 0 and with the last of the delays.
MaxAttempts == 5

VARIABLES
    mounts,         \* history: number of start() calls
    mounted,        \* the effect has run and not been cleaned up
    explicitClose,
    ws,             \* this.ws
    socket,         \* each socket: "unused", "connecting", "open" or "closing"
    attempts,       \* reconnectAttempts
    timer,          \* pending timers that reconnectTimer names, 0 or 1
    lost,           \* pending timers that it named before
    heartbeat,      \* is the ping interval running
    state           \* currentState, as the UI shows it

pageVars == <<mounts, mounted, explicitClose, ws, socket, attempts, timer, lost,
              heartbeat, state>>

ClientInit ==
    /\ mounts = 0
    /\ mounted = FALSE
    /\ explicitClose = FALSE
    /\ ws = None
    /\ socket = [s \in Sockets |-> "unused"]
    /\ attempts = 0
    /\ timer = 0
    /\ lost = 0
    /\ heartbeat = FALSE
    /\ state = "connecting"

Used == {s \in Sockets : socket[s] # "unused"}
Live == {s \in Sockets : socket[s] \in {"connecting", "open"}}

-----------------------------------------------------------------------------
NextAttempts == IF attempts < MaxAttempts THEN attempts + 1 ELSE attempts

\* A client that gives up after the last delay.
ScheduleReconnectGivesUp ==
    \/ /\ explicitClose \/ attempts = MaxAttempts
       /\ UNCHANGED <<attempts, timer, lost>>
    \/ /\ ~explicitClose /\ attempts < MaxAttempts
       /\ attempts' = NextAttempts
       /\ timer' = 1
       /\ lost' = lost + timer

\* scheduleReconnect(): setting reconnectTimer does not clear the timer it named.
ScheduleReconnect ==
    \/ /\ explicitClose
       /\ UNCHANGED <<attempts, timer, lost>>
    \/ /\ ~explicitClose
       /\ attempts' = NextAttempts
       /\ timer' = 1
       /\ lost' = lost + timer

\* connect(): `new WebSocket` throws only for a URL that resolveWsUrl() does not
\* produce.
ConnectSocket ==
    /\ \E s \in Sockets \ Used : /\ ws' = s
                                 /\ socket' = [socket EXCEPT ![s] = "connecting"]
    /\ state' = IF attempts = 0 THEN "connecting" ELSE "reconnecting"

\* The effect calls start().
Mount ==
    /\ ~mounted
    /\ mounts < MaxMounts
    /\ mounts' = mounts + 1
    /\ mounted' = TRUE
    /\ explicitClose' = FALSE
    /\ ConnectSocket
    /\ UNCHANGED <<attempts, timer, lost, heartbeat>>

\* A stop() that leaves the reconnect timer alone.
StopKeepsTimer ==
    /\ explicitClose' = TRUE
    /\ heartbeat' = FALSE
    /\ socket' = IF ws \in Live THEN [socket EXCEPT ![ws] = "closing"] ELSE socket
    /\ UNCHANGED timer

\* stop(): close() makes the socket's onclose come later.
Stop ==
    /\ explicitClose' = TRUE
    /\ heartbeat' = FALSE
    /\ socket' = IF ws \in Live THEN [socket EXCEPT ![ws] = "closing"] ELSE socket
    /\ timer' = 0

\* The effect's cleanup.
Unmount ==
    /\ mounted
    /\ mounted' = FALSE
    /\ Stop
    /\ UNCHANGED <<mounts, ws, attempts, lost, state>>

OnOpen(s) ==
    /\ socket[s] = "connecting"
    /\ socket' = [socket EXCEPT ![s] = "open"]
    /\ attempts' = 0
    /\ heartbeat' = TRUE
    /\ state' = "open"
    /\ UNCHANGED <<mounts, mounted, explicitClose, ws, timer, lost>>

\* An onerror that reconnects, before onclose does.
ConnectionLostReconnects(s) ==
    /\ s \in Live
    /\ socket' = [socket EXCEPT ![s] = "closing"]
    /\ ScheduleReconnect
    /\ UNCHANGED <<mounts, mounted, explicitClose, ws, heartbeat, state>>

\* The connection is refused or lost; the browser reports it through onclose.
ConnectionLost(s) ==
    /\ s \in Live
    /\ socket' = [socket EXCEPT ![s] = "closing"]
    /\ UNCHANGED <<mounts, mounted, explicitClose, ws, attempts, timer, lost,
                   heartbeat, state>>

\* An onclose that leaves the ping interval running.
HeartbeatKept(s) == heartbeat

HeartbeatAfterClose(s) == FALSE

\* onclose of any socket acts on the client, whichever socket it has by now.
OnClose(s) ==
    /\ socket[s] = "closing"
    /\ socket' = [socket EXCEPT ![s] = "unused"]
    /\ heartbeat' = HeartbeatAfterClose(s)
    /\ state' = "closed"
    /\ ScheduleReconnect
    /\ UNCHANGED <<mounts, mounted, explicitClose, ws>>

TimerFires ==
    /\ timer = 1
    /\ timer' = 0
    /\ ConnectSocket
    /\ UNCHANGED <<mounts, mounted, explicitClose, attempts, lost, heartbeat>>

LostTimerFires ==
    /\ lost > 0
    /\ lost' = lost - 1
    /\ ConnectSocket
    /\ UNCHANGED <<mounts, mounted, explicitClose, attempts, timer, heartbeat>>

-----------------------------------------------------------------------------
SocketStep(s) == OnOpen(s) \/ OnClose(s)

ClientNext ==
    \/ Mount \/ Unmount
    \/ \E s \in Sockets : SocketStep(s) \/ ConnectionLost(s)
    \/ TimerFires \/ LostTimerFires

ClientSpec == ClientInit /\ [][ClientNext]_pageVars

\* Timers fire and the browser reports what becomes of a socket.
ClientFairSpec ==
    /\ ClientSpec
    /\ \A s \in Sockets : WF_pageVars(SocketStep(s))
    /\ WF_pageVars(TimerFires) /\ WF_pageVars(LostTimerFires)

-----------------------------------------------------------------------------
(* Properties                                                              *)

\* Every variable keeps its type.
ClientTypeOK ==
    /\ mounts \in 0..MaxMounts
    /\ mounted \in BOOLEAN /\ explicitClose \in BOOLEAN /\ heartbeat \in BOOLEAN
    /\ ws \in Sockets \cup {None}
    /\ socket \in [Sockets -> {"unused", "connecting", "open", "closing"}]
    /\ attempts \in 0..MaxAttempts
    /\ timer \in {0, 1}
    /\ lost \in Nat
    /\ state \in {"connecting", "reconnecting", "open", "closed"}

\* Sockets and pending timers never outnumber the calls of start(): reconnecting
\* replaces a connection and does not add one.
OneConnectionPerStart == Cardinality(Used) + timer + lost <= mounts

\* A client that lost its connection tries again, for as long as it is mounted.
Reconnects == state = "closed" /\ mounted ~> state # "closed" \/ ~mounted

\* A client that is started once:
StartedOnce == mounts <= 1

\* - its status "open" and its pings belong to a socket that is open, or whose
\*   onclose is about to correct them;
StatusIsHonest ==
    StartedOnce /\ (state = "open" \/ heartbeat) =>
        ws # None /\ socket[ws] \in {"open", "closing"}

\* - stop() is final: no live socket and no timer are left behind.
StopIsFinal ==
    StartedOnce /\ explicitClose => Live = {} /\ timer = 0 /\ lost = 0

-----------------------------------------------------------------------------
\* What the file's header promises and the code does not do, "one connection":
\* after a remount the old socket's onclose reconnects beside the new socket.
SingleConnection == Cardinality(Live) <= 1
=============================================================================
