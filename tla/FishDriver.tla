----------------------------- MODULE FishDriver -----------------------------
(***************************************************************************)
(* FishWebSocketDriver: the transport that keeps one terminal tab attached *)
(* to a PTY session of a fish-agent server over a WebSocket.  It owns the  *)
(* current socket, a reconnect timer with exponential backoff, a heartbeat *)
(* interval, a batch of output frames with a zero-delay flush timer, and   *)
(* the tracking of the server's output replay (a quiet timer and a guard   *)
(* timer).  Every handler runs to completion on the UI thread, so each     *)
(* handler is one action.                                                  *)
(*                                                                         *)
(* The sockets and the server are external.  A socket's handlers close     *)
(* over the driver and do not check that the socket is still the driver's  *)
(* current one, so the events of every socket that connect() ever created  *)
(* and that may still report something are actions here.                   *)
(***************************************************************************)
EXTENDS Integers, Sequences, FiniteSets

CONSTANTS
    Sockets,         \* slots for sockets that can still deliver an event
    SessionIds,      \* identifiers the server can give to PTY sessions
    None,            \* the empty session id, and the null socket
    FlushThreshold,  \* frames that make FLUSH_THRESHOLD_BYTES
    AttemptCap,      \* attempts after which the backoff delay stays at its maximum
    Orderly,         \* TRUE: no connect() while another socket is alive
    DeadPolicy,      \* how the server may answer a URL that asks for a dead session
    SessionFirst     \* TRUE: it names the session before sending its output

ASSUME ConstantsAssumption ==
    /\ None \notin Sockets
    /\ None \notin SessionIds
    /\ FlushThreshold \in Nat \ {0}
    /\ AttemptCap \in Nat \ {0}
    /\ Orderly \in BOOLEAN
    /\ DeadPolicy \subseteq {"fresh", "refuse"}
    /\ SessionFirst \in BOOLEAN

VARIABLES
    \* --- fields of the driver ---
    ws,              \* the current socket, or None
    connected,
    manualStop,
    reconnectTimer,  \* armed?
    heartbeatTimer,  \* armed?
    sessionId,       \* the id the server announced last, or None
    configId,        \* config.sessionId, from which the URL is built
    pendingFrames,   \* output not yet handed to the session
    flushTimer,      \* armed?
    replaying,
    quietTimer,      \* replayQuietTimer armed?
    guardTimer,      \* replayGuardTimer armed?
    attempt,         \* backoff.attempt, saturating at AttemptCap
    \* --- callbacks ---
    status,          \* the state last passed to statusCb
    upcall,          \* the data callbacks the last step made
    started,         \* start() has been called
    \* --- sockets and server ---
    sock,            \* what each socket can still do
    live,            \* PTY sessions alive on the server
    used             \* session ids the server has ever given out

driverVars == <<ws, connected, manualStop, reconnectTimer, heartbeatTimer,
                sessionId, configId, pendingFrames, flushTimer, replaying,
                quietTimer, guardTimer, attempt, status, upcall, started>>
vars == <<driverVars, sock, live, used>>

SessionOrNone == SessionIds \union {None}
Statuses == {"idle", "connecting", "connected", "reconnecting", "closed", "error"}

(***************************************************************************)
(* A socket: the session its URL asked for, the session the server         *)
(* attached it to (None: refused), and whether the server has already sent *)
(* its `session' (or `error') control message on it.  A "failed" socket    *)
(* has reported an error to the connect callback and may still close.      *)
(***************************************************************************)
Phases == {"free", "connecting", "open", "failed"}
Socket == [phase : Phases, req : SessionOrNone, sess : SessionOrNone, told : BOOLEAN]
FreeSocket == [phase |-> "free", req |-> None, sess |-> None, told |-> FALSE]
Alive(k) == sock[k].phase # "free"

\* The callbacks a step makes: output first, then the replay notice.
Upcalls == [output : Seq(SessionIds), replay : {"none", "begin", "end"}, reset : BOOLEAN]
Call(output, replay, reset) == [output |-> output, replay |-> replay, reset |-> reset]
NoCall == Call(<<>>, "none", FALSE)

FlagsOK ==
    /\ connected \in BOOLEAN
    /\ manualStop \in BOOLEAN
    /\ reconnectTimer \in BOOLEAN
    /\ heartbeatTimer \in BOOLEAN
    /\ flushTimer \in BOOLEAN
    /\ replaying \in BOOLEAN
    /\ quietTimer \in BOOLEAN
    /\ guardTimer \in BOOLEAN
    /\ started \in BOOLEAN

BackoffOK == attempt \in 0..AttemptCap /\ status \in Statuses

FramesOK == pendingFrames \in Seq(SessionIds) /\ upcall \in Upcalls

SocketsOK ==
    /\ ws \in Sockets \union {None}
    /\ sock \in [Sockets -> Socket]
    /\ sessionId \in SessionOrNone
    /\ configId \in SessionOrNone
    /\ live \subseteq SessionIds
    /\ used \subseteq SessionIds

TypeOK == FlagsOK /\ BackoffOK /\ FramesOK /\ SocketsOK

\* A restored tab brings the session id saved with it; the session may have
\* died on the server since.
Init ==
    /\ ws = None
    /\ connected = FALSE
    /\ manualStop = FALSE
    /\ reconnectTimer = FALSE
    /\ heartbeatTimer = FALSE
    /\ sessionId = None
    /\ configId \in SessionOrNone
    /\ pendingFrames = <<>>
    /\ flushTimer = FALSE
    /\ replaying = FALSE
    /\ quietTimer = FALSE
    /\ guardTimer = FALSE
    /\ attempt = 0
    /\ status = "idle"
    /\ upcall = NoCall
    /\ started = FALSE
    /\ sock = [k \in Sockets |-> FreeSocket]
    /\ used = {configId} \ {None}
    /\ live \in SUBSET used

-----------------------------------------------------------------------------
(* Private methods, as the updates they make. *)

clearPending == pendingFrames' = <<>> /\ flushTimer' = FALSE

stopReplay == replaying' = FALSE /\ quietTimer' = FALSE /\ guardTimer' = FALSE

\* endReplay() on its own: the batched tail is delivered before the notice.
endReplay ==
    IF replaying
    THEN /\ stopReplay
         /\ clearPending
         /\ upcall' = Call(pendingFrames, "end", FALSE)
    ELSE /\ upcall' = NoCall
         /\ UNCHANGED <<replaying, quietTimer, guardTimer, pendingFrames, flushTimer>>

\* endReplay(); discardPendingFrames(): what stop() and 'close' do.  The batch
\* is empty afterwards, delivered only if a replay was under way.
endReplayAndDiscard ==
    /\ stopReplay
    /\ clearPending
    /\ upcall' = IF replaying
                 THEN Call(pendingFrames, "end", FALSE)
                 ELSE NoCall

\* Mutant: the attempts are counted past the cap.
scheduleReconnectUncapped ==
    IF manualStop \/ reconnectTimer
    THEN UNCHANGED <<reconnectTimer, attempt>>
    ELSE reconnectTimer' = TRUE /\ attempt' = attempt + 1

scheduleReconnect ==
    IF manualStop \/ reconnectTimer
    THEN UNCHANGED <<reconnectTimer, attempt>>
    ELSE /\ reconnectTimer' = TRUE
         /\ attempt' = IF attempt < AttemptCap THEN attempt + 1 ELSE AttemptCap

\* connect(): a new socket becomes the current one.  The old one is neither
\* closed nor detached from its handlers.
connect ==
    \E k \in Sockets :
        /\ ~Alive(k)
        /\ Orderly => \A j \in Sockets : ~Alive(j)
        /\ sock' = [sock EXCEPT ![k] = [phase |-> "connecting", req |-> configId,
                                        sess |-> None, told |-> FALSE]]
        /\ ws' = k
        /\ reconnectTimer' = FALSE
        /\ clearPending
        /\ status' = "connecting"

-----------------------------------------------------------------------------
(* Calls of the owner, and timers. *)

connectFrame == <<connected, heartbeatTimer, sessionId, configId, replaying,
                  quietTimer, guardTimer, live, used>>

start ==
    /\ started' = TRUE
    /\ manualStop' = FALSE
    /\ attempt' = 0
    /\ connect
    /\ upcall' = NoCall
    /\ UNCHANGED connectFrame

\* The owner starts a driver once and never after stopping it.
Start == ~started /\ ~manualStop /\ start

\* Mutant: a stopped driver reconnects as well.
OnForegroundAlways ==
    /\ ~connected
    /\ ~reconnectTimer
    /\ attempt' = 0
    /\ connect
    /\ upcall' = NoCall
    /\ UNCHANGED <<connectFrame, manualStop, started>>

\* The application came back to the foreground.  Nothing tells a driver that
\* waits for its reconnect timer from one whose connect() is still in flight,
\* or that has not been started: all but the first open a socket.
OnForeground ==
    /\ ~manualStop
    /\ ~connected
    /\ ~reconnectTimer
    /\ attempt' = 0
    /\ connect
    /\ upcall' = NoCall
    /\ UNCHANGED <<connectFrame, manualStop, started>>

reconnectNow ==
    /\ manualStop' = FALSE
    /\ ~connected
    /\ attempt' = 0
    /\ connect
    /\ upcall' = NoCall
    /\ UNCHANGED <<connectFrame, started>>

\* "Reconnect now" on the status banner.  It would revive a stopped driver; the
\* owner does not call it then.
ReconnectNow == ~manualStop /\ reconnectNow

Stop ==
    /\ manualStop' = TRUE
    /\ reconnectTimer' = FALSE
    /\ heartbeatTimer' = FALSE
    /\ connected' = FALSE
    /\ ws' = None
    /\ endReplayAndDiscard
    /\ status' = "closed"
    /\ UNCHANGED <<sessionId, configId, attempt, started, sock, live, used>>

\* The delay of the backoff has passed.
ReconnectFires ==
    /\ reconnectTimer
    /\ ~manualStop
    /\ connect
    /\ upcall' = NoCall
    /\ UNCHANGED <<connectFrame, manualStop, attempt, started>>

timerFrame == <<ws, connected, manualStop, reconnectTimer, heartbeatTimer,
                sessionId, configId, attempt, status, started, sock, live, used>>

FlushFires ==
    /\ flushTimer
    /\ clearPending
    /\ upcall' = Call(pendingFrames, "none", FALSE)
    /\ UNCHANGED <<timerFrame, replaying, quietTimer, guardTimer>>

QuietFires == quietTimer /\ endReplay /\ UNCHANGED timerFrame

GuardFires == guardTimer /\ endReplay /\ UNCHANGED timerFrame

-----------------------------------------------------------------------------
(* Events of a socket. *)

\* What the server does with the session a URL asks for: attach to it if it is
\* alive; otherwise make a fresh one or, if one was asked for, refuse.
Attach(req, s) ==
    \/ req \in live /\ s = req /\ UNCHANGED <<live, used>>
    \/ /\ req \notin live
       /\ req = None \/ "fresh" \in DeadPolicy
       /\ s \in SessionIds \ used
       /\ used' = used \union {s}
       /\ live' = live \union {s}
    \/ /\ req \notin live
       /\ req # None /\ "refuse" \in DeadPolicy
       /\ s = None
       /\ UNCHANGED <<live, used>>

expectsReplay == configId # None \/ sessionId # None

\* Mutant: the replay begins without its guard timer.
SocketOpenUnguarded(k) ==
    /\ sock[k].phase = "connecting"
    /\ \E s \in SessionOrNone :
        /\ Attach(sock[k].req, s)
        /\ sock' = [sock EXCEPT ![k] = [@ EXCEPT !.phase = "open", !.sess = s]]
    /\ connected' = TRUE
    /\ heartbeatTimer' = TRUE
    /\ attempt' = 0
    /\ status' = "connected"
    /\ replaying' = (replaying \/ expectsReplay)
    /\ quietTimer' = (quietTimer \/ expectsReplay)
    /\ upcall' = Call(<<>>, IF expectsReplay THEN "begin" ELSE "none", FALSE)
    /\ UNCHANGED <<ws, manualStop, reconnectTimer, sessionId, configId,
                   guardTimer, pendingFrames, flushTimer, started>>

\* 'open': a replay begins when the driver knows a session.
SocketOpen(k) ==
    /\ sock[k].phase = "connecting"
    /\ \E s \in SessionOrNone :
        /\ Attach(sock[k].req, s)
        /\ sock' = [sock EXCEPT ![k] = [@ EXCEPT !.phase = "open", !.sess = s]]
    /\ connected' = TRUE
    /\ heartbeatTimer' = TRUE
    /\ attempt' = 0
    /\ status' = "connected"
    /\ replaying' = (replaying \/ expectsReplay)
    /\ quietTimer' = (quietTimer \/ expectsReplay)
    /\ guardTimer' = (guardTimer \/ expectsReplay)
    /\ upcall' = Call(<<>>, IF expectsReplay THEN "begin" ELSE "none", FALSE)
    /\ UNCHANGED <<ws, manualStop, reconnectTimer, sessionId, configId,
                   pendingFrames, flushTimer, started>>

messageFrame == <<ws, connected, manualStop, reconnectTimer, heartbeatTimer,
                  started, live, used>>

\* 'message' with a binary frame of output.
ReceiveFrame(k) ==
    /\ sock[k].phase = "open"
    /\ sock[k].sess # None
    /\ SessionFirst => sock[k].told
    /\ LET frames == Append(pendingFrames, sock[k].sess)
       IN IF Len(frames) >= FlushThreshold
          THEN /\ clearPending
               /\ upcall' = Call(frames, "none", FALSE)
          ELSE /\ pendingFrames' = frames
               /\ flushTimer' = TRUE
               /\ upcall' = NoCall
    /\ quietTimer' = (quietTimer \/ replaying)
    /\ UNCHANGED <<messageFrame, sessionId, configId, replaying, guardTimer,
                   attempt, status, sock>>

\* Mutant: the configuration keeps the session id the tab was opened with.
ReceiveSessionOldConfig(k) ==
    /\ sock[k].phase = "open"
    /\ sock[k].sess # None
    /\ ~sock[k].told
    /\ sock' = [sock EXCEPT ![k] = [@ EXCEPT !.told = TRUE]]
    /\ sessionId' = sock[k].sess
    /\ upcall' = Call(<<>>, "none", sessionId # None /\ sessionId # sock[k].sess)
    /\ UNCHANGED <<messageFrame, configId, pendingFrames, flushTimer, replaying,
                   quietTimer, guardTimer, attempt, status>>

\* 'message' with the control message that names the session attached to.
ReceiveSession(k) ==
    /\ sock[k].phase = "open"
    /\ sock[k].sess # None
    /\ ~sock[k].told
    /\ sock' = [sock EXCEPT ![k] = [@ EXCEPT !.told = TRUE]]
    /\ sessionId' = sock[k].sess
    /\ configId' = sock[k].sess
    /\ upcall' = Call(<<>>, "none", sessionId # None /\ sessionId # sock[k].sess)
    /\ UNCHANGED <<messageFrame, pendingFrames, flushTimer, replaying,
                   quietTimer, guardTimer, attempt, status>>

\* 'message' with "session not found": the driver forgets the session it knows.
ReceiveSessionLost(k) ==
    /\ sock[k].phase = "open"
    /\ sock[k].sess = None
    /\ ~sock[k].told
    /\ sock' = [sock EXCEPT ![k] = [@ EXCEPT !.told = TRUE]]
    /\ sessionId' = None
    /\ configId' = None
    /\ attempt' = 0
    /\ status' = "error"
    /\ endReplay
    /\ UNCHANGED messageFrame

\* 'message' with any other error.
ReceiveError(k) ==
    /\ sock[k].phase = "open"
    /\ status' = "error"
    /\ endReplay
    /\ UNCHANGED <<messageFrame, sessionId, configId, attempt, sock>>

\* 'error': the driver counts on 'close' or the connect callback to follow.
SocketError(k) ==
    /\ Alive(k)
    /\ status' = "error"
    /\ endReplay
    /\ UNCHANGED <<messageFrame, sessionId, configId, attempt, sock>>

\* Mutant: 'close' leaves the heartbeat running.
SocketCloseKeepsHeartbeat(k) ==
    /\ Alive(k)
    /\ sock' = [sock EXCEPT ![k] = FreeSocket]
    /\ connected' = FALSE
    /\ endReplayAndDiscard
    /\ status' = IF manualStop THEN "closed" ELSE "reconnecting"
    /\ scheduleReconnect
    /\ UNCHANGED <<ws, heartbeatTimer, manualStop, sessionId, configId, started, live, used>>


\* 'close'.
SocketClose(k) ==
    /\ Alive(k)
    /\ sock' = [sock EXCEPT ![k] = FreeSocket]
    /\ connected' = FALSE
    /\ heartbeatTimer' = FALSE
    /\ endReplayAndDiscard
    /\ status' = IF manualStop THEN "closed" ELSE "reconnecting"
    /\ scheduleReconnect
    /\ UNCHANGED <<ws, manualStop, sessionId, configId, started, live, used>>

\* Mutant: a failed connect is reported and nothing else.
ConnectFailsGivesUp(k) ==
    /\ sock[k].phase = "connecting"
    /\ \/ sock' = [sock EXCEPT ![k] = FreeSocket]
       \/ ~Orderly /\ sock' = [sock EXCEPT ![k].phase = "failed"]
    /\ status' = "error"
    /\ upcall' = NoCall
    /\ UNCHANGED <<ws, connected, manualStop, reconnectTimer, attempt, heartbeatTimer, sessionId, configId,
                   pendingFrames, flushTimer, replaying, quietTimer, guardTimer,
                   started, live, used>>

\* The connect callback reports an error; outside an orderly run the socket may
\* still emit 'error' or 'close' afterwards.
ConnectFails(k) ==
    /\ sock[k].phase = "connecting"
    /\ \/ sock' = [sock EXCEPT ![k] = FreeSocket]
       \/ ~Orderly /\ sock' = [sock EXCEPT ![k].phase = "failed"]
    /\ status' = "error"
    /\ scheduleReconnect
    /\ upcall' = NoCall
    /\ UNCHANGED <<ws, connected, manualStop, heartbeatTimer, sessionId, configId,
                   pendingFrames, flushTimer, replaying, quietTimer, guardTimer,
                   started, live, used>>

\* The server loses a PTY session.
SessionDies(s) ==
    /\ s \in live
    /\ live' = live \ {s}
    /\ upcall' = NoCall
    /\ UNCHANGED <<ws, connected, manualStop, reconnectTimer, heartbeatTimer,
                   sessionId, configId, pendingFrames, flushTimer, replaying,
                   quietTimer, guardTimer, attempt, status, started, sock, used>>

-----------------------------------------------------------------------------

SocketEvent(k) ==
    \/ SocketOpen(k)
    \/ ReceiveFrame(k)
    \/ ReceiveSession(k)
    \/ ReceiveSessionLost(k)
    \/ ReceiveError(k)
    \/ SocketError(k)
    \/ SocketClose(k)
    \/ ConnectFails(k)

Next ==
    \/ Start
    \/ OnForeground
    \/ ReconnectNow
    \/ Stop
    \/ ReconnectFires
    \/ FlushFires
    \/ QuietFires
    \/ GuardFires
    \/ \E k \in Sockets : SocketEvent(k)
    \/ \E s \in SessionIds : SessionDies(s)

\* setTimeout fires.  The quiet timer is left out: frames can re-arm it for ever.
\* A failed socket reports its close, which only frees its slot for connect().
Fairness ==
    /\ WF_vars(ReconnectFires)
    /\ WF_vars(FlushFires)
    /\ WF_vars(GuardFires)
    /\ \A k \in Sockets : WF_vars(sock[k].phase = "failed" /\ SocketClose(k))

Safety == Init /\ [][Next]_vars
Spec == Safety /\ Fairness
-----------------------------------------------------------------------------
(* Properties. *)

\* Whatever mix of sockets reported, a reconnect and the user's button included,
\* the heartbeat interval runs exactly while the driver believes it is
\* connected: it is neither leaked by a close nor missing after an open.
HeartbeatTracksConnection == heartbeatTimer = connected

\* The loading overlay can always be taken down: while a replay is announced
\* both the quiet timer and the guard timer are armed, and never otherwise, so
\* no stale timer can end a later replay early.
ReplayHasBothTimers == (quietTimer = replaying) /\ (guardTimer = replaying)

\* Output is never stranded in the batch, and no flush timer outlives its batch:
\* pendingFrames is non-empty exactly while the flush timer is armed, and it
\* stays under the threshold.
BatchHasFlushTimer ==
    /\ flushTimer <=> pendingFrames # <<>>
    /\ Len(pendingFrames) < FlushThreshold

\* A stopped driver never has a reconnect pending, whichever sockets close or
\* fail after stop().
StopCancelsReconnect == manualStop => ~reconnectTimer

\* Overlapping sockets, timers and the owner, in whatever order their events
\* come, leave no timer that outlives its purpose and no purpose without timer.
TimersMatchState ==
    /\ HeartbeatTracksConnection
    /\ ReplayHasBothTimers
    /\ BatchHasFlushTimer
    /\ StopCancelsReconnect

\* The driver believes it is connected, and the tab shows it as connected, only
\* while some socket really is open.
ConnectedHasOpenSocket ==
    connected \/ status = "connected" => \E k \in Sockets : sock[k].phase = "open"

\* A started driver is never stranded: it has a reconnect pending, or a socket
\* whose open, close or failure is still to come.
NeverStranded ==
    started /\ ~manualStop => reconnectTimer \/ \E k \in Sockets : Alive(k)

\* What the driver believes of its connection is true of some socket, and it
\* always has something left to wait for: late events of a replaced socket and
\* failures reported twice or without a close included.
SocketsMatchState == ConnectedHasOpenSocket /\ NeverStranded

\* In an orderly run, until it is stopped, the socket that write() and resize()
\* use is the open one whenever the driver believes it is connected, and no other
\* socket is alive.
CurrentSocketIsOpen ==
    connected /\ ~manualStop => /\ ws # None
                 /\ sock[ws].phase = "open"
                 /\ \A k \in Sockets \ {ws} : ~Alive(k)

\* The session the next URL asks for.
KnownSession == IF sessionId # None THEN sessionId ELSE configId

\* In an orderly run a reconnect never replaces a live PTY: the server makes a
\* fresh session only when the one the driver knows is dead, or it knows none.
LivePtyIsKept == [][used' # used => KnownSession \notin live]_vars

\* After stop() no socket is ever opened, by no timer and by no late event.
StopIsFinal ==
    [][manualStop => /\ manualStop'
                     /\ \A k \in Sockets : Alive(k)' => Alive(k)]_vars

\* The overlay never stays up: a replay that stalls is ended by the guard timer.
ReplayEnds == replaying ~> ~replaying

\* A driver that lost its connection tries again, until it is stopped.
Retries == reconnectTimer ~> manualStop \/ (\E k \in Sockets : sock[k].phase = "connecting")

\* No wait is for ever: a replay that never goes quiet, and a reconnect that is due.
WaitsEnd == ReplayEnds /\ Retries
=============================================================================
