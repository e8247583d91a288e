----------------------- MODULE TerminalSessionProofs -----------------------
(***************************************************************************)
(* The safety of the driver; that the session uses it as it is specified,  *)
(* and that what a tab shows belongs to one session: for any number of     *)
(* overlapping sockets and of sessions.                                    *)
(***************************************************************************)
EXTENDS TerminalSession, FiniteSetTheorems, TLAPS

-----------------------------------------------------------------------------
(* The driver. *)

\* The inductive invariant.
DriverInv ==
    /\ TypeOK
    /\ HeartbeatTracksConnection
    /\ ReplayHasBothTimers
    /\ BatchHasFlushTimer
    /\ StopCancelsReconnect
    /\ ConnectedHasOpenSocket
    /\ NeverStranded

-----------------------------------------------------------------------------
(* Type correctness. *)

\* What the handlers build is of the declared types.
LEMMA SocketTypes ==
    /\ FreeSocket \in Socket
    /\ \A r \in SessionOrNone :
           [phase |-> "connecting", req |-> r, sess |-> None, told |-> FALSE] \in Socket
BY DEF FreeSocket, Socket, Phases, SessionOrNone

LEMMA SocketUpdates ==
    \A r \in Socket : /\ [r EXCEPT !.told = TRUE] \in Socket
                      /\ \A s \in SessionOrNone :
                             [r EXCEPT !.phase = "open", !.sess = s] \in Socket
BY DEF Socket, Phases

LEMMA CallTypes ==
    /\ NoCall \in Upcalls
    /\ \A f \in Seq(SessionIds) : Call(f, "none", FALSE) \in Upcalls
    /\ \A f \in Seq(SessionIds) : Call(f, "end", FALSE) \in Upcalls
    /\ Call(<<>>, "begin", FALSE) \in Upcalls
    /\ \A b \in BOOLEAN : Call(<<>>, "none", b) \in Upcalls
BY DEF Call, Upcalls, NoCall

LEMMA EmptySeq == <<>> \in Seq(SessionIds)
OBVIOUS

LEMMA EndReplayFrames ==
    ASSUME FramesOK, endReplay \/ endReplayAndDiscard
    PROVE  FramesOK'
<1>1. pendingFrames' = <<>> \/ pendingFrames' = pendingFrames
  BY DEF endReplay, endReplayAndDiscard, clearPending
<1>2. upcall' = NoCall \/ upcall' = Call(pendingFrames, "end", FALSE)
  BY DEF endReplay, endReplayAndDiscard
<1>3. QED
  BY <1>1, <1>2, CallTypes, EmptySeq DEF FramesOK

\* Every handler keeps the flags and timers Boolean.
LEMMA FlagsPreserved == FlagsOK /\ [Next]_vars => FlagsOK'
<1> SUFFICES ASSUME FlagsOK, [Next]_vars PROVE FlagsOK'
  OBVIOUS
<1> USE DEF FlagsOK
<1>1. CASE Start
  BY <1>1 DEF Start, start, connectFrame, connect, clearPending
<1>2. CASE OnForeground
  BY <1>2 DEF OnForeground, connectFrame, connect, clearPending
<1>3. CASE ReconnectNow
  BY <1>3 DEF ReconnectNow, reconnectNow, connectFrame, connect, clearPending
<1>4. CASE ReconnectFires
  BY <1>4 DEF ReconnectFires, connectFrame, connect, clearPending
<1>5. CASE Stop
  BY <1>5 DEF Stop, endReplayAndDiscard, stopReplay, clearPending
<1>6. CASE FlushFires
  BY <1>6 DEF FlushFires, timerFrame, clearPending
<1>7. CASE QuietFires
  BY <1>7 DEF QuietFires, timerFrame, endReplay, stopReplay, clearPending
<1>8. CASE GuardFires
  BY <1>8 DEF GuardFires, timerFrame, endReplay, stopReplay, clearPending
<1>9. ASSUME NEW k \in Sockets, SocketEvent(k) PROVE FlagsOK'
  <2>1. CASE SocketOpen(k)
    BY <2>1 DEF SocketOpen
  <2>2. CASE ReceiveFrame(k)
    BY <2>2 DEF ReceiveFrame, messageFrame, clearPending
  <2>3. CASE ReceiveSession(k)
    BY <2>3 DEF ReceiveSession, messageFrame
  <2>4. CASE ReceiveSessionLost(k)
    BY <2>4 DEF ReceiveSessionLost, messageFrame, endReplay, stopReplay, clearPending
  <2>5. CASE ReceiveError(k)
    BY <2>5 DEF ReceiveError, messageFrame, endReplay, stopReplay, clearPending
  <2>6. CASE SocketError(k)
    BY <2>6 DEF SocketError, messageFrame, endReplay, stopReplay, clearPending
  <2>7. CASE SocketClose(k)
    BY <2>7 DEF SocketClose, endReplayAndDiscard, scheduleReconnect, stopReplay, clearPending
  <2>8. CASE ConnectFails(k)
    BY <2>8 DEF ConnectFails, scheduleReconnect
  <2>9. QED
    BY <1>9, <2>1, <2>2, <2>3, <2>4, <2>5, <2>6, <2>7, <2>8 DEF SocketEvent
<1>10. ASSUME NEW s \in SessionIds, SessionDies(s) PROVE FlagsOK'
  BY <1>10 DEF SessionDies
<1>11. CASE UNCHANGED vars
  BY <1>11 DEF vars, driverVars
<1>12. QED
  BY <1>1, <1>2, <1>3, <1>4, <1>5, <1>6, <1>7, <1>8, <1>9, <1>10, <1>11 DEF Next

\* The backoff never counts past its cap.
LEMMA BackoffPreserved == BackoffOK /\ [Next]_vars => BackoffOK'
<1> SUFFICES ASSUME BackoffOK, [Next]_vars PROVE BackoffOK'
  OBVIOUS
<1> USE ConstantsAssumption DEF BackoffOK, Statuses
<1>1. CASE Start
  BY <1>1 DEF Start, start, connectFrame, connect, clearPending
<1>2. CASE OnForeground
  BY <1>2 DEF OnForeground, connectFrame, connect, clearPending
<1>3. CASE ReconnectNow
  BY <1>3 DEF ReconnectNow, reconnectNow, connectFrame, connect, clearPending
<1>4. CASE ReconnectFires
  BY <1>4 DEF ReconnectFires, connectFrame, connect, clearPending
<1>5. CASE Stop
  BY <1>5 DEF Stop, endReplayAndDiscard, stopReplay, clearPending
<1>6. CASE FlushFires
  BY <1>6 DEF FlushFires, timerFrame, clearPending
<1>7. CASE QuietFires
  BY <1>7 DEF QuietFires, timerFrame, endReplay, stopReplay, clearPending
<1>8. CASE GuardFires
  BY <1>8 DEF GuardFires, timerFrame, endReplay, stopReplay, clearPending
<1>9. ASSUME NEW k \in Sockets, SocketEvent(k) PROVE BackoffOK'
  <2>1. CASE SocketOpen(k)
    BY <2>1 DEF SocketOpen
  <2>2. CASE ReceiveFrame(k)
    BY <2>2 DEF ReceiveFrame, messageFrame, clearPending
  <2>3. CASE ReceiveSession(k)
    BY <2>3 DEF ReceiveSession, messageFrame
  <2>4. CASE ReceiveSessionLost(k)
    BY <2>4 DEF ReceiveSessionLost, messageFrame, endReplay, stopReplay, clearPending
  <2>5. CASE ReceiveError(k)
    BY <2>5 DEF ReceiveError, messageFrame, endReplay, stopReplay, clearPending
  <2>6. CASE SocketError(k)
    BY <2>6 DEF SocketError, messageFrame, endReplay, stopReplay, clearPending
  <2>7. CASE SocketClose(k)
    BY <2>7 DEF SocketClose, endReplayAndDiscard, scheduleReconnect, stopReplay, clearPending
  <2>8. CASE ConnectFails(k)
    BY <2>8 DEF ConnectFails, scheduleReconnect
  <2>9. QED
    BY <1>9, <2>1, <2>2, <2>3, <2>4, <2>5, <2>6, <2>7, <2>8 DEF SocketEvent
<1>10. ASSUME NEW s \in SessionIds, SessionDies(s) PROVE BackoffOK'
  BY <1>10 DEF SessionDies
<1>11. CASE UNCHANGED vars
  BY <1>11 DEF vars, driverVars
<1>12. QED
  BY <1>1, <1>2, <1>3, <1>4, <1>5, <1>6, <1>7, <1>8, <1>9, <1>10, <1>11 DEF Next

\* Every handler keeps the sockets and the session ids in their types.
LEMMA SocketsPreserved == SocketsOK /\ [Next]_vars => SocketsOK'
<1> SUFFICES ASSUME SocketsOK, [Next]_vars PROVE SocketsOK'
  OBVIOUS
<1> USE ConstantsAssumption, SocketTypes DEF SocketsOK, SessionOrNone
<1>1. CASE Start
  BY <1>1 DEF Start, start, connectFrame, connect, clearPending
<1>2. CASE OnForeground
  BY <1>2 DEF OnForeground, connectFrame, connect, clearPending
<1>3. CASE ReconnectNow
  BY <1>3 DEF ReconnectNow, reconnectNow, connectFrame, connect, clearPending
<1>4. CASE ReconnectFires
  BY <1>4 DEF ReconnectFires, connectFrame, connect, clearPending
<1>5. CASE Stop
  BY <1>5 DEF Stop, endReplayAndDiscard, stopReplay, clearPending
<1>6. CASE FlushFires
  BY <1>6 DEF FlushFires, timerFrame, clearPending
<1>7. CASE QuietFires
  BY <1>7 DEF QuietFires, timerFrame, endReplay, stopReplay, clearPending
<1>8. CASE GuardFires
  BY <1>8 DEF GuardFires, timerFrame, endReplay, stopReplay, clearPending
<1>9. ASSUME NEW k \in Sockets, SocketEvent(k) PROVE SocketsOK'
  <2>1. CASE SocketOpen(k)
    <3>1. PICK s \in SessionOrNone :
               /\ Attach(sock[k].req, s)
               /\ sock' = [sock EXCEPT ![k] = [@ EXCEPT !.phase = "open", !.sess = s]]
      BY <2>1 DEF SocketOpen
    <3>2. live' \subseteq SessionIds /\ used' \subseteq SessionIds
      BY <3>1 DEF Attach
    <3>3. sock' \in [Sockets -> Socket]
      BY <3>1, SocketUpdates
    <3>4. QED
      BY <2>1, <3>2, <3>3 DEF SocketOpen
  <2>2. CASE ReceiveFrame(k)
    BY <2>2 DEF ReceiveFrame, messageFrame, clearPending
  <2>3. CASE ReceiveSession(k)
    <3>1. sock' \in [Sockets -> Socket]
      BY <2>3, SocketUpdates DEF ReceiveSession
    <3>2. sock[k].sess \in SessionOrNone
      BY DEF Socket
    <3>3. QED
      BY <2>3, <3>1, <3>2 DEF ReceiveSession, messageFrame
  <2>4. CASE ReceiveSessionLost(k)
    <3>1. sock' \in [Sockets -> Socket]
      BY <2>4, SocketUpdates DEF ReceiveSessionLost
    <3>2. QED
      BY <2>4, <3>1 DEF ReceiveSessionLost, messageFrame
  <2>5. CASE ReceiveError(k)
    BY <2>5 DEF ReceiveError, messageFrame, endReplay, stopReplay, clearPending
  <2>6. CASE SocketError(k)
    BY <2>6 DEF SocketError, messageFrame, endReplay, stopReplay, clearPending
  <2>7. CASE SocketClose(k)
    BY <2>7 DEF SocketClose, endReplayAndDiscard, scheduleReconnect, stopReplay, clearPending
  <2>8. CASE ConnectFails(k)
    BY <2>8 DEF ConnectFails, Socket, Phases
  <2>9. QED
    BY <1>9, <2>1, <2>2, <2>3, <2>4, <2>5, <2>6, <2>7, <2>8 DEF SocketEvent
<1>10. ASSUME NEW s \in SessionIds, SessionDies(s) PROVE SocketsOK'
  BY <1>10 DEF SessionDies
<1>11. CASE UNCHANGED vars
  BY <1>11 DEF vars, driverVars
<1>12. QED
  BY <1>1, <1>2, <1>3, <1>4, <1>5, <1>6, <1>7, <1>8, <1>9, <1>10, <1>11 DEF Next

\* The batch and the callbacks carry only frames of sessions.
LEMMA FramesPreserved == FramesOK /\ SocketsOK /\ [Next]_vars => FramesOK'
<1> SUFFICES ASSUME FramesOK, SocketsOK, [Next]_vars PROVE FramesOK'
  OBVIOUS
<1> USE CallTypes, EmptySeq
<1>1. CASE Start
  BY <1>1 DEF FramesOK, Start, start, connect, clearPending
<1>2. CASE OnForeground
  BY <1>2 DEF FramesOK, OnForeground, connect, clearPending
<1>3. CASE ReconnectNow
  BY <1>3 DEF FramesOK, ReconnectNow, reconnectNow, connect, clearPending
<1>4. CASE ReconnectFires
  BY <1>4 DEF FramesOK, ReconnectFires, connect, clearPending
<1>5. CASE Stop
  BY <1>5, EndReplayFrames DEF Stop
<1>6. CASE FlushFires
  <2>1. pendingFrames' = <<>> /\ upcall' = Call(pendingFrames, "none", FALSE)
    BY <1>6 DEF FlushFires, clearPending
  <2>2. QED
    BY <2>1 DEF FramesOK
<1>7. CASE QuietFires
  BY <1>7, EndReplayFrames DEF QuietFires
<1>8. CASE GuardFires
  BY <1>8, EndReplayFrames DEF GuardFires
<1>9. ASSUME NEW k \in Sockets, SocketEvent(k) PROVE FramesOK'
  <2>1. CASE SocketOpen(k)
    BY <2>1 DEF FramesOK, SocketOpen
  <2>2. CASE ReceiveFrame(k)
    <3>1. sock[k].sess \in SessionIds
      BY <2>2 DEF ReceiveFrame, SocketsOK, Socket, SessionOrNone
    <3>2. Append(pendingFrames, sock[k].sess) \in Seq(SessionIds)
      BY <3>1 DEF FramesOK
    <3>3. \/ pendingFrames' = <<>>
          \/ pendingFrames' = Append(pendingFrames, sock[k].sess)
      BY <2>2 DEF ReceiveFrame, clearPending
    <3>4. upcall' \in Upcalls
      BY <2>2, <3>2 DEF ReceiveFrame
    <3>5. QED
      BY <3>2, <3>3, <3>4 DEF FramesOK
  <2>3. CASE ReceiveSession(k)
    <3>1. (sessionId # None /\ sessionId # sock[k].sess) \in BOOLEAN
      OBVIOUS
    <3>2. QED
      BY <2>3, <3>1 DEF FramesOK, ReceiveSession
  <2>4. CASE ReceiveSessionLost(k)
    BY <2>4, EndReplayFrames DEF ReceiveSessionLost
  <2>5. CASE ReceiveError(k)
    BY <2>5, EndReplayFrames DEF ReceiveError
  <2>6. CASE SocketError(k)
    BY <2>6, EndReplayFrames DEF SocketError
  <2>7. CASE SocketClose(k)
    BY <2>7, EndReplayFrames DEF SocketClose
  <2>8. CASE ConnectFails(k)
    BY <2>8 DEF FramesOK, ConnectFails
  <2>9. QED
    BY <1>9, <2>1, <2>2, <2>3, <2>4, <2>5, <2>6, <2>7, <2>8 DEF SocketEvent
<1>10. ASSUME NEW s \in SessionIds, SessionDies(s) PROVE FramesOK'
  BY <1>10 DEF FramesOK, SessionDies
<1>11. CASE UNCHANGED vars
  BY <1>11 DEF FramesOK, vars, driverVars
<1>12. QED
  BY <1>1, <1>2, <1>3, <1>4, <1>5, <1>6, <1>7, <1>8, <1>9, <1>10, <1>11 DEF Next

LEMMA TypePreserved == TypeOK /\ [Next]_vars => TypeOK'
BY FlagsPreserved, BackoffPreserved, SocketsPreserved, FramesPreserved DEF TypeOK

-----------------------------------------------------------------------------
(* The other parts of the invariant. *)

\* The heartbeat and replay timers move with their flags; stop() leaves no reconnect.
LEMMA TimersPreserved == FlagsOK /\ HeartbeatTracksConnection /\ ReplayHasBothTimers /\ StopCancelsReconnect /\ [Next]_vars => (HeartbeatTracksConnection /\ ReplayHasBothTimers /\ StopCancelsReconnect)'
<1> SUFFICES ASSUME FlagsOK, HeartbeatTracksConnection, ReplayHasBothTimers, StopCancelsReconnect, [Next]_vars PROVE (HeartbeatTracksConnection /\ ReplayHasBothTimers /\ StopCancelsReconnect)'
  OBVIOUS
<1> USE DEF FlagsOK, HeartbeatTracksConnection, ReplayHasBothTimers, StopCancelsReconnect
<1>1. CASE Start
  BY <1>1 DEF Start, start, connectFrame, connect, clearPending
<1>2. CASE OnForeground
  BY <1>2 DEF OnForeground, connectFrame, connect, clearPending
<1>3. CASE ReconnectNow
  BY <1>3 DEF ReconnectNow, reconnectNow, connectFrame, connect, clearPending
<1>4. CASE ReconnectFires
  BY <1>4 DEF ReconnectFires, connectFrame, connect, clearPending
<1>5. CASE Stop
  BY <1>5 DEF Stop, endReplayAndDiscard, stopReplay, clearPending
<1>6. CASE FlushFires
  BY <1>6 DEF FlushFires, timerFrame, clearPending
<1>7. CASE QuietFires
  BY <1>7 DEF QuietFires, timerFrame, endReplay, stopReplay, clearPending
<1>8. CASE GuardFires
  BY <1>8 DEF GuardFires, timerFrame, endReplay, stopReplay, clearPending
<1>9. ASSUME NEW k \in Sockets, SocketEvent(k) PROVE (HeartbeatTracksConnection /\ ReplayHasBothTimers /\ StopCancelsReconnect)'
  <2>1. CASE SocketOpen(k)
    BY <2>1 DEF SocketOpen
  <2>2. CASE ReceiveFrame(k)
    BY <2>2 DEF ReceiveFrame, messageFrame, clearPending
  <2>3. CASE ReceiveSession(k)
    BY <2>3 DEF ReceiveSession, messageFrame
  <2>4. CASE ReceiveSessionLost(k)
    BY <2>4 DEF ReceiveSessionLost, messageFrame, endReplay, stopReplay, clearPending
  <2>5. CASE ReceiveError(k)
    BY <2>5 DEF ReceiveError, messageFrame, endReplay, stopReplay, clearPending
  <2>6. CASE SocketError(k)
    BY <2>6 DEF SocketError, messageFrame, endReplay, stopReplay, clearPending
  <2>7. CASE SocketClose(k)
    BY <2>7 DEF SocketClose, endReplayAndDiscard, scheduleReconnect, stopReplay, clearPending
  <2>8. CASE ConnectFails(k)
    BY <2>8 DEF ConnectFails, scheduleReconnect
  <2>9. QED
    BY <1>9, <2>1, <2>2, <2>3, <2>4, <2>5, <2>6, <2>7, <2>8 DEF SocketEvent
<1>10. ASSUME NEW s \in SessionIds, SessionDies(s) PROVE (HeartbeatTracksConnection /\ ReplayHasBothTimers /\ StopCancelsReconnect)'
  BY <1>10 DEF SessionDies
<1>11. CASE UNCHANGED vars
  BY <1>11 DEF vars, driverVars
<1>12. QED
  BY <1>1, <1>2, <1>3, <1>4, <1>5, <1>6, <1>7, <1>8, <1>9, <1>10, <1>11 DEF Next

LEMMA EndReplayBatch ==
    ASSUME FramesOK, BatchHasFlushTimer, endReplay \/ endReplayAndDiscard
    PROVE  BatchHasFlushTimer'
<1>1. \/ pendingFrames' = <<>> /\ flushTimer' = FALSE
      \/ pendingFrames' = pendingFrames /\ flushTimer' = flushTimer
  BY DEF endReplay, endReplayAndDiscard, clearPending
<1>2. QED
  BY <1>1, ConstantsAssumption DEF BatchHasFlushTimer

\* The flush timer moves with the batch.
LEMMA BatchPreserved == FramesOK /\ SocketsOK /\ BatchHasFlushTimer /\ [Next]_vars => BatchHasFlushTimer'
<1> SUFFICES ASSUME FramesOK, SocketsOK, BatchHasFlushTimer, [Next]_vars PROVE BatchHasFlushTimer'
  OBVIOUS
<1> USE ConstantsAssumption DEF BatchHasFlushTimer
<1>1. CASE Start
  BY <1>1 DEF Start, start, connectFrame, connect, clearPending
<1>2. CASE OnForeground
  BY <1>2 DEF OnForeground, connectFrame, connect, clearPending
<1>3. CASE ReconnectNow
  BY <1>3 DEF ReconnectNow, reconnectNow, connectFrame, connect, clearPending
<1>4. CASE ReconnectFires
  BY <1>4 DEF ReconnectFires, connectFrame, connect, clearPending
<1>5. CASE Stop
  BY <1>5, EndReplayBatch DEF Stop
<1>6. CASE FlushFires
  BY <1>6 DEF FlushFires, timerFrame, clearPending
<1>7. CASE QuietFires
  BY <1>7, EndReplayBatch DEF QuietFires
<1>8. CASE GuardFires
  BY <1>8, EndReplayBatch DEF GuardFires
<1>9. ASSUME NEW k \in Sockets, SocketEvent(k) PROVE BatchHasFlushTimer'
  <2>1. CASE SocketOpen(k)
    BY <2>1 DEF SocketOpen
  <2>2. CASE ReceiveFrame(k)
    <3> DEFINE frames == Append(pendingFrames, sock[k].sess)
    <3>1. sock[k].sess \in SessionIds
      BY <2>2 DEF ReceiveFrame, SocketsOK, Socket, SessionOrNone
    <3>2. frames \in Seq(SessionIds) /\ frames # <<>> /\ Len(frames) \in Nat
      BY <3>1 DEF FramesOK
    <3>3. \/ pendingFrames' = <<>> /\ flushTimer' = FALSE
          \/ pendingFrames' = frames /\ ~(Len(frames) >= FlushThreshold) /\ flushTimer' = TRUE
      BY <2>2 DEF ReceiveFrame, clearPending
    <3>4. QED
      BY <3>2, <3>3, ConstantsAssumption DEF BatchHasFlushTimer
  <2>3. CASE ReceiveSession(k)
    BY <2>3 DEF ReceiveSession, messageFrame
  <2>4. CASE ReceiveSessionLost(k)
    BY <2>4, EndReplayBatch DEF ReceiveSessionLost
  <2>5. CASE ReceiveError(k)
    BY <2>5, EndReplayBatch DEF ReceiveError
  <2>6. CASE SocketError(k)
    BY <2>6, EndReplayBatch DEF SocketError
  <2>7. CASE SocketClose(k)
    BY <2>7, EndReplayBatch DEF SocketClose
  <2>8. CASE ConnectFails(k)
    BY <2>8 DEF ConnectFails, scheduleReconnect
  <2>9. QED
    BY <1>9, <2>1, <2>2, <2>3, <2>4, <2>5, <2>6, <2>7, <2>8 DEF SocketEvent
<1>10. ASSUME NEW s \in SessionIds, SessionDies(s) PROVE BatchHasFlushTimer'
  BY <1>10 DEF SessionDies
<1>11. CASE UNCHANGED vars
  BY <1>11 DEF vars, driverVars
<1>12. QED
  BY <1>1, <1>2, <1>3, <1>4, <1>5, <1>6, <1>7, <1>8, <1>9, <1>10, <1>11 DEF Next

LEMMA ConnectKeepsOthers ==
    ASSUME SocketsOK, connect
    PROVE  /\ status' = "connecting"
           /\ \A j \in Sockets : sock[j].phase = "open" => sock'[j].phase = "open"
<1>1. PICK k \in Sockets :
          /\ ~Alive(k)
          /\ sock' = [sock EXCEPT ![k] = [phase |-> "connecting", req |-> configId,
                                          sess |-> None, told |-> FALSE]]
  BY DEF connect
<1>2. QED
  BY <1>1 DEF SocketsOK, Alive, connect

\* Only a close takes an open socket away, and it clears the flag.
LEMMA ConnectionPreserved == SocketsOK /\ ConnectedHasOpenSocket /\ [Next]_vars => ConnectedHasOpenSocket'
<1> SUFFICES ASSUME SocketsOK, ConnectedHasOpenSocket, [Next]_vars PROVE ConnectedHasOpenSocket'
  OBVIOUS
<1> USE DEF SocketsOK, ConnectedHasOpenSocket
<1>1. CASE Start
  BY <1>1, ConnectKeepsOthers DEF Start, start, connectFrame
<1>2. CASE OnForeground
  BY <1>2 DEF OnForeground, connectFrame, connect, clearPending
<1>3. CASE ReconnectNow
  BY <1>3 DEF ReconnectNow, reconnectNow, connectFrame, connect, clearPending
<1>4. CASE ReconnectFires
  BY <1>4, ConnectKeepsOthers DEF ReconnectFires, connectFrame
<1>5. CASE Stop
  BY <1>5 DEF Stop, endReplayAndDiscard, stopReplay, clearPending
<1>6. CASE FlushFires
  BY <1>6 DEF FlushFires, timerFrame, clearPending
<1>7. CASE QuietFires
  BY <1>7 DEF QuietFires, timerFrame
<1>8. CASE GuardFires
  BY <1>8 DEF GuardFires, timerFrame
<1>9. ASSUME NEW k \in Sockets, SocketEvent(k) PROVE ConnectedHasOpenSocket'
  <2>1. CASE SocketOpen(k)
    BY <2>1 DEF SocketOpen
  <2>2. CASE ReceiveFrame(k)
    BY <2>2 DEF ReceiveFrame, messageFrame
  <2>3. CASE ReceiveSession(k)
    BY <2>3 DEF ReceiveSession, messageFrame
  <2>4. CASE ReceiveSessionLost(k)
    <3>1. \A j \in Sockets : sock'[j].phase = sock[j].phase
      BY <2>4 DEF ReceiveSessionLost, Socket
    <3>2. QED
      BY <2>4, <3>1 DEF ReceiveSessionLost, messageFrame
  <2>5. CASE ReceiveError(k)
    BY <2>5 DEF ReceiveError, messageFrame
  <2>6. CASE SocketError(k)
    BY <2>6 DEF SocketError, messageFrame
  <2>7. CASE SocketClose(k)
    BY <2>7 DEF SocketClose, endReplayAndDiscard, scheduleReconnect, stopReplay, clearPending
  <2>8. CASE ConnectFails(k)
    BY <2>8 DEF ConnectFails, scheduleReconnect
  <2>9. QED
    BY <1>9, <2>1, <2>2, <2>3, <2>4, <2>5, <2>6, <2>7, <2>8 DEF SocketEvent
<1>10. ASSUME NEW s \in SessionIds, SessionDies(s) PROVE ConnectedHasOpenSocket'
  BY <1>10 DEF SessionDies
<1>11. CASE UNCHANGED vars
  BY <1>11 DEF vars, driverVars
<1>12. QED
  BY <1>1, <1>2, <1>3, <1>4, <1>5, <1>6, <1>7, <1>8, <1>9, <1>10, <1>11 DEF Next

LEMMA ConnectMakesAlive ==
    ASSUME SocketsOK, connect PROVE \E k \in Sockets : Alive(k)'
<1>1. PICK k \in Sockets :
          sock' = [sock EXCEPT ![k] = [phase |-> "connecting", req |-> configId,
                                       sess |-> None, told |-> FALSE]]
  BY DEF connect
<1>2. QED
  BY <1>1 DEF SocketsOK, Alive

\* Every event that ends a socket arms a reconnect.
LEMMA StrandedPreserved == SocketsOK /\ FlagsOK /\ NeverStranded /\ [Next]_vars => NeverStranded'
<1> SUFFICES ASSUME SocketsOK, FlagsOK, NeverStranded, [Next]_vars PROVE NeverStranded'
  OBVIOUS
<1> USE DEF SocketsOK, FlagsOK, NeverStranded, Alive
<1>1. CASE Start
  BY <1>1, ConnectMakesAlive DEF Start, start
<1>2. CASE OnForeground
  BY <1>2, ConnectMakesAlive DEF OnForeground
<1>3. CASE ReconnectNow
  BY <1>3, ConnectMakesAlive DEF ReconnectNow, reconnectNow
<1>4. CASE ReconnectFires
  BY <1>4, ConnectMakesAlive DEF ReconnectFires
<1>5. CASE Stop
  BY <1>5 DEF Stop, endReplayAndDiscard, stopReplay, clearPending
<1>6. CASE FlushFires
  BY <1>6 DEF FlushFires, timerFrame, clearPending
<1>7. CASE QuietFires
  BY <1>7 DEF QuietFires, timerFrame
<1>8. CASE GuardFires
  BY <1>8 DEF GuardFires, timerFrame
<1>9. ASSUME NEW k \in Sockets, SocketEvent(k) PROVE NeverStranded'
  <2>1. CASE SocketOpen(k)
    BY <2>1 DEF SocketOpen
  <2>2. CASE ReceiveFrame(k)
    BY <2>2 DEF ReceiveFrame, messageFrame
  <2>3. CASE ReceiveSession(k)
    BY <2>3 DEF ReceiveSession, messageFrame
  <2>4. CASE ReceiveSessionLost(k)
    <3>1. \A j \in Sockets : sock'[j].phase = sock[j].phase
      BY <2>4 DEF ReceiveSessionLost, Socket
    <3>2. QED
      BY <2>4, <3>1 DEF ReceiveSessionLost, messageFrame
  <2>5. CASE ReceiveError(k)
    BY <2>5 DEF ReceiveError, messageFrame
  <2>6. CASE SocketError(k)
    BY <2>6 DEF SocketError, messageFrame
  <2>7. CASE SocketClose(k)
    BY <2>7 DEF SocketClose, endReplayAndDiscard, scheduleReconnect, stopReplay, clearPending
  <2>8. CASE ConnectFails(k)
    BY <2>8 DEF ConnectFails, scheduleReconnect
  <2>9. QED
    BY <1>9, <2>1, <2>2, <2>3, <2>4, <2>5, <2>6, <2>7, <2>8 DEF SocketEvent
<1>10. ASSUME NEW s \in SessionIds, SessionDies(s) PROVE NeverStranded'
  BY <1>10 DEF SessionDies
<1>11. CASE UNCHANGED vars
  BY <1>11 DEF vars, driverVars
<1>12. QED
  BY <1>1, <1>2, <1>3, <1>4, <1>5, <1>6, <1>7, <1>8, <1>9, <1>10, <1>11 DEF Next

-----------------------------------------------------------------------------
(* The theorems. *)

LEMMA InitEstablishes == Init => DriverInv
<1> SUFFICES ASSUME Init PROVE DriverInv
  OBVIOUS
<1> USE ConstantsAssumption DEF Init
<1>1. FlagsOK
  BY DEF FlagsOK
<1>2. BackoffOK
  BY DEF BackoffOK, Statuses
<1>3. FramesOK
  BY CallTypes, EmptySeq DEF FramesOK
<1>4. SocketsOK
  BY SocketTypes DEF SocketsOK, SessionOrNone
<1>5. HeartbeatTracksConnection /\ ReplayHasBothTimers /\ StopCancelsReconnect
  BY DEF HeartbeatTracksConnection, ReplayHasBothTimers, StopCancelsReconnect
<1>6. BatchHasFlushTimer
  BY DEF BatchHasFlushTimer
<1>7. ConnectedHasOpenSocket /\ NeverStranded
  BY DEF ConnectedHasOpenSocket, NeverStranded
<1>8. QED
  BY <1>1, <1>2, <1>3, <1>4, <1>5, <1>6, <1>7 DEF DriverInv, TypeOK

\* The conjunction of the parts is inductive.
LEMMA DriverInductive == DriverInv /\ [Next]_vars => DriverInv'
BY TypePreserved, TimersPreserved, BatchPreserved, ConnectionPreserved, StrandedPreserved
   DEF DriverInv, TypeOK

LEMMA DriverInvariant == Safety => []DriverInv
BY InitEstablishes, DriverInductive, PTL DEF Safety

\* Every reachable state of the driver is well typed.
THEOREM TypeCorrect == Safety => []TypeOK
BY DriverInvariant, PTL DEF DriverInv

\* The heartbeat runs exactly while the driver believes it is connected.
THEOREM HeartbeatCorrect == Safety => []HeartbeatTracksConnection
BY DriverInvariant, PTL DEF DriverInv

\* Both replay timers are armed exactly during a replay.
THEOREM ReplayTimersCorrect == Safety => []ReplayHasBothTimers
BY DriverInvariant, PTL DEF DriverInv

\* A batch below the threshold waits exactly while its flush timer is armed.
THEOREM BatchCorrect == Safety => []BatchHasFlushTimer
BY DriverInvariant, PTL DEF DriverInv

\* No reconnect is pending on a stopped driver.
THEOREM StopCorrect == Safety => []StopCancelsReconnect
BY DriverInvariant, PTL DEF DriverInv

\* The driver believes it is connected only while a socket is open.
THEOREM ConnectionCorrect == Safety => []ConnectedHasOpenSocket
BY DriverInvariant, PTL DEF DriverInv

\* A started driver always has a reconnect or a socket to wait for.
THEOREM NotStranded == Safety => []NeverStranded
BY DriverInvariant, PTL DEF DriverInv

\* Heartbeat, replay timers, flush timer and reconnect match the driver's state
\* for any number of sockets and sessions.
THEOREM TimersCorrect == Safety => []TimersMatchState
BY HeartbeatCorrect, ReplayTimersCorrect, BatchCorrect, StopCorrect, PTL DEF TimersMatchState

\* The driver's belief about its connection is backed by a socket.
THEOREM SocketsCorrect == Safety => []SocketsMatchState
BY ConnectionCorrect, NotStranded, PTL DEF SocketsMatchState

LEMMA StoppedStep ==
    ASSUME TypeOK, [Next]_vars, manualStop
    PROVE  manualStop' /\ \A k \in Sockets : Alive(k)' => Alive(k)
<1> USE DEF TypeOK, SocketsOK, FlagsOK, Alive
<1>1. ~Start /\ ~OnForeground /\ ~ReconnectNow /\ ~ReconnectFires
  BY DEF Start, OnForeground, ReconnectNow, ReconnectFires
<1>2. CASE Stop \/ FlushFires \/ QuietFires \/ GuardFires \/ UNCHANGED vars
  BY <1>2 DEF Stop, FlushFires, QuietFires, GuardFires, timerFrame, vars, driverVars
<1>3. ASSUME NEW j \in Sockets, SocketEvent(j)
      PROVE  manualStop' /\ \A k \in Sockets : Alive(k)' => Alive(k)
  <2>1. manualStop' = manualStop
    BY <1>3 DEF SocketEvent, SocketOpen, ReceiveFrame, ReceiveSession, ReceiveSessionLost,
                ReceiveError, SocketError, SocketClose, ConnectFails, messageFrame
  <2>2. Alive(j) /\ \A k \in Sockets \ {j} : sock'[k] = sock[k]
    BY <1>3 DEF SocketEvent, SocketOpen, ReceiveFrame, ReceiveSession, ReceiveSessionLost,
                ReceiveError, SocketError, SocketClose, ConnectFails, messageFrame
  <2>3. QED
    BY <2>1, <2>2
<1>4. CASE \E s \in SessionIds : SessionDies(s)
  BY <1>4 DEF SessionDies
<1>5. QED
  BY <1>1, <1>2, <1>3, <1>4 DEF Next

\* After stop() the driver stays stopped and no socket is opened.
THEOREM StopFinal == Safety => StopIsFinal
<1>1. TypeOK /\ [Next]_vars
      => [manualStop => manualStop' /\ \A k \in Sockets : Alive(k)' => Alive(k)]_vars
  BY StoppedStep
<1>2. QED
  BY <1>1, TypeCorrect, PTL DEF Safety, StopIsFinal

-----------------------------------------------------------------------------
(* The session. *)

\* The owner's part: a driver is stopped only by a session that is stopped.
OwnerInv == manualStop => stopped

-----------------------------------------------------------------------------
(* The driver as the session uses it. *)

\* Of the driver's steps only Stop sets the flag.
LEMMA OnlyStopStops ==
    ASSUME Start \/ OnForeground \/ ReconnectNow \/ DriverStep \/ UNCHANGED vars
    PROVE  manualStop' => manualStop
<1>1. CASE Start \/ OnForeground \/ ReconnectNow \/ ReconnectFires
  BY <1>1 DEF Start, start, OnForeground, ReconnectNow, reconnectNow, ReconnectFires
<1>2. CASE FlushFires \/ QuietFires \/ GuardFires
  BY <1>2 DEF FlushFires, QuietFires, GuardFires, timerFrame
<1>3. ASSUME NEW k \in Sockets, SocketEvent(k)
      PROVE  manualStop' = manualStop
  BY <1>3 DEF SocketEvent, SocketOpen, ReceiveFrame, ReceiveSession, ReceiveSessionLost,
       ReceiveError, SocketError, SocketClose, ConnectFails, messageFrame
<1>4. CASE (\E s \in SessionIds : SessionDies(s)) \/ UNCHANGED vars
  BY <1>4 DEF SessionDies, vars, driverVars
<1>5. QED
  BY <1>1, <1>2, <1>3, <1>4 DEF DriverStep

\* Each step of a session is a step of its driver that it hears, or leaves both
\* the driver and what was heard as they are.
LEMMA SessionSteps ==
    ASSUME OwnerInv, [SessionNext]_sessionVars
    PROVE  (Next /\ Hear) \/ UNCHANGED <<vars, sessionWasReset, screen, mouse>>
<1> USE DEF OwnerInv
<1>1. CASE SessionStart \/ StartRetryFires
  BY <1>1 DEF SessionStart, StartRetryFires, startWhenSized, Next, Start
<1>2. CASE SessionStop
  BY <1>2 DEF SessionStop, Next
<1>3. CASE SessionOnForeground \/ SessionReconnectNow
  BY <1>3 DEF SessionOnForeground, SessionReconnectNow, Next, ReconnectNow
<1>4. CASE DriverStep /\ UNCHANGED lifecycle /\ Hear
  BY <1>4 DEF DriverStep, Next
<1>5. CASE SurfaceSized \/ UNCHANGED sessionVars
  BY <1>5 DEF SurfaceSized, sessionVars, termVars
<1>6. QED
  BY <1>1, <1>2, <1>3, <1>4, <1>5 DEF SessionNext

\* Stopping the driver is the session's own operation, and it is not undone.
LEMMA SessionOwner ==
    ASSUME OwnerInv, [SessionNext]_sessionVars
    PROVE  OwnerInv'
<1>1. CASE SessionStop
  BY <1>1 DEF SessionStop, OwnerInv
<1>2. CASE SessionStart \/ StartRetryFires
  <2>1. Start \/ UNCHANGED vars
    BY <1>2 DEF SessionStart, StartRetryFires, startWhenSized, OwnerInv, Start
  <2>2. ~stopped
    BY <1>2 DEF SessionStart, StartRetryFires, startWhenSized
  <2>3. QED
    BY <2>1, <2>2, OnlyStopStops DEF OwnerInv
<1>3. CASE \/ SessionOnForeground \/ SessionReconnectNow
           \/ DriverStep /\ UNCHANGED lifecycle /\ Hear
           \/ SurfaceSized \/ UNCHANGED sessionVars
  <2>1. stopped' = stopped
    BY <1>3 DEF SessionOnForeground, SessionReconnectNow, lifecycle, SurfaceSized,
         sessionVars, termVars
  <2>2. OnForeground \/ ReconnectNow \/ DriverStep \/ UNCHANGED vars
    BY <1>3 DEF SessionOnForeground, SessionReconnectNow, ReconnectNow, OwnerInv, SurfaceSized,
         sessionVars
  <2>3. QED
    BY <2>1, <2>2, OnlyStopStops DEF OwnerInv
<1>4. QED
  BY <1>1, <1>2, <1>3 DEF SessionNext

\* A session starts its driver once and never revives a stopped one: what it does
\* with the driver is allowed by the driver's own specification
\* (TerminalSession.startWhenSized(), stop(), reconnectNow()).
THEOREM SessionImplementsDriver == SessionSafety => ImplementsDriver
<1>1. SessionInit => Init /\ OwnerInv
  BY DEF SessionInit, Init, OwnerInv
<1>2. OwnerInv /\ [SessionNext]_sessionVars => OwnerInv' /\ [Next]_vars
  BY SessionSteps, SessionOwner
<1>3. QED
  BY <1>1, <1>2, PTL DEF SessionSafety, ImplementsDriver, Safety

-----------------------------------------------------------------------------
(* A tab whose sockets never overlap, against a server that replaces dead  *)
(* sessions and names a session before it sends the output of it.          *)

Tidy == Orderly /\ SessionFirst /\ "refuse" \notin DeadPolicy

\* One socket at a time, which is the driver's own until the driver is stopped.
OneSocket ==
    /\ \A j, k \in Sockets : Alive(j) /\ Alive(k) => j = k
    /\ \A k \in Sockets : Alive(k) => manualStop \/ ws = k

\* Every socket that named a session named the last one announced.
ToldSockets ==
    /\ \A k \in Sockets : sock[k].phase = "open" => sock[k].sess # None
    /\ \A k \in Sockets : sock[k].told => sock[k].phase = "open" /\ sock[k].sess = sessionId

\* The batch holds output of that session, received on such a socket.
BatchIsTold ==
    /\ \A i \in DOMAIN pendingFrames : pendingFrames[i] = sessionId
    /\ pendingFrames # <<>> => \E k \in Sockets : sock[k].told

TidyInv == OneSocket /\ ToldSockets /\ BatchIsTold

\* What a step of the driver makes its session hear.
HeardIsTold ==
    /\ \A i \in DOMAIN upcall'.output : upcall'.output[i] = sessionId'
    /\ upcall'.output # <<>> => sessionId' = sessionId
    /\ upcall'.reset \/ sessionId' = sessionId \/ sessionId = None

\* connect() opens the only socket, and forgets the batch.
LEMMA TidyConnect ==
    ASSUME Tidy, SocketsOK, TidyInv, connect, sessionId' = sessionId, upcall' = NoCall,
           manualStop' => manualStop
    PROVE  TidyInv' /\ HeardIsTold
<1>1. PICK k \in Sockets :
        /\ \A j \in Sockets : ~Alive(j)
        /\ sock' = [sock EXCEPT ![k] = [phase |-> "connecting", req |-> configId,
                                        sess |-> None, told |-> FALSE]]
        /\ ws' = k
  BY DEF connect, Tidy
<1>2. \A j \in Sockets : IF j = k THEN sock'[j].phase = "connecting" /\ ~sock'[j].told
                         ELSE sock'[j] = sock[j]
  BY <1>1 DEF SocketsOK
<1>3. pendingFrames' = <<>>
  BY DEF connect, clearPending
<1>4. OneSocket'
  BY <1>1, <1>2 DEF OneSocket, Alive
<1>5. ToldSockets'
  BY <1>1, <1>2 DEF TidyInv, ToldSockets
<1>6. BatchIsTold' /\ HeardIsTold
  BY <1>3 DEF BatchIsTold, HeardIsTold, NoCall, Call
<1>7. QED
  BY <1>4, <1>5, <1>6 DEF TidyInv

\* The end of a replay, and a flush, deliver the batch or leave it.
LEMMA TidyFlush ==
    ASSUME TidyInv, UNCHANGED <<ws, manualStop, sessionId, sock>>,
           endReplay \/ FlushFires
    PROVE  TidyInv' /\ HeardIsTold
<1>1. OneSocket' /\ ToldSockets'
  BY DEF TidyInv, OneSocket, ToldSockets, Alive
<1>2. pendingFrames' = <<>> \/ pendingFrames' = pendingFrames
  BY DEF endReplay, FlushFires, clearPending
<1>3. /\ upcall'.output = <<>> \/ upcall'.output = pendingFrames
      /\ upcall'.reset = FALSE
  BY DEF endReplay, FlushFires, NoCall, Call
<1>4. QED
  BY <1>1, <1>2, <1>3 DEF TidyInv, BatchIsTold, HeardIsTold

\* stop() and 'close' deliver the batch of a replay or drop it.
LEMMA TidyDiscard ==
    ASSUME BatchIsTold, endReplayAndDiscard, sessionId' = sessionId
    PROVE  BatchIsTold' /\ HeardIsTold
<1>1. pendingFrames' = <<>>
  BY DEF endReplayAndDiscard, clearPending
<1>2. /\ upcall'.output = <<>> \/ upcall'.output = pendingFrames
      /\ upcall'.reset = FALSE
  BY DEF endReplayAndDiscard, NoCall, Call
<1>3. QED
  BY <1>1, <1>2 DEF BatchIsTold, HeardIsTold

\* Output is of the session its socket named.
LEMMA TidyFrame ==
    ASSUME Tidy, SocketsOK, FramesOK, TidyInv, NEW k \in Sockets, ReceiveFrame(k)
    PROVE  TidyInv' /\ HeardIsTold
<1> DEFINE frames == Append(pendingFrames, sock[k].sess)
<1>1. sock[k].told /\ sock[k].sess = sessionId /\ sock[k].sess \in SessionIds
  BY DEF ReceiveFrame, Tidy, TidyInv, ToldSockets, SocketsOK, Socket, SessionOrNone
<1>2. UNCHANGED <<ws, manualStop, sessionId, sock>>
  BY DEF ReceiveFrame, messageFrame
<1>3. \A i \in DOMAIN frames : frames[i] = sessionId
  BY <1>1 DEF TidyInv, BatchIsTold, FramesOK
<1>4. \/ pendingFrames' = <<>> /\ upcall' = Call(frames, "none", FALSE)
      \/ pendingFrames' = frames /\ upcall' = NoCall
  BY DEF ReceiveFrame, clearPending
<1>5. OneSocket' /\ ToldSockets'
  BY <1>2 DEF TidyInv, OneSocket, ToldSockets, Alive
<1>6. BatchIsTold' /\ HeardIsTold
  BY <1>1, <1>2, <1>3, <1>4 DEF BatchIsTold, HeardIsTold, NoCall, Call
<1>7. QED
  BY <1>5, <1>6 DEF TidyInv

\* A session is named on the only socket, before any output of it.
LEMMA TidySession ==
    ASSUME SocketsOK, TidyInv, NEW k \in Sockets, ReceiveSession(k)
    PROVE  TidyInv' /\ HeardIsTold
<1>1. /\ sock[k].phase = "open" /\ sock[k].sess # None /\ ~sock[k].told
      /\ sock' = [sock EXCEPT ![k] = [@ EXCEPT !.told = TRUE]]
      /\ sessionId' = sock[k].sess
      /\ UNCHANGED <<ws, manualStop, pendingFrames>>
      /\ upcall' = Call(<<>>, "none", sessionId # None /\ sessionId # sock[k].sess)
  BY DEF ReceiveSession, messageFrame
<1>2. \A j \in Sockets : j # k => ~Alive(j)
  BY <1>1 DEF TidyInv, OneSocket, Alive
<1>3. \A j \in Sockets : ~sock[j].told
  BY <1>1, <1>2 DEF TidyInv, ToldSockets, Alive
<1>4. \A j \in Sockets : /\ sock'[j].phase = sock[j].phase /\ sock'[j].sess = sock[j].sess
                         /\ j # k => ~sock'[j].told
  BY <1>1, <1>3 DEF SocketsOK, Socket
<1>5. OneSocket'
  BY <1>1, <1>4 DEF TidyInv, OneSocket, Alive
<1>6. ToldSockets'
  BY <1>1, <1>4 DEF TidyInv, ToldSockets
<1>7. pendingFrames = <<>>
  BY <1>3 DEF TidyInv, BatchIsTold
<1>8. upcall'.output = <<>>
  BY <1>1 DEF Call
<1>9. ASSUME sessionId # None, sessionId # sock[k].sess
      PROVE  upcall'.reset
  <2>1. (sessionId # None /\ sessionId # sock[k].sess) = TRUE
    BY <1>9
  <2>2. upcall' = Call(<<>>, "none", TRUE)
    BY <1>1, <2>1, Zenon
  <2>3. QED
    BY <2>2 DEF Call
<1>10. BatchIsTold' /\ HeardIsTold
  BY <1>1, <1>7, <1>8, <1>9 DEF BatchIsTold, HeardIsTold
<1>11. QED
  BY <1>5, <1>6, <1>10 DEF TidyInv

\* A socket opens and is attached to a session, or ends.
LEMMA TidySocket ==
    ASSUME Tidy, SocketsOK, TidyInv, NEW k \in Sockets,
           SocketOpen(k) \/ SocketClose(k) \/ ConnectFails(k)
    PROVE  TidyInv' /\ HeardIsTold
<1>1. UNCHANGED <<ws, manualStop, sessionId>>
  BY DEF SocketOpen, SocketClose, ConnectFails
<1>2. CASE SocketOpen(k)
  <2>1. PICK s \in SessionOrNone :
          /\ Attach(sock[k].req, s)
          /\ sock' = [sock EXCEPT ![k] = [@ EXCEPT !.phase = "open", !.sess = s]]
    BY <1>2 DEF SocketOpen
  <2>2. s # None
    BY <2>1, ConstantsAssumption DEF Attach, Tidy, SocketsOK
  <2>3. sock[k].phase = "connecting" /\ ~sock[k].told
    BY <1>2 DEF SocketOpen, TidyInv, ToldSockets
  <2>4. \A j \in Sockets : /\ sock'[j].told = sock[j].told
                           /\ IF j = k THEN sock'[j].phase = "open" /\ sock'[j].sess = s
                              ELSE sock'[j] = sock[j]
    BY <2>1 DEF SocketsOK, Socket
  <2>5. OneSocket'
    BY <1>1, <2>3, <2>4 DEF TidyInv, OneSocket, Alive
  <2>6. ToldSockets'
    BY <1>1, <2>2, <2>3, <2>4 DEF TidyInv, ToldSockets
  <2>7. UNCHANGED pendingFrames /\ upcall'.output = <<>> /\ upcall'.reset = FALSE
    BY <1>2 DEF SocketOpen, Call
  <2>8. BatchIsTold' /\ HeardIsTold
    BY <1>1, <2>4, <2>7 DEF TidyInv, BatchIsTold, HeardIsTold
  <2>9. QED
    BY <2>5, <2>6, <2>8 DEF TidyInv
<1>3. CASE SocketClose(k) \/ ConnectFails(k)
  <2>1. sock' = [sock EXCEPT ![k] = FreeSocket]
    BY <1>3 DEF SocketClose, ConnectFails, Tidy
  <2>2. \A j \in Sockets : IF j = k THEN sock'[j].phase = "free" /\ ~sock'[j].told
                           ELSE sock'[j] = sock[j]
    BY <2>1 DEF SocketsOK, FreeSocket
  <2>3. OneSocket'
    BY <1>1, <2>2 DEF TidyInv, OneSocket, Alive
  <2>4. ToldSockets'
    BY <1>1, <2>2 DEF TidyInv, ToldSockets
  <2>5. CASE SocketClose(k)
    <3>1. BatchIsTold' /\ HeardIsTold
      BY <1>1, <2>5, TidyDiscard DEF SocketClose, TidyInv
    <3>2. QED
      BY <2>3, <2>4, <3>1 DEF TidyInv
  <2>6. CASE ConnectFails(k)
    <3>1. UNCHANGED pendingFrames /\ upcall' = NoCall /\ sock[k].phase = "connecting"
      BY <2>6 DEF ConnectFails
    <3>2. \A j \in Sockets : sock[j].told => sock'[j].told
      BY <2>2, <3>1 DEF TidyInv, ToldSockets
    <3>3. BatchIsTold' /\ HeardIsTold
      BY <1>1, <3>1, <3>2 DEF TidyInv, BatchIsTold, HeardIsTold, NoCall, Call
    <3>4. QED
      BY <2>3, <2>4, <3>3 DEF TidyInv
  <2>7. QED
    BY <1>3, <2>5, <2>6
<1>4. QED
  BY <1>2, <1>3

\* Every step of the driver.
LEMMA TidyStep ==
    ASSUME Tidy, TypeOK, TidyInv, Next
    PROVE  TidyInv' /\ HeardIsTold
<1> USE DEF TypeOK
<1>1. CASE Start \/ OnForeground \/ ReconnectNow \/ ReconnectFires
  BY <1>1, TidyConnect
     DEF Start, start, OnForeground, ReconnectNow, reconnectNow, ReconnectFires, connectFrame
<1>2. CASE Stop
  <2>1. OneSocket' /\ ToldSockets'
    BY <1>2 DEF Stop, TidyInv, OneSocket, ToldSockets, Alive
  <2>2. BatchIsTold' /\ HeardIsTold
    BY <1>2, TidyDiscard DEF Stop, TidyInv
  <2>3. QED
    BY <2>1, <2>2 DEF TidyInv
<1>3. CASE FlushFires \/ QuietFires \/ GuardFires
  BY <1>3, TidyFlush DEF FlushFires, QuietFires, GuardFires, timerFrame
<1>4. ASSUME NEW k \in Sockets, SocketEvent(k)
      PROVE  TidyInv' /\ HeardIsTold
  <2>1. CASE SocketOpen(k) \/ SocketClose(k) \/ ConnectFails(k)
    BY <2>1, TidySocket
  <2>2. CASE ReceiveFrame(k)
    BY <2>2, TidyFrame
  <2>3. CASE ReceiveSession(k)
    BY <2>3, TidySession
  <2>4. CASE ReceiveSessionLost(k)
    BY <2>4 DEF ReceiveSessionLost, TidyInv, ToldSockets
  <2>5. CASE ReceiveError(k) \/ SocketError(k)
    BY <2>5, TidyFlush DEF ReceiveError, SocketError, messageFrame
  <2>6. QED
    BY <1>4, <2>1, <2>2, <2>3, <2>4, <2>5 DEF SocketEvent
<1>5. ASSUME NEW s \in SessionIds, SessionDies(s)
      PROVE  TidyInv' /\ HeardIsTold
  BY <1>5 DEF SessionDies, TidyInv, OneSocket, ToldSockets, BatchIsTold, HeardIsTold, Alive,
       NoCall, Call
<1>6. QED
  BY <1>1, <1>2, <1>3, <1>4, <1>5 DEF Next

\* The next URL asks for the session that is known, and so did the one in use.
KnownInv ==
    /\ sessionId # None => configId = sessionId
    /\ \A k \in Sockets : sock[k].phase = "connecting" => sock[k].req = configId

\* connect() builds its URL from the configuration.
LEMMA KnownConnect ==
    ASSUME SocketsOK, KnownInv, connect, UNCHANGED <<sessionId, configId>>
    PROVE  KnownInv'
<1>1. PICK k \in Sockets :
        sock' = [sock EXCEPT ![k] = [phase |-> "connecting", req |-> configId,
                                     sess |-> None, told |-> FALSE]]
  BY DEF connect
<1>2. \A j \in Sockets : IF j = k THEN sock'[j].req = configId ELSE sock'[j] = sock[j]
  BY <1>1 DEF SocketsOK
<1>3. QED
  BY <1>2 DEF KnownInv

\* A session is announced when no other socket is connecting.
LEMMA KnownStep ==
    ASSUME Tidy, SocketsOK, OneSocket, KnownInv, Next
    PROVE  KnownInv'
<1>1. CASE Start \/ OnForeground \/ ReconnectNow \/ ReconnectFires
  BY <1>1, KnownConnect
     DEF Start, start, OnForeground, ReconnectNow, reconnectNow, ReconnectFires, connectFrame
<1>2. CASE Stop \/ FlushFires \/ QuietFires \/ GuardFires \/ \E s \in SessionIds : SessionDies(s)
  BY <1>2 DEF Stop, FlushFires, QuietFires, GuardFires, timerFrame, SessionDies, KnownInv
<1>3. ASSUME NEW k \in Sockets, SocketEvent(k)
      PROVE  KnownInv'
  <2>1. CASE ReceiveSession(k) \/ ReceiveSessionLost(k)
    <3>1. sock[k].phase = "open" /\ sock' = [sock EXCEPT ![k] = [@ EXCEPT !.told = TRUE]]
      BY <2>1 DEF ReceiveSession, ReceiveSessionLost
    <3>2. \A j \in Sockets : sock'[j].phase = sock[j].phase
      BY <3>1 DEF SocketsOK, Socket
    <3>3. \A j \in Sockets : sock[j].phase # "connecting"
      BY <3>1 DEF OneSocket, Alive
    <3>4. sessionId' = configId'
      BY <2>1 DEF ReceiveSession, ReceiveSessionLost
    <3>5. QED
      BY <3>2, <3>3, <3>4 DEF KnownInv
  <2>2. CASE ReceiveFrame(k) \/ ReceiveError(k) \/ SocketError(k)
    BY <2>2 DEF ReceiveFrame, ReceiveError, SocketError, KnownInv
  <2>3. CASE SocketOpen(k)
    <3>1. \A j \in Sockets : sock'[j].phase = "connecting" => sock'[j] = sock[j]
      BY <2>3 DEF SocketOpen, SocketsOK, Socket
    <3>2. QED
      BY <2>3, <3>1 DEF SocketOpen, KnownInv
  <2>4. CASE SocketClose(k) \/ ConnectFails(k)
    <3>1. sock' = [sock EXCEPT ![k] = FreeSocket]
      BY <2>4 DEF SocketClose, ConnectFails, Tidy
    <3>2. \A j \in Sockets : sock'[j].phase = "connecting" => sock'[j] = sock[j]
      BY <3>1 DEF SocketsOK, FreeSocket
    <3>3. QED
      BY <2>4, <3>2 DEF SocketClose, ConnectFails, KnownInv
  <2>5. QED
    BY <1>3, <2>1, <2>2, <2>3, <2>4 DEF SocketEvent
<1>4. QED
  BY <1>1, <1>2, <1>3 DEF Next

\* A fresh session is made for an URL that asks for a dead one, or for none.
LEMMA FreshSession ==
    ASSUME SocketsOK, KnownInv, Next, used' # used
    PROVE  KnownSession \notin live
<1>1. PICK k \in Sockets : SocketOpen(k)
  BY DEF Next, Start, start, OnForeground, ReconnectNow, reconnectNow, ReconnectFires,
       connectFrame, Stop, FlushFires, QuietFires, GuardFires, timerFrame, SocketEvent,
       ReceiveFrame, ReceiveSession, ReceiveSessionLost, ReceiveError, SocketError,
       SocketClose, ConnectFails, messageFrame, SessionDies
<1>2. sock[k].req \notin live
  BY <1>1 DEF SocketOpen, Attach
<1>3. sock[k].req = configId
  BY <1>1 DEF SocketOpen, KnownInv
<1>4. KnownSession = configId
  BY DEF KnownSession, KnownInv
<1>5. QED
  BY <1>2, <1>3, <1>4

-----------------------------------------------------------------------------
(* The session. *)

\* Everything on the screen came from the session announced last.
ScreenIsTold == \A s \in screen : s = sessionId

SessionInv ==
    /\ DriverInv /\ TidyInv /\ KnownInv /\ OwnerInv
    /\ TermTypeOK /\ ScreenIsTold /\ MouseModesAreShown

\* What is heard keeps the types, the screen and the mouse modes.
LEMMA HearKeeps ==
    ASSUME TypeOK, TypeOK', HeardIsTold, Hear, ScreenIsTold, MouseModesAreShown,
           screen \subseteq SessionIds, mouse \in SessionOrNone, sessionWasReset \in BOOLEAN
    PROVE  /\ ScreenIsTold' /\ MouseModesAreShown'
           /\ screen' \subseteq SessionIds /\ mouse' \in SessionOrNone
           /\ sessionWasReset' \in BOOLEAN
<1>1. upcall'.output \in Seq(SessionIds) /\ upcall'.reset \in BOOLEAN
  BY DEF TypeOK, FramesOK, Upcalls
<1>2. fed \subseteq SessionIds /\ \A s \in fed : s = sessionId' /\ upcall'.output # <<>>
  BY <1>1 DEF fed, HeardIsTold
<1>3. screen' \subseteq SessionIds /\ mouse' \in SessionOrNone /\ sessionWasReset' \in BOOLEAN
  BY <1>1, <1>2 DEF Hear, SessionOrNone
<1>4. MouseModesAreShown'
  BY <1>2 DEF Hear, MouseModesAreShown
<1>5. ScreenIsTold'
  <2>1. CASE upcall'.reset
    BY <2>1 DEF Hear, ScreenIsTold
  <2>2. CASE ~upcall'.reset
    <3>1. sessionId' = sessionId \/ screen = {}
      BY <2>2, ConstantsAssumption DEF HeardIsTold, ScreenIsTold
    <3>2. screen' = screen \union fed
      BY <2>2 DEF Hear
    <3>3. QED
      BY <1>2, <3>1, <3>2 DEF ScreenIsTold
  <2>3. QED
    BY <2>1, <2>2
<1>6. QED
  BY <1>3, <1>4, <1>5

\* A poll for the size waits only for a start that is still to come.
LEMMA LifecycleTypes ==
    ASSUME TermTypeOK, FlagsOK, OwnerInv, [SessionNext]_sessionVars
    PROVE  /\ opened' \in BOOLEAN /\ sized' \in BOOLEAN /\ startRetryTimer' \in BOOLEAN
           /\ stopped' \in BOOLEAN
           /\ startRetryTimer' => opened' /\ ~started' /\ ~stopped'
<1> USE DEF TermTypeOK
<1>1. CASE SessionStart \/ StartRetryFires
  <2>1. /\ opened' \in {TRUE, opened} /\ sized' = sized /\ ~started /\ ~stopped'
        /\ stopped' \in {FALSE, stopped} /\ startRetryTimer' = ~sized
    BY <1>1 DEF SessionStart, StartRetryFires, startWhenSized
  <2>2. /\ opened' \in BOOLEAN /\ sized' \in BOOLEAN /\ startRetryTimer' \in BOOLEAN
        /\ stopped' \in BOOLEAN
    BY <2>1
  <2>3. opened'
    BY <1>1 DEF SessionStart, StartRetryFires
  <2>4. startRetryTimer' => started' = started
    BY <1>1 DEF SessionStart, StartRetryFires, startWhenSized, vars, driverVars
  <2>5. QED
    BY <2>1, <2>2, <2>3, <2>4
<1>2. CASE SessionStop
  BY <1>2 DEF SessionStop
<1>3. CASE SurfaceSized \/ UNCHANGED sessionVars
  <2>1. UNCHANGED <<opened, startRetryTimer, stopped, started>>
    BY <1>3 DEF SurfaceSized, sessionVars, termVars, vars, driverVars
  <2>2. sized' \in {TRUE, sized}
    BY <1>3 DEF SurfaceSized, sessionVars, termVars
  <2>3. QED
    BY <2>1, <2>2
<1>4. CASE SessionOnForeground \/ SessionReconnectNow \/ (DriverStep /\ UNCHANGED lifecycle /\ Hear)
  <2>1. UNCHANGED lifecycle
    BY <1>4 DEF SessionOnForeground, SessionReconnectNow
  <2>2. started' = started
    BY <1>4 DEF SessionOnForeground, SessionReconnectNow, OnForeground, reconnectNow, connectFrame,
         DriverStep, ReconnectFires, FlushFires, QuietFires, GuardFires, timerFrame, SocketEvent,
         SocketOpen, ReceiveFrame, ReceiveSession, ReceiveSessionLost, ReceiveError, SocketError,
         SocketClose, ConnectFails, messageFrame, SessionDies
  <2>3. QED
    BY <2>1, <2>2 DEF lifecycle
<1>5. QED
  BY <1>1, <1>2, <1>3, <1>4 DEF SessionNext

\* Every step of the session keeps each part.
LEMMA SessionInductive ==
    ASSUME Tidy, SessionInv, [SessionNext]_sessionVars
    PROVE  SessionInv'
<1> USE DEF SessionInv
<1>1. OwnerInv' /\ ((Next /\ Hear) \/ UNCHANGED <<vars, sessionWasReset, screen, mouse>>)
  BY SessionSteps, SessionOwner
<1>2. DriverInv'
  BY <1>1, DriverInductive
<1>3. CASE Next /\ Hear
  <2>1. TidyInv' /\ HeardIsTold
    BY <1>3, TidyStep DEF DriverInv
  <2>2. /\ ScreenIsTold' /\ MouseModesAreShown'
        /\ screen' \subseteq SessionIds /\ mouse' \in SessionOrNone
        /\ sessionWasReset' \in BOOLEAN
    BY <1>2, <1>3, <2>1, HearKeeps DEF DriverInv, TermTypeOK
  <2>3. TermTypeOK'
    BY <2>2, LifecycleTypes DEF DriverInv, TypeOK, TermTypeOK
  <2>4. KnownInv'
    BY <1>3, KnownStep DEF TidyInv, DriverInv, TypeOK
  <2>5. QED
    BY <1>1, <1>2, <2>1, <2>2, <2>3, <2>4
<1>4. CASE UNCHANGED <<vars, sessionWasReset, screen, mouse>>
  <2>1. TidyInv' /\ KnownInv' /\ ScreenIsTold' /\ MouseModesAreShown'
    BY <1>4 DEF vars, driverVars, TidyInv, KnownInv, OneSocket, ToldSockets, BatchIsTold, Alive,
         ScreenIsTold, MouseModesAreShown
  <2>2. TermTypeOK'
    BY <1>4, LifecycleTypes DEF DriverInv, TypeOK, TermTypeOK
  <2>3. QED
    BY <1>1, <1>2, <2>1, <2>2
<1>5. QED
  BY <1>1, <1>3, <1>4

\* The session starts in its invariant.
LEMMA SessionStarts == SessionInit => SessionInv
<1> SUFFICES ASSUME SessionInit
             PROVE  SessionInv
  OBVIOUS
<1>1. DriverInv
  BY InitEstablishes DEF SessionInit
<1>2. TidyInv /\ KnownInv
  BY DEF SessionInit, Init, TidyInv, KnownInv, OneSocket, ToldSockets, BatchIsTold, Alive, FreeSocket
<1>3. TermTypeOK /\ OwnerInv /\ ScreenIsTold /\ MouseModesAreShown
  BY DEF SessionInit, Init, TermTypeOK, OwnerInv, ScreenIsTold, MouseModesAreShown, SessionOrNone
<1>4. QED
  BY <1>1, <1>2, <1>3 DEF SessionInv

\* A set whose members are all equal has at most one.
LEMMA ScreenCardinality ==
    ASSUME ScreenIsTold
    PROVE  ScreenIsOneSession
<1>1. screen = {} \/ screen = {sessionId}
  BY DEF ScreenIsTold
<1>2. Cardinality({}) = 0 /\ Cardinality({sessionId}) = 1
  BY FS_EmptySet, FS_Singleton
<1>3. QED
  BY <1>1, <1>2 DEF ScreenIsOneSession

\* The invariant holds in every state of such a tab.
LEMMA SessionInvariant ==
    ASSUME Tidy
    PROVE  SessionSafety => []SessionInv
<1>1. SessionInv /\ [SessionNext]_sessionVars => SessionInv'
  BY SessionInductive
<1>2. QED
  BY <1>1, SessionStarts, PTL DEF SessionSafety

\* What a tab shows and does belongs to one session: in a tab whose sockets do
\* not overlap and whose server replaces dead sessions, the current socket is the
\* open one, the screen mixes no two sessions, and no mouse mode of a replaced
\* session is left on (TerminalSession's callbacks, FishWebSocketDriver's batch).
THEOREM TabShowsOneSession ==
    ASSUME Tidy
    PROVE  SessionSafety => []OneSession
<1>1. SessionInv => OneSession
  <2>1. SUFFICES ASSUME SessionInv
                 PROVE  OneSession
    OBVIOUS
  <2>2. CurrentSocketIsOpen
    <3>1. SUFFICES ASSUME connected, ~manualStop
                   PROVE  ws # None /\ sock[ws].phase = "open" /\ \A k \in Sockets \ {ws} : ~Alive(k)
      BY DEF CurrentSocketIsOpen
    <3>2. PICK k \in Sockets : sock[k].phase = "open"
      BY <2>1, <3>1 DEF SessionInv, DriverInv, ConnectedHasOpenSocket
    <3>3. ws = k /\ \A j \in Sockets : Alive(j) => j = k
      BY <2>1, <3>1, <3>2 DEF SessionInv, TidyInv, OneSocket, Alive
    <3>4. QED
      BY <3>2, <3>3, ConstantsAssumption
  <2>3. ScreenIsOneSession
    BY <2>1, ScreenCardinality DEF SessionInv
  <2>4. QED
    BY <2>1, <2>2, <2>3 DEF SessionInv, OneSession
<1>2. SessionInv /\ [SessionNext]_sessionVars => SessionInv'
  BY SessionInductive
<1>3. QED
  BY <1>1, <1>2, SessionStarts, PTL DEF SessionSafety

\* In such a tab no reconnect, in whatever order sockets and timers report,
\* replaces a live PTY: the URL always asks for the session that is known
\* (connect(), which calls buildFishUrl(), and the `session' message).
THEOREM LivePtysAreKept ==
    ASSUME Tidy
    PROVE  SessionSafety => LivePtyIsKept
<1>1. SessionInv /\ [SessionNext]_sessionVars => [used' # used => KnownSession \notin live]_vars
  BY SessionSteps, FreshSession DEF SessionInv, DriverInv, TypeOK
<1>2. QED
  BY <1>1, SessionInvariant, PTL DEF SessionSafety, LivePtyIsKept
=============================================================================
