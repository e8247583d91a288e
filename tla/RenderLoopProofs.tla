-------------------------- MODULE RenderLoopProofs --------------------------
(***************************************************************************)
(* Proofs about the render loop: its types, and that neither a tick nor a  *)
(* draw outlives the surface it works on.                                  *)
(***************************************************************************)
EXTENDS RenderLoop, TLAPS

(* Without a vsync object no frame is requested and no tick runs, except   *)
(* while its destruction waits for the last tick.                          *)
HandleInv ==
    /\ ~vsync => ~frame /\ (vs = "idle" \/ ui = "join")
    /\ surface = "none" => ~vsync
    /\ ui \in {"join", "cleanup"} => ~vsync /\ surface # "none"

(* Between two calls of the UI thread m_surfaceMutex is held by phase 2 of *)
(* a tick or by nobody; a ready surface is shown.                          *)
LockInv ==
    /\ surfaceMutex = (IF vs = "drawing" THEN "vsync" ELSE "free")
    /\ ready => surface = "shown"

LoopInv == TypeOK /\ HandleInv /\ LockInv /\ DrawKeepsSurface

(* The invariant holds when the process starts.                            *)
LEMMA InitLoopInv == Init => LoopInv
<1> SUFFICES ASSUME Init PROVE LoopInv
  OBVIOUS
<1> USE TrailingAssumption DEF Init
<1>1. HostTypes
  BY DEF HostTypes
<1>2. RequestTypes
  <2>1. trailing \in 0..TrailingFlushFrames
    OBVIOUS
  <2>2. QED
    BY <2>1 DEF RequestTypes
<1>3. ThreadTypes /\ HistoryTypes
  BY DEF ThreadTypes, HistoryTypes, UIStates, TickStates
<1>4. HandleInv
  BY DEF HandleInv
<1>5. LockInv /\ DrawKeepsSurface
  BY DEF LockInv, DrawKeepsSurface
<1>6. QED
  BY <1>1, <1>2, <1>3, <1>4, <1>5 DEF LoopInv, TypeOK

(* No step of either thread changes a variable out of its type.            *)
LEMMA StepType == TypeOK /\ [Next]_vars => TypeOK'
<1> SUFFICES ASSUME TypeOK, [Next]_vars PROVE TypeOK'
  OBVIOUS
<1> USE TrailingAssumption DEF TypeOK
<1>1. CASE OnSurfaceCreated
  <2>1. HostTypes'
    BY <1>1 DEF OnSurfaceCreated, RequestRender, UILocks, UIFree, tick,
         HostTypes
  <2>2. RequestTypes'
    BY <1>1 DEF OnSurfaceCreated, RequestRender, UILocks, UIFree, tick,
         RequestTypes
  <2>3. ThreadTypes'
    BY <1>1 DEF OnSurfaceCreated, RequestRender, UILocks, UIFree, tick,
         ThreadTypes, UIStates, TickStates
  <2>4. HistoryTypes'
    BY <1>1 DEF OnSurfaceCreated, RequestRender, UILocks, UIFree, tick,
         HistoryTypes, HostTypes
  <2>5. QED
    BY <2>1, <2>2, <2>3, <2>4
<1>2. CASE OnSurfaceCreatedFails
  <2>1. HostTypes'
    BY <1>2 DEF OnSurfaceCreatedFails, UILocks, UIFree, flags, tick,
         history, HostTypes
  <2>2. RequestTypes'
    BY <1>2 DEF OnSurfaceCreatedFails, UILocks, UIFree, flags, tick,
         history, RequestTypes
  <2>3. ThreadTypes'
    BY <1>2 DEF OnSurfaceCreatedFails, UILocks, UIFree, flags, tick,
         history, ThreadTypes, UIStates, TickStates
  <2>4. HistoryTypes'
    BY <1>2 DEF OnSurfaceCreatedFails, UILocks, UIFree, flags, tick,
         history, HistoryTypes
  <2>5. QED
    BY <2>1, <2>2, <2>3, <2>4
<1>3. CASE OnSurfaceChanged
  <2>1. HostTypes'
    BY <1>3 DEF OnSurfaceChanged, UILocks, UIFree, env, host, tick, HostTypes
  <2>2. RequestTypes'
    BY <1>3 DEF OnSurfaceChanged, UILocks, UIFree, env, host, tick, RequestTypes
  <2>3. ThreadTypes'
    BY <1>3 DEF OnSurfaceChanged, UILocks, UIFree, env, host, tick,
         ThreadTypes, UIStates, TickStates
  <2>4. HistoryTypes'
    BY <1>3 DEF OnSurfaceChanged, UILocks, UIFree, env, host, tick, HistoryTypes
  <2>5. QED
    BY <2>1, <2>2, <2>3, <2>4
<1>4. CASE OnSurfaceShow
  <2>1. HostTypes'
    BY <1>4 DEF OnSurfaceShow, RequestRender, UILocks, UIFree, tick,
         history, HostTypes
  <2>2. RequestTypes'
    BY <1>4 DEF OnSurfaceShow, RequestRender, UILocks, UIFree, tick,
         history, RequestTypes
  <2>3. ThreadTypes'
    BY <1>4 DEF OnSurfaceShow, RequestRender, UILocks, UIFree, tick,
         history, ThreadTypes, UIStates, TickStates
  <2>4. HistoryTypes'
    BY <1>4 DEF OnSurfaceShow, RequestRender, UILocks, UIFree, tick,
         history, HistoryTypes
  <2>5. QED
    BY <2>1, <2>2, <2>3, <2>4
<1>5. CASE OnSurfaceHide
  <2>1. HostTypes'
    BY <1>5 DEF OnSurfaceHide, UILocks, UIFree, tick, history, HostTypes
  <2>2. RequestTypes'
    BY <1>5 DEF OnSurfaceHide, UILocks, UIFree, tick, history, RequestTypes
  <2>3. ThreadTypes'
    BY <1>5 DEF OnSurfaceHide, UILocks, UIFree, tick, history, ThreadTypes,
         UIStates, TickStates
  <2>4. HistoryTypes'
    BY <1>5 DEF OnSurfaceHide, UILocks, UIFree, tick, history, HistoryTypes
  <2>5. QED
    BY <2>1, <2>2, <2>3, <2>4
<1>6. CASE DestroyVsync
  <2>1. HostTypes'
    BY <1>6 DEF DestroyVsync, UIFree, env, host, tick, history, HostTypes
  <2>2. RequestTypes'
    BY <1>6 DEF DestroyVsync, UIFree, env, host, tick, history, RequestTypes
  <2>3. ThreadTypes'
    BY <1>6 DEF DestroyVsync, UIFree, env, host, tick, history, ThreadTypes,
         UIStates, TickStates
  <2>4. HistoryTypes'
    BY <1>6 DEF DestroyVsync, UIFree, env, host, tick, history, HistoryTypes
  <2>5. QED
    BY <2>1, <2>2, <2>3, <2>4
<1>7. CASE FeedOutput
  <2>1. HostTypes'
    BY <1>7 DEF FeedOutput, RequestRender, UIFree, env, host, tick, HostTypes
  <2>2. RequestTypes'
    BY <1>7 DEF FeedOutput, RequestRender, UIFree, env, host, tick, RequestTypes
  <2>3. ThreadTypes'
    BY <1>7 DEF FeedOutput, RequestRender, UIFree, env, host, tick,
         ThreadTypes, UIStates, TickStates
  <2>4. HistoryTypes'
    BY <1>7 DEF FeedOutput, RequestRender, UIFree, env, host, tick, HistoryTypes
  <2>5. QED
    BY <2>1, <2>2, <2>3, <2>4
<1>8. CASE DispatchAxisEvent
  <2>1. HostTypes'
    BY <1>8 DEF DispatchAxisEvent, UIFree, env, host, flags, tick, history,
         HostTypes
  <2>2. RequestTypes'
    BY <1>8 DEF DispatchAxisEvent, UIFree, env, host, flags, tick, history,
         RequestTypes
  <2>3. ThreadTypes'
    BY <1>8 DEF DispatchAxisEvent, UIFree, env, host, flags, tick, history,
         ThreadTypes, UIStates, TickStates
  <2>4. HistoryTypes'
    BY <1>8 DEF DispatchAxisEvent, UIFree, env, host, flags, tick, history,
         HistoryTypes
  <2>5. QED
    BY <2>1, <2>2, <2>3, <2>4
<1>9. CASE SetConfig
  <2>1. HostTypes'
    BY <1>9 DEF SetConfig, UIFree, host, flags, tick, history, HostTypes
  <2>2. RequestTypes'
    BY <1>9 DEF SetConfig, UIFree, host, flags, tick, history, RequestTypes
  <2>3. ThreadTypes'
    BY <1>9 DEF SetConfig, UIFree, host, flags, tick, history, ThreadTypes,
         UIStates, TickStates
  <2>4. HistoryTypes'
    BY <1>9 DEF SetConfig, UIFree, host, flags, tick, history, HistoryTypes
  <2>5. QED
    BY <2>1, <2>2, <2>3, <2>4
<1>10. CASE unbindNative
  <2>1. HostTypes'
    BY <1>10 DEF unbindNative, UIFree, host, flags, tick, history, HostTypes
  <2>2. RequestTypes'
    BY <1>10 DEF unbindNative, UIFree, host, flags, tick, history, RequestTypes
  <2>3. ThreadTypes'
    BY <1>10 DEF unbindNative, UIFree, host, flags, tick, history,
         ThreadTypes, UIStates, TickStates
  <2>4. HistoryTypes'
    BY <1>10 DEF unbindNative, UIFree, host, flags, tick, history, HistoryTypes
  <2>5. QED
    BY <2>1, <2>2, <2>3, <2>4
<1>11. CASE OnFrameTickResizes
  <2>1. HostTypes'
    BY <1>11 DEF OnFrameTickResizes, env, host, tick, HostTypes
  <2>2. RequestTypes'
    BY <1>11 DEF OnFrameTickResizes, env, host, tick, RequestTypes
  <2>3. ThreadTypes'
    BY <1>11 DEF OnFrameTickResizes, env, host, tick, ThreadTypes, UIStates,
         TickStates
  <2>4. HistoryTypes'
    BY <1>11 DEF OnFrameTickResizes, env, host, tick, HistoryTypes
  <2>5. QED
    BY <2>1, <2>2, <2>3, <2>4
<1>12. CASE SetConfigEnds
  <2>1. HostTypes'
    BY <1>12 DEF SetConfigEnds, RequestRender, env, tick, HostTypes
  <2>2. RequestTypes'
    BY <1>12 DEF SetConfigEnds, RequestRender, env, tick, RequestTypes
  <2>3. ThreadTypes'
    BY <1>12 DEF SetConfigEnds, RequestRender, env, tick, ThreadTypes,
         UIStates, TickStates
  <2>4. HistoryTypes'
    BY <1>12 DEF SetConfigEnds, RequestRender, env, tick, HistoryTypes
  <2>5. QED
    BY <2>1, <2>2, <2>3, <2>4
<1>13. CASE UIRequestsFrame
  <2>1. HostTypes'
    BY <1>13 DEF UIRequestsFrame, env, host, flags, tick, history, HostTypes
  <2>2. RequestTypes'
    BY <1>13 DEF UIRequestsFrame, env, host, flags, tick, history, RequestTypes
  <2>3. ThreadTypes'
    BY <1>13 DEF UIRequestsFrame, env, host, flags, tick, history,
         ThreadTypes, UIStates, TickStates
  <2>4. HistoryTypes'
    BY <1>13 DEF UIRequestsFrame, env, host, flags, tick, history, HistoryTypes
  <2>5. QED
    BY <2>1, <2>2, <2>3, <2>4
<1>14. CASE JoinTick
  <2>1. HostTypes'
    BY <1>14 DEF JoinTick, env, host, flags, tick, history, HostTypes
  <2>2. RequestTypes'
    BY <1>14 DEF JoinTick, env, host, flags, tick, history, RequestTypes
  <2>3. ThreadTypes'
    BY <1>14 DEF JoinTick, env, host, flags, tick, history, ThreadTypes,
         UIStates, TickStates
  <2>4. HistoryTypes'
    BY <1>14 DEF JoinTick, env, host, flags, tick, history, HistoryTypes
  <2>5. QED
    BY <2>1, <2>2, <2>3, <2>4
<1>15. CASE CleanupSurface
  <2>1. HostTypes'
    BY <1>15 DEF CleanupSurface, flags, tick, HostTypes
  <2>2. RequestTypes'
    BY <1>15 DEF CleanupSurface, flags, tick, RequestTypes
  <2>3. ThreadTypes'
    BY <1>15 DEF CleanupSurface, flags, tick, ThreadTypes, UIStates, TickStates
  <2>4. HistoryTypes'
    BY <1>15 DEF CleanupSurface, flags, tick, HistoryTypes
  <2>5. QED
    BY <2>1, <2>2, <2>3, <2>4
<1>16. CASE OnFrameTick
  <2>1. HostTypes'
    BY <1>16 DEF OnFrameTick, UIFree, env, host, tick, history, HostTypes
  <2>2. RequestTypes'
    BY <1>16 DEF OnFrameTick, UIFree, env, host, tick, history, RequestTypes
  <2>3. ThreadTypes'
    BY <1>16 DEF OnFrameTick, UIFree, env, host, tick, history, ThreadTypes,
         UIStates, TickStates
  <2>4. HistoryTypes'
    BY <1>16 DEF OnFrameTick, UIFree, env, host, tick, history, HistoryTypes
  <2>5. QED
    BY <2>1, <2>2, <2>3, <2>4
<1>17. CASE pollTick
  <2>1. HostTypes'
    BY <1>17 DEF pollTick, UIFree, env, host, flags, tick, HostTypes
  <2>2. RequestTypes'
    BY <1>17 DEF pollTick, UIFree, env, host, flags, tick, RequestTypes
  <2>3. ThreadTypes'
    BY <1>17 DEF pollTick, UIFree, env, host, flags, tick, ThreadTypes,
         UIStates, TickStates
  <2>4. HistoryTypes'
    BY <1>17 DEF pollTick, UIFree, env, host, flags, tick, HistoryTypes
  <2>5. QED
    BY <2>1, <2>2, <2>3, <2>4
<1>18. CASE OnVsyncFrameCB
  <2>1. HostTypes'
    BY <1>18 DEF OnVsyncFrameCB, env, host, flags, history, HostTypes
  <2>2. RequestTypes'
    BY <1>18 DEF OnVsyncFrameCB, env, host, flags, history, RequestTypes
  <2>3. ThreadTypes'
    BY <1>18 DEF OnVsyncFrameCB, env, host, flags, history, ThreadTypes,
         UIStates, TickStates
  <2>4. HistoryTypes'
    BY <1>18 DEF OnVsyncFrameCB, env, host, flags, history, HistoryTypes
  <2>5. QED
    BY <2>1, <2>2, <2>3, <2>4
<1>19. CASE DrainWheel
  <2>1. HostTypes'
    BY <1>19 DEF DrainWheel, env, host, HostTypes
  <2>2. RequestTypes'
    BY <1>19 DEF DrainWheel, env, host, RequestTypes
  <2>3. ThreadTypes'
    BY <1>19 DEF DrainWheel, env, host, ThreadTypes, UIStates, TickStates
  <2>4. HistoryTypes'
    BY <1>19 DEF DrainWheel, env, host, HistoryTypes
  <2>5. QED
    BY <2>1, <2>2, <2>3, <2>4
<1>20. CASE ConsumeFlags
  <2>1. HostTypes'
    BY <1>20 DEF ConsumeFlags, env, host, history, HostTypes
  <2>2. RequestTypes'
    <3>1. trailing' \in 0..TrailingFlushFrames
      BY <1>20 DEF ConsumeFlags, RequestTypes
    <3>2. QED
      BY <1>20, <3>1 DEF ConsumeFlags, env, host, history, RequestTypes
  <2>3. ThreadTypes'
    BY <1>20 DEF ConsumeFlags, env, host, history, ThreadTypes, UIStates,
         TickStates
  <2>4. HistoryTypes'
    BY <1>20 DEF ConsumeFlags, env, host, history, HistoryTypes
  <2>5. QED
    BY <2>1, <2>2, <2>3, <2>4
<1>21. CASE Draw
  <2>1. HostTypes'
    BY <1>21 DEF Draw, env, host, flags, HostTypes
  <2>2. RequestTypes'
    BY <1>21 DEF Draw, env, host, flags, RequestTypes
  <2>3. ThreadTypes'
    BY <1>21 DEF Draw, env, host, flags, ThreadTypes, UIStates, TickStates
  <2>4. HistoryTypes'
    BY <1>21 DEF Draw, env, host, flags, HistoryTypes
  <2>5. QED
    BY <2>1, <2>2, <2>3, <2>4
<1>22. CASE Present
  <2>1. HostTypes'
    BY <1>22 DEF Present, env, host, flags, history, HostTypes
  <2>2. RequestTypes'
    BY <1>22 DEF Present, env, host, flags, history, RequestTypes
  <2>3. ThreadTypes'
    BY <1>22 DEF Present, env, host, flags, history, ThreadTypes, UIStates,
         TickStates
  <2>4. HistoryTypes'
    BY <1>22 DEF Present, env, host, flags, history, HistoryTypes
  <2>5. QED
    BY <2>1, <2>2, <2>3, <2>4
<1>23. CASE AskHandle
  <2>1. HostTypes'
    BY <1>23 DEF AskHandle, env, host, flags, history, HostTypes
  <2>2. RequestTypes'
    BY <1>23 DEF AskHandle, env, host, flags, history, RequestTypes
  <2>3. ThreadTypes'
    BY <1>23 DEF AskHandle, env, host, flags, history, ThreadTypes,
         UIStates, TickStates
  <2>4. HistoryTypes'
    BY <1>23 DEF AskHandle, env, host, flags, history, HistoryTypes
  <2>5. QED
    BY <2>1, <2>2, <2>3, <2>4
<1>24. CASE ExchangePending
  <2>1. HostTypes'
    BY <1>24 DEF ExchangePending, env, host, flags, history, HostTypes
  <2>2. RequestTypes'
    BY <1>24 DEF ExchangePending, env, host, flags, history, RequestTypes
  <2>3. ThreadTypes'
    BY <1>24 DEF ExchangePending, env, host, flags, history, ThreadTypes,
         UIStates, TickStates
  <2>4. HistoryTypes'
    BY <1>24 DEF ExchangePending, env, host, flags, history, HistoryTypes
  <2>5. QED
    BY <2>1, <2>2, <2>3, <2>4
<1>25. CASE RequestFrame
  <2>1. HostTypes'
    BY <1>25 DEF RequestFrame, env, host, flags, history, HostTypes
  <2>2. RequestTypes'
    BY <1>25 DEF RequestFrame, env, host, flags, history, RequestTypes
  <2>3. ThreadTypes'
    BY <1>25 DEF RequestFrame, env, host, flags, history, ThreadTypes,
         UIStates, TickStates
  <2>4. HistoryTypes'
    BY <1>25 DEF RequestFrame, env, host, flags, history, HistoryTypes
  <2>5. QED
    BY <2>1, <2>2, <2>3, <2>4
<1>26. CASE UNCHANGED vars
  <2>1. HostTypes'
    BY <1>26 DEF vars, env, host, flags, tick, history, HostTypes
  <2>2. RequestTypes'
    BY <1>26 DEF vars, env, host, flags, tick, history, RequestTypes
  <2>3. ThreadTypes'
    BY <1>26 DEF vars, env, host, flags, tick, history, ThreadTypes,
         UIStates, TickStates
  <2>4. HistoryTypes'
    BY <1>26 DEF vars, env, host, flags, tick, history, HistoryTypes
  <2>5. QED
    BY <2>1, <2>2, <2>3, <2>4
<1>27. QED
  BY <1>1, <1>2, <1>3, <1>4, <1>5, <1>6, <1>7, <1>8, <1>9, <1>10, <1>11,
       <1>12, <1>13, <1>14, <1>15, <1>16, <1>17, <1>18, <1>19, <1>20, <1>21,
       <1>22, <1>23, <1>24, <1>25, <1>26 DEF Next, Callback, UIContinues,
       Tick

(* Every step keeps the handle, the frames and the threads in step.        *)
LEMMA StepHandle == LoopInv /\ [Next]_vars => HandleInv'
<1> SUFFICES ASSUME LoopInv, [Next]_vars PROVE HandleInv'
  OBVIOUS
<1> USE DEF LoopInv, TypeOK, HostTypes, RequestTypes, ThreadTypes, HandleInv
<1>1. CASE OnSurfaceCreated
  BY <1>1 DEF OnSurfaceCreated, RequestRender, UILocks, UIFree, tick
<1>2. CASE OnSurfaceCreatedFails
  BY <1>2 DEF OnSurfaceCreatedFails, UILocks, UIFree, flags, tick, history
<1>3. CASE OnSurfaceChanged
  BY <1>3 DEF OnSurfaceChanged, UILocks, UIFree, env, host, tick
<1>4. CASE OnSurfaceShow
  BY <1>4 DEF OnSurfaceShow, RequestRender, UILocks, UIFree, tick, history
<1>5. CASE OnSurfaceHide
  BY <1>5 DEF OnSurfaceHide, UILocks, UIFree, tick, history
<1>6. CASE DestroyVsync
  BY <1>6 DEF DestroyVsync, UIFree, env, host, tick, history
<1>7. CASE FeedOutput
  BY <1>7 DEF FeedOutput, RequestRender, UIFree, env, host, tick
<1>8. CASE DispatchAxisEvent
  BY <1>8 DEF DispatchAxisEvent, UIFree, env, host, flags, tick, history
<1>9. CASE SetConfig
  BY <1>9 DEF SetConfig, UIFree, host, flags, tick, history
<1>10. CASE unbindNative
  BY <1>10 DEF unbindNative, UIFree, host, flags, tick, history
<1>11. CASE OnFrameTickResizes
  BY <1>11 DEF OnFrameTickResizes, env, host, tick
<1>12. CASE SetConfigEnds
  BY <1>12 DEF SetConfigEnds, RequestRender, env, tick
<1>13. CASE UIRequestsFrame
  BY <1>13 DEF UIRequestsFrame, env, host, flags, tick, history
<1>14. CASE JoinTick
  BY <1>14 DEF JoinTick, env, host, flags, tick, history
<1>15. CASE CleanupSurface
  BY <1>15 DEF CleanupSurface, flags, tick
<1>16. CASE OnFrameTick
  BY <1>16 DEF OnFrameTick, UIFree, env, host, tick, history
<1>17. CASE pollTick
  BY <1>17 DEF pollTick, UIFree, env, host, flags, tick
<1>18. CASE OnVsyncFrameCB
  BY <1>18 DEF OnVsyncFrameCB, env, host, flags, history
<1>19. CASE DrainWheel
  BY <1>19 DEF DrainWheel, env, host
<1>20. CASE ConsumeFlags
  BY <1>20 DEF ConsumeFlags, env, host, history
<1>21. CASE Draw
  BY <1>21 DEF Draw, env, host, flags
<1>22. CASE Present
  BY <1>22 DEF Present, env, host, flags, history
<1>23. CASE AskHandle
  BY <1>23 DEF AskHandle, env, host, flags, history
<1>24. CASE ExchangePending
  BY <1>24 DEF ExchangePending, env, host, flags, history
<1>25. CASE RequestFrame
  BY <1>25 DEF RequestFrame, env, host, flags, history
<1>26. CASE UNCHANGED vars
  BY <1>26 DEF vars, env, host, flags, tick, history
<1>27. QED
  BY <1>1, <1>2, <1>3, <1>4, <1>5, <1>6, <1>7, <1>8, <1>9, <1>10, <1>11,
       <1>12, <1>13, <1>14, <1>15, <1>16, <1>17, <1>18, <1>19, <1>20, <1>21,
       <1>22, <1>23, <1>24, <1>25, <1>26 DEF Next, Callback, UIContinues,
       Tick

(* Every step keeps the mutex with its owner, and what is drawn in place.  *)
LEMMA StepLock == LoopInv /\ [Next]_vars => LockInv' /\ DrawKeepsSurface'
<1> SUFFICES ASSUME LoopInv, [Next]_vars PROVE LockInv' /\ DrawKeepsSurface'
  OBVIOUS
<1> USE DEF LoopInv, TypeOK, HostTypes, RequestTypes, ThreadTypes,
     HandleInv, LockInv, DrawKeepsSurface, Visible
<1>1. CASE OnSurfaceCreated
  BY <1>1 DEF OnSurfaceCreated, RequestRender, UILocks, UIFree, tick
<1>2. CASE OnSurfaceCreatedFails
  BY <1>2 DEF OnSurfaceCreatedFails, UILocks, UIFree, flags, tick, history
<1>3. CASE OnSurfaceChanged
  BY <1>3 DEF OnSurfaceChanged, UILocks, UIFree, env, host, tick
<1>4. CASE OnSurfaceShow
  BY <1>4 DEF OnSurfaceShow, RequestRender, UILocks, UIFree, tick, history
<1>5. CASE OnSurfaceHide
  BY <1>5 DEF OnSurfaceHide, UILocks, UIFree, tick, history
<1>6. CASE DestroyVsync
  BY <1>6 DEF DestroyVsync, UIFree, env, host, tick, history
<1>7. CASE FeedOutput
  BY <1>7 DEF FeedOutput, RequestRender, UIFree, env, host, tick
<1>8. CASE DispatchAxisEvent
  BY <1>8 DEF DispatchAxisEvent, UIFree, env, host, flags, tick, history
<1>9. CASE SetConfig
  BY <1>9 DEF SetConfig, UIFree, host, flags, tick, history
<1>10. CASE unbindNative
  BY <1>10 DEF unbindNative, UIFree, host, flags, tick, history
<1>11. CASE OnFrameTickResizes
  BY <1>11 DEF OnFrameTickResizes, env, host, tick
<1>12. CASE SetConfigEnds
  BY <1>12 DEF SetConfigEnds, RequestRender, env, tick
<1>13. CASE UIRequestsFrame
  BY <1>13 DEF UIRequestsFrame, env, host, flags, tick, history
<1>14. CASE JoinTick
  BY <1>14 DEF JoinTick, env, host, flags, tick, history
<1>15. CASE CleanupSurface
  BY <1>15 DEF CleanupSurface, flags, tick
<1>16. CASE OnFrameTick
  BY <1>16 DEF OnFrameTick, UIFree, env, host, tick, history
<1>17. CASE pollTick
  BY <1>17 DEF pollTick, UIFree, env, host, flags, tick
<1>18. CASE OnVsyncFrameCB
  BY <1>18 DEF OnVsyncFrameCB, env, host, flags, history
<1>19. CASE DrainWheel
  BY <1>19 DEF DrainWheel, env, host
<1>20. CASE ConsumeFlags
  BY <1>20 DEF ConsumeFlags, env, host, history
<1>21. CASE Draw
  BY <1>21 DEF Draw, env, host, flags
<1>22. CASE Present
  BY <1>22 DEF Present, env, host, flags, history
<1>23. CASE AskHandle
  BY <1>23 DEF AskHandle, env, host, flags, history
<1>24. CASE ExchangePending
  BY <1>24 DEF ExchangePending, env, host, flags, history
<1>25. CASE RequestFrame
  BY <1>25 DEF RequestFrame, env, host, flags, history
<1>26. CASE UNCHANGED vars
  BY <1>26 DEF vars, env, host, flags, tick, history
<1>27. QED
  BY <1>1, <1>2, <1>3, <1>4, <1>5, <1>6, <1>7, <1>8, <1>9, <1>10, <1>11,
       <1>12, <1>13, <1>14, <1>15, <1>16, <1>17, <1>18, <1>19, <1>20, <1>21,
       <1>22, <1>23, <1>24, <1>25, <1>26 DEF Next, Callback, UIContinues,
       Tick

(* The invariant holds in every reachable state.                           *)
THEOREM LoopCorrect == Safety => []LoopInv
<1>1. LoopInv /\ [Next]_vars => LoopInv'
  BY StepType, StepHandle, StepLock DEF LoopInv
<1>2. QED
  BY InitLoopInv, <1>1, PTL DEF Safety

(* Every reachable state of the render loop has its type.                  *)
THEOREM LoopTypeCorrect == Safety => []TypeOK
<1>1. LoopInv => TypeOK
  BY DEF LoopInv
<1>2. QED
  BY LoopCorrect, <1>1, PTL

(* OnSurfaceDestroyed() leaves no tick behind and no mutex locked.         *)
THEOREM NoTickWithoutSurface == Safety => []TickHasSurface
<1>1. LoopInv => TickHasSurface
  BY DEF LoopInv, HandleInv, LockInv, TickHasSurface
<1>2. QED
  BY LoopCorrect, <1>1, PTL

(* drawFrame() has its renderer and its surface until it returns.          *)
THEOREM DrawIsProtected == Safety => []DrawKeepsSurface
<1>1. LoopInv => DrawKeepsSurface
  BY DEF LoopInv
<1>2. QED
  BY LoopCorrect, <1>1, PTL

(* Both: every tick and every draw has the surface it works on.            *)
THEOREM DrawsProtected == Safety => []DrawsHaveSurface
BY NoTickWithoutSurface, DrawIsProtected, PTL DEF DrawsHaveSurface
=============================================================================
