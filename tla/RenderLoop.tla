----------------------------- MODULE RenderLoop -----------------------------
(***************************************************************************)
(* The render loop of one TerminalHost of napi_init.cpp: how new content,  *)
(* a new size or a turned wheel reaches the screen.  Two threads take part *)
(* in it.  The UI thread runs the XComponent callbacks, the calls of the   *)
(* TerminalController and its poll timer.  The vsync thread runs           *)
(* OnVsyncTick for every frame that was requested.  They share atomics,    *)
(* the flags under m_renderMutex (held for one step here) and the renderer *)
(* under m_surfaceMutex.  What is drawn, the input method and the fonts    *)
(* are left out.                                                           *)
(***************************************************************************)
EXTENDS Integers

CONSTANT TrailingFlushFrames    \* TRAILING_FLUSH_FRAMES

ASSUME TrailingAssumption == TrailingFlushFrames \in Nat \ {0}

VARIABLES
    \* --- the XComponent and the controller ---
    surface,            \* "none", "shown" or "hidden"
    bound,              \* bindNative() was called and its poll timer runs
    \* --- the host, under m_surfaceMutex ---
    surfaceMutex,       \* "free" or the thread that holds it
    ready,              \* m_surfaceReady
    renderer,           \* m_renderer # nullptr
    terminal,           \* m_terminal # nullptr
    blink,              \* m_renderer->cursorBlinkEnabled()
    \* --- the host, under m_renderMutex ---
    dirty,              \* m_renderDirty
    trailing,           \* m_trailingFrames
    resizePending,      \* m_resizePending
    \* --- the host, atomic or of the UI thread ---
    vsync,              \* m_nativeVSync # nullptr
    vsyncPending,       \* m_vsyncPending
    wheel,              \* m_wheelAccumLines # 0
    framePresented,     \* m_framePresented
    \* --- the vsync service ---
    frame,              \* a frame was requested from the live m_nativeVSync
    \* --- where the threads are ---
    ui,
    vs,
    resume,             \* where the vsync thread goes on after RequestVsyncFrame
    shouldRender,       \* locals of OnVsyncTick, FALSE outside phase 2
    needMoreFrames,
    \* --- history ---
    undrawn,            \* the content changed after the last drawFrame()
    unlatched,          \* a buffer was flushed that ArkUI has not sampled
    staleGrid           \* the window has another size than the terminal's grid

env == <<surface, bound>>
host == <<ready, renderer, terminal, blink>>
flags == <<dirty, trailing, resizePending>>
tick == <<vs, resume, shouldRender, needMoreFrames>>
history == <<undrawn, unlatched, staleGrid>>
vars == <<env, surfaceMutex, host, flags, vsync, vsyncPending, wheel,
          framePresented, frame, ui, tick, history>>

(* Where the UI thread stands inside one of its calls.                     *)
UIStates == {"idle", "config", "resize", "request", "join", "cleanup"}

(* Where the vsync thread stands inside OnVsyncTick; "drawing" is phase 2, *)
(* with m_surfaceMutex held; the last three are RequestVsyncFrame.         *)
TickStates == {"idle", "wheel", "consume", "lock", "drawing",
               "ask", "exchange", "frame"}

HostTypes ==
    /\ surface \in {"none", "shown", "hidden"}
    /\ surfaceMutex \in {"free", "ui", "vsync"}
    /\ bound \in BOOLEAN /\ ready \in BOOLEAN /\ renderer \in BOOLEAN
    /\ terminal \in BOOLEAN /\ blink \in BOOLEAN
RequestTypes ==
    /\ trailing \in 0..TrailingFlushFrames
    /\ dirty \in BOOLEAN /\ resizePending \in BOOLEAN
    /\ vsync \in BOOLEAN /\ vsyncPending \in BOOLEAN /\ frame \in BOOLEAN
    /\ wheel \in BOOLEAN /\ framePresented \in BOOLEAN
ThreadTypes ==
    /\ ui \in UIStates
    /\ vs \in TickStates
    /\ resume \in {"consume", "idle"}
    /\ shouldRender \in BOOLEAN /\ needMoreFrames \in BOOLEAN
HistoryTypes ==
    undrawn \in BOOLEAN /\ unlatched \in BOOLEAN /\ staleGrid \in BOOLEAN
TypeOK == HostTypes /\ RequestTypes /\ ThreadTypes /\ HistoryTypes

Init ==
    /\ surface = "none" /\ ui = "idle" /\ vs = "idle" /\ resume = "idle"
    /\ surfaceMutex = "free" /\ trailing = 0 /\ blink = TRUE
    /\ bound = FALSE /\ ready = FALSE /\ renderer = FALSE /\ terminal = FALSE
    /\ dirty = FALSE /\ resizePending = FALSE /\ vsync = FALSE /\ vsyncPending = FALSE
    /\ wheel = FALSE /\ framePresented = FALSE /\ frame = FALSE
    /\ shouldRender = FALSE /\ needMoreFrames = FALSE
    /\ undrawn = FALSE /\ unlatched = FALSE /\ staleGrid = FALSE

Visible == ready /\ renderer

-----------------------------------------------------------------------------
(* The UI thread.                                                          *)

(* A call of the UI thread begins; one that locks m_surfaceMutex waits for *)
(* the vsync thread to leave phase 2.                                      *)
UIFree == ui = "idle"
UILocks == UIFree /\ surfaceMutex = "free"

(* RequestRender() after its first block: the flag is set and the thread   *)
(* goes on to RequestVsyncFrame().                                         *)
RequestRender == dirty' = TRUE /\ ui' = "request"

(* RequestVsyncFrame() on the UI thread, which alone writes m_nativeVSync. *)
UIRequestsFrame ==
    /\ ui = "request"
    /\ ui' = "idle"
    /\ IF vsync /\ ~vsyncPending
       THEN vsyncPending' = TRUE /\ frame' = TRUE
       ELSE UNCHANGED <<vsyncPending, frame>>
    /\ UNCHANGED <<env, surfaceMutex, host, flags, vsync, wheel,
                   framePresented, tick, history>>

(* The renderer fails to initialise: CleanupSurfaceLocked(), no loop.      *)
OnSurfaceCreatedFails ==
    /\ UILocks /\ surface = "none" /\ ~bound
    /\ surface' = "shown"
    /\ ready' = FALSE /\ renderer' = FALSE
    /\ UNCHANGED <<bound, surfaceMutex, terminal, blink, flags, vsync,
                   vsyncPending, wheel, framePresented, frame, ui, tick, history>>

(* A new renderer, whose cursor blinks; a terminal fitting the window, or  *)
(* the one of an earlier surface with the grid it had.                     *)
OnSurfaceCreated ==
    /\ UILocks /\ surface = "none" /\ ~bound
    /\ surface' = "shown"
    /\ ready' = TRUE /\ renderer' = TRUE /\ blink' = TRUE
    /\ terminal' = TRUE
    /\ staleGrid' \in {FALSE, terminal}
    /\ vsync' = TRUE
    /\ RequestRender
    /\ undrawn' = TRUE
    /\ UNCHANGED <<bound, surfaceMutex, trailing, resizePending, vsyncPending,
                   wheel, framePresented, frame, tick, unlatched>>

(* OnSurfaceChanged(), and SetSurfaceFrame() with a new size: flags only.  *)
OnSurfaceChanged ==
    /\ UILocks /\ surface # "none"
    /\ resizePending' = TRUE /\ dirty' = TRUE
    /\ staleGrid' = TRUE
    /\ UNCHANGED <<env, surfaceMutex, host, trailing, vsync, vsyncPending,
                   wheel, framePresented, frame, ui, tick, undrawn, unlatched>>

OnSurfaceShow ==
    /\ UILocks /\ surface = "hidden"
    /\ surface' = "shown"
    /\ ready' = TRUE
    /\ vsync' = TRUE
    /\ RequestRender
    /\ UNCHANGED <<bound, surfaceMutex, renderer, terminal, blink, trailing,
                   resizePending, vsyncPending, wheel, framePresented, frame,
                   tick, history>>

\* Mutant: m_surfaceReady is reset without the mutex.
OnSurfaceHideUnlocked ==
    /\ UIFree /\ surface = "shown"
    /\ surface' = "hidden"
    /\ ready' = FALSE
    /\ dirty' = FALSE
    /\ UNCHANGED <<bound, surfaceMutex, renderer, terminal, blink, trailing,
                   resizePending, vsync, vsyncPending, wheel, framePresented,
                   frame, ui, tick, history>>

OnSurfaceHide ==
    /\ UILocks /\ surface = "shown"
    /\ surface' = "hidden"
    /\ ready' = FALSE
    /\ dirty' = FALSE
    /\ UNCHANGED <<bound, surfaceMutex, renderer, terminal, blink, trailing,
                   resizePending, vsync, vsyncPending, wheel, framePresented,
                   frame, ui, tick, history>>

\* Mutant: the vsync object is destroyed under m_surfaceMutex.
DestroyVsyncLocked ==
    /\ UILocks /\ surface # "none"
    /\ surfaceMutex' = "ui"
    /\ dirty' = FALSE /\ resizePending' = FALSE
    /\ vsync' = FALSE /\ vsyncPending' = FALSE /\ frame' = FALSE
    /\ ui' = "join"
    /\ UNCHANGED <<env, host, trailing, wheel, framePresented, tick, history>>

(* OnSurfaceDestroyed() in three steps.  StopRenderLoop() and the          *)
(* beginning of DestroyVsync(): the handle is nulled, the flag reset, and  *)
(* OH_NativeVSync_Destroy called, which drops the requested frame.         *)
DestroyVsync ==
    /\ UIFree /\ surface # "none"
    /\ dirty' = FALSE /\ resizePending' = FALSE
    /\ IF vsync THEN /\ vsync' = FALSE
                     /\ vsyncPending' = FALSE
                     /\ frame' = FALSE
                     /\ ui' = "join"
                ELSE /\ ui' = "cleanup"
                     /\ UNCHANGED <<vsync, vsyncPending, frame>>
    /\ UNCHANGED <<env, surfaceMutex, host, trailing, wheel, framePresented,
                   tick, history>>

(* OH_NativeVSync_Destroy waits for the tick in flight.                    *)
JoinTick ==
    /\ ui = "join" /\ vs = "idle"
    /\ ui' = "cleanup"
    /\ UNCHANGED <<env, surfaceMutex, host, flags, vsync, vsyncPending, wheel,
                   framePresented, frame, tick, history>>

(* The rest of it under the mutex; the terminal outlives the surface.      *)
CleanupSurface ==
    /\ ui = "cleanup" /\ surfaceMutex # "vsync"
    /\ surfaceMutex' = "free"
    /\ surface' = "none"
    /\ ready' = FALSE /\ renderer' = FALSE
    /\ unlatched' = FALSE
    /\ ui' = "idle"
    /\ UNCHANGED <<bound, terminal, blink, flags, vsync, vsyncPending, wheel,
                   framePresented, frame, tick, undrawn, staleGrid>>

(* OnFrameTick(): ArkUI's frame callback, registered with the loop.  The   *)
(* flag is taken, then the mutex; without a renderer the size is dropped.  *)
(* The resize of the terminal ends in RequestRender().                     *)
OnFrameTick ==
    /\ UIFree /\ surface # "none" /\ vsync /\ resizePending
    /\ resizePending' = FALSE
    /\ ui' = "resize"
    /\ UNCHANGED <<env, surfaceMutex, host, dirty, trailing, vsync,
                   vsyncPending, wheel, framePresented, frame, tick, history>>

OnFrameTickResizes ==
    /\ ui = "resize" /\ surfaceMutex = "free"
    /\ IF renderer /\ terminal
       THEN dirty' = TRUE /\ undrawn' = TRUE /\ staleGrid' = FALSE
       ELSE UNCHANGED <<dirty, undrawn, staleGrid>>
    /\ ui' = "request"
    /\ UNCHANGED <<env, surfaceMutex, host, trailing, resizePending, vsync,
                   vsyncPending, wheel, framePresented, frame, tick, unlatched>>

(* feedOutput() of a terminal ends in RequestRender().                     *)
FeedOutput ==
    /\ UIFree /\ bound /\ terminal
    /\ undrawn' = TRUE
    /\ RequestRender
    /\ UNCHANGED <<env, surfaceMutex, host, trailing, resizePending, vsync,
                   vsyncPending, wheel, framePresented, frame, tick, unlatched,
                   staleGrid>>

(* An axis event on the alternate screen, coalesced for the next tick.     *)
DispatchAxisEvent ==
    /\ UIFree /\ terminal /\ surface = "shown"
    /\ wheel' = TRUE
    /\ ui' = "request"
    /\ UNCHANGED <<env, surfaceMutex, host, flags, vsync, vsyncPending,
                   framePresented, frame, tick, history>>

(* bindNative() applies the configuration; so does a change of settings.   *)
(* SetConfig() writes the renderer without taking m_surfaceMutex.          *)
SetConfig ==
    /\ UIFree /\ surface # "none"
    /\ bound' = TRUE
    /\ ui' = "config"
    /\ UNCHANGED <<surface, surfaceMutex, host, flags, vsync, vsyncPending,
                   wheel, framePresented, frame, tick, history>>

\* Mutant: the configuration does not fit the terminal to the window.
SetConfigEndsUnfitted ==
    /\ ui = "config"
    /\ blink' \in IF renderer THEN BOOLEAN ELSE {blink}
    /\ undrawn' = (undrawn \/ terminal)
    /\ RequestRender
    /\ UNCHANGED <<env, surfaceMutex, ready, renderer, terminal, trailing,
                   resizePending, vsync, vsyncPending, wheel, framePresented,
                   frame, tick, unlatched, staleGrid>>

(* The renderer is written, the terminal fitted to the window.             *)
SetConfigEnds ==
    /\ ui = "config"
    /\ blink' \in IF renderer THEN BOOLEAN ELSE {blink}
    /\ staleGrid' = (staleGrid /\ ~terminal)
    /\ undrawn' = (undrawn \/ terminal)
    /\ RequestRender
    /\ UNCHANGED <<env, surfaceMutex, ready, renderer, terminal, trailing,
                   resizePending, vsync, vsyncPending, wheel, framePresented,
                   frame, tick, unlatched>>

unbindNative ==
    /\ UIFree /\ bound
    /\ bound' = FALSE
    /\ UNCHANGED <<surface, surfaceMutex, host, flags, vsync, vsyncPending,
                   wheel, framePresented, frame, ui, tick, history>>

(* pollTick(): drainPendingFrame() and, if a frame was flushed, the        *)
(* listener that makes ArkUI sample the newest buffer.  The timer rearms.  *)
pollTick ==
    /\ UIFree /\ bound /\ framePresented
    /\ framePresented' = FALSE
    /\ unlatched' = FALSE
    /\ UNCHANGED <<env, surfaceMutex, host, flags, vsync, vsyncPending, wheel,
                   frame, ui, tick, undrawn, staleGrid>>

-----------------------------------------------------------------------------
(* The vsync thread.                                                       *)

(* OnVsyncFrameCB(): the flag is reset before the tick.                    *)
OnVsyncFrameCB ==
    /\ vs = "idle" /\ frame
    /\ frame' = FALSE
    /\ vsyncPending' = FALSE
    /\ vs' = "wheel"
    /\ UNCHANGED <<env, surfaceMutex, host, flags, vsync, wheel,
                   framePresented, ui, resume, shouldRender, needMoreFrames,
                   history>>

(* The coalesced lines are taken.  wheelScroll() sends them to the program *)
(* or, if it has left the alternate screen meanwhile, scrolls the viewport *)
(* and so calls RequestRender() on this thread.                            *)
DrainWheel ==
    /\ vs = "wheel"
    /\ wheel' = FALSE
    /\ \/ /\ vs' = "consume"
          /\ UNCHANGED <<dirty, undrawn, resume>>
       \/ /\ wheel /\ terminal
          /\ dirty' = TRUE /\ undrawn' = TRUE
          /\ vs' = "ask" /\ resume' = "consume"
    /\ UNCHANGED <<env, surfaceMutex, host, trailing, resizePending, vsync,
                   vsyncPending, framePresented, frame, ui, shouldRender,
                   needMoreFrames, unlatched, staleGrid>>

\* Mutant: the trailing frames are counted down below zero.
ConsumeFlagsUnchecked ==
    /\ vs = "consume"
    /\ dirty' = FALSE
    /\ trailing' = IF dirty THEN TrailingFlushFrames ELSE trailing - 1
    /\ shouldRender' = TRUE
    /\ needMoreFrames' = (~dirty /\ trailing > 1)
    /\ vs' = "lock" /\ resume' = "idle"
    /\ UNCHANGED <<env, surfaceMutex, host, resizePending, vsync, vsyncPending,
                   wheel, framePresented, frame, ui, history>>

(* Phase 1, under m_renderMutex.                                           *)
ConsumeFlags ==
    /\ vs = "consume"
    /\ dirty' = FALSE
    /\ trailing' = IF dirty THEN TrailingFlushFrames
                   ELSE IF trailing > 0 THEN trailing - 1 ELSE 0
    /\ shouldRender' = (dirty \/ trailing > 0)
    /\ needMoreFrames' = (~dirty /\ trailing > 1)
    /\ vs' = "lock" /\ resume' = "idle"
    /\ UNCHANGED <<env, surfaceMutex, host, resizePending, vsync, vsyncPending,
                   wheel, framePresented, frame, ui, history>>

(* Phase 2 begins.  A blinking cursor is redrawn every 250 ms, that is at  *)
(* some ticks, and keeps the frames coming.  drawFrame() flushes a buffer. *)
Draw ==
    /\ vs = "lock" /\ surfaceMutex = "free"
    /\ surfaceMutex' = "vsync"
    /\ needMoreFrames' = (needMoreFrames \/ (renderer /\ blink))
    /\ \E now \in BOOLEAN :
          shouldRender' = /\ shouldRender \/ (renderer /\ blink /\ now)
                          /\ renderer /\ terminal /\ ready
    /\ undrawn' = (undrawn /\ ~shouldRender')
    /\ unlatched' = (unlatched \/ shouldRender')
    /\ vs' = "drawing"
    /\ UNCHANGED <<env, host, flags, vsync, vsyncPending, wheel,
                   framePresented, frame, ui, resume, staleGrid>>

\* Mutant: the flag is reset after the draw.
PresentAndClear ==
    /\ vs = "drawing"
    /\ dirty' = FALSE
    /\ framePresented' = (framePresented \/ shouldRender)
    /\ surfaceMutex' = "free"
    /\ vs' = IF needMoreFrames THEN "ask" ELSE "idle"
    /\ shouldRender' = FALSE /\ needMoreFrames' = FALSE
    /\ UNCHANGED <<env, host, trailing, resizePending, vsync, vsyncPending,
                   wheel, frame, ui, resume, history>>

\* Mutant: no signal for a frame that only moved the cursor.
PresentContentOnly ==
    /\ vs = "drawing"
    /\ framePresented' = (framePresented \/ (shouldRender /\ ~needMoreFrames))
    /\ surfaceMutex' = "free"
    /\ vs' = IF needMoreFrames THEN "ask" ELSE "idle"
    /\ shouldRender' = FALSE /\ needMoreFrames' = FALSE
    /\ UNCHANGED <<env, host, flags, vsync, vsyncPending, wheel, frame, ui,
                   resume, history>>

(* ... and ends, with the signal that there is a fresh buffer.             *)
Present ==
    /\ vs = "drawing"
    /\ framePresented' = (framePresented \/ shouldRender)
    /\ surfaceMutex' = "free"
    /\ vs' = IF needMoreFrames THEN "ask" ELSE "idle"
    /\ shouldRender' = FALSE /\ needMoreFrames' = FALSE
    /\ UNCHANGED <<env, host, flags, vsync, vsyncPending, wheel, frame, ui,
                   resume, history>>

(* RequestVsyncFrame() on the vsync thread: the handle is read, the flag   *)
(* exchanged, the handle read again and passed to RequestFrame, where a    *)
(* null handle is an error nobody looks at.                                *)
AskHandle ==
    /\ vs = "ask"
    /\ vs' = IF vsync THEN "exchange" ELSE resume
    /\ UNCHANGED <<env, surfaceMutex, host, flags, vsync, vsyncPending, wheel,
                   framePresented, frame, ui, resume, shouldRender,
                   needMoreFrames, history>>

ExchangePending ==
    /\ vs = "exchange"
    /\ vsyncPending' = TRUE
    /\ vs' = IF vsyncPending THEN resume ELSE "frame"
    /\ UNCHANGED <<env, surfaceMutex, host, flags, vsync, wheel,
                   framePresented, frame, ui, resume, shouldRender,
                   needMoreFrames, history>>

RequestFrame ==
    /\ vs = "frame"
    /\ frame' = vsync
    /\ vs' = resume
    /\ UNCHANGED <<env, surfaceMutex, host, flags, vsync, vsyncPending, wheel,
                   framePresented, ui, resume, shouldRender, needMoreFrames,
                   history>>

-----------------------------------------------------------------------------
Callback ==
    \/ OnSurfaceCreated \/ OnSurfaceCreatedFails \/ OnSurfaceChanged
    \/ OnSurfaceShow \/ OnSurfaceHide \/ DestroyVsync
    \/ FeedOutput \/ DispatchAxisEvent \/ SetConfig \/ unbindNative
UIContinues ==
    \/ OnFrameTickResizes \/ SetConfigEnds \/ UIRequestsFrame
    \/ JoinTick \/ CleanupSurface
Tick ==
    \/ OnVsyncFrameCB \/ DrainWheel \/ ConsumeFlags \/ Draw \/ Present
    \/ AskHandle \/ ExchangePending \/ RequestFrame

Next == Callback \/ UIContinues \/ OnFrameTick \/ pollTick \/ Tick

Safety == Init /\ [][Next]_vars

(* A call that began goes on and a tick that is requested runs, as threads *)
(* do; a timer and a frame callback get their turn in the UI thread's      *)
(* queue however many other callbacks there are.                           *)
Fairness ==
    /\ SF_vars(UIContinues)
    /\ WF_vars(Tick)
    /\ SF_vars(OnFrameTick)
    /\ SF_vars(pollTick)

Spec == Safety /\ Fairness

-----------------------------------------------------------------------------
(* Once a surface is gone no tick is in flight: the teardown has joined    *)
(* the vsync thread, which never draws for a host without a surface.       *)
TickHasSurface ==
    surface = "none" => vs = "idle" /\ surfaceMutex = "free"

(* A frame that is being drawn keeps its renderer and its surface until it *)
(* is flushed, whatever the UI thread does: phase 2 of OnVsyncTick.        *)
DrawKeepsSurface ==
    vs = "drawing" /\ shouldRender => Visible /\ surface = "shown"

(* No interleaving of the surface callbacks with a tick lets one run or    *)
(* draw without the surface and the renderer it works on.                  *)
DrawsHaveSurface == TickHasSurface /\ DrawKeepsSurface

(* Destroying a surface ends, although it waits for a tick that waits for  *)
(* m_surfaceMutex (DestroyVsync before the lock, OnSurfaceDestroyed).      *)
DestroyEnds == ui = "join" ~> surface = "none"

(* The frame request got lost: m_vsyncPending is set, but nothing will     *)
(* reset it (see CanRequestAgain).                                         *)
Wedged == vsyncPending /\ ~frame /\ vs # "frame"

(* Content that changed while the surface is visible is drawn, unless the  *)
(* surface goes away: the race of RequestRender() with the flags a tick    *)
(* consumes loses no wake-up.                                              *)
ContentIsDrawn == undrawn /\ Visible ~> ~undrawn \/ ~Visible \/ Wedged

(* A flushed buffer is sampled by ArkUI while the controller is bound: the *)
(* poll that drains the flag between the draw and the signal comes again.  *)
FramesAreLatched == unlatched /\ bound ~> ~unlatched \/ ~bound

(* Wheel lines coalesced on the UI thread are sent by a tick.              *)
WheelIsSent == wheel /\ vsync ~> ~wheel \/ ~vsync \/ Wedged

(* What reaches the host on the UI thread is carried on by a tick: changed *)
(* content to the screen, wheel lines to the terminal.                     *)
TicksCarryOn == ContentIsDrawn /\ WheelIsSent

(* The terminal gets the size of its window, also when a surface replaces  *)
(* an earlier one whose pending resize was dropped by StopRenderLoop().    *)
GridFitsWindow ==
    staleGrid /\ Visible /\ bound ~> ~staleGrid \/ ~Visible \/ ~bound

(* "Reset pending flag so CreateVsync can request again immediately."      *)
(* (DestroyVsync): on a live handle, a pending flag stands for a frame.    *)
CanRequestAgain == vsync => ~Wedged

=============================================================================
