# fish-term in TLA+

fish-term is a terminal for HarmonyOS. Tabs hold terminals; the PTYs live on a
*fish-agent* server and are reached over WebSockets, so that a tab survives a
dropped connection, a suspended application and a restart: the server keeps the
PTY, and a reconnecting client is sent the output it missed (the *replay*). A
second kind of driver runs a local shell or an SSH session in C++ threads. The
terminal emulator (libghostty) is a prebuilt library; the host around it, the text
functions on top of it and the renderer are native code of this repository.

Everything written in ArkTS (`entry/src/main/ets`) runs on one UI thread: a
handler, a timer callback or a promise continuation runs to completion, and what
interleaves is *which one comes next*. The C++ parts have real threads and locks.

## 1. Inventory

| component | state it keeps | operations | what makes it correct |
|---|---|---|---|
| **WebSocket driver** `transport/FishWebSocketDriver.ets`, `Backoff`, `FishUrl` | socket, connected / manualStop flags, reconnect, heartbeat, flush and replay timers, session id, output batch | start, stop, onForeground, reconnectNow, five socket events, five timers | never gives up unless stopped; stop is final; timers match the state; no output stranded; the live PTY is not replaced |
| **Terminal session** `session/TerminalSession.ets` | started / stopped, start-retry timer, sessionWasReset | start, stop, driver callbacks | starts once the surface has a size; the screen shows one session, in its modes |
| **Tab manager** `pages/Index.ets` | tabs, active tab, replay bookkeeping, save debounce, restore flags | open, close, switch, cycle, reorder, restore, page hide and disappear | the active tab exists; every closed tab's driver is stopped; what is saved is what is open |
| **Connection store** `store/ConnectionStore.ets` | preferences (tab list, active index), secrets in the asset store | saveSession, loadSession, tokens | what is loaded is what was saved |
| **Native host, render loop** `libghostty_ohos/.../napi_init.cpp`, `TerminalController.ets` | surface, vsync object, render flags | surface and vsync callbacks, resize, configuration, frame poll | a requested frame is drawn; no draw without a surface; teardown ends |
| **Native host, pointer and keyboard** `napi_init.cpp`, `terminal.cpp` | gestures, selection, pressed buttons | mouse, touch, wheel, key callbacks | a press the application saw is released; a local copy does not touch the application's drag |
| **Native host, input method** `napi_init.cpp` | owner of the process-wide input method, editor and proxy, preview text | attach, show, hide, detach, re-attach, keyboard report, text callbacks | one host owns it; objects end once; text and keys go to the same tab; no thread waits for itself |
| **Native host, input queue** `napi_init.cpp` | pending input, thread-safe function | EmitInput, SetInputCallback, drain | typed input is delivered once |
| **Example shell driver** `drivers/ExampleShellDriver.ets`, `cpp/example_driver.cpp`, `cpp/pty`, `cpp/ssh` | mode, running flag, PTY, reader threads, SSH session, password prompt, output buffer | start, stop, write (which completes an SSH login), resize, read loops | no thread outlives stop; a PTY is closed once; output is delivered once |
| **Terminal core** `terminal/terminal.cpp` | selection, search, links, viewport over libghostty's grid | text extraction, search, selection, scroll, resize | what is copied is what is shown; a match is brought on screen |
| **Renderer and fonts** `renderer/native_drawing_renderer.cpp` | window buffers, font metrics, glyph layout cache, cursor | begin / end frame, two passes over the cells, font and size changes, hit test | paints only into memory it holds; no layout of an old font; each cell shows its text and colours |
| **Notifications** `notifications/NotificationService.ets` | slots created, task states, per-tab ids | handle, dismiss, ensureSlot, publish | one notification per tab; dismissed ones do not come back |
| **Background task** `entryability/EntryAbility.ets` | backgroundRunning | start / stop at foreground changes | follows the visibility of the window |
| **Crash reports** `crash/CrashStore.ets`, `crash/CrashHandler.ets`, `crash_handler.cpp` | files, pending flag | save, load, markViewed, prune, setFlag, check at startup | a report is shown once, survives a crash, is not corrupted |
| **AI chat** `ai/AIChatService.ets` | socket, listeners, in-flight message | connect, send, disconnect | an answer reaches the request it belongs to |
| **File tree** `filetree/FileTreeModel.ets`, `components/FileTreePanel.ets` | tree of nodes, expanded set | merge, toggle, find | a listing updates the node it is for and keeps expansion |
| **UI components, themes, settings** `components`, `settings`, `theme`, `pages/*Panel.ets` | view state | builders | layout, no control state |

Interaction. The page owns one `TerminalSession` per tab; a session owns one
driver and one `TerminalController`. Calls go down (start, write, stop), callbacks
come up *inside* the callee's handler (output, status, session id, session reset,
replay state, task event). The controller owns a native host, which it polls every
frame; the host owns the terminal core and the renderer, is called by the surface and
vsync callbacks of the system and by the pointer, key and input-method callbacks, and
hands typed input back to the session. The page persists through the store, which
awaits preferences and asset-store calls; it tells the notification service about task
events; the ability starts the background task when the window hides.

What is hard here:

* sockets: a driver creates a new socket without detaching the old one's
  handlers, so late events of an old socket reach the driver;
* timers racing events: backoff, replay quiet and guard timers, the start poll,
  the save debounce, the staged restore of the tabs;
* `await` in the middle of a save, of a notification, of a background task;
* crash and restart: what was saved, what the server still has;
* native threads: vsync, surface and input callbacks, the input method's process, the
  PTY and SSH readers, each with locks of its own;
* a process-wide input method that tabs take from each other;
* absolute row numbers over a screen that scrolls, and cells that span two columns.

`PROJECT.json` lists each hazard at its line, with the properties aimed at it.

## 2. Plan and where it stands

All the modules planned for the path from the keyboard and the server to the screen
are written:

1. `FishDriver` and its proofs; `TerminalSession` on top of it, which is shown, and
   proved, to use the driver as the driver's specification allows.
2. `TabManager` and its proofs, with the connection store (restore, debounced saves,
   closing, kills).
3. `RenderLoop` and its proofs: the native host's two threads.
4. `InputDispatch` and its proofs: pointers and keys of the native host, and the
   selection.
5. `ImeAttachment` and its proofs: which host owns the process-wide input method.
6. `OutputChannel`, `EmitQueue`, `ShellDriver` and their proofs: the abstract channel, the hand-over
   of output that implements it, and the driver's three threads that use it.
7. `TerminalText` and its proofs: text, links, search and selection of the terminal core.
8. `GridRenderer` and its proofs: the frame, the glyph cache and the cells of the renderer.

Left: the services of the page (notifications, background task, crash reports), the AI
chat and the file tree (section 6).

Composition: `TerminalSession` EXTENDS `FishDriver` and takes a step of both at once,
as the code does; `ShellDriver` EXTENDS `EmitQueue`, which instantiates `OutputChannel`
with a refinement mapping; `ImplementsDriver` and `ImplementsChannel` are those
specifications as properties of the larger ones. The other modules meet at calls whose
effect is a free choice on either side (output arrives, the mode changes, a surface is
created), so that each is checked against everything the others can do.

## 3. What is modelled

`PROJECT.json` maps every definition to the lines it stands for. The table says
what a module's state is.

| module | models | state | granularity |
|---|---|---|---|
| `FishDriver` | `FishWebSocketDriver.ets`, `Backoff.ets`; sockets and server are external | the driver's fields by name; `sock`: what each socket can still report; `live`, `used`: the server's PTYs; `upcall`: the callbacks of the last step | one action per handler or timer: each runs to completion on the UI thread |
| `TerminalSession` | `TerminalSession.ets`; EXTENDS `FishDriver` | `started` and `stopped` flags, the poll timer, `sessionWasReset`; `screen`: the sessions whose output is on it; `mouse`: whose modes are set | a driver action with what its callbacks do, in one step, as in the code |
| `TabManager` | `Index.ets`, `saveSession`/`loadSession` of `ConnectionStore.ets` | tabs, active tab, runtimes, titles, restore stage, save debounce; `saves`: the calls in flight and where they await; `mem`, `disk` | one action per method, timer or continuation; a save is three steps (tokens, put, flush), the first only if there are tabs |
| `RenderLoop` | the surface callbacks, `OnVsyncTick`, `RequestVsyncFrame`, `OnFrameTick`, `SetConfig` of `napi_init.cpp`, and the poll of `TerminalController.ets` | flags, mutex holder, and where the UI thread (`ui`) and the vsync thread (`vs`) stand | one action between two shared accesses; the sections under `m_renderMutex` are one step |
| `InputDispatch` | `DispatchTouchEvent`, `DispatchMouseEvent`, `DispatchAxisEvent`, `DispatchKeyEvent`, `HandleImeMoveCursor` of `napi_init.cpp`, selection and mouse reports of `terminal.cpp` | one record per gesture, the selection, the viewport, what the application was told | one action per callback, the two streams of one click in either order |
| `ImeAttachment` | attach, show, hide, detach, re-attach, keyboard reports and text callbacks of the hosts in `napi_init.cpp`; the framework is external | `ime`: owner, registry, every host's editor and proxy, the framework's binding; `ui`, `cb`: where the UI thread and a callback stand; `reapers`: the background threads; `preview`, `tail`: the count the host keeps and the preview text that is really there | one action per callback of the UI thread if it makes no framework call under a lock others need; detaching, a keyboard report and a preview text in several steps, since callbacks have a thread of their own and a framework call may call back |
| `OutputChannel` | what a driver's output promises | pieces produced, on their way, delivered; callbacks released | abstract |
| `EmitQueue` | `EmitOutput`, `SetOutputCallback`, `ClearOutputCallback`, `DrainOutput` of `example_driver.cpp` (and their twins for input in `napi_init.cpp`) | the buffer, the callback, what each thread is about to hand over, the queued calls | one action per section under `m_outputMutex` and per call of the thread-safe function |
| `ShellDriver` | `ExampleDriver` of `example_driver.cpp`, `pty_handler.cpp`, `ssh_session.cpp`, `ExampleShellDriver.ets`; EXTENDS `EmitQueue` | mode, descriptors, children, the local reader and the SSH reader and where each stands, the UI thread's place in `Stop()` and in a write | one action between two points where another thread can step in |
| `TerminalText` | selection, copy, links, search, viewport and `feedOutput` of `terminal.cpp` | rows of cells, viewport, selection, matches | one action per call: each holds `m_stateMutex`; what a call returns is an operator |
| `GridRenderer` | `native_drawing_renderer.cpp` with `SetConfig`/`SetDensity` of the host | the window's buffers, the frame's place and canvas, the metrics, the layout cache | a frame in steps (request, grid, cell passes, cursor, flush), a setting in the steps between which a frame can fall |

What each abstracts:

* `FishDriver`: a frame of output is the session that made it; a delay is the number
  of attempts; the heartbeat's content and `write`/`resize` (which only send) are left
  out. Events of *every* socket that was ever opened are possible, because the
  handlers do not ask whether their socket is the current one.
* `TabManager`: a tab is told by the session it shows, a title by the session that set
  it. The store's failure paths (which log and give up) are not modelled, and a save's
  two secret-store calls are one step.
* `RenderLoop`: no pixels; `undrawn`, `unlatched` and `staleGrid` say whether the last
  content, buffer and size went through. The input method and fonts are left out, and a
  surface is shown again with the size it had (`OnSurfaceShow` 727-730 can take another).
* `InputDispatch`: a cell is its viewport row. The thresholds `MOVE_THRESHOLD`,
  `LONG_PRESS_MS` and `MULTI_CLICK_MS` are a free choice, because the model has neither
  time nor pixels; the screen and its scrollback (libghostty) are seen through the
  scrollbar only. One pointing device acts at a time. Keys reach the host that has
  them; their routing to the owner of the input method is in `ImeAttachment`.
* `ImeAttachment`: text is a count of preview characters. The framework is modelled by
  what the code and its comments say of it: it binds one editor of the process, a call
  with a superseded proxy blocks, it may report the keyboard inside a call of the host,
  it finishes a composition before `HideKeyboard` or `Detach` return or another client
  takes the binding, it sends `Insert`, `Delete` and `Enter` only then, `ShowTextInput`
  succeeds just if the proxy is bound. Its callbacks run one at a time, at any moment, on
  a thread of their own (the comment at 2829-2830) or inside a call of the UI thread (the
  one at 771-774); a keyboard report may come at any time, which is more than a keyboard
  sends. The backspaces and the text of a preview are one step, their count another, a
  `FinishPreview` one step: a key *among* the backspaces of one callback is not modelled.
  `GiveUpOwner` also takes the editor out of the callbacks' table, which only callbacks
  read. A handle that nobody holds is used again. A host whose report is being handled is
  not freed under it. Allocation succeeds, and a hidden tab's surface events do not come
  during a composition.
* `ShellDriver`, `EmitQueue`: output is numbered pieces, a chunk that was read is what
  the driver makes of it (text, the trigger of a login, the start of one). Of the
  network, only whether it connects and when the session ends.
* `TerminalText`: a cell is a character, a half of a wide glyph, or unwritten; UTF-8
  gives every character one place. libghostty's scrollbar and its grid are modelled
  from how `terminal.cpp` reads them.
* `GridRenderer`: widths are whole units, the canvas is the list of what was painted, so
  that what is on top can be told; heights, the shapes of builtin glyphs and the colours
  of a theme are left out. The drawing library is external.

## 4. The runs

| run | asks | answer |
|---|---|---|
| `driver_overlap` | two sockets whose events mix with timers and the owner's calls in any order, a server that may refuse or replace a dead session: are timers, flags and batch consistent, is the connection backed by a socket, is stop final, does every replay end and every pending reconnect happen? | yes |
| `session_orderly` | a tab whose sockets do not overlap: is the driver used as specified, is the live PTY kept, do screen and modes belong to one session, and does a tab connect when its size comes late? | yes |
| `tabs` | opening, closing in bursts, switching, drags, renames, titles, names, replays, shortcuts during the restore, two saves in flight, page hide and disappearance, and a kill at any moment, in the middle of a restore or a save: is the strip consistent, every change saved, no saved session lost, every saved tab back, and does a live title win over a restored one? | consistent, every saved session back, a live title wins: yes. Every change saved, none lost: with the exceptions the properties name. Drags and renames wait for another save, as does what a shortcut did before the restore was over (until the next change); overlapping saves and a save after the disappearance can leave an older or an empty session on the disk (section 6) |
| `render_loop` | both threads at every interleaving: does teardown end and leave no tick, is content drawn, a buffer sampled, the wheel sent, the grid fitted? | yes, unless the frame request was lost as in `render_wedge` |
| `render_wedge` | does `DestroyVsync()` leave the pending flag reset (napi_init.cpp:931)? | no: a tick between its null check and its exchange sets it again |
| `input_pointer` | two buttons and a finger, two streams per click, output and mode changes in between: one link per click, every release reported, the local copy equal to the application's drag, one highlight, a still anchor? | yes |
| `ime_owner` | two tabs that take the input method from each other, lose it, are hidden and destroyed, with callbacks on a thread of their own and inside the calls: does every editor end once, do text and keys go to one tab, does no call block, does a composition erase its own preview only? | no call blocks, no editor leaks: yes. The rest with the exceptions the properties name, each a race of a callback with the UI thread or an attachment in mid-composition (section 6) |
| `ime_hide` | does the UI thread never wait for a mutex it holds (775-776)? | no: `OnSurfaceHide()` hides the keyboard under the mutex its report takes |
| `shell_threads` | a shell started, stopped and restarted while its readers run, with a login, its cancellation and the end of the remote session: is each descriptor closed and each child reaped once and used no more, does a connected session keep the input, is output delivered at most once and lost only with a callback, does `Stop()` return? | yes; a session loses the input to what comes after its newline in one write (section 6), to nothing else |
| `text_screen` | rows with wide glyphs, links and unwritten space, selected, searched, scrolled, overwritten: is what is highlighted what is copied, do copying, searching and links read the same characters, is the selected match on screen, in its colours or in those of a selection over it? | yes (not a match in the oldest row, section 6) |
| `text_drift` | does a selection keep its text when output arrives (terminal.cpp:418-422)? | no: absolute rows are shifted by the viewport's movement |
| `renderer_frames` | frames while the font changes step by step and the surface comes and goes: is what is painted alive, the cache of the current font, every cell above every background, a click on the cell it shows? | yes |

Properties are conjunctions of named parts: `SocketsMatchState` for instance is
`ConnectedHasOpenSocket` and `NeverStranded`, `OneSession` is the session's types, its
current socket, its screen and its mouse modes. The parts are what the proofs use; a run
names the conjunction.

Bounds, and why they are enough:

* driver and session: two sockets are enough for an old socket's event to meet a new
  one's, two session ids for a replacement. `FlushThreshold = 2` lets a batch be flushed
  by its timer and by its size; `AttemptCap = 2` tells the base delay from a grown one.
* tabs: two tabs and two saved ones let a burst close the active tab and its heir, and a
  kill fall between two restored tabs; one kill is enough, since a restart reads nothing
  but the disk and `Init` already allows every disk with that many tabs. `MaxSaves = 2`
  lets one save overlap another. `Reporters` says which of the sessions reports names,
  titles and replays, and which tab is renamed: one of the two, so that such a tab meets
  one that does not. `Kinds` says which kinds of events go together in a life of the
  process: the first is one of {new names, overlapping saves}, {drags, renames} and
  {titles, replays}, the life after a kill one of {names, titles, shortcuts during the
  restore} and {overlapping saves}. Opening, closing, switching, statuses, hiding,
  disappearing and the timers of a page that is gone belong to every life; each exception
  the properties name is necessary in this run (dropping one makes TLC find a
  counterexample).
* render loop: no bound; its state is finite with the code's own
  `TrailingFlushFrames = 2`.
* pointer: two rows make a drag with a direction, and one row of scrollback makes the
  viewport move and the oldest row drop.
* input method: two hosts, two editors (an editor can be recreated), three handles in use at
  a time; `MaxErase = 1` lets the cap on erased preview text bind. The history variable
  `races` records what fell between two steps of the other thread.
* shell: three PTYs are two restarts, three callbacks are one that was never released,
  one that was and one that replaces it; three pieces of output are one for each thread.
  `Inputs` has every key alone, and a newline with a newline or `^C` behind it.
* text: `Starts` has every scrollback of two and three rows of three columns over a
  viewport of two, and four of the largest size; a row ends in a wide glyph, or has a link,
  a full stop that ends it and unwritten cells. The search texts are a character and what
  is selected.
* renderer: two rows of three columns; the screens have every kind of cell next to every
  other, the third window buffer is the one a leak would miss, `MaxGlyphs = 2` makes the
  cache evict during a frame, and a window of 8 leaves a right margin; the cursor is on the
  first cell, a builtin glyph on a background in one screen and an inverse letter in the
  other, where it is repainted after the runs of backgrounds.

Deadlock is checked wherever the system can always go on. `tabs` says
`CHECK_DEADLOCK FALSE`: a page that has disappeared, with nothing left to save, stops;
`ime_owner` because of what `ime_hide` shows.

Fairness.

* `FishDriver`: `setTimeout` callbacks fire (weak fairness of the reconnect, flush
  and guard timers) and a socket that reported a failed connect reports its close. The
  quiet timer is *not* fair: frames may re-arm it for ever, and the guard timer is the
  reason a replay still ends. The network, the server and the user owe nothing.
* `TerminalSession`: also the 50 ms poll.
* `RenderLoop`: the vsync thread's next step (weak). The UI thread's continuations, the
  frame callback and the poll are strongly fair: they sit in the UI thread's FIFO
  queue, so that other callbacks delay but never starve them. Surface callbacks and
  output owe nothing. The frame callback rests on ArkUI calling it again and again while a
  surface is shown; the comment at 797-799 says that it pauses an idle page, so a pending
  resize may wait for longer than `GridFitsWindow` says.
* `ShellDriver`: a thread that has started goes on (weak fairness of the UI thread's
  continuations, the local reader, a hand-over, a release); a remote session that is told
  to stop leaves its loop, because its sockets do not block. The user, the shell and
  the network owe nothing.
* `TabManager`, `InputDispatch`, `ImeAttachment`, `TerminalText` and `GridRenderer` state
  safety only.
## 5. What is proved

TLC checks small instances; the theorems hold for every value of the constants, under the
modules' named assumptions about them (`ConstantsAssumption`, `TrailingAssumption`,
`QueueAssumption`, `DriverAssumption`, `SizeAssumption`, `ImeAssumption`,
`TabAssumption`, `TextAssumption`, `RendererAssumption`), which TLC evaluates in every run. All are safety
properties.

**The WebSocket driver** (the first part of `TerminalSessionProofs`). The invariant `DriverInv` is `TypeOK` and
the named parts of `TimersMatchState` and `SocketsMatchState`; it is inductive only as a
whole: that a started driver always has something to wait for needs that a pending
reconnect is cancelled by `stop()`, which needs the types of every socket's events, since
the event of *any* socket can come. One lemma per part, one step per handler. From it:
`TypeCorrect`, `TimersCorrect`, `SocketsCorrect`, and, as an action property, `StopFinal`:
no step after `stop()` opens a socket. They hold for any number of sockets and sessions,
any threshold and any attempt cap, overlapping or not.

**The render loop** (`RenderLoopProofs`). `LoopInv` is the types with three facts about
where the two threads stand: which of them holds the surface mutex (`LockInv`), that the
vsync object is in use only between its creation and the return of `DestroyVsync()`
(`HandleInv`), and that `drawFrame()`, once it has checked, keeps what it checked
(`DrawKeepsSurface`). The last is not inductive alone: it holds because the teardown waits
for the mutex the tick holds. `LoopTypeCorrect`
and `DrawsProtected` hold at every interleaving and for any number of trailing redraws.

**The hand-over of output** (the first part of `ShellDriverProofs`). `QueueInv` says where a piece can be: in
the buffer, with the UI thread that swaps the callback, with one producer, or in one
queued call, and in one place at a time (`InOnePlace`); that what is on its way was
produced; and how a callback lives, from its creation over its replacement to its release
(`Callbacks`). `HandOverImplementsChannel` shows with it that every step is a step of
`OutputChannel` or a stutter, under the refinement mapping `InTransit`. It is stated of
`QueueInit /\ [][QueueNext]_queueVars`, so it holds for any set of threads, and for the
input queue of the host as well.

**The shell driver** (the rest of `ShellDriverProofs`). `StepIsQueueStep`: each of its actions is a
step of the hand-over or leaves it alone, which gives `ShellImplementsChannel`. `ShellInv`
adds to the types what `Stop()` has reached (`ReaderJoined`, `SessionJoined`,
`PtysOrdered`): a pseudo terminal is closed only after its reader was joined, a shell
opened only after the session was. From it `ShellPtysEndOnce` (for any number of
restarts) and `ShellSessionHasInput`, for any writes: a connected session has the input
unless its history flag says that a key behind the newline took it.

**The session** (the rest of `TerminalSessionProofs`). Each step of a session is a step of its driver
that it hears, or leaves the driver alone (`SessionSteps`), because only a stopped session
has a stopped driver (`OwnerInv`); this gives `SessionImplementsDriver` without any
assumption on sockets or server, and with it every theorem about the driver holds of the
driver in a session. What the tab shows is proved under `Tidy`: sockets do not overlap,
and the server replaces dead sessions and names a session before its output. These are the
conditions of the run `session_orderly`; without them the properties fail (section 6).
`TidyInv` says that then there is one socket, the driver's own until it is stopped
(`OneSocket`), that a socket which named a session named the last one announced
(`ToldSockets`), and that the batch holds output of that session only (`BatchIsTold`);
`KnownInv` that the URL in use asks for the session that is known. From them
`TabShowsOneSession` and `LivePtysAreKept`.

**The pointer** (`InputDispatchProofs`). The four properties of the two mouse streams
follow from `InputInv`: which button an event was made with and that a finger excludes the
mouse (`DeliveryInv`), which stream may still open a link (`LinkInv`), that a gesture ends
with its buttons (`GestureInv`), and that an application which believes a button is down
still hears of the mouse and began the drag where the host did (`AppInv`). The last is the
core: it holds because the output that switches the modes off also makes the terminal
forget the press, and because only the start of a drag moves the anchor (`StepAnchor`).
The theorems hold for any viewport and any scrollback.

**The input method** (`ImeAttachmentProofs`), without a hypothesis on where callbacks
run. Five holders of links must agree: the hosts, the table of the callbacks, the
framework's binding, the running callback and the background threads. `Sound` says it of
all: everything held was made before (`Numbered`), no two hold the same editor (`Apart`),
the table names the host that holds an editor or whose callback carries it (`Registered`),
the framework binds an editor with the proxy of the same attachment (`Linked`), the owner
is bound or nobody is (`Owned`), and no call hangs. `Threads` says where the UI thread and
a callback stand; `EditorsAccounted`, itself inductive with these, where every editor is
that was ever made; `Composed` that the count of preview characters, stored or about to
be, is that of the text that is there. What the UI thread does when it attaches, shows or
focuses a host is one step made of several changes; `Serves` is what each of them, and
their composition, may do. The races the properties name are part of the invariant: the
history variable `races`, and the mark `lost` of a binding. From it `EditorsEnd`,
`TextFollowsKeys`, `CallsReturn` and `PreviewIsOwn`, for any number of tabs, editors,
attachments, keyboard reports and background threads.

**The tabs** (`TabManagerProofs`). `PageInv` is the strip (`Strip`: types, ids smaller than
the next one, the active tab, the runtimes), the rest of the types, `RestoreInv` (how far
the restore is, and that nothing is saved before it is over) and `ChangesAreSaved`; it is
inductive for every value of the constants: any number of saves in flight, shortcuts
during the restore, timers of a page that is gone. It gives `TabsConsistent` and
`LiveTitlesWin`. Three more invariants rest on it, none with a hypothesis; where the code
keeps no promise the properties themselves name the exception, as a history variable of
the page. `InFlight`: a save that overlaps no other passes and puts what was saved last;
with it `NewestIsSaved`. `Undisturbed`: until a shortcut comes, the tabs opened so far are
the first of the saved ones, in their places. `Accounted`: every session of any version of
the saved tabs, on the disk, in memory or in flight, is in the last snapshot or has ended,
and every session of the last snapshot, or restored so far, is open or has ended. With
these `RestoreCompletes` and `NoTabIsForgotten`. The filters of the strip and the bursts of closings are
recursive functions over sequences. The induction their facts need is done on sets of
indices: `Least` (a set of naturals has a least element, from the library's `WFMin`),
`UpTo` and `Recursion` (a recursion over `1..N` has a solution).

**The renderer** (`GridRendererProofs`). A setting is carried out in steps between which
a frame can fall, and a frame is cut at every point where a setting can come. `RenderInv`
is `SettingsInv` (the steps still to do are in their order: after a new size the
dimensions, after a new family the clearing), `FrameInv` (which buffer is held at which
point of a frame) and `CacheInv`. The core is its last part: with fonts loaded, either the
next step of the setting goes on to clear the cache, or every layout in it is of the font
that is set; frames only add layouts of that font. From it `PaintsLive` and `GlyphsFresh`,
for any number of rows, columns, fonts, sizes and layouts, whichever half of the cache an
eviction takes. The layouts a frame asks for while it measures are a recursion over its
cells, treated as in `TabManagerProofs`.

`ClickHits` is about the search for a column: where the cells of a row begin is a recursion
over their widths (`RowMetrics`), which is in order (`BeginsInOrder`); the binary search of
`mapXToCol()` is a function on pairs of bounds, of which `SearchExists` and `SearchHits`
show by induction on their distance that it is defined and finds the one cell the point is
in. `FrameShows` is about the canvas: `FlushBacks`, `AddCellKeeps` and `BackgroundsFacts`
say that the runs of one background a row is painted with cover each shown cell exactly
once and in its colour, `EarlierApart` and `LaterApart` that what is painted elsewhere
leaves it so. `ShowInv` is the inductive invariant that puts the steps together: while no
setting has come between them, the rows the first pass is done with are backed, the cells
the second pass is done with are shown, and the second pass fills nothing, so that it
covers no glyph. Of the screens it assumes (`RendererAssumption`) that the tail of a wide
cell follows it in its row, as libghostty writes them; without it cells overlap.

**The terminal's text** (`TerminalTextProofs`). The state invariant `TextInv` is small: the
viewport lies in the scrollback (`BufferInv`), a batch of output moves the selection by a
row at most (`SelectionInv`), and the matches of a search lie in the scrollback, strictly in
its order, and are equally long (`SearchInv`). What the properties compare are traversals
of cells, written as recursive functions; the lemmas say of each what it computes, for any
row: `OccurrencesFacts` (a search finds every place where the query stands, in order),
`ShowsGrows` and `TrimmedIsCut` (to cut the text of a row at the offset of a column is to
cut the row there), `GlyphsPlain`, `FlattenFunction`. From them `SelectionSound`,
`WholeScreenCopied` and `SearchFinds`. `MatchShown` (the paint order of `drawFrame()`, the selection over the
matches, is in `PaintedAs`) needs two more: `FirstIsSelected` (no
match before it covers the last cell of a match, because they are ordered and equally
long), and `MatchInViewport`: the probe of the scroll direction adds at most a row to the
way to the match. For that the screen must have two rows; on a single one the theorem
fails, the probe takes the viewport past the match. The theorems hold for any screen,
scrollback, rows, queries and number of batches; of what libghostty writes they assume
that the tail of a wide glyph follows it in its row.

Every safety invariant that a run checks is stated by a theorem. Only model-checked: all
liveness (`WaitsEnd`, `StartsWhenSized`, `StopReturns` and the like), which is out of the
prover's reach, and nothing else.

## 6. Findings and known divergences

The violation runs are listed in `PROJECT.json` with the lines that disagree. Met while
modelling, and not listed as runs:

Driver and session

* "session not found" empties `sessionId` before the server announces the replacement,
  so the reset callback (which compares with the old id) is not called and the screen
  keeps the dead session's output (FishWebSocketDriver.ets:406 against 426-429).
  `session_orderly` therefore has a server that replaces a dead session at once.
* With two connects in flight the server may give the second a fresh PTY while the old
  one lives; the reset callback then reports a replacement (430, comment at 123-126).
  `Orderly = TRUE` excludes this; `driver_overlap` does not.
* A reset flag set outside a replay stays set, and the next replay of the *same* session
  clears its mouse modes (TerminalSession.ets:164 against 152-153). The step is in the
  model; `MouseModesAreShown` asks only that no mode of a replaced session stays on.
* A late close of a replaced socket stops the heartbeat of a connection that is up and
  reconnects needlessly (241-262): flags and timers stay consistent, which is what
  `TimersMatchState` and `SocketsMatchState` ask; no property forbids the reconnect.

Page

* Two saves in flight may finish out of order, and the older one stay on the disk:
  `doSaveSession()` does not await them (Index.ets:843 against 791-793). A session the
  newer one has is then forgotten by the next start. `overlapped` records it.
* Dragging a tab (781-789) and renaming one (749-755) schedule no save: the new order or
  title is lost by a kill before anything else is saved. A rename within the 500 ms after
  a restore is undone when the saved titles are applied again (287-295), because only
  titles set by programs are marked as live. `unscheduled` records both.
* The overlay of the tab before stays over a new tab: `openTab()` does not update it
  (Index.ets:910, 944 against 100-101).
* `aboutToDisappear` saves and then stops the sessions, whose statuses schedule one more
  save; its timer is not cancelled, and the save it makes has no runtimes and so no tabs:
  unless the process ends first, it empties the saved session (Index.ets:417-422). `late`
  records it.
* The shortcuts (1519-1523) work while the tabs are being restored. A tab opened then
  makes the restore mistake it for one of the saved ones: titles and the active tab are
  off by one. If nothing is restored, a tab opened before the session is loaded stays
  unsaved until the next change. `early` records it.
* Closing a tab within the 500 ms before titles are applied again shifts them by one;
  `LiveTitleWins` protects only live titles.
* A kill between the removal and the addition of a token loses it
  (ConnectionStore.ets:583). Switching the restore of tabs on later has no effect until
  the next start (Index.ets:806).

Render loop and pointer

* The trailing redraws are not requested unless the cursor blinks (napi_init.cpp:865
  against 107-108).
* `SetConfig` writes to the renderer without `m_surfaceMutex` while a tick may be
  drawing with it (napi_init.cpp:2139 and 881, although 2430-2433 of terminal.cpp say it
  is guarded). The overlap is in `RenderLoop` and in `GridRenderer`.
* A click while a selection is painted dismisses it in the synthesized touch's press if
  that comes first; the mouse press then finds none and the same click opens a link
  (napi_init.cpp:1571).
* A cancelled mouse press is not reported to the application (1604-1611).
* A selection the application owns stays unpainted if it stops tracking mid-press.
* A shifted letter leaves `m_shiftHeld` set, so that a plain arrow selects afterwards
  (1013 against 1065-1070); `HandleImeMoveCursor` does not consume it either.

Input method

* `HandleImeKeyboardStatus` gives the ownership up after it has released the mutex
  (2844). A tap in between attaches again and loses what it has just attached: the tab
  gets text but hardware keys go to whatever tab is in front, and if that tab is then
  destroyed, `DetachImeLocked()` does not detach, since the host is not the owner: the
  framework keeps an editor that is destroyed. The binding is marked `lost`.
* `DetachImeLocked` reads `m_imeTextEditorProxy` up to its destruction without the mutex
  (2579-2582), and a dismissal may take it in between: the editor is then destroyed by
  both. `races.taken` records it.
* The count of a preview text is stored after the text (3056-3063): a key, a change of the
  tab or a dismissal that resets it in between is undone, and the next preview erases what
  was typed. An attachment that ends a composition does not reset the count: a tap after
  the keyboard's binding was lost, for instance. `races.crossed` records both.
* A failed attach of a tab leaves text and keys with the tab before it (989, 2555); a
  failed re-attachment leaves the owner without a proxy.
* `TryInitialize` of a late surface attaches whether or not its tab wants the input method.
* An insert after a preview without `FinishPreview` keeps the count; what ArkTS writes
  (a paste) during a composition is erased with it; text delivered late goes to a hidden
  tab.

Shell driver

* The mode is read before the blocking read, so the prompt after ^C is dropped; after the
  remote end has closed, the mode stays `RemoteSsh` and input is dropped.
* `HandlePasswordInputLocked` (618-645) goes on with a write after its newline has
  connected: what follows is taken for password keys instead of going to the session. A
  second newline connects again with an empty password (`\r\n` does); if that succeeds the
  first session is replaced, and if it fails (664), or if `^C` follows (622), the local
  shell has the input while the session stays connected, gets no input and still writes to
  the terminal. `SessionHasInput` names this exception with the history flag `left`, and
  fails without it. While a session is replaced (its reader is joined under `m_mutex`) the
  new one's output is not modelled yet: one reader counts at a time.
* `m_pendingEscapeBuffer` survives a restart and withholds the next shell's first output.
* The flush of `SetOutputCallback` and the re-queueing of a refused call reorder output,
  and a thread-safe function may be called after its release; `OutputChannel` promises no
  order for that reason.
* `EAGAIN` drops the rest of a write (677-693; ssh_session.cpp 178-196); a reaped child's
  number is kept and signalled; `libssh2_exit` never runs after a remote end;
  `Stop` tests `m_sshSession` outside `m_mutex`.
* `EmitInput` goes to the example driver whenever it runs. No page uses the class; 571-614
  and 834-944 of example_driver.cpp are unreachable.

Terminal text

* The search cannot bring the oldest row on screen (its probe leaves the viewport one row
  below), nor any match on a screen of one row, and does not follow output; selections in the oldest rows are dropped.
* `getSelectionCharCount` counts cells with content only, although 1693-1696 say
  otherwise; `extendSelection` moves the anchor's cell out when it extends to the left,
  against 1842-1844.
* A wide glyph's second column becomes a space, so a copied CJK text is not found again,
  and a link ends there. The selection is painted over the colours of the
  current match (2386-2412), so a match that was searched from a selection looks selected only.
* terminal.cpp 271-292 and 587-850 and terminal_state.cpp are called by nothing.

Renderer

* A line cursor on a text cell with a background of its own is painted over by that
  background, flushed later (the repaint at 607-608 is for builtin cells only);
  `FrameShowsCells` leaves that cell out. A block cursor in the last column colours the
  right margin.
* An evicted layout is never destroyed (1103-1105). `m_rowOffsets`, the cell width and the
  kind of font are written without a lock. Before fonts are loaded, a change of size keeps
  stale layouts until they are (`GlyphsAreFresh` requires loaded fonts).
* `OnSurfaceCreated` restores only the font family of a new renderer; its size and density
  come with `bindNative`. `m_framePresented` is set although no buffer was flushed; the
  cursor's rectangle is invalid in the dark half of a blink.
* The wait for a buffer's fence (bounded by 100 ms) and failures to allocate typography
  are not modelled; a renderer that fails to initialise is deleted, a step that changes
  nothing here. `updateCellDimensions` measures twice with the same layout; one step here.

Not modelled, and hazards already seen there:

* notifications: `createdSlots` is filled before the await it guards; a dismissal during
  `publish` comes too early;
* background task: `bgRunning` is set only when the start resolves;
* crash reports: `markViewed` and `setFlag` do not truncate (CrashStore.ets:142, 219); the
  fault-log query of every return to the foreground saves its entries again as not viewed;
* AI chat: a new socket does not detach the old one's handlers;
* file tree: a listing that arrives after its node was collapsed expands it again;
* `TerminalController` retries a size notification once (359); `Terminal::resize` writes
  the size before it locks (terminal.cpp:387);
* these services share no state with the path from the keyboard to the screen, whose
  components the models cover; layout, themes, settings pages, vendored headers, build
  tools and web assets have no control state to check; libghostty and the drawing,
  window and input-method frameworks are prebuilt and seen through their callers.
