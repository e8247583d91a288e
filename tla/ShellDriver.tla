---------------------------- MODULE ShellDriver -----------------------------
(***************************************************************************)
(* The example shell driver: ExampleDriver of example_driver.cpp with its  *)
(* local shell (pty_handler.cpp) and its remote one (ssh_session.cpp), and *)
(* the ExampleShellDriver.ets that starts and stops it.  Three threads run *)
(* it: the UI thread that starts, stops, writes and resizes, the thread    *)
(* that reads the local shell and the thread that reads the remote one.    *)
(* Their output goes through EmitQueue.  A pseudo terminal is its number,  *)
(* a chunk of output is what the driver makes of it.                       *)
(***************************************************************************)
EXTENDS EmitQueue

CONSTANTS
    MaxPtys,    \* pseudo terminals that are ever opened, a bound
    Inputs      \* what the user types or pastes at once into a password prompt

Keys == {"key", "cancel", "enter"}

ASSUME DriverAssumption ==
    /\ MaxPtys \in Nat /\ Producers = {"ui", "reader", "ssh"}
    /\ Inputs \subseteq Seq(Keys) /\ <<>> \notin Inputs

VARIABLES
    running,    \* m_running
    mode,       \* m_mode
    pty,        \* m_masterFd and m_writeFd, 0 for none
    ptys,       \* pseudo terminals opened so far
    closed,     \* how often each was closed
    child,      \* the shell on each: "none", "alive", "exited", "reaped"
    escape,     \* m_pendingEscapeBuffer holds the start of a trigger
    reader,     \* the local reader: where it is and what it has read
    joinable,   \* m_localReadThread.joinable()
    session,    \* m_sshSession: whether there is one, its m_running and m_connected;
                \* left (history): a key after the newline took the input from it
    sshAt,      \* where the session's reader is
    ui,         \* what the UI thread is doing
    ark,        \* started and startRetryTimer of ExampleShellDriver.ets
    asked,      \* shells that have been given something to answer
    broken      \* a closed descriptor was used, or a joinable thread replaced

driver == <<running, mode, pty, ptys, closed, child, escape, joinable, session, ark, asked, broken>>
vars == <<queueVars, driver, reader, sshAt, ui>>

Ptys == 1..MaxPtys
NoPty == 0
UiIdle == [at |-> "idle", starting |-> FALSE, data |-> <<>>]
Goes(at) == ui' = [ui EXCEPT !.at = at]
NoReader == [at |-> "none", pty |-> NoPty, mode |-> "local", chunk |-> "none"]
NoSession == [open |-> FALSE, running |-> FALSE, connected |-> FALSE, left |-> FALSE]
NewSession == [open |-> TRUE, running |-> TRUE, connected |-> TRUE, left |-> FALSE]

Init ==
    /\ QueueInit
    /\ running = FALSE /\ mode = "local" /\ pty = NoPty /\ ptys = 0
    /\ closed = [f \in Ptys |-> 0] /\ child = [f \in Ptys |-> "none"]
    /\ escape = FALSE /\ reader = NoReader /\ joinable = FALSE
    /\ session = NoSession /\ sshAt = "none" /\ ui = UiIdle
    /\ ark = [started |-> FALSE, retry |-> FALSE]
    /\ asked = {} /\ broken = FALSE

(* m_mutex is held over a call of the callback, and while a password is    *)
(* read.                                                                   *)
MutexFree(p) ==
    /\ \A q \in Producers \ {p} : ~flight[q].locked
    /\ p # "ui" => ui.at \notin {"password", "replace"}
Uses(f) == broken' = (broken \/ (f # NoPty /\ closed[f] > 0))
-----------------------------------------------------------------------------
(* The UI thread: Start() and Stop().                                      *)

UiReady == ui.at = "idle" /\ Settled("ui") /\ ~swapped.on

(* start() of ExampleShellDriver.ets: the terminal is attached, or the     *)
(* retry is due; without a size it tries again later.                      *)
ArkStart(sized) ==
    /\ UiReady /\ ~ark.started
    /\ IF sized THEN ark' = [ark EXCEPT !.retry = FALSE] /\ ui' = [UiIdle EXCEPT !.at = "stop", !.starting = TRUE]
       ELSE ark' = [ark EXCEPT !.retry = TRUE] /\ ui' = ui
    /\ UNCHANGED <<queueVars, running, mode, pty, ptys, closed, child, escape, joinable, session,
                   asked, broken, reader, sshAt>>

(* stop(): the callback is cleared first, then the driver is stopped.      *)
ArkStop ==
    /\ UiReady /\ (ark.started \/ ark.retry \/ callback # NoCallback)
    /\ SwapCallback(NoCallback)
    /\ ui' = IF ark.started THEN [UiIdle EXCEPT !.at = "stop"] ELSE ui
    /\ ark' = [started |-> FALSE, retry |-> FALSE]
    /\ UNCHANGED <<running, mode, pty, ptys, closed, child, escape, joinable, session, asked,
                   broken, reader, sshAt>>

StopKeepsRunning ==
    /\ ui.at = "stop" /\ ~swapped.on /\ Settled("ui") /\ MutexFree("ui")
    /\ session' = [session EXCEPT !.running = FALSE]
    /\ Goes("joinSsh")
    /\ UNCHANGED <<queueVars, running, mode, pty, ptys, closed, child, escape, joinable, ark,
                   asked, broken, reader, sshAt>>

StopBegins ==
    /\ ui.at = "stop" /\ ~swapped.on /\ Settled("ui") /\ MutexFree("ui")
    /\ running' = FALSE
    /\ session' = [session EXCEPT !.running = FALSE]
    /\ Goes("joinSsh")
    /\ UNCHANGED <<queueVars, mode, pty, ptys, closed, child, escape, joinable, ark, asked,
                   broken, reader, sshAt>>

(* disconnect(): the session's reader is joined, the channel closed.       *)
JoinSsh ==
    /\ ui.at = "joinSsh" /\ sshAt \in {"none", "done"}
    /\ session' = NoSession /\ sshAt' = "none"
    /\ Goes("join")
    /\ UNCHANGED <<queueVars, running, mode, pty, ptys, closed, child, escape, joinable, ark,
                   asked, broken, reader>>

JoinReader ==
    /\ ui.at = "join" /\ (joinable => reader.at = "done")
    /\ joinable' = FALSE /\ reader' = NoReader
    /\ Goes("close")
    /\ UNCHANGED <<queueVars, running, mode, pty, ptys, closed, child, escape, session, ark,
                   asked, broken, sshAt>>

CloseKeepsFd ==
    /\ ui.at = "close" /\ MutexFree("ui")
    /\ mode' = "local"
    /\ closed' = IF pty = NoPty THEN closed ELSE [closed EXCEPT ![pty] = @ + 1]
    /\ child' = IF pty = NoPty THEN child ELSE [child EXCEPT ![pty] = "reaped"]
    /\ asked' = {}
    /\ ui' = IF ui.starting THEN [ui EXCEPT !.at = "open"] ELSE UiIdle
    /\ UNCHANGED <<queueVars, running, pty, ptys, escape, joinable, session, ark, broken, reader, sshAt>>

(* The descriptors are taken under the mutex, the shell is killed and      *)
(* reaped.                                                                 *)
ClosePty ==
    /\ ui.at = "close" /\ MutexFree("ui")
    /\ mode' = "local" /\ pty' = NoPty
    /\ closed' = IF pty = NoPty THEN closed ELSE [closed EXCEPT ![pty] = @ + 1]
    /\ child' = IF pty = NoPty THEN child ELSE [child EXCEPT ![pty] = "reaped"]
    /\ asked' = {}
    /\ ui' = IF ui.starting THEN [ui EXCEPT !.at = "open"] ELSE UiIdle
    /\ UNCHANGED <<queueVars, running, ptys, escape, joinable, session, ark, broken, reader, sshAt>>

(* openPTY() fails, also after its fallback to pipes.                      *)
OpenFails ==
    /\ ui.at = "open" /\ PushOutput("ui", FALSE)
    /\ ui' = UiIdle /\ ark' = [ark EXCEPT !.retry = TRUE]
    /\ UNCHANGED <<running, mode, pty, ptys, closed, child, escape, joinable, session, asked,
                   broken, reader, sshAt>>

OpenPty ==
    /\ ui.at = "open" /\ ptys < MaxPtys
    /\ ptys' = ptys + 1 /\ pty' = ptys + 1 /\ child' = [child EXCEPT ![ptys + 1] = "alive"]
    /\ running' = TRUE /\ asked' = {"shell"}
    /\ Goes("spawn")
    /\ UNCHANGED <<queueVars, mode, closed, escape, joinable, session, ark, broken, reader, sshAt>>

(* Assigning to a joinable std::thread ends the process.                   *)
SpawnReader ==
    /\ ui.at = "spawn"
    /\ broken' = (broken \/ joinable) /\ joinable' = TRUE
    /\ reader' = [NoReader EXCEPT !.at = "top"]
    /\ Goes("banner")
    /\ UNCHANGED <<queueVars, running, mode, pty, ptys, closed, child, escape, session, ark,
                   asked, sshAt>>

Banner ==
    /\ ui.at = "banner" /\ PushOutput("ui", FALSE)
    /\ Goes("callback") /\ ark' = [started |-> TRUE, retry |-> FALSE]
    /\ UNCHANGED <<running, mode, pty, ptys, closed, child, escape, joinable, session, asked,
                   broken, reader, sshAt>>

(* start() sets the callback once the shell runs.                          *)
SetOutputCallback ==
    /\ ui.at = "callback" /\ Settled("ui") /\ callbacks < MaxCallbacks
    /\ SwapCallback(callbacks + 1)
    /\ ui' = UiIdle
    /\ UNCHANGED <<driver, reader, sshAt>>
-----------------------------------------------------------------------------
(* Write() and Resize().                                                   *)

(* The local shell gets the input; a connected session gets it, a session  *)
(* that has ended drops it.                                                *)
Write ==
    /\ UiReady /\ MutexFree("ui") /\ mode # "password"
    /\ asked' = IF mode = "local" THEN (IF pty = NoPty THEN asked ELSE asked \cup {"shell"})
                ELSE IF session.connected THEN asked \cup {"remote"} ELSE asked
    /\ IF mode = "local" THEN Uses(pty) ELSE broken' = broken
    /\ UNCHANGED <<queueVars, running, mode, pty, ptys, closed, child, escape, joinable, session,
                   ark, reader, sshAt, ui>>

(* HandlePasswordInputLocked(): the keys of one Write(), one after the     *)
(* other with the mutex held, also those after a newline that connected.   *)
WritePassword ==
    /\ UiReady /\ MutexFree("ui") /\ mode = "password"
    /\ \E data \in Inputs : ui' = [UiIdle EXCEPT !.at = "password", !.data = data]
    /\ UNCHANGED <<queueVars, driver, reader, sshAt>>

NextKey ==
    ui' = IF Len(ui.data) = 1 THEN UiIdle
          ELSE [UiIdle EXCEPT !.at = "password", !.data = Tail(ui.data)]
TypesKey(key) == ui.at = "password" /\ Settled("ui") /\ Head(ui.data) = key

PasswordKey ==
    /\ TypesKey("key") /\ PushOutput("ui", TRUE) /\ NextKey
    /\ UNCHANGED <<driver, reader, sshAt>>

(* ^C or a connect that fails: the shell shows its prompt again, and has   *)
(* the input, whatever session there is.                                   *)
BackToShell ==
    /\ PushOutput("ui", TRUE) /\ NextKey
    /\ mode' = "local" /\ asked' = asked \cup {"shell"} /\ Uses(pty)
    /\ session' = [session EXCEPT !.left = session.connected]
    /\ UNCHANGED <<running, pty, ptys, closed, child, escape, joinable, ark, reader, sshAt>>

PasswordCancel == TypesKey("cancel") /\ BackToShell

(* FinishSshConnectLocked(): the session is connected before the mutex is  *)
(* given up.                                                               *)
ConnectFails == TypesKey("enter") /\ BackToShell

ConnectedKeepsMode ==
    /\ session' = NewSession /\ sshAt' = "top"
    /\ asked' = asked \cup {"remote"}
    /\ NextKey
    /\ UNCHANGED <<queueVars, running, mode, pty, ptys, closed, child, escape, joinable, ark, broken, reader>>

ConnectedSession ==
    /\ session' = NewSession /\ sshAt' = "top"
    /\ mode' = "remote" /\ asked' = asked \cup {"remote"}
    /\ NextKey
    /\ UNCHANGED <<queueVars, running, pty, ptys, closed, child, escape, joinable, ark, broken, reader>>

ConnectSsh == TypesKey("enter") /\ ~session.open /\ ConnectedSession

(* A session that is there is replaced: its reader is told to end, and     *)
(* joined with the mutex held.                                             *)
ConnectAgain ==
    /\ TypesKey("enter") /\ session.open
    /\ session' = [session EXCEPT !.running = FALSE] /\ Goes("replace")
    /\ UNCHANGED <<queueVars, running, mode, pty, ptys, closed, child, escape, joinable, ark, asked,
                   broken, reader, sshAt>>

ReplaceSession == ui.at = "replace" /\ sshAt \in {"none", "done"} /\ ConnectedSession

(* A new size reaches both shells; SIGWINCH makes the local one redraw.    *)
Resize ==
    /\ UiReady /\ MutexFree("ui") /\ ark.started
    /\ asked' = asked \cup (IF pty = NoPty THEN {} ELSE {"shell"})
                      \cup (IF session.connected THEN {"remote"} ELSE {})
    /\ Uses(pty)
    /\ UNCHANGED <<queueVars, running, mode, pty, ptys, closed, child, escape, joinable, session,
                   ark, reader, sshAt, ui>>
-----------------------------------------------------------------------------
(* LocalReadLoop(): the mode is read with the descriptor, before read().   *)

ReaderTop ==
    /\ reader.at = "top" /\ Settled("reader") /\ MutexFree("reader")
    /\ reader' = IF ~running \/ pty = NoPty THEN [NoReader EXCEPT !.at = "done"]
                 ELSE [NoReader EXCEPT !.at = "read", !.pty = pty, !.mode = mode]
    /\ UNCHANGED <<queueVars, driver, sshAt, ui>>

ReaderReads == reader.at = "read" /\ Uses(reader.pty)

ReadChunk(kind) ==
    /\ ReaderReads /\ child[reader.pty] = "alive" /\ "shell" \in asked
    /\ reader' = [reader EXCEPT !.at = "log", !.chunk = kind]
    /\ asked' = asked \ {"shell"}
    /\ UNCHANGED <<queueVars, running, mode, pty, ptys, closed, child, escape, joinable, session,
                   ark, sshAt, ui>>

ReadNothing ==
    /\ ReaderReads /\ child[reader.pty] = "alive"
    /\ reader' = [NoReader EXCEPT !.at = "top"]
    /\ UNCHANGED <<queueVars, running, mode, pty, ptys, closed, child, escape, joinable, session,
                   ark, asked, sshAt, ui>>

(* The shell ended: a pipe reports the end, a pseudo terminal an error.    *)
ReadEnds(pipe) ==
    /\ ReaderReads /\ child[reader.pty] # "alive"
    /\ reader' = [reader EXCEPT !.at = IF pipe THEN "report" ELSE "done"]
    /\ UNCHANGED <<queueVars, running, mode, pty, ptys, closed, child, escape, joinable, session,
                   ark, asked, sshAt, ui>>

(* ReportLocalShellExit() reaps the shell and says so.                     *)
ReportExit ==
    /\ reader.at = "report" /\ MutexFree("reader") /\ PushOutput("reader", FALSE)
    /\ child' = [child EXCEPT ![reader.pty] = "reaped"]
    /\ reader' = [reader EXCEPT !.at = "done"]
    /\ UNCHANGED <<running, mode, pty, ptys, closed, escape, joinable, session, ark, asked,
                   broken, sshAt, ui>>

(* MaybeLogStartupChunk() takes the mutex; output of a shell behind a      *)
(* password prompt or a remote session is dropped.                         *)
LogChunk ==
    /\ reader.at = "log" /\ MutexFree("reader")
    /\ reader' = IF reader.mode = "local" THEN [reader EXCEPT !.at = "process"]
                 ELSE [NoReader EXCEPT !.at = "top"]
    /\ UNCHANGED <<queueVars, driver, sshAt, ui>>

ChunkDone == reader' = [NoReader EXCEPT !.at = "top"]
(* PushProcessedLocalOutput() puts the start of a trigger aside, and with  *)
(* it what follows, until the trigger is complete.                         *)
Trigger == reader.chunk = "ssh" \/ (escape /\ reader.chunk = "end")
Withheld == reader.chunk = "part" \/ (escape /\ ~Trigger)

ShowChunk ==
    /\ reader.at = "process" /\ ~Trigger /\ ~Withheld /\ reader.chunk # "prompt"
    /\ PushOutput("reader", FALSE) /\ ChunkDone
    /\ UNCHANGED <<driver, sshAt, ui>>

WithholdChunk ==
    /\ reader.at = "process" /\ Withheld
    /\ escape' = TRUE /\ ChunkDone
    /\ UNCHANGED <<queueVars, running, mode, pty, ptys, closed, child, joinable, session, ark,
                   asked, broken, sshAt, ui>>

(* The prompt of starship, or a plain one, with the mutex held.            *)
RenderPromptLocked == IF mode = "local" THEN PushOutput("reader", TRUE) ELSE UNCHANGED queueVars

PromptTrigger ==
    /\ reader.at = "process" /\ reader.chunk = "prompt" /\ ~escape /\ MutexFree("reader")
    /\ RenderPromptLocked /\ ChunkDone
    /\ UNCHANGED <<driver, sshAt, ui>>

(* HandleSshTrigger(): only a local shell asks for a password.             *)
SshTrigger ==
    /\ reader.at = "process" /\ Trigger /\ MutexFree("reader")
    /\ IF mode = "local" THEN mode' = "password" /\ PushOutput("reader", TRUE)
       ELSE mode' = mode /\ UNCHANGED queueVars
    /\ escape' = FALSE /\ ChunkDone
    /\ UNCHANGED <<running, pty, ptys, closed, child, joinable, session, ark, asked, broken, sshAt, ui>>

(* A target that does not parse.                                           *)
BadTarget ==
    /\ reader.at = "process" /\ Trigger
    /\ PushOutput("reader", FALSE)
    /\ escape' = FALSE /\ ChunkDone
    /\ UNCHANGED <<running, mode, pty, ptys, closed, child, joinable, session, ark, asked,
                   broken, sshAt, ui>>
-----------------------------------------------------------------------------
(* readLoop() of the session.  After the end of the remote shell the mode  *)
(* stays what it is.                                                       *)

SshTop == sshAt = "top" /\ Settled("ssh")

SshOutput ==
    /\ SshTop /\ session.running /\ session.connected /\ "remote" \in asked
    /\ PushOutput("ssh", FALSE) /\ asked' = asked \ {"remote"}
    /\ UNCHANGED <<running, mode, pty, ptys, closed, child, escape, joinable, session, ark,
                   broken, reader, sshAt, ui>>

SshEnds ==
    /\ SshTop /\ (~session.running \/ "remote" \in asked)
    /\ session' = [session EXCEPT !.connected = FALSE] /\ sshAt' = "done"
    /\ asked' = asked \ {"remote"}
    /\ UNCHANGED <<queueVars, running, mode, pty, ptys, closed, child, escape, joinable, ark,
                   broken, reader, ui>>

ChildExits ==
    /\ pty # NoPty /\ child[pty] = "alive" /\ "shell" \in asked
    /\ child' = [child EXCEPT ![pty] = "exited"]
    /\ UNCHANGED <<queueVars, running, mode, pty, ptys, closed, escape, joinable, session, ark,
                   asked, broken, reader, sshAt, ui>>
-----------------------------------------------------------------------------
Chunks == {"text", "prompt", "ssh", "part", "end"}

UiContinues ==
    \/ StopBegins \/ JoinSsh \/ JoinReader \/ ClosePty \/ OpenPty \/ OpenFails
    \/ SpawnReader \/ Banner \/ SetOutputCallback
    \/ PasswordKey \/ PasswordCancel
    \/ ConnectFails \/ ConnectSsh \/ ConnectAgain \/ ReplaceSession

ReaderContinues ==
    \/ ReaderTop \/ ReadNothing \/ ReportExit \/ LogChunk
    \/ ShowChunk \/ WithholdChunk \/ PromptTrigger \/ SshTrigger \/ BadTarget
    \/ \E kind \in Chunks : ReadChunk(kind)
    \/ \E pipe \in BOOLEAN : ReadEnds(pipe)

Hand(p) == (CallCallback(p) \/ Requeue(p)) /\ UNCHANGED <<driver, reader, sshAt, ui>>
Swap == (Release \/ Flush) /\ UNCHANGED <<driver, reader, sshAt, ui>>
JavaScript == UiReady /\ (RunCallback \/ DrainOutput) /\ UNCHANGED <<driver, reader, sshAt, ui>>

Next ==
    \/ \E sized \in BOOLEAN : ArkStart(sized)
    \/ ArkStop \/ Write \/ WritePassword \/ Resize
    \/ UiContinues \/ ReaderContinues \/ SshOutput \/ SshEnds \/ ChildExits
    \/ \E p \in Producers : Hand(p)
    \/ Swap \/ JavaScript

(* Every thread that has started runs on; a session that is told to stop   *)
(* leaves its loop.                                                        *)
Fairness ==
    /\ WF_vars(UiContinues) /\ WF_vars(ReaderContinues)
    /\ WF_vars(SshEnds /\ ~session.running)
    /\ \A p \in Producers : WF_vars(Hand(p))
    /\ WF_vars(Swap)

Spec == Init /\ [][Next]_vars /\ Fairness
-----------------------------------------------------------------------------
UiStates == {"idle", "stop", "joinSsh", "join", "close", "open", "spawn", "banner",
             "callback", "password", "replace"}

FlagTypes ==
    /\ running \in BOOLEAN /\ escape \in BOOLEAN /\ joinable \in BOOLEAN /\ broken \in BOOLEAN
    /\ mode \in {"local", "password", "remote"} /\ asked \subseteq {"shell", "remote"}
SessionTypes ==
    /\ session \in [open : BOOLEAN, running : BOOLEAN, connected : BOOLEAN, left : BOOLEAN]
    /\ sshAt \in {"none", "top", "done"}
    /\ ark \in [started : BOOLEAN, retry : BOOLEAN]
PtyTypes ==
    /\ ptys \in 0..MaxPtys /\ pty \in 0..ptys
    /\ closed \in [Ptys -> Nat] /\ child \in [Ptys -> {"none", "alive", "exited", "reaped"}]
ReaderTypes ==
    reader \in [at : {"none", "top", "read", "log", "process", "report", "done"},
                pty : 0..MaxPtys, mode : {"local", "password", "remote"},
                chunk : Chunks \cup {"none"}]
UiTypes == ui \in [at : UiStates, starting : BOOLEAN, data : Seq(Keys)]
DriverTypeOK == FlagTypes /\ SessionTypes /\ PtyTypes /\ ReaderTypes /\ UiTypes

TypeOK == QueueTypeOK /\ DriverTypeOK

ClosedOnce ==
    /\ \A f \in 1..ptys : closed[f] = IF f = pty THEN 0 ELSE 1
    /\ \A f \in 1..ptys : closed[f] = 1 => child[f] = "reaped"
ReaderHasPty == reader.at \in {"read", "log", "process", "report"} => reader.pty = pty

(* Every pseudo terminal is closed once, when it is no longer the          *)
(* driver's, its shell is reaped then, no thread reads or writes it        *)
(* afterwards, and no reader thread is left behind: Start() and Stop()     *)
(* with a reader that may be anywhere in its loop.                         *)
PtysAccounted == ClosedOnce /\ ReaderHasPty /\ ~broken

(* Types, and the life of descriptors and processes, over every restart.   *)
PtysEndOnce == TypeOK /\ PtysAccounted

(* A remote session that is connected is the one the user types into: the  *)
(* local shell's output cannot take the input back while it lives, and     *)
(* Stop() ends it first.  Only the user can, with the keys that come after *)
(* the newline in one Write(): a second newline whose connect fails, or ^C,*)
(* leaves a session that is connected and gets no input.                   *)
SessionHasInput == session.connected => mode = "remote" \/ session.left

(* Stop() and Start() return: the readers they wait for see that they are  *)
(* to end, whatever they hold or wait for.                                 *)
StopReturns == ui.at = "joinSsh" ~> ui.at = "close"
=============================================================================
