--------------------------- MODULE TerminalSession ---------------------------
(***************************************************************************)
(* TerminalSession wires one FishDriver to the terminal of a tab.  It      *)
(* starts the driver once the surface has a size, feeds it the output the  *)
(* driver delivers, clears the screen when the driver reports that the PTY *)
(* session was replaced, and at the end of a replay clears the mouse       *)
(* tracking modes if the session was replaced.                             *)
(*                                                                         *)
(* The driver's callbacks run inside the driver's handlers: each action    *)
(* here is a driver action together with what its callbacks (upcall') do.  *)
(***************************************************************************)
EXTENDS FishDriver

VARIABLES
    opened,           \* start() has been called
    sized,            \* the controller reports a non-empty size
    startRetryTimer,  \* armed?
    stopped,
    sessionWasReset,
    screen,           \* sessions whose output was fed since the screen was last cleared
    mouse             \* the session whose program set the mouse modes, or None

termVars == <<opened, sized, startRetryTimer, stopped, sessionWasReset,
              screen, mouse>>
sessionVars == <<vars, termVars>>

TermTypeOK ==
    /\ opened \in BOOLEAN
    /\ sized \in BOOLEAN
    /\ startRetryTimer \in BOOLEAN
    /\ startRetryTimer => opened /\ ~started /\ ~stopped
    /\ stopped \in BOOLEAN
    /\ sessionWasReset \in BOOLEAN
    /\ screen \subseteq SessionIds
    /\ mouse \in SessionOrNone

SessionInit ==
    /\ Init
    /\ opened = FALSE
    /\ sized \in BOOLEAN
    /\ startRetryTimer = FALSE
    /\ stopped = FALSE
    /\ sessionWasReset = FALSE
    /\ screen = {}
    /\ mouse = None

-----------------------------------------------------------------------------
(* The callbacks the constructor registers with the driver. *)

\* onOutputBytes: nothing is fed once the session is stopped.
fed == IF stopped' THEN {} ELSE {upcall'.output[i] : i \in DOMAIN upcall'.output}

\* Mutant: the screen keeps the output of the session that was replaced.
HearKeepsScreen ==
    /\ screen' = screen \union fed
    /\ sessionWasReset' = (upcall'.reset \/ (sessionWasReset /\ upcall'.replay # "end"))
    /\ IF upcall'.replay = "end" /\ sessionWasReset
       THEN mouse' = None
       ELSE mouse' \in {mouse} \union fed

\* onSessionReset clears the screen and leaves the modes alone; onReplayState
\* clears the modes when the replay ends.  Output may switch mouse tracking on.
Hear ==
    /\ screen' = IF upcall'.reset THEN {} ELSE screen \union fed
    /\ sessionWasReset' = (upcall'.reset \/ (sessionWasReset /\ upcall'.replay # "end"))
    /\ IF upcall'.replay = "end" /\ sessionWasReset
       THEN mouse' = None
       ELSE mouse' \in {mouse} \union fed

\* Actions of the driver that its owner does not call.
DriverStep ==
    \/ ReconnectFires
    \/ FlushFires
    \/ QuietFires
    \/ GuardFires
    \/ \E k \in Sockets : SocketEvent(k)
    \/ \E s \in SessionIds : SessionDies(s)

-----------------------------------------------------------------------------
(* The session's own operations. *)

lifecycle == <<opened, sized, startRetryTimer, stopped>>

\* Mutant: the size is looked at once.
startWhenSizedOnce ==
    /\ ~(started \/ stopped')
    /\ startRetryTimer' = FALSE
    /\ \/ sized /\ start /\ Hear
       \/ ~sized /\ UNCHANGED <<vars, sessionWasReset, screen, mouse>>

\* startWhenSized(), whose guard is `started || stopped': without a size it
\* only arms the timer that will poll again.
startWhenSized ==
    /\ ~(started \/ stopped')
    /\ startRetryTimer' = ~sized
    /\ \/ sized /\ start /\ Hear
       \/ ~sized /\ UNCHANGED <<vars, sessionWasReset, screen, mouse>>

\* The page starts a session once.
SessionStart ==
    /\ ~opened
    /\ ~stopped
    /\ opened' = TRUE
    /\ stopped' = FALSE
    /\ startWhenSized
    /\ UNCHANGED sized

\* A poll that finds no size yet re-arms the timer: a stuttering step.
StartRetryFires ==
    /\ startRetryTimer
    /\ sized
    /\ UNCHANGED <<opened, sized, stopped>>
    /\ startWhenSized

SurfaceSized ==
    /\ ~sized
    /\ sized' = TRUE
    /\ UNCHANGED <<vars, opened, startRetryTimer, stopped, sessionWasReset,
                   screen, mouse>>

SessionStop ==
    /\ stopped' = TRUE
    /\ startRetryTimer' = FALSE
    /\ Stop
    /\ Hear
    /\ UNCHANGED <<opened, sized>>

SessionOnForeground == OnForeground /\ UNCHANGED lifecycle /\ Hear

\* Mutant: "reconnect now" on a closed tab revives its driver.
SessionReconnectNowAlways == reconnectNow /\ UNCHANGED lifecycle /\ Hear

SessionReconnectNow == ~stopped /\ reconnectNow /\ UNCHANGED lifecycle /\ Hear

SessionNext ==
    \/ SessionStart
    \/ StartRetryFires
    \/ SurfaceSized
    \/ SessionStop
    \/ SessionOnForeground
    \/ SessionReconnectNow
    \/ DriverStep /\ UNCHANGED lifecycle /\ Hear

SessionFairness == Fairness /\ WF_sessionVars(StartRetryFires)

SessionSafety == SessionInit /\ [][SessionNext]_sessionVars
SessionSpec == SessionSafety /\ SessionFairness

-----------------------------------------------------------------------------
(* Properties. *)

\* The session uses its driver as the driver expects: one start, never after a
\* stop, and no "reconnect now" that would revive a stopped driver.
ImplementsDriver == Safety

\* A tab whose surface gets a size is connected, however late the size comes.
StartsWhenSized ==
    opened /\ sized ~> started \/ stopped \/ \E k \in Sockets : Alive(k)

\* Against a server that replaces a dead session and names the new one first,
\* the screen never mixes the output of two sessions.
ScreenIsOneSession == Cardinality(screen) <= 1

\* Mouse modes are those of a program whose output the screen shows: what a
\* replaced session has left on is cleared at the end of the replay that follows,
\* and until then the reset is remembered.
MouseModesAreShown == mouse \in screen \union {None} \/ sessionWasReset

\* What a tab shows and does belongs to one session, its driver's: the variables
\* have their types, no start is polled for once the tab has started or is closed,
\* the driver's socket is the only one, the screen mixes no two sessions, and no
\* mouse mode of a replaced session is left on.
OneSession ==
    /\ TermTypeOK
    /\ CurrentSocketIsOpen
    /\ ScreenIsOneSession
    /\ MouseModesAreShown
=============================================================================
