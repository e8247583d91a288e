---------------------------- MODULE OutputChannel ----------------------------
(***************************************************************************)
(* What a driver's output promises to the terminal, whichever threads      *)
(* produce it and whenever the terminal sets its callback: a piece of      *)
(* output reaches the terminal at most once, and it is lost only when a    *)
(* callback is released.  Its order is not promised.                       *)
(***************************************************************************)
EXTENDS Integers

CONSTANT MaxItems   \* pieces of output that are followed, a bound

VARIABLES
    used,        \* how many pieces have been produced
    waiting,     \* those on their way
    delivered,   \* those the terminal has got
    released     \* callbacks that have been released

channelVars == <<used, waiting, delivered, released>>

ChannelInit == used = 0 /\ waiting = {} /\ delivered = {} /\ released = {}

Produce ==
    /\ used < MaxItems
    /\ used' = used + 1 /\ waiting' = waiting \cup {used + 1}
    /\ UNCHANGED <<delivered, released>>

Deliver(S) ==
    /\ S \subseteq waiting
    /\ waiting' = waiting \ S /\ delivered' = delivered \cup S
    /\ UNCHANGED <<used, released>>

ReleaseCallback(c, S) ==
    /\ c \notin released /\ S \subseteq waiting
    /\ released' = released \cup {c} /\ waiting' = waiting \ S
    /\ UNCHANGED <<used, delivered>>

ChannelNext ==
    \/ Produce
    \/ \E S \in SUBSET waiting : Deliver(S)
    \/ \E c \in released' : \E S \in SUBSET waiting : ReleaseCallback(c, S)

ChannelSpec == ChannelInit /\ [][ChannelNext]_channelVars
=============================================================================
