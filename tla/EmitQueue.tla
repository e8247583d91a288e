----------------------------- MODULE EmitQueue ------------------------------
(***************************************************************************)
(* The hand-over of output from the driver's threads to a JavaScript       *)
(* callback: EmitOutput(), SetOutputCallback(), ClearOutputCallback() and  *)
(* DrainOutput() of example_driver.cpp; the host hands over what is typed  *)
(* in the same way (EmitInput(), SetInputCallback() ... of napi_init.cpp). *)
(* A thread reads the callback under m_outputMutex and calls it without    *)
(* the mutex; JavaScript may replace or release the callback in between.   *)
(***************************************************************************)
EXTENDS Integers, Sequences, SequencesExt

CONSTANTS
    Producers,      \* the threads that produce output; "ui" is one of them
    MaxItems,       \* pieces of output that are followed, a bound
    MaxCallbacks    \* callbacks that are ever set, a bound

ASSUME QueueAssumption ==
    "ui" \in Producers /\ MaxItems \in Nat /\ MaxCallbacks \in Nat

VARIABLES
    used,        \* pieces of output produced so far
    buffer,      \* m_outputBuffer
    callback,    \* m_outputTsfn, 0 for none
    callbacks,   \* callbacks created so far
    flight,      \* what each producer is about to hand over
    calls,       \* calls of the callbacks that the event loop has not made yet
    released,    \* callbacks released by napi_release_threadsafe_function()
    swapped,     \* SetOutputCallback(): the callback replaced, the buffer taken
    delivered    \* pieces the terminal has got

queueVars == <<used, buffer, callback, callbacks, flight, calls, released, swapped, delivered>>

NoCallback == 0
NoFlight == [at |-> "none", callback |-> NoCallback, data |-> <<>>, locked |-> FALSE]
NotSwapping == [on |-> FALSE, previous |-> NoCallback, data |-> <<>>]
Items == 1..MaxItems
(* A thread makes one call at a time.                                      *)
Settled(p) == flight[p] = NoFlight

QueueInit ==
    /\ used = 0 /\ buffer = <<>> /\ callback = NoCallback /\ callbacks = 0
    /\ flight = [p \in Producers |-> NoFlight]
    /\ calls = <<>> /\ released = {} /\ swapped = NotSwapping /\ delivered = {}

(* EmitOutput(), under m_outputMutex: without a callback the data is       *)
(* buffered, with one the callback is remembered.                          *)
HandOver(p, data, locked) ==
    IF callback = NoCallback
    THEN buffer' = buffer \o data /\ flight' = flight
    ELSE /\ flight' = [flight EXCEPT ![p] = [at |-> "call", callback |-> callback,
                                             data |-> data, locked |-> locked]]
         /\ buffer' = buffer

(* PushOutput() of a new piece of output.  What exceeds the bound is not   *)
(* followed.                                                               *)
PushOutput(p, locked) ==
    /\ Settled(p)
    /\ IF used = MaxItems THEN UNCHANGED queueVars
       ELSE /\ used' = used + 1
            /\ HandOver(p, <<used + 1>>, locked)
            /\ UNCHANGED <<callback, callbacks, calls, released, swapped, delivered>>

(* napi_call_threadsafe_function(): a released callback refuses the call.  *)
CallCallback(p) ==
    /\ flight[p].at = "call"
    /\ IF flight[p].callback \in released
       THEN flight' = [flight EXCEPT ![p].at = "failed"] /\ calls' = calls
       ELSE /\ flight' = [flight EXCEPT ![p] = NoFlight]
            /\ calls' = Append(calls, [callback |-> flight[p].callback, data |-> flight[p].data])
    /\ UNCHANGED <<used, buffer, callback, callbacks, released, swapped, delivered>>

(* Data that was refused goes back into the buffer, behind what came since.*)
Requeue(p) ==
    /\ flight[p].at = "failed"
    /\ buffer' = buffer \o flight[p].data
    /\ flight' = [flight EXCEPT ![p] = NoFlight]
    /\ UNCHANGED <<used, callback, callbacks, calls, released, swapped, delivered>>

(* SetOutputCallback() and ClearOutputCallback(), under m_outputMutex.     *)
SwapCallback(next) ==
    /\ Settled("ui") /\ ~swapped.on
    /\ callback' = next
    /\ LET takes == next # NoCallback
       IN /\ swapped' = [on |-> TRUE, previous |-> callback, data |-> IF takes THEN buffer ELSE <<>>]
          /\ buffer' = IF takes THEN <<>> ELSE buffer
          /\ callbacks' = IF takes THEN next ELSE callbacks
    /\ UNCHANGED <<used, flight, calls, released, delivered>>

(* The previous callback is released.                                      *)
Release ==
    /\ swapped.on /\ swapped.previous # NoCallback
    /\ released' = released \cup {swapped.previous}
    /\ swapped' = [swapped EXCEPT !.previous = NoCallback]
    /\ UNCHANGED <<used, buffer, callback, callbacks, flight, calls, delivered>>

(* What was buffered is handed to the callback that is set.                *)
Flush ==
    /\ swapped.on /\ swapped.previous = NoCallback /\ Settled("ui")
    /\ IF callback # NoCallback /\ swapped.data # <<>>
       THEN HandOver("ui", swapped.data, FALSE) ELSE UNCHANGED <<buffer, flight>>
    /\ swapped' = NotSwapping
    /\ UNCHANGED <<used, callback, callbacks, calls, released, delivered>>

(* The event loop makes the oldest call.  That of a released callback is   *)
(* made without an environment, and its data is dropped.                   *)
RunCallback ==
    /\ calls # <<>>
    /\ delivered' = delivered \cup
           (IF Head(calls).callback \in released THEN {} ELSE ToSet(Head(calls).data))
    /\ calls' = Tail(calls)
    /\ UNCHANGED <<used, buffer, callback, callbacks, flight, released, swapped>>

DrainKeeps ==
    /\ buffer # <<>>
    /\ delivered' = delivered \cup ToSet(buffer)
    /\ UNCHANGED <<used, buffer, callback, callbacks, flight, calls, released, swapped>>

DrainOutput ==
    /\ buffer # <<>>
    /\ delivered' = delivered \cup ToSet(buffer)
    /\ buffer' = <<>>
    /\ UNCHANGED <<used, callback, callbacks, flight, calls, released, swapped>>

QueueNext ==
    \/ \E p \in Producers, locked \in BOOLEAN : PushOutput(p, locked)
    \/ \E p \in Producers : CallCallback(p) \/ Requeue(p)
    \/ SwapCallback(NoCallback)
    \/ callbacks < MaxCallbacks /\ SwapCallback(callbacks + 1)
    \/ Release \/ Flush \/ RunCallback \/ DrainOutput

QueueTypeOK ==
    /\ used \in 0..MaxItems /\ buffer \in Seq(Items)
    /\ callbacks \in 0..MaxCallbacks /\ callback \in 0..callbacks
    /\ flight \in [Producers -> [at : {"none", "call", "failed"}, callback : 0..MaxCallbacks,
                                 data : Seq(Items), locked : BOOLEAN]]
    /\ calls \in Seq([callback : 1..MaxCallbacks, data : Seq(Items)])
    /\ released \subseteq 1..callbacks /\ callback \notin released
    /\ swapped \in [on : BOOLEAN, previous : 0..callbacks, data : Seq(Items)]
    /\ delivered \subseteq 1..used

(* Where a piece of output can be on its way.                              *)
Flying == UNION {ToSet(flight[p].data) : p \in Producers}
Called(i) == IF calls[i].callback \in released THEN {} ELSE ToSet(calls[i].data)
InTransit ==
    ToSet(buffer) \cup ToSet(swapped.data) \cup Flying
        \cup UNION {Called(i) : i \in DOMAIN calls}

Channel == INSTANCE OutputChannel WITH waiting <- InTransit

(* The hand-over implements the channel: output reaches the terminal at    *)
(* most once and is lost only in a step that releases a callback.          *)
ImplementsChannel == Channel!ChannelSpec
=============================================================================
