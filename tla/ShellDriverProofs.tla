-------------------------- MODULE ShellDriverProofs -------------------------
(***************************************************************************)
(* Proofs about the hand-over of output and the shell driver: output goes  *)
(* as OutputChannel says, whatever the threads and callbacks are, pseudo   *)
(* terminals and shells end once, and a connected session keeps the input. *)
(***************************************************************************)
EXTENDS ShellDriver, SequenceTheorems, TLAPS

(***************************************************************************)
(* The hand-over: EmitQueue by itself.                                     *)
(***************************************************************************)

(* A piece of output is in one place at a time, so none is delivered while *)
(* a copy of it is on its way.  Calls of a released callback count too.    *)
Apart(S, T) == S \cap T = {}
FlightsApart ==
    \A p \in Producers :
        /\ Apart(ToSet(flight[p].data), ToSet(buffer))
        /\ Apart(ToSet(flight[p].data), ToSet(swapped.data))
        /\ \A q \in Producers : p # q => Apart(ToSet(flight[p].data), ToSet(flight[q].data))
CallsApart ==
    \A i \in DOMAIN calls :
        /\ Apart(ToSet(calls[i].data), ToSet(buffer))
        /\ Apart(ToSet(calls[i].data), ToSet(swapped.data))
        /\ \A p \in Producers : Apart(ToSet(calls[i].data), ToSet(flight[p].data))
        /\ \A j \in DOMAIN calls : i # j => Apart(ToSet(calls[i].data), ToSet(calls[j].data))
InOnePlace == Apart(ToSet(buffer), ToSet(swapped.data)) /\ FlightsApart /\ CallsApart

(* What is on its way has been produced.                                   *)
Produced ==
    /\ ToSet(buffer) \subseteq 1..used /\ ToSet(swapped.data) \subseteq 1..used
    /\ \A p \in Producers : ToSet(flight[p].data) \subseteq 1..used
    /\ \A i \in DOMAIN calls : ToSet(calls[i].data) \subseteq 1..used

(* Where the callbacks are: a callback is released once, after it was      *)
(* replaced, and what a thread hands over is with that thread only.        *)
Callbacks ==
    /\ swapped.previous # NoCallback => swapped.previous # callback
    /\ swapped.previous \notin released
    /\ ~swapped.on => swapped = NotSwapping
    /\ swapped.data # <<>> => callback # NoCallback
    /\ \A p \in Producers : flight[p].at = "none" => flight[p] = NoFlight
    /\ \A p \in Producers : flight[p].at = "call" => flight[p].callback # NoCallback

QueueInv == QueueTypeOK /\ InOnePlace /\ Produced /\ Callbacks

-----------------------------------------------------------------------------
(* What the operations on sequences do to their elements.                  *)

LEMMA ToSetEmpty == ToSet(<<>>) = {}
BY DEF ToSet

LEMMA ToSetOne == ASSUME NEW e PROVE ToSet(<<e>>) = {e}
BY DEF ToSet

LEMMA ToSetConcat ==
    ASSUME NEW S, NEW s \in Seq(S), NEW t \in Seq(S)
    PROVE  ToSet(s \o t) = ToSet(s) \cup ToSet(t)
<1>1. DOMAIN s = 1..Len(s) /\ DOMAIN t = 1..Len(t)
      /\ DOMAIN (s \o t) = 1..(Len(s) + Len(t))
      /\ Len(s) \in Nat /\ Len(t) \in Nat
  BY ConcatProperties, LenProperties
<1>2. \A i \in 1..Len(s) : (s \o t)[i] = s[i] /\ i \in 1..(Len(s) + Len(t))
  BY <1>1, ConcatProperties
<1>3. \A i \in 1..Len(t) : (s \o t)[Len(s) + i] = t[i] /\ Len(s) + i \in 1..(Len(s) + Len(t))
  BY <1>1, ConcatProperties
<1>4. \A i \in 1..(Len(s) + Len(t)) :
          \/ i \in 1..Len(s)
          \/ \E j \in 1..Len(t) : i = Len(s) + j
  <2> SUFFICES ASSUME NEW i \in 1..(Len(s) + Len(t)), ~(i \in 1..Len(s))
               PROVE \E j \in 1..Len(t) : i = Len(s) + j
    OBVIOUS
  <2>1. i - Len(s) \in 1..Len(t) /\ i = Len(s) + (i - Len(s))
    BY <1>1
  <2>2. QED
    BY <2>1
<1> DEFINE u == s \o t
<1>5. ASSUME NEW x, x \in ToSet(s) \/ x \in ToSet(t) PROVE x \in ToSet(u)
  BY <1>1, <1>2, <1>3, <1>5 DEF ToSet
<1>6. ASSUME NEW x, x \in ToSet(u) PROVE x \in ToSet(s) \cup ToSet(t)
  <2>1. PICK i \in 1..(Len(s) + Len(t)) : x = u[i]
    BY <1>1, <1>6 DEF ToSet
  <2>2. CASE i \in 1..Len(s)
    BY <1>1, <1>2, <2>1, <2>2 DEF ToSet
  <2>3. CASE \E j \in 1..Len(t) : i = Len(s) + j
    BY <1>1, <1>3, <2>1, <2>3 DEF ToSet
  <2>4. QED
    BY <1>4, <2>2, <2>3
<1> HIDE DEF u
<1>7. ToSet(u) = ToSet(s) \cup ToSet(t)
  BY <1>5, <1>6
<1>8. QED
  BY <1>7 DEF u

LEMMA ElementsTyped ==
    ASSUME NEW S, NEW s \in Seq(S)
    PROVE  ToSet(s) \subseteq S
BY ElementOfSeq, LenProperties DEF ToSet

LEMMA ToSetAppend ==
    ASSUME NEW S, NEW s \in Seq(S), NEW e \in S
    PROVE  /\ DOMAIN Append(s, e) = 1..(Len(s) + 1) /\ DOMAIN s = 1..Len(s) /\ Len(s) \in Nat
           /\ \A i \in DOMAIN s : Append(s, e)[i] = s[i]
           /\ Append(s, e)[Len(s) + 1] = e
BY AppendProperties, LenProperties

LEMMA TailIndices ==
    ASSUME NEW S, NEW s \in Seq(S), s # <<>>
    PROVE  /\ 1 \in DOMAIN s /\ Head(s) = s[1] /\ s[1] \in S
           /\ Tail(s) \in Seq(S)
           /\ \A i \in DOMAIN Tail(s) : i + 1 \in DOMAIN s /\ i + 1 # 1 /\ Tail(s)[i] = s[i + 1]
           /\ \A i \in DOMAIN s : i # 1 => i - 1 \in DOMAIN Tail(s) /\ Tail(s)[i - 1] = s[i]
<1>1. /\ Len(s) \in Nat /\ DOMAIN s = 1..Len(s) /\ Len(s) # 0
  BY LenProperties, EmptySeq
<1>2. /\ Tail(s) \in Seq(S) /\ Len(Tail(s)) = Len(s) - 1
      /\ \A i \in 1..Len(Tail(s)) : Tail(s)[i] = s[i + 1]
      /\ DOMAIN Tail(s) = 1..Len(Tail(s))
  BY HeadTailProperties, LenProperties
<1>3. Head(s) = s[1] /\ s[1] \in S
  BY <1>1, ElementOfSeq
<1>4. QED
  BY <1>1, <1>2, <1>3

-----------------------------------------------------------------------------
(* The invariant.                                                          *)

LEMMA InitQueueInv == QueueInit => QueueInv
<1> SUFFICES ASSUME QueueInit PROVE QueueInv
  OBVIOUS
<1> USE QueueAssumption DEF QueueInit, NoCallback, NoFlight, NotSwapping
<1>1. <<>> \in Seq(Items) /\ ToSet(<<>>) = {} /\ <<>> \in Seq([callback : 1..MaxCallbacks, data : Seq(Items)])
  BY ToSetEmpty
<1>2. DOMAIN calls = {} /\ calls \in Seq([callback : 1..MaxCallbacks, data : Seq(Items)])
  BY <1>1
<1>3. QueueTypeOK
  BY <1>1, <1>2 DEF QueueTypeOK
<1>4. InOnePlace
  BY <1>1, <1>2 DEF InOnePlace, FlightsApart, CallsApart, Apart
<1>5. Produced
  BY <1>1, <1>2 DEF Produced
<1>6. Callbacks
  BY DEF Callbacks
<1>7. QED
  BY <1>3, <1>4, <1>5, <1>6 DEF QueueInv

(* As long as not all output is produced, there is a next piece of it.     *)
LEMMA NextItem == ASSUME QueueTypeOK, used # MaxItems PROVE used + 1 \in Items
<1>1. MaxItems \in Nat /\ used \in 0..MaxItems
  BY QueueAssumption DEF QueueTypeOK
<1> QED BY <1>1 DEF Items

(* Data that is in no place of its own yet, or leaves the one it was in,   *)
(* is handed over: it is in the buffer or with the thread.                 *)
LEMMA HandOverPlaces ==
    ASSUME QueueTypeOK, NEW p \in Producers, NEW data \in Seq(Items), NEW locked \in BOOLEAN,
           Settled(p), HandOver(p, data, locked)
    PROVE  /\ buffer' \in Seq(Items)
           /\ flight' \in [Producers -> [at : {"none", "call", "failed"},
                                         callback : 0..MaxCallbacks,
                                         data : Seq(Items), locked : BOOLEAN]]
           /\ \A q \in Producers \ {p} : flight'[q] = flight[q]
           /\ ToSet(flight[p].data) = {}
           /\ \/ /\ flight'[p].at = "call" /\ flight'[p].callback = callback /\ callback # NoCallback
                 /\ ToSet(flight'[p].data) = ToSet(data) /\ buffer' = buffer
              \/ /\ flight' = flight /\ callback = NoCallback
                 /\ ToSet(buffer') = ToSet(buffer) \cup ToSet(data)
<1> USE QueueAssumption DEF QueueTypeOK, Settled, HandOver
<1>1. ToSet(flight[p].data) = {}
  BY ToSetEmpty DEF NoFlight
<1>2. CASE callback = NoCallback
  <2>1. buffer' = buffer \o data /\ flight' = flight
    BY <1>2
  <2>2. ToSet(buffer') = ToSet(buffer) \cup ToSet(data) /\ buffer' \in Seq(Items)
    BY <2>1, ToSetConcat, ConcatProperties
  <2>3. QED
    BY <1>1, <1>2, <2>1, <2>2
<1>3. CASE callback # NoCallback
  <2>1. callback \in 0..MaxCallbacks
    OBVIOUS
  <2>2. buffer' = buffer /\ flight' = [flight EXCEPT ![p] = [at |-> "call", callback |-> callback,
                                             data |-> data, locked |-> locked]]
    BY <1>3
  <2>3. QED
    BY <1>1, <1>3, <2>1, <2>2
<1>4. QED
  BY <1>2, <1>3

Flights == [at : {"none", "call", "failed"}, callback : 0..MaxCallbacks,
            data : Seq(Items), locked : BOOLEAN]
Calls == [callback : 1..MaxCallbacks, data : Seq(Items)]

LEMMA StepQueueType == QueueInv /\ [QueueNext]_queueVars => QueueTypeOK'
<1> SUFFICES ASSUME QueueInv, [QueueNext]_queueVars PROVE QueueTypeOK'
  OBVIOUS
<1> USE QueueAssumption DEF QueueInv, QueueTypeOK
<1>1. ASSUME NEW p \in Producers, NEW locked \in BOOLEAN, PushOutput(p, locked) PROVE QueueTypeOK'
  <2>1. CASE used = MaxItems
    BY <1>1, <2>1 DEF PushOutput, queueVars
  <2>2. CASE used # MaxItems
    <3>1. used + 1 \in Items /\ <<used + 1>> \in Seq(Items)
      BY <2>2 DEF Items
    <3>2. Settled(p) /\ HandOver(p, <<used + 1>>, locked)
      BY <1>1, <2>2 DEF PushOutput
    <3>3. buffer' \in Seq(Items) /\ flight' \in [Producers -> Flights]
      BY <3>1, <3>2, HandOverPlaces DEF Flights
    <3>4. used' = used + 1 /\ UNCHANGED <<callback, callbacks, calls, released, swapped, delivered>>
      BY <1>1, <2>2 DEF PushOutput
    <3>5. used' \in 0..MaxItems /\ delivered' \subseteq 1..used'
      BY <2>2, <3>4
    <3>6. QED
      BY <3>3, <3>4, <3>5 DEF Flights
  <2>3. QED
    BY <2>1, <2>2
<1>2. ASSUME NEW p \in Producers, CallCallback(p) PROVE QueueTypeOK'
  <2>1. flight[p] \in Flights /\ flight[p].callback \in 1..MaxCallbacks
    BY <1>2 DEF CallCallback, Flights, Callbacks, NoCallback
  <2>2. CASE flight[p].callback \in released
    <3>1. flight' = [flight EXCEPT ![p].at = "failed"] /\ calls' = calls
          /\ UNCHANGED <<used, buffer, callback, callbacks, released, swapped, delivered>>
      BY <1>2, <2>2 DEF CallCallback
    <3>2. flight' \in [Producers -> Flights]
      BY <3>1 DEF Flights
    <3>3. QED
      BY <3>1, <3>2 DEF Flights
  <2>3. CASE flight[p].callback \notin released
    <3> DEFINE call == [callback |-> flight[p].callback, data |-> flight[p].data]
    <3>1. call \in Calls
      BY <2>1 DEF Calls, Flights
    <3>2. Append(calls, call) \in Seq(Calls)
      BY <3>1, AppendProperties DEF Calls
    <3>3. NoFlight \in Flights
      BY EmptySeq DEF NoFlight, NoCallback, Flights
    <3>4. flight' = [flight EXCEPT ![p] = NoFlight] /\ calls' = Append(calls, call)
          /\ UNCHANGED <<used, buffer, callback, callbacks, released, swapped, delivered>>
      BY <1>2, <2>3 DEF CallCallback
    <3>5. flight' \in [Producers -> Flights]
      BY <3>3, <3>4 DEF Flights
    <3>6. QED
      BY <3>2, <3>4, <3>5 DEF Flights, Calls
  <2>4. QED
    BY <2>2, <2>3
<1>3. ASSUME NEW p \in Producers, Requeue(p) PROVE QueueTypeOK'
  <2>1. buffer \o flight[p].data \in Seq(Items)
    BY ConcatProperties
  <2>2. NoFlight \in Flights
    BY EmptySeq DEF NoFlight, NoCallback, Flights
  <2>3. QED
    BY <1>3, <2>1, <2>2 DEF Requeue, Flights
<1>4. ASSUME NEW next \in {NoCallback, callbacks + 1}, SwapCallback(next),
             next = NoCallback \/ callbacks < MaxCallbacks PROVE QueueTypeOK'
  <2>1. <<>> \in Seq(Items)
    BY EmptySeq
  <2>2. buffer' \in Seq(Items) /\ swapped' \in [on : BOOLEAN, previous : 0..callbacks, data : Seq(Items)]
    BY <1>4, <2>1 DEF SwapCallback
  <2>3. callbacks' \in 0..MaxCallbacks /\ callback' \in 0..callbacks' /\ callbacks \leq callbacks'
        /\ callback' \notin released
    BY <1>4 DEF SwapCallback, NoCallback
  <2>4. UNCHANGED <<used, flight, calls, released, delivered>>
    BY <1>4 DEF SwapCallback
  <2>5. callbacks \in Nat /\ callbacks' \in Nat
    BY <2>3
  <2>6. /\ released' \subseteq 1..callbacks'
        /\ swapped' \in [on : BOOLEAN, previous : 0..callbacks', data : Seq(Items)]
    BY <2>2, <2>3, <2>4, <2>5
  <2>7. /\ used' \in 0..MaxItems /\ delivered' \subseteq 1..used' /\ callback' \notin released'
        /\ flight' \in [Producers -> Flights] /\ calls' \in Seq(Calls)
    BY <2>3, <2>4 DEF Flights, Calls
  <2> HIDE DEF QueueTypeOK
  <2>8. QED
    BY <2>2, <2>3, <2>6, <2>7 DEF QueueTypeOK, Flights, Calls
<1>5. CASE Release
  <2>1. swapped.previous \in 1..callbacks /\ swapped.previous # callback
    BY <1>5 DEF Release, Callbacks, NoCallback
  <2>2. released' \subseteq 1..callbacks /\ callback \notin released'
    BY <1>5, <2>1 DEF Release
  <2>3. swapped' \in [on : BOOLEAN, previous : 0..callbacks, data : Seq(Items)]
    <3>1. swapped' = [swapped EXCEPT !.previous = 0] /\ 0 \in 0..callbacks
      BY <1>5 DEF Release, NoCallback
    <3>2. swapped \in [on : BOOLEAN, previous : 0..callbacks, data : Seq(Items)]
      OBVIOUS
    <3> HIDE DEF QueueTypeOK, QueueInv
    <3>3. QED
      BY <3>1, <3>2
  <2>4. QED
    BY <1>5, <2>2, <2>3 DEF Release
<1>6. CASE Flush
  <2>1. NotSwapping \in [on : BOOLEAN, previous : 0..callbacks, data : Seq(Items)]
    BY EmptySeq DEF NotSwapping, NoCallback
  <2>2. buffer' \in Seq(Items) /\ flight' \in [Producers -> Flights]
    <3>1. CASE callback # NoCallback /\ swapped.data # <<>>
      <4>1. HandOver("ui", swapped.data, FALSE) /\ Settled("ui")
        BY <1>6, <3>1 DEF Flush
      <4>2. QED
        BY <4>1, HandOverPlaces DEF Flights
    <3>2. CASE ~(callback # NoCallback /\ swapped.data # <<>>)
      BY <1>6, <3>2 DEF Flush, Flights
    <3>3. QED
      BY <3>1, <3>2
  <2>3. QED
    BY <1>6, <2>1, <2>2 DEF Flush, Flights
<1>7. CASE RunCallback
  <2>1. calls \in Seq(Calls) /\ calls # <<>>
    BY <1>7 DEF RunCallback, Calls
  <2>2. Tail(calls) \in Seq(Calls) /\ Head(calls) = calls[1] /\ 1 \in DOMAIN calls
    BY <2>1, TailIndices
  <2>3. delivered' \subseteq 1..used
    BY <1>7, <2>2 DEF RunCallback, Produced
  <2>4. QED
    BY <1>7, <2>2, <2>3 DEF RunCallback, Calls
<1>8. CASE DrainOutput
  <2>1. <<>> \in Seq(Items)
    BY EmptySeq
  <2>2. QED
    BY <1>8, <2>1 DEF DrainOutput, Produced
<1>9. CASE UNCHANGED queueVars
  BY <1>9 DEF queueVars
<1>10. QED
  BY <1>1, <1>2, <1>3, <1>4, <1>5, <1>6, <1>7, <1>8, <1>9 DEF QueueNext

LEMMA StepCallbacks == QueueInv /\ [QueueNext]_queueVars => Callbacks'
<1> SUFFICES ASSUME QueueInv, [QueueNext]_queueVars PROVE Callbacks'
  OBVIOUS
<1> USE QueueAssumption DEF QueueInv, Callbacks, NoCallback
<1>1. ASSUME NEW p \in Producers, NEW locked \in BOOLEAN, PushOutput(p, locked) PROVE Callbacks'
  <2>1. CASE used = MaxItems
    BY <1>1, <2>1 DEF PushOutput, queueVars
  <2>2. CASE used # MaxItems
    <3>1. used + 1 \in Items /\ <<used + 1>> \in Seq(Items)
      BY <2>2 DEF Items, QueueTypeOK
    <3>2. Settled(p) /\ HandOver(p, <<used + 1>>, locked)
      BY <1>1, <2>2 DEF PushOutput
    <3>3. UNCHANGED <<callback, released, swapped>>
      BY <1>1, <2>2 DEF PushOutput
    <3>4. \A q \in Producers : /\ flight'[q].at = "none" => flight'[q] = NoFlight
                               /\ flight'[q].at = "call" => flight'[q].callback # 0
      BY <3>1, <3>2, HandOverPlaces
    <3>5. QED
      BY <3>3, <3>4
  <2>3. QED
    BY <2>1, <2>2
<1>2. ASSUME NEW p \in Producers, CallCallback(p) PROVE Callbacks'
  <2>1. UNCHANGED <<callback, released, swapped>>
    BY <1>2 DEF CallCallback
  <2>2. flight[p].at = "call" /\ flight[p].callback # 0 /\ flight \in [Producers -> Flights]
    BY <1>2 DEF CallCallback, QueueTypeOK, Flights
  <2>3. NoFlight.at = "none"
    BY DEF NoFlight
  <2>4. \/ flight' = [flight EXCEPT ![p].at = "failed"]
        \/ flight' = [flight EXCEPT ![p] = NoFlight]
    BY <1>2 DEF CallCallback
  <2>5. \A q \in Producers \ {p} : flight'[q] = flight[q]
    BY <2>2, <2>4
  <2>6. flight'[p].at = "failed" \/ flight'[p] = NoFlight
    BY <2>2, <2>4 DEF Flights
  <2>7. \A q \in Producers : /\ flight'[q].at = "none" => flight'[q] = NoFlight
                             /\ flight'[q].at = "call" => flight'[q].callback # 0
    BY <2>3, <2>5, <2>6
  <2>8. QED
    BY <2>1, <2>7
<1>3. ASSUME NEW p \in Producers, Requeue(p) PROVE Callbacks'
  <2>1. \A q \in Producers : flight'[q] = IF q = p THEN NoFlight ELSE flight[q]
    BY <1>3 DEF Requeue, QueueTypeOK
  <2>2. UNCHANGED <<callback, released, swapped>>
    BY <1>3 DEF Requeue
  <2>3. NoFlight.at = "none"
    BY DEF NoFlight
  <2>4. \A q \in Producers : /\ flight'[q].at = "none" => flight'[q] = NoFlight
                             /\ flight'[q].at = "call" => flight'[q].callback # 0
    BY <2>1, <2>3
  <2>5. QED
    BY <2>2, <2>4
<1>4. ASSUME NEW next \in {NoCallback, callbacks + 1}, SwapCallback(next) PROVE Callbacks'
  <2>1. swapped'.on /\ swapped'.previous = callback /\ callback' = next
    BY <1>4 DEF SwapCallback
  <2>2. callback \notin released /\ (callback # 0 => callback # next)
    BY DEF QueueTypeOK
  <2>3. UNCHANGED <<flight, released>>
    BY <1>4 DEF SwapCallback
  <2>4. swapped'.data # <<>> => next # 0
    BY <1>4 DEF SwapCallback
  <2>5. QED
    BY <2>1, <2>2, <2>3, <2>4
<1>5. CASE Release
  <2>1. 0 \notin released' /\ UNCHANGED <<callback, flight>>
    BY <1>5 DEF Release, QueueTypeOK
  <2>2. swapped'.previous = 0 /\ swapped'.on /\ swapped'.data = swapped.data
    BY <1>5 DEF Release, QueueTypeOK
  <2>3. QED
    BY <2>1, <2>2
<1>6. CASE Flush
  <2>1. \A q \in Producers : /\ flight'[q].at = "none" => flight'[q] = NoFlight
                             /\ flight'[q].at = "call" => flight'[q].callback # 0
    <3>1. CASE callback # NoCallback /\ swapped.data # <<>>
      <4>1. HandOver("ui", swapped.data, FALSE) /\ Settled("ui") /\ swapped.data \in Seq(Items)
        BY <1>6, <3>1 DEF Flush, QueueTypeOK
      <4>2. QED
        BY <4>1, HandOverPlaces
    <3>2. CASE ~(callback # NoCallback /\ swapped.data # <<>>)
      BY <1>6, <3>2 DEF Flush
    <3>3. QED
      BY <3>1, <3>2
  <2>2. swapped' = NotSwapping /\ swapped'.previous = 0 /\ swapped'.data = <<>>
    BY <1>6 DEF Flush, NotSwapping
  <2>3. released' = released /\ 0 \notin released
    BY <1>6 DEF Flush, QueueTypeOK
  <2>4. QED
    BY <2>1, <2>2, <2>3
<1>7. CASE RunCallback
  BY <1>7 DEF RunCallback
<1>8. CASE DrainOutput
  BY <1>8 DEF DrainOutput
<1>9. CASE UNCHANGED queueVars
  BY <1>9 DEF queueVars
<1>10. QED
  BY <1>1, <1>2, <1>3, <1>4, <1>5, <1>6, <1>7, <1>8, <1>9 DEF QueueNext

(* A move that only takes data out of places, or moves it whole, keeps the *)
(* places apart; new data is in none of them yet.                          *)
LEMMA StepOnePlace == QueueInv /\ [QueueNext]_queueVars => InOnePlace' /\ Produced'
<1> SUFFICES ASSUME QueueInv, [QueueNext]_queueVars PROVE InOnePlace' /\ Produced'
  OBVIOUS
<1> USE QueueAssumption DEF QueueInv
<1>a. QueueTypeOK /\ used \in Nat /\ DOMAIN calls = 1..Len(calls) /\ Len(calls) \in Nat
      /\ calls \in Seq(Calls)
  BY LenProperties DEF QueueTypeOK, Calls
<1>1. ASSUME NEW p \in Producers, NEW locked \in BOOLEAN, PushOutput(p, locked)
      PROVE InOnePlace' /\ Produced'
  <2>1. CASE used = MaxItems
    BY <1>1, <2>1 DEF PushOutput, queueVars, InOnePlace, FlightsApart, CallsApart, Produced
  <2>2. CASE used # MaxItems
    <3>1. <<used + 1>> \in Seq(Items) /\ ToSet(<<used + 1>>) = {used + 1}
      <4> HIDE QueueAssumption DEF QueueInv
      <4>1. used + 1 \in Items
        BY <2>2, <1>a, NextItem
      <4> QED BY <4>1, ToSetOne
    <3>2. Settled(p) /\ HandOver(p, <<used + 1>>, locked)
          /\ used' = used + 1 /\ UNCHANGED <<calls, swapped>>
      BY <1>1, <2>2 DEF PushOutput
    <3>3. /\ \A q \in Producers \ {p} : flight'[q] = flight[q]
          /\ \/ ToSet(flight'[p].data) = {used + 1} /\ buffer' = buffer
             \/ flight' = flight /\ ToSet(buffer') = ToSet(buffer) \cup {used + 1}
      <4> DEFINE data == <<used + 1>>
      <4>1. data \in Seq(Items) /\ ToSet(data) = {used + 1} /\ HandOver(p, data, locked)
        BY <3>1, <3>2
      <4> HIDE DEF data
      <4>2. QED
        BY <1>a, <3>2, <4>1, HandOverPlaces
    <3>4. ASSUME NEW x \in 1..used PROVE x # used + 1 /\ x \in 1..(used + 1)
      BY <1>a
    <3>5. used + 1 \in 1..(used + 1)
      BY <1>a
    <3>6. Produced'
      BY <3>2, <3>3, <3>4, <3>5 DEF Produced
    <3>7. InOnePlace'
      <4> HIDE QueueAssumption
      <4>1. /\ ToSet(buffer)' \subseteq ToSet(buffer) \union {used + 1}
            /\ \A q \in Producers :
                 /\ ToSet(flight'[q].data) = ToSet(flight[q].data)
                    \/ ToSet(flight'[q].data) = {used + 1}
                 /\ ToSet(flight'[q].data) # ToSet(flight[q].data) => q = p /\ buffer' = buffer
        BY <3>3
      <4>2. /\ used + 1 \notin ToSet(buffer) /\ used + 1 \notin ToSet(swapped.data)
            /\ \A q \in Producers : used + 1 \notin ToSet(flight[q].data)
            /\ \A i \in DOMAIN calls : used + 1 \notin ToSet(calls[i].data)
        BY <3>4 DEF Produced
      <4>3. calls' = calls /\ swapped' = swapped
        BY <3>2
      <4>4. Apart(ToSet(buffer), ToSet(swapped.data))'
        BY <4>1, <4>2, <4>3 DEF InOnePlace, Apart
      <4>5. FlightsApart'
        BY <4>1, <4>2, <4>3, <3>3 DEF InOnePlace, FlightsApart, Apart
      <4>6. CallsApart'
        BY <4>1, <4>2, <4>3 DEF InOnePlace, CallsApart, Apart
      <4> QED BY <4>4, <4>5, <4>6 DEF InOnePlace
    <3>8. QED
      BY <3>6, <3>7
  <2>3. QED
    BY <2>1, <2>2
<1>2. ASSUME NEW p \in Producers, CallCallback(p) PROVE InOnePlace' /\ Produced'
  <2>1. UNCHANGED <<buffer, swapped, used>>
    BY <1>2 DEF CallCallback
  <2>2. CASE flight[p].callback \in released
    <3>1. calls' = calls /\ \A q \in Producers : flight'[q].data = flight[q].data
      <4>1. calls' = calls /\ flight' = [flight EXCEPT ![p].at = "failed"]
        BY <1>2, <2>2 DEF CallCallback
      <4>2. flight \in [Producers -> Flights]
        BY <1>a DEF QueueTypeOK, Flights
      <4>3. \A q \in Producers : flight'[q] = IF q = p THEN [flight[p] EXCEPT !.at = "failed"]
                                              ELSE flight[q]
        BY <4>1, <4>2
      <4>4. [flight[p] EXCEPT !.at = "failed"].data = flight[p].data
        BY <4>2 DEF Flights
      <4>5. QED
        BY <4>1, <4>3, <4>4
    <3>2. QED
      BY <2>1, <3>1 DEF InOnePlace, FlightsApart, CallsApart, Produced
  <2>3. CASE flight[p].callback \notin released
    <3> DEFINE call == [callback |-> flight[p].callback, data |-> flight[p].data]
               last == Len(calls) + 1
    <3>1. call \in Calls
      BY <1>2, <1>a DEF Calls, CallCallback, QueueTypeOK, Callbacks, NoCallback
    <3>2. calls' = Append(calls, call) /\ flight' = [flight EXCEPT ![p] = NoFlight]
      BY <1>2, <2>3 DEF CallCallback
    <3>3. /\ DOMAIN calls' = 1..last /\ \A i \in DOMAIN calls : calls'[i] = calls[i]
          /\ calls'[last].data = flight[p].data
      BY <1>a, <3>1, <3>2, ToSetAppend
    <3>4. \A i \in 1..last : i # last => i \in DOMAIN calls
      BY <1>a
    <3>5. ToSet(flight'[p].data) = {} /\ \A q \in Producers \ {p} : flight'[q] = flight[q]
      BY <1>a, <3>2, ToSetEmpty DEF QueueTypeOK, NoFlight
    <3> HIDE DEF call, last
    <3>6. Produced'
      BY <2>1, <3>3, <3>4, <3>5 DEF Produced
    <3>7. Apart(ToSet(buffer), ToSet(swapped.data))' /\ FlightsApart'
      BY <2>1, <3>5 DEF InOnePlace, FlightsApart, Apart
    <3>8. CallsApart'
      <4>1. ASSUME NEW i \in DOMAIN calls', NEW q \in Producers
            PROVE  Apart(ToSet(calls'[i].data), ToSet(flight'[q].data))
        BY <3>3, <3>4, <3>5 DEF InOnePlace, FlightsApart, CallsApart, Apart
      <4>2. ASSUME NEW i \in DOMAIN calls', NEW j \in DOMAIN calls', i # j
            PROVE  Apart(ToSet(calls'[i].data), ToSet(calls'[j].data))
        BY <3>3, <3>4, <4>2 DEF InOnePlace, CallsApart, Apart
      <4>3. ASSUME NEW i \in DOMAIN calls'
            PROVE  Apart(ToSet(calls'[i].data), ToSet(buffer))
                   /\ Apart(ToSet(calls'[i].data), ToSet(swapped.data))
        BY <3>3, <3>4 DEF InOnePlace, FlightsApart, CallsApart, Apart
      <4>4. QED
        BY <2>1, <4>1, <4>2, <4>3 DEF CallsApart
    <3>9. QED
      BY <3>6, <3>7, <3>8 DEF InOnePlace
  <2>4. QED
    BY <2>2, <2>3
<1>3. ASSUME NEW p \in Producers, Requeue(p) PROVE InOnePlace' /\ Produced'
  <2>1. UNCHANGED <<calls, swapped, used>>
    BY <1>3 DEF Requeue
  <2>2. ToSet(buffer') = ToSet(buffer) \cup ToSet(flight[p].data)
    BY <1>3, <1>a, ToSetConcat DEF Requeue, QueueTypeOK
  <2>3. ToSet(flight'[p].data) = {} /\ \A q \in Producers \ {p} : flight'[q] = flight[q]
    BY <1>3, <1>a, ToSetEmpty DEF Requeue, QueueTypeOK, NoFlight
  <2>4. Produced'
    BY <2>1, <2>2, <2>3 DEF Produced
  <2>5. FlightsApart' /\ Apart(ToSet(buffer), ToSet(swapped.data))'
    BY <2>1, <2>2, <2>3 DEF InOnePlace, FlightsApart, Apart
  <2>6. CallsApart'
    BY <2>1, <2>2, <2>3 DEF InOnePlace, CallsApart, Apart
  <2>7. QED
    BY <2>4, <2>5, <2>6 DEF InOnePlace
<1>4. ASSUME NEW next \in {NoCallback, callbacks + 1}, SwapCallback(next)
      PROVE InOnePlace' /\ Produced'
  <2>1. UNCHANGED <<calls, flight, used>> /\ ToSet(swapped.data) = {}
    BY <1>4, ToSetEmpty DEF SwapCallback, Callbacks, NotSwapping
  <2>2. \/ ToSet(swapped'.data) = ToSet(buffer) /\ ToSet(buffer') = {}
        \/ ToSet(swapped'.data) = {} /\ buffer' = buffer
    BY <1>4, ToSetEmpty DEF SwapCallback
  <2>3. Produced'
    BY <2>1, <2>2 DEF Produced
  <2>4. InOnePlace'
    BY <2>1, <2>2 DEF InOnePlace, FlightsApart, CallsApart, Apart
  <2>5. QED
    BY <2>3, <2>4
<1>5. CASE Release
  <2>1. UNCHANGED <<used, buffer, flight, calls>> /\ swapped'.data = swapped.data
    BY <1>5, <1>a DEF Release, QueueTypeOK
  <2>2. QED
    BY <2>1 DEF InOnePlace, FlightsApart, CallsApart, Produced
<1>6. CASE Flush
  <2>1. UNCHANGED <<calls, used>> /\ ToSet(swapped'.data) = {}
    BY <1>6, ToSetEmpty DEF Flush, NotSwapping
  <2>2. CASE callback # NoCallback /\ swapped.data # <<>>
    <3>1. HandOver("ui", swapped.data, FALSE) /\ Settled("ui") /\ swapped.data \in Seq(Items)
      BY <1>6, <2>2, <1>a DEF Flush, QueueTypeOK
    <3>2. /\ \A q \in Producers \ {"ui"} : flight'[q] = flight[q]
          /\ ToSet(flight'["ui"].data) = ToSet(swapped.data) /\ buffer' = buffer
      BY <1>a, <2>2, <3>1, HandOverPlaces
    <3>3. Produced'
      BY <2>1, <3>2 DEF Produced
    <3>4. InOnePlace'
      BY <2>1, <3>2 DEF InOnePlace, FlightsApart, CallsApart, Apart
    <3>5. QED
      BY <3>3, <3>4
  <2>3. CASE ~(callback # NoCallback /\ swapped.data # <<>>)
    <3>1. UNCHANGED <<buffer, flight>>
      BY <1>6, <2>3 DEF Flush
    <3>2. QED
      BY <2>1, <3>1 DEF InOnePlace, FlightsApart, CallsApart, Produced, Apart
  <2>4. QED
    BY <2>2, <2>3
<1>7. CASE RunCallback
  <2>1. UNCHANGED <<used, buffer, flight, swapped>> /\ calls' = Tail(calls) /\ calls # <<>>
    BY <1>7 DEF RunCallback
  <2>2. \A i \in DOMAIN calls' : i + 1 \in DOMAIN calls /\ calls'[i] = calls[i + 1] /\ i \in Nat
    <3>1. calls' \in Seq(Calls)
      BY <1>a, <2>1, TailIndices
    <3>2. QED
      BY <1>a, <2>1, <3>1, TailIndices, LenProperties
  <2>3. \A i, j \in DOMAIN calls' : i # j => i + 1 # j + 1
    BY <2>2
  <2>4. Produced'
    BY <2>1, <2>2 DEF Produced
  <2>5. InOnePlace'
    BY <2>1, <2>2, <2>3 DEF InOnePlace, FlightsApart, CallsApart
  <2>6. QED
    BY <2>4, <2>5
<1>8. CASE DrainOutput
  <2>1. UNCHANGED <<used, flight, calls, swapped>> /\ ToSet(buffer') = {}
    BY <1>8, ToSetEmpty DEF DrainOutput
  <2>2. QED
    BY <2>1 DEF InOnePlace, FlightsApart, CallsApart, Produced, Apart
<1>9. CASE UNCHANGED queueVars
  BY <1>9 DEF queueVars, InOnePlace, FlightsApart, CallsApart, Produced
<1>10. QED
  BY <1>1, <1>2, <1>3, <1>4, <1>5, <1>6, <1>7, <1>8, <1>9 DEF QueueNext

(* The invariant holds in every reachable state.                           *)
THEOREM QueueCorrect == QueueInit /\ [][QueueNext]_queueVars => []QueueInv
<1>1. QueueInv /\ [QueueNext]_queueVars => QueueInv'
  BY StepQueueType, StepCallbacks, StepOnePlace DEF QueueInv
<1>2. QED
  BY InitQueueInv, <1>1, PTL

-----------------------------------------------------------------------------
(* The refinement.                                                         *)

LEMMA InTransitMembers ==
    \A x : x \in InTransit <=>
        \/ x \in ToSet(buffer) \/ x \in ToSet(swapped.data)
        \/ \E p \in Producers : x \in ToSet(flight[p].data)
        \/ \E i \in DOMAIN calls : calls[i].callback \notin released /\ x \in ToSet(calls[i].data)
BY DEF InTransit, Flying, Called

LEMMA InTransitMembersNext ==
    \A x : x \in InTransit' <=>
        \/ x \in ToSet(buffer') \/ x \in ToSet(swapped'.data)
        \/ \E p \in Producers : x \in ToSet(flight'[p].data)
        \/ \E i \in DOMAIN calls' : calls'[i].callback \notin released' /\ x \in ToSet(calls'[i].data)
BY DEF InTransit, Flying, Called

(* Every step of the hand-over is one of the channel, or changes nothing   *)
(* the channel speaks of.                                                  *)
LEMMA StepChannel ==
    QueueInv /\ [QueueNext]_queueVars => [Channel!ChannelNext]_(Channel!channelVars)
<1> SUFFICES ASSUME QueueInv, [QueueNext]_queueVars
             PROVE  Channel!ChannelNext \/ UNCHANGED Channel!channelVars
  OBVIOUS
<1> USE QueueAssumption DEF QueueInv
<1>a. QueueTypeOK /\ used \in Nat /\ DOMAIN calls = 1..Len(calls) /\ Len(calls) \in Nat
      /\ calls \in Seq(Calls)
  BY LenProperties DEF QueueTypeOK, Calls
<1> DEFINE Stutters == UNCHANGED <<used, delivered, released>> /\ InTransit' = InTransit
<1>b. ASSUME Stutters PROVE UNCHANGED Channel!channelVars
  BY <1>b DEF Channel!channelVars
<1> HIDE DEF Stutters
<1>1. ASSUME NEW p \in Producers, NEW locked \in BOOLEAN, PushOutput(p, locked)
      PROVE Channel!Produce \/ Stutters
  <2>1. CASE used = MaxItems
    BY <1>1, <2>1, InTransitMembers, InTransitMembersNext DEF PushOutput, queueVars, Stutters
  <2>2. CASE used # MaxItems
    <3> DEFINE data == <<used + 1>>
    <3>1. data \in Seq(Items) /\ ToSet(data) = {used + 1}
      <4> HIDE QueueAssumption DEF QueueInv
      <4>1. used + 1 \in Items
        BY <2>2, <1>a, NextItem
      <4> QED BY <4>1, ToSetOne
    <3>2. Settled(p) /\ HandOver(p, data, locked)
          /\ used' = used + 1 /\ UNCHANGED <<calls, swapped, released, delivered>>
      BY <1>1, <2>2 DEF PushOutput
    <3> HIDE DEF data
    <3>3. /\ \A q \in Producers \ {p} : flight'[q] = flight[q]
          /\ ToSet(flight[p].data) = {}
          /\ \/ ToSet(flight'[p].data) = {used + 1} /\ buffer' = buffer
             \/ flight' = flight /\ ToSet(buffer') = ToSet(buffer) \cup {used + 1}
      <4>1. /\ \A q \in Producers \ {p} : flight'[q] = flight[q]
            /\ ToSet(flight[p].data) = {}
            /\ \/ ToSet(flight'[p].data) = ToSet(data) /\ buffer' = buffer
               \/ flight' = flight /\ ToSet(buffer') = ToSet(buffer) \cup ToSet(data)
        <5>1. QueueTypeOK /\ data \in Seq(Items) /\ Settled(p) /\ HandOver(p, data, locked)
          BY <1>a, <3>1, <3>2
        <5>2. \A q \in Producers \ {p} : flight'[q] = flight[q]
          BY <5>1, HandOverPlaces
        <5>3. ToSet(flight[p].data) = {}
          BY <5>1, HandOverPlaces
        <5>4. \/ ToSet(flight'[p].data) = ToSet(data) /\ buffer' = buffer
              \/ flight' = flight /\ ToSet(buffer') = ToSet(buffer) \cup ToSet(data)
          BY <5>1, HandOverPlaces
        <5>5. QED
          BY <5>2, <5>3, <5>4
      <4>2. QED
        BY <3>1, <4>1
    <3>4. \A x : x \in InTransit' <=> x \in InTransit \/ x = used + 1
      BY <3>2, <3>3, InTransitMembers, InTransitMembersNext
    <3>5. InTransit' = InTransit \cup {used + 1}
      BY <3>4
    <3>6. used < MaxItems
      BY <2>2, <1>a DEF QueueTypeOK
    <3>7. QED
      BY <3>2, <3>5, <3>6 DEF Channel!Produce
  <2>3. QED
    BY <2>1, <2>2
<1>2. ASSUME NEW p \in Producers, CallCallback(p) PROVE Stutters
  <2>1. UNCHANGED <<used, buffer, released, swapped, delivered>>
    BY <1>2 DEF CallCallback
  <2>2. flight \in [Producers -> Flights]
    BY <1>a DEF QueueTypeOK, Flights
  <2>3. CASE flight[p].callback \in released
    <3>1. calls' = calls /\ flight' = [flight EXCEPT ![p].at = "failed"]
      BY <1>2, <2>3 DEF CallCallback
    <3>2. \A q \in Producers : flight'[q].data = flight[q].data
      <4>1. \A q \in Producers : flight'[q] = IF q = p THEN [flight[p] EXCEPT !.at = "failed"]
                                              ELSE flight[q]
        BY <2>2, <3>1
      <4>2. [flight[p] EXCEPT !.at = "failed"].data = flight[p].data
        BY <2>2 DEF Flights
      <4>3. QED
        BY <4>1, <4>2
    <3>3. \A x : x \in InTransit' <=> x \in InTransit
      BY <2>1, <3>1, <3>2, InTransitMembers, InTransitMembersNext
    <3>4. QED
      BY <2>1, <3>3 DEF Stutters
  <2>4. CASE flight[p].callback \notin released
    <3> DEFINE call == [callback |-> flight[p].callback, data |-> flight[p].data]
               last == Len(calls) + 1
    <3>1. call \in Calls
      BY <1>2, <2>2 DEF Calls, CallCallback, Flights, Callbacks, NoCallback
    <3>2. calls' = Append(calls, call) /\ flight' = [flight EXCEPT ![p] = NoFlight]
      BY <1>2, <2>4 DEF CallCallback
    <3>3. /\ DOMAIN calls' = 1..last /\ \A i \in DOMAIN calls : calls'[i] = calls[i]
          /\ calls'[last].data = flight[p].data /\ calls'[last].callback \notin released
      BY <1>a, <2>4, <3>1, <3>2, ToSetAppend
    <3>4. /\ \A i \in 1..last : i # last => i \in DOMAIN calls
          /\ \A i \in DOMAIN calls : i \in 1..last
          /\ last \in 1..last
      BY <1>a
    <3>5. ToSet(flight'[p].data) = {} /\ \A q \in Producers \ {p} : flight'[q] = flight[q]
      BY <2>2, <3>2, ToSetEmpty DEF NoFlight
    <3> HIDE DEF call, last
    <3>6. ASSUME NEW x \in InTransit' PROVE x \in InTransit
      BY <2>1, <3>3, <3>4, <3>5, InTransitMembers, InTransitMembersNext
    <3>7. ASSUME NEW x \in InTransit PROVE x \in InTransit'
      BY <2>1, <3>3, <3>4, <3>5, InTransitMembers, InTransitMembersNext
    <3>8. QED
      BY <2>1, <3>6, <3>7 DEF Stutters
  <2>5. QED
    BY <2>3, <2>4
<1>3. ASSUME NEW p \in Producers, Requeue(p) PROVE Stutters
  <2>1. UNCHANGED <<used, calls, released, swapped, delivered>>
    BY <1>3 DEF Requeue
  <2>2. ToSet(buffer') = ToSet(buffer) \cup ToSet(flight[p].data)
    BY <1>3, <1>a, ToSetConcat DEF Requeue, QueueTypeOK
  <2>3. ToSet(flight'[p].data) = {} /\ \A q \in Producers \ {p} : flight'[q] = flight[q]
    BY <1>3, <1>a, ToSetEmpty DEF Requeue, QueueTypeOK, NoFlight
  <2>4. \A x : x \in InTransit' <=> x \in InTransit
    BY <2>1, <2>2, <2>3, InTransitMembers, InTransitMembersNext
  <2>5. QED
    BY <2>1, <2>4 DEF Stutters
<1>4. ASSUME NEW next \in {NoCallback, callbacks + 1}, SwapCallback(next) PROVE Stutters
  <2>1. UNCHANGED <<used, calls, flight, released, delivered>> /\ ToSet(swapped.data) = {}
    BY <1>4, ToSetEmpty DEF SwapCallback, Callbacks, NotSwapping
  <2>2. \/ ToSet(swapped'.data) = ToSet(buffer) /\ ToSet(buffer') = {}
        \/ ToSet(swapped'.data) = {} /\ buffer' = buffer
    BY <1>4, ToSetEmpty DEF SwapCallback
  <2>3. \A x : x \in InTransit' <=> x \in InTransit
    BY <2>1, <2>2, InTransitMembers, InTransitMembersNext
  <2>4. QED
    BY <2>1, <2>3 DEF Stutters
<1>5. CASE Release
  <2> DEFINE lost == InTransit \ InTransit'
  <2>1. UNCHANGED <<used, buffer, flight, calls, delivered>> /\ swapped'.data = swapped.data
        /\ released' = released \cup {swapped.previous}
    BY <1>5, <1>a DEF Release, QueueTypeOK
  <2>2. \A x : x \in InTransit' => x \in InTransit
    BY <2>1, InTransitMembers, InTransitMembersNext
  <2>3. InTransit' = InTransit \ lost /\ lost \in SUBSET InTransit
    BY <2>2
  <2>4. swapped.previous \notin released /\ swapped.previous \in released'
    BY <2>1 DEF Callbacks
  <2> HIDE DEF lost
  <2>5. Channel!ReleaseCallback(swapped.previous, lost)
    BY <2>1, <2>3, <2>4 DEF Channel!ReleaseCallback
  <2>6. QED
    BY <2>3, <2>4, <2>5 DEF Channel!ChannelNext
<1>6. CASE Flush
  <2>1. UNCHANGED <<used, calls, released, delivered>> /\ ToSet(swapped'.data) = {}
    BY <1>6, ToSetEmpty DEF Flush, NotSwapping
  <2>2. CASE callback # NoCallback /\ swapped.data # <<>>
    <3>1. HandOver("ui", swapped.data, FALSE) /\ Settled("ui") /\ swapped.data \in Seq(Items)
      BY <1>6, <2>2, <1>a DEF Flush, QueueTypeOK
    <3>2. /\ \A q \in Producers \ {"ui"} : flight'[q] = flight[q]
          /\ ToSet(flight["ui"].data) = {}
          /\ ToSet(flight'["ui"].data) = ToSet(swapped.data) /\ buffer' = buffer
      BY <1>a, <2>2, <3>1, HandOverPlaces
    <3>3. \A x : x \in InTransit' <=> x \in InTransit
      BY <2>1, <3>2, InTransitMembers, InTransitMembersNext
    <3>4. Stutters
      BY <2>1, <3>3 DEF Stutters
    <3>5. QED
      BY <1>b, <3>4
  <2>3. CASE ~(callback # NoCallback /\ swapped.data # <<>>)
    <3>1. UNCHANGED <<buffer, flight>> /\ ToSet(swapped.data) = {}
      BY <1>6, <2>3, ToSetEmpty DEF Flush, Callbacks
    <3>2. \A x : x \in InTransit' <=> x \in InTransit
      BY <2>1, <3>1, InTransitMembers, InTransitMembersNext
    <3>3. Stutters
      BY <2>1, <3>2 DEF Stutters
    <3>4. QED
      BY <1>b, <3>3
  <2>4. QED
    BY <2>2, <2>3
<1>7. CASE RunCallback
  <2> DEFINE got == Called(1)
  <2>1. UNCHANGED <<used, buffer, flight, released, swapped>> /\ calls' = Tail(calls) /\ calls # <<>>
    BY <1>7 DEF RunCallback
  <2>2. /\ 1 \in DOMAIN calls /\ Head(calls) = calls[1] /\ calls' \in Seq(Calls)
        /\ \A i \in DOMAIN calls' : i + 1 \in DOMAIN calls /\ i + 1 # 1 /\ calls'[i] = calls[i + 1]
        /\ \A i \in DOMAIN calls : i # 1 => i - 1 \in DOMAIN calls' /\ calls'[i - 1] = calls[i]
    BY <1>a, <2>1, TailIndices
  <2>3. delivered' = delivered \cup got
    BY <1>7, <2>2 DEF RunCallback, Called
  <2>4. got \subseteq ToSet(calls[1].data)
        /\ \A x : x \in got <=> calls[1].callback \notin released /\ x \in ToSet(calls[1].data)
    BY DEF Called
  <2> HIDE DEF got
  <2>5. ASSUME NEW x \in InTransit' PROVE x \in InTransit /\ x \notin ToSet(calls[1].data)
    <3>1. /\ x \notin ToSet(buffer) \/ x \notin ToSet(calls[1].data)
          /\ x \notin ToSet(swapped.data) \/ x \notin ToSet(calls[1].data)
          /\ \A p \in Producers : x \notin ToSet(flight[p].data) \/ x \notin ToSet(calls[1].data)
          /\ \A j \in DOMAIN calls : j # 1 => x \notin ToSet(calls[j].data) \/ x \notin ToSet(calls[1].data)
      BY <2>2 DEF InOnePlace, CallsApart, Apart
    <3>2. \/ x \in ToSet(buffer) \/ x \in ToSet(swapped.data)
          \/ \E p \in Producers : x \in ToSet(flight[p].data)
          \/ \E i \in DOMAIN calls' : calls'[i].callback \notin released /\ x \in ToSet(calls'[i].data)
      BY <2>1, InTransitMembersNext
    <3>3. CASE \E i \in DOMAIN calls' : calls'[i].callback \notin released /\ x \in ToSet(calls'[i].data)
      <4>1. PICK i \in DOMAIN calls' : calls'[i].callback \notin released /\ x \in ToSet(calls'[i].data)
        BY <3>3
      <4>2. PICK j \in DOMAIN calls : j # 1 /\ calls'[i] = calls[j]
        BY <2>2, <4>1
      <4>3. QED
        BY <3>1, <4>1, <4>2, InTransitMembers
    <3>4. QED
      BY <3>1, <3>2, <3>3, InTransitMembers
  <2>6. ASSUME NEW x \in InTransit, x \notin got PROVE x \in InTransit'
    <3>1. \/ x \in ToSet(buffer') \/ x \in ToSet(swapped'.data)
          \/ \E p \in Producers : x \in ToSet(flight'[p].data)
          \/ \E i \in DOMAIN calls : calls[i].callback \notin released /\ x \in ToSet(calls[i].data)
      BY <2>1, <2>6, InTransitMembers
    <3>2. CASE \E i \in DOMAIN calls : calls[i].callback \notin released /\ x \in ToSet(calls[i].data)
      <4>1. PICK i \in DOMAIN calls : calls[i].callback \notin released /\ x \in ToSet(calls[i].data)
        BY <3>2
      <4>2. i # 1
        BY <2>4, <2>6, <4>1
      <4>3. PICK j \in DOMAIN calls' : calls'[j] = calls[i]
        BY <2>2, <4>1, <4>2
      <4>4. QED
        BY <2>1, <4>1, <4>3, InTransitMembersNext
    <3>3. QED
      BY <3>1, <3>2, InTransitMembersNext
  <2>7. InTransit' = InTransit \ got /\ got \in SUBSET InTransit
    <3>1. got \subseteq InTransit
      BY <2>2, <2>4, InTransitMembers
    <3>2. QED
      BY <2>4, <2>5, <2>6, <3>1
  <2>8. Channel!Deliver(got)
    BY <2>1, <2>3, <2>7 DEF Channel!Deliver
  <2>9. QED
    BY <2>7, <2>8 DEF Channel!ChannelNext
<1>8. CASE DrainOutput
  <2> DEFINE got == ToSet(buffer)
  <2>1. UNCHANGED <<used, flight, calls, swapped, released>> /\ ToSet(buffer') = {}
        /\ delivered' = delivered \cup got
    BY <1>8, ToSetEmpty DEF DrainOutput
  <2>2. \A x : x \in InTransit' <=> x \in InTransit /\ x \notin got
    BY <2>1, InTransitMembers, InTransitMembersNext
       DEF InOnePlace, FlightsApart, CallsApart, Apart
  <2>3. got \in SUBSET InTransit
    BY InTransitMembers
  <2> HIDE DEF got
  <2>4. InTransit' = InTransit \ got
    BY <2>2
  <2>5. Channel!Deliver(got)
    BY <2>1, <2>3, <2>4 DEF Channel!Deliver
  <2>6. QED
    BY <2>3, <2>5 DEF Channel!ChannelNext
<1>9. CASE UNCHANGED queueVars
  <2>1. Stutters
    BY <1>9, InTransitMembers, InTransitMembersNext DEF queueVars, Stutters
  <2>2. QED
    BY <1>b, <2>1
<1>10. QED
  BY <1>b, <1>1, <1>2, <1>3, <1>4, <1>5, <1>6, <1>7, <1>8, <1>9
     DEF QueueNext, Channel!ChannelNext

(* The hand-over implements the channel: whatever threads produce output   *)
(* and whenever callbacks are set and released, a piece reaches the        *)
(* terminal at most once and is lost only with the callback it was handed  *)
(* to.                                                                     *)
THEOREM HandOverImplementsChannel ==
    QueueInit /\ [][QueueNext]_queueVars => ImplementsChannel
<1>1. QueueInit => Channel!ChannelInit
  <2> SUFFICES ASSUME QueueInit PROVE Channel!ChannelInit
    OBVIOUS
  <2>1. \A x : x \notin InTransit
    BY InTransitMembers, ToSetEmpty DEF QueueInit, NoFlight, NotSwapping
  <2>2. QED
    BY <2>1 DEF QueueInit, Channel!ChannelInit
<1>2. QED
  BY <1>1, QueueCorrect, StepChannel, PTL DEF ImplementsChannel, Channel!ChannelSpec

(***************************************************************************)
(* The driver.                                                             *)
(***************************************************************************)

(* A step of the driver is one of the hand-over, or leaves it alone.       *)
LEMMA StepIsQueueStep == [Next]_vars => [QueueNext]_queueVars
<1> SUFFICES ASSUME [Next]_vars PROVE [QueueNext]_queueVars
  OBVIOUS
<1> USE DriverAssumption
<1>1. CASE ArkStop
  BY <1>1 DEF ArkStop, UiReady, QueueNext
<1>2. CASE Write
  BY <1>2 DEF Write, QueueNext
<1>3. CASE WritePassword
  BY <1>3 DEF WritePassword, QueueNext
<1>4. CASE Resize
  BY <1>4 DEF Resize, QueueNext
<1>5. CASE StopBegins
  BY <1>5 DEF StopBegins, QueueNext
<1>6. CASE JoinSsh
  BY <1>6 DEF JoinSsh, QueueNext
<1>7. CASE JoinReader
  BY <1>7 DEF JoinReader, QueueNext
<1>8. CASE ClosePty
  BY <1>8 DEF ClosePty, QueueNext
<1>9. CASE OpenPty
  BY <1>9 DEF OpenPty, QueueNext
<1>10. CASE OpenFails
  BY <1>10 DEF OpenFails, QueueNext
<1>11. CASE SpawnReader
  BY <1>11 DEF SpawnReader, QueueNext
<1>12. CASE Banner
  BY <1>12 DEF Banner, QueueNext
<1>13. CASE SetOutputCallback
  BY <1>13 DEF SetOutputCallback, QueueNext
<1>14. CASE PasswordKey
  BY <1>14 DEF PasswordKey, QueueNext
<1>15. CASE PasswordCancel \/ ConnectFails
  BY <1>15 DEF PasswordCancel, ConnectFails, BackToShell, QueueNext
<1>16. CASE ConnectAgain
  BY <1>16 DEF ConnectAgain, QueueNext
<1>17. CASE ConnectSsh \/ ReplaceSession
  BY <1>17 DEF ConnectSsh, ReplaceSession, ConnectedSession, QueueNext
<1>18. CASE ReaderTop
  BY <1>18 DEF ReaderTop, QueueNext
<1>19. CASE ReadNothing
  BY <1>19 DEF ReadNothing, QueueNext
<1>20. CASE ReportExit
  BY <1>20 DEF ReportExit, QueueNext
<1>21. CASE LogChunk
  BY <1>21 DEF LogChunk, QueueNext
<1>22. CASE ShowChunk
  BY <1>22 DEF ShowChunk, QueueNext
<1>23. CASE WithholdChunk
  BY <1>23 DEF WithholdChunk, QueueNext
<1>24. CASE PromptTrigger
  BY <1>24 DEF PromptTrigger, RenderPromptLocked, QueueNext
<1>25. CASE SshTrigger
  BY <1>25 DEF SshTrigger, QueueNext
<1>26. CASE BadTarget
  BY <1>26 DEF BadTarget, QueueNext
<1>27. CASE SshOutput
  BY <1>27 DEF SshOutput, QueueNext
<1>28. CASE SshEnds
  BY <1>28 DEF SshEnds, QueueNext
<1>29. CASE ChildExits
  BY <1>29 DEF ChildExits, QueueNext
<1>30. CASE Swap
  BY <1>30 DEF Swap, QueueNext
<1>31. CASE JavaScript
  BY <1>31 DEF JavaScript, QueueNext
<1>32. ASSUME NEW sized \in BOOLEAN, ArkStart(sized) PROVE [QueueNext]_queueVars
  BY <1>32 DEF ArkStart, QueueNext
<1>33. ASSUME NEW kind \in Chunks, ReadChunk(kind) PROVE [QueueNext]_queueVars
  BY <1>33 DEF ReadChunk, QueueNext
<1>34. ASSUME NEW pipe \in BOOLEAN, ReadEnds(pipe) PROVE [QueueNext]_queueVars
  BY <1>34 DEF ReadEnds, QueueNext
<1>35. ASSUME NEW p \in Producers, Hand(p) PROVE [QueueNext]_queueVars
  BY <1>35 DEF Hand, QueueNext
<1>36. CASE UNCHANGED vars
  BY <1>36 DEF vars
<1>37. QED
  BY <1>1, <1>2, <1>3, <1>4, <1>5, <1>6, <1>7, <1>8, <1>9, <1>10, <1>11,
     <1>12, <1>13, <1>14, <1>15, <1>16, <1>17, <1>18, <1>19, <1>20, <1>21,
     <1>22, <1>23, <1>24, <1>25, <1>26, <1>27, <1>28, <1>29, <1>30, <1>31,
     <1>32, <1>33, <1>34, <1>35, <1>36
     DEF Next, UiContinues, ReaderContinues

(* The driver's output implements the channel.                             *)
THEOREM ShellImplementsChannel == Spec => ImplementsChannel
<1>1. Init => QueueInit
  BY DEF Init
<1>2. QED
  BY <1>1, StepIsQueueStep, HandOverImplementsChannel, PTL DEF Spec
-----------------------------------------------------------------------------
(* Where the threads stand: a reader is joined before its pseudo terminal  *)
(* is closed, and a session before a shell is opened.                      *)
PtysOrdered ==
    /\ ui.at = "open" => pty = NoPty
    /\ \A f \in Ptys : f > ptys => closed[f] = 0
ReaderJoined ==
    /\ joinable <=> reader.at # "none"
    /\ ui.at \in {"close", "open", "spawn"} => reader.at = "none"
SessionJoined ==
    ui.at \in {"join", "close", "open", "spawn", "banner", "callback"} => ~session.connected
KeysLeft == ui.at \in {"password", "replace"} => ui.data # <<>>

ShellInv ==
    /\ DriverTypeOK /\ PtysAccounted /\ SessionHasInput
    /\ PtysOrdered /\ ReaderJoined /\ SessionJoined /\ KeysLeft

(* What is left of a password after a key.                                 *)
LEMMA RestOfKeys ==
    ASSUME NEW data \in Seq(Keys), data # <<>>, Len(data) # 1
    PROVE  Tail(data) \in Seq(Keys) /\ Tail(data) # <<>>
<1>1. Len(data) \in Nat /\ Len(data) # 0
  BY LenProperties, EmptySeq
<1>2. Tail(data) \in Seq(Keys) /\ Len(Tail(data)) = Len(data) - 1
  BY <1>1, HeadTailProperties
<1>3. Len(Tail(data)) # 0
  BY <1>1, <1>2
<1>4. QED
  BY <1>2, <1>3, EmptySeq

(* The types, one group of variables at a time.                            *)
LEMMA StepFlagTypes ==
    ASSUME FlagTypes, [Next]_vars
    PROVE  FlagTypes'
<1> USE DriverAssumption DEF FlagTypes
<1>1. ASSUME ArkStop \/ WritePassword \/ JoinSsh \/ OpenFails \/ Banner \/
              SetOutputCallback \/ PasswordKey \/ ReaderTop \/ ReportExit \/
              LogChunk \/ ShowChunk \/ PromptTrigger \/ ChildExits \/ Swap \/
              JavaScript \/ (\E sized \in BOOLEAN : ArkStart(sized)) \/ (\E p
              \in Producers : Hand(p)) \/ UNCHANGED vars
      PROVE  UNCHANGED <<running, escape, joinable, broken, mode, asked>>
  BY <1>1 DEF ArkStop, WritePassword, JoinSsh, OpenFails, Banner,
         SetOutputCallback, PasswordKey, ReaderTop, ReportExit, LogChunk,
         ShowChunk, PromptTrigger, ChildExits, Swap, JavaScript, ArkStart,
         Hand, driver, vars
<1>2. CASE Write
  BY <1>2 DEF Write, Uses
<1>3. CASE Resize
  BY <1>3 DEF Resize, Uses
<1>4. CASE StopBegins
  BY <1>4 DEF StopBegins
<1>5. CASE JoinReader
  BY <1>5 DEF JoinReader
<1>6. CASE ClosePty
  BY <1>6 DEF ClosePty
<1>7. CASE OpenPty
  BY <1>7 DEF OpenPty
<1>8. CASE SpawnReader
  BY <1>8 DEF SpawnReader
<1>9. CASE PasswordCancel \/ ConnectFails
  BY <1>9 DEF PasswordCancel, ConnectFails, BackToShell, Uses
<1>10. CASE ConnectAgain
  BY <1>10 DEF ConnectAgain
<1>11. CASE ConnectSsh \/ ReplaceSession
  BY <1>11 DEF ConnectSsh, ReplaceSession, ConnectedSession
<1>12. CASE ReadNothing
  BY <1>12 DEF ReadNothing, ReaderReads, Uses
<1>13. CASE WithholdChunk
  BY <1>13 DEF WithholdChunk
<1>14. CASE SshTrigger
  BY <1>14 DEF SshTrigger
<1>15. CASE BadTarget
  BY <1>15 DEF BadTarget
<1>16. CASE SshOutput
  BY <1>16 DEF SshOutput
<1>17. CASE SshEnds
  BY <1>17 DEF SshEnds
<1>18. ASSUME NEW kind \in Chunks, ReadChunk(kind) PROVE FlagTypes'
  BY <1>18 DEF ReadChunk, ReaderReads, Uses
<1>19. ASSUME NEW pipe \in BOOLEAN, ReadEnds(pipe) PROVE FlagTypes'
  BY <1>19 DEF ReadEnds, ReaderReads, Uses
<1>20. QED
  BY <1>1, <1>2, <1>3, <1>4, <1>5, <1>6, <1>7, <1>8, <1>9, <1>10, <1>11,
     <1>12, <1>13, <1>14, <1>15, <1>16, <1>17, <1>18, <1>19
     DEF Next, UiContinues, ReaderContinues

(* The session, its reader and the component that starts the driver.       *)
LEMMA StepSessionTypes ==
    ASSUME SessionTypes, [Next]_vars
    PROVE  SessionTypes'
<1> USE DriverAssumption DEF SessionTypes
<1>1. ASSUME Write \/ WritePassword \/ Resize \/ JoinReader \/ ClosePty \/
              OpenPty \/ SpawnReader \/ SetOutputCallback \/ PasswordKey \/
              ReaderTop \/ ReadNothing \/
              ReportExit \/ LogChunk \/ ShowChunk \/ WithholdChunk \/
              PromptTrigger \/ SshTrigger \/ BadTarget \/ SshOutput \/
              ChildExits \/ Swap \/ JavaScript \/ (\E kind \in Chunks :
              ReadChunk(kind)) \/ (\E pipe \in BOOLEAN : ReadEnds(pipe)) \/
              (\E p \in Producers : Hand(p)) \/ UNCHANGED vars
      PROVE  UNCHANGED <<session, sshAt, ark>>
  BY <1>1 DEF Write, WritePassword, Resize, JoinReader, ClosePty, OpenPty,
         SpawnReader, SetOutputCallback, PasswordKey, ReaderTop, ReadNothing, ReportExit, LogChunk,
         ShowChunk, WithholdChunk, PromptTrigger, SshTrigger, BadTarget,
         SshOutput, ChildExits, Swap, JavaScript, ReadChunk, ReadEnds, Hand,
         driver, vars
<1>2. CASE ArkStop
  BY <1>2 DEF ArkStop
<1>3. CASE StopBegins
  BY <1>3 DEF StopBegins
<1>4. CASE JoinSsh
  BY <1>4 DEF JoinSsh, NoSession
<1>5. CASE OpenFails
  BY <1>5 DEF OpenFails
<1>6. CASE Banner
  BY <1>6 DEF Banner
<1>7. CASE ConnectSsh \/ ReplaceSession
  <2>1. session' = NewSession /\ sshAt' = "top" /\ ark' = ark
    BY <1>7 DEF ConnectSsh, ReplaceSession, ConnectedSession
  <2>2. QED
    BY <2>1 DEF NewSession
<1>8. CASE SshEnds
  BY <1>8 DEF SshEnds
<1>9. ASSUME NEW sized \in BOOLEAN, ArkStart(sized) PROVE SessionTypes'
  BY <1>9 DEF ArkStart
<1>10. CASE PasswordCancel \/ ConnectFails
  BY <1>10 DEF PasswordCancel, ConnectFails, BackToShell
<1>11. CASE ConnectAgain
  BY <1>11 DEF ConnectAgain
<1>12. QED
  BY <1>1, <1>2, <1>3, <1>4, <1>5, <1>6, <1>7, <1>8, <1>9, <1>10, <1>11
     DEF Next, UiContinues, ReaderContinues

(* The pseudo terminals and their shells.                                  *)
LEMMA StepPtyTypes ==
    ASSUME PtyTypes, [Next]_vars
    PROVE  PtyTypes'
<1> USE DriverAssumption DEF PtyTypes, Ptys, NoPty
<1>1. ASSUME ArkStop \/ Write \/ WritePassword \/ Resize \/ StopBegins \/
              JoinSsh \/ JoinReader \/ OpenFails \/ SpawnReader \/ Banner \/
              SetOutputCallback \/ PasswordKey \/ PasswordCancel \/
              ConnectFails \/ ConnectSsh \/ ConnectAgain \/ ReplaceSession \/ ReaderTop \/ ReadNothing \/
              LogChunk \/ ShowChunk \/ WithholdChunk \/ PromptTrigger \/
              SshTrigger \/ BadTarget \/ SshOutput \/ SshEnds \/ Swap \/
              JavaScript \/ (\E sized \in BOOLEAN : ArkStart(sized)) \/ (\E
              kind \in Chunks : ReadChunk(kind)) \/ (\E pipe \in BOOLEAN :
              ReadEnds(pipe)) \/ (\E p \in Producers : Hand(p)) \/ UNCHANGED
              vars
      PROVE  UNCHANGED <<ptys, pty, closed, child>>
  BY <1>1 DEF ArkStop, Write, WritePassword, Resize, StopBegins, JoinSsh,
         JoinReader, OpenFails, SpawnReader, Banner, SetOutputCallback,
         PasswordKey, PasswordCancel, ConnectFails, ConnectSsh, ConnectAgain, ReplaceSession, BackToShell, ConnectedSession, ReaderTop,
         ReadNothing, LogChunk, ShowChunk, WithholdChunk, PromptTrigger,
         SshTrigger, BadTarget, SshOutput, SshEnds, Swap, JavaScript,
         ArkStart, ReadChunk, ReadEnds, Hand, driver, vars
<1>2. CASE ClosePty
  BY <1>2 DEF ClosePty
<1>3. CASE OpenPty
  BY <1>3 DEF OpenPty
<1>4. CASE ReportExit
  BY <1>4 DEF ReportExit
<1>5. CASE ChildExits
  BY <1>5 DEF ChildExits
<1>6. QED
  BY <1>1, <1>2, <1>3, <1>4, <1>5
     DEF Next, UiContinues, ReaderContinues

(* The local reader.                                                       *)
LEMMA StepReaderTypes ==
    ASSUME ReaderTypes, PtyTypes, FlagTypes, [Next]_vars
    PROVE  ReaderTypes'
<1> USE DriverAssumption DEF ReaderTypes, Chunks
<1>1. ASSUME ArkStop \/ Write \/ WritePassword \/ Resize \/ StopBegins \/
              JoinSsh \/ ClosePty \/ OpenPty \/ OpenFails \/ Banner \/
              SetOutputCallback \/ PasswordKey \/ PasswordCancel \/
              ConnectFails \/ ConnectSsh \/ ConnectAgain \/ ReplaceSession \/ SshOutput \/ SshEnds \/ ChildExits
              \/ Swap \/ JavaScript \/ (\E sized \in BOOLEAN :
              ArkStart(sized)) \/ (\E p \in Producers : Hand(p)) \/ UNCHANGED
              vars
      PROVE  UNCHANGED reader
  BY <1>1 DEF ArkStop, Write, WritePassword, Resize, StopBegins, JoinSsh, ClosePty,
         OpenPty, OpenFails, Banner, SetOutputCallback, PasswordKey,
         PasswordCancel, ConnectFails, ConnectSsh, ConnectAgain, ReplaceSession, BackToShell, ConnectedSession, SshOutput, SshEnds,
         ChildExits, Swap, JavaScript, ArkStart, Hand, driver, vars
<1>2. CASE JoinReader
  BY <1>2 DEF JoinReader, NoReader, NoPty
<1>3. CASE SpawnReader
  BY <1>3 DEF SpawnReader, NoReader, NoPty
<1>4. CASE ReaderTop
  <2>1. pty \in 0..MaxPtys /\ mode \in {"local", "password", "remote"}
    BY DEF PtyTypes, FlagTypes
  <2>2. \/ reader' = [at |-> "done", pty |-> 0, mode |-> "local", chunk |-> "none"]
        \/ reader' = [at |-> "read", pty |-> pty, mode |-> mode, chunk |-> "none"]
    BY <1>4 DEF ReaderTop, NoReader, NoPty
  <2>3. QED
    BY <2>1, <2>2
<1>5. CASE ReadNothing
  BY <1>5 DEF ReadNothing, NoReader, ReaderReads, NoPty
<1>6. CASE ReportExit
  BY <1>6 DEF ReportExit
<1>7. CASE LogChunk
  BY <1>7 DEF LogChunk, driver, NoReader, NoPty
<1>8. CASE ShowChunk
  BY <1>8 DEF ShowChunk, driver, ChunkDone, NoReader, NoPty
<1>9. CASE WithholdChunk
  BY <1>9 DEF WithholdChunk, ChunkDone, NoReader, NoPty
<1>10. CASE PromptTrigger
  BY <1>10 DEF PromptTrigger, driver, ChunkDone, NoReader, NoPty
<1>11. CASE SshTrigger
  BY <1>11 DEF SshTrigger, ChunkDone, NoReader, NoPty
<1>12. CASE BadTarget
  BY <1>12 DEF BadTarget, ChunkDone, NoReader, NoPty
<1>13. ASSUME NEW kind \in Chunks, ReadChunk(kind) PROVE ReaderTypes'
  BY <1>13 DEF ReadChunk, ReaderReads, NoPty
<1>14. ASSUME NEW pipe \in BOOLEAN, ReadEnds(pipe) PROVE ReaderTypes'
  BY <1>14 DEF ReadEnds, ReaderReads, NoPty
<1>15. QED
  BY <1>1, <1>2, <1>3, <1>4, <1>5, <1>6, <1>7, <1>8, <1>9, <1>10, <1>11,
     <1>12, <1>13, <1>14
     DEF Next, UiContinues, ReaderContinues

(* What the UI thread is after a key.                                      *)
LEMMA TypedKey ==
    ASSUME UiTypes, KeysLeft, ui.at \in {"password", "replace"}, NextKey
    PROVE  UiTypes'
<1>1. ui.data \in Seq(Keys) /\ ui.data # <<>> /\ <<>> \in Seq(Keys)
  BY EmptySeq DEF UiTypes, KeysLeft
<1>2. CASE Len(ui.data) = 1
  BY <1>1, <1>2 DEF UiTypes, NextKey, UiIdle, UiStates
<1>3. CASE Len(ui.data) # 1
  <2>1. Tail(ui.data) \in Seq(Keys)
    BY <1>1, <1>3, RestOfKeys
  <2>2. ui' = [at |-> "password", starting |-> FALSE, data |-> Tail(ui.data)]
    BY <1>3 DEF NextKey, UiIdle
  <2>3. QED
    BY <2>1, <2>2 DEF UiTypes, UiStates
<1>4. QED
  BY <1>2, <1>3

(* The UI thread, and what it has left of a password.                      *)
LEMMA StepUiTypes ==
    ASSUME UiTypes, KeysLeft, [Next]_vars
    PROVE  UiTypes'
<1> USE DriverAssumption DEF UiTypes
<1>1. ASSUME Write \/ Resize \/ ReaderTop \/ ReadNothing \/ ReportExit \/
              LogChunk \/ ShowChunk \/ WithholdChunk \/ PromptTrigger \/
              SshTrigger \/ BadTarget \/ SshOutput \/ SshEnds \/ ChildExits \/
              Swap \/ JavaScript \/ (\E kind \in Chunks : ReadChunk(kind)) \/
              (\E pipe \in BOOLEAN : ReadEnds(pipe)) \/ (\E p \in Producers :
              Hand(p)) \/ UNCHANGED vars
      PROVE  UNCHANGED ui
  BY <1>1 DEF Write, Resize, ReaderTop, ReadNothing, ReportExit, LogChunk,
         ShowChunk, WithholdChunk, PromptTrigger, SshTrigger, BadTarget,
         SshOutput, SshEnds, ChildExits, Swap, JavaScript, ReadChunk,
         ReadEnds, Hand, driver, vars
<1>2. CASE ArkStop
  <2>1. ui' = ui \/ ui' = [at |-> "stop", starting |-> FALSE, data |-> <<>>]
    BY <1>2 DEF ArkStop, UiIdle
  <2>2. <<>> \in Seq(Keys)
    BY EmptySeq
  <2>3. [at |-> "stop", starting |-> FALSE, data |-> <<>>]
          \in [at : UiStates, starting : BOOLEAN, data : Seq(Keys)]
    BY <2>2 DEF UiStates
  <2>4. QED
    BY <2>1, <2>3
<1>3. CASE WritePassword
  BY <1>3 DEF WritePassword, UiIdle, UiStates
<1>4. CASE StopBegins
  BY <1>4 DEF StopBegins, Goes, UiStates
<1>5. CASE JoinSsh
  BY <1>5 DEF JoinSsh, NoSession, Goes, UiStates
<1>6. CASE JoinReader
  BY <1>6 DEF JoinReader, Goes, UiStates
<1>7. CASE ClosePty
  BY <1>7 DEF ClosePty, UiIdle, UiStates
<1>8. CASE OpenPty
  BY <1>8 DEF OpenPty, Goes, UiStates
<1>9. CASE OpenFails
  BY <1>9 DEF OpenFails, UiIdle, UiStates
<1>10. CASE SpawnReader
  BY <1>10 DEF SpawnReader, Goes, UiStates
<1>11. CASE Banner
  BY <1>11 DEF Banner, Goes, UiStates
<1>12. CASE SetOutputCallback
  BY <1>12 DEF SetOutputCallback, driver, UiIdle, UiStates
<1>13. CASE PasswordKey
  BY <1>13, TypedKey DEF PasswordKey, TypesKey
<1>14. CASE PasswordCancel \/ ConnectFails
  BY <1>14, TypedKey DEF PasswordCancel, ConnectFails, BackToShell, TypesKey
<1>15. CASE ConnectAgain
  BY <1>15 DEF ConnectAgain, Goes, UiStates
<1>16. CASE ConnectSsh \/ ReplaceSession
  BY <1>16, TypedKey DEF ConnectSsh, ReplaceSession, ConnectedSession, TypesKey
<1>17. ASSUME NEW sized \in BOOLEAN, ArkStart(sized) PROVE UiTypes'
  <2>1. ui' = ui \/ ui' = [at |-> "stop", starting |-> TRUE, data |-> <<>>]
    BY <1>17 DEF ArkStart, UiIdle
  <2>2. <<>> \in Seq(Keys)
    BY EmptySeq
  <2>3. [at |-> "stop", starting |-> TRUE, data |-> <<>>]
          \in [at : UiStates, starting : BOOLEAN, data : Seq(Keys)]
    BY <2>2 DEF UiStates
  <2>4. QED
    BY <2>1, <2>3
<1>18. QED
  BY <1>1, <1>2, <1>3, <1>4, <1>5, <1>6, <1>7, <1>8, <1>9, <1>10, <1>11,
     <1>12, <1>13, <1>14, <1>15, <1>16, <1>17
     DEF Next, UiContinues, ReaderContinues

(* After a key the password is read on, or the UI thread is done with it.  *)
LEMMA AfterKey ==
    ASSUME UiTypes, KeysLeft, ui.at \in {"password", "replace"}, NextKey
    PROVE  KeysLeft' /\ ui'.at \in {"idle", "password"}
<1>1. ui.data \in Seq(Keys) /\ ui.data # <<>>
  BY DEF UiTypes, KeysLeft
<1>2. CASE Len(ui.data) = 1
  BY <1>2 DEF NextKey, UiIdle, KeysLeft
<1>3. CASE Len(ui.data) # 1
  <2>1. ui'.at = "password" /\ ui'.data = Tail(ui.data)
    BY <1>3 DEF NextKey, UiIdle
  <2>2. QED
    BY <1>1, <1>3, <2>1, RestOfKeys DEF KeysLeft
<1>4. QED
  BY <1>2, <1>3

(* Every pseudo terminal is closed once, and its shell reaped then.         *)
LEMMA StepClosedOnce ==
    ASSUME PtyTypes, ClosedOnce, PtysOrdered, ReaderHasPty, [Next]_vars
    PROVE  ClosedOnce'
<1> USE DriverAssumption DEF PtyTypes, Ptys, NoPty, ClosedOnce, PtysOrdered
<1>1. ASSUME ArkStop \/ Write \/ WritePassword \/ Resize \/ StopBegins \/
              JoinSsh \/ JoinReader \/ OpenFails \/ SpawnReader \/ Banner \/
              SetOutputCallback \/ PasswordKey \/ PasswordCancel \/
              ConnectFails \/ ConnectSsh \/ ConnectAgain \/ ReplaceSession \/ ReaderTop \/ ReadNothing \/
              LogChunk \/ ShowChunk \/ WithholdChunk \/ PromptTrigger \/
              SshTrigger \/ BadTarget \/ SshOutput \/ SshEnds \/ Swap \/
              JavaScript \/ (\E sized \in BOOLEAN : ArkStart(sized)) \/ (\E
              kind \in Chunks : ReadChunk(kind)) \/ (\E pipe \in BOOLEAN :
              ReadEnds(pipe)) \/ (\E p \in Producers : Hand(p)) \/ UNCHANGED
              vars
      PROVE  UNCHANGED <<ptys, pty, closed, child>>
  BY <1>1 DEF ArkStop, Write, WritePassword, Resize, StopBegins, JoinSsh,
         JoinReader, OpenFails, SpawnReader, Banner, SetOutputCallback,
         PasswordKey, PasswordCancel, ConnectFails, ConnectSsh, ConnectAgain, ReplaceSession, BackToShell, ConnectedSession, ReaderTop,
         ReadNothing, LogChunk, ShowChunk, WithholdChunk, PromptTrigger,
         SshTrigger, BadTarget, SshOutput, SshEnds, Swap, JavaScript,
         ArkStart, ReadChunk, ReadEnds, Hand, driver, vars
<1>2. CASE ClosePty
  BY <1>2 DEF ClosePty
<1>3. CASE OpenPty
  BY <1>3 DEF OpenPty
<1>4. CASE ReportExit
  BY <1>4 DEF ReportExit, ReaderHasPty
<1>5. CASE ChildExits
  BY <1>5 DEF ChildExits
<1>6. QED
  BY <1>1, <1>2, <1>3, <1>4, <1>5
     DEF Next, UiContinues, ReaderContinues

(* A reader that has read keeps its pseudo terminal: only Stop() takes it   *)
(* away, after it has joined the reader.                                   *)
LEMMA StepReaderHasPty ==
    ASSUME ReaderTypes, ReaderHasPty, ReaderJoined, [Next]_vars
    PROVE  ReaderHasPty'
<1> USE DriverAssumption DEF ReaderTypes, ReaderHasPty, ReaderJoined
<1>1. ASSUME ArkStop \/ Write \/ WritePassword \/ Resize \/ StopBegins \/
              JoinSsh \/ OpenFails \/ Banner \/ SetOutputCallback \/
              PasswordKey \/ PasswordCancel \/ ConnectFails \/ ConnectSsh \/ ConnectAgain \/ ReplaceSession \/
              SshOutput \/ SshEnds \/ ChildExits \/ Swap \/ JavaScript \/ (\E
              sized \in BOOLEAN : ArkStart(sized)) \/ (\E p \in Producers :
              Hand(p)) \/ UNCHANGED vars
      PROVE  UNCHANGED <<reader, pty>>
  BY <1>1 DEF ArkStop, Write, WritePassword, Resize, StopBegins, JoinSsh,
         OpenFails, Banner, SetOutputCallback, PasswordKey, PasswordCancel,
         ConnectFails, ConnectSsh, ConnectAgain, ReplaceSession, BackToShell, ConnectedSession, SshOutput, SshEnds, ChildExits, Swap,
         JavaScript, ArkStart, Hand, driver, vars
<1>2. CASE JoinReader
  BY <1>2 DEF JoinReader, NoReader, Goes, NoPty
<1>3. CASE ClosePty
  BY <1>3 DEF ClosePty, NoPty
<1>4. CASE OpenPty
  BY <1>4 DEF OpenPty, Goes
<1>5. CASE SpawnReader
  BY <1>5 DEF SpawnReader, NoReader, Goes, NoPty
<1>6. CASE ReaderTop
  BY <1>6 DEF ReaderTop, driver, NoReader, NoPty
<1>7. CASE ReadNothing
  BY <1>7 DEF ReadNothing, NoReader, ReaderReads, NoPty
<1>8. CASE ReportExit
  BY <1>8 DEF ReportExit
<1>9. CASE LogChunk
  BY <1>9 DEF LogChunk, driver, NoReader, NoPty
<1>10. CASE ShowChunk
  BY <1>10 DEF ShowChunk, driver, ChunkDone, NoReader, NoPty
<1>11. CASE WithholdChunk
  BY <1>11 DEF WithholdChunk, ChunkDone, NoReader, NoPty
<1>12. CASE PromptTrigger
  BY <1>12 DEF PromptTrigger, driver, ChunkDone, NoReader, NoPty
<1>13. CASE SshTrigger
  BY <1>13 DEF SshTrigger, ChunkDone, NoReader, NoPty
<1>14. CASE BadTarget
  BY <1>14 DEF BadTarget, ChunkDone, NoReader, NoPty
<1>15. ASSUME NEW kind \in Chunks, ReadChunk(kind) PROVE ReaderHasPty'
  BY <1>15 DEF ReadChunk, ReaderReads, NoPty
<1>16. ASSUME NEW pipe \in BOOLEAN, ReadEnds(pipe) PROVE ReaderHasPty'
  BY <1>16 DEF ReadEnds, ReaderReads, NoPty
<1>17. QED
  BY <1>1, <1>2, <1>3, <1>4, <1>5, <1>6, <1>7, <1>8, <1>9, <1>10, <1>11,
     <1>12, <1>13, <1>14, <1>15, <1>16
     DEF Next, UiContinues, ReaderContinues

(* What is used is the driver's pseudo terminal, and that one is open.      *)
LEMMA UsesOpen ==
    ASSUME PtyTypes, ClosedOnce, FlagTypes, ~broken, Uses(pty)
    PROVE  ~broken'
<1>1. ~(pty # NoPty /\ closed[pty] > 0)
  BY DriverAssumption DEF PtyTypes, ClosedOnce, NoPty, Ptys
<1>2. QED
  BY <1>1 DEF Uses

(* No closed descriptor is used, no thread that runs is replaced.          *)
LEMMA StepNotBroken ==
    ASSUME FlagTypes, PtyTypes, ClosedOnce, ReaderHasPty, ReaderJoined, ~broken, [Next]_vars
    PROVE  ~broken'
<1>1. ASSUME ArkStop \/ WritePassword \/ StopBegins \/ JoinSsh \/ JoinReader
              \/ ClosePty \/ OpenPty \/ OpenFails \/ Banner \/
              SetOutputCallback \/ PasswordKey \/ ConnectSsh \/ ConnectAgain \/
              ReplaceSession \/ ReaderTop \/
              ReportExit \/ LogChunk \/ ShowChunk \/ WithholdChunk \/
              PromptTrigger \/ SshTrigger \/ BadTarget \/ SshOutput \/ SshEnds
              \/ ChildExits \/ Swap \/ JavaScript \/ (\E sized \in BOOLEAN :
              ArkStart(sized)) \/ (\E p \in Producers : Hand(p)) \/ UNCHANGED
              vars
      PROVE  UNCHANGED broken
  BY <1>1 DEF ArkStop, WritePassword, StopBegins, JoinSsh, JoinReader, ClosePty,
         OpenPty, OpenFails, Banner, SetOutputCallback, PasswordKey,
         ConnectSsh, ConnectAgain, ReplaceSession, ConnectedSession,
         ReaderTop, ReportExit, LogChunk, ShowChunk,
         WithholdChunk, PromptTrigger, SshTrigger, BadTarget, SshOutput,
         SshEnds, ChildExits, Swap, JavaScript, ArkStart, Hand, driver, vars
<1>2. CASE Write
  <2>1. Uses(pty) \/ broken' = broken
    BY <1>2 DEF Write
  <2>2. QED
    BY <2>1, UsesOpen
<1>3. CASE Resize
  <2>1. Uses(pty)
    BY <1>3 DEF Resize
  <2>2. QED
    BY <2>1, UsesOpen
<1>4. CASE SpawnReader
  <2>1. ~joinable
    BY <1>4 DEF SpawnReader, ReaderJoined
  <2>2. broken' = (broken \/ joinable)
    BY <1>4 DEF SpawnReader
  <2>3. QED
    BY <2>1, <2>2
<1>5. CASE PasswordCancel
  <2>1. Uses(pty)
    BY <1>5 DEF PasswordCancel, BackToShell
  <2>2. QED
    BY <2>1, UsesOpen
<1>6. CASE ConnectFails
  <2>1. Uses(pty)
    BY <1>6 DEF ConnectFails, BackToShell
  <2>2. QED
    BY <2>1, UsesOpen
<1>7. CASE ReadNothing
  <2>1. Uses(pty)
    BY <1>7 DEF ReadNothing, ReaderReads, ReaderHasPty
  <2>2. QED
    BY <2>1, UsesOpen
<1>8. ASSUME NEW kind \in Chunks, ReadChunk(kind) PROVE ~broken'
  <2>1. Uses(pty)
    BY <1>8 DEF ReadChunk, ReaderReads, ReaderHasPty
  <2>2. QED
    BY <2>1, UsesOpen
<1>9. ASSUME NEW pipe \in BOOLEAN, ReadEnds(pipe) PROVE ~broken'
  <2>1. Uses(pty)
    BY <1>9 DEF ReadEnds, ReaderReads, ReaderHasPty
  <2>2. QED
    BY <2>1, UsesOpen
<1>10. QED
  BY <1>1, <1>2, <1>3, <1>4, <1>5, <1>6, <1>7, <1>8, <1>9
     DEF Next, UiContinues, ReaderContinues

(* The threads: a shell is opened when none is left.                       *)
LEMMA StepPtysOrdered ==
    ASSUME UiTypes, PtyTypes, PtysOrdered, KeysLeft, [Next]_vars
    PROVE  PtysOrdered'
<1> USE DriverAssumption DEF UiTypes, PtyTypes, Ptys, NoPty, PtysOrdered
<1>1. ASSUME Write \/ Resize \/ ReaderTop \/ ReadNothing \/ ReportExit \/
              LogChunk \/ ShowChunk \/ WithholdChunk \/ PromptTrigger \/
              SshTrigger \/ BadTarget \/ SshOutput \/ SshEnds \/ ChildExits \/
              Swap \/ JavaScript \/ (\E kind \in Chunks : ReadChunk(kind)) \/
              (\E pipe \in BOOLEAN : ReadEnds(pipe)) \/ (\E p \in Producers :
              Hand(p)) \/ UNCHANGED vars
      PROVE  UNCHANGED <<ui, ptys, pty, closed>>
  BY <1>1 DEF Write, Resize, ReaderTop, ReadNothing, ReportExit, LogChunk,
         ShowChunk, WithholdChunk, PromptTrigger, SshTrigger, BadTarget,
         SshOutput, SshEnds, ChildExits, Swap, JavaScript, ReadChunk,
         ReadEnds, Hand, driver, vars
<1>2. CASE ArkStop
  BY <1>2 DEF ArkStop, UiIdle
<1>3. CASE WritePassword
  BY <1>3 DEF WritePassword, driver, UiIdle
<1>4. CASE StopBegins
  BY <1>4 DEF StopBegins, Goes
<1>5. CASE JoinSsh
  BY <1>5 DEF JoinSsh, Goes
<1>6. CASE JoinReader
  BY <1>6 DEF JoinReader, Goes
<1>7. CASE ClosePty
  BY <1>7 DEF ClosePty, UiIdle
<1>8. CASE OpenPty
  BY <1>8 DEF OpenPty, Goes
<1>9. CASE OpenFails
  BY <1>9 DEF OpenFails, UiIdle
<1>10. CASE SpawnReader
  BY <1>10 DEF SpawnReader, Goes
<1>11. CASE Banner
  BY <1>11 DEF Banner, Goes
<1>12. CASE SetOutputCallback
  BY <1>12 DEF SetOutputCallback, driver, UiIdle
<1>13. CASE PasswordKey
  BY <1>13, AfterKey DEF PasswordKey, driver, TypesKey
<1>14. CASE PasswordCancel \/ ConnectFails
  BY <1>14, AfterKey DEF PasswordCancel, ConnectFails, BackToShell, TypesKey
<1>15. CASE ConnectAgain
  BY <1>15 DEF ConnectAgain, TypesKey, Goes
<1>16. CASE ConnectSsh \/ ReplaceSession
  BY <1>16, AfterKey DEF ConnectSsh, ReplaceSession, ConnectedSession, TypesKey
<1>17. ASSUME NEW sized \in BOOLEAN, ArkStart(sized) PROVE PtysOrdered'
  BY <1>17 DEF ArkStart, UiIdle
<1>18. QED
  BY <1>1, <1>2, <1>3, <1>4, <1>5, <1>6, <1>7, <1>8, <1>9, <1>10, <1>11,
     <1>12, <1>13, <1>14, <1>15, <1>16, <1>17
     DEF Next, UiContinues, ReaderContinues

(* A reader is joined before its pseudo terminal is closed.                *)
LEMMA StepReaderJoined ==
    ASSUME UiTypes, ReaderTypes, KeysLeft, ReaderJoined, [Next]_vars
    PROVE  ReaderJoined'
<1> USE DriverAssumption DEF UiTypes, ReaderTypes, ReaderJoined
<1>1. ASSUME Write \/ Resize \/ SshOutput \/ SshEnds \/ ChildExits \/ Swap \/
              JavaScript \/ (\E p \in Producers : Hand(p)) \/ UNCHANGED vars
      PROVE  UNCHANGED <<ui, reader, joinable>>
  BY <1>1 DEF Write, Resize, SshOutput, SshEnds, ChildExits, Swap, JavaScript,
         Hand, driver, vars
<1>2. CASE ArkStop
  BY <1>2 DEF ArkStop, UiIdle, UiReady
<1>3. CASE WritePassword
  BY <1>3 DEF WritePassword, driver, UiIdle, UiReady
<1>4. CASE StopBegins
  BY <1>4 DEF StopBegins, Goes
<1>5. CASE JoinSsh
  BY <1>5 DEF JoinSsh, Goes
<1>6. CASE JoinReader
  BY <1>6 DEF JoinReader, NoReader, Goes
<1>7. CASE ClosePty
  BY <1>7 DEF ClosePty, UiIdle
<1>8. CASE OpenPty
  BY <1>8 DEF OpenPty, Goes
<1>9. CASE OpenFails
  BY <1>9 DEF OpenFails, UiIdle
<1>10. CASE SpawnReader
  BY <1>10 DEF SpawnReader, NoReader, Goes
<1>11. CASE Banner
  BY <1>11 DEF Banner, Goes
<1>12. CASE SetOutputCallback
  BY <1>12 DEF SetOutputCallback, driver, UiIdle
<1>13. CASE PasswordKey
  BY <1>13, AfterKey DEF PasswordKey, driver, TypesKey
<1>14. CASE PasswordCancel \/ ConnectFails
  <2>1. ui.at = "password" /\ NextKey /\ UNCHANGED <<reader, joinable>>
    BY <1>14 DEF PasswordCancel, ConnectFails, BackToShell, TypesKey
  <2>2. ui'.at \in {"idle", "password"}
    BY <2>1, AfterKey
  <2>3. QED
    BY <2>1, <2>2
<1>15. CASE ConnectAgain
  BY <1>15 DEF ConnectAgain, TypesKey, Goes
<1>16. CASE ConnectSsh \/ ReplaceSession
  BY <1>16, AfterKey DEF ConnectSsh, ReplaceSession, ConnectedSession, TypesKey
<1>17. CASE ReaderTop
  BY <1>17 DEF ReaderTop, driver, NoReader
<1>18. CASE ReadNothing
  BY <1>18 DEF ReadNothing, NoReader, ReaderReads
<1>19. CASE ReportExit
  BY <1>19 DEF ReportExit
<1>20. CASE LogChunk
  BY <1>20 DEF LogChunk, driver, NoReader
<1>21. CASE ShowChunk
  BY <1>21 DEF ShowChunk, driver, ChunkDone, NoReader
<1>22. CASE WithholdChunk
  BY <1>22 DEF WithholdChunk, ChunkDone, NoReader
<1>23. CASE PromptTrigger
  BY <1>23 DEF PromptTrigger, driver, ChunkDone, NoReader
<1>24. CASE SshTrigger
  BY <1>24 DEF SshTrigger, ChunkDone, NoReader
<1>25. CASE BadTarget
  BY <1>25 DEF BadTarget, ChunkDone, NoReader
<1>26. ASSUME NEW sized \in BOOLEAN, ArkStart(sized) PROVE ReaderJoined'
  BY <1>26 DEF ArkStart, UiIdle, UiReady
<1>27. ASSUME NEW kind \in Chunks, ReadChunk(kind) PROVE ReaderJoined'
  BY <1>27 DEF ReadChunk, ReaderReads
<1>28. ASSUME NEW pipe \in BOOLEAN, ReadEnds(pipe) PROVE ReaderJoined'
  BY <1>28 DEF ReadEnds, ReaderReads
<1>29. QED
  BY <1>1, <1>2, <1>3, <1>4, <1>5, <1>6, <1>7, <1>8, <1>9, <1>10, <1>11,
     <1>12, <1>13, <1>14, <1>15, <1>16, <1>17, <1>18, <1>19, <1>20, <1>21,
     <1>22, <1>23, <1>24, <1>25, <1>26, <1>27, <1>28
     DEF Next, UiContinues, ReaderContinues

(* A session is joined before a shell is opened.                           *)
LEMMA StepSessionJoined ==
    ASSUME UiTypes, SessionTypes, KeysLeft, SessionJoined, [Next]_vars
    PROVE  SessionJoined'
<1> USE DriverAssumption DEF UiTypes, SessionTypes, SessionJoined
<1>1. ASSUME Write \/ Resize \/ ReaderTop \/ ReadNothing \/ ReportExit \/
              LogChunk \/ ShowChunk \/ WithholdChunk \/ PromptTrigger \/
              SshTrigger \/ BadTarget \/ SshOutput \/ ChildExits \/ Swap \/
              JavaScript \/ (\E kind \in Chunks : ReadChunk(kind)) \/ (\E pipe
              \in BOOLEAN : ReadEnds(pipe)) \/ (\E p \in Producers : Hand(p))
              \/ UNCHANGED vars
      PROVE  UNCHANGED <<ui, session>>
  BY <1>1 DEF Write, Resize, ReaderTop, ReadNothing, ReportExit, LogChunk,
         ShowChunk, WithholdChunk, PromptTrigger, SshTrigger, BadTarget,
         SshOutput, ChildExits, Swap, JavaScript, ReadChunk, ReadEnds, Hand,
         driver, vars
<1>2. CASE ArkStop
  BY <1>2 DEF ArkStop, UiIdle, UiReady
<1>3. CASE WritePassword
  BY <1>3 DEF WritePassword, driver, UiIdle, UiReady
<1>4. CASE StopBegins
  BY <1>4 DEF StopBegins, Goes
<1>5. CASE JoinSsh
  BY <1>5 DEF JoinSsh, NoSession, Goes
<1>6. CASE JoinReader
  BY <1>6 DEF JoinReader, Goes
<1>7. CASE ClosePty
  BY <1>7 DEF ClosePty, UiIdle
<1>8. CASE OpenPty
  BY <1>8 DEF OpenPty, Goes
<1>9. CASE OpenFails
  BY <1>9 DEF OpenFails, UiIdle
<1>10. CASE SpawnReader
  BY <1>10 DEF SpawnReader, Goes
<1>11. CASE Banner
  BY <1>11 DEF Banner, Goes
<1>12. CASE SetOutputCallback
  BY <1>12 DEF SetOutputCallback, driver, UiIdle
<1>13. CASE PasswordKey
  BY <1>13, AfterKey DEF PasswordKey, driver, TypesKey
<1>14. CASE PasswordCancel \/ ConnectFails
  BY <1>14, AfterKey DEF PasswordCancel, ConnectFails, BackToShell, TypesKey
<1>15. CASE ConnectAgain
  BY <1>15 DEF ConnectAgain, TypesKey, Goes
<1>16. CASE ConnectSsh \/ ReplaceSession
  <2>1. ui'.at \in {"idle", "password"}
    BY <1>16, AfterKey DEF ConnectSsh, ReplaceSession, ConnectedSession, TypesKey
  <2>2. QED
    BY <2>1
<1>17. CASE SshEnds
  BY <1>17 DEF SshEnds, SshTop
<1>18. ASSUME NEW sized \in BOOLEAN, ArkStart(sized) PROVE SessionJoined'
  <2>1. ui'.at = "stop" \/ ui' = ui
    BY <1>18 DEF ArkStart, UiIdle
  <2>2. session' = session
    BY <1>18 DEF ArkStart
  <2>3. QED
    BY <2>1, <2>2
<1>19. QED
  BY <1>1, <1>2, <1>3, <1>4, <1>5, <1>6, <1>7, <1>8, <1>9, <1>10, <1>11,
     <1>12, <1>13, <1>14, <1>15, <1>16, <1>17, <1>18
     DEF Next, UiContinues, ReaderContinues

(* While keys are read some are left.                                      *)
LEMMA StepKeysLeft ==
    ASSUME UiTypes, KeysLeft, [Next]_vars
    PROVE  KeysLeft'
<1> USE DriverAssumption DEF UiTypes, KeysLeft
<1>1. ASSUME Write \/ Resize \/ ReaderTop \/ ReadNothing \/ ReportExit \/
              LogChunk \/ ShowChunk \/ WithholdChunk \/ PromptTrigger \/
              SshTrigger \/ BadTarget \/ SshOutput \/ SshEnds \/ ChildExits \/
              Swap \/ JavaScript \/ (\E kind \in Chunks : ReadChunk(kind)) \/
              (\E pipe \in BOOLEAN : ReadEnds(pipe)) \/ (\E p \in Producers :
              Hand(p)) \/ UNCHANGED vars
      PROVE  UNCHANGED ui
  BY <1>1 DEF Write, Resize, ReaderTop, ReadNothing, ReportExit, LogChunk,
         ShowChunk, WithholdChunk, PromptTrigger, SshTrigger, BadTarget,
         SshOutput, SshEnds, ChildExits, Swap, JavaScript, ReadChunk,
         ReadEnds, Hand, driver, vars
<1>2. CASE ArkStop
  BY <1>2 DEF ArkStop, UiIdle, UiReady
<1>3. CASE WritePassword
  BY <1>3 DEF WritePassword, driver, UiIdle, UiReady
<1>4. CASE StopBegins
  BY <1>4 DEF StopBegins, Goes
<1>5. CASE JoinSsh
  BY <1>5 DEF JoinSsh, Goes
<1>6. CASE JoinReader
  BY <1>6 DEF JoinReader, Goes
<1>7. CASE ClosePty
  BY <1>7 DEF ClosePty, UiIdle
<1>8. CASE OpenPty
  BY <1>8 DEF OpenPty, Goes
<1>9. CASE OpenFails
  BY <1>9 DEF OpenFails, UiIdle
<1>10. CASE SpawnReader
  BY <1>10 DEF SpawnReader, Goes
<1>11. CASE Banner
  BY <1>11 DEF Banner, Goes
<1>12. CASE SetOutputCallback
  BY <1>12 DEF SetOutputCallback, driver, UiIdle
<1>13. CASE PasswordKey
  BY <1>13, AfterKey DEF PasswordKey, driver, TypesKey
<1>14. CASE PasswordCancel \/ ConnectFails
  BY <1>14, AfterKey DEF PasswordCancel, ConnectFails, BackToShell, TypesKey
<1>15. CASE ConnectAgain
  BY <1>15 DEF ConnectAgain, TypesKey, Goes
<1>16. CASE ConnectSsh \/ ReplaceSession
  BY <1>16, AfterKey DEF ConnectSsh, ReplaceSession, ConnectedSession, TypesKey
<1>17. ASSUME NEW sized \in BOOLEAN, ArkStart(sized) PROVE KeysLeft'
  BY <1>17 DEF ArkStart, UiIdle, UiReady
<1>18. QED
  BY <1>1, <1>2, <1>3, <1>4, <1>5, <1>6, <1>7, <1>8, <1>9, <1>10, <1>11,
     <1>12, <1>13, <1>14, <1>15, <1>16, <1>17
     DEF Next, UiContinues, ReaderContinues

(* A connected session keeps the input, or a key after the newline took it.*)
LEMMA StepSessionHasInput ==
    ASSUME UiTypes, SessionTypes, KeysLeft, SessionJoined, SessionHasInput, [Next]_vars
    PROVE  SessionHasInput'
<1> USE DriverAssumption DEF UiTypes, SessionTypes, SessionJoined, SessionHasInput
<1>1. ASSUME Write \/ Resize \/ ReaderTop \/ ReadNothing \/ ReportExit \/
              LogChunk \/ ShowChunk \/ WithholdChunk \/ PromptTrigger \/
              BadTarget \/ SshOutput \/ ChildExits \/ Swap \/ JavaScript \/
              (\E kind \in Chunks : ReadChunk(kind)) \/ (\E pipe \in BOOLEAN :
              ReadEnds(pipe)) \/ (\E p \in Producers : Hand(p)) \/ UNCHANGED
              vars
      PROVE  UNCHANGED <<ui, mode, session>>
  BY <1>1 DEF Write, Resize, ReaderTop, ReadNothing, ReportExit, LogChunk,
         ShowChunk, WithholdChunk, PromptTrigger, BadTarget, SshOutput,
         ChildExits, Swap, JavaScript, ReadChunk, ReadEnds, Hand, driver, vars
<1>2. CASE ArkStop
  BY <1>2 DEF ArkStop, UiIdle, UiReady
<1>3. CASE WritePassword
  BY <1>3 DEF WritePassword, driver, UiIdle, UiReady
<1>4. CASE StopBegins
  BY <1>4 DEF StopBegins, Goes
<1>5. CASE JoinSsh
  BY <1>5 DEF JoinSsh, NoSession, Goes
<1>6. CASE JoinReader
  BY <1>6 DEF JoinReader, Goes
<1>7. CASE ClosePty
  BY <1>7 DEF ClosePty, UiIdle
<1>8. CASE OpenPty
  BY <1>8 DEF OpenPty, Goes
<1>9. CASE OpenFails
  BY <1>9 DEF OpenFails, UiIdle
<1>10. CASE SpawnReader
  BY <1>10 DEF SpawnReader, Goes
<1>11. CASE Banner
  BY <1>11 DEF Banner, Goes
<1>12. CASE SetOutputCallback
  BY <1>12 DEF SetOutputCallback, driver, UiIdle
<1>13. CASE PasswordKey
  BY <1>13, AfterKey DEF PasswordKey, driver, TypesKey
<1>14. CASE PasswordCancel \/ ConnectFails
  BY <1>14, AfterKey DEF PasswordCancel, ConnectFails, BackToShell, TypesKey
<1>15. CASE ConnectAgain
  BY <1>15 DEF ConnectAgain, TypesKey, Goes
<1>16. CASE ConnectSsh \/ ReplaceSession
  BY <1>16, AfterKey DEF ConnectSsh, ReplaceSession, ConnectedSession, TypesKey
<1>17. CASE SshTrigger
  BY <1>17 DEF SshTrigger, ChunkDone
<1>18. CASE SshEnds
  BY <1>18 DEF SshEnds, SshTop
<1>19. ASSUME NEW sized \in BOOLEAN, ArkStart(sized) PROVE SessionHasInput'
  BY <1>19 DEF ArkStart, UiIdle, UiReady
<1>20. QED
  BY <1>1, <1>2, <1>3, <1>4, <1>5, <1>6, <1>7, <1>8, <1>9, <1>10, <1>11,
     <1>12, <1>13, <1>14, <1>15, <1>16, <1>17, <1>18, <1>19
     DEF Next, UiContinues, ReaderContinues

(* The invariant of the driver, and the two properties it contains.        *)
LEMMA ShellInvariant == Spec => []ShellInv
<1>1. Init => ShellInv
  <2> SUFFICES ASSUME Init PROVE ShellInv
    OBVIOUS
  <2> USE DriverAssumption DEF Init
  <2>1. FlagTypes /\ SessionTypes
    BY DEF FlagTypes, SessionTypes, NoSession
  <2>2. PtyTypes /\ ReaderTypes
    BY DEF PtyTypes, ReaderTypes, NoReader, NoPty, Ptys
  <2>3. UiTypes
    BY EmptySeq DEF UiTypes, UiStates, UiIdle
  <2>4. PtysAccounted /\ PtysOrdered
    BY DEF PtysAccounted, ClosedOnce, ReaderHasPty, PtysOrdered, Ptys, NoReader, UiIdle
  <2>5. ReaderJoined /\ SessionJoined /\ KeysLeft /\ SessionHasInput
    BY DEF ReaderJoined, SessionJoined, KeysLeft, SessionHasInput, NoReader, NoSession, UiIdle
  <2>6. QED
    BY <2>1, <2>2, <2>3, <2>4, <2>5 DEF ShellInv, DriverTypeOK
<1>2. ShellInv /\ [Next]_vars => ShellInv'
  <2> SUFFICES ASSUME ShellInv, [Next]_vars PROVE ShellInv'
    OBVIOUS
  <2> USE DEF ShellInv, DriverTypeOK, PtysAccounted
  <2>1. FlagTypes' /\ SessionTypes' /\ PtyTypes' /\ ReaderTypes' /\ UiTypes'
    BY StepFlagTypes, StepSessionTypes, StepPtyTypes, StepReaderTypes, StepUiTypes
  <2>2. ClosedOnce' /\ ReaderHasPty' /\ ~broken'
    BY StepClosedOnce, StepReaderHasPty, StepNotBroken
  <2>3. PtysOrdered' /\ ReaderJoined' /\ SessionJoined' /\ KeysLeft' /\ SessionHasInput'
    BY StepPtysOrdered, StepReaderJoined, StepSessionJoined, StepKeysLeft, StepSessionHasInput
  <2>4. QED
    BY <2>1, <2>2, <2>3
<1>3. QED
  BY <1>1, <1>2, PTL DEF Spec

(* Every pseudo terminal is closed once, when it is no longer the driver's, *)
(* its shell is reaped, and no thread uses it afterwards, for any number of *)
(* restarts: TypeOK and PtysAccounted of ShellDriver.                      *)
THEOREM ShellPtysEndOnce == Spec => []PtysEndOnce
<1>1. Init => QueueInit
  BY DEF Init
<1>2. Spec => []QueueInv
  BY <1>1, StepIsQueueStep, QueueCorrect, PTL DEF Spec
<1>3. QueueInv /\ ShellInv => PtysEndOnce
  BY DEF QueueInv, ShellInv, PtysEndOnce, TypeOK
<1>4. QED
  BY <1>2, <1>3, ShellInvariant, PTL

(* While a remote session is connected what the user types goes to it,     *)
(* whatever the local shell's reader does and however often sessions are   *)
(* replaced, unless a key that came in one write after the newline, ^C or  *)
(* a newline whose connect fails, took the input from it.                  *)
THEOREM ShellSessionHasInput == Spec => []SessionHasInput
<1>1. ShellInv => SessionHasInput
  BY DEF ShellInv
<1>2. QED
  BY <1>1, ShellInvariant, PTL
=============================================================================
