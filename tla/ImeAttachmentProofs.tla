------------------------- MODULE ImeAttachmentProofs -------------------------
(***************************************************************************)
(* Proofs about the input method, for any number of tabs, editors,         *)
(* attachments and background threads, with callbacks at any time on a     *)
(* thread of their own and within the calls of the UI thread.              *)
(*                                                                         *)
(* The invariant says how five holders of links agree: the hosts, the      *)
(* table of the callbacks, the framework's binding, the callback that is   *)
(* running and the background threads.  What the UI thread does in one     *)
(* step of AttachImeLocked(), ShowImeLocked() and RequestImeFocus() is a   *)
(* composition of a few changes, each of which Serves its host; the other  *)
(* actions have a lemma each.                                              *)
(***************************************************************************)
EXTENDS ImeAttachment, TLAPS

(* Editors are numbered as they are made: what is held was made.           *)
Numbered(s) ==
    /\ \A h \in Hosts : s.editor[h] <= s.editors
    /\ s.bound.editor <= s.editors
    /\ cb.editor <= s.editors
    /\ ui.at = "free" => ui.editor <= s.editors
    /\ \A r \in reapers : r.editor <= s.editors

(* No two of the hosts, the callback and the background threads hold the   *)
(* same editor.                                                            *)
Apart(s) ==
    /\ \A g, h \in Hosts : s.editor[g] = s.editor[h] /\ s.editor[g] # Nothing => g = h
    /\ cb.editor # Nothing => \A h \in Hosts : s.editor[h] # cb.editor
    /\ \A r \in reapers : r.editor # Nothing =>
          r.editor # cb.editor /\ \A h \in Hosts : s.editor[h] # r.editor
    /\ \A q, r \in reapers : q.editor = r.editor /\ r.editor # Nothing => q = r

(* The callbacks' table names the host that holds an editor, except for    *)
(* one that DetachImeLocked() is about to destroy; it names another only   *)
(* while a callback of that host still carries the editor.                 *)
Registered(s) ==
    /\ \A h \in Hosts : s.editor[h] # Nothing =>
          s.registry[s.editor[h]] \in (IF ui.at = "free" /\ ui.host = h THEN {h, NoHost} ELSE {h})
    /\ \A e \in Editors : s.registry[e] # NoHost =>
          s.editor[s.registry[e]] = e \/ (cb.editor = e /\ cb.host = s.registry[e])
    /\ ui.at = "free" /\ ui.editor # Nothing => s.registry[ui.editor] = NoHost

(* The framework binds an editor together with the proxy of the same       *)
(* attachment, unless its ownership was lost.                              *)
BoundAs(proxy, editor, s) ==
    /\ proxy # Nothing /\ proxy = s.bound.proxy => editor = s.bound.editor
    /\ editor # Nothing /\ editor = s.bound.editor => proxy = s.bound.proxy \/ s.bound.lost
Linked(s) ==
    /\ s.bound.editor = Nothing <=> s.bound.proxy = Nothing
    /\ \A h \in Hosts : BoundAs(s.proxy[h], s.editor[h], s)
    /\ BoundAs(cb.proxy, cb.editor, s)
    /\ \A r \in reapers : BoundAs(r.proxy, r.editor, s)

(* A host that owns the input method is bound or nobody is, and a bound    *)
(* host is the owner, unless its ownership was lost.                       *)
Owned(s) ==
    /\ \A h \in Hosts :
          s.owner = h /\ s.proxy[h] # Nothing => s.bound.proxy \in {Nothing, s.proxy[h]}
    /\ s.bound.editor # Nothing /\ s.owner # NoHost =>
          s.registry[s.bound.editor] \in {s.owner, NoHost}
    /\ \A h \in Hosts :
          s.bound.editor # Nothing /\ s.registry[s.bound.editor] = h /\ s.proxy[h] # Nothing
             => s.owner = h \/ (s.owner = NoHost /\ s.bound.lost)

(* What the framework, the table, the threads and the hosts know of each   *)
(* other; no call has blocked.                                             *)
Sound(s) ==
    /\ s \in ImeStates /\ Numbered(s) /\ Apart(s) /\ Registered(s) /\ Linked(s) /\ Owned(s)
    /\ s.hung = FALSE

(* t is what the UI thread may make of s when it attaches, shows or        *)
(* focuses the host h: it may create h's editor, drop or replace h's proxy *)
(* and bind h, which ends a composition, and leaves the other hosts alone. *)
Serves(h, s, t) ==
    /\ Sound(t)
    /\ \A g \in Hosts \ {h} : t.proxy[g] = s.proxy[g] /\ t.editor[g] = s.editor[g]
    /\ \/ t.editors = s.editors /\ t.editor[h] = s.editor[h] /\ t.registry = s.registry
       \/ /\ s.editor[h] = Nothing /\ t.editors = s.editors + 1 /\ t.editor[h] = t.editors
          /\ t.registry = [s.registry EXCEPT ![t.editors] = h]
    /\ \/ t.bound \in {s.bound, Unbound}
       \/ t.bound.editor = t.editor[h] /\ t.editor[h] # Nothing
    /\ \/ t.bound = s.bound /\ t.composing = s.composing /\ t.proxy[h] \in {s.proxy[h], Nothing}
       \/ t.composing = FALSE

(* The types of the fields of the input method's state.                    *)
LEMMA ImeTypes ==
    ASSUME NEW s \in ImeStates
    PROVE  /\ s.owner \in Hosts \cup {NoHost} /\ s.proxy \in [Hosts -> Nat]
           /\ s.editor \in [Hosts -> Editors \cup {Nothing}]
           /\ s.registry \in [Editors -> Hosts \cup {NoHost}]
           /\ s.bound.editor \in Editors \cup {Nothing} /\ s.bound.proxy \in Nat
           /\ s.bound = [editor |-> s.bound.editor, proxy |-> s.bound.proxy, lost |-> s.bound.lost]
           /\ s.bound.lost \in BOOLEAN
           /\ s.composing \in BOOLEAN /\ s.editors \in Nat
           /\ NoHost \notin Hosts
           /\ \A e \in Editors \cup {Nothing} : e \in Nat
           /\ \A e \in Editors : e # Nothing
BY ImeAssumption DEF ImeStates, Editors, Nothing

(* The types of what the threads and the text hold.                        *)
LEMMA ThreadTypes ==
    ASSUME TypeOK
    PROVE  /\ cb.editor \in Editors \cup {Nothing} /\ cb.proxy \in Nat /\ cb.sync \in BOOLEAN
           /\ cb.host \in Hosts \cup {NoHost} /\ cb.count \in Nat
           /\ ui.host \in Hosts \cup {NoHost} /\ ui.owner \in BOOLEAN
           /\ ui.proxy \in Nat /\ ui.editor \in Editors \cup {Nothing}
           /\ \A r \in reapers : r = [proxy |-> r.proxy, editor |-> r.editor]
                                /\ r.editor \in Editors \cup {Nothing} /\ r.proxy \in Nat
           /\ preview \in [Hosts -> Nat] /\ tail \in [Hosts -> Nat] /\ front \in Hosts
           /\ destroyed \in [Editors -> Nat] /\ terminal \in [Hosts -> BOOLEAN]
<1> USE ImeAssumption DEF TypeOK, Editors, Nothing
<1>1. /\ cb.editor \in Editors \cup {Nothing} /\ cb.proxy \in Nat /\ cb.sync \in BOOLEAN
      /\ cb.host \in Hosts \cup {NoHost} /\ cb.count \in Nat
  BY DEF CbStates
<1>2. /\ ui.host \in Hosts \cup {NoHost} /\ ui.owner \in BOOLEAN
      /\ ui.proxy \in Nat /\ ui.editor \in Editors \cup {Nothing}
  BY DEF UiStates
<1>3. \A r \in reapers : r = [proxy |-> r.proxy, editor |-> r.editor]
                         /\ r.editor \in Editors \cup {Nothing} /\ r.proxy \in Nat
  BY DEF Reapers
<1>4. /\ preview \in [Hosts -> Nat] /\ tail \in [Hosts -> Nat] /\ front \in Hosts
      /\ destroyed \in [Editors -> Nat] /\ terminal \in [Hosts -> BOOLEAN]
  OBVIOUS
<1>5. QED
  BY <1>1, <1>2, <1>3, <1>4

(* A framework call with a proxy no other attachment superseded does not   *)
(* block.                                                                  *)
LEMMA CallReturns ==
    ASSUME NEW s, Sound(s), NEW h \in Hosts,
           s.proxy[h] # Nothing => s.bound.proxy \in {Nothing, s.proxy[h]}
    PROVE  Call(h, s) = s
BY DEF Sound, ImeStates, Call

(* A host that attached last, or has no proxy, may call the framework.     *)
LEMMA OwnerCalls ==
    ASSUME NEW s, Sound(s), NEW h \in Hosts, s.owner = h \/ s.proxy[h] = Nothing
    PROVE  Call(h, s) = s
BY CallReturns DEF Sound, Owned

(* Doing nothing for a host serves it.                                     *)
LEMMA ServesSelf ==
    ASSUME NEW s, Sound(s), NEW h \in Hosts
    PROVE  Serves(h, s, s)
BY DEF Serves, Sound, ImeStates

(* Two services for a host, one after the other, are one.                  *)
LEMMA ServesTwice ==
    ASSUME NEW h \in Hosts, NEW s, NEW t, NEW u, Sound(s), Serves(h, s, t), Serves(h, t, u)
    PROVE  Serves(h, s, u)
<1> USE DEF Nothing
<1>1. /\ s.editors \in Nat /\ t.editors \in Nat /\ u.editors \in Nat
      /\ \A g \in Hosts : s.editor[g] \in Nat /\ t.editor[g] \in Nat /\ u.editor[g] \in Nat
      /\ \A g \in Hosts : s.editor[g] <= s.editors
  <2>1. /\ s \in ImeStates /\ t \in ImeStates /\ u \in ImeStates
        /\ \A g \in Hosts : s.editor[g] <= s.editors
    BY DEF Serves, Sound, Numbered
  <2>2. ASSUME NEW v \in ImeStates
        PROVE  v.editors \in Nat /\ \A g \in Hosts : v.editor[g] \in Nat
    BY ImeTypes
  <2>3. QED
    BY <2>1, <2>2
<1>2. /\ \A g \in Hosts \ {h} : u.proxy[g] = s.proxy[g] /\ u.editor[g] = s.editor[g]
      /\ Sound(u)
  BY <1>1 DEF Serves
<1>4. \/ u.editors = s.editors /\ u.editor[h] = s.editor[h] /\ u.registry = s.registry
      \/ /\ s.editor[h] = Nothing /\ u.editors = s.editors + 1 /\ u.editor[h] = u.editors
         /\ u.registry = [s.registry EXCEPT ![u.editors] = h]
  BY <1>1 DEF Serves
<1>5. \/ u.bound \in {s.bound, Unbound}
      \/ u.bound.editor = u.editor[h] /\ u.editor[h] # Nothing
  BY <1>1 DEF Serves
<1>6. \/ u.bound = s.bound /\ u.composing = s.composing /\ u.proxy[h] \in {s.proxy[h], Nothing}
      \/ u.composing = FALSE
  BY DEF Serves
<1>7. QED
  BY <1>2, <1>4, <1>5, <1>6 DEF Serves

(* A host may forget a proxy it does not own or the framework does not     *)
(* bind.                                                                   *)
LEMMA ProxyDropped ==
    ASSUME NEW h \in Hosts, NEW s, Sound(s), UiFree, s.owner # h \/ ~Live(h, s)
    PROVE  Serves(h, s, [s EXCEPT !.proxy[h] = Nothing])
<1> DEFINE t == [s EXCEPT !.proxy[h] = Nothing]
<1>1. t \in ImeStates
  BY ImeAssumption DEF Sound, ImeStates, Nothing
<1>2. /\ t.proxy = [s.proxy EXCEPT ![h] = Nothing] /\ t.owner = s.owner /\ t.editor = s.editor
      /\ t.registry = s.registry /\ t.bound = s.bound /\ t.composing = s.composing
      /\ t.editors = s.editors /\ t.hung = s.hung
  BY DEF Sound, ImeStates
<1> HIDE DEF t
<1>3. Numbered(t) /\ Apart(t) /\ Registered(t)
  BY <1>2 DEF Sound, Numbered, Apart, Registered
<1>4. \A g \in Hosts : t.proxy[g] = IF g = h THEN Nothing ELSE s.proxy[g]
  BY <1>2, ImeTypes DEF Sound
<1>5. Linked(t)
  <2>1. ASSUME s.editor[h] # Nothing, s.editor[h] = s.bound.editor
        PROVE  s.bound.lost
    <3>1. s.registry[s.editor[h]] = h
      BY <2>1 DEF Sound, Registered, UiFree
    <3>2. s.proxy[h] = s.bound.proxy \/ s.bound.lost
      BY <2>1 DEF Sound, Linked, BoundAs
    <3>3. s.bound.proxy # Nothing
      BY <2>1 DEF Sound, Linked
    <3>4. QED
      BY <2>1, <3>1, <3>2, <3>3 DEF Sound, Owned, Live
  <2>2. BoundAs(t.proxy[h], t.editor[h], t)
    BY <1>2, <1>4, <2>1 DEF BoundAs
  <2>3. QED
    BY <1>2, <1>4, <2>2 DEF Sound, Linked, BoundAs
<1>6. Owned(t)
  BY <1>2, <1>4 DEF Sound, Owned
<1>7. QED
  BY <1>1, <1>2, <1>3, <1>4, <1>5, <1>6 DEF Serves, Sound, t

(* The editor of a host without a proxy is new, and registered for that    *)
(* host only.                                                              *)
LEMMA EditorCreated ==
    ASSUME NEW h \in Hosts, NEW s, Sound(s), TypeOK, UiFree, s.proxy[h] = Nothing
    PROVE  LET t == CreateEditor(h, s)
           IN  Serves(h, s, t) /\ t.proxy = s.proxy
<1> DEFINE e == s.editors + 1
           t == [s EXCEPT !.editors = e, !.editor[h] = e, !.registry[e] = h]
<1> USE DEF UiFree
<1>1. CASE s.editor[h] # Nothing \/ s.editors = MaxEditors
  BY <1>1, ServesSelf DEF CreateEditor
<1>2. CASE s.editor[h] = Nothing /\ s.editors # MaxEditors
  <2>1. e \in 1..MaxEditors /\ s.editors \in Nat
    BY <1>2, ImeAssumption DEF Sound, ImeStates
  <2>2. /\ t.proxy = s.proxy /\ t.owner = s.owner /\ t.editor = [s.editor EXCEPT ![h] = e]
        /\ t.registry = [s.registry EXCEPT ![e] = h] /\ t.bound = s.bound
        /\ t.composing = s.composing /\ t.editors = e /\ t.hung = s.hung
    BY DEF Sound, ImeStates
  <2>3. t \in ImeStates
    <3>1. /\ e \in 0..MaxEditors /\ [s.editor EXCEPT ![h] = e] \in [Hosts -> 0..MaxEditors]
          /\ [s.registry EXCEPT ![e] = h] \in [Editors -> Hosts \cup {NoHost}]
      BY <2>1 DEF Sound, ImeStates, Editors
    <3> HIDE DEF e
    <3>2. QED
      BY <3>1 DEF Sound, ImeStates
  <2>4. CreateEditor(h, s) = t
    BY <1>2 DEF CreateEditor
  <2> HIDE DEF t
  <2>5. /\ \A g \in Hosts : s.editor[g] \in Nat /\ s.editor[g] < e /\ s.editor[g] # e
        /\ s.bound.editor \in Nat /\ s.bound.editor < e /\ s.bound.editor # e
        /\ cb.editor \in Nat /\ cb.editor < e /\ cb.editor # e
        /\ \A r \in reapers : r.editor \in Nat /\ r.editor < e /\ r.editor # e
        /\ e \in Editors /\ e \in Nat /\ e # Nothing
    <3>1. /\ \A g \in Hosts : s.editor[g] \in Nat /\ s.editor[g] <= s.editors
          /\ s.bound.editor \in Nat /\ s.bound.editor <= s.editors
          /\ cb.editor \in Nat /\ cb.editor <= s.editors
          /\ \A r \in reapers : r.editor \in Nat /\ r.editor <= s.editors
      <4>1. /\ \A g \in Hosts : s.editor[g] \in Editors \cup {Nothing}
            /\ s.bound.editor \in Editors \cup {Nothing}
            /\ \A d \in Editors \cup {Nothing} : d \in Nat
        BY ImeTypes DEF Sound
      <4>2. /\ cb.editor \in Editors \cup {Nothing}
            /\ \A r \in reapers : r.editor \in Editors \cup {Nothing}
        BY ThreadTypes
      <4>3. QED
        BY <4>1, <4>2 DEF Sound, Numbered
    <3>2. QED
      BY <2>1, <3>1 DEF Editors, Nothing
  <2>6. /\ \A g \in Hosts : t.editor[g] = IF g = h THEN e ELSE s.editor[g]
        /\ \A d \in Editors : t.registry[d] = IF d = e THEN h ELSE s.registry[d]
        /\ s.bound.editor \in Editors \cup {Nothing}
        /\ \A g \in Hosts : s.editor[g] \in Editors \cup {Nothing}
        /\ s.registry \in [Editors -> Hosts \cup {NoHost}] /\ NoHost \notin Hosts
    <3>1. /\ s.bound.editor \in Editors \cup {Nothing}
          /\ s.editor \in [Hosts -> Editors \cup {Nothing}]
          /\ s.registry \in [Editors -> Hosts \cup {NoHost}] /\ NoHost \notin Hosts
      BY ImeTypes DEF Sound
    <3> HIDE DEF e
    <3>2. QED
      BY <2>2, <2>5, <3>1
  <2> HIDE DEF e
  <2>7. Numbered(t)
    BY <2>1, <2>2, <2>5, <2>6 DEF Numbered
  <2>8. Apart(t)
    BY <2>2, <2>5, <2>6 DEF Sound, Apart
  <2>9. Registered(t)
    <3>1. ASSUME NEW g \in Hosts, t.editor[g] # Nothing
          PROVE  t.registry[t.editor[g]] = g
      BY <2>5, <2>6, <3>1 DEF Sound, Registered
    <3>2. ASSUME NEW d \in Editors, t.registry[d] # NoHost
          PROVE  t.editor[t.registry[d]] = d \/ (cb.editor = d /\ cb.host = t.registry[d])
      <4>1. CASE d = e
        BY <2>6, <4>1
      <4>2. CASE d # e
        <5>1. t.registry[d] = s.registry[d] /\ s.registry[d] \in Hosts
          BY <2>6, <3>2, <4>2
        <5>2. s.editor[s.registry[d]] = d \/ (cb.editor = d /\ cb.host = s.registry[d])
          BY <3>2, <5>1 DEF Sound, Registered
        <5>3. d # Nothing
          BY ImeAssumption DEF Editors, Nothing
        <5>4. QED
          BY <1>2, <2>6, <5>1, <5>2, <5>3
      <4>3. QED
        BY <4>1, <4>2
    <3>3. QED
      BY <3>1, <3>2 DEF Registered
  <2>10. Linked(t)
    <3>1. \A g \in Hosts \ {h} : BoundAs(t.proxy[g], t.editor[g], t)
      BY <2>2, <2>6 DEF Sound, Linked, BoundAs
    <3>2. BoundAs(t.proxy[h], t.editor[h], t)
      BY <2>2, <2>5, <2>6 DEF BoundAs
    <3>3. QED
      BY <2>2, <3>1, <3>2 DEF Sound, Linked, BoundAs
  <2>11. Owned(t)
    BY <2>2, <2>5, <2>6 DEF Sound, Owned
  <2>12. Sound(t)
    BY <2>2, <2>3, <2>7, <2>8, <2>9, <2>10, <2>11 DEF Sound
  <2>13. Serves(h, s, t)
    BY <1>2, <2>2, <2>6, <2>12 DEF Serves, e
  <2>14. QED
    BY <2>2, <2>4, <2>13
<1>3. QED
  BY <1>1, <1>2

(* A handle that nobody holds is held by nobody.                           *)
LEMMA UnusedHandle ==
    ASSUME NEW s, NEW n \in Unused(s)
    PROVE  /\ n \in 1..MaxProxies /\ n # s.bound.proxy /\ n # cb.proxy
           /\ \A g \in Hosts : s.proxy[g] # n
           /\ \A r \in reapers : r.proxy # n
BY DEF Unused

(* An attachment that succeeds makes its host the owner.                   *)
LEMMA ProxyBound ==
    ASSUME NEW h \in Hosts, NEW s, Sound(s), UiFree, s.proxy[h] = Nothing, s.editor[h] # Nothing,
           NEW b \in Bindings(h, s)
    PROVE  LET t == [b EXCEPT !.owner = h]
           IN  Serves(h, s, t) /\ t.owner = h
<1> DEFINE t == [b EXCEPT !.owner = h]
<1> USE DEF Nothing, UiFree
<1>1. PICK n \in Unused(s) :
        LET c == [s EXCEPT !.proxy[h] = n, !.composing = FALSE]
        IN  b \in {[c EXCEPT !.bound = [editor |-> s.editor[h], proxy |-> n, lost |-> FALSE]],
                   [c EXCEPT !.bound = Unbound]}
  <2>1. Unused(s) # {}
    BY DEF Bindings
  <2>2. (CHOOSE p \in Unused(s) : TRUE) \in Unused(s)
    BY <2>1
  <2>3. QED
    BY <2>1, <2>2 DEF Bindings
<1>2. /\ n \in 1..MaxProxies /\ n # s.bound.proxy /\ n # cb.proxy /\ n # 0
      /\ \A g \in Hosts : s.proxy[g] # n
      /\ \A r \in reapers : r.proxy # n
  <2>1. n \in 1..MaxProxies => n # 0
    BY ImeAssumption
  <2>2. QED
    BY <2>1, UnusedHandle
<1>3. /\ t.proxy = [s.proxy EXCEPT ![h] = n] /\ t.owner = h /\ t.editor = s.editor
      /\ t.registry = s.registry /\ t.composing = FALSE
      /\ t.editors = s.editors /\ t.hung = s.hung /\ t \in ImeStates
      /\ t.bound \in {[editor |-> s.editor[h], proxy |-> n, lost |-> FALSE], Unbound}
  <2> DEFINE c == [s EXCEPT !.proxy[h] = n, !.composing = FALSE]
             bound == [editor |-> s.editor[h], proxy |-> n, lost |-> FALSE]
  <2>0. n \in 0..MaxProxies /\ s.editor[h] \in 0..MaxEditors /\ Unbound \in [editor : 0..MaxEditors, proxy : 0..MaxProxies, lost : BOOLEAN]
    BY <1>2, ImeAssumption DEF Sound, ImeStates, Unbound
  <2>1. /\ c.proxy = [s.proxy EXCEPT ![h] = n] /\ c.editor = s.editor
        /\ c.registry = s.registry /\ c.composing = FALSE
        /\ c.editors = s.editors /\ c.hung = s.hung /\ c \in ImeStates
    BY <2>0 DEF Sound, ImeStates
  <2>2. bound \in [editor : 0..MaxEditors, proxy : 0..MaxProxies, lost : BOOLEAN]
    BY <2>0
  <2>3. b \in {[c EXCEPT !.bound = bound], [c EXCEPT !.bound = Unbound]}
    BY <1>1
  <2> HIDE DEF bound, c
  <2>4. b \in ImeStates /\ t \in ImeStates
    <3>1. b \in ImeStates
      BY <2>0, <2>1, <2>2, <2>3 DEF ImeStates
    <3>2. QED
      BY <3>1 DEF ImeStates
  <2>5. /\ b.proxy = c.proxy /\ b.editor = c.editor /\ b.registry = c.registry
        /\ b.composing = c.composing /\ b.editors = c.editors /\ b.hung = c.hung
        /\ b.bound \in {bound, Unbound}
    BY <2>1, <2>3 DEF ImeStates
  <2>6. /\ t.proxy = b.proxy /\ t.owner = h /\ t.editor = b.editor /\ t.registry = b.registry
        /\ t.composing = b.composing /\ t.editors = b.editors /\ t.hung = b.hung
        /\ t.bound = b.bound
    BY <2>4 DEF ImeStates
  <2>7. QED
    BY <2>1, <2>4, <2>5, <2>6 DEF bound
<1> HIDE DEF t
<1>4. /\ s.registry \in [Editors -> Hosts \cup {NoHost}] /\ s.editor \in [Hosts -> Editors \cup {Nothing}]
      /\ \A g \in Hosts : t.proxy[g] = IF g = h THEN n ELSE s.proxy[g]
      /\ NoHost \notin Hosts
  BY <1>3, ImeTypes DEF Sound
<1>5. \/ t.bound.editor = s.editor[h] /\ t.bound.proxy = n /\ t.bound.lost = FALSE
      \/ t.bound.editor = 0 /\ t.bound.proxy = 0
  BY <1>3 DEF Unbound
<1>6. Numbered(t)
  <2>1. s.editors \in Nat
    BY ImeTypes DEF Sound
  <2>2. QED
    BY <1>3, <1>5, <2>1 DEF Sound, Numbered
<1>7. Apart(t) /\ Registered(t)
  BY <1>3 DEF Sound, Apart, Registered
<1>8. Linked(t)
  <2>1. ASSUME NEW g \in Hosts
        PROVE  BoundAs(t.proxy[g], t.editor[g], t)
    <3>1. g # h => s.editor[g] # s.editor[h]
      BY DEF Sound, Apart
    <3>2. QED
      BY <1>2, <1>3, <1>4, <1>5, <3>1 DEF BoundAs
  <2>2. BoundAs(cb.proxy, cb.editor, t)
    <3>1. cb.editor # 0 => cb.editor # s.editor[h]
      BY DEF Sound, Apart
    <3>2. QED
      BY <1>2, <1>5, <3>1 DEF BoundAs
  <2>3. ASSUME NEW r \in reapers
        PROVE  BoundAs(r.proxy, r.editor, t)
    <3>1. r.editor # 0 => r.editor # s.editor[h]
      BY DEF Sound, Apart
    <3>2. QED
      BY <1>2, <1>5, <3>1 DEF BoundAs
  <2>4. QED
    BY <1>2, <1>5, <2>1, <2>2, <2>3 DEF Linked
<1>9. Owned(t)
  <2>1. s.registry[s.editor[h]] = h
    BY DEF Sound, Registered
  <2>2. QED
    BY <1>2, <1>3, <1>4, <1>5, <2>1 DEF Owned
<1>10. Sound(t)
  BY <1>3, <1>6, <1>7, <1>8, <1>9 DEF Sound
<1>11. t.bound = Unbound \/ (t.bound.editor = t.editor[h] /\ t.editor[h] # Nothing)
  BY <1>3
<1>12. Serves(h, s, t)
  BY <1>3, <1>4, <1>10, <1>11 DEF Serves
<1>13. QED
  BY <1>3, <1>12 DEF t

(* AttachImeLocked(): a host with a proxy keeps it, and one that gets a    *)
(* proxy becomes the owner.                                                *)
LEMMA HostAttached ==
    ASSUME NEW h \in Hosts, NEW s, Sound(s), TypeOK, UiFree, NEW t \in AttachImeLocked(h, s)
    PROVE  /\ Serves(h, s, t)
           /\ s.proxy[h] = Nothing /\ t.proxy[h] # Nothing => t.owner = h
           /\ s.proxy[h] # Nothing => t = s
<1>1. CASE s.proxy[h] # Nothing
  BY <1>1, ServesSelf DEF AttachImeLocked
<1>2. CASE s.proxy[h] = Nothing
  <2> DEFINE c == CreateEditor(h, s)
  <2>1. Serves(h, s, c) /\ c.proxy = s.proxy
    BY <1>2, EditorCreated
  <2>2. t = c \/ (c.editor[h] # Nothing /\ \E b \in Bindings(h, c) : t = [b EXCEPT !.owner = h])
    BY <1>2 DEF AttachImeLocked
  <2> HIDE DEF c
  <2>3. CASE t = c
    BY <1>2, <2>1, <2>3
  <2>4. CASE c.editor[h] # Nothing /\ \E b \in Bindings(h, c) : t = [b EXCEPT !.owner = h]
    <3>1. PICK b \in Bindings(h, c) : t = [b EXCEPT !.owner = h]
      BY <2>4
    <3>2. Sound(c) /\ c.proxy[h] = Nothing
      BY <1>2, <2>1 DEF Serves
    <3>3. Serves(h, c, t) /\ t.owner = h
      BY <2>4, <3>1, <3>2, ProxyBound
    <3>4. QED
      BY <1>2, <2>1, <3>3, ServesTwice
  <2>5. QED
    BY <2>2, <2>3, <2>4
<1>3. QED
  BY <1>1, <1>2

(* Fields that only tell what a host shows and wants change no link.       *)
LEMMA FieldSet ==
    ASSUME NEW h \in Hosts, NEW s, Sound(s), NEW t \in ImeStates,
           t.proxy = s.proxy, t.owner = s.owner, t.editor = s.editor,
           t.registry = s.registry, t.bound = s.bound, t.composing = s.composing,
           t.editors = s.editors, t.hung = s.hung
    PROVE  Serves(h, s, t)
<1>1. Numbered(t) /\ Apart(t) /\ Registered(t)
  <2>1. Numbered(t)
    BY DEF Sound, Numbered
  <2>2. Apart(t)
    BY DEF Sound, Apart
  <2>3. Registered(t)
    BY DEF Sound, Registered
  <2>4. QED
    BY <2>1, <2>2, <2>3
<1>2. Linked(t) /\ Owned(t)
  BY DEF Sound, Linked, BoundAs, Owned
<1>3. QED
  BY <1>1, <1>2 DEF Serves, Sound

(* ShowTextInputOnceLocked() of an owner changes no link.                  *)
LEMMA KeyboardShown ==
    ASSUME NEW h \in Hosts, NEW s, Sound(s), s.owner = h \/ s.proxy[h] = Nothing
    PROVE  LET t == ShowTextInputOnceLocked(h, s)
           IN  Serves(h, s, t) /\ t.owner = s.owner /\ t.proxy = s.proxy
<1> DEFINE t == [s EXCEPT !.visible[h] = TRUE]
<1>1. CASE ~Live(h, s)
  BY <1>1, OwnerCalls, ServesSelf DEF ShowTextInputOnceLocked
<1>2. CASE Live(h, s)
  <2>1. ShowTextInputOnceLocked(h, s) = t
    BY <1>2 DEF ShowTextInputOnceLocked
  <2>2. t \in ImeStates
    BY DEF Sound, ImeStates
  <2>3. /\ t.proxy = s.proxy /\ t.owner = s.owner /\ t.editor = s.editor
        /\ t.registry = s.registry /\ t.bound = s.bound /\ t.composing = s.composing
        /\ t.editors = s.editors /\ t.hung = s.hung
    BY DEF Sound, ImeStates
  <2> HIDE DEF t
  <2>4. QED
    BY <2>1, <2>2, <2>3, FieldSet
<1>3. QED
  BY <1>1, <1>2

(* To remember that a host wants the keyboard changes no link.             *)
LEMMA ImeWanted ==
    ASSUME NEW h \in Hosts, NEW s, Sound(s)
    PROVE  LET t == [s EXCEPT !.wants[h] = TRUE]
           IN  Serves(h, s, t) /\ t.owner = s.owner
<1> DEFINE t == [s EXCEPT !.wants[h] = TRUE]
<1>1. t \in ImeStates
  BY DEF Sound, ImeStates
<1>2. /\ t.proxy = s.proxy /\ t.owner = s.owner /\ t.editor = s.editor
      /\ t.registry = s.registry /\ t.bound = s.bound /\ t.composing = s.composing
      /\ t.editors = s.editors /\ t.hung = s.hung
  BY DEF Sound, ImeStates
<1> HIDE DEF t
<1>3. QED
  BY <1>1, <1>2, FieldSet DEF t

(* After the check of the owner the host is the owner or has no proxy.     *)
LEMMA SupersededDropped ==
    ASSUME NEW h \in Hosts, NEW s, Sound(s), UiFree
    PROVE  LET t == DropSuperseded(h, s)
           IN  Serves(h, s, t) /\ (t.owner = h \/ t.proxy[h] = Nothing)
<1>1. CASE s.owner = h
  BY <1>1, ServesSelf DEF DropSuperseded
<1>2. CASE s.owner # h
  <2>1. DropSuperseded(h, s).proxy[h] = Nothing
    BY <1>2 DEF DropSuperseded, Sound, ImeStates
  <2>2. QED
    BY <1>2, <2>1, ProxyDropped DEF DropSuperseded
<1>3. QED
  BY <1>1, <1>2

(* Nor is there a proxy without ownership after the attachment that        *)
(* follows that check.                                                     *)
LEMMA AttachedForOwner ==
    ASSUME NEW h \in Hosts, NEW s, Sound(s), TypeOK, UiFree,
           NEW t \in AttachImeLocked(h, DropSuperseded(h, [s EXCEPT !.wants[h] = TRUE]))
    PROVE  Serves(h, s, t) /\ (t.owner = h \/ t.proxy[h] = Nothing)
<1> DEFINE w == [s EXCEPT !.wants[h] = TRUE]
           d == DropSuperseded(h, w)
<1>1. Serves(h, s, w) /\ Sound(w)
  BY ImeWanted DEF Serves
<1>2. Serves(h, w, d) /\ Sound(d) /\ (d.owner = h \/ d.proxy[h] = Nothing)
  <2> HIDE DEF w
  <2>1. QED
    BY <1>1, SupersededDropped DEF Serves
<1>3. Serves(h, d, t) /\ (t.owner = h \/ t.proxy[h] = Nothing)
  BY <1>2, HostAttached
<1>4. QED
  BY <1>1, <1>2, <1>3, ServesTwice

(* ShowImeLocked(), its second attempt included, leaves the host the owner *)
(* or without a proxy.                                                     *)
LEMMA ImeShown ==
    ASSUME NEW h \in Hosts, NEW s, Sound(s), TypeOK, UiFree, NEW t \in ShowImeLocked(h, s)
    PROVE  Serves(h, s, t) /\ (t.owner = h \/ t.proxy[h] = Nothing)
<1> DEFINE First == AttachImeLocked(h, DropSuperseded(h, [s EXCEPT !.wants[h] = TRUE]))
           Retry(r) == AttachImeLocked(h, [r EXCEPT !.proxy[h] = Nothing])
<1>1. PICK a \in First :
        \/ t = ShowTextInputOnceLocked(h, a)
        \/ /\ a.proxy[h] # Nothing /\ ~Live(h, a)
           /\ \E u \in Retry(ShowTextInputOnceLocked(h, a)) : t = ShowTextInputOnceLocked(h, u)
  BY DEF ShowImeLocked
<1>2. Serves(h, s, a) /\ (a.owner = h \/ a.proxy[h] = Nothing) /\ Sound(a)
  <2>1. Serves(h, s, a) /\ (a.owner = h \/ a.proxy[h] = Nothing)
    BY AttachedForOwner
  <2>2. QED
    BY <2>1 DEF Serves
<1>3. CASE t = ShowTextInputOnceLocked(h, a)
  BY <1>2, <1>3, KeyboardShown, ServesTwice
<1>4. CASE /\ a.proxy[h] # Nothing /\ ~Live(h, a)
           /\ \E u \in Retry(ShowTextInputOnceLocked(h, a)) : t = ShowTextInputOnceLocked(h, u)
  <2>1. ShowTextInputOnceLocked(h, a) = a
    BY <1>2, <1>4, OwnerCalls DEF ShowTextInputOnceLocked
  <2> DEFINE p == [a EXCEPT !.proxy[h] = Nothing]
  <2>2. PICK u \in AttachImeLocked(h, p) : t = ShowTextInputOnceLocked(h, u)
    BY <1>4, <2>1
  <2>3. Serves(h, a, p) /\ Sound(p) /\ p.proxy[h] = Nothing
    <3>1. Serves(h, a, p)
      BY <1>2, <1>4, ProxyDropped
    <3>2. p.proxy[h] = Nothing
      BY <1>2 DEF Sound, ImeStates
    <3>3. QED
      BY <3>1, <3>2 DEF Serves
  <2> HIDE DEF p
  <2>4. Serves(h, p, u) /\ Sound(u) /\ (u.owner = h \/ u.proxy[h] = Nothing)
    <3>1. Serves(h, p, u) /\ (u.owner = h \/ u.proxy[h] = Nothing)
      BY <2>3, HostAttached
    <3>2. QED
      BY <3>1 DEF Serves
  <2>5. Serves(h, u, t) /\ (t.owner = h \/ t.proxy[h] = Nothing)
    BY <2>2, <2>4, KeyboardShown
  <2>6. QED
    BY <1>2, <2>3, <2>4, <2>5, ServesTwice
<1>5. QED
  BY <1>1, <1>3, <1>4

(* NotifyImeStateLocked() calls the framework for the owner only.          *)
LEMMA ImeNotified ==
    ASSUME NEW h \in Hosts, NEW s, Sound(s)
    PROVE  NotifyImeStateLocked(h, s) = s
BY OwnerCalls DEF NotifyImeStateLocked

-----------------------------------------------------------------------------
(* Where the threads stand, and what a detach that has begun relies on.    *)
Threads ==
    /\ ui.at # "idle" => ui.host \in Hosts
    /\ cb.at # "idle" => cb.host \in Hosts
    /\ cb.at # "release" => cb.proxy = Nothing /\ cb.editor = Nothing
    /\ cb.at = "release" => preview[cb.host] = 0
    /\ ui.at \in {"detach", "detachHiding"} /\ ui.owner /\ ime.proxy[ui.host] # Nothing =>
          ime.bound.proxy \in {Nothing, ime.proxy[ui.host]}
    /\ ui.at \in {"detach", "detachHiding"} /\ ~ui.owner => ime.owner # ui.host
    /\ ui.at = "detaching" => ime.proxy[ui.host] \in {Nothing, ui.proxy}
    /\ ui.at \in {"destroy", "free"} => ime.proxy[ui.host] = Nothing
    /\ ui.at = "free" =>
          \/ ui.editor = ime.editor[ui.host]
          \/ ime.editor[ui.host] = Nothing /\ ui.editor \in races.taken

(* Editors that are not made yet are not destroyed.                        *)
Unmade == \A e \in Editors : e > ime.editors => destroyed[e] = 0

(* A preview text of n characters in the host h, written or counted, is    *)
(* part of a composition of its editor, or of one whose callbacks are no   *)
(* longer registered and whose proxy nobody can detach any more.           *)
Composes(h, n) ==
    n > 0 /\ h \notin races.crossed =>
        /\ n <= tail[h] /\ ime.composing /\ ime.bound.editor # Nothing
        /\ \/ ime.registry[ime.bound.editor] = h /\ terminal[h]
           \/ /\ ime.registry[ime.bound.editor] = NoHost
              /\ \A g \in Hosts : ime.proxy[g] # ime.bound.proxy
              /\ cb.proxy # ime.bound.proxy
              /\ \A r \in reapers : r.proxy # ime.bound.proxy
Composed ==
    /\ Composes(front, preview[front])
    /\ cb.at = "count" /\ cb.host = front => Composes(front, cb.count)

(* The inductive invariant.                                                *)
Inv ==
    /\ TypeOK /\ Sound(ime) /\ Threads /\ Unmade /\ EditorsAccounted /\ Composed

(* Nobody is attached, detached, registered or called in a step.           *)
SameLinks(s, t) ==
    /\ t.proxy = s.proxy /\ t.owner = s.owner /\ t.editor = s.editor
    /\ t.registry = s.registry /\ t.bound = s.bound
    /\ t.editors = s.editors /\ t.hung = s.hung

(* A step that changes no link keeps them sound.                           *)
LEMMA QuietStep ==
    ASSUME Inv, ime' \in ImeStates, SameLinks(ime, ime'), UNCHANGED <<reapers, destroyed>>,
           cb'.editor = cb.editor, cb'.proxy = cb.proxy,
           cb.editor # Nothing => cb'.host = cb.host,
           ui' = ui \/ (ui.at # "free" /\ ui'.at # "free"),
           races'.taken = races.taken
    PROVE  Sound(ime)' /\ Unmade' /\ EditorsAccounted'
<1> USE DEF Inv, Sound, SameLinks
<1>1. Numbered(ime)'
  BY DEF Numbered
<1>2. Apart(ime)'
  BY DEF Apart
<1>3. Registered(ime)'
  <2>1. \A e \in Editors : ime'.registry[e] # NoHost =>
           ime'.editor[ime'.registry[e]] = e \/ (cb'.editor = e /\ cb'.host = ime'.registry[e])
    <3>1. \A e \in Editors : e # Nothing
      BY ImeTypes
    <3>2. \A e \in Editors : ime.registry[e] # NoHost =>
             ime.editor[ime.registry[e]] = e \/ (cb.editor = e /\ cb.host = ime.registry[e])
      BY DEF Registered
    <3>3. QED
      BY <3>1, <3>2
  <2>2. CASE ui' = ui
    BY <2>1, <2>2 DEF Registered
  <2>3. CASE ui.at # "free" /\ ui'.at # "free"
    <3>1. \A h \in Hosts : ime'.editor[h] # Nothing => ime'.registry[ime'.editor[h]] = h
      BY <2>3 DEF Registered
    <3>2. QED
      BY <2>1, <2>3, <3>1 DEF Registered
  <2>4. QED
    BY <2>2, <2>3
<1>4. Linked(ime)'
  BY DEF Linked, BoundAs
<1>5. Owned(ime)'
  BY DEF Owned
<1>6. EditorsAccounted'
  BY DEF EditorsAccounted, Held
<1>7. Unmade'
  BY DEF Unmade
<1>8. QED
  BY <1>1, <1>2, <1>3, <1>4, <1>5, <1>6, <1>7

(* A step that changes neither links nor text keeps a composition.         *)
LEMMA QuietText ==
    ASSUME Inv, SameLinks(ime, ime'), ime'.composing = ime.composing,
           UNCHANGED <<preview, tail, front, terminal, races, reapers>>,
           cb'.proxy = cb.proxy, cb'.at = "count" => cb' = cb
    PROVE  Composed'
BY DEF Inv, Composed, Composes, SameLinks

(* An editor that is accounted for, e: the body of EditorsAccounted.       *)
LEMMA EditorKept ==
    ASSUME Inv, TypeOK', Sound(ime)', NEW e \in 1..ime'.editors, e <= ime.editors,
           Held(e) <=> Held(e)', races.taken \subseteq races'.taken, destroyed'[e] = destroyed[e],
           ime'.registry[e] \in {ime.registry[e], NoHost},
           ime'.bound.editor = e /\ ~Held(e) =>
               ime.bound.editor = e /\ (ime.bound.lost => ime'.bound.lost)
    PROVE  /\ ~Held(e)' => destroyed'[e] > 0
           /\ e \notin races'.taken =>
                 /\ destroyed'[e] = IF Held(e)' THEN 0 ELSE 1
                 /\ (destroyed'[e] = 1 /\ ime'.bound.editor = e) => ime'.bound.lost
                 /\ destroyed'[e] = 1 => ime'.registry[e] = NoHost
<1>1. e \in 1..ime.editors
  BY ImeTypes DEF Inv, Sound
<1>2. /\ ~Held(e) => destroyed[e] > 0
      /\ e \notin races.taken =>
            /\ destroyed[e] = IF Held(e) THEN 0 ELSE 1
            /\ (destroyed[e] = 1 /\ ime.bound.editor = e) => ime.bound.lost
            /\ destroyed[e] = 1 => ime.registry[e] = NoHost
  BY <1>1 DEF Inv, EditorsAccounted
<1>3. QED
  BY <1>2

(* Of one editor, a host and a background thread are never both holders.   *)
LEMMA HolderApart ==
    ASSUME NEW s, Apart(s), NEW e \in Nat \ {0}
    PROVE  ~\E h \in Hosts : s.editor[h] = e /\ \E r \in reapers : r.editor = e
BY DEF Apart, Nothing

(* What the UI thread does for one host keeps every part of the invariant  *)
(* about editors.                                                          *)
LEMMA ServedStep ==
    ASSUME Inv, TypeOK', NEW h \in Hosts, UiFree, Serves(h, ime, ime'),
           UNCHANGED <<ui, cb, reapers, destroyed>>, races'.taken = races.taken,
           \A g \in Hosts : preview'[g] \in {preview[g], 0}
    PROVE  Sound(ime)' /\ Threads' /\ Unmade' /\ EditorsAccounted'
<1> USE DEF UiFree
<1>0. Sound(ime) /\ Sound(ime')
  BY DEF Inv, Serves
<1>1. Sound(ime)'
  <2>1. Numbered(ime)'
    BY <1>0 DEF Sound, Numbered
  <2>2. Apart(ime)'
    BY <1>0 DEF Sound, Apart
  <2>3. Registered(ime)'
    BY <1>0 DEF Sound, Registered
  <2>4. Linked(ime)'
    BY <1>0 DEF Sound, Linked, BoundAs
  <2>5. Owned(ime)'
    BY <1>0 DEF Sound, Owned
  <2>6. QED
    BY <1>0, <2>1, <2>2, <2>3, <2>4, <2>5 DEF Sound
<1>2. Threads'
  BY DEF Inv, Threads
<1>3. /\ ime.editors \in Nat /\ ime'.editors \in Nat
      /\ ime.editors <= ime'.editors /\ ime'.editors <= ime.editors + 1
      /\ \A g \in Hosts : ime.editor[g] \in Nat /\ ime'.editor[g] \in Nat
      /\ \A e \in Editors : e \in Nat
  <2>1. /\ ime.editors \in Nat /\ ime.editor \in [Hosts -> Editors \cup {Nothing}]
        /\ \A e \in Editors \cup {Nothing} : e \in Nat
    BY <1>0, ImeTypes DEF Sound
  <2>2. ime'.editors \in Nat /\ ime'.editor \in [Hosts -> Editors \cup {Nothing}]
    BY <1>0, ImeTypes DEF Sound
  <2>3. QED
    BY <2>1, <2>2 DEF Serves
<1>4. Unmade'
  BY <1>3 DEF Inv, Unmade
<1>5. EditorsAccounted'
  <2> SUFFICES ASSUME NEW e \in 1..ime'.editors
               PROVE  /\ ~Held(e)' => destroyed'[e] > 0
                      /\ e \notin races'.taken =>
                            /\ destroyed'[e] = IF Held(e)' THEN 0 ELSE 1
                            /\ (destroyed'[e] = 1 /\ ime'.bound.editor = e) => ime'.bound.lost
                            /\ destroyed'[e] = 1 => ime'.registry[e] = NoHost
                      /\ ~\E g \in Hosts : ime'.editor[g] = e /\ \E r \in reapers' : r.editor = e
    BY DEF EditorsAccounted
  <2>1. e \in Editors /\ e \in Nat \ {0} /\ e # Nothing
    <3>1. ime'.editors <= MaxEditors
      BY <1>0, ImeAssumption DEF Sound, ImeStates
    <3>2. QED
      BY <3>1, <1>3, ImeAssumption DEF Editors, Nothing
  <2>2. ~\E g \in Hosts : ime'.editor[g] = e /\ \E r \in reapers' : r.editor = e
    BY <1>0, <2>1, HolderApart DEF Sound
  <2>3. CASE e <= ime.editors
    <3>1. Held(e) <=> Held(e)'
      BY <1>3, <2>1, <2>3 DEF Held, Serves
    <3>2. ime'.registry[e] = ime.registry[e]
      <4>1. ime.registry \in [Editors -> Hosts \cup {NoHost}]
        BY <1>0, ImeTypes DEF Sound
      <4>2. QED
        BY <1>3, <2>1, <2>3, <4>1 DEF Serves
    <3>3. ime'.bound.editor = e /\ ~Held(e) => ime'.bound = ime.bound
      BY <2>1, <3>1 DEF Held, Serves, Unbound
    <3>4. QED
      BY <1>1, <2>2, <2>3, <3>1, <3>2, <3>3, EditorKept
  <2>4. CASE ~(e <= ime.editors)
    <3>1. ime'.editor[h] = e
      BY <1>3, <2>1, <2>4 DEF Serves
    <3>2. Held(e)'
      BY <3>1 DEF Held
    <3>3. destroyed'[e] = 0
      BY <1>3, <2>1, <2>4 DEF Inv, Unmade
    <3>4. QED
      BY <2>2, <3>2, <3>3
  <2>5. QED
    BY <2>3, <2>4
<1>6. QED
  BY <1>1, <1>2, <1>4, <1>5

(* It keeps a composition in the tab the user sees: attaching the tab      *)
(* itself is told by the races, and no other tab attaches meanwhile.       *)
LEMMA ServedText ==
    ASSUME Inv, NEW h \in Hosts, Undisturbed(h), Serves(h, ime, ime'), races' = Attached(h),
           UNCHANGED <<preview, tail, front, cb, reapers>>, terminal[front] => terminal'[front]
    PROVE  Composed'
<1>1. /\ front \in Hosts /\ preview[front] \in Nat /\ cb.count \in Nat
      /\ ime.composing \in BOOLEAN /\ ime'.composing \in BOOLEAN
  BY ThreadTypes, ImeTypes DEF Inv, Serves, Sound
<1>2. ASSUME NEW n \in Nat, Composes(front, n), n > 0 => Writing(front) \/ preview[front] > 0
      PROVE  Composes(front, n)'
  <2> SUFFICES ASSUME n > 0, front \notin races'.crossed
               PROVE  /\ n <= tail'[front] /\ ime'.composing /\ ime'.bound.editor # Nothing
                      /\ \/ ime'.registry[ime'.bound.editor] = front /\ terminal'[front]
                         \/ /\ ime'.registry[ime'.bound.editor] = NoHost
                            /\ \A g \in Hosts : ime'.proxy[g] # ime'.bound.proxy
                            /\ cb'.proxy # ime'.bound.proxy
                            /\ \A r \in reapers' : r.proxy # ime'.bound.proxy
    BY DEF Composes
  <2>1. front \notin races.crossed
    BY DEF Attached, Inv, TypeOK, RaceStates
  <2>2. /\ n <= tail[front] /\ ime.composing /\ ime.bound.editor # Nothing
        /\ \/ ime.registry[ime.bound.editor] = front /\ terminal[front]
           \/ /\ ime.registry[ime.bound.editor] = NoHost
              /\ \A g \in Hosts : ime.proxy[g] # ime.bound.proxy
              /\ cb.proxy # ime.bound.proxy
              /\ \A r \in reapers : r.proxy # ime.bound.proxy
    BY <1>2, <2>1 DEF Composes
  <2>3. h = front
    BY <2>2 DEF Undisturbed
  <2>4. ime'.composing
    BY <1>1, <1>2, <2>2, <2>3 DEF Attached, Inv, TypeOK, RaceStates
  <2>5. ime'.bound = ime.bound /\ ime'.proxy[h] \in {ime.proxy[h], Nothing}
    BY <2>4 DEF Serves
  <2>6. ime'.registry[ime.bound.editor] = ime.registry[ime.bound.editor]
    <3>1. /\ ime.registry \in [Editors -> Hosts \cup {NoHost}] /\ ime.bound.editor \in Editors
          /\ ime.editors \in Nat /\ ime.bound.editor <= ime.editors /\ ime.bound.editor \in Nat
      BY <2>2, ImeTypes DEF Inv, Sound, Numbered
    <3>2. QED
      BY <3>1 DEF Serves
  <2>7. ime.bound.proxy # Nothing
    BY <2>2 DEF Inv, Sound, Linked
  <2>8. QED
    BY <2>2, <2>4, <2>5, <2>6, <2>7 DEF Serves
<1>3. Composes(front, preview[front])'
  BY <1>1, <1>2 DEF Inv, Composed
<1>4. cb.at = "count" /\ cb.host = front => Composes(front, cb.count)'
  BY <1>1, <1>2 DEF Inv, Composed, Writing
<1>5. QED
  BY <1>3, <1>4 DEF Composed, Composes

(* What the races record stays a set of editors and a set of hosts.        *)
LEMMA RacesTyped ==
    ASSUME TypeOK, NEW h \in Hosts
    PROVE  /\ Reset(h) \in RaceStates /\ Reset(h).taken = races.taken
           /\ Attached(h) \in RaceStates /\ Attached(h).taken = races.taken
           /\ \A g \in Hosts : g \in Reset(h).crossed <=> IF g = h THEN Writing(h) ELSE g \in races.crossed
BY DEF TypeOK, RaceStates, Reset, Attached

(* SelectTab keeps the invariant.                                          *)
LEMMA SelectTabKeeps ==
    ASSUME Inv, NEW h \in Hosts, SelectTab(h)
    PROVE  Inv'
<1>1. Serves(h, ime, ime')
  <2>1. PICK t \in AttachImeLocked(h, DropSuperseded(h, [ime EXCEPT !.wants[h] = TRUE])) :
          ime' = NotifyImeStateLocked(h, IF surface[h] = "shown" /\ t.proxy[h] # Nothing
                                         THEN ShowTextInputOnceLocked(h, t) ELSE t)
    BY DEF SelectTab, RequestImeFocus
  <2>2. Serves(h, ime, t) /\ Sound(t) /\ (t.owner = h \/ t.proxy[h] = Nothing)
    <3>1. Serves(h, ime, t) /\ (t.owner = h \/ t.proxy[h] = Nothing)
      BY AttachedForOwner DEF Inv, SelectTab
    <3>2. QED
      BY <3>1 DEF Serves
  <2> DEFINE u == IF surface[h] = "shown" /\ t.proxy[h] # Nothing
                  THEN ShowTextInputOnceLocked(h, t) ELSE t
  <2>3. Serves(h, t, u) /\ Sound(u)
    <3>1. Serves(h, t, u)
      BY <2>2, KeyboardShown, ServesSelf
    <3>2. QED
      BY <3>1 DEF Serves
  <2> HIDE DEF u
  <2>4. ime' = u
    BY <2>1, <2>3, ImeNotified DEF u
  <2>5. QED
    BY <2>2, <2>3, <2>4, ServesTwice DEF Inv
<1>2. preview' = [preview EXCEPT ![h] = 0] /\ races' = Reset(h) /\ front' = h
  BY DEF SelectTab, RequestImeFocus
<1>3. TypeOK'
  <2>1. ime' \in ImeStates
    BY <1>1 DEF Serves, Sound
  <2>2. races' \in RaceStates
    BY <1>2, RacesTyped DEF Inv
  <2>3. preview' \in [Hosts -> 0..MaxErase] /\ tail' \in [Hosts -> 0..MaxErase]
    BY <1>2, ImeAssumption DEF Inv, TypeOK, SelectTab
  <2>4. QED
    BY <1>2, <2>1, <2>2, <2>3 DEF Inv, TypeOK, SelectTab
<1>4. Sound(ime)' /\ Threads' /\ Unmade' /\ EditorsAccounted'
  <2>1. races'.taken = races.taken
    BY <1>2, RacesTyped DEF Inv
  <2>2. \A g \in Hosts : preview'[g] \in {preview[g], 0}
    BY <1>2, ThreadTypes DEF Inv
  <2>3. QED
    BY <1>1, <1>3, <2>1, <2>2, ServedStep DEF SelectTab
<1>5. Composed'
  <2>1. preview'[h] = 0
    BY <1>2, ThreadTypes DEF Inv
  <2>2. cb.at = "count" /\ cb.host = h => h \in races'.crossed
    BY <1>2, RacesTyped DEF Writing, Inv
  <2>3. QED
    BY <1>2, <2>1, <2>2 DEF Composed, Composes, SelectTab
<1>6. QED
  BY <1>3, <1>4, <1>5 DEF Inv

(* A step that attaches or shows a host, all else but its surface alone.   *)
LEMMA AttachingKeeps ==
    ASSUME Inv, NEW h \in Hosts, UiFree, Undisturbed(h), Serves(h, ime, ime'), races' = Attached(h),
           UNCHANGED <<preview, tail, front, ui, cb, reapers, destroyed>>,
           surface' \in [Hosts -> {"none", "hidden", "shown"}], terminal' \in [Hosts -> BOOLEAN],
           terminal[front] => terminal'[front]
    PROVE  Inv'
<1>1. ime' \in ImeStates
  BY DEF Serves, Sound
<1>2. races' \in RaceStates /\ races'.taken = races.taken
  BY RacesTyped DEF Inv
<1>3. TypeOK'
  BY <1>1, <1>2 DEF Inv, TypeOK
<1>4. Sound(ime)' /\ Threads' /\ Unmade' /\ EditorsAccounted'
  BY <1>2, <1>3, ServedStep DEF Inv
<1>5. Composed'
  BY ServedText
<1>6. QED
  BY <1>3, <1>4, <1>5 DEF Inv

(* Tap keeps the invariant.                                                *)
LEMMA TapKeeps ==
    ASSUME Inv, Tap
    PROVE  Inv'
<1>1. front \in Hosts /\ UiFree /\ Sound(ime) /\ TypeOK
  BY DEF Inv, TypeOK, Tap
<1>2. Serves(front, ime, ime')
  <2>1. PICK t \in ShowImeLocked(front, ime) : ime' = NotifyImeStateLocked(front, t)
    BY DEF Tap
  <2>2. Serves(front, ime, t)
    BY <1>1, ImeShown
  <2>3. ime' = t
    BY <1>1, <2>1, <2>2, ImeNotified DEF Serves
  <2>4. QED
    BY <2>2, <2>3
<1>3. QED
  BY <1>1, <1>2, AttachingKeeps DEF Tap, Undisturbed, TypeOK

(* OnSurfaceCreated keeps the invariant.                                   *)
LEMMA OnSurfaceCreatedKeeps ==
    ASSUME Inv, NEW h \in Hosts, OnSurfaceCreated(h)
    PROVE  Inv'
<1>1. UiFree /\ Sound(ime) /\ TypeOK
  BY DEF Inv, OnSurfaceCreated
<1>2. Serves(h, ime, ime')
  <2>1. PICK t \in AttachImeLocked(h, ime) :
          ime' = IF terminal[h] \/ t.owner # h THEN t ELSE Call(h, t)
    BY DEF OnSurfaceCreated
  <2>2. Serves(h, ime, t)
    BY <1>1, HostAttached
  <2>3. QED
    BY <2>1, <2>2, OwnerCalls DEF Serves
<1>3. QED
  BY <1>1, <1>2, AttachingKeeps DEF OnSurfaceCreated, TypeOK

(* OnSurfaceShow keeps the invariant.                                      *)
LEMMA OnSurfaceShowKeeps ==
    ASSUME Inv, NEW h \in Hosts, OnSurfaceShow(h)
    PROVE  Inv'
<1>1. UiFree /\ Sound(ime) /\ TypeOK
  BY DEF Inv, OnSurfaceShow
<1>2. Serves(h, ime, ime')
  <2>1. CASE ime' = ime
    BY <1>1, <2>1, ServesSelf
  <2>2. CASE ime' # ime
    <3>1. PICK t \in ShowImeLocked(h, ime) : ime' = Call(h, t)
      BY <2>2 DEF OnSurfaceShow
    <3>2. Serves(h, ime, t) /\ (t.owner = h \/ t.proxy[h] = Nothing)
      BY <1>1, ImeShown
    <3>3. QED
      BY <3>1, <3>2, OwnerCalls DEF Serves
  <2>3. QED
    BY <2>1, <2>2
<1>3. QED
  BY <1>1, <1>2, AttachingKeeps DEF OnSurfaceShow, TypeOK

(* The callback that is not running.                                       *)
LEMMA CbIdleTyped ==
    /\ CbIdle \in CbStates /\ CbIdle.at = "idle" /\ ~CbIdle.sync
    /\ CbIdle.proxy = Nothing /\ CbIdle.editor = Nothing
BY ImeAssumption DEF CbIdle, CbStates, Nothing

(* The UI thread that is not in a call.                                    *)
LEMMA UiIdleTyped ==
    UiIdle \in UiStates /\ UiIdle.at = "idle" /\ UiIdle.editor = Nothing
BY ImeAssumption DEF UiIdle, UiStates, Nothing

(* The next step of the UI thread.                                         *)
LEMMA UiMoveTyped ==
    ASSUME NEW u \in UiStates, NEW a \in InCall \cup {"idle", "detach", "destroy", "free", "stuck"}
    PROVE  [u EXCEPT !.at = a] \in UiStates
BY DEF UiStates

(* A call with the owner's proxy, or none, changes nothing; forgetting     *)
(* that the keyboard is shown changes no link.                             *)
LEMMA HidesQuietly ==
    ASSUME Inv, NEW h \in Hosts
    PROVE  /\ Hides(h, ime) => Call(h, ime) = ime
           /\ LET t == Hidden(h, ime)
              IN  t \in ImeStates /\ SameLinks(ime, t) /\ t.composing = ime.composing
<1>1. Hides(h, ime) => Call(h, ime) = ime
  BY OwnerCalls DEF Inv, Hides
<1>2. ime \in ImeStates
  BY DEF Inv, Sound
<1>3. QED
  BY <1>1, <1>2 DEF Hidden, SameLinks, ImeStates

(* OnSurfaceHide keeps the invariant.                                      *)
LEMMA OnSurfaceHideKeeps ==
    ASSUME Inv, NEW h \in Hosts, OnSurfaceHide(h)
    PROVE  Inv'
<1>1. ime' \in ImeStates /\ SameLinks(ime, ime') /\ ime'.composing = ime.composing
  BY HidesQuietly DEF OnSurfaceHide, Inv, Sound, SameLinks
<1>2. ui' = ui \/ (ui'.at = "hiding" /\ ui'.host = h /\ ui' \in UiStates)
  BY UiIdleTyped DEF OnSurfaceHide, UiStates, InCall
<1>3. TypeOK'
  <2>1. surface' \in [Hosts -> {"none", "hidden", "shown"}]
    BY DEF OnSurfaceHide, Inv, TypeOK
  <2>2. QED
    BY <1>1, <1>2, <2>1 DEF OnSurfaceHide, Inv, TypeOK
<1>4. Sound(ime)' /\ Unmade' /\ EditorsAccounted'
  BY <1>1, <1>2, QuietStep DEF OnSurfaceHide, UiFree
<1>5. Threads'
  BY <1>1, <1>2 DEF OnSurfaceHide, Inv, Threads, SameLinks
<1>6. Composed'
  BY <1>1, QuietText DEF OnSurfaceHide
<1>7. QED
  BY <1>3, <1>4, <1>5, <1>6 DEF Inv

(* BeginDetach keeps the invariant.                                        *)
LEMMA BeginDetachKeeps ==
    ASSUME Inv, NEW h \in Hosts, BeginDetach(h)
    PROVE  Inv'
<1>1. ime' \in ImeStates /\ SameLinks(ime, ime') /\ ime'.composing = ime.composing
  BY HidesQuietly DEF BeginDetach, Inv, Sound, SameLinks
<1>2. /\ ui'.at \in {"detach", "detachHiding"} /\ ui'.host = h /\ ui' \in UiStates
      /\ ui'.owner = (ime.owner = h)
  <2> DEFINE start == [UiIdle EXCEPT !.at = "detach", !.host = h, !.owner = ime.owner = h]
  <2>1. /\ start \in UiStates /\ start.at = "detach" /\ start.host = h
        /\ start.owner = (ime.owner = h)
    <3>1. (ime.owner = h) \in BOOLEAN
      OBVIOUS
    <3>2. QED
      BY <3>1, UiIdleTyped DEF UiStates
  <2>2. ui' = start \/ ui' = [start EXCEPT !.at = "detachHiding"]
    BY DEF BeginDetach
  <2> HIDE DEF start
  <2>3. QED
    BY <2>1, <2>2 DEF UiStates, InCall
<1>3. TypeOK'
  BY <1>1, <1>2 DEF BeginDetach, Inv, TypeOK
<1>4. Sound(ime)' /\ Unmade' /\ EditorsAccounted'
  BY <1>1, <1>2, QuietStep DEF BeginDetach, UiFree
<1>5. Threads'
  BY <1>1, <1>2 DEF BeginDetach, Inv, Threads, SameLinks, Sound, Owned
<1>6. Composed'
  BY <1>1, QuietText DEF BeginDetach
<1>7. QED
  BY <1>3, <1>4, <1>5, <1>6 DEF Inv

(* HideReturns keeps the invariant.                                        *)
LEMMA HideReturnsKeeps ==
    ASSUME Inv, HideReturns
    PROVE  Inv'
<1>1. ime' \in ImeStates /\ SameLinks(ime, ime') /\ ime'.composing = ime.composing
  <2>1. ime \in ImeStates
    BY DEF Inv, Sound
  <2>2. QED
    BY <2>1 DEF HideReturns, SameLinks, ImeStates
<1>2. /\ ui' \in UiStates /\ ui.at # "free"
      /\ \/ ui'.at = "idle"
         \/ ui.at = "detachHiding" /\ ui'.at = "detach" /\ ui'.host = ui.host /\ ui'.owner = ui.owner
  <2>1. ui \in UiStates
    BY DEF Inv, TypeOK
  <2>2. QED
    BY <2>1, UiIdleTyped, UiMoveTyped DEF HideReturns, UiStates
<1>3. TypeOK'
  BY <1>1, <1>2 DEF HideReturns, Inv, TypeOK
<1>4. Sound(ime)' /\ Unmade' /\ EditorsAccounted'
  BY <1>1, <1>2, QuietStep DEF HideReturns
<1>5. Threads'
  BY <1>1, <1>2 DEF HideReturns, Inv, Threads, SameLinks
<1>6. Composed'
  BY <1>1, QuietText DEF HideReturns
<1>7. QED
  BY <1>3, <1>4, <1>5, <1>6 DEF Inv

(* A callback that starts, and one that ends without having taken          *)
(* anything, holds nothing.                                                *)
LEMMA CallbackMoves ==
    ASSUME Inv, UNCHANGED <<ime, preview, tail, surface, terminal, front, reapers, destroyed, races>>,
           cb.at # "release", cb' \in CbStates, cb'.proxy = Nothing, cb'.editor = Nothing,
           cb'.at \in {"idle", "status", "take"}, cb'.at # "idle" => cb'.host \in Hosts,
           ui' = ui \/ (ui'.at = "stuck" /\ ui'.host = ui.host /\ ui.at = "hiding" /\ ui' \in UiStates)
    PROVE  Inv'
<1>1. ime' \in ImeStates /\ SameLinks(ime, ime') /\ cb.proxy = Nothing /\ cb.editor = Nothing
  BY DEF Inv, Sound, SameLinks, Threads
<1>2. TypeOK'
  BY <1>1 DEF Inv, TypeOK
<1>3. Sound(ime)' /\ Unmade' /\ EditorsAccounted'
  BY <1>1, QuietStep
<1>4. Threads'
  BY <1>1 DEF Inv, Threads, SameLinks
<1>5. Composed'
  BY <1>1, QuietText
<1>6. QED
  BY <1>2, <1>3, <1>4, <1>5 DEF Inv

(* BeginStatus keeps the invariant.                                        *)
LEMMA BeginStatusKeeps ==
    ASSUME Inv, NEW e \in Editors, NEW status \in {"show", "hide"}, BeginStatus(e, status)
    PROVE  Inv'
<1>1. FindImeHost(e) \in Hosts
  BY ImeTypes DEF BeginStatus, FindImeHost, Inv, Sound
<1>2. /\ cb' \in CbStates /\ cb'.proxy = Nothing /\ cb'.editor = Nothing
      /\ cb'.at = "status" /\ cb'.host = FindImeHost(e)
  BY <1>1, CbIdleTyped DEF BeginStatus, CbStates
<1>3. QED
  BY <1>1, <1>2, CallbackMoves DEF BeginStatus

(* CallBack keeps the invariant.                                           *)
LEMMA CallBackKeeps ==
    ASSUME Inv, CallBack
    PROVE  Inv'
<1>1. ui.host \in Hosts /\ ui \in UiStates /\ cb \in CbStates
  BY DEF CallBack, InCall, Inv, Threads, TypeOK
<1>2. CASE ui.at = "hiding"
  <2>1. ui' \in UiStates /\ ui'.at = "stuck" /\ ui'.host = ui.host /\ cb' = cb
    BY <1>1, <1>2 DEF CallBack, UiStates
  <2>2. cb.at = "idle" /\ cb.proxy = Nothing /\ cb.editor = Nothing
    BY DEF CallBack, Inv, Threads
  <2>3. QED
    BY <1>1, <1>2, <2>1, <2>2, CallbackMoves DEF CallBack
<1>3. CASE ui.at # "hiding"
  <2>1. /\ cb' \in CbStates /\ cb'.proxy = Nothing /\ cb'.editor = Nothing
        /\ cb'.at = "status" /\ cb'.host = ui.host
    <3>1. cb' = [CbIdle EXCEPT !.at = "status", !.host = ui.host, !.sync = TRUE]
      BY <1>3 DEF CallBack
    <3>2. QED
      BY <1>1, <3>1, CbIdleTyped DEF CbStates
  <2>2. QED
    BY <1>1, <1>3, <2>1, CallbackMoves DEF CallBack
<1>4. QED
  BY <1>2, <1>3

(* SetVisible keeps the invariant.                                         *)
LEMMA SetVisibleKeeps ==
    ASSUME Inv, SetVisible
    PROVE  Inv'
<1>1. ime' \in ImeStates /\ SameLinks(ime, ime') /\ ime'.composing = ime.composing
  <2>1. ime \in ImeStates /\ (cb.status = "show") \in BOOLEAN
    BY DEF Inv, Sound
  <2>2. QED
    BY <2>1 DEF SetVisible, SameLinks, ImeStates
<1>2. /\ cb' \in CbStates /\ cb'.proxy = cb.proxy /\ cb'.editor = cb.editor /\ cb.at = "status"
      /\ \/ cb'.at = "idle"
         \/ cb'.at = "take" /\ cb'.host = cb.host
  <2>1. cb \in CbStates /\ cb.proxy = Nothing /\ cb.editor = Nothing /\ cb.at = "status"
    BY DEF Inv, TypeOK, Threads, SetVisible
  <2>2. QED
    BY <2>1, CbIdleTyped DEF SetVisible, CbStates
<1>3. cb.proxy = Nothing /\ cb.editor = Nothing
  BY <1>2 DEF Inv, Threads
<1>4. TypeOK'
  BY <1>1, <1>2 DEF SetVisible, Inv, TypeOK
<1>5. Sound(ime)' /\ Unmade' /\ EditorsAccounted'
  BY <1>1, <1>2, <1>3, QuietStep DEF SetVisible
<1>6. Threads'
  BY <1>1, <1>2, <1>3 DEF SetVisible, Inv, Threads, SameLinks
<1>7. Composed'
  BY <1>1, <1>2, QuietText DEF SetVisible
<1>8. QED
  BY <1>4, <1>5, <1>6, <1>7 DEF Inv

(* CountPreview keeps the invariant.                                       *)
LEMMA CountPreviewKeeps ==
    ASSUME Inv, CountPreview
    PROVE  Inv'
<1>1. /\ cb.host \in Hosts /\ cb \in CbStates /\ cb.proxy = Nothing /\ cb.editor = Nothing
      /\ preview \in [Hosts -> 0..MaxErase] /\ ime \in ImeStates
  BY DEF Inv, Threads, TypeOK, CountPreview
<1>2. TypeOK'
  <2>1. preview' \in [Hosts -> 0..MaxErase]
    BY <1>1 DEF CountPreview, CbStates
  <2>2. QED
    BY <2>1, CbIdleTyped DEF CountPreview, Inv, TypeOK
<1>3. Sound(ime)' /\ Unmade' /\ EditorsAccounted'
  BY <1>1, QuietStep, CbIdleTyped DEF CountPreview, SameLinks
<1>4. Threads'
  BY CbIdleTyped DEF CountPreview, Inv, Threads
<1>5. Composed'
  <2>1. preview'[front] = IF front = cb.host THEN cb.count ELSE preview[front]
    BY <1>1 DEF CountPreview, Inv, TypeOK
  <2>2. Composes(front, preview'[front])
    BY <2>1 DEF Inv, Composed, CountPreview
  <2>3. Composes(front, preview[front])'
    BY <1>1, <2>2, CbIdleTyped DEF Composes, CountPreview
  <2>4. QED
    BY <2>3, CbIdleTyped DEF Composed, CountPreview
<1>6. QED
  BY <1>2, <1>3, <1>4, <1>5 DEF Inv

(* DispatchKeyEvent keeps the invariant.                                   *)
LEMMA DispatchKeyEventKeeps ==
    ASSUME Inv, DispatchKeyEvent
    PROVE  Inv'
<1>1. KeyTarget \in Hosts /\ front \in Hosts
  BY ImeTypes DEF KeyTarget, Inv, TypeOK, Sound
<1>2. PICK h \in Hosts : races' = Reset(h) /\ (Writing(front) => h = front)
  BY <1>1 DEF DispatchKeyEvent, Writing
<1>3. TypeOK'
  <2>1. preview' \in [Hosts -> 0..MaxErase] /\ tail' \in [Hosts -> 0..MaxErase]
    BY ImeAssumption DEF DispatchKeyEvent, Inv, TypeOK
  <2>2. races' \in RaceStates
    BY <1>2, RacesTyped DEF Inv
  <2>3. QED
    BY <2>1, <2>2 DEF DispatchKeyEvent, Inv, TypeOK
<1>4. Sound(ime)' /\ Unmade' /\ EditorsAccounted'
  <2>1. races'.taken = races.taken
    BY <1>2, RacesTyped DEF Inv
  <2>2. QED
    BY <2>1, QuietStep DEF DispatchKeyEvent, SameLinks, Inv, Sound
<1>5. Threads'
  <2>1. \A g \in Hosts : preview'[g] \in {preview[g], 0}
    BY ThreadTypes DEF DispatchKeyEvent, Inv
  <2>2. QED
    BY <2>1 DEF DispatchKeyEvent, UiFree, Inv, Threads
<1>6. Composed'
  <2>1. preview'[front] = 0
    BY <1>1, ThreadTypes DEF DispatchKeyEvent, Inv
  <2>2. cb.at = "count" /\ cb.host = front => front \in races'.crossed
    BY <1>1, <1>2, RacesTyped DEF Writing, Inv
  <2>3. QED
    BY <2>1, <2>2 DEF Composed, Composes, DispatchKeyEvent
<1>7. QED
  BY <1>3, <1>4, <1>5, <1>6 DEF Inv

(* InsertImeText keeps the invariant.                                      *)
LEMMA InsertImeTextKeeps ==
    ASSUME Inv, InsertImeText
    PROVE  Inv'
<1>1. TypeOK'
  <2>1. 0 \in 0..MaxErase
    BY ImeAssumption
  <2>2. tail' \in [Hosts -> 0..MaxErase]
    BY <2>1 DEF InsertImeText, Inv, TypeOK
  <2>3. QED
    BY <2>2 DEF InsertImeText, Inv, TypeOK
<1>2. Sound(ime)' /\ Unmade' /\ EditorsAccounted'
  BY QuietStep DEF InsertImeText, SameLinks, Inv, Sound
<1>3. Threads'
  BY DEF InsertImeText, Inv, Threads
<1>4. Composed'
  BY DEF InsertImeText, TextArrives, Inv, Composed, Composes
<1>5. QED
  BY <1>1, <1>2, <1>3, <1>4 DEF Inv

(* The host that text arrives at.                                          *)
LEMMA ArrivesAt ==
    ASSUME Inv, TextArrives
    PROVE  /\ ImeHost \in Hosts /\ cb.at = "idle" /\ ime.bound.editor # Nothing
           /\ ImeHost = ime.registry[ime.bound.editor]
           /\ cb.proxy = Nothing /\ cb.editor = Nothing
<1>1. cb.at = "idle" /\ cb.proxy = Nothing /\ cb.editor = Nothing /\ ime \in ImeStates
  BY DEF TextArrives, Inv, Sound, Threads
<1>2. ime.bound.editor # Nothing /\ ImeHost = ime.registry[ime.bound.editor] /\ ImeHost # NoHost
  BY DEF TextArrives, ImeHost, FindImeHost
<1>3. ImeHost \in Hosts
  BY <1>1, <1>2, ImeTypes
<1>4. QED
  BY <1>1, <1>2, <1>3

(* HandleImeFinishPreview keeps the invariant.                             *)
LEMMA HandleImeFinishPreviewKeeps ==
    ASSUME Inv, HandleImeFinishPreview
    PROVE  Inv'
<1> DEFINE h == ImeHost
<1>1. /\ h \in Hosts /\ cb.at = "idle" /\ ime.bound.editor # Nothing
      /\ h = ime.registry[ime.bound.editor] /\ front \in Hosts
  BY ArrivesAt DEF HandleImeFinishPreview, Inv, TypeOK
<1>2. ime' \in ImeStates /\ SameLinks(ime, ime')
  BY DEF HandleImeFinishPreview, Inv, Sound, ImeStates, SameLinks
<1>3. /\ races' \in RaceStates /\ races'.taken = races.taken
      /\ \A g \in Hosts : preview'[g] \in {preview[g], 0}
      /\ preview' \in [Hosts -> 0..MaxErase] /\ tail' \in [Hosts -> 0..MaxErase]
  <2>1. CASE preview[h] > 0 /\ terminal[h]
    <3>1. /\ preview' = [preview EXCEPT ![h] = 0] /\ tail' = [tail EXCEPT ![h] = 0]
          /\ races' = Reset(h)
      BY <2>1 DEF HandleImeFinishPreview
    <3>2. races' \in RaceStates /\ races'.taken = races.taken
      BY <1>1, <3>1, RacesTyped DEF Inv
    <3>3. QED
      BY <1>1, <3>1, <3>2, ImeAssumption DEF Inv, TypeOK
  <2>2. CASE ~(preview[h] > 0 /\ terminal[h])
    BY <2>2 DEF HandleImeFinishPreview, Inv, TypeOK
  <2>3. QED
    BY <2>1, <2>2
<1>4. TypeOK'
  BY <1>2, <1>3 DEF HandleImeFinishPreview, Inv, TypeOK
<1>5. Sound(ime)' /\ Unmade' /\ EditorsAccounted'
  BY <1>2, <1>3, QuietStep DEF HandleImeFinishPreview
<1>6. Threads'
  BY <1>1, <1>2, <1>3 DEF HandleImeFinishPreview, Inv, Threads, SameLinks
<1>7. Composed'
  <2>1. ASSUME preview'[front] > 0, front \notin races'.crossed
        PROVE  FALSE
    <3>1. front # h \/ ~terminal[h]
      BY <1>1, <2>1, ThreadTypes DEF HandleImeFinishPreview, Inv
    <3>2. preview'[front] = preview[front] /\ (front \in races.crossed => front \in races'.crossed)
      <4>1. CASE preview[h] > 0 /\ terminal[h]
        BY <1>1, <3>1, <4>1, RacesTyped, ThreadTypes DEF HandleImeFinishPreview, Inv
      <4>2. CASE ~(preview[h] > 0 /\ terminal[h])
        BY <4>2 DEF HandleImeFinishPreview
      <4>3. QED
        BY <4>1, <4>2
    <3>3. QED
      BY <1>1, <2>1, <3>1, <3>2, ImeTypes DEF Inv, Sound, Composed, Composes
  <2>2. QED
    BY <1>1, <2>1 DEF Composed, Composes, HandleImeFinishPreview
<1>8. QED
  BY <1>4, <1>5, <1>6, <1>7 DEF Inv

(* HandleImeSetPreviewText keeps the invariant.                            *)
LEMMA HandleImeSetPreviewTextKeeps ==
    ASSUME Inv, NEW n \in 1..(MaxErase + 1), HandleImeSetPreviewText(n)
    PROVE  Inv'
<1> DEFINE h == ImeHost
           counts == Takes(h) /\ n <= MaxErase
<1>1. /\ h \in Hosts /\ cb.at = "idle" /\ ime.bound.editor # Nothing
      /\ h = ime.registry[ime.bound.editor] /\ front \in Hosts
      /\ cb.proxy = Nothing /\ cb.editor = Nothing
  BY ArrivesAt DEF HandleImeSetPreviewText, Inv, TypeOK
<1>2. /\ ime' \in ImeStates /\ SameLinks(ime, ime') /\ ime'.composing = TRUE
  BY DEF HandleImeSetPreviewText, Inv, Sound, ImeStates, SameLinks
<1>3. /\ preview' = [preview EXCEPT ![h] = 0] /\ races' = Reset(h)
      /\ tail' = [tail EXCEPT ![h] = IF counts THEN n ELSE 0]
      /\ cb' = IF counts THEN [CbIdle EXCEPT !.at = "count", !.host = h, !.count = n] ELSE cb
  BY DEF HandleImeSetPreviewText
<1>4. /\ cb' \in CbStates /\ cb'.proxy = Nothing /\ cb'.editor = Nothing
      /\ \/ cb' = cb
         \/ counts /\ cb'.at = "count" /\ cb'.host = h /\ cb'.count = n
  <2>1. CASE counts
    <3>1. n \in 0..MaxErase
      BY <2>1, ImeAssumption
    <3>2. QED
      BY <1>1, <1>3, <2>1, <3>1, CbIdleTyped DEF CbStates
  <2>2. CASE ~counts
    BY <1>1, <1>3, <2>2 DEF Inv, TypeOK
  <2>3. QED
    BY <2>1, <2>2
<1>5. races' \in RaceStates /\ races'.taken = races.taken
  BY <1>1, <1>3, RacesTyped DEF Inv
<1>6. TypeOK'
  <2>1. (IF counts THEN n ELSE 0) \in 0..MaxErase /\ 0 \in 0..MaxErase
    BY ImeAssumption
  <2> HIDE DEF counts, h
  <2>2. preview' \in [Hosts -> 0..MaxErase] /\ tail' \in [Hosts -> 0..MaxErase]
    BY <1>3, <2>1 DEF Inv, TypeOK
  <2>3. QED
    BY <1>2, <1>4, <1>5, <2>2 DEF HandleImeSetPreviewText, Inv, TypeOK
<1>7. Sound(ime)' /\ Unmade' /\ EditorsAccounted'
  BY <1>1, <1>2, <1>4, <1>5, QuietStep DEF HandleImeSetPreviewText
<1>8. Threads'
  BY <1>1, <1>2, <1>4, <1>5 DEF HandleImeSetPreviewText, Inv, Threads, SameLinks
<1>9. Composed'
  <2>1. ASSUME preview'[front] > 0, front \notin races'.crossed
        PROVE  FALSE
    <3>1. front # h
      BY <1>1, <1>3, <2>1, ThreadTypes DEF Inv
    <3>2. preview'[front] = preview[front] /\ front \notin races.crossed
      BY <1>1, <1>3, <2>1, <3>1, RacesTyped, ThreadTypes DEF Inv
    <3>3. QED
      BY <1>1, <2>1, <3>1, <3>2, ImeTypes DEF Inv, Sound, Composed, Composes
  <2>2. ASSUME cb'.at = "count", cb'.host = front
        PROVE  /\ cb'.count <= tail'[front] /\ ime'.composing /\ ime'.bound.editor # Nothing
               /\ ime'.registry[ime'.bound.editor] = front /\ terminal'[front]
    <3>1. counts /\ front = h /\ cb'.count = n
      BY <1>1, <1>4, <2>2
    <3>2. tail'[h] = n
      BY <1>1, <1>3, <3>1, ThreadTypes DEF Inv
    <3>3. n \in Nat
      OBVIOUS
    <3>4. QED
      BY <1>1, <1>2, <3>1, <3>2, <3>3 DEF SameLinks, Takes, HandleImeSetPreviewText
  <2>3. front' = front
    BY DEF HandleImeSetPreviewText
  <2>4. QED
    BY <2>1, <2>2, <2>3 DEF Composed, Composes
<1>10. QED
  BY <1>6, <1>7, <1>8, <1>9 DEF Inv

-----------------------------------------------------------------------------
(* A step that makes and destroys no editor, and after which the same      *)
(* editors are held, keeps their account.                                  *)
LEMMA HoldersKept ==
    ASSUME Inv, TypeOK', Sound(ime)', ime'.editors = ime.editors, destroyed' = destroyed,
           races.taken \subseteq races'.taken,
           \A e \in Editors : Held(e) <=> Held(e)',
           \A e \in Editors : ime'.registry[e] \in {ime.registry[e], NoHost},
           \/ ime'.bound.editor = Nothing
           \/ ime'.bound.editor = ime.bound.editor /\ (ime.bound.lost => ime'.bound.lost)
    PROVE  EditorsAccounted'
<1> SUFFICES ASSUME NEW e \in 1..ime'.editors
             PROVE  /\ ~Held(e)' => destroyed'[e] > 0
                    /\ e \notin races'.taken =>
                          /\ destroyed'[e] = IF Held(e)' THEN 0 ELSE 1
                          /\ (destroyed'[e] = 1 /\ ime'.bound.editor = e) => ime'.bound.lost
                          /\ destroyed'[e] = 1 => ime'.registry[e] = NoHost
                    /\ ~\E g \in Hosts : ime'.editor[g] = e /\ \E r \in reapers' : r.editor = e
  BY DEF EditorsAccounted
<1>1. e \in Editors /\ e \in Nat \ {0} /\ e # Nothing /\ e <= ime.editors
  <2>1. ime.editors <= MaxEditors /\ ime.editors \in Nat
    BY ImeAssumption DEF Inv, Sound, ImeStates
  <2>2. QED
    BY <2>1, ImeAssumption DEF Editors, Nothing
<1>2. ~\E g \in Hosts : ime'.editor[g] = e /\ \E r \in reapers' : r.editor = e
  BY <1>1 DEF Sound, Apart, Nothing
<1>3. QED
  BY <1>1, <1>2, EditorKept

(* Losing the binding keeps the links.                                     *)
LEMMA Unbinds ==
    ASSUME NEW s, Sound(s), NEW t \in ImeStates, t.bound = Unbound,
           t.proxy = s.proxy, t.owner = s.owner, t.editor = s.editor,
           t.registry = s.registry, t.editors = s.editors, t.hung = s.hung
    PROVE  Sound(t)
<1>0. t.bound.editor = Nothing /\ t.bound.proxy = Nothing
  BY DEF Unbound
<1>1. Numbered(t)
  <2>1. s.editors \in Nat
    BY ImeTypes DEF Sound
  <2>2. QED
    BY <1>0, <2>1 DEF Sound, Numbered, Nothing
<1>2. Apart(t)
  BY DEF Sound, Apart
<1>3. Registered(t)
  BY DEF Sound, Registered
<1>4. Linked(t) /\ Owned(t)
  BY <1>0 DEF Sound, Linked, BoundAs, Owned
<1>5. QED
  BY <1>1, <1>2, <1>3, <1>4 DEF Sound

(* What holds of a state of the input method now holds of it after a step  *)
(* that leaves the threads alone.                                          *)
LEMMA SoundThen ==
    ASSUME Sound(ime'), cb'.editor = cb.editor, cb'.proxy = cb.proxy, cb'.host = cb.host,
           ui' = ui, reapers' = reapers
    PROVE  Sound(ime)'
<1> USE DEF Sound
<1>1. Numbered(ime)'
  BY DEF Numbered
<1>2. Apart(ime)'
  BY DEF Apart
<1>3. Registered(ime)'
  BY DEF Registered
<1>4. Linked(ime)'
  BY DEF Linked, BoundAs
<1>5. Owned(ime)'
  BY DEF Owned
<1>6. QED
  BY <1>1, <1>2, <1>3, <1>4, <1>5

(* The framework forgets a binding: the fields that are left.              *)
LEMMA UnboundFields ==
    ASSUME NEW s \in ImeStates
    PROVE  /\ LET t == [s EXCEPT !.bound = Unbound]
              IN  /\ t \in ImeStates /\ t.bound = Unbound /\ t.composing = s.composing
                  /\ t.proxy = s.proxy /\ t.owner = s.owner /\ t.editor = s.editor
                  /\ t.registry = s.registry /\ t.editors = s.editors /\ t.hung = s.hung
           /\ LET t == [s EXCEPT !.bound = Unbound, !.composing = FALSE]
              IN  /\ t \in ImeStates /\ t.bound = Unbound /\ t.composing = FALSE
                  /\ t.proxy = s.proxy /\ t.owner = s.owner /\ t.editor = s.editor
                  /\ t.registry = s.registry /\ t.editors = s.editors /\ t.hung = s.hung
<1>1. Unbound \in [editor : 0..MaxEditors, proxy : 0..MaxProxies, lost : BOOLEAN]
  BY ImeAssumption DEF Unbound, Nothing
<1>2. QED
  BY <1>1 DEF ImeStates

(* LoseBinding keeps the invariant.                                        *)
LEMMA LoseBindingKeeps ==
    ASSUME Inv, LoseBinding
    PROVE  Inv'
<1>1. /\ ime' \in ImeStates /\ ime'.bound = Unbound /\ ime'.composing = ime.composing
      /\ ime'.proxy = ime.proxy /\ ime'.owner = ime.owner /\ ime'.editor = ime.editor
      /\ ime'.registry = ime.registry /\ ime'.editors = ime.editors /\ ime'.hung = ime.hung
  BY UnboundFields DEF LoseBinding, Inv, Sound
<1>2. Sound(ime)'
  BY <1>1, Unbinds, SoundThen DEF LoseBinding, Inv
<1>3. TypeOK'
  BY <1>1 DEF LoseBinding, Inv, TypeOK
<1>4. Unmade' /\ Threads'
  BY <1>1 DEF LoseBinding, Inv, Unmade, Threads, Unbound
<1>5. EditorsAccounted'
  BY <1>1, <1>2, <1>3, HoldersKept DEF LoseBinding, Held, Unbound
<1>6. Composed'
  BY <1>1 DEF LoseBinding, Inv, Composed, Composes
<1>7. QED
  BY <1>2, <1>3, <1>4, <1>5, <1>6 DEF Inv

(* What a background thread holds is held by no host and no callback, and  *)
(* its callbacks are not registered.                                       *)
LEMMA ReaperHolds ==
    ASSUME Inv, NEW r \in reapers, r.editor # Nothing
    PROVE  /\ r.editor \in Editors /\ r.editor # cb.editor
           /\ \A h \in Hosts : ime.editor[h] # r.editor
           /\ ime.registry[r.editor] = NoHost
<1>1. r.editor \in Editors
  BY ThreadTypes DEF Inv
<1>2. ime.registry[r.editor] \in Hosts \cup {NoHost}
  BY <1>1, ImeTypes DEF Inv, Sound
<1>3. r.editor # cb.editor /\ \A h \in Hosts : ime.editor[h] # r.editor
  BY DEF Inv, Sound, Apart
<1>4. QED
  BY <1>1, <1>2, <1>3 DEF Inv, Sound, Registered

(* ReapProxy keeps the invariant.                                          *)
LEMMA ReapProxyKeeps ==
    ASSUME Inv, NEW r \in reapers, ReapProxy(r)
    PROVE  Inv'
<1> DEFINE q == [r EXCEPT !.proxy = Nothing]
<1>1. /\ q \in Reapers /\ q.editor = r.editor /\ q.proxy = Nothing
      /\ reapers' = (reapers \ {r}) \cup {q}
  BY ImeAssumption DEF Inv, TypeOK, Reapers, ReapProxy, Nothing
<1> HIDE DEF q
<1>2. /\ ime' \in ImeStates
      /\ ime'.proxy = ime.proxy /\ ime'.owner = ime.owner /\ ime'.editor = ime.editor
      /\ ime'.registry = ime.registry /\ ime'.editors = ime.editors /\ ime'.hung = ime.hung
      /\ \/ ime'.bound = ime.bound /\ ime'.composing = ime.composing /\ ime.bound.proxy # r.proxy
         \/ ime'.bound = Unbound /\ ime'.composing = FALSE /\ ime.bound.proxy = r.proxy
  BY UnboundFields DEF ReapProxy, Detached, Inv, Sound
<1>3. Sound(ime')
  <2>1. CASE ime'.bound = ime.bound
    <3>1. Numbered(ime') /\ Apart(ime')
      BY <1>2, <2>1 DEF Inv, Sound, Numbered, Apart
    <3>2. Registered(ime')
      BY <1>2, <2>1 DEF Inv, Sound, Registered
    <3>3. Linked(ime') /\ Owned(ime')
      BY <1>2, <2>1 DEF Inv, Sound, Linked, BoundAs, Owned
    <3>4. QED
      BY <1>2, <3>1, <3>2, <3>3 DEF Sound, Inv
  <2>2. CASE ime'.bound = Unbound
    BY <1>2, <2>2, Unbinds DEF Inv
  <2>3. QED
    BY <1>2, <2>1, <2>2
<1>4. UNCHANGED <<ui, cb, preview, tail, surface, terminal, front, destroyed, races>>
  BY DEF ReapProxy
<1>5. Sound(ime)'
  <2>1. Numbered(ime)'
    BY <1>1, <1>3, <1>4 DEF Sound, Numbered
  <2>2. Apart(ime)'
    BY <1>1, <1>3, <1>4 DEF Sound, Apart
  <2>3. Registered(ime)'
    BY <1>3, <1>4 DEF Sound, Registered
  <2>4. Linked(ime)'
    <3>1. BoundAs(q.proxy, q.editor, ime')
      <4>1. CASE ime'.bound = ime.bound /\ ime.bound.proxy # r.proxy
        BY <1>1, <4>1 DEF Inv, Sound, Linked, BoundAs
      <4>2. CASE ime'.bound = Unbound
        BY <1>1, <4>2 DEF Unbound, BoundAs
      <4>3. QED
        BY <1>2, <4>1, <4>2
    <3>2. QED
      BY <1>1, <1>3, <1>4, <3>1 DEF Sound, Linked, BoundAs
  <2>5. Owned(ime)'
    BY <1>3, <1>4 DEF Sound, Owned
  <2>6. QED
    BY <1>2, <1>3, <2>1, <2>2, <2>3, <2>4, <2>5 DEF Sound
<1>6. TypeOK'
  BY <1>1, <1>2, <1>4 DEF Inv, TypeOK
<1>7. Unmade' /\ Threads'
  BY <1>2, <1>4 DEF Inv, Unmade, Threads, Unbound
<1>8. EditorsAccounted'
  <2>1. \A e \in Editors : Held(e) <=> Held(e)'
    BY <1>1, <1>2, <1>4 DEF Held
  <2>2. QED
    BY <1>2, <1>4, <1>5, <1>6, <2>1, HoldersKept DEF Unbound
<1>9. Composed'
  <2>1. CASE ime'.bound = ime.bound /\ ime'.composing = ime.composing /\ ime.bound.proxy # r.proxy
    <3>1. ime.bound.editor # Nothing => ime.bound.proxy # Nothing
      BY DEF Inv, Sound, Linked
    <3>2. QED
      BY <1>1, <1>2, <1>4, <2>1, <3>1 DEF Inv, Composed, Composes
  <2>2. CASE ime.bound.proxy = r.proxy
    <3>1. r.proxy # Nothing
      BY DEF ReapProxy
    <3>2. ime.bound.editor = r.editor /\ r.editor # Nothing
      BY <2>2, <3>1 DEF Inv, Sound, Linked, BoundAs
    <3>4. ime.registry[r.editor] = NoHost
      BY <3>2, ReaperHolds
    <3>5. NoHost # front
      BY ImeAssumption DEF Inv, TypeOK
    <3>6. ASSUME NEW n, Composes(front, n), n > 0, front \notin races.crossed
          PROVE  FALSE
      BY <2>2, <3>2, <3>4, <3>5, <3>6 DEF Composes
    <3>7. QED
      BY <1>4, <3>6 DEF Inv, Composed, Composes
  <2>3. QED
    BY <1>2, <2>1, <2>2
<1>10. QED
  BY <1>5, <1>6, <1>7, <1>8, <1>9 DEF Inv

(* An editor is destroyed once more.                                       *)
LEMMA DestroyedTyped ==
    ASSUME TypeOK, NEW e \in Editors \cup {Nothing},
           destroyed' = IF e = Nothing THEN destroyed ELSE [destroyed EXCEPT ![e] = @ + 1]
    PROVE  /\ destroyed' \in [Editors -> Nat]
           /\ \A d \in Editors : destroyed'[d] = IF d = e THEN destroyed[d] + 1 ELSE destroyed[d]
BY ImeAssumption DEF TypeOK, Editors, Nothing

(* An editor that nobody holds any more, and what those who held it left.  *)
LEMMA EditorEnds ==
    ASSUME Inv, NEW e \in Editors, e <= ime.editors,
           destroyed'[e] = destroyed[e] + 1, ~Held(e)', races.taken \subseteq races'.taken,
           Held(e) \/ e \in races'.taken,
           ime'.registry[e] = NoHost, ime'.bound.editor = e => ime'.bound.lost
    PROVE  /\ ~Held(e)' => destroyed'[e] > 0
           /\ e \notin races'.taken =>
                 /\ destroyed'[e] = IF Held(e)' THEN 0 ELSE 1
                 /\ (destroyed'[e] = 1 /\ ime'.bound.editor = e) => ime'.bound.lost
                 /\ destroyed'[e] = 1 => ime'.registry[e] = NoHost
<1>1. destroyed[e] \in Nat
  BY ThreadTypes DEF Inv
<1>2. e \notin races'.taken => destroyed[e] = 0
  <2>1. e \in 1..ime.editors
    BY ImeTypes, ImeAssumption DEF Inv, Sound, Editors
  <2>2. QED
    BY <2>1 DEF Inv, EditorsAccounted
<1>3. QED
  BY <1>1, <1>2

(* ReapEditor keeps the invariant.                                         *)
LEMMA ReapEditorKeeps ==
    ASSUME Inv, NEW r \in reapers, ReapEditor(r)
    PROVE  Inv'
<1>1. /\ UNCHANGED <<ime, preview, tail, surface, terminal, front, ui, cb, races>>
      /\ reapers' = reapers \ {r} /\ r.proxy = Nothing /\ r.editor \in Editors \cup {Nothing}
  BY ThreadTypes DEF ReapEditor, Inv
<1>2. /\ destroyed' \in [Editors -> Nat]
      /\ \A d \in Editors : destroyed'[d] = IF d = r.editor THEN destroyed[d] + 1 ELSE destroyed[d]
  BY <1>1, DestroyedTyped DEF ReapEditor, Inv
<1>3. TypeOK'
  BY <1>1, <1>2 DEF Inv, TypeOK
<1>4. Sound(ime)'
  <2>1. Numbered(ime)'
    BY <1>1 DEF Inv, Sound, Numbered
  <2>2. Apart(ime)'
    BY <1>1 DEF Inv, Sound, Apart
  <2>3. Registered(ime)'
    BY <1>1 DEF Inv, Sound, Registered
  <2>4. Linked(ime)'
    BY <1>1 DEF Inv, Sound, Linked, BoundAs
  <2>5. Owned(ime)'
    BY <1>1 DEF Inv, Sound, Owned
  <2>6. QED
    BY <1>1, <2>1, <2>2, <2>3, <2>4, <2>5 DEF Inv, Sound
<1>5. Threads' /\ Composed'
  BY <1>1 DEF Inv, Threads, Composed, Composes
<1>6. r.editor # Nothing => r.editor <= ime.editors /\ r.editor \in Nat /\ ime.editors \in Nat
  BY <1>1, ImeTypes DEF Inv, Sound, Numbered
<1>7. Unmade'
  <2>1. \A e \in Editors : e \in Nat /\ e # Nothing
    BY ImeTypes DEF Inv, Sound
  <2>2. \A e \in Editors : e > ime.editors => e # r.editor
    BY <1>6, <2>1
  <2>3. QED
    BY <1>1, <1>2, <2>2 DEF Inv, Unmade
<1>8. EditorsAccounted'
  <2> SUFFICES ASSUME NEW e \in 1..ime'.editors
               PROVE  /\ ~Held(e)' => destroyed'[e] > 0
                      /\ e \notin races'.taken =>
                            /\ destroyed'[e] = IF Held(e)' THEN 0 ELSE 1
                            /\ (destroyed'[e] = 1 /\ ime'.bound.editor = e) => ime'.bound.lost
                            /\ destroyed'[e] = 1 => ime'.registry[e] = NoHost
                      /\ ~\E g \in Hosts : ime'.editor[g] = e /\ \E q \in reapers' : q.editor = e
    BY DEF EditorsAccounted
  <2>1. e \in Editors /\ e \in Nat \ {0} /\ e # Nothing /\ e <= ime.editors
    <3>1. ime.editors <= MaxEditors /\ ime.editors \in Nat
      BY ImeAssumption DEF Inv, Sound, ImeStates
    <3>2. QED
      BY <1>1, <3>1, ImeAssumption DEF Editors, Nothing
  <2>2. ~\E g \in Hosts : ime'.editor[g] = e /\ \E q \in reapers' : q.editor = e
    BY <1>1, <2>1, HolderApart DEF Inv, Sound
  <2>3. CASE e = r.editor
    <3>1. /\ e # cb.editor /\ ime.registry[e] = NoHost
          /\ \A h \in Hosts : ime.editor[h] # e
      BY <2>1, <2>3, ReaperHolds
    <3>2. ~Held(e)' /\ Held(e)
      BY <1>1, <2>1, <2>3, <3>1 DEF Held, Inv, Sound, Apart
    <3>3. ime.bound.editor = e => ime.bound.lost
      BY <1>1, <2>1, <2>3 DEF Inv, Sound, Linked, BoundAs
    <3>4. destroyed'[e] = destroyed[e] + 1
      BY <1>2, <2>1, <2>3
    <3>5. QED
      BY <1>1, <2>1, <2>2, <3>1, <3>2, <3>3, <3>4, EditorEnds
  <2>4. CASE e # r.editor
    <3>1. Held(e) <=> Held(e)'
      BY <1>1, <2>4 DEF Held
    <3>2. destroyed'[e] = destroyed[e]
      BY <1>2, <2>1, <2>4
    <3>3. QED
      BY <1>1, <1>3, <1>4, <2>1, <2>2, <3>1, <3>2, EditorKept
  <2>5. QED
    BY <2>3, <2>4
<1>9. QED
  BY <1>3, <1>4, <1>5, <1>7, <1>8 DEF Inv

(* A host that drops a proxy which is not bound any more, or not by        *)
(* itself, keeps the links.                                                *)
LEMMA Drops ==
    ASSUME NEW s, Sound(s), NEW h \in Hosts, NEW t \in ImeStates,
           t.proxy = [s.proxy EXCEPT ![h] = Nothing], t.owner = s.owner, t.editor = s.editor,
           t.registry = s.registry, t.editors = s.editors, t.hung = s.hung,
           t.bound \in {s.bound, Unbound},
           (s.editor[h] # Nothing /\ s.editor[h] = t.bound.editor) => t.bound.lost
    PROVE  Sound(t)
<1>1. \A g \in Hosts : t.proxy[g] = IF g = h THEN Nothing ELSE s.proxy[g]
  <2>1. s.proxy \in [Hosts -> Nat]
    BY ImeTypes DEF Sound
  <2>2. QED
    BY <2>1
<1>2. Apart(t) /\ Registered(t)
  <2>1. Apart(t)
    BY DEF Sound, Apart
  <2>2. Registered(t)
    BY DEF Sound, Registered
  <2>3. QED
    BY <2>1, <2>2
<1>3. t.bound = s.bound \/ (t.bound.editor = Nothing /\ t.bound.proxy = Nothing)
  BY DEF Unbound
<1>4. Numbered(t)
  <2>1. s.editors \in Nat
    BY ImeTypes DEF Sound
  <2>2. QED
    BY <1>3, <2>1 DEF Sound, Numbered, Nothing
<1>5. Linked(t)
  BY <1>1, <1>3 DEF Sound, Linked, BoundAs
<1>6. Owned(t)
  BY <1>1, <1>3 DEF Sound, Owned
<1>7. QED
  BY <1>2, <1>4, <1>5, <1>6 DEF Sound

(* The fields after a proxy is dropped.                                    *)
LEMMA DropFields ==
    ASSUME NEW s \in ImeStates, NEW h \in Hosts
    PROVE  LET t == [s EXCEPT !.proxy[h] = Nothing]
           IN  /\ t \in ImeStates /\ t.proxy = [s.proxy EXCEPT ![h] = Nothing]
               /\ t.bound = s.bound /\ t.composing = s.composing
               /\ t.owner = s.owner /\ t.editor = s.editor
               /\ t.registry = s.registry /\ t.editors = s.editors /\ t.hung = s.hung
BY ImeAssumption DEF ImeStates, Nothing

(* The UI thread goes from one step of a detach to the next.               *)
LEMMA SoundMoved ==
    ASSUME Sound(ime'), UNCHANGED <<cb, reapers>>, ui.at # "free", ui'.at # "free"
    PROVE  Sound(ime)'
<1> USE DEF Sound
<1>1. Numbered(ime)'
  BY DEF Numbered
<1>2. Apart(ime)'
  BY DEF Apart
<1>3. Registered(ime)'
  BY DEF Registered
<1>4. Linked(ime)'
  BY DEF Linked, BoundAs
<1>5. Owned(ime)'
  BY DEF Owned
<1>6. QED
  BY <1>1, <1>2, <1>3, <1>4, <1>5

(* DetachOwned keeps the invariant.                                        *)
LEMMA DetachOwnedKeeps ==
    ASSUME Inv, DetachOwned
    PROVE  Inv'
<1> DEFINE h == ui.host
<1>1. /\ h \in Hosts /\ ui \in UiStates /\ ui.at = "detach" /\ ime \in ImeStates
      /\ UNCHANGED <<preview, tail, surface, terminal, front, cb, reapers, destroyed, races>>
  BY DEF DetachOwned, Inv, Threads, TypeOK
<1>2. CASE ime.proxy[h] # Nothing /\ ui.owner
  <2>1. Call(h, ime) = ime
    BY <1>1, <1>2, CallReturns DEF Inv, Threads
  <2>2. /\ ime' = ime /\ ui' \in UiStates /\ ui'.at = "detaching" /\ ui'.host = h
        /\ ui'.proxy = ime.proxy[h]
    <3>1. ime' = ime /\ ui' = [ui EXCEPT !.at = "detaching", !.proxy = ime.proxy[h]]
      BY <1>2, <2>1 DEF DetachOwned
    <3>2. ime.proxy[h] \in 0..MaxProxies
      BY <1>1 DEF ImeStates
    <3>3. QED
      BY <1>1, <3>1, <3>2 DEF UiStates, InCall
  <2>3. TypeOK'
    BY <1>1, <2>2 DEF Inv, TypeOK
  <2>4. Sound(ime)' /\ Unmade' /\ EditorsAccounted'
    BY <1>1, <2>2, QuietStep DEF SameLinks
  <2>5. Threads'
    BY <1>1, <2>2 DEF Inv, Threads
  <2>6. Composed'
    BY <1>1, <2>2, QuietText DEF SameLinks
  <2>7. QED
    BY <2>3, <2>4, <2>5, <2>6 DEF Inv
<1>3. CASE ime.proxy[h] = Nothing \/ ~ui.owner
  <2>1. ime' = [ime EXCEPT !.proxy[h] = Nothing] /\ ui' = Destroying
    BY <1>3, ThreadTypes DEF DetachOwned, Inv
  <2>2. ui' \in UiStates /\ ui'.at = "destroy" /\ ui'.host = h
    BY <1>1, <2>1, UiIdleTyped DEF Destroying, UiStates
  <2>3. /\ ime' \in ImeStates /\ ime'.proxy = [ime.proxy EXCEPT ![h] = Nothing]
        /\ ime'.bound = ime.bound /\ ime'.composing = ime.composing
        /\ ime'.owner = ime.owner /\ ime'.editor = ime.editor
        /\ ime'.registry = ime.registry /\ ime'.editors = ime.editors /\ ime'.hung = ime.hung
    BY <1>1, <2>1, DropFields
  <2>4. (ime.editor[h] # Nothing /\ ime.editor[h] = ime.bound.editor) => ime.bound.lost
    <3>1. SUFFICES ASSUME ime.editor[h] # Nothing, ime.editor[h] = ime.bound.editor, ~ime.bound.lost
                   PROVE  FALSE
      OBVIOUS
    <3>2. ime.registry[ime.editor[h]] = h
      BY <1>1, <3>1 DEF Inv, Sound, Registered
    <3>3. ime.proxy[h] = ime.bound.proxy /\ ime.bound.proxy # Nothing
      BY <1>1, <3>1 DEF Inv, Sound, Linked, BoundAs
    <3>4. ime.owner = h
      BY <1>1, <3>1, <3>2, <3>3 DEF Inv, Sound, Owned
    <3>5. ~ui.owner
      BY <1>3, <3>3
    <3>6. QED
      BY <1>1, <3>4, <3>5 DEF Inv, Threads
  <2>5. Sound(ime)'
    <3>1. Sound(ime')
      BY <1>1, <2>3, <2>4, Drops DEF Inv
    <3>2. QED
      BY <1>1, <2>2, <3>1, SoundMoved
  <2>6. TypeOK'
    BY <1>1, <2>2, <2>3 DEF Inv, TypeOK
  <2>7. ime'.proxy[h] = Nothing /\ \A g \in Hosts : ime'.proxy[g] \in {ime.proxy[g], Nothing}
    BY <1>1, <2>3, ImeTypes
  <2>8. Threads'
    BY <1>1, <2>2, <2>7 DEF Inv, Threads
  <2>9. Unmade' /\ EditorsAccounted'
    <3>1. Unmade'
      BY <1>1, <2>3 DEF Inv, Unmade
    <3>2. \A e \in Editors : Held(e) <=> Held(e)'
      BY <1>1, <2>3 DEF Held
    <3>3. EditorsAccounted'
      BY <1>1, <2>3, <2>5, <2>6, <3>2, HoldersKept
    <3>4. QED
      BY <3>1, <3>3
  <2>10. Composed'
    <3>1. ime.bound.editor # Nothing => ime.bound.proxy # Nothing
      BY DEF Inv, Sound, Linked
    <3>2. QED
      BY <1>1, <2>3, <2>7, <3>1 DEF Inv, Composed, Composes
  <2>11. QED
    BY <2>5, <2>6, <2>8, <2>9, <2>10 DEF Inv
<1>4. QED
  BY <1>2, <1>3

(* DetachReturns keeps the invariant.                                      *)
LEMMA DetachReturnsKeeps ==
    ASSUME Inv, DetachReturns
    PROVE  Inv'
<1> DEFINE h == ui.host
           d == Detached(ui.proxy, ime)
<1>1. /\ h \in Hosts /\ ui \in UiStates /\ ui.at = "detaching" /\ ime \in ImeStates
      /\ ime.composing = FALSE /\ ui' = Destroying /\ ime' = [d EXCEPT !.proxy[h] = Nothing]
      /\ UNCHANGED <<preview, tail, surface, terminal, front, cb, reapers, destroyed, races>>
  BY ImeTypes DEF DetachReturns, Inv, Sound, Threads, TypeOK
<1>2. ui' \in UiStates /\ ui'.at = "destroy" /\ ui'.host = h
  BY <1>1, UiIdleTyped DEF Destroying, UiStates
<1>3. /\ d \in ImeStates /\ d.composing = FALSE
      /\ d.proxy = ime.proxy /\ d.owner = ime.owner /\ d.editor = ime.editor
      /\ d.registry = ime.registry /\ d.editors = ime.editors /\ d.hung = ime.hung
      /\ \/ d.bound = Unbound
         \/ d.bound = ime.bound /\ (ui.proxy # Nothing => ime.bound.proxy # ui.proxy)
  BY <1>1, UnboundFields DEF Detached
<1> HIDE DEF d
<1>4. /\ ime' \in ImeStates /\ ime'.proxy = [ime.proxy EXCEPT ![h] = Nothing]
      /\ ime'.bound = d.bound /\ ime'.composing = FALSE
      /\ ime'.owner = ime.owner /\ ime'.editor = ime.editor
      /\ ime'.registry = ime.registry /\ ime'.editors = ime.editors /\ ime'.hung = ime.hung
  BY <1>1, <1>3, DropFields
<1>5. (ime.editor[h] # Nothing /\ ime.editor[h] = ime'.bound.editor) => ime'.bound.lost
  <2>1. CASE d.bound = Unbound
    BY <1>4, <2>1 DEF Unbound
  <2>2. CASE d.bound = ime.bound /\ (ui.proxy # Nothing => ime.bound.proxy # ui.proxy)
    <3>1. ime.proxy[h] \in {Nothing, ui.proxy}
      BY <1>1 DEF Inv, Threads
    <3>2. ime.bound.editor # Nothing => ime.bound.proxy # Nothing
      BY DEF Inv, Sound, Linked
    <3>3. QED
      BY <1>1, <1>4, <2>2, <3>1, <3>2 DEF Inv, Sound, Linked, BoundAs
  <2>3. QED
    BY <1>3, <2>1, <2>2
<1>6. Sound(ime)'
  <2>1. Sound(ime) /\ ime'.bound \in {ime.bound, Unbound}
    BY <1>3, <1>4 DEF Inv
  <2>2. Sound(ime')
    BY <1>1, <1>4, <1>5, <2>1, Drops
  <2>3. QED
    BY <1>1, <1>2, <2>2, SoundMoved
<1>7. TypeOK'
  BY <1>1, <1>2, <1>4 DEF Inv, TypeOK
<1>8. Threads'
  <2>0. ime.proxy \in [Hosts -> Nat]
    BY <1>1, ImeTypes
  <2>1. ime'.proxy[h] = Nothing
    BY <1>1, <1>4, <2>0
  <2>2. QED
    BY <1>1, <1>2, <2>1 DEF Inv, Threads
<1>9. Unmade' /\ EditorsAccounted'
  <2>1. Unmade'
    BY <1>1, <1>4 DEF Inv, Unmade
  <2>2. \A e \in Editors : Held(e) <=> Held(e)'
    BY <1>1, <1>4 DEF Held
  <2>3. ime'.bound.editor = Nothing \/ ime'.bound = ime.bound
    BY <1>3, <1>4 DEF Unbound
  <2>4. EditorsAccounted'
    BY <1>1, <1>4, <1>6, <1>7, <2>2, <2>3, HoldersKept
  <2>5. QED
    BY <2>1, <2>4
<1>10. Composed'
  BY <1>1 DEF Inv, Composed, Composes
<1>11. QED
  BY <1>6, <1>7, <1>8, <1>9, <1>10 DEF Inv

(* The fields after an editor's callbacks are unregistered.                *)
LEMMA UnregisterFields ==
    ASSUME NEW s \in ImeStates, NEW e \in Editors \cup {Nothing}
    PROVE  LET t == Unregister(e, s)
           IN  /\ t \in ImeStates /\ t.proxy = s.proxy /\ t.bound = s.bound
               /\ t.composing = s.composing /\ t.owner = s.owner /\ t.editor = s.editor
               /\ t.editors = s.editors /\ t.hung = s.hung
               /\ \A d \in Editors : t.registry[d] = IF d = e THEN NoHost ELSE s.registry[d]
<1>1. Nothing \notin Editors
  BY ImeAssumption DEF Editors, Nothing
<1>2. QED
  BY <1>1 DEF Unregister, ImeStates

(* UnregisterEditor keeps the invariant.                                   *)
LEMMA UnregisterEditorKeeps ==
    ASSUME Inv, UnregisterEditor
    PROVE  Inv'
<1> DEFINE h == ui.host
           e == ime.editor[h]
<1>1. /\ h \in Hosts /\ ui \in UiStates /\ ui.at = "destroy" /\ ime \in ImeStates
      /\ e \in Editors \cup {Nothing} /\ ime.proxy[h] = Nothing
      /\ UNCHANGED <<preview, tail, surface, terminal, front, cb, reapers, destroyed, races>>
  BY ImeTypes DEF UnregisterEditor, Inv, Threads, TypeOK, Sound
<1>2. /\ ui' \in UiStates /\ ui'.at = "free" /\ ui'.host = h /\ ui'.editor = e
  BY <1>1 DEF UnregisterEditor, UiStates, ImeStates
<1>3. /\ ime' \in ImeStates /\ ime'.proxy = ime.proxy /\ ime'.bound = ime.bound
      /\ ime'.composing = ime.composing /\ ime'.owner = ime.owner /\ ime'.editor = ime.editor
      /\ ime'.editors = ime.editors /\ ime'.hung = ime.hung
      /\ \A d \in Editors : ime'.registry[d] = IF d = e THEN NoHost ELSE ime.registry[d]
  BY <1>1, UnregisterFields DEF UnregisterEditor
<1>4. /\ NoHost \notin Hosts /\ Nothing \notin Editors
      /\ \A g \in Hosts : ime.editor[g] \in Editors \cup {Nothing}
      /\ ime.bound.editor \in Editors \cup {Nothing}
      /\ ime.registry \in [Editors -> Hosts \cup {NoHost}]
  BY <1>1, ImeTypes
<1>5. Sound(ime)'
  <2>1. Numbered(ime)'
    BY <1>1, <1>2, <1>3 DEF Inv, Sound, Numbered
  <2>2. Apart(ime)'
    BY <1>1, <1>3 DEF Inv, Sound, Apart
  <2>3. Registered(ime)'
    <3>1. ASSUME NEW g \in Hosts, ime.editor[g] # Nothing
          PROVE  ime'.registry[ime.editor[g]] \in (IF g = h THEN {h, NoHost} ELSE {g})
      <4>1. ime.registry[ime.editor[g]] = g
        BY <1>1, <3>1 DEF Inv, Sound, Registered
      <4>2. g # h => ime.editor[g] # e
        BY <1>1, <3>1 DEF Inv, Sound, Apart
      <4>3. QED
        BY <1>3, <1>4, <3>1, <4>1, <4>2
    <3>2. ASSUME NEW d \in Editors, ime'.registry[d] # NoHost
          PROVE  ime'.editor[ime'.registry[d]] = d \/ (cb'.editor = d /\ cb'.host = ime'.registry[d])
      BY <1>1, <1>3, <3>2 DEF Inv, Sound, Registered
    <3>3. e # Nothing => ime'.registry[e] = NoHost
      BY <1>1, <1>3
    <3>4. QED
      BY <1>2, <1>3, <3>1, <3>2, <3>3 DEF Registered
  <2>4. Linked(ime)'
    BY <1>1, <1>3 DEF Inv, Sound, Linked, BoundAs
  <2>5. Owned(ime)'
    BY <1>1, <1>3, <1>4 DEF Inv, Sound, Owned
  <2>6. QED
    BY <1>1, <1>3, <2>1, <2>2, <2>3, <2>4, <2>5 DEF Inv, Sound
<1>6. TypeOK'
  BY <1>1, <1>2, <1>3 DEF Inv, TypeOK
<1>7. Threads'
  BY <1>1, <1>2, <1>3 DEF Inv, Threads
<1>8. Unmade' /\ EditorsAccounted'
  <2>1. Unmade'
    BY <1>1, <1>3 DEF Inv, Unmade
  <2>2. \A d \in Editors : Held(d) <=> Held(d)'
    BY <1>1, <1>3 DEF Held
  <2>3. EditorsAccounted'
    BY <1>1, <1>3, <1>5, <1>6, <2>2, HoldersKept
  <2>4. QED
    BY <2>1, <2>3
<1>9. Composed'
  <2>1. ASSUME e = ime.bound.editor, e # Nothing
        PROVE  /\ \A g \in Hosts : ime.proxy[g] # ime.bound.proxy
               /\ cb.proxy # ime.bound.proxy
               /\ \A r \in reapers : r.proxy # ime.bound.proxy
    <3>1. ime.bound.proxy # Nothing
      BY <2>1 DEF Inv, Sound, Linked
    <3>2. \A g \in Hosts : ime.editor[g] = e => g = h
      BY <1>1, <2>1 DEF Inv, Sound, Apart
    <3>3. cb.editor # e /\ \A r \in reapers : r.editor # e
      BY <1>1, <2>1 DEF Inv, Sound, Apart
    <3>4. QED
      BY <1>1, <2>1, <3>1, <3>2, <3>3 DEF Inv, Sound, Linked, BoundAs
  <2>2. CASE e = ime.bound.editor /\ e # Nothing
    BY <1>1, <1>3, <1>4, <2>1, <2>2 DEF Inv, Composed, Composes
  <2>3. CASE e # ime.bound.editor \/ e = Nothing
    BY <1>1, <1>3, <1>4, <2>3 DEF Inv, Composed, Composes
  <2>4. QED
    BY <2>2, <2>3
<1>10. QED
  BY <1>5, <1>6, <1>7, <1>8, <1>9 DEF Inv

(* The fields after a host forgets its editor and the ownership.           *)
LEMMA ForgottenFields ==
    ASSUME NEW s \in ImeStates, NEW h \in Hosts
    PROVE  LET t == Forgotten(h, s)
           IN  /\ t \in ImeStates /\ t.proxy = s.proxy /\ t.bound = s.bound
               /\ t.composing = s.composing /\ t.owner = s.owner /\ t.registry = s.registry
               /\ t.editors = s.editors /\ t.hung = s.hung
               /\ t.editor = [s.editor EXCEPT ![h] = Nothing]
<1>1. Nothing \in 0..MaxEditors
  BY ImeAssumption DEF Nothing
<1>2. QED
  BY <1>1 DEF Forgotten, ImeStates

(* Nobody else loses the ownership.                                        *)
LEMMA ReleaseOwnerFields ==
    ASSUME NEW s \in ImeStates, NEW h \in Hosts
    PROVE  LET t == ReleaseOwner(h, s)
           IN  /\ t \in ImeStates /\ t.proxy = s.proxy /\ t.bound = s.bound
               /\ t.composing = s.composing /\ t.registry = s.registry /\ t.editor = s.editor
               /\ t.editors = s.editors /\ t.hung = s.hung
               /\ t.owner = IF s.owner = h THEN NoHost ELSE s.owner
BY DEF ReleaseOwner, ImeStates

(* DestroyEditor keeps the invariant.                                      *)
LEMMA DestroyEditorKeeps ==
    ASSUME Inv, NEW last \in BOOLEAN, DestroyEditor(last)
    PROVE  Inv'
<1> DEFINE h == ui.host
           mine == ime.editor[h]
<1>1. /\ h \in Hosts /\ ui.at = "free" /\ ime \in ImeStates /\ ime.proxy[h] = Nothing
      /\ mine \in Editors \cup {Nothing} /\ ui.editor \in Editors \cup {Nothing}
      /\ ui' = UiIdle /\ ui'.at = "idle"
      /\ UNCHANGED <<preview, tail, front, cb, reapers, races>>
  <2>1. h \in Hosts /\ ui.at = "free" /\ ime \in ImeStates /\ ime.proxy[h] = Nothing
    BY DEF DestroyEditor, Inv, Threads, Sound
  <2>2. mine \in Editors \cup {Nothing} /\ ui.editor \in Editors \cup {Nothing}
    BY <2>1, ImeTypes, ThreadTypes DEF Inv
  <2>3. QED
    BY <2>1, <2>2, UiIdleTyped DEF DestroyEditor
<1>2. PICK e \in {ui.editor, mine} :
        destroyed' = IF e = Nothing THEN destroyed ELSE [destroyed EXCEPT ![e] = @ + 1]
  BY DEF DestroyEditor
<1>3. \/ ui.editor = mine /\ e = mine
      \/ mine = Nothing /\ (e = Nothing \/ e \in races.taken)
  BY <1>1 DEF Inv, Threads
<1>4. /\ ime' \in ImeStates /\ ime'.proxy = ime.proxy /\ ime'.bound = ime.bound
      /\ ime'.composing = ime.composing /\ ime'.registry = ime.registry
      /\ ime'.editors = ime.editors /\ ime'.hung = ime.hung
      /\ ime'.editor = [ime.editor EXCEPT ![h] = Nothing]
      /\ ime'.owner = IF ime.owner = h THEN NoHost ELSE ime.owner
  <2> DEFINE t == Forgotten(h, ime)
  <2>1. /\ t \in ImeStates /\ t.proxy = ime.proxy /\ t.bound = ime.bound
        /\ t.composing = ime.composing /\ t.owner = ime.owner /\ t.registry = ime.registry
        /\ t.editors = ime.editors /\ t.hung = ime.hung
        /\ t.editor = [ime.editor EXCEPT ![h] = Nothing]
    BY <1>1, ForgottenFields
  <2>2. ime' = ReleaseOwner(h, t)
    BY DEF DestroyEditor
  <2> HIDE DEF t
  <2>3. QED
    BY <1>1, <2>1, <2>2, ReleaseOwnerFields
<1>5. /\ NoHost \notin Hosts /\ Nothing \notin Editors
      /\ \A g \in Hosts : ime.editor[g] \in Editors \cup {Nothing}
      /\ \A g \in Hosts : ime'.editor[g] = IF g = h THEN Nothing ELSE ime.editor[g]
      /\ ime.registry \in [Editors -> Hosts \cup {NoHost}]
      /\ ime.bound.editor \in Editors \cup {Nothing}
  <2>1. /\ NoHost \notin Hosts /\ Nothing \notin Editors
        /\ ime.editor \in [Hosts -> Editors \cup {Nothing}]
        /\ ime.registry \in [Editors -> Hosts \cup {NoHost}]
        /\ ime.bound.editor \in Editors \cup {Nothing}
    BY <1>1, ImeTypes
  <2>2. QED
    BY <1>1, <1>4, <2>1
<1>6. mine # Nothing => ime.registry[mine] = NoHost
  BY <1>1, <1>3 DEF Inv, Sound, Registered
<1>7. Sound(ime)'
  <2>1. Numbered(ime)'
    <3>1. ime.editors \in Nat
      BY <1>1, ImeTypes
    <3>2. QED
      BY <1>1, <1>4, <1>5, <3>1 DEF Inv, Sound, Numbered, Nothing
  <2>2. Apart(ime)'
    BY <1>1, <1>5 DEF Inv, Sound, Apart
  <2>3. Registered(ime)'
    <3>1. ASSUME NEW g \in Hosts, ime'.editor[g] # Nothing
          PROVE  ime'.registry[ime'.editor[g]] = g
      <4>1. g # h /\ ime'.editor[g] = ime.editor[g] /\ ime.editor[g] # Nothing
        BY <1>5, <3>1
      <4>2. ime.registry[ime.editor[g]] = g
        BY <4>1 DEF Inv, Sound, Registered
      <4>3. QED
        BY <1>4, <4>1, <4>2
    <3>2. ASSUME NEW d \in Editors, ime'.registry[d] # NoHost
          PROVE  ime'.editor[ime'.registry[d]] = d \/ (cb'.editor = d /\ cb'.host = ime'.registry[d])
      <4>1. ime.editor[ime.registry[d]] = d \/ (cb.editor = d /\ cb.host = ime.registry[d])
        BY <1>4, <3>2 DEF Inv, Sound, Registered
      <4>2. ime.registry[d] \in Hosts
        BY <1>4, <1>5, <3>2
      <4>3. d # mine /\ d # Nothing
        BY <1>4, <1>5, <1>6, <3>2
      <4>4. QED
        BY <1>1, <1>4, <1>5, <4>1, <4>2, <4>3
    <3>3. QED
      BY <1>1, <3>1, <3>2 DEF Registered
  <2>4. Linked(ime)'
    BY <1>1, <1>4, <1>5 DEF Inv, Sound, Linked, BoundAs
  <2>5. Owned(ime)'
    BY <1>1, <1>4, <1>5 DEF Inv, Sound, Owned
  <2>6. QED
    BY <1>4, <2>1, <2>2, <2>3, <2>4, <2>5 DEF Inv, Sound
<1>8. /\ destroyed' \in [Editors -> Nat]
      /\ \A d \in Editors : destroyed'[d] = IF d = e THEN destroyed[d] + 1 ELSE destroyed[d]
  BY <1>1, <1>2, DestroyedTyped DEF Inv
<1>9. TypeOK'
  <2>1. /\ surface' \in [Hosts -> {"none", "hidden", "shown"}]
        /\ terminal' \in [Hosts -> BOOLEAN]
    BY <1>1 DEF DestroyEditor, Inv, TypeOK
  <2>2. QED
    BY <1>1, <1>4, <1>8, <2>1, UiIdleTyped DEF Inv, TypeOK
<1>10. Threads'
  BY <1>1, <1>4 DEF Inv, Threads
<1>11. Unmade'
  <2>1. \A d \in Editors : d \in Nat /\ d # Nothing
    BY <1>1, ImeTypes
  <2>2. e # Nothing => e <= ime.editors /\ ime.editors \in Nat
    BY <1>1, ImeTypes DEF Inv, Sound, Numbered
  <2>3. \A d \in Editors : d > ime.editors => d # e
    BY <2>1, <2>2
  <2>4. QED
    BY <1>1, <1>4, <1>8, <2>3 DEF Inv, Unmade
<1>12. EditorsAccounted'
  <2> SUFFICES ASSUME NEW d \in 1..ime'.editors
               PROVE  /\ ~Held(d)' => destroyed'[d] > 0
                      /\ d \notin races'.taken =>
                            /\ destroyed'[d] = IF Held(d)' THEN 0 ELSE 1
                            /\ (destroyed'[d] = 1 /\ ime'.bound.editor = d) => ime'.bound.lost
                            /\ destroyed'[d] = 1 => ime'.registry[d] = NoHost
                      /\ ~\E g \in Hosts : ime'.editor[g] = d /\ \E q \in reapers' : q.editor = d
    BY DEF EditorsAccounted
  <2>1. d \in Editors /\ d \in Nat \ {0} /\ d # Nothing /\ d <= ime.editors
    <3>1. ime.editors <= MaxEditors /\ ime.editors \in Nat
      BY <1>1, ImeAssumption DEF ImeStates
    <3>2. QED
      BY <1>4, <3>1, ImeAssumption DEF Editors, Nothing
  <2>2. ~\E g \in Hosts : ime'.editor[g] = d /\ \E q \in reapers' : q.editor = d
    <3>1. ~\E g \in Hosts : ime.editor[g] = d /\ \E q \in reapers : q.editor = d
      BY <2>1, HolderApart DEF Inv, Sound
    <3>2. QED
      BY <1>1, <1>5, <2>1, <3>1
  <2>3. CASE d = e /\ e = mine
    <3>1. Held(d) /\ ~Held(d)'
      BY <1>1, <1>5, <2>1, <2>3 DEF Held, Inv, Sound, Apart
    <3>2. ime'.registry[d] = NoHost
      BY <1>4, <1>6, <2>1, <2>3
    <3>3. ime'.bound.editor = d => ime'.bound.lost
      BY <1>1, <1>4, <2>1, <2>3 DEF Inv, Sound, Linked, BoundAs
    <3>4. destroyed'[d] = destroyed[d] + 1
      BY <1>8, <2>1, <2>3
    <3>5. QED
      BY <1>1, <2>1, <2>2, <3>1, <3>2, <3>3, <3>4, EditorEnds
  <2>4. CASE d = e /\ e # mine
    <3>1. d \in races'.taken
      BY <1>1, <1>3, <2>1, <2>4
    <3>2. destroyed'[d] > 0
      BY <1>8, <2>1, <2>4, ThreadTypes DEF Inv
    <3>3. QED
      BY <2>2, <3>1, <3>2
  <2>5. CASE d # e
    <3>1. d # mine
      BY <1>3, <2>1, <2>5
    <3>2. Held(d) <=> Held(d)'
      BY <1>1, <1>5, <2>1, <3>1 DEF Held
    <3>3. destroyed'[d] = destroyed[d]
      BY <1>8, <2>1, <2>5
    <3>4. QED
      BY <1>1, <1>4, <1>7, <1>9, <2>1, <2>2, <3>2, <3>3, EditorKept
  <2>6. QED
    BY <2>3, <2>4, <2>5
<1>13. Composed'
  <2>1. \A g \in Hosts : terminal'[g] = terminal[g] \/ g = h
    BY <1>1, ThreadTypes DEF DestroyEditor, Inv
  <2>2. ASSUME ime.bound.editor # Nothing, ime.registry[ime.bound.editor] = h
        PROVE  cb.at = "release" /\ preview[h] = 0
    <3>1. ime.bound.editor \in Editors /\ ime.bound.editor # mine
      BY <1>1, <1>5, <1>6, <2>2
    <3>2. cb.editor = ime.bound.editor /\ cb.host = h
      BY <1>1, <1>5, <2>2, <3>1 DEF Inv, Sound, Registered
    <3>3. QED
      BY <2>2, <3>2 DEF Inv, Threads
  <2>3. front \in Hosts
    BY DEF Inv, TypeOK
  <2>4. CASE ime.bound.editor # Nothing /\ ime.registry[ime.bound.editor] = h
    BY <1>1, <1>4, <1>5, <2>1, <2>2, <2>3, <2>4 DEF Inv, Composed, Composes
  <2>5. CASE ime.bound.editor = Nothing \/ ime.registry[ime.bound.editor] # h
    BY <1>1, <1>4, <2>1, <2>3, <2>5 DEF Inv, Composed, Composes
  <2>6. QED
    BY <2>4, <2>5
<1>14. QED
  BY <1>7, <1>9, <1>10, <1>11, <1>12, <1>13 DEF Inv

(* TakeProxies keeps the invariant.                                        *)
LEMMA TakeProxiesKeeps ==
    ASSUME Inv, TakeProxies
    PROVE  Inv'
<1> DEFINE h == cb.host
           mine == ime.editor[h]
<1>1. /\ h \in Hosts /\ cb.at = "take" /\ ime \in ImeStates /\ cb \in CbStates
      /\ cb.editor = Nothing /\ mine \in Editors \cup {Nothing}
      /\ UNCHANGED <<surface, terminal, front, ui, reapers, destroyed>>
  BY ImeTypes DEF TakeProxies, Inv, Threads, TypeOK
<1>2. /\ cb' \in CbStates /\ cb'.at = "release" /\ cb'.host = h
      /\ cb'.proxy = ime.proxy[h] /\ cb'.editor = mine
  <2>1. ime.proxy[h] \in 0..MaxProxies /\ ime.editor[h] \in 0..MaxEditors
    BY <1>1 DEF ImeStates
  <2>2. QED
    BY <1>1, <2>1 DEF TakeProxies, CbStates
<1>3. /\ ime' \in ImeStates /\ ime'.proxy = [ime.proxy EXCEPT ![h] = Nothing]
      /\ ime'.bound = ime.bound /\ ime'.composing = ime.composing
      /\ ime'.registry = ime.registry /\ ime'.owner = ime.owner
      /\ ime'.editors = ime.editors /\ ime'.hung = ime.hung
      /\ ime'.editor = [ime.editor EXCEPT ![h] = Nothing]
  <2> DEFINE t == Forgotten(h, ime)
  <2>1. /\ t \in ImeStates /\ t.proxy = ime.proxy /\ t.bound = ime.bound
        /\ t.composing = ime.composing /\ t.owner = ime.owner /\ t.registry = ime.registry
        /\ t.editors = ime.editors /\ t.hung = ime.hung
        /\ t.editor = [ime.editor EXCEPT ![h] = Nothing]
    BY <1>1, ForgottenFields
  <2>2. ime' = [t EXCEPT !.proxy[h] = Nothing]
    BY DEF TakeProxies
  <2> HIDE DEF t
  <2>3. QED
    BY <1>1, <2>1, <2>2, DropFields
<1>4. /\ NoHost \notin Hosts /\ Nothing \notin Editors
      /\ \A g \in Hosts : ime'.editor[g] = IF g = h THEN Nothing ELSE ime.editor[g]
      /\ \A g \in Hosts : ime'.proxy[g] = IF g = h THEN Nothing ELSE ime.proxy[g]
      /\ ime.registry \in [Editors -> Hosts \cup {NoHost}]
  <2>1. /\ NoHost \notin Hosts /\ Nothing \notin Editors
        /\ ime.editor \in [Hosts -> Editors \cup {Nothing}] /\ ime.proxy \in [Hosts -> Nat]
        /\ ime.registry \in [Editors -> Hosts \cup {NoHost}]
    BY <1>1, ImeTypes
  <2>2. QED
    BY <1>1, <1>3, <2>1
<1>5. /\ races' \in RaceStates /\ races.taken \subseteq races'.taken
      /\ DetachHas(mine) => mine \in races'.taken
      /\ \A g \in Hosts \ {h} : g \in races.crossed => g \in races'.crossed
  <2>1. races' = [Reset(h) EXCEPT !.taken = IF DetachHas(cb'.editor) THEN @ \cup {cb'.editor} ELSE @]
    BY DEF TakeProxies
  <2>2. /\ Reset(h) \in RaceStates /\ Reset(h).taken = races.taken
        /\ \A g \in Hosts \ {h} : g \in races.crossed => g \in Reset(h).crossed
    BY <1>1, RacesTyped DEF Inv
  <2>3. /\ races'.crossed = Reset(h).crossed
        /\ races'.taken = IF DetachHas(mine) THEN races.taken \cup {mine} ELSE races.taken
        /\ races' = [taken |-> races'.taken, crossed |-> races'.crossed]
    BY <1>2, <2>1, <2>2 DEF RaceStates
  <2>4. DetachHas(mine) => mine \in Editors
    BY <1>1 DEF DetachHas
  <2>5. QED
    BY <2>2, <2>3, <2>4 DEF RaceStates
<1>6. /\ preview' \in [Hosts -> 0..MaxErase] /\ tail' \in [Hosts -> 0..MaxErase]
      /\ preview'[h] = 0
      /\ \A g \in Hosts \ {h} : preview'[g] = preview[g] /\ tail'[g] = tail[g]
  <2>1. 0 \in 0..MaxErase /\ preview \in [Hosts -> 0..MaxErase] /\ tail \in [Hosts -> 0..MaxErase]
    BY ImeAssumption DEF Inv, TypeOK
  <2>2. preview' = [preview EXCEPT ![h] = 0] /\ tail' = [tail EXCEPT ![h] = 0]
    BY DEF TakeProxies
  <2>3. QED
    BY <1>1, <2>1, <2>2
<1>7. Sound(ime)'
  <2>1. Numbered(ime)'
    <3>1. ime.editors \in Nat
      BY <1>1, ImeTypes
    <3>2. QED
      BY <1>1, <1>2, <1>3, <1>4, <3>1 DEF Inv, Sound, Numbered, Nothing
  <2>2. Apart(ime)'
    BY <1>1, <1>2, <1>4 DEF Inv, Sound, Apart
  <2>3. Registered(ime)'
    <3>1. \A g \in Hosts : ime'.editor[g] # Nothing =>
             ime'.registry[ime'.editor[g]]
               \in (IF ui'.at = "free" /\ ui'.host = g THEN {g, NoHost} ELSE {g})
      BY <1>1, <1>3, <1>4 DEF Inv, Sound, Registered
    <3>2. ASSUME NEW d \in Editors, ime'.registry[d] # NoHost
          PROVE  ime'.editor[ime'.registry[d]] = d \/ (cb'.editor = d /\ cb'.host = ime'.registry[d])
      <4>1. ime.editor[ime.registry[d]] = d \/ (cb.editor = d /\ cb.host = ime.registry[d])
        BY <1>3, <3>2 DEF Inv, Sound, Registered
      <4>2. ime.registry[d] \in Hosts /\ d # Nothing
        BY <1>3, <1>4, <3>2
      <4>3. QED
        BY <1>1, <1>2, <1>3, <1>4, <4>1, <4>2
    <3>3. ui'.at = "free" /\ ui'.editor # Nothing => ime'.registry[ui'.editor] = NoHost
      BY <1>1, <1>3 DEF Inv, Sound, Registered
    <3>4. QED
      BY <3>1, <3>2, <3>3 DEF Registered
  <2>4. Linked(ime)'
    BY <1>1, <1>2, <1>3, <1>4 DEF Inv, Sound, Linked, BoundAs
  <2>5. Owned(ime)'
    BY <1>1, <1>3, <1>4 DEF Inv, Sound, Owned
  <2>6. QED
    BY <1>3, <2>1, <2>2, <2>3, <2>4, <2>5 DEF Inv, Sound
<1>8. TypeOK'
  BY <1>1, <1>2, <1>3, <1>5, <1>6 DEF Inv, TypeOK
<1>9. Threads'
  <2>1. ASSUME ui'.at = "free"
        PROVE  \/ ui'.editor = ime'.editor[ui'.host]
               \/ ime'.editor[ui'.host] = Nothing /\ ui'.editor \in races'.taken
    <3>1. /\ ui.at = "free" /\ ui.host \in Hosts
          /\ \/ ui.editor = ime.editor[ui.host]
             \/ ime.editor[ui.host] = Nothing /\ ui.editor \in races.taken
      BY <1>1, <2>1 DEF Inv, Threads
    <3>2. QED
      BY <1>1, <1>4, <1>5, <3>1 DEF DetachHas
  <2>2. \A g \in Hosts : ime'.proxy[g] \in {ime.proxy[g], Nothing}
    BY <1>4
  <2>3. QED
    BY <1>1, <1>2, <1>3, <1>6, <2>1, <2>2 DEF Inv, Threads
<1>10. Unmade' /\ EditorsAccounted'
  <2>1. Unmade'
    BY <1>1, <1>3 DEF Inv, Unmade
  <2>2. ASSUME NEW d \in Editors
        PROVE  Held(d) <=> Held(d)'
    <3>1. d # Nothing
      BY <1>4
    <3>2. QED
      BY <1>1, <1>2, <1>4, <3>1 DEF Held
  <2>3. EditorsAccounted'
    BY <1>1, <1>3, <1>5, <1>7, <1>8, <2>2, HoldersKept
  <2>4. QED
    BY <2>1, <2>3
<1>11. Composed'
  <2>1. front \in Hosts /\ (ime.bound.editor # Nothing => ime.bound.proxy # Nothing)
    BY DEF Inv, Sound, Linked, TypeOK
  <2>2. CASE front = h
    BY <1>1, <1>2, <1>6, <2>2 DEF Composed, Composes
  <2>3. CASE front # h
    BY <1>1, <1>2, <1>3, <1>4, <1>5, <1>6, <2>1, <2>3 DEF Inv, Composed, Composes
  <2>4. QED
    BY <2>2, <2>3
<1>12. QED
  BY <1>7, <1>8, <1>9, <1>10, <1>11 DEF Inv

(* GiveUpOwner keeps the invariant.                                        *)
LEMMA GiveUpOwnerKeeps ==
    ASSUME Inv, GiveUpOwner
    PROVE  Inv'
<1> DEFINE h == cb.host
           e == cb.editor
           fresh == ime.owner = h /\ Live(h, ime)
           new == [proxy |-> cb.proxy, editor |-> e]
<1>1. /\ h \in Hosts /\ cb.at = "release" /\ ime \in ImeStates /\ preview[h] = 0
      /\ e \in Editors \cup {Nothing} /\ new \in Reapers
      /\ cb' = CbIdle
      /\ UNCHANGED <<preview, tail, surface, terminal, front, ui, destroyed, races>>
  <2>1. /\ h \in Hosts /\ cb.at = "release" /\ ime \in ImeStates /\ preview[h] = 0
        /\ cb \in CbStates
    BY DEF GiveUpOwner, Inv, Threads, TypeOK
  <2>2. e \in Editors \cup {Nothing}
    BY ThreadTypes DEF Inv
  <2>3. new \in Reapers
    BY <2>1 DEF CbStates, Reapers
  <2>4. QED
    BY <2>1, <2>2, <2>3 DEF GiveUpOwner
<1>2. /\ reapers \subseteq reapers' /\ reapers' \subseteq reapers \cup {new}
      /\ e # Nothing => new \in reapers'
      /\ new.editor = e /\ new.proxy = cb.proxy
  BY DEF GiveUpOwner
<1> HIDE DEF new
<1>3. /\ ime' \in ImeStates /\ ime'.proxy = ime.proxy /\ ime'.editor = ime.editor
      /\ ime'.composing = ime.composing /\ ime'.editors = ime.editors /\ ime'.hung = ime.hung
      /\ ime'.bound.editor = ime.bound.editor /\ ime'.bound.proxy = ime.bound.proxy
      /\ (ime.bound.lost \/ fresh) => ime'.bound.lost
      /\ ime'.owner = IF ime.owner = h THEN NoHost ELSE ime.owner
      /\ \A d \in Editors : ime'.registry[d] = IF d = e THEN NoHost ELSE ime.registry[d]
  <2> DEFINE s == ReleaseOwner(h, ime)
             t == Unregister(e, s)
  <2>1. /\ s \in ImeStates /\ s.proxy = ime.proxy /\ s.bound = ime.bound
        /\ s.composing = ime.composing /\ s.registry = ime.registry /\ s.editor = ime.editor
        /\ s.editors = ime.editors /\ s.hung = ime.hung
        /\ s.owner = IF ime.owner = h THEN NoHost ELSE ime.owner
    BY <1>1, ReleaseOwnerFields
  <2> HIDE DEF s
  <2>2. /\ t \in ImeStates /\ t.proxy = ime.proxy /\ t.bound = ime.bound
        /\ t.composing = ime.composing /\ t.editor = ime.editor
        /\ t.editors = ime.editors /\ t.hung = ime.hung /\ t.owner = s.owner
        /\ \A d \in Editors : t.registry[d] = IF d = e THEN NoHost ELSE ime.registry[d]
    BY <1>1, <2>1, UnregisterFields
  <2> HIDE DEF t
  <2>3. ime' = [t EXCEPT !.bound.lost = @ \/ fresh]
    BY DEF GiveUpOwner, t, s
  <2>4. (t.bound.lost \/ fresh) \in BOOLEAN
    OBVIOUS
  <2>5. /\ ime' \in ImeStates /\ ime'.proxy = t.proxy /\ ime'.editor = t.editor
        /\ ime'.composing = t.composing /\ ime'.editors = t.editors /\ ime'.hung = t.hung
        /\ ime'.owner = t.owner /\ ime'.registry = t.registry
        /\ ime'.bound = [t.bound EXCEPT !.lost = t.bound.lost \/ fresh]
    BY <2>2, <2>3, <2>4 DEF ImeStates
  <2>6. /\ ime'.bound.editor = t.bound.editor /\ ime'.bound.proxy = t.bound.proxy
        /\ (t.bound.lost \/ fresh) => ime'.bound.lost
    BY <2>2, <2>5 DEF ImeStates
  <2>7. QED
    BY <2>1, <2>2, <2>5, <2>6
<1>4. /\ NoHost \notin Hosts /\ Nothing \notin Editors
      /\ \A g \in Hosts : ime.editor[g] \in Editors \cup {Nothing}
      /\ ime.registry \in [Editors -> Hosts \cup {NoHost}]
      /\ ime.bound.editor \in Editors \cup {Nothing}
      /\ CbIdle.editor = Nothing /\ CbIdle.proxy = Nothing /\ CbIdle.at = "idle"
  BY <1>1, ImeTypes, CbIdleTyped
<1>5. /\ \A g \in Hosts : e # Nothing => ime.editor[g] # e
      /\ \A r \in reapers : e # Nothing => r.editor # e
  BY DEF Inv, Sound, Apart
<1>6. Sound(ime)'
  <2>1. Numbered(ime)'
    <3>1. ime.editors \in Nat
      BY <1>1, ImeTypes
    <3>2. QED
      BY <1>1, <1>2, <1>3, <1>4, <3>1 DEF Inv, Sound, Numbered, Nothing
  <2>2. Apart(ime)'
    <3>1. \A q, r \in reapers' : q.editor = r.editor /\ r.editor # Nothing => q = r
      BY <1>2, <1>5 DEF Inv, Sound, Apart
    <3>2. QED
      BY <1>1, <1>2, <1>3, <1>4, <1>5, <3>1 DEF Inv, Sound, Apart
  <2>3. Registered(ime)'
    <3>1. \A g \in Hosts : ime.editor[g] # Nothing => ime'.registry[ime.editor[g]] = ime.registry[ime.editor[g]]
      BY <1>3, <1>4, <1>5
    <3>2. ASSUME NEW d \in Editors, ime'.registry[d] # NoHost
          PROVE  ime'.editor[ime'.registry[d]] = d
      BY <1>3, <1>4, <3>2 DEF Inv, Sound, Registered
    <3>3. ui.at = "free" /\ ui.editor # Nothing => ime'.registry[ui.editor] = NoHost
      BY <1>3, ThreadTypes DEF Inv, Sound, Registered
    <3>4. \A g \in Hosts : ime'.editor[g] # Nothing =>
             ime'.registry[ime'.editor[g]]
               \in (IF ui.at = "free" /\ ui.host = g THEN {g, NoHost} ELSE {g})
      <4>1. \A g \in Hosts : ime.editor[g] # Nothing =>
               ime.registry[ime.editor[g]]
                 \in (IF ui.at = "free" /\ ui.host = g THEN {g, NoHost} ELSE {g})
        BY DEF Inv, Sound, Registered
      <4>2. QED
        BY <1>3, <3>1, <4>1
    <3>5. QED
      BY <1>1, <3>2, <3>3, <3>4 DEF Registered
  <2>4. Linked(ime)'
    <3>1. \A g \in Hosts : BoundAs(ime.proxy[g], ime.editor[g], ime')
      BY <1>3 DEF Inv, Sound, Linked, BoundAs
    <3>2. BoundAs(cb.proxy, e, ime')
      BY <1>3 DEF Inv, Sound, Linked, BoundAs
    <3>3. \A r \in reapers : BoundAs(r.proxy, r.editor, ime')
      BY <1>3 DEF Inv, Sound, Linked, BoundAs
    <3>4. \A r \in reapers' : BoundAs(r.proxy, r.editor, ime')
      BY <1>2, <3>2, <3>3
    <3>5. QED
      BY <1>1, <1>3, <1>4, <3>1, <3>4 DEF Inv, Sound, Linked, BoundAs
  <2>5. Owned(ime)'
    <3>1. ASSUME NEW g \in Hosts, ime'.owner = g, ime'.proxy[g] # Nothing
          PROVE  ime'.bound.proxy \in {Nothing, ime'.proxy[g]}
      BY <1>3, <1>4, <3>1 DEF Inv, Sound, Owned
    <3>2. ime'.bound.editor # Nothing /\ ime'.owner # NoHost =>
             ime'.registry[ime'.bound.editor] \in {ime'.owner, NoHost}
      BY <1>3, <1>4 DEF Inv, Sound, Owned
    <3>3. ASSUME NEW g \in Hosts, ime'.bound.editor # Nothing,
                 ime'.registry[ime'.bound.editor] = g, ime'.proxy[g] # Nothing
          PROVE  ime'.owner = g \/ (ime'.owner = NoHost /\ ime'.bound.lost)
      <4>1. ime.registry[ime.bound.editor] = g /\ ime.bound.proxy # Nothing
        BY <1>3, <1>4, <3>3 DEF Inv, Sound, Linked
      <4>2. ime.owner = g \/ (ime.owner = NoHost /\ ime.bound.lost)
        BY <1>3, <3>3, <4>1 DEF Inv, Sound, Owned
      <4>3. ime.owner = g => Live(g, ime)
        BY <1>3, <3>3, <4>1 DEF Inv, Sound, Owned, Live
      <4>4. QED
        BY <1>3, <1>4, <4>2, <4>3
    <3>4. QED
      BY <3>1, <3>2, <3>3 DEF Owned
  <2>6. QED
    BY <1>3, <2>1, <2>2, <2>3, <2>4, <2>5 DEF Inv, Sound
<1>7. TypeOK'
  <2>1. reapers' \subseteq Reapers
    BY <1>1, <1>2 DEF Inv, TypeOK
  <2>2. QED
    BY <1>1, <1>3, <2>1, CbIdleTyped DEF Inv, TypeOK
<1>8. Threads'
  BY <1>1, <1>3, <1>4, ThreadTypes DEF Inv, Threads
<1>9. Unmade' /\ EditorsAccounted'
  <2>1. Unmade'
    BY <1>1, <1>3 DEF Inv, Unmade
  <2>2. ASSUME NEW d \in Editors
        PROVE  Held(d) <=> Held(d)'
    BY <1>1, <1>2, <1>3, <1>4 DEF Held
  <2>3. EditorsAccounted'
    BY <1>1, <1>3, <1>6, <1>7, <2>2, HoldersKept
  <2>4. QED
    BY <2>1, <2>3
<1>10. Composed'
  <2>1. front \in Hosts /\ (ime.bound.editor # Nothing => ime.bound.proxy # Nothing)
    BY DEF Inv, Sound, Linked, TypeOK
  <2>2. CASE front = h
    BY <1>1, <1>4, <2>2 DEF Composed, Composes
  <2>3. CASE front # h
    <3>1. ime.bound.editor # Nothing /\ ime.registry[ime.bound.editor] = front => ime.bound.editor # e
      BY <1>4, <1>5, <2>1, <2>3 DEF Inv, Sound, Registered
    <3>2. Composes(front, preview[front])
      BY DEF Inv, Composed
    <3>3. \A r \in reapers' : r \in reapers \/ r.proxy = cb.proxy
      BY <1>2
    <3>4. Composes(front, preview[front])'
      BY <1>1, <1>3, <1>4, <2>1, <3>1, <3>2, <3>3 DEF Composes
    <3>5. QED
      BY <1>1, <1>4, <3>4 DEF Composed
  <2>4. QED
    BY <2>2, <2>3
<1>11. QED
  BY <1>6, <1>7, <1>8, <1>9, <1>10 DEF Inv

-----------------------------------------------------------------------------
(* Nothing is attached, created or composed at first.                      *)
LEMMA InitInv == Init => Inv
<1> SUFFICES ASSUME Init
             PROVE  Inv
  OBVIOUS
<1>1. TypeOK
  <2>1. ime \in ImeStates
    BY ImeAssumption DEF Init, ImeStates, Unbound, Nothing, Editors
  <2>2. /\ preview \in [Hosts -> 0..MaxErase] /\ tail \in [Hosts -> 0..MaxErase]
        /\ surface \in [Hosts -> {"none", "hidden", "shown"}] /\ terminal \in [Hosts -> BOOLEAN]
        /\ front \in Hosts /\ destroyed \in [Editors -> Nat]
    BY ImeAssumption DEF Init
  <2>3. races \in RaceStates
    BY DEF Init, NoRaces, RaceStates
  <2>4. reapers \subseteq Reapers
    BY DEF Init
  <2>5. QED
    BY <2>1, <2>2, <2>3, <2>4, CbIdleTyped, UiIdleTyped DEF Init, TypeOK
<1>2. /\ \A h \in Hosts : ime.proxy[h] = Nothing /\ ime.editor[h] = Nothing
      /\ ime.owner = NoHost /\ ime.editors = 0 /\ ime.hung = FALSE
      /\ ime.bound.editor = Nothing /\ ime.bound.proxy = Nothing
      /\ \A e \in Editors : ime.registry[e] = NoHost
      /\ reapers = {} /\ ui = UiIdle /\ ui.at = "idle" /\ ui.editor = Nothing
      /\ cb = CbIdle /\ cb.at = "idle" /\ cb.proxy = Nothing /\ cb.editor = Nothing
  BY CbIdleTyped, UiIdleTyped DEF Init, Unbound
<1>3. Sound(ime)
  <2>1. Numbered(ime)
    BY <1>2 DEF Numbered, Nothing
  <2>2. Apart(ime) /\ Registered(ime)
    BY <1>2 DEF Apart, Registered
  <2>3. Linked(ime) /\ Owned(ime)
    BY <1>2, ImeAssumption DEF Linked, BoundAs, Owned
  <2>4. QED
    BY <1>1, <1>2, <2>1, <2>2, <2>3 DEF Sound, TypeOK
<1>4. Threads
  BY <1>2, ImeAssumption DEF Threads
<1>5. Unmade /\ EditorsAccounted
  BY <1>2 DEF Init, Unmade, EditorsAccounted
<1>6. Composed
  BY <1>2, <1>1 DEF Init, Composed, Composes, TypeOK
<1>7. QED
  BY <1>1, <1>3, <1>4, <1>5, <1>6 DEF Inv

(* Every step keeps the invariant.                                         *)
LEMMA NextInv == Inv /\ [Next]_vars => Inv'
<1> SUFFICES ASSUME Inv, [Next]_vars
             PROVE  Inv'
  OBVIOUS
<1>1. CASE \E h \in Hosts : \/ OnSurfaceCreated(h) \/ OnSurfaceShow(h) \/ OnSurfaceHide(h)
                            \/ SelectTab(h) \/ BeginDetach(h)
  BY <1>1, OnSurfaceCreatedKeeps, OnSurfaceShowKeeps, OnSurfaceHideKeeps, SelectTabKeeps,
     BeginDetachKeeps
<1>2. CASE HideReturns \/ DetachOwned \/ DetachReturns \/ UnregisterEditor
           \/ \E last \in BOOLEAN : DestroyEditor(last)
  BY <1>2, HideReturnsKeeps, DetachOwnedKeeps, DetachReturnsKeeps, UnregisterEditorKeeps,
     DestroyEditorKeeps
<1>3. CASE Tap \/ DispatchKeyEvent
  BY <1>3, TapKeeps, DispatchKeyEventKeeps
<1>4. CASE \/ \E n \in 1..(MaxErase + 1) : HandleImeSetPreviewText(n)
           \/ HandleImeFinishPreview \/ CountPreview \/ InsertImeText \/ LoseBinding
  BY <1>4, HandleImeSetPreviewTextKeeps, HandleImeFinishPreviewKeeps, CountPreviewKeeps,
     InsertImeTextKeeps, LoseBindingKeeps
<1>5. CASE \/ \E e \in Editors, status \in {"show", "hide"} : BeginStatus(e, status)
           \/ CallBack \/ SetVisible \/ TakeProxies \/ GiveUpOwner
  BY <1>5, BeginStatusKeeps, CallBackKeeps, SetVisibleKeeps, TakeProxiesKeeps, GiveUpOwnerKeeps
<1>6. CASE \E r \in reapers : ReapProxy(r) \/ ReapEditor(r)
  BY <1>6, ReapProxyKeeps, ReapEditorKeeps
<1>7. CASE UNCHANGED vars
  <2>1. UNCHANGED <<ime, preview, tail, surface, terminal, front, ui, cb, reapers, destroyed, races>>
    BY <1>7 DEF vars
  <2>2. TypeOK'
    BY <2>1 DEF Inv, TypeOK
  <2>3. Sound(ime)' /\ Unmade' /\ EditorsAccounted'
    BY <2>1, QuietStep DEF SameLinks, Inv, TypeOK
  <2>4. Threads'
    BY <2>1 DEF Inv, Threads
  <2>5. Composed'
    BY <2>1 DEF Inv, Composed, Composes
  <2>6. QED
    BY <2>2, <2>3, <2>4, <2>5 DEF Inv
<1>8. QED
  BY <1>1, <1>2, <1>3, <1>4, <1>5, <1>6, <1>7 DEF Next

(* The links between hosts, callbacks, background threads and framework    *)
(* stay sound, whatever the two threads and the background threads do in   *)
(* whatever order.                                                         *)
THEOREM ImeInvariant == Spec => []Inv
<1>1. Init => Inv
  BY InitInv
<1>2. Inv /\ [Next]_vars => Inv'
  BY NextInv
<1>3. QED
  BY <1>1, <1>2, PTL DEF Spec

(* Every editor is destroyed by exactly one of those who may destroy it,   *)
(* and not while it is registered or bound, with the exceptions that       *)
(* EditorsAccounted names.                                                 *)
THEOREM EditorsEnd == Spec => []EditorsEndOnce
<1>1. Inv => EditorsEndOnce
  BY DEF Inv, EditorsEndOnce
<1>2. QED
  BY <1>1, ImeInvariant, PTL

(* The host that gets the text of the input method gets the hardware keys, *)
(* unless the ownership of its attachment was given up for the one before. *)
THEOREM TextFollowsKeys == Spec => []TextAndKeysAgree
<1>1. Inv => TextAndKeysAgree
  <2> SUFFICES ASSUME Inv, ImeHost # NoHost, ime.proxy[ImeHost] # Nothing
               PROVE  \/ ime.owner = ImeHost
                      \/ ime.owner = NoHost /\ ime.bound.lost
    BY DEF TextAndKeysAgree
  <2>1. ime.bound.editor # Nothing /\ ImeHost = ime.registry[ime.bound.editor]
    BY DEF ImeHost, FindImeHost
  <2>2. ImeHost \in Hosts
    BY <2>1, ImeTypes DEF Inv, Sound
  <2>3. QED
    BY <2>1, <2>2 DEF Inv, Sound, Owned
<1>2. QED
  BY <1>1, ImeInvariant, PTL

(* No call of the framework is made with a proxy that another host's       *)
(* attachment superseded.                                                  *)
THEOREM CallsReturn == Spec => []NoBlockingCall
<1>1. Inv => NoBlockingCall
  BY DEF Inv, Sound, NoBlockingCall
<1>2. QED
  BY <1>1, ImeInvariant, PTL

(* The preview that is counted for the tab the user sees is at the end of  *)
(* what was written to it, so the backspaces of the next preview text      *)
(* erase nothing else; the exceptions are those of ErasesOwnPreview.       *)
THEOREM PreviewIsOwn == Spec => []ErasesOwnPreview
<1>1. Inv => ErasesOwnPreview
  BY ThreadTypes DEF Inv, Composed, Composes, ErasesOwnPreview
<1>2. QED
  BY <1>1, ImeInvariant, PTL
=============================================================================
