---------------------------- MODULE ImeAttachment ----------------------------
(***************************************************************************)
(* The input method of the native hosts of napi_init.cpp.  The framework   *)
(* binds one editor of the process at a time; every TerminalHost (a tab)   *)
(* has an editor of its own, and g_activeImeHost says which one attached   *)
(* last.  Attaching, showing and hiding run on the UI thread under         *)
(* m_surfaceMutex; DetachImeLocked() runs on it without the mutex, in      *)
(* several steps.  Callbacks run one at a time, on a thread of the input   *)
(* method (2829) at any moment, or on the UI thread within a call of the   *)
(* framework (771-774); a detached thread detaches and destroys what a     *)
(* dismissed keyboard leaves behind.  Text is told by one count: how many  *)
(* characters at the end of what the host wrote are preview text.          *)
(***************************************************************************)
EXTENDS Integers, FiniteSets

CONSTANTS
    Hosts,        \* the terminal hosts, one for each tab
    NoHost,       \* nullptr
    MaxEditors,   \* editors that are created, a bound
    MaxProxies,   \* handles of attachments in use at a time, a bound
    MaxErase      \* IME_MAX_PREVIEW_ERASE

ASSUME ImeAssumption ==
    /\ NoHost \notin Hosts
    /\ MaxEditors \in Nat \ {0} /\ MaxProxies \in Nat \ {0} /\ MaxErase \in Nat \ {0}

VARIABLES
    ime,        \* the hosts' fields, g_imeProxyHosts, g_activeImeHost, the binding
    preview,    \* m_imePreviewCodePoints of each host
    tail,       \* preview characters at the end of the text a host wrote, while counted
    surface,    \* "none", "hidden" or "shown": m_surfaceReady is "shown"
    terminal,   \* m_terminal is not null
    front,      \* the tab the user sees
    ui,         \* where the UI thread is in a call of several steps, and what it read
    cb,         \* the callback that is running
    reapers,    \* threads that detach and destroy after a dismissal
    destroyed,  \* how often OH_TextEditorProxy_Destroy() got each editor
    races       \* history: what fell between two steps of the other thread

vars == <<ime, preview, tail, surface, terminal, front, ui, cb, reapers, destroyed, races>>

Editors == 1..MaxEditors
Nothing == 0
Unbound == [editor |-> Nothing, proxy |-> Nothing, lost |-> FALSE]
UiIdle == [at |-> "idle", host |-> NoHost, owner |-> FALSE,
           proxy |-> Nothing, editor |-> Nothing]
CbIdle == [at |-> "idle", host |-> NoHost, status |-> "hide", sync |-> FALSE,
           proxy |-> Nothing, editor |-> Nothing, count |-> 0]
(* Editors that a dismissal took from DetachImeLocked(), and hosts that    *)
(* attached or whose count was reset while preview text was being written. *)
NoRaces == [taken |-> {}, crossed |-> {}]
(* Calls of the framework in which it may call the host back.              *)
InCall == {"hiding", "detachHiding", "detaching"}

Init ==
    /\ ime = [owner |-> NoHost, proxy |-> [h \in Hosts |-> Nothing],
              editor |-> [h \in Hosts |-> Nothing], wants |-> [h \in Hosts |-> FALSE],
              visible |-> [h \in Hosts |-> FALSE], registry |-> [e \in Editors |-> NoHost],
              bound |-> Unbound, composing |-> FALSE,
              editors |-> 0, hung |-> FALSE]
    /\ preview = [h \in Hosts |-> 0] /\ tail = [h \in Hosts |-> 0]
    /\ surface = [h \in Hosts |-> "none"] /\ terminal = [h \in Hosts |-> FALSE]
    /\ front \in Hosts
    /\ ui = UiIdle /\ cb = CbIdle /\ reapers = {}
    /\ destroyed = [e \in Editors |-> 0] /\ races = NoRaces
-----------------------------------------------------------------------------
(* The framework, and the methods that call it: each takes the state of    *)
(* the input method and gives the states it may leave.                     *)

Live(h, s) == s.proxy[h] # Nothing /\ s.proxy[h] = s.bound.proxy

(* A call with the proxy of h.  One that another attachment superseded     *)
(* blocks the caller (2571-2573, 2680-2681).                               *)
Call(h, s) ==
    [s EXCEPT !.hung = @ \/ (s.proxy[h] # Nothing /\ s.bound.proxy \notin {Nothing, s.proxy[h]})]

(* Handles that nobody holds.                                              *)
Unused(s) ==
    1..MaxProxies \ ({s.proxy[h] : h \in Hosts} \cup {r.proxy : r \in reapers}
                     \cup {s.bound.proxy, cb.proxy, ui.proxy})

(* OH_InputMethodController_Attach(): it fails, it gives a handle the      *)
(* service has not bound, or it binds the editor and drops the one before. *)
Bindings(h, s) ==
    IF Unused(s) = {} THEN {}
    ELSE LET n == CHOOSE p \in Unused(s) : TRUE
             t == [s EXCEPT !.proxy[h] = n, !.composing = FALSE]
         IN {[t EXCEPT !.bound = [editor |-> s.editor[h], proxy |-> n, lost |-> FALSE]],
             [t EXCEPT !.bound = Unbound]}

(* The editor of a host is created once and registered for its callbacks.  *)
CreateEditor(h, s) ==
    IF s.editor[h] # Nothing \/ s.editors = MaxEditors THEN s
    ELSE LET e == s.editors + 1
         IN [s EXCEPT !.editors = e, !.editor[h] = e, !.registry[e] = h]

AttachKeepsOwner(h, s) ==
    IF s.proxy[h] # Nothing THEN {s}
    ELSE LET t == CreateEditor(h, s)
         IN IF t.editor[h] = Nothing THEN {t} ELSE {t} \cup Bindings(h, t)

AttachImeLocked(h, s) ==
    IF s.proxy[h] # Nothing THEN {s}
    ELSE LET t == CreateEditor(h, s)
         IN IF t.editor[h] = Nothing THEN {t}
            ELSE {t} \cup {[b EXCEPT !.owner = h] : b \in Bindings(h, t)}

(* The proxy is dropped without a framework call if another host attached. *)
DropSuperseded(h, s) == IF s.owner # h THEN [s EXCEPT !.proxy[h] = Nothing] ELSE s

(* It succeeds exactly if the framework still binds the proxy.             *)
ShowTextInputOnceLocked(h, s) ==
    IF Live(h, s)
    THEN [s EXCEPT !.visible[h] = TRUE]
    ELSE Call(h, s)

(* A failed call drops the handle and attaches once more, unless it did so *)
(* within the cooldown.                                                    *)
ShowImeLocked(h, s) ==
    LET Retried(t) ==
            {ShowTextInputOnceLocked(h, u) : u \in AttachImeLocked(h, [t EXCEPT !.proxy[h] = Nothing])}
    IN UNION {LET shown == ShowTextInputOnceLocked(h, t)
              IN IF t.proxy[h] = Nothing \/ Live(h, t) THEN {shown} ELSE {shown} \cup Retried(shown)
              : t \in AttachImeLocked(h, DropSuperseded(h, [s EXCEPT !.wants[h] = TRUE]))}

NotifyImeStateLocked(h, s) ==
    IF terminal[h] /\ surface[h] = "shown" /\ s.owner = h THEN Call(h, s) ELSE s

(* HideImeLocked() asks the framework only for the owner.                  *)
Hides(h, s) == s.proxy[h] # Nothing /\ s.visible[h] /\ s.owner = h

Hidden(h, s) == IF s.proxy[h] # Nothing THEN [s EXCEPT !.visible[h] = FALSE] ELSE s

Unregister(e, s) == IF e = Nothing THEN s ELSE [s EXCEPT !.registry[e] = NoHost]

(* compare_exchange_strong(this, nullptr) on g_activeImeHost.              *)
ReleaseOwner(h, s) == IF s.owner = h THEN [s EXCEPT !.owner = NoHost] ELSE s

(* The framework forgets the binding of a proxy it is asked to detach.     *)
Detached(p, s) ==
    IF p # Nothing /\ s.bound.proxy = p THEN [s EXCEPT !.bound = Unbound, !.composing = FALSE] ELSE s
-----------------------------------------------------------------------------
(* The UI thread.                                                          *)

UiFree == ui.at = "idle"

(* A callback of h has written preview text and not counted it yet.        *)
Writing(h) == cb.at = "count" /\ cb.host = h

(* The count of h is reset, for good unless it is about to be stored.      *)
Reset(h) == [races EXCEPT !.crossed = IF Writing(h) THEN @ \cup {h} ELSE @ \ {h}]

(* An attachment ends a composition of h without resetting its count.      *)
Attached(h) ==
    IF ime.composing /\ ~ime'.composing /\ (Writing(h) \/ preview[h] > 0)
    THEN [races EXCEPT !.crossed = @ \cup {h}] ELSE races

(* The surface of a tab that is not seen comes and goes when the           *)
(* application does, not during a composition.                             *)
Undisturbed(h) == h = front \/ ~ime.composing

OnSurfaceCreated(h) ==
    /\ UiFree /\ Undisturbed(h) /\ surface[h] = "none"
    /\ surface' = [surface EXCEPT ![h] = "shown"]
    /\ terminal' = [terminal EXCEPT ![h] = TRUE]
    /\ ime' \in {IF terminal[h] \/ t.owner # h THEN t ELSE Call(h, t) : t \in AttachImeLocked(h, ime)}
    /\ races' = Attached(h)
    /\ UNCHANGED <<preview, tail, front, ui, cb, reapers, destroyed>>

OnSurfaceShow(h) ==
    /\ UiFree /\ Undisturbed(h) /\ surface[h] = "hidden"
    /\ surface' = [surface EXCEPT ![h] = "shown"]
    /\ IF ime.wants[h] THEN ime' \in {Call(h, t) : t \in ShowImeLocked(h, ime)}
       ELSE ime' = ime
    /\ races' = Attached(h)
    /\ UNCHANGED <<preview, tail, terminal, front, ui, cb, reapers, destroyed>>

(* HideImeLocked() is called with m_surfaceMutex held.                     *)
OnSurfaceHide(h) ==
    /\ UiFree /\ Undisturbed(h) /\ surface[h] = "shown"
    /\ surface' = [surface EXCEPT ![h] = "hidden"]
    /\ IF Hides(h, ime)
       THEN ime' = Call(h, ime) /\ ui' = [UiIdle EXCEPT !.at = "hiding", !.host = h]
       ELSE ime' = Hidden(h, ime) /\ ui' = ui
    /\ UNCHANGED <<preview, tail, terminal, front, cb, reapers, destroyed, races>>

(* DetachImeLocked() of OnSurfaceDestroyed() and of the destructor.        *)
BeginDetach(h) ==
    /\ UiFree /\ (surface[h] # "none" \/ terminal[h])
    /\ LET start == [UiIdle EXCEPT !.at = "detach", !.host = h, !.owner = ime.owner = h]
       IN IF Hides(h, ime)
          THEN ime' = Call(h, ime) /\ ui' = [start EXCEPT !.at = "detachHiding"]
          ELSE ime' = Hidden(h, ime) /\ ui' = start
    /\ UNCHANGED <<preview, tail, surface, terminal, front, cb, reapers, destroyed, races>>

(* HideKeyboard() returns; a composition has been finished by then, unless *)
(* the thread that would do it waits for the mutex.                        *)
HideReturns ==
    /\ ui.at \in {"hiding", "detachHiding"} /\ ~cb.sync
    /\ ime.composing => ui.at = "hiding" /\ cb.at \in {"status", "take"}
    /\ ime' = [ime EXCEPT !.visible[ui.host] = FALSE]
    /\ ui' = IF ui.at = "hiding" THEN UiIdle ELSE [ui EXCEPT !.at = "detach"]
    /\ UNCHANGED <<preview, tail, surface, terminal, front, cb, reapers, destroyed, races>>

Destroying == [UiIdle EXCEPT !.at = "destroy", !.host = ui.host]

DetachUnchecked ==
    /\ ui.at = "detach"
    /\ IF ime.proxy[ui.host] # Nothing
       THEN /\ ime' = Call(ui.host, ime)
            /\ ui' = [ui EXCEPT !.at = "detaching", !.proxy = ime.proxy[ui.host]]
       ELSE ime' = [ime EXCEPT !.proxy[ui.host] = Nothing] /\ ui' = Destroying
    /\ UNCHANGED <<preview, tail, surface, terminal, front, cb, reapers, destroyed, races>>

DetachOwned ==
    /\ ui.at = "detach"
    /\ IF ime.proxy[ui.host] # Nothing /\ ui.owner
       THEN /\ ime' = Call(ui.host, ime)
            /\ ui' = [ui EXCEPT !.at = "detaching", !.proxy = ime.proxy[ui.host]]
       ELSE ime' = [ime EXCEPT !.proxy[ui.host] = Nothing] /\ ui' = Destroying
    /\ UNCHANGED <<preview, tail, surface, terminal, front, cb, reapers, destroyed, races>>

DetachReturns ==
    /\ ui.at = "detaching" /\ ~cb.sync /\ ~ime.composing
    /\ ime' = [Detached(ui.proxy, ime) EXCEPT !.proxy[ui.host] = Nothing]
    /\ ui' = Destroying
    /\ UNCHANGED <<preview, tail, surface, terminal, front, cb, reapers, destroyed, races>>

Forgotten(h, s) == [s EXCEPT !.editor[h] = Nothing, !.wants[h] = FALSE]

(* The editor is read; a dismissal may take it until it is forgotten.      *)
UnregisterEditor ==
    /\ ui.at = "destroy"
    /\ ime' = Unregister(ime.editor[ui.host], ime)
    /\ ui' = [ui EXCEPT !.at = "free", !.editor = ime.editor[ui.host]]
    /\ UNCHANGED <<preview, tail, surface, terminal, front, cb, reapers, destroyed, races>>

(* What is destroyed is the editor read before or, if it was taken by the  *)
(* time the field is read again, nothing.  The surface is gone, and in the *)
(* destructor the terminal.                                                *)
DestroyEditor(last) ==
    /\ ui.at = "free" /\ (surface[ui.host] = "none" => last)
    /\ \E e \in {ui.editor, ime.editor[ui.host]} :
          destroyed' = IF e = Nothing THEN destroyed ELSE [destroyed EXCEPT ![e] = @ + 1]
    /\ ime' = ReleaseOwner(ui.host, Forgotten(ui.host, ime))
    /\ surface' = [surface EXCEPT ![ui.host] = "none"]
    /\ terminal' = [terminal EXCEPT ![ui.host] = @ /\ ~last]
    /\ ui' = UiIdle
    /\ UNCHANGED <<preview, tail, front, cb, reapers, races>>

RequestKeepsPreview(h) ==
    /\ ime' \in {NotifyImeStateLocked(h, IF surface[h] = "shown" /\ t.proxy[h] # Nothing
                                         THEN ShowTextInputOnceLocked(h, t) ELSE t) :
                 t \in AttachImeLocked(h, DropSuperseded(h, [ime EXCEPT !.wants[h] = TRUE]))}
    /\ UNCHANGED preview

(* A tab is selected, or the application returns from the background.      *)
RequestImeFocus(h) ==
    /\ ime' \in {NotifyImeStateLocked(h, IF surface[h] = "shown" /\ t.proxy[h] # Nothing
                                         THEN ShowTextInputOnceLocked(h, t) ELSE t) :
                 t \in AttachImeLocked(h, DropSuperseded(h, [ime EXCEPT !.wants[h] = TRUE]))}
    /\ preview' = [preview EXCEPT ![h] = 0]

(* Preview text whose count is reset becomes like text committed.          *)
SelectTab(h) ==
    /\ UiFree /\ RequestImeFocus(h)
    /\ front' = h /\ races' = Reset(h)
    /\ tail' = IF preview'[h] = 0 THEN [tail EXCEPT ![h] = 0] ELSE tail
    /\ UNCHANGED <<surface, terminal, ui, cb, reapers, destroyed>>

(* A tap or a click that is neither a scroll nor a selection.              *)
Tap ==
    /\ UiFree /\ surface[front] = "shown" /\ terminal[front]
    /\ ime' \in {NotifyImeStateLocked(front, t) : t \in ShowImeLocked(front, ime)}
    /\ races' = Attached(front)
    /\ UNCHANGED <<preview, tail, surface, terminal, front, ui, cb, reapers, destroyed>>

(* The host a hardware key goes to: the owner, if it has a terminal.       *)
KeyTarget == IF ime.owner # NoHost /\ terminal[ime.owner] THEN ime.owner ELSE front

DispatchKeyEvent ==
    /\ UiFree /\ terminal[front]
    /\ preview' = [preview EXCEPT ![front] = 0]
    /\ tail' = [tail EXCEPT ![KeyTarget] = 0, ![front] = 0]
    /\ races' = IF Writing(KeyTarget) THEN Reset(KeyTarget) ELSE Reset(front)
    /\ UNCHANGED <<ime, surface, terminal, front, ui, cb, reapers, destroyed>>
-----------------------------------------------------------------------------
(* The framework calls the editor it binds, or the keyboard reports to an  *)
(* editor it was bound to.                                                 *)

FindImeHost(e) == IF e = Nothing THEN NoHost ELSE ime.registry[e]
ImeHost == FindImeHost(ime.bound.editor)
Takes(h) == ime.wants[h] /\ terminal[h]
TextArrives == ImeHost # NoHost /\ cb.at = "idle"

(* Backspaces for the preview that is counted, then the text, which is     *)
(* counted in a step of its own, unless it is too long.                    *)
HandleImeSetPreviewText(n) ==
    /\ TextArrives
    /\ LET h == ImeHost
           counts == Takes(h) /\ n <= MaxErase
       IN /\ preview' = [preview EXCEPT ![h] = 0] /\ races' = Reset(h)
          /\ tail' = [tail EXCEPT ![h] = IF counts THEN n ELSE 0]
          /\ cb' = IF counts THEN [CbIdle EXCEPT !.at = "count", !.host = h, !.count = n] ELSE cb
    /\ ime' = [ime EXCEPT !.composing = TRUE]
    /\ UNCHANGED <<surface, terminal, front, ui, reapers, destroyed>>

CountPreview ==
    /\ cb.at = "count"
    /\ preview' = [preview EXCEPT ![cb.host] = cb.count]
    /\ cb' = CbIdle
    /\ UNCHANGED <<ime, tail, surface, terminal, front, ui, reapers, destroyed, races>>

(* Also from within a call that ends the binding.                          *)
HandleImeFinishPreview ==
    /\ TextArrives /\ ime.composing
    /\ IF preview[ImeHost] > 0 /\ terminal[ImeHost]
       THEN /\ tail' = [tail EXCEPT ![ImeHost] = 0]
            /\ preview' = [preview EXCEPT ![ImeHost] = 0]
            /\ races' = Reset(ImeHost)
       ELSE UNCHANGED <<tail, preview, races>>
    /\ ime' = [ime EXCEPT !.composing = FALSE]
    /\ UNCHANGED <<surface, terminal, front, ui, cb, reapers, destroyed>>

(* Text, deletions and keys of the input method, which come once the       *)
(* composition is finished.                                                *)
InsertImeText ==
    /\ TextArrives /\ ~ime.composing /\ Takes(ImeHost)
    /\ tail' = [tail EXCEPT ![ImeHost] = 0]
    /\ UNCHANGED <<ime, preview, surface, terminal, front, ui, cb, reapers, destroyed, races>>

(* Another client of the input method takes the binding.                   *)
LoseBinding ==
    /\ ime.bound # Unbound /\ ~ime.composing
    /\ ime' = [ime EXCEPT !.bound = Unbound]
    /\ UNCHANGED <<preview, tail, surface, terminal, front, ui, cb, reapers, destroyed, races>>

(* The keyboard was shown or dismissed: the report, however late, is       *)
(* looked up and starts HandleImeKeyboardStatus().                         *)
BeginStatus(e, status) ==
    /\ cb.at = "idle" /\ FindImeHost(e) # NoHost
    /\ cb' = [CbIdle EXCEPT !.at = "status", !.host = FindImeHost(e), !.status = status]
    /\ UNCHANGED <<ime, preview, tail, surface, terminal, front, ui, reapers, destroyed, races>>

(* HideKeyboard() or Detach() of the bound proxy reports before it returns *)
(* (771-774).  Within OnSurfaceHide() the thread waits for itself.         *)
CallBack ==
    /\ ui.at \in InCall /\ cb.at = "idle"
    /\ Live(ui.host, ime) /\ ImeHost = ui.host
    /\ IF ui.at = "hiding" THEN ui' = [ui EXCEPT !.at = "stuck"] /\ cb' = cb
       ELSE /\ cb' = [CbIdle EXCEPT !.at = "status", !.host = ui.host, !.sync = TRUE]
            /\ ui' = ui
    /\ UNCHANGED <<ime, preview, tail, surface, terminal, front, reapers, destroyed, races>>

(* m_surfaceMutex is held across steps only by OnSurfaceHide().            *)
MutexFree == ui.at \notin {"hiding", "stuck"}

SetVisible ==
    /\ cb.at = "status" /\ MutexFree
    /\ ime' = [ime EXCEPT !.visible[cb.host] = cb.status = "show"]
    /\ cb' = IF cb.status = "show" THEN CbIdle ELSE [cb EXCEPT !.at = "take"]
    /\ UNCHANGED <<preview, tail, surface, terminal, front, ui, reapers, destroyed, races>>

(* DetachImeLocked() has read the editor and not destroyed it yet.         *)
DetachHas(e) == ui.at = "free" /\ ui.editor = e /\ e # Nothing

TakeLeavesEditor ==
    /\ cb.at = "take" /\ MutexFree
    /\ cb' = [cb EXCEPT !.at = "release", !.proxy = ime.proxy[cb.host], !.editor = ime.editor[cb.host]]
    /\ ime' = [ime EXCEPT !.proxy[cb.host] = Nothing, !.wants[cb.host] = FALSE]
    /\ preview' = [preview EXCEPT ![cb.host] = 0] /\ tail' = [tail EXCEPT ![cb.host] = 0]
    /\ races' = [Reset(cb.host) EXCEPT !.taken = IF DetachHas(cb'.editor) THEN @ \cup {cb'.editor} ELSE @]
    /\ UNCHANGED <<surface, terminal, front, ui, reapers, destroyed>>

TakeProxies ==
    /\ cb.at = "take" /\ MutexFree
    /\ cb' = [cb EXCEPT !.at = "release", !.proxy = ime.proxy[cb.host], !.editor = ime.editor[cb.host]]
    /\ ime' = [Forgotten(cb.host, ime) EXCEPT !.proxy[cb.host] = Nothing]
    /\ preview' = [preview EXCEPT ![cb.host] = 0] /\ tail' = [tail EXCEPT ![cb.host] = 0]
    /\ races' = [Reset(cb.host) EXCEPT !.taken = IF DetachHas(cb'.editor) THEN @ \cup {cb'.editor} ELSE @]
    /\ UNCHANGED <<surface, terminal, front, ui, reapers, destroyed>>

(* The ownership is given up after the mutex is released; the registry,    *)
(* which only callbacks read, follows.                                     *)
GiveUpOwner ==
    /\ cb.at = "release"
    /\ LET t == Unregister(cb.editor, ReleaseOwner(cb.host, ime))
           fresh == ime.owner = cb.host /\ Live(cb.host, ime)
       IN ime' = [t EXCEPT !.bound.lost = @ \/ fresh]
    /\ reapers' = IF cb.proxy = Nothing /\ cb.editor = Nothing THEN reapers
                  ELSE reapers \cup {[proxy |-> cb.proxy, editor |-> cb.editor]}
    /\ cb' = CbIdle
    /\ UNCHANGED <<preview, tail, surface, terminal, front, ui, destroyed, races>>

(* The background thread detaches, then destroys.                          *)
ReapProxy(r) ==
    /\ r \in reapers /\ r.proxy # Nothing
    /\ ime' = Detached(r.proxy, ime)
    /\ reapers' = (reapers \ {r}) \cup {[r EXCEPT !.proxy = Nothing]}
    /\ UNCHANGED <<preview, tail, surface, terminal, front, ui, cb, destroyed, races>>

ReapEditor(r) ==
    /\ r \in reapers /\ r.proxy = Nothing
    /\ destroyed' = IF r.editor = Nothing THEN destroyed ELSE [destroyed EXCEPT ![r.editor] = @ + 1]
    /\ reapers' = reapers \ {r}
    /\ UNCHANGED <<ime, preview, tail, surface, terminal, front, ui, cb, races>>
-----------------------------------------------------------------------------
Next ==
    \/ \E h \in Hosts : \/ OnSurfaceCreated(h) \/ OnSurfaceShow(h) \/ OnSurfaceHide(h)
                        \/ SelectTab(h)
                        \/ BeginDetach(h)
    \/ HideReturns \/ DetachOwned \/ DetachReturns \/ UnregisterEditor
    \/ \E last \in BOOLEAN : DestroyEditor(last)
    \/ Tap \/ DispatchKeyEvent
    \/ \E n \in 1..(MaxErase + 1) : HandleImeSetPreviewText(n)
    \/ HandleImeFinishPreview \/ CountPreview \/ InsertImeText
    \/ LoseBinding
    \/ \E e \in Editors, status \in {"show", "hide"} : BeginStatus(e, status)
    \/ CallBack \/ SetVisible \/ TakeProxies \/ GiveUpOwner
    \/ \E r \in reapers : ReapProxy(r) \/ ReapEditor(r)

Spec == Init /\ [][Next]_vars
-----------------------------------------------------------------------------
ImeStates ==
    [owner : Hosts \cup {NoHost}, proxy : [Hosts -> 0..MaxProxies],
     editor : [Hosts -> 0..MaxEditors], wants : [Hosts -> BOOLEAN],
     visible : [Hosts -> BOOLEAN], registry : [Editors -> Hosts \cup {NoHost}],
     bound : [editor : 0..MaxEditors, proxy : 0..MaxProxies, lost : BOOLEAN],
     composing : BOOLEAN,
     editors : 0..MaxEditors, hung : BOOLEAN]
UiStates ==
    [at : InCall \cup {"idle", "detach", "destroy", "free", "stuck"},
     host : Hosts \cup {NoHost}, owner : BOOLEAN,
     proxy : 0..MaxProxies, editor : 0..MaxEditors]
CbStates ==
    [at : {"idle", "status", "take", "release", "count"},
     host : Hosts \cup {NoHost}, status : {"show", "hide"}, sync : BOOLEAN,
     proxy : 0..MaxProxies, editor : 0..MaxEditors, count : 0..MaxErase]
RaceStates == [taken : SUBSET Editors, crossed : SUBSET Hosts]
Reapers == [proxy : 0..MaxProxies, editor : 0..MaxEditors]

TypeOK ==
    /\ ime \in ImeStates /\ ui \in UiStates /\ cb \in CbStates /\ reapers \subseteq Reapers
    /\ preview \in [Hosts -> 0..MaxErase] /\ tail \in [Hosts -> 0..MaxErase]
    /\ surface \in [Hosts -> {"none", "hidden", "shown"}] /\ terminal \in [Hosts -> BOOLEAN]
    /\ front \in Hosts /\ destroyed \in [Editors -> Nat] /\ races \in RaceStates

(* Editors that a host, a running callback or a background thread holds.   *)
Held(e) ==
    \/ \E h \in Hosts : ime.editor[h] = e
    \/ cb.editor = e
    \/ \E r \in reapers : r.editor = e

(* Every editor the hosts created is either held by exactly those who will *)
(* destroy it or destroyed once, and neither the callbacks' table nor the  *)
(* framework's binding refers to a destroyed one: OnSurfaceDestroyed(),    *)
(* the destructor and a dismissed keyboard all destroy editors, also one   *)
(* within the other.  Two races are the exceptions: an editor is destroyed *)
(* twice only if a dismissal took it between two reads of the field in     *)
(* DetachImeLocked() (2579-2582), and stays bound only in an attachment    *)
(* whose ownership a dismissal gave up.  None is ever leaked.              *)
EditorsAccounted ==
    \A e \in 1..ime.editors :
        /\ ~Held(e) => destroyed[e] > 0
        /\ e \notin races.taken =>
              /\ destroyed[e] = IF Held(e) THEN 0 ELSE 1
              /\ (destroyed[e] = 1 /\ ime.bound.editor = e) => ime.bound.lost
              /\ destroyed[e] = 1 => ime.registry[e] = NoHost
        /\ ~\E h \in Hosts : ime.editor[h] = e /\ \E r \in reapers : r.editor = e

(* Types, and the life of the editors, over every path that ends one.      *)
EditorsEndOnce == TypeOK /\ EditorsAccounted

(* Text and keys go to one terminal: the host whose editor the framework   *)
(* binds is the one hardware keys are routed to, as long as its callbacks  *)
(* are registered.  The exception: no host is, if this attachment was made *)
(* after a dismissal had taken the one before and before it gave up the    *)
(* ownership, outside the mutex (2844).                                    *)
TextAndKeysAgree ==
    ImeHost # NoHost /\ ime.proxy[ImeHost] # Nothing =>
        \/ ime.owner = ImeHost
        \/ ime.owner = NoHost /\ ime.bound.lost

(* No call of the hosts uses a proxy that another host's attachment has    *)
(* superseded: such a call blocks the thread that makes it, the freeze     *)
(* that the owner checks of the code are there to prevent.                 *)
NoBlockingCall == ~ime.hung

(* In the tab the user sees and types into, the preview count never        *)
(* exceeds the preview text at the end of its line: the backspaces that    *)
(* SetPreviewText and FinishPreview send erase preview text only, never    *)
(* what was committed, typed on a keyboard or left by another tab's        *)
(* composition.  The exceptions: a key or a change of the tab that falls   *)
(* between a preview text and its count, and a tap or a surface that       *)
(* attaches the tab again in the middle of a composition of it.            *)
ErasesOwnPreview ==
    front \notin races.crossed => preview[front] <= tail[front]

(* The UI thread never waits for a mutex it holds itself (771-776).        *)
NoSelfDeadlock == ui.at # "stuck"
=============================================================================
