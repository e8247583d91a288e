----------------------------- MODULE TabManager -----------------------------
(***************************************************************************)
(* The page Index.ets: the tabs, which one is active, the overlay shown    *)
(* while the active tab replays, the staged restore of the saved tabs at   *)
(* start, and the debounced save of the tabs through ConnectionStore,      *)
(* whose saveSession() is a chain of awaits.  The page's methods, its      *)
(* timers, the callbacks of its sessions and the continuations of the      *)
(* store all run on the UI thread, one at a time.                          *)
(*                                                                         *)
(* A tab is told by the PTY session it shows; a title by the session whose *)
(* program set it.  Connection data other than the session is left out.    *)
(***************************************************************************)
EXTENDS Integers, Sequences, SequencesExt

CONSTANTS
    MaxTabs,       \* bound: tabs opened in the life of a page
    MaxSaved,      \* bound: tabs saved by an earlier process
    SessionIds,    \* PTY sessions of the server
    None,          \* no session, the default title
    MaxSaves,      \* bound: saves in flight
    MaxKills,      \* bound: times the process is killed
    Kinds,         \* bound: for each life of the process, which of AllKinds go
                   \* together in it
    Reporters,     \* bound: tabs whose sessions report these, and which are renamed
    Texts          \* bound: the titles they are given then

\* What sessions report, what the user does to tabs, shortcuts during the restore,
\* and saves that begin while another is in flight.
AllKinds == {"name", "title", "replay", "drag", "rename", "early", "overlap"}

ASSUME TabAssumption ==
    /\ MaxTabs \in Nat \ {0}
    /\ MaxSaved \in 0..MaxTabs
    /\ None \notin SessionIds
    /\ MaxSaves \in Nat \ {0}
    /\ MaxKills \in Nat
    /\ Kinds \in [1..(MaxKills + 1) -> SUBSET SUBSET AllKinds]
    /\ Reporters \subseteq 1..MaxTabs
    /\ Texts \subseteq SessionIds \union {None}

VARIABLES
    \* --- the page ---
    page,               \* "shown" or, after aboutToDisappear(), "gone"
    tabs,               \* ids in the order of the strip
    nextId,
    activeId,
    runtimes,           \* keys of the map
    sess,               \* rt.sessionId
    title,
    liveTitles,         \* liveTitleTabs
    running,            \* tabs whose session is not stopped
    closing,            \* tabs whose removal is queued by closeTab()
    replayTabs,
    replayLoading,
    restoreTabsEnabled,
    restoreChecked,
    restore,            \* the stage of the restore
    loaded,             \* the session being restored
    ri,                 \* tabs of it that were opened
    saveTimer,          \* armed?
    \* --- the store ---
    saves,              \* saveSession() calls in flight
    mem,                \* the preferences in memory
    disk,               \* and on disk
    \* --- history ---
    lastSnap,           \* the session passed to the last saveSession()
    overlapped,         \* that save began while another was in flight
    late,               \* or after the page had disappeared
    unscheduled,        \* since then tabs were dragged or titles changed by the page
    early,              \* or a shortcut came while tabs were being restored
    ended,              \* sessions whose tab was closed, or which were replaced
    kills,
    kinds               \* what happens in this life of the process

tabVars == <<tabs, nextId, activeId, runtimes, sess, title, liveTitles, running>>
replayVars == <<replayTabs, replayLoading>>
restoreVars == <<restoreTabsEnabled, restoreChecked, restore, loaded, ri>>
storeVars == <<mem, disk>>
saveVars == <<saves, lastSnap, overlapped, late>>
noteVars == <<unscheduled, early>>
pageVars == <<page, kills, kinds>>
vars == <<tabVars, closing, replayVars, restoreVars, saveTimer, storeVars,
          saveVars, noteVars, ended, pageVars>>

TabIds == 1..MaxTabs
NoTab == -1
SessionOrNone == SessionIds \union {None}
SavedTab == [sess : SessionOrNone, title : SessionOrNone]
NoSession == [active |-> 0, tabs |-> <<>>]
Sessions(saved) == {saved.tabs[i].sess : i \in DOMAIN saved.tabs} \ {None}

Stored == [active : Nat, tabs : Seq(SavedTab)]
SavedOK(saved) ==
    /\ saved \in Stored
    /\ saved.active \in 0..(IF saved.tabs = <<>> THEN 0 ELSE Len(saved.tabs) - 1)

TypeOK ==
    /\ page \in {"shown", "gone"}
    /\ tabs \in Seq(TabIds) /\ IsInjective(tabs)
    /\ nextId \in 1..(MaxTabs + 1)
    /\ activeId \in TabIds \union {NoTab}
    /\ runtimes \subseteq TabIds
    /\ sess \in [TabIds -> SessionOrNone]
    /\ title \in [TabIds -> SessionOrNone]
    /\ liveTitles \subseteq TabIds
    /\ running \subseteq TabIds /\ closing \subseteq TabIds
    /\ replayTabs \subseteq TabIds
    /\ replayLoading \in BOOLEAN
    /\ restoreTabsEnabled \in BOOLEAN
    /\ restoreChecked \in BOOLEAN
    /\ restore \in {"load", "open", "reveal", "titles", "done"}
    /\ SavedOK(loaded) /\ SavedOK(mem) /\ SavedOK(disk) /\ SavedOK(lastSnap)
    /\ ri \in 0..Len(loaded.tabs)
    /\ saveTimer \in BOOLEAN
    /\ saves \in Seq([snap : Stored, at : {"tokens", "put", "flush"}])
    /\ Len(saves) <= MaxSaves /\ \A i \in DOMAIN saves : SavedOK(saves[i].snap)
    /\ overlapped \in BOOLEAN /\ late \in BOOLEAN
    /\ unscheduled \in BOOLEAN /\ early \in BOOLEAN
    /\ ended \subseteq SessionIds
    /\ kills \in 0..MaxKills /\ kinds \subseteq AllKinds

-----------------------------------------------------------------------------
(* A process starts with what is on disk. *)

FreshPage ==
    /\ page' = "shown"
    /\ tabs' = <<>> /\ nextId' = 1 /\ activeId' = NoTab /\ runtimes' = {}
    /\ sess' = [t \in TabIds |-> None] /\ title' = [t \in TabIds |-> None]
    /\ liveTitles' = {} /\ running' = {} /\ closing' = {}
    /\ replayTabs' = {} /\ replayLoading' = FALSE
    /\ restoreChecked' = FALSE /\ restore' = "load" /\ loaded' = NoSession /\ ri' = 0
    /\ saveTimer' = FALSE /\ saves' = <<>> /\ mem' = disk /\ lastSnap' = disk
    /\ overlapped' = FALSE /\ late' = FALSE /\ unscheduled' = FALSE /\ early' = FALSE

\* A session saved by an earlier process, or none; every tab has its own title.
Init ==
    /\ page = "shown"
    /\ tabs = <<>> /\ nextId = 1 /\ activeId = NoTab /\ runtimes = {}
    /\ sess = [t \in TabIds |-> None] /\ title = [t \in TabIds |-> None]
    /\ liveTitles = {} /\ running = {} /\ closing = {}
    /\ replayTabs = {} /\ replayLoading = FALSE
    /\ restoreTabsEnabled \in BOOLEAN
    /\ restoreChecked = FALSE /\ restore = "load" /\ loaded = NoSession /\ ri = 0
    /\ saveTimer = FALSE /\ saves = <<>>
    /\ \E n \in 0..MaxSaved :
         \E f \in [1..n -> SessionIds] :
           /\ IsInjective(f)
           /\ disk \in [active : 0..(IF n = 0 THEN 0 ELSE n - 1),
                        tabs : {[i \in 1..n |-> [sess |-> f[i], title |-> f[i]]]}]
    /\ mem = disk /\ lastSnap = disk
    /\ overlapped = FALSE /\ late = FALSE /\ unscheduled = FALSE /\ early = FALSE
    /\ ended = {} /\ kills = 0 /\ kinds \in Kinds[1]

-----------------------------------------------------------------------------
(* What is saved, and when. *)

\* A filter of the strip, tabs.filter(...).  SelectSeq() is opaque to the prover.
Kept(s, S) ==
    LET kept[n \in 0..Len(s)] ==
            IF n = 0 THEN <<>>
            ELSE IF s[n] \in S THEN Append(kept[n - 1], s[n]) ELSE kept[n - 1]
    IN kept[Len(s)]

PositionOr(s, x, otherwise) ==
    IF \E i \in DOMAIN s : s[i] = x THEN CHOOSE i \in DOMAIN s : s[i] = x ELSE otherwise

\* Tabs without a runtime are skipped and do not shift the active index.
snapshot ==
    LET open == Kept(tabs, runtimes)
    IN [active |-> PositionOr(open, activeId, 1) - 1,
        tabs |-> [i \in DOMAIN open |-> [sess |-> sess[open[i]], title |-> title[open[i]]]]]

Save(snap) == [snap |-> snap, at |-> IF snap.tabs = <<>> THEN "put" ELSE "tokens"]

\* Mutant: a save during the restore is not suppressed.
doSaveSessionAlways ==
    IF restoreTabsEnabled
    THEN /\ Len(saves) < MaxSaves /\ (saves = <<>> \/ "overlap" \in kinds)
         /\ saves' = Append(saves, Save(snapshot))
         /\ lastSnap' = snapshot
         /\ overlapped' = (saves # <<>>) /\ late' = (page = "gone")
         /\ unscheduled' = FALSE /\ early' = FALSE
    ELSE UNCHANGED <<saveVars, noteVars>>

doSaveSession ==
    IF restoreTabsEnabled /\ restoreChecked
    THEN /\ Len(saves) < MaxSaves /\ (saves = <<>> \/ "overlap" \in kinds)
         /\ saves' = Append(saves, Save(snapshot))
         /\ lastSnap' = snapshot
         /\ overlapped' = (saves # <<>>) /\ late' = (page = "gone")
         /\ unscheduled' = FALSE /\ early' = FALSE
    ELSE UNCHANGED <<saveVars, noteVars>>

SaveTimerFires ==
    /\ saveTimer
    /\ saveTimer' = FALSE
    /\ doSaveSession
    /\ UNCHANGED <<tabVars, closing, replayVars, restoreVars, storeVars, ended, pageVars>>

\* The awaits of ConnectionStore.saveSession(): the tokens of the tabs go to the
\* asset store, the tabs into the preferences, and these are flushed.
StoreStep(i) ==
    LET at == saves[i].at
        next == [tokens |-> "put", put |-> "flush"]
    IN /\ saves' = IF at = "flush" THEN RemoveAt(saves, i)
                   ELSE [saves EXCEPT ![i].at = next[at]]
       /\ mem' = IF at = "put" THEN saves[i].snap ELSE mem
       /\ disk' = IF at = "flush" THEN mem ELSE disk
       /\ UNCHANGED <<tabVars, closing, replayVars, restoreVars, saveTimer,
                      lastSnap, overlapped, late, noteVars, ended, pageVars>>

-----------------------------------------------------------------------------
(* The restore of the saved tabs. *)

\* openTab(): the new tab is active and a save is scheduled.
openTab(saved) ==
    /\ nextId <= MaxTabs
    /\ nextId' = nextId + 1
    /\ tabs' = Append(tabs, nextId)
    /\ activeId' = nextId
    /\ runtimes' = runtimes \union {nextId}
    /\ sess' = [sess EXCEPT ![nextId] = saved.sess]
    /\ title' = [title EXCEPT ![nextId] = saved.title]
    /\ running' = running \union {nextId}
    /\ saveTimer' = TRUE
    /\ UNCHANGED liveTitles

\* loadRestoreTabsAndRestore(), up to the first tab.
LoadSession ==
    /\ restore = "load"
    /\ IF ~restoreTabsEnabled \/ disk.tabs = <<>>
       THEN /\ restoreChecked' = TRUE
            /\ restore' = "done"
            /\ UNCHANGED <<tabVars, saveTimer, loaded, ri>>
       ELSE /\ openTab(disk.tabs[1])
            /\ loaded' = disk
            /\ ri' = 1
            /\ restore' = "open"
            /\ UNCHANGED restoreChecked
    /\ UNCHANGED <<closing, replayVars, restoreTabsEnabled, storeVars, saveVars, noteVars,
                   ended, pageVars>>

RestoreNext ==
    /\ restore = "open"
    /\ ri < Len(loaded.tabs)
    /\ openTab(loaded.tabs[ri + 1])
    /\ ri' = ri + 1
    /\ UNCHANGED <<closing, replayVars, restoreTabsEnabled, restoreChecked, restore,
                   loaded, storeVars, saveVars, noteVars, ended, pageVars>>

\* Every tab was created: the saved one becomes active, by its index.
RestoreFinalize ==
    /\ restore = "open"
    /\ ri = Len(loaded.tabs)
    /\ restore' = "reveal"
    /\ IF loaded.active < Len(tabs)
       THEN /\ activeId' = tabs[loaded.active + 1]
            /\ replayLoading' = (tabs[loaded.active + 1] \in replayTabs)
       ELSE UNCHANGED <<activeId, replayLoading>>
    /\ UNCHANGED <<tabs, nextId, runtimes, sess, title, liveTitles, running, closing,
                   replayTabs, restoreTabsEnabled, restoreChecked, loaded, ri, saveTimer,
                   storeVars, saveVars, noteVars, ended, pageVars>>

RestoreReveal ==
    /\ restore = "reveal"
    /\ restore' = "titles"
    /\ restoreChecked' = TRUE
    /\ saveTimer' = TRUE
    /\ UNCHANGED <<tabVars, closing, replayVars, restoreTabsEnabled, loaded, ri,
                   storeVars, saveVars, noteVars, ended, pageVars>>

\* Mutant: the saved titles replace live ones too.
ReapplyAllTitles ==
    /\ restore = "titles"
    /\ restore' = "done"
    /\ loaded' = NoSession /\ ri' = 0
    /\ title' = [t \in TabIds |->
                   LET i == PositionOr(tabs, t, 0)
                   IN IF i \in DOMAIN loaded.tabs
                      THEN loaded.tabs[i].title ELSE title[t]]
    /\ unscheduled' = (unscheduled \/ title' # title)
    /\ UNCHANGED <<tabs, nextId, activeId, runtimes, sess, liveTitles, running, closing,
                   replayVars, restoreTabsEnabled, restoreChecked, saveTimer,
                   storeVars, saveVars, early, ended, pageVars>>

\* The saved titles once more, by the position of the tab.
ReapplyTitles ==
    /\ restore = "titles"
    /\ restore' = "done"
    /\ loaded' = NoSession /\ ri' = 0
    /\ title' = [t \in TabIds |->
                   LET i == PositionOr(tabs, t, 0)
                   IN IF i \in DOMAIN loaded.tabs /\ t \notin liveTitles
                      THEN loaded.tabs[i].title ELSE title[t]]
    /\ unscheduled' = (unscheduled \/ title' # title)
    /\ UNCHANGED <<tabs, nextId, activeId, runtimes, sess, liveTitles, running, closing,
                   replayVars, restoreTabsEnabled, restoreChecked, saveTimer,
                   storeVars, saveVars, early, ended, pageVars>>

-----------------------------------------------------------------------------
(* The user. *)

\* The strip is shown when the restore is over.
OnStrip == page = "shown" /\ restoreChecked

\* The keyboard shortcuts open a tab, close the active one and cycle, at any time.
Shortcut ==
    /\ page = "shown"
    /\ restoreChecked \/ "early" \in kinds
    /\ early' = (early \/ ~restoreChecked)

OpenTab ==
    /\ Shortcut
    /\ openTab([sess |-> None, title |-> None])
    /\ UNCHANGED <<closing, replayVars, restoreVars, storeVars, saveVars, unscheduled, ended, pageVars>>

\* Mutant: the switch is not saved.
SwitchTabUnsaved(t) ==
    /\ Shortcut
    /\ t \in ToSet(tabs) \ {activeId}
    /\ activeId' = t
    /\ replayLoading' = (t \in replayTabs)
    /\ UNCHANGED <<tabs, nextId, runtimes, sess, title, liveTitles, running, closing, replayTabs,
                   restoreVars, saveTimer, storeVars, saveVars, unscheduled, ended, pageVars>>

\* switchTab() of a tab of the strip, cycleTab() and switchToIndex() included.
SwitchTab(t) ==
    /\ Shortcut
    /\ t \in ToSet(tabs) \ {activeId}
    /\ activeId' = t
    /\ replayLoading' = (t \in replayTabs)
    /\ saveTimer' = TRUE
    /\ UNCHANGED <<tabs, nextId, runtimes, sess, title, liveTitles, running, closing,
                   replayTabs, restoreVars, storeVars, saveVars, unscheduled, ended, pageVars>>

\* No save is scheduled.
ReorderTabs(from, to) ==
    /\ "drag" \in kinds
    /\ OnStrip
    /\ from # to
    /\ tabs' = InsertAt(RemoveAt(tabs, from), to, tabs[from])
    /\ unscheduled' = TRUE
    /\ UNCHANGED <<nextId, activeId, runtimes, sess, title, liveTitles, running, closing,
                   replayVars, restoreVars, saveTimer, storeVars, saveVars, early, ended, pageVars>>

\* No save is scheduled, and the title is not marked as a live one.
applyRename(t, text) ==
    /\ "rename" \in kinds /\ t \in Reporters
    /\ OnStrip
    /\ t \in ToSet(tabs)
    /\ title' = [title EXCEPT ![t] = text]
    /\ unscheduled' = TRUE
    /\ UNCHANGED <<tabs, nextId, activeId, runtimes, sess, liveTitles, running, closing,
                   replayVars, restoreVars, saveTimer, storeVars, saveVars, early, ended, pageVars>>

\* closeTab() of each of `ids' in turn: the removal is queued, and the strip does
\* not change before it, so a tab that is being closed may become active.  The
\* stop of a session ends its replay and reports a status, which schedules a save.
closeTabs(ids) ==
    LET neighbour(active, t) ==
            LET remaining == Kept(tabs, TabIds \ {t})
            IN IF active = t /\ remaining # <<>> THEN Last(remaining) ELSE active
        active[n \in 0..Len(ids)] ==
            IF n = 0 THEN activeId ELSE neighbour(active[n - 1], ids[n])
    IN /\ activeId' = active[Len(ids)]
       /\ running' = running \ ToSet(ids)
       /\ closing' = closing \union ToSet(ids)
       /\ replayTabs' = replayTabs \ ToSet(ids)
       /\ replayLoading' = (activeId' \in replayTabs')
       /\ ended' = ended \union ({sess[t] : t \in ToSet(ids)} \ {None})
       /\ saveTimer' = TRUE
       /\ UNCHANGED <<tabs, nextId, runtimes, sess, title, liveTitles, restoreVars,
                      storeVars, saveVars, unscheduled, pageVars>>

CloseTab(t) == Shortcut /\ t \in runtimes /\ (restoreChecked \/ t = activeId) /\ closeTabs(<<t>>)

CloseOtherTabs(t) ==
    /\ OnStrip
    /\ early' = early
    /\ t \in ToSet(tabs)
    /\ Len(tabs) > 1
    /\ closeTabs(Kept(tabs, runtimes \ {t}))

\* Mutant: the removal leaves the active tab alone.
RemoveTabOnly(t) ==
    /\ t \in closing
    /\ closing' = closing \ {t}
    /\ runtimes' = runtimes \ {t}
    /\ tabs' = Kept(tabs, TabIds \ {t})
    /\ sess' = [sess EXCEPT ![t] = None]
    /\ title' = [title EXCEPT ![t] = None]
    /\ saveTimer' = TRUE
    /\ UNCHANGED <<nextId, activeId, liveTitles, running, replayVars,
                   restoreVars, storeVars, saveVars, noteVars, ended, pageVars>>

\* The removal that closeTab() queued.
RemoveTab(t) ==
    /\ t \in closing
    /\ closing' = closing \ {t}
    /\ runtimes' = runtimes \ {t}
    /\ tabs' = Kept(tabs, TabIds \ {t})
    /\ activeId' = IF activeId # t THEN activeId
                   ELSE IF tabs' = <<>> THEN NoTab ELSE Last(tabs')
    /\ sess' = [sess EXCEPT ![t] = None]
    /\ title' = [title EXCEPT ![t] = None]
    /\ saveTimer' = TRUE
    /\ UNCHANGED <<nextId, liveTitles, running, replayVars,
                   restoreVars, storeVars, saveVars, noteVars, ended, pageVars>>

-----------------------------------------------------------------------------
(* Callbacks of the tabs' sessions. *)

\* The socket of a stopped session still reports, until it is closed.
Reports(t) == t < nextId

\* A status, or a directory change.
SessionStatus(t) ==
    /\ Reports(t)
    /\ saveTimer' = TRUE
    /\ UNCHANGED <<tabVars, closing, replayVars, restoreVars, storeVars, saveVars, noteVars,
                   ended, pageVars>>

\* The server names the session: a new one if the tab had none or it died.
SessionNamed(t, s) ==
    /\ "name" \in kinds /\ t \in Reporters
    /\ Reports(t)
    /\ t \in runtimes
    /\ s \notin ended \union Sessions(disk) \union Sessions(lastSnap) \union {sess[u] : u \in TabIds}
    /\ sess' = [sess EXCEPT ![t] = s]
    /\ ended' = ended \union ({sess[t]} \ {None}) \union (IF t \in running THEN {} ELSE {s})
    /\ saveTimer' = TRUE
    /\ UNCHANGED <<tabs, nextId, activeId, runtimes, title, liveTitles, running, closing,
                   replayVars, restoreVars, storeVars, saveVars, noteVars, pageVars>>

\* The program sets the title; nothing of a stopped session is read.
SessionTitle(t) ==
    /\ "title" \in kinds /\ t \in Reporters
    /\ t \in running
    /\ sess[t] # None
    /\ title' = [title EXCEPT ![t] = sess[t]]
    /\ liveTitles' = liveTitles \union {t}
    /\ saveTimer' = TRUE
    /\ UNCHANGED <<tabs, nextId, activeId, runtimes, sess, running, closing,
                   replayVars, restoreVars, storeVars, saveVars, noteVars, ended, pageVars>>

SessionReplay(t) ==
    /\ "replay" \in kinds /\ t \in Reporters
    /\ Reports(t)
    /\ replayTabs' = IF t \in replayTabs THEN replayTabs \ {t} ELSE replayTabs \union {t}
    /\ replayLoading' = IF activeId = t THEN t \in replayTabs' ELSE replayLoading
    /\ UNCHANGED <<tabVars, closing, restoreVars, saveTimer, storeVars, saveVars, noteVars,
                   ended, pageVars>>

-----------------------------------------------------------------------------
(* The life of the page. *)

OnPageHide ==
    /\ page = "shown"
    /\ saveTimer' = FALSE
    /\ doSaveSession
    /\ UNCHANGED <<tabVars, closing, replayVars, restoreVars, storeVars, ended, pageVars>>

\* The tabs are saved at once, then every session is stopped, which reports a
\* status and so schedules another save, then the runtimes are dropped.
AboutToDisappear ==
    /\ page = "shown"
    /\ page' = "gone"
    /\ doSaveSession
    /\ saveTimer' = (runtimes # {})
    /\ running' = {}
    /\ replayTabs' = replayTabs \ runtimes
    /\ replayLoading' = (replayLoading /\ activeId \notin runtimes \intersect replayTabs)
    /\ runtimes' = {}
    /\ UNCHANGED <<tabs, nextId, activeId, sess, title, liveTitles, closing, restoreVars,
                   storeVars, ended, kills, kinds>>

\* The process is killed, whatever it was doing, and started again.
KillAndRestart ==
    /\ kills < MaxKills
    /\ kills' = kills + 1 /\ kinds' \in Kinds[kills + 2]
    /\ FreshPage
    /\ UNCHANGED <<restoreTabsEnabled, disk, ended>>

Next ==
    \/ LoadSession
    \/ RestoreNext
    \/ RestoreFinalize
    \/ RestoreReveal
    \/ ReapplyTitles
    \/ OpenTab
    \/ OnPageHide
    \/ AboutToDisappear
    \/ KillAndRestart
    \/ SaveTimerFires
    \/ \E i \in 1..Len(saves) : StoreStep(i)
    \/ \E t \in TabIds :
         \/ SwitchTab(t)
         \/ CloseTab(t)
         \/ CloseOtherTabs(t)
         \/ RemoveTab(t)
         \/ SessionStatus(t)
         \/ SessionTitle(t)
         \/ SessionReplay(t)
         \/ \E s \in SessionIds : SessionNamed(t, s)
         \/ \E text \in Texts : applyRename(t, text)
    \/ \E from, to \in 1..Len(tabs) : ReorderTabs(from, to)

Safety == Init /\ [][Next]_vars

-----------------------------------------------------------------------------
(* Properties. *)

\* Whatever is closed, in bursts too, the active tab is a tab of the strip.
ActiveIsOpen == activeId \in ToSet(tabs) \/ (tabs = <<>> /\ activeId = NoTab)

\* No session runs on without its tab: what is not in the map is stopped, and a
\* tab of the strip that lost its runtime is about to go or the page is gone.
SessionsHaveTabs ==
    /\ running \subseteq runtimes \ closing
    /\ page = "shown" => runtimes = ToSet(tabs)

\* The sessions of a strip and the one that is shown, in whatever order and with
\* whatever titles.
Content(saved) ==
    [tabs |-> Len(saved.tabs), sessions |-> Sessions(saved),
     shows |-> IF saved.tabs = <<>> THEN None ELSE saved.tabs[saved.active + 1].sess]

\* Once the restore is over, the tabs are as they were last saved, in the same order
\* and with the same titles, or a save is scheduled, or a removal that will schedule
\* one.  Dragging and renaming tabs, and the titles that are applied once more,
\* schedule none: what they change is order and titles, nothing else, and it stays
\* unsaved until something else is saved.  So does what shortcuts did while
\* nothing was saved yet.
ChangesAreSaved ==
    page = "shown" /\ restoreTabsEnabled /\ restoreChecked =>
        \/ snapshot = lastSnap
        \/ unscheduled /\ Content(snapshot) = Content(lastSnap)
        \/ early
        \/ saveTimer
        \/ closing # {}

\* As soon as no save is in flight, the disk has what was written last, and it is
\* the newest state unless that save began while another was in flight.  Index.ets:791
\* says the debounce alone "prevents the race where multiple async saveSession() calls
\* complete out of order and a stale snapshot overwrites the latest one": it does not,
\* since doSaveSession() does not await (Index.ets:843).
NewestSaveWins == saves = <<>> => disk = mem /\ (mem = lastSnap \/ overlapped)

\* What is on the screen, running and saved belong together, whatever was closed,
\* restored or reported meanwhile.
TabsAreConsistent == TypeOK /\ ActiveIsOpen /\ SessionsHaveTabs

\* What is to be saved is scheduled, and a save that no other overlaps is on the disk
\* when it ends.
SavesAreCurrent == ChangesAreSaved /\ NewestSaveWins

\* A session that was saved is not lost to the next start, through kills, half-restored
\* pages, shortcuts and teardowns: it leaves the disk only after its tab was closed or
\* it was replaced, or because a save overlapped another, or began after the page had
\* disappeared and its runtimes with it.
NoTabForgotten ==
    [][\A s \in Sessions(disk) \ Sessions(disk') : s \in ended' \/ overlapped \/ late]_vars

\* The restore brings back every saved session before the page is revealed, but for
\* those that ended meanwhile.  If no shortcut came between, each tab is in its place,
\* none is added, and the tab that was active is.
RestoreIsComplete ==
    [][page = "shown" /\ ~restoreChecked /\ restoreChecked' /\ restoreTabsEnabled =>
          /\ \A s \in Sessions(disk) : s \in ended' \/ \E t \in ToSet(tabs') : sess'[t] = s
          /\ ~early =>
                /\ Len(tabs') = Len(disk.tabs)
                /\ \A i \in DOMAIN tabs' : disk.tabs[i].sess \in {sess'[tabs'[i]], None} \union ended'
                /\ tabs' # <<>> => activeId' = tabs'[disk.active + 1]]_vars

\* The saved titles that are applied once more never replace a title the program
\* of the tab has set (Index.ets:104).
LiveTitleWins ==
    [][restore = "titles" /\ restore' = "done" => \A t \in liveTitles : title'[t] = title[t]]_vars

=============================================================================
