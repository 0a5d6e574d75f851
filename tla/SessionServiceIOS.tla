------------------------- MODULE SessionServiceIOS --------------------------
(***************************************************************************)
(* When the tabs reach the disk and how they come back: SessionServiceIOS   *)
(* (chrome/browser/sessions/session_service_ios.mm), the two TabModels that *)
(* use it, the destruction of the incognito one                            *)
(* (browser_view_wrangler.mm, main_controller.mm), the flag of a clean exit *)
(* (application_context_impl.cc) and the session set aside after a crash    *)
(* (crash_restore_helper.mm).                                              *)
(*                                                                         *)
(* A save runs a factory on the main thread, at once or after a delay, and  *)
(* posts the data to a sequenced task runner.  A session is the set of its  *)
(* tabs: what a session window looks like is the subject of                *)
(* WebStateListSerialization.                                              *)
(***************************************************************************)
EXTENDS Naturals, Sequences

CONSTANTS
    Tabs,        \* the tabs there may be
    MaxEvents    \* bound on what the user, the pages and the system do

ASSUME SessionAssumption == MaxEvents \in Nat

VARIABLES
    app,            \* the process: "active", in the "background" or "gone"
    tabs,           \* the tabs of each TabModel
    pending,        \* _pendingSessions: a factory, its TabModel there or not
    timer,          \* the delayed performSaveToPathInBackground:
    queue,          \* the tasks of _taskRunner
    deletions,      \* posted calls of -deleteIncognitoBrowserState
    infobar,        \* the offer to restore the crashed session is shown
    clean,          \* kLastSessionExitedCleanly
    disk,           \* session.plist of each state path
    backup,         \* session.bak
    clean_on_disk,  \* kLastSessionExitedCleanly in the preference file
    requested,      \* history: a save was requested after the last change of the tabs
    swept,          \* history: -deleteIncognitoBrowserState closed a tab
    ended,          \* history: the main tabs when the process ended, and what was on disk
    events

memory == <<tabs, pending, timer, deletions, infobar, clean>>
files == <<disk, backup, clean_on_disk>>
history == <<requested, swept, ended>>
vars == <<app, memory, queue, files, history, events>>

Models == {"main", "otr"}

\* The content of a session file: a session, the archive of nil, or no file.
Content == [kind : {"session", "nil", "none"}, tabs : SUBSET Tabs]
Session(ts) == [kind |-> "session", tabs |-> ts]
NilSession == [kind |-> "nil", tabs |-> {}]
NoFile == [kind |-> "none", tabs |-> {}]

\* The tasks of the runner.
Task == [path : Models, data : Content]
Write(p, data) == [path |-> p, data |-> data]
Delete(p) == Write(p, NoFile)

\* -loadSessionFromPath: no file and an archive of nil give no window to restore.
LoadSession(content) == content.tabs

\* The file of p has this content once the tasks of the queue have run: the last
\* task for p decides, or the disk.
EndsAs(p, content) ==
    \/ \E i \in DOMAIN queue :
           /\ queue[i].path = p
           /\ queue[i].data = content
           /\ \A j \in DOMAIN queue : queue[j].path = p => j <= i
    \/ /\ \A i \in DOMAIN queue : queue[i].path # p
       /\ disk[p] = content

\* The session restored from that content has these tabs.
WillRestore(p, ts) == \E content \in Content : EndsAs(p, content) /\ LoadSession(content) = ts

Event == events < MaxEvents /\ events' = events + 1
Running == app # "gone"

-----------------------------------------------------------------------------
(* The session service.                                                    *)

\* Mutant of SaveLater: a call is ignored while another one is pending.
SaveLaterIgnored(p) ==
    /\ pending' = [pending EXCEPT ![p] = IF @ = "none" THEN "live" ELSE @]
    /\ timer' = [timer EXCEPT ![p] = @ \/ pending[p] = "none"]

\* -saveSession:directory:immediately: with NO: a new factory replaces the old.
SaveLater(p) ==
    /\ pending' = [pending EXCEPT ![p] = "live"]
    /\ timer' = [timer EXCEPT ![p] = @ \/ pending[p] = "none"]

\* -saveSession:directory:immediately: with YES, on the service's record of saves:
\* the delayed saves of every path are cancelled, the factory of p alone is used up.
SaveImmediately(p, saves) ==
    [pending |-> [saves.pending EXCEPT ![p] = "none"],
     timer |-> [q \in Models |-> FALSE],
     queue |-> Append(saves.queue, Write(p, Session(tabs[p])))]

\* Both models save, one after the other.
SaveNow ==
    LET before == [pending |-> pending, timer |-> timer, queue |-> queue]
        after == SaveImmediately("otr", SaveImmediately("main", before))
    IN  /\ pending' = after.pending
        /\ timer' = after.timer
        /\ queue' = after.queue

\* Mutant of PerformSave: the factory stays in _pendingSessions.
PerformSaveKept(p) ==
    /\ Running /\ timer[p]
    /\ timer' = [timer EXCEPT ![p] = FALSE]
    /\ queue' = Append(queue, Write(p, IF pending[p] = "live" THEN Session(tabs[p]) ELSE NilSession))
    /\ UNCHANGED <<app, tabs, pending, deletions, infobar, clean, files, history, events>>

\* -performSaveToPathInBackground: after the delay.
PerformSave(p) ==
    /\ Running /\ timer[p]
    /\ timer' = [timer EXCEPT ![p] = FALSE]
    /\ pending' = [pending EXCEPT ![p] = "none"]
    /\ queue' = Append(queue, Write(p, IF pending[p] = "live" THEN Session(tabs[p]) ELSE NilSession))
    /\ UNCHANGED <<app, tabs, deletions, infobar, clean, files, history, events>>

\* Mutant of RunTask: the last task posted runs first.
RunLastTask ==
    /\ Running /\ queue # << >>
    /\ disk' = [disk EXCEPT ![queue[Len(queue)].path] = queue[Len(queue)].data]
    /\ queue' = SubSeq(queue, 1, Len(queue) - 1)
    /\ UNCHANGED <<app, memory, backup, clean_on_disk, history, events>>

\* -performSaveSessionData:sessionPath: or the block of
\* -deleteLastSessionFileInDirectory: on the task runner.  Writes are atomic.
RunTask ==
    /\ Running /\ queue # << >>
    /\ disk' = [disk EXCEPT ![Head(queue).path] = Head(queue).data]
    /\ queue' = Tail(queue)
    /\ UNCHANGED <<app, memory, backup, clean_on_disk, history, events>>

-----------------------------------------------------------------------------
(* The tabs.  save says whether the new selected tab has finished loading,   *)
(* in which case TabModelSelectedTabObserver saves.                        *)

SaveIf(save, p) == IF save THEN SaveLater(p) ELSE UNCHANGED <<pending, timer>>

OpenTab(p, tab, save) ==
    /\ app = "active" /\ Event
    /\ tab \notin tabs[p] /\ ~ (infobar /\ p = "main" /\ tab \in LoadSession(backup))
    /\ tabs' = [tabs EXCEPT ![p] = @ \cup {tab}]
    /\ SaveIf(save, p)
    /\ requested' = [requested EXCEPT ![p] = save]
    /\ UNCHANGED <<app, queue, deletions, infobar, clean, files, swept, ended>>

\* -tabLoadComplete:withSuccess:.
LoadComplete(p) ==
    /\ Running /\ Event
    /\ tabs[p] # {}
    /\ SaveLater(p)
    /\ requested' = [requested EXCEPT ![p] = TRUE]
    /\ UNCHANGED <<app, tabs, queue, deletions, infobar, clean, files, swept, ended>>

\* Mutant of LastIncognitoTabClosed: the session file is left to the next save.
LastIncognitoTabKept ==
    /\ deletions' = deletions + 1
    /\ UNCHANGED queue

\* -lastIncognitoTabClosed: the session is deleted, and the browser state is once
\* the requests of its tabs are gone.
LastIncognitoTabClosed ==
    /\ deletions' = deletions + 1
    /\ queue' = Append(queue, Delete("otr"))

\* Closing the active tab (always so for the only one) saves, closing another one
\* does not.
CloseTab(p, tab, active) ==
    LET last == tabs[p] = {tab}
    IN  /\ app = "active" /\ Event
        /\ tab \in tabs[p] /\ (last => active)
        /\ tabs' = [tabs EXCEPT ![p] = @ \ {tab}]
        /\ SaveIf(active, p)
        /\ requested' = [requested EXCEPT ![p] = active]
        /\ IF last /\ p = "otr" THEN LastIncognitoTabClosed /\ swept' = FALSE
           ELSE UNCHANGED <<queue, deletions, swept>>
        /\ UNCHANGED <<app, infobar, clean, files, ended>>

\* -deleteIncognitoTabModelState: the model is destroyed, with any tab opened since
\* the last one was closed, and an empty one takes its place.  The factory of a
\* delayed save holds the old model weakly.
DeleteIncognitoTabModelState ==
    /\ Running /\ deletions > 0
    /\ deletions' = deletions - 1
    /\ tabs' = [tabs EXCEPT !["otr"] = {}]
    /\ pending' = [pending EXCEPT !["otr"] = IF @ = "live" THEN "gone" ELSE @]
    /\ requested' = [requested EXCEPT !["otr"] = FALSE]
    /\ swept' = (swept \/ tabs["otr"] # {})
    /\ UNCHANGED <<app, timer, queue, infobar, clean, files, ended, events>>

\* Clearing the browsing history deletes the session of the open tabs.
ClearHistory ==
    /\ app = "active" /\ Event
    /\ queue' = Append(queue, Delete("main"))
    /\ requested' = [requested EXCEPT !["main"] = FALSE]
    /\ UNCHANGED <<app, memory, files, swept, ended>>

-----------------------------------------------------------------------------
(* The process.                                                            *)

\* -applicationDidEnterBackground: of both models and OnAppEnterBackground.
EnterBackground ==
    /\ app = "active" /\ Event
    /\ app' = "background"
    /\ SaveNow
    /\ clean' = TRUE
    /\ requested' = [p \in Models |-> TRUE]
    /\ swept' = FALSE
    /\ UNCHANGED <<tabs, deletions, infobar, files, ended>>

\* OnAppEnterForeground.
EnterForeground ==
    /\ app = "background" /\ Event
    /\ app' = "active"
    /\ clean' = FALSE
    /\ UNCHANGED <<tabs, pending, timer, deletions, infobar, queue, files, history>>

\* The preferences are written on a thread of their own.
CommitPendingWrite ==
    /\ Running /\ clean_on_disk # clean
    /\ clean_on_disk' = clean
    /\ UNCHANGED <<app, memory, queue, disk, backup, history, events>>

\* The process ends and its memory is lost; the history notes its main tabs, and
\* whether all of them had been saved.
Leave ==
    /\ app' = "gone"
    /\ ended' = [tabs |-> tabs["main"], file |-> LoadSession(disk'["main"]),
                 saved |-> requested["main"] /\ pending["main"] = "none" /\
                           EndsAs("main", disk'["main"])]
    /\ tabs' = [p \in Models |-> {}]
    /\ pending' = [p \in Models |-> "none"]
    /\ timer' = [p \in Models |-> FALSE]
    /\ queue' = << >>
    /\ deletions' = 0
    /\ infobar' = FALSE
    /\ clean' = FALSE
    /\ requested' = [p \in Models |-> TRUE]
    /\ swept' = FALSE
    /\ UNCHANGED backup

\* A crash, or the system kills the process: what is not on disk is lost.
Die ==
    /\ Running /\ Event
    /\ UNCHANGED <<disk, clean_on_disk>>
    /\ Leave

\* -applicationWillTerminate:: the models are destroyed without a save, the
\* preferences committed, and the tasks of the runner block the shutdown.
Terminate ==
    /\ Running /\ Event
    /\ disk' \in [Models -> Content]
    /\ \A p \in Models : EndsAs(p, disk'[p])
    /\ clean_on_disk' = clean
    /\ Leave

\* A new process with the tabs open; the flag of a clean exit is reset.
Start(open) ==
    /\ app = "gone" /\ Event
    /\ app' = "active"
    /\ tabs' = open
    /\ UNCHANGED <<pending, timer, deletions, clean, clean_on_disk, history>>

\* -mustShowRestoreInfobar is false: the last exit was clean, or this is the first
\* launch after an upgrade.
Launch(upgrade) ==
    /\ clean_on_disk \/ upgrade
    /\ Start([p \in Models |-> LoadSession(disk[p])])
    /\ UNCHANGED <<queue, infobar, disk, backup>>

\* Mutant of MoveAsideSessionInformation: the files are deleted before the copy.
MoveAsideTooLate ==
    /\ infobar' = (disk["main"] # NoFile)
    /\ disk' = [p \in Models |-> NoFile]
    /\ UNCHANGED backup

\* Mutant of MoveAsideSessionInformation: the missing session is not noticed.
MoveAsideUnchecked ==
    /\ infobar' = TRUE
    /\ backup' = IF disk["main"] = NoFile THEN backup ELSE disk["main"]
    /\ disk' = [p \in Models |-> NoFile]

\* -moveAsideSessionInformation.
MoveAsideSessionInformation ==
    /\ infobar' = (disk["main"] # NoFile)
    /\ backup' = IF disk["main"] = NoFile THEN backup ELSE disk["main"]
    /\ disk' = [p \in Models |-> NoFile]

\* The launch after a crash; -clearIOSSpecificIncognitoData deletes once more.
LaunchAfterCrash ==
    /\ ~ clean_on_disk
    /\ MoveAsideSessionInformation
    /\ Start([p \in Models |-> {}])
    /\ queue' = Append(queue, Delete("otr"))

\* -restoreSessionsAfterCrash; clobber: the only tab showed the NTP and is closed.
RestoreSessionsAfterCrash(clobber, save) ==
    /\ app = "active" /\ Event
    /\ infobar
    /\ infobar' = FALSE
    /\ tabs' = [tabs EXCEPT !["main"] =
                   LoadSession(backup) \cup
                   (IF clobber /\ LoadSession(backup) # {} /\ (\A s, t \in @ : s = t)
                    THEN {} ELSE @)]
    /\ SaveIf(save, "main")
    /\ requested' = [requested EXCEPT !["main"] = save]
    /\ UNCHANGED <<app, deletions, clean, queue, files, swept, ended>>

\* -infoBarRemoved: the tabs go to the recently closed ones.
InfoBarRemoved ==
    /\ app = "active" /\ Event
    /\ infobar
    /\ infobar' = FALSE
    /\ UNCHANGED <<app, tabs, pending, timer, deletions, clean, queue, files, history>>

-----------------------------------------------------------------------------

\* The first launch after the installation.
Init ==
    /\ app = "active"
    /\ tabs = [p \in Models |-> {}]
    /\ pending = [p \in Models |-> "none"]
    /\ timer = [p \in Models |-> FALSE]
    /\ queue = << >>
    /\ deletions = 0
    /\ infobar = FALSE
    /\ clean = FALSE
    /\ disk = [p \in Models |-> NoFile]
    /\ backup = NoFile
    /\ clean_on_disk = FALSE
    /\ requested = [p \in Models |-> TRUE]
    /\ swept = FALSE
    /\ ended = [tabs |-> {}, file |-> {}, saved |-> FALSE]
    /\ events = 0

TabStep ==
    \/ \E p \in Models, tab \in Tabs, flag \in BOOLEAN :
           OpenTab(p, tab, flag) \/ CloseTab(p, tab, flag)
    \/ \E p \in Models : LoadComplete(p)
    \/ ClearHistory
    \/ \E clobber, save \in BOOLEAN : RestoreSessionsAfterCrash(clobber, save)
    \/ InfoBarRemoved

ProcessStep ==
    \/ EnterBackground \/ EnterForeground
    \/ Die \/ Terminate
    \/ \E upgrade \in BOOLEAN : Launch(upgrade)
    \/ LaunchAfterCrash

Next ==
    \/ TabStep
    \/ ProcessStep
    \/ \E p \in Models : PerformSave(p)
    \/ RunTask
    \/ DeleteIncognitoTabModelState
    \/ CommitPendingWrite

\* Delays end and posted tasks run.
Fairness ==
    /\ \A p \in Models : WF_vars(PerformSave(p))
    /\ WF_vars(RunTask)
    /\ WF_vars(DeleteIncognitoTabModelState)
    /\ WF_vars(CommitPendingWrite)

Spec == Init /\ [][Next]_vars /\ Fairness

-----------------------------------------------------------------------------
(* Properties.                                                             *)

\* Every variable has its type; a delayed save is pending exactly while its timer
\* runs.
TypeOK ==
    /\ app \in {"active", "background", "gone"}
    /\ tabs \in [Models -> SUBSET Tabs]
    /\ pending \in [Models -> {"none", "live", "gone"}]
    /\ timer \in [Models -> BOOLEAN]
    /\ \A p \in Models : timer[p] <=> pending[p] # "none"
    /\ queue \in Seq(Task)
    /\ deletions \in Nat
    /\ infobar \in BOOLEAN /\ clean \in BOOLEAN /\ clean_on_disk \in BOOLEAN
    /\ disk \in [Models -> Content]
    /\ backup \in Content
    /\ requested \in [Models -> BOOLEAN]
    /\ swept \in BOOLEAN
    /\ ended \in [tabs : SUBSET Tabs, file : SUBSET Tabs, saved : BOOLEAN]
    /\ events \in 0 .. MaxEvents

\* No save that was asked for is lost: it waits with the factory of the present
\* model, or what the runner leaves on disk are the tabs, whatever saves, deletions
\* and replacements of the incognito model came in between.
NoSaveLost ==
    Running => \A p \in Models :
        requested[p] => pending[p] = "live" \/ WillRestore(p, tabs[p])

\* In the background both sessions are, or are about to be, what the user left.
SavedInBackground ==
    app = "background" => \A p \in Models :
        (p = "otr" => ~ swept) => WillRestore(p, tabs[p])

\* Once the last incognito tab was closed no session with incognito tabs stays
\* on disk, whatever delayed or immediate saves were under way, unless the deletion
\* of the browser state itself closed a tab.
IncognitoGone ==
    Running /\ tabs["otr"] = {} /\ ~ swept => WillRestore("otr", {})

\* The infobar offers the session that was on disk when the process ended, not the
\* one of an earlier crash.
InfobarHonest == Running /\ infobar => LoadSession(backup) = ended.file

\* Tabs whose save had reached the disk are open after the next launch, or offered.
RestartKeepsTabs ==
    [][app = "gone" /\ Running' /\ ended.saved =>
           \/ tabs'["main"] = ended.tabs
           \/ infobar' /\ LoadSession(backup') = ended.tabs]_vars

\* With the application in the foreground, what was asked to be saved reaches the
\* disk.
SavedEventually ==
    \A p \in Models : <>[](app = "active" /\ requested[p]) =>
        <>[](LoadSession(disk[p]) = tabs[p])
=============================================================================
