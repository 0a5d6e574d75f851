--------------------- MODULE ReadingListDownloadService ---------------------
(***************************************************************************)
(* Which reading list entries are downloaded, when and how often:           *)
(* ReadingListDownloadService                                              *)
(* (chrome/browser/reading_list/reading_list_download_service.cc), the      *)
(* client of URLDownloader.                                                *)
(*                                                                         *)
(* The reading list model is not in the tree: entries are added, removed,   *)
(* marked read or unread by the user or by sync, are saved, and keep their  *)
(* state when the process dies.  Everything else but the disk is lost then. *)
(* Delays are abstracted: a scheduled download runs at any later time.      *)
(***************************************************************************)
EXTENDS URLDownloader

CONSTANTS
    NumberOfFailsBeforeWifiOnly,   \* kNumberOfFailsBeforeWifiOnly (5)
    NumberOfFailsBeforeStop,       \* kNumberOfFailsBeforeStop (7)
    MaxEvents    \* bound on changes of the reading list or of the connection
                 \* and on restarts of the process, together

ASSUME ServiceAssumption ==
    /\ NumberOfFailsBeforeWifiOnly \in Nat
    /\ NumberOfFailsBeforeStop \in Nat \ {0}
    /\ NumberOfFailsBeforeWifiOnly <= NumberOfFailsBeforeStop
    /\ MaxEvents \in Nat

VARIABLES
    entries,          \* the reading list model
    loaded,           \* reading_list_model_->loaded()
    sync,             \* the CleanUpFiles task of SyncWithModel and its reply
    scheduled,        \* posted DownloadEntry tasks, per URL
    cellular,         \* url_to_download_cellular_, per URL
    wifi,             \* url_to_download_wifi_, per URL
    connection,       \* the connection of the device
    notifications,    \* connection types the observer has not seen yet
    had_connection,   \* had_connection_
    events            \* changes, connections and restarts so far

servicevars == <<entries, loaded, sync, scheduled, cellular, wifi>>
netvars == <<connection, notifications, had_connection>>
vars == <<downloadervars, servicevars, netvars, events>>

States == {"WAITING", "PROCESSING", "WILL_RETRY", "PROCESSED", "DISTILLATION_ERROR"}
Entry == [state : States, read : BOOLEAN, failures : 0 .. NumberOfFailsBeforeStop]
NoEntry == [state |-> "none", read |-> FALSE, failures |-> 0]
NewEntry == [state |-> "WAITING", read |-> FALSE, failures |-> 0]
Has(u) == entries[u] # NoEntry

Connections == {"none", "cellular", "wifi"}
NoSync == [at |-> "none", processed |-> {}, unprocessed |-> {}]
Sync == [at : {"none", "posted", "done"}, processed : SUBSET URLs,
         unprocessed : SUBSET URLs]
Nobody == [u \in URLs |-> 0]
More(f, u) == [f EXCEPT ![u] = @ + 1]

-----------------------------------------------------------------------------
(* The reading list model, as this service uses it.                        *)

\* Mutant of SetEntryDistilledState: every failure reported counts.
CountEveryFailure(u, state) ==
    LET fails == state \in {"WILL_RETRY", "DISTILLATION_ERROR"}
    IN entries' = IF ~ Has(u) THEN entries
                  ELSE [entries EXCEPT ![u].state = state,
                                       ![u].failures = IF fails THEN @ + 1 ELSE @]

\* ReadingListEntry::SetDistilledState: a failure counts when it ends an attempt.
SetEntryDistilledState(u, state) ==
    LET fails == /\ state \in {"WILL_RETRY", "DISTILLATION_ERROR"}
                 /\ entries[u].state \notin {"WILL_RETRY", "DISTILLATION_ERROR"}
    IN entries' = IF ~ Has(u) THEN entries
                  ELSE [entries EXCEPT ![u].state = state,
                                       ![u].failures = IF fails THEN @ + 1 ELSE @]

SetEntryDistilledInfo(u) ==
    entries' = IF ~ Has(u) THEN entries
               ELSE [entries EXCEPT ![u].state = "PROCESSED", ![u].failures = 0]

-----------------------------------------------------------------------------
(* Scheduling.                                                             *)

\* The test at the head of ScheduleDownloadEntry and DownloadEntry, on e.
Wanted(e) ==
    /\ e # NoEntry
    /\ e.state \notin {"DISTILLATION_ERROR", "PROCESSED"}
    /\ ~ e.read

\* ScheduleDownloadEntry n[u] times for each URL u, with the entries es.
ScheduleDownloadEntry(es, n) ==
    scheduled' = [u \in URLs |-> IF Wanted(es[u]) THEN scheduled[u] + n[u] ELSE scheduled[u]]

\* ProcessNewEntry for u, whose entry is now e.
ProcessNewEntry(u, e) ==
    /\ entries' = [entries EXCEPT ![u] = e]
    /\ IF e.read
       THEN CancelDownloadOfflineURL(u) /\ UNCHANGED scheduled
       ELSE ScheduleDownloadEntry(entries', More(Nobody, u)) /\ UNCHANGED downloadervars

ReadingListDidAddEntry(u) ==
    /\ loaded /\ ~ Has(u)
    /\ ProcessNewEntry(u, NewEntry)
    /\ UNCHANGED <<loaded, sync, cellular, wifi, netvars>>

ReadingListDidMoveEntry(u) ==
    /\ loaded /\ Has(u)
    /\ ProcessNewEntry(u, [entries[u] EXCEPT !.read = ~ @])
    /\ UNCHANGED <<loaded, sync, cellular, wifi, netvars>>

\* Mutant of RemoveDownloadedEntry: downloads are cancelled, nothing is deleted.
CancelOnly(u) == CancelDownloadOfflineURL(u)

RemoveDownloadedEntry(u) == RemoveOfflineURL(u)

ReadingListWillRemoveEntry(u) ==
    /\ loaded /\ Has(u)
    /\ RemoveDownloadedEntry(u)
    /\ entries' = [entries EXCEPT ![u] = NoEntry]
    /\ UNCHANGED <<loaded, sync, scheduled, cellular, wifi, netvars>>

\* DownloadEntry without a connection.
Park(u) ==
    /\ cellular' = IF entries[u].failures < NumberOfFailsBeforeWifiOnly
                   THEN More(cellular, u) ELSE cellular
    /\ wifi' = IF entries[u].failures < NumberOfFailsBeforeStop THEN More(wifi, u) ELSE wifi

\* DownloadEntry for an entry still wanted.
TryEntry(u) ==
    IF connection = "none"
    THEN Park(u) /\ UNCHANGED <<entries, downloadervars>>
    ELSE IF entries[u].failures < NumberOfFailsBeforeWifiOnly \/
            (entries[u].failures < NumberOfFailsBeforeStop /\ connection = "wifi")
    THEN /\ SetEntryDistilledState(u, "PROCESSING")
         /\ DownloadOfflineURL(u)
         /\ UNCHANGED <<cellular, wifi>>
    ELSE /\ wifi' = IF entries[u].failures < NumberOfFailsBeforeStop THEN More(wifi, u)
                    ELSE wifi
         /\ UNCHANGED <<entries, cellular, downloadervars>>

DownloadEntry(u) ==
    /\ scheduled[u] > 0
    /\ scheduled' = [scheduled EXCEPT ![u] = @ - 1]
    /\ IF Wanted(entries[u]) THEN TryEntry(u)
       ELSE UNCHANGED <<entries, cellular, wifi, downloadervars>>
    /\ UNCHANGED <<loaded, sync, netvars>>

-----------------------------------------------------------------------------
(* The end of a download.                                                  *)

\* OnDownloadEnd with DOWNLOAD_SUCCESS and a path.
DownloadSucceeded(u) ==
    /\ SetEntryDistilledInfo(u)
    /\ UNCHANGED scheduled

\* Mutant of DownloadErred: the last failure is retried as well.
DownloadErredOnceMore(u) ==
    IF Has(u) /\ entries[u].failures < NumberOfFailsBeforeStop
    THEN /\ SetEntryDistilledState(u, "WILL_RETRY")
         /\ ScheduleDownloadEntry(entries', More(Nobody, u))
    ELSE /\ SetEntryDistilledState(u, "DISTILLATION_ERROR")
         /\ UNCHANGED scheduled

\* OnDownloadEnd with ERROR, or with any outcome and no path.
DownloadErred(u) ==
    IF Has(u) /\ entries[u].failures + 1 < NumberOfFailsBeforeStop
    THEN /\ SetEntryDistilledState(u, "WILL_RETRY")
         /\ ScheduleDownloadEntry(entries', More(Nobody, u))
    ELSE /\ SetEntryDistilledState(u, "DISTILLATION_ERROR")
         /\ UNCHANGED scheduled

\* The replies that end a download, with the OnDownloadEnd they run.  DownloadURL
\* passes no path with DOWNLOAD_EXISTS.
OnDownloadEnd ==
    /\ \/ SaveSucceeded /\ DownloadSucceeded(wait.url)
       \/ CleanedUp /\ DownloadErred(wait.url)
       \/ DownloadURLExists /\ DownloadErred(wait.url)
    /\ UNCHANGED <<loaded, sync, cellular, wifi, netvars>>

-----------------------------------------------------------------------------
(* Loading the model and cleaning up after the previous run.               *)

SyncWithModel ==
    /\ ~ loaded
    /\ loaded' = TRUE
    /\ sync' = [at |-> "posted",
                processed |-> {u \in URLs : entries[u].state = "PROCESSED"},
                unprocessed |-> {u \in URLs : entries[u].state \in
                                              {"WAITING", "PROCESSING", "WILL_RETRY"}}]
    /\ UNCHANGED <<downloadervars, entries, scheduled, cellular, wifi, netvars, events>>

\* On the FILE thread.
CleanUpFiles ==
    /\ sync.at = "posted"
    /\ sync' = [sync EXCEPT !.at = "done"]
    /\ disk' = [u \in URLs |-> IF u \in sync.processed THEN disk[u] ELSE "absent"]
    /\ UNCHANGED <<queuevars, pagevars, entries, loaded, scheduled, cellular, wifi,
                   netvars, events>>

DownloadUnprocessedEntries ==
    /\ sync.at = "done"
    /\ sync' = NoSync
    /\ ScheduleDownloadEntry(entries, [u \in URLs |-> IF u \in sync.unprocessed THEN 1 ELSE 0])
    /\ UNCHANGED <<downloadervars, entries, loaded, cellular, wifi, netvars, events>>

-----------------------------------------------------------------------------
(* The network.                                                            *)

\* The lists are not emptied.
OnConnectionTypeChanged(type) ==
    /\ had_connection' = (type # "none")
    /\ IF type = "none" THEN UNCHANGED scheduled
       ELSE ScheduleDownloadEntry(entries,
                [u \in URLs |-> (IF had_connection THEN 0 ELSE cellular[u]) +
                                (IF type = "wifi" THEN wifi[u] ELSE 0)])

ConnectionNotified ==
    /\ notifications # << >>
    /\ OnConnectionTypeChanged(Head(notifications))
    /\ notifications' = Tail(notifications)
    /\ UNCHANGED <<downloadervars, entries, loaded, sync, cellular, wifi, connection, events>>

ConnectionChanges(type) ==
    /\ events < MaxEvents
    /\ type # connection
    /\ connection' = type
    /\ notifications' = Append(notifications, type)
    /\ events' = events + 1
    /\ UNCHANGED <<downloadervars, servicevars, had_connection>>

-----------------------------------------------------------------------------
\* A new downloader and a new service.
ServiceInit ==
    /\ loaded = FALSE
    /\ sync = NoSync
    /\ scheduled = Nobody
    /\ cellular = Nobody
    /\ wifi = Nobody
    /\ notifications = << >>
    /\ had_connection = (connection # "none")

Init ==
    /\ DownloaderInit
    /\ disk = [u \in URLs |-> "absent"]
    /\ entries = [u \in URLs |-> NoEntry]
    /\ connection \in Connections
    /\ ServiceInit
    /\ events = 0

\* The process dies and is started again.
Restart ==
    /\ events < MaxEvents
    /\ events' = events + 1
    /\ DownloaderRestart
    /\ loaded' = FALSE
    /\ sync' = NoSync
    /\ scheduled' = Nobody
    /\ cellular' = Nobody
    /\ wifi' = Nobody
    /\ notifications' = << >>
    /\ had_connection' = (connection # "none")
    /\ UNCHANGED <<disk, entries, connection>>

ListChange ==
    /\ events < MaxEvents
    /\ events' = events + 1
    /\ \E u \in URLs : \/ ReadingListDidAddEntry(u)
                       \/ ReadingListDidMoveEntry(u)
                       \/ ReadingListWillRemoveEntry(u)

\* The FILE thread runs its tasks in order: CleanUpFiles is posted when the model
\* is loaded, before the first task of the downloader.
DownloaderStep ==
    /\ \/ sync.at # "posted" /\ FileStep
       \/ WebStep
       \/ DeleteCompletionHandler
       \/ DownloadURL
       \/ SaveFailed
    /\ UNCHANGED <<servicevars, netvars, events>>

Next ==
    \/ ListChange
    \/ SyncWithModel \/ CleanUpFiles \/ DownloadUnprocessedEntries
    \/ (\E u \in URLs : DownloadEntry(u)) /\ UNCHANGED events
    \/ DownloaderStep
    \/ OnDownloadEnd /\ UNCHANGED events
    \/ ConnectionNotified
    \/ \E type \in Connections : ConnectionChanges(type)
    \/ Restart

\* Every posted task runs, and the distiller and the fetcher answer.
Fairness ==
    /\ WF_vars(SyncWithModel \/ CleanUpFiles \/ DownloadUnprocessedEntries)
    /\ \A u \in URLs : WF_vars(DownloadEntry(u) /\ UNCHANGED events)
    /\ WF_vars(DownloaderStep \/ (OnDownloadEnd /\ UNCHANGED events))
    /\ WF_vars(ConnectionNotified)

Spec == Init /\ [][Next]_vars /\ Fairness

-----------------------------------------------------------------------------
(* Properties.                                                             *)

\* Every variable has its type.
TypeOK ==
    /\ tasks \in Seq(Task)
    /\ working \in BOOLEAN
    /\ wait \in Wait
    /\ original_url \in URLs \cup {NoURL}
    /\ distilled_url \in URLs \cup {NoURL}
    /\ mime_pdf \in BOOLEAN
    /\ page \in Page
    /\ disk \in [URLs -> {"absent", "partial", "complete"}]
    /\ entries \in [URLs -> Entry \cup {NoEntry}]
    /\ loaded \in BOOLEAN
    /\ sync \in Sync
    /\ scheduled \in [URLs -> Nat]
    /\ cellular \in [URLs -> Nat]
    /\ wifi \in [URLs -> Nat]
    /\ connection \in Connections
    /\ notifications \in Seq(Connections)
    /\ had_connection \in BOOLEAN
    /\ events \in 0 .. MaxEvents

\* A queued task is never left behind: when tasks wait, one is running, and the
\* running one waits for exactly one answer, of the web or of the FILE thread.  A
\* download is queued at most once.
QueueServed ==
    /\ \A i, j \in 1 .. Len(tasks) :
           tasks[i].type = "DOWNLOAD" /\ tasks[i] = tasks[j] => i = j
    /\ tasks # << >> => working
    /\ working <=> wait.at # "none"
    /\ page.attached <=> wait.at = "distill"

\* While the FILE thread saves a page (SaveDistilledHTML and SavePDFFile run on
\* the downloader itself) the UI thread leaves the members it reads alone.
SaverAlone ==
    [][wait.at = "save" /\ wait.answer \in {"posted", "writing"} /\ loaded'
           => wait'.at = "save" /\ UNCHANGED <<original_url, distilled_url>>]_vars

\* A deletion of the directory of u is still to come.
DeletionComes(u) ==
    \/ DeleteOf(u) \in ToSet(tasks)
    \/ wait.at = "delete" /\ wait.url = u /\ wait.answer = "posted"
    \/ ~ loaded
    \/ sync.at = "posted" /\ u \notin sync.processed

\* A directory whose entry was removed, whenever that happened during its
\* download or whenever the process died, is going to be deleted.
NoOrphans == \A u \in URLs : ~ Has(u) /\ disk[u] # "absent" => DeletionComes(u)

\* The completion callbacks are called with the original URL (url_downloader.h):
\* what a save is going to report, or to clean up after, is the URL asked for.
SavesForOriginal == wait.at = "save" => wait.url = original_url

\* What PathExists finds is an offline copy.
FoundIsComplete ==
    wait.at = "exists" /\ wait.answer = "yes" => disk[wait.url] = "complete"

\* As long as the callbacks do get the original URL, PathExists never takes what a
\* failed or interrupted download left behind for an offline copy.
PartialNotFound == []SavesForOriginal => []FoundIsComplete

\* An entry becomes PROCESSED only with its copy complete on disk, if the download
\* that ends was reported with its original URL.
ProcessedWithCopy ==
    [][\A u \in URLs : /\ SavesForOriginal
                       /\ entries[u].state # "PROCESSED"
                       /\ entries'[u].state = "PROCESSED"
           => disk[u] = "complete"]_vars

\* The entry is wanted and the connection is good enough for it.
Downloadable(u) ==
    /\ Wanted(entries[u])
    /\ entries[u].failures >= NumberOfFailsBeforeWifiOnly => connection = "wifi"

\* Once there stays a connection, and as long as the callbacks get the original URL,
\* an entry that may use it does not wait forever: it is processed, given up, read or
\* removed, or has failed often enough to wait for wifi, whatever connections it
\* missed and whatever the process forgot.
EntrySettles ==
    []SavesForOriginal /\ <>[](connection # "none") =>
        \A u \in URLs : Downloadable(u) ~> ~ Downloadable(u)

\* url_downloader.h says that DOWNLOAD_EXISTS means the URL was available offline
\* and nothing was done: an entry processed and on disk does not become a failure.
ExistsIsNoFailure ==
    [][\A u \in URLs : entries[u].state = "PROCESSED" /\ disk[u] = "complete" =>
           entries'[u].state \in {"PROCESSED", "none"}]_vars
=============================================================================
