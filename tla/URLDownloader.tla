--------------------------- MODULE URLDownloader ----------------------------
(***************************************************************************)
(* Offline copies of reading list pages: URLDownloader                     *)
(* (chrome/browser/reading_list/url_downloader.cc), the page it distills    *)
(* (reading_list_distiller_page.mm, dom_distiller/distiller_viewer.cc) and  *)
(* the directories it keeps on disk.                                       *)
(*                                                                         *)
(* The downloader lives on the UI thread and runs one task at a time; every *)
(* access to the disk is a task of the FILE thread whose reply comes back   *)
(* to the UI thread.  |wait| is that conversation: what the running task    *)
(* waits for, for which URL, and the FILE thread's answer ("posted" until   *)
(* it has run).  The contents of a page are abstracted to whether there is  *)
(* HTML, a MIME type to whether it is application/pdf, an offline directory *)
(* to whether it is absent, partly written or complete.                    *)
(*                                                                         *)
(* The module has the actions of the downloader; its client composes them.  *)
(***************************************************************************)
EXTENDS Naturals, Sequences, SequencesExt

CONSTANTS
    URLs,        \* the URLs of pages
    NoURL,       \* the empty GURL
    MaxLoads     \* bound on the loads of the page while it is distilled

ASSUME DownloaderAssumption == NoURL \notin URLs /\ MaxLoads \in Nat

VARIABLES
    tasks,           \* tasks_
    working,         \* working_
    wait,            \* what the running task waits for
    original_url,    \* original_url_
    distilled_url,   \* distilled_url_
    mime_pdf,        \* mime_type_ is "application/pdf"
    page,            \* the ReadingListDistillerPage of distiller_
    disk             \* the offline directory of each URL

\* The part of the downloader that only a download in progress touches.
pagevars == <<original_url, distilled_url, mime_pdf, page>>
queuevars == <<tasks, working, wait>>
downloadervars == <<queuevars, pagevars, disk>>

Task == [type : {"DELETE", "DOWNLOAD"}, url : URLs]
DeleteOf(url) == [type |-> "DELETE", url |-> url]
DownloadOf(url) == [type |-> "DOWNLOAD", url |-> url]

\* The tasks of the FILE thread, and what the UI thread waits for from the web.
FileSteps == {"exists", "save", "clean", "delete"}
WebSteps == {"distill", "fetch"}
Answers == {"posted", "writing", "yes", "no", "success", "error", "done"}
Wait == [at : FileSteps \cup WebSteps \cup {"none"}, url : URLs \cup {NoURL},
         answer : Answers]
Waiting(at, url) == [at |-> at, url |-> url, answer |-> "posted"]
NotWaiting == Waiting("none", NoURL)

\* attached: it has its WebState; loads: page loads so far; render: how many
\* DelayedOnLoadURLDone are posted, or wait for the script they ran on an AMP or
\* Wikipedia page; script: the distiller's script runs in the page and may find HTML,
\* or runs in a page that has none.
NoPage == [attached |-> FALSE, loads |-> 0, render |-> 0, script |-> "none"]
NewPage == [NoPage EXCEPT !.attached = TRUE]
Page == [attached : BOOLEAN, loads : 0 .. MaxLoads, render : Nat,
         script : {"none", "html", "empty"}]

DownloaderInit ==
    /\ tasks = << >>
    /\ working = FALSE
    /\ wait = NotWaiting
    /\ original_url = NoURL
    /\ distilled_url = NoURL
    /\ mime_pdf = FALSE
    /\ page = NoPage

\* The downloader of the next process.
DownloaderRestart ==
    /\ tasks' = << >>
    /\ working' = FALSE
    /\ wait' = NotWaiting
    /\ original_url' = NoURL
    /\ distilled_url' = NoURL
    /\ mime_pdf' = FALSE
    /\ page' = NoPage

-----------------------------------------------------------------------------
(* The queue of tasks.                                                     *)

\* HandleNextTask once working_ is false and the queue is q.
TakeNextTask(q) ==
    IF q = << >>
    THEN /\ tasks' = q
         /\ working' = FALSE
         /\ wait' = NotWaiting
    ELSE /\ tasks' = Tail(q)
         /\ working' = TRUE
         /\ wait' = Waiting(IF Head(q).type = "DELETE" THEN "delete" ELSE "exists",
                            Head(q).url)

\* HandleNextTask with the queue q.
HandleNextTask(q) ==
    IF working THEN tasks' = q /\ UNCHANGED <<working, wait>> ELSE TakeNextTask(q)

\* std::remove of the downloads of url from q: DownloadOfflineURL queues at most
\* one (QueueServed).
WithoutDownloads(q, url) ==
    IF DownloadOf(url) \in ToSet(q)
    THEN RemoveAt(q, CHOOSE i \in 1 .. Len(q) : q[i] = DownloadOf(url))
    ELSE q

RemoveOfflineURL(url) ==
    /\ HandleNextTask(Append(WithoutDownloads(tasks, url), DeleteOf(url)))
    /\ UNCHANGED <<pagevars, disk>>

DownloadOfflineURL(url) ==
    /\ IF DownloadOf(url) \in ToSet(tasks)
       THEN UNCHANGED queuevars
       ELSE HandleNextTask(Append(tasks, DownloadOf(url)))
    /\ UNCHANGED <<pagevars, disk>>

CancelDownloadOfflineURL(url) ==
    /\ tasks' = WithoutDownloads(tasks, url)
    /\ UNCHANGED <<working, wait, pagevars, disk>>

-----------------------------------------------------------------------------
(* The end of a task: the replies of the FILE thread on the UI thread.     *)

\* The callback post_delete of DownloadCompletionHandler, without the run of
\* download_completion_ it starts with: that is the client's.
PostDelete ==
    /\ page' = NoPage
    /\ TakeNextTask(tasks)
    /\ UNCHANGED <<original_url, distilled_url, mime_pdf, disk>>

\* Mutant of CleanUp: a failed download is reported without cleaning up.
CleanUpSkipped(url) ==
    /\ wait' = [Waiting("clean", url) EXCEPT !.answer = "done"]
    /\ UNCHANGED <<tasks, working, pagevars, disk>>

\* DownloadCompletionHandler with ERROR: the partial download is deleted first.
CleanUp(url) ==
    /\ wait' = Waiting("clean", url)
    /\ UNCHANGED <<tasks, working, pagevars, disk>>

\* Mutant of DeleteCompletionHandler: the next task is not started.
DeleteCompletionStops ==
    /\ wait.at = "delete" /\ wait.answer = "done"
    /\ working' = FALSE
    /\ wait' = NotWaiting
    /\ UNCHANGED <<tasks, pagevars, disk>>

DeleteCompletionHandler ==
    /\ wait.at = "delete" /\ wait.answer = "done"
    /\ TakeNextTask(tasks)
    /\ UNCHANGED <<pagevars, disk>>

\* DownloadURL for a URL whose directory is there.
DownloadURLExists ==
    /\ wait.at = "exists" /\ wait.answer = "yes"
    /\ PostDelete

\* DownloadURL for a URL to fetch.  mime_type_ keeps its value.
DownloadURL ==
    /\ wait.at = "exists" /\ wait.answer = "no"
    /\ original_url' = wait.url
    /\ distilled_url' = wait.url
    /\ page' = NewPage
    /\ wait' = Waiting("distill", wait.url)
    /\ UNCHANGED <<tasks, working, mime_pdf, disk>>

\* The reply to SaveDistilledHTML or SavePDFFile.
SaveSucceeded ==
    /\ wait.at = "save" /\ wait.answer = "success"
    /\ PostDelete

SaveFailed ==
    /\ wait.at = "save" /\ wait.answer = "error"
    /\ CleanUp(wait.url)

CleanedUp ==
    /\ wait.at = "clean" /\ wait.answer = "done"
    /\ PostDelete

-----------------------------------------------------------------------------
(* The page being distilled and the PDF being fetched.                     *)

\* OnDistillationDone detaches the page, then DistillerCallback gets its HTML.  What
\* the page has posted stays posted.
DistillationDone(html) ==
    /\ wait.at = "distill"
    /\ page' = [NoPage EXCEPT !.render = page.render]
    /\ wait' = IF html THEN Waiting("save", original_url)
               ELSE IF mime_pdf THEN Waiting("fetch", distilled_url)
               ELSE Waiting("clean", original_url)
    /\ UNCHANGED <<tasks, working, original_url, distilled_url, mime_pdf, disk>>

\* ReadingListDistillerPage::OnLoadURLDone for a load that failed: the
\* distillation ends without content and the MIME type is not updated.
PageLoadFailed ==
    /\ page.attached /\ page.loads < MaxLoads
    /\ DistillationDone(FALSE)

\* OnLoadURLDone for a page loaded with an error in its certificate: the script runs
\* in it all the same, but the MIME type is not updated.
PageLoadDistrusted ==
    /\ page.attached /\ page.loads < MaxLoads
    /\ page' = [page EXCEPT !.loads = @ + 1, !.script = "html"]
    /\ UNCHANGED <<queuevars, original_url, distilled_url, mime_pdf, disk>>

\* OnLoadURLDone for a loaded page: HTML is given time to render, the script
\* runs at once on anything else.
PageLoaded(html, pdf) ==
    /\ page.attached /\ page.loads < MaxLoads
    /\ ~ (html /\ pdf)
    /\ mime_pdf' = pdf
    /\ page' = [page EXCEPT !.loads = @ + 1, !.render = IF html THEN @ + 1 ELSE @,
                            !.script = IF html \/ @ = "html" THEN @ ELSE "empty"]
    /\ UNCHANGED <<queuevars, original_url, distilled_url, disk>>

\* HandleGoogleCachedAMPPage: the page loads the one in its frame instead.
HandleGoogleCachedAMPPage ==
    /\ page.attached /\ page.render > 0 /\ page.loads < MaxLoads
    /\ page' = [page EXCEPT !.render = @ - 1]
    /\ UNCHANGED <<queuevars, original_url, distilled_url, mime_pdf, disk>>

\* Mutant of ContinuePageDistillation: whether the page is still attached is not
\* checked.
ContinueDetached(redirected_url) ==
    /\ page.render > 0
    /\ distilled_url' = IF redirected_url # original_url THEN redirected_url ELSE distilled_url
    /\ page' = [page EXCEPT !.render = @ - 1, !.script = "html"]
    /\ UNCHANGED <<queuevars, original_url, mime_pdf, disk>>

\* DelayedOnLoadURLDone and ContinuePageDistillation, with HandleWikipediaPage in
\* between.  They return if the page was detached in the meantime.
ContinuePageDistillation(redirected_url) ==
    /\ page.render > 0
    /\ distilled_url' = IF page.attached /\ redirected_url # original_url
                        THEN redirected_url ELSE distilled_url
    /\ page' = [page EXCEPT !.render = @ - 1,
                            !.script = IF page.attached THEN "html" ELSE @]
    /\ UNCHANGED <<queuevars, original_url, mime_pdf, disk>>

\* The script's result: the article, or nothing.
DistillerCallback(html) ==
    /\ page.attached /\ page.script # "none"
    /\ html => page.script = "html"
    /\ DistillationDone(html)

\* OnURLFetchComplete: pdf says whether the response was a PDF file.  The
\* completion gets the URL the fetcher was created with if it was, else
\* original_url_.
OnURLFetchComplete(pdf) ==
    /\ wait.at = "fetch"
    /\ wait' = IF pdf THEN Waiting("save", wait.url) ELSE Waiting("clean", original_url)
    /\ UNCHANGED <<tasks, working, pagevars, disk>>

-----------------------------------------------------------------------------
(* The tasks of the FILE thread.                                           *)

Answer(answer) == wait' = [wait EXCEPT !.answer = answer]

FilePathExists ==
    /\ wait.at = "exists" /\ wait.answer = "posted"
    /\ Answer(IF disk[wait.url] # "absent" THEN "yes" ELSE "no")
    /\ UNCHANGED <<tasks, working, pagevars, disk>>

FileDelete ==
    /\ wait.at \in {"delete", "clean"} /\ wait.answer = "posted"
    /\ disk' = [disk EXCEPT ![wait.url] = "absent"]
    /\ Answer("done")
    /\ UNCHANGED <<tasks, working, pagevars>>

\* CreateOfflineURLDirectory, first step of SaveDistilledHTML and SavePDFFile.
CreateOfflineURLDirectory ==
    /\ wait.at = "save" /\ wait.answer = "posted"
    /\ \/ /\ disk' = [disk EXCEPT ![original_url] = IF @ = "absent" THEN "partial" ELSE @]
          /\ Answer("writing")
       \/ /\ UNCHANGED disk
          /\ Answer("error")
    /\ UNCHANGED <<tasks, working, pagevars>>

\* Mutant of SaveFile: a failed write is not noticed.
SaveFileUnchecked ==
    /\ wait.at = "save" /\ wait.answer = "writing"
    /\ \E written \in BOOLEAN :
           disk' = [disk EXCEPT ![original_url] = IF written THEN "complete" ELSE @]
    /\ Answer("success")
    /\ UNCHANGED <<tasks, working, pagevars>>

\* The images and the page are written, or the PDF file moved; a failure leaves
\* the directory as it is.
SaveFile ==
    /\ wait.at = "save" /\ wait.answer = "writing"
    /\ \/ /\ disk' = [disk EXCEPT ![original_url] = "complete"]
          /\ Answer("success")
       \/ /\ UNCHANGED disk
          /\ Answer("error")
    /\ UNCHANGED <<tasks, working, pagevars>>

FileStep == FilePathExists \/ FileDelete \/ CreateOfflineURLDirectory \/ SaveFile
WebStep ==
    \/ PageLoadFailed \/ PageLoadDistrusted \/ HandleGoogleCachedAMPPage
    \/ \E html, pdf \in BOOLEAN : PageLoaded(html, pdf)
    \/ \E redirected_url \in URLs : ContinuePageDistillation(redirected_url)
    \/ \E html \in BOOLEAN : DistillerCallback(html)
    \/ \E pdf \in BOOLEAN : OnURLFetchComplete(pdf)
=============================================================================
