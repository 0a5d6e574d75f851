------------------------ MODULE HttpProtocolHandler -------------------------
(***************************************************************************)
(* One HTTP load on behalf of the system's URL loading: CRNHTTPProtocol-    *)
(* Handler and HttpProtocolHandlerCore (net/crn_http_protocol_handler.mm)   *)
(* with CRNHTTPProtocolHandlerProxyWithClientThread between them and the    *)
(* client.                                                                 *)
(*                                                                         *)
(* Two threads: the network thread runs Start, Cancel (posted to it, FIFO) *)
(* and the callbacks of net::URLRequest; the client thread runs            *)
(* startLoading, stopLoading, pause, resume and the invocations the proxy  *)
(* posts to it (FIFO).  Neither net::URLRequest nor the client is in the    *)
(* tree: both are modelled from how this code uses them.  The client may   *)
(* pause or stop the load from inside any callback.  Of the RequestTracker *)
(* (web/net/request_tracker_impl.mm) only what decides about this request   *)
(* is kept: whether it lives, is closing, and has counts for the request.   *)
(***************************************************************************)
EXTENDS Integers, Sequences, FiniteSetsExt

CONSTANTS
    MaxChunks,   \* bound on the pieces of data of a response
    MaxPauses    \* bound on the number of times the client pauses the load

ASSUME HandlerAssumption == MaxChunks \in Nat /\ MaxPauses \in Nat

VARIABLES
    load,              \* the client's view: "new", "loading", "stopped"
    tasks,             \* tasks posted to the network thread
    net_request,       \* net_request_: "none" (nullptr) or what it waits for
    stream_delegate,   \* stream_delegate_ is set: the body is being read
    tracker,           \* tracker_: "none", "open" or "closing"
    tracked,           \* counts_by_request_ of the tracker holds the request
    chunks,            \* pieces of data read so far
    posted,            \* invocations posted to the client thread
    protocol,          \* _protocol of the proxy is not nil
    requestComplete,   \* _requestComplete
    paused,            \* _paused
    pauses,            \* number of pauses so far
    queued,            \* _queuedInvocations
    running,           \* runInvocationQueueOnClientThread is in its loop
    sent,              \* history: what the core told the proxy, in order
    received           \* history: the callbacks the client got, in order

corevars == <<net_request, stream_delegate, tracker, tracked, chunks>>
proxyvars == <<protocol, requestComplete, paused, pauses, queued, running>>
vars == <<load, tasks, corevars, posted, proxyvars, sent, received>>

Invocation ==
    [kind : {"redirect", "response", "data", "finish", "fail"}, n : Nat]
Tell(kind) == [kind |-> kind, n |-> 0]
TellData(n) == [kind |-> "data", n |-> n]

Init ==
    /\ load = "new"
    /\ tasks = << >>
    /\ net_request = "none"
    /\ stream_delegate = FALSE
    /\ tracker = "none"
    /\ tracked = FALSE
    /\ chunks = 0
    /\ posted = << >>
    /\ protocol = FALSE
    /\ requestComplete = FALSE
    /\ paused = FALSE
    /\ pauses = 0
    /\ queued = << >>
    /\ running = FALSE
    /\ sent = << >>
    /\ received = << >>

-----------------------------------------------------------------------------
(* The proxy, called on the network thread.                                *)

\* Each method returns early if _protocol is nil.  It reads _protocol without
\* a lock while the client thread may be clearing it: once it is cleared, some
\* of the calls may still see the old value.
Post(invocations) ==
    /\ sent' = sent \o invocations
    /\ \E n \in 0 .. Len(invocations) :
           /\ protocol => n = Len(invocations)
           /\ posted' = posted \o SubSeq(invocations, 1, n)

-----------------------------------------------------------------------------
(* HttpProtocolHandlerCore, on the network thread.                         *)

\* Mutant of StopNetRequest: the tracker is not told.
StopNetRequestUntracked ==
    /\ net_request' = "none"
    /\ stream_delegate' = FALSE
    /\ UNCHANGED tracked

StopNetRequest ==
    /\ net_request' = "none"
    /\ stream_delegate' = FALSE
    /\ tracked' = FALSE

\* What a step of the core leaves alone.
ClientUnchanged == UNCHANGED <<load, proxyvars, received>>

\* Mutant of StopRequestWithError: the client is not told.
StopRequestSilently == StopNetRequest /\ UNCHANGED <<posted, sent>>

StopRequestWithError ==
    /\ Post(<<Tell("fail")>>)
    /\ StopNetRequest

Start ==
    /\ tasks # << >> /\ Head(tasks) = "Start"
    /\ tasks' = Tail(tasks)
    /\ tracker' \in {"none", "open", "closing"}
    /\ \/ /\ Post(<<Tell("fail")>>)        \* unknown tracker or invalid URL
          /\ UNCHANGED <<net_request, stream_delegate, tracked>>
       \/ /\ net_request' = "upload"       \* the body comes from a stream
          /\ stream_delegate' = TRUE
          /\ UNCHANGED <<tracked, posted, sent>>
       \/ /\ net_request' = "started"
          /\ tracked' = (tracker' # "none")
          /\ UNCHANGED <<stream_delegate, posted, sent>>
    /\ UNCHANGED chunks
    /\ ClientUnchanged

\* Mutant of Cancel: a request whose body is still being read is left alone.
CancelStartedOnly ==
    /\ tasks # << >> /\ Head(tasks) = "Cancel"
    /\ tasks' = Tail(tasks)
    /\ IF net_request \in {"none", "upload"}
       THEN UNCHANGED <<net_request, stream_delegate, tracked>>
       ELSE StopNetRequest
    /\ UNCHANGED <<tracker, chunks, posted, sent>>
    /\ ClientUnchanged

Cancel ==
    /\ tasks # << >> /\ Head(tasks) = "Cancel"
    /\ tasks' = Tail(tasks)
    /\ IF net_request = "none" THEN UNCHANGED <<net_request, stream_delegate, tracked>>
                               ELSE StopNetRequest
    /\ UNCHANGED <<tracker, chunks, posted, sent>>
    /\ ClientUnchanged

\* NSStreamEventEndEncountered: the body is complete, the request starts.
HandleStreamEnd ==
    /\ stream_delegate
    /\ stream_delegate' = FALSE
    /\ net_request' = "started"
    /\ tracked' = (tracker # "none")
    /\ UNCHANGED <<tasks, tracker, chunks, posted, sent>>
    /\ ClientUnchanged

HandleStreamError ==
    /\ stream_delegate
    /\ StopRequestWithError
    /\ UNCHANGED <<tasks, tracker, chunks>>
    /\ ClientUnchanged

\* Mutant of OnReceivedRedirect: the network stack follows the redirect itself.
OnRedirectFollowed ==
    /\ net_request \in {"started", "certificate_accepted"}
    /\ Post(<<Tell("redirect")>>)
    /\ UNCHANGED <<net_request, stream_delegate, tracked, tasks, tracker, chunks>>
    /\ ClientUnchanged

OnReceivedRedirect ==
    /\ net_request \in {"started", "certificate_accepted"}
    /\ \/ Post(<<Tell("redirect")>>) /\ StopNetRequest
       \/ StopRequestWithError             \* the new URL is not valid
    /\ UNCHANGED <<tasks, tracker, chunks>>
    /\ ClientUnchanged

\* With a tracker the proxy answers the challenge at once, with no credentials.
OnAuthRequired ==
    /\ net_request \in {"started", "certificate_accepted"}
    /\ net_request' = "authentication_cancelled"
    /\ UNCHANGED <<tasks, stream_delegate, tracker, tracked, chunks, posted, sent>>
    /\ ClientUnchanged

OnCertificateRequested ==
    /\ net_request \in {"started", "certificate_accepted"}
    /\ StopRequestWithError
    /\ UNCHANGED <<tasks, tracker, chunks>>
    /\ ClientUnchanged

\* RequestTrackerImpl::OnSSLCertificateError runs the callback at once, with the
\* judgment it comes to, if it counts the request and is not closing.
TrackerJudges == tracked /\ tracker = "open"

\* The callback is left with a tracker that does not run it.
AwaitJudgment ==
    /\ tracker # "none" /\ ~ TrackerJudges
    /\ net_request' = "judgment"
    /\ UNCHANGED <<stream_delegate, tracked, posted, sent>>

OnSSLCertificateError ==
    /\ net_request = "started"
    /\ \/ StopRequestWithError             \* fatal, refused, or major with no tracker
       \/ /\ tracker = "none" \/ TrackerJudges
          /\ net_request' = "certificate_accepted"
          /\ UNCHANGED <<stream_delegate, tracked, posted, sent>>
       \/ AwaitJudgment
    /\ UNCHANGED <<tasks, tracker, chunks>>
    /\ ClientUnchanged

\* n pieces of data were read and then `outcome'.
Reads(before, n, outcome) ==
    LET end == CASE outcome = "eof" -> <<Tell("finish")>>
                 [] outcome = "error" -> <<Tell("fail")>>
                 [] outcome = "pending" -> << >>
    IN  /\ chunks + n <= MaxChunks
        /\ chunks' = chunks + n
        /\ Post(before \o [i \in 1 .. n |-> TellData(chunks + i)] \o end)
        /\ IF outcome = "pending"
           THEN net_request' = "reading" /\ UNCHANGED <<stream_delegate, tracked>>
           ELSE StopNetRequest

StartReading ==
    \E n \in 0 .. MaxChunks, outcome \in {"eof", "error", "pending"} :
        Reads(<<Tell("response")>>, n, outcome)

\* A response with a certificate error the tracker has no policy for is judged
\* like a certificate error; a known policy lets it through.
OnResponseStarted ==
    /\ net_request \in {"started", "certificate_accepted", "authentication_cancelled"}
    /\ \/ StopRequestWithError /\ UNCHANGED chunks
       \/ StartReading
       \/ AwaitJudgment /\ UNCHANGED chunks
    /\ UNCHANGED <<tasks, tracker>>
    /\ ClientUnchanged

OnReadCompleted ==
    /\ net_request = "reading"
    /\ \E n \in 0 .. MaxChunks, outcome \in {"eof", "error", "pending"} :
           /\ n > 0 \/ outcome # "pending"
           /\ Reads(<< >>, n, outcome)
    /\ UNCHANGED <<tasks, tracker>>
    /\ ClientUnchanged

\* The tab starts another page (TrimToURL, or StartRequest in a new estimate
\* round): the tracker forgets the unfinished requests of the old one.
TrackerForgets ==
    /\ tracked
    /\ tracked' = FALSE
    /\ UNCHANGED <<load, tasks, net_request, stream_delegate, tracker, chunks, posted,
                   proxyvars, sent, received>>

\* RequestTrackerImpl::Close() and then Destruct().
TrackerCloses ==
    /\ tracker # "none"
    /\ \/ tracker = "open" /\ tracker' = "closing" /\ UNCHANGED tracked
       \/ tracker = "closing" /\ tracker' = "none" /\ tracked' = FALSE
    /\ UNCHANGED <<load, tasks, net_request, stream_delegate, chunks, posted, proxyvars,
                   sent, received>>

-----------------------------------------------------------------------------
(* The client thread.                                                      *)

\* -startLoading; an unsupported URL is refused on the spot.
StartLoading ==
    /\ load = "new"
    /\ load' = "loading"
    /\ \/ /\ tasks' = Append(tasks, "Start")
          /\ protocol' = TRUE
          /\ UNCHANGED <<sent, received>>
       \/ /\ sent' = <<Tell("fail")>>
          /\ received' = <<Tell("fail")>>
          /\ UNCHANGED <<tasks, protocol>>
    /\ UNCHANGED <<corevars, posted, requestComplete, paused, pauses, queued, running>>

\* -stopLoading: Cancel is posted and the proxy invalidated.
Stopped ==
    /\ load' = "stopped"
    /\ tasks' = Append(tasks, "Cancel")
    /\ protocol' = FALSE
    /\ requestComplete' = TRUE
    /\ queued' = << >>

StopLoading ==
    /\ load = "loading" /\ ~ running
    /\ Stopped
    /\ UNCHANGED <<corevars, posted, paused, pauses, running, sent, received>>

\* An invocation runs; rest is what stays queued after it.  The client may pause
\* or stop the load while it handles the callback.
Invoke(invocation, rest) ==
    /\ received' = IF protocol THEN Append(received, invocation) ELSE received
    /\ \/ /\ protocol /\ Stopped
          /\ UNCHANGED <<paused, pauses>>
       \/ /\ \/ UNCHANGED <<paused, pauses>>
             \/ protocol /\ pauses < MaxPauses /\ paused' = TRUE /\ pauses' = pauses + 1
          /\ requestComplete' = (requestComplete \/ invocation.kind \in {"finish", "fail"})
          /\ queued' = rest
          /\ UNCHANGED <<load, tasks, protocol>>

\* -invokeOnClientThread: of the next posted invocation.
InvokeOnClientThread ==
    /\ posted # << >> /\ ~ running
    /\ posted' = Tail(posted)
    /\ IF paused
       THEN /\ queued' = IF protocol THEN Append(queued, Head(posted)) ELSE queued
            /\ UNCHANGED <<load, tasks, protocol, requestComplete, paused, pauses, received>>
       ELSE Invoke(Head(posted), queued)
    /\ UNCHANGED <<corevars, running, sent>>

\* One turn of the loop of -runInvocationQueueOnClientThread.
RunInvocationQueue ==
    /\ running
    /\ Invoke(Head(queued), Tail(queued))
    /\ running' = (~ paused' /\ queued' # << >>)
    /\ UNCHANGED <<corevars, posted, sent>>

Pause ==
    /\ protocol /\ ~ running
    /\ ~ paused /\ pauses < MaxPauses
    /\ paused' = TRUE
    /\ pauses' = pauses + 1
    /\ UNCHANGED <<load, tasks, corevars, posted, protocol, requestComplete, queued, running,
                   sent, received>>

\* Mutant of Resume: what was queued waits for the next resume.
ResumeOnly ==
    /\ protocol /\ paused /\ ~ running
    /\ ~ requestComplete
    /\ paused' = FALSE
    /\ UNCHANGED <<load, tasks, corevars, posted, protocol, requestComplete, pauses, queued,
                   running, sent, received>>

\* The client does not resume a load that has completed (the DCHECK of -resume).
Resume ==
    /\ protocol /\ paused /\ ~ running
    /\ ~ requestComplete
    /\ paused' = FALSE
    /\ running' = (queued # << >>)
    /\ UNCHANGED <<load, tasks, corevars, posted, protocol, requestComplete, pauses, queued,
                   sent, received>>

-----------------------------------------------------------------------------

NetworkCallback ==
    \/ HandleStreamEnd
    \/ HandleStreamError
    \/ OnReceivedRedirect
    \/ OnAuthRequired
    \/ OnCertificateRequested
    \/ OnSSLCertificateError
    \/ OnResponseStarted
    \/ OnReadCompleted

Next ==
    \/ Start
    \/ Cancel
    \/ NetworkCallback
    \/ TrackerForgets
    \/ TrackerCloses
    \/ StartLoading
    \/ StopLoading
    \/ InvokeOnClientThread
    \/ RunInvocationQueue
    \/ Pause
    \/ Resume

\* Both threads run what is posted to them, a loop goes on, the network stack
\* answers, and a client that paused a load resumes it or stops it.
Fairness ==
    /\ WF_vars(Start \/ Cancel)
    /\ WF_vars(NetworkCallback)
    /\ WF_vars(InvokeOnClientThread)
    /\ WF_vars(RunInvocationQueue)
    /\ WF_vars(Resume)

Spec == Init /\ [][Next]_vars /\ Fairness

-----------------------------------------------------------------------------
(* Properties.                                                             *)

\* Type correctness; the body stream has a delegate only while it is uploaded.
TypeOK ==
    /\ load \in {"new", "loading", "stopped"}
    /\ tasks \in Seq({"Start", "Cancel"})
    /\ net_request \in {"none", "upload", "started", "certificate_accepted",
                        "authentication_cancelled", "judgment", "reading"}
    /\ stream_delegate \in BOOLEAN /\ (stream_delegate => net_request = "upload")
    /\ tracker \in {"none", "open", "closing"}
    /\ tracked \in BOOLEAN
    /\ chunks \in 0 .. MaxChunks
    /\ posted \in Seq(Invocation) /\ queued \in Seq(Invocation)
    /\ sent \in Seq(Invocation) /\ received \in Seq(Invocation)
    /\ protocol \in BOOLEAN /\ requestComplete \in BOOLEAN
    /\ paused \in BOOLEAN /\ running \in BOOLEAN
    /\ pauses \in 0 .. MaxPauses

\* Until the load is stopped nothing the core said is lost, duplicated or
\* reordered on its way through two queues, whenever the client pauses.
StreamIntact == protocol => received \o queued \o posted = sent

\* DCHECK(!_requestComplete || !_protocol) of -invokeOnClientThread: and
\* -runInvocationQueueOnClientThread: once the load is complete there is no
\* invocation left for a client that has not stopped it.
NothingAfterComplete ==
    requestComplete /\ protocol => posted = << >> /\ queued = << >>

\* Once stopLoading's Cancel has run, the net::URLRequest and the stream delegate
\* are gone: the two DCHECKs of ~HttpProtocolHandlerCore.
CancelReleases ==
    load = "stopped" /\ tasks = << >> => net_request = "none" /\ ~ stream_delegate

\* The tracker never keeps counts for a request that was deleted: the map is
\* keyed by raw pointers.
NoStaleCounts == tracked => net_request \notin {"none", "upload"}

Terminal == {"redirect", "finish", "fail"}
Ended == \E i \in 1 .. Len(received) : received[i].kind \in Terminal
Pieces == {i \in 1 .. Len(received) : received[i].kind = "data"}

\* What the client knows of a load: how far it is, and the last piece of data.
ClientPhase ==
    IF Ended THEN "done"
    ELSE IF \E i \in 1 .. Len(received) : received[i].kind = "response"
    THEN "post_response" ELSE "pre_response"

ClientLoaded == IF Pieces = {} THEN 0 ELSE received[Max(Pieces)].n

\* The client observes a load as the contract allows it.
Client == INSTANCE URLProtocolClient WITH
    phase <- ClientPhase,
    loaded <- ClientLoaded,
    callbacks <- Len(received),
    stopped <- load = "stopped"

\* The callbacks of -URLProtocol:... come in the order the NSURLProtocolClient
\* contract demands, and none comes after the end or after -stopLoading.
ClientContract == Client!Spec

\* A load ends: the client is told how, or has stopped it, or a tracker was
\* left with the decision about a certificate.
LoadEnds == load = "loading" ~> Ended \/ load = "stopped" \/ net_request = "judgment"
=============================================================================
