-------------------------- MODULE URLProtocolClient -------------------------
(***************************************************************************)
(* What an NSURLProtocolClient may observe of one load: the contract quoted *)
(* at the head of HttpProtocolHandlerCore (net/crn_http_protocol_handler.mm) *)
(* Redirects come before the response, data in order after it, the load    *)
(* ends once, and nothing is heard of it after that or after -stopLoading. *)
(* A redirect ends the load: the client issues a new request for it.       *)
(***************************************************************************)
EXTENDS Naturals

VARIABLES
    phase,       \* "pre_response", "post_response" or "done"
    loaded,      \* number of the last piece of data received
    callbacks,   \* number of callbacks made
    stopped      \* -stopLoading was called

vars == <<phase, loaded, callbacks, stopped>>

Init ==
    /\ phase = "pre_response"
    /\ loaded = 0
    /\ callbacks = 0
    /\ stopped = FALSE

\* The client may call -stopLoading from inside a callback.
Callback(from, to, data) ==
    /\ ~ stopped
    /\ phase \in from
    /\ phase' = to
    /\ loaded' = loaded + data
    /\ callbacks' = callbacks + 1
    /\ stopped' \in BOOLEAN

WasRedirected == Callback({"pre_response"}, "done", 0)
DidReceiveResponse == Callback({"pre_response"}, "post_response", 0)
DidLoadData == Callback({"post_response"}, "post_response", 1)
DidFinishLoading == Callback({"post_response"}, "done", 0)
DidFailWithError == Callback({"pre_response", "post_response"}, "done", 0)

StopLoading ==
    /\ ~ stopped
    /\ stopped' = TRUE
    /\ UNCHANGED <<phase, loaded, callbacks>>

Next ==
    \/ WasRedirected
    \/ DidReceiveResponse
    \/ DidLoadData
    \/ DidFinishLoading
    \/ DidFailWithError
    \/ StopLoading

Spec == Init /\ [][Next]_vars
=============================================================================
