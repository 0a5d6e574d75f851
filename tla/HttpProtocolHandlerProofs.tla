--------------------- MODULE HttpProtocolHandlerProofs ----------------------
(***************************************************************************)
(* For every number of pieces of data and of pauses: until the load is     *)
(* stopped, the client has received, in order, what the core said, but for *)
(* what still waits in the two queues; and once it was told that the load  *)
(* is complete nothing waits for it.                                       *)
(*                                                                         *)
(* The invariant adds what makes this inductive: the proxy's queue is      *)
(* empty unless the load is paused or the queue is being run; Start runs   *)
(* once, before anything is said; and whatever ends the load is the last   *)
(* thing said, with the request gone.                                      *)
(*                                                                         *)
(* From it follows that a load implements URLProtocolClient, step by step: *)
(* what the client receives next is what the core said next.               *)
(***************************************************************************)
EXTENDS HttpProtocolHandler, SequenceTheorems, TLAPS

NetRequests == {"none", "upload", "started", "certificate_accepted",
                "authentication_cancelled", "judgment", "reading"}

\* TypeOK in parts: what the core's steps write, what the others do, the
\* sequences.
CoreBooleans == stream_delegate \in BOOLEAN /\ tracked \in BOOLEAN

CoreTypes ==
    /\ net_request \in NetRequests
    /\ stream_delegate => net_request = "upload"
    /\ tracker \in {"none", "open", "closing"}
    /\ chunks \in 0 .. MaxChunks

ClientBooleans ==
    /\ protocol \in BOOLEAN /\ requestComplete \in BOOLEAN
    /\ paused \in BOOLEAN /\ running \in BOOLEAN

ClientTypes ==
    /\ load \in {"new", "loading", "stopped"}
    /\ pauses \in 0 .. MaxPauses

QueueTypes ==
    /\ tasks \in Seq({"Start", "Cancel"})
    /\ posted \in Seq(Invocation) /\ queued \in Seq(Invocation)
    /\ sent \in Seq(Invocation) /\ received \in Seq(Invocation)

\* The proxy's queue holds something only while the load is paused or it is run.
QueueIdle ==
    /\ ~ paused /\ ~ running => queued = << >>
    /\ running => ~ paused /\ queued # << >>

\* Start is the first task, runs before anything was said, and is posted once.
StartOnce ==
    /\ \A k \in 1 .. Len(tasks) :
           tasks[k] = "Start" => k = 1 /\ sent = << >> /\ net_request = "none"
    /\ load = "new" =>
           /\ tasks = << >> /\ net_request = "none"
           /\ posted = << >> /\ queued = << >> /\ sent = << >> /\ received = << >>
           /\ ~ paused /\ ~ running /\ ~ protocol /\ ~ requestComplete
    /\ protocol => load = "loading"

\* What ends a load is the last thing said, and the request is gone by then.
EndIsLast ==
    \A i \in 1 .. Len(sent) :
        sent[i].kind \in Terminal => i = Len(sent) /\ net_request = "none"

\* A client that was told of the end has the end among what it received.
CompleteSeen == requestComplete /\ protocol => Ended

IndInv ==
    /\ CoreBooleans /\ CoreTypes /\ ClientBooleans /\ ClientTypes /\ QueueTypes
    /\ QueueIdle /\ StartOnce /\ EndIsLast /\ CompleteSeen /\ StreamIntact

\* The parts make up the type invariant.
LEMMA TypesTogether == IndInv => TypeOK
BY Zenon
DEF IndInv, TypeOK, CoreBooleans, CoreTypes, ClientBooleans, ClientTypes, QueueTypes, NetRequests

\* Init is a good start.
LEMMA InitEstablishes == Init => IndInv
<1> SUFFICES ASSUME Init PROVE IndInv
  OBVIOUS
<1>1. CoreTypes
  BY HandlerAssumption DEF Init, CoreTypes, NetRequests
<1>2. ClientTypes
  BY HandlerAssumption DEF Init, ClientTypes
<1>3. QueueTypes
  BY DEF Init, QueueTypes
<1>4. QueueIdle /\ CompleteSeen /\ StreamIntact
  BY Zenon DEF Init, QueueIdle, CompleteSeen, StreamIntact
<1>5. EndIsLast /\ StartOnce
  BY DEF Init, EndIsLast, StartOnce
<1>6. CoreBooleans /\ ClientBooleans
  BY Zenon DEF Init, CoreBooleans, ClientBooleans
<1> QED
  BY <1>1, <1>2, <1>3, <1>4, <1>5, <1>6 DEF IndInv

-----------------------------------------------------------------------------
(* Steps of the core.                                                      *)

\* Saying something appends it to both ends of what is under way.
LEMMA PostExtends ==
    ASSUME QueueTypes, StreamIntact, NEW invocations \in Seq(Invocation), Post(invocations)
    PROVE  /\ posted' \in Seq(Invocation)
           /\ sent' \in Seq(Invocation)
           /\ sent' = sent \o invocations
           /\ protocol => received \o queued \o posted' = sent'
<1>1. Len(invocations) \in Nat /\ \A i \in 1 .. Len(invocations) : invocations[i] \in Invocation
  BY LenProperties, ElementOfSeq
<1>2. PICK n \in 0 .. Len(invocations) :
          /\ protocol => n = Len(invocations)
          /\ posted' = posted \o SubSeq(invocations, 1, n)
  BY DEF Post
<1>3. sent' = sent \o invocations
  BY DEF Post
<1>4. SubSeq(invocations, 1, n) \in Seq(Invocation)
  BY <1>1, SubSeqProperties
<1>5. posted' \in Seq(Invocation)
  BY <1>2, <1>4, ConcatProperties DEF QueueTypes
<1>6. sent' \in Seq(Invocation)
  BY <1>3, ConcatProperties DEF QueueTypes
<1>7. ASSUME protocol PROVE received \o queued \o posted' = sent'
  <2>1. posted' = posted \o invocations
    BY <1>2, <1>7, SubSeqFull
  <2> DEFINE reached == received \o queued
  <2>2. reached \in Seq(Invocation)
    BY ConcatProperties DEF QueueTypes
  <2>3. reached \o posted = sent
    BY <1>7 DEF StreamIntact
  <2> HIDE DEF reached
  <2>4. (reached \o posted) \o invocations = reached \o (posted \o invocations)
    <3>1. posted \in Seq(Invocation)
      BY DEF QueueTypes
    <3> QED
      BY <2>2, <3>1, ConcatAssociative
  <2>5. reached \o posted' = sent'
    BY <1>3, <2>1, <2>3, <2>4
  <2> QED
    BY <2>5 DEF reached
<1> QED
  BY <1>3, <1>5, <1>6, <1>7

\* A step of the core that says nothing.
LEMMA SilentStepPreserves ==
    ASSUME IndInv, CoreBooleans', CoreTypes', ClientUnchanged, UNCHANGED <<posted, sent>>,
           tasks' \in Seq({"Start", "Cancel"}),
           \A k \in 1 .. Len(tasks') :
               tasks'[k] = "Start" => k = 1 /\ sent = << >> /\ net_request' = "none",
           load = "new" => tasks' = << >> /\ net_request' = "none",
           \/ net_request' = "none"
           \/ \A i \in 1 .. Len(sent) : sent[i].kind \notin Terminal
    PROVE  IndInv'
<1>1. /\ load' = load /\ protocol' = protocol /\ requestComplete' = requestComplete
      /\ paused' = paused /\ running' = running /\ pauses' = pauses
      /\ queued' = queued /\ received' = received /\ posted' = posted /\ sent' = sent
  BY DEF ClientUnchanged, proxyvars
<1>2. ClientTypes' /\ QueueTypes'
  BY <1>1 DEF IndInv, ClientTypes, QueueTypes
<1>3. ClientBooleans' /\ QueueIdle' /\ CompleteSeen' /\ StreamIntact'
  BY <1>1, Zenon DEF IndInv, ClientBooleans, QueueIdle, CompleteSeen, Ended, StreamIntact
<1>4. StartOnce'
  BY <1>1 DEF IndInv, StartOnce
<1>5. EndIsLast'
  BY <1>1 DEF IndInv, EndIsLast
<1> QED
  BY <1>2, <1>3, <1>4, <1>5 DEF IndInv

\* A step of the core that says something: only the last thing may end the load,
\* and then the request is gone; before that nothing had ended it.
LEMMA TellingStepPreserves ==
    ASSUME IndInv, CoreBooleans', CoreTypes', ClientUnchanged,
           NEW invocations \in Seq(Invocation), Post(invocations),
           tasks' \in Seq({"Start", "Cancel"}), load # "new",
           \A k \in 1 .. Len(tasks') : tasks'[k] # "Start",
           \A i \in 1 .. Len(sent) : sent[i].kind \notin Terminal,
           \A i \in 1 .. Len(invocations) : invocations[i].kind \in Terminal =>
               i = Len(invocations) /\ net_request' = "none"
    PROVE  IndInv'
<1>1. /\ load' = load /\ protocol' = protocol /\ requestComplete' = requestComplete
      /\ paused' = paused /\ running' = running /\ pauses' = pauses
      /\ queued' = queued /\ received' = received
  BY DEF ClientUnchanged, proxyvars
<1>2. /\ posted' \in Seq(Invocation) /\ sent' \in Seq(Invocation)
      /\ sent' = sent \o invocations
      /\ protocol => received \o queued \o posted' = sent'
  BY PostExtends DEF IndInv
<1>3. ClientTypes' /\ QueueTypes'
  BY <1>1, <1>2 DEF IndInv, ClientTypes, QueueTypes
<1>4. ClientBooleans' /\ QueueIdle' /\ CompleteSeen'
  BY <1>1, Zenon DEF IndInv, ClientBooleans, QueueIdle, CompleteSeen, Ended
<1>5. StreamIntact'
  BY <1>1, <1>2 DEF StreamIntact
<1>6. StartOnce'
  BY <1>1 DEF IndInv, StartOnce
<1>7. EndIsLast'
  <2> SUFFICES ASSUME NEW i \in 1 .. Len(sent'), sent'[i].kind \in Terminal
               PROVE  i = Len(sent') /\ net_request' = "none"
    BY DEF EndIsLast
  <2>1. sent \in Seq(Invocation) /\ Len(sent) \in Nat /\ Len(invocations) \in Nat
    BY DEF IndInv, QueueTypes
  <2>2. /\ Len(sent') = Len(sent) + Len(invocations)
        /\ sent'[i] = IF i <= Len(sent) THEN sent[i] ELSE invocations[i - Len(sent)]
    BY <1>2, <2>1, ConcatProperties
  <2>3. ~ (i <= Len(sent))
    BY <2>1, <2>2
  <2>4. i - Len(sent) \in 1 .. Len(invocations) /\ invocations[i - Len(sent)].kind \in Terminal
    BY <2>1, <2>2, <2>3
  <2>5. i - Len(sent) = Len(invocations) /\ net_request' = "none"
    BY <2>4
  <2> QED
    BY <2>1, <2>2, <2>5
<1> QED
  BY <1>3, <1>4, <1>5, <1>6, <1>7 DEF IndInv

\* While there is a request nothing has ended the load, no Start waits to run
\* and the client has started the load.
LEMMA RequestAlive ==
    ASSUME IndInv, net_request # "none"
    PROVE  /\ load # "new"
           /\ \A k \in 1 .. Len(tasks) : tasks[k] # "Start"
           /\ \A i \in 1 .. Len(sent) : sent[i].kind \notin Terminal
BY DEF IndInv, StartOnce, EndIsLast

\* One thing said is a sequence of which it is the last.
LEMMA SingleTell ==
    ASSUME NEW kind \in {"redirect", "response", "data", "finish", "fail"}
    PROVE  /\ Tell(kind) \in Invocation
           /\ <<Tell(kind)>> \in Seq(Invocation)
           /\ Len(<<Tell(kind)>>) = 1 /\ <<Tell(kind)>>[1] = Tell(kind)
<1>1. Tell(kind) \in Invocation
  BY DEF Tell, Invocation
<1> QED
  BY <1>1

\* Ending the load with an error.
LEMMA ErrorStepPreserves ==
    ASSUME IndInv, net_request # "none", StopRequestWithError,
           UNCHANGED <<tasks, tracker, chunks>>, ClientUnchanged
    PROVE  IndInv'
<1> DEFINE said == <<Tell("fail")>>
<1>1. CoreBooleans' /\ CoreTypes'
  BY DEF IndInv, CoreBooleans, CoreTypes, StopRequestWithError, StopNetRequest, NetRequests
<1>2. net_request' = "none"
  BY DEF StopRequestWithError, StopNetRequest
<1>3. Post(said) /\ said \in Seq(Invocation) /\ Len(said) = 1
  BY SingleTell DEF StopRequestWithError
<1> HIDE DEF said
<1>4. tasks' \in Seq({"Start", "Cancel"}) /\ \A k \in 1 .. Len(tasks') : tasks'[k] # "Start"
  BY RequestAlive DEF IndInv, QueueTypes
<1>5. \A i \in 1 .. Len(said) : i = Len(said)
  BY <1>3
<1>6. load # "new" /\ \A i \in 1 .. Len(sent) : sent[i].kind \notin Terminal
  BY RequestAlive
<1> QED
  BY <1>1, <1>2, <1>3, <1>4, <1>5, <1>6, TellingStepPreserves

\* A step that changes what the request waits for and says nothing.
LEMMA WaitingStepPreserves ==
    ASSUME IndInv, net_request # "none", CoreBooleans', CoreTypes',
           UNCHANGED <<tasks, posted, sent>>, ClientUnchanged
    PROVE  IndInv'
<1>1. tasks' \in Seq({"Start", "Cancel"}) /\ \A k \in 1 .. Len(tasks') : tasks'[k] # "Start"
  BY RequestAlive DEF IndInv, QueueTypes
<1> QED
  BY <1>1, RequestAlive, SilentStepPreserves

\* What a read says: data, and at the end whatever ended it.
LEMMA ReadsPreserves ==
    ASSUME IndInv, net_request # "none", NEW before \in Seq(Invocation),
           \A i \in 1 .. Len(before) : before[i].kind \notin Terminal,
           NEW n \in 0 .. MaxChunks, NEW outcome \in {"eof", "error", "pending"},
           Reads(before, n, outcome), ~ stream_delegate,
           UNCHANGED <<tasks, tracker>>, ClientUnchanged
    PROVE  IndInv'
<1> DEFINE data == [i \in 1 .. n |-> TellData(chunks + i)]
           end == CASE outcome = "eof" -> <<Tell("finish")>>
                    [] outcome = "error" -> <<Tell("fail")>>
                    [] outcome = "pending" -> << >>
           said == before \o data \o end
<1>1. n \in Nat /\ chunks \in Nat
  BY HandlerAssumption DEF IndInv, CoreTypes
<1>2. Post(said) /\ chunks' = chunks + n /\ chunks + n <= MaxChunks
  BY DEF Reads
<1>3. CoreBooleans' /\ CoreTypes'
  <2>1. chunks' \in 0 .. MaxChunks
    BY <1>1, <1>2, HandlerAssumption
  <2>2. CASE outcome = "pending"
    <3>1. net_request' = "reading" /\ UNCHANGED <<stream_delegate, tracked>>
      BY <2>2 DEF Reads
    <3> QED
      BY <2>1, <3>1 DEF IndInv, CoreBooleans, CoreTypes, NetRequests
  <2>3. CASE outcome # "pending"
    <3>1. StopNetRequest
      BY <2>3 DEF Reads
    <3> QED
      BY <2>1, <3>1 DEF IndInv, StopNetRequest, CoreBooleans, CoreTypes, NetRequests
  <2> QED
    BY <2>2, <2>3
<1>4. outcome # "pending" => net_request' = "none"
  BY DEF Reads, StopNetRequest
<1>5. /\ data \in Seq(Invocation) /\ Len(data) = n
      /\ \A i \in 1 .. n : data[i].kind \notin Terminal
  <2>1. \A i \in 1 .. n : TellData(chunks + i) \in Invocation
    BY <1>1 DEF TellData, Invocation
  <2>2. \A i \in 1 .. n : data[i].kind \notin Terminal
    BY <1>1 DEF TellData, Terminal
  <2> QED
    BY <1>1, <2>1, <2>2
<1>6. /\ end \in Seq(Invocation)
      /\ Len(end) = IF outcome = "pending" THEN 0 ELSE 1
  <2>1. CASE outcome = "eof"
    BY <2>1, SingleTell
  <2>2. CASE outcome = "error"
    BY <2>2, SingleTell
  <2>3. CASE outcome = "pending"
    BY <2>3
  <2> QED
    BY <2>1, <2>2, <2>3
<1> HIDE DEF data, end
<1>7. /\ before \o data \in Seq(Invocation) /\ Len(before \o data) = Len(before) + n
      /\ \A i \in 1 .. Len(before) + n : (before \o data)[i].kind \notin Terminal
  <2>1. /\ before \o data \in Seq(Invocation) /\ Len(before \o data) = Len(before) + Len(data)
        /\ \A i \in 1 .. Len(before) + Len(data) :
               (before \o data)[i] = IF i <= Len(before) THEN before[i] ELSE data[i - Len(before)]
    BY <1>5, ConcatProperties
  <2>2. Len(before) \in Nat
    OBVIOUS
  <2> QED
    BY <1>1, <1>5, <2>1, <2>2
<1> DEFINE head == before \o data
<1> HIDE DEF head
<1>8. /\ head \in Seq(Invocation)
      /\ \A i \in 1 .. Len(head) : head[i].kind \notin Terminal
  BY <1>7 DEF head
<1>9. /\ head \o end \in Seq(Invocation) /\ Len(head \o end) = Len(head) + Len(end)
      /\ \A i \in 1 .. Len(head) + Len(end) :
             (head \o end)[i] = IF i <= Len(head) THEN head[i] ELSE end[i - Len(head)]
  BY <1>6, <1>8, ConcatProperties
<1>10. said = head \o end
  BY DEF head
<1> HIDE DEF said
<1>11. \A i \in 1 .. Len(said) : said[i].kind \in Terminal =>
           i = Len(said) /\ net_request' = "none"
  <2> SUFFICES ASSUME NEW i \in 1 .. Len(said), said[i].kind \in Terminal
               PROVE  i = Len(said) /\ net_request' = "none"
    OBVIOUS
  <2>1. Len(head) \in Nat
    BY <1>8
  <2>2. ~ (i <= Len(head))
    BY <1>6, <1>8, <1>9, <1>10, <2>1
  <2>3. outcome # "pending" /\ i = Len(head) + 1
    BY <1>6, <1>9, <1>10, <2>1, <2>2
  <2> QED
    BY <1>4, <1>6, <1>9, <1>10, <2>1, <2>3
<1>12. tasks' \in Seq({"Start", "Cancel"}) /\ \A k \in 1 .. Len(tasks') : tasks'[k] # "Start"
  BY RequestAlive DEF IndInv, QueueTypes
<1>13. said \in Seq(Invocation)
  BY <1>9, <1>10
<1> QED
  BY <1>2, <1>3, <1>11, <1>12, <1>13, RequestAlive, TellingStepPreserves

\* Dropping the first task leaves no Start behind.
LEMMA TailOfTasks ==
    ASSUME IndInv, tasks # << >>
    PROVE  /\ Tail(tasks) \in Seq({"Start", "Cancel"})
           /\ \A k \in 1 .. Len(Tail(tasks)) : Tail(tasks)[k] # "Start"
           /\ Head(tasks) = "Start" => sent = << >> /\ net_request = "none"
           /\ load # "new"
<1>1. tasks \in Seq({"Start", "Cancel"}) /\ Len(tasks) \in Nat \ {0}
  BY EmptySeq DEF IndInv, QueueTypes
<1>2. /\ Tail(tasks) \in Seq({"Start", "Cancel"})
      /\ Len(Tail(tasks)) = Len(tasks) - 1
      /\ \A i \in 1 .. Len(Tail(tasks)) : Tail(tasks)[i] = tasks[i + 1]
  BY <1>1, HeadTailProperties
<1>3. \A k \in 1 .. Len(tasks) :
          tasks[k] = "Start" => k = 1 /\ sent = << >> /\ net_request = "none"
  BY DEF IndInv, StartOnce
<1>4. \A k \in 1 .. Len(Tail(tasks)) : Tail(tasks)[k] # "Start"
  <2> SUFFICES ASSUME NEW k \in 1 .. Len(Tail(tasks)), Tail(tasks)[k] = "Start" PROVE FALSE
    OBVIOUS
  <2>1. k + 1 \in 1 .. Len(tasks) /\ k + 1 # 1
    BY <1>1, <1>2
  <2> QED
    BY <1>2, <1>3, <2>1
<1>5. Head(tasks) = tasks[1] /\ 1 \in 1 .. Len(tasks)
  BY <1>1
<1>6. load # "new"
  BY DEF IndInv, StartOnce
<1> QED
  BY <1>2, <1>3, <1>4, <1>5, <1>6

\* The first task: the request is created, or refused.
LEMMA StartPreserves ==
    ASSUME IndInv, Start
    PROVE  IndInv'
<1>1. tasks # << >> /\ Head(tasks) = "Start" /\ tasks' = Tail(tasks)
  BY DEF Start
<1>2. /\ tasks' \in Seq({"Start", "Cancel"})
      /\ \A k \in 1 .. Len(tasks') : tasks'[k] # "Start"
      /\ sent = << >> /\ net_request = "none" /\ load # "new"
  BY <1>1, TailOfTasks
<1>3. \A i \in 1 .. Len(sent) : sent[i].kind \notin Terminal
  BY <1>2
<1>4. ClientUnchanged /\ tracker' \in {"none", "open", "closing"} /\ chunks' = chunks
  BY DEF Start
<1>5. CASE Post(<<Tell("fail")>>) /\ UNCHANGED <<net_request, stream_delegate, tracked>>
  <2> DEFINE said == <<Tell("fail")>>
  <2>1. Post(said) /\ said \in Seq(Invocation) /\ Len(said) = 1
    BY <1>5, SingleTell
  <2> HIDE DEF said
  <2>2. \A i \in 1 .. Len(said) : i = Len(said)
    BY <2>1
  <2>3. CoreBooleans'
    BY <1>5, Zenon DEF IndInv, CoreBooleans
  <2>4. CoreTypes' /\ net_request' = "none"
    BY <1>2, <1>4, <1>5 DEF IndInv, CoreTypes
  <2> QED
    BY <1>2, <1>3, <1>4, <2>1, <2>2, <2>3, <2>4, TellingStepPreserves
<1>6. CASE /\ net_request' = "upload" /\ stream_delegate' = TRUE
           /\ UNCHANGED <<tracked, posted, sent>>
  <2>1. CoreBooleans'
    BY <1>6, Zenon DEF IndInv, CoreBooleans
  <2>2. CoreTypes'
    BY <1>4, <1>6 DEF IndInv, CoreTypes, NetRequests
  <2> QED
    BY <1>2, <1>3, <1>4, <1>6, <2>1, <2>2, SilentStepPreserves
<1>7. CASE /\ net_request' = "started" /\ tracked' = (tracker' # "none")
           /\ UNCHANGED <<stream_delegate, posted, sent>>
  <2>1. CoreBooleans'
    BY <1>7, Zenon DEF IndInv, CoreBooleans
  <2>2. CoreTypes'
    BY <1>2, <1>4, <1>7 DEF IndInv, CoreTypes, NetRequests
  <2> QED
    BY <1>2, <1>3, <1>4, <1>7, <2>1, <2>2, SilentStepPreserves
<1> QED
  BY <1>5, <1>6, <1>7 DEF Start

\* Cancel ends the request, if there is one, and says nothing.
LEMMA CancelPreserves ==
    ASSUME IndInv, Cancel
    PROVE  IndInv'
<1>1. tasks # << >> /\ tasks' = Tail(tasks)
  BY DEF Cancel
<1>2. /\ tasks' \in Seq({"Start", "Cancel"})
      /\ \A k \in 1 .. Len(tasks') : tasks'[k] # "Start"
      /\ load # "new"
  BY <1>1, TailOfTasks
<1>3. net_request' = "none" /\ tracker' = tracker /\ chunks' = chunks
  BY DEF Cancel, StopNetRequest
<1>4. CoreBooleans'
  BY Zenon DEF Cancel, StopNetRequest, IndInv, CoreBooleans
<1>5. ~ stream_delegate'
  BY DEF Cancel, StopNetRequest, IndInv, CoreTypes
<1>6. CoreTypes'
  BY <1>3, <1>5 DEF IndInv, CoreTypes, NetRequests
<1>7. ClientUnchanged /\ UNCHANGED <<posted, sent>>
  BY DEF Cancel
<1> QED
  BY <1>2, <1>3, <1>4, <1>6, <1>7, SilentStepPreserves

\* The body stream ends or fails.
LEMMA StreamEventPreserves ==
    ASSUME IndInv, HandleStreamEnd \/ HandleStreamError
    PROVE  IndInv'
<1>1. net_request # "none"
  BY DEF HandleStreamEnd, HandleStreamError, IndInv, CoreTypes
<1>2. CASE HandleStreamError
  BY <1>1, <1>2, ErrorStepPreserves DEF HandleStreamError
<1>3. CASE HandleStreamEnd
  <2>1. CoreBooleans'
    BY <1>3, Zenon DEF HandleStreamEnd, CoreBooleans
  <2>2. CoreTypes'
    BY <1>3 DEF HandleStreamEnd, IndInv, CoreTypes, NetRequests
  <2> QED
    BY <1>1, <1>3, <2>1, <2>2, WaitingStepPreserves DEF HandleStreamEnd
<1> QED
  BY <1>2, <1>3

\* A redirect ends the load, as does a bad one.
LEMMA RedirectPreserves ==
    ASSUME IndInv, OnReceivedRedirect
    PROVE  IndInv'
<1>1. net_request # "none"
  BY DEF OnReceivedRedirect
<1>2. CASE StopRequestWithError
  BY <1>1, <1>2, ErrorStepPreserves DEF OnReceivedRedirect
<1>3. CASE Post(<<Tell("redirect")>>) /\ StopNetRequest
  <2> DEFINE said == <<Tell("redirect")>>
  <2>1. Post(said) /\ said \in Seq(Invocation) /\ Len(said) = 1
    BY <1>3, SingleTell
  <2> HIDE DEF said
  <2>2. \A i \in 1 .. Len(said) : i = Len(said)
    BY <2>1
  <2>3. CoreBooleans' /\ CoreTypes' /\ net_request' = "none"
    BY <1>3 DEF OnReceivedRedirect, StopNetRequest, IndInv, CoreBooleans, CoreTypes, NetRequests
  <2>4. tasks' \in Seq({"Start", "Cancel"}) /\ \A k \in 1 .. Len(tasks') : tasks'[k] # "Start"
    BY <1>1, RequestAlive DEF OnReceivedRedirect, IndInv, QueueTypes
  <2>5. load # "new" /\ \A i \in 1 .. Len(sent) : sent[i].kind \notin Terminal
    BY <1>1, RequestAlive
  <2>6. ClientUnchanged
    BY DEF OnReceivedRedirect
  <2> QED
    BY <2>1, <2>2, <2>3, <2>4, <2>5, <2>6, TellingStepPreserves
<1> QED
  BY <1>2, <1>3 DEF OnReceivedRedirect

\* Waiting for another thing, with no body stream open.
LEMMA NewWaitPreserves ==
    ASSUME IndInv, net_request \notin {"none", "upload"}, net_request' \in NetRequests,
           UNCHANGED <<tasks, stream_delegate, tracker, tracked, chunks, posted, sent>>,
           ClientUnchanged
    PROVE  IndInv'
<1>1. CoreBooleans'
  BY Zenon DEF IndInv, CoreBooleans
<1>2. CoreTypes'
  BY DEF IndInv, CoreTypes
<1> QED
  BY <1>1, <1>2, WaitingStepPreserves

\* Challenges, client certificates and certificate errors.
LEMMA ChallengePreserves ==
    ASSUME IndInv, OnAuthRequired \/ OnCertificateRequested \/ OnSSLCertificateError
    PROVE  IndInv'
<1>1. net_request \notin {"none", "upload"}
  BY DEF OnAuthRequired, OnCertificateRequested, OnSSLCertificateError
<1>2. CASE OnAuthRequired
  BY <1>1, <1>2, NewWaitPreserves DEF OnAuthRequired, NetRequests
<1>3. CASE OnCertificateRequested
  BY <1>1, <1>3, ErrorStepPreserves DEF OnCertificateRequested
<1>4. CASE OnSSLCertificateError
  <2>1. CASE StopRequestWithError
    BY <1>1, <1>4, <2>1, ErrorStepPreserves DEF OnSSLCertificateError
  <2>2. CASE /\ net_request' = "certificate_accepted"
             /\ UNCHANGED <<stream_delegate, tracked, posted, sent>>
    BY <1>1, <1>4, <2>2, NewWaitPreserves DEF OnSSLCertificateError, NetRequests
  <2>3. CASE AwaitJudgment
    BY <1>1, <1>4, <2>3, NewWaitPreserves DEF OnSSLCertificateError, AwaitJudgment, NetRequests
  <2> QED
    BY <1>4, <2>1, <2>2, <2>3 DEF OnSSLCertificateError
<1> QED
  BY <1>2, <1>3, <1>4

\* The response and the data.
LEMMA ResponsePreserves ==
    ASSUME IndInv, OnResponseStarted \/ OnReadCompleted
    PROVE  IndInv'
<1>1. net_request \notin {"none", "upload"} /\ ~ stream_delegate
  BY DEF OnResponseStarted, OnReadCompleted, IndInv, CoreTypes
<1>2. CASE OnResponseStarted
  <2>1. CASE StopRequestWithError /\ UNCHANGED chunks
    BY <1>1, <1>2, <2>1, ErrorStepPreserves DEF OnResponseStarted
  <2>2. CASE AwaitJudgment /\ UNCHANGED chunks
    BY <1>1, <1>2, <2>2, NewWaitPreserves DEF OnResponseStarted, AwaitJudgment, NetRequests
  <2>3. CASE StartReading
    <3> DEFINE before == <<Tell("response")>>
    <3>1. PICK n \in 0 .. MaxChunks, outcome \in {"eof", "error", "pending"} :
              Reads(before, n, outcome)
      BY <2>3 DEF StartReading
    <3>2. before \in Seq(Invocation) /\ \A i \in 1 .. Len(before) : before[i].kind \notin Terminal
      BY SingleTell DEF Tell, Terminal
    <3> HIDE DEF before
    <3> QED
      BY <1>1, <1>2, <3>1, <3>2, ReadsPreserves DEF OnResponseStarted
  <2> QED
    BY <1>2, <2>1, <2>2, <2>3 DEF OnResponseStarted
<1>3. CASE OnReadCompleted
  <2>1. PICK n \in 0 .. MaxChunks, outcome \in {"eof", "error", "pending"} :
            Reads(<< >>, n, outcome)
    BY <1>3 DEF OnReadCompleted
  <2>2. << >> \in Seq(Invocation) /\ \A i \in 1 .. Len(<< >>) : << >>[i].kind \notin Terminal
    OBVIOUS
  <2> QED
    BY <1>1, <1>3, <2>1, <2>2, ReadsPreserves DEF OnReadCompleted
<1> QED
  BY <1>2, <1>3

\* The tracker changes nothing the client can see.
LEMMA TrackerPreserves ==
    ASSUME IndInv, TrackerForgets \/ TrackerCloses
    PROVE  IndInv'
<1>1. /\ UNCHANGED <<load, tasks, net_request, stream_delegate, chunks, posted, sent, received>>
      /\ UNCHANGED proxyvars
  BY DEF TrackerForgets, TrackerCloses
<1>2. CoreBooleans'
  BY Zenon DEF TrackerForgets, TrackerCloses, IndInv, CoreBooleans
<1>3. tracker' \in {"none", "open", "closing"}
  BY DEF TrackerForgets, TrackerCloses, IndInv, CoreTypes
<1>4. CoreTypes'
  BY <1>1, <1>3 DEF IndInv, CoreTypes
<1>5. ClientUnchanged
  BY <1>1 DEF ClientUnchanged
<1>6. /\ \A k \in 1 .. Len(tasks') :
             tasks'[k] = "Start" => k = 1 /\ sent = << >> /\ net_request' = "none"
      /\ load = "new" => tasks' = << >> /\ net_request' = "none"
      /\ tasks' \in Seq({"Start", "Cancel"})
  BY <1>1 DEF IndInv, StartOnce, QueueTypes
<1>7. \/ net_request' = "none"
      \/ \A i \in 1 .. Len(sent) : sent[i].kind \notin Terminal
  BY <1>1 DEF IndInv, EndIsLast
<1> QED
  BY <1>1, <1>2, <1>4, <1>5, <1>6, <1>7, SilentStepPreserves

-----------------------------------------------------------------------------
(* Steps of the client thread.                                             *)

\* What the steps of the client thread keep of the core.
LEMMA CoreKept ==
    ASSUME IndInv, UNCHANGED corevars, UNCHANGED sent
    PROVE  CoreBooleans' /\ CoreTypes' /\ EndIsLast'
<1>1. /\ net_request' = net_request /\ stream_delegate' = stream_delegate
      /\ tracker' = tracker /\ tracked' = tracked /\ chunks' = chunks
  BY DEF corevars
<1>2. CoreBooleans'
  BY <1>1, Zenon DEF IndInv, CoreBooleans
<1>3. CoreTypes'
  BY <1>1 DEF IndInv, CoreTypes
<1>4. EndIsLast'
  BY <1>1 DEF IndInv, EndIsLast
<1> QED
  BY <1>2, <1>3, <1>4

\* Posting a Cancel keeps Start the first task.
LEMMA CancelPosted ==
    ASSUME IndInv, tasks' = Append(tasks, "Cancel"), UNCHANGED corevars, UNCHANGED sent
    PROVE  /\ tasks' \in Seq({"Start", "Cancel"})
           /\ \A k \in 1 .. Len(tasks') :
                  tasks'[k] = "Start" => k = 1 /\ sent' = << >> /\ net_request' = "none"
<1>1. tasks \in Seq({"Start", "Cancel"}) /\ Len(tasks) \in Nat
  BY DEF IndInv, QueueTypes
<1>2. /\ tasks' \in Seq({"Start", "Cancel"}) /\ Len(tasks') = Len(tasks) + 1
      /\ \A k \in 1 .. Len(tasks) : tasks'[k] = tasks[k]
      /\ tasks'[Len(tasks) + 1] = "Cancel"
  BY <1>1, AppendProperties
<1>3. \A k \in 1 .. Len(tasks) :
          tasks[k] = "Start" => k = 1 /\ sent' = << >> /\ net_request' = "none"
  BY DEF IndInv, StartOnce, corevars
<1>4. \A k \in 1 .. Len(tasks') :
          tasks'[k] = "Start" => k = 1 /\ sent' = << >> /\ net_request' = "none"
  <2> SUFFICES ASSUME NEW k \in 1 .. Len(tasks'), tasks'[k] = "Start"
               PROVE  k = 1 /\ sent' = << >> /\ net_request' = "none"
    OBVIOUS
  <2>1. k \in 1 .. Len(tasks) \/ k = Len(tasks) + 1
    BY <1>1, <1>2
  <2> QED
    BY <1>2, <1>3, <2>1
<1> QED
  BY <1>2, <1>4

\* Stopping the load empties the proxy's queue and cuts the client off.
LEMMA StoppedPreserves ==
    ASSUME IndInv, Stopped, UNCHANGED corevars, UNCHANGED sent, UNCHANGED <<paused, pauses>>,
           posted' \in Seq(Invocation), received' \in Seq(Invocation),
           running' = FALSE
    PROVE  IndInv'
<1>1. CoreBooleans' /\ CoreTypes' /\ EndIsLast'
  BY CoreKept
<1>2. /\ load' = "stopped" /\ protocol' = FALSE /\ requestComplete' = TRUE
      /\ queued' = << >> /\ tasks' = Append(tasks, "Cancel")
  BY DEF Stopped
<1>3. ClientBooleans'
  BY <1>2, Zenon DEF IndInv, ClientBooleans
<1>4. ClientTypes'
  BY <1>2 DEF IndInv, ClientTypes
<1>5. QueueTypes'
  <2>1. tasks' \in Seq({"Start", "Cancel"})
    BY <1>2, CancelPosted
  <2> QED
    BY <1>2, <2>1 DEF IndInv, QueueTypes
<1>6. QueueIdle' /\ CompleteSeen' /\ StreamIntact'
  BY <1>2, Zenon DEF QueueIdle, CompleteSeen, StreamIntact
<1>7. StartOnce'
  <2>1. \A k \in 1 .. Len(tasks') :
            tasks'[k] = "Start" => k = 1 /\ sent' = << >> /\ net_request' = "none"
    BY <1>2, CancelPosted
  <2> QED
    BY <1>2, <2>1 DEF StartOnce
<1> QED
  BY <1>1, <1>3, <1>4, <1>5, <1>6, <1>7 DEF IndInv

\* A step of the client thread that keeps the load going.
LEMMA GoingStepPreserves ==
    ASSUME IndInv, UNCHANGED corevars, UNCHANGED sent, UNCHANGED <<load, tasks, protocol>>,
           load # "new",
           posted' \in Seq(Invocation), queued' \in Seq(Invocation),
           received' \in Seq(Invocation), pauses' \in 0 .. MaxPauses,
           ClientBooleans', QueueIdle', CompleteSeen', StreamIntact'
    PROVE  IndInv'
<1>1. CoreBooleans' /\ CoreTypes' /\ EndIsLast'
  BY CoreKept
<1>2. ClientTypes' /\ QueueTypes'
  BY DEF IndInv, ClientTypes, QueueTypes
<1>3. StartOnce'
  BY DEF IndInv, StartOnce, corevars
<1> QED
  BY <1>1, <1>2, <1>3 DEF IndInv

\* What was received stays received: an end that was seen stays seen.
LEMMA EndStaysSeen ==
    ASSUME received \in Seq(Invocation), NEW inv \in Invocation,
           received' = Append(received, inv),
           Ended \/ inv.kind \in Terminal
    PROVE  Ended'
<1>1. /\ Len(received) \in Nat /\ Len(received') = Len(received) + 1
      /\ \A i \in 1 .. Len(received) : received'[i] = received[i]
      /\ received'[Len(received) + 1] = inv
  BY AppendProperties
<1>2. CASE Ended
  <2>1. PICK i \in 1 .. Len(received) : received[i].kind \in Terminal
    BY <1>2 DEF Ended
  <2>2. i \in 1 .. Len(received') /\ received'[i].kind \in Terminal
    BY <1>1, <2>1
  <2> QED
    BY <2>2 DEF Ended
<1>3. CASE inv.kind \in Terminal
  <2>1. Len(received) + 1 \in 1 .. Len(received')
    BY <1>1
  <2> QED
    BY <1>1, <1>3, <2>1 DEF Ended
<1> QED
  BY <1>2, <1>3

\* An invocation reaches the client, which may pause or stop the load.
LEMMA InvokePreserves ==
    ASSUME IndInv, NEW inv \in Invocation, NEW rest \in Seq(Invocation), Invoke(inv, rest),
           UNCHANGED corevars, UNCHANGED sent, load # "new",
           posted' \in Seq(Invocation), running' \in BOOLEAN, QueueIdle',
           protocol => Append(received, inv) \o rest \o posted' = sent
    PROVE  IndInv'
<1>1. received \in Seq(Invocation)
  BY DEF IndInv, QueueTypes
<1>2. received' \in Seq(Invocation)
  BY <1>1, AppendProperties DEF Invoke
<1>3. CASE protocol /\ Stopped /\ UNCHANGED <<paused, pauses>>
  <2>1. queued' = << >>
    BY <1>3 DEF Stopped
  <2>2. running' = FALSE
    BY <2>1, Zenon DEF QueueIdle
  <2> QED
    BY <1>2, <1>3, <2>2, StoppedPreserves
<1>4. CASE /\ \/ UNCHANGED <<paused, pauses>>
              \/ protocol /\ pauses < MaxPauses /\ paused' = TRUE /\ pauses' = pauses + 1
           /\ requestComplete' = (requestComplete \/ inv.kind \in {"finish", "fail"})
           /\ queued' = rest
           /\ UNCHANGED <<load, tasks, protocol>>
  <2>1. pauses' \in 0 .. MaxPauses
    BY <1>4, HandlerAssumption DEF IndInv, ClientTypes
  <2>2. paused' \in BOOLEAN /\ requestComplete' \in BOOLEAN /\ protocol' \in BOOLEAN
    BY <1>4, Zenon DEF IndInv, ClientBooleans
  <2>3. ClientBooleans'
    BY <2>2, Zenon DEF ClientBooleans
  <2>4. CompleteSeen'
    <3> SUFFICES ASSUME requestComplete', protocol' PROVE Ended'
      BY DEF CompleteSeen
    <3>1. protocol /\ received' = Append(received, inv)
      BY <1>4 DEF Invoke
    <3>2. requestComplete \/ inv.kind \in Terminal
      BY <1>4 DEF Terminal
    <3>3. Ended \/ inv.kind \in Terminal
      BY <3>1, <3>2 DEF IndInv, CompleteSeen
    <3> QED
      BY <1>1, <3>1, <3>3, EndStaysSeen
  <2>5. StreamIntact'
    <3> SUFFICES ASSUME protocol' PROVE received' \o queued' \o posted' = sent'
      BY DEF StreamIntact
    <3>1. protocol /\ received' = Append(received, inv)
      BY <1>4 DEF Invoke
    <3> QED
      BY <1>4, <3>1
  <2> QED
    BY <1>2, <1>4, <2>1, <2>3, <2>4, <2>5, GoingStepPreserves
<1> QED
  BY <1>3, <1>4 DEF Invoke

\* Moving the first of a sequence to the end of what precedes it.
LEMMA MoveHead ==
    ASSUME NEW before \in Seq(Invocation), NEW q \in Seq(Invocation), q # << >>
    PROVE  /\ Head(q) \in Invocation
           /\ Tail(q) \in Seq(Invocation)
           /\ Append(before, Head(q)) \o Tail(q) = before \o q
<1>1. Head(q) \in Invocation /\ Tail(q) \in Seq(Invocation) /\ q = <<Head(q)>> \o Tail(q)
  BY HeadTailProperties
<1> DEFINE h == Head(q)
           t == Tail(q)
<1> HIDE DEF h, t
<1>2. h \in Invocation /\ t \in Seq(Invocation) /\ q = <<h>> \o t
  BY <1>1 DEF h, t
<1>3. Append(before, h) = before \o <<h>>
  BY <1>2, AppendIsConcat
<1>4. <<h>> \in Seq(Invocation)
  BY <1>2
<1>5. (before \o <<h>>) \o t = before \o (<<h>> \o t)
  BY <1>2, <1>4, ConcatAssociative
<1>6. Append(before, h) \o t = before \o q
  BY <1>2, <1>3, <1>5
<1> QED
  BY <1>1, <1>6 DEF h, t

\* The next posted invocation is run, or queued if the load is paused.
LEMMA InvokeOnClientThreadPreserves ==
    ASSUME IndInv, InvokeOnClientThread
    PROVE  IndInv'
<1>1. /\ posted # << >> /\ ~ running /\ posted' = Tail(posted)
      /\ UNCHANGED corevars /\ UNCHANGED sent /\ running' = running
  BY DEF InvokeOnClientThread
<1>2. /\ posted \in Seq(Invocation) /\ queued \in Seq(Invocation)
      /\ received \in Seq(Invocation)
  BY DEF IndInv, QueueTypes
<1>3. Head(posted) \in Invocation /\ Tail(posted) \in Seq(Invocation)
  BY <1>1, <1>2, HeadTailProperties
<1>4. load # "new"
  BY <1>1 DEF IndInv, StartOnce
<1>5. running' \in BOOLEAN
  BY <1>1, Zenon DEF IndInv, ClientBooleans
<1>6. CASE paused
  <2>1. /\ queued' = IF protocol THEN Append(queued, Head(posted)) ELSE queued
        /\ UNCHANGED <<load, tasks, protocol, requestComplete, paused, pauses, received>>
    BY <1>6 DEF InvokeOnClientThread
  <2>2. queued' \in Seq(Invocation)
    BY <1>2, <1>3, <2>1, AppendProperties
  <2>3. ClientBooleans'
    BY <1>1, <2>1, Zenon DEF IndInv, ClientBooleans
  <2>4. QueueIdle'
    BY <1>1, <1>6, <2>1, Zenon DEF QueueIdle
  <2>5. CompleteSeen'
    BY <2>1, Zenon DEF IndInv, CompleteSeen, Ended
  <2>6. StreamIntact'
    <3> SUFFICES ASSUME protocol PROVE received \o queued' \o posted' = sent
      BY <1>1, <2>1 DEF StreamIntact
    <3>1. Append(queued, Head(posted)) \o Tail(posted) = queued \o posted
      BY <1>1, <1>2, MoveHead
    <3>2. queued' \o posted' = queued \o posted
      BY <1>1, <2>1, <3>1
    <3>3. received \o queued' \o posted' = received \o (queued' \o posted')
      <4>1. posted' \in Seq(Invocation)
        BY <1>1, <1>3
      <4> QED
        BY <1>2, <2>2, <4>1, ConcatAssociative
    <3>4. received \o queued \o posted = received \o (queued \o posted)
      BY <1>2, ConcatAssociative
    <3>5. received \o queued \o posted = sent
      BY DEF IndInv, StreamIntact
    <3> QED
      BY <3>2, <3>3, <3>4, <3>5
  <2>7. pauses' \in 0 .. MaxPauses
    BY <2>1 DEF IndInv, ClientTypes
  <2> QED
    BY <1>1, <1>2, <1>3, <1>4, <2>1, <2>2, <2>3, <2>4, <2>5, <2>6, <2>7, GoingStepPreserves
<1>7. CASE ~ paused
  <2> DEFINE inv == Head(posted)
  <2>1. queued = << >>
    BY <1>1, <1>7, Zenon DEF IndInv, QueueIdle
  <2>2. Invoke(inv, queued)
    BY <1>7 DEF InvokeOnClientThread
  <2>3. queued' = << >>
    BY <2>1, <2>2 DEF Invoke, Stopped
  <2>4. QueueIdle'
    BY <1>1, <2>3, Zenon DEF QueueIdle
  <2>5. protocol => Append(received, inv) \o queued \o posted' = sent
    <3> SUFFICES ASSUME protocol PROVE Append(received, inv) \o queued \o posted' = sent
      OBVIOUS
    <3>1. Append(received, Head(posted)) \o Tail(posted) = received \o posted
      BY <1>1, <1>2, MoveHead
    <3>2. received \o queued \o posted = sent
      BY DEF IndInv, StreamIntact
    <3>3. received \o << >> = received
      BY <1>2, ConcatEmptySeq
    <3>4. Append(received, inv) \o << >> = Append(received, inv)
      BY <1>2, <1>3, AppendProperties, ConcatEmptySeq
    <3> QED
      BY <1>1, <2>1, <3>1, <3>2, <3>3, <3>4
  <2> HIDE DEF inv
  <2>6. inv \in Invocation
    BY <1>3 DEF inv
  <2> QED
    BY <1>1, <1>2, <1>3, <1>4, <1>5, <2>2, <2>4, <2>5, <2>6, InvokePreserves
<1> QED
  BY <1>6, <1>7

\* One turn of the loop over the proxy's queue.
LEMMA RunInvocationQueuePreserves ==
    ASSUME IndInv, RunInvocationQueue
    PROVE  IndInv'
<1> DEFINE inv == Head(queued)
           rest == Tail(queued)
<1>1. /\ running /\ Invoke(inv, rest) /\ running' = (~ paused' /\ queued' # << >>)
      /\ UNCHANGED corevars /\ UNCHANGED <<posted, sent>>
  BY DEF RunInvocationQueue
<1>2. queued # << >>
  BY <1>1, Zenon DEF IndInv, QueueIdle
<1>3. /\ posted \in Seq(Invocation) /\ queued \in Seq(Invocation)
      /\ received \in Seq(Invocation)
  BY DEF IndInv, QueueTypes
<1>4. /\ inv \in Invocation /\ rest \in Seq(Invocation)
      /\ Append(received, inv) \o rest = received \o queued
  BY <1>2, <1>3, MoveHead
<1> HIDE DEF inv, rest
<1>5. running' \in BOOLEAN
  BY <1>1, Zenon
<1>6. QueueIdle'
  BY <1>1, Zenon DEF QueueIdle
<1>7. load # "new"
  BY <1>2 DEF IndInv, StartOnce
<1>8. protocol => Append(received, inv) \o rest \o posted' = sent
  BY <1>1, <1>4 DEF IndInv, StreamIntact
<1> QED
  BY <1>1, <1>3, <1>4, <1>5, <1>6, <1>7, <1>8, InvokePreserves

\* The client starts the load.
LEMMA StartLoadingPreserves ==
    ASSUME IndInv, StartLoading
    PROVE  IndInv'
<1>1. /\ load = "new" /\ load' = "loading" /\ UNCHANGED corevars
      /\ posted' = posted /\ requestComplete' = requestComplete /\ paused' = paused
      /\ pauses' = pauses /\ queued' = queued /\ running' = running
  BY DEF StartLoading
<1>2. /\ tasks = << >> /\ net_request = "none"
      /\ posted = << >> /\ queued = << >> /\ sent = << >> /\ received = << >>
      /\ ~ paused /\ ~ running /\ ~ protocol
  BY <1>1 DEF IndInv, StartOnce
<1>3. net_request' = "none"
  BY <1>1, <1>2 DEF corevars
<1>4. CoreBooleans'
  BY <1>1, Zenon DEF IndInv, CoreBooleans, corevars
<1>5. CoreTypes'
  BY <1>1 DEF IndInv, CoreTypes, corevars
<1>6. ClientTypes'
  BY <1>1 DEF IndInv, ClientTypes
<1>7. QueueIdle'
  BY <1>1, <1>2, Zenon DEF QueueIdle
<1>8. CASE tasks' = Append(tasks, "Start") /\ protocol' = TRUE /\ UNCHANGED <<sent, received>>
  <2>1. tasks' = <<"Start">>
    BY <1>2, <1>8
  <2>2. QueueTypes'
    BY <1>1, <1>2, <1>8, <2>1 DEF QueueTypes
  <2>3. ClientBooleans'
    BY <1>1, <1>8, Zenon DEF IndInv, ClientBooleans
  <2>4. StartOnce'
    BY <1>1, <1>2, <1>3, <1>8, <2>1 DEF StartOnce
  <2>5. EndIsLast'
    BY <1>2, <1>8 DEF EndIsLast
  <2>6. StreamIntact'
    BY <1>1, <1>2, <1>8 DEF StreamIntact
  <2>7. CompleteSeen'
    <3>1. ~ requestComplete
      BY <1>1 DEF IndInv, StartOnce
    <3> QED
      BY <1>1, <3>1 DEF CompleteSeen
  <2> QED
    BY <1>4, <1>5, <1>6, <1>7, <2>2, <2>3, <2>4, <2>5, <2>6, <2>7 DEF IndInv
<1>9. CASE /\ sent' = <<Tell("fail")>> /\ received' = <<Tell("fail")>>
           /\ UNCHANGED <<tasks, protocol>>
  <2>1. QueueTypes'
    BY <1>1, <1>2, <1>9, SingleTell DEF QueueTypes
  <2>2. ClientBooleans'
    BY <1>1, <1>9, Zenon DEF IndInv, ClientBooleans
  <2>3. StartOnce'
    BY <1>1, <1>2, <1>9 DEF StartOnce
  <2>4. EndIsLast'
    BY <1>3, <1>9 DEF EndIsLast
  <2>5. StreamIntact' /\ CompleteSeen'
    BY <1>2, <1>9, Zenon DEF StreamIntact, CompleteSeen
  <2> QED
    BY <1>4, <1>5, <1>6, <1>7, <2>1, <2>2, <2>3, <2>4, <2>5 DEF IndInv
<1> QED
  BY <1>8, <1>9 DEF StartLoading

\* The client stops the load outside any callback.
LEMMA StopLoadingPreserves ==
    ASSUME IndInv, StopLoading
    PROVE  IndInv'
<1>1. running' = FALSE
  BY Zenon DEF StopLoading, IndInv, ClientBooleans
<1>2. posted' \in Seq(Invocation) /\ received' \in Seq(Invocation)
  BY DEF StopLoading, IndInv, QueueTypes
<1> QED
  BY <1>1, <1>2, StoppedPreserves DEF StopLoading

\* The client pauses or resumes the load outside any callback.
LEMMA PauseResumePreserves ==
    ASSUME IndInv, Pause \/ Resume
    PROVE  IndInv'
<1>1. /\ UNCHANGED corevars /\ sent' = sent /\ UNCHANGED <<load, tasks, protocol>>
      /\ posted' = posted /\ queued' = queued /\ received' = received
      /\ requestComplete' = requestComplete
      /\ protocol /\ ~ running
  BY DEF Pause, Resume
<1>2. load # "new"
  BY <1>1 DEF IndInv, StartOnce
<1>3. /\ posted' \in Seq(Invocation) /\ queued' \in Seq(Invocation)
      /\ received' \in Seq(Invocation)
  BY <1>1 DEF IndInv, QueueTypes
<1>4. pauses' \in 0 .. MaxPauses
  BY HandlerAssumption DEF Pause, Resume, IndInv, ClientTypes
<1>5. ClientBooleans'
  BY <1>1, Zenon DEF Pause, Resume, IndInv, ClientBooleans
<1>6. QueueIdle'
  <2>1. CASE Pause
    BY <1>1, <2>1, Zenon DEF Pause, QueueIdle
  <2>2. CASE Resume
    BY <1>1, <2>2, Zenon DEF Resume, QueueIdle
  <2> QED
    BY <2>1, <2>2
<1>7. CompleteSeen' /\ StreamIntact'
  BY <1>1, Zenon DEF IndInv, CompleteSeen, Ended, StreamIntact
<1> QED
  BY <1>1, <1>2, <1>3, <1>4, <1>5, <1>6, <1>7, GoingStepPreserves

-----------------------------------------------------------------------------
(* The theorems.                                                           *)

\* Every step preserves the invariant.
LEMMA NextPreserves == IndInv /\ [Next]_vars => IndInv'
<1> SUFFICES ASSUME IndInv, [Next]_vars PROVE IndInv'
  OBVIOUS
<1>1. CASE Start
  BY <1>1, StartPreserves
<1>2. CASE Cancel
  BY <1>2, CancelPreserves
<1>3. CASE NetworkCallback
  BY <1>3, StreamEventPreserves, RedirectPreserves, ChallengePreserves, ResponsePreserves
  DEF NetworkCallback
<1>4. CASE TrackerForgets \/ TrackerCloses
  BY <1>4, TrackerPreserves
<1>5. CASE StartLoading
  BY <1>5, StartLoadingPreserves
<1>6. CASE StopLoading
  BY <1>6, StopLoadingPreserves
<1>7. CASE InvokeOnClientThread
  BY <1>7, InvokeOnClientThreadPreserves
<1>8. CASE RunInvocationQueue
  BY <1>8, RunInvocationQueuePreserves
<1>9. CASE Pause \/ Resume
  BY <1>9, PauseResumePreserves
<1>10. CASE UNCHANGED vars
  <2>1. ClientUnchanged /\ UNCHANGED <<tasks, corevars, posted, sent>>
    BY <1>10 DEF vars, ClientUnchanged
  <2>2. CoreBooleans' /\ CoreTypes'
    BY <2>1, CoreKept
  <2>3. /\ tasks' \in Seq({"Start", "Cancel"})
        /\ \A k \in 1 .. Len(tasks') :
               tasks'[k] = "Start" => k = 1 /\ sent = << >> /\ net_request' = "none"
        /\ load = "new" => tasks' = << >> /\ net_request' = "none"
    BY <2>1 DEF IndInv, StartOnce, QueueTypes, corevars
  <2>4. \/ net_request' = "none"
        \/ \A i \in 1 .. Len(sent) : sent[i].kind \notin Terminal
    BY <2>1 DEF IndInv, EndIsLast, corevars
  <2> QED
    BY <2>1, <2>2, <2>3, <2>4, SilentStepPreserves
<1> QED
  BY <1>1, <1>2, <1>3, <1>4, <1>5, <1>6, <1>7, <1>8, <1>9, <1>10 DEF Next

\* The invariant holds in every reachable state.
THEOREM LoadInvariance == Spec => []IndInv
BY InitEstablishes, NextPreserves, PTL DEF Spec

\* Every variable keeps its type, and the body stream has a delegate only while
\* the body is uploaded.
THEOREM LoadTypeCorrect == Spec => []TypeOK
BY LoadInvariance, TypesTogether, PTL

\* Until the load is stopped, what the client received, what the proxy queued and
\* what is posted make up, in order, exactly what the core said: no pause, resume
\* or interleaving of the two threads loses, duplicates or reorders a callback.
THEOREM StreamAlwaysIntact == Spec => []StreamIntact
<1>1. IndInv => StreamIntact
  BY DEF IndInv
<1> QED
  BY <1>1, LoadInvariance, PTL

\* The DCHECK of -invokeOnClientThread: and -runInvocationQueueOnClientThread
\* never fires: the end of a load is the last thing said, so a client that has
\* seen it finds nothing left in either queue.
THEOREM NothingEverAfterComplete == Spec => []NothingAfterComplete
<1>1. ASSUME IndInv, requestComplete, protocol PROVE posted = << >> /\ queued = << >>
  <2>1. /\ received \in Seq(Invocation) /\ queued \in Seq(Invocation)
        /\ posted \in Seq(Invocation) /\ Len(received) \in Nat
        /\ Len(queued) \in Nat /\ Len(posted) \in Nat
    BY <1>1 DEF IndInv, QueueTypes
  <2>2. PICK i \in 1 .. Len(received) : received[i].kind \in Terminal
    BY <1>1 DEF IndInv, CompleteSeen, Ended
  <2> DEFINE reached == received \o queued
  <2>3. /\ reached \in Seq(Invocation) /\ Len(reached) = Len(received) + Len(queued)
        /\ reached[i] = received[i]
    BY <2>1, <2>2, ConcatProperties
  <2>4. reached \o posted = sent
    BY <1>1 DEF IndInv, StreamIntact
  <2> HIDE DEF reached
  <2>5. /\ Len(sent) = Len(reached) + Len(posted)
        /\ i \in 1 .. Len(sent) /\ sent[i] = reached[i]
    <3>1. /\ Len(reached \o posted) = Len(reached) + Len(posted)
          /\ \A k \in 1 .. Len(reached) + Len(posted) :
                 (reached \o posted)[k] = IF k <= Len(reached) THEN reached[k]
                                          ELSE posted[k - Len(reached)]
      <4>1. reached \in Seq(Invocation) /\ posted \in Seq(Invocation)
        BY <2>1, <2>3
      <4> QED
        BY <4>1, ConcatProperties, Zenon
    <3>2. i \in 1 .. Len(reached) /\ i \in 1 .. Len(reached) + Len(posted) /\ i <= Len(reached)
      BY <2>1, <2>2, <2>3
    <3>3. (reached \o posted)[i] = reached[i]
      BY <3>1, <3>2
    <3>4. Len(sent) = Len(reached) + Len(posted) /\ sent[i] = reached[i]
      BY <2>4, <3>1, <3>3, Zenon
    <3> QED
      BY <3>2, <3>4
  <2>6. i = Len(sent)
    BY <1>1, <2>2, <2>3, <2>5 DEF IndInv, EndIsLast
  <2>7. Len(queued) = 0 /\ Len(posted) = 0
    BY <2>1, <2>2, <2>3, <2>5, <2>6
  <2> QED
    BY <2>1, <2>7, EmptySeq
<1>2. IndInv => NothingAfterComplete
  BY <1>1 DEF NothingAfterComplete
<1> QED
  BY <1>2, LoadInvariance, PTL

-----------------------------------------------------------------------------
(* What a load holds.                                                      *)

\* After stopLoading a Cancel is still to run, behind everything else, or the
\* request is gone.
Released ==
    load = "stopped" =>
        IF tasks = << >> THEN net_request = "none" ELSE tasks[Len(tasks)] = "Cancel"

\* A callback of the network stack finds a request, and leaves one that is past
\* the upload of its body or none, which the tracker does not count.
LEMMA CallbackHolds ==
    ASSUME IndInv, NoStaleCounts, NetworkCallback
    PROVE  /\ net_request # "none" /\ UNCHANGED <<load, tasks>>
           /\ NoStaleCounts'
<1> DEFINE kept == tracked' => net_request' \notin {"none", "upload"}
<1>1. ASSUME StopNetRequest PROVE kept
  BY <1>1 DEF StopNetRequest
<1>2. CASE HandleStreamEnd
  BY <1>2 DEF HandleStreamEnd, ClientUnchanged, NoStaleCounts, IndInv, CoreTypes
<1>3. CASE HandleStreamError
  BY <1>1, <1>3
  DEF HandleStreamError, StopRequestWithError, ClientUnchanged, NoStaleCounts, IndInv, CoreTypes
<1>4. CASE OnReceivedRedirect \/ OnCertificateRequested
  BY <1>1, <1>4
  DEF OnReceivedRedirect, OnCertificateRequested, StopRequestWithError, ClientUnchanged,
      NoStaleCounts
<1>5. CASE OnAuthRequired
  BY <1>5 DEF OnAuthRequired, ClientUnchanged, NoStaleCounts
<1>6. CASE OnSSLCertificateError
  BY <1>1, <1>6
  DEF OnSSLCertificateError, StopRequestWithError, AwaitJudgment, ClientUnchanged, NoStaleCounts
<1>7. ASSUME NEW before, NEW n, NEW outcome, Reads(before, n, outcome),
             net_request \notin {"none", "upload"}
      PROVE  kept
  BY <1>1, <1>7 DEF Reads, NoStaleCounts
<1>8. CASE OnResponseStarted
  <2>1. net_request \notin {"none", "upload"} /\ UNCHANGED <<load, tasks>>
    BY <1>8 DEF OnResponseStarted, ClientUnchanged
  <2>2. CASE StartReading
    BY <1>7, <2>1, <2>2 DEF StartReading, NoStaleCounts
  <2>3. CASE StopRequestWithError \/ AwaitJudgment
    BY <1>1, <2>1, <2>3 DEF StopRequestWithError, AwaitJudgment, NoStaleCounts
  <2> QED  BY <1>8, <2>1, <2>2, <2>3 DEF OnResponseStarted
<1>9. CASE OnReadCompleted
  <2>1. net_request \notin {"none", "upload"} /\ UNCHANGED <<load, tasks>>
    BY <1>9 DEF OnReadCompleted, ClientUnchanged
  <2>2. PICK n \in 0 .. MaxChunks, outcome \in {"eof", "error", "pending"} :
            Reads(<< >>, n, outcome)
    BY <1>9 DEF OnReadCompleted
  <2> QED  BY <1>7, <2>1, <2>2 DEF NoStaleCounts
<1> QED
  BY <1>2, <1>3, <1>4, <1>5, <1>6, <1>8, <1>9 DEF NetworkCallback

\* Taking the first task off leaves the last one where it is.
LEMMA LastOfTail ==
    ASSUME IndInv, tasks # << >>, tasks[Len(tasks)] = "Cancel", Tail(tasks) # << >>
    PROVE  Tail(tasks)[Len(Tail(tasks))] = "Cancel"
<1>1. tasks \in Seq({"Start", "Cancel"}) /\ Len(tasks) \in Nat \ {0}
  BY EmptySeq DEF IndInv, QueueTypes
<1>2. /\ Tail(tasks) \in Seq({"Start", "Cancel"})
      /\ Len(Tail(tasks)) = Len(tasks) - 1
      /\ \A i \in 1 .. Len(Tail(tasks)) : Tail(tasks)[i] = tasks[i + 1]
  BY <1>1, HeadTailProperties
<1>3. Len(Tail(tasks)) \in 1 .. Len(Tail(tasks))
  BY <1>2, EmptySeq, LenProperties
<1> QED  BY <1>1, <1>2, <1>3

\* Start creates the request, but never as the last task of a stopped load.
LEMMA StartHolds ==
    ASSUME IndInv, Released, NoStaleCounts, Start
    PROVE  Released' /\ NoStaleCounts'
<1>1. /\ tasks # << >> /\ Head(tasks) = "Start" /\ tasks' = Tail(tasks)
      /\ load' = load /\ net_request = "none"
  BY TailOfTasks DEF Start, ClientUnchanged
<1>2. ASSUME load = "stopped" PROVE tasks' # << >> /\ tasks'[Len(tasks')] = "Cancel"
  <2>1. tasks[Len(tasks)] = "Cancel"
    BY <1>1, <1>2 DEF Released
  <2>2. Tail(tasks) # << >>
    <3>1. tasks \in Seq({"Start", "Cancel"}) /\ Len(tasks) \in Nat \ {0}
      BY <1>1, EmptySeq DEF IndInv, QueueTypes
    <3>2. tasks[1] = "Start" /\ Len(tasks) # 1
      BY <1>1, <2>1, <3>1
    <3>3. Tail(tasks) \in Seq({"Start", "Cancel"}) /\ Len(Tail(tasks)) = Len(tasks) - 1
      BY <1>1, <3>1, HeadTailProperties
    <3>4. Len(Tail(tasks)) # 0
      BY <3>1, <3>2, <3>3
    <3> QED  BY <3>3, <3>4, EmptySeq
  <2> QED  BY <1>1, <2>1, <2>2, LastOfTail
<1>3. Released'
  BY <1>1, <1>2 DEF Released
<1>4. ~ tracked
  BY <1>1 DEF NoStaleCounts
<1> QED  BY <1>1, <1>3, <1>4 DEF Start, NoStaleCounts

\* Cancel drops the request with its counts.
LEMMA CancelHolds ==
    ASSUME IndInv, Released, NoStaleCounts, Cancel
    PROVE  Released' /\ NoStaleCounts'
<1>1. /\ tasks # << >> /\ tasks' = Tail(tasks) /\ load' = load /\ net_request' = "none"
      /\ tracked' = FALSE \/ (tracked' = tracked /\ net_request = "none")
  BY DEF Cancel, ClientUnchanged, StopNetRequest
<1>2. Released'
  BY <1>1, LastOfTail DEF Released
<1>3. ~ tracked'
  BY <1>1 DEF NoStaleCounts
<1> QED  BY <1>2, <1>3 DEF NoStaleCounts

\* Stopping posts a Cancel behind everything else.
LEMMA StoppedHolds ==
    ASSUME IndInv, NoStaleCounts, Stopped, UNCHANGED corevars
    PROVE  Released' /\ NoStaleCounts'
<1>1. tasks \in Seq({"Start", "Cancel"}) /\ tasks' = Append(tasks, "Cancel")
  BY DEF IndInv, QueueTypes, Stopped
<1>2. tasks' # << >> /\ tasks'[Len(tasks')] = "Cancel"
  BY <1>1, AppendProperties
<1> QED  BY <1>2 DEF Released, NoStaleCounts, corevars

\* Every step keeps the two.
LEMMA NextHolds ==
    ASSUME IndInv, Released, NoStaleCounts, [Next]_vars
    PROVE  Released' /\ NoStaleCounts'
<1>1. ASSUME UNCHANGED <<load, tasks, net_request>>, tracked' => tracked
      PROVE  Released' /\ NoStaleCounts'
  BY <1>1 DEF Released, NoStaleCounts
<1>2. CASE Start
  BY <1>2, StartHolds
<1>3. CASE Cancel
  BY <1>3, CancelHolds
<1>4. CASE NetworkCallback
  BY <1>4, CallbackHolds DEF Released
<1>5. CASE TrackerForgets \/ TrackerCloses
  BY <1>1, <1>5 DEF TrackerForgets, TrackerCloses
<1>6. CASE StartLoading
  BY <1>6 DEF StartLoading, corevars, Released, NoStaleCounts
<1>7. CASE StopLoading
  BY <1>7, StoppedHolds DEF StopLoading
<1>8. ASSUME NEW invocation, NEW rest, Invoke(invocation, rest), UNCHANGED corevars
      PROVE  Released' /\ NoStaleCounts'
  BY <1>1, <1>8, StoppedHolds DEF Invoke, corevars
<1>9. CASE InvokeOnClientThread
  <2>1. CASE paused
    BY <1>1, <1>9, <2>1 DEF InvokeOnClientThread, corevars
  <2>2. CASE ~ paused
    BY <1>8, <1>9, <2>2 DEF InvokeOnClientThread
  <2> QED  BY <2>1, <2>2
<1>10. CASE RunInvocationQueue
  BY <1>8, <1>10 DEF RunInvocationQueue
<1>11. CASE Pause \/ Resume \/ UNCHANGED vars
  BY <1>1, <1>11 DEF Pause, Resume, vars, corevars
<1> QED
  BY <1>2, <1>3, <1>4, <1>5, <1>6, <1>7, <1>9, <1>10, <1>11 DEF Next

\* Both hold in every reachable state.
LEMMA HoldsInvariance == Spec => [](Released /\ NoStaleCounts)
<1>1. Init => Released /\ NoStaleCounts
  BY DEF Init, Released, NoStaleCounts
<1>2. IndInv /\ Released /\ NoStaleCounts /\ [Next]_vars => Released' /\ NoStaleCounts'
  BY NextHolds
<1> QED  BY <1>1, <1>2, LoadInvariance, PTL DEF Spec

\* The two DCHECKs of ~HttpProtocolHandlerCore never fire: once the Cancel of
\* stopLoading has run, whatever came before it, neither the request nor the
\* delegate of its body stream is left.
THEOREM CancelAlwaysReleases == Spec => []CancelReleases
<1>1. IndInv /\ Released => CancelReleases
  BY DEF IndInv, CoreTypes, Released, CancelReleases
<1> QED  BY <1>1, LoadInvariance, HoldsInvariance, PTL

\* The tracker's counts are those of a request that exists: a new request at the
\* address of a deleted one never finds the old one's counts.
THEOREM CountsNeverStale == Spec => []NoStaleCounts
BY HoldsInvariance, PTL

-----------------------------------------------------------------------------
(* The load implements the contract of its client.                         *)

\* A conversation in order: a redirect or a failure alone; or a response, the
\* pieces of data by number, and possibly the end.
InOrder(s) ==
    \A i \in 1 .. Len(s) :
        /\ i = 1 => s[1].kind \in {"response", "redirect", "fail"}
        /\ i > 1 => /\ s[1].kind = "response"
                    /\ \/ s[i] = TellData(i - 1)
                       \/ i = Len(s) /\ s[i].kind \in {"finish", "fail"}

\* Nothing is said before the response but what ends the load, and while data
\* is read all that was said is the response and the pieces read.
SaidByRequest ==
    /\ net_request \notin {"none", "reading"} => sent = << >>
    /\ net_request = "reading" => Len(sent) = chunks + 1 /\ sent[1].kind = "response"
    /\ sent = << >> => chunks = 0

\* The client has heard the beginning of what was said, also after the proxy
\* was invalidated.
HeardPrefix ==
    /\ Len(received) <= Len(sent)
    /\ \A i \in 1 .. Len(received) : received[i] = sent[i]

ContractInv == InOrder(sent) /\ SaidByRequest /\ HeardPrefix

\* What the client makes of a conversation in order, read off its two ends.
LEMMA OrderedView ==
    ASSUME NEW r \in Seq(Invocation), InOrder(r)
    PROVE  LET pieces == {i \in 1 .. Len(r) : r[i].kind = "data"}
               ended  == \E i \in 1 .. Len(r) : r[i].kind \in Terminal
               begun  == \E i \in 1 .. Len(r) : r[i].kind = "response"
           IN  /\ ended <=> Len(r) > 0 /\ r[Len(r)].kind \in Terminal
               /\ begun <=> Len(r) > 0 /\ r[1].kind = "response"
               /\ (IF pieces = {} THEN 0 ELSE r[Max(pieces)].n) =
                      IF Len(r) <= 1 THEN 0
                      ELSE IF r[Len(r)].kind = "data" THEN Len(r) - 1 ELSE Len(r) - 2
<1> DEFINE len    == Len(r)
           pieces == {i \in 1 .. len : r[i].kind = "data"}
           last   == IF r[len].kind = "data" THEN len ELSE len - 1
<1>1. len \in Nat
  OBVIOUS
<1>2. \A i \in 1 .. len : i = 1 => r[i].kind \in {"response", "redirect", "fail"}
  BY DEF InOrder
<1>3. \A i \in 2 .. len : r[1].kind = "response" /\
          ((r[i].kind = "data" /\ r[i].n = i - 1) \/ (i = len /\ r[i].kind \in {"finish", "fail"}))
  <2> SUFFICES ASSUME NEW i \in 2 .. len
               PROVE  r[1].kind = "response" /\
                      ((r[i].kind = "data" /\ r[i].n = i - 1)
                           \/ (i = len /\ r[i].kind \in {"finish", "fail"}))
    OBVIOUS
  <2>1. i \in 1 .. Len(r) /\ i > 1
    BY <1>1
  <2>2. /\ r[1].kind = "response"
        /\ r[i] = TellData(i - 1) \/ (i = len /\ r[i].kind \in {"finish", "fail"})
    BY <2>1 DEF InOrder
  <2> QED
    BY <2>2 DEF TellData
<1> HIDE DEF len
<1>4. (\E i \in 1 .. len : r[i].kind \in Terminal) <=> len > 0 /\ r[len].kind \in Terminal
  <2>1. \A i \in 1 .. len : i # len => r[i].kind \notin Terminal
    BY <1>1, <1>2, <1>3 DEF Terminal
  <2> QED
    BY <1>1, <2>1
<1>5. (\E i \in 1 .. len : r[i].kind = "response") <=> len > 0 /\ r[1].kind = "response"
  BY <1>1, <1>2, <1>3
<1>6. CASE len <= 1
  <2>1. pieces = {}
    BY <1>1, <1>2, <1>6
  <2> QED
    BY <1>4, <1>5, <1>6, <2>1 DEF len
<1>7. CASE len > 1
  <2>1. last \in Nat /\ pieces = 2 .. last
    BY <1>1, <1>2, <1>3, <1>7
  <2>2. CASE last < 2
    <3>1. pieces = {} /\ len = 2 /\ r[len].kind # "data"
      BY <1>1, <1>7, <2>1, <2>2
    <3> QED
      BY <1>4, <1>5, <1>7, <3>1 DEF len
  <2>3. CASE last >= 2
    <3> HIDE DEF last
    <3>1. last \in pieces /\ \A y \in pieces : last >= y
      BY <2>1, <2>3
    <3>2. \A x \in pieces : (\A y \in pieces : x >= y) => x = last
      BY <2>1, <3>1
    <3>3. Max(pieces) = last
      BY <3>1, <3>2 DEF Max
    <3>4. r[last].n = last - 1
      BY <1>1, <1>3, <1>7, <2>1, <2>3, <3>1
    <3>5. pieces # {} /\ r[Max(pieces)].n = IF r[len].kind = "data" THEN len - 1 ELSE len - 2
      BY <1>1, <3>1, <3>3, <3>4 DEF last
    <3> QED
      BY <1>1, <1>4, <1>5, <1>7, <3>5 DEF len
  <2> QED
    BY <1>1, <2>1, <2>2, <2>3
<1> QED
  BY <1>1, <1>6, <1>7

\* Saying more leaves the client with the beginning of it.
LEMMA SayKeepsHeard ==
    ASSUME IndInv, HeardPrefix, NEW said \in Seq(Invocation), Post(said), received' = received
    PROVE  /\ HeardPrefix'
           /\ Len(sent') = Len(sent) + Len(said)
           /\ \A i \in 1 .. Len(sent) + Len(said) :
                  sent'[i] = IF i <= Len(sent) THEN sent[i] ELSE said[i - Len(sent)]
<1>1. /\ sent \in Seq(Invocation) /\ Len(sent) \in Nat /\ Len(said) \in Nat
      /\ Len(received) \in Nat
  BY DEF IndInv, QueueTypes
<1>2. sent' = sent \o said
  BY DEF Post
<1>3. /\ Len(sent') = Len(sent) + Len(said)
      /\ \A i \in 1 .. Len(sent) + Len(said) :
             sent'[i] = IF i <= Len(sent) THEN sent[i] ELSE said[i - Len(sent)]
  BY <1>1, <1>2, ConcatProperties
<1>4. HeardPrefix'
  <2>1. Len(received') <= Len(sent')
    BY <1>1, <1>3 DEF HeardPrefix
  <2>2. ASSUME NEW i \in 1 .. Len(received') PROVE received'[i] = sent'[i]
    <3>1. i \in 1 .. Len(sent) + Len(said) /\ i <= Len(sent) /\ i \in 1 .. Len(received)
      BY <1>1 DEF HeardPrefix
    <3> QED
      BY <1>3, <3>1 DEF HeardPrefix
  <2> QED
    BY <2>1, <2>2 DEF HeardPrefix
<1> QED
  BY <1>3, <1>4

\* A redirect or a failure is the first thing said, or a failure follows the data.
LEMMA EndKeepsContract ==
    ASSUME IndInv, ContractInv, NEW kind \in {"redirect", "fail"},
           sent = << >> \/ (kind = "fail" /\ net_request # "none"),
           Post(<<Tell(kind)>>), received' = received, net_request' = "none"
    PROVE  ContractInv'
<1> DEFINE said == <<Tell(kind)>>
           len  == Len(sent)
<1>1. said \in Seq(Invocation) /\ Len(said) = 1 /\ said[1] = Tell(kind)
  BY SingleTell
<1>2. sent \in Seq(Invocation) /\ len \in Nat
  BY DEF IndInv, QueueTypes
<1>3. Post(said)
  OBVIOUS
<1> HIDE DEF said
<1>4. /\ HeardPrefix' /\ Len(sent') = len + 1
      /\ \A i \in 1 .. len + 1 : sent'[i] = IF i <= len THEN sent[i] ELSE said[i - len]
  BY <1>1, <1>3, SayKeepsHeard DEF ContractInv
<1>5. (\A i \in 1 .. len : sent'[i] = sent[i]) /\ sent'[len + 1].kind = kind
  <2>1. sent'[len + 1] = said[1]
    BY <1>2, <1>4
  <2> QED
    BY <1>1, <1>2, <1>4, <2>1 DEF Tell
<1>6. SaidByRequest'
  <2>1. sent' # << >>
    BY <1>2, <1>4
  <2> QED
    BY <2>1 DEF SaidByRequest
<1>7. len = 0 \/ (kind = "fail" /\ sent[1].kind = "response"
                     /\ \A i \in 2 .. len : sent[i] = TellData(i - 1))
  <2>1. CASE sent = << >>
    BY <2>1
  <2>2. CASE sent # << >>
    <3>1. net_request # "none" /\ kind = "fail" /\ net_request = "reading"
      BY <2>2 DEF ContractInv, SaidByRequest
    <3>2. sent[1].kind = "response" /\ \A i \in 1 .. len : sent[i].kind \notin Terminal
      BY <3>1, RequestAlive DEF ContractInv, SaidByRequest
    <3>3. \A i \in 2 .. len : sent[i] = TellData(i - 1)
      BY <1>2, <3>2 DEF ContractInv, InOrder, Terminal
    <3> QED
      BY <3>1, <3>2, <3>3
  <2> QED
    BY <2>1, <2>2
<1>8. InOrder(sent')
  <2> SUFFICES ASSUME NEW i \in 1 .. Len(sent')
               PROVE  /\ i = 1 => sent'[1].kind \in {"response", "redirect", "fail"}
                      /\ i > 1 => /\ sent'[1].kind = "response"
                                  /\ \/ sent'[i] = TellData(i - 1)
                                     \/ i = Len(sent') /\ sent'[i].kind \in {"finish", "fail"}
    BY DEF InOrder
  <2>1. CASE len = 0
    BY <1>4, <1>5, <2>1
  <2>2. CASE len # 0
    <3>1. sent'[1].kind = "response" /\ kind = "fail"
      BY <1>2, <1>5, <1>7, <2>2
    <3>2. i > 1 /\ i <= len => sent'[i] = TellData(i - 1)
      BY <1>2, <1>5, <1>7, <2>2
    <3> QED
      BY <1>2, <1>4, <1>5, <3>1, <3>2
  <2> QED
    BY <2>1, <2>2
<1> QED
  BY <1>4, <1>6, <1>8 DEF ContractInv

\* A read says the pieces that follow the ones said before, and then the end.
LEMMA ReadsKeepContract ==
    ASSUME IndInv, ContractInv, NEW before \in Seq(Invocation),
           \/ before = << >> /\ net_request = "reading"
           \/ before = <<Tell("response")>> /\ sent = << >>,
           NEW n \in 0 .. MaxChunks, NEW outcome \in {"eof", "error", "pending"},
           Reads(before, n, outcome), net_request # "none", received' = received
    PROVE  ContractInv'
<1> DEFINE data == [i \in 1 .. n |-> TellData(chunks + i)]
           end == CASE outcome = "eof" -> <<Tell("finish")>>
                    [] outcome = "error" -> <<Tell("fail")>>
                    [] outcome = "pending" -> << >>
           said == before \o data \o end
           len == Len(sent)
           more == IF outcome = "pending" THEN 0 ELSE 1
<1>1. n \in Nat /\ chunks \in Nat /\ sent \in Seq(Invocation) /\ len \in Nat
  BY HandlerAssumption DEF IndInv, CoreTypes, QueueTypes
<1>2. Post(said) /\ chunks' = chunks + n
  BY DEF Reads
<1>3. IF outcome = "pending" THEN net_request' = "reading" ELSE net_request' = "none"
  BY DEF Reads, StopNetRequest
<1>4. data \in Seq(Invocation) /\ Len(data) = n /\ \A i \in 1 .. n : data[i] = TellData(chunks + i)
  <2>1. \A i \in 1 .. n : TellData(chunks + i) \in Invocation
    BY <1>1 DEF TellData, Invocation
  <2> QED
    BY <1>1, <2>1
<1>5. /\ end \in Seq(Invocation) /\ Len(end) = more
      /\ more = 1 => end[1].kind \in {"finish", "fail"}
  <2>1. CASE outcome = "eof"
    BY <2>1, SingleTell DEF Tell
  <2>2. CASE outcome = "error"
    BY <2>2, SingleTell DEF Tell
  <2>3. CASE outcome = "pending"
    BY <2>3
  <2> QED
    BY <2>1, <2>2, <2>3
<1> DEFINE head == before \o data
<1>0. more \in {0, 1} /\ (outcome = "pending" <=> more = 0) /\ Len(before) \in Nat
  OBVIOUS
<1> HIDE DEF data, end, more
<1>6. /\ head \in Seq(Invocation) /\ Len(head) = Len(before) + n
      /\ \A i \in 1 .. Len(before) + n :
             head[i] = IF i <= Len(before) THEN before[i] ELSE data[i - Len(before)]
  BY <1>4, ConcatProperties
<1>7. said = head \o end
  OBVIOUS
<1> HIDE DEF head, said
<1>8. /\ said \in Seq(Invocation) /\ Len(said) = Len(before) + n + more
      /\ \A i \in 1 .. Len(before) + n + more :
             said[i] = IF i <= Len(before) + n THEN head[i] ELSE end[i - (Len(before) + n)]
  <2>1. /\ head \o end \in Seq(Invocation) /\ Len(head \o end) = Len(head) + Len(end)
        /\ \A i \in 1 .. Len(head) + Len(end) :
               (head \o end)[i] = IF i <= Len(head) THEN head[i] ELSE end[i - Len(head)]
    BY <1>5, <1>6, ConcatProperties
  <2> QED
    BY <1>0, <1>1, <1>5, <1>6, <1>7, <2>1
<1>9. /\ HeardPrefix' /\ Len(sent') = len + Len(said)
      /\ \A i \in 1 .. len + Len(said) : sent'[i] = IF i <= len THEN sent[i] ELSE said[i - len]
  BY <1>2, <1>8, SayKeepsHeard DEF ContractInv
<1>10. /\ Len(before) \in Nat /\ len + Len(before) = chunks + 1 /\ sent'[1].kind = "response"
       /\ \A i \in 2 .. chunks + 1 : sent'[i] = TellData(i - 1)
  <2>1. CASE before = << >> /\ net_request = "reading"
    <3>1. Len(before) = 0 /\ len = chunks + 1 /\ sent[1].kind = "response"
      BY <2>1 DEF ContractInv, SaidByRequest
    <3>2. \A i \in 1 .. len : sent[i].kind \notin Terminal
      BY RequestAlive
    <3>3. \A i \in 2 .. len : sent[i] = TellData(i - 1)
      BY <1>1, <3>2 DEF ContractInv, InOrder, Terminal
    <3>4. Len(said) \in Nat
      BY <1>8
    <3>5. \A i \in 1 .. len : sent'[i] = sent[i]
      BY <1>1, <1>9, <3>4
    <3> QED
      BY <1>1, <3>1, <3>3, <3>5
  <2>2. CASE before = <<Tell("response")>> /\ sent = << >>
    <3>1. Len(before) = 1 /\ len = 0 /\ chunks = 0 /\ before[1].kind = "response"
      BY <2>2, SingleTell DEF ContractInv, SaidByRequest, Tell
    <3>2. sent'[1] = said[1]
      BY <1>0, <1>1, <1>8, <1>9, <3>1
    <3>3. said[1] = head[1] /\ head[1] = before[1]
      BY <1>0, <1>1, <1>6, <1>8, <3>1
    <3> QED
      BY <3>1, <3>2, <3>3
  <2> QED
    BY <2>1, <2>2
<1>sizes. /\ n \in Nat /\ chunks \in Nat /\ len \in Nat /\ more \in {0, 1}
          /\ Len(before) \in Nat /\ len + Len(before) = chunks + 1
          /\ Len(said) = Len(before) + n + more /\ Len(sent') = len + Len(said)
          /\ chunks' = chunks + n
  BY <1>0, <1>1, <1>2, <1>8, <1>9, <1>10, Zenon
<1>11. Len(sent') = chunks' + 1 + more
  BY <1>sizes
<1>12. \A i \in chunks + 2 .. chunks' + 1 : sent'[i] = TellData(i - 1)
  <2> SUFFICES ASSUME NEW i \in chunks + 2 .. chunks + n + 1 PROVE sent'[i] = TellData(i - 1)
    BY <1>2
  <2> DEFINE j == i - len
             k == j - Len(before)
  <2>1. /\ i \in 1 .. len + Len(said) /\ ~ (i <= len) /\ j \in 1 .. Len(before) + n
        /\ j \in 1 .. Len(before) + n + more /\ ~ (j <= Len(before))
        /\ k \in 1 .. n /\ chunks + k = i - 1
    BY <1>sizes
  <2>2. sent'[i] = said[j]
    BY <1>9, <2>1
  <2>3. said[j] = head[j]
    BY <1>8, <2>1
  <2>4. head[j] = data[k]
    BY <1>6, <2>1
  <2>5. data[k] = TellData(chunks + k)
    BY <1>4, <2>1
  <2> QED
    BY <2>1, <2>2, <2>3, <2>4, <2>5
<1>13. more = 1 => sent'[Len(sent')].kind \in {"finish", "fail"}
  <2> SUFFICES ASSUME more = 1 PROVE sent'[Len(sent')].kind \in {"finish", "fail"}
    OBVIOUS
  <2>1. /\ Len(sent') \in 1 .. len + Len(said) /\ ~ (Len(sent') <= len)
        /\ Len(sent') - len = Len(said) /\ Len(said) \in 1 .. Len(before) + n + more
        /\ ~ (Len(said) <= Len(before) + n) /\ Len(said) - (Len(before) + n) = 1
    BY <1>sizes
  <2>2. sent'[Len(sent')] = said[Len(said)]
    BY <1>9, <2>1
  <2>3. said[Len(said)] = end[1]
    BY <1>8, <2>1
  <2> QED
    BY <1>5, <2>2, <2>3
<1>14. InOrder(sent')
  <2> SUFFICES ASSUME NEW i \in 1 .. Len(sent'), i > 1
               PROVE  \/ sent'[i] = TellData(i - 1)
                      \/ i = Len(sent') /\ sent'[i].kind \in {"finish", "fail"}
    BY <1>10 DEF InOrder
  <2>1. i \in 2 .. chunks + 1 \/ i \in chunks + 2 .. chunks' + 1 \/ (more = 1 /\ i = Len(sent'))
    BY <1>sizes
  <2> QED
    BY <1>10, <1>12, <1>13, <2>1
<1>15. SaidByRequest'
  <2>1. sent' # << >>
    BY <1>sizes
  <2> QED
    BY <1>0, <1>1, <1>2, <1>3, <1>10, <1>11, <2>1 DEF SaidByRequest
<1> QED
  BY <1>9, <1>14, <1>15 DEF ContractInv

\* A step that says nothing and reaches nobody.
LEMMA QuietKeepsContract ==
    ASSUME ContractInv, UNCHANGED <<sent, received, chunks>>,
           net_request' \notin {"none", "reading"} => sent = << >>,
           net_request' = "reading" => net_request = "reading"
    PROVE  ContractInv'
BY DEF ContractInv, InOrder, SaidByRequest, HeardPrefix

\* The steps of the core keep the conversation in order.
LEMMA CoreKeepsContract ==
    ASSUME IndInv, ContractInv, Start \/ Cancel \/ NetworkCallback
    PROVE  ContractInv'
<1>1. received' = received
  BY DEF Start, Cancel, NetworkCallback, HandleStreamEnd, HandleStreamError,
         OnReceivedRedirect, OnAuthRequired, OnCertificateRequested, OnSSLCertificateError,
         OnResponseStarted, OnReadCompleted, ClientUnchanged
<1>2. ASSUME StopRequestWithError, net_request # "none" PROVE ContractInv'
  BY <1>1, <1>2, EndKeepsContract DEF StopRequestWithError, StopNetRequest
<1>3. net_request \notin {"none", "reading"} => sent = << >>
  BY DEF ContractInv, SaidByRequest
<1>4. CASE Start
  <2>1. sent = << >> /\ net_request = "none"
    <3>1. 1 \in 1 .. Len(tasks) /\ tasks[1] = "Start"
      BY <1>4, HeadTailProperties DEF Start, IndInv, QueueTypes
    <3> QED
      BY <3>1 DEF IndInv, StartOnce
  <2>2. CASE Post(<<Tell("fail")>>) /\ net_request' = net_request
    BY <1>1, <2>1, <2>2, EndKeepsContract
  <2>3. CASE net_request' \in {"upload", "started"} /\ UNCHANGED <<sent, chunks>>
    BY <1>1, <2>1, <2>3, QuietKeepsContract
  <2> QED
    BY <1>4, <2>2, <2>3 DEF Start
<1>5. CASE Cancel
  <2>1. UNCHANGED <<sent, chunks>> /\ (net_request' = net_request \/ net_request' = "none")
    BY <1>5 DEF Cancel, StopNetRequest
  <2> QED
    BY <1>1, <1>3, <2>1, QuietKeepsContract
<1>6. CASE HandleStreamEnd
  <2>1. net_request = "upload" /\ net_request' = "started" /\ UNCHANGED <<sent, chunks>>
    BY <1>6 DEF HandleStreamEnd, IndInv, CoreTypes
  <2> QED
    BY <1>1, <1>3, <2>1, QuietKeepsContract
<1>7. CASE HandleStreamError
  <2>1. net_request = "upload"
    BY <1>7 DEF HandleStreamError, IndInv, CoreTypes
  <2> QED
    BY <1>2, <1>7, <2>1 DEF HandleStreamError
<1>8. CASE OnReceivedRedirect
  <2>1. net_request \in {"started", "certificate_accepted"}
    BY <1>8 DEF OnReceivedRedirect
  <2>2. CASE Post(<<Tell("redirect")>>) /\ StopNetRequest
    BY <1>1, <1>3, <2>1, <2>2, EndKeepsContract DEF StopNetRequest
  <2> QED
    BY <1>2, <1>8, <2>1, <2>2 DEF OnReceivedRedirect
<1>9. CASE OnAuthRequired
  <2>1. /\ net_request \in {"started", "certificate_accepted"}
        /\ net_request' = "authentication_cancelled" /\ UNCHANGED <<sent, chunks>>
    BY <1>9 DEF OnAuthRequired
  <2> QED
    BY <1>1, <1>3, <2>1, QuietKeepsContract
<1>10. CASE OnCertificateRequested
  BY <1>2, <1>10 DEF OnCertificateRequested
<1>11. ASSUME AwaitJudgment, UNCHANGED chunks, net_request \notin {"none", "reading"}
       PROVE  ContractInv'
  BY <1>1, <1>3, <1>11, QuietKeepsContract DEF AwaitJudgment
<1>12. CASE OnSSLCertificateError
  <2>1. net_request = "started" /\ UNCHANGED chunks
    BY <1>12 DEF OnSSLCertificateError
  <2>2. CASE net_request' = "certificate_accepted" /\ UNCHANGED sent
    BY <1>1, <1>3, <2>1, <2>2, QuietKeepsContract
  <2> QED
    BY <1>2, <1>11, <1>12, <2>1, <2>2 DEF OnSSLCertificateError
<1>13. CASE OnResponseStarted
  <2>1. net_request \in {"started", "certificate_accepted", "authentication_cancelled"}
    BY <1>13 DEF OnResponseStarted
  <2>2. CASE StartReading
    <3>1. PICK n \in 0 .. MaxChunks, outcome \in {"eof", "error", "pending"} :
              Reads(<<Tell("response")>>, n, outcome)
      BY <2>2 DEF StartReading
    <3>2. <<Tell("response")>> \in Seq(Invocation) /\ sent = << >> /\ net_request # "none"
      BY <1>3, <2>1, SingleTell
    <3> DEFINE before == <<Tell("response")>>
    <3>3. /\ before \in Seq(Invocation) /\ before = <<Tell("response")>>
          /\ Reads(before, n, outcome)
      BY <3>1, <3>2
    <3> HIDE DEF before
    <3> QED
      BY <1>1, <3>2, <3>3, ReadsKeepContract
  <2> QED
    BY <1>2, <1>11, <1>13, <2>1, <2>2 DEF OnResponseStarted
<1>14. CASE OnReadCompleted
  <2>1. PICK n \in 0 .. MaxChunks, outcome \in {"eof", "error", "pending"} :
            Reads(<< >>, n, outcome)
    BY <1>14 DEF OnReadCompleted
  <2>2. net_request = "reading"
    BY <1>14 DEF OnReadCompleted
  <2> DEFINE before == << >>
  <2>3. before \in Seq(Invocation) /\ before = << >> /\ Reads(before, n, outcome)
    BY <2>1
  <2> HIDE DEF before
  <2> QED
    BY <1>1, <2>2, <2>3, ReadsKeepContract
<1> QED
  BY <1>4, <1>5, <1>6, <1>7, <1>8, <1>9, <1>10, <1>12, <1>13, <1>14 DEF NetworkCallback

\* The client hears the next thing said, while it has not stopped the load.
Hears(inv) ==
    /\ protocol
    /\ received' = Append(received, inv)
    /\ Len(received) < Len(sent) /\ inv = sent[Len(received) + 1]
    /\ inv \in Invocation

\* The first of what is under way is the next thing said.
LEMMA NextHeard ==
    ASSUME NEW heard \in Seq(Invocation), NEW inv \in Invocation, NEW rest \in Seq(Invocation)
    PROVE  /\ Len(heard) < Len(Append(heard, inv) \o rest)
           /\ inv = (Append(heard, inv) \o rest)[Len(heard) + 1]
<1> DEFINE with == Append(heard, inv)
<1>1. /\ Len(heard) \in Nat /\ Len(rest) \in Nat
      /\ with \in Seq(Invocation) /\ Len(with) = Len(heard) + 1 /\ with[Len(heard) + 1] = inv
  BY AppendProperties
<1> HIDE DEF with
<1>2. /\ Len(with \o rest) = Len(with) + Len(rest)
      /\ \A i \in 1 .. Len(with) + Len(rest) :
             (with \o rest)[i] = IF i <= Len(with) THEN with[i] ELSE rest[i - Len(with)]
  BY <1>1, ConcatProperties
<1>3. Len(heard) < Len(with \o rest) /\ inv = (with \o rest)[Len(heard) + 1]
  BY <1>1, <1>2
<1> QED
  BY <1>3 DEF with

\* The client thread runs an invocation, or another step leaves the client alone.
LEMMA ClientHears ==
    ASSUME IndInv, InvokeOnClientThread \/ RunInvocationQueue
    PROVE  UNCHANGED received \/ \E inv : Hears(inv)
<1>1. /\ posted \in Seq(Invocation) /\ queued \in Seq(Invocation)
      /\ received \in Seq(Invocation)
  BY DEF IndInv, QueueTypes
<1>2. CASE ~ protocol \/ (InvokeOnClientThread /\ paused)
  BY <1>2 DEF InvokeOnClientThread, RunInvocationQueue, Invoke
<1>3. ASSUME protocol PROVE received \o queued \o posted = sent
  BY <1>3 DEF IndInv, StreamIntact
<1>4. CASE protocol /\ InvokeOnClientThread /\ ~ paused
  <2> DEFINE inv == Head(posted)
             rest == Tail(posted)
  <2>1. posted # << >> /\ ~ running /\ received' = Append(received, inv)
    BY <1>4 DEF InvokeOnClientThread, Invoke
  <2>2. queued = << >>
    BY <1>4, <2>1, Zenon DEF IndInv, QueueIdle
  <2>3. inv \in Invocation /\ rest \in Seq(Invocation) /\ Append(received, inv) \o rest = received \o posted
    BY <1>1, <2>1, MoveHead
  <2>4. received \o posted = sent
    <3>1. received \o << >> = received
      BY <1>1, ConcatEmptySeq
    <3> QED
      BY <1>3, <1>4, <2>2, <3>1
  <2> HIDE DEF inv, rest
  <2>5. Len(received) < Len(sent) /\ inv = sent[Len(received) + 1]
    <3>1. Append(received, inv) \o rest = sent
      BY <2>3, <2>4
    <3>2. received \in Seq(Invocation) /\ inv \in Invocation /\ rest \in Seq(Invocation)
      BY <1>1, <2>3
    <3>3. /\ Len(received) < Len(Append(received, inv) \o rest)
          /\ inv = (Append(received, inv) \o rest)[Len(received) + 1]
      BY <3>2, NextHeard
    <3> QED
      BY <3>1, <3>3
  <2>6. Hears(inv)
    BY <1>4, <2>1, <2>3, <2>5 DEF Hears
  <2> QED
    BY <2>6
<1>5. CASE protocol /\ RunInvocationQueue
  <2> DEFINE inv == Head(queued)
             t == Tail(queued)
             rest == t \o posted
  <2>1. running /\ received' = Append(received, inv)
    BY <1>5 DEF RunInvocationQueue, Invoke
  <2>2. queued # << >>
    BY <2>1, Zenon DEF IndInv, QueueIdle
  <2>3. inv \in Invocation /\ t \in Seq(Invocation) /\ Append(received, inv) \o t = received \o queued
    BY <1>1, <2>2, MoveHead
  <2> HIDE DEF inv, t
  <2> DEFINE with == Append(received, inv)
  <2>4. with \in Seq(Invocation)
    BY <1>1, <2>3, AppendProperties
  <2>5. (with \o t) \o posted = with \o (t \o posted)
    <3>1. t \in Seq(Invocation) /\ posted \in Seq(Invocation)
      BY <1>1, <2>3
    <3> HIDE DEF with
    <3> QED
      BY <2>4, <3>1, ConcatAssociative
  <2>6. Append(received, inv) \o rest = sent /\ rest \in Seq(Invocation)
    BY <1>1, <1>3, <1>5, <2>3, <2>5, ConcatProperties
  <2> HIDE DEF rest
  <2>7. Len(received) < Len(sent) /\ inv = sent[Len(received) + 1]
    <3>1. received \in Seq(Invocation) /\ inv \in Invocation /\ rest \in Seq(Invocation)
      BY <1>1, <2>3, <2>6
    <3>2. /\ Len(received) < Len(Append(received, inv) \o rest)
          /\ inv = (Append(received, inv) \o rest)[Len(received) + 1]
      BY <3>1, NextHeard
    <3> QED
      BY <2>6, <3>2
  <2>8. Hears(inv)
    BY <1>5, <2>1, <2>3, <2>7 DEF Hears
  <2> QED
    BY <2>8
<1> QED
  BY <1>2, <1>4, <1>5

\* Hearing the next thing said is hearing a longer beginning of it.
LEMMA HearKeepsContract ==
    ASSUME IndInv, ContractInv, NEW inv, Hears(inv), UNCHANGED <<sent, net_request, chunks>>
    PROVE  ContractInv'
<1>1. received \in Seq(Invocation) /\ inv \in Invocation /\ received' = Append(received, inv)
  BY DEF IndInv, QueueTypes, Hears
<1>2. /\ Len(received) \in Nat /\ Len(received') = Len(received) + 1
      /\ \A i \in 1 .. Len(received) : received'[i] = received[i]
      /\ received'[Len(received) + 1] = inv
  BY <1>1, AppendProperties
<1>3. Len(sent) \in Nat /\ Len(received) < Len(sent) /\ inv = sent[Len(received) + 1]
  BY DEF IndInv, QueueTypes, Hears
<1>4. HeardPrefix'
  <2>1. Len(received') <= Len(sent')
    BY <1>2, <1>3
  <2>2. ASSUME NEW i \in 1 .. Len(received') PROVE received'[i] = sent'[i]
    <3>1. CASE i = Len(received) + 1
      BY <1>2, <1>3, <3>1
    <3>2. CASE i # Len(received) + 1
      <4>1. i \in 1 .. Len(received)
        BY <1>2, <3>2
      <4> QED
        BY <1>2, <4>1 DEF ContractInv, HeardPrefix
    <3> QED
      BY <3>1, <3>2
  <2> QED
    BY <2>1, <2>2 DEF HeardPrefix
<1>5. InOrder(sent') /\ SaidByRequest'
  BY DEF ContractInv, InOrder, SaidByRequest
<1> QED
  BY <1>4, <1>5 DEF ContractInv

\* Every step keeps the conversation in order, for the client as well.
LEMMA NextKeepsContract ==
    ASSUME IndInv, ContractInv, [Next]_vars
    PROVE  ContractInv'
<1>1. CASE Start \/ Cancel \/ NetworkCallback
  BY <1>1, CoreKeepsContract
<1>2. CASE UNCHANGED <<sent, received, chunks, net_request>>
  BY <1>2, QuietKeepsContract DEF ContractInv, SaidByRequest
<1>3. CASE UNCHANGED vars \/ TrackerForgets \/ TrackerCloses \/ StopLoading \/ Pause \/ Resume
  BY <1>2, <1>3
  DEF vars, TrackerForgets, TrackerCloses, StopLoading, Pause, Resume, corevars
<1>4. CASE StartLoading
  <2>1. CASE UNCHANGED <<sent, received>>
    BY <1>2, <1>4, <2>1 DEF StartLoading, corevars
  <2>2. CASE sent' = <<Tell("fail")>> /\ received' = <<Tell("fail")>>
    <3>1. net_request' = "none"
      BY <1>4 DEF StartLoading, corevars, IndInv, StartOnce
    <3>2. Len(sent') = 1 /\ sent'[1].kind = "fail" /\ sent' # << >>
      BY <2>2 DEF Tell
    <3>3. InOrder(sent')
      BY <3>2 DEF InOrder
    <3> QED
      BY <2>2, <3>1, <3>2, <3>3 DEF ContractInv, SaidByRequest, HeardPrefix
  <2> QED
    BY <1>4, <2>1, <2>2 DEF StartLoading
<1>5. CASE InvokeOnClientThread \/ RunInvocationQueue
  <2>1. UNCHANGED <<sent, net_request, chunks>>
    BY <1>5 DEF InvokeOnClientThread, RunInvocationQueue, corevars
  <2>2. CASE UNCHANGED received
    BY <1>2, <2>1, <2>2
  <2>3. ASSUME NEW inv, Hears(inv) PROVE ContractInv'
    BY <2>1, <2>3, HearKeepsContract
  <2> QED
    BY <1>5, <2>2, <2>3, ClientHears
<1> QED
  BY <1>1, <1>3, <1>4, <1>5 DEF Next

\* The conversation is in order in every reachable state.
LEMMA ContractInvariance == Spec => []ContractInv
<1>1. Init => ContractInv
  BY DEF Init, ContractInv, InOrder, SaidByRequest, HeardPrefix
<1>2. IndInv /\ ContractInv /\ [Next]_vars => ContractInv'
  BY NextKeepsContract
<1> QED
  BY <1>1, <1>2, LoadInvariance, PTL DEF Spec

\* The beginning of a conversation in order is in order.
LEMMA PrefixInOrder ==
    ASSUME NEW s \in Seq(Invocation), NEW r \in Seq(Invocation), InOrder(s),
           Len(r) <= Len(s), \A i \in 1 .. Len(r) : r[i] = s[i]
    PROVE  InOrder(r)
<1>1. Len(s) \in Nat /\ Len(r) \in Nat
  OBVIOUS
<1> SUFFICES ASSUME NEW i \in 1 .. Len(r)
             PROVE  /\ i = 1 => r[1].kind \in {"response", "redirect", "fail"}
                    /\ i > 1 => /\ r[1].kind = "response"
                                /\ \/ r[i] = TellData(i - 1)
                                   \/ i = Len(r) /\ r[i].kind \in {"finish", "fail"}
  BY DEF InOrder
<1>2. i \in 1 .. Len(s) /\ 1 \in 1 .. Len(r) /\ (i = Len(s) => i = Len(r))
  BY <1>1
<1>3. r[i] = s[i] /\ r[1] = s[1]
  BY <1>2
<1> QED
  BY <1>2, <1>3 DEF InOrder

\* One more callback is one the contract allows, in the phase it allows it.
LEMMA CallbackSimulates ==
    ASSUME NEW inv \in Invocation, received \in Seq(Invocation),
           received' = Append(received, inv), InOrder(received), InOrder(received'),
           load # "stopped"
    PROVE  Client!Next
<1> DEFINE k == Len(received)
<1>1. /\ k \in Nat /\ received' \in Seq(Invocation) /\ Len(received') = k + 1
      /\ \A i \in 1 .. k : received'[i] = received[i]
      /\ received'[k + 1] = inv
  BY AppendProperties
<1>2. /\ ClientPhase = IF k > 0 /\ received[k].kind \in Terminal THEN "done"
                       ELSE IF k > 0 /\ received[1].kind = "response" THEN "post_response"
                       ELSE "pre_response"
      /\ ClientLoaded = IF k <= 1 THEN 0
                        ELSE IF received[k].kind = "data" THEN k - 1 ELSE k - 2
  BY OrderedView DEF ClientPhase, ClientLoaded, Ended, Pieces
<1>3. /\ ClientPhase' = IF inv.kind \in Terminal THEN "done"
                        ELSE IF received'[1].kind = "response" THEN "post_response"
                        ELSE "pre_response"
      /\ ClientLoaded' = IF k = 0 THEN 0 ELSE IF inv.kind = "data" THEN k ELSE k - 1
  <2> DEFINE after == received'
  <2>1. /\ after \in Seq(Invocation) /\ InOrder(after) /\ Len(after) = k + 1
        /\ after[k + 1] = inv
    BY <1>1
  <2>2. /\ ClientPhase' = IF \E i \in 1 .. Len(after) : after[i].kind \in Terminal THEN "done"
                          ELSE IF \E i \in 1 .. Len(after) : after[i].kind = "response"
                          THEN "post_response" ELSE "pre_response"
        /\ ClientLoaded' = IF {i \in 1 .. Len(after) : after[i].kind = "data"} = {} THEN 0
                           ELSE after[Max({i \in 1 .. Len(after) : after[i].kind = "data"})].n
    BY DEF ClientPhase, ClientLoaded, Ended, Pieces
  <2> HIDE DEF after
  <2>3. /\ ClientPhase' = IF Len(after) > 0 /\ after[Len(after)].kind \in Terminal THEN "done"
                          ELSE IF Len(after) > 0 /\ after[1].kind = "response"
                          THEN "post_response" ELSE "pre_response"
        /\ ClientLoaded' = IF Len(after) <= 1 THEN 0
                           ELSE IF after[Len(after)].kind = "data"
                           THEN Len(after) - 1 ELSE Len(after) - 2
    BY <2>1, <2>2, OrderedView
  <2> HIDE DEF k
  <2>4. k \in Nat /\ Len(after) = k + 1 /\ after[Len(after)] = inv
    BY <1>1, <2>1
  <2>5. ClientLoaded' = IF k = 0 THEN 0 ELSE IF inv.kind = "data" THEN k ELSE k - 1
    BY <2>3, <2>4
  <2>6. ClientPhase' = IF inv.kind \in Terminal THEN "done"
                       ELSE IF after[1].kind = "response" THEN "post_response"
                       ELSE "pre_response"
    BY <2>3, <2>4
  <2> QED
    BY <2>5, <2>6 DEF after
<1>4. (load' = "stopped") \in BOOLEAN /\ ~ (load = "stopped")
  BY Zenon
<1>7. Len(received') = Len(received) + 1
  BY <1>1
<1>5. CASE k = 0
  <2>1. inv.kind \in {"response", "redirect", "fail"} /\ received'[1] = inv
    BY <1>1, <1>5 DEF InOrder
  <2>2. ClientPhase = "pre_response" /\ ClientLoaded = 0 /\ ClientLoaded' = 0
    BY <1>2, <1>3, <1>5
  <2>3. CASE inv.kind = "response"
    <3>1. ClientPhase' = "post_response"
      BY <1>3, <2>1, <2>3 DEF Terminal
    <3> QED
      BY <1>1, <1>4, <2>2, <3>1 DEF Client!Next, Client!DidReceiveResponse, Client!Callback
  <2>4. CASE inv.kind = "redirect"
    <3>1. ClientPhase' = "done"
      BY <1>3, <2>4 DEF Terminal
    <3> QED
      BY <1>1, <1>4, <2>2, <3>1 DEF Client!Next, Client!WasRedirected, Client!Callback
  <2>5. CASE inv.kind = "fail"
    <3>1. ClientPhase' = "done"
      BY <1>3, <2>5 DEF Terminal
    <3> QED
      BY <1>1, <1>4, <2>2, <3>1 DEF Client!Next, Client!DidFailWithError, Client!Callback
  <2> QED
    BY <2>1, <2>3, <2>4, <2>5
<1>6. CASE k # 0
  <2> HIDE DEF k
  <2>1. /\ received'[1].kind = "response"
        /\ inv = TellData(k) \/ inv.kind \in {"finish", "fail"}
    BY <1>1, <1>6 DEF InOrder
  <2>2. received[1].kind = "response" /\ received[k].kind \notin Terminal
    <3>1. received[1] = received'[1] /\ received[k] = received'[k]
      BY <1>1, <1>6
    <3>2. k = 1 \/ received'[k] = TellData(k - 1)
      BY <1>1, <1>6 DEF InOrder
    <3>3. k = 1 \/ received'[k].kind = "data"
      <4>1. TellData(k - 1).kind = "data"
        BY DEF TellData
      <4> QED
        BY <3>2, <4>1, Zenon
    <3>4. received[1].kind = "response"
      BY <2>1, <3>1
    <3> QED
      BY <3>1, <3>3, <3>4 DEF Terminal
  <2>3. ClientPhase = "post_response" /\ ClientLoaded = k - 1
    <3>1. k > 1 => received[k].kind = "data"
      <4>1. k > 1 => received[k] = TellData(k - 1) \/ received[k].kind \in {"finish", "fail"}
        BY <1>1 DEF InOrder, k
      <4> QED
        BY <2>2, <4>1 DEF TellData, Terminal
    <3> QED
      BY <1>1, <1>2, <1>6, <2>2, <3>1
  <2>4. CASE inv = TellData(k)
    <3>1. inv.kind = "data" /\ inv.kind \notin Terminal
      BY <2>4 DEF TellData, Terminal
    <3>2. ClientPhase' = "post_response" /\ ClientLoaded' = k
      BY <1>3, <1>6, <2>1, <3>1
    <3>3. ClientLoaded' = ClientLoaded + 1
      BY <1>1, <2>3, <3>2
    <3> QED
      BY <1>4, <1>7, <2>3, <3>2, <3>3, Zenon DEF Client!Next, Client!DidLoadData, Client!Callback
  <2>5. CASE inv.kind \in {"finish", "fail"}
    <3>1. ClientPhase' = "done" /\ ClientLoaded' = k - 1
      BY <1>3, <1>6, <2>5 DEF Terminal
    <3>2. ClientLoaded' = ClientLoaded + 0
      BY <1>1, <2>3, <3>1
    <3> QED
      BY <1>4, <1>7, <2>3, <3>1, <3>2, Zenon
      DEF Client!Next, Client!DidFinishLoading, Client!DidFailWithError, Client!Callback
  <2> QED
    BY <2>1, <2>4, <2>5
<1> QED
  BY <1>5, <1>6

\* Every step of the load is a step of the contract or leaves the client alone.
LEMMA StepSimulates ==
    ASSUME IndInv, ContractInv, IndInv', ContractInv', [Next]_vars
    PROVE  [Client!Next]_(Client!vars)
<1>1. CASE received' = received /\ (load' = "stopped" <=> load = "stopped")
  <2>1. ClientPhase' = ClientPhase /\ ClientLoaded' = ClientLoaded
    BY <1>1 DEF ClientPhase, ClientLoaded, Ended, Pieces
  <2>2. (load' = "stopped") = (load = "stopped")
    BY <1>1, Zenon
  <2> QED
    BY <1>1, <2>1, <2>2, Zenon DEF Client!vars
<1>2. CASE received' = received /\ load # "stopped" /\ load' = "stopped"
  <2>1. ClientPhase' = ClientPhase /\ ClientLoaded' = ClientLoaded
    BY <1>2 DEF ClientPhase, ClientLoaded, Ended, Pieces
  <2>2. (load' = "stopped") = TRUE /\ ~ (load = "stopped")
    BY <1>2, Zenon
  <2> QED
    BY <1>2, <2>1, <2>2, Zenon DEF Client!Next, Client!StopLoading
<1>3. InOrder(received) /\ InOrder(received') /\ received \in Seq(Invocation)
  <2>1. /\ received \in Seq(Invocation) /\ sent \in Seq(Invocation)
        /\ received' \in Seq(Invocation) /\ sent' \in Seq(Invocation)
    BY DEF IndInv, QueueTypes
  <2>2. InOrder(sent) /\ Len(received) <= Len(sent) /\ \A i \in 1 .. Len(received) : received[i] = sent[i]
    BY DEF ContractInv, HeardPrefix
  <2>3. /\ InOrder(sent') /\ Len(received') <= Len(sent')
        /\ \A i \in 1 .. Len(received') : received'[i] = sent'[i]
    BY DEF ContractInv, HeardPrefix
  <2>4. InOrder(received)
    BY <2>1, <2>2, PrefixInOrder
  <2>5. InOrder(received')
    BY <2>1, <2>3, PrefixInOrder
  <2> QED
    BY <2>1, <2>4, <2>5
<1>4. CASE \/ Start \/ Cancel \/ NetworkCallback \/ TrackerForgets \/ TrackerCloses
           \/ Pause \/ Resume \/ UNCHANGED vars
  <2>1. received' = received /\ load' = load
    BY <1>4
    DEF Start, Cancel, NetworkCallback, HandleStreamEnd, HandleStreamError,
        OnReceivedRedirect, OnAuthRequired, OnCertificateRequested, OnSSLCertificateError,
        OnResponseStarted, OnReadCompleted, ClientUnchanged, TrackerForgets, TrackerCloses,
        Pause, Resume, vars
  <2> QED
    BY <1>1, <2>1
<1>5. CASE StartLoading
  <2>1. load = "new" /\ load' = "loading" /\ received = << >>
    BY <1>5 DEF StartLoading, IndInv, StartOnce
  <2>2. CASE received' = received
    BY <1>1, <2>1, <2>2
  <2>3. CASE received' = <<Tell("fail")>>
    <3>1. received' = Append(received, Tell("fail")) /\ Tell("fail") \in Invocation
      BY <2>1, <2>3, SingleTell
    <3> QED
      BY <1>3, <2>1, <3>1, CallbackSimulates
  <2> QED
    BY <1>5, <2>2, <2>3 DEF StartLoading
<1>6. CASE StopLoading
  BY <1>2, <1>6 DEF StopLoading, Stopped
<1>7. CASE InvokeOnClientThread \/ RunInvocationQueue
  <2>1. CASE received' = received
    <3>1. load' = load \/ load' = "stopped"
      BY <1>7 DEF InvokeOnClientThread, RunInvocationQueue, Invoke, Stopped
    <3> QED
      BY <1>1, <1>2, <2>1, <3>1
  <2>2. ASSUME NEW inv, Hears(inv) PROVE Client!Next
    <3>1. load # "stopped" /\ received' = Append(received, inv) /\ inv \in Invocation
      BY <2>2 DEF Hears, IndInv, StartOnce
    <3> QED
      BY <1>3, <3>1, CallbackSimulates
  <2> QED
    BY <1>7, <2>1, <2>2, ClientHears
<1> QED
  BY <1>4, <1>5, <1>6, <1>7 DEF Next

\* A load implements what the contract of NSURLProtocolClient says its client may
\* observe, for any number of pieces of data and of pauses, and wherever the client
\* stops the load: the order of the callbacks, the single end, and the silence after
\* the end and after -stopLoading.
THEOREM ClientContractImplemented == Spec => ClientContract
<1>1. Init => Client!Init
  <2> SUFFICES ASSUME Init PROVE Client!Init
    OBVIOUS
  <2>1. received = << >> /\ load = "new"
    BY DEF Init
  <2>2. ClientPhase = "pre_response" /\ ClientLoaded = 0 /\ Len(received) = 0
    BY <2>1 DEF ClientPhase, ClientLoaded, Ended, Pieces
  <2>3. (load = "stopped") = FALSE
    BY <2>1, Zenon
  <2> QED
    BY <2>2, <2>3, Zenon DEF Client!Init
<1>2. IndInv /\ ContractInv /\ IndInv' /\ ContractInv' /\ [Next]_vars
          => [Client!Next]_(Client!vars)
  BY StepSimulates
<1> QED
  BY <1>1, <1>2, LoadInvariance, ContractInvariance, PTL DEF Spec, ClientContract, Client!Spec
=============================================================================
