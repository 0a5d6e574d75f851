------------------ MODULE ReadingListDownloadServiceProofs ------------------
(***************************************************************************)
(* For every set of URLs and all bounds: the queue of the downloader is     *)
(* served, nothing on disk outlives its entry, and the FILE thread saves    *)
(* alone.  NoOrphans is not inductive: a download in progress or in the     *)
(* queue may write a directory after its entry is gone, so the invariant    *)
(* also says that every download is covered by its entry or by a deletion   *)
(* queued behind it.                                                       *)
(*                                                                         *)
(* What is half written is never taken for a copy, and an entry is          *)
(* PROCESSED only with a complete one, as long as a save is for the URL     *)
(* that was asked for.  A page that loads a second time breaks that (the run *)
(* redirected_pdf).                                                        *)
(***************************************************************************)
EXTENDS ReadingListDownloadService, SequenceLemmas

\* A deletion of u is in the queue q.
Deletes(q, u) == \E i \in 1 .. Len(q) : q[i] = DeleteOf(u)

\* q is a queue of tasks in which a download occurs once and is covered: its entry
\* is in es, or its deletion is queued behind it.
GoodQueue(q, es) ==
    /\ q \in Seq(Task)
    /\ \A i, j \in 1 .. Len(q) : q[i].type = "DOWNLOAD" /\ q[i] = q[j] => i = j
    /\ \A i \in 1 .. Len(q) : q[i].type = "DOWNLOAD" =>
           \/ es[q[i].url] # NoEntry
           \/ \E j \in 1 .. Len(q) : i < j /\ q[j] = DeleteOf(q[i].url)

\* The running download is covered too.
RunningCovered ==
    /\ wait.at = "exists" => Has(wait.url) \/ Deletes(tasks, wait.url)
    /\ wait.at \in {"distill", "fetch", "save"} =>
           Has(original_url) \/ Deletes(tasks, original_url)

\* The URLs of the conversation are there.
WaitURLs ==
    /\ wait.at # "none" => wait.url \in URLs
    /\ wait.at \in {"distill", "fetch", "save"} =>
           original_url \in URLs /\ distilled_url \in URLs

\* Only an entry that was given up has failed as often as allowed.
FailuresBounded ==
    \A u \in URLs : Has(u) /\ entries[u].state # "DISTILLATION_ERROR"
        => entries[u].failures < NumberOfFailsBeforeStop

\* The two parts of the conversation that are about the queue.
Served ==
    /\ tasks # << >> => working
    /\ working <=> wait.at # "none"

IndInv ==
    /\ TypeOK
    /\ QueueServed
    /\ GoodQueue(tasks, entries)
    /\ RunningCovered
    /\ WaitURLs
    /\ FailuresBounded
    /\ NoOrphans

-----------------------------------------------------------------------------
(* The queue.                                                              *)

\* What a task is, field by field.
LEMMA TaskFacts ==
    ASSUME NEW u \in URLs, NEW v \in URLs
    PROVE  /\ DeleteOf(u) \in Task /\ DownloadOf(u) \in Task
           /\ DeleteOf(u).type = "DELETE" /\ DownloadOf(u).type = "DOWNLOAD"
           /\ DeleteOf(u).url = u /\ DownloadOf(u).url = u
           /\ DeleteOf(u) # DownloadOf(v)
           /\ DeleteOf(u) = DeleteOf(v) => u = v
BY DEF DeleteOf, DownloadOf, Task

\* A task is the deletion or the download of its URL.
LEMMA TaskShape ==
    ASSUME NEW t \in Task
    PROVE  /\ t.url \in URLs /\ t.type \in {"DELETE", "DOWNLOAD"}
           /\ t.type = "DELETE" => t = DeleteOf(t.url)
           /\ t.type = "DOWNLOAD" => t = DownloadOf(t.url)
BY DEF DeleteOf, DownloadOf, Task

\* Entries that appear cover more.
LEMMA GoodQueueMonotone ==
    ASSUME NEW q, NEW es, NEW fs, GoodQueue(q, es),
           \A u \in URLs : es[u] # NoEntry => fs[u] # NoEntry
    PROVE  GoodQueue(q, fs)
<1>1. \A i \in 1 .. Len(q) : q[i].url \in URLs
  BY TaskShape DEF GoodQueue
<1> QED  BY <1>1 DEF GoodQueue

\* Starting the first task keeps the rest of the queue good, and the task that
\* runs then is covered.
LEMMA TakeNextTaskGood ==
    ASSUME NEW STATE q, GoodQueue(q, entries'), TakeNextTask(q)
    PROVE  /\ GoodQueue(tasks, entries)'
           /\ working' \in BOOLEAN
           /\ wait' \in Wait
           /\ Served'
           /\ wait'.at \in {"none", "delete", "exists"}
           /\ wait'.answer = "posted"
           /\ wait'.at # "none" => wait'.url \in URLs
           /\ wait'.at = "exists" => entries'[wait'.url] # NoEntry \/ Deletes(tasks', wait'.url)
           /\ \A u \in URLs : Deletes(q, u) =>
                  Deletes(tasks', u) \/ (wait'.at = "delete" /\ wait'.url = u)
<1>1. CASE q = << >>
  <2>1. Len(q) = 0 /\ ~ \E i \in 1 .. Len(q) : TRUE
    BY <1>1
  <2>2. tasks' = q /\ working' = FALSE /\ wait' = NotWaiting
    BY <1>1 DEF TakeNextTask
  <2>3. NotWaiting \in Wait /\ NotWaiting.at = "none" /\ NotWaiting.answer = "posted"
    BY DEF NotWaiting, Waiting, Wait, Answers
  <2> QED  BY <1>1, <2>1, <2>2, <2>3 DEF Served, Deletes
<1>2. CASE q # << >>
  <2> DEFINE h == Head(q)
  <2>1. q \in Seq(Task) /\ Len(q) \in Nat \ {0}
    BY <1>2, EmptySeq DEF GoodQueue
  <2>2. /\ h = q[1] /\ h \in Task
        /\ Tail(q) \in Seq(Task) /\ Len(Tail(q)) = Len(q) - 1
        /\ \A i \in 1 .. Len(Tail(q)) : Tail(q)[i] = q[i + 1]
    BY <1>2, <2>1, HeadTailProperties
  <2>3. /\ tasks' = Tail(q) /\ working' = TRUE
        /\ wait' = Waiting(IF h.type = "DELETE" THEN "delete" ELSE "exists", h.url)
    BY <1>2 DEF TakeNextTask
  <2>4. h.url \in URLs /\ h.type \in {"DELETE", "DOWNLOAD"}
    BY <2>2, TaskShape
  <2>5. /\ wait' \in Wait /\ wait'.url = h.url /\ wait'.answer = "posted"
        /\ wait'.at = IF h.type = "DELETE" THEN "delete" ELSE "exists"
    BY <2>3, <2>4 DEF Waiting, Wait, FileSteps, Answers
  <2> HIDE DEF h
  <2>6. GoodQueue(Tail(q), entries')
    <3>1. ASSUME NEW i \in 1 .. Len(Tail(q)), NEW j \in 1 .. Len(Tail(q)),
                 Tail(q)[i].type = "DOWNLOAD", Tail(q)[i] = Tail(q)[j]
          PROVE  i = j
      <4>1. i + 1 \in 1 .. Len(q) /\ j + 1 \in 1 .. Len(q)
        BY <2>1, <2>2
      <4>2. q[i + 1].type = "DOWNLOAD" /\ q[i + 1] = q[j + 1]
        BY <2>2, <3>1
      <4>3. i + 1 = j + 1
        BY <4>1, <4>2 DEF GoodQueue
      <4> QED  BY <4>3
    <3>2. ASSUME NEW i \in 1 .. Len(Tail(q)), Tail(q)[i].type = "DOWNLOAD",
                 entries'[Tail(q)[i].url] = NoEntry
          PROVE  \E j \in 1 .. Len(Tail(q)) :
                     i < j /\ Tail(q)[j] = DeleteOf(Tail(q)[i].url)
      <4>1. i + 1 \in 1 .. Len(q) /\ q[i + 1].type = "DOWNLOAD" /\ q[i + 1] = Tail(q)[i]
        BY <2>1, <2>2, <3>2
      <4>2. PICK k \in 1 .. Len(q) : i + 1 < k /\ q[k] = DeleteOf(q[i + 1].url)
        BY <3>2, <4>1 DEF GoodQueue
      <4>3. k - 1 \in 1 .. Len(Tail(q)) /\ i < k - 1 /\ Tail(q)[k - 1] = q[k]
        BY <2>1, <2>2, <4>2
      <4> QED  BY <4>1, <4>2, <4>3
    <3> QED  BY <2>2, <3>1, <3>2 DEF GoodQueue
  <2>7. ASSUME NEW u \in URLs, Deletes(q, u)
        PROVE  Deletes(Tail(q), u) \/ (h.type = "DELETE" /\ h.url = u)
    <3>1. PICK i \in 1 .. Len(q) : q[i] = DeleteOf(u)
      BY <2>7 DEF Deletes
    <3>2. CASE i = 1
      BY <2>2, <3>1, <3>2, TaskFacts
    <3>3. CASE i # 1
      <4>1. i - 1 \in 1 .. Len(Tail(q)) /\ Tail(q)[i - 1] = q[i]
        BY <2>1, <2>2, <3>3
      <4> QED  BY <3>1, <4>1 DEF Deletes
    <3> QED  BY <3>2, <3>3
  <2>8. h.type = "DOWNLOAD" => entries'[h.url] # NoEntry \/ Deletes(Tail(q), h.url)
    <3> SUFFICES ASSUME h.type = "DOWNLOAD", entries'[h.url] = NoEntry
                 PROVE  Deletes(Tail(q), h.url)
      OBVIOUS
    <3>1. PICK k \in 1 .. Len(q) : 1 < k /\ q[k] = DeleteOf(h.url)
      BY <2>1, <2>2 DEF GoodQueue
    <3>2. k - 1 \in 1 .. Len(Tail(q)) /\ Tail(q)[k - 1] = q[k]
      BY <2>1, <2>2, <3>1
    <3> QED  BY <3>1, <3>2 DEF Deletes
  <2>9. Served'
    BY <2>3, <2>5 DEF Served
  <2> QED
    BY <2>3, <2>4, <2>5, <2>6, <2>7, <2>8, <2>9
<1> QED  BY <1>1, <1>2

\* The two ways to say that a deletion of u is queued agree.
LEMMA DeletesInSet ==
    ASSUME NEW q \in Seq(Task), NEW u \in URLs
    PROVE  DeleteOf(u) \in ToSet(q) <=> Deletes(q, u)
<1>1. DOMAIN q = 1 .. Len(q)
  BY LenProperties
<1> QED  BY <1>1 DEF ToSet, Deletes

\* Cancelling the downloads of u leaves the order of the other tasks as it is.
LEMMA WithoutDownloadsGood ==
    ASSUME NEW q, NEW es, GoodQueue(q, es), NEW u \in URLs
    PROVE  /\ GoodQueue(WithoutDownloads(q, u), es)
           /\ \A i \in 1 .. Len(WithoutDownloads(q, u)) :
                  WithoutDownloads(q, u)[i] # DownloadOf(u)
           /\ \A v \in URLs : Deletes(q, v) => Deletes(WithoutDownloads(q, u), v)
           /\ q = << >> => WithoutDownloads(q, u) = << >>
<1>1. q \in Seq(Task) /\ Len(q) \in Nat /\ DOMAIN q = 1 .. Len(q)
  BY LenProperties DEF GoodQueue
<1>2. CASE DownloadOf(u) \notin ToSet(q)
  <2>1. WithoutDownloads(q, u) = q
    BY <1>2 DEF WithoutDownloads
  <2>2. \A i \in 1 .. Len(q) : q[i] # DownloadOf(u)
    BY <1>1, <1>2 DEF ToSet
  <2> QED  BY <2>1, <2>2
<1>3. CASE DownloadOf(u) \in ToSet(q)
  <2> DEFINE k == CHOOSE i \in 1 .. Len(q) : q[i] = DownloadOf(u)
             r == RemoveAt(q, k)
  <2>1. k \in 1 .. Len(q) /\ q[k] = DownloadOf(u)
    <3>1. \E i \in 1 .. Len(q) : q[i] = DownloadOf(u)
      BY <1>1, <1>3 DEF ToSet
    <3> QED  BY <3>1
  <2>2. WithoutDownloads(q, u) = r
    BY <1>3 DEF WithoutDownloads
  <2> HIDE DEF k
  <2>3. /\ r \in Seq(Task) /\ Len(r) = Len(q) - 1
        /\ \A j \in 1 .. Len(q) - 1 : r[j] = IF j < k THEN q[j] ELSE q[j + 1]
    BY <1>1, <2>1, RemoveAtProperties
  <2> HIDE DEF r
  \* Where an element of r comes from, and where one of q goes.
  <2> DEFINE From(i) == IF i < k THEN i ELSE i + 1
             To(i) == IF i < k THEN i ELSE i - 1
  <2>4. \A i \in 1 .. Len(r) : From(i) \in 1 .. Len(q) /\ From(i) # k /\ r[i] = q[From(i)]
    BY <1>1, <2>1, <2>3
  <2>5. \A i \in 1 .. Len(q) : i # k => To(i) \in 1 .. Len(r) /\ r[To(i)] = q[i]
    BY <1>1, <2>1, <2>3
  <2>6. \A i \in 1 .. Len(r), j \in 1 .. Len(r) : From(i) = From(j) => i = j
    BY <1>1, <2>1, <2>3
  <2>7. \A i \in 1 .. Len(r), j \in 1 .. Len(q) : From(i) < j /\ j # k => i < To(j)
    BY <1>1, <2>1, <2>3
  <2>8. q[k].type = "DOWNLOAD" /\ \A v \in URLs : q[k] # DeleteOf(v)
    BY <2>1, TaskFacts
  <2>9. \A i \in 1 .. Len(r) : r[i].url \in URLs
    BY <2>3, TaskShape
  <2> HIDE DEF From, To
  <2>10. ASSUME NEW i \in 1 .. Len(r), NEW j \in 1 .. Len(r),
                r[i].type = "DOWNLOAD", r[i] = r[j]
         PROVE  i = j
    <3>1. From(i) = From(j)
      BY <2>4, <2>10 DEF GoodQueue
    <3> QED  BY <2>6, <3>1
  <2>11. ASSUME NEW i \in 1 .. Len(r), r[i].type = "DOWNLOAD", es[r[i].url] = NoEntry
         PROVE  \E j \in 1 .. Len(r) : i < j /\ r[j] = DeleteOf(r[i].url)
    <3>1. PICK j \in 1 .. Len(q) : From(i) < j /\ q[j] = DeleteOf(r[i].url)
      BY <2>4, <2>11 DEF GoodQueue
    <3>2. j # k
      BY <2>8, <2>9, <3>1
    <3>3. To(j) \in 1 .. Len(r) /\ r[To(j)] = DeleteOf(r[i].url) /\ i < To(j)
      BY <2>5, <2>7, <3>1, <3>2
    <3> QED  BY <3>3
  <2>12. \A i \in 1 .. Len(r) : r[i] # DownloadOf(u)
    <3> SUFFICES ASSUME NEW i \in 1 .. Len(r), r[i] = DownloadOf(u) PROVE FALSE
      OBVIOUS
    <3>1. q[From(i)] = q[k] /\ From(i) \in 1 .. Len(q) /\ From(i) # k
      BY <2>1, <2>4
    <3> QED  BY <2>1, <2>8, <3>1 DEF GoodQueue
  <2>13. ASSUME NEW v \in URLs, Deletes(q, v)
         PROVE  Deletes(r, v)
    <3>1. PICK i \in 1 .. Len(q) : q[i] = DeleteOf(v)
      BY <2>13 DEF Deletes
    <3>2. i # k
      BY <2>8, <3>1
    <3> QED  BY <2>5, <3>1, <3>2 DEF Deletes
  <2>14. GoodQueue(r, es)
    BY <2>3, <2>10, <2>11 DEF GoodQueue
  <2>15. q # << >>
    BY <2>1
  <2> QED  BY <2>2, <2>12, <2>13, <2>14, <2>15
<1> QED  BY <1>2, <1>3

\* Removing the entry of u and queueing its deletion keeps the queue good.
LEMMA AppendDeleteGood ==
    ASSUME NEW q, NEW es, GoodQueue(q, es), NEW u \in URLs, NEW fs,
           \A i \in 1 .. Len(q) : q[i] # DownloadOf(u),
           \A v \in URLs : v # u /\ es[v] # NoEntry => fs[v] # NoEntry
    PROVE  /\ GoodQueue(Append(q, DeleteOf(u)), fs)
           /\ Deletes(Append(q, DeleteOf(u)), u)
           /\ \A v \in URLs : Deletes(q, v) => Deletes(Append(q, DeleteOf(u)), v)
<1> DEFINE r == Append(q, DeleteOf(u))
<1>1. q \in Seq(Task) /\ Len(q) \in Nat /\ DeleteOf(u) \in Task
  BY LenProperties, TaskFacts DEF GoodQueue
<1>2. /\ r \in Seq(Task) /\ Len(r) = Len(q) + 1
      /\ \A i \in 1 .. Len(q) : r[i] = q[i]
      /\ r[Len(q) + 1] = DeleteOf(u)
  BY <1>1, AppendProperties
<1>3. DeleteOf(u).type = "DELETE"
  BY TaskFacts
<1>4. \A i \in 1 .. Len(q) : q[i].url \in URLs /\ (q[i].type = "DOWNLOAD" => q[i].url # u)
  BY <1>1, TaskShape
<1> HIDE DEF r
<1>5. ASSUME NEW i \in 1 .. Len(r), r[i].type = "DOWNLOAD"
      PROVE  i \in 1 .. Len(q) /\ r[i] = q[i]
  BY <1>1, <1>2, <1>3, <1>5
<1>6. ASSUME NEW i \in 1 .. Len(r), NEW j \in 1 .. Len(r),
             r[i].type = "DOWNLOAD", r[i] = r[j]
      PROVE  i = j
  <2>1. i \in 1 .. Len(q) /\ j \in 1 .. Len(q) /\ q[i] = q[j] /\ q[i].type = "DOWNLOAD"
    BY <1>5, <1>6
  <2> QED  BY <2>1 DEF GoodQueue
<1>7. ASSUME NEW i \in 1 .. Len(r), r[i].type = "DOWNLOAD", fs[r[i].url] = NoEntry
      PROVE  \E j \in 1 .. Len(r) : i < j /\ r[j] = DeleteOf(r[i].url)
  <2>1. i \in 1 .. Len(q) /\ r[i] = q[i]
    BY <1>5, <1>7
  <2>2. es[q[i].url] = NoEntry
    BY <1>4, <1>7, <2>1
  <2>3. PICK j \in 1 .. Len(q) : i < j /\ q[j] = DeleteOf(q[i].url)
    BY <1>7, <2>1, <2>2 DEF GoodQueue
  <2> QED  BY <1>1, <1>2, <2>1, <2>3
<1>8. Len(q) + 1 \in 1 .. Len(r) /\ \A i \in 1 .. Len(q) : i \in 1 .. Len(r)
  BY <1>1, <1>2
<1> QED
  BY <1>2, <1>6, <1>7, <1>8 DEF GoodQueue, Deletes, r

\* Queueing a download of an entry that is there and not queued keeps it good.
LEMMA AppendDownloadGood ==
    ASSUME NEW q, NEW es, GoodQueue(q, es), NEW u \in URLs, es[u] # NoEntry,
           DownloadOf(u) \notin ToSet(q)
    PROVE  /\ GoodQueue(Append(q, DownloadOf(u)), es)
           /\ \A v \in URLs : Deletes(q, v) => Deletes(Append(q, DownloadOf(u)), v)
<1> DEFINE r == Append(q, DownloadOf(u))
<1>1. /\ q \in Seq(Task) /\ Len(q) \in Nat /\ DOMAIN q = 1 .. Len(q)
      /\ DownloadOf(u) \in Task /\ DownloadOf(u).url = u
  BY LenProperties, TaskFacts DEF GoodQueue
<1>2. /\ r \in Seq(Task) /\ Len(r) = Len(q) + 1
      /\ \A i \in 1 .. Len(q) : r[i] = q[i]
      /\ r[Len(q) + 1] = DownloadOf(u)
  BY <1>1, AppendProperties
<1>3. \A i \in 1 .. Len(q) : q[i] # DownloadOf(u)
  BY <1>1 DEF ToSet
<1> HIDE DEF r
<1>4. \A i \in 1 .. Len(r) : i \in 1 .. Len(q) \/ i = Len(q) + 1
  BY <1>1, <1>2
<1>5. ASSUME NEW i \in 1 .. Len(r), NEW j \in 1 .. Len(r),
             r[i].type = "DOWNLOAD", r[i] = r[j]
      PROVE  i = j
  BY <1>2, <1>3, <1>4, <1>5 DEF GoodQueue
<1>6. ASSUME NEW i \in 1 .. Len(r), r[i].type = "DOWNLOAD", es[r[i].url] = NoEntry
      PROVE  \E j \in 1 .. Len(r) : i < j /\ r[j] = DeleteOf(r[i].url)
  <2>1. i \in 1 .. Len(q)
    BY <1>1, <1>2, <1>4, <1>6
  <2>2. PICK j \in 1 .. Len(q) : i < j /\ q[j] = DeleteOf(q[i].url)
    BY <1>2, <1>6, <2>1 DEF GoodQueue
  <2> QED  BY <1>1, <1>2, <2>1, <2>2
<1>7. \A i \in 1 .. Len(q) : i \in 1 .. Len(r)
  BY <1>1, <1>2
<1> QED
  BY <1>2, <1>5, <1>6, <1>7 DEF GoodQueue, Deletes, r

\* A deletion that is queued in q, or about to run, is still to come after the step.
KeepsDeletions(q) ==
    \A u \in URLs :
        \/ Deletes(q, u)
        \/ wait.at = "delete" /\ wait.url = u /\ wait.answer = "posted"
        => \/ Deletes(tasks, u)'
           \/ (wait.at = "delete" /\ wait.url = u /\ wait.answer = "posted")'

\* HandleNextTask with a good queue: the running task goes on, or the first one
\* starts.
LEMMA HandleNextTaskGood ==
    ASSUME IndInv, NEW STATE q, GoodQueue(q, entries'), HandleNextTask(q),
           wait.at = "exists" => entries'[wait.url] # NoEntry \/ Deletes(q, wait.url)
    PROVE  /\ GoodQueue(tasks, entries)'
           /\ working' \in BOOLEAN /\ wait' \in Wait /\ Served'
           /\ wait'.at # "none" => wait'.url \in URLs
           /\ wait'.at = "exists" => entries'[wait'.url] # NoEntry \/ Deletes(tasks', wait'.url)
           /\ wait'.at = "distill" <=> wait.at = "distill"
           /\ wait'.at \notin {"none", "exists", "delete"} => wait' = wait /\ tasks' = q
           /\ KeepsDeletions(q)
<1>1. CASE working
  <2>1. tasks' = q /\ working' = working /\ wait' = wait
    BY <1>1 DEF HandleNextTask
  <2>2. working' \in BOOLEAN /\ wait' \in Wait /\ Served'
    BY <1>1, <2>1 DEF IndInv, TypeOK, QueueServed, Served
  <2> QED  BY <2>1, <2>2 DEF IndInv, WaitURLs, KeepsDeletions
<1>2. CASE ~ working
  <2>1. TakeNextTask(q)
    BY <1>2 DEF HandleNextTask
  <2>2. wait.at = "none"
    BY <1>2 DEF IndInv, QueueServed
  <2> QED  BY <2>1, <2>2, TakeNextTaskGood DEF KeepsDeletions
<1> QED  BY <1>1, <1>2

\* The invariant in the terms of the queue: NoOrphans without sets.
LEMMA Orphans ==
    ASSUME IndInv, NEW u \in URLs, ~ Has(u), disk[u] # "absent"
    PROVE  \/ Deletes(tasks, u)
           \/ wait.at = "delete" /\ wait.url = u /\ wait.answer = "posted"
           \/ ~ loaded
           \/ sync.at = "posted" /\ u \notin sync.processed
BY DeletesInSet DEF IndInv, NoOrphans, DeletionComes, GoodQueue

\* What NoOrphans' needs, in the same terms.
LEMMA NoOrphansNext ==
    ASSUME GoodQueue(tasks, entries)',
           \A u \in URLs : (~ Has(u) /\ disk[u] # "absent")' =>
               \/ Deletes(tasks, u)'
               \/ (wait.at = "delete" /\ wait.url = u /\ wait.answer = "posted")'
               \/ (~ loaded)'
               \/ (sync.at = "posted" /\ u \notin sync.processed)'
    PROVE  NoOrphans'
<1>1. \A u \in URLs : (DeleteOf(u) \in ToSet(tasks') <=> Deletes(tasks', u))
  BY DeletesInSet DEF GoodQueue
<1> QED  BY <1>1 DEF NoOrphans, DeletionComes

\* QueueServed is what it says of the queue and of the page.
LEMMA ServedNext ==
    ASSUME GoodQueue(tasks, entries)', Served', (page.attached <=> wait.at = "distill")'
    PROVE  QueueServed'
BY DEF QueueServed, GoodQueue, Served

\* A new entry waits with no failure; no entry looks like a missing one.
LEMMA EntryFacts ==
    /\ NewEntry \in Entry /\ NewEntry # NoEntry /\ NoEntry \notin Entry
    /\ NewEntry.failures = 0 /\ NewEntry.state = "WAITING"
    /\ \A e \in Entry : e.state # "none" /\ e.failures \in 0 .. NumberOfFailsBeforeStop
    /\ NoEntry.state = "none"
BY ServiceAssumption DEF NewEntry, NoEntry, Entry, States

\* Scheduling downloads only adds to the count of scheduled ones.
LEMMA ScheduleType ==
    ASSUME scheduled \in [URLs -> Nat], NEW STATE n, n \in [URLs -> Nat],
           ScheduleDownloadEntry(entries', n)
    PROVE  scheduled' \in [URLs -> Nat]
<1>1. \A u \in URLs : scheduled[u] \in Nat /\ scheduled[u] + n[u] \in Nat
  OBVIOUS
<1> QED  BY <1>1 DEF ScheduleDownloadEntry

\* RemoveOfflineURL of an entry that goes.
LEMMA RemoveEntryPreserves ==
    ASSUME IndInv, NEW u \in URLs, ReadingListWillRemoveEntry(u), events' \in 0 .. MaxEvents
    PROVE  IndInv'
<1> DEFINE w == WithoutDownloads(tasks, u)
           q == Append(w, DeleteOf(u))
<1>1. /\ HandleNextTask(q) /\ UNCHANGED <<pagevars, disk>>
      /\ entries' = [entries EXCEPT ![u] = NoEntry]
      /\ UNCHANGED <<loaded, sync, scheduled, cellular, wifi, netvars>>
  BY DEF ReadingListWillRemoveEntry, RemoveDownloadedEntry, RemoveOfflineURL
<1>2. /\ \A v \in URLs : v # u => entries'[v] = entries[v]
      /\ entries'[u] = NoEntry
      /\ entries' \in [URLs -> Entry \cup {NoEntry}]
  BY <1>1 DEF IndInv, TypeOK
<1>3. /\ GoodQueue(w, entries)
      /\ \A i \in 1 .. Len(w) : w[i] # DownloadOf(u)
      /\ \A v \in URLs : Deletes(tasks, v) => Deletes(w, v)
  BY WithoutDownloadsGood DEF IndInv
<1> HIDE DEF w
<1>4. /\ GoodQueue(q, entries') /\ Deletes(q, u)
      /\ \A v \in URLs : Deletes(tasks, v) => Deletes(q, v)
  <2>1. \A v \in URLs : v # u /\ entries[v] # NoEntry => entries'[v] # NoEntry
    BY <1>2
  <2> QED  BY <1>3, <2>1, AppendDeleteGood
<1> HIDE DEF q
<1>5. \A v \in URLs : Has(v) \/ Deletes(tasks, v) => entries'[v] # NoEntry \/ Deletes(q, v)
  BY <1>2, <1>4 DEF Has
<1>6. wait.at = "exists" => entries'[wait.url] # NoEntry \/ Deletes(q, wait.url)
  BY <1>5 DEF IndInv, RunningCovered, WaitURLs
<1>7. /\ GoodQueue(tasks, entries)'
      /\ working' \in BOOLEAN /\ wait' \in Wait /\ Served'
      /\ wait'.at # "none" => wait'.url \in URLs
      /\ wait'.at = "exists" => entries'[wait'.url] # NoEntry \/ Deletes(tasks', wait'.url)
      /\ wait'.at = "distill" <=> wait.at = "distill"
      /\ wait'.at \notin {"none", "exists", "delete"} => wait' = wait /\ tasks' = q
      /\ KeepsDeletions(q)
  BY <1>1, <1>4, <1>6, HandleNextTaskGood
<1>8. TypeOK'
  BY <1>1, <1>2, <1>7 DEF IndInv, TypeOK, GoodQueue, pagevars, netvars
<1>9. QueueServed'
  BY <1>1, <1>7, ServedNext DEF IndInv, QueueServed, pagevars
<1>10. WaitURLs'
  BY <1>1, <1>7 DEF IndInv, WaitURLs, pagevars
<1>11. RunningCovered'
  BY <1>1, <1>5, <1>7 DEF IndInv, RunningCovered, WaitURLs, Has, pagevars
<1>12. FailuresBounded'
  BY <1>2 DEF IndInv, FailuresBounded, Has
<1>13. NoOrphans'
  <2>1. ASSUME NEW v \in URLs, (~ Has(v) /\ disk[v] # "absent")'
        PROVE  \/ Deletes(tasks, v)'
               \/ (wait.at = "delete" /\ wait.url = v /\ wait.answer = "posted")'
               \/ (~ loaded)'
               \/ (sync.at = "posted" /\ v \notin sync.processed)'
    <3>1. CASE v = u
      BY <1>4, <1>7, <3>1 DEF KeepsDeletions
    <3>2. CASE v # u
      <4>1. ~ Has(v) /\ disk[v] # "absent"
        BY <1>1, <1>2, <2>1, <3>2 DEF Has
      <4> QED  BY <1>1, <1>4, <1>7, <4>1, Orphans DEF KeepsDeletions
    <3> QED  BY <3>1, <3>2
  <2> QED  BY <1>7, <2>1, NoOrphansNext
<1> QED
  BY <1>7, <1>8, <1>9, <1>10, <1>11, <1>12, <1>13 DEF IndInv

\* ProcessNewEntry: the entry is there afterwards.
LEMMA ProcessNewEntryPreserves ==
    ASSUME IndInv, NEW u \in URLs, NEW e \in Entry, ProcessNewEntry(u, e),
           e.state # "DISTILLATION_ERROR" => e.failures < NumberOfFailsBeforeStop,
           UNCHANGED <<loaded, sync, cellular, wifi, netvars>>, events' \in 0 .. MaxEvents
    PROVE  IndInv'
<1>1. /\ entries' = [entries EXCEPT ![u] = e]
      /\ UNCHANGED <<working, wait, pagevars, disk>>
      /\ tasks' = WithoutDownloads(tasks, u) \/ tasks' = tasks
      /\ \/ UNCHANGED scheduled
         \/ ScheduleDownloadEntry(entries', More(Nobody, u))
  BY DEF ProcessNewEntry, CancelDownloadOfflineURL, downloadervars, queuevars
<1>2. /\ \A v \in URLs : v # u => entries'[v] = entries[v]
      /\ entries'[u] = e /\ e # NoEntry
      /\ entries' \in [URLs -> Entry \cup {NoEntry}]
  BY <1>1, EntryFacts DEF IndInv, TypeOK
<1>3. /\ GoodQueue(tasks', entries)
      /\ \A v \in URLs : Deletes(tasks, v) => Deletes(tasks', v)
      /\ tasks = << >> => tasks' = << >>
  BY <1>1, WithoutDownloadsGood DEF IndInv
<1>4. GoodQueue(tasks', entries')
  BY <1>2, <1>3, GoodQueueMonotone
<1>5. scheduled' \in [URLs -> Nat]
  <2>1. More(Nobody, u) \in [URLs -> Nat]
    BY DEF More, Nobody
  <2> QED  BY <1>1, <2>1, ScheduleType DEF IndInv, TypeOK
<1>6. TypeOK'
  BY <1>1, <1>2, <1>4, <1>5 DEF IndInv, TypeOK, GoodQueue, pagevars, netvars
<1>7. Served'
  BY <1>1, <1>3 DEF IndInv, QueueServed, Served
<1>8. QueueServed'
  BY <1>1, <1>4, <1>7, ServedNext DEF IndInv, QueueServed, pagevars
<1>9. WaitURLs'
  BY <1>1 DEF IndInv, WaitURLs, pagevars
<1>10. RunningCovered'
  BY <1>1, <1>2, <1>3 DEF IndInv, RunningCovered, WaitURLs, Has, pagevars
<1>11. FailuresBounded'
  BY <1>2 DEF IndInv, FailuresBounded, Has
<1>12. NoOrphans'
  <2>1. ASSUME NEW v \in URLs, (~ Has(v) /\ disk[v] # "absent")'
        PROVE  \/ Deletes(tasks, v)'
               \/ (wait.at = "delete" /\ wait.url = v /\ wait.answer = "posted")'
               \/ (~ loaded)'
               \/ (sync.at = "posted" /\ v \notin sync.processed)'
    <3>1. ~ Has(v) /\ disk[v] # "absent"
      BY <1>1, <1>2, <2>1 DEF Has
    <3> QED  BY <1>1, <1>3, <3>1, Orphans
  <2> QED  BY <1>4, <2>1, NoOrphansNext
<1> QED
  BY <1>4, <1>6, <1>8, <1>9, <1>10, <1>11, <1>12 DEF IndInv

-----------------------------------------------------------------------------
(* The entries.                                                            *)

\* The same URLs have entries, all of them good.
EntriesKept ==
    /\ entries' \in [URLs -> Entry \cup {NoEntry}]
    /\ \A u \in URLs : entries'[u] # NoEntry <=> Has(u)
    /\ FailuresBounded'

\* A new distilled state keeps the entries that exist and the bounds on failures.
LEMMA SetStateKeeps ==
    ASSUME IndInv, NEW u \in URLs,
           NEW state \in {"PROCESSING", "WILL_RETRY", "DISTILLATION_ERROR"},
           SetEntryDistilledState(u, state),
           state = "WILL_RETRY" /\ Has(u) => entries[u].failures + 1 < NumberOfFailsBeforeStop,
           state = "PROCESSING" /\ Has(u) => entries[u].failures < NumberOfFailsBeforeStop
    PROVE  EntriesKept
<1>1. CASE ~ Has(u)
  BY <1>1 DEF SetEntryDistilledState, EntriesKept, Has, IndInv, TypeOK, FailuresBounded
<1>2. CASE Has(u)
  <2> DEFINE e == entries[u]
             fails == /\ state \in {"WILL_RETRY", "DISTILLATION_ERROR"}
                      /\ e.state \notin {"WILL_RETRY", "DISTILLATION_ERROR"}
             f == IF fails THEN e.failures + 1 ELSE e.failures
             d == [e EXCEPT !.state = state, !.failures = f]
  <2>1. e \in Entry /\ entries \in [URLs -> Entry \cup {NoEntry}]
    BY <1>2 DEF IndInv, TypeOK, Has
  <2>2. entries' = [entries EXCEPT ![u] = d]
    BY <1>2, <2>1 DEF SetEntryDistilledState, Entry
  <2>3. e.state # "DISTILLATION_ERROR" => e.failures < NumberOfFailsBeforeStop
    BY <1>2 DEF IndInv, FailuresBounded
  <2>4. /\ f \in 0 .. NumberOfFailsBeforeStop
        /\ state # "DISTILLATION_ERROR" => f < NumberOfFailsBeforeStop
    BY <1>2, <2>1, <2>3, ServiceAssumption DEF Entry
  <2>5. d \in Entry /\ d.state = state /\ d.failures = f
    BY <2>1, <2>4 DEF Entry, States
  <2> HIDE DEF d, e, f
  <2>6. /\ entries' \in [URLs -> Entry \cup {NoEntry}]
        /\ entries'[u] = d /\ d # NoEntry
        /\ \A v \in URLs : v # u => entries'[v] = entries[v]
    BY <2>1, <2>2, <2>5, EntryFacts
  <2>7. FailuresBounded'
    BY <2>4, <2>5, <2>6 DEF FailuresBounded, IndInv, Has
  <2> QED  BY <1>2, <2>6, <2>7 DEF EntriesKept, Has
<1> QED  BY <1>1, <1>2

\* So does recording the path of a copy.
LEMMA SetInfoKeeps ==
    ASSUME IndInv, NEW u \in URLs, SetEntryDistilledInfo(u)
    PROVE  EntriesKept
<1>1. CASE ~ Has(u)
  BY <1>1 DEF SetEntryDistilledInfo, EntriesKept, Has, IndInv, TypeOK, FailuresBounded
<1>2. CASE Has(u)
  <2> DEFINE e == entries[u]
             d == [e EXCEPT !.state = "PROCESSED", !.failures = 0]
  <2>1. e \in Entry /\ entries \in [URLs -> Entry \cup {NoEntry}]
    BY <1>2 DEF IndInv, TypeOK, Has
  <2>2. entries' = [entries EXCEPT ![u] = d]
    BY <1>2, <2>1 DEF SetEntryDistilledInfo, Entry
  <2>3. d \in Entry /\ d.state = "PROCESSED" /\ d.failures = 0
    <3>1. 0 \in 0 .. NumberOfFailsBeforeStop /\ "PROCESSED" \in States
      BY ServiceAssumption DEF States
    <3> HIDE DEF e
    <3> QED  BY <2>1, <3>1 DEF Entry
  <2> HIDE DEF d, e
  <2>4. /\ entries' \in [URLs -> Entry \cup {NoEntry}]
        /\ entries'[u] = d /\ d # NoEntry
        /\ \A v \in URLs : v # u => entries'[v] = entries[v]
    BY <2>1, <2>2, <2>3, EntryFacts
  <2>5. FailuresBounded'
    BY <2>3, <2>4, ServiceAssumption DEF FailuresBounded, IndInv, Has
  <2> QED  BY <1>2, <2>4, <2>5 DEF EntriesKept, Has
<1> QED  BY <1>1, <1>2

\* A scheduled download that runs.
LEMMA DownloadEntryPreserves ==
    ASSUME IndInv, NEW u \in URLs, DownloadEntry(u), events' = events
    PROVE  IndInv'
<1>1. /\ scheduled' = [scheduled EXCEPT ![u] = @ - 1] /\ scheduled[u] > 0
      /\ UNCHANGED <<loaded, sync, netvars>>
  BY DEF DownloadEntry
<1>2. scheduled' \in [URLs -> Nat]
  BY <1>1 DEF IndInv, TypeOK
<1>3. /\ cellular' \in [URLs -> Nat] /\ wifi' \in [URLs -> Nat]
      /\ EntriesKept
      /\ UNCHANGED <<pagevars, disk>>
      /\ \/ UNCHANGED queuevars
         \/ /\ Has(u) /\ DownloadOf(u) \notin ToSet(tasks)
            /\ HandleNextTask(Append(tasks, DownloadOf(u)))
  <2>0. \A f \in [URLs -> Nat] : More(f, u) \in [URLs -> Nat]
    BY DEF More
  <2>1. CASE UNCHANGED <<entries, downloadervars>> /\
             (UNCHANGED <<cellular, wifi>> \/ Park(u) \/
              (UNCHANGED cellular /\ (wifi' = wifi \/ wifi' = More(wifi, u))))
    <3>1. cellular' \in [URLs -> Nat] /\ wifi' \in [URLs -> Nat]
      BY <2>0, <2>1 DEF IndInv, TypeOK, Park
    <3>2. EntriesKept
      BY <2>1 DEF EntriesKept, IndInv, TypeOK, Has, FailuresBounded
    <3> QED  BY <2>1, <3>1, <3>2 DEF downloadervars
  <2>2. CASE /\ Wanted(entries[u])
             /\ SetEntryDistilledState(u, "PROCESSING")
             /\ DownloadOfflineURL(u)
             /\ UNCHANGED <<cellular, wifi>>
    <3>1. Has(u) /\ entries[u].failures < NumberOfFailsBeforeStop
      BY <2>2 DEF Wanted, Has, IndInv, FailuresBounded
    <3>2. EntriesKept
      BY <2>2, <3>1, SetStateKeeps
    <3> QED  BY <2>2, <3>1, <3>2 DEF DownloadOfflineURL, IndInv, TypeOK
  <2>3. CASE ~ Wanted(entries[u])
    <3>1. UNCHANGED <<entries, cellular, wifi, downloadervars>>
      BY <2>3 DEF DownloadEntry
    <3> QED  BY <2>1, <3>1
  <2>4. CASE Wanted(entries[u])
    <3>1. TryEntry(u)
      BY <2>4 DEF DownloadEntry
    <3>2. CASE connection = "none"
      <4>1. Park(u) /\ UNCHANGED <<entries, downloadervars>>
        BY <3>1, <3>2 DEF TryEntry
      <4> QED  BY <2>1, <4>1
    <3>3. CASE connection # "none" /\
               (entries[u].failures < NumberOfFailsBeforeWifiOnly \/
                (entries[u].failures < NumberOfFailsBeforeStop /\ connection = "wifi"))
      <4>1. /\ SetEntryDistilledState(u, "PROCESSING")
            /\ DownloadOfflineURL(u)
            /\ UNCHANGED <<cellular, wifi>>
        BY <3>1, <3>3 DEF TryEntry
      <4> QED  BY <2>2, <2>4, <4>1
    <3>4. CASE ~ (connection = "none" \/
                  entries[u].failures < NumberOfFailsBeforeWifiOnly \/
                  (entries[u].failures < NumberOfFailsBeforeStop /\ connection = "wifi"))
      <4>1. /\ wifi' = wifi \/ wifi' = More(wifi, u)
            /\ UNCHANGED <<entries, cellular, downloadervars>>
        BY <3>1, <3>4 DEF TryEntry
      <4> QED  BY <2>1, <4>1
    <3> QED  BY <3>2, <3>3, <3>4
  <2> QED  BY <2>3, <2>4
<1>4. GoodQueue(tasks, entries')
  BY <1>3, GoodQueueMonotone DEF IndInv, EntriesKept, Has
<1>5. wait.at = "exists" => entries'[wait.url] # NoEntry \/ Deletes(tasks, wait.url)
  BY <1>3 DEF IndInv, RunningCovered, WaitURLs, EntriesKept, Has
<1>6. /\ GoodQueue(tasks, entries)'
      /\ working' \in BOOLEAN /\ wait' \in Wait /\ Served'
      /\ wait'.at # "none" => wait'.url \in URLs
      /\ wait'.at = "exists" => entries'[wait'.url] # NoEntry \/ Deletes(tasks', wait'.url)
      /\ wait'.at = "distill" <=> wait.at = "distill"
      /\ wait'.at \notin {"none", "exists", "delete"} => wait' = wait
      /\ wait'.at \notin {"none", "exists", "delete"} =>
             \A v \in URLs : Deletes(tasks, v) => Deletes(tasks', v)
      /\ KeepsDeletions(tasks)
  <2>1. CASE UNCHANGED queuevars
    <3>1. Served'
      BY <2>1 DEF IndInv, QueueServed, Served, queuevars
    <3> QED
      BY <1>4, <1>5, <2>1, <3>1 DEF IndInv, TypeOK, WaitURLs, KeepsDeletions, queuevars
  <2>2. CASE /\ Has(u) /\ DownloadOf(u) \notin ToSet(tasks)
             /\ HandleNextTask(Append(tasks, DownloadOf(u)))
    <3> DEFINE q == Append(tasks, DownloadOf(u))
    <3>1. /\ GoodQueue(q, entries')
          /\ \A v \in URLs : Deletes(tasks, v) => Deletes(q, v)
      <4>1. entries'[u] # NoEntry
        BY <1>3, <2>2 DEF EntriesKept
      <4> QED  BY <1>4, <2>2, <4>1, AppendDownloadGood
    <3> HIDE DEF q
    <3>2. wait.at = "exists" => entries'[wait.url] # NoEntry \/ Deletes(q, wait.url)
      BY <1>5, <3>1 DEF IndInv, WaitURLs
    <3>3. HandleNextTask(q)
      BY <2>2 DEF q
    <3>4. /\ GoodQueue(tasks, entries)'
          /\ working' \in BOOLEAN /\ wait' \in Wait /\ Served'
          /\ wait'.at # "none" => wait'.url \in URLs
          /\ wait'.at = "exists" => entries'[wait'.url] # NoEntry \/ Deletes(tasks', wait'.url)
          /\ wait'.at = "distill" <=> wait.at = "distill"
          /\ wait'.at \notin {"none", "exists", "delete"} => wait' = wait /\ tasks' = q
          /\ KeepsDeletions(q)
      BY <3>1, <3>2, <3>3, HandleNextTaskGood
    <3>5. KeepsDeletions(tasks)
      BY <3>1, <3>4 DEF KeepsDeletions
    <3> QED  BY <3>1, <3>4, <3>5
  <2> QED  BY <1>3, <2>1, <2>2
<1>7. TypeOK'
  BY <1>1, <1>2, <1>3, <1>6 DEF IndInv, TypeOK, GoodQueue, EntriesKept, pagevars, netvars
<1>8. QueueServed'
  BY <1>3, <1>6, ServedNext DEF IndInv, QueueServed, pagevars
<1>9. WaitURLs'
  BY <1>3, <1>6 DEF IndInv, WaitURLs, pagevars
<1>10. RunningCovered'
  BY <1>3, <1>6 DEF IndInv, RunningCovered, WaitURLs, EntriesKept, Has, pagevars
<1>11. NoOrphans'
  <2>1. ASSUME NEW v \in URLs, (~ Has(v) /\ disk[v] # "absent")'
        PROVE  \/ Deletes(tasks, v)'
               \/ (wait.at = "delete" /\ wait.url = v /\ wait.answer = "posted")'
               \/ (~ loaded)'
               \/ (sync.at = "posted" /\ v \notin sync.processed)'
    <3>1. ~ Has(v) /\ disk[v] # "absent"
      BY <1>3, <2>1 DEF Has, EntriesKept
    <3> QED  BY <1>1, <1>6, <3>1, Orphans DEF KeepsDeletions
  <2> QED  BY <1>6, <2>1, NoOrphansNext
<1> QED
  BY <1>3, <1>6, <1>7, <1>8, <1>9, <1>10, <1>11 DEF IndInv, EntriesKept

-----------------------------------------------------------------------------
(* The end of a task.                                                      *)

\* A step that ends the running task and starts the next one.
LEMMA EndOfTaskPreserves ==
    ASSUME IndInv, TakeNextTask(tasks), EntriesKept,
           wait.at = "delete" => wait.answer # "posted",
           page' \in Page, page'.attached = FALSE, scheduled' \in [URLs -> Nat],
           UNCHANGED <<original_url, distilled_url, mime_pdf, disk>>,
           UNCHANGED <<loaded, sync, cellular, wifi, netvars, events>>
    PROVE  IndInv'
<1>1. GoodQueue(tasks, entries')
  BY GoodQueueMonotone DEF IndInv, EntriesKept, Has
<1>2. /\ GoodQueue(tasks, entries)'
      /\ working' \in BOOLEAN
      /\ wait' \in Wait
      /\ Served'
      /\ wait'.at \in {"none", "delete", "exists"}
      /\ wait'.answer = "posted"
      /\ wait'.at # "none" => wait'.url \in URLs
      /\ wait'.at = "exists" => entries'[wait'.url] # NoEntry \/ Deletes(tasks', wait'.url)
      /\ \A u \in URLs : Deletes(tasks, u) =>
             Deletes(tasks', u) \/ (wait'.at = "delete" /\ wait'.url = u)
  BY <1>1, TakeNextTaskGood
<1>3. TypeOK'
  BY <1>2 DEF IndInv, TypeOK, GoodQueue, EntriesKept, netvars
<1>4. QueueServed'
  BY <1>2, ServedNext
<1>5. WaitURLs' /\ RunningCovered'
  BY <1>2 DEF WaitURLs, RunningCovered, Has
<1>6. NoOrphans'
  <2>1. ASSUME NEW v \in URLs, (~ Has(v) /\ disk[v] # "absent")'
        PROVE  \/ Deletes(tasks, v)'
               \/ (wait.at = "delete" /\ wait.url = v /\ wait.answer = "posted")'
               \/ (~ loaded)'
               \/ (sync.at = "posted" /\ v \notin sync.processed)'
    <3>1. ~ Has(v) /\ disk[v] # "absent"
      BY <2>1 DEF Has, EntriesKept
    <3> QED  BY <1>2, <3>1, Orphans
  <2> QED  BY <1>2, <2>1, NoOrphansNext
<1> QED
  BY <1>2, <1>3, <1>4, <1>5, <1>6 DEF IndInv, EntriesKept

\* The page before a download and at its start.
LEMMA PageFacts ==
    /\ NoPage \in Page /\ NoPage.attached = FALSE
    /\ NewPage \in Page /\ NewPage.attached = TRUE
<1>1. 0 \in 0 .. MaxLoads
  BY DownloaderAssumption
<1>2. NoPage \in Page /\ NoPage.attached = FALSE
  BY <1>1 DEF NoPage, Page
<1>3. NewPage \in Page /\ NewPage.attached = TRUE
  BY <1>2 DEF NewPage, Page
<1> QED  BY <1>2, <1>3

\* The end of a download keeps the invariant: the next task is started.
LEMMA OnDownloadEndPreserves ==
    ASSUME IndInv, OnDownloadEnd, events' = events
    PROVE  IndInv'
<1> DEFINE u == wait.url
<1>1. /\ TakeNextTask(tasks) /\ page' = NoPage
      /\ wait.at \in {"save", "clean", "exists"}
      /\ UNCHANGED <<original_url, distilled_url, mime_pdf, disk>>
      /\ UNCHANGED <<loaded, sync, cellular, wifi, netvars>>
      /\ DownloadSucceeded(u) \/ DownloadErred(u)
  BY DEF OnDownloadEnd, SaveSucceeded, CleanedUp, DownloadURLExists, PostDelete
<1>2. u \in URLs
  BY <1>1 DEF IndInv, WaitURLs
<1>3. EntriesKept /\ scheduled' \in [URLs -> Nat]
  <2>1. CASE DownloadSucceeded(u)
    BY <1>2, <2>1, SetInfoKeeps DEF DownloadSucceeded, IndInv, TypeOK
  <2>2. CASE Has(u) /\ entries[u].failures + 1 < NumberOfFailsBeforeStop /\ DownloadErred(u)
    <3>1. /\ SetEntryDistilledState(u, "WILL_RETRY")
          /\ ScheduleDownloadEntry(entries', More(Nobody, u))
      BY <2>2 DEF DownloadErred
    <3>2. More(Nobody, u) \in [URLs -> Nat]
      BY <1>2 DEF More, Nobody
    <3>3. EntriesKept
      BY <1>2, <2>2, <3>1, SetStateKeeps
    <3>4. scheduled' \in [URLs -> Nat]
      BY <3>1, <3>2, ScheduleType DEF IndInv, TypeOK
    <3> QED  BY <3>3, <3>4
  <2>3. CASE ~ (Has(u) /\ entries[u].failures + 1 < NumberOfFailsBeforeStop) /\ DownloadErred(u)
    <3>1. SetEntryDistilledState(u, "DISTILLATION_ERROR") /\ scheduled' = scheduled
      BY <2>3 DEF DownloadErred
    <3>2. EntriesKept
      BY <1>2, <3>1, SetStateKeeps
    <3> QED  BY <3>1, <3>2 DEF IndInv, TypeOK
  <2> QED  BY <1>1, <2>1, <2>2, <2>3
<1> QED
  BY <1>1, <1>3, PageFacts, EndOfTaskPreserves

\* Nothing but the entries' states counts for EntriesKept.
LEMMA EntriesUnchanged ==
    ASSUME IndInv, UNCHANGED entries
    PROVE  EntriesKept
BY DEF EntriesKept, IndInv, TypeOK, Has, FailuresBounded

\* So does the end of a deletion.
LEMMA DeleteCompletionPreserves ==
    ASSUME IndInv, DeleteCompletionHandler, UNCHANGED <<servicevars, netvars, events>>
    PROVE  IndInv'
<1>1. /\ TakeNextTask(tasks) /\ wait.at = "delete" /\ wait.answer # "posted"
      /\ UNCHANGED <<pagevars, disk>>
      /\ UNCHANGED <<entries, loaded, sync, scheduled, cellular, wifi, netvars, events>>
  BY DEF DeleteCompletionHandler, servicevars
<1>2. page' \in Page /\ page'.attached = FALSE
  <2>1. page' = page /\ page \in Page /\ ~ page.attached
    BY <1>1 DEF IndInv, TypeOK, QueueServed, pagevars
  <2> QED  BY <2>1 DEF Page
<1>3. scheduled' \in [URLs -> Nat]
  BY <1>1 DEF IndInv, TypeOK
<1>4. EntriesKept
  BY <1>1, EntriesUnchanged
<1> QED
  BY <1>1, <1>2, <1>3, <1>4, EndOfTaskPreserves DEF pagevars

-----------------------------------------------------------------------------
(* The conversation with the web and with the FILE thread.                 *)

\* A step that leaves the queue and the service alone: the task goes on, and a
\* directory appears only under a URL that is covered.
LEMMA ConversationPreserves ==
    ASSUME IndInv, UNCHANGED <<tasks, working, servicevars, netvars, events>>,
           wait.at # "none", wait' \in Wait, wait'.at # "none", wait'.url \in URLs,
           page' \in Page, page'.attached <=> wait'.at = "distill",
           original_url' \in URLs \cup {NoURL}, distilled_url' \in URLs \cup {NoURL},
           mime_pdf' \in BOOLEAN,
           wait'.at = "exists" => wait.at = "exists" /\ wait'.url = wait.url,
           wait'.at \in {"distill", "fetch", "save"} =>
               /\ original_url' \in URLs /\ distilled_url' \in URLs
               /\ Has(original_url') \/ Deletes(tasks, original_url'),
           disk' \in [URLs -> {"absent", "partial", "complete"}],
           \A v \in URLs : disk'[v] # "absent" =>
               disk[v] # "absent" \/ Has(v) \/ Deletes(tasks, v),
           \A v \in URLs : wait.at = "delete" /\ wait.url = v /\ wait.answer = "posted" =>
               disk'[v] = "absent"
    PROVE  IndInv'
<1>1. /\ tasks' = tasks /\ working' = working
      /\ entries' = entries /\ loaded' = loaded /\ sync' = sync /\ scheduled' = scheduled
      /\ cellular' = cellular /\ wifi' = wifi
      /\ UNCHANGED netvars /\ events' = events
  BY DEF servicevars
<1>2. TypeOK'
  BY <1>1 DEF IndInv, TypeOK, netvars
<1>3. GoodQueue(tasks, entries)'
  BY <1>1 DEF IndInv
<1>4. Served'
  BY <1>1 DEF IndInv, QueueServed, Served
<1>5. QueueServed'
  BY <1>3, <1>4, ServedNext
<1>6. WaitURLs' /\ FailuresBounded'
  BY <1>1 DEF IndInv, WaitURLs, FailuresBounded, Has
<1>7. RunningCovered'
  BY <1>1 DEF IndInv, RunningCovered, Has
<1>8. NoOrphans'
  <2>1. ASSUME NEW v \in URLs, (~ Has(v) /\ disk[v] # "absent")'
        PROVE  \/ Deletes(tasks, v)'
               \/ (~ loaded)'
               \/ (sync.at = "posted" /\ v \notin sync.processed)'
    <3>1. ~ Has(v) /\ (disk[v] # "absent" \/ Deletes(tasks, v))
      BY <1>1, <2>1 DEF Has
    <3>2. CASE disk[v] # "absent"
      BY <1>1, <2>1, <3>1, <3>2, Orphans
    <3> QED  BY <1>1, <3>1, <3>2
  <2> QED  BY <1>3, <2>1, NoOrphansNext
<1> QED
  BY <1>2, <1>3, <1>5, <1>6, <1>7, <1>8 DEF IndInv

\* What a step posted for a URL looks like.
LEMMA WaitingFacts ==
    ASSUME NEW at \in FileSteps \cup WebSteps, NEW url \in URLs
    PROVE  /\ Waiting(at, url) \in Wait
           /\ Waiting(at, url).at = at /\ Waiting(at, url).url = url
           /\ Waiting(at, url).answer = "posted"
BY DEF Waiting, Wait, Answers

\* What the invariant says of a running task.
LEMMA RunningFacts ==
    ASSUME IndInv, wait.at # "none"
    PROVE  /\ wait \in Wait /\ wait.url \in URLs
           /\ page \in Page /\ (page.attached <=> wait.at = "distill")
           /\ original_url \in URLs \cup {NoURL} /\ distilled_url \in URLs \cup {NoURL}
           /\ mime_pdf \in BOOLEAN
           /\ disk \in [URLs -> {"absent", "partial", "complete"}]
           /\ wait.at \in {"distill", "fetch", "save"} =>
                  /\ original_url \in URLs /\ distilled_url \in URLs
                  /\ Has(original_url) \/ Deletes(tasks, original_url)
BY DEF IndInv, TypeOK, QueueServed, WaitURLs, RunningCovered

\* The steps of the FILE thread keep the invariant.
LEMMA FileStepPreserves ==
    ASSUME IndInv, FileStep, UNCHANGED <<servicevars, netvars, events>>
    PROVE  IndInv'
<1>1. wait.at # "none" /\ UNCHANGED <<tasks, working, pagevars>>
  BY DEF FileStep, FilePathExists, FileDelete, CreateOfflineURLDirectory, SaveFile
<1>2. /\ wait' = [wait EXCEPT !.answer = wait'.answer] /\ wait'.answer \in Answers
      /\ disk' \in [URLs -> {"absent", "partial", "complete"}]
      /\ \A v \in URLs : disk'[v] # "absent" =>
             disk[v] # "absent" \/ (wait.at = "save" /\ v = original_url)
      /\ \A v \in URLs : wait.at = "delete" /\ wait.url = v /\ wait.answer = "posted" =>
             disk'[v] = "absent"
  <2>1. CASE FilePathExists
    BY <1>1, <2>1, RunningFacts DEF FilePathExists, Answer, Answers, Wait
  <2>2. CASE FileDelete
    BY <1>1, <2>2, RunningFacts DEF FileDelete, Answer, Answers, Wait
  <2>3. CASE CreateOfflineURLDirectory
    BY <1>1, <2>3, RunningFacts DEF CreateOfflineURLDirectory, Answer, Answers, Wait
  <2>4. CASE SaveFile
    BY <1>1, <2>4, RunningFacts DEF SaveFile, Answer, Answers, Wait
  <2> QED  BY <2>1, <2>2, <2>3, <2>4 DEF FileStep
<1>3. wait' \in Wait /\ wait'.at = wait.at /\ wait'.url = wait.url
  BY <1>1, <1>2, RunningFacts DEF Wait
<1>4. \A v \in URLs : disk'[v] # "absent" => disk[v] # "absent" \/ Has(v) \/ Deletes(tasks, v)
  BY <1>1, <1>2, RunningFacts
<1>5. /\ original_url' = original_url /\ distilled_url' = distilled_url
      /\ mime_pdf' = mime_pdf /\ page' = page
  BY <1>1 DEF pagevars
<1> QED
  BY <1>1, <1>2, <1>3, <1>4, <1>5, RunningFacts, ConversationPreserves

\* A step of the page: nothing is written.
LEMMA PageStepPreserves ==
    ASSUME IndInv, UNCHANGED <<tasks, working, servicevars, netvars, events, disk>>,
           UNCHANGED <<original_url>>, wait.at \in {"distill", "fetch"},
           wait' = wait \/ \E at \in {"fetch", "save", "clean"}, url \in URLs :
                               wait' = Waiting(at, url),
           page' \in Page, page'.attached <=> wait'.at = "distill",
           distilled_url' \in URLs, mime_pdf' \in BOOLEAN
    PROVE  IndInv'
<1>1. /\ wait \in Wait /\ wait.url \in URLs /\ original_url' \in URLs
      /\ Has(original_url') \/ Deletes(tasks, original_url')
      /\ disk' \in [URLs -> {"absent", "partial", "complete"}] /\ disk' = disk
  BY RunningFacts
<1>2. /\ wait' \in Wait /\ wait'.url \in URLs /\ wait'.at # "none" /\ wait'.at # "exists"
  <2>1. CASE wait' = wait
    BY <1>1, <2>1
  <2>2. CASE \E at \in {"fetch", "save", "clean"}, url \in URLs : wait' = Waiting(at, url)
    <3>1. PICK at \in {"fetch", "save", "clean"}, url \in URLs : wait' = Waiting(at, url)
      BY <2>2
    <3>2. at \in FileSteps \cup WebSteps
      BY DEF FileSteps, WebSteps
    <3> QED  BY <3>1, <3>2, WaitingFacts
  <2> QED  BY <2>1, <2>2
<1> QED  BY <1>1, <1>2, ConversationPreserves

\* So does the distiller's answer.
LEMMA DistillationDonePreserves ==
    ASSUME IndInv, NEW html \in BOOLEAN, DistillationDone(html),
           UNCHANGED <<servicevars, netvars, events>>
    PROVE  IndInv'
<1>1. /\ wait.at = "distill" /\ page' = [NoPage EXCEPT !.render = page.render]
      /\ wait' = IF html THEN Waiting("save", original_url)
                 ELSE IF mime_pdf THEN Waiting("fetch", distilled_url)
                 ELSE Waiting("clean", original_url)
      /\ UNCHANGED <<tasks, working, original_url, distilled_url, mime_pdf, disk>>
  BY DEF DistillationDone
<1>2. original_url \in URLs /\ distilled_url \in URLs /\ mime_pdf \in BOOLEAN
  BY <1>1, RunningFacts
<1>3. \E at \in {"fetch", "save", "clean"}, url \in URLs : wait' = Waiting(at, url)
  BY <1>1, <1>2
<1>4. wait'.at # "distill"
  BY <1>1, <1>2, WaitingFacts DEF FileSteps, WebSteps
<1>5. page' \in Page /\ ~ page'.attached
  <2>1. page.render \in Nat
    BY <1>1, RunningFacts DEF Page
  <2> QED  BY <1>1, <2>1, PageFacts DEF Page
<1> QED  BY <1>1, <1>2, <1>3, <1>4, <1>5, PageStepPreserves

\* So does a step of the page itself, late ones included.
LEMMA PageAlonePreserves ==
    ASSUME IndInv, UNCHANGED <<queuevars, original_url, disk, servicevars, netvars, events>>,
           page' \in Page, page'.attached = page.attached, mime_pdf' \in BOOLEAN,
           distilled_url' \in URLs \/ distilled_url' = distilled_url
    PROVE  IndInv'
<1>1. /\ UNCHANGED <<tasks, working, wait, original_url, disk>>
      /\ UNCHANGED <<entries, loaded, sync, scheduled, cellular, wifi>>
      /\ UNCHANGED <<connection, notifications, had_connection, events>>
  BY DEF queuevars, servicevars, netvars
<1>2. TypeOK'
  BY <1>1 DEF IndInv, TypeOK
<1>3. QueueServed'
  BY <1>1 DEF IndInv, QueueServed
<1>4. GoodQueue(tasks, entries)'
  BY <1>1 DEF IndInv
<1>5. RunningCovered' /\ FailuresBounded'
  BY <1>1 DEF IndInv, RunningCovered, FailuresBounded, Has
<1>6. WaitURLs'
  BY <1>1 DEF IndInv, WaitURLs
<1>7. NoOrphans'
  BY <1>1 DEF IndInv, NoOrphans, DeletionComes, Has
<1> QED  BY <1>2, <1>3, <1>4, <1>5, <1>6, <1>7 DEF IndInv

\* So do the loads of the page.
LEMMA WebStepPreserves ==
    ASSUME IndInv, WebStep, UNCHANGED <<servicevars, netvars, events>>
    PROVE  IndInv'
<1>0. page \in Page /\ mime_pdf \in BOOLEAN
  BY DEF IndInv, TypeOK
<1>1. CASE PageLoadFailed
  BY <1>1, DistillationDonePreserves DEF PageLoadFailed
<1>2. CASE \E html, pdf \in BOOLEAN : PageLoaded(html, pdf)
  <2>1. PICK html \in BOOLEAN, pdf \in BOOLEAN : PageLoaded(html, pdf)
    BY <1>2
  <2> DEFINE loads == page.loads + 1
             render == IF html THEN page.render + 1 ELSE page.render
             script == IF html \/ page.script = "html" THEN page.script ELSE "empty"
  <2>2. /\ page.loads < MaxLoads /\ mime_pdf' = pdf
        /\ page' = [page EXCEPT !.loads = loads, !.render = render, !.script = script]
        /\ UNCHANGED <<queuevars, original_url, distilled_url, disk>>
    BY <2>1 DEF PageLoaded
  <2>3. loads \in 0 .. MaxLoads
    BY <1>0, <2>2, DownloaderAssumption DEF Page
  <2>4. render \in Nat /\ script \in {"none", "html", "empty"}
    BY <1>0 DEF Page
  <2> HIDE DEF loads, render, script
  <2>5. page' \in Page /\ page'.attached = page.attached
    BY <1>0, <2>2, <2>3, <2>4 DEF Page
  <2> QED  BY <2>2, <2>5, PageAlonePreserves
<1>3. CASE \E redirected_url \in URLs : ContinuePageDistillation(redirected_url)
  <2>1. PICK url \in URLs : ContinuePageDistillation(url)
    BY <1>3
  <2> DEFINE render == page.render - 1
             script == IF page.attached THEN "html" ELSE page.script
  <2>2. /\ page.render > 0 /\ distilled_url' \in {url, distilled_url}
        /\ page' = [page EXCEPT !.render = render, !.script = script]
        /\ UNCHANGED <<queuevars, original_url, mime_pdf, disk>>
    BY <2>1 DEF ContinuePageDistillation
  <2>3. render \in Nat /\ script \in {"none", "html", "empty"}
    BY <1>0, <2>2 DEF Page
  <2> HIDE DEF render, script
  <2>4. page' \in Page /\ page'.attached = page.attached
    BY <1>0, <2>2, <2>3 DEF Page
  <2> QED  BY <1>0, <2>2, <2>4, PageAlonePreserves
<1>6. CASE PageLoadDistrusted
  <2> DEFINE loads == page.loads + 1
  <2>1. /\ page.loads < MaxLoads
        /\ page' = [page EXCEPT !.loads = loads, !.script = "html"]
        /\ UNCHANGED <<queuevars, original_url, distilled_url, mime_pdf, disk>>
    BY <1>6 DEF PageLoadDistrusted
  <2>2. loads \in 0 .. MaxLoads
    BY <1>0, <2>1, DownloaderAssumption DEF Page
  <2> HIDE DEF loads
  <2>3. page' \in Page /\ page'.attached = page.attached
    BY <1>0, <2>1, <2>2 DEF Page
  <2> QED  BY <1>0, <2>1, <2>3, PageAlonePreserves
<1>7. CASE HandleGoogleCachedAMPPage
  <2> DEFINE render == page.render - 1
  <2>1. /\ page.render > 0 /\ page' = [page EXCEPT !.render = render]
        /\ UNCHANGED <<queuevars, original_url, distilled_url, mime_pdf, disk>>
    BY <1>7 DEF HandleGoogleCachedAMPPage
  <2>2. render \in Nat
    BY <1>0, <2>1 DEF Page
  <2> HIDE DEF render
  <2>3. page' \in Page /\ page'.attached = page.attached
    BY <1>0, <2>1, <2>2 DEF Page
  <2> QED  BY <1>0, <2>1, <2>3, PageAlonePreserves
<1>4. CASE \E html \in BOOLEAN : DistillerCallback(html)
  BY <1>4, DistillationDonePreserves DEF DistillerCallback
<1>5. CASE \E pdf \in BOOLEAN : OnURLFetchComplete(pdf)
  <2>1. PICK pdf \in BOOLEAN : OnURLFetchComplete(pdf)
    BY <1>5
  <2>2. /\ wait.at = "fetch"
        /\ wait' = IF pdf THEN Waiting("save", wait.url) ELSE Waiting("clean", original_url)
        /\ UNCHANGED <<tasks, working, original_url, distilled_url, mime_pdf, page, disk>>
    BY <2>1 DEF OnURLFetchComplete, pagevars
  <2>3. /\ original_url \in URLs /\ distilled_url \in URLs /\ wait.url \in URLs
        /\ mime_pdf \in BOOLEAN /\ page \in Page /\ ~ page.attached
    BY <2>2, RunningFacts
  <2>4. \E at \in {"fetch", "save", "clean"}, url \in URLs : wait' = Waiting(at, url)
    BY <2>2, <2>3
  <2>5. wait'.at # "distill"
    BY <2>2, <2>3, WaitingFacts DEF FileSteps, WebSteps
  <2> QED  BY <2>2, <2>3, <2>4, <2>5, PageStepPreserves
<1> QED  BY <1>1, <1>2, <1>3, <1>4, <1>5, <1>6, <1>7 DEF WebStep

\* So does the start of a download.
LEMMA DownloadURLPreserves ==
    ASSUME IndInv, DownloadURL, UNCHANGED <<servicevars, netvars, events>>
    PROVE  IndInv'
<1>1. /\ wait.at = "exists" /\ original_url' = wait.url /\ distilled_url' = wait.url
      /\ page' = NewPage /\ wait' = Waiting("distill", wait.url)
      /\ UNCHANGED <<tasks, working, mime_pdf, disk>>
  BY DEF DownloadURL
<1>2. /\ wait.url \in URLs /\ (Has(wait.url) \/ Deletes(tasks, wait.url))
      /\ mime_pdf \in BOOLEAN /\ disk \in [URLs -> {"absent", "partial", "complete"}]
  BY <1>1, RunningFacts DEF IndInv, RunningCovered
<1>3. wait' \in Wait /\ wait'.at = "distill" /\ wait'.url = wait.url
  BY <1>1, <1>2, WaitingFacts DEF FileSteps, WebSteps
<1> QED  BY <1>1, <1>2, <1>3, PageFacts, ConversationPreserves

\* So does a save that failed: what it wrote is cleaned up.
LEMMA SaveFailedPreserves ==
    ASSUME IndInv, SaveFailed, UNCHANGED <<servicevars, netvars, events>>
    PROVE  IndInv'
<1>1. /\ wait.at = "save" /\ wait' = Waiting("clean", wait.url)
      /\ UNCHANGED <<tasks, working, original_url, distilled_url, mime_pdf, page, disk>>
  BY DEF SaveFailed, CleanUp, pagevars
<1>2. wait.url \in URLs
  BY <1>1, RunningFacts
<1>3. wait' \in Wait /\ wait'.at = "clean" /\ wait'.url = wait.url
  BY <1>1, <1>2, WaitingFacts DEF FileSteps, WebSteps
<1>4. /\ page' \in Page /\ ~ page'.attached /\ mime_pdf' \in BOOLEAN
      /\ original_url' \in URLs \cup {NoURL} /\ distilled_url' \in URLs \cup {NoURL}
      /\ disk' \in [URLs -> {"absent", "partial", "complete"}]
  BY <1>1, RunningFacts
<1> QED  BY <1>1, <1>2, <1>3, <1>4, ConversationPreserves

-----------------------------------------------------------------------------
(* The service: loading, cleaning up, the connection, the end of a process. *)

\* A step that leaves the queue and the entries alone.
LEMMA ServiceStepPreserves ==
    ASSUME IndInv, UNCHANGED <<queuevars, pagevars, entries, cellular, wifi>>,
           loaded' \in BOOLEAN, sync' \in Sync, scheduled' \in [URLs -> Nat],
           connection' \in Connections, notifications' \in Seq(Connections),
           had_connection' \in BOOLEAN, events' \in 0 .. MaxEvents,
           disk' \in [URLs -> {"absent", "partial", "complete"}],
           \A v \in URLs : ~ Has(v) /\ disk'[v] # "absent" =>
               /\ disk[v] # "absent"
               /\ ~ loaded /\ loaded' => sync'.at = "posted" /\ v \notin sync'.processed
               /\ loaded /\ sync.at = "posted" /\ v \notin sync.processed => sync' = sync
    PROVE  IndInv'
<1>1. /\ tasks' = tasks /\ working' = working /\ wait' = wait
      /\ original_url' = original_url /\ distilled_url' = distilled_url
      /\ mime_pdf' = mime_pdf /\ page' = page
      /\ entries' = entries /\ cellular' = cellular /\ wifi' = wifi
  BY DEF queuevars, pagevars
<1>2. TypeOK'
  BY <1>1 DEF IndInv, TypeOK
<1>3. GoodQueue(tasks, entries)'
  BY <1>1 DEF IndInv
<1>4. QueueServed' /\ WaitURLs' /\ FailuresBounded' /\ RunningCovered'
  BY <1>1 DEF IndInv, QueueServed, WaitURLs, FailuresBounded, RunningCovered, Has
<1>5. NoOrphans'
  <2>1. ASSUME NEW v \in URLs, (~ Has(v) /\ disk[v] # "absent")'
        PROVE  \/ Deletes(tasks, v)'
               \/ (wait.at = "delete" /\ wait.url = v /\ wait.answer = "posted")'
               \/ (~ loaded)'
               \/ (sync.at = "posted" /\ v \notin sync.processed)'
    <3>1. ~ Has(v)
      BY <1>1, <2>1 DEF Has
    <3> QED  BY <1>1, <2>1, <3>1, Orphans
  <2> QED  BY <1>3, <2>1, NoOrphansNext
<1> QED
  BY <1>2, <1>3, <1>4, <1>5 DEF IndInv

\* So do the three steps that follow the loading of the model.
LEMMA SyncPreserves ==
    ASSUME IndInv, SyncWithModel \/ CleanUpFiles \/ DownloadUnprocessedEntries
    PROVE  IndInv'
<1>1. UNCHANGED <<queuevars, pagevars, entries, cellular, wifi, connection,
                  notifications, had_connection, events>>
  BY DEF SyncWithModel, CleanUpFiles, DownloadUnprocessedEntries, downloadervars, netvars
<1>2. /\ connection' \in Connections /\ notifications' \in Seq(Connections)
      /\ had_connection' \in BOOLEAN /\ events' \in 0 .. MaxEvents
      /\ scheduled \in [URLs -> Nat] /\ sync \in Sync /\ loaded \in BOOLEAN
      /\ disk \in [URLs -> {"absent", "partial", "complete"}]
  BY <1>1 DEF IndInv, TypeOK
<1>3. CASE SyncWithModel
  <2>1. /\ ~ loaded /\ loaded' = TRUE /\ scheduled' = scheduled /\ disk' = disk
        /\ sync' \in Sync /\ sync'.at = "posted"
        /\ sync'.processed = {u \in URLs : entries[u].state = "PROCESSED"}
    BY <1>3 DEF SyncWithModel, downloadervars, Sync
  <2>2. \A v \in URLs : ~ Has(v) => v \notin sync'.processed
    BY <2>1, EntryFacts DEF Has
  <2> QED  BY <1>1, <1>2, <2>1, <2>2, ServiceStepPreserves
<1>4. CASE CleanUpFiles
  <2>1. /\ sync.at = "posted" /\ sync' = [sync EXCEPT !.at = "done"]
        /\ disk' = [u \in URLs |-> IF u \in sync.processed THEN disk[u] ELSE "absent"]
        /\ loaded' = loaded /\ scheduled' = scheduled
    BY <1>4 DEF CleanUpFiles
  <2>2. sync' \in Sync
    BY <1>2, <2>1 DEF Sync
  <2>3. /\ disk' \in [URLs -> {"absent", "partial", "complete"}]
        /\ \A v \in URLs : disk'[v] # "absent" => disk[v] # "absent" /\ v \in sync.processed
    BY <1>2, <2>1
  <2> QED  BY <1>1, <1>2, <2>1, <2>2, <2>3, ServiceStepPreserves
<1>5. CASE DownloadUnprocessedEntries
  <2> DEFINE n == [u \in URLs |-> IF u \in sync.unprocessed THEN 1 ELSE 0]
  <2>1. /\ sync.at = "done" /\ sync' = NoSync /\ loaded' = loaded /\ disk' = disk
        /\ ScheduleDownloadEntry(entries', n)
    BY <1>1, <1>5 DEF DownloadUnprocessedEntries, downloadervars
  <2>2. n \in [URLs -> Nat] /\ sync' \in Sync
    BY <2>1 DEF Sync, NoSync
  <2> HIDE DEF n
  <2>3. scheduled' \in [URLs -> Nat]
    BY <1>2, <2>1, <2>2, ScheduleType
  <2> QED  BY <1>1, <1>2, <2>1, <2>2, <2>3, ServiceStepPreserves
<1> QED  BY <1>3, <1>4, <1>5

\* So does the wake-up of what waited for a connection.
LEMMA ConnectionNotifiedPreserves ==
    ASSUME IndInv, ConnectionNotified
    PROVE  IndInv'
<1> DEFINE type == Head(notifications)
           n == [u \in URLs |-> (IF had_connection THEN 0 ELSE cellular[u]) +
                                (IF type = "wifi" THEN wifi[u] ELSE 0)]
<1>1. /\ UNCHANGED <<queuevars, pagevars, entries, cellular, wifi, disk, loaded, sync,
                     connection, events>>
      /\ notifications # << >> /\ notifications' = Tail(notifications)
      /\ had_connection' = (type # "none")
      /\ scheduled' = scheduled \/ ScheduleDownloadEntry(entries, n)
  BY DEF ConnectionNotified, OnConnectionTypeChanged, downloadervars
<1>2. /\ connection \in Connections /\ notifications \in Seq(Connections)
      /\ events \in 0 .. MaxEvents /\ loaded \in BOOLEAN /\ sync \in Sync
      /\ scheduled \in [URLs -> Nat] /\ disk \in [URLs -> {"absent", "partial", "complete"}]
      /\ cellular \in [URLs -> Nat] /\ wifi \in [URLs -> Nat]
  BY DEF IndInv, TypeOK
<1>3. notifications' \in Seq(Connections)
  BY <1>1, <1>2, HeadTailProperties
<1>4. n \in [URLs -> Nat]
  BY <1>2
<1> HIDE DEF n, type
<1>5. ScheduleDownloadEntry(entries, n) => ScheduleDownloadEntry(entries', n)
  BY <1>1
<1>6. scheduled' \in [URLs -> Nat]
  BY <1>1, <1>2, <1>4, <1>5, ScheduleType
<1>7. had_connection' \in BOOLEAN
  BY <1>1
<1> QED
  BY <1>1, <1>2, <1>3, <1>6, <1>7, ServiceStepPreserves

\* A change of the connection touches nothing the invariant is about.
LEMMA ConnectionChangesPreserves ==
    ASSUME IndInv, NEW type \in Connections, ConnectionChanges(type)
    PROVE  IndInv'
<1>1. /\ UNCHANGED <<queuevars, pagevars, disk, entries, cellular, wifi, loaded, sync,
                     scheduled, had_connection>>
      /\ events < MaxEvents /\ events' = events + 1 /\ connection' = type
      /\ notifications' = Append(notifications, type)
  BY DEF ConnectionChanges, downloadervars, servicevars
<1>2. /\ notifications' \in Seq(Connections) /\ events' \in 0 .. MaxEvents
      /\ loaded' \in BOOLEAN /\ sync' \in Sync /\ scheduled' \in [URLs -> Nat]
      /\ had_connection' \in BOOLEAN
      /\ disk' \in [URLs -> {"absent", "partial", "complete"}]
  BY <1>1, AppendProperties, ServiceAssumption DEF IndInv, TypeOK
<1> QED  BY <1>1, <1>2, ServiceStepPreserves

\* A restart forgets the queue; the clean-up to come deletes what it would have.
LEMMA RestartPreserves ==
    ASSUME IndInv, Restart
    PROVE  IndInv'
<1>1. /\ tasks' = << >> /\ working' = FALSE /\ wait' = NotWaiting /\ page' = NoPage
      /\ original_url' = NoURL /\ distilled_url' = NoURL /\ mime_pdf' = FALSE
      /\ loaded' = FALSE /\ sync' = NoSync /\ notifications' = << >>
      /\ scheduled' = Nobody /\ cellular' = Nobody /\ wifi' = Nobody
      /\ had_connection' \in BOOLEAN /\ events' = events + 1 /\ events < MaxEvents
      /\ disk' = disk /\ entries' = entries /\ connection' = connection
  BY DEF Restart, DownloaderRestart
<1>2. FailuresBounded' /\ entries' \in [URLs -> Entry \cup {NoEntry}]
  BY <1>1 DEF IndInv, TypeOK, FailuresBounded, Has
<1>3. (/\ QueueServed /\ GoodQueue(tasks, entries) /\ RunningCovered /\ WaitURLs
       /\ NoOrphans)'
  <2>1. wait'.at = "none" /\ page'.attached = FALSE
    BY <1>1, PageFacts DEF NotWaiting, Waiting
  <2>2. Len(tasks') = 0 /\ \A i \in 1 .. Len(tasks') : FALSE
    BY <1>1
  <2>3. QueueServed' /\ GoodQueue(tasks, entries)'
    BY <1>1, <2>1, <2>2 DEF QueueServed, GoodQueue
  <2> QED
    BY <1>1, <2>1, <2>3 DEF RunningCovered, WaitURLs, NoOrphans, DeletionComes
<1>4. TypeOK'
  <2>1. NotWaiting \in Wait /\ NoSync \in Sync /\ Nobody \in [URLs -> Nat]
    BY DEF NotWaiting, Waiting, Wait, Answers, NoSync, Sync, Nobody
  <2>2. << >> \in Seq(Task) /\ << >> \in Seq(Connections)
    OBVIOUS
  <2>3. events' \in 0 .. MaxEvents
    BY <1>1, ServiceAssumption DEF IndInv, TypeOK
  <2> QED
    BY <1>1, <2>1, <2>2, <2>3, PageFacts DEF IndInv, TypeOK
<1> QED  BY <1>2, <1>3, <1>4 DEF IndInv

\* The first launch satisfies the invariant.
LEMMA InitEstablishes == Init => IndInv
<1> SUFFICES ASSUME Init PROVE IndInv
  OBVIOUS
<1>1. /\ tasks = << >> /\ working = FALSE /\ wait = NotWaiting /\ page = NoPage
      /\ original_url = NoURL /\ distilled_url = NoURL /\ mime_pdf = FALSE
      /\ loaded = FALSE /\ sync = NoSync /\ notifications = << >>
      /\ scheduled = Nobody /\ cellular = Nobody /\ wifi = Nobody
      /\ had_connection \in BOOLEAN /\ events = 0 /\ connection \in Connections
      /\ disk = [u \in URLs |-> "absent"] /\ entries = [u \in URLs |-> NoEntry]
  BY DEF Init, DownloaderInit, ServiceInit
<1>2. wait.at = "none" /\ page.attached = FALSE
  BY <1>1, PageFacts DEF NotWaiting, Waiting
<1>3. Len(tasks) = 0 /\ \A i \in 1 .. Len(tasks) : FALSE
  BY <1>1
<1>4. << >> \in Seq(Task) /\ << >> \in Seq(Connections)
  OBVIOUS
<1>5. QueueServed /\ GoodQueue(tasks, entries)
  BY <1>1, <1>2, <1>3 DEF QueueServed, GoodQueue
<1>6. RunningCovered /\ WaitURLs /\ NoOrphans /\ FailuresBounded
  BY <1>1, <1>2 DEF RunningCovered, WaitURLs, NoOrphans, DeletionComes, FailuresBounded, Has
<1>7. TypeOK
  <2>1. NotWaiting \in Wait /\ NoSync \in Sync /\ Nobody \in [URLs -> Nat]
    BY DEF NotWaiting, Waiting, Wait, Answers, NoSync, Sync, Nobody
  <2>2. events \in 0 .. MaxEvents
    BY <1>1, ServiceAssumption
  <2> QED  BY <1>1, <1>4, <2>1, <2>2, PageFacts DEF TypeOK
<1> QED  BY <1>5, <1>6, <1>7 DEF IndInv

\* Additions and removals of entries keep the invariant.
LEMMA ListChangePreserves ==
    ASSUME IndInv, ListChange
    PROVE  IndInv'
<1>1. events' \in 0 .. MaxEvents
  BY ServiceAssumption DEF ListChange, IndInv, TypeOK
<1>2. PICK u \in URLs : \/ ReadingListDidAddEntry(u)
                        \/ ReadingListDidMoveEntry(u)
                        \/ ReadingListWillRemoveEntry(u)
  BY DEF ListChange
<1>3. CASE ReadingListDidAddEntry(u)
  <2>1. 0 < NumberOfFailsBeforeStop
    BY ServiceAssumption
  <2> QED
    BY <1>1, <1>3, <2>1, EntryFacts, ProcessNewEntryPreserves DEF ReadingListDidAddEntry
<1>4. CASE ReadingListDidMoveEntry(u)
  <2> DEFINE e == [entries[u] EXCEPT !.read = ~ @]
  <2>1. entries[u] \in Entry
    BY <1>4 DEF ReadingListDidMoveEntry, Has, IndInv, TypeOK
  <2>2. e \in Entry /\ e.state = entries[u].state /\ e.failures = entries[u].failures
    BY <2>1 DEF Entry
  <2>3. e.state # "DISTILLATION_ERROR" => e.failures < NumberOfFailsBeforeStop
    BY <1>4, <2>2 DEF ReadingListDidMoveEntry, IndInv, FailuresBounded
  <2>4. ProcessNewEntry(u, e) /\ UNCHANGED <<loaded, sync, cellular, wifi, netvars>>
    BY <1>4 DEF ReadingListDidMoveEntry
  <2> HIDE DEF e
  <2> QED  BY <1>1, <2>2, <2>3, <2>4, ProcessNewEntryPreserves
<1>5. CASE ReadingListWillRemoveEntry(u)
  BY <1>1, <1>5, RemoveEntryPreserves
<1> QED  BY <1>2, <1>3, <1>4, <1>5

\* A stuttering step keeps the invariant.
LEMMA StutterPreserves ==
    ASSUME IndInv, UNCHANGED vars
    PROVE  IndInv'
<1>1. UNCHANGED <<tasks, working, wait, original_url, distilled_url, mime_pdf, page, disk,
                  entries, loaded, sync, scheduled, cellular, wifi, connection,
                  notifications, had_connection, events>>
  BY DEF vars, downloadervars, queuevars, pagevars, servicevars, netvars
<1>2. TypeOK' /\ QueueServed'
  BY <1>1 DEF IndInv, TypeOK, QueueServed
<1>3. GoodQueue(tasks, entries)' /\ RunningCovered' /\ WaitURLs' /\ FailuresBounded'
  BY <1>1 DEF IndInv, RunningCovered, WaitURLs, FailuresBounded, Has
<1>4. NoOrphans'
  BY <1>1 DEF IndInv, NoOrphans, DeletionComes, Has
<1> QED  BY <1>2, <1>3, <1>4 DEF IndInv

\* IndInv is inductive.
THEOREM InvariantPreserved == IndInv /\ [Next]_vars => IndInv'
<1> SUFFICES ASSUME IndInv, [Next]_vars PROVE IndInv'
  OBVIOUS
<1>1. CASE ListChange
  BY <1>1, ListChangePreserves
<1>2. CASE SyncWithModel \/ CleanUpFiles \/ DownloadUnprocessedEntries
  BY <1>2, SyncPreserves
<1>3. CASE (\E u \in URLs : DownloadEntry(u)) /\ UNCHANGED events
  BY <1>3, DownloadEntryPreserves
<1>4. CASE DownloaderStep
  BY <1>4, FileStepPreserves, WebStepPreserves, DeleteCompletionPreserves,
     DownloadURLPreserves, SaveFailedPreserves DEF DownloaderStep
<1>5. CASE OnDownloadEnd /\ UNCHANGED events
  BY <1>5, OnDownloadEndPreserves
<1>6. CASE ConnectionNotified
  BY <1>6, ConnectionNotifiedPreserves
<1>7. CASE \E type \in Connections : ConnectionChanges(type)
  BY <1>7, ConnectionChangesPreserves
<1>8. CASE Restart
  BY <1>8, RestartPreserves
<1>9. CASE UNCHANGED vars
  BY <1>9, StutterPreserves
<1> QED
  BY <1>1, <1>2, <1>3, <1>4, <1>5, <1>6, <1>7, <1>8, <1>9 DEF Next

-----------------------------------------------------------------------------
\* The inductive invariant holds in every reachable state.
LEMMA Invariance == Spec => []IndInv
<1> QED  BY InitEstablishes, InvariantPreserved, PTL DEF Spec

\* Every variable has its type: the failures of an entry stop at the limit.
THEOREM TypeCorrect == Spec => []TypeOK
<1>1. IndInv => TypeOK
  BY DEF IndInv
<1> QED  BY <1>1, Invariance, PTL

\* While tasks wait, the downloader works and waits for exactly one answer, and
\* the page is attached exactly while it is distilled.
THEOREM QueueIsServed == Spec => []QueueServed
<1>1. IndInv => QueueServed
  BY DEF IndInv
<1> QED  BY <1>1, Invariance, PTL

\* A directory whose entry was removed is going to be deleted, whatever the
\* downloader was doing at the removal and whenever the process died.
THEOREM NothingOrphaned == Spec => []NoOrphans
<1>1. IndInv => NoOrphans
  BY DEF IndInv
<1> QED  BY <1>1, Invariance, PTL

\* Until the FILE thread has answered a save, no step of the UI thread changes the
\* members the FILE thread reads.
THEOREM SaverIsAlone == Spec => SaverAlone
<1>1. ASSUME IndInv, Next, wait.at = "save", wait.answer \in {"posted", "writing"}, loaded'
      PROVE  wait'.at = "save" /\ UNCHANGED <<original_url, distilled_url>>
  <2>0. working /\ ~ page.attached /\ wait \in Wait
    BY <1>1 DEF IndInv, QueueServed, TypeOK
  <2>1. CASE ListChange
    BY <2>0, <1>1, <2>1 DEF ListChange, ReadingListDidAddEntry, ReadingListDidMoveEntry,
       ReadingListWillRemoveEntry, ProcessNewEntry, RemoveDownloadedEntry, RemoveOfflineURL,
       CancelDownloadOfflineURL, HandleNextTask, downloadervars, queuevars, pagevars
  <2>2. CASE SyncWithModel \/ CleanUpFiles \/ DownloadUnprocessedEntries
    BY <1>1, <2>2 DEF SyncWithModel, CleanUpFiles, DownloadUnprocessedEntries,
       downloadervars, queuevars, pagevars
  <2>3. CASE (\E u \in URLs : DownloadEntry(u)) /\ UNCHANGED events
    BY <1>1, <2>0, <2>3 DEF DownloadEntry, TryEntry, DownloadOfflineURL, HandleNextTask,
       downloadervars, queuevars, pagevars
  <2>4. CASE DownloaderStep
    <3>1. CASE FileStep
      BY <1>1, <2>0, <3>1 DEF FileStep, FilePathExists, FileDelete,
         CreateOfflineURLDirectory, SaveFile, Answer, Wait, pagevars
    <3>2. CASE WebStep \/ DeleteCompletionHandler \/ DownloadURL \/ SaveFailed
      BY <1>1, <2>0, <3>2 DEF WebStep, PageLoadFailed, PageLoadDistrusted, PageLoaded,
         HandleGoogleCachedAMPPage, ContinuePageDistillation, DistillerCallback,
         OnURLFetchComplete, DeleteCompletionHandler, DownloadURL, SaveFailed, queuevars
    <3> QED  BY <2>4, <3>1, <3>2 DEF DownloaderStep
  <2>5. CASE OnDownloadEnd /\ UNCHANGED events
    BY <1>1, <2>5 DEF OnDownloadEnd, SaveSucceeded, CleanedUp, DownloadURLExists
  <2>6. CASE ConnectionNotified \/ \E type \in Connections : ConnectionChanges(type)
    BY <1>1, <2>6 DEF ConnectionNotified, ConnectionChanges, downloadervars, queuevars, pagevars
  <2>7. CASE Restart
    BY <1>1, <2>7 DEF Restart
  <2> QED
    BY <1>1, <2>1, <2>2, <2>3, <2>4, <2>5, <2>6, <2>7 DEF Next
<1>2. IndInv /\ [Next]_vars =>
          [wait.at = "save" /\ wait.answer \in {"posted", "writing"} /\ loaded'
               => wait'.at = "save" /\ UNCHANGED <<original_url, distilled_url>>]_vars
  BY <1>1
<1> QED  BY <1>2, Invariance, PTL DEF Spec, SaverAlone

-----------------------------------------------------------------------------
(* What is half written.                                                   *)

\* The service of a process that has not loaded its model is idle.
Idle ==
    ~ loaded =>
        /\ tasks = << >> /\ ~ working /\ wait = NotWaiting /\ sync.at = "none"
        /\ scheduled = Nobody /\ cellular = Nobody /\ wifi = Nobody

\* Nothing the FILE thread does for the downloader precedes the clean-up.
SyncFirst ==
    sync.at = "posted" => wait.at \in {"none", "exists", "delete"} /\ wait.answer = "posted"

\* What is reported as saved is all there.
SavedWhole == wait.at = "save" /\ wait.answer = "success" => disk[original_url] = "complete"

\* A download of u runs, or cleans up after itself.
Running(u) ==
    \/ wait.at \in {"exists", "clean"} /\ wait.url = u
    \/ wait.at \in {"distill", "fetch", "save"} /\ original_url = u

\* A download of u is in the queue q.
Waits(q, u) == \E i \in 1 .. Len(q) : q[i] = DownloadOf(u)

\* A deletion of u is in the queue q, before any download of u.
DeletedFirst(q, u) ==
    \E i \in 1 .. Len(q) : q[i] = DeleteOf(u) /\ \A j \in 1 .. i - 1 : q[j] # DownloadOf(u)

\* No download of u looks at its directory before it is deleted: one is being
\* written or cleaned up after, the clean-up of the last run is to come, or the
\* deletion, or no download of u is to come at all.
Covered(u) ==
    \/ wait.at = "save" /\ original_url = u /\ wait.answer # "success"
    \/ wait.at \in {"clean", "delete"} /\ wait.url = u /\ wait.answer = "posted"
    \/ ~ loaded
    \/ sync.at = "posted" /\ u \notin sync.processed
    \/ ~ Running(u) /\ DeletedFirst(tasks, u)
    \/ ~ Running(u) /\ entries[u].state = "PROCESSED" /\ ~ Waits(tasks, u)

PartialCovered == \A u \in URLs : disk[u] = "partial" => Covered(u)

CopyInv == Idle /\ SyncFirst /\ SavedWhole /\ PartialCovered /\ FoundIsComplete

\* A task queued behind the others changes nothing for those before it.
LEMMA AppendFirst ==
    ASSUME NEW q \in Seq(Task), NEW t \in Task, NEW u \in URLs
    PROVE  /\ DeletedFirst(q, u) => DeletedFirst(Append(q, t), u)
           /\ ~ Waits(q, u) /\ t # DownloadOf(u) => ~ Waits(Append(q, t), u)
           /\ ~ Waits(q, u) /\ t = DeleteOf(u) => DeletedFirst(Append(q, t), u)
<1> DEFINE r == Append(q, t)
<1>1. /\ Len(q) \in Nat /\ Len(r) = Len(q) + 1 /\ r[Len(q) + 1] = t
      /\ \A i \in 1 .. Len(q) : r[i] = q[i]
  BY AppendProperties, LenProperties
<1> HIDE DEF r
<1>2. ASSUME DeletedFirst(q, u) PROVE DeletedFirst(r, u)
  <2>1. PICK i \in 1 .. Len(q) : /\ q[i] = DeleteOf(u)
                                 /\ \A j \in 1 .. i - 1 : q[j] # DownloadOf(u)
    BY <1>2 DEF DeletedFirst
  <2>2. i \in 1 .. Len(r) /\ r[i] = DeleteOf(u) /\ \A j \in 1 .. i - 1 : r[j] # DownloadOf(u)
    BY <1>1, <2>1
  <2> QED  BY <2>2 DEF DeletedFirst
<1>3. ASSUME ~ Waits(q, u), t # DownloadOf(u) PROVE ~ Waits(r, u)
  <2>1. \A i \in 1 .. Len(r) : i = Len(q) + 1 \/ i \in 1 .. Len(q)
    BY <1>1
  <2> QED  BY <1>1, <1>3, <2>1 DEF Waits
<1>4. ASSUME ~ Waits(q, u), t = DeleteOf(u) PROVE DeletedFirst(r, u)
  <2>1. \A j \in 1 .. (Len(q) + 1) - 1 : r[j] # DownloadOf(u)
    BY <1>1, <1>4 DEF Waits
  <2>2. Len(q) + 1 \in 1 .. Len(r) /\ r[Len(q) + 1] = DeleteOf(u)
    BY <1>1, <1>4
  <2> QED  BY <2>1, <2>2 DEF DeletedFirst
<1> QED  BY <1>2, <1>3, <1>4 DEF r

\* Cancelling the downloads of v brings no download of u forward.
LEMMA WithoutFirst ==
    ASSUME NEW q \in Seq(Task), NEW u \in URLs, NEW v \in URLs
    PROVE  /\ DeletedFirst(q, u) => DeletedFirst(WithoutDownloads(q, v), u)
           /\ ~ Waits(q, u) => ~ Waits(WithoutDownloads(q, v), u)
<1>1. Len(q) \in Nat /\ DOMAIN q = 1 .. Len(q)
  BY LenProperties
<1>2. CASE DownloadOf(v) \notin ToSet(q)
  BY <1>2 DEF WithoutDownloads
<1>3. CASE DownloadOf(v) \in ToSet(q)
  <2> DEFINE k == CHOOSE i \in 1 .. Len(q) : q[i] = DownloadOf(v)
             r == RemoveAt(q, k)
  <2>1. k \in 1 .. Len(q) /\ q[k] = DownloadOf(v)
    <3>1. \E i \in 1 .. Len(q) : q[i] = DownloadOf(v)
      BY <1>1, <1>3 DEF ToSet
    <3> QED  BY <3>1
  <2>2. WithoutDownloads(q, v) = r
    BY <1>3 DEF WithoutDownloads
  <2> HIDE DEF k
  <2>3. /\ r \in Seq(Task) /\ Len(r) = Len(q) - 1
        /\ \A j \in 1 .. Len(q) - 1 : r[j] = IF j < k THEN q[j] ELSE q[j + 1]
    BY <2>1, RemoveAtProperties
  <2> HIDE DEF r
  <2>4. ASSUME DeletedFirst(q, u) PROVE DeletedFirst(r, u)
    <3>1. PICK i \in 1 .. Len(q) : /\ q[i] = DeleteOf(u)
                                   /\ \A j \in 1 .. i - 1 : q[j] # DownloadOf(u)
      BY <2>4 DEF DeletedFirst
    <3>2. i # k
      BY <2>1, <3>1, TaskFacts
    <3>3. CASE i < k
      <4>1. i \in 1 .. Len(r) /\ r[i] = q[i] /\ \A j \in 1 .. i - 1 : r[j] = q[j]
        BY <1>1, <2>1, <2>3, <3>3
      <4> QED  BY <3>1, <4>1 DEF DeletedFirst
    <3>4. CASE i > k
      <4>1. i - 1 \in 1 .. Len(r) /\ r[i - 1] = q[i]
        BY <1>1, <2>1, <2>3, <3>4
      <4>2. ASSUME NEW j \in 1 .. (i - 1) - 1 PROVE r[j] # DownloadOf(u)
        <5>1. j \in 1 .. Len(q) - 1 /\ j \in 1 .. i - 1 /\ j + 1 \in 1 .. i - 1
          BY <1>1
        <5> QED  BY <2>3, <3>1, <5>1
      <4> QED  BY <3>1, <4>1, <4>2 DEF DeletedFirst
    <3> QED  BY <2>1, <3>2, <3>3, <3>4
  <2>5. ASSUME ~ Waits(q, u) PROVE ~ Waits(r, u)
    <3>1. \A j \in 1 .. Len(r) : j \in 1 .. Len(q) - 1 /\ j \in 1 .. Len(q) /\ j + 1 \in 1 .. Len(q)
      BY <1>1, <2>3
    <3> QED  BY <2>3, <2>5, <3>1 DEF Waits
  <2> QED  BY <2>2, <2>4, <2>5
<1> QED  BY <1>2, <1>3

\* The task that is started is not a download of u when the deletion of u comes
\* first, nor when no download of u waits.
LEMMA TakeNextFirst ==
    ASSUME NEW STATE q, q \in Seq(Task), TakeNextTask(q), NEW u \in URLs
    PROVE  /\ wait'.at \in {"none", "delete", "exists"} /\ wait'.answer = "posted"
           /\ DeletedFirst(q, u) =>
                  \/ wait'.at = "delete" /\ wait'.url = u
                  \/ ~ Running(u)' /\ DeletedFirst(tasks', u)
           /\ ~ Waits(q, u) => ~ Running(u)' /\ ~ Waits(tasks', u)
<1>1. CASE q = << >>
  <2>1. Len(q) = 0 /\ ~ \E i \in 1 .. Len(q) : TRUE
    BY <1>1
  <2>2. tasks' = q /\ wait' = NotWaiting
    BY <1>1 DEF TakeNextTask
  <2>3. wait'.at = "none" /\ wait'.answer = "posted"
    BY <2>2 DEF NotWaiting, Waiting
  <2> QED  BY <2>1, <2>2, <2>3 DEF Running, DeletedFirst, Waits
<1>2. CASE q # << >>
  <2> DEFINE h == Head(q)
             r == Tail(q)
  <2>1. Len(q) \in Nat \ {0}
    BY <1>2, EmptySeq, LenProperties
  <2>2. /\ h = q[1] /\ h \in Task
        /\ Len(r) = Len(q) - 1
        /\ \A i \in 1 .. Len(r) : r[i] = q[i + 1]
    BY <1>2, <2>1, HeadTailProperties
  <2>3. /\ tasks' = r
        /\ wait' = Waiting(IF h.type = "DELETE" THEN "delete" ELSE "exists", h.url)
    BY <1>2 DEF TakeNextTask
  <2> HIDE DEF h, r
  <2>4. /\ wait'.url = h.url /\ wait'.answer = "posted"
        /\ wait'.at = IF h.type = "DELETE" THEN "delete" ELSE "exists"
    BY <2>3 DEF Waiting
  <2>5. h # DownloadOf(u) => ~ Running(u)'
    <3>1. h # DownloadOf(u) => h.type = "DELETE" \/ h.url # u
      BY <2>2, TaskShape
    <3> QED  BY <2>4, <3>1 DEF Running
  <2>6. ASSUME DeletedFirst(q, u)
        PROVE  \/ wait'.at = "delete" /\ wait'.url = u
               \/ ~ Running(u)' /\ DeletedFirst(r, u)
    <3>1. PICK i \in 1 .. Len(q) : /\ q[i] = DeleteOf(u)
                                   /\ \A j \in 1 .. i - 1 : q[j] # DownloadOf(u)
      BY <2>6 DEF DeletedFirst
    <3>2. CASE i = 1
      BY <2>2, <2>4, <3>1, <3>2, TaskFacts
    <3>3. CASE i # 1
      <4>1. /\ 1 \in 1 .. i - 1 /\ i - 1 \in 1 .. Len(r) /\ r[i - 1] = q[(i - 1) + 1]
            /\ (i - 1) + 1 = i
        BY <2>1, <2>2, <3>3
      <4>2. ASSUME NEW j \in 1 .. (i - 1) - 1 PROVE r[j] # DownloadOf(u)
        <5>1. j + 1 \in 1 .. i - 1 /\ j \in 1 .. Len(r)
          BY <2>1, <2>2
        <5> QED  BY <2>2, <3>1, <5>1
      <4>3. DeletedFirst(r, u)
        BY <3>1, <4>1, <4>2 DEF DeletedFirst
      <4> QED  BY <2>2, <2>5, <3>1, <4>1, <4>3
    <3> QED  BY <3>2, <3>3
  <2>7. ASSUME ~ Waits(q, u) PROVE ~ Running(u)' /\ ~ Waits(r, u)
    <3>1. 1 \in 1 .. Len(q) /\ \A j \in 1 .. Len(r) : j + 1 \in 1 .. Len(q)
      BY <2>1, <2>2
    <3> QED  BY <2>2, <2>5, <2>7, <3>1 DEF Waits
  <2> QED  BY <2>3, <2>4, <2>6, <2>7
<1> QED  BY <1>1, <1>2

\* What the proofs below use of the first invariant.
LEMMA BasicFacts ==
    ASSUME IndInv
    PROVE  /\ tasks \in Seq(Task) /\ wait \in Wait
           /\ working <=> wait.at # "none"
           /\ tasks # << >> => working
           /\ page.attached <=> wait.at = "distill"
           /\ wait.at # "none" => wait.url \in URLs
           /\ wait.at \in {"distill", "fetch", "save"} => original_url \in URLs
           /\ disk \in [URLs -> {"absent", "partial", "complete"}]
           /\ \A u \in URLs : entries[u] \in Entry \cup {NoEntry}
BY DEF IndInv, TypeOK, QueueServed, WaitURLs

\* A step that ends a task, or starts one, keeps what is half written covered.
LEMMA NextTaskCovers ==
    ASSUME IndInv, CopyInv, loaded' = TRUE, sync' = sync, disk' = disk,
           NEW STATE q, q \in Seq(Task), TakeNextTask(q),
           wait.at = "save" => wait.answer = "success",
           wait.at \in {"clean", "delete"} => wait.answer # "posted",
           loaded,
           \A u \in URLs : ~ Running(u) /\ DeletedFirst(tasks, u) => DeletedFirst(q, u),
           \A u \in URLs : ~ Running(u) /\ entries[u].state = "PROCESSED" /\ ~ Waits(tasks, u) =>
               \/ entries'[u].state = "PROCESSED" /\ ~ Waits(q, u)
               \/ DeletedFirst(q, u)
    PROVE  CopyInv'
<1>1. \A u \in URLs :
          /\ wait'.at \in {"none", "delete", "exists"} /\ wait'.answer = "posted"
          /\ DeletedFirst(q, u) =>
                 \/ wait'.at = "delete" /\ wait'.url = u
                 \/ ~ Running(u)' /\ DeletedFirst(tasks', u)
          /\ ~ Waits(q, u) => ~ Running(u)' /\ ~ Waits(tasks', u)
  BY TakeNextFirst
<1>2. wait'.at \in {"none", "delete", "exists"} /\ wait'.answer = "posted"
  <2>1. CASE q = << >>
    BY <2>1 DEF TakeNextTask, NotWaiting, Waiting
  <2>2. CASE q # << >>
    BY <2>2 DEF TakeNextTask, Waiting
  <2> QED  BY <2>1, <2>2
<1>3. Idle' /\ SyncFirst' /\ SavedWhole' /\ FoundIsComplete'
  BY <1>2 DEF Idle, SyncFirst, SavedWhole, FoundIsComplete
<1>4. ASSUME NEW u \in URLs, disk'[u] = "partial" PROVE Covered(u)'
  <2>1. Covered(u)
    BY <1>4 DEF CopyInv, PartialCovered
  <2>2. CASE sync.at = "posted" /\ u \notin sync.processed
    BY <2>2 DEF Covered
  <2>3. CASE ~ Running(u) /\ DeletedFirst(tasks, u)
    <3>1. DeletedFirst(q, u)
      BY <2>3
    <3>2. \/ wait'.at = "delete" /\ wait'.url = u
          \/ ~ Running(u)' /\ DeletedFirst(tasks', u)
      BY <1>1, <3>1
    <3> QED  BY <1>2, <3>2 DEF Covered
  <2>4. CASE ~ Running(u) /\ entries[u].state = "PROCESSED" /\ ~ Waits(tasks, u)
    <3>1. CASE entries'[u].state = "PROCESSED" /\ ~ Waits(q, u)
      <4>1. ~ Running(u)' /\ ~ Waits(tasks', u)
        BY <1>1, <3>1
      <4> QED  BY <3>1, <4>1 DEF Covered
    <3>2. CASE DeletedFirst(q, u)
      <4>1. \/ wait'.at = "delete" /\ wait'.url = u
            \/ ~ Running(u)' /\ DeletedFirst(tasks', u)
        BY <1>1, <3>2
      <4> QED  BY <1>2, <4>1 DEF Covered
    <3> QED  BY <2>4, <3>1, <3>2
  <2> QED  BY <2>1, <2>2, <2>3, <2>4 DEF Covered
<1> QED  BY <1>3, <1>4 DEF CopyInv, PartialCovered

\* A task added to the queue, or downloads taken from it, while one runs.
LEMMA QueueStepCovers ==
    ASSUME IndInv, CopyInv, loaded, UNCHANGED <<loaded, sync, disk, pagevars>>,
           NEW STATE q, q \in Seq(Task),
           HandleNextTask(q) \/ (tasks' = q /\ UNCHANGED <<working, wait>>),
           \A u \in URLs : DeletedFirst(tasks, u) => DeletedFirst(q, u),
           \A u \in URLs : ~ Running(u) /\ entries[u].state = "PROCESSED" /\ ~ Waits(tasks, u) =>
               \/ entries'[u].state = "PROCESSED" /\ ~ Waits(q, u)
               \/ DeletedFirst(q, u)
    PROVE  CopyInv'
<1>1. CASE tasks' = q /\ UNCHANGED <<working, wait>>
  <2>1. UNCHANGED <<wait, loaded, sync, disk, original_url>> /\ tasks' = q
    BY <1>1 DEF pagevars
  <2>2. Idle' /\ SyncFirst' /\ SavedWhole' /\ FoundIsComplete'
    BY <2>1 DEF CopyInv, Idle, SyncFirst, SavedWhole, FoundIsComplete
  <2>3. ASSUME NEW u \in URLs, disk'[u] = "partial" PROVE Covered(u)'
    <3>1. Covered(u) /\ (Running(u)' <=> Running(u))
      BY <2>1, <2>3 DEF CopyInv, PartialCovered, Running
    <3>2. CASE ~ Running(u) /\ DeletedFirst(tasks, u)
      <4>1. ~ Running(u)' /\ DeletedFirst(tasks', u)
        BY <2>1, <3>1, <3>2
      <4> QED  BY <4>1 DEF Covered
    <3>3. CASE ~ Running(u) /\ entries[u].state = "PROCESSED" /\ ~ Waits(tasks, u)
      <4>1. /\ ~ Running(u)'
            /\ \/ entries'[u].state = "PROCESSED" /\ ~ Waits(tasks', u)
               \/ DeletedFirst(tasks', u)
        BY <2>1, <3>1, <3>3
      <4> QED  BY <4>1 DEF Covered
    <3> QED  BY <2>1, <3>1, <3>2, <3>3 DEF Covered
  <2> QED  BY <2>2, <2>3 DEF CopyInv, PartialCovered
<1>2. CASE ~ working /\ TakeNextTask(q)
  <2>1. wait.at = "none"
    BY <1>2, BasicFacts
  <2> QED  BY <1>2, <2>1, NextTaskCovers
<1> QED  BY <1>1, <1>2 DEF HandleNextTask

\* Removing an entry queues the deletion of its directory, and takes the waiting
\* download of it back.
LEMMA RemoveCovers ==
    ASSUME IndInv, CopyInv, NEW u \in URLs, ReadingListWillRemoveEntry(u)
    PROVE  CopyInv'
<1> DEFINE w == WithoutDownloads(tasks, u)
           q == Append(w, DeleteOf(u))
<1>1. /\ loaded /\ HandleNextTask(q) /\ entries' = [entries EXCEPT ![u] = NoEntry]
      /\ UNCHANGED <<loaded, sync, disk, pagevars>>
  BY DEF ReadingListWillRemoveEntry, RemoveDownloadedEntry, RemoveOfflineURL
<1>2. tasks \in Seq(Task) /\ GoodQueue(tasks, entries) /\ DeleteOf(u) \in Task
  BY BasicFacts, TaskFacts DEF IndInv
<1>3. w \in Seq(Task) /\ ~ Waits(w, u)
  BY <1>2, WithoutDownloadsGood DEF GoodQueue, Waits
<1>4. \A v \in URLs : /\ DeletedFirst(tasks, v) => DeletedFirst(w, v)
                      /\ ~ Waits(tasks, v) => ~ Waits(w, v)
  BY <1>2, WithoutFirst
<1> HIDE DEF w
<1>5. q \in Seq(Task)
  BY <1>2, <1>3, AppendProperties
<1>6. \A v \in URLs : DeletedFirst(tasks, v) => DeletedFirst(q, v)
  BY <1>2, <1>3, <1>4, AppendFirst
<1>7. ASSUME NEW v \in URLs, entries[v].state = "PROCESSED", ~ Waits(tasks, v)
      PROVE  \/ entries'[v].state = "PROCESSED" /\ ~ Waits(q, v)
             \/ DeletedFirst(q, v)
  <2>1. CASE v = u
    BY <1>2, <1>3, <2>1, AppendFirst
  <2>2. CASE v # u
    <3>1. entries'[v] = entries[v]
      BY <1>1, <2>2 DEF IndInv, TypeOK
    <3>2. DeleteOf(u) # DownloadOf(v)
      BY TaskFacts
    <3> QED  BY <1>2, <1>3, <1>4, <1>7, <3>1, <3>2, AppendFirst
  <2> QED  BY <2>1, <2>2
<1> HIDE DEF q
<1> QED  BY <1>1, <1>5, <1>6, <1>7, QueueStepCovers

\* A new entry, and one that is marked read or unread: the state of an entry that
\* was there does not change.
LEMMA ProcessNewEntryCovers ==
    ASSUME IndInv, CopyInv, loaded, NEW u \in URLs, NEW e, ProcessNewEntry(u, e),
           entries[u].state = "PROCESSED" => e.state = "PROCESSED",
           UNCHANGED <<loaded, sync>>
    PROVE  CopyInv'
<1> DEFINE w == WithoutDownloads(tasks, u)
<1>1. /\ entries' = [entries EXCEPT ![u] = e]
      /\ \/ tasks' = w /\ UNCHANGED <<working, wait, pagevars, disk>>
         \/ UNCHANGED <<tasks, working, wait, pagevars, disk>>
  BY DEF ProcessNewEntry, CancelDownloadOfflineURL, downloadervars, queuevars
<1>2. tasks \in Seq(Task) /\ GoodQueue(tasks, entries)
  BY BasicFacts DEF IndInv
<1>3. w \in Seq(Task)
  BY <1>2, WithoutDownloadsGood DEF GoodQueue
<1>4. \A v \in URLs : /\ DeletedFirst(tasks, v) => DeletedFirst(w, v)
                      /\ ~ Waits(tasks, v) => ~ Waits(w, v)
  BY <1>2, WithoutFirst
<1> HIDE DEF w
<1>5. \A v \in URLs : entries[v].state = "PROCESSED" => entries'[v].state = "PROCESSED"
  BY <1>1 DEF IndInv, TypeOK
<1>6. CASE tasks' = w /\ UNCHANGED <<working, wait, pagevars, disk>>
  BY <1>3, <1>4, <1>5, <1>6, QueueStepCovers
<1>7. CASE UNCHANGED <<tasks, working, wait, pagevars, disk>>
  BY <1>2, <1>5, <1>7, QueueStepCovers
<1> QED  BY <1>1, <1>6, <1>7

\* The user and sync.
LEMMA ListChangeCovers ==
    ASSUME IndInv, CopyInv, ListChange
    PROVE  CopyInv'
<1>1. PICK u \in URLs : \/ ReadingListDidAddEntry(u)
                        \/ ReadingListDidMoveEntry(u)
                        \/ ReadingListWillRemoveEntry(u)
  BY DEF ListChange
<1>2. CASE ReadingListDidAddEntry(u)
  <2>1. entries[u].state # "PROCESSED"
    BY <1>2, EntryFacts DEF ReadingListDidAddEntry, Has
  <2> QED
    BY <1>2, <2>1, ProcessNewEntryCovers DEF ReadingListDidAddEntry
<1>3. CASE ReadingListDidMoveEntry(u)
  <2>1. [entries[u] EXCEPT !.read = ~ @].state = entries[u].state
    <3>1. entries[u] \in Entry
      BY <1>3, BasicFacts DEF ReadingListDidMoveEntry, Has
    <3> QED  BY <3>1 DEF Entry
  <2> DEFINE e == [entries[u] EXCEPT !.read = ~ @]
  <2>2. ProcessNewEntry(u, e) /\ loaded /\ UNCHANGED <<loaded, sync>>
    BY <1>3 DEF ReadingListDidMoveEntry
  <2> HIDE DEF e
  <2>3. entries[u].state = "PROCESSED" => e.state = "PROCESSED"
    BY <2>1 DEF e
  <2> QED
    BY <2>2, <2>3, ProcessNewEntryCovers
<1>4. CASE ReadingListWillRemoveEntry(u)
  BY <1>4, RemoveCovers
<1> QED  BY <1>1, <1>2, <1>3, <1>4

\* A download is queued for an entry that has no copy.
LEMMA DownloadEntryCovers ==
    ASSUME IndInv, CopyInv, NEW u \in URLs, DownloadEntry(u)
    PROVE  CopyInv'
<1>1. /\ scheduled[u] > 0 /\ UNCHANGED <<loaded, sync>>
      /\ IF Wanted(entries[u]) THEN TryEntry(u)
         ELSE UNCHANGED <<entries, cellular, wifi, downloadervars>>
  BY DEF DownloadEntry
<1>2. loaded
  BY <1>1 DEF CopyInv, Idle, Nobody, IndInv, TypeOK
<1>3. tasks \in Seq(Task) /\ DownloadOf(u) \in Task
  BY BasicFacts, TaskFacts
<1>4. CASE UNCHANGED <<entries, downloadervars>>
  <2>1. UNCHANGED <<entries, tasks, working, wait, pagevars, disk>>
    BY <1>4 DEF downloadervars, queuevars
  <2> QED  BY <1>1, <1>2, <1>3, <2>1, QueueStepCovers
<1>5. CASE /\ Wanted(entries[u]) /\ SetEntryDistilledState(u, "PROCESSING")
           /\ DownloadOfflineURL(u)
  <2> DEFINE q == Append(tasks, DownloadOf(u))
  <2>1. \A v \in URLs : entries[v].state = "PROCESSED" =>
            v # u /\ entries'[v].state = "PROCESSED"
    BY <1>5 DEF Wanted, SetEntryDistilledState, IndInv, TypeOK
  <2>2. /\ UNCHANGED <<pagevars, disk>>
        /\ \/ UNCHANGED <<tasks, working, wait>>
           \/ HandleNextTask(q)
    BY <1>5 DEF DownloadOfflineURL, queuevars
  <2>3. CASE UNCHANGED <<tasks, working, wait>>
    BY <1>1, <1>2, <1>3, <2>1, <2>2, <2>3, QueueStepCovers
  <2>4. CASE HandleNextTask(q)
    <3>1. q \in Seq(Task)
      BY <1>3, AppendProperties
    <3>2. \A v \in URLs : DeletedFirst(tasks, v) => DeletedFirst(q, v)
      BY <1>3, AppendFirst
    <3>3. ASSUME NEW v \in URLs, entries[v].state = "PROCESSED", ~ Waits(tasks, v)
          PROVE  entries'[v].state = "PROCESSED" /\ ~ Waits(q, v)
      <4>1. v # u /\ entries'[v].state = "PROCESSED"
        BY <2>1, <3>3
      <4>2. DownloadOf(u) # DownloadOf(v)
        BY <4>1, TaskFacts
      <4> QED  BY <1>3, <3>3, <4>1, <4>2, AppendFirst
    <3> HIDE DEF q
    <3> QED  BY <1>1, <1>2, <2>2, <2>4, <3>1, <3>2, <3>3, QueueStepCovers
  <2> QED  BY <2>2, <2>3, <2>4
<1> QED  BY <1>1, <1>4, <1>5 DEF TryEntry

\* The end of a download: the entry whose state changes is that of the download
\* that ran, when the save it reports was for the original URL.
LEMMA OnDownloadEndCovers ==
    ASSUME IndInv, CopyInv, SavesForOriginal, OnDownloadEnd
    PROVE  CopyInv'
<1>1. /\ \/ wait.at = "save" /\ wait.answer = "success"
         \/ wait.at = "clean" /\ wait.answer = "done"
         \/ wait.at = "exists" /\ wait.answer = "yes"
      /\ TakeNextTask(tasks) /\ UNCHANGED <<disk, loaded, sync>>
      /\ DownloadSucceeded(wait.url) \/ DownloadErred(wait.url)
  BY DEF OnDownloadEnd, SaveSucceeded, CleanedUp, DownloadURLExists, PostDelete
<1>2. loaded /\ tasks \in Seq(Task)
  <2>1. wait # NotWaiting
    BY <1>1 DEF NotWaiting, Waiting
  <2> QED  BY <2>1, BasicFacts DEF CopyInv, Idle
<1>3. Running(wait.url)
  BY <1>1 DEF Running, SavesForOriginal
<1>4. \A v \in URLs : v # wait.url => entries'[v] = entries[v]
  BY <1>1 DEF DownloadSucceeded, DownloadErred, SetEntryDistilledInfo,
     SetEntryDistilledState, IndInv, TypeOK
<1>5. \A v \in URLs : ~ Running(v) => entries'[v] = entries[v]
  BY <1>3, <1>4
<1>6. loaded'
  BY <1>1, <1>2
<1>7. loaded' = TRUE
  BY <1>1, <1>2 DEF IndInv, TypeOK
<1> QED  BY <1>1, <1>2, <1>5, <1>7, NextTaskCovers

\* The end of a deletion.
LEMMA DeleteCompletionCovers ==
    ASSUME IndInv, CopyInv, DeleteCompletionHandler, UNCHANGED servicevars
    PROVE  CopyInv'
<1>1. /\ wait.at = "delete" /\ wait.answer = "done" /\ TakeNextTask(tasks)
      /\ UNCHANGED <<disk, loaded, sync, entries>>
  BY DEF DeleteCompletionHandler, servicevars
<1>2. loaded /\ tasks \in Seq(Task)
  <2>1. wait # NotWaiting
    BY <1>1 DEF NotWaiting, Waiting
  <2> QED  BY <2>1, BasicFacts DEF CopyInv, Idle
<1>3. loaded' = TRUE
  BY <1>1, <1>2 DEF IndInv, TypeOK
<1> QED  BY <1>1, <1>2, <1>3, NextTaskCovers

\* While a task runs the model is loaded, and once the FILE thread or the web has
\* answered it the clean-up is over.
LEMMA TaskRuns ==
    ASSUME IndInv, CopyInv, wait.at # "none"
    PROVE  /\ loaded
           /\ wait.at \notin {"exists", "delete"} \/ wait.answer # "posted" => sync.at # "posted"
<1>1. wait # NotWaiting
  BY DEF NotWaiting, Waiting
<1> QED  BY <1>1 DEF CopyInv, Idle, SyncFirst

\* A step of the running task that leaves the queue, the entries and the clean-up
\* alone.
LEMMA TaskStepCovers ==
    ASSUME IndInv, CopyInv, UNCHANGED <<tasks, servicevars>>,
           wait.at # "none", sync.at # "posted", SavedWhole', FoundIsComplete',
           \A u \in URLs : disk'[u] = "partial" =>
               \/ disk[u] = "partial" /\ (Running(u)' => Running(u))
                      /\ ~ (wait.at = "save" /\ original_url = u)
                      /\ ~ (wait.at \in {"clean", "delete"} /\ wait.url = u)
               \/ wait'.at = "save" /\ original_url' = u /\ wait'.answer # "success"
               \/ wait'.at \in {"clean", "delete"} /\ wait'.url = u /\ wait'.answer = "posted"
    PROVE  CopyInv'
<1>1. loaded /\ UNCHANGED <<tasks, entries, loaded, sync>>
  BY TaskRuns DEF servicevars
<1>2. Idle' /\ SyncFirst'
  BY <1>1 DEF Idle, SyncFirst
<1>3. ASSUME NEW u \in URLs, disk'[u] = "partial" PROVE Covered(u)'
  <2>1. CASE \/ wait'.at = "save" /\ original_url' = u /\ wait'.answer # "success"
             \/ wait'.at \in {"clean", "delete"} /\ wait'.url = u /\ wait'.answer = "posted"
    BY <2>1 DEF Covered
  <2>2. CASE /\ disk[u] = "partial" /\ (Running(u)' => Running(u))
             /\ ~ (wait.at = "save" /\ original_url = u)
             /\ ~ (wait.at \in {"clean", "delete"} /\ wait.url = u)
    <3>1. Covered(u)
      BY <2>2 DEF CopyInv, PartialCovered
    <3>2. /\ ~ Running(u)
          /\ \/ DeletedFirst(tasks, u)
             \/ entries[u].state = "PROCESSED" /\ ~ Waits(tasks, u)
      BY <1>1, <2>2, <3>1 DEF Covered
    <3>3. /\ ~ Running(u)'
          /\ \/ DeletedFirst(tasks', u)
             \/ entries'[u].state = "PROCESSED" /\ ~ Waits(tasks', u)
      BY <1>1, <2>2, <3>2
    <3> QED  BY <3>3 DEF Covered
  <2> QED  BY <1>3, <2>1, <2>2
<1> QED  BY <1>2, <1>3 DEF CopyInv, PartialCovered

\* The FILE thread: PathExists finds no directory that is half written.
LEMMA FileStepCovers ==
    ASSUME IndInv, CopyInv, FileStep, sync.at # "posted", UNCHANGED servicevars
    PROVE  CopyInv'
<1>1. /\ wait.at # "none" /\ UNCHANGED <<tasks, original_url>>
      /\ wait' = [wait EXCEPT !.answer = wait'.answer]
  BY BasicFacts DEF FileStep, FilePathExists, FileDelete, CreateOfflineURLDirectory, SaveFile,
     Answer, pagevars, Wait
<1>2. wait'.at = wait.at /\ wait'.url = wait.url /\ wait.url \in URLs
  BY <1>1, BasicFacts DEF Wait
<1>3. \A u \in URLs : Running(u)' <=> Running(u)
  BY <1>1, <1>2 DEF Running
<1>4. disk \in [URLs -> {"absent", "partial", "complete"}]
  BY BasicFacts
<1>5. loaded
  BY <1>1, TaskRuns
<1>6. CASE FilePathExists
  <2>1. /\ wait.at = "exists" /\ UNCHANGED disk
        /\ wait'.answer = IF disk[wait.url] # "absent" THEN "yes" ELSE "no"
    BY <1>6, BasicFacts DEF FilePathExists, Answer, Wait
  <2>2. Running(wait.url)
    BY <2>1 DEF Running
  <2>3. disk[wait.url] # "partial"
    BY <1>2, <1>5, <2>1, <2>2 DEF CopyInv, PartialCovered, Covered
  <2>4. FoundIsComplete' /\ SavedWhole'
    BY <1>2, <1>4, <2>1, <2>3 DEF FoundIsComplete, SavedWhole
  <2> QED  BY <1>1, <1>2, <1>3, <2>1, <2>4, TaskStepCovers
<1>7. CASE FileDelete
  <2>1. /\ wait.at \in {"delete", "clean"} /\ disk' = [disk EXCEPT ![wait.url] = "absent"]
    BY <1>7 DEF FileDelete
  <2>2. FoundIsComplete' /\ SavedWhole'
    BY <1>2, <2>1 DEF FoundIsComplete, SavedWhole
  <2>3. \A u \in URLs : disk'[u] = "partial" => disk[u] = "partial" /\ u # wait.url
    BY <1>2, <1>4, <2>1
  <2> QED  BY <1>1, <1>2, <1>3, <2>1, <2>2, <2>3, TaskStepCovers
<1>8. CASE CreateOfflineURLDirectory
  <2>1. /\ wait.at = "save" /\ wait'.answer \in {"writing", "error"}
        /\ \A u \in URLs : u # original_url => disk'[u] = disk[u]
    <3>1. original_url \in URLs
      BY <1>8, BasicFacts DEF CreateOfflineURLDirectory
    <3>2. wait.at = "save" /\ (wait' = [wait EXCEPT !.answer = "writing"]
                               \/ wait' = [wait EXCEPT !.answer = "error"])
      BY <1>8 DEF CreateOfflineURLDirectory, Answer
    <3>3. wait'.answer \in {"writing", "error"}
      BY <3>2, BasicFacts DEF Wait
    <3> QED  BY <1>4, <1>8, <3>1, <3>2, <3>3 DEF CreateOfflineURLDirectory
  <2>2. FoundIsComplete' /\ SavedWhole'
    BY <1>2, <2>1 DEF FoundIsComplete, SavedWhole
  <2> QED  BY <1>1, <1>2, <1>3, <2>1, <2>2, TaskStepCovers
<1>9. CASE SaveFile
  <2>1. /\ wait.at = "save" /\ original_url \in URLs
        /\ \A u \in URLs : u # original_url => disk'[u] = disk[u]
        /\ \/ wait'.answer = "success" /\ disk'[original_url] = "complete"
           \/ wait'.answer = "error"
    <3>1. original_url \in URLs
      BY <1>9, BasicFacts DEF SaveFile
    <3>2. /\ wait.at = "save"
          /\ \/ /\ wait' = [wait EXCEPT !.answer = "success"]
                /\ disk' = [disk EXCEPT ![original_url] = "complete"]
             \/ wait' = [wait EXCEPT !.answer = "error"] /\ disk' = disk
      BY <1>9 DEF SaveFile, Answer
    <3>3. \/ wait'.answer = "success" /\ disk' = [disk EXCEPT ![original_url] = "complete"]
          \/ wait'.answer = "error" /\ disk' = disk
      BY <3>2, BasicFacts DEF Wait
    <3> QED  BY <1>4, <3>1, <3>2, <3>3
  <2>2. FoundIsComplete' /\ SavedWhole'
    BY <1>1, <1>2, <2>1 DEF FoundIsComplete, SavedWhole
  <2> QED  BY <1>1, <1>2, <1>3, <2>1, <2>2, TaskStepCovers
<1> QED  BY <1>6, <1>7, <1>8, <1>9 DEF FileStep

\* A step that changes none of this, such as one of the page alone.
LEMMA NothingCovers ==
    ASSUME CopyInv, UNCHANGED <<tasks, working, wait, original_url, disk, servicevars>>
    PROVE  CopyInv'
BY DEF CopyInv, Idle, SyncFirst, SavedWhole, PartialCovered, Covered, Running, FoundIsComplete,
   servicevars

\* The web, the start of a download and the failure of a save: no disk access.
LEMMA WebStepCovers ==
    ASSUME IndInv, CopyInv, SavesForOriginal, UNCHANGED servicevars,
           WebStep \/ DownloadURL \/ SaveFailed
    PROVE  CopyInv'
<1>1. UNCHANGED <<tasks, disk>>
  BY DEF WebStep, PageLoadFailed, PageLoadDistrusted, PageLoaded, HandleGoogleCachedAMPPage,
     ContinuePageDistillation, DistillerCallback, DistillationDone, OnURLFetchComplete,
     DownloadURL, SaveFailed, CleanUp, queuevars
<1>5. CASE \/ PageLoadDistrusted \/ HandleGoogleCachedAMPPage
           \/ \E html, pdf \in BOOLEAN : PageLoaded(html, pdf)
           \/ \E redirected_url \in URLs : ContinuePageDistillation(redirected_url)
  <2>1. UNCHANGED <<tasks, working, wait, original_url, disk>>
    BY <1>5 DEF PageLoadDistrusted, HandleGoogleCachedAMPPage, PageLoaded,
       ContinuePageDistillation, queuevars
  <2> QED  BY <2>1, NothingCovers
<1>2. CASE \/ PageLoadFailed \/ \E html \in BOOLEAN : DistillerCallback(html)
           \/ \E pdf \in BOOLEAN : OnURLFetchComplete(pdf)
  <2>1. /\ wait.at \in {"distill", "fetch"} /\ original_url' = original_url
        /\ \/ wait' = wait
           \/ \E at \in {"fetch", "save"} : \E url : wait' = Waiting(at, url)
           \/ wait' = Waiting("clean", original_url)
    <3>3. CASE PageLoadFailed \/ \E html \in BOOLEAN : DistillerCallback(html)
      <4>1. PICK html \in BOOLEAN : DistillationDone(html)
        BY <3>3 DEF PageLoadFailed, DistillerCallback
      <4> QED  BY <4>1 DEF DistillationDone
    <3>4. CASE \E pdf \in BOOLEAN : OnURLFetchComplete(pdf)
      BY <3>4 DEF OnURLFetchComplete, pagevars
    <3> QED  BY <1>2, <3>3, <3>4
  <2>2. \/ wait' = wait
        \/ wait'.at \in {"fetch", "save"} /\ wait'.answer = "posted"
        \/ wait'.at = "clean" /\ wait'.url = original_url
    BY <2>1 DEF Waiting
  <2>3. \A u \in URLs : Running(u)' => Running(u)
    BY <2>1, <2>2 DEF Running
  <2>4. FoundIsComplete' /\ SavedWhole' /\ sync.at # "posted"
    BY <2>1, <2>2, TaskRuns DEF FoundIsComplete, SavedWhole
  <2> QED  BY <1>1, <2>1, <2>3, <2>4, TaskStepCovers
<1>3. CASE DownloadURL
  <2>1. /\ wait.at = "exists" /\ wait.answer = "no" /\ original_url' = wait.url
        /\ wait' = Waiting("distill", wait.url)
    BY <1>3 DEF DownloadURL
  <2>2. wait'.at = "distill"
    BY <2>1 DEF Waiting
  <2>3. \A u \in URLs : Running(u)' => Running(u)
    BY <2>1, <2>2 DEF Running
  <2>4. FoundIsComplete' /\ SavedWhole' /\ sync.at # "posted"
    BY <2>1, <2>2, TaskRuns DEF FoundIsComplete, SavedWhole
  <2> QED  BY <1>1, <2>1, <2>3, <2>4, TaskStepCovers
<1>4. CASE SaveFailed
  <2>1. /\ wait.at = "save" /\ original_url' = original_url /\ wait.url = original_url
        /\ wait' = Waiting("clean", wait.url)
    BY <1>4 DEF SaveFailed, CleanUp, pagevars, SavesForOriginal
  <2>2. wait'.at = "clean" /\ wait'.url = original_url /\ wait'.answer = "posted"
    BY <2>1 DEF Waiting
  <2>3. \A u \in URLs : Running(u)' => Running(u)
    BY <2>1, <2>2 DEF Running
  <2>4. FoundIsComplete' /\ SavedWhole' /\ sync.at # "posted"
    BY <2>1, <2>2, TaskRuns DEF FoundIsComplete, SavedWhole
  <2> QED  BY <1>1, <2>1, <2>2, <2>3, <2>4, TaskStepCovers
<1> QED  BY <1>2, <1>3, <1>4, <1>5 DEF WebStep

\* Loading the model: what was processed has a copy and no download to come, what
\* was not is cleaned up before the FILE thread does anything else.
LEMMA SyncCovers ==
    ASSUME IndInv, CopyInv, SyncWithModel \/ CleanUpFiles \/ DownloadUnprocessedEntries
    PROVE  CopyInv'
<1>1. UNCHANGED <<tasks, working, wait, original_url, entries>>
  BY DEF SyncWithModel, CleanUpFiles, DownloadUnprocessedEntries, downloadervars, queuevars,
     pagevars
<1>2. \A u \in URLs : Running(u)' <=> Running(u)
  BY <1>1 DEF Running
<1>3. CASE SyncWithModel
  <2>1. /\ ~ loaded /\ loaded' /\ sync'.at = "posted" /\ UNCHANGED disk
        /\ sync'.processed = {u \in URLs : entries[u].state = "PROCESSED"}
    BY <1>3 DEF SyncWithModel, downloadervars
  <2>2. tasks = << >> /\ wait.at = "none" /\ wait.answer = "posted"
    BY <2>1 DEF CopyInv, Idle, NotWaiting, Waiting
  <2>3. Idle' /\ SyncFirst' /\ SavedWhole' /\ FoundIsComplete'
    BY <1>1, <2>1, <2>2 DEF Idle, SyncFirst, SavedWhole, FoundIsComplete
  <2>4. ASSUME NEW u \in URLs PROVE Covered(u)'
    <3>1. ~ Running(u)' /\ ~ Waits(tasks', u)
      BY <1>1, <2>2 DEF Running, Waits
    <3>2. u \in sync'.processed => entries'[u].state = "PROCESSED"
      BY <1>1, <2>1
    <3> QED  BY <2>1, <3>1, <3>2 DEF Covered
  <2> QED  BY <2>3, <2>4 DEF CopyInv, PartialCovered
<1>4. CASE CleanUpFiles
  <2>1. /\ sync.at = "posted" /\ sync'.at = "done" /\ UNCHANGED loaded
        /\ disk' = [u \in URLs |-> IF u \in sync.processed THEN disk[u] ELSE "absent"]
        /\ UNCHANGED <<scheduled, cellular, wifi>>
    BY <1>4 DEF CleanUpFiles, IndInv, TypeOK, Sync
  <2>2. wait.at \in {"none", "exists", "delete"} /\ wait.answer = "posted"
    BY <2>1 DEF CopyInv, SyncFirst
  <2>3. Idle' /\ SyncFirst' /\ SavedWhole' /\ FoundIsComplete'
    <3>1. loaded
      BY <2>1 DEF CopyInv, Idle
    <3> QED
      BY <1>1, <2>1, <2>2, <3>1 DEF Idle, SyncFirst, SavedWhole, FoundIsComplete
  <2>4. ASSUME NEW u \in URLs, disk'[u] = "partial" PROVE Covered(u)'
    <3>1. u \in sync.processed /\ disk[u] = "partial"
      BY <2>1, <2>4
    <3>2. Covered(u)
      BY <3>1 DEF CopyInv, PartialCovered
    <3> QED  BY <1>1, <1>2, <2>1, <3>1, <3>2 DEF Covered
  <2> QED  BY <2>3, <2>4 DEF CopyInv, PartialCovered
<1>5. CASE DownloadUnprocessedEntries
  <2>1. sync.at = "done" /\ sync'.at = "none" /\ UNCHANGED <<disk, loaded>>
    BY <1>5 DEF DownloadUnprocessedEntries, NoSync, downloadervars
  <2>2. SyncFirst' /\ SavedWhole' /\ FoundIsComplete'
    BY <1>1, <2>1 DEF CopyInv, SyncFirst, SavedWhole, FoundIsComplete
  <2>3. ASSUME NEW u \in URLs, disk'[u] = "partial" PROVE Covered(u)'
    <3>1. Covered(u)
      BY <2>1, <2>3 DEF CopyInv, PartialCovered
    <3> QED  BY <1>1, <1>2, <2>1, <3>1 DEF Covered
  <2>4. loaded => Idle'
    BY <2>1 DEF Idle
  <2>5. loaded
    BY <2>1 DEF CopyInv, Idle
  <2> QED  BY <2>2, <2>3, <2>4, <2>5 DEF CopyInv, PartialCovered
<1> QED  BY <1>3, <1>4, <1>5

\* Before the model is loaded the network wakes up nothing.
LEMMA UnloadedStaysIdle ==
    ASSUME Idle, ~ loaded,
           ConnectionNotified \/ \E type \in Connections : ConnectionChanges(type)
    PROVE  scheduled' = Nobody
<1>1. scheduled = Nobody /\ cellular = Nobody /\ wifi = Nobody
  BY DEF Idle
<1>2. \A u \in URLs : scheduled[u] = 0 /\ cellular[u] = 0 /\ wifi[u] = 0
  BY <1>1 DEF Nobody
<1>3. CASE UNCHANGED scheduled
  BY <1>1, <1>3
<1>4. CASE \E type : ScheduleDownloadEntry(entries,
               [u \in URLs |-> (IF had_connection THEN 0 ELSE cellular[u]) +
                               (IF type = "wifi" THEN wifi[u] ELSE 0)])
  BY <1>2, <1>4 DEF ScheduleDownloadEntry, Nobody
<1> QED
  BY <1>3, <1>4 DEF ConnectionNotified, OnConnectionTypeChanged, ConnectionChanges, servicevars

\* The network and the entries it wakes up.
LEMMA ConnectionCovers ==
    ASSUME IndInv, CopyInv, ConnectionNotified \/ \E type \in Connections : ConnectionChanges(type)
    PROVE  CopyInv'
<1>1. UNCHANGED <<tasks, working, wait, original_url, disk, entries, loaded, sync, cellular, wifi>>
  BY DEF ConnectionNotified, ConnectionChanges, downloadervars, queuevars, pagevars, servicevars
<1>2. SyncFirst' /\ SavedWhole' /\ FoundIsComplete'
  BY <1>1 DEF CopyInv, SyncFirst, SavedWhole, FoundIsComplete
<1>3. \A u \in URLs : Covered(u) => Covered(u)'
  BY <1>1 DEF Covered, Running
<1>4. PartialCovered'
  BY <1>1, <1>3 DEF CopyInv, PartialCovered
<1>5. ~ loaded => scheduled' = Nobody
  BY UnloadedStaysIdle DEF CopyInv
<1>6. Idle'
  BY <1>1, <1>5 DEF CopyInv, Idle
<1> QED  BY <1>2, <1>4, <1>6 DEF CopyInv

\* A new process, and nothing at all.
LEMMA RestartCovers ==
    ASSUME CopyInv, Restart \/ UNCHANGED vars
    PROVE  CopyInv'
<1>1. CASE Restart
  <2>1. /\ loaded' = FALSE /\ tasks' = << >> /\ working' = FALSE /\ wait' = NotWaiting
        /\ sync' = NoSync /\ scheduled' = Nobody /\ cellular' = Nobody /\ wifi' = Nobody
    BY <1>1 DEF Restart, DownloaderRestart
  <2> QED
    BY <2>1 DEF CopyInv, Idle, SyncFirst, SavedWhole, PartialCovered, Covered, FoundIsComplete,
       NotWaiting, Waiting, NoSync
<1>2. CASE UNCHANGED vars
  <2>1. UNCHANGED <<tasks, working, wait, original_url, disk, entries, loaded, sync, scheduled,
                    cellular, wifi>>
    BY <1>2 DEF vars, downloadervars, queuevars, pagevars, servicevars
  <2> QED
    BY <2>1 DEF CopyInv, Idle, SyncFirst, SavedWhole, PartialCovered, Covered, Running,
       FoundIsComplete
<1> QED  BY <1>1, <1>2

\* Initially nothing is on disk or running.
LEMMA InitCovers == Init => CopyInv
<1> SUFFICES ASSUME Init PROVE CopyInv
  OBVIOUS
<1>1. /\ loaded = FALSE /\ tasks = << >> /\ working = FALSE /\ wait = NotWaiting
      /\ sync = NoSync /\ scheduled = Nobody /\ cellular = Nobody /\ wifi = Nobody
  BY DEF Init, DownloaderInit, ServiceInit
<1> QED
  BY <1>1 DEF CopyInv, Idle, SyncFirst, SavedWhole, PartialCovered, Covered, FoundIsComplete,
     NotWaiting, Waiting, NoSync

\* One step per action: what is half written stays covered as long as saves are
\* for the original URL.
LEMMA NextCovers == IndInv /\ CopyInv /\ SavesForOriginal /\ [Next]_vars => CopyInv'
<1> SUFFICES ASSUME IndInv, CopyInv, SavesForOriginal, [Next]_vars PROVE CopyInv'
  OBVIOUS
<1>1. CASE ListChange
  BY <1>1, ListChangeCovers
<1>2. CASE SyncWithModel \/ CleanUpFiles \/ DownloadUnprocessedEntries
  BY <1>2, SyncCovers
<1>3. CASE \E u \in URLs : DownloadEntry(u)
  BY <1>3, DownloadEntryCovers
<1>4. CASE DownloaderStep
  BY <1>4, FileStepCovers, WebStepCovers, DeleteCompletionCovers DEF DownloaderStep
<1>5. CASE OnDownloadEnd
  BY <1>5, OnDownloadEndCovers
<1>6. CASE ConnectionNotified \/ \E type \in Connections : ConnectionChanges(type)
  BY <1>6, ConnectionCovers
<1>7. CASE Restart \/ UNCHANGED vars
  BY <1>7, RestartCovers
<1> QED  BY <1>1, <1>2, <1>3, <1>4, <1>5, <1>6, <1>7 DEF Next

\* As long as a save is for the URL that was asked for, PathExists never takes a
\* half-written directory for a copy, whatever failed, was removed and added
\* again, or was interrupted before.
THEOREM PartialNeverFound == Spec => PartialNotFound
<1>1. CopyInv => FoundIsComplete
  BY DEF CopyInv
<1>2. Spec /\ []SavesForOriginal => []FoundIsComplete
  BY <1>1, Invariance, InitCovers, NextCovers, PTL DEF Spec
<1> QED  BY <1>2, PTL DEF PartialNotFound

-----------------------------------------------------------------------------
(* What is reported as saved, whatever happened before.                    *)

WholeInv == Idle /\ SyncFirst /\ SavedWhole

\* The queue goes on, after a task or with a new one.
LEMMA QueueWhole ==
    ASSUME WholeInv, loaded, UNCHANGED <<loaded, sync, disk, original_url>>,
           wait' = wait \/ \E q : TakeNextTask(q)
    PROVE  WholeInv'
<1>1. Idle'
  BY DEF Idle
<1>2. CASE wait' = wait
  BY <1>1, <1>2 DEF WholeInv, SyncFirst, SavedWhole
<1>3. CASE \E q : TakeNextTask(q)
  <2>1. wait'.at \in {"none", "delete", "exists"} /\ wait'.answer = "posted"
    BY <1>3 DEF TakeNextTask, NotWaiting, Waiting
  <2> QED  BY <1>1, <2>1 DEF WholeInv, SyncFirst, SavedWhole
<1> QED  BY <1>2, <1>3

\* A step of the running task.
LEMMA TaskWhole ==
    ASSUME WholeInv, wait.at # "none", sync.at # "posted", UNCHANGED servicevars, SavedWhole'
    PROVE  WholeInv'
<1>1. loaded
  BY DEF WholeInv, Idle, NotWaiting, Waiting
<1> QED  BY <1>1 DEF WholeInv, Idle, SyncFirst, servicevars

\* The steps of the downloader.
LEMMA DownloaderWhole ==
    ASSUME IndInv, WholeInv, DownloaderStep
    PROVE  WholeInv'
<1>1. UNCHANGED servicevars /\ wait \in Wait
  BY BasicFacts DEF DownloaderStep
<1>2. wait.at # "none" => loaded
  BY DEF WholeInv, Idle, NotWaiting, Waiting
<1>3. CASE sync.at # "posted" /\ FileStep
  <2>1. wait.at # "none" /\ wait'.at = wait.at /\ original_url' = original_url
    BY <1>1, <1>3 DEF FileStep, FilePathExists, FileDelete, CreateOfflineURLDirectory,
       SaveFile, Answer, pagevars, Wait
  <2>2. SavedWhole'
    <3>1. CASE FilePathExists \/ FileDelete
      BY <2>1, <3>1 DEF FilePathExists, FileDelete, SavedWhole
    <3>2. CASE CreateOfflineURLDirectory
      BY <1>1, <3>2 DEF CreateOfflineURLDirectory, Answer, Wait, SavedWhole
    <3>3. CASE SaveFile
      <4>1. original_url \in URLs /\ disk \in [URLs -> {"absent", "partial", "complete"}]
        BY <3>3, BasicFacts DEF SaveFile
      <4> QED  BY <1>1, <2>1, <3>3, <4>1 DEF SaveFile, Answer, Wait, SavedWhole
    <3> QED  BY <1>3, <3>1, <3>2, <3>3 DEF FileStep
  <2> QED  BY <1>1, <1>3, <2>1, <2>2, TaskWhole
<1>4. CASE WebStep \/ DownloadURL \/ SaveFailed
  <2>1. CASE UNCHANGED <<tasks, working, wait, original_url, disk>>
    BY <1>1, <2>1 DEF WholeInv, Idle, SyncFirst, SavedWhole, servicevars
  <2>2. CASE /\ wait.at \in {"distill", "fetch", "save"} \/ wait.answer # "posted"
             /\ wait.at # "none"
             /\ \E at \in {"distill", "fetch", "save", "clean"} : \E url : wait' = Waiting(at, url)
    <3>1. wait'.answer = "posted"
      BY <2>2 DEF Waiting
    <3>2. sync.at # "posted"
      BY <2>2 DEF WholeInv, SyncFirst
    <3> QED  BY <1>1, <2>2, <3>1, <3>2, TaskWhole DEF SavedWhole
  <2>3. CASE \/ PageLoadDistrusted \/ HandleGoogleCachedAMPPage
             \/ \E html, pdf \in BOOLEAN : PageLoaded(html, pdf)
             \/ \E redirected_url \in URLs : ContinuePageDistillation(redirected_url)
    BY <2>1, <2>3 DEF PageLoadDistrusted, HandleGoogleCachedAMPPage, PageLoaded,
       ContinuePageDistillation, queuevars
  <2>4. CASE PageLoadFailed \/ \E html \in BOOLEAN : DistillerCallback(html)
    <3>1. PICK html \in BOOLEAN : DistillationDone(html)
      BY <2>4 DEF PageLoadFailed, DistillerCallback
    <3> QED  BY <2>2, <3>1 DEF DistillationDone
  <2>5. CASE \/ \E pdf \in BOOLEAN : OnURLFetchComplete(pdf)
             \/ DownloadURL \/ SaveFailed
    BY <2>2, <2>5 DEF OnURLFetchComplete, DownloadURL, SaveFailed, CleanUp
  <2> QED  BY <1>4, <2>3, <2>4, <2>5 DEF WebStep
<1>5. CASE DeleteCompletionHandler
  <2>1. /\ wait.at = "delete" /\ TakeNextTask(tasks) /\ UNCHANGED <<disk, original_url>>
        /\ UNCHANGED <<loaded, sync>>
    BY <1>1, <1>5 DEF DeleteCompletionHandler, pagevars, servicevars
  <2> QED  BY <1>2, <2>1, QueueWhole
<1> QED  BY <1>3, <1>4, <1>5 DEF DownloaderStep

\* Every step: what a save reports is on disk until the report.
LEMMA NextWhole == IndInv /\ WholeInv /\ [Next]_vars => WholeInv'
<1> SUFFICES ASSUME IndInv, WholeInv, [Next]_vars PROVE WholeInv'
  OBVIOUS
<1>1. CASE ListChange
  <2>1. loaded /\ UNCHANGED <<loaded, sync, disk, original_url>>
        /\ (wait' = wait \/ \E q : TakeNextTask(q))
    BY <1>1 DEF ListChange, ReadingListDidAddEntry, ReadingListDidMoveEntry,
       ReadingListWillRemoveEntry, ProcessNewEntry, RemoveDownloadedEntry, RemoveOfflineURL,
       CancelDownloadOfflineURL, HandleNextTask, downloadervars, queuevars, pagevars
  <2> QED  BY <2>1, QueueWhole
<1>2. CASE SyncWithModel
  <2>1. /\ ~ loaded /\ loaded' /\ UNCHANGED <<disk, wait, original_url>>
    BY <1>2 DEF SyncWithModel, downloadervars, queuevars, pagevars
  <2>2. wait.at = "none" /\ wait.answer = "posted"
    BY <2>1 DEF WholeInv, Idle, NotWaiting, Waiting
  <2> QED  BY <2>1, <2>2 DEF WholeInv, Idle, SyncFirst, SavedWhole
<1>3. CASE CleanUpFiles
  <2>1. /\ sync.at = "posted" /\ sync'.at = "done" /\ UNCHANGED <<loaded, wait>>
    BY <1>3 DEF CleanUpFiles, queuevars, IndInv, TypeOK, Sync
  <2>2. loaded /\ wait.at \in {"none", "exists", "delete"}
    BY <2>1 DEF WholeInv, Idle, SyncFirst
  <2> QED  BY <2>1, <2>2 DEF WholeInv, Idle, SyncFirst, SavedWhole
<1>4. CASE DownloadUnprocessedEntries
  <2>1. sync.at = "done" /\ sync'.at = "none" /\ UNCHANGED <<disk, loaded, wait, original_url>>
    BY <1>4 DEF DownloadUnprocessedEntries, NoSync, downloadervars, queuevars, pagevars
  <2>2. loaded
    BY <2>1 DEF WholeInv, Idle
  <2> QED  BY <2>1, <2>2 DEF WholeInv, Idle, SyncFirst, SavedWhole
<1>5. CASE \E u \in URLs : DownloadEntry(u)
  <2>1. PICK u \in URLs : DownloadEntry(u)
    BY <1>5
  <2>2. scheduled[u] > 0 /\ UNCHANGED <<loaded, sync>>
    BY <2>1 DEF DownloadEntry
  <2>3. loaded
    BY <2>2 DEF WholeInv, Idle, Nobody, IndInv, TypeOK
  <2>4. UNCHANGED <<disk, original_url>> /\ (wait' = wait \/ \E q : TakeNextTask(q))
    BY <2>1 DEF DownloadEntry, TryEntry, DownloadOfflineURL, HandleNextTask, downloadervars,
       queuevars, pagevars
  <2> QED  BY <2>2, <2>3, <2>4, QueueWhole
<1>6. CASE DownloaderStep
  BY <1>6, DownloaderWhole
<1>7. CASE OnDownloadEnd
  <2>1. /\ wait.at # "none" /\ TakeNextTask(tasks)
        /\ UNCHANGED <<disk, original_url, loaded, sync>>
    BY <1>7 DEF OnDownloadEnd, SaveSucceeded, CleanedUp, DownloadURLExists, PostDelete
  <2>2. loaded
    BY <2>1 DEF WholeInv, Idle, NotWaiting, Waiting
  <2> QED  BY <2>1, <2>2, QueueWhole
<1>8. CASE ConnectionNotified \/ \E type \in Connections : ConnectionChanges(type)
  <2>1. UNCHANGED <<tasks, working, wait, original_url, disk, loaded, sync, cellular, wifi>>
    BY <1>8 DEF ConnectionNotified, ConnectionChanges, downloadervars, queuevars, pagevars,
       servicevars
  <2>2. ~ loaded => scheduled' = Nobody
    BY <1>8, UnloadedStaysIdle DEF WholeInv
  <2> QED  BY <2>1, <2>2 DEF WholeInv, Idle, SyncFirst, SavedWhole
<1>9. CASE Restart
  BY <1>9 DEF Restart, DownloaderRestart, WholeInv, Idle, SyncFirst, SavedWhole, NotWaiting,
     Waiting, NoSync
<1>10. CASE UNCHANGED vars
  BY <1>10 DEF vars, downloadervars, queuevars, pagevars, servicevars, WholeInv, Idle, SyncFirst,
     SavedWhole
<1> QED
  BY <1>1, <1>2, <1>3, <1>4, <1>5, <1>6, <1>7, <1>8, <1>9, <1>10 DEF Next

\* An entry becomes PROCESSED only when its copy is complete, if the save that is
\* reported was for the URL that was asked for, whatever earlier saves were for.
THEOREM ProcessedOnlyWithCopy == Spec => ProcessedWithCopy
<1> DEFINE A == \A u \in URLs : /\ SavesForOriginal
                                /\ entries[u].state # "PROCESSED"
                                /\ entries'[u].state = "PROCESSED"
                    => disk[u] = "complete"
<1>1. ASSUME IndInv, WholeInv, SavesForOriginal, Next, NEW u \in URLs,
             entries[u].state # "PROCESSED", entries'[u].state = "PROCESSED"
      PROVE  disk[u] = "complete"
  <2>0. entries \in [URLs -> Entry \cup {NoEntry}]
    BY <1>1 DEF IndInv, TypeOK
  <2>1. CASE ListChange
    <3>1. PICK v \in URLs : \/ ReadingListDidAddEntry(v)
                            \/ ReadingListDidMoveEntry(v)
                            \/ ReadingListWillRemoveEntry(v)
      BY <2>1 DEF ListChange
    <3>2. CASE ReadingListDidAddEntry(v)
      BY <1>1, <2>0, <3>2, EntryFacts DEF ReadingListDidAddEntry, ProcessNewEntry
    <3>3. CASE ReadingListDidMoveEntry(v)
      <4>1. entries' = [entries EXCEPT ![v] = [entries[v] EXCEPT !.read = ~ @]]
        BY <3>3 DEF ReadingListDidMoveEntry, ProcessNewEntry
      <4>2. entries[v] \in Entry
        BY <2>0, <3>3 DEF ReadingListDidMoveEntry, Has
      <4>3. [entries[v] EXCEPT !.read = ~ @].state = entries[v].state
        BY <4>2 DEF Entry
      <4> QED  BY <1>1, <2>0, <4>1, <4>3
    <3>4. CASE ReadingListWillRemoveEntry(v)
      BY <1>1, <2>0, <3>4, EntryFacts DEF ReadingListWillRemoveEntry
    <3> QED  BY <3>1, <3>2, <3>3, <3>4
  <2>2. CASE \E v \in URLs : DownloadEntry(v)
    <3>1. PICK v \in URLs : DownloadEntry(v)
      BY <2>2
    <3>2. UNCHANGED entries \/ SetEntryDistilledState(v, "PROCESSING")
      BY <3>1 DEF DownloadEntry, TryEntry
    <3> QED  BY <1>1, <2>0, <3>2 DEF SetEntryDistilledState, Entry, NoEntry
  <2>3. CASE OnDownloadEnd
    <3>1. \/ SaveSucceeded /\ DownloadSucceeded(wait.url)
          \/ DownloadErred(wait.url)
      BY <2>3 DEF OnDownloadEnd
    <3>2. CASE DownloadErred(wait.url)
      BY <1>1, <2>0, <3>2 DEF DownloadErred, SetEntryDistilledState, Entry, NoEntry
    <3>3. CASE SaveSucceeded /\ DownloadSucceeded(wait.url)
      <4>1. wait.at = "save" /\ wait.answer = "success" /\ wait.url = original_url
        BY <1>1, <3>3 DEF SaveSucceeded, SavesForOriginal
      <4>2. disk[wait.url] = "complete"
        BY <1>1, <4>1 DEF WholeInv, SavedWhole
      <4>3. u # wait.url => entries'[u] = entries[u]
        BY <2>0, <3>3 DEF DownloadSucceeded, SetEntryDistilledInfo
      <4> QED  BY <1>1, <4>2, <4>3
    <3> QED  BY <3>1, <3>2, <3>3
  <2>4. CASE \/ SyncWithModel \/ CleanUpFiles \/ DownloadUnprocessedEntries
             \/ DownloaderStep \/ ConnectionNotified
             \/ \E type \in Connections : ConnectionChanges(type)
             \/ Restart
    BY <1>1, <2>4 DEF SyncWithModel, CleanUpFiles, DownloadUnprocessedEntries, DownloaderStep,
       ConnectionNotified, ConnectionChanges, Restart, servicevars
  <2> QED  BY <1>1, <2>1, <2>2, <2>3, <2>4 DEF Next
<1>2. IndInv /\ WholeInv /\ [Next]_vars => [A]_vars
  BY <1>1
<1>3. ProcessedWithCopy <=> [][A]_vars
  BY DEF ProcessedWithCopy
<1>4. Init => WholeInv
  BY InitCovers DEF CopyInv, WholeInv
<1> HIDE DEF A
<1> QED  BY <1>2, <1>3, <1>4, Invariance, NextWhole, PTL DEF Spec
=============================================================================
