------------------------------ MODULE WebThread -----------------------------
(***************************************************************************)
(* The named threads of the process (web/web_thread_impl.cc), started and   *)
(* stopped by WebMainLoop (web/app/web_main_loop.mm) with the delegate of   *)
(* the IO thread (components/io_thread/ios_io_thread.mm), and the posting   *)
(* of tasks to them from any thread.                                       *)
(*                                                                         *)
(* globals.threads is written under globals.lock; GetCurrentThreadIdentifier*)
(* reads it without, and so does PostTaskHelper when the target outlives    *)
(* the caller.  base::Thread, base::MessageLoop and the pool are external.  *)
(***************************************************************************)
EXTENDS Naturals

CONSTANTS
    Count,      \* ID_COUNT: the threads are 0 (UI) .. Count - 1 (IO)
    Workers,    \* threads of the blocking pool
    MaxPosts    \* bound on the calls of PostTask

UI == 0
IO == Count - 1
ID == 0 .. Count - 1

ASSUME WebThreadAssumption ==
    /\ Count \in Nat /\ Count >= 2
    /\ Workers \cap Nat = {}
    /\ MaxPosts \in Nat

Actors == ID \cup Workers
Free == Count   \* no thread holds the lock

VARIABLES
    threads,   \* globals.threads[i] is not nullptr
    object,    \* the WebThreadImpl is not deleted yet
    loop,      \* the thread of i: "none", "starting", "running", "cleanup", "ending", "ended"
    tasks,     \* the number of tasks in its message loop
    lock,      \* globals.lock
    delegate,  \* the IOSIOThread exists and is the delegate of the IO thread
    globals,   \* its globals_
    main,      \* what the main thread does in WebMainLoop, and with which thread
    call,      \* where each thread is in PostTaskHelper
    posts

threadvars == <<threads, object, loop>>
delegatevars == <<delegate, globals>>
vars == <<threadvars, tasks, lock, delegatevars, main, call, posts>>

Idle == [at |-> "idle", id |-> 0, target |-> 0, found |-> FALSE]
At(step, i) == [at |-> step, id |-> i]

\* message_loop() is not nullptr, and the message loop is there.
HasLoop(i) == loop[i] \in {"starting", "running", "cleanup", "ending"}

\* The thread can run code of its own: the main thread whenever it is not in a step
\* of WebMainLoop that blocks, the pool until it is shut down.
CanRun(a) ==
    CASE a = UI -> threads[UI] /\ main.at \in {"create", "run", "stop"}
      [] a \in ID \ {UI} -> HasLoop(a)
      [] a \in Workers -> main.at \notin {"destroy", "done"}

-----------------------------------------------------------------------------
(* PostTaskHelper.                                                         *)

Goto(a, step) == call' = [call EXCEPT ![a].at = step]

Begin(a, target) ==
    call' = [call EXCEPT ![a] = [at |-> "scan", id |-> 0, target |-> target, found |-> FALSE]]

PostTask(a, target) ==
    /\ posts < MaxPosts /\ posts' = posts + 1
    /\ CanRun(a) /\ call[a] = Idle
    /\ Begin(a, target)
    /\ UNCHANGED <<threadvars, tasks, lock, delegatevars, main>>

\* Mutant of Outlives: the threads compared the other way round.
OutlivesReversed(a, target) == target >= a

\* The target is listed before the caller.
Outlives(a, target) == a >= target

\* GetCurrentThreadIdentifier reads the next pointer, or has read them all.
Scan(a) ==
    /\ call[a].at = "scan"
    /\ IF call[a].id = Count THEN Goto(a, "lock")
       ELSE IF threads[call[a].id] THEN Goto(a, "compare")
       ELSE call' = [call EXCEPT ![a].id = @ + 1]
    /\ UNCHANGED <<threadvars, tasks, lock, delegatevars, main, posts>>

\* It compares the message loop of that thread with its own.
Compare(a) ==
    /\ call[a].at = "compare"
    /\ IF call[a].id # a THEN call' = [call EXCEPT ![a].at = "scan", ![a].id = @ + 1]
       ELSE Goto(a, IF Outlives(a, call[a].target) THEN "lookup" ELSE "lock")
    /\ UNCHANGED <<threadvars, tasks, lock, delegatevars, main, posts>>

Acquire(a) ==
    /\ call[a].at = "lock" /\ lock = Free
    /\ lock' = a
    /\ Goto(a, "lookup")
    /\ UNCHANGED <<threadvars, tasks, delegatevars, main, posts>>

\* globals.threads[identifier] is read.
Lookup(a) ==
    /\ call[a].at = "lookup"
    /\ call' = [call EXCEPT ![a].at = "read", ![a].found = threads[call[a].target]]
    /\ UNCHANGED <<threadvars, tasks, lock, delegatevars, main, posts>>

\* The thread it points to is asked for its message_loop().
ReadMessageLoop(a) ==
    /\ call[a].at = "read"
    /\ call' = [call EXCEPT ![a].at = "deliver", ![a].found = @ /\ HasLoop(call[a].target)]
    /\ UNCHANGED <<threadvars, tasks, lock, delegatevars, main, posts>>

\* Mutant of Deliver: the lock is kept when there is no thread to post to.
DeliverKeepsLock(a) ==
    LET target == call[a].target
        reached == call[a].found /\ HasLoop(target)
    IN  /\ call[a].at = "deliver"
        /\ tasks' = IF reached THEN [tasks EXCEPT ![target] = @ + 1] ELSE tasks
        /\ call' = [call EXCEPT ![a] = Idle]
        /\ lock' = IF lock = a /\ call[a].found THEN Free ELSE lock
        /\ UNCHANGED <<threadvars, delegatevars, main, posts>>

\* The task is posted to the message loop that was read, or deleted, and the lock
\* released.  A message loop that is gone by now takes no task, if nothing worse.
Deliver(a) ==
    LET target == call[a].target
        reached == call[a].found /\ HasLoop(target)
    IN  /\ call[a].at = "deliver"
        /\ tasks' = IF reached THEN [tasks EXCEPT ![target] = @ + 1] ELSE tasks
        /\ call' = [call EXCEPT ![a] = Idle]
        /\ lock' = IF lock = a THEN Free ELSE lock
        /\ UNCHANGED <<threadvars, delegatevars, main, posts>>

-----------------------------------------------------------------------------
(* The life of a thread other than the main one.                           *)

\* WebThreadImpl::Init: the delegate's first.  CurrentlyOn takes the lock.
InitThread(i) ==
    /\ loop[i] = "starting" /\ call[i] = Idle /\ lock = Free
    /\ loop' = [loop EXCEPT ![i] = "running"]
    /\ globals' = (globals \/ (i = IO /\ delegate))
    /\ UNCHANGED <<threads, object, tasks, lock, delegate, main, call, posts>>

RunTask(i) ==
    /\ loop[i] = "running" /\ call[i] = Idle /\ tasks[i] > 0
    /\ i = UI => main.at = "run"
    /\ tasks' = [tasks EXCEPT ![i] = @ - 1]
    /\ UNCHANGED <<threadvars, lock, delegatevars, main, call, posts>>

\* Stop() was called: the loop quits when it is idle.
QuitWhenIdle(i) ==
    /\ main = At("join", i)
    /\ loop[i] = "running" /\ call[i] = Idle /\ tasks[i] = 0
    /\ loop' = [loop EXCEPT ![i] = "cleanup"]
    /\ UNCHANGED <<threads, object, tasks, lock, delegatevars, main, call, posts>>

\* WebThreadImpl::CleanUp with the delegate's, once CurrentlyOn had the lock.
CleanUp(i) ==
    /\ loop[i] = "cleanup" /\ call[i] = Idle /\ lock = Free
    /\ loop' = [loop EXCEPT ![i] = "ending"]
    /\ globals' = (globals /\ ~ (i = IO /\ delegate))
    /\ UNCHANGED <<threads, object, tasks, lock, delegate, main, call, posts>>

\* base::Thread clears message_loop() and destroys the message loop, with the tasks
\* left in it, whoever has the lock.
MessageLoopEnds(i) ==
    /\ loop[i] = "ending" /\ call[i] = Idle
    /\ loop' = [loop EXCEPT ![i] = "ended"]
    /\ tasks' = [tasks EXCEPT ![i] = 0]
    /\ UNCHANGED <<threads, object, lock, delegatevars, main, call, posts>>

-----------------------------------------------------------------------------
(* WebMainLoop.                                                            *)

\* ApplicationContextImpl::PreCreateThreads, from IOSChromeMainParts.
PreCreateThreads ==
    /\ main = At("init", UI) /\ call[UI] = Idle
    /\ delegate' = TRUE
    /\ main' = At("create", 1)
    /\ UNCHANGED <<threadvars, tasks, lock, globals, call, posts>>

\* The constructor, with Initialize.
Construct(i) ==
    /\ main = At("create", i) /\ i < Count /\ call[UI] = Idle /\ lock = Free
    /\ object' = [object EXCEPT ![i] = TRUE]
    /\ threads' = [threads EXCEPT ![i] = TRUE]
    /\ main' = At("start", i)
    /\ UNCHANGED <<loop, tasks, lock, delegatevars, call, posts>>

StartWithOptions(i) ==
    /\ main = At("start", i)
    /\ loop' = [loop EXCEPT ![i] = "starting"]
    /\ main' = At("create", i + 1)
    /\ UNCHANGED <<threads, object, tasks, lock, delegatevars, call, posts>>

ThreadsCreated ==
    /\ main = At("create", Count) /\ call[UI] = Idle
    /\ main' = At("run", UI)
    /\ UNCHANGED <<threadvars, tasks, lock, delegatevars, call, posts>>

\* Mutant of ShutdownThreadsAndCleanUp: the delegate goes with the teardown.
ShutdownWithDelegate ==
    /\ main = At("run", UI) /\ call[UI] = Idle
    /\ Begin(UI, IO)
    /\ main' = At("stop", Count - 1)
    /\ delegate' = FALSE
    /\ UNCHANGED <<threadvars, tasks, lock, globals, posts>>

\* It posts SetIOAllowed to the IO thread and begins with the last thread.
ShutdownThreadsAndCleanUp ==
    /\ main = At("run", UI) /\ call[UI] = Idle
    /\ Begin(UI, IO)
    /\ main' = At("stop", Count - 1)
    /\ UNCHANGED <<threadvars, tasks, lock, delegatevars, posts>>

\* Mutant of StopThread: the destructor takes the lock before it stops the thread.
StopWithinLock(i) ==
    /\ main = At("stop", i) /\ i > UI /\ call[UI] = Idle /\ lock = Free
    /\ lock' = UI
    /\ main' = At("join", i)
    /\ UNCHANGED <<threadvars, tasks, delegatevars, call, posts>>

\* The destructor of WebThreadImpl: Stop() and join.
StopThread(i) ==
    /\ main = At("stop", i) /\ i > UI /\ call[UI] = Idle
    /\ main' = At("join", i)
    /\ UNCHANGED <<threadvars, tasks, lock, delegatevars, call, posts>>

\* Mutant of Unregister: without the lock.
UnregisterUnlocked(i) ==
    /\ main = At("join", i) /\ loop[i] = "ended"
    /\ threads' = [threads EXCEPT ![i] = FALSE]
    /\ main' = At("delete", i)
    /\ UNCHANGED <<object, loop, tasks, lock, delegatevars, call, posts>>

\* Its body under the lock.
Unregister(i) ==
    /\ main = At("join", i) /\ loop[i] = "ended" /\ lock = Free
    /\ threads' = [threads EXCEPT ![i] = FALSE]
    /\ main' = At("delete", i)
    /\ UNCHANGED <<object, loop, tasks, lock, delegatevars, call, posts>>

\* The memory is freed.
DeleteThread(i) ==
    /\ main = At("delete", i)
    /\ object' = [object EXCEPT ![i] = FALSE]
    /\ main' = At("stop", i - 1)
    /\ UNCHANGED <<threads, loop, tasks, lock, delegatevars, call, posts>>

\* ShutdownThreadPool waits for the tasks of the pool; PostDestroyThreads.
PostDestroyThreads ==
    /\ main = At("stop", UI) /\ call[UI] = Idle
    /\ \A w \in Workers : call[w] = Idle
    /\ delegate' = FALSE
    /\ main' = At("destroy", UI)
    /\ UNCHANGED <<threadvars, tasks, lock, globals, call, posts>>

\* The WebMainLoop is deleted, with main_thread_.
DeleteMainThread ==
    /\ main = At("destroy", UI) /\ lock = Free
    /\ threads' = [threads EXCEPT ![UI] = FALSE]
    /\ object' = [object EXCEPT ![UI] = FALSE]
    /\ loop' = [loop EXCEPT ![UI] = "ended"]
    /\ main' = At("done", UI)
    /\ UNCHANGED <<tasks, lock, delegatevars, call, posts>>

-----------------------------------------------------------------------------

\* After InitializeMainThread.
Init ==
    /\ threads = [i \in ID |-> i = UI]
    /\ object = [i \in ID |-> i = UI]
    /\ loop = [i \in ID |-> IF i = UI THEN "running" ELSE "none"]
    /\ tasks = [i \in ID |-> 0]
    /\ lock = Free
    /\ delegate = FALSE /\ globals = FALSE
    /\ main = At("init", UI)
    /\ call = [a \in Actors |-> Idle]
    /\ posts = 0

CallStep(a) ==
    Scan(a) \/ Compare(a) \/ Acquire(a) \/ Lookup(a) \/ ReadMessageLoop(a) \/ Deliver(a)
ThreadStep(i) == InitThread(i) \/ QuitWhenIdle(i) \/ CleanUp(i) \/ MessageLoopEnds(i)
MainStep ==
    \/ PreCreateThreads \/ ThreadsCreated \/ PostDestroyThreads \/ DeleteMainThread
    \/ \E i \in ID : \/ Construct(i) \/ StartWithOptions(i)
                     \/ StopThread(i) \/ Unregister(i) \/ DeleteThread(i)

Next ==
    \/ \E a \in Actors, target \in ID : PostTask(a, target)
    \/ \E a \in Actors : CallStep(a)
    \/ \E i \in ID : RunTask(i) \/ ThreadStep(i)
    \/ MainStep
    \/ ShutdownThreadsAndCleanUp

\* Threads run, and whoever waits for the lock gets it.
Fairness ==
    /\ \A a \in Actors : WF_vars(CallStep(a))
    /\ \A i \in ID : WF_vars(ThreadStep(i)) /\ WF_vars(RunTask(i))
    /\ WF_vars(MainStep)

Spec == Init /\ [][Next]_vars /\ Fairness

-----------------------------------------------------------------------------
(* Properties.                                                             *)

Steps == {"idle", "scan", "compare", "lock", "lookup", "read", "deliver"}

\* Every variable has its type; a thread holds the lock only while it looks for its
\* target, so that none blocks with it.
TypeOK ==
    /\ threads \in [ID -> BOOLEAN]
    /\ object \in [ID -> BOOLEAN]
    /\ loop \in [ID -> {"none", "starting", "running", "cleanup", "ending", "ended"}]
    /\ tasks \in [ID -> Nat]
    /\ lock \in Actors \cup {Free}
    /\ delegate \in BOOLEAN /\ globals \in BOOLEAN
    /\ main \in [at : {"init", "create", "start", "run", "stop", "join", "delete",
                       "destroy", "done"}, id : Nat]
    /\ call \in [Actors -> [at : Steps, id : 0 .. Count, target : ID, found : BOOLEAN]]
    /\ posts \in 0 .. MaxPosts
    /\ \A a \in Actors : lock = a => call[a].at \in {"lookup", "read", "deliver"}

\* The pointers to threads that PostTaskHelper uses are those of registered threads,
\* for a named thread also the ones GetCurrentThreadIdentifier read without the lock;
\* and the message loop it posts to is not destroyed yet, if the caller is the main
\* thread, which joins the others, or needs no lock.
NoDanglingPointer ==
    \A a \in Actors :
        /\ call[a].at = "read" /\ call[a].found =>
               threads[call[a].target] /\ object[call[a].target]
        /\ call[a].at = "compare" /\ a \in ID => threads[call[a].id] /\ object[call[a].id]
        /\ call[a].at = "deliver" /\ call[a].found /\ (a = UI \/ lock # a) =>
               HasLoop(call[a].target)

\* web_thread.h: "It's always safe to call PostTask on any thread. [...] There are no
\* race conditions."  No caller uses a deleted thread or a destroyed message loop.
PostTaskSafe ==
    \A a \in Actors :
        /\ call[a].at = "compare" => object[call[a].id]
        /\ call[a].at = "deliver" /\ call[a].found => HasLoop(call[a].target)

\* Whoever looks for a thread without the lock finds it, with its message loop.
OutlivedReached ==
    \A a \in Actors : call[a].at \in {"lookup", "read", "deliver"} /\ lock # a =>
        /\ threads[call[a].target] /\ HasLoop(call[a].target)
        /\ call[a].at # "lookup" => call[a].found

\* The threads are registered in the order of the list and removed in the reverse
\* order, and none is removed while it can still run.
ListedByLifetime ==
    \A i, j \in ID : i < j =>
        /\ threads[j] => threads[i]
        /\ HasLoop(j) => threads[i] /\ HasLoop(i)

\* The delegate is there for its Init and its CleanUp on the IO thread, and never
\* goes away with its globals.
DelegateBalanced ==
    /\ HasLoop(IO) => delegate
    /\ globals => delegate /\ loop[IO] \in {"running", "cleanup"}

\* Every shutdown ends, whatever is being posted meanwhile.
ShutdownCompletes == main.at = "stop" ~> main.at = "done"
=============================================================================
