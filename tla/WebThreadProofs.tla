--------------------------- MODULE WebThreadProofs --------------------------
(***************************************************************************)
(* The named threads, for every number of threads, of threads of the pool   *)
(* and of calls: a thread that can run has every thread listed before it,   *)
(* registered and with its message loop, so what it reads from              *)
(* globals.threads without the lock stays valid.                           *)
(***************************************************************************)
EXTENDS WebThread, Integers, TLAPS

\* The threads below this one are up, by what WebMainLoop is doing.
Up ==
    CASE main.at = "init" -> 1
      [] main.at \in {"create", "start", "join", "delete"} -> main.id
      [] main.at = "run" -> Count
      [] main.at = "stop" -> main.id + 1
      [] main.at = "destroy" -> 1
      [] main.at = "done" -> 0

Live(i) == threads[i] /\ object[i] /\ loop[i] \in {"starting", "running"}
Gone(i) == ~ threads[i] /\ ~ object[i] /\ ~ HasLoop(i)

\* The thread that WebMainLoop is starting or stopping.
InBetween == main.at \in {"start", "join", "delete"}

MainRange ==
    /\ main.at \in {"init", "run", "destroy", "done"} => main.id = UI
    /\ main.at = "create" => main.id \in 1 .. Count
    /\ main.at \in {"start", "join", "delete"} => main.id \in 1 .. Count - 1
    /\ main.at = "stop" => main.id \in 0 .. Count - 1

Stage ==
    /\ MainRange
    /\ \A i \in ID : i < Up => Live(i)
    /\ \A i \in ID : i > Up \/ (i = Up /\ ~ InBetween) => Gone(i)
    /\ main.at = "start" => threads[main.id] /\ object[main.id] /\ ~ HasLoop(main.id)
    /\ main.at = "join" => threads[main.id] /\ object[main.id]
    /\ main.at = "delete" => ~ threads[main.id] /\ object[main.id] /\ ~ HasLoop(main.id)

\* A thread that is in a call can run.
CanCall(a) ==
    /\ a = UI => main.at \in {"create", "run", "stop"}
    /\ a \in ID \ {UI} => HasLoop(a)
    /\ a \in Workers => main.at \notin {"destroy", "done"}

CallOK(a) ==
    /\ call[a].at = "idle" => call[a] = Idle
    /\ call[a].at # "idle" => CanCall(a)
    /\ call[a].at \in {"scan", "compare"} /\ a \in ID => call[a].id <= a
    /\ call[a].at = "compare" => call[a].id \in ID
    /\ call[a].at \in {"lookup", "read", "deliver"} /\ lock # a =>
           /\ a \in ID /\ call[a].target <= a
           /\ call[a].at # "lookup" => call[a].found
    /\ call[a].at = "read" /\ call[a].found => threads[call[a].target]
    /\ call[a].at = "deliver" /\ call[a].found /\ a = UI => HasLoop(call[a].target)

Calls == \A a \in Actors : CallOK(a)

\* The delegate is set from before the first thread starts until the last has ended.
Delegate ==
    /\ delegate <=> main.at \notin {"init", "destroy", "done"}
    /\ globals => delegate /\ loop[IO] \in {"running", "cleanup"}

IndInv == TypeOK /\ Stage /\ Calls /\ Delegate

-----------------------------------------------------------------------------
(* What the invariant says.                                                *)

\* The threads are numbers, the threads of the pool are not.
LEMMA Names ==
    /\ Count \in Nat /\ Count >= 2
    /\ ID \subseteq Nat /\ UI \in ID /\ IO \in ID /\ UI # IO
    /\ \A i \in ID : i < Count /\ i >= 0
    /\ Free \notin Actors
    /\ \A w \in Workers : w \notin ID
    /\ ID \subseteq Actors /\ Workers \subseteq Actors
    /\ \A a \in Actors : a \in ID \/ a \in Workers
<1>1. Count \in Nat /\ Count >= 2 /\ Workers \cap Nat = {}
  BY WebThreadAssumption
<1>2. /\ ID \subseteq Nat /\ UI \in ID /\ IO \in ID /\ UI # IO
      /\ \A i \in ID : i < Count /\ i >= 0
  BY <1>1 DEF ID, UI, IO
<1>3. \A w \in Workers : w \notin Nat
  BY <1>1
<1>4. /\ ID \subseteq Actors /\ Workers \subseteq Actors
      /\ \A a \in Actors : a \in ID \/ a \in Workers
  BY DEF Actors
<1>5. \A w \in Workers : w \notin ID
  BY <1>2, <1>3
<1>6. Count \notin ID /\ Count \notin Workers
  BY <1>1, <1>2, <1>3
<1>7. Free \notin Actors
  BY <1>4, <1>6 DEF Free
<1> QED  BY <1>1, <1>2, <1>4, <1>5, <1>7

\* The values of Up.
LEMMA UpFacts ==
    ASSUME TypeOK, MainRange
    PROVE  /\ Up \in Int
           /\ main.at = "init" => Up = 1
           /\ main.at \in {"create", "start", "join", "delete"} => Up = main.id
           /\ main.at = "run" => Up = Count
           /\ main.at = "stop" => Up = main.id + 1
           /\ main.at = "destroy" => Up = 1
           /\ main.at = "done" => Up = 0
<1>1. main.at \in {"init", "create", "start", "run", "stop", "join", "delete", "destroy", "done"}
      /\ main.id \in Nat /\ Count \in Nat
  BY WebThreadAssumption DEF TypeOK
<1> QED  BY <1>1 DEF Up

\* Below a thread that can run, every thread is registered and has its loop.
LEMMA AliveBelow ==
    ASSUME TypeOK, Stage, NEW a \in ID, CanCall(a), NEW i \in ID, i <= a
    PROVE  threads[i] /\ object[i] /\ HasLoop(i)
<1>1. Up \in Int
  BY UpFacts DEF Stage
<1>2. a \in Nat /\ i \in Nat /\ UI = 0
  BY Names DEF UI
<1>3. CASE a < Up
  <2>1. i < Up
    BY <1>1, <1>2, <1>3
  <2> QED  BY <2>1 DEF Stage, Live, HasLoop
<1>4. CASE ~ (a < Up)
  <2>1. a # UI
    BY <1>2, <1>4, UpFacts, Names DEF CanCall, Stage, MainRange
  <2>2. HasLoop(a)
    BY <2>1 DEF CanCall
  <2>3. a = Up /\ InBetween
    BY <1>1, <1>2, <1>4, <2>2 DEF Stage, Gone
  <2>4. main.at = "join" /\ a = main.id
    BY <2>2, <2>3, UpFacts DEF Stage, InBetween
  <2>5. CASE i = a
    BY <2>2, <2>4, <2>5 DEF Stage
  <2>6. CASE i < a
    BY <2>3, <2>6 DEF Stage, Live, HasLoop
  <2> QED  BY <1>2, <2>5, <2>6
<1> QED  BY <1>3, <1>4

\* The invariant implies the properties.
LEMMA Implied == IndInv => NoDanglingPointer /\ OutlivedReached /\ ListedByLifetime /\ DelegateBalanced
<1> SUFFICES ASSUME IndInv
             PROVE  NoDanglingPointer /\ OutlivedReached /\ ListedByLifetime /\ DelegateBalanced
  OBVIOUS
<1> USE DEF IndInv
<1>1. ASSUME NEW a \in Actors
      PROVE  call[a] \in [at : Steps, id : 0 .. Count, target : ID, found : BOOLEAN]
  BY DEF TypeOK
<1>2. ASSUME NEW i \in ID, threads[i] PROVE object[i]
  <2>1. Up \in Int /\ i \in Nat
    BY UpFacts, Names DEF Stage
  <2>2. i < Up \/ i > Up \/ i = Up
    BY <2>1
  <2>3. i = Up /\ InBetween => i = main.id
    BY UpFacts DEF InBetween, Stage
  <2> QED  BY <1>2, <2>2, <2>3 DEF Stage, Live, Gone, InBetween
<1>3. NoDanglingPointer
  <2>1. ASSUME NEW a \in Actors, call[a].at = "read", call[a].found
        PROVE  threads[call[a].target] /\ object[call[a].target]
    BY <1>1, <1>2, <2>1 DEF Calls, CallOK
  <2>2. ASSUME NEW a \in Actors, call[a].at = "compare", a \in ID
        PROVE  threads[call[a].id] /\ object[call[a].id]
    BY <2>2, AliveBelow DEF Calls, CallOK
  <2>3. ASSUME NEW a \in Actors, call[a].at = "deliver", call[a].found, a = UI \/ lock # a
        PROVE  HasLoop(call[a].target)
    <3>1. CASE a = UI
      BY <2>3, <3>1 DEF Calls, CallOK
    <3>2. CASE lock # a
      BY <1>1, <2>3, <3>2, AliveBelow DEF Calls, CallOK
    <3> QED  BY <2>3, <3>1, <3>2
  <2> QED  BY <2>1, <2>2, <2>3 DEF NoDanglingPointer
<1>4. OutlivedReached
  <2>1. ASSUME NEW a \in Actors, call[a].at \in {"lookup", "read", "deliver"}, lock # a
        PROVE  /\ threads[call[a].target] /\ HasLoop(call[a].target)
               /\ call[a].at # "lookup" => call[a].found
    BY <1>1, <2>1, AliveBelow DEF Calls, CallOK
  <2> QED  BY <2>1 DEF OutlivedReached
<1>5. ListedByLifetime
  <2>1. ASSUME NEW i \in ID, NEW j \in ID, i < j, threads[j] \/ HasLoop(j)
        PROVE  threads[i] /\ HasLoop(i)
    <3>1. Up \in Int /\ i \in Nat /\ j \in Nat
      BY UpFacts, Names DEF Stage
    <3>2. ~ (j > Up)
      BY <2>1 DEF Stage, Gone
    <3>3. i < Up
      BY <2>1, <3>1, <3>2
    <3> QED  BY <3>3 DEF Stage, Live, HasLoop
  <2> QED  BY <2>1 DEF ListedByLifetime
<1>6. DelegateBalanced
  <2>1. ASSUME HasLoop(IO) PROVE delegate
    <3>1. Up \in Int /\ IO \in Nat /\ IO \in ID /\ IO > 0
      BY UpFacts, Names DEF Stage, UI
    <3>2. ~ (IO > Up) /\ (IO = Up => InBetween)
      BY <2>1, <3>1 DEF Stage, Gone
    <3>3. ASSUME main.at \in {"init", "destroy", "done"} PROVE FALSE
      <4>1. Up = 1 \/ Up = 0
        BY <3>3, UpFacts DEF Stage
      <4>2. IO = 1 /\ Up = 1
        BY <3>1, <3>2, <4>1
      <4> QED  BY <3>2, <3>3, <4>2 DEF InBetween
    <3> QED  BY <3>3 DEF Delegate
  <2> QED  BY <2>1 DEF DelegateBalanced, Delegate
<1> QED  BY <1>3, <1>4, <1>5, <1>6

-----------------------------------------------------------------------------
(* The steps of a call.                                                    *)

\* A step that only moves calls keeps what is said of the threads.
LEMMA StageKept ==
    ASSUME IndInv, UNCHANGED <<threads, object, loop, main, delegate, globals>>
    PROVE  Stage' /\ Delegate' /\ \A a \in Actors : CanCall(a) => CanCall(a)'
<1>1. MainRange' /\ Up' = Up /\ (InBetween <=> InBetween')
  BY DEF IndInv, Stage, MainRange, Up, InBetween
<1>2. \A i : (Live(i) => Live(i)') /\ (Gone(i) => Gone(i)') /\ (HasLoop(i) <=> HasLoop(i)')
  BY DEF Live, Gone, HasLoop
<1>3. Stage'
  BY <1>1, <1>2 DEF IndInv, Stage
<1>4. Delegate'
  BY DEF IndInv, Delegate
<1>5. \A a \in Actors : CanCall(a) => CanCall(a)'
  BY <1>2 DEF CanCall
<1> QED  BY <1>3, <1>4, <1>5

\* The record of a call.
LEMMA CallType ==
    ASSUME TypeOK, NEW a \in Actors
    PROVE  /\ call[a].at \in Steps /\ call[a].id \in 0 .. Count
           /\ call[a].target \in ID /\ call[a].found \in BOOLEAN
BY DEF TypeOK

\* A call that changes for one thread only.
LEMMA CallsKept ==
    ASSUME IndInv, UNCHANGED <<threads, object, loop, main, delegate, globals>>,
           NEW a \in Actors, NEW r, call' = [call EXCEPT ![a] = r],
           \A b \in Actors \ {a} : lock' = b <=> lock = b,
           CallOK(a)'
    PROVE  Calls'
<1>1. \A b \in Actors \ {a} : call'[b] = call[b]
  BY DEF IndInv, TypeOK
<1>2. ASSUME NEW b \in Actors \ {a} PROVE CallOK(b)'
  <2>1. CanCall(b) => CanCall(b)'
    BY StageKept
  <2> QED  BY <1>1, <2>1 DEF IndInv, Calls, CallOK, HasLoop
<1> QED  BY <1>2 DEF Calls

\* PostTaskHelper starts, by the main thread at shutdown or by any thread.
LEMMA PostTaskPreserves ==
    ASSUME IndInv, NEW a \in Actors, NEW target \in ID, PostTask(a, target)
    PROVE  IndInv'
<1> DEFINE r == [at |-> "scan", id |-> 0, target |-> target, found |-> FALSE]
<1>1. /\ UNCHANGED <<threads, object, loop, main, delegate, globals, tasks, lock>>
      /\ call' = [call EXCEPT ![a] = r]
      /\ posts' = posts + 1 /\ posts < MaxPosts
      /\ CanRun(a) /\ call[a] = Idle
  BY DEF PostTask, Begin, threadvars, delegatevars
<1>2. r \in [at : Steps, id : 0 .. Count, target : ID, found : BOOLEAN]
  BY Names DEF Steps
<1>3. call'[a] = r
  BY <1>1 DEF IndInv, TypeOK
<1>4. CanCall(a)
  BY <1>1, Names DEF CanRun, CanCall
<1>5. lock # a
  BY <1>1 DEF IndInv, TypeOK, Idle
<1>6. TypeOK'
  <2>1. call' \in [Actors -> [at : Steps, id : 0 .. Count, target : ID, found : BOOLEAN]]
    BY <1>1, <1>2 DEF IndInv, TypeOK
  <2>2. posts' \in 0 .. MaxPosts
    BY <1>1, WebThreadAssumption DEF IndInv, TypeOK
  <2>3. \A b \in Actors : lock' = b => call'[b].at \in {"lookup", "read", "deliver"}
    BY <1>1, <1>5 DEF IndInv, TypeOK
  <2> QED  BY <1>1, <2>1, <2>2, <2>3 DEF IndInv, TypeOK
<1>7. CanCall(a)'
  BY <1>1, <1>4, StageKept
<1>8. CallOK(a)'
  BY <1>3, <1>7, Names DEF CallOK
<1>9. Calls'
  BY <1>1, <1>8, CallsKept
<1> QED  BY <1>1, <1>6, <1>9, StageKept DEF IndInv

\* Scan.
LEMMA ScanPreserves ==
    ASSUME IndInv, NEW a \in Actors, Scan(a)
    PROVE  IndInv'
<1>1. /\ UNCHANGED <<threads, object, loop, main, delegate, globals, tasks, lock, posts>>
      /\ call[a].at = "scan" /\ lock # a
  BY DEF Scan, threadvars, delegatevars, IndInv, TypeOK
<1>2. CanCall(a) /\ call[a].id \in 0 .. Count /\ call[a].target \in ID /\ call[a].found \in BOOLEAN
      /\ (a \in ID => call[a].id <= a) /\ Count \in Nat
  BY <1>1, CallType, Names DEF IndInv, Calls, CallOK
<1>3. CanCall(a)'
  BY <1>1, <1>2, StageKept
<1>4. CASE call[a].id = Count
  <2> DEFINE r == [call[a] EXCEPT !.at = "lock"]
  <2>1. call' = [call EXCEPT ![a] = r]
    BY <1>4 DEF Scan, Goto
  <2>2. call'[a] = r /\ r \in [at : Steps, id : 0 .. Count, target : ID, found : BOOLEAN]
        /\ r.at = "lock"
    BY <2>1 DEF IndInv, TypeOK, Steps
  <2>3. CallOK(a)'
    BY <1>3, <2>2 DEF CallOK
  <2>4. TypeOK'
    BY <1>1, <2>1, <2>2 DEF IndInv, TypeOK
  <2> QED  BY <1>1, <2>1, <2>3, <2>4, CallsKept, StageKept DEF IndInv
<1>5. CASE call[a].id # Count /\ threads[call[a].id]
  <2> DEFINE r == [call[a] EXCEPT !.at = "compare"]
  <2>1. call' = [call EXCEPT ![a] = r]
    BY <1>5 DEF Scan, Goto
  <2>2. call'[a] = r /\ r \in [at : Steps, id : 0 .. Count, target : ID, found : BOOLEAN]
        /\ r.at = "compare" /\ r.id = call[a].id
    BY <2>1 DEF IndInv, TypeOK, Steps
  <2>3. CallOK(a)'
    <3>1. call[a].id \in ID
      BY <1>2, <1>5 DEF ID
    <3> QED  BY <1>2, <1>3, <2>2, <3>1 DEF CallOK
  <2>4. TypeOK'
    BY <1>1, <2>1, <2>2 DEF IndInv, TypeOK
  <2> QED  BY <1>1, <2>1, <2>3, <2>4, CallsKept, StageKept DEF IndInv
<1>6. CASE call[a].id # Count /\ ~ threads[call[a].id]
  <2> DEFINE r == [call[a] EXCEPT !.id = @ + 1]
  <2>1. call' = [call EXCEPT ![a] = r]
    BY <1>6 DEF Scan, Goto
  <2>2. call[a].id + 1 \in 0 .. Count
    BY <1>2, <1>6
  <2>3. call'[a] = r /\ r \in [at : Steps, id : 0 .. Count, target : ID, found : BOOLEAN]
        /\ r.at = "scan" /\ r.id = call[a].id + 1
    BY <1>1, <2>1, <2>2 DEF IndInv, TypeOK, Steps
  <2>4. ASSUME a \in ID PROVE call[a].id + 1 <= a
    <3>1. call[a].id \in ID
      BY <1>2, <1>6 DEF ID
    <3>2. call[a].id # a
      BY <1>2, <1>6, <2>4, AliveBelow, Names DEF IndInv
    <3>3. call[a].id \in Nat /\ a \in Nat /\ call[a].id <= a
      BY <1>2, <2>4, <3>1, Names
    <3> QED  BY <3>2, <3>3
  <2>5. CallOK(a)'
    BY <1>3, <2>3, <2>4 DEF CallOK
  <2>6. TypeOK'
    BY <1>1, <2>1, <2>3 DEF IndInv, TypeOK
  <2> QED  BY <1>1, <2>1, <2>5, <2>6, CallsKept, StageKept DEF IndInv
<1> QED  BY <1>4, <1>5, <1>6

\* Compare.
LEMMA ComparePreserves ==
    ASSUME IndInv, NEW a \in Actors, Compare(a)
    PROVE  IndInv'
<1>1. /\ UNCHANGED <<threads, object, loop, main, delegate, globals, tasks, lock, posts>>
      /\ call[a].at = "compare" /\ lock # a
  BY DEF Compare, threadvars, delegatevars, IndInv, TypeOK
<1>2. CanCall(a) /\ call[a].id \in ID /\ call[a].target \in ID /\ call[a].found \in BOOLEAN
      /\ (a \in ID => call[a].id <= a) /\ Count \in Nat
  BY <1>1, CallType, Names DEF IndInv, Calls, CallOK
<1>3. CanCall(a)'
  BY <1>1, <1>2, StageKept
<1>4. CASE call[a].id # a
  <2> DEFINE r == [call[a] EXCEPT !.at = "scan", !.id = @ + 1]
  <2>1. call' = [call EXCEPT ![a] = r]
    BY <1>4 DEF Compare
  <2>2. call[a].id + 1 \in 0 .. Count
    BY <1>2, Names DEF ID
  <2>3. call'[a] = r /\ r \in [at : Steps, id : 0 .. Count, target : ID, found : BOOLEAN]
        /\ r.at = "scan" /\ r.id = call[a].id + 1
    BY <1>1, <2>1, <2>2 DEF IndInv, TypeOK, Steps
  <2>4. ASSUME a \in ID PROVE call[a].id + 1 <= a
    <3>1. call[a].id \in Nat /\ a \in Nat /\ call[a].id <= a
      BY <1>2, <2>4, Names
    <3> QED  BY <1>4, <3>1
  <2>5. CallOK(a)'
    BY <1>3, <2>3, <2>4 DEF CallOK
  <2>6. TypeOK'
    BY <1>1, <2>1, <2>3 DEF IndInv, TypeOK
  <2> QED  BY <1>1, <2>1, <2>5, <2>6, CallsKept, StageKept DEF IndInv
<1>5. CASE call[a].id = a
  <2> DEFINE r == [call[a] EXCEPT !.at = IF Outlives(a, call[a].target) THEN "lookup" ELSE "lock"]
  <2>1. call' = [call EXCEPT ![a] = r]
    BY <1>5 DEF Compare, Goto
  <2>2. call'[a] = r /\ r \in [at : Steps, id : 0 .. Count, target : ID, found : BOOLEAN]
        /\ r.at = (IF Outlives(a, call[a].target) THEN "lookup" ELSE "lock")
        /\ r.target = call[a].target
    BY <2>1 DEF IndInv, TypeOK, Steps
  <2>3. CallOK(a)'
    <3>1. a \in ID /\ (Outlives(a, call[a].target) => call[a].target <= a)
      BY <1>2, <1>5, Names DEF Outlives
    <3> QED  BY <1>3, <2>2, <3>1 DEF CallOK
  <2>4. TypeOK'
    BY <1>1, <2>1, <2>2 DEF IndInv, TypeOK
  <2> QED  BY <1>1, <2>1, <2>3, <2>4, CallsKept, StageKept DEF IndInv
<1> QED  BY <1>4, <1>5

\* Acquire.
LEMMA AcquirePreserves ==
    ASSUME IndInv, NEW a \in Actors, Acquire(a)
    PROVE  IndInv'
<1> DEFINE r == [call[a] EXCEPT !.at = "lookup"]
<1>1. /\ UNCHANGED <<threads, object, loop, main, delegate, globals, tasks, posts>>
      /\ call[a].at = "lock" /\ lock = Free /\ lock' = a
      /\ call' = [call EXCEPT ![a] = r]
  BY DEF Acquire, Goto, threadvars, delegatevars
<1>2. call'[a] = r /\ r \in [at : Steps, id : 0 .. Count, target : ID, found : BOOLEAN]
      /\ r.at = "lookup"
  BY <1>1 DEF IndInv, TypeOK, Steps
<1>3. \A b \in Actors \ {a} : lock' # b /\ lock # b
  BY <1>1, Names
<1>4. CallOK(a)'
  <2>1. CanCall(a)'
    BY <1>1, StageKept DEF IndInv, Calls, CallOK
  <2> QED  BY <1>1, <1>2, <2>1 DEF CallOK
<1>5. Calls'
  BY <1>1, <1>3, <1>4, CallsKept
<1>6. TypeOK'
  <2>1. \A b \in Actors : lock' = b => call'[b].at \in {"lookup", "read", "deliver"}
    BY <1>2, <1>3
  <2> QED  BY <1>1, <1>2, <2>1 DEF IndInv, TypeOK
<1> QED  BY <1>1, <1>5, <1>6, StageKept DEF IndInv

\* Lookup.
LEMMA LookupPreserves ==
    ASSUME IndInv, NEW a \in Actors, Lookup(a)
    PROVE  IndInv'
<1> DEFINE r == [call[a] EXCEPT !.at = "read", !.found = threads[call[a].target]]
<1>1. /\ UNCHANGED <<threads, object, loop, main, delegate, globals, tasks, lock, posts>>
      /\ call[a].at = "lookup"
      /\ call' = [call EXCEPT ![a] = r]
  BY DEF Lookup, threadvars, delegatevars
<1>2. call[a].target \in ID /\ CanCall(a)
      /\ (lock # a => a \in ID /\ call[a].target <= a)
  BY <1>1, CallType DEF IndInv, Calls, CallOK
<1>3. call'[a] = r /\ r \in [at : Steps, id : 0 .. Count, target : ID, found : BOOLEAN]
      /\ r.at = "read" /\ r.target = call[a].target
  BY <1>1, <1>2 DEF IndInv, TypeOK, Steps
<1>4. r.found = threads[call[a].target]
  BY DEF IndInv, TypeOK
<1>5. lock # a => threads[call[a].target]
  BY <1>2, AliveBelow DEF IndInv
<1>6. CallOK(a)'
  <2>1. CanCall(a)'
    BY <1>1, <1>2, StageKept
  <2> QED  BY <1>1, <1>2, <1>3, <1>4, <1>5, <2>1 DEF CallOK
<1>7. Calls'
  BY <1>1, <1>6, CallsKept
<1>8. TypeOK'
  BY <1>1, <1>3 DEF IndInv, TypeOK
<1> QED  BY <1>1, <1>7, <1>8, StageKept DEF IndInv

\* ReadMessageLoop: what the shortcut reads is there, and the main thread joins nobody
\* in the middle of a call.
LEMMA ReadMessageLoopPreserves ==
    ASSUME IndInv, NEW a \in Actors, ReadMessageLoop(a)
    PROVE  IndInv'
<1> DEFINE has == HasLoop(call[a].target)
           r == [call[a] EXCEPT !.at = "deliver", !.found = @ /\ has]
<1>1. /\ UNCHANGED <<threads, object, loop, main, delegate, globals, tasks, lock, posts>>
      /\ call[a].at = "read"
      /\ call' = [call EXCEPT ![a] = r]
  BY DEF ReadMessageLoop, threadvars, delegatevars
<1>2. call[a].target \in ID /\ CanCall(a) /\ call[a].found \in BOOLEAN
      /\ (lock # a => a \in ID /\ call[a].target <= a /\ call[a].found)
  BY <1>1, CallType DEF IndInv, Calls, CallOK
<1>3. has \in BOOLEAN
  BY DEF HasLoop
<1>4. lock # a => has
  BY <1>2, AliveBelow DEF IndInv
<1>5. HasLoop(call[a].target)' <=> loop[call'[a].target] \in {"starting", "running", "cleanup", "ending"}
  BY <1>1 DEF HasLoop
<1>6. has <=> loop[call[a].target] \in {"starting", "running", "cleanup", "ending"}
  BY DEF HasLoop
<1> HIDE DEF has
<1>7. call'[a] = r /\ r \in [at : Steps, id : 0 .. Count, target : ID, found : BOOLEAN]
      /\ r.at = "deliver" /\ r.target = call[a].target /\ r.found = (call[a].found /\ has)
  BY <1>1, <1>2, <1>3 DEF IndInv, TypeOK, Steps
<1>8. CallOK(a)'
  <2>1. CanCall(a)'
    BY <1>1, <1>2, StageKept
  <2>2. call'[a].found => HasLoop(call[a].target)'
    BY <1>5, <1>6, <1>7
  <2> HIDE DEF r
  <2> QED  BY <1>1, <1>2, <1>4, <1>7, <2>1, <2>2 DEF CallOK
<1>9. Calls'
  BY <1>1, <1>8, CallsKept
<1>10. TypeOK'
  BY <1>1, <1>7 DEF IndInv, TypeOK
<1> QED  BY <1>1, <1>9, <1>10, StageKept DEF IndInv

\* Deliver.
LEMMA DeliverPreserves ==
    ASSUME IndInv, NEW a \in Actors, Deliver(a)
    PROVE  IndInv'
<1>1. /\ UNCHANGED <<threads, object, loop, main, delegate, globals, posts>>
      /\ call' = [call EXCEPT ![a] = Idle]
      /\ lock' = IF lock = a THEN Free ELSE lock
  BY DEF Deliver, threadvars, delegatevars
<1>2. call[a].target \in ID
  BY CallType DEF IndInv
<1>3. tasks' \in [ID -> Nat]
  BY <1>2 DEF Deliver, IndInv, TypeOK
<1>4. Idle \in [at : Steps, id : 0 .. Count, target : ID, found : BOOLEAN] /\ Idle.at = "idle"
  BY Names DEF Idle, Steps, UI
<1>5. call'[a] = Idle
  BY <1>1 DEF IndInv, TypeOK
<1>6. /\ lock' # a
      /\ \A b \in Actors \ {a} : lock' = b <=> lock = b
      /\ lock' \in Actors \cup {Free}
  BY <1>1, Names DEF IndInv, TypeOK
<1>7. CallOK(a)'
  BY <1>4, <1>5 DEF CallOK
<1>8. Calls'
  BY <1>1, <1>6, <1>7, CallsKept
<1>9. TypeOK'
  <2>1. \A b \in Actors : lock' = b => call'[b].at \in {"lookup", "read", "deliver"}
    BY <1>1, <1>6 DEF IndInv, TypeOK
  <2>2. call' \in [Actors -> [at : Steps, id : 0 .. Count, target : ID, found : BOOLEAN]]
    BY <1>1, <1>4 DEF IndInv, TypeOK
  <2> QED  BY <1>1, <1>3, <1>6, <2>1, <2>2 DEF IndInv, TypeOK
<1> QED  BY <1>1, <1>8, <1>9, StageKept DEF IndInv

-----------------------------------------------------------------------------
(* The steps of the threads.                                               *)

\* The calls when the threads change under them.
LEMMA CallsStay ==
    ASSUME IndInv, UNCHANGED <<call, lock>>,
           \A a \in Actors : call[a].at # "idle" /\ CanCall(a) => CanCall(a)',
           \A a \in Actors : CallOK(a) /\ call[a].at = "read" /\ call[a].found =>
                                  threads'[call[a].target],
           call[UI].at # "idle" => \A j \in ID : HasLoop(j) => HasLoop(j)'
    PROVE  Calls'
<1>1. ASSUME NEW a \in Actors PROVE CallOK(a)'
  <2>1. CallOK(a)
    BY DEF IndInv, Calls
  <2>2. call[a].target \in ID
    BY CallType DEF IndInv
  <2>3. call[a].at = "deliver" /\ a = UI /\ HasLoop(call[a].target) => HasLoop(call[a].target)'
    BY <2>2 DEF HasLoop
  <2> QED  BY <2>1, <2>3 DEF CallOK
<1> QED  BY <1>1 DEF Calls

\* A task runs.
LEMMA RunTaskPreserves ==
    ASSUME IndInv, NEW i \in ID, RunTask(i)
    PROVE  IndInv'
<1>1. /\ UNCHANGED <<threads, object, loop, main, delegate, globals, lock, call, posts>>
      /\ tasks' = [tasks EXCEPT ![i] = @ - 1] /\ tasks[i] > 0
  BY DEF RunTask, threadvars, delegatevars
<1>2. TypeOK'
  BY <1>1 DEF IndInv, TypeOK
<1>3. Calls'
  BY <1>1, StageKept, CallsStay DEF CallOK, HasLoop
<1> QED  BY <1>1, <1>2, <1>3, StageKept DEF IndInv

\* The thread of i goes on from one phase with a message loop to the next.
LEMMA PhasePreserves ==
    ASSUME IndInv, NEW i \in ID, NEW phase \in {"running", "cleanup", "ending", "ended"},
           loop' = [loop EXCEPT ![i] = phase],
           UNCHANGED <<threads, object, main, lock, call>>,
           HasLoop(i),
           phase # "running" => main = At("join", i),
           phase = "ended" => call[i].at = "idle"
    PROVE  Stage' /\ Calls'
<1>1. MainRange' /\ Up' = Up /\ (InBetween <=> InBetween') /\ Up \in Int /\ i \in Nat
  BY UpFacts, Names DEF IndInv, Stage, MainRange, Up, InBetween
<1>2. loop \in [ID -> {"none", "starting", "running", "cleanup", "ending", "ended"}]
  BY DEF IndInv, TypeOK
<1>3. \A j \in ID \ {i} : loop'[j] = loop[j]
  BY <1>2
<1>4. loop'[i] = phase
  BY <1>2
<1>5. \A j \in ID \ {i} : (Live(j) => Live(j)') /\ (Gone(j) => Gone(j)') /\ (HasLoop(j) <=> HasLoop(j)')
  BY <1>3 DEF Live, Gone, HasLoop
<1>6. ~ (i > Up) /\ (i = Up => main.at = "join" /\ i = main.id)
  <2>1. ~ (i > Up) /\ (i = Up => InBetween)
    BY DEF IndInv, Stage, Gone
  <2> QED  BY <2>1, UpFacts DEF IndInv, Stage, InBetween
<1>7. ASSUME i < Up PROVE Live(i)'
  <2>1. phase = "running"
    <3>1. ASSUME main = At("join", i) PROVE FALSE
      <4>1. main.at = "join" /\ main.id = i
        BY <3>1 DEF At
      <4>2. Up = i
        BY <4>1, UpFacts DEF IndInv, Stage
      <4> QED  BY <1>1, <1>7, <4>2
    <3> QED  BY <3>1
  <2> QED  BY <1>4, <1>7, <2>1 DEF IndInv, Stage, Live
<1>8. Stage'
  <2>1. \A j \in ID : j < Up => Live(j)'
    BY <1>5, <1>7 DEF IndInv, Stage
  <2>2. \A j \in ID : j > Up \/ (j = Up /\ ~ InBetween) => Gone(j)'
    BY <1>5, <1>6 DEF IndInv, Stage, InBetween
  <2>3. main.at = "start" \/ main.at = "delete" => main.id \in ID \ {i}
    <3>1. ASSUME main.at = "start" \/ main.at = "delete" PROVE main.id # i
      BY <3>1 DEF IndInv, Stage
    <3>2. main.at = "start" \/ main.at = "delete" => main.id \in ID
      BY Names DEF IndInv, Stage, MainRange, ID
    <3> QED  BY <3>1, <3>2
  <2> QED  BY <1>1, <1>5, <2>1, <2>2, <2>3 DEF IndInv, Stage
<1>9. Calls'
  <2>1. ASSUME NEW a \in Actors, call[a].at # "idle", CanCall(a) PROVE CanCall(a)'
    <3>1. CASE a = i
      <4>1. phase # "ended"
        BY <2>1, <3>1
      <4> QED  BY <1>4, <2>1, <3>1, <4>1 DEF CanCall, HasLoop
    <3>2. CASE a # i
      BY <1>5, <2>1, <3>2 DEF CanCall
    <3> QED  BY <3>1, <3>2
  <2>2. ASSUME call[UI].at # "idle", NEW j \in ID, HasLoop(j) PROVE HasLoop(j)'
    <3>1. CASE j = i
      <4>1. main.at # "join"
        BY <2>2, Names DEF IndInv, Calls, CallOK, CanCall
      <4>2. phase = "running"
        BY <4>1 DEF At
      <4> QED  BY <1>4, <3>1, <4>2 DEF HasLoop
    <3>2. CASE j # i
      BY <1>5, <2>2, <3>2
    <3> QED  BY <3>1, <3>2
  <2> QED  BY <2>1, <2>2, CallsStay DEF CallOK
<1> QED  BY <1>8, <1>9

\* WebThreadImpl::Init.
LEMMA InitThreadPreserves ==
    ASSUME IndInv, NEW i \in ID, InitThread(i)
    PROVE  IndInv'
<1>1. /\ loop[i] = "starting" /\ loop' = [loop EXCEPT ![i] = "running"]
      /\ globals' = (globals \/ (i = IO /\ delegate))
      /\ UNCHANGED <<threads, object, tasks, lock, delegate, main, call, posts>>
  BY DEF InitThread
<1>2. Stage' /\ Calls'
  <2>1. HasLoop(i)
    BY <1>1 DEF HasLoop
  <2> QED  BY <1>1, <2>1, PhasePreserves
<1>3. TypeOK'
  <2>1. globals' \in BOOLEAN
    BY <1>1
  <2> QED  BY <1>1, <2>1 DEF IndInv, TypeOK
<1>4. Delegate'
  <2>1. ASSUME globals' PROVE delegate /\ loop'[IO] \in {"running", "cleanup"}
    BY <1>1, <2>1, Names DEF IndInv, TypeOK, Delegate
  <2> QED  BY <1>1, <2>1 DEF IndInv, Delegate
<1> QED  BY <1>2, <1>3, <1>4 DEF IndInv

\* The loop is idle and quits.
LEMMA QuitWhenIdlePreserves ==
    ASSUME IndInv, NEW i \in ID, QuitWhenIdle(i)
    PROVE  IndInv'
<1>1. /\ loop[i] = "running" /\ loop' = [loop EXCEPT ![i] = "cleanup"]
      /\ main = At("join", i)
      /\ UNCHANGED <<threads, object, tasks, lock, delegate, globals, main, call, posts>>
  BY DEF QuitWhenIdle, delegatevars
<1>2. Stage' /\ Calls'
  <2>1. HasLoop(i)
    BY <1>1 DEF HasLoop
  <2> QED  BY <1>1, <2>1, PhasePreserves
<1>3. TypeOK'
  BY <1>1 DEF IndInv, TypeOK
<1>4. Delegate'
  BY <1>1, Names DEF IndInv, TypeOK, Delegate
<1> QED  BY <1>2, <1>3, <1>4 DEF IndInv

\* The thread that cleans up, or ends, is the one WebMainLoop joins.
LEMMA EndingIsJoined ==
    ASSUME IndInv, NEW i \in ID, loop[i] \in {"cleanup", "ending"}
    PROVE  main = At("join", i)
<1>1. Up \in Int /\ i \in Nat
  BY UpFacts, Names DEF IndInv, Stage
<1>2. ~ (i < Up)
  BY DEF IndInv, Stage, Live
<1>3. ~ (i > Up \/ (i = Up /\ ~ InBetween))
  BY DEF IndInv, Stage, Gone, HasLoop
<1>4. i = Up /\ InBetween
  BY <1>1, <1>2, <1>3
<1>5. i = main.id
  BY <1>4, UpFacts DEF IndInv, Stage, InBetween
<1>6. main.at = "join"
  BY <1>4, <1>5 DEF IndInv, Stage, InBetween, HasLoop
<1>7. main \in [at : {"init", "create", "start", "run", "stop", "join", "delete",
                     "destroy", "done"}, id : Nat]
  BY DEF IndInv, TypeOK
<1> QED  BY <1>5, <1>6, <1>7 DEF At

\* WebThreadImpl::CleanUp.
LEMMA CleanUpPreserves ==
    ASSUME IndInv, NEW i \in ID, CleanUp(i)
    PROVE  IndInv'
<1>1. /\ loop[i] = "cleanup" /\ loop' = [loop EXCEPT ![i] = "ending"]
      /\ globals' = (globals /\ ~ (i = IO /\ delegate))
      /\ UNCHANGED <<threads, object, tasks, lock, delegate, main, call, posts>>
  BY DEF CleanUp
<1>2. main = At("join", i)
  BY <1>1, EndingIsJoined
<1>3. Stage' /\ Calls'
  <2>1. HasLoop(i)
    BY <1>1 DEF HasLoop
  <2> QED  BY <1>1, <1>2, <2>1, PhasePreserves
<1>4. TypeOK'
  <2>1. globals' \in BOOLEAN
    BY <1>1
  <2> QED  BY <1>1, <2>1 DEF IndInv, TypeOK
<1>5. Delegate'
  <2>1. ASSUME globals' PROVE delegate /\ loop'[IO] \in {"running", "cleanup"}
    BY <1>1, <2>1, Names DEF IndInv, TypeOK, Delegate
  <2> QED  BY <1>1, <2>1 DEF IndInv, Delegate
<1> QED  BY <1>3, <1>4, <1>5 DEF IndInv

\* The message loop goes, with the lock held by anybody.
LEMMA MessageLoopEndsPreserves ==
    ASSUME IndInv, NEW i \in ID, MessageLoopEnds(i)
    PROVE  IndInv'
<1>1. /\ loop[i] = "ending" /\ loop' = [loop EXCEPT ![i] = "ended"]
      /\ tasks' = [tasks EXCEPT ![i] = 0] /\ call[i] = Idle
      /\ UNCHANGED <<threads, object, lock, delegate, globals, main, call, posts>>
  BY DEF MessageLoopEnds, delegatevars
<1>2. main = At("join", i)
  BY <1>1, EndingIsJoined
<1>3. Stage' /\ Calls'
  <2>1. HasLoop(i) /\ call[i].at = "idle"
    BY <1>1 DEF HasLoop, Idle
  <2> QED  BY <1>1, <1>2, <2>1, PhasePreserves
<1>4. TypeOK'
  <2>1. tasks' \in [ID -> Nat]
    BY <1>1 DEF IndInv, TypeOK
  <2> QED  BY <1>1, <2>1 DEF IndInv, TypeOK
<1>5. Delegate'
  <2>1. ASSUME globals' PROVE delegate /\ loop'[IO] \in {"running", "cleanup"}
    BY <1>1, <2>1, Names DEF IndInv, TypeOK, Delegate
  <2> QED  BY <1>1, <2>1 DEF IndInv, Delegate
<1> QED  BY <1>3, <1>4, <1>5 DEF IndInv

-----------------------------------------------------------------------------
(* The steps of WebMainLoop.                                               *)

\* What At builds.
LEMMA AtFacts ==
    ASSUME NEW step, NEW i
    PROVE  At(step, i).at = step /\ At(step, i).id = i
BY DEF At

\* The threads before the first one is created and after the last one is gone.
LEMMA PreCreatePreserves ==
    ASSUME IndInv, PreCreateThreads
    PROVE  IndInv'
<1>1. /\ main = At("init", UI) /\ main' = At("create", 1) /\ delegate' = TRUE
      /\ UNCHANGED <<threads, object, loop, tasks, lock, globals, call, posts>>
      /\ call[UI] = Idle
  BY DEF PreCreateThreads, threadvars
<1>2. main.at = "init" /\ main'.at = "create" /\ main'.id = 1
  BY <1>1, AtFacts
<1>3. TypeOK'
  <2>1. delegate' \in BOOLEAN
    BY <1>1
  <2> QED  BY <1>1, <2>1 DEF IndInv, TypeOK, At
<1>4. MainRange' /\ Up = 1 /\ Up' = 1 /\ ~ InBetween /\ ~ InBetween'
  <2>1. MainRange'
    BY <1>2, Names DEF MainRange
  <2> QED  BY <1>2, <2>1 DEF Up, InBetween
<1>5. \A i : (Live(i) => Live(i)') /\ (Gone(i) => Gone(i)')
  BY <1>1 DEF Live, Gone, HasLoop
<1>6. Stage'
  BY <1>2, <1>4, <1>5 DEF IndInv, Stage
<1>7. Calls'
  <2>1. \A a \in Actors : call[a].at # "idle" /\ CanCall(a) => CanCall(a)'
    BY <1>1, <1>2 DEF CanCall, HasLoop
  <2> QED  BY <1>1, <2>1, CallsStay DEF CallOK, HasLoop
<1>8. Delegate'
  BY <1>1, <1>2 DEF IndInv, Delegate
<1> QED  BY <1>3, <1>6, <1>7, <1>8 DEF IndInv

\* A thread is constructed.
LEMMA ConstructPreserves ==
    ASSUME IndInv, NEW i \in ID, Construct(i)
    PROVE  IndInv'
<1>1. /\ main = At("create", i) /\ main' = At("start", i) /\ i < Count
      /\ object' = [object EXCEPT ![i] = TRUE] /\ threads' = [threads EXCEPT ![i] = TRUE]
      /\ UNCHANGED <<loop, tasks, lock, delegate, globals, call, posts>>
      /\ call[UI] = Idle
  BY DEF Construct, delegatevars
<1>2. main.at = "create" /\ main'.at = "start" /\ main.id = i /\ main'.id = i
  BY <1>1, AtFacts
<1>3. TypeOK'
  BY <1>1, Names DEF IndInv, TypeOK, At
<1>4. MainRange' /\ Up = i /\ Up' = i /\ ~ InBetween /\ InBetween' /\ i \in Nat
  <2>1. MainRange'
    BY <1>1, <1>2, Names DEF IndInv, Stage, MainRange
  <2> QED  BY <1>2, <2>1, Names DEF Up, InBetween
<1>5. \A j \in ID \ {i} : (Live(j) => Live(j)') /\ (Gone(j) => Gone(j)')
  BY <1>1 DEF Live, Gone, HasLoop, IndInv, TypeOK
<1>6. threads'[i] /\ object'[i] /\ ~ HasLoop(i) /\ ~ HasLoop(i)'
  <2>1. Gone(i)
    BY <1>4 DEF IndInv, Stage
  <2> QED  BY <1>1, <2>1 DEF IndInv, TypeOK, Gone, HasLoop
<1>7. Stage'
  <2>1. \A j \in ID : j < Up' => Live(j)'
    BY <1>4, <1>5, Names DEF IndInv, Stage
  <2>2. \A j \in ID : j > Up' \/ (j = Up' /\ ~ InBetween') => Gone(j)'
    BY <1>4, <1>5, Names DEF IndInv, Stage
  <2>3. ~ HasLoop(main.id)'
    BY <1>1, <1>2, <1>6 DEF HasLoop
  <2> QED  BY <1>2, <1>4, <1>6, <2>1, <2>2, <2>3 DEF Stage
<1>8. Calls'
  <2>1. ASSUME NEW a \in Actors, call[a].at # "idle", CanCall(a) PROVE CanCall(a)'
    BY <1>1, <1>2, <2>1 DEF CanCall, HasLoop, Idle
  <2>2. ASSUME NEW a \in Actors, CallOK(a), call[a].at = "read", call[a].found
        PROVE  threads'[call[a].target]
    BY <1>1, <2>2, CallType DEF CallOK, IndInv, TypeOK
  <2> QED  BY <1>1, <2>1, <2>2, CallsStay DEF HasLoop
<1>9. Delegate'
  BY <1>1, <1>2 DEF IndInv, Delegate
<1> QED  BY <1>3, <1>7, <1>8, <1>9 DEF IndInv

\* And started.
LEMMA StartPreserves ==
    ASSUME IndInv, NEW i \in ID, StartWithOptions(i)
    PROVE  IndInv'
<1>1. /\ main = At("start", i) /\ main' = At("create", i + 1)
      /\ loop' = [loop EXCEPT ![i] = "starting"]
      /\ UNCHANGED <<threads, object, tasks, lock, delegate, globals, call, posts>>
  BY DEF StartWithOptions, delegatevars
<1>2. main.at = "start" /\ main'.at = "create" /\ main.id = i /\ main'.id = i + 1
  BY <1>1, AtFacts
<1>3. i \in Nat /\ i < Count /\ i + 1 \in Nat /\ i >= 1
  BY <1>2, Names DEF IndInv, Stage, MainRange
<1>4. TypeOK'
  BY <1>1, <1>3 DEF IndInv, TypeOK, At
<1>5. MainRange' /\ Up = i /\ Up' = i + 1 /\ InBetween /\ ~ InBetween'
  <2>1. MainRange'
    BY <1>2, <1>3, Names DEF MainRange
  <2> QED  BY <1>2, <2>1 DEF Up, InBetween
<1>6. \A j \in ID \ {i} : (Live(j) => Live(j)') /\ (Gone(j) => Gone(j)')
  BY <1>1 DEF Live, Gone, HasLoop, IndInv, TypeOK
<1>7. Live(i)'
  BY <1>1, <1>2 DEF IndInv, Stage, TypeOK, Live
<1>8. Stage'
  <2>1. ASSUME NEW j \in ID, j < i + 1 PROVE Live(j)'
    <3>1. j = i \/ j < i
      BY <1>3, <2>1, Names
    <3> QED  BY <1>5, <1>6, <1>7, <3>1, <1>3 DEF IndInv, Stage
  <2>2. ASSUME NEW j \in ID, j >= i + 1 PROVE Gone(j)'
    <3>1. j > i /\ j # i
      BY <1>3, <2>2, Names
    <3> QED  BY <1>5, <1>6, <3>1 DEF IndInv, Stage
  <2>3. \A j \in ID : j > i + 1 \/ j = i + 1 => j >= i + 1
    BY <1>3, Names
  <2> QED  BY <1>2, <1>5, <2>1, <2>2, <2>3 DEF Stage
<1>9. Calls'
  <2>1. ASSUME NEW a \in Actors, call[a].at # "idle", CanCall(a) PROVE CanCall(a)'
    BY <1>1, <1>2, <2>1, Names DEF CanCall, HasLoop, IndInv, TypeOK
  <2>2. \A j \in ID : HasLoop(j) => HasLoop(j)'
    BY <1>1 DEF HasLoop, IndInv, TypeOK
  <2> QED  BY <1>1, <2>1, <2>2, CallsStay DEF CallOK
<1>10. Delegate'
  <2>1. globals => IO # i
    BY <1>2, Names DEF IndInv, Stage, Delegate, HasLoop
  <2> QED  BY <1>1, <1>2, <2>1, Names DEF IndInv, Delegate, TypeOK
<1> QED  BY <1>4, <1>8, <1>9, <1>10 DEF IndInv

\* All threads are there.
LEMMA CreatedPreserves ==
    ASSUME IndInv, ThreadsCreated
    PROVE  IndInv'
<1>1. /\ main = At("create", Count) /\ main' = At("run", UI)
      /\ UNCHANGED <<threads, object, loop, tasks, lock, delegate, globals, call, posts>>
  BY DEF ThreadsCreated, threadvars, delegatevars
<1>2. main.at = "create" /\ main'.at = "run" /\ main.id = Count /\ main'.id = UI
  BY <1>1, AtFacts
<1>3. TypeOK'
  BY <1>1, Names DEF IndInv, TypeOK, At
<1>4. MainRange' /\ Up = Count /\ Up' = Count /\ ~ InBetween /\ ~ InBetween'
  <2>1. MainRange'
    BY <1>2 DEF MainRange
  <2> QED  BY <1>2, <2>1 DEF Up, InBetween
<1>5. \A i : (Live(i) => Live(i)') /\ (Gone(i) => Gone(i)')
  BY <1>1 DEF Live, Gone, HasLoop
<1>6. Stage'
  BY <1>2, <1>4, <1>5 DEF IndInv, Stage
<1>7. Calls'
  <2>1. \A a \in Actors : call[a].at # "idle" /\ CanCall(a) => CanCall(a)'
    BY <1>1, <1>2 DEF CanCall, HasLoop
  <2> QED  BY <1>1, <2>1, CallsStay DEF CallOK, HasLoop
<1>8. Delegate'
  BY <1>1, <1>2 DEF IndInv, Delegate
<1> QED  BY <1>3, <1>6, <1>7, <1>8 DEF IndInv

\* The shutdown begins.
LEMMA ShutdownPreserves ==
    ASSUME IndInv, ShutdownThreadsAndCleanUp
    PROVE  IndInv'
<1> DEFINE r == [at |-> "scan", id |-> 0, target |-> IO, found |-> FALSE]
<1>1. /\ main = At("run", UI) /\ main' = At("stop", Count - 1)
      /\ UNCHANGED <<threads, object, loop, tasks, lock, delegate, globals, posts>>
      /\ call' = [call EXCEPT ![UI] = r] /\ call[UI] = Idle
  BY DEF ShutdownThreadsAndCleanUp, Begin, threadvars, delegatevars
<1>2. main.at = "run" /\ main'.at = "stop" /\ main'.id = Count - 1
  BY <1>1, AtFacts
<1>3. UI \in Actors /\ UI \in ID /\ lock # UI
  BY <1>1, Names DEF IndInv, TypeOK, Idle
<1>4. r \in [at : Steps, id : 0 .. Count, target : ID, found : BOOLEAN]
  BY Names DEF Steps
<1>5. TypeOK'
  <2>1. call' \in [Actors -> [at : Steps, id : 0 .. Count, target : ID, found : BOOLEAN]]
    BY <1>1, <1>4 DEF IndInv, TypeOK
  <2>2. \A b \in Actors : lock' = b => call'[b].at \in {"lookup", "read", "deliver"}
    BY <1>1, <1>3 DEF IndInv, TypeOK
  <2>3. Count - 1 \in Nat
    BY Names
  <2> QED  BY <1>1, <2>1, <2>2, <2>3 DEF IndInv, TypeOK, At
<1>6. MainRange' /\ Up = Count /\ Up' = Count /\ ~ InBetween /\ ~ InBetween'
  <2>1. MainRange'
    BY <1>2, Names DEF MainRange
  <2> QED  BY <1>2, <2>1, Names DEF Up, InBetween
<1>7. \A i : (Live(i) => Live(i)') /\ (Gone(i) => Gone(i)')
  BY <1>1 DEF Live, Gone, HasLoop
<1>8. Stage'
  BY <1>2, <1>6, <1>7 DEF IndInv, Stage
<1>9. Calls'
  <2>1. CallOK(UI)'
    <3>1. call'[UI] = r
      BY <1>1, <1>3 DEF IndInv, TypeOK
    <3>2. CanCall(UI)'
      BY <1>2, Names DEF CanCall
    <3> QED  BY <3>1, <3>2, Names DEF CallOK, UI
  <2>2. ASSUME NEW b \in Actors \ {UI} PROVE CallOK(b)'
    <3>1. call'[b] = call[b]
      BY <1>1 DEF IndInv, TypeOK
    <3>2. CanCall(b) => CanCall(b)'
      BY <1>1, <1>2 DEF CanCall, HasLoop
    <3> QED  BY <1>1, <3>1, <3>2 DEF IndInv, Calls, CallOK, HasLoop
  <2> QED  BY <2>1, <2>2 DEF Calls
<1>10. Delegate'
  BY <1>1, <1>2 DEF IndInv, Delegate
<1> QED  BY <1>5, <1>8, <1>9, <1>10 DEF IndInv

\* The destructor stops the thread.
LEMMA StopPreserves ==
    ASSUME IndInv, NEW i \in ID, StopThread(i)
    PROVE  IndInv'
<1>1. /\ main = At("stop", i) /\ main' = At("join", i) /\ i > UI
      /\ UNCHANGED <<threads, object, loop, tasks, lock, delegate, globals, call, posts>>
      /\ call[UI] = Idle
  BY DEF StopThread, threadvars, delegatevars
<1>2. main.at = "stop" /\ main'.at = "join" /\ main.id = i /\ main'.id = i
  BY <1>1, AtFacts
<1>3. i \in Nat /\ i >= 1 /\ i < Count
  BY <1>1, Names DEF UI
<1>4. TypeOK'
  BY <1>1, <1>3 DEF IndInv, TypeOK, At
<1>5. MainRange' /\ Up = i + 1 /\ Up' = i /\ InBetween'
  <2>1. MainRange'
    BY <1>2, <1>3, Names DEF MainRange
  <2> QED  BY <1>2, <2>1 DEF Up, InBetween
<1>6. \A j : (Live(j) => Live(j)') /\ (Gone(j) => Gone(j)')
  BY <1>1 DEF Live, Gone, HasLoop
<1>7. Stage'
  <2>1. ASSUME NEW j \in ID, j < i PROVE Live(j)'
    <3>1. j < i + 1
      BY <1>3, <2>1, Names
    <3> QED  BY <1>5, <1>6, <3>1 DEF IndInv, Stage
  <2>2. ASSUME NEW j \in ID, j > i PROVE Gone(j)'
    <3>1. j > i + 1 \/ j = i + 1
      BY <1>3, <2>2, Names
    <3>2. ~ InBetween
      BY <1>2 DEF InBetween
    <3> QED  BY <1>5, <1>6, <3>1, <3>2 DEF IndInv, Stage
  <2>3. threads'[i] /\ object'[i]
    <3>1. i < Up
      BY <1>3, <1>5
    <3> QED  BY <1>1, <3>1 DEF IndInv, Stage, Live
  <2> QED  BY <1>2, <1>5, <2>1, <2>2, <2>3 DEF Stage
<1>8. Calls'
  <2>1. ASSUME NEW a \in Actors, call[a].at # "idle", CanCall(a) PROVE CanCall(a)'
    BY <1>1, <1>2, <2>1 DEF CanCall, HasLoop, Idle
  <2> QED  BY <1>1, <2>1, CallsStay DEF CallOK, HasLoop
<1>9. Delegate'
  BY <1>1, <1>2 DEF IndInv, Delegate
<1> QED  BY <1>4, <1>7, <1>8, <1>9 DEF IndInv

\* It removes the thread from the array: nobody holds a pointer to it that will
\* still be used, with the lock or without.
LEMMA UnregisterPreserves ==
    ASSUME IndInv, NEW i \in ID, Unregister(i)
    PROVE  IndInv'
<1>1. /\ main = At("join", i) /\ main' = At("delete", i) /\ loop[i] = "ended" /\ lock = Free
      /\ threads' = [threads EXCEPT ![i] = FALSE]
      /\ UNCHANGED <<object, loop, tasks, lock, delegate, globals, call, posts>>
  BY DEF Unregister, delegatevars
<1>2. main.at = "join" /\ main'.at = "delete" /\ main.id = i /\ main'.id = i
  BY <1>1, AtFacts
<1>3. i \in Nat /\ i >= 1 /\ i < Count
  BY <1>2, Names DEF IndInv, Stage, MainRange
<1>4. TypeOK'
  BY <1>1, <1>3 DEF IndInv, TypeOK, At
<1>5. MainRange' /\ Up = i /\ Up' = i /\ InBetween'
  <2>1. MainRange'
    BY <1>2, <1>3, Names DEF MainRange
  <2> QED  BY <1>2, <2>1 DEF Up, InBetween
<1>6. \A j \in ID \ {i} : (Live(j) => Live(j)') /\ (Gone(j) => Gone(j)')
  BY <1>1 DEF Live, Gone, HasLoop, IndInv, TypeOK
<1>7. Stage'
  <2>1. \A j \in ID : j < i => Live(j)'
    BY <1>3, <1>5, <1>6, Names DEF IndInv, Stage
  <2>2. \A j \in ID : j > i => Gone(j)'
    BY <1>3, <1>5, <1>6, Names DEF IndInv, Stage
  <2>3. ~ threads'[i] /\ object'[i]
    BY <1>1, <1>2 DEF IndInv, Stage, TypeOK
  <2>4. ~ HasLoop(main.id)'
    BY <1>1, <1>2 DEF HasLoop
  <2> QED  BY <1>2, <1>5, <2>1, <2>2, <2>3, <2>4 DEF Stage
<1>8. Calls'
  <2>1. ASSUME NEW a \in Actors, call[a].at # "idle", CanCall(a) PROVE CanCall(a)'
    BY <1>1, <1>2, <2>1 DEF CanCall, HasLoop
  <2>2. ASSUME NEW a \in Actors, CallOK(a), call[a].at = "read", call[a].found
        PROVE  threads'[call[a].target]
    <3>1. a \in ID /\ call[a].target <= a /\ CanCall(a) /\ call[a].target \in ID
      BY <1>1, <2>2, CallType, Names DEF CallOK, IndInv
    <3>2. a # i
      BY <1>1, <1>3, <3>1 DEF CanCall, HasLoop, UI
    <3>3. ~ (a > i)
      <4>1. ASSUME a > i PROVE FALSE
        <5>1. Gone(a)
          BY <1>5, <3>1, <4>1 DEF IndInv, Stage
        <5>2. a # UI
          BY <1>3, <3>1, <4>1, Names DEF UI
        <5> QED  BY <3>1, <5>1, <5>2 DEF CanCall, Gone
      <4> QED  BY <4>1
    <3>4. call[a].target # i
      <4>0. \A j \in ID : j \in Int
        BY Names
      <4>1. call[a].target \in Int /\ a \in Int /\ i \in Int
        BY <3>1, <4>0, Zenon
      <4>2. call[a].target < i
        BY <3>1, <3>2, <3>3, <4>1
      <4> QED  BY <4>1, <4>2
    <3> QED  BY <1>1, <2>2, <3>1, <3>4 DEF CallOK, IndInv, TypeOK
  <2> QED  BY <1>1, <2>1, <2>2, CallsStay DEF HasLoop
<1>9. Delegate'
  BY <1>1, <1>2 DEF IndInv, Delegate
<1> QED  BY <1>4, <1>7, <1>8, <1>9 DEF IndInv

\* And its memory is freed.
LEMMA DeletePreserves ==
    ASSUME IndInv, NEW i \in ID, DeleteThread(i)
    PROVE  IndInv'
<1>1. /\ main = At("delete", i) /\ main' = At("stop", i - 1)
      /\ object' = [object EXCEPT ![i] = FALSE]
      /\ UNCHANGED <<threads, loop, tasks, lock, delegate, globals, call, posts>>
  BY DEF DeleteThread, delegatevars
<1>2. main.at = "delete" /\ main'.at = "stop" /\ main.id = i /\ main'.id = i - 1
  BY <1>1, AtFacts
<1>3. i \in Nat /\ i >= 1 /\ i < Count /\ i - 1 \in Nat
  BY <1>2, Names DEF IndInv, Stage, MainRange
<1>4. TypeOK'
  BY <1>1, <1>3 DEF IndInv, TypeOK, At
<1>5. MainRange' /\ Up = i /\ Up' = i /\ ~ InBetween'
  <2>1. MainRange'
    BY <1>2, <1>3, Names DEF MainRange
  <2> QED  BY <1>2, <1>3, <2>1 DEF Up, InBetween
<1>6. \A j \in ID \ {i} : (Live(j) => Live(j)') /\ (Gone(j) => Gone(j)')
  BY <1>1 DEF Live, Gone, HasLoop, IndInv, TypeOK
<1>7. Gone(i)'
  BY <1>1, <1>2 DEF Gone, HasLoop, IndInv, Stage, TypeOK
<1>8. Stage'
  <2>1. \A j \in ID : j < i => Live(j)'
    BY <1>3, <1>5, <1>6, Names DEF IndInv, Stage
  <2>2. \A j \in ID : j > i \/ j = i => Gone(j)'
    BY <1>3, <1>5, <1>6, <1>7, Names DEF IndInv, Stage
  <2> QED  BY <1>2, <1>5, <2>1, <2>2 DEF Stage
<1>9. Calls'
  <2>1. ASSUME NEW a \in Actors, call[a].at # "idle", CanCall(a) PROVE CanCall(a)'
    BY <1>1, <1>2, <2>1 DEF CanCall, HasLoop
  <2> QED  BY <1>1, <2>1, CallsStay DEF CallOK, HasLoop
<1>10. Delegate'
  BY <1>1, <1>2 DEF IndInv, Delegate
<1> QED  BY <1>4, <1>8, <1>9, <1>10 DEF IndInv

\* The pool is shut down and the delegate destroyed: the IO thread has ended.
LEMMA PostDestroyPreserves ==
    ASSUME IndInv, PostDestroyThreads
    PROVE  IndInv'
<1>1. /\ main = At("stop", UI) /\ main' = At("destroy", UI) /\ ~ delegate'
      /\ UNCHANGED <<threads, object, loop, tasks, lock, globals, call, posts>>
      /\ call[UI] = Idle /\ \A w \in Workers : call[w] = Idle
  BY DEF PostDestroyThreads, threadvars
<1>2. main.at = "stop" /\ main'.at = "destroy" /\ main.id = UI /\ main'.id = UI
  BY <1>1, AtFacts
<1>3. delegate' = FALSE
  BY DEF PostDestroyThreads
<1>4. TypeOK'
  BY <1>1, <1>3 DEF IndInv, TypeOK, At, UI
<1>5. MainRange' /\ Up = 1 /\ Up' = 1 /\ ~ InBetween /\ ~ InBetween'
  <2>1. MainRange'
    BY <1>2 DEF MainRange
  <2> QED  BY <1>2, <2>1 DEF Up, InBetween, UI
<1>6. \A j : (Live(j) => Live(j)') /\ (Gone(j) => Gone(j)')
  BY <1>1 DEF Live, Gone, HasLoop
<1>7. Stage'
  BY <1>2, <1>5, <1>6 DEF IndInv, Stage
<1>8. Calls'
  <2>1. ASSUME NEW a \in Actors, call[a].at # "idle", CanCall(a) PROVE CanCall(a)'
    BY <1>1, <2>1 DEF CanCall, HasLoop, Idle
  <2> QED  BY <1>1, <2>1, CallsStay DEF CallOK, HasLoop
<1>9. Delegate'
  <2>1. IO \in ID /\ IO >= 1
    BY Names, WebThreadAssumption DEF IO
  <2>2. Gone(IO)
    BY <1>5, <2>1, Names DEF IndInv, Stage
  <2>3. ~ globals
    BY <2>2 DEF IndInv, Delegate, Gone, HasLoop
  <2> QED  BY <1>1, <1>2, <2>3 DEF Delegate
<1> QED  BY <1>4, <1>7, <1>8, <1>9 DEF IndInv

\* The main thread goes last, when nobody is in a call any more.
LEMMA DeleteMainPreserves ==
    ASSUME IndInv, DeleteMainThread
    PROVE  IndInv'
<1>1. /\ main = At("destroy", UI) /\ main' = At("done", UI) /\ lock = Free
      /\ threads' = [threads EXCEPT ![UI] = FALSE]
      /\ object' = [object EXCEPT ![UI] = FALSE]
      /\ loop' = [loop EXCEPT ![UI] = "ended"]
      /\ UNCHANGED <<tasks, lock, delegate, globals, call, posts>>
  BY DEF DeleteMainThread, delegatevars
<1>2. main.at = "destroy" /\ main'.at = "done" /\ main.id = UI /\ main'.id = UI
  BY <1>1, AtFacts
<1>3. TypeOK'
  BY <1>1 DEF IndInv, TypeOK, At, UI
<1>4. MainRange' /\ Up = 1 /\ Up' = 0 /\ ~ InBetween
  <2>1. MainRange'
    BY <1>2 DEF MainRange
  <2> QED  BY <1>2, <2>1 DEF Up, InBetween
<1>5. ASSUME NEW i \in ID PROVE Gone(i)'
  <2>1. CASE i = UI
    BY <1>1, <2>1 DEF Gone, HasLoop, IndInv, TypeOK
  <2>2. CASE i # UI
    <3>1. i >= 1
      BY <2>2, Names DEF UI
    <3>2. Gone(i)
      BY <1>4, <3>1, Names DEF IndInv, Stage
    <3> QED  BY <1>1, <2>2, <3>2 DEF Gone, HasLoop, IndInv, TypeOK
  <2> QED  BY <2>1, <2>2
<1>6. Stage'
  <2>1. \A i \in ID : ~ (i < 0)
    BY Names
  <2> QED  BY <1>2, <1>4, <1>5, <2>1 DEF Stage
<1>7. ASSUME NEW a \in Actors PROVE call[a] = Idle
  <2>1. CASE a \in Workers \/ a = UI
    BY <1>2, <2>1 DEF IndInv, Calls, CallOK, CanCall
  <2>2. CASE a \in ID \ {UI}
    <3>1. a > 1 \/ a = 1
      BY <2>2, Names DEF UI
    <3>2. Gone(a)
      BY <1>4, <2>2, <3>1 DEF IndInv, Stage
    <3> QED  BY <2>2, <3>2 DEF IndInv, Calls, CallOK, CanCall, Gone
  <2> QED  BY <2>1, <2>2, Names
<1>8. Calls'
  BY <1>1, <1>7 DEF Calls, CallOK, Idle
<1>9. Delegate'
  BY <1>1, <1>2 DEF IndInv, Delegate
<1> QED  BY <1>3, <1>6, <1>8, <1>9 DEF IndInv

-----------------------------------------------------------------------------
(* The theorems.                                                           *)

\* After InitializeMainThread only the main thread exists.
LEMMA InitEstablishes == Init => IndInv
<1> SUFFICES ASSUME Init PROVE IndInv
  OBVIOUS
<1>1. main.at = "init" /\ main.id = UI
  BY AtFacts DEF Init
<1>2. call = [a \in Actors |-> Idle] /\ \A a \in Actors : call[a] = Idle
  BY DEF Init
<1>3. Idle \in [at : Steps, id : 0 .. Count, target : ID, found : BOOLEAN]
  BY Names DEF Idle, Steps, UI
<1>4. lock = Free /\ lock \notin Actors
  BY Names DEF Init
<1>5. TypeOK
  <2>1. call \in [Actors -> [at : Steps, id : 0 .. Count, target : ID, found : BOOLEAN]]
    BY <1>2, <1>3
  <2>2. posts \in 0 .. MaxPosts
    BY WebThreadAssumption DEF Init
  <2>3. main \in [at : {"init", "create", "start", "run", "stop", "join", "delete",
                        "destroy", "done"}, id : Nat]
    BY DEF Init, At, UI
  <2>4. \A a \in Actors : lock # a
    BY <1>4
  <2> QED  BY <1>4, <2>1, <2>2, <2>3, <2>4 DEF Init, TypeOK
<1>6. MainRange /\ Up = 1 /\ ~ InBetween
  BY <1>1 DEF MainRange, Up, InBetween
<1>7. \A i \in ID : i = UI => Live(i)
  BY DEF Init, Live
<1>8. \A i \in ID : i # UI => Gone(i)
  BY DEF Init, Gone, HasLoop
<1>9. \A i \in ID : (i < 1 => i = UI) /\ (i > 1 \/ i = 1 => i # UI)
  BY Names DEF UI
<1>10. Stage
  BY <1>1, <1>6, <1>7, <1>8, <1>9 DEF Stage
<1>11. Calls
  BY <1>2 DEF Calls, CallOK, Idle
<1>12. Delegate
  BY <1>1 DEF Init, Delegate
<1> QED  BY <1>5, <1>10, <1>11, <1>12 DEF IndInv

\* A step that changes nothing keeps the invariant.
LEMMA StutterPreserves ==
    ASSUME IndInv, UNCHANGED vars
    PROVE  IndInv'
<1>1. UNCHANGED <<threads, object, loop, tasks, lock, delegate, globals, main, call, posts>>
  BY DEF vars, threadvars, delegatevars
<1>2. TypeOK'
  BY <1>1 DEF IndInv, TypeOK
<1>3. MainRange' /\ Up' = Up /\ (InBetween' <=> InBetween)
  BY <1>1 DEF IndInv, Stage, MainRange, Up, InBetween
<1>4. \A j : (Live(j) => Live(j)') /\ (Gone(j) => Gone(j)')
  BY <1>1 DEF Live, Gone, HasLoop
<1>5. Stage'
  BY <1>1, <1>3, <1>4 DEF IndInv, Stage, HasLoop
<1>6. Calls'
  <2>1. \A a \in Actors : CanCall(a) => CanCall(a)'
    BY <1>1 DEF CanCall, HasLoop
  <2> QED  BY <1>1, <2>1 DEF IndInv, Calls, CallOK, HasLoop
<1>7. Delegate'
  BY <1>1 DEF IndInv, Delegate
<1> QED  BY <1>2, <1>5, <1>6, <1>7 DEF IndInv

\* Every step of every thread keeps the invariant: the calls of PostTaskHelper, the
\* lives of the threads and the steps of WebMainLoop.
THEOREM InvariantPreserved == IndInv /\ [Next]_vars => IndInv'
<1> SUFFICES ASSUME IndInv, [Next]_vars PROVE IndInv'
  OBVIOUS
<1>1. CASE \E a \in Actors, target \in ID : PostTask(a, target)
  BY <1>1, PostTaskPreserves
<1>2. CASE \E a \in Actors : CallStep(a)
  BY <1>2, ScanPreserves, ComparePreserves, AcquirePreserves, LookupPreserves,
     ReadMessageLoopPreserves, DeliverPreserves
     DEF CallStep
<1>3. CASE \E i \in ID : RunTask(i) \/ ThreadStep(i)
  BY <1>3, RunTaskPreserves, InitThreadPreserves, QuitWhenIdlePreserves, CleanUpPreserves,
     MessageLoopEndsPreserves
     DEF ThreadStep
<1>4. CASE MainStep
  BY <1>4, PreCreatePreserves, CreatedPreserves, PostDestroyPreserves, DeleteMainPreserves,
     ConstructPreserves, StartPreserves, StopPreserves, UnregisterPreserves, DeletePreserves
     DEF MainStep
<1>5. CASE ShutdownThreadsAndCleanUp
  BY <1>5, ShutdownPreserves
<1>6. CASE UNCHANGED vars
  BY <1>6, StutterPreserves
<1> QED  BY <1>1, <1>2, <1>3, <1>4, <1>5, <1>6 DEF Next

\* The invariant holds in every behaviour of the threads.
LEMMA InvariantHolds == Spec => []IndInv
<1> QED  BY InitEstablishes, InvariantPreserved, PTL DEF Spec

\* Every variable has its type, and globals.lock is held only by a thread that is
\* looking its target up in PostTaskHelper.
THEOREM TypeCorrect == Spec => []TypeOK
<1>1. IndInv => TypeOK
  BY DEF IndInv
<1> QED  BY <1>1, InvariantHolds, PTL

\* PostTaskHelper asks only registered threads for their message loops, and a named
\* thread meets only registered ones in GetCurrentThreadIdentifier, which has no lock.
\* The message loop it posts to is there when the main thread calls, or a thread that
\* the target outlives.  (PostTaskSafe says this of every caller, and is violated.)
THEOREM PointersAreSafe == Spec => []NoDanglingPointer
<1>1. IndInv => NoDanglingPointer
  BY Implied
<1> QED  BY <1>1, InvariantHolds, PTL

\* The shortcut of PostTaskHelper is right: a target that outlives the caller is
\* registered and has its message loop while the caller looks for it without the lock.
THEOREM ShortcutIsSound == Spec => []OutlivedReached
<1>1. IndInv => OutlivedReached
  BY Implied
<1> QED  BY <1>1, InvariantHolds, PTL

\* CreateThreads and ShutdownThreadsAndCleanUp keep the order of the list: whoever
\* is registered, or runs, has every thread before it registered and running.
THEOREM LifetimesAreNested == Spec => []ListedByLifetime
<1>1. IndInv => ListedByLifetime
  BY Implied
<1> QED  BY <1>1, InvariantHolds, PTL

\* The IO thread's delegate exists from its Init to its CleanUp, which balances it.
THEOREM DelegateIsBalanced == Spec => []DelegateBalanced
<1>1. IndInv => DelegateBalanced
  BY Implied
<1> QED  BY <1>1, InvariantHolds, PTL
=============================================================================
