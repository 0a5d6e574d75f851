---------------------- MODULE SessionServiceIOSProofs -----------------------
(***************************************************************************)
(* Saving and restoring the tabs, for every set of tabs and every number of *)
(* events: the invariants of SessionServiceIOS are inductive once it is     *)
(* known what a process that is gone leaves behind and when the factory of  *)
(* a delayed save has lost its model.                                      *)
(***************************************************************************)
EXTENDS SessionServiceIOS, SequenceLemmas

\* A process that is gone leaves its files; what they restore is what it had saved.
Gone ==
    app = "gone" =>
        /\ queue = << >>
        /\ \A p \in Models : pending[p] = "none"
        /\ ~ infobar
        /\ ended.file = LoadSession(disk["main"])
        /\ ended.saved => ended.tabs = ended.file

\* Only the incognito model goes, and no save of the new one was asked for since.
GoneFactory ==
    \A p \in Models : pending[p] = "gone" => p = "otr" /\ ~ requested[p]

\* In the background the incognito model goes away only with no tabs left in it.
GoneInBackground ==
    app = "background" /\ pending["otr"] = "gone" /\ ~ swept => tabs["otr"] = {}

IndInv ==
    /\ TypeOK
    /\ NoSaveLost
    /\ SavedInBackground
    /\ IncognitoGone
    /\ InfobarHonest
    /\ Gone
    /\ GoneFactory
    /\ GoneInBackground

-----------------------------------------------------------------------------
(* The queue and the disk.                                                 *)

\* The contents and the tasks of the model have their types.
LEMMA ContentFacts ==
    /\ NoFile \in Content /\ LoadSession(NoFile) = {}
    /\ NilSession \in Content /\ LoadSession(NilSession) = {}
    /\ \A ts \in SUBSET Tabs : Session(ts) \in Content /\ LoadSession(Session(ts)) = ts
    /\ \A c \in Content : LoadSession(c) \in SUBSET Tabs
    /\ \A p \in Models, c \in Content :
          Write(p, c) \in Task /\ Write(p, c).path = p /\ Write(p, c).data = c
    /\ \A p \in Models : Delete(p) \in Task /\ Delete(p).path = p /\ Delete(p).data = NoFile
BY DEF NoFile, NilSession, Session, Content, LoadSession, Write, Delete, Task

\* The queue decides what a file ends as.
LEMMA EndsAsUnique ==
    ASSUME queue \in Seq(Task), NEW p, NEW b, NEW c, EndsAs(p, b), EndsAs(p, c)
    PROVE  b = c
<1>1. DOMAIN queue = 1 .. Len(queue) /\ Len(queue) \in Nat
  BY LenProperties
<1> QED  BY <1>1 DEF EndsAs

\* A task for another file changes nothing for this one.
LEMMA AppendOther ==
    ASSUME queue \in Seq(Task), NEW t \in Task, NEW p \in Models, NEW ts,
           queue' = Append(queue, t), t.path # p, disk' = disk,
           WillRestore(p, ts)
    PROVE  WillRestore(p, ts)'
<1>1. PICK c \in Content : EndsAs(p, c) /\ LoadSession(c) = ts
  BY DEF WillRestore
<1>2. /\ DOMAIN queue = 1 .. Len(queue) /\ Len(queue) \in Nat
      /\ DOMAIN queue' = 1 .. Len(queue) + 1
      /\ \A i \in 1 .. Len(queue) : queue'[i] = queue[i]
      /\ queue'[Len(queue) + 1] = t
  BY LenProperties
<1>3. EndsAs(p, c)'
  <2>1. CASE \E i \in DOMAIN queue :
               /\ queue[i].path = p
               /\ queue[i].data = c
               /\ \A j \in DOMAIN queue : queue[j].path = p => j <= i
    BY <1>2, <2>1 DEF EndsAs
  <2>2. CASE (\A i \in DOMAIN queue : queue[i].path # p) /\ disk[p] = c
    BY <1>2, <2>2 DEF EndsAs
  <2> QED  BY <1>1, <2>1, <2>2 DEF EndsAs
<1> QED  BY <1>1, <1>3 DEF WillRestore

\* The last task for a file decides.
LEMMA AppendMine ==
    ASSUME queue \in Seq(Task), NEW t \in Task, NEW p, NEW ts,
           queue' = Append(queue, t), t.path = p, LoadSession(t.data) = ts
    PROVE  WillRestore(p, ts)' /\ queue' \in Seq(Task)
<1>1. /\ Len(queue) \in Nat
      /\ DOMAIN queue' = 1 .. Len(queue) + 1
      /\ queue'[Len(queue) + 1] = t
  BY LenProperties
<1>2. EndsAs(p, t.data)'
  BY <1>1 DEF EndsAs
<1>3. t.data \in Content
  BY DEF Task
<1>4. queue' \in Seq(Task)
  BY AppendProperties
<1> QED  BY <1>2, <1>3, <1>4 DEF WillRestore

\* Saving both models at once.
LEMMA AppendBoth ==
    ASSUME queue \in Seq(Task), NEW s \in Task, NEW t \in Task, s.path # t.path,
           queue' = Append(Append(queue, s), t),
           LoadSession(s.data) = tabs'[s.path], LoadSession(t.data) = tabs'[t.path]
    PROVE  WillRestore(s.path, tabs[s.path])' /\ WillRestore(t.path, tabs[t.path])'
<1>1. /\ Len(queue) \in Nat
      /\ DOMAIN queue' = 1 .. Len(queue) + 2
      /\ queue'[Len(queue) + 1] = s
      /\ queue'[Len(queue) + 2] = t
  <2> DEFINE once == Append(queue, s)
  <2>1. Len(queue) \in Nat
    BY LenProperties
  <2>2. once \in Seq(Task) /\ Len(once) = Len(queue) + 1 /\ once[Len(queue) + 1] = s
    BY <2>1, AppendProperties
  <2> HIDE DEF once
  <2>3. queue' = Append(once, t)
    BY DEF once
  <2>4. queue' \in Seq(Task) /\ Len(queue') = Len(once) + 1
    BY <2>2, <2>3, AppendProperties
  <2>5. queue'[Len(queue) + 1] = s /\ queue'[Len(queue) + 2] = t
    BY <2>1, <2>2, <2>3, AppendProperties
  <2>6. DOMAIN queue' = 1 .. Len(queue')
    BY <2>4, LenProperties
  <2> QED  BY <2>1, <2>2, <2>4, <2>5, <2>6
<1>2. EndsAs(s.path, s.data)' /\ EndsAs(t.path, t.data)'
  <2>1. Len(queue) + 1 \in DOMAIN queue' /\ Len(queue) + 2 \in DOMAIN queue'
    BY <1>1
  <2>2. ASSUME NEW j \in DOMAIN queue', queue'[j].path = s.path
        PROVE  j <= Len(queue) + 1
    BY <1>1, <2>2
  <2>3. \A j \in DOMAIN queue' : j <= Len(queue) + 2
    BY <1>1
  <2>4. EndsAs(s.path, s.data)'
    BY <1>1, <2>1, <2>2 DEF EndsAs
  <2>5. EndsAs(t.path, t.data)'
    BY <1>1, <2>1, <2>3 DEF EndsAs
  <2> QED  BY <2>4, <2>5
<1>3. s.data \in Content /\ t.data \in Content
  BY DEF Task
<1>4. WillRestore(s.path, tabs[s.path])'
  BY <1>2, <1>3 DEF WillRestore
<1>5. WillRestore(t.path, tabs[t.path])'
  BY <1>2, <1>3 DEF WillRestore
<1> QED  BY <1>4, <1>5

\* Running the first task of the queue changes nothing of what the files end as.
LEMMA RunTaskKeeps ==
    ASSUME TypeOK, RunTask, NEW p \in Models, NEW ts, WillRestore(p, ts)
    PROVE  WillRestore(p, ts)'
<1>1. PICK c \in Content : EndsAs(p, c) /\ LoadSession(c) = ts
  BY DEF WillRestore
<1>2. /\ queue \in Seq(Task) /\ queue # << >>
      /\ queue' = Tail(queue)
      /\ disk' = [disk EXCEPT ![queue[1].path] = queue[1].data]
      /\ disk \in [Models -> Content]
  <2>1. queue \in Seq(Task) /\ queue # << >> /\ disk \in [Models -> Content]
    BY DEF RunTask, TypeOK
  <2>2. Head(queue) = queue[1]
    BY <2>1, HeadTailProperties
  <2> QED  BY <2>1, <2>2 DEF RunTask
<1>3. /\ DOMAIN queue = 1 .. Len(queue) /\ Len(queue) \in Nat \ {0}
      /\ DOMAIN queue' = 1 .. Len(queue) - 1
      /\ \A i \in 1 .. Len(queue) - 1 : queue'[i] = queue[i + 1]
  BY <1>2, LenProperties, EmptySeq, HeadTailProperties
<1>4. EndsAs(p, c)'
  <2>0. ASSUME NEW k \in DOMAIN queue'
        PROVE  k + 1 \in 1 .. Len(queue) /\ k + 1 # 1 /\ queue'[k] = queue[k + 1]
    BY <1>3
  <2>1. CASE \E i \in DOMAIN queue :
               /\ queue[i].path = p
               /\ queue[i].data = c
               /\ \A j \in DOMAIN queue : queue[j].path = p => j <= i
    <3>1. PICK i \in 1 .. Len(queue) :
               /\ queue[i].path = p
               /\ queue[i].data = c
               /\ \A j \in 1 .. Len(queue) : queue[j].path = p => j <= i
      BY <1>3, <2>1
    <3>2. CASE i = 1
      <4>1. ASSUME NEW k \in DOMAIN queue' PROVE queue'[k].path # p
        <5>1. ~ (k + 1 <= 1)
          BY <1>3
        <5> QED  BY <2>0, <3>1, <3>2, <5>1
      <4>2. disk'[p] = c
        BY <1>2, <3>1, <3>2
      <4> QED  BY <4>1, <4>2 DEF EndsAs
    <3>3. CASE i # 1
      <4>1. i - 1 \in DOMAIN queue' /\ queue'[i - 1] = queue[i]
        BY <1>3, <3>3
      <4>2. \A k \in DOMAIN queue' : queue'[k].path = p => k <= i - 1
        BY <1>3, <3>1
      <4> QED  BY <3>1, <4>1, <4>2 DEF EndsAs
    <3> QED  BY <3>2, <3>3
  <2>2. CASE (\A i \in DOMAIN queue : queue[i].path # p) /\ disk[p] = c
    <3>1. ASSUME NEW k \in DOMAIN queue' PROVE queue'[k].path # p
      BY <1>3, <2>0, <2>2
    <3>2. disk'[p] = c
      BY <1>2, <1>3, <2>2
    <3> QED  BY <3>1, <3>2 DEF EndsAs
  <2> QED  BY <1>1, <2>1, <2>2 DEF EndsAs
<1> QED  BY <1>1, <1>4 DEF WillRestore

\* With no task in the queue the disk decides.
LEMMA NoTasks ==
    ASSUME queue = << >>, NEW p, disk[p] \in Content
    PROVE  WillRestore(p, LoadSession(disk[p]))
BY DEF WillRestore, EndsAs

\* A step that leaves queue and disk alone.
LEMMA SameFiles ==
    ASSUME queue' = queue, disk' = disk, NEW p, NEW ts, WillRestore(p, ts)
    PROVE  WillRestore(p, ts)'
BY DEF WillRestore, EndsAs

-----------------------------------------------------------------------------
(* Steps.                                                                  *)

\* The first launch satisfies the invariant.
LEMMA InitEstablishes == Init => IndInv
<1> SUFFICES ASSUME Init PROVE IndInv
  OBVIOUS
<1>1. TypeOK
  <2>1. NoFile \in Content /\ << >> \in Seq(Task)
    BY ContentFacts
  <2>2. \A p \in Models : timer[p] <=> pending[p] # "none"
    BY DEF Init
  <2>3. events \in 0 .. MaxEvents /\ deletions \in Nat
    BY SessionAssumption DEF Init
  <2> QED  BY <2>1, <2>2, <2>3 DEF Init, TypeOK
<1>2. \A p \in Models : tabs[p] = {} /\ pending[p] = "none"
  BY DEF Init
<1>3. \A p \in Models : WillRestore(p, tabs[p])
  BY <1>2, ContentFacts, NoTasks DEF Init
<1>4. NoSaveLost /\ SavedInBackground /\ IncognitoGone
  BY <1>2, <1>3 DEF NoSaveLost, SavedInBackground, IncognitoGone, Models
<1>5. InfobarHonest /\ Gone /\ GoneInBackground
  BY DEF Init, InfobarHonest, Gone, GoneInBackground
<1>6. GoneFactory
  BY <1>2 DEF GoneFactory
<1> QED  BY <1>1, <1>4, <1>5, <1>6 DEF IndInv

\* A delayed save is requested, or nothing is.
LEMMA SaveIfType ==
    ASSUME TypeOK, NEW p \in Models, NEW save \in BOOLEAN, SaveIf(save, p)
    PROVE  /\ pending' \in [Models -> {"none", "live", "gone"}]
           /\ timer' \in [Models -> BOOLEAN]
           /\ \A q \in Models : timer'[q] <=> pending'[q] # "none"
           /\ \A q \in Models : q # p => pending'[q] = pending[q]
           /\ pending'[p] = IF save THEN "live" ELSE pending[p]
<1>1. CASE save
  BY <1>1 DEF SaveIf, SaveLater, TypeOK
<1>2. CASE ~ save
  BY <1>2 DEF SaveIf, TypeOK
<1> QED  BY <1>1, <1>2

\* The bound on the events.
LEMMA EventType ==
    ASSUME TypeOK, Event
    PROVE  events' \in 0 .. MaxEvents
BY SessionAssumption DEF TypeOK, Event

\* What another model's session restores stays so when its tabs do.
LEMMA KeptFor ==
    ASSUME NEW p \in Models, tabs'[p] = tabs[p], queue' = queue, disk' = disk,
           WillRestore(p, tabs[p])
    PROVE  WillRestore(p, tabs[p])'
BY DEF WillRestore, EndsAs

\* The same when a task for another file is posted.
LEMMA AppendKeepsFor ==
    ASSUME queue \in Seq(Task), NEW t \in Task, NEW p \in Models, tabs'[p] = tabs[p],
           queue' = Append(queue, t), t.path # p, disk' = disk,
           WillRestore(p, tabs[p])
    PROVE  WillRestore(p, tabs[p])'
<1>1. ASSUME NEW ts, ts = tabs[p] PROVE WillRestore(p, ts)'
  <2>1. WillRestore(p, ts)
    BY <1>1
  <2> QED  BY <2>1, AppendOther
<1> QED  BY <1>1 DEF WillRestore, EndsAs

\* A new tab.
LEMMA OpenTabPreserves ==
    ASSUME IndInv, NEW p \in Models, NEW tab \in Tabs, NEW save \in BOOLEAN,
           OpenTab(p, tab, save)
    PROVE  IndInv'
<1> USE DEF IndInv
<1>1. TypeOK'
  BY SaveIfType, EventType DEF OpenTab, TypeOK, files
<1>2. /\ app' = "active" /\ app = "active" /\ queue' = queue /\ disk' = disk
      /\ tabs' = [tabs EXCEPT ![p] = @ \cup {tab}]
      /\ requested' = [requested EXCEPT ![p] = save]
      /\ UNCHANGED <<infobar, backup, ended, swept>>
  BY DEF OpenTab, files
<1>3. NoSaveLost'
  <2>1. ASSUME NEW q \in Models, requested'[q]
        PROVE  pending'[q] = "live" \/ WillRestore(q, tabs[q])'
    <3>1. CASE q = p
      BY <1>2, <2>1, <3>1, SaveIfType DEF OpenTab, TypeOK
    <3>2. CASE q # p
      <4>1. requested[q] /\ pending'[q] = pending[q] /\ tabs'[q] = tabs[q]
        BY <1>2, <2>1, <3>2, SaveIfType DEF OpenTab, TypeOK
      <4>2. pending[q] = "live" \/ WillRestore(q, tabs[q])
        BY <1>2, <4>1 DEF NoSaveLost, Running
      <4>3. ASSUME WillRestore(q, tabs[q]) PROVE WillRestore(q, tabs[q])'
        BY <1>2, <4>1, <4>3 DEF WillRestore, EndsAs
      <4> QED  BY <4>1, <4>2, <4>3
    <3> QED  BY <3>1, <3>2
  <2> QED  BY <2>1 DEF NoSaveLost
<1>4. IncognitoGone'
  <2> SUFFICES ASSUME tabs'["otr"] = {}, ~ swept'
               PROVE  WillRestore("otr", {})'
    BY DEF IncognitoGone
  <2>1. p # "otr" /\ tabs["otr"] = {}
    BY <1>2 DEF TypeOK, Models
  <2>2. WillRestore("otr", {})
    BY <1>2, <2>1 DEF IncognitoGone, Running
  <2> QED  BY <1>2, <2>2, SameFiles
<1>5. GoneFactory'
  BY <1>2, SaveIfType DEF GoneFactory, OpenTab, TypeOK
<1> QED
  BY <1>1, <1>2, <1>3, <1>4, <1>5
  DEF SavedInBackground, InfobarHonest, Running, Gone, GoneInBackground

\* A tab has loaded.
LEMMA LoadCompletePreserves ==
    ASSUME IndInv, NEW p \in Models, LoadComplete(p)
    PROVE  IndInv'
<1> USE DEF IndInv
<1>1. /\ app' = app /\ app # "gone" /\ queue' = queue /\ disk' = disk /\ tabs' = tabs
      /\ tabs[p] # {}
      /\ requested' = [requested EXCEPT ![p] = TRUE]
      /\ SaveLater(p)
      /\ UNCHANGED <<infobar, backup, ended, swept>>
  BY DEF LoadComplete, files, Running
<1>2. /\ pending' \in [Models -> {"none", "live", "gone"}]
      /\ timer' \in [Models -> BOOLEAN]
      /\ \A q \in Models : timer'[q] <=> pending'[q] # "none"
      /\ \A q \in Models : q # p => pending'[q] = pending[q]
      /\ pending'[p] = "live"
  BY <1>1 DEF SaveLater, TypeOK
<1>3. TypeOK'
  BY <1>1, <1>2, EventType DEF LoadComplete, TypeOK, files
<1>4. \A q \in Models : \A ts : WillRestore(q, ts) => WillRestore(q, ts)'
  BY <1>1, SameFiles
<1>5. NoSaveLost'
  <2>1. ASSUME NEW q \in Models, requested'[q], q # p
        PROVE  pending'[q] = "live" \/ WillRestore(q, tabs[q])'
    <3>1. requested[q]
      BY <1>1, <2>1 DEF TypeOK
    <3>2. pending[q] = "live" \/ WillRestore(q, tabs[q])
      BY <1>1, <3>1 DEF NoSaveLost, Running
    <3>3. ASSUME WillRestore(q, tabs[q]) PROVE WillRestore(q, tabs[q])'
      BY <1>1, <3>3, KeptFor
    <3> QED  BY <1>2, <2>1, <3>2, <3>3
  <2> QED  BY <1>2, <2>1 DEF NoSaveLost
<1>6. SavedInBackground'
  <2>1. ASSUME NEW q \in Models, WillRestore(q, tabs[q]) PROVE WillRestore(q, tabs[q])'
    BY <1>1, <2>1, KeptFor
  <2> QED  BY <1>1, <2>1 DEF SavedInBackground
<1>7. IncognitoGone'
  BY <1>1, <1>4 DEF IncognitoGone, Running, Models
<1>8. GoneFactory'
  BY <1>1, <1>2 DEF GoneFactory, TypeOK
<1>9. GoneInBackground'
  BY <1>1, <1>2 DEF GoneInBackground, Models
<1> QED
  BY <1>1, <1>3, <1>5, <1>6, <1>7, <1>8, <1>9 DEF InfobarHonest, Running, Gone

\* A tab is closed, the last incognito one with the deletion of its session.
LEMMA CloseTabPreserves ==
    ASSUME IndInv, NEW p \in Models, NEW tab \in Tabs, NEW active \in BOOLEAN,
           CloseTab(p, tab, active)
    PROVE  IndInv'
<1> USE DEF IndInv
<1> DEFINE last == tabs[p] = {tab}
<1>1. /\ app' = "active" /\ app = "active" /\ disk' = disk
      /\ tabs' = [tabs EXCEPT ![p] = @ \ {tab}]
      /\ requested' = [requested EXCEPT ![p] = active]
      /\ last => active
      /\ UNCHANGED <<infobar, backup, ended, clean, clean_on_disk>>
      /\ SaveIf(active, p) /\ Event
  BY DEF CloseTab, files
<1>2. CASE last /\ p = "otr"
  <2>1. /\ queue' = Append(queue, Delete("otr")) /\ deletions' = deletions + 1
        /\ swept' = FALSE
    BY <1>2 DEF CloseTab, LastIncognitoTabClosed
  <2>2. Delete("otr") \in Task /\ Delete("otr").path = "otr" /\ Delete("otr").data = NoFile
    BY ContentFacts DEF Models
  <2>3. WillRestore("otr", {})' /\ queue' \in Seq(Task)
    <3>1. queue \in Seq(Task) /\ LoadSession(Delete("otr").data) = {}
      BY <2>2, ContentFacts DEF TypeOK
    <3> QED  BY <2>1, <2>2, <3>1, AppendMine
  <2>4. TypeOK'
    <3>1. deletions' \in Nat
      BY <2>1 DEF TypeOK
    <3>5. swept' \in BOOLEAN
      BY <2>1
    <3>2. /\ pending' \in [Models -> {"none", "live", "gone"}]
          /\ timer' \in [Models -> BOOLEAN]
          /\ \A q \in Models : timer'[q] <=> pending'[q] # "none"
      BY <1>1, SaveIfType
    <3>3. tabs' \in [Models -> SUBSET Tabs] /\ requested' \in [Models -> BOOLEAN]
      BY <1>1 DEF TypeOK
    <3>4. events' \in 0 .. MaxEvents
      BY <1>1, EventType
    <3> QED  BY <1>1, <2>3, <3>1, <3>2, <3>3, <3>4, <3>5 DEF TypeOK
  <2>5. NoSaveLost'
    <3>1. ASSUME NEW q \in Models, requested'[q], q # "otr"
          PROVE  pending'[q] = "live" \/ WillRestore(q, tabs[q])'
      <4>1. requested[q] /\ pending'[q] = pending[q] /\ tabs'[q] = tabs[q]
        <5>1. pending'[q] = pending[q]
          BY <1>1, <1>2, <3>1, SaveIfType
        <5>2. tabs \in [Models -> SUBSET Tabs] /\ requested \in [Models -> BOOLEAN]
          BY DEF TypeOK
        <5>3. requested[q] /\ tabs'[q] = tabs[q]
          BY <1>1, <1>2, <3>1, <5>2
        <5> QED  BY <5>1, <5>3
      <4>2. pending[q] = "live" \/ WillRestore(q, tabs[q])
        BY <1>1, <4>1 DEF NoSaveLost, Running
      <4>3. ASSUME WillRestore(q, tabs[q]) PROVE WillRestore(q, tabs[q])'
        BY <1>1, <2>1, <2>2, <3>1, <4>1, <4>3, AppendKeepsFor DEF TypeOK
      <4> QED  BY <4>1, <4>2, <4>3
    <3>2. pending'["otr"] = "live"
      BY <1>1, <1>2, SaveIfType
    <3> QED  BY <3>1, <3>2 DEF NoSaveLost
  <2>6. GoneFactory'
    BY <1>1, SaveIfType DEF GoneFactory, TypeOK
  <2> QED
    BY <1>1, <2>3, <2>4, <2>5, <2>6
    DEF SavedInBackground, IncognitoGone, InfobarHonest, Running, Gone, GoneInBackground
<1>3. CASE ~ (last /\ p = "otr")
  <2>1. UNCHANGED <<queue, deletions, swept>>
    BY <1>3 DEF CloseTab
  <2>2. TypeOK'
    BY <1>1, <2>1, SaveIfType, EventType DEF TypeOK
  <2>3. NoSaveLost'
    <3>1. ASSUME NEW q \in Models, requested'[q]
          PROVE  pending'[q] = "live" \/ WillRestore(q, tabs[q])'
      <4>1. CASE q = p
        BY <1>1, <3>1, <4>1, SaveIfType DEF TypeOK
      <4>2. CASE q # p
        <5>1. requested[q] /\ pending'[q] = pending[q] /\ tabs'[q] = tabs[q]
          BY <1>1, <3>1, <4>2, SaveIfType DEF TypeOK
        <5>2. pending[q] = "live" \/ WillRestore(q, tabs[q])
          BY <1>1, <5>1 DEF NoSaveLost, Running
        <5> QED  BY <1>1, <2>1, <5>1, <5>2, KeptFor
      <4> QED  BY <4>1, <4>2
    <3> QED  BY <3>1 DEF NoSaveLost
  <2>4. IncognitoGone'
    <3> SUFFICES ASSUME tabs'["otr"] = {}, ~ swept'
                 PROVE  WillRestore("otr", {})'
      BY DEF IncognitoGone
    <3>1. tabs["otr"] = {}
      BY <1>1, <1>3 DEF TypeOK, Models, CloseTab
    <3>2. WillRestore("otr", {})
      BY <1>1, <2>1, <3>1 DEF IncognitoGone, Running
    <3> QED  BY <1>1, <2>1, <3>2, SameFiles
  <2>5. GoneFactory'
    BY <1>1, SaveIfType DEF GoneFactory, TypeOK
  <2> QED
    BY <1>1, <2>2, <2>3, <2>4, <2>5
    DEF SavedInBackground, InfobarHonest, Running, Gone, GoneInBackground
<1> QED  BY <1>2, <1>3

\* The delayed save of p runs.
LEMMA PerformSavePreserves ==
    ASSUME IndInv, NEW p \in Models, PerformSave(p)
    PROVE  IndInv'
<1> USE DEF IndInv
<1> DEFINE data == IF pending[p] = "live" THEN Session(tabs[p]) ELSE NilSession
<1>0. PICK kept : kept = IF pending[p] = "live" THEN tabs[p] ELSE {}
  OBVIOUS
<1>1. /\ app' = app /\ app # "gone" /\ disk' = disk /\ tabs' = tabs
      /\ requested' = requested
      /\ timer[p] /\ timer' = [timer EXCEPT ![p] = FALSE]
      /\ pending' = [pending EXCEPT ![p] = "none"]
      /\ queue' = Append(queue, Write(p, data))
      /\ UNCHANGED <<deletions, infobar, backup, ended, swept, clean, clean_on_disk, events>>
  BY DEF PerformSave, files, history, Running
<1>2. data \in Content /\ LoadSession(data) = kept
  BY <1>0, ContentFacts DEF TypeOK
<1>3. Write(p, data) \in Task /\ Write(p, data).path = p /\ Write(p, data).data = data
  BY <1>2, ContentFacts
<1> HIDE DEF data
<1>4. queue \in Seq(Task)
  BY DEF TypeOK
<1>5. WillRestore(p, kept)' /\ queue' \in Seq(Task)
  <2>1. LoadSession(Write(p, data).data) = kept
    BY <1>2, <1>3
  <2> QED  BY <1>1, <1>3, <1>4, <2>1, AppendMine
<1>6. TypeOK'
  <2>1. \A q \in Models : timer'[q] <=> pending'[q] # "none"
    BY <1>1 DEF TypeOK
  <2>2. /\ pending' \in [Models -> {"none", "live", "gone"}]
        /\ timer' \in [Models -> BOOLEAN]
    BY <1>1 DEF TypeOK
  <2> QED  BY <1>1, <1>5, <2>1, <2>2 DEF TypeOK
<1>7. pending[p] = "live" \/ pending[p] = "gone"
  BY <1>1 DEF TypeOK
<1>8. ASSUME NEW q \in Models, q # p, WillRestore(q, tabs[q])
      PROVE  WillRestore(q, tabs[q])'
  BY <1>1, <1>3, <1>4, <1>8, AppendKeepsFor
<1>9. pending[p] = "live" => WillRestore(p, tabs[p])'
  BY <1>0, <1>1, <1>5 DEF WillRestore, EndsAs
<1>10. NoSaveLost'
  <2>1. ASSUME NEW q \in Models, requested[q], q # p
        PROVE  pending'[q] = "live" \/ WillRestore(q, tabs[q])'
    BY <1>1, <1>8, <2>1 DEF NoSaveLost, Running, TypeOK
  <2>2. requested[p] => WillRestore(p, tabs[p])'
    BY <1>7, <1>9 DEF GoneFactory
  <2> QED  BY <1>1, <2>1, <2>2 DEF NoSaveLost
<1>11. SavedInBackground'
  <2>1. ASSUME app = "background", NEW q \in Models, q = "otr" => ~ swept
        PROVE  WillRestore(q, tabs[q])'
    <3>1. CASE q # p
      BY <1>8, <2>1, <3>1 DEF SavedInBackground
    <3>2. CASE q = p /\ pending[p] = "live"
      BY <1>9, <3>2
    <3>3. CASE q = p /\ pending[p] = "gone"
      <4>1. p = "otr" /\ tabs[p] = {} /\ kept = {}
        BY <1>0, <2>1, <3>3 DEF GoneFactory, GoneInBackground
      <4> QED  BY <1>1, <1>5, <3>3, <4>1 DEF WillRestore, EndsAs
    <3> QED  BY <1>7, <3>1, <3>2, <3>3
  <2> QED  BY <1>1, <2>1 DEF SavedInBackground
<1>12. IncognitoGone'
  <2> SUFFICES ASSUME tabs["otr"] = {}, ~ swept
               PROVE  WillRestore("otr", {})'
    BY <1>1 DEF IncognitoGone
  <2>1. CASE p = "otr"
    <3>1. kept = {}
      BY <1>0, <2>1
    <3> QED  BY <1>5, <2>1, <3>1
  <2>2. CASE p # "otr"
    <3>1. WillRestore("otr", {})
      BY <1>1 DEF IncognitoGone, Running
    <3> QED  BY <1>1, <1>3, <1>4, <2>2, <3>1, AppendOther DEF Models
  <2> QED  BY <2>1, <2>2
<1>13. GoneFactory' /\ GoneInBackground'
  BY <1>1 DEF GoneFactory, GoneInBackground, TypeOK
<1> QED
  BY <1>1, <1>6, <1>10, <1>11, <1>12, <1>13 DEF InfobarHonest, Running, Gone

\* A task of the runner runs.
LEMMA RunTaskPreserves ==
    ASSUME IndInv, RunTask
    PROVE  IndInv'
<1> USE DEF IndInv
<1>1. /\ app' = app /\ app # "gone" /\ tabs' = tabs /\ requested' = requested
      /\ queue # << >> /\ queue' = Tail(queue)
      /\ disk' = [disk EXCEPT ![Head(queue).path] = Head(queue).data]
      /\ UNCHANGED <<timer, pending, deletions, infobar, backup, ended, swept, clean,
                     clean_on_disk, events>>
  BY DEF RunTask, memory, history, Running
<1>2. TypeOK'
  <2>1. Head(queue) \in Task /\ queue' \in Seq(Task)
    BY <1>1, HeadTailProperties DEF TypeOK
  <2>2. disk' \in [Models -> Content]
    BY <1>1, <2>1 DEF TypeOK, Task
  <2> QED  BY <1>1, <2>1, <2>2 DEF TypeOK
<1>3. ASSUME NEW p \in Models, WillRestore(p, tabs[p]) PROVE WillRestore(p, tabs[p])'
  <2>1. ASSUME NEW ts, ts = tabs[p] PROVE WillRestore(p, ts)'
    BY <1>3, <2>1, RunTaskKeeps
  <2> QED  BY <1>1, <2>1 DEF WillRestore, EndsAs
<1>4. NoSaveLost' /\ SavedInBackground'
  BY <1>1, <1>3 DEF NoSaveLost, SavedInBackground, Running
<1>5. IncognitoGone'
  BY <1>1, RunTaskKeeps DEF IncognitoGone, Running, Models
<1> QED
  BY <1>1, <1>2, <1>4, <1>5
  DEF InfobarHonest, Running, Gone, GoneFactory, GoneInBackground

\* The incognito model is replaced.
LEMMA DeleteIncognitoPreserves ==
    ASSUME IndInv, DeleteIncognitoTabModelState
    PROVE  IndInv'
<1> USE DEF IndInv
<1>1. /\ app' = app /\ app # "gone" /\ queue' = queue /\ disk' = disk
      /\ deletions > 0 /\ deletions' = deletions - 1
      /\ tabs' = [tabs EXCEPT !["otr"] = {}]
      /\ pending' = [pending EXCEPT !["otr"] = IF @ = "live" THEN "gone" ELSE @]
      /\ requested' = [requested EXCEPT !["otr"] = FALSE]
      /\ swept' = (swept \/ tabs["otr"] # {})
      /\ UNCHANGED <<timer, infobar, backup, ended, clean, clean_on_disk, events>>
  BY DEF DeleteIncognitoTabModelState, files, Running
<1>2. TypeOK'
  <2>1. deletions' \in Nat
    BY <1>1 DEF TypeOK
  <2>2. swept' \in BOOLEAN
    BY <1>1
  <2>3. \A q \in Models : timer'[q] <=> pending'[q] # "none"
    BY <1>1 DEF TypeOK
  <2>4. /\ pending' \in [Models -> {"none", "live", "gone"}]
        /\ tabs' \in [Models -> SUBSET Tabs]
        /\ requested' \in [Models -> BOOLEAN]
    BY <1>1 DEF TypeOK
  <2> QED  BY <1>1, <2>1, <2>2, <2>3, <2>4 DEF TypeOK
<1>3. "main" \in Models /\ "otr" \in Models /\ \A q \in Models : q = "main" \/ q = "otr"
  BY DEF Models
<1>4. /\ tabs'["main"] = tabs["main"] /\ tabs'["otr"] = {}
      /\ pending'["main"] = pending["main"]
      /\ pending'["otr"] = IF pending["otr"] = "live" THEN "gone" ELSE pending["otr"]
      /\ requested'["main"] = requested["main"] /\ ~ requested'["otr"]
  BY <1>1, <1>3 DEF TypeOK
<1>5. ASSUME WillRestore("main", tabs["main"]) PROVE WillRestore("main", tabs["main"])'
  BY <1>1, <1>3, <1>4, <1>5, KeptFor
<1>6. NoSaveLost'
  BY <1>1, <1>3, <1>4, <1>5 DEF NoSaveLost, Running
<1>7. ~ swept' => ~ swept /\ tabs["otr"] = {}
  BY <1>1
<1>8. ASSUME WillRestore("otr", {}) PROVE WillRestore("otr", {})'
  BY <1>1, <1>8, SameFiles
<1>9. IncognitoGone'
  BY <1>1, <1>7, <1>8 DEF IncognitoGone, Running
<1>10. SavedInBackground'
  <2>1. ASSUME app = "background", ~ swept' PROVE WillRestore("otr", tabs["otr"])'
    <3>1. WillRestore("otr", {})'
      BY <1>1, <1>7, <1>8, <2>1 DEF IncognitoGone, Running
    <3> QED  BY <1>4, <3>1 DEF WillRestore, EndsAs
  <2>2. ASSUME app = "background" PROVE WillRestore("main", tabs["main"])'
    BY <1>3, <1>5, <2>2 DEF SavedInBackground
  <2> QED  BY <1>1, <1>3, <2>1, <2>2 DEF SavedInBackground
<1>11. GoneFactory'
  BY <1>3, <1>4 DEF GoneFactory
<1>12. GoneInBackground'
  BY <1>4 DEF GoneInBackground
<1> QED
  BY <1>1, <1>2, <1>6, <1>9, <1>10, <1>11, <1>12 DEF InfobarHonest, Running, Gone

\* The browsing history is cleared.
LEMMA ClearHistoryPreserves ==
    ASSUME IndInv, ClearHistory
    PROVE  IndInv'
<1> USE DEF IndInv
<1>1. /\ app' = "active" /\ app = "active" /\ disk' = disk /\ tabs' = tabs
      /\ queue' = Append(queue, Delete("main"))
      /\ requested' = [requested EXCEPT !["main"] = FALSE]
      /\ UNCHANGED <<pending, timer, deletions, swept, infobar, backup, ended, clean,
                     clean_on_disk>>
      /\ Event
  BY DEF ClearHistory, files, memory
<1>2. /\ Delete("main") \in Task /\ Delete("main").path = "main"
      /\ queue \in Seq(Task) /\ "main" \in Models /\ "otr" \in Models
  BY ContentFacts DEF Models, TypeOK
<1>3. TypeOK'
  <2>1. queue' \in Seq(Task)
    BY <1>1, <1>2, AppendProperties
  <2>2. events' \in 0 .. MaxEvents
    BY <1>1, EventType
  <2>3. requested' \in [Models -> BOOLEAN]
    BY <1>1 DEF TypeOK
  <2> QED  BY <1>1, <2>1, <2>2, <2>3 DEF TypeOK
<1>4. ASSUME WillRestore("otr", tabs["otr"]) PROVE WillRestore("otr", tabs["otr"])'
  BY <1>1, <1>2, <1>4, AppendKeepsFor
<1>5. NoSaveLost'
  BY <1>1, <1>2, <1>4 DEF NoSaveLost, Running, Models, TypeOK
<1>6. IncognitoGone'
  <2>1. ASSUME WillRestore("otr", {}) PROVE WillRestore("otr", {})'
    BY <1>1, <1>2, <2>1, AppendOther
  <2> QED  BY <1>1, <2>1 DEF IncognitoGone, Running
<1>7. GoneFactory'
  BY <1>1 DEF GoneFactory, TypeOK
<1> QED
  BY <1>1, <1>3, <1>5, <1>6, <1>7
  DEF SavedInBackground, InfobarHonest, Running, Gone, GoneInBackground

\* The application goes to the background.
LEMMA EnterBackgroundPreserves ==
    ASSUME IndInv, EnterBackground
    PROVE  IndInv'
<1> USE DEF IndInv
<1> DEFINE m == Write("main", Session(tabs["main"]))
           o == Write("otr", Session(tabs["otr"]))
<1>1. /\ app' = "background" /\ app = "active" /\ disk' = disk /\ tabs' = tabs
      /\ queue' = Append(Append(queue, m), o)
      /\ pending' = [p \in Models |-> "none"] /\ timer' = [p \in Models |-> FALSE]
      /\ requested' = [p \in Models |-> TRUE]
      /\ clean' = TRUE /\ swept' = FALSE
      /\ UNCHANGED <<deletions, infobar, backup, ended, clean_on_disk>>
      /\ Event
  BY DEF EnterBackground, files, SaveNow, SaveImmediately, IndInv, TypeOK, Models
<1>2. "main" \in Models /\ "otr" \in Models /\ \A q \in Models : q = "main" \/ q = "otr"
  BY DEF Models
<1>3. /\ m \in Task /\ m.path = "main" /\ LoadSession(m.data) = tabs["main"]
      /\ o \in Task /\ o.path = "otr" /\ LoadSession(o.data) = tabs["otr"]
      /\ queue \in Seq(Task)
  BY <1>2, ContentFacts DEF TypeOK
<1>4. PICK s, t : s = m /\ t = o
  OBVIOUS
<1> HIDE DEF m, o
<1>5. WillRestore("main", tabs["main"])' /\ WillRestore("otr", tabs["otr"])'
  <2>1. /\ s \in Task /\ t \in Task /\ s.path # t.path
        /\ s.path = "main" /\ t.path = "otr"
        /\ queue' = Append(Append(queue, s), t)
        /\ LoadSession(s.data) = tabs'[s.path] /\ LoadSession(t.data) = tabs'[t.path]
    BY <1>1, <1>3, <1>4
  <2>2. WillRestore(s.path, tabs[s.path])' /\ WillRestore(t.path, tabs[t.path])'
    BY <1>3, <2>1, AppendBoth
  <2> QED  BY <2>1, <2>2
<1>6. TypeOK'
  <2>1. queue' \in Seq(Task)
    BY <1>1, <1>3, AppendProperties
  <2>2. events' \in 0 .. MaxEvents
    BY <1>1, EventType
  <2>3. /\ pending' \in [Models -> {"none", "live", "gone"}]
        /\ timer' \in [Models -> BOOLEAN]
        /\ requested' \in [Models -> BOOLEAN]
    BY <1>1
  <2>4. \A q \in Models : timer'[q] <=> pending'[q] # "none"
    BY <1>1
  <2>5. swept' \in BOOLEAN /\ clean' \in BOOLEAN
    BY <1>1
  <2> QED  BY <1>1, <2>1, <2>2, <2>3, <2>4, <2>5 DEF TypeOK
<1>7. NoSaveLost' /\ SavedInBackground'
  BY <1>1, <1>2, <1>5 DEF NoSaveLost, SavedInBackground
<1>8. IncognitoGone'
  <2>1. ASSUME tabs'["otr"] = {} PROVE WillRestore("otr", {})'
    BY <1>5, <2>1 DEF WillRestore, EndsAs
  <2> QED  BY <2>1 DEF IncognitoGone
<1>9. GoneFactory' /\ GoneInBackground'
  BY <1>1, <1>2 DEF GoneFactory, GoneInBackground
<1> QED
  BY <1>1, <1>6, <1>7, <1>8, <1>9 DEF InfobarHonest, Running, Gone

\* Steps that leave the tabs, the saves and the session files alone.
LEMMA QuietPreserves ==
    ASSUME IndInv, TypeOK', app' \in {app, "active"}, (app = "gone") <=> (app' = "gone"),
           infobar' => infobar,
           UNCHANGED <<tabs, pending, queue, disk, backup, ended, requested, swept>>
    PROVE  IndInv'
<1> USE DEF IndInv
<1>1. ASSUME NEW p \in Models, WillRestore(p, tabs[p]) PROVE WillRestore(p, tabs[p])'
  BY <1>1, KeptFor
<1>2. NoSaveLost' /\ SavedInBackground'
  BY <1>1 DEF NoSaveLost, SavedInBackground, Running
<1>3. IncognitoGone'
  <2>1. ASSUME WillRestore("otr", {}) PROVE WillRestore("otr", {})'
    BY <2>1, SameFiles
  <2> QED  BY <2>1 DEF IncognitoGone, Running
<1>4. InfobarHonest' /\ Gone'
  BY DEF InfobarHonest, Gone, Running
<1> QED
  BY <1>2, <1>3, <1>4 DEF GoneFactory, GoneInBackground

\* The application comes back to the foreground.
LEMMA EnterForegroundPreserves ==
    ASSUME IndInv, EnterForeground
    PROVE  IndInv'
<1>1. TypeOK'
  BY EventType DEF IndInv, EnterForeground, TypeOK, files, history
<1> QED  BY <1>1, QuietPreserves DEF EnterForeground, files, history

\* The preferences are written.
LEMMA CommitPreserves ==
    ASSUME IndInv, CommitPendingWrite
    PROVE  IndInv'
<1>1. TypeOK'
  BY DEF IndInv, CommitPendingWrite, TypeOK, memory, history
<1> QED  BY <1>1, QuietPreserves DEF CommitPendingWrite, memory, history

\* The offer is dismissed.
LEMMA InfoBarRemovedPreserves ==
    ASSUME IndInv, InfoBarRemoved
    PROVE  IndInv'
<1>1. TypeOK'
  BY EventType DEF IndInv, InfoBarRemoved, TypeOK, files, history
<1> QED  BY <1>1, QuietPreserves DEF InfoBarRemoved, files, history

\* The process ends: what it leaves on disk is what it had saved.
LEMMA LeavePreserves ==
    ASSUME IndInv, Running, Leave, Event, disk' \in [Models -> Content],
           clean_on_disk' \in BOOLEAN
    PROVE  IndInv'
<1> USE DEF IndInv
<1>1. /\ app' = "gone" /\ queue' = << >> /\ deletions' = 0
      /\ tabs' = [p \in Models |-> {}]
      /\ pending' = [p \in Models |-> "none"]
      /\ timer' = [p \in Models |-> FALSE]
      /\ requested' = [p \in Models |-> TRUE]
      /\ infobar' = FALSE /\ clean' = FALSE /\ swept' = FALSE
      /\ backup' = backup
  BY DEF Leave
<1>2. PICK saved \in BOOLEAN :
         /\ saved <=> (requested["main"] /\ pending["main"] = "none" /\ EndsAs("main", disk'["main"]))
         /\ ended' = [tabs |-> tabs["main"], file |-> LoadSession(disk'["main"]),
                      saved |-> saved]
  BY DEF Leave
<1>3. "main" \in Models /\ disk'["main"] \in Content /\ tabs["main"] \in SUBSET Tabs
  BY DEF Models, TypeOK
<1>4. TypeOK'
  <2>1. queue' \in Seq(Task) /\ deletions' \in Nat
    BY <1>1
  <2>2. events' \in 0 .. MaxEvents
    BY EventType
  <2>3. /\ pending' \in [Models -> {"none", "live", "gone"}]
        /\ timer' \in [Models -> BOOLEAN]
        /\ requested' \in [Models -> BOOLEAN]
        /\ tabs' \in [Models -> SUBSET Tabs]
    BY <1>1
  <2>4. \A q \in Models : timer'[q] <=> pending'[q] # "none"
    BY <1>1
  <2>5. swept' \in BOOLEAN /\ clean' \in BOOLEAN /\ infobar' \in BOOLEAN
    BY <1>1
  <2>6. ended' \in [tabs : SUBSET Tabs, file : SUBSET Tabs, saved : BOOLEAN]
    BY <1>2, <1>3, ContentFacts
  <2> QED  BY <1>1, <2>1, <2>2, <2>3, <2>4, <2>5, <2>6 DEF TypeOK
<1>5. ASSUME saved PROVE tabs["main"] = LoadSession(disk'["main"])
  <2>1. WillRestore("main", tabs["main"])
    BY <1>2, <1>3, <1>5 DEF NoSaveLost
  <2>2. PICK c \in Content : EndsAs("main", c) /\ LoadSession(c) = tabs["main"]
    BY <2>1 DEF WillRestore
  <2>3. c = disk'["main"]
    BY <1>2, <1>5, <2>2, EndsAsUnique DEF TypeOK
  <2> QED  BY <2>2, <2>3
<1>6. Gone'
  <2>1. ended'.file = LoadSession(disk'["main"]) /\ (ended'.saved => ended'.tabs = ended'.file)
    BY <1>2, <1>5
  <2>2. LoadSession(disk["main"])' = LoadSession(disk'["main"])
    BY DEF LoadSession
  <2> QED  BY <1>1, <2>1, <2>2 DEF Gone
<1>7. NoSaveLost' /\ SavedInBackground' /\ IncognitoGone' /\ InfobarHonest'
  BY <1>1 DEF NoSaveLost, SavedInBackground, IncognitoGone, InfobarHonest, Running
<1>8. GoneFactory' /\ GoneInBackground'
  BY <1>1 DEF GoneFactory, GoneInBackground
<1> QED  BY <1>4, <1>6, <1>7, <1>8

\* A crash.
LEMMA DiePreserves ==
    ASSUME IndInv, Die
    PROVE  IndInv'
<1>1. Running /\ Leave /\ Event /\ disk' \in [Models -> Content] /\ clean_on_disk' \in BOOLEAN
  BY DEF Die, IndInv, TypeOK
<1> QED  BY <1>1, LeavePreserves

\* An orderly end.
LEMMA TerminatePreserves ==
    ASSUME IndInv, Terminate
    PROVE  IndInv'
<1>1. Running /\ Leave /\ Event /\ disk' \in [Models -> Content] /\ clean_on_disk' \in BOOLEAN
  BY DEF Terminate, IndInv, TypeOK
<1> QED  BY <1>1, LeavePreserves

\* What a launch needs of the state it leaves.
LEMMA StartPreserves ==
    ASSUME IndInv, NEW open \in [Models -> SUBSET Tabs], Start(open),
           disk' \in [Models -> Content], backup' \in Content, infobar' \in BOOLEAN,
           queue' \in Seq(Task), InfobarHonest',
           \A p \in Models : WillRestore(p, open[p])'
    PROVE  IndInv'
<1> USE DEF IndInv
<1>1. /\ app = "gone" /\ app' = "active" /\ tabs' = open /\ Event
      /\ UNCHANGED <<pending, timer, deletions, clean, clean_on_disk, requested, swept, ended>>
  BY DEF Start, history
<1>2. TypeOK'
  BY <1>1, EventType DEF TypeOK
<1>3. \A p \in Models : WillRestore(p, tabs[p])'
  BY <1>1 DEF WillRestore, EndsAs
<1>4. NoSaveLost' /\ SavedInBackground'
  BY <1>1, <1>3 DEF NoSaveLost, SavedInBackground
<1>5. IncognitoGone'
  <2>1. ASSUME tabs'["otr"] = {} PROVE WillRestore("otr", {})'
    BY <1>3, <2>1 DEF WillRestore, EndsAs, Models
  <2> QED  BY <2>1 DEF IncognitoGone
<1>6. GoneFactory' /\ GoneInBackground' /\ Gone'
  BY <1>1 DEF GoneFactory, GoneInBackground, Gone
<1> QED  BY <1>2, <1>4, <1>5, <1>6

\* A launch that restores the tabs.
LEMMA LaunchPreserves ==
    ASSUME IndInv, NEW upgrade \in BOOLEAN, Launch(upgrade)
    PROVE  IndInv'
<1> USE DEF IndInv
<1>1. PICK open : open = [p \in Models |-> LoadSession(disk[p])]
  OBVIOUS
<1>2. /\ Start(open) /\ app = "gone" /\ UNCHANGED <<queue, infobar, disk, backup>>
  BY <1>1 DEF Launch, Start
<1>3. queue = << >> /\ ~ infobar
  BY <1>2 DEF Gone
<1>4. open \in [Models -> SUBSET Tabs]
  BY <1>1, ContentFacts DEF TypeOK
<1>5. \A p \in Models : WillRestore(p, open[p])'
  <2>1. ASSUME NEW p \in Models PROVE WillRestore(p, open[p])
    BY <1>1, <1>3, NoTasks DEF TypeOK
  <2> QED  BY <1>2, <2>1 DEF WillRestore, EndsAs
<1>6. InfobarHonest'
  BY <1>2, <1>3 DEF InfobarHonest
<1> QED  BY <1>2, <1>4, <1>5, <1>6, StartPreserves DEF TypeOK

\* A launch after a crash.
LEMMA LaunchAfterCrashPreserves ==
    ASSUME IndInv, LaunchAfterCrash
    PROVE  IndInv'
<1> USE DEF IndInv
<1>1. PICK open : open = [p \in Models |-> {}]
  OBVIOUS
<1>2. /\ Start(open) /\ app = "gone" /\ queue' = Append(queue, Delete("otr"))
      /\ infobar' = (disk["main"] # NoFile)
      /\ backup' = IF disk["main"] = NoFile THEN backup ELSE disk["main"]
      /\ disk' = [p \in Models |-> NoFile]
      /\ ended' = ended
  BY <1>1 DEF LaunchAfterCrash, Start, MoveAsideSessionInformation, history
<1>3. queue = << >> /\ ended.file = LoadSession(disk["main"])
  BY <1>2 DEF Gone
<1>4. "main" \in Models /\ "otr" \in Models /\ NoFile \in Content
  BY ContentFacts DEF Models
<1>5. /\ open \in [Models -> SUBSET Tabs] /\ disk' \in [Models -> Content]
      /\ backup' \in Content
  BY <1>1, <1>2, <1>4 DEF TypeOK
<1>6. infobar' \in BOOLEAN
  BY <1>2
<1>7. Delete("otr") \in Task /\ Delete("otr").path = "otr" /\ Delete("otr").data = NoFile
  BY <1>4, ContentFacts
<1>8. queue' = <<Delete("otr")>> /\ queue' \in Seq(Task)
  BY <1>2, <1>3, <1>7
<1>9. \A p \in Models : WillRestore(p, {})'
  <2>1. ASSUME NEW p \in Models PROVE EndsAs(p, NoFile)'
    <3>1. CASE p = "otr"
      BY <1>7, <1>8, <3>1 DEF EndsAs
    <3>2. CASE p # "otr"
      BY <1>2, <1>7, <1>8, <3>2 DEF EndsAs
    <3> QED  BY <3>1, <3>2
  <2> QED  BY <2>1, ContentFacts DEF WillRestore
<1>10. \A p \in Models : WillRestore(p, open[p])'
  BY <1>1, <1>9
<1>11. InfobarHonest'
  <2>1. ASSUME infobar' PROVE LoadSession(backup') = ended'.file
    BY <1>2, <1>3, <2>1
  <2>2. LoadSession(backup)' = LoadSession(backup')
    BY DEF LoadSession
  <2> QED  BY <2>1, <2>2 DEF InfobarHonest
<1> QED  BY <1>2, <1>5, <1>6, <1>8, <1>10, <1>11, StartPreserves

\* The session of before the crash is restored.
LEMMA RestorePreserves ==
    ASSUME IndInv, NEW clobber \in BOOLEAN, NEW save \in BOOLEAN,
           RestoreSessionsAfterCrash(clobber, save)
    PROVE  IndInv'
<1> USE DEF IndInv
<1>1. /\ app' = "active" /\ app = "active" /\ queue' = queue /\ disk' = disk
      /\ infobar' = FALSE /\ SaveIf(save, "main") /\ Event
      /\ requested' = [requested EXCEPT !["main"] = save]
      /\ UNCHANGED <<deletions, clean, clean_on_disk, backup, ended, swept>>
  BY DEF RestoreSessionsAfterCrash, files
<1>2. PICK ts \in SUBSET Tabs : tabs' = [tabs EXCEPT !["main"] = ts]
  <2>1. LoadSession(backup) \in SUBSET Tabs /\ tabs["main"] \in SUBSET Tabs
    BY ContentFacts DEF TypeOK, Models
  <2> QED  BY <2>1 DEF RestoreSessionsAfterCrash
<1>3. "main" \in Models /\ "otr" \in Models /\ \A q \in Models : q = "main" \/ q = "otr"
  BY DEF Models
<1>4. TypeOK'
  <2>1. events' \in 0 .. MaxEvents
    BY <1>1, EventType
  <2>2. infobar' \in BOOLEAN
    BY <1>1
  <2>3. tabs' \in [Models -> SUBSET Tabs] /\ requested' \in [Models -> BOOLEAN]
    BY <1>1, <1>2 DEF TypeOK
  <2>4. /\ pending' \in [Models -> {"none", "live", "gone"}]
        /\ timer' \in [Models -> BOOLEAN]
        /\ \A q \in Models : timer'[q] <=> pending'[q] # "none"
    BY <1>1, <1>3, SaveIfType
  <2> QED  BY <1>1, <2>1, <2>2, <2>3, <2>4 DEF TypeOK
<1>5. /\ tabs'["otr"] = tabs["otr"] /\ pending'["otr"] = pending["otr"]
      /\ requested'["otr"] = requested["otr"] /\ requested'["main"] = save
      /\ pending'["main"] = IF save THEN "live" ELSE pending["main"]
  BY <1>1, <1>2, <1>3, SaveIfType DEF TypeOK
<1>6. ASSUME WillRestore("otr", tabs["otr"]) PROVE WillRestore("otr", tabs["otr"])'
  BY <1>1, <1>3, <1>5, <1>6, KeptFor
<1>7. NoSaveLost'
  BY <1>1, <1>3, <1>5, <1>6 DEF NoSaveLost, Running
<1>8. IncognitoGone'
  <2>1. ASSUME WillRestore("otr", {}) PROVE WillRestore("otr", {})'
    BY <1>1, <2>1, SameFiles
  <2> QED  BY <1>1, <1>5, <2>1 DEF IncognitoGone, Running
<1>9. GoneFactory'
  BY <1>3, <1>5 DEF GoneFactory
<1> QED
  BY <1>1, <1>4, <1>7, <1>8, <1>9
  DEF SavedInBackground, InfobarHonest, Gone, GoneInBackground

-----------------------------------------------------------------------------
(* The theorems.                                                           *)

\* No step of the tabs, of the process, of the delayed saves or of the task runner
\* breaks the invariant.
THEOREM InvariantPreserved == IndInv /\ [Next]_vars => IndInv'
<1> SUFFICES ASSUME IndInv, [Next]_vars PROVE IndInv'
  OBVIOUS
<1>1. CASE TabStep
  BY <1>1, OpenTabPreserves, CloseTabPreserves, LoadCompletePreserves,
     ClearHistoryPreserves, RestorePreserves, InfoBarRemovedPreserves DEF TabStep
<1>2. CASE ProcessStep
  BY <1>2, EnterBackgroundPreserves, EnterForegroundPreserves, DiePreserves,
     TerminatePreserves, LaunchPreserves, LaunchAfterCrashPreserves DEF ProcessStep
<1>3. CASE \E p \in Models : PerformSave(p)
  BY <1>3, PerformSavePreserves
<1>4. CASE RunTask
  BY <1>4, RunTaskPreserves
<1>5. CASE DeleteIncognitoTabModelState
  BY <1>5, DeleteIncognitoPreserves
<1>6. CASE CommitPendingWrite
  BY <1>6, CommitPreserves
<1>7. CASE UNCHANGED vars
  <2>1. /\ UNCHANGED <<app, queue, events, timer, deletions, clean, clean_on_disk, infobar>>
        /\ UNCHANGED <<tabs, pending, disk, backup, ended, requested, swept>>
    BY <1>7 DEF vars, memory, files, history
  <2>2. TypeOK'
    BY <2>1 DEF IndInv, TypeOK
  <2> QED  BY <2>1, <2>2, QuietPreserves
<1> QED  BY <1>1, <1>2, <1>3, <1>4, <1>5, <1>6, <1>7 DEF Next

\* The invariant holds in every state.
LEMMA InvariantHolds == Spec => []IndInv
<1> QED  BY InitEstablishes, InvariantPreserved, PTL DEF Spec

\* Every variable keeps its type, and a delayed save is pending exactly while its
\* timer runs, so that none is left in _pendingSessions with nothing to run it.
THEOREM TypeCorrect == Spec => []TypeOK
<1>1. IndInv => TypeOK
  BY DEF IndInv
<1> QED  BY <1>1, InvariantHolds, PTL

\* No save that a TabModel asked of SessionServiceIOS is lost.
THEOREM SavesAreKept == Spec => []NoSaveLost
<1>1. IndInv => NoSaveLost
  BY DEF IndInv
<1> QED  BY <1>1, InvariantHolds, PTL

\* Once the application is in the background, both session files are, or will be,
\* what the user left.
THEOREM BackgroundIsSaved == Spec => []SavedInBackground
<1>1. IndInv => SavedInBackground
  BY DEF IndInv
<1> QED  BY <1>1, InvariantHolds, PTL

\* The deletion of the incognito session wins over every save under way.
THEOREM IncognitoIsGone == Spec => []IncognitoGone
<1>1. IndInv => IncognitoGone
  BY DEF IndInv
<1> QED  BY <1>1, InvariantHolds, PTL

\* CrashRestoreHelper never offers the session of an earlier crash.
THEOREM InfobarIsHonest == Spec => []InfobarHonest
<1>1. IndInv => InfobarHonest
  BY DEF IndInv
<1> QED  BY <1>1, InvariantHolds, PTL

\* A launch opens or offers what the last process had saved.
THEOREM RestartKeeps == Spec => RestartKeepsTabs
<1> DEFINE kept ==
       app = "gone" /\ Running' /\ ended.saved =>
           \/ tabs'["main"] = ended.tabs
           \/ infobar' /\ LoadSession(backup') = ended.tabs
<1>1. IndInv /\ [Next]_vars => [kept]_vars
  <2> SUFFICES ASSUME IndInv, Next, app = "gone", app' # "gone", ended.saved
               PROVE  \/ tabs'["main"] = ended.tabs
                      \/ infobar' /\ LoadSession(backup') = ended.tabs
    BY DEF Running
  <2>1. "main" \in Models /\ ended.tabs = LoadSession(disk["main"])
    BY DEF IndInv, Gone, Models
  <2>2. (\E upgrade \in BOOLEAN : Launch(upgrade)) \/ LaunchAfterCrash
    BY DEF Next, TabStep, ProcessStep, OpenTab, CloseTab, LoadComplete, ClearHistory,
           RestoreSessionsAfterCrash, InfoBarRemoved, EnterBackground, EnterForeground,
           Die, Terminate, PerformSave, RunTask, DeleteIncognitoTabModelState,
           CommitPendingWrite, Running
  <2>3. CASE \E upgrade \in BOOLEAN : Launch(upgrade)
    BY <2>1, <2>3 DEF Launch, Start
  <2>4. CASE LaunchAfterCrash
    <3>1. CASE disk["main"] = NoFile
      BY <2>1, <2>4, <3>1, ContentFacts DEF LaunchAfterCrash, Start
    <3>2. CASE disk["main"] # NoFile
      BY <2>1, <2>4, <3>2 DEF LaunchAfterCrash, MoveAsideSessionInformation
    <3> QED  BY <3>1, <3>2
  <2> QED  BY <2>2, <2>3, <2>4
<1>2. RestartKeepsTabs <=> [][kept]_vars
  BY DEF RestartKeepsTabs
<1>3. Spec => [][kept]_vars
  BY <1>1, InvariantHolds, PTL DEF Spec
<1> QED  BY <1>2, <1>3, PTL
=============================================================================
