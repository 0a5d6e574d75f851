----------------------- MODULE WebStateListClientsProofs ---------------------
(***************************************************************************)
(* Proofs about the clients of the tab list, for any set of WebStates: the *)
(* observers of WebStateListObservers and the sessions of                  *)
(* WebStateListSerialization.  Both rest on the inductive invariant of the *)
(* list itself, which WebStateListProofs establishes.                      *)
(***************************************************************************)
EXTENDS WebStateListObservers, WebStateListSerialization, WebStateListProofs

-----------------------------------------------------------------------------
(* Notifications are handled one after the other.                          *)

\* An operation sends at most four notifications; the recursive function that
\* hands them over exists because its values can be given, and so satisfies its
\* equation.
LEMMA ObservedInOrder ==
    ASSUME NEW o, NEW ns, Len(ns) \in 0 .. 4
    PROVE  LET o1 == Observe(o, ns[1])
               o2 == Observe(o1, ns[2])
               o3 == Observe(o2, ns[3])
               o4 == Observe(o3, ns[4])
           IN  /\ Len(ns) = 0 => Observed(o, ns) = o
               /\ Len(ns) = 1 => Observed(o, ns) = o1
               /\ Len(ns) = 2 => Observed(o, ns) = o2
               /\ Len(ns) = 3 => Observed(o, ns) = o3
               /\ Len(ns) = 4 => Observed(o, ns) = o4
<1>0. \A i \in 0 .. Len(ns) : i # 0 => i \in 1 .. 4 /\ i - 1 \in 0 .. Len(ns)
  <2>1. \A n \in 0 .. 4 : \A i \in 0 .. n : i # 0 => i \in 1 .. 4 /\ i - 1 \in 0 .. n
    OBVIOUS
  <2> QED  BY <2>1
<1> DEFINE o1 == Observe(o, ns[1])
           o2 == Observe(o1, ns[2])
           o3 == Observe(o2, ns[3])
           o4 == Observe(o3, ns[4])
           F(g) == [i \in 0 .. Len(ns) |-> IF i = 0 THEN o ELSE Observe(g[i - 1], ns[i])]
           values == [i \in 0 .. Len(ns) |->
                         IF i = 0 THEN o ELSE IF i = 1 THEN o1 ELSE IF i = 2 THEN o2
                         ELSE IF i = 3 THEN o3 ELSE o4]
           after == CHOOSE g : g = F(g)
<1>1. values = F(values)
  <2>1. ASSUME NEW i \in 0 .. Len(ns), i # 0
        PROVE  values[i] = Observe(values[i - 1], ns[i])
    <3>1. i \in 1 .. 4 /\ i - 1 \in 0 .. Len(ns)
      BY <1>0, <2>1
    <3>2. CASE i = 1
      BY <3>1, <3>2
    <3>3. CASE i = 2
      BY <3>1, <3>3
    <3>4. CASE i = 3
      BY <3>1, <3>4
    <3>5. CASE i = 4
      BY <3>1, <3>5
    <3> QED  BY <3>1, <3>2, <3>3, <3>4, <3>5
  <2>2. values[0] = o
    OBVIOUS
  <2> DEFINE G == F(values)
  <2>3. G = [i \in 0 .. Len(ns) |-> G[i]] /\ values = [i \in 0 .. Len(ns) |-> values[i]]
    OBVIOUS
  <2>4. \A i \in 0 .. Len(ns) : G[i] = IF i = 0 THEN o ELSE Observe(values[i - 1], ns[i])
    OBVIOUS
  <2> HIDE DEF values, G
  <2>5. \A i \in 0 .. Len(ns) : values[i] = G[i]
    BY <2>1, <2>2, <2>4
  <2>6. values = G
    BY <2>3, <2>5
  <2> QED  BY <2>6 DEF G
<1>2. after = F(after)
  <2> HIDE DEF F, values
  <2> QED  BY <1>1, Zenon
<1>3. Observed(o, ns) = after[Len(ns)]
  BY DEF Observed
<1> HIDE DEF after
<1>4. /\ after[0] = o
      /\ \A i \in 0 .. Len(ns) : i # 0 => after[i] = Observe(after[i - 1], ns[i])
  BY <1>2
<1>5. /\ Len(ns) >= 1 => after[1] = o1
      /\ Len(ns) >= 2 => after[2] = Observe(after[1], ns[2])
      /\ Len(ns) >= 3 => after[3] = Observe(after[2], ns[3])
      /\ Len(ns) >= 4 => after[4] = Observe(after[3], ns[4])
  BY <1>4
<1> QED  BY <1>3, <1>4, <1>5

\* The states of the three observers.
ConsumerState == [items : Seq(WebStates), selectedIndex : Int]
ClosingState == [lastDetachedWebStateWasActive : BOOLEAN, save : BOOLEAN]
EnumerationState == [on : BOOLEAN, offset : Nat, batch : Seq(WebStates), mutated : BOOLEAN]
BodyState == [given : Seq(WebStates), replaced : BOOLEAN]

\* The observers `after' a removal: the consumer has the shorter list and the new
\* selection, an enumeration in progress is marked as overtaken, and the closing
\* observer has the decision to save that belongs to this very WebState.
AfterRemoval(o, a, b, d, y, after) ==
    /\ after.consumer = [items |-> RemoveAt(o.consumer.items, b.index + 1),
                         selectedIndex |-> b.active]
    /\ after.enumeration =
           [o.enumeration EXCEPT !.mutated = o.enumeration.mutated \/ o.enumeration.on]
    /\ after.closing \in ClosingState
    /\ y = <<d>> => (after.closing.save <=>
                        /\ a.active = a.index
                        /\ d.active # kInvalidIndex \/ Len(wrappers') = 0)

\* The notifications of a removal, sent in the order of DetachWebStateAt and
\* CloseWebStateAt, leave the observers like that.
LEMMA RemovalObserved ==
    ASSUME NEW o, o.consumer \in ConsumerState, o.closing \in ClosingState,
           o.enumeration \in EnumerationState,
           NEW a, a.event = "will_detach", NEW b, b.event = "detached",
           NEW c, c.event = "activated", NEW d, d.event = "will_close",
           c.index = b.active,
           NEW x \in {<< >>, <<c>>}, NEW y \in {<< >>, <<d>>}
    PROVE  AfterRemoval(o, a, b, d, y, Observed(o, <<a, b>> \o x \o y))
<1> DEFINE gone == [items |-> RemoveAt(o.consumer.items, b.index + 1),
                    selectedIndex |-> b.active]
           noticed == [o.enumeration EXCEPT !.mutated = o.enumeration.mutated \/ o.enumeration.on]
           oa == Observe(o, a)
           ob == Observe(oa, b)
           oc == Observe(ob, c)
<1>1. ASSUME NEW s, NEW n
      PROVE  /\ Observe(s, n).consumer = ConsumerHandles(s.consumer, n)
             /\ Observe(s, n).closing = ClosingHandles(s.closing, n)
             /\ Observe(s, n).enumeration = EnumerationHandles(s.enumeration, n)
  BY DEF Observe
<1>2. /\ oa.consumer = o.consumer
      /\ oa.enumeration = o.enumeration
      /\ oa.closing \in ClosingState
      /\ oa.closing.lastDetachedWebStateWasActive = (a.active = a.index)
  <2>1. ConsumerHandles(o.consumer, a) = o.consumer
    BY DEF ConsumerHandles
  <2>2. EnumerationHandles(o.enumeration, a) = o.enumeration
    BY DEF EnumerationHandles, EnumerationState
  <2>3. ClosingHandles(o.closing, a) =
            [o.closing EXCEPT !.lastDetachedWebStateWasActive = (a.active = a.index)]
    BY DEF ClosingHandles
  <2> DEFINE flag == a.active = a.index
  <2>4. flag \in BOOLEAN
    OBVIOUS
  <2>5. oa.closing = [o.closing EXCEPT !.lastDetachedWebStateWasActive = flag]
    BY <1>1, <2>3
  <2> HIDE DEF flag
  <2>6. oa.closing \in ClosingState /\ oa.closing.lastDetachedWebStateWasActive = flag
    BY <2>4, <2>5 DEF ClosingState
  <2>7. oa.consumer = o.consumer /\ oa.enumeration = o.enumeration
    BY <1>1, <2>1, <2>2
  <2> QED  BY <2>6, <2>7 DEF flag
<1> HIDE DEF oa
<1>3. /\ ob.consumer = gone
      /\ ob.enumeration = noticed
      /\ ob.closing = oa.closing
  <2>1. ConsumerHandles(oa.consumer, b) = gone
    BY <1>2 DEF ConsumerHandles, DeleteItem
  <2>2. EnumerationHandles(oa.enumeration, b) = noticed
    BY <1>2 DEF EnumerationHandles, EnumerationState
  <2>3. ClosingHandles(oa.closing, b) = oa.closing
    BY DEF ClosingHandles
  <2> QED  BY <1>1, <2>1, <2>2, <2>3
<1> HIDE DEF ob
<1>4. /\ oc.consumer = gone
      /\ oc.enumeration = noticed
      /\ oc.closing = oa.closing
  <2>1. ConsumerHandles(ob.consumer, c) = gone
    <3>1. ConsumerHandles(ob.consumer, c) = [gone EXCEPT !.selectedIndex = c.index]
      BY <1>3 DEF ConsumerHandles
    <3> QED  BY <3>1
  <2>2. EnumerationHandles(ob.enumeration, c) = noticed
    BY <1>3 DEF EnumerationHandles, EnumerationState
  <2>3. ClosingHandles(ob.closing, c) = oa.closing
    BY <1>3 DEF ClosingHandles
  <2> QED  BY <1>1, <2>1, <2>2, <2>3
<1> HIDE DEF oc
<1>5. ASSUME NEW s, s.consumer = gone, s.enumeration = noticed, s.closing = oa.closing
      PROVE  /\ Observe(s, d).consumer = gone
             /\ Observe(s, d).enumeration = noticed
             /\ Observe(s, d).closing \in ClosingState
             /\ Observe(s, d).closing.save <=>
                    /\ a.active = a.index
                    /\ d.active # kInvalidIndex \/ Len(wrappers') = 0
  <2>1. ConsumerHandles(s.consumer, d) = gone
    BY <1>5 DEF ConsumerHandles
  <2>2. EnumerationHandles(s.enumeration, d) = noticed
    BY <1>5 DEF EnumerationHandles, EnumerationState
  <2>3. ClosingHandles(s.closing, d) =
            [lastDetachedWebStateWasActive |-> FALSE,
             save |-> /\ s.closing.lastDetachedWebStateWasActive
                      /\ d.active # kInvalidIndex \/ Len(wrappers') = 0]
    BY DEF ClosingHandles
  <2> DEFINE flag == /\ s.closing.lastDetachedWebStateWasActive
                     /\ d.active # kInvalidIndex \/ Len(wrappers') = 0
  <2>4. flag \in BOOLEAN
    OBVIOUS
  <2>5. Observe(s, d).closing = [lastDetachedWebStateWasActive |-> FALSE, save |-> flag]
    BY <1>1, <2>3
  <2>6. flag <=> /\ a.active = a.index
                 /\ d.active # kInvalidIndex \/ Len(wrappers') = 0
    BY <1>2, <1>5
  <2>7. Observe(s, d).consumer = gone /\ Observe(s, d).enumeration = noticed
    BY <1>1, <2>1, <2>2
  <2> HIDE DEF flag
  <2>8. Observe(s, d).closing \in ClosingState /\ Observe(s, d).closing.save = flag
    BY <2>4, <2>5 DEF ClosingState
  <2> QED  BY <2>6, <2>7, <2>8
<1> HIDE DEF gone, noticed
<1>6. CASE x = << >> /\ y = << >>
  <2> DEFINE ns == <<a, b>> \o x \o y
  <2>1. Len(ns) = 2 /\ ns[1] = a /\ ns[2] = b
    BY <1>6
  <2> HIDE DEF ns
  <2>2. Observed(o, ns) = ob
    BY <2>1, ObservedInOrder DEF oa, ob
  <2> QED  BY <1>2, <1>3, <1>6, <2>2 DEF AfterRemoval, ns, gone, noticed
<1>7. CASE x = <<c>> /\ y = << >>
  <2> DEFINE ns == <<a, b>> \o x \o y
  <2>1. Len(ns) = 3 /\ ns[1] = a /\ ns[2] = b /\ ns[3] = c
    BY <1>7
  <2> HIDE DEF ns
  <2>2. Observed(o, ns) = oc
    BY <2>1, ObservedInOrder DEF oa, ob, oc
  <2> QED  BY <1>2, <1>4, <1>7, <2>2 DEF AfterRemoval, ns, gone, noticed
<1>8. CASE x = << >> /\ y = <<d>>
  <2> DEFINE ns == <<a, b>> \o x \o y
  <2>1. Len(ns) = 3 /\ ns[1] = a /\ ns[2] = b /\ ns[3] = d
    BY <1>8
  <2> HIDE DEF ns
  <2>2. Observed(o, ns) = Observe(ob, d)
    BY <2>1, ObservedInOrder DEF oa, ob
  <2> QED  BY <1>3, <1>5, <2>2 DEF AfterRemoval, ns, gone, noticed
<1>9. CASE x = <<c>> /\ y = <<d>>
  <2> DEFINE ns == <<a, b>> \o x \o y
  <2>1. Len(ns) = 4 /\ ns[1] = a /\ ns[2] = b /\ ns[3] = c /\ ns[4] = d
    BY <1>9
  <2> HIDE DEF ns
  <2>2. Observed(o, ns) = Observe(oc, d)
    BY <2>1, ObservedInOrder DEF oa, ob, oc
  <2> QED  BY <1>4, <1>5, <2>2 DEF AfterRemoval, ns, gone, noticed
<1> QED  BY <1>6, <1>7, <1>8, <1>9

\* Any other operation sends at most one notification.
LEMMA OneObserved ==
    ASSUME NEW o, o.consumer \in ConsumerState, o.closing \in ClosingState,
           o.enumeration \in EnumerationState,
           NEW n, n.event \in {"inserted", "moved", "replaced", "activated"}
    PROVE  LET after == Observed(o, <<n>>)
           IN  /\ after.consumer = ConsumerHandles(o.consumer, n)
               /\ after.closing = o.closing
               /\ after.enumeration =
                      [o.enumeration EXCEPT !.mutated =
                          o.enumeration.mutated \/ (o.enumeration.on /\ n.event \in {"inserted", "moved"})]
<1> DEFINE ns == <<n>>
<1>1. Len(ns) = 1 /\ ns[1] = n
  OBVIOUS
<1> HIDE DEF ns
<1>2. Observed(o, ns) = Observe(o, n)
  BY <1>1, ObservedInOrder
<1>3. ClosingHandles(o.closing, n) = o.closing
  BY DEF ClosingHandles
<1>4. EnumerationHandles(o.enumeration, n) =
          [o.enumeration EXCEPT !.mutated =
              o.enumeration.mutated \/ (o.enumeration.on /\ n.event \in {"inserted", "moved"})]
  BY DEF EnumerationHandles
<1> QED  BY <1>2, <1>3, <1>4 DEF Observe, ns

-----------------------------------------------------------------------------
(* A copy that follows the vector.                                         *)

\* WebStatesOf is the vector without the openers.
LEMMA MirrorElements ==
    ASSUME NEW ws \in Seq(WebStateWrapper)
    PROVE  /\ WebStatesOf(ws) \in Seq(WebStates) /\ Len(WebStatesOf(ws)) = Len(ws)
           /\ \A p \in 1 .. Len(ws) : WebStatesOf(ws)[p] = ws[p].web_state
<1>1. Len(ws) \in Nat /\ \A p \in 1 .. Len(ws) : ws[p].web_state \in WebStates
  <2>1. \A p \in 1 .. Len(ws) : ws[p] \in WebStateWrapper
    BY ElementOfSeq
  <2> QED  BY <2>1, LenProperties DEF WebStateWrapper
<1>2. WebStatesOf(ws) \in [1 .. Len(ws) -> WebStates]
  BY <1>1 DEF WebStatesOf
<1> QED  BY <1>1, <1>2 DEF WebStatesOf

\* Inserting commutes with taking the copy.
LEMMA MirrorInsert ==
    ASSUME NEW ws \in Seq(WebStateWrapper), NEW w \in WebStateWrapper,
           NEW i \in 1 .. Len(ws) + 1
    PROVE  WebStatesOf(InsertAt(ws, i, w)) = InsertAt(WebStatesOf(ws), i, w.web_state)
<1> DEFINE s == InsertAt(ws, i, w)
           m == WebStatesOf(ws)
           e == w.web_state
           t == InsertAt(m, i, e)
<1>0. Len(ws) \in Nat /\ e \in WebStates
  BY LenProperties DEF WebStateWrapper
<1>1. /\ s \in Seq(WebStateWrapper) /\ Len(s) = Len(ws) + 1
      /\ \A j \in 1 .. Len(ws) + 1 :
            s[j] = IF j < i THEN ws[j] ELSE IF j = i THEN w ELSE ws[j - 1]
  BY InsertAtProperties
<1>2. /\ m \in Seq(WebStates) /\ Len(m) = Len(ws)
      /\ \A p \in 1 .. Len(ws) : m[p] = ws[p].web_state
  BY MirrorElements
<1> HIDE DEF s, m, e
<1>3. /\ t \in Seq(WebStates) /\ Len(t) = Len(ws) + 1
      /\ \A j \in 1 .. Len(ws) + 1 :
            t[j] = IF j < i THEN m[j] ELSE IF j = i THEN e ELSE m[j - 1]
  <2>1. i \in 1 .. Len(m) + 1
    BY <1>2
  <2>0. m \in Seq(WebStates) /\ e \in WebStates
    BY <1>0, <1>2
  <2>2. /\ t \in Seq(WebStates) /\ Len(t) = Len(m) + 1
        /\ \A j \in 1 .. Len(m) + 1 :
              t[j] = IF j < i THEN m[j] ELSE IF j = i THEN e ELSE m[j - 1]
    BY <2>0, <2>1, InsertAtProperties, SMTT(60)
  <2> QED  BY <1>2, <2>2
<1> HIDE DEF t
<1>4. /\ WebStatesOf(s) \in Seq(WebStates) /\ Len(WebStatesOf(s)) = Len(s)
      /\ \A p \in 1 .. Len(s) : WebStatesOf(s)[p] = s[p].web_state
  BY <1>1, MirrorElements
<1>5. ASSUME NEW j \in 1 .. Len(ws) + 1 PROVE WebStatesOf(s)[j] = t[j]
  <2>1. CASE j < i
    <3>1. j \in 1 .. Len(ws) /\ j \in 1 .. Len(s)
      BY <1>0, <1>1, <2>1
    <3>2. s[j] = ws[j] /\ t[j] = m[j]
      BY <1>1, <1>3, <2>1
    <3> QED  BY <1>2, <1>4, <3>1, <3>2
  <2>2. CASE j = i
    <3>1. s[j] = w /\ t[j] = e /\ j \in 1 .. Len(s)
      BY <1>0, <1>1, <1>3, <2>2
    <3> QED  BY <1>4, <3>1 DEF e
  <2>3. CASE j > i
    <3>1. j - 1 \in 1 .. Len(ws) /\ ~ (j < i) /\ j # i
      BY <1>0, <2>3
    <3>2. s[j] = ws[j - 1] /\ t[j] = m[j - 1]
      BY <1>1, <1>3, <3>1
    <3> QED  BY <1>1, <1>2, <1>4, <3>1, <3>2
  <2> QED  BY <1>0, <2>1, <2>2, <2>3
<1>6. WebStatesOf(s) = t
  BY <1>1, <1>3, <1>4, <1>5, SeqEqual
<1> QED  BY <1>6 DEF s, t, m, e

\* Removing commutes with taking the copy.
LEMMA MirrorRemove ==
    ASSUME NEW ws \in Seq(WebStateWrapper), NEW i \in 1 .. Len(ws)
    PROVE  WebStatesOf(RemoveAt(ws, i)) = RemoveAt(WebStatesOf(ws), i)
<1> DEFINE s == RemoveAt(ws, i)
           m == WebStatesOf(ws)
           t == RemoveAt(m, i)
<1>0. Len(ws) \in Nat
  BY LenProperties
<1>1. /\ s \in Seq(WebStateWrapper) /\ Len(s) = Len(ws) - 1
      /\ \A j \in 1 .. Len(ws) - 1 : s[j] = IF j < i THEN ws[j] ELSE ws[j + 1]
  BY RemoveAtProperties
<1>2. /\ m \in Seq(WebStates) /\ Len(m) = Len(ws)
      /\ \A p \in 1 .. Len(ws) : m[p] = ws[p].web_state
  BY MirrorElements
<1> HIDE DEF s, m
<1>3. /\ t \in Seq(WebStates) /\ Len(t) = Len(ws) - 1
      /\ \A j \in 1 .. Len(ws) - 1 : t[j] = IF j < i THEN m[j] ELSE m[j + 1]
  BY <1>2, RemoveAtProperties
<1> HIDE DEF t
<1>4. /\ WebStatesOf(s) \in Seq(WebStates) /\ Len(WebStatesOf(s)) = Len(s)
      /\ \A p \in 1 .. Len(s) : WebStatesOf(s)[p] = s[p].web_state
  BY <1>1, MirrorElements
<1>5. ASSUME NEW j \in 1 .. Len(ws) - 1 PROVE WebStatesOf(s)[j] = t[j]
  <2>1. CASE j < i
    <3>1. j \in 1 .. Len(ws) /\ j \in 1 .. Len(s)
      BY <1>0, <1>1, <2>1
    <3>2. s[j] = ws[j] /\ t[j] = m[j]
      BY <1>1, <1>3, <2>1
    <3> QED  BY <1>2, <1>4, <3>1, <3>2
  <2>2. CASE ~ (j < i)
    <3>1. j + 1 \in 1 .. Len(ws)
      BY <1>0
    <3>2. s[j] = ws[j + 1] /\ t[j] = m[j + 1]
      BY <1>1, <1>3, <2>2
    <3> QED  BY <1>1, <1>2, <1>4, <3>1, <3>2
  <2> QED  BY <2>1, <2>2
<1>6. WebStatesOf(s) = t
  BY <1>1, <1>3, <1>4, <1>5, SeqEqual
<1> QED  BY <1>6 DEF s, t, m

\* So does replacing, and clearing openers leaves the copy as it is.
LEMMA MirrorReplace ==
    ASSUME NEW ws \in Seq(WebStateWrapper), NEW w \in WebStateWrapper, NEW i \in 1 .. Len(ws)
    PROVE  WebStatesOf([ws EXCEPT ![i] = w]) = [WebStatesOf(ws) EXCEPT ![i] = w.web_state]
<1> DEFINE s == [ws EXCEPT ![i] = w]
           m == WebStatesOf(ws)
           t == [m EXCEPT ![i] = w.web_state]
<1>0. Len(ws) \in Nat /\ w.web_state \in WebStates
  BY LenProperties DEF WebStateWrapper
<1>1. /\ s \in Seq(WebStateWrapper) /\ Len(s) = Len(ws)
      /\ \A j \in 1 .. Len(ws) : s[j] = IF j = i THEN w ELSE ws[j]
  BY ExceptSeq
<1>2. /\ m \in Seq(WebStates) /\ Len(m) = Len(ws)
      /\ \A p \in 1 .. Len(ws) : m[p] = ws[p].web_state
  BY MirrorElements
<1> HIDE DEF s, m
<1>3. /\ t \in Seq(WebStates) /\ Len(t) = Len(ws)
      /\ \A j \in 1 .. Len(ws) : t[j] = IF j = i THEN w.web_state ELSE m[j]
  BY <1>0, <1>2, ExceptSeq
<1> HIDE DEF t
<1>4. /\ WebStatesOf(s) \in Seq(WebStates) /\ Len(WebStatesOf(s)) = Len(s)
      /\ \A p \in 1 .. Len(s) : WebStatesOf(s)[p] = s[p].web_state
  BY <1>1, MirrorElements
<1>5. \A j \in 1 .. Len(ws) : WebStatesOf(s)[j] = t[j]
  BY <1>1, <1>2, <1>3, <1>4
<1>6. WebStatesOf(s) = t
  BY <1>1, <1>3, <1>4, <1>5, SeqEqual
<1> QED  BY <1>6 DEF s, t, m

\* Clearing openers changes nothing that the mirror shows.
LEMMA MirrorCleared ==
    ASSUME TypeOK, NEW web_state
    PROVE  WebStatesOf(ClearOpenersReferencing(wrappers, web_state)) = WebStatesOf(wrappers)
<1> DEFINE cleared == ClearOpenersReferencing(wrappers, web_state)
<1>1. /\ cleared \in Seq(WebStateWrapper) /\ Len(cleared) = Len(wrappers)
      /\ \A p \in 1 .. Len(wrappers) : cleared[p].web_state = wrappers[p].web_state
  BY ClearOpenersProperties
<1>2. wrappers \in Seq(WebStateWrapper)
  BY DEF TypeOK
<1> HIDE DEF cleared
<1>3. /\ WebStatesOf(cleared) \in Seq(WebStates) /\ Len(WebStatesOf(cleared)) = Len(cleared)
      /\ \A p \in 1 .. Len(cleared) : WebStatesOf(cleared)[p] = cleared[p].web_state
  BY <1>1, MirrorElements
<1>4. /\ WebStatesOf(wrappers) \in Seq(WebStates) /\ Len(WebStatesOf(wrappers)) = Len(wrappers)
      /\ \A p \in 1 .. Len(wrappers) : WebStatesOf(wrappers)[p] = wrappers[p].web_state
  BY <1>2, MirrorElements
<1>5. WebStatesOf(cleared) = WebStatesOf(wrappers)
  BY <1>1, <1>3, <1>4, SeqEqual
<1> QED  BY <1>5 DEF cleared

-----------------------------------------------------------------------------
(* The observers after one operation.                                      *)

\* Type correctness of the observers.
ObsTypeOK ==
    /\ consumer \in ConsumerState
    /\ closing \in ClosingState
    /\ enumeration \in EnumerationState
    /\ body \in BodyState

\* The offset of an enumeration counts what its body was given and what is left in
\* the buffer.  While no mutation was counted and no tab replaced, those are the
\* first tabs of the list.
EnumerationSound ==
    /\ ~ enumeration.on => body = NoBody /\ enumeration.batch = << >>
    /\ enumeration.on =>
           Len(body.given) + Len(enumeration.batch) = enumeration.offset
    /\ enumeration.on /\ ~ enumeration.mutated /\ ~ body.replaced =>
           /\ enumeration.offset <= count
           /\ \A k \in 1 .. Len(body.given) : body.given[k] = WebStatesOf(wrappers)[k]
           /\ \A k \in 1 .. Len(enumeration.batch) :
                  enumeration.batch[k] = WebStatesOf(wrappers)[Len(body.given) + k]

EnumerationFine ==
    enumeration \in EnumerationState /\ body \in BodyState /\ EnumerationSound

\* An operation of the list does not end the loop it is called from.
EnumerationKept == EnumerationFine' /\ enumeration'.on = enumeration.on

\* The inductive invariant: the list's own, and the two of its observers.
ObsInv ==
    /\ IndInv
    /\ ObsTypeOK
    /\ ConsumerMirrorsList
    /\ EnumerationSound

\* The observers as an operation finds them, and as it leaves them.
Watching ==
    [consumer |-> consumer, closing |-> [closing EXCEPT !.save = FALSE],
     enumeration |-> enumeration]

Replaced == \E i \in 1 .. Len(notified') : notified'[i].event = "replaced"

Handled ==
    /\ consumer' = Observed(Watching, notified').consumer
    /\ closing' = Observed(Watching, notified').closing
    /\ enumeration' = Observed(Watching, notified').enumeration
    /\ body' = [body EXCEPT !.replaced = body.replaced \/ (enumeration.on /\ Replaced)]

\* The part of the invariant that is the observers'.
ObserversFine == ObsTypeOK /\ ConsumerMirrorsList /\ EnumerationSound
ObserversKept == ObserversFine' /\ enumeration'.on = enumeration.on

\* What every operation starts from.
LEMMA WatchingFacts ==
    ASSUME ObsInv
    PROVE  /\ Watching.consumer = consumer /\ Watching.enumeration = enumeration
           /\ Watching.consumer \in ConsumerState
           /\ Watching.closing \in ClosingState
           /\ Watching.enumeration \in EnumerationState
           /\ consumer.items = WebStatesOf(wrappers) /\ consumer.selectedIndex = active_index
<1>1. [closing EXCEPT !.save = FALSE] \in ClosingState
  BY DEF ObsInv, ObsTypeOK, ClosingState
<1> QED  BY <1>1 DEF Watching, ObsInv, ObsTypeOK, ConsumerMirrorsList

\* A consumer that shows the new list is well typed.
LEMMA ConsumerShows ==
    ASSUME IndInv',
           consumer' = [items |-> WebStatesOf(wrappers'), selectedIndex |-> active_index']
    PROVE  consumer' \in ConsumerState /\ ConsumerMirrorsList'
<1>1. wrappers' \in Seq(WebStateWrapper) /\ active_index' \in Int
  BY DEF IndInv, TypeOK
<1>2. WebStatesOf(wrappers') \in Seq(WebStates)
  BY <1>1, MirrorElements
<1>3. WebStatesOf(wrappers)' = WebStatesOf(wrappers')
  BY DEF WebStatesOf
<1> QED  BY <1>1, <1>2, <1>3 DEF ConsumerState, ConsumerMirrorsList

\* An enumeration stays sound when every change of the tabs is counted as a mutation
\* or is a replacement.
LEMMA EnumerationStays ==
    ASSUME ObsInv, Handled, NEW hit \in BOOLEAN,
           \/ hit
           \/ Replaced
           \/ WebStatesOf(wrappers') = WebStatesOf(wrappers) /\ count' = count,
           enumeration' = [enumeration EXCEPT !.mutated =
                              enumeration.mutated \/ (enumeration.on /\ hit)]
    PROVE  EnumerationKept
<1> DEFINE m == enumeration.mutated \/ (enumeration.on /\ hit)
           r == body.replaced \/ (enumeration.on /\ Replaced)
<1>1. enumeration \in EnumerationState /\ body \in BodyState
  BY DEF ObsInv, ObsTypeOK
<1>2. m \in BOOLEAN /\ r \in BOOLEAN
  BY DEF Replaced
<1>3. enumeration' = [enumeration EXCEPT !.mutated = m] /\ body' = [body EXCEPT !.replaced = r]
  BY DEF Handled
<1>4. enumeration.on /\ ~ m /\ ~ r =>
          /\ ~ enumeration.mutated /\ ~ body.replaced
          /\ WebStatesOf(wrappers') = WebStatesOf(wrappers) /\ count' = count
  BY DEF Replaced
<1>5. ~ enumeration.on => r = body.replaced
  BY <1>1 DEF BodyState
<1> HIDE DEF m, r
<1>6. /\ enumeration' \in EnumerationState
      /\ enumeration'.on = enumeration.on /\ enumeration'.offset = enumeration.offset
      /\ enumeration'.batch = enumeration.batch /\ enumeration'.mutated = m
  BY <1>1, <1>2, <1>3 DEF EnumerationState
<1>7. body' \in BodyState /\ body'.given = body.given /\ body'.replaced = r
  BY <1>1, <1>2, <1>3 DEF BodyState
<1>8. ~ enumeration.on => body' = body
  BY <1>1, <1>3, <1>5 DEF BodyState
<1>9. WebStatesOf(wrappers)' = WebStatesOf(wrappers')
  BY DEF WebStatesOf
<1>10. EnumerationSound
  BY DEF ObsInv
<1>11. EnumerationSound'
  BY <1>4, <1>6, <1>7, <1>8, <1>9, <1>10 DEF EnumerationSound, NoBody
<1> QED  BY <1>6, <1>7, <1>11 DEF EnumerationKept, EnumerationFine

\* WebStateInsertedAt.
LEMMA InsertHandled ==
    ASSUME ObsInv, IndInv', Handled, NEW index \in 0 .. count,
           NEW wrapper \in WebStateWrapper, InsertWrapperAt(index, wrapper)
    PROVE  ObserversKept
<1> DEFINE n == Notify("inserted", wrapper.web_state, index, active_index')
           i == index + 1
<1>1. /\ count \in Nat /\ count = Len(wrappers) /\ wrappers \in Seq(WebStateWrapper)
  BY ListFacts DEF ObsInv
<1>2. /\ notified' = <<n>> /\ wrappers' = InsertAt(wrappers, i, wrapper)
      /\ i \in 1 .. Len(wrappers) + 1
  BY <1>1 DEF InsertWrapperAt
<1>3. n.event = "inserted" /\ n.index = index /\ n.web_state = wrapper.web_state
      /\ n.active = active_index'
  BY DEF Notify
<1> HIDE DEF n
<1>4. /\ consumer' = ConsumerHandles(consumer, n)
      /\ closing' = Watching.closing
      /\ enumeration' = [enumeration EXCEPT !.mutated =
             enumeration.mutated \/ (enumeration.on /\ n.event \in {"inserted", "moved"})]
  BY <1>2, <1>3, WatchingFacts, OneObserved DEF Handled
<1>5. consumer' = [items |-> InsertAt(consumer.items, i, wrapper.web_state),
                   selectedIndex |-> active_index']
  BY <1>3, <1>4 DEF ConsumerHandles
<1> HIDE DEF i
<1>6. InsertAt(consumer.items, i, wrapper.web_state) = WebStatesOf(wrappers')
  BY <1>1, <1>2, WatchingFacts, MirrorInsert
<1>7. consumer' \in ConsumerState /\ ConsumerMirrorsList'
  BY <1>5, <1>6, ConsumerShows
<1>8. EnumerationKept
  BY <1>3, <1>4, EnumerationStays
<1> QED  BY <1>4, <1>7, <1>8, WatchingFacts DEF ObserversKept, ObserversFine, ObsTypeOK,
                                           EnumerationKept, EnumerationFine

\* WebStateMoved.
LEMMA MoveHandled ==
    ASSUME ObsInv, IndInv', Handled, NEW from \in Indices, NEW to \in Indices,
           MoveWebStateAt(from, to)
    PROVE  ObserversKept
<1> DEFINE w == wrappers[from + 1]
           n == NotifyMoved(w.web_state, from, to, active_index')
           i == from + 1
           j == to + 1
           rest == RemoveAt(wrappers, i)
<1>1. /\ count \in Nat /\ count = Len(wrappers) /\ wrappers \in Seq(WebStateWrapper)
      /\ \A p \in 1 .. count : wrappers[p] \in WebStateWrapper
  BY ListFacts DEF ObsInv
<1>2. i \in 1 .. Len(wrappers) /\ j \in 1 .. Len(wrappers)
  BY <1>1 DEF Indices
<1>3. notified' = <<n>> /\ wrappers' = InsertAt(rest, j, w)
  BY DEF MoveWebStateAt
<1>4. n.event = "moved" /\ n.index = from /\ n.to_index = to /\ n.active = active_index'
  BY DEF NotifyMoved
<1> HIDE DEF n
<1>5. /\ consumer' = ConsumerHandles(consumer, n)
      /\ closing' = Watching.closing
      /\ enumeration' = [enumeration EXCEPT !.mutated =
             enumeration.mutated \/ (enumeration.on /\ n.event \in {"inserted", "moved"})]
  BY <1>3, <1>4, WatchingFacts, OneObserved DEF Handled
<1>6. consumer' = [items |-> InsertAt(RemoveAt(consumer.items, i), j, consumer.items[i]),
                   selectedIndex |-> active_index']
  BY <1>4, <1>5 DEF ConsumerHandles
<1>7. w \in WebStateWrapper /\ consumer.items[i] = w.web_state
  BY <1>1, <1>2, WatchingFacts, MirrorElements
<1>8. rest \in Seq(WebStateWrapper) /\ Len(rest) = Len(wrappers) - 1
  <2> HIDE DEF i
  <2> QED  BY <1>1, <1>2, RemoveAtProperties
<1>9. WebStatesOf(rest) = RemoveAt(consumer.items, i)
  <2> HIDE DEF i
  <2> QED  BY <1>1, <1>2, WatchingFacts, MirrorRemove
<1> HIDE DEF rest, i, j, w
<1>10. j \in 1 .. Len(rest) + 1
  BY <1>1, <1>2, <1>8
<1>11. WebStatesOf(InsertAt(rest, j, w)) = InsertAt(WebStatesOf(rest), j, w.web_state)
  BY <1>7, <1>8, <1>10, MirrorInsert
<1>12. consumer' = [items |-> WebStatesOf(wrappers'), selectedIndex |-> active_index']
  BY <1>3, <1>6, <1>7, <1>9, <1>11
<1>13. consumer' \in ConsumerState /\ ConsumerMirrorsList'
  BY <1>12, ConsumerShows
<1>14. EnumerationKept
  BY <1>4, <1>5, EnumerationStays
<1> QED  BY <1>5, <1>13, <1>14, WatchingFacts DEF ObserversKept, ObserversFine, ObsTypeOK,
                                           EnumerationKept, EnumerationFine

\* WebStateReplacedAt.  The enumeration does not count it.
LEMMA ReplaceHandled ==
    ASSUME ObsInv, IndInv', Handled, NEW index \in Indices, NEW web_state \in WebStates,
           ReplaceWebStateAt(index, web_state)
    PROVE  ObserversKept
<1> DEFINE n == Notify("replaced", web_state, index, active_index)
           i == index + 1
           w == NewWrapper(web_state)
           cleared == ClearOpenersReferencing(wrappers, GetWebStateAt(index))
<1>1. /\ count \in Nat /\ count = Len(wrappers) /\ wrappers \in Seq(WebStateWrapper)
      /\ TypeOK
  BY ListFacts DEF ObsInv, IndInv
<1>2. i \in 1 .. Len(wrappers)
  BY <1>1 DEF Indices
<1>3. /\ notified' = <<n>> /\ wrappers' = [cleared EXCEPT ![i] = w]
      /\ active_index' = active_index
  BY DEF ReplaceWebStateAt
<1>4. n.event = "replaced" /\ n.index = index /\ n.web_state = web_state
  BY DEF Notify
<1> HIDE DEF n
<1>5. /\ consumer' = ConsumerHandles(consumer, n)
      /\ closing' = Watching.closing
      /\ enumeration' = [enumeration EXCEPT !.mutated =
             enumeration.mutated \/ (enumeration.on /\ n.event \in {"inserted", "moved"})]
  BY <1>3, <1>4, WatchingFacts, OneObserved DEF Handled
<1>6. cleared \in Seq(WebStateWrapper) /\ Len(cleared) = Len(wrappers)
      /\ WebStatesOf(cleared) = consumer.items
  BY <1>1, ClearOpenersProperties, MirrorCleared, WatchingFacts
<1>7. w \in WebStateWrapper /\ w.web_state = web_state
  BY <1>1, ConstructorTypes DEF NewWrapper
<1>8. consumer' = [items |-> [consumer.items EXCEPT ![i] = web_state],
                   selectedIndex |-> active_index']
  <2>1. consumer' = [consumer EXCEPT !.items[n.index + 1] = n.web_state]
    BY <1>4, <1>5 DEF ConsumerHandles
  <2>2. consumer' = [consumer EXCEPT !.items = [consumer.items EXCEPT ![i] = web_state]]
    BY <1>4, <2>1
  <2>3. consumer = [items |-> consumer.items, selectedIndex |-> active_index']
    BY <1>3, WatchingFacts DEF ConsumerState
  <2> QED  BY <2>2, <2>3
<1> HIDE DEF cleared, i, w
<1>9. WebStatesOf(wrappers') = [consumer.items EXCEPT ![i] = web_state]
  <2>1. i \in 1 .. Len(cleared)
    BY <1>2, <1>6
  <2>2. WebStatesOf([cleared EXCEPT ![i] = w]) = [WebStatesOf(cleared) EXCEPT ![i] = w.web_state]
    BY <1>6, <1>7, <2>1, MirrorReplace
  <2> QED  BY <1>3, <1>6, <1>7, <2>2
<1>10. consumer' \in ConsumerState /\ ConsumerMirrorsList'
  BY <1>8, <1>9, ConsumerShows
<1>11. Replaced
  BY <1>3, <1>4 DEF Replaced
<1>12. EnumerationKept
  BY <1>4, <1>5, <1>11, EnumerationStays
<1> QED  BY <1>5, <1>10, <1>12, WatchingFacts DEF ObserversKept, ObserversFine, ObsTypeOK,
                                           EnumerationKept, EnumerationFine

\* WebStateActivatedAt, or nothing when the WebState is active already.
LEMMA ActivateHandled ==
    ASSUME ObsInv, IndInv', Handled, NEW index \in Indices, ActivateWebStateAt(index)
    PROVE  ObserversKept
<1> DEFINE n == NotifyActivated(GetWebStateAt(index), index, TRUE)
<1>1. /\ count \in Nat /\ count = Len(wrappers) /\ wrappers \in Seq(WebStateWrapper)
      /\ \A p \in 1 .. count : wrappers[p].web_state \in InList
      /\ InList \subseteq WebStates
      /\ active_index \in -1 .. count - 1
  BY ListFacts DEF ObsInv
<1>2. wrappers' = wrappers /\ active_index' = index /\ count' = count
  BY DEF ActivateWebStateAt, count
<1>3. /\ consumer' = [consumer EXCEPT !.selectedIndex = index]
      /\ closing' = Watching.closing
      /\ enumeration' = [enumeration EXCEPT !.mutated =
             enumeration.mutated \/ (enumeration.on /\ FALSE)]
  <2>1. CASE GetWebStateAt(index) = GetActiveWebState
    <3>1. notified' = << >>
      BY <2>1 DEF ActivateWebStateAt
    <3>2. Observed(Watching, notified') = Watching
      <4>1. Len(notified') = 0
        BY <3>1
      <4> QED  BY <4>1, ObservedInOrder
    <3>3. index = active_index
      <4>1. index + 1 \in 1 .. count /\ index \in Int
        BY <1>1 DEF Indices
      <4>2. active_index # kInvalidIndex
        <5>1. GetWebStateAt(index) \in WebStates
          BY <1>1, <4>1 DEF GetWebStateAt
        <5> QED  BY <2>1, <5>1, WebStateListAssumption DEF GetActiveWebState
      <4>3. wrappers[index + 1].web_state = wrappers[active_index + 1].web_state
        BY <2>1, <4>2 DEF GetActiveWebState, GetWebStateAt
      <4>4. active_index + 1 \in 1 .. count
        BY <1>1, <4>2 DEF kInvalidIndex
      <4>5. index + 1 = active_index + 1
        BY <1>1, <4>1, <4>3, <4>4 DEF ObsInv, IndInv, ParentedOnce, NoDuplicates
      <4> QED  BY <1>1, <4>1, <4>5
    <3>4. consumer' = consumer /\ enumeration' = enumeration /\ closing' = Watching.closing
      BY <3>2, WatchingFacts DEF Handled
    <3>5. consumer = [consumer EXCEPT !.selectedIndex = index]
      BY <3>3, WatchingFacts DEF ConsumerState
    <3>6. enumeration = [enumeration EXCEPT !.mutated =
                            enumeration.mutated \/ (enumeration.on /\ FALSE)]
      BY WatchingFacts DEF EnumerationState
    <3> QED  BY <3>4, <3>5, <3>6
  <2>2. CASE GetWebStateAt(index) # GetActiveWebState
    <3>1. notified' = <<n>>
      BY <2>2 DEF ActivateWebStateAt
    <3>2. n.event = "activated" /\ n.index = index
      BY DEF NotifyActivated
    <3> HIDE DEF n
    <3>3. /\ consumer' = ConsumerHandles(consumer, n)
          /\ closing' = Watching.closing
          /\ enumeration' = [enumeration EXCEPT !.mutated =
                enumeration.mutated \/ (enumeration.on /\ n.event \in {"inserted", "moved"})]
      BY <3>1, <3>2, WatchingFacts, OneObserved DEF Handled
    <3>4. ConsumerHandles(consumer, n) = [consumer EXCEPT !.selectedIndex = index]
      BY <3>2 DEF ConsumerHandles
    <3>5. (n.event \in {"inserted", "moved"}) = FALSE
      BY <3>2
    <3> QED  BY <3>3, <3>4, <3>5
  <2> QED  BY <2>1, <2>2
<1>4. consumer' = [items |-> WebStatesOf(wrappers'), selectedIndex |-> active_index']
  BY <1>2, <1>3, WatchingFacts DEF ConsumerState
<1>5. consumer' \in ConsumerState /\ ConsumerMirrorsList'
  BY <1>4, ConsumerShows
<1>6. EnumerationKept
  BY <1>2, <1>3, EnumerationStays
<1> QED  BY <1>3, <1>5, <1>6, WatchingFacts DEF ObserversKept, ObserversFine, ObsTypeOK,
                                           EnumerationKept, EnumerationFine

\* An operation that notifies nobody leaves the tabs and the selection alone.
LEMMA SilentHandled ==
    ASSUME ObsInv, IndInv', Handled, notified' = << >>,
           WebStatesOf(wrappers') = WebStatesOf(wrappers), count' = count,
           active_index' = active_index
    PROVE  ObserversKept
<1>1. Observed(Watching, notified') = Watching
  <2>1. Len(notified') = 0
    OBVIOUS
  <2> QED  BY <2>1, ObservedInOrder
<1>2. consumer' = consumer /\ enumeration' = enumeration /\ closing' = Watching.closing
  BY <1>1, WatchingFacts DEF Handled
<1>3. consumer' = [items |-> WebStatesOf(wrappers'), selectedIndex |-> active_index']
  BY <1>2, WatchingFacts DEF ConsumerState
<1>4. consumer' \in ConsumerState /\ ConsumerMirrorsList'
  BY <1>3, ConsumerShows
<1>5. EnumerationKept
  <2>1. enumeration' = [enumeration EXCEPT !.mutated =
                            enumeration.mutated \/ (enumeration.on /\ FALSE)]
    BY <1>2, WatchingFacts DEF EnumerationState
  <2> QED  BY <2>1, EnumerationStays
<1> QED  BY <1>2, <1>4, <1>5, WatchingFacts DEF ObserversKept, ObserversFine, ObsTypeOK,
                                           EnumerationKept, EnumerationFine

\* The notifications of DetachWebStateAt and CloseWebStateAt.
LEMMA RemovalHandled ==
    ASSUME ObsInv, IndInv', Handled, NEW index \in Indices,
           NEW d, d.event = "will_close", d.active = active_index',
           NEW then \in {<< >>, <<d>>}, DetachWrapperAt(index, then)
    PROVE  /\ ObserversKept
           /\ then = <<d>> => (closing'.save <=>
                                  /\ active_index = index
                                  /\ active_index' # kInvalidIndex \/ Len(wrappers') = 0)
<1> DEFINE i == index + 1
           cleared == ClearOpenersReferencing(wrappers, GetWebStateAt(index))
           selected == IF active_index' = kInvalidIndex THEN NoWebState
                       ELSE wrappers'[active_index' + 1].web_state
           a == Notify("will_detach", GetWebStateAt(index), index, active_index)
           b == Notify("detached", GetWebStateAt(index), index, active_index')
           c == NotifyActivated(selected, active_index', FALSE)
           x == IF index = active_index THEN <<c>> ELSE << >>
<1>1. /\ count \in Nat /\ count = Len(wrappers) /\ wrappers \in Seq(WebStateWrapper)
      /\ TypeOK
  BY ListFacts DEF ObsInv, IndInv
<1>2. i \in 1 .. Len(wrappers)
  BY <1>1 DEF Indices
<1>3. wrappers' = RemoveAt(cleared, i) /\ active_index' = ActiveIndexAfterDetach(index)
  BY DEF DetachWrapperAt
<1>4. notified' = <<a, b>> \o x \o then
  BY <1>3 DEF DetachWrapperAt
<1>5. /\ a.event = "will_detach" /\ a.index = index /\ a.active = active_index
      /\ b.event = "detached" /\ b.index = index /\ b.active = active_index'
      /\ c.event = "activated" /\ c.index = active_index'
  BY DEF Notify, NotifyActivated
<1>6. x \in {<< >>, <<c>>}
  OBVIOUS
<1> HIDE DEF a, b, c, x
<1> DEFINE after == Observed(Watching, <<a, b>> \o x \o then)
<1>7. AfterRemoval(Watching, a, b, d, then, after)
  <2>1. c.index = b.active
    BY <1>5
  <2>2. /\ Watching.consumer \in ConsumerState /\ Watching.closing \in ClosingState
        /\ Watching.enumeration \in EnumerationState
    BY WatchingFacts
  <2>3. a.event = "will_detach" /\ b.event = "detached" /\ c.event = "activated"
    BY <1>5
  <2> QED  BY <1>6, <2>1, <2>2, <2>3, RemovalObserved, Zenon
<1>8. consumer' = after.consumer /\ closing' = after.closing /\ enumeration' = after.enumeration
  BY <1>4 DEF Handled
<1> HIDE DEF after
<1>9. cleared \in Seq(WebStateWrapper) /\ Len(cleared) = Len(wrappers)
      /\ WebStatesOf(cleared) = consumer.items
  BY <1>1, ClearOpenersProperties, MirrorCleared, WatchingFacts
<1>10. consumer' = [items |-> RemoveAt(consumer.items, i), selectedIndex |-> active_index']
  BY <1>5, <1>7, <1>8, WatchingFacts DEF AfterRemoval
<1> HIDE DEF cleared, i
<1>11. WebStatesOf(wrappers') = RemoveAt(consumer.items, i)
  <2>1. i \in 1 .. Len(cleared)
    BY <1>2, <1>9
  <2> QED  BY <1>3, <1>9, <2>1, MirrorRemove
<1>12. consumer' \in ConsumerState /\ ConsumerMirrorsList'
  BY <1>10, <1>11, ConsumerShows
<1>13. enumeration' = [enumeration EXCEPT !.mutated =
                          enumeration.mutated \/ (enumeration.on /\ TRUE)]
  BY <1>7, <1>8, WatchingFacts DEF AfterRemoval
<1>14. EnumerationKept
  BY <1>13, EnumerationStays
<1>15. ObserversKept
  BY <1>7, <1>8, <1>12, <1>14 DEF AfterRemoval, ObserversKept, ObserversFine, ObsTypeOK,
                                       EnumerationKept, EnumerationFine
<1>16. then = <<d>> => (closing'.save <=>
                           /\ active_index = index
                           /\ active_index' # kInvalidIndex \/ Len(wrappers') = 0)
  BY <1>5, <1>7, <1>8 DEF AfterRemoval
<1> QED  BY <1>15, <1>16

\* Closing decides to save exactly when the closed WebState was the active one:
\* the early return of -saveSessionImmediately: is not taken then, because a list
\* with tabs left always has a selected one.
LEMMA CloseHandled ==
    ASSUME ObsInv, IndInv', Handled, NEW index \in Indices, CloseWrapperAt(index)
    PROVE  /\ ObserversKept
           /\ closing'.save <=> notified'[1].index = active_index
<1> DEFINE d == Notify("will_close", GetWebStateAt(index), index,
                       ActiveIndexAfterDetach(index))
           then == <<d>>
           a == Notify("will_detach", GetWebStateAt(index), index, active_index)
           b == Notify("detached", GetWebStateAt(index), index, active_index')
<1>1. /\ count \in Nat /\ index \in Int /\ 0 <= index /\ index < count
  BY ListFacts DEF ObsInv, Indices
<1>2. DetachWrapperAt(index, then) /\ active_index' = ActiveIndexAfterDetach(index)
  BY DEF CloseWrapperAt, DetachWrapperAt
<1>3. d.event = "will_close" /\ d.active = active_index'
  BY <1>2 DEF Notify
<1>4. notified'[1].index = index
  <2>1. PICK x : (x = << >> \/ \E c : x = <<c>>) /\ notified' = <<a, b>> \o x \o then
    BY <1>2 DEF DetachWrapperAt
  <2>2. a.index = index
    BY DEF Notify
  <2> HIDE DEF a, b, d
  <2>3. notified'[1] = a
    BY <2>1
  <2> QED  BY <2>2, <2>3
<1> HIDE DEF d
<1>5. /\ ObserversKept
      /\ closing'.save <=>
             /\ active_index = index
             /\ active_index' # kInvalidIndex \/ Len(wrappers') = 0
  <2>1. then \in {<< >>, <<d>>}
    OBVIOUS
  <2> HIDE DEF then
  <2>2. then = <<d>>
    BY DEF then
  <2> QED  BY <1>2, <1>3, <2>1, <2>2, RemovalHandled
<1> HIDE DEF then
<1>6. active_index = index /\ wrappers' # << >> => active_index' # kInvalidIndex
  <2> SUFFICES ASSUME active_index = index, wrappers' # << >>
               PROVE  active_index' # kInvalidIndex
    OBVIOUS
  <2>1. active_index # kInvalidIndex
    BY <1>1 DEF kInvalidIndex
  <2> QED  BY <1>2, <2>1, DetachKeepsSelection DEF ObsInv
<1> QED  BY <1>4, <1>5, <1>6

-----------------------------------------------------------------------------
(* Theorems about the observers.                                           *)

\* The observers start in step with the empty list.
LEMMA InitObsInv == ObsInit => ObsInv
<1> SUFFICES ASSUME ObsInit PROVE ObsInv
  OBVIOUS
<1>1. IndInv
  BY InitIndInv DEF ObsInit
<1>2. wrappers = << >> /\ active_index = -1
  BY DEF ObsInit, Init, kInvalidIndex
<1>3. WebStatesOf(wrappers) = << >>
  BY <1>2 DEF WebStatesOf
<1>4. consumer \in ConsumerState
  <2>1. << >> \in Seq(WebStates) /\ kInvalidIndex \in Int
    BY EmptySeq DEF kInvalidIndex
  <2> QED  BY <2>1 DEF ObsInit, ConsumerState
<1>5. closing \in ClosingState /\ enumeration \in EnumerationState /\ body \in BodyState
  BY EmptySeq DEF ObsInit, ClosingState, EnumerationState, BodyState, NoEnumeration, NoBody
<1> QED
  BY <1>1, <1>2, <1>3, <1>4, <1>5
     DEF ObsInit, ObsInv, ObsTypeOK, ConsumerMirrorsList, EnumerationSound,
         NoEnumeration, kInvalidIndex

\* An operation of the list, one case per action.
LEMMA ListStepObserved ==
    ASSUME ObsInv, ListStep
    PROVE  ObsInv' /\ enumeration'.on = enumeration.on
<1>1. Next /\ Handled
  BY DEF ListStep, Handled, Watching, Replaced
<1>2. IndInv'
  BY <1>1, NextIndInv DEF ObsInv
<1>3. /\ count \in Nat /\ count = Len(wrappers) /\ wrappers \in Seq(WebStateWrapper)
      /\ \A p \in 1 .. count : wrappers[p] \in WebStateWrapper
  BY ListFacts DEF ObsInv
<1>4. ASSUME NEW web_state \in WebStates, NEW index \in 0 .. count,
             InsertWebState(index, web_state)
      PROVE  ObserversKept
  <2>1. NewWrapper(web_state) \in WebStateWrapper
    BY ConstructorTypes DEF ObsInv, IndInv
  <2> QED  BY <1>1, <1>2, <1>4, <2>1, InsertHandled DEF InsertWebState
<1>5. ASSUME NEW web_state \in WebStates, NEW is_link \in BOOLEAN,
             NEW opener \in WebStates \cup {NoWebState},
             AppendWebState(is_link, web_state, opener)
      PROVE  ObserversKept
  <2>1. PICK index \in 0 .. count, wrapper \in WebStateWrapper :
            InsertWrapperAt(index, wrapper)
    BY <1>5, AppendInserts DEF ObsInv
  <2> QED  BY <1>1, <1>2, <2>1, InsertHandled
<1>6. ASSUME NEW web_state \in WebStates, NEW index \in Indices,
             ReplaceWebStateAt(index, web_state)
      PROVE  ObserversKept
  BY <1>1, <1>2, <1>6, ReplaceHandled
<1>7. ASSUME NEW web_state \in WebStates, NEW navigation_index,
             Navigate(web_state, navigation_index)
      PROVE  ObserversKept
  <2>1. /\ notified' = << >> /\ wrappers' = wrappers /\ count' = count
        /\ active_index' = active_index
    BY <1>7 DEF Navigate, count
  <2> QED  BY <1>1, <1>2, <2>1, SilentHandled
<1>8. ASSUME NEW index \in Indices,
             NEW opener \in [opener : WebStates, navigation_index : NavigationIndices],
             SetOpenerOfWebStateAt(index, opener)
      PROVE  ObserversKept
  <2> DEFINE i == index + 1
             w == WithOpener(wrappers[i], opener)
             m == WebStatesOf(wrappers)
  <2>1. i \in 1 .. Len(wrappers)
    BY <1>3 DEF Indices
  <2>2. w \in WebStateWrapper /\ w.web_state = wrappers[i].web_state
    <3>1. wrappers[i] \in WebStateWrapper
      BY <1>3, <2>1
    <3> QED  BY <3>1 DEF WithOpener, WebStateWrapper
  <2>3. /\ notified' = << >> /\ wrappers' = [wrappers EXCEPT ![i] = w]
        /\ active_index' = active_index
    BY <1>8 DEF SetOpenerOfWebStateAt
  <2> HIDE DEF i, w
  <2>4. m \in Seq(WebStates) /\ Len(m) = Len(wrappers) /\ m[i] = wrappers[i].web_state
    BY <1>3, <2>1, MirrorElements
  <2>5. WebStatesOf(wrappers') = [m EXCEPT ![i] = m[i]]
    <3>1. wrappers \in Seq(WebStateWrapper) /\ w \in WebStateWrapper
      BY <1>3, <2>2
    <3>2. WebStatesOf([wrappers EXCEPT ![i] = w]) = [WebStatesOf(wrappers) EXCEPT ![i] = w.web_state]
      BY <2>1, <3>1, MirrorReplace
    <3>3. w.web_state = m[i]
      BY <2>2, <2>4
    <3> QED  BY <2>3, <3>2, <3>3, Zenon
  <2> HIDE DEF m
  <2>6. [m EXCEPT ![i] = m[i]] = m
    BY <2>1, <2>4
  <2>7. count' = count
    <3>1. Len(wrappers') = Len(wrappers)
      BY <1>3, <2>1, <2>2, <2>3, ExceptSeq
    <3> QED  BY <3>1 DEF count
  <2> QED  BY <1>1, <1>2, <2>3, <2>5, <2>6, <2>7, SilentHandled DEF m
<1>9. ASSUME NEW index \in Indices, NEW to_index \in Indices,
             MoveWebStateAt(index, to_index)
      PROVE  ObserversKept
  BY <1>1, <1>2, <1>9, MoveHandled
<1>10. ASSUME NEW index \in Indices, DetachWebStateAt(index)
       PROVE  ObserversKept
  <2> DEFINE d == Notify("will_close", NoWebState, index, active_index')
             then == << >>
  <2>1. d.event = "will_close" /\ d.active = active_index' /\ then \in {<< >>, <<d>>}
    BY DEF Notify
  <2>2. DetachWrapperAt(index, then)
    BY <1>10 DEF DetachWebStateAt
  <2> HIDE DEF d, then
  <2> QED  BY <1>1, <1>2, <2>1, <2>2, RemovalHandled
<1>11. ASSUME NEW index \in Indices, CloseWrapperAt(index)
       PROVE  ObserversKept
  BY <1>1, <1>2, <1>11, CloseHandled
<1>12. ASSUME NEW index \in Indices, ActivateWebStateAt(index)
       PROVE  ObserversKept
  BY <1>1, <1>2, <1>12, ActivateHandled
<1>13. CASE CloseAllWebStates
  <2>1. /\ notified' = << >> /\ wrappers' = wrappers /\ count' = count
        /\ active_index' = active_index
    BY <1>13 DEF CloseAllWebStates, count
  <2>2. ObserversKept
    BY <1>1, <1>2, <2>1, SilentHandled
  <2> QED  BY <1>2, <2>2 DEF ObsInv, ObserversKept, ObserversFine
<1>14. CASE CloseAllStep
  <2> DEFINE last == count - 1
  <2>1. CloseWrapperAt(last)
    BY <1>14 DEF CloseAllStep
  <2>2. last \in Indices
    <3>1. wrappers # << >>
      BY <1>14 DEF CloseAllStep, ObsInv, IndInv
    <3> QED  BY <1>3, <3>1 DEF Indices
  <2> HIDE DEF last
  <2>3. ObserversKept
    BY <1>11, <2>1, <2>2
  <2> QED  BY <1>2, <2>3 DEF ObsInv, ObserversKept, ObserversFine
<1>15. ASSUME ObserversKept PROVE ObsInv' /\ enumeration'.on = enumeration.on
  BY <1>2, <1>15 DEF ObsInv, ObserversKept, ObserversFine
<1> QED
  BY <1>1, <1>4, <1>5, <1>6, <1>7, <1>8, <1>9, <1>10, <1>11, <1>12, <1>13, <1>14, <1>15
     DEF Next, CloseWebStateAt

\* What a call of the helper returns: at most as many tabs as are left, from the
\* offset on.
LEMMA BufferRead ==
    ASSUME IndInv, NEW offset \in Nat, offset < count
    PROVE  /\ Returned(offset) \in Nat /\ Returned(offset) > 0
           /\ offset + Returned(offset) <= count
           /\ Buffer(offset) \in Seq(WebStates) /\ Len(Buffer(offset)) = Returned(offset)
           /\ \A k \in 1 .. Returned(offset) :
                  Buffer(offset)[k] = WebStatesOf(wrappers)[offset + k]
<1> DEFINE r == Returned(offset)
<1>1. /\ count \in Nat /\ count = Len(wrappers) /\ wrappers \in Seq(WebStateWrapper)
      /\ \A p \in 1 .. count : wrappers[p] \in WebStateWrapper
  BY ListFacts
<1>2. r \in Nat /\ r > 0 /\ offset + r <= count
  BY <1>1, BatchSizeAssumption DEF Returned
<1>3. Buffer(offset) = [k \in 1 .. r |-> wrappers[offset + k].web_state]
  BY DEF Buffer
<1> HIDE DEF r
<1>4. \A k \in 1 .. r : offset + k \in 1 .. count
  BY <1>1, <1>2
<1>5. \A k \in 1 .. r : wrappers[offset + k].web_state \in WebStates
  BY <1>1, <1>4 DEF WebStateWrapper
<1>6. \A p \in 1 .. count : WebStatesOf(wrappers)[p] = wrappers[p].web_state
  BY <1>1 DEF WebStatesOf
<1>7. Buffer(offset) \in Seq(WebStates) /\ Len(Buffer(offset)) = r
  BY <1>2, <1>3, <1>5
<1> QED  BY <1>2, <1>3, <1>4, <1>6, <1>7 DEF r

\* The loop over the list does not disturb it, and is given its tabs in order.
LEMMA EnumerationStepObserved ==
    ASSUME ObsInv, BeginEnumeration \/ GiveNext \/ CountByEnumerating
    PROVE  ObsInv'
<1> DEFINE e == enumeration
           tabs == WebStatesOf(wrappers)
<1>1. /\ count \in Nat /\ UNCHANGED <<vars, consumer, closing>>
      /\ e \in EnumerationState /\ body \in BodyState /\ EnumerationSound /\ IndInv
  BY ListFacts DEF ObsInv, ObsTypeOK, BeginEnumeration, GiveNext, CountByEnumerating
<1>2. IndInv' /\ count' = count /\ WebStatesOf(wrappers)' = tabs
  <2>1. [Next]_vars
    BY <1>1
  <2> QED  BY <1>1, <2>1, NextIndInv DEF ObsInv, vars, count, WebStatesOf
<1>3. consumer' \in ConsumerState /\ closing' \in ClosingState /\ ConsumerMirrorsList'
  BY <1>1 DEF ObsInv, ObsTypeOK, ConsumerMirrorsList, vars, WebStatesOf
<1> HIDE DEF tabs
<1> SUFFICES EnumerationFine'
  BY <1>2, <1>3 DEF ObsInv, ObsTypeOK, EnumerationFine
<1>4. ASSUME LoopEnds PROVE EnumerationFine'
  <2>1. NoEnumeration \in EnumerationState /\ NoBody \in BodyState /\ ~ NoEnumeration.on
        /\ NoEnumeration.batch = << >>
    BY EmptySeq DEF NoEnumeration, NoBody, EnumerationState, BodyState
  <2> QED  BY <1>4, <2>1 DEF LoopEnds, EnumerationFine, EnumerationSound
<1>5. CASE BeginEnumeration
  <2>1. count > 0 /\ ~ e.on /\ body' = body
    BY <1>5 DEF BeginEnumeration
  <2> DEFINE r == Returned(0)
             b == Buffer(0)
  <2>2. /\ r \in Nat /\ r > 0 /\ r <= count
        /\ b \in Seq(WebStates) /\ Len(b) = r
        /\ \A k \in 1 .. r : b[k] = tabs[k]
    <3>1. \A k \in 1 .. r : 0 + k = k
      BY <1>1, <2>1, BufferRead
    <3> QED  BY <1>1, <2>1, <3>1, BufferRead DEF tabs
  <2>3. enumeration' = [on |-> TRUE, offset |-> r, batch |-> b, mutated |-> FALSE]
    BY <1>5 DEF BeginEnumeration
  <2>4. body = NoBody /\ Len(body.given) = 0 /\ body.given = << >>
    BY <1>1, <2>1 DEF EnumerationSound, NoBody
  <2> HIDE DEF r, b
  <2>5. enumeration' \in EnumerationState
    BY <2>2, <2>3 DEF EnumerationState
  <2>6. \A k \in 1 .. r : tabs[0 + k] = tabs[k]
    BY <2>2
  <2> QED
    BY <1>1, <1>2, <2>1, <2>2, <2>3, <2>4, <2>5, <2>6 DEF EnumerationFine, EnumerationSound
<1>6. CASE GiveNext
  <2>1. e.on /\ e.batch # << >>
    BY <1>6 DEF GiveNext
  <2>2. CASE e.mutated /\ LoopEnds
    BY <1>4, <2>2
  <2>3. CASE ~ (e.mutated /\ LoopEnds)
    <3> DEFINE g == body.given
               b == e.batch
    <3>1. /\ enumeration' = [enumeration EXCEPT !.batch = Tail(b)]
          /\ body' = [body EXCEPT !.given = Append(g, Head(b))]
          /\ ~ e.mutated
      BY <1>6, <2>3 DEF GiveNext
    <3>2. /\ g \in Seq(WebStates) /\ b \in Seq(WebStates) /\ b # << >>
          /\ Len(g) \in Nat /\ Len(b) \in Nat /\ Len(b) > 0
      BY <1>1, <2>1 DEF EnumerationState, BodyState
    <3> DEFINE g2 == Append(g, Head(b))
               b2 == Tail(b)
    <3>3. /\ g2 \in Seq(WebStates) /\ b2 \in Seq(WebStates)
          /\ Len(g2) = Len(g) + 1 /\ Len(b2) = Len(b) - 1
          /\ \A k \in 1 .. Len(g) : g2[k] = g[k]
          /\ g2[Len(g) + 1] = b[1]
          /\ \A k \in 1 .. Len(b) - 1 : b2[k] = b[k + 1]
      BY <3>2
    <3>4. /\ enumeration' \in EnumerationState /\ body' \in BodyState
          /\ enumeration'.on /\ enumeration'.offset = e.offset /\ enumeration'.batch = b2
          /\ ~ enumeration'.mutated
          /\ body'.given = g2 /\ body'.replaced = body.replaced
      <4> HIDE DEF g2, b2
      <4> QED  BY <1>1, <2>1, <3>1, <3>3 DEF EnumerationState, BodyState, g2, b2
    <3> HIDE DEF g2, b2
    <3>5. Len(g2) + Len(b2) = e.offset
      <4>1. Len(g) + Len(b) = e.offset
        BY <1>1, <2>1 DEF EnumerationSound
      <4> HIDE DEF g, b
      <4> QED  BY <3>2, <3>3, <4>1
    <3>6. ASSUME ~ body.replaced
          PROVE  /\ e.offset <= count
                 /\ \A k \in 1 .. Len(g2) : g2[k] = tabs[k]
                 /\ \A k \in 1 .. Len(b2) : b2[k] = tabs[Len(g2) + k]
      <4>1. /\ e.offset <= count
            /\ \A k \in 1 .. Len(g) : g[k] = tabs[k]
            /\ \A k \in 1 .. Len(b) : b[k] = tabs[Len(g) + k]
        BY <1>1, <2>1, <3>1, <3>6 DEF EnumerationSound, tabs
      <4> HIDE DEF g, b
      <4>2. g2[Len(g) + 1] = tabs[Len(g) + 1]
        <5>1. 1 \in 1 .. Len(b)
          BY <3>2
        <5> QED  BY <3>3, <4>1, <5>1
      <4>3. \A k \in 1 .. Len(g2) : g2[k] = tabs[k]
        <5>1. \A k \in 1 .. Len(g2) : k \in 1 .. Len(g) \/ k = Len(g) + 1
          BY <3>2, <3>3
        <5> QED  BY <3>3, <4>1, <4>2, <5>1
      <4>4. \A k \in 1 .. Len(b2) : b2[k] = tabs[Len(g2) + k]
        <5>1. \A k \in 1 .. Len(b2) : /\ k \in 1 .. Len(b) - 1 /\ k + 1 \in 1 .. Len(b)
                                      /\ Len(g) + (k + 1) = Len(g2) + k
          BY <3>2, <3>3
        <5>2. \A k \in 1 .. Len(b2) : b2[k] = tabs[Len(g) + (k + 1)]
          BY <3>3, <4>1, <5>1
        <5> QED  BY <5>1, <5>2
      <4> QED  BY <4>1, <4>3, <4>4
    <3> QED
      BY <1>2, <3>4, <3>5, <3>6 DEF EnumerationFine, EnumerationSound
  <2> QED  BY <2>2, <2>3
<1>7. CASE CountByEnumerating
  <2>1. e.on /\ e.batch = << >>
    BY <1>7 DEF CountByEnumerating
  <2>2. CASE e.offset >= count /\ LoopEnds
    BY <1>4, <2>2
  <2>3. CASE ~ (e.offset >= count /\ LoopEnds)
    <3> DEFINE o == e.offset
               r == Returned(o)
               b == Buffer(o)
               g == body.given
    <3>1. /\ o < count /\ body' = body
          /\ enumeration' = [enumeration EXCEPT !.batch = b, !.offset = o + r]
      BY <1>7, <2>3 DEF CountByEnumerating
    <3>2. o \in Nat /\ g \in Seq(WebStates) /\ Len(g) = o
      BY <1>1, <2>1 DEF EnumerationState, BodyState, EnumerationSound
    <3>3. /\ r \in Nat /\ r > 0 /\ o + r <= count
          /\ b \in Seq(WebStates) /\ Len(b) = r
          /\ \A k \in 1 .. r : b[k] = tabs[o + k]
      BY <1>1, <3>1, <3>2, BufferRead DEF tabs
    <3> HIDE DEF r, b
    <3>4. /\ enumeration' \in EnumerationState /\ enumeration'.on
          /\ enumeration'.offset = o + r /\ enumeration'.batch = b
          /\ enumeration'.mutated = e.mutated
      <4>1. o + r \in Nat
        BY <3>2, <3>3
      <4> DEFINE next == o + r
      <4>2. /\ enumeration' = [enumeration EXCEPT !.batch = b, !.offset = next]
            /\ next \in Nat
        BY <3>1, <4>1
      <4> HIDE DEF next, o
      <4>3. /\ enumeration' \in EnumerationState /\ enumeration'.on
            /\ enumeration'.offset = next /\ enumeration'.batch = b
            /\ enumeration'.mutated = e.mutated
        BY <1>1, <2>1, <3>3, <4>2 DEF EnumerationState
      <4> QED  BY <4>3 DEF next, o
    <3>5. ASSUME ~ e.mutated, ~ body.replaced
          PROVE  \A k \in 1 .. Len(g) : g[k] = tabs[k]
      BY <1>1, <2>1, <3>5 DEF EnumerationSound, tabs
    <3>6. body' \in BodyState /\ body'.given = g /\ body'.replaced = body.replaced
      BY <1>1, <3>1
    <3>7. Len(g) + Len(b) = o + r
      BY <3>2, <3>3
    <3>8. ASSUME ~ e.mutated, ~ body.replaced
          PROVE  \A k \in 1 .. Len(b) : b[k] = tabs[Len(g) + k]
      BY <3>2, <3>3
    <3> HIDE DEF o, g
    <3>9. EnumerationSound'
      BY <1>2, <3>3, <3>4, <3>5, <3>6, <3>7, <3>8 DEF EnumerationSound
    <3> QED  BY <3>4, <3>6, <3>9 DEF EnumerationFine
  <2> QED  BY <2>2, <2>3
<1> QED  BY <1>5, <1>6, <1>7

\* The invariant holds in every reachable state.
THEOREM ObserversInvariance == ObsSpec => []ObsInv
<1>1. ObsInv /\ [ObsNext]_allvars => ObsInv'
  <2> SUFFICES ASSUME ObsInv, [ObsNext]_allvars PROVE ObsInv'
    OBVIOUS
  <2>1. CASE UNCHANGED allvars
    <3>1. UNCHANGED vars /\ UNCHANGED obsvars
      BY <2>1 DEF allvars
    <3>2. IndInv'
      BY <3>1, NextIndInv DEF ObsInv
    <3>3. /\ consumer' = consumer /\ closing' = closing /\ enumeration' = enumeration
          /\ body' = body /\ active_index' = active_index
          /\ count' = count /\ WebStatesOf(wrappers)' = WebStatesOf(wrappers)
      BY <3>1 DEF obsvars, vars, count, WebStatesOf
    <3>4. EnumerationSound'
      BY <3>3 DEF ObsInv, EnumerationSound, NoBody
    <3>5. ConsumerMirrorsList' /\ ObsTypeOK'
      BY <3>3 DEF ObsInv, ObsTypeOK, ConsumerMirrorsList
    <3> QED  BY <3>2, <3>4, <3>5 DEF ObsInv
  <2> QED  BY <2>1, ListStepObserved, EnumerationStepObserved DEF ObsNext
<1> QED  BY <1>1, InitObsInv, PTL DEF ObsSpec

\* The consumer of TabCollectionMediator shows the tabs of the list and its
\* selection in every state, for any number of tabs.
THEOREM ConsumerAlwaysMirrors == ObsSpec => []ConsumerMirrorsList
<1>1. ObsInv => ConsumerMirrorsList
  BY DEF ObsInv
<1> QED  BY <1>1, ObserversInvariance, PTL

\* For any list, batch size and loop body: what a loop over the tabs is given are the
\* tabs of the list in order, and all of them by its end, unless one was replaced.
THEOREM EnumerationAlwaysInOrder == ObsSpec => EnumerationInOrder
<1> DEFINE InOrderStep ==
             ~ body.replaced =>
                /\ Len(body'.given) > Len(body.given) =>
                       /\ Len(body'.given) <= count
                       /\ \A k \in DOMAIN body'.given : body'.given[k] = wrappers[k].web_state
                /\ enumeration.on /\ ~ enumeration'.on /\ ~ enumeration.mutated =>
                       Len(body.given) = count
<1>1. ASSUME ObsInv, [ObsNext]_allvars PROVE InOrderStep \/ UNCHANGED allvars
  <2>1. /\ count \in Nat /\ count = Len(wrappers) /\ wrappers \in Seq(WebStateWrapper)
        /\ body \in BodyState /\ enumeration \in EnumerationState /\ EnumerationSound
    BY <1>1, ListFacts DEF ObsInv, ObsTypeOK
  <2>2. Len(body.given) \in Nat /\ Len(<< >>) = 0
    BY <2>1 DEF BodyState
  <2>3. CASE ListStep
    <3>1. enumeration'.on = enumeration.on
      BY <1>1, <2>3, ListStepObserved
    <3>2. body'.given = body.given
      BY <2>1, <2>3 DEF ListStep, BodyState
    <3> QED  BY <2>2, <3>1, <3>2
  <2>4. CASE BeginEnumeration
    BY <2>2, <2>4 DEF BeginEnumeration
  <2>5. CASE GiveNext
    <3>1. CASE enumeration.mutated
      <4>1. body' = NoBody
        BY <2>5, <3>1 DEF GiveNext, LoopEnds
      <4>2. Len(body'.given) = 0
        BY <2>2, <4>1 DEF NoBody
      <4> QED  BY <2>2, <3>1, <4>2
    <3>2. CASE ~ enumeration.mutated
      <4>1. enumeration'.on = enumeration.on /\ enumeration.on
        BY <2>1, <2>5, <3>2 DEF GiveNext, EnumerationState
      <4>2. ASSUME ~ body.replaced
            PROVE  /\ Len(body'.given) <= count
                   /\ \A k \in DOMAIN body'.given : body'.given[k] = wrappers[k].web_state
        <5>1. EnumerationSound' /\ body' \in BodyState /\ enumeration' \in EnumerationState
          BY <1>1, <2>5, EnumerationStepObserved DEF ObsInv, ObsTypeOK
        <5>2. ~ enumeration'.mutated /\ ~ body'.replaced /\ wrappers' = wrappers
          BY <2>1, <2>5, <3>2, <4>2 DEF GiveNext, EnumerationState, BodyState, vars
        <5>3. /\ Len(body'.given) + Len(enumeration'.batch) <= count'
              /\ \A k \in 1 .. Len(body'.given) : body'.given[k] = WebStatesOf(wrappers')[k]
          BY <4>1, <5>1, <5>2 DEF EnumerationSound, WebStatesOf
        <5>4. /\ body'.given \in Seq(WebStates) /\ Len(enumeration'.batch) \in Nat
              /\ Len(body'.given) \in Nat /\ DOMAIN body'.given = 1 .. Len(body'.given)
              /\ count' = count
          BY <5>1, <5>2 DEF BodyState, EnumerationState, count
        <5>5. \A k \in 1 .. count : WebStatesOf(wrappers)[k] = wrappers[k].web_state
          BY <2>1 DEF WebStatesOf
        <5>6. Len(body'.given) <= count
          <6> DEFINE x == Len(body'.given)
                     y == Len(enumeration'.batch)
          <6>1. x \in Nat /\ y \in Nat /\ x + y <= count
            BY <5>3, <5>4
          <6> HIDE DEF x, y
          <6>2. x <= count
            BY <2>1, <6>1
          <6> QED  BY <6>2 DEF x
        <5>7. \A k \in 1 .. Len(body'.given) : k \in 1 .. count
          BY <2>1, <5>4, <5>6
        <5> QED  BY <5>2, <5>3, <5>4, <5>5, <5>6, <5>7
      <4> QED  BY <4>1, <4>2
    <3> QED  BY <3>1, <3>2
  <2>6. CASE CountByEnumerating
    <3>1. enumeration.batch = << >> /\ enumeration.on
      BY <2>6 DEF CountByEnumerating
    <3>2. Len(body.given) = enumeration.offset
      <4>1. Len(enumeration.batch) = 0
        BY <3>1
      <4>2. Len(body.given) + Len(enumeration.batch) = enumeration.offset
        BY <2>1, <3>1 DEF EnumerationSound
      <4> QED  BY <2>2, <4>1, <4>2
    <3>3. CASE enumeration.offset >= count
      <4>1. body' = NoBody
        BY <2>1, <2>6, <3>3 DEF CountByEnumerating, LoopEnds, EnumerationState
      <4>2. Len(body'.given) = 0
        BY <2>2, <4>1 DEF NoBody
      <4>3. ~ enumeration.mutated /\ ~ body.replaced => enumeration.offset = count
        BY <2>1, <3>1, <3>3 DEF EnumerationSound, EnumerationState
      <4> QED  BY <2>2, <3>2, <4>2, <4>3
    <3>4. CASE enumeration.offset < count
      <4>1. body' = body /\ enumeration'.on
        <5>1. ~ (enumeration.offset >= count)
          BY <2>1, <3>4 DEF EnumerationState
        <5>2. /\ body' = body
              /\ enumeration' = [enumeration EXCEPT !.batch = Buffer(enumeration.offset),
                                     !.offset = enumeration.offset + Returned(enumeration.offset)]
          BY <2>6, <5>1 DEF CountByEnumerating
        <5> QED  BY <2>1, <3>1, <5>2 DEF EnumerationState
      <4> QED  BY <2>2, <4>1
    <3> QED  BY <2>1, <3>3, <3>4 DEF EnumerationState
  <2> QED  BY <1>1, <2>3, <2>4, <2>5, <2>6 DEF ObsNext
<1>2. ObsInv /\ [ObsNext]_allvars => [InOrderStep]_allvars
  BY <1>1
<1> QED  BY <1>2, ObserversInvariance, PTL DEF ObsSpec, EnumerationInOrder

\* WillCloseWebStateAt is among the notifications.
WillClose(ns) == \E i \in 1 .. Len(ns) : ns[i].event = "will_close"

\* Only closing a WebState sends WillCloseWebStateAt.
LEMMA OnlyClosingWillClose ==
    ASSUME IndInv, Next, WillClose(notified')
    PROVE  \E index \in Indices : CloseWrapperAt(index)
<1>0. ~ WillClose(<< >>)
  BY DEF WillClose
<1>1. ASSUME NEW n, n.event # "will_close" PROVE ~ WillClose(<<n>>)
  BY <1>1 DEF WillClose
<1>2. \A event, web_state, index, active : Notify(event, web_state, index, active).event = event
  BY DEF Notify
<1>3. ASSUME NEW index, NEW wrapper, InsertWrapperAt(index, wrapper) PROVE FALSE
  <2> DEFINE n == Notify("inserted", wrapper.web_state, index, active_index')
  <2>1. notified' = <<n>> /\ n.event = "inserted"
    BY <1>2, <1>3 DEF InsertWrapperAt
  <2> HIDE DEF n
  <2> QED  BY <1>1, <2>1
<1>4. ASSUME NEW index, NEW web_state, ReplaceWebStateAt(index, web_state) PROVE FALSE
  <2> DEFINE n == Notify("replaced", web_state, index, active_index)
  <2>1. notified' = <<n>> /\ n.event = "replaced"
    BY <1>2, <1>4 DEF ReplaceWebStateAt
  <2> HIDE DEF n
  <2> QED  BY <1>1, <2>1
<1>5. ASSUME NEW from, NEW to, MoveWebStateAt(from, to) PROVE FALSE
  <2> DEFINE n == NotifyMoved(wrappers[from + 1].web_state, from, to, active_index')
  <2>1. notified' = <<n>> /\ n.event = "moved"
    BY <1>5 DEF MoveWebStateAt, NotifyMoved
  <2> HIDE DEF n
  <2> QED  BY <1>1, <2>1
<1>6. ASSUME NEW index, ActivateWebStateAt(index) PROVE FALSE
  <2> DEFINE n == NotifyActivated(GetWebStateAt(index), index, TRUE)
  <2>1. (notified' = << >> \/ notified' = <<n>>) /\ n.event = "activated"
    BY <1>6 DEF ActivateWebStateAt, NotifyActivated
  <2> HIDE DEF n
  <2> QED  BY <1>0, <1>1, <2>1
<1>7. ASSUME NEW index \in Indices, DetachWebStateAt(index) PROVE FALSE
  <2> DEFINE new == ActiveIndexAfterDetach(index)
             a == Notify("will_detach", GetWebStateAt(index), index, active_index)
             b == Notify("detached", GetWebStateAt(index), index, new)
  <2>1. DetachWrapperAt(index, << >>)
    BY <1>7 DEF DetachWebStateAt
  <2>2. PICK x : /\ x = << >> \/ \E c : c.event = "activated" /\ x = <<c>>
                 /\ notified' = <<a, b>> \o x \o << >>
    BY <2>1 DEF DetachWrapperAt, NotifyActivated
  <2>3. a.event = "will_detach" /\ b.event = "detached"
    BY <1>2
  <2> HIDE DEF a, b
  <2>4. CASE x = << >>
    <3>1. notified' = <<a, b>>
      BY <2>2, <2>4
    <3> QED  BY <2>3, <3>1 DEF WillClose
  <2>5. CASE x # << >>
    <3>1. PICK c : c.event = "activated" /\ x = <<c>>
      BY <2>2, <2>5
    <3> DEFINE ns == <<a, b>> \o x \o << >>
    <3>2. Len(ns) = 3 /\ ns[1] = a /\ ns[2] = b /\ ns[3] = c
      BY <3>1
    <3> HIDE DEF ns
    <3>3. \A i \in 1 .. Len(ns) : ns[i].event # "will_close"
      BY <2>3, <3>1, <3>2
    <3> QED  BY <2>2, <3>3 DEF WillClose, ns
  <2> QED  BY <2>4, <2>5
<1>8. ASSUME notified' = << >> PROVE FALSE
  BY <1>0, <1>8
<1>9. CASE CloseAllStep
  <2> DEFINE last == count - 1
  <2>1. CloseWrapperAt(last)
    BY <1>9 DEF CloseAllStep
  <2>2. last \in Indices
    <3>1. wrappers # << >>
      BY <1>9 DEF CloseAllStep, IndInv
    <3> QED  BY <3>1, ListFacts DEF Indices
  <2> HIDE DEF last
  <2> QED  BY <2>1, <2>2
<1> QED
  BY <1>3, <1>4, <1>5, <1>6, <1>7, <1>8, <1>9
     DEF Next, InsertWebState, AppendWebState, Navigate, SetOpenerOfWebStateAt,
         CloseAllWebStates, CloseWebStateAt

\* A closed tab makes the closing observer save exactly when it was the active one,
\* for any list: no flag of an earlier detach leaks into the decision.
THEOREM SavedExactlyForActive == ObsSpec => SavedIffActiveClosed
<1> DEFINE Saved == (\E i \in 1 .. Len(notified') : notified'[i].event = "will_close")
                    /\ Len(wrappers') < count
                    => (closing'.save <=> notified'[1].index = active_index)
<1>1. ObsInv /\ ObsInv' /\ [ObsNext]_allvars => [Saved]_allvars
  <2> SUFFICES ASSUME ObsInv, ObsInv', ObsNext, WillClose(notified'), Len(wrappers') < count
               PROVE  closing'.save <=> notified'[1].index = active_index
    BY DEF WillClose
  <2>1. ~ (BeginEnumeration \/ GiveNext \/ CountByEnumerating)
    <3> SUFFICES ASSUME UNCHANGED vars PROVE FALSE
      BY DEF BeginEnumeration, GiveNext, CountByEnumerating
    <3>1. count \in Nat /\ Len(wrappers') = count
      BY ListFacts DEF ObsInv, vars, count
    <3> QED  BY <3>1
  <2>2. Next /\ Handled
    BY <2>1 DEF ObsNext, ListStep, Handled, Watching, Replaced
  <2>3. PICK index \in Indices : CloseWrapperAt(index)
    BY <2>2, OnlyClosingWillClose DEF ObsInv
  <2>4. IndInv'
    BY DEF ObsInv
  <2> QED  BY <2>2, <2>3, <2>4, CloseHandled
<1> QED  BY <1>1, ObserversInvariance, PTL DEF ObsSpec, SavedIffActiveClosed

-----------------------------------------------------------------------------
(* Sessions.  The inductive invariant relates the window on disk to the     *)
(* list it was made from.                                                  *)

\* A wrapper without an opener has no navigation index either.
OpenerlessPlain ==
    \A p \in 1 .. Len(wrappers) :
        wrappers[p].opener = NoWebState => wrappers[p].navigation_index = -1

\* What one saved tab may say, in either format.
SavedTab ==
    [has_opener_index : BOOLEAN, opener_index : SUBSET Nat,
     navigation_index : SUBSET NavigationIndices, last_committed : NavigationIndices,
     tab_id : SUBSET Nat, opener_id : SUBSET Nat]

\* The p-th tab of a window this version saved, and its entry in `saved': without
\* an opener, or with the q-th tab as its opener.
OpenerSaved(tab, shape, q, n) ==
    /\ tab.opener_index = {q - 1} /\ tab.navigation_index = {n}
    /\ shape.opener = {q} /\ shape.navigation_index = n

TabSaved(tab, shape, p, length) ==
    /\ tab.has_opener_index
    /\ shape = [opener |-> shape.opener, navigation_index |-> shape.navigation_index,
                last_committed |-> tab.last_committed]
    /\ \/ /\ tab.opener_index = {} /\ tab.navigation_index = {}
          /\ shape.opener = {} /\ shape.navigation_index = -1
       \/ \E q \in 1 .. length : \E n \in NavigationIndices :
              q # p /\ OpenerSaved(tab, shape, q, n)

\* A window is of an older version, or what SaveSession wrote.
SessionSound ==
    /\ session = [sessions |-> session.sessions, selectedIndex |-> session.selectedIndex]
    /\ session.sessions \in Seq(SavedTab)
    /\ session.sessions # << >> =>
           \E i \in 0 .. Len(session.sessions) - 1 : session.selectedIndex = {i}
    /\ \/ session \in LegacySessions
       \/ /\ saved = [p \in 1 .. Len(session.sessions) |-> saved[p]]
          /\ \A p \in 1 .. Len(session.sessions) :
                TabSaved(session.sessions[p], saved[p], p, Len(session.sessions))

\* Between DeserializeWebStateList and the closing of the old NTP tab.
RestoringSound ==
    restoring =>
        /\ session.sessions # << >>
        /\ count = Len(session.sessions) + 1
        /\ \E i \in 0 .. Len(session.sessions) - 1 :
               session.selectedIndex = {i} /\ active_index = i + 1

SerInv ==
    /\ IndInv
    /\ OpenerlessPlain
    /\ restoring \in BOOLEAN
    /\ SessionSound
    /\ RestoringSound

\* The operations of a list without a restore in progress are operations of the
\* list, so its invariant holds on.
LEMMA TabOperationKeepsList ==
    ASSUME SerInv, TabOperation
    PROVE  IndInv' /\ OpenerlessPlain' /\ UNCHANGED servars /\ ~ restoring
<1>1. Next
  BY DEF TabOperation, Next
<1>2. IndInv'
  BY <1>1, NextIndInv DEF SerInv
<1>3. UNCHANGED servars /\ ~ restoring
  BY DEF TabOperation
<1>4. /\ count \in Nat /\ count = Len(wrappers) /\ wrappers \in Seq(WebStateWrapper)
      /\ \A p \in 1 .. count : wrappers[p] \in WebStateWrapper
  BY ListFacts DEF SerInv
<1>5. ASSUME NEW web_state \in WebStates, NEW opener \in WebStates \cup {NoWebState},
             AppendWebState(TRUE, web_state, opener)
      PROVE  OpenerlessPlain'
  <2>1. PICK index \in 0 .. count, wrapper \in WebStateWrapper :
            /\ wrapper.opener = NoWebState => wrapper.navigation_index = -1
            /\ InsertWrapperAt(index, wrapper)
    BY <1>5, AppendInserts DEF SerInv
  <2> DEFINE i == index + 1
  <2>2. wrappers' = InsertAt(wrappers, i, wrapper) /\ i \in 1 .. Len(wrappers) + 1
    BY <1>4, <2>1 DEF InsertWrapperAt
  <2> HIDE DEF i
  <2>3. /\ Len(wrappers') = Len(wrappers) + 1
        /\ \A j \in 1 .. Len(wrappers) + 1 :
              wrappers'[j] = IF j < i THEN wrappers[j] ELSE IF j = i THEN wrapper
                             ELSE wrappers[j - 1]
    <3>1. wrappers \in Seq(WebStateWrapper) /\ wrapper \in WebStateWrapper
      BY <1>4
    <3> QED  BY <2>2, <3>1, InsertAtProperties, SMTT(60)
  <2> SUFFICES ASSUME NEW p \in 1 .. Len(wrappers'), wrappers'[p].opener = NoWebState
               PROVE  wrappers'[p].navigation_index = -1
    BY DEF OpenerlessPlain
  <2>4. CASE p = i
    BY <1>4, <2>1, <2>3, <2>4
  <2>5. CASE p # i
    <3>1. PICK r \in 1 .. Len(wrappers) : wrappers'[p] = wrappers[r]
      BY <1>4, <2>2, <2>3, <2>5
    <3> QED  BY <3>1 DEF SerInv, OpenerlessPlain
  <2> QED  BY <2>4, <2>5
<1>6. ASSUME NEW from \in Indices, NEW to \in Indices, MoveWebStateAt(from, to)
      PROVE  OpenerlessPlain'
  <2> DEFINE i == from + 1
             j == to + 1
             w == wrappers[i]
             rest == RemoveAt(wrappers, i)
  <2>1. i \in 1 .. Len(wrappers) /\ j \in 1 .. Len(wrappers) /\ w \in WebStateWrapper
    BY <1>4 DEF Indices
  <2>2. wrappers' = InsertAt(rest, j, w)
    BY <1>6 DEF MoveWebStateAt
  <2> HIDE DEF i, j
  <2>3. /\ rest \in Seq(WebStateWrapper) /\ Len(rest) = Len(wrappers) - 1
        /\ \A k \in 1 .. Len(wrappers) - 1 :
              rest[k] = IF k < i THEN wrappers[k] ELSE wrappers[k + 1]
    BY <1>4, <2>1, RemoveAtProperties, SMTT(60)
  <2> HIDE DEF rest, w
  <2>4. j \in 1 .. Len(rest) + 1
    BY <1>4, <2>1, <2>3
  <2>5. /\ Len(wrappers') = Len(rest) + 1
        /\ \A k \in 1 .. Len(rest) + 1 :
              wrappers'[k] = IF k < j THEN rest[k] ELSE IF k = j THEN w ELSE rest[k - 1]
    <3>1. rest \in Seq(WebStateWrapper) /\ w \in WebStateWrapper
      BY <2>1, <2>3
    <3> QED  BY <2>2, <2>4, <3>1, InsertAtProperties, SMTT(60)
  <2> SUFFICES ASSUME NEW p \in 1 .. Len(wrappers'), wrappers'[p].opener = NoWebState
               PROVE  wrappers'[p].navigation_index = -1
    BY DEF OpenerlessPlain
  <2>6. wrappers'[p] = w \/ \E k \in 1 .. Len(rest) : wrappers'[p] = rest[k]
    BY <1>4, <2>1, <2>3, <2>4, <2>5
  <2>7. \A k \in 1 .. Len(rest) : \E r \in 1 .. Len(wrappers) : rest[k] = wrappers[r]
    BY <1>4, <2>1, <2>3
  <2>8. PICK r \in 1 .. Len(wrappers) : wrappers'[p] = wrappers[r]
    BY <2>1, <2>6, <2>7 DEF w
  <2> QED  BY <2>8 DEF SerInv, OpenerlessPlain
<1>7. ASSUME NEW index \in Indices, CloseWebStateAt(index)
      PROVE  OpenerlessPlain'
  <2> DEFINE i == index + 1
             gone == GetWebStateAt(index)
             cleared == ClearOpenersReferencing(wrappers, gone)
  <2>1. wrappers' = RemoveAt(cleared, i)
    BY <1>7 DEF CloseWebStateAt, CloseWrapperAt, DetachWrapperAt
  <2>2. cleared \in Seq(WebStateWrapper) /\ Len(cleared) = Len(wrappers)
    BY ClearOpenersProperties DEF SerInv, IndInv
  <2>3. i \in 1 .. Len(cleared)
    BY <1>4, <2>2 DEF Indices
  <2>4. \A r \in 1 .. Len(wrappers) :
            cleared[r].opener = NoWebState => cleared[r].navigation_index = -1
    <3> SUFFICES ASSUME NEW r \in 1 .. Len(wrappers), cleared[r].opener = NoWebState
                 PROVE  cleared[r].navigation_index = -1
      OBVIOUS
    <3>1. cleared[r] = IF wrappers[r].opener = gone THEN NewWrapper(wrappers[r].web_state)
                       ELSE wrappers[r]
      BY DEF ClearOpenersReferencing
    <3> HIDE DEF cleared, gone
    <3>2. CASE wrappers[r].opener = gone
      BY <3>1, <3>2 DEF NewWrapper
    <3>3. CASE wrappers[r].opener # gone
      BY <3>1, <3>3 DEF SerInv, OpenerlessPlain
    <3> QED  BY <3>2, <3>3
  <2> HIDE DEF cleared, i
  <2>5. /\ Len(wrappers') = Len(cleared) - 1
        /\ \A k \in 1 .. Len(cleared) - 1 :
              wrappers'[k] = IF k < i THEN cleared[k] ELSE cleared[k + 1]
    BY <2>1, <2>2, <2>3, RemoveAtProperties, SMTT(60)
  <2> SUFFICES ASSUME NEW p \in 1 .. Len(wrappers'), wrappers'[p].opener = NoWebState
               PROVE  wrappers'[p].navigation_index = -1
    BY DEF OpenerlessPlain
  <2>6. PICK r \in 1 .. Len(wrappers) : wrappers'[p] = cleared[r]
    BY <1>4, <2>2, <2>3, <2>5
  <2> QED  BY <2>4, <2>6
<1>8. ASSUME UNCHANGED wrappers PROVE OpenerlessPlain'
  BY <1>8 DEF SerInv, OpenerlessPlain
<1>9. OpenerlessPlain'
  BY <1>5, <1>6, <1>7, <1>8 DEF TabOperation, ActivateWebStateAt, Navigate
<1> QED  BY <1>2, <1>3, <1>9

\* The position of the opener: the only one that holds it.
LEMMA OpenerAt ==
    ASSUME IndInv, NEW p \in 1 .. Len(wrappers), wrappers[p].opener # NoWebState
    PROVE  \E q \in 1 .. Len(wrappers) :
               /\ q # p
               /\ GetIndexOfWebState(wrappers[p].opener) = q - 1
               /\ {r \in 1 .. Len(wrappers) : wrappers[r].web_state = wrappers[p].opener} = {q}
<1> DEFINE opener == wrappers[p].opener
           g == GetIndexOfWebState(opener)
<1>1. count \in Nat /\ count = Len(wrappers)
  BY ListFacts
<1>2. opener \in InList /\ opener # wrappers[p].web_state
  BY DEF IndInv, OpenersInList
<1>3. g \in Indices /\ GetWebStateAt(g) = opener
  <2> HIDE DEF opener
  <2>1. \A i \in Indices : i # kInvalidIndex
    BY <1>1 DEF Indices, kInvalidIndex
  <2> QED  BY <1>2, <2>1, IndexOfRange DEF IndInv
<1> HIDE DEF g, opener
<1> DEFINE q == g + 1
<1>4. q \in 1 .. Len(wrappers) /\ g = q - 1 /\ wrappers[q].web_state = opener
  BY <1>1, <1>3 DEF Indices, GetWebStateAt
<1> HIDE DEF q
<1>5. \A r \in 1 .. Len(wrappers) : wrappers[r].web_state = opener => r = q
  BY <1>4 DEF IndInv, ParentedOnce, NoDuplicates
<1>6. {r \in 1 .. Len(wrappers) : wrappers[r].web_state = opener} = {q}
  BY <1>4, <1>5
<1>7. q # p
  BY <1>2, <1>4
<1> QED  BY <1>4, <1>6, <1>7 DEF opener, g

\* What SaveSession writes satisfies SessionSound.
LEMMA SaveKeepsSound ==
    ASSUME SerInv, SaveSession
    PROVE  SessionSound'
<1> DEFINE L == Len(wrappers)
           tabs == [p \in 1 .. L |-> SerializedOpener(wrappers[p])]
           Shaped(p) ==
               LET w == wrappers[p]
               IN  [opener |-> {r \in 1 .. L : wrappers[r].web_state = w.opener},
                    navigation_index |-> w.navigation_index,
                    last_committed |-> last_committed[w.web_state]]
<1>1. /\ count \in Nat /\ count = L /\ L \in Nat
      /\ \A p \in 1 .. L : wrappers[p] \in WebStateWrapper
      /\ active_index \in -1 .. count - 1
      /\ IndInv /\ TypeOK
  BY ListFacts DEF SerInv, IndInv
<1>2. session' = [sessions |-> tabs,
                  selectedIndex |-> IF active_index = kInvalidIndex THEN {} ELSE {active_index}]
  BY DEF SaveSession, SerializeWebStateList
<1>3. saved' = [p \in 1 .. L |-> Shaped(p)]
  <2> DEFINE Made(p) ==
        LET w == wrappers[1 + p - 1]
        IN  [opener |-> {q - 1 + 1 : q \in {r \in 1 .. L : wrappers[r].web_state = w.opener}},
             navigation_index |-> w.navigation_index,
             last_committed |-> last_committed[w.web_state]]
  <2>1. saved' = [p \in 1 .. L - 1 + 1 |-> Made(p)]
    BY DEF SaveSession, Shape
  <2>2. ASSUME NEW p \in 1 .. L PROVE Made(p) = Shaped(p)
    <3>1. wrappers[1 + p - 1] = wrappers[p]
      BY <1>1
    <3> DEFINE S == {r \in 1 .. L : wrappers[r].web_state = wrappers[p].opener}
    <3>2. {q - 1 + 1 : q \in S} = S
      <4>1. \A q \in S : q \in Int
        BY <1>1
      <4> HIDE DEF S
      <4>2. \A q \in S : q - 1 + 1 = q
        BY <4>1
      <4> QED  BY <4>2
    <3> QED  BY <3>1, <3>2
  <2>3. 1 .. L - 1 + 1 = 1 .. L
    BY <1>1
  <2> HIDE DEF Made, Shaped
  <2> QED  BY <2>1, <2>2, <2>3
<1>4. ASSUME NEW p \in 1 .. L
      PROVE  tabs[p] \in SavedTab /\ TabSaved(tabs[p], saved'[p], p, L)
  <2> DEFINE w == wrappers[p]
             tab == SerializedOpener(w)
             shape == Shaped(p)
  <2>1. tabs[p] = tab /\ saved'[p] = shape
    BY <1>3
  <2>2. w \in WebStateWrapper
    BY <1>1
  <2>3. w.web_state \in WebStates /\ w.navigation_index \in NavigationIndices
    BY <2>2 DEF WebStateWrapper
  <2>4. last_committed[w.web_state] \in NavigationIndices
    BY <1>1, <2>3 DEF TypeOK
  <2>5. CASE w.opener = NoWebState
    <3>1. w.navigation_index = -1
      BY <2>5 DEF SerInv, OpenerlessPlain
    <3>2. {r \in 1 .. L : wrappers[r].web_state = w.opener} = {}
      <4>1. \A r \in 1 .. L : wrappers[r].web_state \in WebStates
        BY <1>1 DEF WebStateWrapper
      <4> QED  BY <2>5, <4>1, WebStateListAssumption
    <3>3. tab = [has_opener_index |-> TRUE, opener_index |-> {}, navigation_index |-> {},
                 last_committed |-> last_committed[w.web_state], tab_id |-> {}, opener_id |-> {}]
      BY <2>5 DEF SerializedOpener
    <3>4. shape = [opener |-> {}, navigation_index |-> -1,
                   last_committed |-> last_committed[w.web_state]]
      BY <3>1, <3>2
    <3> HIDE DEF tab, shape, w
    <3>5. tab \in SavedTab
      BY <2>4, <3>3 DEF SavedTab
    <3>6. TabSaved(tab, shape, p, L)
      BY <3>3, <3>4 DEF TabSaved
    <3> QED  BY <2>1, <3>5, <3>6
  <2>6. CASE w.opener # NoWebState
    <3>1. PICK q \in 1 .. L :
             /\ q # p
             /\ GetIndexOfWebState(w.opener) = q - 1
             /\ {r \in 1 .. L : wrappers[r].web_state = w.opener} = {q}
      BY <1>1, <2>6, OpenerAt
    <3>2. tab = [has_opener_index |-> TRUE, opener_index |-> {q - 1},
                 navigation_index |-> {w.navigation_index},
                 last_committed |-> last_committed[w.web_state], tab_id |-> {}, opener_id |-> {}]
      BY <2>6, <3>1 DEF SerializedOpener
    <3>3. shape = [opener |-> {q}, navigation_index |-> w.navigation_index,
                   last_committed |-> last_committed[w.web_state]]
      BY <3>1
    <3> HIDE DEF tab, shape, w
    <3>4. q - 1 \in Nat
      BY <1>1
    <3>5. tab \in SavedTab
      BY <2>3, <2>4, <3>2, <3>4 DEF SavedTab
    <3>6. OpenerSaved(tab, shape, q, w.navigation_index)
      BY <3>2, <3>3 DEF OpenerSaved
    <3>7. TabSaved(tab, shape, p, L)
      BY <2>3, <3>1, <3>2, <3>3, <3>6 DEF TabSaved
    <3> QED  BY <2>1, <3>5, <3>7
  <2> QED  BY <2>5, <2>6
<1> HIDE DEF Shaped
<1>5. tabs \in [1 .. L -> SavedTab]
  BY <1>4
<1> HIDE DEF tabs
<1>6. session'.sessions = tabs /\ tabs \in Seq(SavedTab) /\ Len(tabs) = L
  BY <1>1, <1>2, <1>5
<1>7. tabs # << >> => \E i \in 0 .. L - 1 : session'.selectedIndex = {i}
  <2> SUFFICES ASSUME tabs # << >> PROVE \E i \in 0 .. L - 1 : session'.selectedIndex = {i}
    OBVIOUS
  <2>1. count # 0
    BY <1>1, <1>6
  <2>2. active_index # kInvalidIndex
    BY <2>1 DEF SaveSession
  <2>3. session'.selectedIndex = {active_index}
    BY <1>2, <2>2
  <2>4. active_index \in 0 .. L - 1
    BY <1>1, <2>2 DEF kInvalidIndex
  <2> QED  BY <2>3, <2>4
<1>8. saved' = [p \in 1 .. L |-> saved'[p]]
  BY <1>3
<1>9. session' = [sessions |-> session'.sessions, selectedIndex |-> session'.selectedIndex]
  BY <1>2
<1> QED  BY <1>4, <1>6, <1>7, <1>8, <1>9 DEF SessionSound

\* The tab a saved tab was opened from, in either format, is another tab of the
\* same window.
LEMMA OpenerPositionSound ==
    ASSUME SessionSound, NEW p \in 1 .. Len(session.sessions)
    PROVE  LET tabs == session.sessions
               opener == OpenerPosition(tabs, p)
           IN  /\ \A q \in opener : q \in 1 .. Len(tabs) /\ q # p
               /\ opener # {} => tabs[p].navigation_index # {}
<1> DEFINE tabs == session.sessions
           opener == OpenerPosition(tabs, p)
<1>1. CASE session \in LegacySessions
  <2>1. PICK ids \in [1 .. 2 -> {{}, {1}, {2}, {3}}] :
            (\A k \in 1 .. 2 : ids[k] # {k}) /\ session = LegacySession(ids)
    BY <1>1 DEF LegacySessions
  <2>2. tabs = [k \in 1 .. 2 |->
                   [has_opener_index |-> FALSE, opener_index |-> {},
                    navigation_index |-> IF ids[k] = {} THEN {} ELSE {-1},
                    last_committed |-> -1, tab_id |-> {k}, opener_id |-> ids[k]]]
    BY <2>1 DEF LegacySession
  <2>3. tabs \in Seq(SavedTab) /\ Len(tabs) \in Nat /\ DOMAIN tabs = 1 .. Len(tabs)
    BY LenProperties DEF SessionSound
  <2>4. Len(tabs) = 2
    <3>1. DOMAIN tabs = 1 .. 2
      BY <2>2
    <3> HIDE DEF tabs
    <3>2. 2 \in 1 .. 2 /\ 3 \notin 1 .. 2
      OBVIOUS
    <3>3. 1 .. Len(tabs) = 1 .. 2
      BY <2>3, <3>1, Zenon
    <3>4. 2 \in 1 .. Len(tabs) /\ 3 \notin 1 .. Len(tabs)
      BY <3>2, <3>3, Zenon
    <3> QED  BY <2>3, <3>4
  <2>5. \A k \in 1 .. 2 : /\ ~ tabs[k].has_opener_index
                          /\ tabs[k].tab_id = {k} /\ tabs[k].opener_id = ids[k]
    BY <2>2
  <2> HIDE DEF tabs
  <2>6. IsSessionUsingLegacyFormat(tabs)
    BY <2>4, <2>5 DEF IsSessionUsingLegacyFormat
  <2>7. opener = OpenerPositionLegacy(tabs, p)
    BY <2>6 DEF OpenerPosition
  <2> HIDE DEF opener
  <2>8. ASSUME NEW q \in opener
        PROVE  /\ q \in 1 .. Len(tabs) /\ tabs[q].tab_id = tabs[p].opener_id
               /\ tabs[p].navigation_index # {}
    BY <2>7, <2>8 DEF OpenerPositionLegacy
  <2>9. ASSUME NEW q \in opener PROVE q # p
    <3>1. p \in 1 .. 2 /\ q \in 1 .. 2
      BY <2>4, <2>8 DEF tabs
    <3>2. ids[p] = {q}
      BY <2>5, <2>8, <3>1
    <3>3. ids[p] # {p}
      BY <2>1, <3>1
    <3> QED  BY <3>2, <3>3
  <2> QED  BY <2>8, <2>9 DEF tabs, opener
<1>2. CASE \A k \in 1 .. Len(tabs) : TabSaved(tabs[k], saved[k], k, Len(tabs))
  <2>1. ~ IsSessionUsingLegacyFormat(tabs)
    BY <1>2 DEF IsSessionUsingLegacyFormat, TabSaved
  <2>2. opener = {q \in 1 .. Len(tabs) : tabs[p].navigation_index # {}
                                         /\ tabs[p].opener_index = {q - 1}}
    BY <2>1 DEF OpenerPosition
  <2>3. tabs \in Seq(SavedTab) /\ Len(tabs) \in Nat
    BY LenProperties DEF SessionSound
  <2> HIDE DEF opener
  <2>4. ASSUME NEW q \in opener PROVE q # p
    <3>1. tabs[p].opener_index = {q - 1} /\ q \in 1 .. Len(tabs)
      BY <2>2
    <3>2. PICK r \in 1 .. Len(tabs) : r # p /\ tabs[p].opener_index = {r - 1}
      BY <1>2, <3>1 DEF TabSaved, OpenerSaved
    <3>3. q - 1 = r - 1
      BY <3>1, <3>2
    <3>4. q = r
      BY <2>3, <3>1, <3>2, <3>3
    <3> QED  BY <3>2, <3>4
  <2> QED  BY <2>2, <2>4 DEF opener
<1> QED  BY <1>1, <1>2 DEF SessionSound

\* The wrappers DeserializeWebStateList appends: each holds its own fresh WebState,
\* and its opener is another fresh one.
LEMMA RestoredWrapperSound ==
    ASSUME SessionSound, NEW web_states \in FreshWebStates(Len(session.sessions)),
           NEW p \in 1 .. Len(session.sessions)
    PROVE  LET w == RestoredWrapper(web_states, session.sessions, p)
           IN  /\ w \in WebStateWrapper
               /\ w.web_state = web_states[p]
               /\ \/ w.opener = NoWebState /\ w.navigation_index = -1
                  \/ \E q \in 1 .. Len(session.sessions) : q # p /\ w.opener = web_states[q]
<1> DEFINE tabs == session.sessions
           opener == OpenerPosition(tabs, p)
           w == RestoredWrapper(web_states, tabs, p)
           navigation == tabs[p].navigation_index
           q == CHOOSE r \in opener : TRUE
           n == CHOOSE m \in navigation : TRUE
<1>1. \A r \in 1 .. Len(tabs) : web_states[r] \in WebStates
  BY DEF FreshWebStates
<1>2. navigation \in SUBSET NavigationIndices
  <2>1. tabs \in Seq(SavedTab)
    BY DEF SessionSound
  <2>2. tabs[p] \in SavedTab
    BY <2>1, ElementOfSeq
  <2> QED  BY <2>2 DEF SavedTab
<1>3. -1 \in NavigationIndices
  BY WebStateListAssumption DEF NavigationIndices
<1>4. CASE opener = {}
  <2>1. w = NewWrapper(web_states[p])
    BY <1>4 DEF RestoredWrapper
  <2>2. w = [web_state |-> web_states[p], opener |-> NoWebState, navigation_index |-> -1]
    BY <2>1 DEF NewWrapper
  <2> HIDE DEF w
  <2>3. w \in WebStateWrapper
    BY <1>1, <1>3, <2>2 DEF WebStateWrapper
  <2> QED  BY <2>2, <2>3 DEF w
<1>5. CASE opener # {}
  <2>1. w = [web_state |-> web_states[p], opener |-> web_states[q], navigation_index |-> n]
    BY <1>5 DEF RestoredWrapper
  <2>2. q \in opener
    BY <1>5
  <2>3. q \in 1 .. Len(tabs) /\ q # p /\ navigation # {}
    <3> HIDE DEF q
    <3> QED  BY <1>5, <2>2, OpenerPositionSound
  <2>4. n \in navigation
    BY <2>3
  <2>5. n \in NavigationIndices
    BY <1>2, <2>4
  <2> HIDE DEF q, n, w
  <2>6. w \in WebStateWrapper
    BY <1>1, <2>1, <2>3, <2>5 DEF WebStateWrapper
  <2> QED  BY <2>1, <2>3, <2>6 DEF w
<1> QED  BY <1>4, <1>5

\* The list after a restore: the tabs that were there, then the restored ones.
LEMMA RestoreFacts ==
    ASSUME SerInv, NEW web_states \in FreshWebStates(Len(session.sessions)), NEW ntp,
           RestoreSessionWindow(web_states, ntp)
    PROVE  LET L == Len(session.sessions)
           IN  /\ L \in Nat \ {0}
               /\ wrappers' \in Seq(WebStateWrapper) /\ Len(wrappers') = count + L
               /\ \A r \in 1 .. count : wrappers'[r] = wrappers[r]
               /\ \A p \in 1 .. L :
                     wrappers'[count + p] = RestoredWrapper(web_states, session.sessions, p)
               /\ \E i \in 0 .. L - 1 :
                     session.selectedIndex = {i} /\ active_index' = count + i
               /\ last_committed' \in [WebStates -> NavigationIndices]
               /\ \A p \in 1 .. L :
                     last_committed'[web_states[p]] = session.sessions[p].last_committed
               /\ parented' = parented \cup {web_states[p] : p \in 1 .. L}
<1> DEFINE tabs == session.sessions
           L == Len(tabs)
           new == [p \in 1 .. L |-> RestoredWrapper(web_states, tabs, p)]
<1>1. /\ count \in Nat /\ count = Len(wrappers) /\ wrappers \in Seq(WebStateWrapper)
  BY ListFacts DEF SerInv
<1>2. tabs \in Seq(SavedTab) /\ tabs # << >>
  BY DEF SerInv, SessionSound, RestoreSessionWindow
<1>3. L \in Nat \ {0} /\ \A p \in 1 .. L : tabs[p] \in SavedTab
  <2> HIDE DEF tabs
  <2> QED  BY <1>2, LenProperties, ElementOfSeq, EmptySeq
<1>4. new \in [1 .. L -> WebStateWrapper]
  BY RestoredWrapperSound DEF SerInv
<1>5. wrappers' = wrappers \o new
  BY DEF RestoreSessionWindow, DeserializeWebStateList
<1>6. new \in Seq(WebStateWrapper) /\ Len(new) = L
      /\ \A p \in 1 .. L : new[p] = RestoredWrapper(web_states, tabs, p)
  <2>1. \A p \in 1 .. L : new[p] = RestoredWrapper(web_states, tabs, p)
    OBVIOUS
  <2> HIDE DEF new, L
  <2> QED  BY <1>3, <1>4, <2>1
<1> DEFINE selected == IF session.selectedIndex = {} THEN active_index
                       ELSE count + (CHOOSE i \in session.selectedIndex : TRUE)
           committed == [w \in WebStates |->
                            IF w \in ToSet(web_states)
                            THEN tabs[CHOOSE p \in 1 .. Len(new) : web_states[p] = w].last_committed
                            ELSE last_committed[w]]
<1>7. active_index' = selected /\ last_committed' = committed
      /\ parented' = parented \cup ToSet(web_states)
  BY DEF RestoreSessionWindow, DeserializeWebStateList
<1> HIDE DEF new
<1>8. /\ wrappers' \in Seq(WebStateWrapper) /\ Len(wrappers') = count + L
      /\ \A r \in 1 .. count : wrappers'[r] = wrappers[r]
      /\ \A p \in 1 .. L : wrappers'[count + p] = RestoredWrapper(web_states, tabs, p)
  <2> HIDE DEF L
  <2>1. /\ wrappers' \in Seq(WebStateWrapper) /\ Len(wrappers') = Len(wrappers) + Len(new)
        /\ \A r \in 1 .. Len(wrappers) + Len(new) :
              wrappers'[r] = IF r <= Len(wrappers) THEN wrappers[r] ELSE new[r - Len(wrappers)]
    BY <1>1, <1>5, <1>6, ConcatProperties
  <2>2. ASSUME NEW p \in 1 .. L PROVE wrappers'[count + p] = new[p]
    <3> DEFINE r == count + p
    <3>1. /\ r \in 1 .. Len(wrappers) + Len(new) /\ ~ (r <= Len(wrappers))
          /\ r - Len(wrappers) = p
      BY <1>1, <1>3, <1>6
    <3> HIDE DEF r
    <3>2. wrappers'[r] = new[r - Len(wrappers)]
      BY <2>1, <3>1
    <3> QED  BY <3>1, <3>2 DEF r
  <2>3. \A r \in 1 .. count : wrappers'[r] = wrappers[r]
    BY <1>1, <1>3, <1>6, <2>1
  <2> QED  BY <1>1, <1>6, <2>1, <2>2, <2>3
<1>9. \E i \in 0 .. L - 1 : session.selectedIndex = {i} /\ active_index' = count + i
  <2>1. PICK i \in 0 .. L - 1 : session.selectedIndex = {i}
    BY <1>2 DEF SerInv, SessionSound
  <2>2. (CHOOSE k \in session.selectedIndex : TRUE) = i
    BY <2>1
  <2>3. selected = count + i
    BY <2>1, <2>2
  <2> QED  BY <1>7, <2>1, <2>3
<1>10. /\ DOMAIN web_states = 1 .. L
       /\ \A p \in 1 .. L : web_states[p] \in WebStates \ InList
       /\ \A p, q \in 1 .. L : web_states[p] = web_states[q] => p = q
  BY DEF FreshWebStates
<1>11. ToSet(web_states) = {web_states[p] : p \in 1 .. L}
  BY <1>10 DEF ToSet
<1>12. ASSUME NEW p \in 1 .. L
       PROVE  (CHOOSE r \in 1 .. Len(new) : web_states[r] = web_states[p]) = p
  BY <1>6, <1>10
<1>13. ASSUME NEW p \in 1 .. L
       PROVE  committed[web_states[p]] = tabs[p].last_committed
  <2>1. web_states[p] \in WebStates /\ web_states[p] \in ToSet(web_states)
    BY <1>10, <1>11
  <2>2. committed[web_states[p]] =
            tabs[CHOOSE r \in 1 .. Len(new) : web_states[r] = web_states[p]].last_committed
    BY <2>1
  <2> QED  BY <1>12, <2>2
<1>14. ASSUME NEW w \in WebStates PROVE committed[w] \in NavigationIndices
  <2>1. CASE w \in ToSet(web_states)
    <3>1. PICK p \in 1 .. L : w = web_states[p]
      BY <1>11, <2>1
    <3>2. committed[w] = tabs[p].last_committed
      BY <1>13, <3>1
    <3> QED  BY <1>3, <3>2 DEF SavedTab
  <2>2. CASE w \notin ToSet(web_states)
    <3>1. committed[w] = last_committed[w]
      BY <2>2
    <3> QED  BY <3>1 DEF SerInv, IndInv, TypeOK
  <2> QED  BY <2>1, <2>2
<1>15. committed \in [WebStates -> NavigationIndices]
  <2>1. committed = [w \in WebStates |-> committed[w]]
    OBVIOUS
  <2> HIDE DEF committed
  <2> QED  BY <1>14, <2>1
<1> HIDE DEF committed
<1> QED  BY <1>3, <1>7, <1>8, <1>9, <1>11, <1>13, <1>15

\* The notifications of a restore are well typed.
LEMMA RestoreNotifies ==
    ASSUME SerInv, NEW web_states \in FreshWebStates(Len(session.sessions)), NEW ntp,
           RestoreSessionWindow(web_states, ntp)
    PROVE  notified' \in Seq(Notification)
<1> DEFINE L == Len(session.sessions)
           new == [p \in 1 .. L |-> RestoredWrapper(web_states, session.sessions, p)]
           selected == IF session.selectedIndex = {} THEN active_index
                       ELSE count + (CHOOSE i \in session.selectedIndex : TRUE)
           inserted == [p \in 1 .. Len(new) |->
                           Notify("inserted", web_states[p], count + p - 1, active_index)]
           note == NotifyActivated(web_states[selected - count + 1], selected, TRUE)
           activated == IF selected = active_index THEN << >> ELSE <<note>>
<1>1. /\ count \in Nat /\ active_index \in Int
  BY ListFacts DEF SerInv, IndInv, TypeOK
<1>2. notified' = inserted \o activated /\ active_index' = selected
  BY DEF RestoreSessionWindow, DeserializeWebStateList
<1>3. L \in Nat \ {0} /\ \E i \in 0 .. L - 1 : active_index' = count + i
  BY RestoreFacts
<1>4. \A p \in 1 .. L : web_states[p] \in WebStates
  BY DEF FreshWebStates
<1>5. Len(new) = L
  BY <1>3
<1> HIDE DEF new, L
<1>6. inserted \in Seq(Notification)
  <2>1. ASSUME NEW p \in 1 .. L
        PROVE  Notify("inserted", web_states[p], count + p - 1, active_index) \in Notification
    BY <1>1, <1>3, <1>4 DEF Notify, Notification
  <2>2. inserted \in [1 .. L -> Notification]
    BY <1>5, <2>1
  <2> HIDE DEF inserted
  <2> QED  BY <1>3, <2>2
<1>7. activated \in Seq(Notification)
  <2>1. PICK i \in 0 .. L - 1 : selected = count + i
    BY <1>2, <1>3
  <2> HIDE DEF selected
  <2>2. selected - count + 1 = i + 1 /\ i + 1 \in 1 .. L /\ selected \in Int
    BY <1>1, <1>3, <2>1
  <2>3. web_states[selected - count + 1] \in WebStates
    BY <1>4, <2>2
  <2>4. note \in Notification
    BY <2>2, <2>3 DEF NotifyActivated, Notification
  <2> HIDE DEF note
  <2>5. <<note>> \in Seq(Notification) /\ << >> \in Seq(Notification)
    BY <2>4, EmptySeq
  <2> QED  BY <2>5
<1> HIDE DEF inserted, activated
<1> QED  BY <1>2, <1>6, <1>7, ConcatProperties

\* A restore keeps the invariant of the list: the restored tabs are new to it and
\* refer to each other only.
LEMMA RestoreKeepsInv ==
    ASSUME SerInv, NEW web_states \in FreshWebStates(Len(session.sessions)),
           NEW ntp \in BOOLEAN, RestoreSessionWindow(web_states, ntp)
    PROVE  SerInv'
<1> DEFINE tabs == session.sessions
           L == Len(tabs)
           Back(p) == RestoredWrapper(web_states, tabs, p)
<1>1. /\ count \in Nat /\ count = Len(wrappers) /\ wrappers \in Seq(WebStateWrapper)
      /\ \A r \in 1 .. count : wrappers[r].web_state \in InList
      /\ active_index \in -1 .. count - 1
      /\ InList \subseteq WebStates
  BY ListFacts DEF SerInv
<1>2. /\ L \in Nat \ {0}
      /\ wrappers' \in Seq(WebStateWrapper) /\ Len(wrappers') = count + L
      /\ \A r \in 1 .. count : wrappers'[r] = wrappers[r]
      /\ \A p \in 1 .. L : wrappers'[count + p] = Back(p)
      /\ last_committed' \in [WebStates -> NavigationIndices]
      /\ parented' = parented \cup {web_states[p] : p \in 1 .. L}
  BY RestoreFacts
<1>3. PICK i \in 0 .. L - 1 : session.selectedIndex = {i} /\ active_index' = count + i
  BY RestoreFacts
<1>4. /\ \A p \in 1 .. L : web_states[p] \in WebStates /\ web_states[p] \notin InList
      /\ \A p, q \in 1 .. L : web_states[p] = web_states[q] => p = q
  BY DEF FreshWebStates
<1>5. \A p \in 1 .. L :
         /\ Back(p).web_state = web_states[p]
         /\ \/ Back(p).opener = NoWebState /\ Back(p).navigation_index = -1
            \/ \E q \in 1 .. L : q # p /\ Back(p).opener = web_states[q]
  BY RestoredWrapperSound DEF SerInv
<1>6. /\ ~ closing_all /\ UNCHANGED <<closing_all, session, saved>> /\ ~ restoring
      /\ restoring' = (count = 1 /\ ntp) /\ tabs # << >>
  BY DEF RestoreSessionWindow
<1> HIDE DEF Back, L
<1>7. ASSUME NEW r \in 1 .. Len(wrappers')
      PROVE  \/ r \in 1 .. count /\ wrappers'[r] = wrappers[r]
             \/ \E p \in 1 .. L : r = count + p /\ wrappers'[r] = Back(p)
  <2>1. CASE r <= count
    BY <1>1, <1>2, <2>1
  <2>2. CASE ~ (r <= count)
    <3>1. r - count \in 1 .. L /\ r = count + (r - count)
      BY <1>1, <1>2, <2>2
    <3> QED  BY <1>2, <3>1
  <2> QED  BY <2>1, <2>2
<1>8. \A p \in 1 .. L : count + p \in 1 .. Len(wrappers') /\ count + p \notin 1 .. count
  BY <1>1, <1>2
<1>9. \A r \in 1 .. count : r \in 1 .. Len(wrappers')
  BY <1>1, <1>2
<1>10. InList' = InList \cup {web_states[p] : p \in 1 .. L}
  <2>1. ASSUME NEW x \in InList' PROVE x \in InList \cup {web_states[p] : p \in 1 .. L}
    <3>1. PICK r \in 1 .. Len(wrappers') : x = wrappers'[r].web_state
      BY DEF InList
    <3>2. CASE r \in 1 .. count /\ wrappers'[r] = wrappers[r]
      BY <1>1, <3>1, <3>2
    <3>3. CASE \E p \in 1 .. L : wrappers'[r] = Back(p)
      <4>1. PICK p \in 1 .. L : wrappers'[r] = Back(p)
        BY <3>3
      <4>2. x = web_states[p]
        BY <1>5, <3>1, <4>1
      <4> QED  BY <4>2
    <3> QED  BY <1>7, <3>2, <3>3
  <2>2. ASSUME NEW x \in InList PROVE x \in InList'
    <3>1. PICK r \in 1 .. count : x = wrappers[r].web_state
      BY <1>1 DEF InList
    <3>2. x = wrappers'[r].web_state /\ r \in 1 .. Len(wrappers')
      BY <1>2, <1>9, <3>1
    <3> QED  BY <3>2 DEF InList
  <2>3. ASSUME NEW p \in 1 .. L PROVE web_states[p] \in InList'
    <3>1. wrappers'[count + p].web_state = web_states[p] /\ count + p \in 1 .. Len(wrappers')
      BY <1>2, <1>5, <1>8
    <3> QED  BY <3>1 DEF InList
  <2> QED  BY <2>1, <2>2, <2>3
<1>11. ParentedOnce'
  <2>1. parented' = InList'
    BY <1>2, <1>10 DEF SerInv, IndInv, ParentedOnce
  <2>2. ASSUME NEW r \in 1 .. Len(wrappers'), NEW s \in 1 .. Len(wrappers'),
               wrappers'[r].web_state = wrappers'[s].web_state
        PROVE  r = s
    <3>1. CASE r \in 1 .. count /\ s \in 1 .. count
      BY <1>1, <1>2, <2>2, <3>1 DEF SerInv, IndInv, ParentedOnce, NoDuplicates
    <3>2. CASE r \notin 1 .. count /\ s \notin 1 .. count
      <4>1. PICK p \in 1 .. L : r = count + p /\ wrappers'[r] = Back(p)
        BY <1>7, <3>2
      <4>2. PICK q \in 1 .. L : s = count + q /\ wrappers'[s] = Back(q)
        BY <1>7, <3>2
      <4>3. p = q
        BY <1>4, <1>5, <2>2, <4>1, <4>2
      <4> QED  BY <4>1, <4>2, <4>3
    <3>3. CASE r \in 1 .. count /\ s \notin 1 .. count
      <4>1. PICK q \in 1 .. L : s = count + q /\ wrappers'[s] = Back(q)
        BY <1>7, <3>3
      <4>2. wrappers'[r].web_state \in InList
        BY <1>1, <1>2, <3>3
      <4>3. wrappers'[s].web_state \notin InList
        BY <1>4, <1>5, <4>1
      <4> QED  BY <2>2, <4>2, <4>3
    <3>4. CASE r \notin 1 .. count /\ s \in 1 .. count
      <4>1. PICK q \in 1 .. L : r = count + q /\ wrappers'[r] = Back(q)
        BY <1>7, <3>4
      <4>2. wrappers'[s].web_state \in InList
        BY <1>1, <1>2, <3>4
      <4>3. wrappers'[r].web_state \notin InList
        BY <1>4, <1>5, <4>1
      <4> QED  BY <2>2, <4>2, <4>3
    <3> QED  BY <3>1, <3>2, <3>3, <3>4
  <2> QED  BY <2>1, <2>2 DEF ParentedOnce, NoDuplicates
<1>12. OpenersInList'
  <2> SUFFICES ASSUME NEW r \in 1 .. Len(wrappers'), wrappers'[r].opener # NoWebState
               PROVE  /\ wrappers'[r].opener \in InList'
                      /\ wrappers'[r].opener # wrappers'[r].web_state
    BY DEF OpenersInList
  <2>1. CASE r \in 1 .. count
    <3>1. wrappers'[r] = wrappers[r] /\ r \in 1 .. Len(wrappers)
      BY <1>1, <1>2, <2>1
    <3> QED  BY <1>10, <3>1 DEF SerInv, IndInv, OpenersInList
  <2>2. CASE r \notin 1 .. count
    <3>1. PICK p \in 1 .. L : wrappers'[r] = Back(p)
      BY <1>7, <2>2
    <3>2. PICK q \in 1 .. L : q # p /\ Back(p).opener = web_states[q]
      BY <1>5, <3>1
    <3> QED  BY <1>4, <1>5, <1>10, <3>1, <3>2
  <2> QED  BY <2>1, <2>2
<1>13. OpenerlessPlain'
  <2> SUFFICES ASSUME NEW r \in 1 .. Len(wrappers'), wrappers'[r].opener = NoWebState
               PROVE  wrappers'[r].navigation_index = -1
    BY DEF OpenerlessPlain
  <2>1. CASE r \in 1 .. count
    <3>1. wrappers'[r] = wrappers[r] /\ r \in 1 .. Len(wrappers)
      BY <1>1, <1>2, <2>1
    <3> QED  BY <3>1 DEF SerInv, OpenerlessPlain
  <2>2. CASE r \notin 1 .. count
    <3>1. PICK p \in 1 .. L : wrappers'[r] = Back(p)
      BY <1>7, <2>2
    <3>2. \A q \in 1 .. L : Back(p).opener # web_states[q]
      BY <1>4, <3>1, WebStateListAssumption
    <3> QED  BY <1>5, <3>1, <3>2
  <2> QED  BY <2>1, <2>2
<1>14. active_index' \in Int /\ ActiveIndexValid'
  BY <1>1, <1>2, <1>3 DEF ActiveIndexValid, ContainsIndex, count
<1>15. TypeOK'
  <2>1. parented' \subseteq WebStates
    BY <1>2, <1>4 DEF SerInv, IndInv, TypeOK
  <2>2. closing_all' \in BOOLEAN
    BY <1>6 DEF SerInv, IndInv, TypeOK
  <2> QED  BY <1>2, <1>14, <2>1, <2>2, RestoreNotifies DEF TypeOK
<1>16. IndInv'
  BY <1>6, <1>11, <1>12, <1>14, <1>15 DEF IndInv
<1>17. restoring' \in BOOLEAN
  <2> DEFINE b == count = 1 /\ ntp
  <2>1. b \in BOOLEAN
    OBVIOUS
  <2> QED  BY <1>6, <2>1
<1>18. SessionSound'
  BY <1>6 DEF SerInv, SessionSound
<1>19. RestoringSound'
  <2> SUFFICES ASSUME restoring' PROVE /\ session'.sessions # << >>
                                       /\ count' = Len(session'.sessions) + 1
                                       /\ \E k \in 0 .. Len(session'.sessions) - 1 :
                                             /\ session'.selectedIndex = {k}
                                             /\ active_index' = k + 1
    BY DEF RestoringSound
  <2>1. count = 1 /\ session' = session
    BY <1>6
  <2>2. count' = L + 1 /\ active_index' = i + 1
    BY <1>1, <1>2, <1>3, <2>1 DEF count
  <2> QED  BY <1>3, <1>6, <2>1, <2>2 DEF L
<1> QED  BY <1>13, <1>16, <1>17, <1>18, <1>19 DEF SerInv

\* Nothing is known of the list after a restart but that it is empty.
LEMMA RestartKeepsInv ==
    ASSUME SerInv, Restart
    PROVE  SerInv'
<1>1. wrappers' = << >> /\ Len(wrappers') = 0
  BY DEF Restart
<1>2. InList' = {}
  BY <1>1 DEF InList
<1>3. TypeOK'
  <2>1. last_committed' \in [WebStates -> NavigationIndices]
    BY WebStateListAssumption DEF Restart, NavigationIndices
  <2>2. wrappers' \in Seq(WebStateWrapper) /\ notified' \in Seq(Notification)
    BY EmptySeq DEF Restart
  <2>3. active_index' \in Int
    BY DEF Restart, kInvalidIndex
  <2> QED  BY <2>1, <2>2, <2>3, Zenon DEF Restart, TypeOK
<1>4. IndInv'
  BY <1>1, <1>2, <1>3
     DEF Restart, IndInv, ActiveIndexValid, OpenersInList, ParentedOnce, NoDuplicates
<1>5. OpenerlessPlain'
  BY <1>1 DEF OpenerlessPlain
<1>6. SessionSound' /\ restoring' = FALSE
  BY DEF Restart, SerInv, SessionSound
<1> QED  BY <1>4, <1>5, <1>6 DEF SerInv, RestoringSound

\* Closing the old NTP tab ends the restore: the selected tab stays selected.
LEMMA ClobberFacts ==
    ASSUME SerInv, ClobberNTP
    PROVE  /\ SerInv' /\ session' = session /\ ~ restoring'
           /\ \E i \in 0 .. Len(session.sessions) - 1 :
                 /\ session.selectedIndex = {i}
                 /\ Len(wrappers') = Len(session.sessions) /\ active_index' = i
<1> DEFINE L == Len(session.sessions)
<1>1. /\ count \in Nat /\ count = Len(wrappers) /\ wrappers \in Seq(WebStateWrapper)
      /\ TypeOK /\ IndInv
  BY ListFacts DEF SerInv, IndInv
<1>2. /\ restoring /\ CloseWebStateAt(0) /\ restoring' = FALSE /\ UNCHANGED <<session, saved>>
  BY DEF ClobberNTP
<1>3. L \in Nat /\ count = L + 1
  <2>1. session.sessions \in Seq(SavedTab)
    BY DEF SerInv, SessionSound
  <2> QED  BY <1>2, <2>1, LenProperties DEF SerInv, RestoringSound
<1>4. PICK i \in 0 .. L - 1 : session.selectedIndex = {i} /\ active_index = i + 1
  BY <1>2 DEF SerInv, RestoringSound
<1> HIDE DEF L
<1>5. 0 \in Indices
  BY <1>1, <1>3 DEF Indices
<1>6. IndInv'
  <2>1. Next
    BY <1>2, <1>5 DEF Next
  <2> QED  BY <1>1, <2>1, NextIndInv
<1> DEFINE cleared == ClearOpenersReferencing(wrappers, GetWebStateAt(0))
           one == 0 + 1
<1>7. wrappers' = RemoveAt(cleared, one) /\ active_index' = ActiveIndexAfterDetach(0)
  BY <1>2 DEF CloseWebStateAt, CloseWrapperAt, DetachWrapperAt
<1>8. active_index' = i
  BY <1>3, <1>4, <1>7 DEF ActiveIndexAfterDetach
<1>9. /\ cleared \in Seq(WebStateWrapper) /\ Len(cleared) = count
      /\ \A r \in 1 .. count :
            cleared[r].opener = NoWebState => cleared[r].navigation_index = -1
  <2>1. cleared \in Seq(WebStateWrapper) /\ Len(cleared) = count
    BY <1>1, ClearOpenersProperties
  <2>2. ASSUME NEW r \in 1 .. count, cleared[r].opener = NoWebState
        PROVE  cleared[r].navigation_index = -1
    <3> DEFINE gone == GetWebStateAt(0)
    <3>1. cleared[r] = IF wrappers[r].opener = gone THEN NewWrapper(wrappers[r].web_state)
                       ELSE wrappers[r]
      BY <1>1 DEF ClearOpenersReferencing
    <3> HIDE DEF cleared, gone
    <3>2. CASE wrappers[r].opener = gone
      BY <3>1, <3>2 DEF NewWrapper
    <3>3. CASE wrappers[r].opener # gone
      BY <1>1, <2>2, <3>1, <3>3 DEF SerInv, OpenerlessPlain
    <3> QED  BY <3>2, <3>3
  <2> QED  BY <2>1, <2>2
<1>10. one \in 1 .. Len(cleared) /\ one = 1
  BY <1>3, <1>9
<1> HIDE DEF cleared, one
<1>11. /\ Len(wrappers') = count - 1
       /\ \A k \in 1 .. count - 1 : wrappers'[k] = IF k < one THEN cleared[k] ELSE cleared[k + 1]
  BY <1>7, <1>9, <1>10, RemoveAtProperties, SMTT(60)
<1>12. OpenerlessPlain'
  <2> SUFFICES ASSUME NEW p \in 1 .. Len(wrappers'), wrappers'[p].opener = NoWebState
               PROVE  wrappers'[p].navigation_index = -1
    BY DEF OpenerlessPlain
  <2>1. PICK r \in 1 .. count : wrappers'[p] = cleared[r]
    BY <1>1, <1>10, <1>11
  <2> QED  BY <1>9, <2>1
<1>13. SessionSound' /\ restoring' = FALSE
  BY <1>2 DEF SerInv, SessionSound
<1>14. SerInv'
  BY <1>6, <1>12, <1>13 DEF SerInv, RestoringSound
<1>15. Len(wrappers') = L
  BY <1>3, <1>11
<1> QED  BY <1>2, <1>4, <1>8, <1>14, <1>15 DEF L

\* The invariant holds initially, whatever an older version left.
LEMMA InitSerInv == SerInit => SerInv
<1> SUFFICES ASSUME SerInit PROVE SerInv
  OBVIOUS
<1>1. IndInv
  BY InitIndInv DEF SerInit
<1>2. OpenerlessPlain
  BY DEF SerInit, Init, OpenerlessPlain
<1>3. CASE session = NoSession
  <2>1. session = [sessions |-> << >>, selectedIndex |-> {}] /\ saved = << >>
    BY <1>3 DEF SerInit, NoSession
  <2>2. session.sessions = << >> /\ session.sessions \in Seq(SavedTab)
        /\ Len(session.sessions) = 0
    BY <2>1, EmptySeq
  <2>3. saved = [p \in 1 .. Len(session.sessions) |-> saved[p]]
    BY <2>1, <2>2
  <2>4. SessionSound
    BY <2>1, <2>2, <2>3 DEF SessionSound
  <2> QED  BY <1>1, <1>2, <2>4 DEF SerInit, SerInv, RestoringSound
<1>4. CASE session \in LegacySessions
  <2>1. PICK ids \in [1 .. 2 -> {{}, {1}, {2}, {3}}] : session = LegacySession(ids)
    BY <1>4 DEF LegacySessions
  <2> DEFINE Tab(p) == [has_opener_index |-> FALSE, opener_index |-> {},
                        navigation_index |-> IF ids[p] = {} THEN {} ELSE {-1},
                        last_committed |-> -1, tab_id |-> {p}, opener_id |-> ids[p]]
             tabs == [p \in 1 .. 2 |-> Tab(p)]
  <2>2. session = [sessions |-> tabs, selectedIndex |-> {1}]
    BY <2>1 DEF LegacySession
  <2>3. ASSUME NEW p \in 1 .. 2 PROVE Tab(p) \in SavedTab
    <3>1. -1 \in NavigationIndices
      BY WebStateListAssumption DEF NavigationIndices
    <3>2. ids[p] \in SUBSET Nat /\ {p} \in SUBSET Nat
      <4>1. ids[p] \in {{}, {1}, {2}, {3}}
        OBVIOUS
      <4> QED  BY <4>1
    <3>3. (IF ids[p] = {} THEN {} ELSE {-1}) \in SUBSET NavigationIndices
      BY <3>1
    <3> QED  BY <3>1, <3>2, <3>3 DEF SavedTab
  <2>4. tabs \in [1 .. 2 -> SavedTab]
    BY <2>3
  <2> HIDE DEF tabs, Tab
  <2>5. tabs \in Seq(SavedTab) /\ Len(tabs) = 2
    <3>1. PICK n \in Nat : n = 2
      OBVIOUS
    <3>2. tabs \in [1 .. n -> SavedTab]
      BY <2>4, <3>1
    <3>3. tabs \in Seq(SavedTab) /\ Len(tabs) = n
      BY <3>2
    <3> QED  BY <3>1, <3>3
  <2>6. session.sessions = tabs /\ session.selectedIndex = {1}
    BY <2>2
  <2>7. 1 \in 0 .. Len(session.sessions) - 1
    BY <2>5, <2>6
  <2>8. session = [sessions |-> session.sessions, selectedIndex |-> session.selectedIndex]
    BY <2>2, <2>6, Zenon
  <2>9. SessionSound
    BY <1>4, <2>5, <2>6, <2>7, <2>8 DEF SessionSound
  <2> QED  BY <1>1, <1>2, <2>9 DEF SerInit, SerInv, RestoringSound
<1> QED  BY <1>3, <1>4 DEF SerInit

\* The invariant of the sessions holds in every reachable state.
THEOREM SessionsInvariance == SerSpec => []SerInv
<1>1. SerInv /\ [SerNext]_sessionvars => SerInv'
  <2> SUFFICES ASSUME SerInv, [SerNext]_sessionvars PROVE SerInv'
    OBVIOUS
  <2>1. CASE TabOperation
    <3>1. IndInv' /\ OpenerlessPlain' /\ UNCHANGED servars /\ ~ restoring
      BY <2>1, TabOperationKeepsList
    <3> QED  BY <3>1 DEF servars, SerInv, SessionSound, RestoringSound
  <2>2. ASSUME UNCHANGED vars PROVE IndInv' /\ OpenerlessPlain'
    <3>1. IndInv'
      BY <2>2, NextIndInv DEF SerInv
    <3> QED  BY <2>2, <3>1 DEF SerInv, OpenerlessPlain, vars
  <2>3. CASE SaveSession
    <3>1. UNCHANGED vars /\ restoring' = restoring /\ ~ restoring
      BY <2>3 DEF SaveSession
    <3> QED  BY <2>2, <2>3, <3>1, SaveKeepsSound DEF SerInv, RestoringSound
  <2>4. CASE UNCHANGED sessionvars
    <3>1. UNCHANGED vars /\ UNCHANGED servars
      BY <2>4 DEF sessionvars
    <3>2. count' = count /\ active_index' = active_index
      BY <3>1 DEF vars, count
    <3> QED  BY <2>2, <3>1, <3>2 DEF servars, SerInv, SessionSound, RestoringSound
  <2>5. CASE Restart
    BY <2>5, RestartKeepsInv
  <2>6. CASE ClobberNTP
    BY <2>6, ClobberFacts
  <2>7. ASSUME NEW web_states \in FreshWebStates(Len(session.sessions)), NEW ntp \in BOOLEAN,
               RestoreSessionWindow(web_states, ntp)
        PROVE  SerInv'
    BY <2>7, RestoreKeepsInv
  <2> QED  BY <2>1, <2>3, <2>4, <2>5, <2>6, <2>7 DEF SerNext
<1> QED  BY <1>1, InitSerInv, PTL DEF SerSpec

\* Only -restoreSessionWindow: both inserts tabs and selects one: any other step
\* sends one notification, starts with another one, or sends nothing new.
LEMMA OnlyRestoringRestores ==
    ASSUME SerInv, [SerNext]_sessionvars, Restored
    PROVE  \E web_states \in FreshWebStates(Len(session.sessions)), ntp \in BOOLEAN :
               RestoreSessionWindow(web_states, ntp)
<1>1. ASSUME NEW n, notified' = <<n>>
      PROVE  n.event = "inserted" /\ n.event = "activated"
  BY <1>1 DEF Restored, Last
<1>2. ASSUME NEW n, notified' = <<n>> PROVE FALSE
  <2>1. "inserted" # "activated"
    OBVIOUS
  <2> QED  BY <1>1, <1>2, <2>1
<1>3. ASSUME notified' = << >> \/ notified' = notified PROVE FALSE
  BY <1>3 DEF Restored
<1>4. ASSUME NEW index, CloseWrapperAt(index) PROVE FALSE
  <2> DEFINE new == ActiveIndexAfterDetach(index)
             a == Notify("will_detach", GetWebStateAt(index), index, active_index)
             b == Notify("detached", GetWebStateAt(index), index, new)
             d == Notify("will_close", GetWebStateAt(index), index, new)
  <2>1. DetachWrapperAt(index, <<d>>)
    BY <1>4 DEF CloseWrapperAt
  <2>2. PICK x : /\ x = << >> \/ \E c : x = <<c>>
                 /\ notified' = <<a, b>> \o x \o <<d>>
    BY <2>1 DEF DetachWrapperAt
  <2>3. a.event = "will_detach"
    BY DEF Notify
  <2> HIDE DEF a, b, d
  <2> DEFINE ns == <<a, b>> \o x \o <<d>>
  <2>4. Head(ns) = a
    <3>1. CASE x = << >>
      BY <3>1
    <3>2. CASE x # << >>
      <4>1. PICK c : x = <<c>>
        BY <2>2, <3>2
      <4> QED  BY <4>1
    <3> QED  BY <3>1, <3>2
  <2> HIDE DEF ns
  <2> QED  BY <2>2, <2>3, <2>4 DEF Restored, ns
<1>5. CASE TabOperation
  <2>1. ASSUME NEW index, NEW wrapper, InsertWrapperAt(index, wrapper) PROVE FALSE
    BY <1>2, <2>1 DEF InsertWrapperAt
  <2>2. ASSUME NEW from, NEW to, MoveWebStateAt(from, to) PROVE FALSE
    BY <1>2, <2>2 DEF MoveWebStateAt
  <2>3. ASSUME NEW index, ActivateWebStateAt(index) PROVE FALSE
    BY <1>2, <1>3, <2>3 DEF ActivateWebStateAt
  <2>4. ASSUME NEW web_state, NEW n, Navigate(web_state, n) PROVE FALSE
    BY <1>3, <2>4 DEF Navigate
  <2>5. ASSUME NEW index, CloseWebStateAt(index) PROVE FALSE
    BY <1>4, <2>5 DEF CloseWebStateAt
  <2>6. ASSUME NEW web_state, NEW opener, AppendWebState(TRUE, web_state, opener) PROVE FALSE
    BY <2>1, <2>6 DEF AppendWebState
  <2> QED  BY <1>5, <2>2, <2>3, <2>4, <2>5, <2>6 DEF TabOperation
<1>6. CASE SaveSession
  BY <1>3, <1>6 DEF SaveSession, vars
<1>7. CASE Restart
  BY <1>3, <1>7 DEF Restart
<1>8. CASE ClobberNTP
  BY <1>4, <1>8 DEF ClobberNTP, CloseWebStateAt
<1>9. CASE UNCHANGED sessionvars
  BY <1>3, <1>9 DEF sessionvars, vars
<1> QED  BY <1>5, <1>6, <1>7, <1>8, <1>9 DEF SerNext

\* Whatever was saved, by whichever version: restoring it leaves the open tabs as
\* they were, and no restored tab has one of them, or itself, as its opener.
THEOREM RestoredAlwaysApart == SerSpec => RestoredApart
<1> DEFINE Apart == /\ SubSeq(wrappers', 1, count) = wrappers
                    /\ \A p \in count + 1 .. Len(wrappers') :
                          wrappers'[p].opener \notin InList \cup {wrappers'[p].web_state}
<1>1. ASSUME SerInv, [SerNext]_sessionvars, Restored PROVE Apart
  <2>1. PICK web_states \in FreshWebStates(Len(session.sessions)), ntp \in BOOLEAN :
            RestoreSessionWindow(web_states, ntp)
    BY <1>1, OnlyRestoringRestores
  <2> DEFINE L == Len(session.sessions)
  <2>2. /\ L \in Nat /\ wrappers' \in Seq(WebStateWrapper) /\ Len(wrappers') = count + L
        /\ \A r \in 1 .. count : wrappers'[r] = wrappers[r]
        /\ \A p \in 1 .. L :
              wrappers'[count + p] = RestoredWrapper(web_states, session.sessions, p)
    BY <1>1, <2>1, RestoreFacts
  <2>3. /\ count \in Nat /\ count = Len(wrappers) /\ wrappers \in Seq(WebStateWrapper)
    BY <1>1, ListFacts DEF SerInv
  <2>4. SubSeq(wrappers', 1, count) = wrappers
    <3> HIDE DEF L
    <3> DEFINE sub == SubSeq(wrappers', 1, count)
    <3>1. /\ sub \in Seq(WebStateWrapper) /\ Len(sub) = count
          /\ \A r \in 1 .. count : sub[r] = wrappers'[r]
      <4>1. 1 \in 1 .. Len(wrappers') + 1 /\ count \in 0 .. Len(wrappers')
        BY <2>2, <2>3
      <4> QED  BY <2>2, <2>3, <4>1, SubSeqProperties
    <3> HIDE DEF sub
    <3>2. \A r \in 1 .. Len(sub) : sub[r] = wrappers[r]
      BY <2>2, <3>1
    <3> QED  BY <2>3, <3>1, <3>2, SeqEqual DEF sub
  <2>5. ASSUME NEW p \in count + 1 .. Len(wrappers')
        PROVE  wrappers'[p].opener \notin InList \cup {wrappers'[p].web_state}
    <3> DEFINE r == p - count
               w == RestoredWrapper(web_states, session.sessions, r)
    <3>1. r \in 1 .. L /\ p = count + r
      <4> HIDE DEF L
      <4> QED  BY <2>2, <2>3
    <3> HIDE DEF r
    <3>2. wrappers'[p] = w
      BY <2>2, <3>1
    <3>3. /\ w.web_state = web_states[r]
          /\ \/ w.opener = NoWebState
             \/ \E q \in 1 .. L : q # r /\ w.opener = web_states[q]
      BY <1>1, <3>1, RestoredWrapperSound DEF SerInv
    <3>4. /\ \A q \in 1 .. L : web_states[q] \in WebStates \ InList
          /\ \A q \in 1 .. L : web_states[q] = web_states[r] => q = r
      BY <3>1 DEF FreshWebStates
    <3>5. InList \subseteq WebStates
      BY <1>1, ListFacts DEF SerInv
    <3> HIDE DEF w, L
    <3>6. CASE w.opener = NoWebState
      BY <3>1, <3>2, <3>3, <3>4, <3>5, <3>6, WebStateListAssumption
    <3>7. CASE w.opener # NoWebState
      <4>1. PICK q \in 1 .. L : q # r /\ w.opener = web_states[q]
        BY <3>3, <3>7
      <4> QED  BY <3>2, <3>3, <3>4, <4>1
    <3> QED  BY <3>6, <3>7
  <2> QED  BY <2>4, <2>5
<1>2. ASSUME SerInv, [SerNext]_sessionvars PROVE [Restored => Apart]_sessionvars
  BY <1>1, <1>2
<1> QED  BY <1>2, SessionsInvariance, PTL DEF SerSpec, RestoredApart

\* Once a restore is over, the selected tab is the one that was selected when the
\* window was saved: the shift by the open tabs and the closing of the old NTP tab
\* cancel out, for any window.
THEOREM SelectionAlwaysRestored == SerSpec => SelectionRestored
<1> DEFINE Over == /\ Restored \/ restoring
                   /\ ~ restoring' /\ wrappers' # << >>
           Same == Len(wrappers') - active_index' =
                       Len(session.sessions) - (CHOOSE i \in session.selectedIndex : TRUE)
           L == Len(session.sessions)
<1>1. ASSUME NEW i \in Nat, session.selectedIndex = {i}, L \in Nat, NEW c \in Nat,
             Len(wrappers') = c + L, active_index' = c + i
      PROVE  Same
  <2>1. (CHOOSE k \in session.selectedIndex : TRUE) = i
    BY <1>1
  <2> HIDE DEF L
  <2>2. (c + L) - (c + i) = L - i
    BY <1>1
  <2> QED  BY <1>1, <2>1, <2>2 DEF L
<1>2. ASSUME SerInv, [SerNext]_sessionvars, Restored PROVE Same
  <2>1. PICK web_states \in FreshWebStates(L), ntp \in BOOLEAN :
            RestoreSessionWindow(web_states, ntp)
    BY <1>2, OnlyRestoringRestores
  <2>2. L \in Nat /\ Len(wrappers') = count + L
    BY <1>2, <2>1, RestoreFacts
  <2>3. PICK i \in 0 .. L - 1 : session.selectedIndex = {i} /\ active_index' = count + i
    BY <1>2, <2>1, RestoreFacts
  <2>4. count \in Nat
    BY <1>2, ListFacts DEF SerInv
  <2> HIDE DEF Same, L
  <2>5. i \in Nat
    BY <2>2
  <2> QED  BY <1>1, <2>2, <2>3, <2>4, <2>5
<1>3. ASSUME SerInv, [SerNext]_sessionvars, restoring, ~ restoring', wrappers' # << >>
      PROVE  Same
  <2>1. ~ Restart
    BY <1>3 DEF Restart
  <2>2. ClobberNTP
    BY <1>3, <2>1 DEF SerNext, TabOperation, SaveSession, RestoreSessionWindow, sessionvars,
                      servars
  <2>3. PICK i \in 0 .. L - 1 :
            session.selectedIndex = {i} /\ Len(wrappers') = L /\ active_index' = i
    BY <1>3, <2>2, ClobberFacts
  <2>4. L \in Nat
    <3>1. session.sessions \in Seq(SavedTab)
      BY <1>3 DEF SerInv, SessionSound
    <3> QED  BY <3>1, LenProperties
  <2> HIDE DEF Same, L
  <2>5. i \in Nat /\ L = 0 + L /\ i = 0 + i /\ 0 \in Nat
    BY <2>4
  <2> QED  BY <1>1, <2>3, <2>4, <2>5
<1> HIDE DEF Same
<1>4. ASSUME SerInv, [SerNext]_sessionvars PROVE [Over => Same]_sessionvars
  BY <1>2, <1>3, <1>4
<1> QED  BY <1>4, SessionsInvariance, PTL DEF SerSpec, SelectionRestored, Same

\* A tab of a window this version saved comes back with the navigation index it
\* had, and with the restored form of its opener as its opener.
LEMMA RestoredAsSaved ==
    ASSUME SessionSound, NEW web_states, NEW p \in 1 .. Len(session.sessions),
           ~ IsSessionUsingLegacyFormat(session.sessions),
           TabSaved(session.sessions[p], saved[p], p, Len(session.sessions))
    PROVE  LET w == RestoredWrapper(web_states, session.sessions, p)
           IN  /\ w.navigation_index = saved[p].navigation_index
               /\ \/ saved[p].opener = {} /\ w.opener = NoWebState
                  \/ \E q \in 1 .. Len(session.sessions) :
                        saved[p].opener = {q} /\ w.opener = web_states[q]
<1> DEFINE tabs == session.sessions
           opener == OpenerPosition(tabs, p)
           w == RestoredWrapper(web_states, tabs, p)
           chosen == CHOOSE r \in opener : TRUE
           navigation == CHOOSE m \in tabs[p].navigation_index : TRUE
<1>1. opener = {q \in 1 .. Len(tabs) : tabs[p].navigation_index # {}
                                       /\ tabs[p].opener_index = {q - 1}}
  BY DEF OpenerPosition
<1>2. w = IF opener = {} THEN NewWrapper(web_states[p])
          ELSE [web_state |-> web_states[p], opener |-> web_states[chosen],
                navigation_index |-> navigation]
  BY DEF RestoredWrapper
<1>3. Len(tabs) \in Nat
  BY LenProperties DEF SessionSound
<1> HIDE DEF opener, w
<1>4. CASE /\ tabs[p].opener_index = {} /\ tabs[p].navigation_index = {}
           /\ saved[p].opener = {} /\ saved[p].navigation_index = -1
  <2>1. opener = {}
    BY <1>1, <1>4
  <2> QED  BY <1>2, <1>4, <2>1 DEF NewWrapper, w
<1>5. ASSUME NEW q \in 1 .. Len(tabs), NEW n \in NavigationIndices,
             OpenerSaved(tabs[p], saved[p], q, n)
      PROVE  /\ w.navigation_index = saved[p].navigation_index
             /\ saved[p].opener = {q} /\ w.opener = web_states[q]
  <2>1. /\ tabs[p].opener_index = {q - 1} /\ tabs[p].navigation_index = {n}
        /\ saved[p].opener = {q} /\ saved[p].navigation_index = n
    BY <1>5 DEF OpenerSaved
  <2>2. \A r \in 1 .. Len(tabs) : {q - 1} = {r - 1} <=> r = q
    <3> TAKE r \in 1 .. Len(tabs)
    <3>1. q - 1 = r - 1 <=> r = q
      BY <1>3
    <3> QED  BY <3>1
  <2>3. opener = {q}
    BY <1>1, <2>1, <2>2
  <2>4. chosen = q /\ navigation = n
    BY <2>1, <2>3
  <2> HIDE DEF chosen, navigation
  <2> QED  BY <1>2, <2>1, <2>3, <2>4
<1> QED  BY <1>4, <1>5 DEF TabSaved, w

\* Saving and restoring is the identity on the shape of a window, of any size and
\* after any tabs: the same tabs in the same order, opened by the same tabs of the
\* window at the same navigation, showing the same committed item.
THEOREM RoundTripAlways == SerSpec => RoundTrip
<1> DEFINE Kept == Shape(wrappers', last_committed', count + 1) = saved
           Current == ~ IsSessionUsingLegacyFormat(session.sessions)
<1>1. ASSUME SerInv, [SerNext]_sessionvars, Restored, Current PROVE Kept
  <2> DEFINE tabs == session.sessions
             L == Len(tabs)
  <2>1. PICK web_states \in FreshWebStates(L), ntp \in BOOLEAN :
            RestoreSessionWindow(web_states, ntp)
    BY <1>1, OnlyRestoringRestores
  <2> DEFINE Back(p) == RestoredWrapper(web_states, tabs, p)
             Positions(w) == {r \in 1 .. Len(wrappers') : wrappers'[r].web_state = w.opener}
             Shaped(p) ==
                 LET w == wrappers'[count + 1 + p - 1]
                 IN  [opener |-> {q - (count + 1) + 1 : q \in Positions(w)},
                      navigation_index |-> w.navigation_index,
                      last_committed |-> last_committed'[w.web_state]]
  <2>2. /\ L \in Nat \ {0}
        /\ wrappers' \in Seq(WebStateWrapper) /\ Len(wrappers') = count + L
        /\ \A p \in 1 .. L : wrappers'[count + p] = Back(p)
        /\ \A p \in 1 .. L : last_committed'[web_states[p]] = tabs[p].last_committed
    BY <1>1, <2>1, RestoreFacts
  <2>3. count \in Nat
    BY <1>1, ListFacts DEF SerInv
  <2>4. session \notin LegacySessions
    <3> SUFFICES ASSUME session \in LegacySessions PROVE FALSE
      OBVIOUS
    <3>1. PICK ids : session = LegacySession(ids)
      BY DEF LegacySessions
    <3>2. ~ tabs[1].has_opener_index
      BY <3>1 DEF LegacySession
    <3>3. 1 \in 1 .. L
      BY <2>2
    <3> QED  BY <1>1, <3>2, <3>3 DEF IsSessionUsingLegacyFormat
  <2>5. /\ saved = [p \in 1 .. L |-> saved[p]]
        /\ \A p \in 1 .. L : TabSaved(tabs[p], saved[p], p, L)
    BY <1>1, <2>4 DEF SerInv, SessionSound
  <2>6. /\ \A q \in 1 .. L : Back(q).web_state = web_states[q] /\ web_states[q] \in WebStates
        /\ \A r \in 1 .. Len(wrappers') : wrappers'[r].web_state \in WebStates
        /\ NoDuplicates'
    <3>1. IndInv'
      BY <1>1, <2>1, RestoreKeepsInv DEF SerInv
    <3>2. NoDuplicates'
      BY <3>1 DEF IndInv, ParentedOnce
    <3>3. \A q \in 1 .. L : Back(q).web_state = web_states[q]
      BY <1>1, RestoredWrapperSound DEF SerInv
    <3>4. \A q \in 1 .. L : web_states[q] \in WebStates
      BY DEF FreshWebStates
    <3>5. \A r \in 1 .. Len(wrappers') : wrappers'[r].web_state \in WebStates
      <4> TAKE r \in 1 .. Len(wrappers')
      <4>1. wrappers'[r] \in WebStateWrapper
        BY <2>2, ElementOfSeq
      <4> QED  BY <4>1 DEF WebStateWrapper
    <3> QED  BY <3>2, <3>3, <3>4, <3>5
  <2>7. ASSUME NEW p \in 1 .. L PROVE Shaped(p) = saved[p]
    <3> DEFINE w == Back(p)
    <3>1. wrappers'[count + 1 + p - 1] = w
      <4> HIDE DEF w, L, Back
      <4>1. count + 1 + p - 1 = count + p
        BY <2>2, <2>3
      <4> QED  BY <2>2, <4>1 DEF w
    <3>2. /\ w.navigation_index = saved[p].navigation_index
          /\ \/ saved[p].opener = {} /\ w.opener = NoWebState
             \/ \E q \in 1 .. L : saved[p].opener = {q} /\ w.opener = web_states[q]
      BY <1>1, <2>5, RestoredAsSaved DEF SerInv
    <3>3. last_committed'[w.web_state] = tabs[p].last_committed
      BY <2>2, <2>6
    <3>4. saved[p] = [opener |-> saved[p].opener,
                      navigation_index |-> saved[p].navigation_index,
                      last_committed |-> tabs[p].last_committed]
      BY <2>5, Zenon DEF TabSaved
    <3> HIDE DEF w, L, Back
    <3>5. {q - (count + 1) + 1 : q \in Positions(w)} = saved[p].opener
      <4>1. CASE saved[p].opener = {} /\ w.opener = NoWebState
        <5>1. Positions(w) = {}
          BY <2>6, <4>1, WebStateListAssumption
        <5> HIDE DEF Positions
        <5> QED  BY <4>1, <5>1
      <4>2. ASSUME NEW q \in 1 .. L, saved[p].opener = {q}, w.opener = web_states[q]
            PROVE  {r - (count + 1) + 1 : r \in Positions(w)} = {q}
        <5> DEFINE at == count + q
        <5>1. at \in 1 .. Len(wrappers') /\ at - (count + 1) + 1 = q
          BY <2>2, <2>3
        <5>2. wrappers'[at].web_state = web_states[q]
          BY <2>2, <2>6
        <5> HIDE DEF at
        <5>3. Positions(w) = {at}
          BY <2>6, <4>2, <5>1, <5>2 DEF NoDuplicates
        <5> HIDE DEF Positions
        <5> QED  BY <5>1, <5>3
      <4> HIDE DEF Positions
      <4> QED  BY <3>2, <4>1, <4>2
    <3> HIDE DEF Positions
    <3>6. Shaped(p) = [opener |-> {q - (count + 1) + 1 : q \in Positions(w)},
                       navigation_index |-> w.navigation_index,
                       last_committed |-> last_committed'[w.web_state]]
      BY <3>1, Zenon
    <3> HIDE DEF Shaped
    <3> QED  BY <3>2, <3>3, <3>4, <3>5, <3>6, Zenon
  <2>8. Len(wrappers') - (count + 1) + 1 = L
    <3> HIDE DEF L
    <3> QED  BY <2>2, <2>3
  <2>9. Shape(wrappers', last_committed', count + 1) =
            [p \in 1 .. Len(wrappers') - (count + 1) + 1 |-> Shaped(p)]
    BY Zenon DEF Shape
  <2> HIDE DEF Shaped, L
  <2>10. [p \in 1 .. L |-> Shaped(p)] = [p \in 1 .. L |-> saved[p]]
    BY <2>7
  <2> QED  BY <2>5, <2>8, <2>9, <2>10, Zenon
<1> HIDE DEF Kept
<1>2. ASSUME SerInv, [SerNext]_sessionvars PROVE [Restored /\ Current => Kept]_sessionvars
  BY <1>1, <1>2
<1> QED  BY <1>2, SessionsInvariance, PTL DEF SerSpec, RoundTrip, Kept
=============================================================================
