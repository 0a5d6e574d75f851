------------------------- MODULE WebStateListProofs -------------------------
(***************************************************************************)
(* Proofs about WebStateList, for any set of WebStates: the invariant of   *)
(* the list, what an operation does to the selected tab and announces, and *)
(* where the order controller puts a new tab.                              *)
(***************************************************************************)
EXTENDS WebStateList, SequenceLemmas

\* The inductive invariant.  ActiveIndexValid needs OpenersInList (the opener
\* DetermineNewActiveIndex falls back to must be another WebState of the list)
\* and NoDuplicates (GetIndexOfWebState must find that one and not the removed).
IndInv ==
    /\ TypeOK
    /\ ActiveIndexValid
    /\ OpenersInList
    /\ ParentedOnce
    /\ closing_all => wrappers # << >>

-----------------------------------------------------------------------------
(* The pieces of a wrapper and of a notification have their types.         *)

\* Fresh wrappers, openers and notifications are well typed.
LEMMA ConstructorTypes ==
    ASSUME TypeOK
    PROVE  /\ \A w \in WebStates : NewWrapper(w) \in WebStateWrapper
           /\ \A o \in InList \cup {NoWebState} :
                 /\ WebStateOpener(o).opener = o
                 /\ WebStateOpener(o).navigation_index \in NavigationIndices
           /\ InList \subseteq WebStates
<1>1. -1 \in NavigationIndices
  BY WebStateListAssumption DEF NavigationIndices
<1>2. \A w \in WebStates : NewWrapper(w) \in WebStateWrapper
  BY <1>1 DEF NewWrapper, WebStateWrapper
<1>3. InList \subseteq WebStates
  <2>1. \A p \in 1 .. Len(wrappers) : wrappers[p] \in WebStateWrapper
    BY ElementOfSeq DEF TypeOK
  <2>2. \A p \in 1 .. Len(wrappers) : wrappers[p].web_state \in WebStates
    BY <2>1 DEF WebStateWrapper
  <2> QED  BY <2>2 DEF InList
<1>4. \A o \in InList \cup {NoWebState} :
         /\ WebStateOpener(o).opener = o
         /\ WebStateOpener(o).navigation_index \in NavigationIndices
  BY <1>1, <1>3, WebStateListAssumption DEF WebStateOpener, TypeOK
<1> QED  BY <1>2, <1>3, <1>4

\* ClearOpenersReferencing keeps the WebStates in place and drops the openers
\* equal to web_state.
LEMMA ClearOpenersProperties ==
    ASSUME TypeOK, NEW web_state
    PROVE  LET cleared == ClearOpenersReferencing(wrappers, web_state)
           IN  /\ cleared \in Seq(WebStateWrapper)
               /\ Len(cleared) = Len(wrappers)
               /\ \A p \in 1 .. Len(wrappers) :
                     /\ cleared[p].web_state = wrappers[p].web_state
                     /\ \/ cleared[p].opener = NoWebState
                        \/ cleared[p].opener = wrappers[p].opener /\ cleared[p].opener # web_state
<1> DEFINE cleared == ClearOpenersReferencing(wrappers, web_state)
<1>1. Len(wrappers) \in Nat /\ \A p \in 1 .. Len(wrappers) : wrappers[p] \in WebStateWrapper
  BY LenProperties, ElementOfSeq DEF TypeOK
<1>2. \A p \in 1 .. Len(wrappers) : NewWrapper(wrappers[p].web_state) \in WebStateWrapper
  BY <1>1, ConstructorTypes DEF WebStateWrapper
<1>3. \A p \in 1 .. Len(wrappers) :
         cleared[p] = IF wrappers[p].opener = web_state
                      THEN NewWrapper(wrappers[p].web_state) ELSE wrappers[p]
  BY DEF ClearOpenersReferencing
<1>4. cleared \in [1 .. Len(wrappers) -> WebStateWrapper]
  BY <1>1, <1>2 DEF ClearOpenersReferencing
<1>5. cleared \in Seq(WebStateWrapper) /\ Len(cleared) = Len(wrappers)
  BY <1>1, <1>4
<1> HIDE DEF cleared
<1>6. ASSUME NEW p \in 1 .. Len(wrappers)
      PROVE  /\ cleared[p].web_state = wrappers[p].web_state
             /\ \/ cleared[p].opener = NoWebState
                \/ cleared[p].opener = wrappers[p].opener /\ cleared[p].opener # web_state
  <2>1. CASE wrappers[p].opener = web_state
    <3>1. cleared[p] = NewWrapper(wrappers[p].web_state)
      BY <1>3, <2>1
    <3> QED  BY <3>1 DEF NewWrapper
  <2>2. CASE wrappers[p].opener # web_state
    BY <1>3, <2>2
  <2> QED  BY <2>1, <2>2
<1> QED  BY <1>5, <1>6 DEF cleared

-----------------------------------------------------------------------------
(* The order controller.                                                   *)

\* A WebState found by its opener lies after the index the search starts from.
LEMMA OpenedByRange ==
    ASSUME TypeOK, NEW opener, NEW start \in Int, NEW use_group \in BOOLEAN, NEW n
    PROVE  LET found == GetIndexOfNthWebStateOpenedBy(opener, start, use_group, n)
           IN  \/ found = kInvalidIndex
               \/ found \in start + 1 .. count - 1 /\ start >= 0
<1> DEFINE P(index) == IsNthOpenedBy(index, opener, start, use_group, n)
<1>1. CASE opener # NoWebState /\ ContainsIndex(start)
           /\ \E index \in start + 1 .. count - 1 : P(index)
  <2>1. (CHOOSE index \in start + 1 .. count - 1 : P(index)) \in start + 1 .. count - 1
    BY <1>1
  <2> QED  BY <1>1, <2>1 DEF GetIndexOfNthWebStateOpenedBy, ContainsIndex
<1>2. CASE ~ (opener # NoWebState /\ ContainsIndex(start)
              /\ \E index \in start + 1 .. count - 1 : P(index))
  BY <1>2 DEF GetIndexOfNthWebStateOpenedBy
<1> QED  BY <1>1, <1>2

\* GetIndexOfWebState answers an index of the list for a WebState of the list.
LEMMA IndexOfRange ==
    ASSUME TypeOK, NEW web_state
    PROVE  LET index == GetIndexOfWebState(web_state)
           IN  /\ index = kInvalidIndex \/ (index \in Indices /\ GetWebStateAt(index) = web_state)
               /\ web_state \in InList => index \in Indices
<1>1. Len(wrappers) \in Nat
  BY LenProperties DEF TypeOK
<1>2. web_state \in InList => \E index \in Indices : GetWebStateAt(index) = web_state
  <2> SUFFICES ASSUME web_state \in InList
               PROVE  \E index \in Indices : GetWebStateAt(index) = web_state
    OBVIOUS
  <2>1. PICK p \in 1 .. Len(wrappers) : wrappers[p].web_state = web_state
    BY DEF InList
  <2>2. p - 1 \in Indices /\ (p - 1) + 1 = p
    BY <1>1, <2>1 DEF Indices, count
  <2> QED  BY <2>1, <2>2 DEF GetWebStateAt
<1>3. CASE \E index \in Indices : GetWebStateAt(index) = web_state
  BY <1>3 DEF GetIndexOfWebState
<1>4. CASE ~ \E index \in Indices : GetWebStateAt(index) = web_state
  BY <1>2, <1>4 DEF GetIndexOfWebState
<1> QED  BY <1>3, <1>4

\* DetermineNewActiveIndex answers an index of the list without the removed
\* WebState, and kInvalidIndex only when nothing is left.
LEMMA NewActiveIndexRange ==
    ASSUME IndInv, NEW removing \in Indices
    PROVE  /\ DetermineNewActiveIndex(removing) \in -1 .. count - 2
           /\ count > 1 => DetermineNewActiveIndex(removing) # kInvalidIndex
<1> USE DEF kInvalidIndex
<1>1. count \in Nat /\ removing \in Int /\ 0 <= removing /\ removing < count
  BY LenProperties DEF IndInv, TypeOK, count, Indices
<1> DEFINE child == GetIndexOfNextWebStateOpenedBy(GetWebStateAt(removing), removing, FALSE)
           opener == wrappers[removing + 1].opener
           sibling == GetIndexOfNextWebStateOpenedBy(opener, removing, FALSE)
           parent == GetIndexOfWebState(opener)
<1>2. child = -1 \/ child \in removing + 1 .. count - 1
  BY <1>1, OpenedByRange DEF IndInv, GetIndexOfNextWebStateOpenedBy
<1>3. sibling = -1 \/ sibling \in removing + 1 .. count - 1
  BY <1>1, OpenedByRange DEF IndInv, GetIndexOfNextWebStateOpenedBy
<1>4. opener # NoWebState => parent \in Indices /\ parent # removing
  <2> SUFFICES ASSUME opener # NoWebState
               PROVE  parent \in Indices /\ parent # removing
    OBVIOUS
  <2>1. removing + 1 \in 1 .. Len(wrappers)
    BY <1>1 DEF count
  <2>2. opener \in InList /\ opener # GetWebStateAt(removing)
    BY <2>1 DEF IndInv, OpenersInList, GetWebStateAt
  <2>3. parent \in Indices /\ GetWebStateAt(parent) = opener
    BY <2>2, <1>1, IndexOfRange DEF IndInv, Indices
  <2> QED  BY <2>2, <2>3
<1>5. \A index \in Indices : index # removing =>
         GetValidIndex(index, removing) \in 0 .. count - 2
  BY <1>1 DEF GetValidIndex, Indices
<1> HIDE DEF child, opener, sibling, parent
<1>6. DetermineNewActiveIndex(removing) =
         IF child # -1 THEN GetValidIndex(child, removing)
         ELSE IF opener # NoWebState
         THEN GetValidIndex(IF sibling # -1 THEN sibling ELSE parent, removing)
         ELSE IF removing = count - 1 THEN removing - 1 ELSE removing
  BY DEF DetermineNewActiveIndex, child, opener, sibling, parent
<1>7. CASE child # -1
  <2>1. child \in Indices /\ child # removing
    BY <1>1, <1>2, <1>7 DEF Indices
  <2> QED  BY <1>1, <1>5, <1>6, <1>7, <2>1
<1>8. CASE child = -1 /\ opener # NoWebState
  <2> DEFINE next == IF sibling # -1 THEN sibling ELSE parent
  <2>1. next \in Indices /\ next # removing
    BY <1>1, <1>3, <1>4, <1>8 DEF Indices
  <2>2. DetermineNewActiveIndex(removing) = GetValidIndex(next, removing)
    BY <1>6, <1>8
  <2> HIDE DEF next
  <2> QED  BY <1>1, <1>5, <2>1, <2>2
<1>9. CASE child = -1 /\ opener = NoWebState
  BY <1>1, <1>6, <1>9
<1> QED  BY <1>7, <1>8, <1>9

-----------------------------------------------------------------------------
(* One lemma per kind of change of the vector.                             *)

\* Facts every step below starts from.
LEMMA ListFacts ==
    ASSUME IndInv
    PROVE  /\ count \in Nat /\ count = Len(wrappers)
           /\ wrappers \in Seq(WebStateWrapper)
           /\ \A p \in 1 .. count : wrappers[p] \in WebStateWrapper
           /\ \A p \in 1 .. count : wrappers[p].web_state \in InList
           /\ active_index \in -1 .. count - 1
           /\ InList \subseteq WebStates
<1>1. count \in Nat /\ wrappers \in Seq(WebStateWrapper)
  BY LenProperties DEF IndInv, TypeOK, count
<1>2. \A p \in 1 .. count : wrappers[p] \in WebStateWrapper
  BY ElementOfSeq DEF IndInv, TypeOK, count
<1>3. active_index \in -1 .. count - 1
  BY <1>1 DEF IndInv, TypeOK, ActiveIndexValid, ContainsIndex, kInvalidIndex
<1>4. \A p \in 1 .. count : wrappers[p].web_state \in InList
  BY DEF InList, count
<1> QED  BY <1>1, <1>2, <1>3, <1>4, ConstructorTypes DEF IndInv, count

\* Inserting a WebState that is not in the list, opened by one that is.
LEMMA InsertKeepsIndInv ==
    ASSUME IndInv, NEW index \in 0 .. count, NEW wrapper \in WebStateWrapper,
           wrapper.opener = NoWebState \/ wrapper.opener \in InList,
           InsertWrapperAt(index, wrapper)
    PROVE  IndInv'
<1> DEFINE new == InsertAt(wrappers, index + 1, wrapper)
           At(j) == IF j < index + 1 THEN wrappers[j]
                    ELSE IF j = index + 1 THEN wrapper ELSE wrappers[j - 1]
<1>1. /\ count \in Nat /\ count = Len(wrappers)
      /\ wrappers \in Seq(WebStateWrapper)
      /\ active_index \in -1 .. count - 1
      /\ \A p \in 1 .. count : wrappers[p].web_state \in InList
  BY ListFacts
<1>2. wrappers' = new /\ wrapper.web_state \notin InList /\ wrapper.web_state \in WebStates
  BY DEF InsertWrapperAt, WebStateWrapper
<1>3. /\ new \in Seq(WebStateWrapper) /\ Len(new) = count + 1
      /\ \A j \in 1 .. count + 1 : new[j] = At(j)
  <2> DEFINE i == index + 1
  <2>1. i \in 1 .. Len(wrappers) + 1
    BY <1>1
  <2>2. wrappers \in Seq(WebStateWrapper)
    BY <1>1
  <2> HIDE DEF i
  <2>3. /\ InsertAt(wrappers, i, wrapper) \in Seq(WebStateWrapper)
        /\ Len(InsertAt(wrappers, i, wrapper)) = Len(wrappers) + 1
        /\ \A j \in 1 .. Len(wrappers) + 1 :
              InsertAt(wrappers, i, wrapper)[j] =
                  IF j < i THEN wrappers[j] ELSE IF j = i THEN wrapper ELSE wrappers[j - 1]
    BY <2>1, <2>2, InsertAtProperties, SMTT(60)
  <2> QED  BY <1>1, <2>3 DEF i
<1> HIDE DEF new
<1>4. wrappers' \in Seq(WebStateWrapper) /\ Len(wrappers') = count + 1
  BY <1>2, <1>3
<1>5. InList' = InList \cup {wrapper.web_state}
  <2>1. ASSUME NEW x \in InList' PROVE x \in InList \cup {wrapper.web_state}
    <3>1. PICK j \in 1 .. count + 1 : x = wrappers'[j].web_state
      BY <1>4, <2>1 DEF InList
    <3> QED  BY <1>1, <1>2, <1>3, <3>1
  <2>2. wrapper.web_state \in InList'
    <3>1. wrappers'[index + 1] = wrapper /\ index + 1 \in 1 .. Len(wrappers')
      BY <1>1, <1>2, <1>3, <1>4
    <3> QED  BY <3>1 DEF InList
  <2>3. ASSUME NEW x \in InList PROVE x \in InList'
    <3>1. PICK p \in 1 .. count : x = wrappers[p].web_state
      BY <1>1, <2>3 DEF InList
    <3>2. CASE p < index + 1
      <4>1. wrappers'[p] = wrappers[p] /\ p \in 1 .. Len(wrappers')
        BY <1>1, <1>2, <1>3, <1>4, <3>2
      <4> QED  BY <3>1, <4>1 DEF InList
    <3>3. CASE ~ (p < index + 1)
      <4>1. wrappers'[p + 1] = wrappers[p] /\ p + 1 \in 1 .. Len(wrappers')
        BY <1>1, <1>2, <1>3, <1>4, <3>3
      <4> QED  BY <3>1, <4>1 DEF InList
    <3> QED  BY <3>2, <3>3
  <2> QED  BY <2>1, <2>2, <2>3
<1>6. ParentedOnce'
  <2>1. parented' = InList'
    BY <1>5 DEF InsertWrapperAt, IndInv, ParentedOnce
  <2>2. ASSUME NEW p \in 1 .. Len(wrappers'), NEW q \in 1 .. Len(wrappers'),
               wrappers'[p].web_state = wrappers'[q].web_state
        PROVE  p = q
    <3>1. At(p).web_state = At(q).web_state
      BY <1>2, <1>3, <1>4, <2>2
    <3>2. \A a, b \in 1 .. count : wrappers[a].web_state = wrappers[b].web_state => a = b
      BY <1>1 DEF IndInv, ParentedOnce, NoDuplicates
    <3> QED  BY <1>1, <1>2, <1>4, <3>1, <3>2
  <2> QED  BY <2>1, <2>2 DEF ParentedOnce, NoDuplicates
<1>7. OpenersInList'
  <2> SUFFICES ASSUME NEW p \in 1 .. Len(wrappers'), wrappers'[p].opener # NoWebState
               PROVE  /\ wrappers'[p].opener \in InList'
                      /\ wrappers'[p].opener # wrappers'[p].web_state
    BY DEF OpenersInList
  <2>1. wrappers'[p] = At(p)
    BY <1>2, <1>3, <1>4
  <2>2. CASE p = index + 1
    BY <1>2, <1>5, <2>1, <2>2
  <2>3. CASE p # index + 1
    <3>1. PICK q \in 1 .. count : wrappers'[p] = wrappers[q]
      BY <1>1, <1>4, <2>1, <2>3
    <3>2. wrappers[q].opener \in InList /\ wrappers[q].opener # wrappers[q].web_state
      BY <1>1, <3>1 DEF IndInv, OpenersInList
    <3> QED  BY <1>5, <3>1, <3>2
  <2> QED  BY <2>2, <2>3
<1>8. active_index' \in -1 .. count
  BY <1>1 DEF InsertWrapperAt
<1>9. ActiveIndexValid'
  BY <1>1, <1>4, <1>8 DEF ActiveIndexValid, ContainsIndex, kInvalidIndex, count
<1>10. notified' \in Seq(Notification)
  BY <1>1, <1>2 DEF InsertWrapperAt, Notify, Notification
<1>11. TypeOK'
  BY <1>1, <1>2, <1>4, <1>8, <1>10 DEF TypeOK, InsertWrapperAt, IndInv
<1>12. (closing_all => wrappers # << >>)'
  BY DEF InsertWrapperAt
<1> QED  BY <1>6, <1>7, <1>9, <1>11, <1>12 DEF IndInv

\* active_index_ after a removal is an index of the shorter list.
LEMMA ActiveIndexAfterDetachRange ==
    ASSUME IndInv, NEW index \in Indices
    PROVE  /\ ActiveIndexAfterDetach(index) \in -1 .. count - 2
           /\ active_index # kInvalidIndex /\ count > 1
                 => ActiveIndexAfterDetach(index) # kInvalidIndex
<1>1. count \in Nat /\ active_index \in -1 .. count - 1
  BY ListFacts
<1>2. index \in Int /\ 0 <= index /\ index < count
  BY <1>1 DEF Indices
<1>3. CASE active_index > index
  BY <1>1, <1>2, <1>3 DEF ActiveIndexAfterDetach, kInvalidIndex
<1>4. CASE active_index = index
  <2>1. ActiveIndexAfterDetach(index) = DetermineNewActiveIndex(index)
    BY <1>1, <1>2, <1>4 DEF ActiveIndexAfterDetach
  <2> QED  BY <2>1, NewActiveIndexRange
<1>5. CASE active_index < index
  BY <1>1, <1>2, <1>5 DEF ActiveIndexAfterDetach, kInvalidIndex
<1> QED  BY <1>1, <1>2, <1>3, <1>4, <1>5

\* Removing a WebState: the openers that pointed to it are cleared first.
LEMMA DetachKeepsIndInv ==
    ASSUME IndInv, NEW index \in Indices, NEW then \in Seq(Notification),
           DetachWrapperAt(index, then),
           last_committed' \in [WebStates -> NavigationIndices],
           closing_all' \in BOOLEAN, closing_all' => count > 1
    PROVE  IndInv'
<1> DEFINE gone == GetWebStateAt(index)
           cleared == ClearOpenersReferencing(wrappers, gone)
           rest == RemoveAt(cleared, index + 1)
           From(j) == IF j < index + 1 THEN j ELSE j + 1
<1>1. /\ count \in Nat /\ count = Len(wrappers)
      /\ wrappers \in Seq(WebStateWrapper)
      /\ active_index \in -1 .. count - 1
      /\ \A p \in 1 .. count : wrappers[p].web_state \in InList
      /\ InList \subseteq WebStates
  BY ListFacts
<1>2. index \in Int /\ 0 <= index /\ index < count /\ index + 1 \in 1 .. count
  BY <1>1 DEF Indices
<1>3. /\ cleared \in Seq(WebStateWrapper)
      /\ Len(cleared) = count
      /\ \A p \in 1 .. count :
            /\ cleared[p].web_state = wrappers[p].web_state
            /\ \/ cleared[p].opener = NoWebState
               \/ cleared[p].opener = wrappers[p].opener /\ cleared[p].opener # gone
  BY <1>1, ClearOpenersProperties DEF IndInv
<1>4. wrappers' = rest /\ active_index' = ActiveIndexAfterDetach(index)
      /\ parented' = parented \ {gone}
  BY DEF DetachWrapperAt
<1> HIDE DEF cleared
<1>5. /\ rest \in Seq(WebStateWrapper) /\ Len(rest) = count - 1
      /\ \A j \in 1 .. count - 1 : rest[j] = cleared[From(j)]
  <2> DEFINE i == index + 1
  <2>1. i \in 1 .. Len(cleared)
    BY <1>2, <1>3
  <2> HIDE DEF i
  <2>2. /\ RemoveAt(cleared, i) \in Seq(WebStateWrapper)
        /\ Len(RemoveAt(cleared, i)) = Len(cleared) - 1
        /\ \A j \in 1 .. Len(cleared) - 1 :
              RemoveAt(cleared, i)[j] = IF j < i THEN cleared[j] ELSE cleared[j + 1]
    BY <1>3, <2>1, RemoveAtProperties, ZenonT(60)
  <2> QED  BY <1>2, <1>3, <2>2 DEF i
<1> HIDE DEF rest
<1>6. \A j \in 1 .. count - 1 : From(j) \in 1 .. count /\ From(j) # index + 1
  BY <1>1, <1>2
<1>7. \A i, j \in 1 .. count - 1 : From(i) = From(j) => i = j
  BY <1>1, <1>2
<1>8. gone = wrappers[index + 1].web_state /\ gone \in InList
  BY <1>1, <1>2 DEF GetWebStateAt
<1>9. \A p, q \in 1 .. count : wrappers[p].web_state = wrappers[q].web_state => p = q
  BY <1>1 DEF IndInv, ParentedOnce, NoDuplicates
<1> HIDE DEF From, gone
<1>10. wrappers' \in Seq(WebStateWrapper) /\ Len(wrappers') = count - 1
  BY <1>4, <1>5
<1>11. \A j \in 1 .. count - 1 : /\ wrappers'[j].web_state = wrappers[From(j)].web_state
                                 /\ wrappers'[j].web_state # gone
  BY <1>2, <1>3, <1>4, <1>5, <1>6, <1>8, <1>9
<1>12. InList' = InList \ {gone}
  <2>1. ASSUME NEW x \in InList' PROVE x \in InList \ {gone}
    <3>1. PICK j \in 1 .. count - 1 : x = wrappers'[j].web_state
      BY <1>10, <2>1 DEF InList
    <3> QED  BY <1>1, <1>6, <1>11, <3>1
  <2>2. ASSUME NEW x \in InList, x # gone PROVE x \in InList'
    <3>1. PICK p \in 1 .. count : x = wrappers[p].web_state
      BY <1>1, <2>2 DEF InList
    <3>2. p # index + 1
      BY <1>8, <2>2, <3>1
    <3>3. PICK j \in 1 .. count - 1 : From(j) = p
      <4>1. CASE p < index + 1
        <5>1. p \in 1 .. count - 1 /\ From(p) = p
          BY <1>1, <1>2, <4>1 DEF From
        <5> QED  BY <5>1
      <4>2. CASE p > index + 1
        <5>1. p - 1 \in 1 .. count - 1 /\ From(p - 1) = p
          BY <1>1, <1>2, <4>2 DEF From
        <5> QED  BY <5>1
      <4> QED  BY <1>2, <3>2, <4>1, <4>2
    <3> QED  BY <1>10, <1>11, <3>1, <3>3 DEF InList
  <2> QED  BY <2>1, <2>2
<1>13. ParentedOnce'
  <2>1. parented' = InList'
    BY <1>4, <1>12 DEF IndInv, ParentedOnce
  <2>2. ASSUME NEW p \in 1 .. Len(wrappers'), NEW q \in 1 .. Len(wrappers'),
               wrappers'[p].web_state = wrappers'[q].web_state
        PROVE  p = q
    BY <1>6, <1>7, <1>9, <1>10, <1>11, <2>2
  <2> QED  BY <2>1, <2>2 DEF ParentedOnce, NoDuplicates
<1>14. OpenersInList'
  <2> SUFFICES ASSUME NEW p \in 1 .. Len(wrappers'), wrappers'[p].opener # NoWebState
               PROVE  /\ wrappers'[p].opener \in InList'
                      /\ wrappers'[p].opener # wrappers'[p].web_state
    BY DEF OpenersInList
  <2>1. wrappers'[p] = cleared[From(p)] /\ From(p) \in 1 .. count
    BY <1>4, <1>5, <1>6, <1>10
  <2>2. wrappers'[p].opener = wrappers[From(p)].opener /\ wrappers'[p].opener # gone
    BY <1>3, <2>1
  <2>3. /\ wrappers[From(p)].opener \in InList
        /\ wrappers[From(p)].opener # wrappers[From(p)].web_state
    BY <1>1, <2>1, <2>2 DEF IndInv, OpenersInList
  <2> QED  BY <1>10, <1>11, <1>12, <2>2, <2>3
<1>15. active_index' \in -1 .. count - 2
  BY <1>4, ActiveIndexAfterDetachRange
<1>16. ActiveIndexValid'
  BY <1>1, <1>10, <1>15 DEF ActiveIndexValid, ContainsIndex, kInvalidIndex, count
<1>17. notified' \in Seq(Notification)
  <2> DEFINE new == ActiveIndexAfterDetach(index)
             selected == IF new = kInvalidIndex THEN NoWebState ELSE rest[new + 1].web_state
             activated == IF index = active_index
                          THEN <<NotifyActivated(selected, new, FALSE)>> ELSE << >>
             first == <<Notify("will_detach", gone, index, active_index),
                        Notify("detached", gone, index, new)>>
  <2>1. notified' = first \o activated \o then
    BY DEF DetachWrapperAt, gone, rest, cleared
  <2>2. new \in Int /\ active_index \in Int
    BY <1>1, ActiveIndexAfterDetachRange
  <2>3. selected \in WebStates \cup {NoWebState}
    <3>1. CASE new # kInvalidIndex
      <4>1. new + 1 \in 1 .. count - 1
        BY <1>1, <1>4, <1>15, <3>1 DEF kInvalidIndex
      <4>2. rest[new + 1] \in WebStateWrapper
        BY <1>5, <4>1, ElementOfSeq
      <4> QED  BY <4>2 DEF WebStateWrapper
    <3> QED  BY <3>1
  <2>4. first \in Seq(Notification)
    BY <1>1, <1>2, <1>8, <2>2 DEF Notify, Notification
  <2>5. NotifyActivated(selected, new, FALSE) \in Notification
    BY <2>2, <2>3 DEF NotifyActivated, Notification
  <2>6. activated \in Seq(Notification)
    <3> DEFINE note == NotifyActivated(selected, new, FALSE)
    <3>1. note \in Notification
      BY <2>5
    <3>2. activated = <<note>> \/ activated = << >>
      OBVIOUS
    <3> HIDE DEF note, activated
    <3>3. <<note>> \in Seq(Notification)
      BY <3>1
    <3>4. << >> \in Seq(Notification)
      BY EmptySeq
    <3> QED  BY <3>2, <3>3, <3>4
  <2> HIDE DEF first, activated
  <2>7. first \o activated \in Seq(Notification)
    BY <2>4, <2>6, ConcatProperties
  <2> QED  BY <2>1, <2>7, ConcatProperties
<1>18. TypeOK'
  BY <1>1, <1>4, <1>10, <1>15, <1>17 DEF TypeOK, IndInv
<1>19. (closing_all => wrappers # << >>)'
  BY <1>1, <1>10
<1> QED  BY <1>13, <1>14, <1>16, <1>18, <1>19 DEF IndInv

\* Erasing a WebState and inserting it elsewhere.
LEMMA MoveKeepsIndInv ==
    ASSUME IndInv, NEW from \in Indices, NEW to \in Indices, MoveWebStateAt(from, to)
    PROVE  IndInv'
<1> DEFINE moved == wrappers[from + 1]
           erased == RemoveAt(wrappers, from + 1)
           new == InsertAt(erased, to + 1, moved)
           Erased(j) == IF j < from + 1 THEN j ELSE j + 1
           From(j) == IF j < to + 1 THEN Erased(j)
                      ELSE IF j = to + 1 THEN from + 1 ELSE Erased(j - 1)
           To(p) == IF p = from + 1 THEN to + 1
                    ELSE LET q == IF p < from + 1 THEN p ELSE p - 1
                         IN  IF q < to + 1 THEN q ELSE q + 1
<1>1. /\ count \in Nat /\ count = Len(wrappers)
      /\ wrappers \in Seq(WebStateWrapper)
      /\ \A p \in 1 .. count : wrappers[p] \in WebStateWrapper
      /\ active_index \in -1 .. count - 1
  BY ListFacts
<1>2. /\ from \in Int /\ 0 <= from /\ from < count
      /\ to \in Int /\ 0 <= to /\ to < count
      /\ from + 1 \in 1 .. count
  BY <1>1 DEF Indices
<1>3. moved \in WebStateWrapper
  BY <1>1, <1>2
<1>4. wrappers' = new
  BY DEF MoveWebStateAt
<1> HIDE DEF moved
<1>5. /\ erased \in Seq(WebStateWrapper) /\ Len(erased) = count - 1
      /\ \A j \in 1 .. count - 1 : erased[j] = wrappers[Erased(j)]
  <2> DEFINE i == from + 1
  <2>1. i \in 1 .. Len(wrappers)
    BY <1>1, <1>2
  <2> HIDE DEF i
  <2>2. /\ RemoveAt(wrappers, i) \in Seq(WebStateWrapper)
        /\ Len(RemoveAt(wrappers, i)) = Len(wrappers) - 1
        /\ \A j \in 1 .. Len(wrappers) - 1 :
              RemoveAt(wrappers, i)[j] = IF j < i THEN wrappers[j] ELSE wrappers[j + 1]
    BY <1>1, <2>1, RemoveAtProperties, Zenon
  <2> QED  BY <1>1, <1>2, <2>2 DEF i
<1> HIDE DEF erased
<1>6. /\ new \in Seq(WebStateWrapper) /\ Len(new) = count
      /\ \A j \in 1 .. count :
            new[j] = IF j < to + 1 THEN erased[j]
                     ELSE IF j = to + 1 THEN moved ELSE erased[j - 1]
  <2> DEFINE i == to + 1
  <2>1. i \in 1 .. Len(erased) + 1
    BY <1>1, <1>2, <1>5
  <2>a. erased \in Seq(WebStateWrapper)
    BY <1>5
  <2> HIDE DEF i
  <2>2. /\ InsertAt(erased, i, moved) \in Seq(WebStateWrapper)
        /\ Len(InsertAt(erased, i, moved)) = Len(erased) + 1
        /\ \A j \in 1 .. Len(erased) + 1 :
              InsertAt(erased, i, moved)[j] =
                  IF j < i THEN erased[j] ELSE IF j = i THEN moved ELSE erased[j - 1]
    BY <1>3, <2>a, <2>1, InsertAtProperties, SMTT(60)
  <2> QED  BY <1>1, <1>2, <1>5, <2>2 DEF i
<1> HIDE DEF new
<1>7. \A j \in 1 .. count : From(j) \in 1 .. count
  BY <1>1, <1>2
<1>8. \A i, j \in 1 .. count : From(i) = From(j) => i = j
  BY <1>1, <1>2
<1>9. \A p \in 1 .. count : To(p) \in 1 .. count /\ From(To(p)) = p
  BY <1>1, <1>2
<1>10. ASSUME NEW j \in 1 .. count PROVE wrappers'[j] = wrappers[From(j)]
  <2>1. CASE j < to + 1
    <3>1. j \in 1 .. count - 1
      BY <1>1, <1>2, <2>1
    <3> QED  BY <1>4, <1>5, <1>6, <2>1, <3>1
  <2>2. CASE j = to + 1
    BY <1>2, <1>4, <1>6, <2>2 DEF moved
  <2>3. CASE j > to + 1
    <3>1. j - 1 \in 1 .. count - 1
      BY <1>1, <1>2, <2>3
    <3>2. wrappers'[j] = erased[j - 1]
      BY <1>2, <1>4, <1>6, <2>3
    <3>3. erased[j - 1] = wrappers[Erased(j - 1)]
      BY <1>5, <3>1
    <3> QED  BY <1>2, <2>3, <3>2, <3>3
  <2> QED  BY <1>2, <2>1, <2>2, <2>3
<1> HIDE DEF From, To
<1>11. wrappers' \in Seq(WebStateWrapper) /\ Len(wrappers') = count
  BY <1>4, <1>6
<1>12. InList' = InList
  <2>1. ASSUME NEW x \in InList' PROVE x \in InList
    <3>1. PICK j \in 1 .. count : x = wrappers'[j].web_state
      BY <1>11, <2>1 DEF InList
    <3> QED  BY <1>1, <1>7, <1>10, <3>1 DEF InList
  <2>2. ASSUME NEW x \in InList PROVE x \in InList'
    <3>1. PICK p \in 1 .. count : x = wrappers[p].web_state
      BY <1>1, <2>2 DEF InList
    <3>2. wrappers'[To(p)].web_state = x /\ To(p) \in 1 .. Len(wrappers')
      BY <1>9, <1>10, <1>11, <3>1
    <3> QED  BY <3>2 DEF InList
  <2> QED  BY <2>1, <2>2
<1>13. ParentedOnce'
  <2>1. parented' = InList'
    BY <1>12 DEF MoveWebStateAt, IndInv, ParentedOnce
  <2>2. ASSUME NEW p \in 1 .. Len(wrappers'), NEW q \in 1 .. Len(wrappers'),
               wrappers'[p].web_state = wrappers'[q].web_state
        PROVE  p = q
    <3>1. \A a, b \in 1 .. count : wrappers[a].web_state = wrappers[b].web_state => a = b
      BY <1>1 DEF IndInv, ParentedOnce, NoDuplicates
    <3>2. p \in 1 .. count /\ q \in 1 .. count
      BY <1>11
    <3>3. wrappers[From(p)].web_state = wrappers[From(q)].web_state
      BY <1>10, <2>2, <3>2
    <3>4. From(p) = From(q)
      BY <1>7, <3>1, <3>2, <3>3
    <3> QED  BY <1>8, <3>2, <3>4
  <2> QED  BY <2>1, <2>2 DEF ParentedOnce, NoDuplicates
<1>14. OpenersInList'
  <2> SUFFICES ASSUME NEW p \in 1 .. Len(wrappers'), wrappers'[p].opener # NoWebState
               PROVE  /\ wrappers'[p].opener \in InList'
                      /\ wrappers'[p].opener # wrappers'[p].web_state
    BY DEF OpenersInList
  <2>1. wrappers'[p] = wrappers[From(p)] /\ From(p) \in 1 .. Len(wrappers)
    BY <1>1, <1>7, <1>10, <1>11
  <2> QED  BY <1>12, <2>1 DEF IndInv, OpenersInList
<1>15. active_index' \in -1 .. count - 1
  BY <1>1, <1>2 DEF MoveWebStateAt
<1>16. ActiveIndexValid'
  BY <1>1, <1>11, <1>15 DEF ActiveIndexValid, ContainsIndex, kInvalidIndex, count
<1>17. notified' \in Seq(Notification)
  <2>1. moved.web_state \in WebStates
    BY <1>3 DEF WebStateWrapper
  <2>2. notified' = <<NotifyMoved(moved.web_state, from, to, active_index')>>
    BY DEF MoveWebStateAt, moved
  <2>3. NotifyMoved(moved.web_state, from, to, active_index') \in Notification
    BY <1>1, <1>2, <1>15, <2>1 DEF NotifyMoved, Notification
  <2> QED  BY <2>2, <2>3
<1>18. TypeOK'
  BY <1>1, <1>11, <1>15, <1>17 DEF TypeOK, IndInv, MoveWebStateAt
<1>19. (closing_all => wrappers # << >>)'
  BY DEF MoveWebStateAt
<1> QED  BY <1>13, <1>14, <1>16, <1>18, <1>19 DEF IndInv

\* Replacing the WebState of a wrapper: its children lose their opener and the
\* new WebState starts without one.
LEMMA ReplaceKeepsIndInv ==
    ASSUME IndInv, NEW index \in Indices, NEW web_state \in WebStates,
           ReplaceWebStateAt(index, web_state)
    PROVE  IndInv'
<1> DEFINE old == GetWebStateAt(index)
           cleared == ClearOpenersReferencing(wrappers, old)
           i == index + 1
<1>1. /\ count \in Nat /\ count = Len(wrappers)
      /\ wrappers \in Seq(WebStateWrapper)
      /\ active_index \in -1 .. count - 1
      /\ \A p \in 1 .. count : wrappers[p].web_state \in InList
      /\ InList \subseteq WebStates
  BY ListFacts
<1>2. i \in 1 .. count /\ index \in Int
  BY <1>1 DEF Indices
<1>3. /\ cleared \in Seq(WebStateWrapper)
      /\ Len(cleared) = count
      /\ \A p \in 1 .. count :
            /\ cleared[p].web_state = wrappers[p].web_state
            /\ \/ cleared[p].opener = NoWebState
               \/ cleared[p].opener = wrappers[p].opener /\ cleared[p].opener # old
  BY <1>1, ClearOpenersProperties DEF IndInv
<1>4. /\ wrappers' = [cleared EXCEPT ![i] = NewWrapper(web_state)]
      /\ parented' = (parented \cup {web_state}) \ {old}
      /\ web_state \notin InList
      /\ active_index' = active_index
  BY DEF ReplaceWebStateAt
<1>5. NewWrapper(web_state) \in WebStateWrapper
  BY ConstructorTypes DEF IndInv
<1>6. old = wrappers[i].web_state /\ old \in InList
  BY <1>1, <1>2 DEF GetWebStateAt
<1>7. \A p, q \in 1 .. count : wrappers[p].web_state = wrappers[q].web_state => p = q
  BY <1>1 DEF IndInv, ParentedOnce, NoDuplicates
<1> HIDE DEF cleared, i, old
<1>8. wrappers' \in Seq(WebStateWrapper) /\ Len(wrappers') = count
  BY <1>2, <1>3, <1>4, <1>5, ExceptSeq
<1>9. \A p \in 1 .. count : wrappers'[p] = IF p = i THEN NewWrapper(web_state) ELSE cleared[p]
  BY <1>2, <1>3, <1>4, <1>5, ExceptSeq
<1>10. wrappers'[i].web_state = web_state /\ wrappers'[i].opener = NoWebState
  BY <1>2, <1>9 DEF NewWrapper
<1>11. \A p \in 1 .. count : p # i => wrappers'[p].web_state = wrappers[p].web_state
                                     /\ wrappers'[p].web_state # old
  BY <1>2, <1>3, <1>6, <1>7, <1>9
<1>12. InList' = (InList \cup {web_state}) \ {old}
  <2>1. ASSUME NEW x \in InList' PROVE x \in (InList \cup {web_state}) \ {old}
    <3>1. PICK p \in 1 .. count : x = wrappers'[p].web_state
      BY <1>8, <2>1 DEF InList
    <3> QED  BY <1>1, <1>4, <1>6, <1>10, <1>11, <3>1
  <2>2. web_state \in InList'
    BY <1>2, <1>8, <1>10 DEF InList
  <2>3. ASSUME NEW x \in InList, x # old PROVE x \in InList'
    <3>1. PICK p \in 1 .. count : x = wrappers[p].web_state
      BY <1>1, <2>3 DEF InList
    <3>2. wrappers'[p].web_state = x
      BY <1>6, <1>11, <2>3, <3>1
    <3> QED  BY <1>8, <3>2 DEF InList
  <2> QED  BY <1>4, <1>6, <2>1, <2>2, <2>3
<1>13. ParentedOnce'
  <2>1. parented' = InList'
    BY <1>4, <1>12 DEF IndInv, ParentedOnce
  <2>2. ASSUME NEW p \in 1 .. Len(wrappers'), NEW q \in 1 .. Len(wrappers'),
               wrappers'[p].web_state = wrappers'[q].web_state
        PROVE  p = q
    BY <1>1, <1>4, <1>7, <1>8, <1>10, <1>11, <2>2
  <2> QED  BY <2>1, <2>2 DEF ParentedOnce, NoDuplicates
<1>14. OpenersInList'
  <2> SUFFICES ASSUME NEW p \in 1 .. Len(wrappers'), wrappers'[p].opener # NoWebState
               PROVE  /\ wrappers'[p].opener \in InList'
                      /\ wrappers'[p].opener # wrappers'[p].web_state
    BY DEF OpenersInList
  <2>1. p # i /\ p \in 1 .. count
    BY <1>8, <1>10
  <2>2. wrappers'[p].opener = wrappers[p].opener /\ wrappers'[p].opener # old
    BY <1>3, <1>9, <2>1
  <2>3. wrappers[p].opener \in InList /\ wrappers[p].opener # wrappers[p].web_state
    BY <1>1, <2>1, <2>2 DEF IndInv, OpenersInList
  <2> QED  BY <1>11, <1>12, <2>1, <2>2, <2>3
<1>15. ActiveIndexValid'
  BY <1>1, <1>4, <1>8 DEF ActiveIndexValid, ContainsIndex, kInvalidIndex, count
<1>16. notified' \in Seq(Notification)
  BY <1>1, <1>2 DEF ReplaceWebStateAt, Notify, Notification
<1>17. TypeOK'
  BY <1>1, <1>4, <1>8, <1>16 DEF TypeOK, IndInv, ReplaceWebStateAt
<1>18. (closing_all => wrappers # << >>)'
  BY DEF ReplaceWebStateAt
<1> QED  BY <1>13, <1>14, <1>15, <1>17, <1>18 DEF IndInv

\* Recording another WebState of the list as the opener.
LEMMA SetOpenerKeepsIndInv ==
    ASSUME IndInv, NEW index \in Indices,
           NEW opener \in [opener : WebStates, navigation_index : NavigationIndices],
           SetOpenerOfWebStateAt(index, opener)
    PROVE  IndInv'
<1> DEFINE i == index + 1
           new == WithOpener(wrappers[i], opener)
<1>1. /\ count \in Nat /\ count = Len(wrappers)
      /\ wrappers \in Seq(WebStateWrapper)
      /\ \A p \in 1 .. count : wrappers[p] \in WebStateWrapper
      /\ active_index \in -1 .. count - 1
  BY ListFacts
<1>2. i \in 1 .. count
  BY <1>1 DEF Indices
<1>3. /\ wrappers' = [wrappers EXCEPT ![i] = new]
      /\ opener.opener \in InList /\ opener.opener # wrappers[i].web_state
  BY DEF SetOpenerOfWebStateAt, GetWebStateAt
<1>4. new \in WebStateWrapper /\ new.web_state = wrappers[i].web_state
      /\ new.opener = opener.opener
  <2>1. wrappers[i] \in WebStateWrapper
    BY <1>1, <1>2
  <2> QED  BY <2>1 DEF WithOpener, WebStateWrapper
<1> HIDE DEF i, new
<1>5. /\ wrappers' \in Seq(WebStateWrapper) /\ Len(wrappers') = count
      /\ \A p \in 1 .. count : wrappers'[p] = IF p = i THEN new ELSE wrappers[p]
  BY <1>1, <1>2, <1>3, <1>4, ExceptSeq
<1>6. \A p \in 1 .. count : wrappers'[p].web_state = wrappers[p].web_state
  BY <1>4, <1>5
<1>7. InList' = InList
  BY <1>1, <1>5, <1>6 DEF InList
<1>8. ParentedOnce'
  <2>1. parented' = InList'
    BY <1>7 DEF SetOpenerOfWebStateAt, IndInv, ParentedOnce
  <2>2. NoDuplicates'
    BY <1>1, <1>5, <1>6 DEF IndInv, ParentedOnce, NoDuplicates
  <2> QED  BY <2>1, <2>2 DEF ParentedOnce
<1>9. OpenersInList'
  <2> SUFFICES ASSUME NEW p \in 1 .. Len(wrappers'), wrappers'[p].opener # NoWebState
               PROVE  /\ wrappers'[p].opener \in InList'
                      /\ wrappers'[p].opener # wrappers'[p].web_state
    BY DEF OpenersInList
  <2>1. CASE p = i
    BY <1>2, <1>3, <1>4, <1>5, <1>7, <2>1
  <2>2. CASE p # i
    <3>1. wrappers'[p] = wrappers[p] /\ p \in 1 .. Len(wrappers)
      BY <1>1, <1>5, <2>2
    <3> QED  BY <1>7, <3>1 DEF IndInv, OpenersInList
  <2> QED  BY <2>1, <2>2
<1>10. ActiveIndexValid'
  BY <1>1, <1>5 DEF ActiveIndexValid, ContainsIndex, kInvalidIndex, count, SetOpenerOfWebStateAt
<1>11. TypeOK'
  BY <1>1, <1>5 DEF TypeOK, IndInv, SetOpenerOfWebStateAt
<1>12. (closing_all => wrappers # << >>)'
  BY DEF SetOpenerOfWebStateAt
<1> QED  BY <1>8, <1>9, <1>10, <1>11, <1>12 DEF IndInv

\* CloseWrapperAt is a removal that also notifies WillCloseWebStateAt.
LEMMA CloseKeepsIndInv ==
    ASSUME IndInv, NEW index \in Indices, CloseWrapperAt(index),
           closing_all' \in BOOLEAN, closing_all' => count > 1
    PROVE  IndInv'
<1> DEFINE note == Notify("will_close", GetWebStateAt(index), index,
                          ActiveIndexAfterDetach(index))
<1>1. /\ count \in Nat /\ InList \subseteq WebStates
      /\ \A p \in 1 .. count : wrappers[p].web_state \in InList
  BY ListFacts
<1>2. index \in Int /\ index + 1 \in 1 .. count
  BY <1>1 DEF Indices
<1>3. GetWebStateAt(index) \in WebStates
  BY <1>1, <1>2 DEF GetWebStateAt
<1>4. ActiveIndexAfterDetach(index) \in Int
  BY <1>1, ActiveIndexAfterDetachRange
<1>5. note \in Notification
  BY <1>2, <1>3, <1>4 DEF Notify, Notification
<1> HIDE DEF note
<1>6. <<note>> \in Seq(Notification)
  BY <1>5
<1>7. DetachWrapperAt(index, <<note>>)
  BY DEF CloseWrapperAt, note
<1>8. last_committed' \in [WebStates -> NavigationIndices]
  <2>1. -1 \in NavigationIndices
    BY WebStateListAssumption DEF NavigationIndices
  <2> QED  BY <2>1 DEF CloseWrapperAt, IndInv, TypeOK
<1> QED  BY <1>6, <1>7, <1>8, DetachKeepsIndInv

\* The invariant holds initially.
LEMMA InitIndInv == Init => IndInv
<1> SUFFICES ASSUME Init PROVE IndInv
  OBVIOUS
<1>1. wrappers = << >> /\ Len(wrappers) = 0
  BY DEF Init
<1>2. InList = {}
  BY <1>1 DEF InList
<1>3. TypeOK
  <2>1. last_committed \in [WebStates -> NavigationIndices]
    BY WebStateListAssumption DEF Init, NavigationIndices
  <2>2. wrappers \in Seq(WebStateWrapper) /\ notified \in Seq(Notification)
    BY EmptySeq DEF Init
  <2>3. active_index \in Int
    BY DEF Init, kInvalidIndex
  <2> QED  BY <2>1, <2>2, <2>3, Zenon DEF Init, TypeOK
<1> QED
  BY <1>1, <1>2, <1>3
     DEF Init, IndInv, ActiveIndexValid, OpenersInList, ParentedOnce, NoDuplicates

\* AppendWebState inserts at an index of the list, or behind it.
LEMMA AppendInserts ==
    ASSUME IndInv, NEW web_state \in WebStates, NEW is_link \in BOOLEAN,
           NEW opener \in WebStates \cup {NoWebState},
           AppendWebState(is_link, web_state, opener)
    PROVE  \E index \in 0 .. count, wrapper \in WebStateWrapper :
               /\ wrapper.opener = NoWebState \/ wrapper.opener \in InList
               /\ wrapper.opener = NoWebState => wrapper.navigation_index = -1
               /\ InsertWrapperAt(index, wrapper)
<1>0. /\ count \in Nat /\ count = Len(wrappers)
      /\ \A p \in 1 .. count : wrappers[p].web_state \in InList
  BY ListFacts
<1> DEFINE determined == DetermineInsertionIndex(is_link, opener)
           index == IF determined < 0 \/ count < determined THEN count ELSE determined
           wrapper == WithOpener(NewWrapper(web_state), WebStateOpener(opener))
<1>1. opener = NoWebState \/ opener \in InList
  BY DEF AppendWebState
<1>2. determined \in Int
  <2> DEFINE opener_index == GetIndexOfWebState(opener)
             child == GetIndexOfLastWebStateOpenedBy(opener, opener_index, TRUE)
  <2>1. opener_index \in Int
    BY <1>0, IndexOfRange DEF IndInv, Indices, kInvalidIndex
  <2>2. child \in Int
    <3> HIDE DEF opener_index
    <3> DEFINE n == count + 1
               found == GetIndexOfNthWebStateOpenedBy(opener, opener_index, TRUE, n)
    <3>1. child = found
      BY DEF GetIndexOfLastWebStateOpenedBy
    <3>2. TypeOK
      BY DEF IndInv
    <3> HIDE DEF n
    <3>3. found = kInvalidIndex \/ found \in opener_index + 1 .. count - 1
      BY <2>1, <3>2, OpenedByRange
    <3> HIDE DEF child, found
    <3> QED  BY <1>0, <2>1, <3>1, <3>3 DEF kInvalidIndex
  <2>3. determined = IF opener = NoWebState \/ ~ is_link THEN count
                     ELSE (IF child # kInvalidIndex THEN child ELSE opener_index) + 1
    BY DEF DetermineInsertionIndex
  <2> HIDE DEF opener_index, child, determined
  <2> QED  BY <1>0, <2>1, <2>2, <2>3
<1>3. /\ wrapper \in WebStateWrapper /\ wrapper.opener = opener
      /\ wrapper.opener = NoWebState => wrapper.navigation_index = -1
  <2>1. /\ WebStateOpener(opener).opener = opener
        /\ WebStateOpener(opener).navigation_index \in NavigationIndices
    BY <1>1, ConstructorTypes DEF IndInv
  <2>2. wrapper \in WebStateWrapper /\ wrapper.opener = opener
        /\ wrapper.navigation_index = WebStateOpener(opener).navigation_index
    BY <2>1 DEF WithOpener, NewWrapper, WebStateWrapper
  <2>3. opener = NoWebState => WebStateOpener(opener).navigation_index = -1
    BY DEF WebStateOpener
  <2> QED  BY <2>2, <2>3
<1>4. InsertWrapperAt(index, wrapper)
  BY DEF AppendWebState
<1> HIDE DEF determined, wrapper
<1>5. index \in 0 .. count
  BY <1>0, <1>2
<1> HIDE DEF index
<1> QED  BY <1>1, <1>3, <1>4, <1>5

\* Every step of the list preserves the invariant.
LEMMA NextIndInv == IndInv /\ [Next]_vars => IndInv'
<1> SUFFICES ASSUME IndInv, [Next]_vars PROVE IndInv'
  OBVIOUS
<1> USE DEF Indices
<1>1. /\ count \in Nat /\ count = Len(wrappers)
      /\ \A p \in 1 .. count : wrappers[p].web_state \in InList
      /\ active_index \in -1 .. count - 1
      /\ InList \subseteq WebStates
  BY ListFacts
<1>2. ASSUME NEW web_state \in WebStates, NEW index \in 0 .. count,
             InsertWebState(index, web_state)
      PROVE  IndInv'
  <2>1. NewWrapper(web_state) \in WebStateWrapper /\ NewWrapper(web_state).opener = NoWebState
    BY ConstructorTypes DEF IndInv, NewWrapper
  <2>2. InsertWrapperAt(index, NewWrapper(web_state))
    BY <1>2 DEF InsertWebState
  <2> QED  BY <2>1, <2>2, InsertKeepsIndInv
<1>3. ASSUME NEW web_state \in WebStates, NEW is_link \in BOOLEAN,
             NEW opener \in WebStates \cup {NoWebState},
             AppendWebState(is_link, web_state, opener)
      PROVE  IndInv'
  BY <1>3, AppendInserts, InsertKeepsIndInv
<1>4. ASSUME NEW web_state \in WebStates, NEW index \in Indices,
             ReplaceWebStateAt(index, web_state)
      PROVE  IndInv'
  BY <1>4, ReplaceKeepsIndInv
<1>5. ASSUME NEW web_state \in WebStates, NEW navigation_index \in 0 .. MaxItems - 1,
             Navigate(web_state, navigation_index)
      PROVE  IndInv'
  <2>1. navigation_index \in NavigationIndices
    BY WebStateListAssumption DEF NavigationIndices
  <2>2. notified' = << >> /\ << >> \in Seq(Notification)
    BY <1>5, EmptySeq DEF Navigate
  <2>3. TypeOK'
    BY <1>5, <2>1, <2>2 DEF Navigate, IndInv, TypeOK
  <2> QED
    BY <1>5, <2>3 DEF Navigate, IndInv, ActiveIndexValid, ContainsIndex, count,
                      OpenersInList, ParentedOnce, NoDuplicates, InList
<1>6. ASSUME NEW index \in Indices,
             NEW opener \in [opener : WebStates, navigation_index : NavigationIndices],
             SetOpenerOfWebStateAt(index, opener)
      PROVE  IndInv'
  BY <1>6, SetOpenerKeepsIndInv
<1>7. ASSUME NEW index \in Indices, NEW to_index \in Indices,
             MoveWebStateAt(index, to_index)
      PROVE  IndInv'
  BY <1>7, MoveKeepsIndInv
<1>8. ASSUME NEW index \in Indices, DetachWebStateAt(index)
      PROVE  IndInv'
  <2>1. /\ DetachWrapperAt(index, << >>)
        /\ last_committed' \in [WebStates -> NavigationIndices]
        /\ closing_all' = FALSE
    BY <1>8 DEF DetachWebStateAt, IndInv, TypeOK
  <2>2. << >> \in Seq(Notification)
    BY EmptySeq
  <2> QED  BY <2>1, <2>2, DetachKeepsIndInv
<1>9. ASSUME NEW index \in Indices, CloseWebStateAt(index)
      PROVE  IndInv'
  BY <1>9, CloseKeepsIndInv DEF CloseWebStateAt, IndInv, TypeOK
<1>10. ASSUME NEW index \in Indices, ActivateWebStateAt(index)
       PROVE  IndInv'
  <2>1. index \in Int /\ index + 1 \in 1 .. count
    BY <1>1
  <2>2. NotifyActivated(GetWebStateAt(index), index, TRUE) \in Notification
    BY <1>1, <2>1 DEF NotifyActivated, Notification, GetWebStateAt
  <2>3. notified' \in Seq(Notification)
    <3> DEFINE note == NotifyActivated(GetWebStateAt(index), index, TRUE)
    <3>1. notified' = << >> \/ notified' = <<note>>
      BY <1>10 DEF ActivateWebStateAt
    <3>2. note \in Notification
      BY <2>2
    <3> HIDE DEF note
    <3>3. <<note>> \in Seq(Notification)
      BY <3>2
    <3> QED  BY <3>1, <3>3, EmptySeq
  <2>4. TypeOK'
    BY <1>10, <2>1, <2>3 DEF ActivateWebStateAt, IndInv, TypeOK
  <2> QED
    BY <1>10, <2>4 DEF ActivateWebStateAt, IndInv, ActiveIndexValid, ContainsIndex, count,
                       OpenersInList, ParentedOnce, NoDuplicates, InList
<1>11. CASE CloseAllWebStates
  <2>1. wrappers # << >>
    BY <1>1, <1>11 DEF CloseAllWebStates
  <2>2. TypeOK'
    BY <1>11, EmptySeq DEF CloseAllWebStates, IndInv, TypeOK
  <2> QED
    BY <1>11, <2>1, <2>2 DEF CloseAllWebStates, IndInv, ActiveIndexValid, ContainsIndex,
                             count, OpenersInList, ParentedOnce, NoDuplicates, InList
<1>12. CASE CloseAllStep
  <2>1. count > 0
    BY <1>1, <1>12 DEF CloseAllStep, IndInv, TypeOK
  <2> DEFINE last == count - 1
  <2>2. last \in Indices
    BY <1>1, <2>1
  <2>3. CloseWrapperAt(last) /\ closing_all' = (count > 1)
    BY <1>12 DEF CloseAllStep
  <2>4. closing_all' \in BOOLEAN /\ (closing_all' => count > 1)
    <3> DEFINE more == count > 1
    <3>1. more \in BOOLEAN /\ (more => count > 1)
      OBVIOUS
    <3>2. closing_all' = more
      BY <2>3
    <3> HIDE DEF more
    <3> QED  BY <3>1, <3>2
  <2> HIDE DEF last
  <2> QED  BY <2>2, <2>3, <2>4, CloseKeepsIndInv
<1>13. CASE UNCHANGED vars
  BY <1>13 DEF vars, IndInv, TypeOK, ActiveIndexValid, ContainsIndex, count,
               OpenersInList, ParentedOnce, NoDuplicates, InList
<1> QED
  BY <1>2, <1>3, <1>4, <1>5, <1>6, <1>7, <1>8, <1>9, <1>10, <1>11, <1>12, <1>13 DEF Next

-----------------------------------------------------------------------------
(* The theorems.                                                           *)

\* Every reachable state satisfies the inductive invariant.
THEOREM Invariance == Spec => []IndInv
BY InitIndInv, NextIndInv, PTL DEF Spec

\* Type correctness of the tab list, for any set of WebStates.
THEOREM TypeCorrect == Spec => []TypeOK
<1>1. IndInv => TypeOK
  BY DEF IndInv
<1> QED  BY <1>1, Invariance, PTL

\* GetActiveWebState() never reads outside the vector of wrappers.
THEOREM ActiveIndexAlwaysValid == Spec => []ActiveIndexValid
<1>1. IndInv => ActiveIndexValid
  BY DEF IndInv
<1> QED  BY <1>1, Invariance, PTL

\* An opener is always another WebState of the list: no dangling pointer.
THEOREM OpenersAlwaysInList == Spec => []OpenersInList
<1>1. IndInv => OpenersInList
  BY DEF IndInv
<1> QED  BY <1>1, Invariance, PTL

\* A Tab is parented exactly while its WebState is in the list.
THEOREM AlwaysParentedOnce == Spec => []ParentedOnce
<1>1. IndInv => ParentedOnce
  BY DEF IndInv
<1> QED  BY <1>1, Invariance, PTL

\* Removing a WebState keeps a selection unless the list becomes empty.
LEMMA DetachKeepsSelection ==
    ASSUME IndInv, NEW index \in Indices, NEW then, DetachWrapperAt(index, then),
           active_index # kInvalidIndex, wrappers' # << >>
    PROVE  active_index' # kInvalidIndex
<1> DEFINE cleared == ClearOpenersReferencing(wrappers, GetWebStateAt(index))
           i == index + 1
<1>1. count \in Nat /\ count = Len(wrappers)
  BY ListFacts
<1>2. cleared \in Seq(WebStateWrapper) /\ Len(cleared) = count
  BY <1>1, ClearOpenersProperties DEF IndInv
<1>3. i \in 1 .. Len(cleared)
  BY <1>1, <1>2 DEF Indices
<1>4. wrappers' = RemoveAt(cleared, i) /\ active_index' = ActiveIndexAfterDetach(index)
  BY DEF DetachWrapperAt
<1> HIDE DEF cleared, i
<1>5. wrappers' \in Seq(WebStateWrapper) /\ Len(wrappers') = Len(cleared) - 1
  BY <1>2, <1>3, <1>4, RemoveAtProperties, SMTT(60)
<1>6. count > 1
  BY <1>1, <1>2, <1>5, EmptySeq
<1> QED  BY <1>4, <1>6, ActiveIndexAfterDetachRange

\* No step deselects: the order controller always finds a successor for the
\* active tab it removes.
THEOREM SelectionAlwaysKept == Spec => SelectionKept
<1> DEFINE Kept == active_index # kInvalidIndex /\ wrappers' # << >>
                       => active_index' # kInvalidIndex
<1>1. IndInv /\ [Next]_vars => [Kept]_vars
  <2> SUFFICES ASSUME IndInv, Next, active_index # kInvalidIndex, wrappers' # << >>
               PROVE  active_index' # kInvalidIndex
    BY DEF vars
  <2>1. count \in Nat /\ active_index \in 0 .. count - 1
    BY ListFacts DEF kInvalidIndex
  <2>2. ASSUME NEW index, NEW wrapper, InsertWrapperAt(index, wrapper)
        PROVE  active_index' # kInvalidIndex
    BY <2>1, <2>2 DEF InsertWrapperAt, kInvalidIndex
  <2>3. ASSUME NEW index \in Indices, NEW to_index \in Indices,
               MoveWebStateAt(index, to_index)
        PROVE  active_index' # kInvalidIndex
    <3>1. index \in 0 .. count - 1 /\ to_index \in 0 .. count - 1 /\ index # to_index
      BY <2>1, <2>3 DEF Indices, MoveWebStateAt
    <3> QED  BY <2>1, <2>3, <3>1 DEF MoveWebStateAt, kInvalidIndex
  <2>4. ASSUME NEW index \in Indices, NEW then, DetachWrapperAt(index, then)
        PROVE  active_index' # kInvalidIndex
    BY <2>4, DetachKeepsSelection
  <2>5. ASSUME NEW index \in Indices, CloseWrapperAt(index)
        PROVE  active_index' # kInvalidIndex
    BY <2>4, <2>5 DEF CloseWrapperAt
  <2>6. CASE CloseAllStep
    <3> DEFINE last == count - 1
    <3>1. CloseWrapperAt(last)
      BY <2>6 DEF CloseAllStep
    <3>2. last \in Indices
      BY <2>1 DEF Indices
    <3> HIDE DEF last
    <3> QED  BY <2>5, <3>1, <3>2
  <2>7. CASE CloseAllWebStates
    BY <2>7 DEF CloseAllWebStates
  <2>8. ASSUME NEW index \in Indices, ActivateWebStateAt(index)
        PROVE  active_index' # kInvalidIndex
    BY <2>1, <2>8 DEF ActivateWebStateAt, Indices, kInvalidIndex
  <2> QED
    BY <2>2, <2>3, <2>4, <2>5, <2>6, <2>7, <2>8
       DEF Next, InsertWebState, AppendWebState, ReplaceWebStateAt, Navigate,
           SetOpenerOfWebStateAt, DetachWebStateAt, CloseWebStateAt
<1> QED  BY <1>1, Invariance, PTL DEF Spec, SelectionKept

-----------------------------------------------------------------------------
(* The active WebState.                                                    *)

\* A change of the active WebState is announced: an observer of activations
\* and replacements knows which one is active.
Announced ==
    GetActiveWebState' # GetActiveWebState =>
        \E i \in 1 .. Len(notified') :
            /\ notified'[i].event \in {"activated", "replaced"}
            /\ notified'[i].web_state = GetActiveWebState'
            /\ notified'[i].index = active_index'

\* An insertion leaves the active WebState active.
LEMMA InsertKeepsActive ==
    ASSUME IndInv, NEW index \in 0 .. count, NEW wrapper \in WebStateWrapper,
           InsertWrapperAt(index, wrapper)
    PROVE  GetActiveWebState' = GetActiveWebState
<1> DEFINE i == index + 1
<1>1. /\ count \in Nat /\ count = Len(wrappers)
      /\ wrappers \in Seq(WebStateWrapper) /\ active_index \in -1 .. count - 1
  BY ListFacts
<1>2. i \in 1 .. Len(wrappers) + 1
  BY <1>1
<1>3. /\ wrappers' = InsertAt(wrappers, i, wrapper)
      /\ active_index' = IF active_index >= index THEN active_index + 1 ELSE active_index
  BY DEF InsertWrapperAt
<1> HIDE DEF i
<1>4. \A j \in 1 .. Len(wrappers) + 1 :
          wrappers'[j] = IF j < i THEN wrappers[j] ELSE IF j = i THEN wrapper ELSE wrappers[j - 1]
  BY <1>1, <1>2, <1>3, InsertAtProperties, SMTT(60)
<1>5. active_index # -1 => wrappers'[active_index' + 1] = wrappers[active_index + 1]
  BY <1>1, <1>3, <1>4 DEF i
<1>6. active_index' = -1 <=> active_index = -1
  BY <1>1, <1>3
<1> QED  BY <1>5, <1>6 DEF GetActiveWebState, GetWebStateAt, kInvalidIndex

\* Moving a WebState, the active one or another, leaves the active one active.
LEMMA MoveKeepsActive ==
    ASSUME IndInv, NEW from \in Indices, NEW to \in Indices, MoveWebStateAt(from, to)
    PROVE  GetActiveWebState' = GetActiveWebState
<1> DEFINE i == from + 1
           k == to + 1
           moved == wrappers[i]
           erased == RemoveAt(wrappers, i)
<1>1. /\ count \in Nat /\ count = Len(wrappers)
      /\ wrappers \in Seq(WebStateWrapper) /\ active_index \in -1 .. count - 1
      /\ \A p \in 1 .. count : wrappers[p] \in WebStateWrapper
  BY ListFacts
<1>2. /\ from \in 0 .. count - 1 /\ to \in 0 .. count - 1
      /\ i \in 1 .. Len(wrappers) /\ k \in 1 .. Len(wrappers)
  BY <1>1 DEF Indices
<1>3. wrappers' = InsertAt(erased, k, moved)
  BY DEF MoveWebStateAt
<1>4. moved \in WebStateWrapper
  BY <1>1, <1>2
<1> HIDE DEF i, k, moved
<1>5. /\ erased \in Seq(WebStateWrapper) /\ Len(erased) = Len(wrappers) - 1
      /\ \A j \in 1 .. Len(wrappers) - 1 :
             erased[j] = IF j < i THEN wrappers[j] ELSE wrappers[j + 1]
  <2>1. wrappers \in Seq(WebStateWrapper) /\ i \in 1 .. Len(wrappers)
    BY <1>1, <1>2
  <2> QED  BY <2>1, RemoveAtProperties, Zenon
<1> HIDE DEF erased
<1>6. k \in 1 .. Len(erased) + 1 /\ Len(erased) + 1 = count
  BY <1>1, <1>2, <1>5
<1>7. \A j \in 1 .. Len(erased) + 1 :
          wrappers'[j] = IF j < k THEN erased[j] ELSE IF j = k THEN moved ELSE erased[j - 1]
  <2>1. erased \in Seq(WebStateWrapper)
    BY <1>5
  <2>2. \A j \in 1 .. Len(erased) + 1 :
            InsertAt(erased, k, moved)[j] =
                IF j < k THEN erased[j] ELSE IF j = k THEN moved ELSE erased[j - 1]
    <3>1. k \in 1 .. Len(erased) + 1
      BY <1>6
    <3> QED  BY <1>4, <2>1, <3>1, InsertAtProperties, SMTT(60)
  <2> QED  BY <1>3, <2>2
<1>8. active_index' = IF active_index = from THEN to
                      ELSE IF from < to
                      THEN (IF from <= active_index /\ active_index <= to
                            THEN active_index - 1 ELSE active_index)
                      ELSE (IF to <= active_index /\ active_index <= from
                            THEN active_index + 1 ELSE active_index)
  BY <1>1, <1>2 DEF MoveWebStateAt
<1>9. active_index' = -1 <=> active_index = -1
  BY <1>1, <1>2, <1>8
<1>10. ASSUME active_index # -1
       PROVE  wrappers'[active_index' + 1] = wrappers[active_index + 1]
  <2>1. active_index \in 0 .. count - 1 /\ active_index' \in 0 .. count - 1
    BY <1>1, <1>2, <1>8, <1>10
  <2>2. CASE active_index = from
    BY <1>2, <1>6, <1>7, <1>8, <2>2 DEF i, k, moved
  <2>3. CASE active_index # from
    <3> DEFINE p == active_index + 1
               q == active_index' + 1
    <3>1. q # k /\ q \in 1 .. count /\ p # i
      BY <1>1, <1>2, <1>8, <2>1, <2>3 DEF i, k
    <3>2. CASE q < k
      <4>0. q \in 1 .. count - 1 /\ q \in 1 .. Len(erased) + 1
        BY <1>1, <1>2, <1>6, <3>1, <3>2
      <4>1. wrappers'[q] = erased[q] /\ q \in 1 .. count - 1
        BY <1>7, <3>2, <4>0
      <4>2. IF q < i THEN q = p ELSE q + 1 = p
        BY <1>2, <1>8, <2>1, <2>3, <3>2 DEF i, k
      <4>3. erased[q] = IF q < i THEN wrappers[q] ELSE wrappers[q + 1]
        BY <1>1, <1>5, <4>1
      <4> QED  BY <4>1, <4>2, <4>3
    <3>3. CASE q > k
      <4>0. /\ q - 1 \in 1 .. count - 1 /\ q \in 1 .. Len(erased) + 1
            /\ ~ (q < k) /\ q # k
        BY <1>1, <1>2, <1>6, <3>1, <3>3
      <4>1. wrappers'[q] = erased[q - 1]
        BY <1>7, <4>0
      <4>2. IF q - 1 < i THEN q - 1 = p ELSE q = p
        BY <1>2, <1>8, <2>1, <2>3, <3>3 DEF i, k
      <4>3. erased[q - 1] = IF q - 1 < i THEN wrappers[q - 1] ELSE wrappers[(q - 1) + 1]
        BY <1>1, <1>5, <4>0
      <4>4. (q - 1) + 1 = q
        BY <3>1
      <4> QED  BY <4>1, <4>2, <4>3, <4>4
    <3>4. q < k \/ q > k
      BY <1>1, <1>2, <3>1
    <3> QED  BY <3>2, <3>3, <3>4
  <2> QED  BY <2>2, <2>3
<1> QED  BY <1>9, <1>10 DEF GetActiveWebState, GetWebStateAt, kInvalidIndex

\* A removal leaves it active, or announces its successor.
LEMMA DetachAnnounces ==
    ASSUME IndInv, NEW index \in Indices, NEW then \in Seq(Notification),
           DetachWrapperAt(index, then)
    PROVE  Announced
<1> DEFINE cleared == ClearOpenersReferencing(wrappers, GetWebStateAt(index))
           i == index + 1
           rest == RemoveAt(cleared, i)
           new == ActiveIndexAfterDetach(index)
<1>1. /\ count \in Nat /\ count = Len(wrappers)
      /\ wrappers \in Seq(WebStateWrapper) /\ active_index \in -1 .. count - 1
  BY ListFacts
<1>2. /\ cleared \in Seq(WebStateWrapper) /\ Len(cleared) = count
      /\ \A p \in 1 .. count : cleared[p].web_state = wrappers[p].web_state
  BY <1>1, ClearOpenersProperties DEF IndInv
<1>3. i \in 1 .. Len(cleared) /\ index \in 0 .. count - 1
  BY <1>1, <1>2 DEF Indices
<1>4. /\ wrappers' = rest /\ active_index' = new
      /\ GetActiveWebState' = IF new = kInvalidIndex THEN NoWebState
                              ELSE rest[new + 1].web_state
  BY DEF DetachWrapperAt, GetActiveWebState, GetWebStateAt
<1>5. CASE index = active_index
  <2> DEFINE first == Notify("will_detach", GetWebStateAt(index), index, active_index)
             second == Notify("detached", GetWebStateAt(index), index, new)
             third == NotifyActivated(GetActiveWebState', new, FALSE)
  <2>1. notified' = (<<first, second>> \o <<third>>) \o then
    BY <1>4, <1>5 DEF DetachWrapperAt
  <2>2. third.event = "activated" /\ third.web_state = GetActiveWebState'
        /\ third.index = active_index'
    BY <1>4 DEF NotifyActivated
  <2> HIDE DEF first, second, third
  <2>3. notified' = <<first, second, third>> \o then
    BY <2>1
  <2>4. Len(then) \in Nat
    BY LenProperties
  <2>5. 3 \in 1 .. Len(notified') /\ notified'[3] = third
    BY <2>3, <2>4
  <2> QED  BY <2>2, <2>5 DEF Announced
<1>6. CASE index # active_index
  <2>1. new = IF active_index > index THEN active_index - 1 ELSE active_index
    BY <1>1, <1>3, <1>6 DEF ActiveIndexAfterDetach
  <2> HIDE DEF cleared, i, new
  <2>2. \A j \in 1 .. Len(cleared) - 1 :
            rest[j] = IF j < i THEN cleared[j] ELSE cleared[j + 1]
    BY <1>2, <1>3, RemoveAtProperties, ZenonT(60)
  <2> HIDE DEF rest
  <2>3. new = -1 <=> active_index = -1
    BY <1>1, <1>3, <2>1
  <2>4. ASSUME active_index # -1
        PROVE  rest[new + 1].web_state = wrappers[active_index + 1].web_state
    <3>1. new + 1 \in 1 .. Len(cleared) - 1 /\ active_index + 1 \in 1 .. count
      BY <1>1, <1>2, <1>3, <1>6, <2>1, <2>4
    <3>2. rest[new + 1] = cleared[active_index + 1]
      BY <1>1, <1>2, <1>3, <1>6, <2>1, <2>2, <3>1 DEF i
    <3> QED  BY <1>2, <3>1, <3>2
  <2>5. GetActiveWebState' = GetActiveWebState
    BY <1>4, <2>3, <2>4 DEF GetActiveWebState, GetWebStateAt, kInvalidIndex
  <2> QED  BY <2>5 DEF Announced
<1> QED  BY <1>5, <1>6

\* So does a close, which notifies once more.
LEMMA CloseAnnounces ==
    ASSUME IndInv, NEW index \in Indices, CloseWrapperAt(index)
    PROVE  Announced
<1> DEFINE note == Notify("will_close", GetWebStateAt(index), index,
                          ActiveIndexAfterDetach(index))
<1>1. /\ count \in Nat /\ index \in 0 .. count - 1
      /\ \A p \in 1 .. count : wrappers[p].web_state \in WebStates
  BY ListFacts DEF Indices
<1>2. GetWebStateAt(index) \in WebStates /\ ActiveIndexAfterDetach(index) \in Int
  BY <1>1, ActiveIndexAfterDetachRange DEF GetWebStateAt
<1>3. note \in Notification
  BY <1>1, <1>2 DEF Notify, Notification
<1>4. DetachWrapperAt(index, <<note>>)
  BY DEF CloseWrapperAt
<1> HIDE DEF note
<1>5. <<note>> \in Seq(Notification)
  BY <1>3
<1> QED  BY <1>4, <1>5, DetachAnnounces

\* A replacement of the active WebState is its own announcement.
LEMMA ReplaceAnnounces ==
    ASSUME IndInv, NEW index \in Indices, NEW web_state \in WebStates,
           ReplaceWebStateAt(index, web_state)
    PROVE  Announced
<1> DEFINE cleared == ClearOpenersReferencing(wrappers, GetWebStateAt(index))
<1>1. /\ count \in Nat /\ count = Len(wrappers) /\ active_index \in -1 .. count - 1
      /\ index \in 0 .. count - 1
  BY ListFacts DEF Indices
<1>2. /\ cleared \in Seq(WebStateWrapper) /\ Len(cleared) = count
      /\ \A p \in 1 .. count : cleared[p].web_state = wrappers[p].web_state
  BY <1>1, ClearOpenersProperties DEF IndInv
<1>3. /\ wrappers' = [cleared EXCEPT ![index + 1] = NewWrapper(web_state)]
      /\ active_index' = active_index
      /\ notified' = <<Notify("replaced", web_state, index, active_index)>>
  BY DEF ReplaceWebStateAt
<1> HIDE DEF cleared
<1>4. /\ wrappers'[index + 1] = NewWrapper(web_state)
      /\ \A p \in 1 .. count : p # index + 1 => wrappers'[p] = cleared[p]
  BY <1>1, <1>2, <1>3
<1>5. CASE index = active_index
  <2>1. GetActiveWebState' = web_state
    BY <1>1, <1>3, <1>4, <1>5 DEF GetActiveWebState, GetWebStateAt, NewWrapper, kInvalidIndex
  <2>2. /\ 1 \in 1 .. Len(notified') /\ notified'[1].event = "replaced"
        /\ notified'[1].web_state = web_state /\ notified'[1].index = active_index'
    BY <1>3, <1>5 DEF Notify
  <2> QED  BY <2>1, <2>2 DEF Announced
<1>6. CASE index # active_index
  <2>1. active_index # -1 =>
            wrappers'[active_index + 1].web_state = wrappers[active_index + 1].web_state
    BY <1>1, <1>2, <1>4, <1>6
  <2>2. GetActiveWebState' = GetActiveWebState
    BY <1>3, <2>1 DEF GetActiveWebState, GetWebStateAt, kInvalidIndex
  <2> QED  BY <2>2 DEF Announced
<1> QED  BY <1>5, <1>6

\* Giving a WebState an opener does not touch the selection.
LEMMA SetOpenerKeepsActive ==
    ASSUME IndInv, NEW index \in Indices,
           NEW opener \in [opener : WebStates, navigation_index : NavigationIndices],
           SetOpenerOfWebStateAt(index, opener)
    PROVE  GetActiveWebState' = GetActiveWebState
<1>1. /\ count \in Nat /\ count = Len(wrappers) /\ active_index \in -1 .. count - 1
      /\ index \in 0 .. count - 1 /\ wrappers \in Seq(WebStateWrapper)
  BY ListFacts DEF Indices
<1>2. /\ wrappers' = [wrappers EXCEPT ![index + 1] = WithOpener(wrappers[index + 1], opener)]
      /\ active_index' = active_index
  BY DEF SetOpenerOfWebStateAt
<1>3. \A p \in 1 .. count : wrappers'[p].web_state = wrappers[p].web_state
  BY <1>1, <1>2 DEF WithOpener
<1> QED  BY <1>1, <1>2, <1>3 DEF GetActiveWebState, GetWebStateAt, kInvalidIndex

\* The active WebState never changes unannounced: an observer of activations and
\* replacements, such as the bridge's, always knows it.
THEOREM ActiveChangeAlwaysNotified == Spec => ActiveChangeNotified
<1>1. IndInv /\ [Next]_vars => [Announced]_vars
  <2> SUFFICES ASSUME IndInv, Next PROVE Announced
    OBVIOUS
  <2>1. ASSUME GetActiveWebState' = GetActiveWebState PROVE Announced
    BY <2>1 DEF Announced
  <2>2. ASSUME NEW web_state \in WebStates, NEW index \in 0 .. count,
               InsertWebState(index, web_state)
        PROVE  Announced
    <3>1. NewWrapper(web_state) \in WebStateWrapper
      BY ConstructorTypes DEF IndInv
    <3>2. InsertWrapperAt(index, NewWrapper(web_state))
      BY <2>2 DEF InsertWebState
    <3> QED  BY <2>1, <3>1, <3>2, InsertKeepsActive
  <2>3. ASSUME NEW web_state \in WebStates, NEW is_link \in BOOLEAN,
               NEW opener \in WebStates \cup {NoWebState},
               AppendWebState(is_link, web_state, opener)
        PROVE  Announced
    BY <2>1, <2>3, AppendInserts, InsertKeepsActive
  <2>4. ASSUME NEW web_state \in WebStates, NEW index \in Indices,
               ReplaceWebStateAt(index, web_state)
        PROVE  Announced
    BY <2>4, ReplaceAnnounces
  <2>5. ASSUME NEW web_state \in WebStates, NEW navigation_index,
               Navigate(web_state, navigation_index)
        PROVE  Announced
    BY <2>1, <2>5 DEF Navigate, GetActiveWebState, GetWebStateAt
  <2>6. ASSUME NEW index \in Indices,
               NEW opener \in [opener : WebStates, navigation_index : NavigationIndices],
               SetOpenerOfWebStateAt(index, opener)
        PROVE  Announced
    BY <2>1, <2>6, SetOpenerKeepsActive
  <2>7. ASSUME NEW index \in Indices, NEW to_index \in Indices,
               MoveWebStateAt(index, to_index)
        PROVE  Announced
    BY <2>1, <2>7, MoveKeepsActive
  <2>8. ASSUME NEW index \in Indices, DetachWebStateAt(index) PROVE Announced
    <3>1. DetachWrapperAt(index, << >>) /\ << >> \in Seq(Notification)
      BY <2>8, EmptySeq DEF DetachWebStateAt
    <3> QED  BY <3>1, DetachAnnounces
  <2>9. ASSUME NEW index \in Indices, CloseWebStateAt(index) PROVE Announced
    BY <2>9, CloseAnnounces DEF CloseWebStateAt
  <2>10. ASSUME NEW index \in Indices, ActivateWebStateAt(index) PROVE Announced
    <3>1. count \in Nat /\ index \in 0 .. count - 1
      BY ListFacts DEF Indices
    <3>2. GetActiveWebState' = GetWebStateAt(index) /\ active_index' = index
      BY <2>10, <3>1 DEF ActivateWebStateAt, GetActiveWebState, GetWebStateAt, kInvalidIndex
    <3>3. CASE GetWebStateAt(index) = GetActiveWebState
      BY <2>1, <3>2, <3>3
    <3>4. CASE GetWebStateAt(index) # GetActiveWebState
      <4>1. notified' = <<NotifyActivated(GetWebStateAt(index), index, TRUE)>>
        BY <2>10, <3>4 DEF ActivateWebStateAt
      <4>2. /\ 1 \in 1 .. Len(notified') /\ notified'[1].event = "activated"
            /\ notified'[1].web_state = GetWebStateAt(index) /\ notified'[1].index = index
        BY <4>1 DEF NotifyActivated
      <4> QED  BY <3>2, <4>2 DEF Announced
    <3> QED  BY <3>3, <3>4
  <2>11. CASE CloseAllWebStates
    BY <2>1, <2>11 DEF CloseAllWebStates, GetActiveWebState, GetWebStateAt
  <2>12. CASE CloseAllStep
    <3> DEFINE last == count - 1
    <3>1. count \in Nat /\ count > 0
      BY <2>12, ListFacts DEF CloseAllStep, IndInv, TypeOK
    <3>2. last \in Indices
      BY <3>1 DEF Indices
    <3>3. CloseWrapperAt(last)
      BY <2>12 DEF CloseAllStep
    <3> HIDE DEF last
    <3> QED  BY <3>2, <3>3, CloseAnnounces
  <2> QED
    BY <2>2, <2>3, <2>4, <2>5, <2>6, <2>7, <2>8, <2>9, <2>10, <2>11, <2>12 DEF Next
<1>2. [][Announced]_vars <=> ActiveChangeNotified
  BY DEF Announced, ActiveChangeNotified
<1> QED  BY <1>1, <1>2, Invariance, PTL DEF Spec

-----------------------------------------------------------------------------
(* Groups of tabs.                                                         *)

\* The last tab of the run opened from the opener's current page, or the opener
\* itself when the run is empty: what follows it does not belong to the run.
LEMMA LastOfGroup ==
    ASSUME IndInv, NEW opener, opener # NoWebState, NEW start \in Indices
    PROVE  LET child == GetIndexOfLastWebStateOpenedBy(opener, start, TRUE)
               last  == IF child # kInvalidIndex THEN child ELSE start
           IN  /\ last \in start .. count - 1
               /\ last # start => WasOpenedBy(last, opener, TRUE)
               /\ last < count - 1 => ~ WasOpenedBy(last + 1, opener, TRUE)
<1> DEFINE n == count + 1
           P(index) == IsNthOpenedBy(index, opener, start, TRUE, n)
           In(index) == WasOpenedBy(index, opener, TRUE)
           child == GetIndexOfLastWebStateOpenedBy(opener, start, TRUE)
           last  == IF child # kInvalidIndex THEN child ELSE start
<1> SUFFICES /\ last \in start .. count - 1
             /\ last # start => In(last)
             /\ last < count - 1 => ~ In(last + 1)
  OBVIOUS
<1>1. count \in Nat /\ start \in Int /\ 0 <= start /\ start < count
  BY ListFacts DEF Indices
<1>2. ContainsIndex(start)
  BY <1>1 DEF ContainsIndex
<1>3. \A index : P(index) <=>
         \E first \in start + 1 .. index :
            /\ \A i \in start + 1 .. first - 1 : ~ In(i)
            /\ \A i \in first .. index : In(i)
            /\ index - first < n
            /\ index - first = n - 1 \/ index = count - 1 \/ ~ In(index + 1)
  BY DEF IsNthOpenedBy
<1>4. child = IF \E index \in start + 1 .. count - 1 : P(index)
              THEN CHOOSE index \in start + 1 .. count - 1 : P(index)
              ELSE kInvalidIndex
  BY <1>2 DEF GetIndexOfLastWebStateOpenedBy, GetIndexOfNthWebStateOpenedBy
<1> HIDE DEF P, In, child
<1>5. CASE \E index \in start + 1 .. count - 1 : P(index)
  <2>1. child \in start + 1 .. count - 1 /\ P(child)
    BY <1>4, <1>5
  <2>2. PICK first \in start + 1 .. child :
            /\ \A i \in first .. child : In(i)
            /\ child - first = n - 1 \/ child = count - 1 \/ ~ In(child + 1)
    BY <1>3, <2>1
  <2>3. last = child
    BY <1>1, <2>1 DEF kInvalidIndex
  <2>4. In(child) /\ (child = count - 1 \/ ~ In(child + 1))
    BY <1>1, <2>1, <2>2
  <2> HIDE DEF last
  <2> QED  BY <1>1, <2>1, <2>3, <2>4
<1>6. CASE ~ \E index \in start + 1 .. count - 1 : P(index)
  <2>1. last = start
    BY <1>4, <1>6
  <2>2. ASSUME start < count - 1, In(start + 1) PROVE FALSE
    <3> DEFINE S == {i \in start + 1 .. count - 1 : \A j \in start + 1 .. i : In(j)}
               m == Max(S)
               bound == count - 1
    <3>1. start + 1 \in S
      BY <1>1, <2>2
    <3>2. bound \in Int /\ \A x \in S : x \in Int /\ x <= bound
      BY <1>1
    <3>3. m \in S /\ \A y \in S : m >= y
      <4> HIDE DEF S, bound
      <4>1. S \in SUBSET Int /\ S # {}
        BY <3>1, <3>2
      <4> QED  BY <3>2, <4>1, LargestOfBounded
    <3> HIDE DEF m
    <3>4. /\ m \in start + 1 .. count - 1
          /\ \A j \in start + 1 .. m : In(j)
      BY <3>3
    <3>5. m = count - 1 \/ ~ In(m + 1)
      <4> SUFFICES ASSUME m # count - 1, In(m + 1) PROVE FALSE
        OBVIOUS
      <4>1. m + 1 \in start + 1 .. count - 1
        BY <1>1, <3>4
      <4>2. \A j \in start + 1 .. m + 1 : In(j)
        BY <1>1, <3>4
      <4>3. m + 1 \in S
        BY <4>1, <4>2
      <4>4. m >= m + 1
        BY <3>3, <4>3
      <4> QED  BY <1>1, <3>4, <4>4
    <3>6. P(m)
      <4> DEFINE first == start + 1
      <4>1. first \in start + 1 .. m
        BY <1>1, <3>4
      <4>2. \A i \in start + 1 .. first - 1 : ~ In(i)
        BY <1>1
      <4>3. \A i \in first .. m : In(i)
        BY <3>4
      <4>4. m - first < n
        BY <1>1, <3>4
      <4> HIDE DEF first
      <4> QED  BY <1>3, <3>5, <4>1, <4>2, <4>3, <4>4
    <3> QED  BY <1>6, <3>4, <3>6
  <2> HIDE DEF last
  <2> QED  BY <1>1, <2>1, <2>2
<1> QED  BY <1>5, <1>6

\* AppendWebState places a tab opened from a link right behind that last tab.
LEMMA LinkInsertedBehindGroup ==
    ASSUME IndInv, NEW web_state \in WebStates, NEW opener \in InList,
           AppendWebState(TRUE, web_state, opener)
    PROVE  \E last \in Indices, wrapper \in WebStateWrapper :
               /\ wrapper.web_state = web_state
               /\ InsertWrapperAt(last + 1, wrapper)
               /\ GetWebStateAt(last) = opener \/ WasOpenedBy(last, opener, TRUE)
               /\ last < count - 1 => ~ WasOpenedBy(last + 1, opener, TRUE)
<1> DEFINE start == GetIndexOfWebState(opener)
           child == GetIndexOfLastWebStateOpenedBy(opener, start, TRUE)
           last  == IF child # kInvalidIndex THEN child ELSE start
           determined == DetermineInsertionIndex(TRUE, opener)
           index == IF determined < 0 \/ count < determined THEN count ELSE determined
           wrapper == WithOpener(NewWrapper(web_state), WebStateOpener(opener))
<1>1. count \in Nat /\ InList \subseteq WebStates
  BY ListFacts
<1>2. opener # NoWebState
  BY <1>1, WebStateListAssumption
<1>3. start \in Indices /\ GetWebStateAt(start) = opener
  <2>1. \A i \in Indices : i # kInvalidIndex
    BY <1>1 DEF Indices, kInvalidIndex
  <2> QED  BY <2>1, IndexOfRange DEF IndInv
<1>4. determined = last + 1
  BY <1>2 DEF DetermineInsertionIndex
<1>5. /\ last \in start .. count - 1
      /\ last # start => WasOpenedBy(last, opener, TRUE)
      /\ last < count - 1 => ~ WasOpenedBy(last + 1, opener, TRUE)
  <2> HIDE DEF start
  <2> QED  BY <1>2, <1>3, LastOfGroup
<1>6. InsertWrapperAt(index, wrapper)
  BY DEF AppendWebState
<1>7. wrapper.web_state = web_state
  BY DEF WithOpener, NewWrapper
<1>8. wrapper \in WebStateWrapper
  <2>1. /\ WebStateOpener(opener).opener = opener
        /\ WebStateOpener(opener).navigation_index \in NavigationIndices
    BY ConstructorTypes DEF IndInv
  <2> QED  BY <1>1, <2>1 DEF WithOpener, NewWrapper, WebStateWrapper
<1> HIDE DEF start, last, determined, wrapper
<1>9. index = last + 1 /\ last \in Indices
  BY <1>1, <1>3, <1>4, <1>5 DEF Indices
<1>10. InsertWrapperAt(last + 1, wrapper)
  BY <1>6, <1>9
<1> QED  BY <1>3, <1>5, <1>7, <1>8, <1>9, <1>10

\* A tab opened from a link joins the group of its opener and never splits it, for
\* any list and however the openers have navigated since.
THEOREM NewTabAlwaysJoinsGroup == Spec => NewTabJoinsGroup
<1> DEFINE Joins ==
        \A web_state \in InList' \ InList, opener \in InList :
           LET p == GetIndexOfWebState(web_state)' + 1
               InGroup(w) ==
                   w.opener = opener /\ w.navigation_index = last_committed[opener]
           IN  AppendWebState(TRUE, web_state, opener) =>
                   /\ p > 1
                   /\ wrappers'[p - 1].web_state = opener \/ InGroup(wrappers'[p - 1])
                   /\ p < Len(wrappers') => ~ InGroup(wrappers'[p + 1])
<1>1. IndInv /\ IndInv' /\ [Next]_vars => [Joins]_vars
  <2> SUFFICES ASSUME IndInv, IndInv', NEW web_state \in InList' \ InList,
                      NEW opener \in InList, AppendWebState(TRUE, web_state, opener)
               PROVE  LET p == GetIndexOfWebState(web_state)' + 1
                          InGroup(w) ==
                              w.opener = opener /\ w.navigation_index = last_committed[opener]
                      IN  /\ p > 1
                          /\ wrappers'[p - 1].web_state = opener \/ InGroup(wrappers'[p - 1])
                          /\ p < Len(wrappers') => ~ InGroup(wrappers'[p + 1])
    OBVIOUS
  <2> DEFINE InGroup(w) ==
                 w.opener = opener /\ w.navigation_index = last_committed[opener]
             p == GetIndexOfWebState(web_state)' + 1
  <2>1. /\ count \in Nat /\ count = Len(wrappers)
        /\ wrappers \in Seq(WebStateWrapper)
    BY ListFacts
  <2>2. PICK last \in Indices, wrapper \in WebStateWrapper :
               /\ wrapper.web_state = web_state
               /\ InsertWrapperAt(last + 1, wrapper)
               /\ GetWebStateAt(last) = opener \/ WasOpenedBy(last, opener, TRUE)
               /\ last < count - 1 => ~ WasOpenedBy(last + 1, opener, TRUE)
    <3>1. web_state \in WebStates
      <4>1. PICK q \in 1 .. Len(wrappers') : web_state = wrappers'[q].web_state
        BY DEF InList
      <4>2. wrappers' \in Seq(WebStateWrapper)
        BY DEF IndInv, TypeOK
      <4>3. wrappers'[q] \in WebStateWrapper
        BY <4>2, ElementOfSeq
      <4> QED  BY <4>1, <4>3 DEF WebStateWrapper
    <3> QED  BY <3>1, LinkInsertedBehindGroup
  <2> DEFINE i == last + 2
  <2>3. last \in Int /\ i \in 2 .. count + 1 /\ i = last + 2
    BY <2>1, <2>2 DEF Indices
  <2>4. wrappers' = InsertAt(wrappers, (last + 1) + 1, wrapper) /\ (last + 1) + 1 = i
    BY <2>2, <2>3 DEF InsertWrapperAt
  <2> HIDE DEF i
  <2>5. /\ Len(wrappers') = count + 1
        /\ \A j \in 1 .. count + 1 :
              wrappers'[j] = IF j < i THEN wrappers[j] ELSE IF j = i THEN wrapper
                             ELSE wrappers[j - 1]
    <3>1. wrappers' = InsertAt(wrappers, i, wrapper) /\ i \in 1 .. Len(wrappers) + 1
      BY <2>1, <2>3, <2>4
    <3> QED  BY <2>1, <3>1, InsertAtProperties, SMTT(60)
  <2>6. p = i
    <3> DEFINE k == i - 1
    <3>1. k \in Int /\ k + 1 = i /\ k \in 0 .. count
      BY <2>1, <2>3
    <3> HIDE DEF k
    <3>2. k \in Indices' /\ GetWebStateAt(k)' = web_state
      <4>1. wrappers'[i] = wrapper
        BY <2>1, <2>3, <2>5
      <4> QED  BY <2>1, <2>2, <2>5, <3>1, <4>1 DEF Indices, count, GetWebStateAt
    <3>3. \A x \in Indices' : GetWebStateAt(x)' = web_state => x = k
      <4> SUFFICES ASSUME NEW x \in Indices', GetWebStateAt(x)' = web_state
                   PROVE  x = k
        OBVIOUS
      <4>1. x \in Int /\ x + 1 \in 1 .. Len(wrappers') /\ i \in 1 .. Len(wrappers')
        BY <2>1, <2>3, <2>5 DEF Indices, count
      <4>2. wrappers'[x + 1].web_state = wrappers'[i].web_state
        BY <3>1, <3>2 DEF GetWebStateAt
      <4>3. x + 1 = i
        BY <4>1, <4>2 DEF IndInv, ParentedOnce, NoDuplicates
      <4> QED  BY <2>3, <3>1, <4>1, <4>3
    <3>4. GetIndexOfWebState(web_state)' = k
      BY <3>2, <3>3, Zenon DEF GetIndexOfWebState
    <3> QED  BY <3>1, <3>4
  <2>7. wrappers'[i - 1] = wrappers[last + 1] /\ i - 1 = last + 1
    BY <2>1, <2>3, <2>5
  <2>8. wrappers'[i - 1].web_state = opener \/ InGroup(wrappers'[i - 1])
    BY <2>2, <2>7 DEF GetWebStateAt, WasOpenedBy
  <2>9. i < Len(wrappers') => ~ InGroup(wrappers'[i + 1])
    <3> SUFFICES ASSUME i < Len(wrappers') PROVE ~ InGroup(wrappers'[i + 1])
      OBVIOUS
    <3>1. wrappers'[i + 1] = wrappers[(last + 1) + 1] /\ last < count - 1
      <4>1. i + 1 \in 1 .. count + 1 /\ ~ (i + 1 < i) /\ i + 1 # i /\ (i + 1) - 1 = (last + 1) + 1
        BY <2>1, <2>3, <2>5
      <4> QED  BY <2>1, <2>3, <2>5, <4>1
    <3>2. ~ WasOpenedBy(last + 1, opener, TRUE)
      BY <2>2, <3>1
    <3> QED  BY <3>1, <3>2 DEF WasOpenedBy
  <2> HIDE DEF p
  <2> QED  BY <2>3, <2>6, <2>8, <2>9 DEF p
<1>2. Spec => []IndInv
  BY Invariance
<1> QED  BY <1>1, <1>2, PTL DEF Spec, NewTabJoinsGroup
=============================================================================
