---------------------- MODULE NavigationManagerProofs -----------------------
(***************************************************************************)
(* For every set of URLs and every bound: the session history is well      *)
(* typed, its three indices are in range and at most one navigation is     *)
(* pending.  The three facts are proved together: the range of an index is *)
(* what makes reading and writing an item type-correct, and the bound on   *)
(* the pending index after a commit rests on no history item being pending *)
(* then.  From them: which steps keep the committed page, what a new page  *)
(* leaves of the history, and where the back and forward buttons lead.     *)
(***************************************************************************)
EXTENDS NavigationManager, SequenceLemmas

IndInv == TypeOK /\ IndicesValid /\ OnePendingItem

\* An item of the list, or none, is what ItemAt returns for an index in range.
LEMMA ItemAtType ==
    ASSUME TypeOK, NEW index \in -1 .. Len(items) - 1
    PROVE  /\ ItemAt(index) \in NavigationItem \cup {NoItem}
           /\ index # -1 => ItemAt(index) \in NavigationItem
BY DEF TypeOK, ItemAt

\* What -itemWithURL: builds is an item.
LEMMA ItemWithURLType ==
    ASSUME NEW url \in URLs, NEW transition \in TransitionTypes,
           NEW initiation \in {"NONE", "USER", "RENDERER"}
    PROVE  ItemWithURL(url, transition, initiation) \in NavigationItem
BY DEF ItemWithURL, NavigationItem, UserAgentTypes

\* The three readings of the history are items, or none.
LEMMA AccessorTypes ==
    ASSUME IndInv
    PROVE  /\ LastCommittedItem \in NavigationItem \cup {NoItem}
           /\ PendingItem \in NavigationItem \cup {NoItem}
           /\ CurrentItem \in NavigationItem \cup {NoItem}
           /\ pendingItemIndex # -1 => PendingItem \in NavigationItem
<1>1. Len(items) \in Nat
  BY DEF IndInv, TypeOK
<1>2. LastCommittedItem \in NavigationItem \cup {NoItem}
  BY <1>1, ItemAtType DEF IndInv, IndicesValid, GetItemCount, LastCommittedItem
<1>3. /\ PendingItem \in NavigationItem \cup {NoItem}
      /\ pendingItemIndex # -1 => PendingItem \in NavigationItem
  BY <1>1, ItemAtType DEF IndInv, TypeOK, IndicesValid, GetItemCount, PendingItem
<1> QED
  BY <1>2, <1>3 DEF IndInv, TypeOK, CurrentItem

\* Init is a good start.
LEMMA InitEstablishes == Init => IndInv
<1> SUFFICES ASSUME Init PROVE IndInv
  OBVIOUS
<1>1. transient_url_rewriters \in BOOLEAN /\ interstitial \in BOOLEAN
  BY Zenon DEF Init
<1>2. items \in Seq(NavigationItem) /\ Len(items) = 0
  BY DEF Init
<1> QED
  BY <1>1, <1>2 DEF Init, IndInv, TypeOK, IndicesValid, OnePendingItem, GetItemCount

\* AddPendingItem preserves the invariant whichever item it finds pending.
LEMMA AddPendingItemPreserves ==
    ASSUME IndInv, interstitial' \in BOOLEAN,
           NEW url \in URLs, NEW loaded_url \in URLs, NEW transition \in TransitionTypes,
           NEW initiation \in {"USER", "RENDERER"},
           NEW option \in {"INHERIT", "MOBILE", "DESKTOP"},
           NEW pending \in NavigationItem \cup {NoItem}, NEW is_load \in BOOLEAN,
           AddPendingItem(url, loaded_url, transition, initiation, option, pending, is_load)
    PROVE  IndInv'
<1> DEFINE item == PendingAfterAdd(url, loaded_url, transition, initiation, option, pending)
           agent == [item EXCEPT !.user_agent = UserAgentFor(option, item)]
<1>1. item \in NavigationItem \cup {NoItem}
  BY ItemWithURLType DEF PendingAfterAdd
<1>2. ASSUME item # NoItem PROVE UserAgentFor(option, item) \in UserAgentTypes
  BY <1>1, <1>2, AccessorTypes DEF UserAgentFor, NavigationItem, UserAgentTypes
<1>3. ASSUME item # NoItem PROVE agent \in NavigationItem
  BY <1>1, <1>2, <1>3 DEF NavigationItem
<1>4. ASSUME item # NoItem PROVE MarkHashChange(agent) \in NavigationItem
  <2> HIDE DEF agent
  <2> QED
    BY <1>3, <1>4 DEF MarkHashChange, NavigationItem
<1>5. new_pending' \in NavigationItem \cup {NoItem}
  BY <1>3, <1>4 DEF AddPendingItem
<1>6. transient_url_rewriters' \in BOOLEAN
  BY Zenon DEF AddPendingItem
<1>7. /\ pendingItemIndex' = -1 /\ transientItem' = NoItem
      /\ UNCHANGED <<items, lastCommittedItemIndex, previousItemIndex>>
  BY DEF AddPendingItem
<1> HIDE DEF item, agent
<1>8. Len(items) \in Nat
  BY DEF IndInv, TypeOK
<1> QED
  BY <1>5, <1>6, <1>7, <1>8 DEF IndInv, TypeOK, IndicesValid, OnePendingItem, GetItemCount

\* -updatePendingItem: preserves the invariant.
LEMMA UpdatePendingItemPreserves ==
    ASSUME IndInv, interstitial' \in BOOLEAN, NEW url \in URLs,
           PendingItem # NoItem, UpdatePendingItem(url)
    PROVE  IndInv'
<1>1. Len(items) \in Nat
  BY DEF IndInv, TypeOK
<1>2. transient_url_rewriters' \in BOOLEAN
  BY Zenon DEF UpdatePendingItem, IndInv, TypeOK
<1>3. transientItem' \in NavigationItem \cup {NoItem}
  BY DEF UpdatePendingItem, IndInv, TypeOK
<1>4. /\ UNCHANGED <<lastCommittedItemIndex, previousItemIndex, pendingItemIndex>>
  BY DEF UpdatePendingItem
<1>5. CASE pendingItemIndex = -1
  <2>1. items' = items /\ new_pending' = [new_pending EXCEPT !.url = url]
    BY <1>5 DEF UpdatePendingItem
  <2>2. new_pending' \in NavigationItem
    BY <2>1, <1>5 DEF IndInv, TypeOK, PendingItem, NavigationItem
  <2> QED
    BY <1>1, <1>2, <1>3, <1>4, <1>5, <2>1, <2>2
    DEF IndInv, TypeOK, IndicesValid, OnePendingItem, GetItemCount
<1>6. CASE pendingItemIndex # -1
  <2> DEFINE p == pendingItemIndex + 1
  <2>1. p \in 1 .. Len(items)
    BY <1>1, <1>6 DEF IndInv, IndicesValid, GetItemCount
  <2>2. new_pending' = new_pending /\ items' = [items EXCEPT ![p].url = url]
    BY <1>6 DEF UpdatePendingItem
  <2> HIDE DEF p
  <2>3. [items[p] EXCEPT !.url = url] \in NavigationItem
    <3>1. items[p] \in NavigationItem
      BY <2>1 DEF IndInv, TypeOK
    <3> QED
      BY <3>1 DEF NavigationItem
  <2>4. items' \in Seq(NavigationItem) /\ Len(items') = Len(items)
    BY <2>1, <2>2, <2>3 DEF IndInv, TypeOK
  <2> QED
    BY <1>1, <1>2, <1>3, <1>4, <1>6, <2>2, <2>4
    DEF IndInv, TypeOK, IndicesValid, OnePendingItem, GetItemCount
<1> QED
  BY <1>5, <1>6

\* So does -registerLoadRequestForURL:, which does one or the other.
LEMMA RegisterLoadRequestPreserves ==
    ASSUME IndInv, interstitial' \in BOOLEAN,
           NEW url \in URLs, NEW loaded_url \in URLs, NEW transition \in TransitionTypes,
           RegisterLoadRequest(url, loaded_url, transition)
    PROVE  IndInv'
<1>1. CASE PendingItem # NoItem /\ UpdatePendingItem(url)
  BY <1>1, UpdatePendingItemPreserves
<1>2. CASE AddPendingItem(url, loaded_url, transition, "RENDERER", "INHERIT", NoItem, FALSE)
  BY <1>2, AddPendingItemPreserves
<1> QED
  BY <1>1, <1>2 DEF RegisterLoadRequest

\* So does -loadWithParams:.
LEMMA LoadPreserves ==
    ASSUME IndInv,
           NEW url \in URLs, NEW loaded_url \in URLs, NEW transition \in TransitionTypes,
           NEW initiation \in {"USER", "RENDERER"},
           NEW option \in {"INHERIT", "MOBILE", "DESKTOP"},
           LoadURLWithParams(url, loaded_url, transition, initiation, option)
    PROVE  IndInv'
<1>1. interstitial' \in BOOLEAN
  BY Zenon DEF LoadURLWithParams
<1>2. PendingOnceCleared \in NavigationItem \cup {NoItem}
  BY DEF PendingOnceCleared, IndInv, TypeOK
<1>3. AddPendingItem(url, loaded_url, transition, initiation, option, PendingOnceCleared, TRUE)
  BY DEF LoadURLWithParams
<1> QED
  BY <1>1, <1>2, <1>3, AddPendingItemPreserves

\* Writing the current item leaves every index and every other item alone.
LEMMA SetCurrentItemPreserves ==
    ASSUME IndInv, CurrentItem # NoItem, NEW item \in NavigationItem, SetCurrentItem(item),
           UNCHANGED <<lastCommittedItemIndex, previousItemIndex, pendingItemIndex,
                       transient_url_rewriters, interstitial>>
    PROVE  IndInv'
<1>1. Len(items) \in Nat
  BY DEF IndInv, TypeOK
<1>2. transient_url_rewriters' \in BOOLEAN /\ interstitial' \in BOOLEAN
  BY Zenon DEF IndInv, TypeOK
<1>3. transientItem' \in NavigationItem \cup {NoItem}
  BY DEF SetCurrentItem
<1>4. new_pending' \in NavigationItem \cup {NoItem}
      /\ (pendingItemIndex # -1 => new_pending' = new_pending)
  BY DEF SetCurrentItem, IndInv, TypeOK
<1>5. items' \in Seq(NavigationItem) /\ Len(items') = Len(items)
  <2>1. ASSUME NEW p \in 1 .. Len(items)
        PROVE  /\ [items EXCEPT ![p] = item] \in Seq(NavigationItem)
               /\ Len([items EXCEPT ![p] = item]) = Len(items)
    BY DEF IndInv, TypeOK
  <2>2. CASE transientItem # NoItem \/ (pendingItemIndex = -1 /\ new_pending # NoItem)
    BY <2>2 DEF SetCurrentItem, IndInv, TypeOK
  <2>3. CASE transientItem = NoItem /\ pendingItemIndex # -1
    <3>1. pendingItemIndex + 1 \in 1 .. Len(items)
      BY <1>1, <2>3 DEF IndInv, IndicesValid, GetItemCount
    <3>2. items' = [items EXCEPT ![pendingItemIndex + 1] = item]
      BY <2>3 DEF SetCurrentItem
    <3> QED
      BY <2>1, <3>1, <3>2
  <2>4. CASE transientItem = NoItem /\ pendingItemIndex = -1 /\ new_pending = NoItem
    <3>1. lastCommittedItemIndex # -1
      BY <2>4 DEF CurrentItem, PendingItem, LastCommittedItem, ItemAt
    <3>2. lastCommittedItemIndex + 1 \in 1 .. Len(items)
      BY <1>1, <3>1 DEF IndInv, IndicesValid, GetItemCount
    <3>3. items' = [items EXCEPT ![lastCommittedItemIndex + 1] = item]
      BY <2>4 DEF SetCurrentItem
    <3> QED
      BY <2>1, <3>2, <3>3
  <2> QED
    BY <2>2, <2>3, <2>4
<1>6. items' = << >> <=> items = << >>
  BY <1>1, <1>5, EmptySeq DEF IndInv, TypeOK
<1> QED
  BY <1>1, <1>2, <1>3, <1>4, <1>5, <1>6
  DEF IndInv, TypeOK, IndicesValid, OnePendingItem, GetItemCount

\* A page that commits or is pushed ends the list with the committed index on it.
LEMMA AppendAfterCommitted ==
    ASSUME IndInv, NEW item \in NavigationItem,
           items' = Append(SubSeq(items, 1, lastCommittedItemIndex + 1), item)
    PROVE  /\ items' \in Seq(NavigationItem)
           /\ Len(items') = lastCommittedItemIndex + 2
           /\ items' # << >>
<1> DEFINE kept == SubSeq(items, 1, lastCommittedItemIndex + 1)
<1>1. Len(items) \in Nat
  BY DEF IndInv, TypeOK
<1>2. kept \in Seq(NavigationItem) /\ Len(kept) = lastCommittedItemIndex + 1
  BY <1>1, SubSeqProperties DEF IndInv, TypeOK, IndicesValid, GetItemCount
<1> HIDE DEF kept
<1>3. items' = Append(kept, item)
  BY DEF kept
<1>4. lastCommittedItemIndex \in Int
  BY DEF IndInv, TypeOK
<1>5. items' \in Seq(NavigationItem) /\ Len(items') = Len(kept) + 1 /\ items' # << >>
  BY <1>2, <1>3, AppendProperties
<1> QED
  BY <1>2, <1>4, <1>5

\* The commit of a new page.
LEMMA CommitNewItemPreserves ==
    ASSUME IndInv, CommitNewItem
    PROVE  IndInv'
<1>0. new_pending \in NavigationItem
  BY DEF CommitNewItem, IndInv, TypeOK
<1>1. [new_pending EXCEPT !.initiation = "NONE"] \in NavigationItem
  BY <1>0 DEF NavigationItem
<1>2. /\ items' \in Seq(NavigationItem)
      /\ Len(items') = lastCommittedItemIndex + 2
      /\ items' # << >>
  BY <1>1, AppendAfterCommitted DEF CommitNewItem
<1>3. transient_url_rewriters' \in BOOLEAN /\ interstitial' \in BOOLEAN
  BY Zenon DEF CommitNewItem, IndInv, TypeOK
<1>4. Len(items) \in Nat
  BY DEF IndInv, TypeOK
<1> QED
  BY <1>2, <1>3, <1>4
  DEF CommitNewItem, IndInv, TypeOK, IndicesValid, OnePendingItem, GetItemCount

\* history.pushState(), which finds nothing pending.
LEMMA PushStatePreserves ==
    ASSUME IndInv, NEW url \in URLs, NEW transition \in TransitionTypes,
           PushState(url, transition)
    PROVE  IndInv'
<1> DEFINE pushed == [ItemWithURL(url, transition, "NONE") EXCEPT
                         !.user_agent = LastCommittedItem.user_agent,
                         !.same_document = TRUE]
<1>1. LastCommittedItem \in NavigationItem
  BY AccessorTypes DEF PushState
<1>2. LastCommittedItem.user_agent \in UserAgentTypes
  BY <1>1 DEF NavigationItem
<1>3. pushed \in NavigationItem
  BY <1>2 DEF ItemWithURL, NavigationItem
<1> HIDE DEF pushed
<1>4. items' = Append(SubSeq(items, 1, lastCommittedItemIndex + 1), pushed)
  BY DEF PushState, pushed
<1>5. /\ items' \in Seq(NavigationItem)
      /\ Len(items') = lastCommittedItemIndex + 2
      /\ items' # << >>
  BY <1>3, <1>4, AppendAfterCommitted
<1>6. transient_url_rewriters' \in BOOLEAN /\ interstitial' \in BOOLEAN
  BY Zenon DEF PushState, IndInv, TypeOK
<1>7. /\ previousItemIndex' = lastCommittedItemIndex
      /\ lastCommittedItemIndex' = lastCommittedItemIndex + 1
      /\ transientItem' = NoItem
      /\ pendingItemIndex' = pendingItemIndex /\ new_pending' = new_pending
  BY DEF PushState
<1>8. pendingItemIndex = -1
  BY AccessorTypes, NavigationAssumption DEF PushState
<1>9. Len(items) \in Nat
  BY DEF IndInv, TypeOK
<1> QED
  BY <1>5, <1>6, <1>7, <1>8, <1>9
  DEF IndInv, TypeOK, IndicesValid, OnePendingItem, GetItemCount

\* The commit of an item of the list: the pending index was in range.
LEMMA CommitHistoryItemPreserves ==
    ASSUME IndInv, CommitHistoryItem
    PROVE  IndInv'
<1> DEFINE p == pendingItemIndex + 1
<1>1. Len(items) \in Nat
  BY DEF IndInv, TypeOK
<1>2. p \in 1 .. Len(items)
  BY <1>1 DEF CommitHistoryItem, IndInv, IndicesValid, GetItemCount
<1>3. items' = [items EXCEPT ![p].initiation = "NONE"]
  BY DEF CommitHistoryItem
<1> HIDE DEF p
<1>4. items[p] \in NavigationItem
  BY <1>2 DEF IndInv, TypeOK
<1>5. [items[p] EXCEPT !.initiation = "NONE"] \in NavigationItem
  BY <1>4 DEF NavigationItem
<1>6. items' \in Seq(NavigationItem) /\ Len(items') = Len(items)
  BY <1>2, <1>3, <1>5 DEF IndInv, TypeOK
<1>7. transient_url_rewriters' \in BOOLEAN /\ interstitial' \in BOOLEAN
  BY Zenon DEF CommitHistoryItem, IndInv, TypeOK
<1> QED
  BY <1>1, <1>6, <1>7
  DEF CommitHistoryItem, IndInv, TypeOK, IndicesValid, OnePendingItem, GetItemCount

\* The commit of a navigation that was overtaken.
LEMMA CommitLateNavigationPreserves ==
    ASSUME IndInv, NEW index \in IndicesOfItems, CommitLateNavigation(index)
    PROVE  IndInv'
<1>1. transient_url_rewriters' \in BOOLEAN /\ interstitial' \in BOOLEAN
  BY Zenon DEF CommitLateNavigation, IndInv, TypeOK
<1>2. Len(items) \in Nat
  BY DEF IndInv, TypeOK
<1> QED
  BY <1>1, <1>2
  DEF CommitLateNavigation, IndicesOfItems, IndInv, TypeOK, IndicesValid, OnePendingItem,
      GetItemCount

\* -goToItemAtIndex:, with a load and within one document.
LEMMA GoToIndexPreserves ==
    ASSUME IndInv, NEW index \in IndicesOfItems, GoToIndex(index)
    PROVE  IndInv'
<1>1. Len(items) \in Nat
  BY DEF IndInv, TypeOK
<1>2. CASE GoToOtherDocument(index)
  <2>1. transient_url_rewriters' \in BOOLEAN /\ interstitial' \in BOOLEAN
    BY <1>2, Zenon DEF GoToOtherDocument, IndInv, TypeOK
  <2> QED
    BY <1>1, <1>2, <2>1
    DEF GoToOtherDocument, IndicesOfItems, IndInv, TypeOK, IndicesValid, OnePendingItem,
        GetItemCount
<1>3. CASE GoToSameDocument(index)
  <2>1. transient_url_rewriters' \in BOOLEAN /\ interstitial' \in BOOLEAN
    BY <1>3, Zenon DEF GoToSameDocument, IndInv, TypeOK
  <2>2. /\ transientItem' \in NavigationItem \cup {NoItem}
        /\ new_pending' \in NavigationItem \cup {NoItem}
    BY <1>3 DEF GoToSameDocument, IndInv, TypeOK
  <2>3. \/ pendingItemIndex' = -1
        \/ pendingItemIndex' = pendingItemIndex /\ new_pending' = new_pending
    BY <1>3 DEF GoToSameDocument
  <2>4. previousItemIndex' \in {previousItemIndex, lastCommittedItemIndex}
    BY <1>3 DEF GoToSameDocument
  <2>5. lastCommittedItemIndex' = index /\ items' = items
    BY <1>3 DEF GoToSameDocument
  <2> QED
    BY <1>1, <2>1, <2>2, <2>3, <2>4, <2>5
    DEF IndicesOfItems, IndInv, TypeOK, IndicesValid, OnePendingItem, GetItemCount
<1> QED
  BY <1>2, <1>3 DEF GoToIndex

\* Removing an item: there is a committed one left, since another one goes.
LEMMA RemoveItemAtIndexPreserves ==
    ASSUME IndInv, NEW index \in IndicesOfItems, RemoveItemAtIndex(index)
    PROVE  IndInv'
<1> DEFINE before == SubSeq(items, 1, index)
           after  == SubSeq(items, index + 2, Len(items))
<1>1. Len(items) \in Nat /\ index \in 0 .. Len(items) - 1
  BY DEF IndInv, TypeOK, IndicesOfItems, GetItemCount
<1>2. before \in Seq(NavigationItem) /\ Len(before) = index
  BY <1>1, SubSeqProperties DEF IndInv, TypeOK
<1>3. after \in Seq(NavigationItem) /\ Len(after) = Len(items) - index - 1
  BY <1>1, SubSeqProperties DEF IndInv, TypeOK
<1>4. items' = before \o after
  BY DEF RemoveItemAtIndex
<1> HIDE DEF before, after
<1>5. items' \in Seq(NavigationItem) /\ Len(items') = Len(items) - 1
  <2>1. items' \in Seq(NavigationItem) /\ Len(items') = Len(before) + Len(after)
    BY <1>2, <1>3, <1>4, ConcatProperties
  <2> QED
    BY <1>1, <1>2, <1>3, <2>1
<1>6. transient_url_rewriters' \in BOOLEAN /\ interstitial' \in BOOLEAN
  BY Zenon DEF RemoveItemAtIndex, IndInv, TypeOK
<1>7. lastCommittedItemIndex \in 0 .. Len(items) - 1
  <2>1. items # << >>
    BY <1>1
  <2> QED
    BY <1>1, <2>1 DEF IndInv, IndicesValid, GetItemCount
<1>8. lastCommittedItemIndex' \in 0 .. Len(items) - 2
  BY <1>1, <1>7 DEF RemoveItemAtIndex
<1>9. previousItemIndex' \in -1 .. Len(items) - 2
  BY <1>1 DEF RemoveItemAtIndex, IndInv, IndicesValid, GetItemCount
<1>10. pendingItemIndex' = -1 /\ new_pending' = NoItem /\ transientItem' = NoItem
  BY DEF RemoveItemAtIndex
<1> QED
  BY <1>1, <1>5, <1>6, <1>8, <1>9, <1>10
  DEF IndInv, TypeOK, IndicesValid, OnePendingItem, GetItemCount

\* Taking over the history of another tab.
LEMMA CopyStatePreserves ==
    ASSUME IndInv, NEW source \in Seq(NavigationItem), CopyStateFromAndPrune(source)
    PROVE  IndInv'
<1>1. Len(source) \in Nat
  OBVIOUS
<1>2. LastCommittedItem \in NavigationItem
  <2>1. lastCommittedItemIndex \in -1 .. Len(items) - 1 /\ lastCommittedItemIndex # -1
    BY DEF CopyStateFromAndPrune, CanPruneAllButLastCommittedItem, IndInv, IndicesValid,
           GetItemCount
  <2> QED
    BY <2>1, ItemAtType DEF IndInv, LastCommittedItem
<1>3. items' = Append(source, LastCommittedItem)
  BY DEF CopyStateFromAndPrune
<1>4. items' \in Seq(NavigationItem) /\ Len(items') = Len(source) + 1 /\ items' # << >>
  BY <1>1, <1>2, <1>3, AppendProperties
<1>5. transient_url_rewriters' \in BOOLEAN /\ interstitial' \in BOOLEAN
  BY Zenon DEF CopyStateFromAndPrune, IndInv, TypeOK
<1>6. /\ previousItemIndex' = -1 /\ lastCommittedItemIndex' = Len(source)
      /\ pendingItemIndex' = -1
      /\ new_pending' = new_pending /\ transientItem' = transientItem
  BY DEF CopyStateFromAndPrune, CanPruneAllButLastCommittedItem
<1> QED
  BY <1>1, <1>4, <1>5, <1>6
  DEF IndInv, TypeOK, IndicesValid, OnePendingItem, GetItemCount

\* Restoring a history.
LEMMA ReplaceSessionHistoryPreserves ==
    ASSUME IndInv, NEW restored \in Seq(NavigationItem), restored # << >>,
           NEW index \in Nat, ReplaceSessionHistory(restored, index)
    PROVE  IndInv'
<1>1. Len(restored) \in Nat /\ Len(restored) # 0
  BY EmptySeq
<1>2. transient_url_rewriters' \in BOOLEAN /\ interstitial' \in BOOLEAN
  BY Zenon DEF ReplaceSessionHistory, IndInv, TypeOK
<1> QED
  BY <1>1, <1>2
  DEF ReplaceSessionHistory, IndInv, TypeOK, IndicesValid, OnePendingItem, GetItemCount

\* Histories holds non-empty sequences of items.
LEMMA HistoriesType ==
    ASSUME NEW source \in Histories
    PROVE  source \in Seq(NavigationItem) /\ source # << >>
<1> DEFINE Kinds == {[ItemWithURL(url, transition, "NONE")
                         EXCEPT !.same_document = same_document] :
                        url \in URLs, transition \in Transitions \cap {"CLIENT_REDIRECT", "LINK"},
                        same_document \in BOOLEAN}
<1>1. ASSUME NEW kind \in Kinds
      PROVE  kind \in NavigationItem
  <2>1. PICK url \in URLs, transition \in Transitions \cap {"CLIENT_REDIRECT", "LINK"},
             same_document \in BOOLEAN :
                kind = [ItemWithURL(url, transition, "NONE")
                           EXCEPT !.same_document = same_document]
    BY <1>1
  <2>2. transition \in TransitionTypes
    BY DEF TransitionTypes
  <2>3. ItemWithURL(url, transition, "NONE") \in NavigationItem
    BY <2>2, ItemWithURLType
  <2> HIDE DEF Kinds
  <2>4. ASSUME NEW item \in NavigationItem
        PROVE  [item EXCEPT !.same_document = same_document] \in NavigationItem
    BY DEF NavigationItem
  <2> QED
    BY <2>1, <2>3, <2>4
<1> HIDE DEF Kinds
<1>2. PICK n \in 1 .. MaxRestored : source \in [1 .. n -> Kinds]
  BY DEF Histories, Kinds
<1>3. n \in Nat /\ n # 0
  BY NavigationAssumption
<1>4. source \in [1 .. n -> NavigationItem]
  BY <1>1, <1>2
<1>5. source \in Seq(NavigationItem) /\ Len(source) = n
  BY <1>3, <1>4
<1> QED
  BY <1>3, <1>5, EmptySeq
\* Stopped, cancelled and failed loads.
LEMMA DiscardPreserves ==
    ASSUME IndInv, DiscardNonCommittedItems
    PROVE  IndInv'
<1>1. transient_url_rewriters' \in BOOLEAN /\ interstitial' \in BOOLEAN
  BY Zenon DEF DiscardNonCommittedItems, IndInv, TypeOK
<1>2. Len(items) \in Nat
  BY DEF IndInv, TypeOK
<1> QED
  BY <1>1, <1>2
  DEF DiscardNonCommittedItems, IndInv, TypeOK, IndicesValid, OnePendingItem, GetItemCount

\* A reload loads the transient item or marks the current one.
LEMMA ReloadPreserves ==
    ASSUME IndInv, Reload
    PROVE  IndInv'
<1>1. CASE transientItem # NoItem
  <2>1. transientItem \in NavigationItem
    BY <1>1 DEF IndInv, TypeOK
  <2>2. transientItem.url \in URLs
    BY <2>1 DEF NavigationItem
  <2>3. LoadURLWithParams(transientItem.url, transientItem.url, "RELOAD", "USER", "INHERIT")
    BY <1>1 DEF Reload
  <2>4. "RELOAD" \in TransitionTypes
    BY DEF TransitionTypes
  <2> QED
    BY <2>2, <2>3, <2>4, LoadPreserves
<1>2. CASE transientItem = NoItem
  <2>1. CurrentItem \in NavigationItem
    BY AccessorTypes DEF Reload
  <2>2. ASSUME NEW item \in NavigationItem
        PROVE  [item EXCEPT !.transition = "RELOAD"] \in NavigationItem
    BY DEF NavigationItem, TransitionTypes
  <2>3. [CurrentItem EXCEPT !.transition = "RELOAD"] \in NavigationItem
    BY <2>1, <2>2
  <2> QED
    BY <1>2, <2>3, SetCurrentItemPreserves DEF Reload
<1> QED
  BY <1>1, <1>2

\* history.replaceState() rewrites the current item.
LEMMA ReplaceStatePreserves ==
    ASSUME IndInv, NEW url \in URLs, ReplaceState(url)
    PROVE  IndInv'
<1>1. CurrentItem \in NavigationItem
  BY AccessorTypes DEF ReplaceState
<1>2. ASSUME NEW item \in NavigationItem
      PROVE  [item EXCEPT !.url = url] \in NavigationItem
  BY DEF NavigationItem
<1>3. [CurrentItem EXCEPT !.url = url] \in NavigationItem
  BY <1>1, <1>2
<1> QED
  BY <1>3, SetCurrentItemPreserves DEF ReplaceState

\* The URL rewriters are no part of the list.
LEMMA AddTransientURLRewriterPreserves ==
    ASSUME IndInv, AddTransientURLRewriter
    PROVE  IndInv'
<1>1. transient_url_rewriters' \in BOOLEAN /\ interstitial' \in BOOLEAN
  BY Zenon DEF AddTransientURLRewriter, IndInv, TypeOK
<1> QED
  BY <1>1
  DEF AddTransientURLRewriter, IndInv, TypeOK, IndicesValid, OnePendingItem, GetItemCount

\* An interstitial adds a transient item only.
LEMMA ShowInterstitialPreserves ==
    ASSUME IndInv, ShowInterstitial
    PROVE  IndInv'
<1> DEFINE loading == IF PendingItem # NoItem THEN PendingItem ELSE LastCommittedItem
           shown == [ItemWithURL(loading.url, "CLIENT_REDIRECT", "USER")
                        EXCEPT !.user_agent = loading.user_agent]
<1>1. loading \in NavigationItem
  BY AccessorTypes DEF ShowInterstitial
<1>2. transientItem' = shown
  BY DEF ShowInterstitial
<1>3. loading.url \in URLs /\ loading.user_agent \in UserAgentTypes
  <2> HIDE DEF loading
  <2> QED
    BY <1>1 DEF NavigationItem
<1>4. shown \in NavigationItem
  <2> HIDE DEF loading
  <2> QED
    BY <1>3 DEF ItemWithURL, NavigationItem, TransitionTypes
<1> HIDE DEF shown, loading
<1>5. transient_url_rewriters' \in BOOLEAN /\ interstitial' \in BOOLEAN
  BY Zenon DEF ShowInterstitial
<1>6. UNCHANGED <<items, lastCommittedItemIndex, previousItemIndex, pendingItemIndex,
                  new_pending>>
  BY DEF ShowInterstitial
<1> QED
  BY <1>2, <1>4, <1>5, <1>6 DEF IndInv, TypeOK, IndicesValid, OnePendingItem, GetItemCount

\* Proceeding past an interstitial registers a load of the transient item.
LEMMA ProceedPreserves ==
    ASSUME IndInv, Proceed
    PROVE  IndInv'
<1>1. transientItem \in NavigationItem
  BY DEF Proceed, IndInv, TypeOK
<1>2. transientItem.url \in URLs /\ transientItem.transition \in TransitionTypes
  BY <1>1 DEF NavigationItem
<1>3. interstitial' \in BOOLEAN
  BY Zenon DEF Proceed
<1> QED
  BY <1>2, <1>3, RegisterLoadRequestPreserves DEF Proceed

\* The offsets that can be gone to lead to an item of the list.
LEMMA GoToOffsetPreserves ==
    ASSUME IndInv, NEW offset \in Int, GoToOffset(offset)
    PROVE  IndInv'
<1>1. GetIndexForOffset(offset) \in IndicesOfItems
  BY DEF GoToOffset, CanGoToOffset
<1> QED
  BY <1>1, GoToIndexPreserves DEF GoToOffset

\* Every step of the session history preserves the three facts together.
LEMMA NextPreserves == IndInv /\ [Next]_vars => IndInv'
<1> SUFFICES ASSUME IndInv, [Next]_vars PROVE IndInv'
  OBVIOUS
<1>1. CASE UNCHANGED vars
  <2>1. transient_url_rewriters' \in BOOLEAN /\ interstitial' \in BOOLEAN
    BY <1>1, Zenon DEF vars, IndInv, TypeOK
  <2> QED
    BY <1>1, <2>1 DEF vars, IndInv, TypeOK, IndicesValid, OnePendingItem, GetItemCount
<1>2. ASSUME NEW url \in URLs, NEW loaded_url \in URLs, NEW transition \in Transitions,
             NEW option \in Options, NEW initiation \in {"USER", "RENDERER"},
             LoadURLWithParams(url, loaded_url, transition, initiation, option)
      PROVE  IndInv'
  BY <1>2, NavigationAssumption, LoadPreserves
<1>3. ASSUME NEW url \in URLs, NEW loaded_url \in URLs, NEW transition \in Transitions,
             RendererLoad(url, loaded_url, transition)
      PROVE  IndInv'
  <2>1. interstitial' \in BOOLEAN
    BY <1>3, Zenon DEF RendererLoad, IndInv, TypeOK
  <2> QED
    BY <1>3, <2>1, NavigationAssumption, RegisterLoadRequestPreserves DEF RendererLoad
<1>4. ASSUME NEW url \in URLs, NEW transition \in {"LINK", "CLIENT_REDIRECT"},
             PushState(url, transition)
      PROVE  IndInv'
  BY <1>4, PushStatePreserves DEF TransitionTypes
<1>5. ASSUME NEW url \in URLs, ReplaceState(url)
      PROVE  IndInv'
  BY <1>5, ReplaceStatePreserves
<1>6. CASE CommitNewItem \/ CommitHistoryItem
  BY <1>6, CommitNewItemPreserves, CommitHistoryItemPreserves
<1>7. ASSUME NEW index \in IndicesOfItems,
             CommitLateNavigation(index) \/ GoToIndex(index) \/ RemoveItemAtIndex(index)
      PROVE  IndInv'
  BY <1>7, CommitLateNavigationPreserves, GoToIndexPreserves, RemoveItemAtIndexPreserves
<1>8. ASSUME NEW offset \in {-2, -1, 1, 2}, GoToOffset(offset)
      PROVE  IndInv'
  BY <1>8, GoToOffsetPreserves
<1>9. CASE DiscardNonCommittedItems \/ Reload \/ AddTransientURLRewriter
  BY <1>9, DiscardPreserves, ReloadPreserves, AddTransientURLRewriterPreserves
<1>10. CASE ShowInterstitial \/ Proceed
  BY <1>10, ShowInterstitialPreserves, ProceedPreserves
<1>11. ASSUME NEW source \in Histories, CopyStateFromAndPrune(source)
       PROVE  IndInv'
  BY <1>11, HistoriesType, CopyStatePreserves
<1>12. ASSUME NEW source \in Histories, NEW index \in 0 .. MaxRestored,
              ReplaceSessionHistory(source, index)
       PROVE  IndInv'
  BY <1>12, HistoriesType, ReplaceSessionHistoryPreserves
<1> QED
  BY <1>1, <1>2, <1>3, <1>4, <1>5, <1>6, <1>7, <1>8, <1>9, <1>10, <1>11, <1>12 DEF Next

\* The three facts hold in every state of every behaviour.
THEOREM HistoryInvariance == Spec => []IndInv
<1>1. Init => IndInv
  BY InitEstablishes
<1>2. IndInv /\ [Next]_vars => IndInv'
  BY NextPreserves
<1> QED
  BY <1>1, <1>2, PTL DEF Spec

\* The session history is always well typed.
THEOREM HistoryTypeCorrect == Spec => []TypeOK
<1>1. IndInv => TypeOK
  BY DEF IndInv
<1> QED
  BY <1>1, HistoryInvariance, PTL

\* The committed, previous and pending indices always index an item or are -1,
\* and a non-empty history has a committed item, whatever loads, redirects,
\* commits, late commits, removals and restores came before.
THEOREM IndicesAlwaysValid == Spec => []IndicesValid
<1>1. IndInv => IndicesValid
  BY DEF IndInv
<1> QED
  BY <1>1, HistoryInvariance, PTL

\* The DCHECK(!_pendingItem) that ends -commitPendingItem never fires.
THEOREM AtMostOnePending == Spec => []OnePendingItem
<1>1. IndInv => OnePendingItem
  BY DEF IndInv
<1> QED
  BY <1>1, HistoryInvariance, PTL

-----------------------------------------------------------------------------
(* What commits, removals and copies keep of the history.                  *)

\* Removing another item leaves the committed one under the moved index.
LEMMA RemoveKeepsCommitted ==
    ASSUME IndInv, NEW index \in IndicesOfItems, RemoveItemAtIndex(index)
    PROVE  LastCommittedItem' = LastCommittedItem
<1> DEFINE before == SubSeq(items, 1, index)
           after  == SubSeq(items, index + 2, Len(items))
           last   == lastCommittedItemIndex
<1>1. Len(items) \in Nat /\ index \in 0 .. Len(items) - 1
  BY DEF IndInv, TypeOK, IndicesOfItems, GetItemCount
<1>2. /\ before \in Seq(NavigationItem) /\ Len(before) = index
      /\ \A i \in 1 .. index : before[i] = items[i]
  BY <1>1, SubSeqProperties DEF IndInv, TypeOK
<1>3. /\ after \in Seq(NavigationItem) /\ Len(after) = Len(items) - index - 1
      /\ \A i \in 1 .. Len(items) - index - 1 : after[i] = items[index + 1 + i]
  BY <1>1, SubSeqProperties DEF IndInv, TypeOK
<1>4. items' = before \o after
  BY DEF RemoveItemAtIndex
<1>5. last \in 0 .. Len(items) - 1 /\ last # index
  <2>1. items # << >>
    BY <1>1
  <2> QED
    BY <1>1, <2>1 DEF RemoveItemAtIndex, IndInv, IndicesValid, GetItemCount
<1>6. last' = IF last > index THEN last - 1 ELSE last
  BY DEF RemoveItemAtIndex
<1>7. LastCommittedItem = items[last + 1]
  BY <1>5 DEF LastCommittedItem, ItemAt
<1>8. LastCommittedItem' = items'[last' + 1]
  BY <1>1, <1>5, <1>6 DEF LastCommittedItem, ItemAt
<1> HIDE DEF before, after, last
<1>9. \A i \in 1 .. Len(before) + Len(after) :
         items'[i] = IF i <= Len(before) THEN before[i] ELSE after[i - Len(before)]
  BY <1>2, <1>3, <1>4, ConcatProperties
<1>10. CASE last > index
  <2>1. /\ last \in 1 .. Len(before) + Len(after) /\ ~ (last <= Len(before))
        /\ last - index \in 1 .. Len(items) - index - 1
    BY <1>1, <1>2, <1>3, <1>5, <1>10
  <2>2. items'[last] = after[last - index]
    BY <1>2, <1>9, <2>1
  <2>3. after[last - index] = items[index + 1 + (last - index)]
    BY <1>3, <2>1
  <2>4. index + 1 + (last - index) = last + 1 /\ last' + 1 = last
    BY <1>1, <1>5, <1>6, <1>10
  <2> QED
    BY <1>7, <1>8, <2>2, <2>3, <2>4
<1>11. CASE ~ (last > index)
  <2>1. /\ last + 1 \in 1 .. Len(before) + Len(after) /\ last + 1 <= Len(before)
        /\ last + 1 \in 1 .. index
    BY <1>1, <1>2, <1>3, <1>5, <1>11
  <2>2. items'[last + 1] = items[last + 1]
    BY <1>2, <1>9, <2>1
  <2> QED
    BY <1>6, <1>7, <1>8, <1>11, <2>2
<1> QED
  BY <1>10, <1>11

\* Inserting the history of another tab puts the committed item last.
LEMMA CopyKeepsCommitted ==
    ASSUME IndInv, NEW source \in Seq(NavigationItem), CopyStateFromAndPrune(source)
    PROVE  LastCommittedItem' = LastCommittedItem
<1>1. lastCommittedItemIndex \in -1 .. Len(items) - 1 /\ lastCommittedItemIndex # -1
  BY DEF CopyStateFromAndPrune, CanPruneAllButLastCommittedItem, IndInv, IndicesValid,
         GetItemCount
<1>2. LastCommittedItem \in NavigationItem
  BY <1>1, ItemAtType DEF IndInv, LastCommittedItem
<1>3. items' = Append(source, LastCommittedItem) /\ lastCommittedItemIndex' = Len(source)
  BY DEF CopyStateFromAndPrune
<1>4. items'[Len(source) + 1] = LastCommittedItem /\ Len(source) \in Nat
  BY <1>2, <1>3, AppendProperties
<1>5. LastCommittedItem' = items'[Len(source) + 1]
  BY <1>3, <1>4 DEF LastCommittedItem, ItemAt
<1> QED
  BY <1>4, <1>5

\* The committed page stays the committed page when another item is removed or a
\* history is inserted before it, for any history.
THEOREM CommittedPageAlwaysKept == Spec => CommittedPageKept
<1> DEFINE Kept == LastCommittedItem' # LastCommittedItem =>
                       /\ ~ \E index \in IndicesOfItems : RemoveItemAtIndex(index)
                       /\ ~ \E source \in Histories : CopyStateFromAndPrune(source)
<1>1. IndInv => Kept
  BY RemoveKeepsCommitted, CopyKeepsCommitted, HistoriesType
<1>2. [][Kept]_vars <=> CommittedPageKept
  BY DEF CommittedPageKept
<1> HIDE DEF Kept
<1> QED
  BY <1>1, <1>2, HistoryInvariance, PTL

\* The step both a commit and a pushState take.
EndsHistory ==
    /\ LastCommittedItem' = items'[Len(items')]
    /\ PreviousItem' = LastCommittedItem
    /\ SubSeq(items', 1, lastCommittedItemIndex + 1)
           = SubSeq(items, 1, lastCommittedItemIndex + 1)

\* An item appended after the committed one is the last one, and what it was
\* opened from is unchanged before it.
LEMMA AppendEndsHistory ==
    ASSUME IndInv, NEW item \in NavigationItem,
           items' = Append(SubSeq(items, 1, lastCommittedItemIndex + 1), item),
           previousItemIndex' = lastCommittedItemIndex,
           lastCommittedItemIndex' = lastCommittedItemIndex + 1
    PROVE  EndsHistory
<1> DEFINE last == lastCommittedItemIndex
           kept == SubSeq(items, 1, last + 1)
           again == SubSeq(items', 1, last + 1)
<1>1. Len(items) \in Nat /\ last \in -1 .. Len(items) - 1
  BY DEF IndInv, TypeOK, IndicesValid, GetItemCount
<1>2. /\ kept \in Seq(NavigationItem) /\ Len(kept) = last + 1
      /\ \A i \in 1 .. last + 1 : kept[i] = items[i]
  BY <1>1, SubSeqProperties DEF IndInv, TypeOK
<1>3. items' = Append(kept, item)
  OBVIOUS
<1>4. LastCommittedItem' = items'[last + 2]
  BY <1>1 DEF LastCommittedItem, ItemAt
<1>5. PreviousItem' = IF last = -1 THEN NoItem ELSE items'[last + 1]
  BY DEF PreviousItem, ItemAt
<1>6. LastCommittedItem = IF last = -1 THEN NoItem ELSE items[last + 1]
  BY DEF LastCommittedItem, ItemAt
<1> HIDE DEF kept
<1>7. /\ items' \in Seq(NavigationItem) /\ Len(items') = last + 2
      /\ \A i \in 1 .. last + 1 : items'[i] = items[i]
  BY <1>1, <1>2, <1>3, AppendProperties
<1>8. PreviousItem' = LastCommittedItem
  <2>1. last # -1 => last + 1 \in 1 .. last + 1
    BY <1>1
  <2> QED
    BY <1>5, <1>6, <1>7, <2>1
<1>9. again = kept
  <2>1. /\ again \in Seq(NavigationItem) /\ Len(again) = last + 1
        /\ \A i \in 1 .. last + 1 : again[i] = items'[i]
    BY <1>1, <1>7, SubSeqProperties
  <2> HIDE DEF again
  <2> QED
    BY <1>2, <1>7, <2>1, SeqEqual
<1> QED
  BY <1>4, <1>7, <1>8, <1>9 DEF EndsHistory, kept

\* After a new page commits, or a page pushes a state, nothing can be gone forward
\* to, and the pages up to the one it was opened from are unchanged.
THEOREM NewPageAlwaysEndsHistory == Spec => NewPageEndsHistory
<1>1. ASSUME IndInv, CommitNewItem
      PROVE  EndsHistory
  <2>1. new_pending \in NavigationItem
    BY <1>1 DEF CommitNewItem, IndInv, TypeOK
  <2>2. [new_pending EXCEPT !.initiation = "NONE"] \in NavigationItem
    BY <2>1 DEF NavigationItem
  <2> QED
    BY <1>1, <2>2, AppendEndsHistory DEF CommitNewItem
<1>2. ASSUME IndInv, NEW url \in URLs, NEW t \in TransitionTypes, PushState(url, t)
      PROVE  EndsHistory
  <2> DEFINE pushed == [ItemWithURL(url, t, "NONE") EXCEPT
                           !.user_agent = LastCommittedItem.user_agent,
                           !.same_document = TRUE]
  <2>1. LastCommittedItem \in NavigationItem
    BY <1>2, AccessorTypes DEF PushState
  <2>2. LastCommittedItem.user_agent \in UserAgentTypes
    BY <2>1 DEF NavigationItem
  <2>3. pushed \in NavigationItem
    BY <2>2 DEF ItemWithURL, NavigationItem
  <2> HIDE DEF pushed
  <2>4. /\ items' = Append(SubSeq(items, 1, lastCommittedItemIndex + 1), pushed)
        /\ previousItemIndex' = lastCommittedItemIndex
        /\ lastCommittedItemIndex' = lastCommittedItemIndex + 1
    BY <1>2 DEF PushState, pushed
  <2> QED
    BY <1>2, <2>3, <2>4, AppendEndsHistory
<1> DEFINE Ended == CommitNewItem \/ (\E url \in URLs, t \in TransitionTypes : PushState(url, t))
                    => EndsHistory
<1>3. IndInv => Ended
  BY <1>1, <1>2
<1>4. [][Ended]_vars <=> NewPageEndsHistory
  BY DEF NewPageEndsHistory, EndsHistory
<1> HIDE DEF Ended
<1> QED
  BY <1>3, <1>4, HistoryInvariance, PTL

-----------------------------------------------------------------------------
(* The back and forward buttons.                                           *)

\* A member that no other exceeds is the maximum.
LEMMA MaxIs ==
    ASSUME NEW S \in SUBSET Int, NEW m \in S, \A y \in S : y <= m
    PROVE  Max(S) = m
<1>1. S # {} /\ m \in Int
  OBVIOUS
<1>2. Max(S) \in S /\ Max(S) >= m
  BY <1>1, LargestOfBounded
<1>3. Max(S) \in Int /\ Max(S) <= m
  BY <1>2
<1> QED
  BY <1>1, <1>2, <1>3

\* IndexAfterSteps over at most one step: the recursive functions it walks with
\* exist, because their values at 0 and 1 can be given, and so satisfy their
\* equations.
LEMMA StepsOfWalk ==
    ASSUME NEW start \in Int, NEW offset \in {-1, 0, 1}
    PROVE  IndexAfterSteps(start, offset) =
               IF offset = 0 THEN start
               ELSE IF offset = -1
               THEN (IF start > 0 THEN StepBack(start) ELSE start - 1)
               ELSE (IF start < GetItemCount THEN StepForward(start) ELSE start + 1)
<1> DEFINE steps == -offset
           once  == IF start > 0 THEN StepBack(start) ELSE start - 1
           ahead == IF start < GetItemCount THEN StepForward(start) ELSE start + 1
           Back(f) == [n \in 0 .. steps |->
                          IF n = 0 THEN start
                          ELSE IF f[n - 1] > 0 THEN StepBack(f[n - 1]) ELSE f[n - 1] - 1]
           Forward(f) == [n \in 0 .. offset |->
                             IF n = 0 THEN start
                             ELSE IF f[n - 1] < GetItemCount THEN StepForward(f[n - 1])
                             ELSE f[n - 1] + 1]
           back == CHOOSE f : f = Back(f)
           forward == CHOOSE f : f = Forward(f)
<1>1. IndexAfterSteps(start, offset) = IF offset < 0 THEN back[steps] ELSE forward[offset]
  BY Zenon DEF IndexAfterSteps
<1>0. steps = 0 - offset
  OBVIOUS
<1> HIDE DEF steps
<1>2. CASE offset = -1
  <2>0. steps = 1
    BY <1>0, <1>2
  <2> DEFINE walk == [n \in 0 .. steps |-> IF n = 0 THEN start ELSE once]
  <2>1. walk = Back(walk)
    <3> HIDE DEF once
    <3>1. \A n \in 0 .. steps : n = 0 \/ n = 1
      BY <2>0
    <3>2. walk[0] = start
      BY <2>0
    <3>3. walk[1 - 1] = start
      BY <3>2
    <3>4. ASSUME NEW n \in 0 .. steps
          PROVE  (IF n = 0 THEN start ELSE once) = Back(walk)[n]
      <4> HIDE DEF walk
      <4> QED
        BY <3>1, <3>3 DEF once
    <3> QED
      BY <3>4
  <2> HIDE DEF walk
  <2>2. back = Back(back)
    <3> HIDE DEF Back
    <3> QED
      BY <2>1, Zenon
  <2> HIDE DEF back
  <2>3. back[0] = start
    BY <2>0, <2>2
  <2>4. back[1] = once
    BY <2>0, <2>2, <2>3
  <2> QED
    BY <1>1, <1>2, <2>0, <2>4
<1>3. CASE offset # -1
  <2> DEFINE walk == [n \in 0 .. offset |-> IF n = 0 THEN start ELSE ahead]
  <2>1. walk = Forward(walk)
    <3> HIDE DEF ahead
    <3>1. \A n \in 0 .. offset : n = 0 \/ (n = 1 /\ offset = 1)
      BY <1>3
    <3>2. walk[0] = start
      BY <1>3
    <3>3. walk[1 - 1] = start
      BY <3>2
    <3>4. ASSUME NEW n \in 0 .. offset
          PROVE  (IF n = 0 THEN start ELSE ahead) = Forward(walk)[n]
      <4> HIDE DEF walk
      <4> QED
        BY <3>1, <3>3 DEF ahead
    <3> QED
      BY <3>4
  <2> HIDE DEF walk
  <2>2. forward = Forward(forward)
    <3> HIDE DEF Forward
    <3> QED
      BY <2>1, Zenon
  <2> HIDE DEF forward
  <2>3. forward[0] = start
    BY <1>3, <2>2
  <2>4. offset = 1 => forward[1] = ahead
    BY <1>3, <2>2, <2>3
  <2> QED
    BY <1>1, <1>3, <2>3, <2>4
<1> QED
  BY <1>2, <1>3

\* A step back from `from' leads to the page before the last one at or below it
\* that no redirect led to, and before the first page when there is none.
LEMMA StepBackIs ==
    ASSUME NEW from \in Nat
    PROVE  /\ \A k \in 1 .. from :
                  ~ IsRedirect(k) /\ (\A j \in k + 1 .. from : IsRedirect(j))
                      => StepBack(from) = k - 1
           /\ (\A k \in 1 .. from : IsRedirect(k)) => StepBack(from) = -1
<1> DEFINE S == {k \in 0 .. from : k = 0 \/ ~ IsRedirect(k)}
<1>1. S \in SUBSET Int /\ 0 \in S /\ \A x \in S : x <= from
  OBVIOUS
<1>3. StepBack(from) = Max(S) - 1
  BY DEF StepBack
<1>4. ASSUME NEW k \in 1 .. from, ~ IsRedirect(k), \A j \in k + 1 .. from : IsRedirect(j)
      PROVE  StepBack(from) = k - 1
  <2>1. k \in S
    BY <1>4
  <2>2. ASSUME NEW y \in S PROVE y <= k
    <3>1. y > k => y \in k + 1 .. from
      OBVIOUS
    <3>2. y = 0 \/ ~ IsRedirect(y)
      OBVIOUS
    <3> QED
      BY <1>4, <3>1, <3>2
  <2>3. Max(S) = k
    <3> HIDE DEF S
    <3> QED
      BY <1>1, <2>1, <2>2, MaxIs
  <2> QED
    BY <1>3, <2>3
<1>5. ASSUME \A k \in 1 .. from : IsRedirect(k) PROVE StepBack(from) = -1
  <2>1. \A y \in S : y <= 0
    BY <1>5
  <2>2. Max(S) = 0
    <3> HIDE DEF S
    <3> QED
      BY <1>1, <2>1, MaxIs
  <2> QED
    BY <1>3, <2>2
<1> QED
  BY <1>4, <1>5

\* The back button and the list behind it: for an interstitial both start at the
\* committed page, otherwise both pass over the redirects that led to it.
LEMMA BackButtonIs ==
    ASSUME IndicesValid, Len(items) \in Nat
    PROVE  BackButtonMatchesList
<1> DEFINE L == lastCommittedItemIndex
<1> SUFFICES ASSUME pendingItemIndex = -1
             PROVE  /\ CanGoToOffset(-1) <=> BackwardIndices # {}
                    /\ CanGoToOffset(-1) => GetIndexForOffset(-1) = Max(BackwardIndices)
  BY DEF BackButtonMatchesList
<1>1. L \in Int /\ L >= -1 /\ L < Len(items)
  BY DEF IndicesValid, GetItemCount
<1>2. \A i \in Int : i \in IndicesOfItems <=> i >= 0 /\ i < Len(items)
  BY DEF IndicesOfItems, GetItemCount
<1> DEFINE Behind == {i \in 1 .. L : ~ IsRedirect(i)}
           Pages == {i - 1 : i \in Behind}
<1>b. Behind \in SUBSET Int /\ \A i \in Behind : i >= 1 /\ i <= L
  BY <1>1
<1>3. Pages \in SUBSET Int /\ \A x \in Pages : x <= L - 1
  <2> HIDE DEF Behind
  <2> QED
    BY <1>b, <1>1
<1>4. CASE transientItem # NoItem
  <2>1. GetIndexForOffset(-1) = L
    <3>1. GetIndexForOffset(-1) = IndexAfterSteps(L, -1 + 1)
      BY <1>4 DEF GetIndexForOffset
    <3>2. -1 + 1 = 0
      OBVIOUS
    <3> QED
      BY <1>1, <3>1, <3>2, StepsOfWalk
  <2>2. CanGoToOffset(-1) <=> L # -1
    BY <1>1, <1>2, <2>1 DEF CanGoToOffset
  <2>3. CASE L = -1
    BY <2>2, <2>3 DEF BackwardIndices
  <2>4. CASE L # -1
    <3>1. BackwardIndices = {L} \cup Pages
      BY <1>4, <2>4 DEF BackwardIndices
    <3>2. Max({L} \cup Pages) = L
      <4> HIDE DEF Pages, L
      <4>1. {L} \cup Pages \in SUBSET Int /\ L \in {L} \cup Pages
            /\ \A y \in {L} \cup Pages : y <= L
        BY <1>1, <1>3
      <4> QED
        BY <4>1, MaxIs
    <3> QED
      BY <2>1, <2>2, <2>4, <3>1, <3>2
  <2> QED
    BY <2>3, <2>4
<1>5. CASE transientItem = NoItem
  <2>1. GetIndexForOffset(-1) = IF L > 0 THEN StepBack(L) ELSE L - 1
    <3>1. GetIndexForOffset(-1) = IndexAfterSteps(L, -1)
      BY <1>5 DEF GetIndexForOffset
    <3> QED
      BY <1>1, <3>1, StepsOfWalk
  <2>2. BackwardIndices = IF L = -1 THEN {} ELSE Pages
    BY <1>5 DEF BackwardIndices
  <2>3. CASE ~ L > 0
    <3>1. Behind = {}
      BY <1>1, <2>3
    <3>2. Pages = {}
      BY <3>1
    <3>3. ~ CanGoToOffset(-1)
      BY <1>1, <1>2, <2>1, <2>3 DEF CanGoToOffset
    <3> QED
      BY <2>2, <3>2, <3>3
  <2>4. CASE L > 0 /\ Behind = {}
    <3>1. StepBack(L) = -1
      <4>1. \A k \in 1 .. L : IsRedirect(k)
        BY <2>4
      <4> QED
        BY <1>1, <2>4, <4>1, StepBackIs
    <3>2. ~ CanGoToOffset(-1)
      BY <1>2, <2>1, <2>4, <3>1 DEF CanGoToOffset
    <3>3. Pages = {}
      BY <2>4
    <3> QED
      BY <2>2, <3>2, <3>3
  <2>5. CASE L > 0 /\ Behind # {}
    <3> DEFINE k == Max(Behind)
    <3>1. k \in Behind /\ \A y \in Behind : k >= y
      <4> HIDE DEF Behind
      <4> QED
        BY <1>1, <1>b, <2>5, LargestOfBounded
    <3> HIDE DEF k
    <3>2. k \in 1 .. L /\ ~ IsRedirect(k)
      BY <3>1
    <3>3. \A j \in k + 1 .. L : IsRedirect(j)
      <4> SUFFICES ASSUME NEW j \in k + 1 .. L, ~ IsRedirect(j) PROVE FALSE
        OBVIOUS
      <4>1. j \in Behind
        BY <1>1, <3>2
      <4> QED
        BY <1>1, <3>1, <3>2, <4>1
    <3>4. StepBack(L) = k - 1
      BY <1>1, <2>5, <3>2, <3>3, StepBackIs
    <3>5. k - 1 \in Pages /\ \A y \in Pages : y <= k - 1
      <4>1. \A i \in Behind : i \in Int /\ i <= k
        BY <1>b, <3>1
      <4> HIDE DEF Behind
      <4> QED
        BY <3>1, <3>2, <4>1
    <3>6. Max(Pages) = k - 1
      <4> HIDE DEF Pages
      <4> QED
        BY <1>3, <3>5, MaxIs
    <3>7. CanGoToOffset(-1)
      BY <1>1, <1>2, <2>1, <2>5, <3>2, <3>4 DEF CanGoToOffset
    <3>8. BackwardIndices = Pages
      BY <1>1, <2>2, <2>5
    <3>9. GetIndexForOffset(-1) = k - 1
      BY <2>1, <2>5, <3>4
    <3> HIDE DEF Pages
    <3> QED
      BY <3>5, <3>6, <3>7, <3>8, <3>9
  <2> QED
    BY <2>3, <2>4, <2>5
<1> QED
  BY <1>4, <1>5

\* A step forward passes over the redirects that follow, and a step back over
\* the same ones.
LEMMA ForwardThenBackIs ==
    ASSUME IndicesValid, Len(items) \in Nat
    PROVE  ForwardThenBack
<1> DEFINE L == lastCommittedItemIndex
           F == StepForward(L)
<1> SUFFICES ASSUME CanGoToOffset(1), L # -1, pendingItemIndex = -1, ~ IsRedirect(L + 1)
             PROVE  IndexAfterSteps(GetIndexForOffset(1), -1) = L
  BY DEF ForwardThenBack
<1>1. L \in Nat /\ L < Len(items)
  BY DEF IndicesValid, GetItemCount
<1>2. GetIndexForOffset(1) = F
  <2>1. GetIndexForOffset(1) = IndexAfterSteps(L, 1)
    BY DEF GetIndexForOffset
  <2> QED
    BY <1>1, <2>1, StepsOfWalk DEF GetItemCount
<1> DEFINE S == {k \in L + 1 .. GetItemCount :
                    /\ k = L + 1 \/ k < GetItemCount
                    /\ \A j \in L + 2 .. k : IsRedirect(j)}
<1>3. F \in S
  <2>1. S \in SUBSET Int /\ \A x \in S : x <= Len(items)
    BY <1>1 DEF GetItemCount
  <2>3. L + 1 \in S
    <3>1. L + 2 .. L + 1 = {}
      BY <1>1
    <3> QED
      BY <1>1, <3>1 DEF GetItemCount
  <2>2. F = Max(S)
    BY DEF StepForward
  <2> HIDE DEF S, F
  <2>4. S # {}
    BY <2>3
  <2>5. Max(S) \in S
    <3>1. Len(items) \in Int
      OBVIOUS
    <3> QED
      BY <2>1, <2>4, <3>1, LargestOfBounded, Zenon
  <2> QED
    BY <2>2, <2>5
<1>4. F \in Nat /\ F > L /\ \A j \in L + 2 .. F : IsRedirect(j)
  <2> HIDE DEF F
  <2> QED
    BY <1>1, <1>3 DEF GetItemCount
<1> HIDE DEF F, S
<1>5. StepBack(F) = L
  <2>1. L + 1 \in 1 .. F /\ \A j \in (L + 1) + 1 .. F : IsRedirect(j)
    BY <1>1, <1>4
  <2>2. StepBack(F) = (L + 1) - 1
    BY <1>4, <2>1, StepBackIs
  <2> QED
    BY <1>1, <2>2
<1>6. IndexAfterSteps(F, -1) = StepBack(F)
  BY <1>1, <1>4, StepsOfWalk
<1> QED
  BY <1>2, <1>5, <1>6

\* In every state the back button goes where the list behind it starts, and is
\* enabled exactly when that list is not empty.
THEOREM BackButtonAlwaysMatches == Spec => []BackButtonMatchesList
<1>1. IndInv => BackButtonMatchesList
  <2>1. IndInv => IndicesValid /\ Len(items) \in Nat
    BY DEF IndInv, TypeOK
  <2> QED
    BY <2>1, BackButtonIs
<1> QED
  BY <1>1, HistoryInvariance, PTL

\* In every state going forward and then back returns to the committed page.
THEOREM ForwardThenBackReturns == Spec => []ForwardThenBack
<1>1. IndInv => ForwardThenBack
  <2>1. IndInv => IndicesValid /\ Len(items) \in Nat
    BY DEF IndInv, TypeOK
  <2> QED
    BY <2>1, ForwardThenBackIs
<1> QED
  BY <1>1, HistoryInvariance, PTL
=============================================================================
