------------------------- MODULE NavigationManager --------------------------
(***************************************************************************)
(* The session history of one tab: NavigationManagerImpl and the           *)
(* CRWSessionController it wraps (web/navigation), driven the way          *)
(* CRWWebController, WebInterstitialImpl and Tab drive them.               *)
(*                                                                         *)
(* All of it runs on the UI thread, so a call from outside is one action;  *)
(* loads commit, fail or are superseded later, in actions of their own.    *)
(* A URL is a pair <<origin, ref>>: two URLs of one origin may follow each *)
(* other with pushState, two that differ in ref only with a hash change.   *)
(* Native (app-specific) pages commit inside the call that loads them and  *)
(* are left out: every URL here is a web URL.                              *)
(***************************************************************************)
EXTENDS Integers, Sequences, FiniteSetsExt

CONSTANTS
    URLs,            \* pairs <<origin, ref>>
    Transitions,     \* page transitions loads are started with
    Options,         \* user agent override options loads are started with
    NoItem,          \* nullptr
    MaxItems,        \* bound on the number of committed items
    MaxRestored      \* bound on the items of a restored or prerendered history

UserAgentTypes == {"MOBILE", "DESKTOP"}
TransitionTypes == {"LINK", "FORM_SUBMIT", "RELOAD", "CLIENT_REDIRECT"}

NavigationItem ==
    [url : URLs, transition : TransitionTypes,
     user_agent : UserAgentTypes, initiation : {"NONE", "USER", "RENDERER"},
     same_document : BOOLEAN]    \* IsCreatedFromPushState / FromHashChange

ASSUME NavigationAssumption ==
    /\ Transitions \subseteq TransitionTypes
    /\ Options \subseteq {"INHERIT", "MOBILE", "DESKTOP"}
    /\ NoItem \notin NavigationItem
    /\ MaxItems \in Nat /\ MaxRestored \in Nat

VARIABLES
    items,                     \* _items
    lastCommittedItemIndex,
    previousItemIndex,
    pendingItemIndex,
    new_pending,               \* _pendingItem: the pending item that is not in items
    transientItem,
    transient_url_rewriters,   \* transient_url_rewriters_ is not null
    interstitial               \* an interstitial is shown (WebStateImpl::interstitial_)

vars == <<items, lastCommittedItemIndex, previousItemIndex, pendingItemIndex,
          new_pending, transientItem, transient_url_rewriters, interstitial>>

GetItemCount == Len(items)
IndicesOfItems == 0 .. GetItemCount - 1
ItemAt(index) == IF index = -1 THEN NoItem ELSE items[index + 1]

LastCommittedItem == ItemAt(lastCommittedItemIndex)
PreviousItem == ItemAt(previousItemIndex)
PendingItem == IF pendingItemIndex = -1 THEN new_pending ELSE ItemAt(pendingItemIndex)

CurrentItem ==
    IF transientItem # NoItem THEN transientItem
    ELSE IF PendingItem # NoItem THEN PendingItem
    ELSE LastCommittedItem

VisibleItem ==
    IF transientItem # NoItem THEN transientItem
    ELSE IF pendingItemIndex = -1 /\ new_pending # NoItem
            /\ new_pending.initiation = "USER" THEN new_pending
    ELSE LastCommittedItem

SameOrigin(url1, url2) == url1[1] = url2[1]
IsRedirect(index) == items[index + 1].transition = "CLIENT_REDIRECT"

-----------------------------------------------------------------------------
(* Positions in the history.                                               *)

\* The redirects a step back passes over end at the page that redirected.
StepBack(result) == Max({k \in 0 .. result : k = 0 \/ ~ IsRedirect(k)}) - 1

\* Mutant of StepForward: the index moves on although no redirect follows.
StepForwardTooFar(result) == result + 2

StepForward(result) ==
    Max({k \in result + 1 .. GetItemCount :
            /\ k = result + 1 \/ k < GetItemCount
            /\ \A j \in result + 2 .. k : IsRedirect(j)})

IndexAfterSteps(start, offset) ==
    LET back[n \in 0 .. -offset] ==
            IF n = 0 THEN start
            ELSE IF back[n - 1] > 0 THEN StepBack(back[n - 1]) ELSE back[n - 1] - 1
        forward[n \in 0 .. offset] ==
            IF n = 0 THEN start
            ELSE IF forward[n - 1] < GetItemCount THEN StepForward(forward[n - 1])
            ELSE forward[n - 1] + 1
    IN  IF offset < 0 THEN back[-offset] ELSE forward[offset]

\* Mutant of GetIndexForOffset: the transient item is not accounted for.
IndexIgnoringTransient(offset) ==
    IndexAfterSteps(IF pendingItemIndex = -1 THEN lastCommittedItemIndex
                    ELSE pendingItemIndex, offset)

GetIndexForOffset(offset) ==
    IndexAfterSteps(
        IF pendingItemIndex = -1 THEN lastCommittedItemIndex ELSE pendingItemIndex,
        IF offset < 0 /\ transientItem # NoItem /\ pendingItemIndex = -1
        THEN offset + 1 ELSE offset)

CanGoToOffset(offset) == GetIndexForOffset(offset) \in IndicesOfItems

\* The indices of the items of backwardItems.
BackwardIndices ==
    IF lastCommittedItemIndex = -1 THEN {}
    ELSE (IF transientItem # NoItem THEN {lastCommittedItemIndex} ELSE {})
         \cup {index - 1 : index \in {i \in 1 .. lastCommittedItemIndex : ~ IsRedirect(i)}}

GetPendingItemIndex ==
    IF PendingItem = NoItem THEN -1
    ELSE IF pendingItemIndex # -1 THEN pendingItemIndex
    ELSE lastCommittedItemIndex

IsSameDocumentNavigation(from, to) ==
    /\ from # to /\ from # -1 /\ to # -1
    /\ LET start == IF from < to THEN from ELSE to
           end   == IF from < to THEN to ELSE from
       IN  \A i \in start + 1 .. end :
               /\ items[i + 1].same_document
               /\ SameOrigin(items[from + 1].url, items[i + 1].url)

-----------------------------------------------------------------------------
(* Building blocks.                                                        *)

\* -itemWithURL:; `url' is what the URL rewriters made of the requested one.
ItemWithURL(url, transition, initiation) ==
    [url |-> url, transition |-> transition,
     user_agent |-> "MOBILE", initiation |-> initiation, same_document |-> FALSE]

ShouldCreatePendingItem(current, url, transition, option) ==
    \/ current = NoItem
    \/ current.url # url
    \/ transition = "FORM_SUBMIT" /\ current.transition # "FORM_SUBMIT"
    \/ transition = "RELOAD" /\ option # "INHERIT"

\* The user agent NavigationManagerImpl::AddPendingItem gives the pending item.
UserAgentFor(option, item) ==
    IF option # "INHERIT" THEN option
    ELSE IF LastCommittedItem # NoItem THEN LastCommittedItem.user_agent
    ELSE item.user_agent

\* The item left pending by AddPendingItem, before its user agent is set, when
\* `pending' is the one that was there (after -discardTransientItem).
PendingAfterAdd(url, loaded_url, transition, initiation, option, pending) ==
    LET current == IF pending # NoItem THEN pending ELSE LastCommittedItem
    IN  IF ShouldCreatePendingItem(current, url, transition, option)
        THEN ItemWithURL(loaded_url, transition, initiation) ELSE pending

\* A load marks a page that differs from the committed one in its ref only.
MarkHashChange(item) ==
    IF LastCommittedItem # NoItem /\ LastCommittedItem.url # item.url
       /\ SameOrigin(LastCommittedItem.url, item.url)
    THEN [item EXCEPT !.same_document = TRUE] ELSE item

\* NavigationManagerImpl::AddPendingItem with the pending item found there.
AddPendingItem(url, loaded_url, transition, initiation, option, pending, is_load) ==
    LET current == IF pending # NoItem THEN pending ELSE LastCommittedItem
        create  == ShouldCreatePendingItem(current, url, transition, option)
        item    == PendingAfterAdd(url, loaded_url, transition, initiation, option, pending)
        agent   == [item EXCEPT !.user_agent = UserAgentFor(option, item)]
    IN  /\ loaded_url # url => transient_url_rewriters
        /\ new_pending' = IF item = NoItem THEN NoItem
                          ELSE IF is_load THEN MarkHashChange(agent) ELSE agent
        /\ pendingItemIndex' = -1
        /\ transientItem' = NoItem
        /\ transient_url_rewriters' = (transient_url_rewriters /\ ~ create)
        /\ UNCHANGED <<items, lastCommittedItemIndex, previousItemIndex>>

\* The item that stays pending when the transient content view is cleared: an
\* interstitial that is shown then does DontProceed().
PendingOnceCleared == IF interstitial THEN NoItem ELSE new_pending

\* Stores `item' where the current item is.
SetCurrentItem(item) ==
    /\ transientItem' = IF transientItem # NoItem THEN item ELSE NoItem
    /\ new_pending' = IF transientItem = NoItem /\ pendingItemIndex = -1 /\ new_pending # NoItem
                      THEN item ELSE new_pending
    /\ items' = IF transientItem # NoItem THEN items
                ELSE IF pendingItemIndex # -1
                THEN [items EXCEPT ![pendingItemIndex + 1] = item]
                ELSE IF new_pending # NoItem THEN items
                ELSE [items EXCEPT ![lastCommittedItemIndex + 1] = item]

-----------------------------------------------------------------------------
(* Loads.                                                                  *)

Init ==
    /\ items = << >>
    /\ lastCommittedItemIndex = -1
    /\ previousItemIndex = -1
    /\ pendingItemIndex = -1
    /\ new_pending = NoItem
    /\ transientItem = NoItem
    /\ transient_url_rewriters = FALSE
    /\ interstitial = FALSE

\* -[CRWWebController loadWithParams:].  Requesting another user agent is only
\* offered for the one the visible page does not have (Tab's
\* usesDesktopUserAgent and reloadWithUserAgentType:).
LoadURLWithParams(url, loaded_url, transition, initiation, option) ==
    /\ option # "INHERIT" =>
           \/ CurrentItem = NoItem
           \/ /\ transition = "RELOAD"
              /\ VisibleItem # NoItem /\ VisibleItem.user_agent # option
    /\ AddPendingItem(url, loaded_url, transition, initiation, option,
                      PendingOnceCleared, TRUE)
    /\ interstitial' = FALSE

\* -updatePendingItem:, the redirect of a load.
UpdatePendingItem(url) ==
    /\ IF pendingItemIndex = -1
       THEN new_pending' = [new_pending EXCEPT !.url = url] /\ UNCHANGED items
       ELSE items' = [items EXCEPT ![pendingItemIndex + 1].url = url] /\ UNCHANGED new_pending
    /\ transientItem' = IF PendingItem.url = url THEN transientItem ELSE NoItem
    /\ UNCHANGED <<lastCommittedItemIndex, previousItemIndex, pendingItemIndex,
                   transient_url_rewriters>>

\* -registerLoadRequestForURL:, when the page starts or redirects a load.
RegisterLoadRequest(url, loaded_url, transition) ==
    \/ PendingItem # NoItem /\ loaded_url = url /\ UpdatePendingItem(url)
    \/ /\ PendingItem = NoItem
       /\ AddPendingItem(url, loaded_url, transition, "RENDERER", "INHERIT", NoItem, FALSE)

RendererLoad(url, loaded_url, transition) ==
    /\ ~ interstitial
    /\ RegisterLoadRequest(url, loaded_url, transition)
    /\ UNCHANGED interstitial

\* Mutant of CommitNewItem: the forward items stay.
CommitKeepingForward ==
    /\ ~ interstitial
    /\ pendingItemIndex = -1
    /\ new_pending # NoItem
    /\ lastCommittedItemIndex + 2 <= MaxItems
    /\ items' = Append(items, [new_pending EXCEPT !.initiation = "NONE"])
    /\ previousItemIndex' = lastCommittedItemIndex
    /\ lastCommittedItemIndex' = lastCommittedItemIndex + 1
    /\ new_pending' = NoItem
    /\ transientItem' = NoItem
    /\ transient_url_rewriters' = FALSE
    /\ UNCHANGED <<pendingItemIndex, interstitial>>

\* -commitPendingItem for a new page: the forward items go.  The load an
\* interstitial is shown for has failed: it cannot commit before Proceed().
CommitNewItem ==
    /\ ~ interstitial
    /\ pendingItemIndex = -1
    /\ new_pending # NoItem
    /\ lastCommittedItemIndex + 2 <= MaxItems
    /\ items' = Append(SubSeq(items, 1, lastCommittedItemIndex + 1),
                       [new_pending EXCEPT !.initiation = "NONE"])
    /\ previousItemIndex' = lastCommittedItemIndex
    /\ lastCommittedItemIndex' = lastCommittedItemIndex + 1
    /\ new_pending' = NoItem
    /\ transientItem' = NoItem
    /\ transient_url_rewriters' = FALSE
    /\ UNCHANGED <<pendingItemIndex, interstitial>>

\* -commitPendingItem for an item of the history.
CommitHistoryItem ==
    /\ ~ interstitial
    /\ pendingItemIndex # -1
    /\ items' = [items EXCEPT ![pendingItemIndex + 1].initiation = "NONE"]
    /\ previousItemIndex' = lastCommittedItemIndex
    /\ lastCommittedItemIndex' = pendingItemIndex
    /\ pendingItemIndex' = -1
    /\ transient_url_rewriters' =
           (transient_url_rewriters /\ pendingItemIndex = lastCommittedItemIndex)
    /\ UNCHANGED <<new_pending, transientItem, interstitial>>

\* -webView:didCommitNavigation: for a navigation that is not the latest one:
\* -goToItemAtIndex:discardNonCommittedItems:NO.
CommitLateNavigation(index) ==
    /\ index # lastCommittedItemIndex
    /\ previousItemIndex' = lastCommittedItemIndex
    /\ lastCommittedItemIndex' = index
    /\ UNCHANGED <<items, pendingItemIndex, new_pending, transientItem,
                   transient_url_rewriters, interstitial>>

\* Stopped, cancelled and failed loads, and WebInterstitialImpl::DontProceed().
DiscardNonCommittedItems ==
    /\ transientItem' = NoItem
    /\ new_pending' = NoItem
    /\ pendingItemIndex' = -1
    /\ interstitial' = FALSE
    /\ UNCHANGED <<items, lastCommittedItemIndex, previousItemIndex,
                   transient_url_rewriters>>

\* Reload and -[CRWWebController reload]; nothing in the tree asks for the
\* ORIGINAL_REQUEST_URL type, so items do not carry that URL.
Reload ==
    /\ CurrentItem # NoItem
    /\ IF transientItem # NoItem
       THEN LoadURLWithParams(transientItem.url, transientItem.url, "RELOAD", "USER", "INHERIT")
       ELSE /\ SetCurrentItem([CurrentItem EXCEPT !.transition = "RELOAD"])
            /\ UNCHANGED <<lastCommittedItemIndex, previousItemIndex, pendingItemIndex,
                           transient_url_rewriters, interstitial>>

AddTransientURLRewriter ==
    /\ transient_url_rewriters' = TRUE
    /\ UNCHANGED <<items, lastCommittedItemIndex, previousItemIndex, pendingItemIndex,
                   new_pending, transientItem, interstitial>>

-----------------------------------------------------------------------------
(* History navigation.                                                     *)

\* The index in items of the current item, once an interstitial is cleared.
FromIndex ==
    IF interstitial THEN lastCommittedItemIndex
    ELSE IF transientItem # NoItem THEN -1
    ELSE IF pendingItemIndex # -1 THEN pendingItemIndex
    ELSE IF new_pending # NoItem THEN -1
    ELSE lastCommittedItemIndex

\* -goToItemAtIndex: within one document: no load, the index moves.  Only going
\* back discards the pending item.
GoToSameDocument(index) ==
    LET back == index < lastCommittedItemIndex
    IN  /\ IsSameDocumentNavigation(FromIndex, index)
        /\ interstitial' = FALSE
        /\ transientItem' = IF interstitial \/ index # lastCommittedItemIndex
                            THEN NoItem ELSE transientItem
        /\ new_pending' = IF interstitial \/ back THEN NoItem ELSE new_pending
        /\ pendingItemIndex' = IF interstitial \/ back THEN -1 ELSE pendingItemIndex
        /\ previousItemIndex' = IF index = lastCommittedItemIndex THEN previousItemIndex
                                ELSE lastCommittedItemIndex
        /\ lastCommittedItemIndex' = index
        /\ UNCHANGED <<items, transient_url_rewriters>>

\* Mutant of GoToOtherDocument: a new page that was pending stays so.
GoToKeepingPending(index) ==
    /\ ~ IsSameDocumentNavigation(FromIndex, index)
    /\ interstitial' = FALSE
    /\ transientItem' = NoItem
    /\ pendingItemIndex' = index
    /\ UNCHANGED <<items, lastCommittedItemIndex, previousItemIndex, new_pending,
                   transient_url_rewriters>>

\* -goToItemAtIndex: with a load: the item is pending until it commits.
GoToOtherDocument(index) ==
    /\ ~ IsSameDocumentNavigation(FromIndex, index)
    /\ interstitial' = FALSE
    /\ transientItem' = NoItem
    /\ new_pending' = NoItem
    /\ pendingItemIndex' = index
    /\ UNCHANGED <<items, lastCommittedItemIndex, previousItemIndex,
                   transient_url_rewriters>>

GoToIndex(index) == GoToSameDocument(index) \/ GoToOtherDocument(index)

\* GoBack, GoForward and -goDelta:.
GoToOffset(offset) == CanGoToOffset(offset) /\ GoToIndex(GetIndexForOffset(offset))

\* The history.pushState() message.  (Nothing reads the initiation type of an
\* item in the list: it is NONE for all of them.)
PushState(url, transition) ==
    /\ PendingItem = NoItem
    /\ CurrentItem # NoItem /\ LastCommittedItem # NoItem
    /\ SameOrigin(CurrentItem.url, url) /\ SameOrigin(LastCommittedItem.url, url)
    /\ lastCommittedItemIndex + 2 <= MaxItems
    /\ items' = Append(SubSeq(items, 1, lastCommittedItemIndex + 1),
                       [ItemWithURL(url, transition, "NONE") EXCEPT
                           !.user_agent = LastCommittedItem.user_agent,
                           !.same_document = TRUE])
    /\ previousItemIndex' = lastCommittedItemIndex
    /\ lastCommittedItemIndex' = lastCommittedItemIndex + 1
    /\ transientItem' = NoItem
    /\ transient_url_rewriters' = FALSE
    /\ UNCHANGED <<pendingItemIndex, new_pending, interstitial>>

\* The history.replaceState() message.
ReplaceState(url) ==
    /\ CurrentItem # NoItem
    /\ SameOrigin(CurrentItem.url, url)
    /\ SetCurrentItem([CurrentItem EXCEPT !.url = url])
    /\ UNCHANGED <<lastCommittedItemIndex, previousItemIndex, pendingItemIndex,
                   transient_url_rewriters, interstitial>>

-----------------------------------------------------------------------------
(* Interstitials.                                                          *)

\* The load of the pending page, or the reload of the committed one, fails with
\* a certificate error: WebInterstitialImpl::Show() and AddTransientItem.
ShowInterstitial ==
    LET loading == IF PendingItem # NoItem THEN PendingItem ELSE LastCommittedItem
    IN  /\ ~ interstitial
        /\ loading # NoItem
        /\ transientItem' = [ItemWithURL(loading.url, "CLIENT_REDIRECT", "USER")
                                EXCEPT !.user_agent = loading.user_agent]
        /\ transient_url_rewriters' = FALSE
        /\ interstitial' = TRUE
        /\ UNCHANGED <<items, lastCommittedItemIndex, previousItemIndex,
                       pendingItemIndex, new_pending>>

\* WebInterstitialImpl::Proceed(): the current item, the transient one, is loaded.
Proceed ==
    /\ interstitial
    /\ transientItem # NoItem
    /\ RegisterLoadRequest(transientItem.url, transientItem.url, transientItem.transition)
    /\ interstitial' = FALSE

-----------------------------------------------------------------------------
(* Edits of the list.                                                      *)

\* Mutant of RemoveItemAtIndex: the committed index is not shifted.
RemoveUnshifted(index) ==
    /\ index # lastCommittedItemIndex /\ index # GetPendingItemIndex
    /\ items' = SubSeq(items, 1, index) \o SubSeq(items, index + 2, Len(items))
    /\ lastCommittedItemIndex' = lastCommittedItemIndex
    /\ previousItemIndex' = IF previousItemIndex >= index
                            THEN previousItemIndex - 1 ELSE previousItemIndex
    /\ transientItem' = NoItem
    /\ new_pending' = NoItem
    /\ pendingItemIndex' = -1
    /\ UNCHANGED <<transient_url_rewriters, interstitial>>

RemoveItemAtIndex(index) ==
    /\ index # lastCommittedItemIndex /\ index # GetPendingItemIndex
    /\ items' = SubSeq(items, 1, index) \o SubSeq(items, index + 2, Len(items))
    /\ lastCommittedItemIndex' = IF lastCommittedItemIndex > index
                                 THEN lastCommittedItemIndex - 1
                                 ELSE lastCommittedItemIndex
    /\ previousItemIndex' = IF previousItemIndex >= index
                            THEN previousItemIndex - 1 ELSE previousItemIndex
    /\ transientItem' = NoItem
    /\ new_pending' = NoItem
    /\ pendingItemIndex' = -1
    /\ UNCHANGED <<transient_url_rewriters, interstitial>>

CanPruneAllButLastCommittedItem ==
    lastCommittedItemIndex # -1 /\ pendingItemIndex = -1 /\ transientItem = NoItem

\* Mutant of CopyStateFromAndPrune: the committed index is not moved.
CopyUnshifted(source) ==
    /\ CanPruneAllButLastCommittedItem
    /\ Len(source) < MaxItems
    /\ items' = Append(source, LastCommittedItem)
    /\ previousItemIndex' = -1
    /\ UNCHANGED <<lastCommittedItemIndex, pendingItemIndex, new_pending, transientItem,
                   transient_url_rewriters, interstitial>>

\* source: the items of the other tab up to its last committed one.
CopyStateFromAndPrune(source) ==
    /\ CanPruneAllButLastCommittedItem
    /\ Len(source) < MaxItems
    /\ items' = Append(source, LastCommittedItem)
    /\ previousItemIndex' = -1
    /\ lastCommittedItemIndex' = Len(source)
    /\ UNCHANGED <<pendingItemIndex, new_pending, transientItem,
                   transient_url_rewriters, interstitial>>

\* The session controller is replaced by one with restored items.
ReplaceSessionHistory(restored, index) ==
    /\ ~ interstitial
    /\ Len(restored) <= MaxItems
    /\ items' = restored
    /\ lastCommittedItemIndex' = IF index < Len(restored) THEN index ELSE Len(restored) - 1
    /\ previousItemIndex' = -1
    /\ pendingItemIndex' = -1
    /\ new_pending' = NoItem
    /\ transientItem' = NoItem
    /\ UNCHANGED <<transient_url_rewriters, interstitial>>

\* Histories that come from elsewhere: the items of another tab or of a session.
Histories ==
    UNION {[1 .. n -> {[ItemWithURL(url, transition, "NONE")
                           EXCEPT !.same_document = same_document] :
                          url \in URLs, transition \in Transitions \cap {"CLIENT_REDIRECT", "LINK"},
                          same_document \in BOOLEAN}] : n \in 1 .. MaxRestored}

Next ==
    \/ \E url, loaded_url \in URLs, transition \in Transitions :
        \/ \E option \in Options, initiation \in {"USER", "RENDERER"} :
               LoadURLWithParams(url, loaded_url, transition, initiation, option)
        \/ RendererLoad(url, loaded_url, transition)
    \/ \E url \in URLs, transition \in {"LINK", "CLIENT_REDIRECT"} : PushState(url, transition)
    \/ \E url \in URLs : ReplaceState(url)
    \/ CommitNewItem
    \/ CommitHistoryItem
    \/ \E index \in IndicesOfItems :
        \/ CommitLateNavigation(index)
        \/ GoToIndex(index)
        \/ RemoveItemAtIndex(index)
    \/ \E offset \in {-2, -1, 1, 2} : GoToOffset(offset)
    \/ DiscardNonCommittedItems
    \/ Reload
    \/ AddTransientURLRewriter
    \/ ShowInterstitial
    \/ Proceed
    \/ \E source \in Histories :
        \/ CopyStateFromAndPrune(source)
        \/ \E index \in 0 .. MaxRestored : ReplaceSessionHistory(source, index)

Spec == Init /\ [][Next]_vars

-----------------------------------------------------------------------------
(* Properties.                                                             *)

\* Type correctness of the session history.
TypeOK ==
    /\ items \in Seq(NavigationItem)
    /\ lastCommittedItemIndex \in Int
    /\ previousItemIndex \in Int
    /\ pendingItemIndex \in Int
    /\ new_pending \in NavigationItem \cup {NoItem}
    /\ transientItem \in NavigationItem \cup {NoItem}
    /\ transient_url_rewriters \in BOOLEAN
    /\ interstitial \in BOOLEAN

\* The three indices are -1 or index an item, so that no accessor reads past
\* _items, and there is a committed item whenever there are items (what the
\* DCHECK(details.item) of OnNavigationItemCommitted needs).
IndicesValid ==
    /\ lastCommittedItemIndex \in -1 .. GetItemCount - 1
    /\ previousItemIndex \in -1 .. GetItemCount - 1
    /\ pendingItemIndex \in -1 .. GetItemCount - 1
    /\ lastCommittedItemIndex = -1 => items = << >>

\* A history navigation and a new one are never pending together, whatever
\* overtakes what: the DCHECK(!_pendingItem) that ends -commitPendingItem.
OnePendingItem == pendingItemIndex # -1 => new_pending = NoItem

\* The back button goes to the first page of the list behind it, and is enabled
\* exactly when that list is not empty, with redirects and an interstitial.
BackButtonMatchesList ==
    pendingItemIndex = -1 =>
        /\ CanGoToOffset(-1) <=> BackwardIndices # {}
        /\ CanGoToOffset(-1) => GetIndexForOffset(-1) = Max(BackwardIndices)

\* Going forward and then back returns to the page it left, over any redirects,
\* unless that page is itself inside a chain of redirects.
ForwardThenBack ==
    /\ CanGoToOffset(1) /\ lastCommittedItemIndex # -1 /\ pendingItemIndex = -1
    /\ ~ IsRedirect(lastCommittedItemIndex + 1)
    => IndexAfterSteps(GetIndexForOffset(1), -1) = lastCommittedItemIndex

\* Removing another item, or inserting the history of another tab before it,
\* leaves the committed page the committed page: a step that changes it is neither.
CommittedPageKept ==
    [][LastCommittedItem' # LastCommittedItem =>
           /\ ~ \E index \in IndicesOfItems : RemoveItemAtIndex(index)
           /\ ~ \E source \in Histories : CopyStateFromAndPrune(source)]_vars

\* A new page ends the history: after it commits nothing can be gone forward to,
\* and every page up to the one it was opened from is still there.
NewPageEndsHistory ==
    [][CommitNewItem \/ (\E url \in URLs, t \in TransitionTypes : PushState(url, t)) =>
           /\ LastCommittedItem' = items'[Len(items')]
           /\ PreviousItem' = LastCommittedItem
           /\ SubSeq(items', 1, lastCommittedItemIndex + 1)
                  = SubSeq(items, 1, lastCommittedItemIndex + 1)]_vars
=============================================================================
