---------------------------- MODULE WebStateList ----------------------------
(***************************************************************************)
(* The list of tabs of one browser window: WebStateList                    *)
(* (chrome/browser/web_state_list/web_state_list.mm) with the              *)
(* WebStateListOrderController that places new tabs and picks the tab to   *)
(* select when the active one goes away.                                   *)
(*                                                                         *)
(* The list lives on the UI thread and every operation runs to completion, *)
(* so an operation is one action.  The synchronous notifications it sends  *)
(* to the WebStateListObservers are recorded, in order, in `notified';     *)
(* WebStateListObservers.tla feeds them to the observers of the source.    *)
(* Indices are the code's: 0-based, kInvalidIndex = -1.                    *)
(***************************************************************************)
EXTENDS Integers, Sequences, SequencesExt

CONSTANTS
    WebStates,           \* identities of WebState objects
    NoWebState,          \* nullptr
    MaxItems             \* bound on the committed items of a WebState

ASSUME WebStateListAssumption ==
    /\ NoWebState \notin WebStates
    /\ MaxItems \in Nat

VARIABLES
    wrappers,        \* web_state_wrappers_: the WebStateWrappers, in tab order
    active_index,    \* active_index_
    parented,        \* WebStates whose Tab has this window's TabModel as parent
    last_committed,  \* external: GetLastCommittedItemIndex() of each WebState
    closing_all,     \* CloseAllWebStates() is in its loop
    notified         \* the notifications sent by the last operation, in order

vars == <<wrappers, active_index, parented, last_committed, closing_all, notified>>

kInvalidIndex == -1
NavigationIndices == -1 .. MaxItems - 1

WebStateWrapper ==
    [web_state : WebStates,
     opener : WebStates \cup {NoWebState},
     navigation_index : NavigationIndices]

count == Len(wrappers)
Indices == 0 .. count - 1
ContainsIndex(index) == 0 <= index /\ index < count
GetWebStateAt(index) == wrappers[index + 1].web_state
InList == {wrappers[p].web_state : p \in 1 .. Len(wrappers)}

GetActiveWebState ==
    IF active_index # kInvalidIndex THEN GetWebStateAt(active_index) ELSE NoWebState

GetIndexOfWebState(web_state) ==
    IF \E index \in Indices : GetWebStateAt(index) = web_state
    THEN CHOOSE index \in Indices : GetWebStateAt(index) = web_state
    ELSE kInvalidIndex

-----------------------------------------------------------------------------
(* Openers.                                                                *)

\* WebStateOpener(opener): the opener and the navigation it is at right now.
WebStateOpener(opener) ==
    [opener |-> opener,
     navigation_index |-> IF opener = NoWebState THEN -1 ELSE last_committed[opener]]

NewWrapper(web_state) ==
    [web_state |-> web_state, opener |-> NoWebState, navigation_index |-> -1]

WithOpener(wrapper, opener) ==
    [web_state |-> wrapper.web_state, opener |-> opener.opener,
     navigation_index |-> opener.navigation_index]

\* Mutant of WasOpenedBy: children of every page of the opener count.
WasOpenedByAnyPage(index, opener, use_group) == wrappers[index + 1].opener = opener

WasOpenedBy(index, opener, use_group) ==
    /\ wrappers[index + 1].opener = opener
    /\ use_group => wrappers[index + 1].navigation_index = last_committed[opener]

\* The loop stops at the n-th member of the first run of WebStates opened by
\* `opener' after start_index, or at the end of that run when it is shorter.
IsNthOpenedBy(index, opener, start_index, use_group, n) ==
    \E first \in start_index + 1 .. index :
        /\ \A i \in start_index + 1 .. first - 1 : ~ WasOpenedBy(i, opener, use_group)
        /\ \A i \in first .. index : WasOpenedBy(i, opener, use_group)
        /\ index - first < n
        /\ \/ index - first = n - 1
           \/ index = count - 1
           \/ ~ WasOpenedBy(index + 1, opener, use_group)

GetIndexOfNthWebStateOpenedBy(opener, start_index, use_group, n) ==
    IF /\ opener # NoWebState
       /\ ContainsIndex(start_index)
       /\ \E index \in start_index + 1 .. count - 1 :
             IsNthOpenedBy(index, opener, start_index, use_group, n)
    THEN CHOOSE index \in start_index + 1 .. count - 1 :
             IsNthOpenedBy(index, opener, start_index, use_group, n)
    ELSE kInvalidIndex

GetIndexOfNextWebStateOpenedBy(opener, start_index, use_group) ==
    GetIndexOfNthWebStateOpenedBy(opener, start_index, use_group, 1)

\* n is INT_MAX in the code: any number no run can reach.
GetIndexOfLastWebStateOpenedBy(opener, start_index, use_group) ==
    GetIndexOfNthWebStateOpenedBy(opener, start_index, use_group, count + 1)

\* Mutant of ClearOpenersReferencing: openers are never cleared.
OpenersKept(ws, web_state) == ws

\* The wrappers once no opener refers to web_state.
ClearOpenersReferencing(ws, web_state) ==
    [p \in 1 .. Len(ws) |->
        IF ws[p].opener = web_state THEN NewWrapper(ws[p].web_state) ELSE ws[p]]

-----------------------------------------------------------------------------
(* WebStateListOrderController.                                            *)

DetermineInsertionIndex(is_link, opener) ==
    IF opener = NoWebState \/ ~ is_link
    THEN count
    ELSE LET opener_index == GetIndexOfWebState(opener)
             child_index  == GetIndexOfLastWebStateOpenedBy(opener, opener_index, TRUE)
         IN  (IF child_index # kInvalidIndex THEN child_index ELSE opener_index) + 1

\* std::min(0, index - 1), as the code has it: 0 for every index > removing_index.
GetValidIndex(index, removing_index) ==
    IF removing_index < index
    THEN (IF 0 < index - 1 THEN 0 ELSE index - 1)
    ELSE index

\* Mutant of DetermineNewActiveIndex: the tab before it, whatever is there.
AlwaysPrevious(removing_index) == removing_index - 1

DetermineNewActiveIndex(removing_index) ==
    LET child   == GetIndexOfNextWebStateOpenedBy(
                       GetWebStateAt(removing_index), removing_index, FALSE)
        opener  == wrappers[removing_index + 1].opener
        sibling == GetIndexOfNextWebStateOpenedBy(opener, removing_index, FALSE)
    IN  IF child # kInvalidIndex
        THEN GetValidIndex(child, removing_index)
        ELSE IF opener # NoWebState
        THEN GetValidIndex(IF sibling # kInvalidIndex THEN sibling
                           ELSE GetIndexOfWebState(opener), removing_index)
        ELSE IF removing_index = count - 1
        THEN removing_index - 1      \* kInvalidIndex when it is the only WebState
        ELSE removing_index

-----------------------------------------------------------------------------
(* Notifications.  `active' is what the observer reads from active_index()  *)
(* while it handles the notification.                                      *)

Notification ==
    [event : {"inserted", "moved", "replaced", "will_detach", "detached",
              "will_close", "activated"},
     web_state : WebStates \cup {NoWebState},
     index : Int, to_index : Int, active : Int, user_action : BOOLEAN]

Notify(event, web_state, index, active) ==
    [event |-> event, web_state |-> web_state, index |-> index,
     to_index |-> index, active |-> active, user_action |-> FALSE]

NotifyMoved(web_state, from_index, to_index, active) ==
    [event |-> "moved", web_state |-> web_state, index |-> from_index,
     to_index |-> to_index, active |-> active, user_action |-> FALSE]

NotifyActivated(web_state, active, user_action) ==
    [event |-> "activated", web_state |-> web_state, index |-> active,
     to_index |-> active, active |-> active, user_action |-> user_action]

-----------------------------------------------------------------------------
(* Operations.                                                             *)

Init ==
    /\ wrappers = << >>
    /\ active_index = kInvalidIndex
    /\ parented = {}
    /\ last_committed = [w \in WebStates |-> -1]
    /\ closing_all = FALSE
    /\ notified = << >>

\* Mutant of InsertWrapperAt: inserting at the active index does not shift it.
InsertShiftingStrictly(index, wrapper) ==
    LET new_active == IF active_index > index THEN active_index + 1 ELSE active_index
    IN  /\ ~ closing_all
        /\ wrapper.web_state \notin InList
        /\ wrappers' = InsertAt(wrappers, index + 1, wrapper)
        /\ active_index' = new_active
        /\ parented' = parented \cup {wrapper.web_state}
        /\ notified' = <<Notify("inserted", wrapper.web_state, index, new_active)>>
        /\ UNCHANGED <<last_committed, closing_all>>

\* The part InsertWebState and AppendWebState share.  The caller owns web_state
\* (std::unique_ptr), so it is not in the list.
InsertWrapperAt(index, wrapper) ==
    LET new_active == IF active_index >= index THEN active_index + 1 ELSE active_index
    IN  /\ ~ closing_all
        /\ wrapper.web_state \notin InList
        /\ wrappers' = InsertAt(wrappers, index + 1, wrapper)
        /\ active_index' = new_active
        /\ parented' = parented \cup {wrapper.web_state}
        /\ notified' = <<Notify("inserted", wrapper.web_state, index, new_active)>>
        /\ UNCHANGED <<last_committed, closing_all>>

InsertWebState(index, web_state) ==
    /\ ContainsIndex(index) \/ index = count
    /\ InsertWrapperAt(index, NewWrapper(web_state))

\* opener is NoWebState or a WebState of the list (DCHECKed by
\* SetOpenerOfWebStateAt); the clamp to count() is the code's.
AppendWebState(is_link, web_state, opener) ==
    LET determined == DetermineInsertionIndex(is_link, opener)
        index == IF determined < 0 \/ count < determined THEN count ELSE determined
    IN  /\ opener = NoWebState \/ opener \in InList
        /\ InsertWrapperAt(index, WithOpener(NewWrapper(web_state), WebStateOpener(opener)))

SetOpenerOfWebStateAt(index, opener) ==
    /\ ~ closing_all
    /\ ContainsIndex(index)
    /\ opener.opener \in InList
    /\ opener.opener # GetWebStateAt(index)
    /\ wrappers' = [wrappers EXCEPT ![index + 1] = WithOpener(@, opener)]
    /\ notified' = << >>
    /\ UNCHANGED <<active_index, parented, last_committed, closing_all>>

MoveWebStateAt(from_index, to_index) ==
    LET wrapper == wrappers[from_index + 1]
        between == IF from_index < to_index
                   THEN from_index <= active_index /\ active_index <= to_index
                   ELSE to_index <= active_index /\ active_index <= from_index
        new_active == IF active_index = from_index THEN to_index
                      ELSE IF ~ between THEN active_index
                      ELSE IF from_index < to_index THEN active_index - 1
                      ELSE active_index + 1
    IN  /\ ~ closing_all
        /\ ContainsIndex(from_index) /\ ContainsIndex(to_index)
        /\ from_index # to_index
        /\ wrappers' = InsertAt(RemoveAt(wrappers, from_index + 1), to_index + 1, wrapper)
        /\ active_index' = new_active
        /\ notified' = <<NotifyMoved(wrapper.web_state, from_index, to_index, new_active)>>
        /\ UNCHANGED <<parented, last_committed, closing_all>>

ReplaceWebStateAt(index, web_state) ==
    LET old == GetWebStateAt(index)
    IN  /\ ~ closing_all
        /\ ContainsIndex(index)
        /\ web_state \notin InList
        /\ wrappers' = [ClearOpenersReferencing(wrappers, old)
                            EXCEPT ![index + 1] = NewWrapper(web_state)]
        /\ parented' = (parented \cup {web_state}) \ {old}
        /\ notified' = <<Notify("replaced", web_state, index, active_index)>>
        /\ UNCHANGED <<active_index, last_committed, closing_all>>

\* Mutant of ActiveIndexAfterDetach: a removal before the active tab is ignored.
DetachUnshifted(index) ==
    IF active_index = index THEN DetermineNewActiveIndex(index) ELSE active_index

ActiveIndexAfterDetach(index) ==
    IF active_index > index THEN active_index - 1
    ELSE IF active_index = index THEN DetermineNewActiveIndex(index)
    ELSE active_index

\* The body of DetachWebStateAt; `then' is what the caller still notifies.
DetachWrapperAt(index, then) ==
    LET web_state == GetWebStateAt(index)
        rest      == RemoveAt(ClearOpenersReferencing(wrappers, web_state), index + 1)
        new       == ActiveIndexAfterDetach(index)
        selected  == IF new = kInvalidIndex THEN NoWebState ELSE rest[new + 1].web_state
        activated == IF index = active_index
                     THEN <<NotifyActivated(selected, new, FALSE)>> ELSE << >>
    IN  /\ wrappers' = rest
        /\ active_index' = new
        /\ parented' = parented \ {web_state}
        /\ notified' = <<Notify("will_detach", web_state, index, active_index),
                         Notify("detached", web_state, index, new)>> \o activated \o then

DetachWebStateAt(index) ==
    /\ ~ closing_all
    /\ ContainsIndex(index)
    /\ DetachWrapperAt(index, << >>)
    /\ UNCHANGED <<last_committed, closing_all>>

\* The closed WebState is destroyed: its identity stands for a fresh one next.
CloseWrapperAt(index) ==
    /\ DetachWrapperAt(index, <<Notify("will_close", GetWebStateAt(index), index,
                                       ActiveIndexAfterDetach(index))>>)
    /\ last_committed' = [last_committed EXCEPT ![GetWebStateAt(index)] = -1]

CloseWebStateAt(index) ==
    /\ ~ closing_all
    /\ ContainsIndex(index)
    /\ CloseWrapperAt(index)
    /\ UNCHANGED closing_all

CloseAllWebStates ==
    /\ ~ closing_all
    /\ count > 0
    /\ closing_all' = TRUE
    /\ notified' = << >>
    /\ UNCHANGED <<wrappers, active_index, parented, last_committed>>

\* One iteration of the loop of CloseAllWebStates().
CloseAllStep ==
    /\ closing_all
    /\ CloseWrapperAt(count - 1)
    /\ closing_all' = (count > 1)

ActivateWebStateAt(index) ==
    LET new == GetWebStateAt(index)
    IN  /\ ~ closing_all
        /\ ContainsIndex(index)
        /\ active_index' = index
        /\ notified' = IF new = GetActiveWebState THEN << >>
                       ELSE <<NotifyActivated(new, index, TRUE)>>
        /\ UNCHANGED <<wrappers, parented, last_committed, closing_all>>

\* External: the NavigationManager of a WebState commits or goes somewhere.
Navigate(web_state, navigation_index) ==
    /\ ~ closing_all
    /\ web_state \in InList
    /\ navigation_index # last_committed[web_state]
    /\ last_committed' = [last_committed EXCEPT ![web_state] = navigation_index]
    /\ notified' = << >>
    /\ UNCHANGED <<wrappers, active_index, parented, closing_all>>

Next ==
    \/ \E web_state \in WebStates :
        \/ \E index \in 0 .. count : InsertWebState(index, web_state)
        \/ \E is_link \in BOOLEAN, opener \in WebStates \cup {NoWebState} :
               AppendWebState(is_link, web_state, opener)
        \/ \E index \in Indices : ReplaceWebStateAt(index, web_state)
        \/ \E navigation_index \in 0 .. MaxItems - 1 :
               Navigate(web_state, navigation_index)
    \/ \E index \in Indices :
        \/ \E opener \in [opener : WebStates, navigation_index : NavigationIndices] :
               SetOpenerOfWebStateAt(index, opener)
        \/ \E to_index \in Indices : MoveWebStateAt(index, to_index)
        \/ DetachWebStateAt(index)
        \/ CloseWebStateAt(index)
        \/ ActivateWebStateAt(index)
    \/ CloseAllWebStates
    \/ CloseAllStep

Spec == Init /\ [][Next]_vars

-----------------------------------------------------------------------------
(* Properties.                                                             *)

\* Type correctness of the list.
TypeOK ==
    /\ wrappers \in Seq(WebStateWrapper)
    /\ active_index \in Int
    /\ parented \subseteq WebStates
    /\ last_committed \in [WebStates -> NavigationIndices]
    /\ closing_all \in BOOLEAN
    /\ notified \in Seq(Notification)

\* GetActiveWebState() never reads past the vector: active_index_ is
\* kInvalidIndex or the index of a WebState, whatever DetermineNewActiveIndex
\* answered for the tab that was removed.
ActiveIndexValid ==
    active_index = kInvalidIndex \/ ContainsIndex(active_index)

\* No dangling opener: an opener recorded in a wrapper is another WebState that
\* is in the list now, so the raw pointer the order controller dereferences
\* (opener->GetNavigationManager()) is alive.
OpenersInList ==
    \A p \in 1 .. Len(wrappers) :
        \/ wrappers[p].opener = NoWebState
        \/ wrappers[p].opener \in InList /\ wrappers[p].opener # wrappers[p].web_state

\* A WebState sits at one position at most.
NoDuplicates ==
    \A p, q \in 1 .. Len(wrappers) :
        wrappers[p].web_state = wrappers[q].web_state => p = q

\* A Tab has the TabModel as its parent exactly while its WebState is in the
\* list, at one position: what DCHECK(!model || !_parentTabModel) in
\* -[Tab setParentTabModel:] relies on when a tab is added again.
ParentedOnce == parented = InList /\ NoDuplicates

\* Once a tab is selected some tab stays selected until the list is empty:
\* removing the active tab always finds a successor.
SelectionKept ==
    [][active_index # kInvalidIndex /\ wrappers' # << >>
           => active_index' # kInvalidIndex]_vars

\* The active WebState changes only together with a notification that carries
\* the new one: WebStateActivatedAt, or WebStateReplacedAt at the active index.
ActiveChangeNotified ==
    [][GetActiveWebState' # GetActiveWebState =>
           \E i \in 1 .. Len(notified') :
               /\ notified'[i].event \in {"activated", "replaced"}
               /\ notified'[i].web_state = GetActiveWebState'
               /\ notified'[i].index = active_index']_vars

\* A tab opened from a link joins the group of its opener: its left neighbour is
\* the opener or a tab opened from the opener's current page, and its right
\* neighbour, if any, is not (the run of tabs of that page is not split).
NewTabJoinsGroup ==
    [][\A web_state \in InList' \ InList, opener \in InList :
           LET p == GetIndexOfWebState(web_state)' + 1
               InGroup(w) ==
                   w.opener = opener /\ w.navigation_index = last_committed[opener]
           IN  AppendWebState(TRUE, web_state, opener) =>
                   /\ p > 1
                   /\ wrappers'[p - 1].web_state = opener \/ InGroup(wrappers'[p - 1])
                   /\ p < Len(wrappers') => ~ InGroup(wrappers'[p + 1])]_vars

\* What the comments of DetermineNewActiveIndex promise: when the active tab is
\* removed and has children after it, the first of them is selected.
FirstChildSelected ==
    [][\A index \in Indices :
           LET child == GetIndexOfNextWebStateOpenedBy(GetWebStateAt(index), index, FALSE)
           IN  /\ index = active_index
               /\ child # kInvalidIndex
               /\ GetWebStateAt(index) \notin InList' /\ Len(wrappers') = count - 1
               => GetActiveWebState' = GetWebStateAt(child)]_vars
=============================================================================
