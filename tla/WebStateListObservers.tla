----------------------- MODULE WebStateListObservers ------------------------
(***************************************************************************)
(* The WebStateList with the observers that keep state of their own:       *)
(*                                                                         *)
(*  - TabCollectionMediator (clean/.../tab_collection_mediator.mm), which   *)
(*    forwards the changes to a consumer that keeps a copy of the tabs;    *)
(*  - TabModelClosingWebStateObserver, which saves the session when the     *)
(*    active tab is closed (with -[TabModel saveSessionImmediately:]);      *)
(*  - WebStateListFastEnumeration, which lets `for (Tab* tab in tabModel)'  *)
(*    notice that the list was mutated by the body of the loop.            *)
(*                                                                         *)
(* Observers are called synchronously, so one step of the list is followed *)
(* at once by the handling of its notifications, in the order sent.        *)
(***************************************************************************)
EXTENDS WebStateList

CONSTANT BatchSize   \* length of the buffer of countByEnumeratingWithState:

ASSUME BatchSizeAssumption == BatchSize \in Nat \ {0}

VARIABLES
    consumer,      \* what the TabCollectionConsumer shows
    closing,       \* TabModelClosingWebStateObserver
    enumeration,   \* the fast enumeration in progress, if any
    body           \* history: what the body of that loop was given, and whether a
                   \* tab was replaced since it began

obsvars == <<consumer, closing, enumeration, body>>
allvars == <<vars, obsvars>>

WebStatesOf(ws) == [p \in 1 .. Len(ws) |-> ws[p].web_state]

-----------------------------------------------------------------------------
(* TabCollectionMediator.                                                  *)

\* Mutant of DeleteItem: the selected index of the notification is ignored.
DeleteItemOnly(c, n) == [c EXCEPT !.items = RemoveAt(@, n.index + 1)]

DeleteItem(c, n) ==
    [items |-> RemoveAt(c.items, n.index + 1), selectedIndex |-> n.active]

ConsumerHandles(c, n) ==
    CASE n.event = "inserted" ->
            [items |-> InsertAt(c.items, n.index + 1, n.web_state),
             selectedIndex |-> n.active]
      [] n.event = "moved" ->
            [items |-> InsertAt(RemoveAt(c.items, n.index + 1), n.to_index + 1,
                                c.items[n.index + 1]),
             selectedIndex |-> n.active]
      [] n.event = "replaced" ->
            [c EXCEPT !.items[n.index + 1] = n.web_state]
      [] n.event = "detached" -> DeleteItem(c, n)
      [] n.event = "activated" -> [c EXCEPT !.selectedIndex = n.index]
      [] OTHER -> c

-----------------------------------------------------------------------------
(* TabModelClosingWebStateObserver.                                        *)

\* Mutant of ClosingHandles: the active index is read once the WebState is gone.
ClosingReadsTooLate(c, n) ==
    CASE n.event = "detached" ->
            [c EXCEPT !.lastDetachedWebStateWasActive = (n.active = n.index)]
      [] n.event = "will_close" ->
            [lastDetachedWebStateWasActive |-> FALSE,
             save |-> c.lastDetachedWebStateWasActive]
      [] OTHER -> c

\* save: -saveSessionImmediately: got past its early return, which is taken
\* while the list has tabs but no selected one.
ClosingHandles(c, n) ==
    CASE n.event = "will_detach" ->
            [c EXCEPT !.lastDetachedWebStateWasActive = (n.active = n.index)]
      [] n.event = "will_close" ->
            [lastDetachedWebStateWasActive |-> FALSE,
             save |-> /\ c.lastDetachedWebStateWasActive
                      /\ n.active # kInvalidIndex \/ Len(wrappers') = 0]
      [] OTHER -> c

-----------------------------------------------------------------------------
(* WebStateListFastEnumeration, and the loop over it.  `mutated' stands for  *)
(* _mutationCounter differing from its value when the loop began.  The      *)
(* method that should count replacements is named                          *)
(* ...didReplaceWebState:byWebState:atIndex:, which the observer bridge     *)
(* never calls.                                                            *)

NoEnumeration == [on |-> FALSE, offset |-> 0, batch |-> << >>, mutated |-> FALSE]
NoBody == [given |-> << >>, replaced |-> FALSE]

\* Mutant of EnumerationHandles: detaching a WebState is not counted.
EnumerationMissesDetach(e, n) ==
    [e EXCEPT !.mutated = @ \/ (e.on /\ n.event \in {"inserted", "moved"})]

EnumerationHandles(e, n) ==
    [e EXCEPT !.mutated = @ \/ (e.on /\ n.event \in {"inserted", "moved", "detached"})]

\* How many WebStates -countByEnumeratingWithState:objects:count: returns, and which.
Returned(offset) == IF BatchSize < count - offset THEN BatchSize ELSE count - offset
Buffer(offset) == [k \in 1 .. Returned(offset) |-> wrappers[offset + k].web_state]

\* The first call of a loop; one that finds no tab is the last as well.
BeginEnumeration ==
    /\ ~ closing_all /\ ~ enumeration.on /\ count > 0
    /\ enumeration' = [on |-> TRUE, offset |-> Returned(0), batch |-> Buffer(0),
                       mutated |-> FALSE]
    /\ UNCHANGED <<vars, consumer, closing, body>>

LoopEnds == enumeration' = NoEnumeration /\ body' = NoBody

\* The compiled loop compares the counter before each turn, and raises an exception
\* when it has changed; otherwise the body gets the next element of the buffer.
GiveNext ==
    /\ enumeration.on /\ enumeration.batch # << >>
    /\ \/ enumeration.mutated /\ LoopEnds
       \/ /\ ~ enumeration.mutated
          /\ enumeration' = [enumeration EXCEPT !.batch = Tail(@)]
          /\ body' = [body EXCEPT !.given = Append(@, Head(enumeration.batch))]
    /\ UNCHANGED <<vars, consumer, closing>>

\* The next call, when the buffer is used up, without a look at the counter.  With
\* no tab left the loop is over.  With less than none the DCHECK_LE fails; where
\* DCHECKs are off the call returns a huge number and the loop raises its exception.
CountByEnumerating ==
    /\ enumeration.on /\ enumeration.batch = << >>
    /\ \/ enumeration.offset >= count /\ LoopEnds
       \/ /\ enumeration.offset < count
          /\ enumeration' = [enumeration EXCEPT !.batch = Buffer(enumeration.offset),
                                                !.offset = @ + Returned(@)]
          /\ UNCHANGED body
    /\ UNCHANGED <<vars, consumer, closing>>

-----------------------------------------------------------------------------

ObsInit ==
    /\ Init
    /\ consumer = [items |-> << >>, selectedIndex |-> kInvalidIndex]
    /\ closing = [lastDetachedWebStateWasActive |-> FALSE, save |-> FALSE]
    /\ enumeration = NoEnumeration /\ body = NoBody

\* The three observers handle one notification, and then all those of an operation.
Observe(o, n) ==
    [consumer    |-> ConsumerHandles(o.consumer, n),
     closing     |-> ClosingHandles(o.closing, n),
     enumeration |-> EnumerationHandles(o.enumeration, n)]

Observed(o, notifications) ==
    LET after[i \in 0 .. Len(notifications)] ==
            IF i = 0 THEN o ELSE Observe(after[i - 1], notifications[i])
    IN  after[Len(notifications)]

\* Any operation of the list, with the handling of what it notified.
ListStep ==
    LET after == Observed([consumer    |-> consumer,
                           closing     |-> [closing EXCEPT !.save = FALSE],
                           enumeration |-> enumeration], notified')
    IN  /\ Next
        /\ consumer' = after.consumer
        /\ closing' = after.closing
        /\ enumeration' = after.enumeration
        /\ body' = [body EXCEPT !.replaced =
               @ \/ (enumeration.on /\ \E i \in 1 .. Len(notified') :
                                           notified'[i].event = "replaced")]

ObsNext == ListStep \/ BeginEnumeration \/ GiveNext \/ CountByEnumerating

ObsSpec == ObsInit /\ [][ObsNext]_allvars

-----------------------------------------------------------------------------
(* Properties.                                                             *)

\* The consumer of TabCollectionMediator shows exactly the tabs of the list, in
\* order, with the selection of the list: the notifications carry everything a
\* copy needs, also when the active tab is removed.
ConsumerMirrorsList ==
    /\ consumer.items = WebStatesOf(wrappers)
    /\ consumer.selectedIndex = active_index

\* A closed tab makes the closing observer save the session exactly when it was
\* the active one; a flag left over by an earlier detach never leaks into it.
SavedIffActiveClosed ==
    [][(\E i \in 1 .. Len(notified') : notified'[i].event = "will_close")
        /\ Len(wrappers') < count
        => (closing'.save <=> notified'[1].index = active_index)]_allvars

\* Whatever the body of a `for (Tab* tab in tabModel)' loop does to the list, the tabs
\* it is given are the first ones of the list as it is then, in order, none skipped
\* and none twice, and a loop that comes to its end with the counter unchanged has
\* given them all.  Replacing a tab is the exception, since it is not counted.
EnumerationInOrder ==
    [][~ body.replaced =>
        /\ Len(body'.given) > Len(body.given) =>
               /\ Len(body'.given) <= count
               /\ \A k \in DOMAIN body'.given : body'.given[k] = wrappers[k].web_state
        /\ enumeration.on /\ ~ enumeration'.on /\ ~ enumeration.mutated =>
               Len(body.given) = count]_allvars
=============================================================================
