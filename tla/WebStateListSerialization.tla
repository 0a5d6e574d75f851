--------------------- MODULE WebStateListSerialization ----------------------
(***************************************************************************)
(* Saving and restoring the tabs of a window:                              *)
(* web_state_list_serialization.mm and -[TabModel restoreSessionWindow:].  *)
(*                                                                         *)
(* A session window stores, per tab, the index of the opener in the window *)
(* (or NSNull); sessions of older versions store tab ids instead.  The    *)
(* process may die at any time and restores the last window it saved.      *)
(*                                                                         *)
(* An optional value is a set with at most one element: {} is NSNull or a  *)
(* missing value.                                                          *)
(***************************************************************************)
EXTENDS WebStateList

CONSTANT MaxSavedTabs   \* bound on the number of tabs of a saved window

ASSUME MaxSavedTabsAssumption == MaxSavedTabs \in Nat

VARIABLES
    session,     \* the last SessionWindowIOS written
    saved,       \* history: the shape of the list that was serialized
    restoring    \* -restoreSessionWindow: is about to close the old NTP tab

servars == <<session, saved, restoring>>
sessionvars == <<vars, servars>>

NoSession == [sessions |-> << >>, selectedIndex |-> {}]

-----------------------------------------------------------------------------
(* SerializeWebStateList.                                                  *)

\* Mutant of SerializedOpener: the index is stored in the 1-based form.
SerializedOneBased(wrapper) ==
    [has_opener_index |-> TRUE,
     opener_index |-> IF wrapper.opener = NoWebState THEN {}
                      ELSE {GetIndexOfWebState(wrapper.opener) + 1},
     navigation_index |-> IF wrapper.opener = NoWebState THEN {}
                          ELSE {wrapper.navigation_index},
     last_committed |-> last_committed[wrapper.web_state],
     tab_id |-> {}, opener_id |-> {}]

SerializedOpener(wrapper) ==
    [has_opener_index |-> TRUE,
     opener_index |-> IF wrapper.opener = NoWebState THEN {}
                      ELSE {GetIndexOfWebState(wrapper.opener)},
     navigation_index |-> IF wrapper.opener = NoWebState THEN {}
                          ELSE {wrapper.navigation_index},
     last_committed |-> last_committed[wrapper.web_state],
     tab_id |-> {}, opener_id |-> {}]

SerializeWebStateList ==
    [sessions |-> [p \in 1 .. Len(wrappers) |-> SerializedOpener(wrappers[p])],
     selectedIndex |-> IF active_index = kInvalidIndex THEN {} ELSE {active_index}]

\* Windows an older version may have left: two tabs known by the ids 1 and 2,
\* the opener being the other tab or one that was closed before (id 3).
LegacySession(opener_ids) ==
    [sessions |-> [p \in 1 .. 2 |->
                      [has_opener_index |-> FALSE, opener_index |-> {},
                       navigation_index |-> IF opener_ids[p] = {} THEN {} ELSE {-1},
                       last_committed |-> -1,
                       tab_id |-> {p}, opener_id |-> opener_ids[p]]],
     selectedIndex |-> {1}]

LegacySessions ==
    {LegacySession(ids) : ids \in {s \in [1 .. 2 -> {{}, {1}, {2}, {3}}] :
                                       \A p \in 1 .. 2 : s[p] # {p}}}

-----------------------------------------------------------------------------
(* DeserializeWebStateList.                                                *)

IsSessionUsingLegacyFormat(sessions) ==
    \E p \in 1 .. Len(sessions) : ~ sessions[p].has_opener_index

\* The position (1-based) of the opener of the p-th restored tab, if any.
OpenerPositionLegacy(sessions, p) ==
    {q \in 1 .. Len(sessions) :
        /\ sessions[p].navigation_index # {}
        /\ sessions[p].opener_id # {}
        /\ sessions[q].tab_id = sessions[p].opener_id
        /\ \A r \in 1 .. q - 1 : sessions[r].tab_id # sessions[q].tab_id}

OpenerPosition(sessions, p) ==
    IF IsSessionUsingLegacyFormat(sessions)
    THEN OpenerPositionLegacy(sessions, p)
    ELSE {q \in 1 .. Len(sessions) :
             /\ sessions[p].navigation_index # {}
             /\ sessions[p].opener_index = {q - 1}}

\* Mutant of RestoredWrapper: the index is not shifted by the tabs that were
\* already in the list.
RestoredUnshifted(web_states, sessions, p) ==
    LET opener == OpenerPosition(sessions, p)
        all    == [q \in 1 .. count |-> GetWebStateAt(q - 1)] \o web_states
    IN  IF opener = {} THEN NewWrapper(web_states[p])
        ELSE [web_state |-> web_states[p],
              opener |-> all[CHOOSE q \in opener : TRUE],
              navigation_index |-> CHOOSE n \in sessions[p].navigation_index : TRUE]

RestoredWrapper(web_states, sessions, p) ==
    LET opener == OpenerPosition(sessions, p)
    IN  IF opener = {} THEN NewWrapper(web_states[p])
        ELSE [web_state |-> web_states[p],
              opener |-> web_states[CHOOSE q \in opener : TRUE],
              navigation_index |-> CHOOSE n \in sessions[p].navigation_index : TRUE]

\* web_states are the fresh WebStates the factory creates, in order.
DeserializeWebStateList(window, web_states) ==
    LET new == [p \in 1 .. Len(window.sessions) |->
                   RestoredWrapper(web_states, window.sessions, p)]
        selected == IF window.selectedIndex = {} THEN active_index
                    ELSE count + (CHOOSE i \in window.selectedIndex : TRUE)
        inserted == [p \in 1 .. Len(new) |->
                        Notify("inserted", web_states[p], count + p - 1, active_index)]
        activated == IF selected = active_index THEN << >>
                     ELSE <<NotifyActivated(web_states[selected - count + 1], selected, TRUE)>>
    IN  /\ wrappers' = wrappers \o new
        /\ active_index' = selected
        /\ parented' = parented \cup ToSet(web_states)
        /\ last_committed' =
               [w \in WebStates |->
                   IF w \in ToSet(web_states)
                   THEN window.sessions[CHOOSE p \in 1 .. Len(new) : web_states[p] = w]
                            .last_committed
                   ELSE last_committed[w]]
        /\ notified' = inserted \o activated

\* -restoreSessionWindow:.  A single old tab that shows the NTP with nothing
\* pending is closed afterwards (ClobberNTP, the same call).
RestoreSessionWindow(web_states, old_tab_is_ntp) ==
    /\ ~ closing_all
    /\ ~ restoring
    /\ session.sessions # << >>
    /\ DeserializeWebStateList(session, web_states)
    /\ restoring' = (count = 1 /\ old_tab_is_ntp)
    /\ UNCHANGED <<closing_all, session, saved>>

\* Mutant of ClobberNTP: the last tab is closed instead of the old one.
ClobberLast ==
    /\ restoring
    /\ CloseWebStateAt(count - 1)
    /\ restoring' = FALSE
    /\ UNCHANGED <<session, saved>>

ClobberNTP ==
    /\ restoring
    /\ CloseWebStateAt(0)
    /\ restoring' = FALSE
    /\ UNCHANGED <<session, saved>>

\* The tabs from position first on, without their identities: where in that part
\* of the list the opener of each is, and the two navigation indices.
Shape(ws, committed, first) ==
    [p \in 1 .. Len(ws) - first + 1 |->
        LET w == ws[first + p - 1]
        IN  [opener |-> {q - first + 1 : q \in {r \in 1 .. Len(ws) : ws[r].web_state = w.opener}},
             navigation_index |-> w.navigation_index,
             last_committed |-> committed[w.web_state]]]

\* -saveSessionImmediately:, which does nothing while there are tabs but no
\* selected one.
SaveSession ==
    /\ ~ closing_all /\ ~ restoring
    /\ count <= MaxSavedTabs
    /\ active_index # kInvalidIndex \/ count = 0
    /\ session' = SerializeWebStateList
    /\ saved' = Shape(wrappers, last_committed, 1)
    /\ UNCHANGED <<vars, restoring>>

\* The process dies and is launched again: nothing but the session survives.
Restart ==
    /\ wrappers' = << >>
    /\ active_index' = kInvalidIndex
    /\ parented' = {}
    /\ last_committed' = [w \in WebStates |-> -1]
    /\ closing_all' = FALSE
    /\ notified' = << >>
    /\ restoring' = FALSE
    /\ UNCHANGED <<session, saved>>

-----------------------------------------------------------------------------

SerInit ==
    /\ Init
    /\ session \in {NoSession} \cup LegacySessions
    /\ saved = << >>
    /\ restoring = FALSE

\* The list operations that build, reorder and shrink the opener relation.
TabOperation ==
    /\ ~ restoring
    /\ \/ \E web_state \in WebStates, opener \in WebStates \cup {NoWebState} :
              AppendWebState(TRUE, web_state, opener)
       \/ \E index, to_index \in Indices : MoveWebStateAt(index, to_index)
       \/ \E index \in Indices : CloseWebStateAt(index) \/ ActivateWebStateAt(index)
       \/ \E web_state \in WebStates, n \in 0 .. MaxItems - 1 : Navigate(web_state, n)
    /\ UNCHANGED servars

FreshWebStates(n) ==
    {f \in [1 .. n -> WebStates \ InList] : \A i, j \in 1 .. n : f[i] = f[j] => i = j}

SerNext ==
    \/ TabOperation
    \/ SaveSession
    \/ Restart
    \/ \E web_states \in FreshWebStates(Len(session.sessions)), ntp \in BOOLEAN :
           RestoreSessionWindow(web_states, ntp)
    \/ ClobberNTP

SerSpec == SerInit /\ [][SerNext]_sessionvars

-----------------------------------------------------------------------------
(* Properties.                                                             *)

\* The step is -restoreSessionWindow:, the only operation that inserts tabs and
\* selects one of them.
Restored ==
    /\ notified' # << >> /\ notified' # notified
    /\ Head(notified').event = "inserted" /\ Last(notified').event = "activated"

\* Restoring a window this version saved rebuilds, after the tabs that were there
\* already, the same tabs with the same opener relation and navigation indices.
RoundTrip ==
    [][Restored /\ ~ IsSessionUsingLegacyFormat(session.sessions) =>
           Shape(wrappers', last_committed', count + 1) = saved]_sessionvars

\* Whatever the format, a restored tab never gets a tab that was already open as
\* its opener, nor itself, and no tab that was open is touched.
RestoredApart ==
    [][Restored =>
           /\ SubSeq(wrappers', 1, count) = wrappers
           /\ \A p \in count + 1 .. Len(wrappers') :
                  wrappers'[p].opener \notin InList \cup {wrappers'[p].web_state}]_sessionvars

\* Once a restore has finished (the old NTP tab closed or not) the selected tab
\* is the one that was selected when the window was saved, counted from the end.
SelectionRestored ==
    [][/\ Restored \/ restoring
       /\ ~ restoring' /\ wrappers' # << >>
       => Len(wrappers') - active_index' =
                  Len(session.sessions) - (CHOOSE i \in session.selectedIndex : TRUE)]_sessionvars
=============================================================================
