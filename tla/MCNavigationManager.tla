------------------------ MODULE MCNavigationManager -------------------------
(* NavigationManager with two origins, the first of which has two pages.   *)
EXTENDS NavigationManager, TLC, Functions

CONSTANTS a, b

MCURLs == {<<a, 1>>, <<a, 2>>, <<b, 1>>}

\* The items there are, committed or not.
MCItems == Range(items) \union ({new_pending, transientItem} \ {NoItem})

\* Histories of up to two items have pages of all URLs, or of one URL with both user
\* agents; longer ones have one URL, and those of four items no reloaded page.
MCBound ==
    \/ /\ Len(items) <= 2
       /\ \A item \in MCItems : item.transition = "LINK" /\ item.user_agent = "MOBILE"
    \/ /\ \A item \in MCItems : item.url = <<a, 1>>
       /\ Len(items) > 2 => \A item \in MCItems : item.user_agent = "MOBILE"
       /\ Len(items) > 3 => \A item \in MCItems : item.transition # "RELOAD"
=============================================================================
