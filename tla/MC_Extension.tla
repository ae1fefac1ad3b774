---------------------------- MODULE MC_Extension ----------------------------
(***************************************************************************)
(* A small instance of Extension: two subjects, a post of one of them.  *)
(***************************************************************************)
EXTENDS Extension

CONSTANTS s1, s2, e1

\* Users who move about a site of either kind; one who opens the popup on a
\* page and refreshes it while the video changes; one whose requests fail.
SomeBudgets ==
    {[site |-> "youtube", moves |-> 1, changes |-> 0, popups |-> 0, refreshes |-> 0, faults |-> 1],
     [site |-> "twitter", moves |-> 2, changes |-> 1, popups |-> 0, refreshes |-> 0, faults |-> 1],
     [site |-> "youtube", moves |-> 0, changes |-> 1, popups |-> 1, refreshes |-> 2, faults |-> 0],
     [site |-> "youtube", moves |-> 0, changes |-> 0, popups |-> 1, refreshes |-> 0, faults |-> 1]}

\* Users who only navigate, and requests that all succeed.
NavigatingBudgets ==
    {[site |-> "youtube", moves |-> 1, changes |-> 0, popups |-> 0, refreshes |-> 0, faults |-> 0]}

\* Whose popup it is does not matter: it is opened on the first subject.  Its
\* page asks about the same subject, so that two kinds of messages overlap.
MCInit == Init /\ (budget.popups > 0 => page.url = s1 /\ version[s2] = 0 /\ settings)
MCSpec == MCInit /\ [][Next]_vars /\ Fairness

FirstSubject == [e \in Tweets |-> s1]
=============================================================================
