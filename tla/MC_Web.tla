------------------------------- MODULE MC_Web -------------------------------
(***************************************************************************)
(* Small instances of WebApp and WebPreferences.  They share nothing but   *)
(* the browser: a behaviour is of one or of the other.                     *)
(***************************************************************************)
EXTENDS WebApp, WebPreferences

V(page, decodes, tabs, links, moves, edits, clicks, accounts, others, faults) ==
    [page |-> page, decodes |-> decodes, tabs |-> tabs, links |-> links, moves |-> moves,
     edits |-> edits, clicks |-> clicks, accounts |-> accounts, others |-> others, faults |-> faults]

\* The page is not used: a behaviour of the preferences.
NoVisit == V("none", FALSE, {}, {}, 0, 0, 0, 0, 0, 0)

\* A one-shot whose user looks at the list meanwhile; links of every kind and
\* accounts that come and go; the forms without links, left and retried; the
\* dashboard.
SomeVisits ==
    {V("home", TRUE, {"one", "browse"}, {}, 3, 2, 2, 0, 0, 1),
     V("home", TRUE, {"one"}, {"youtube", "x"}, 1, 4, 1, 2, 0, 0),
     V("home", FALSE, {"bind"}, {"youtube"}, 1, 2, 1, 1, 0, 0),
     V("home", TRUE, {"bind"}, {"vimeo"}, 1, 3, 1, 2, 0, 1),
     V("home", FALSE, {"upload", "register"}, {}, 2, 4, 3, 0, 0, 1),
     V("home", FALSE, {"manifest", "verify", "proof", "verifications"}, {}, 1, 2, 2, 0, 0, 1),
     V("dashboard", FALSE, {}, {}, 0, 0, 3, 0, 2, 2),
     NoVisit}

B(dnt, loads, languages, cookies) ==
    [dnt |-> dnt, best |-> "en", loads |-> loads, languages |-> languages, cookies |-> cookies]

NoBrowser == B(FALSE, 0, 0, 0)
SomeBrowsers == {B(FALSE, 3, 0, 4), B(TRUE, 3, 0, 3), B(FALSE, 3, 2, 0), NoBrowser}

Preferring == visit.page = "none"

Init ==
    /\ WebInit /\ PreferencesInit
    /\ Preferring <=> browser # NoBrowser
    /\ Preferring => ~user.in

Next ==
    \/ ~Preferring /\ WebNext /\ UNCHANGED prefs
    \/ Preferring /\ PreferencesNext /\ UNCHANGED web

Spec == Init /\ [][Next]_<<web, prefs>> /\ WebFairness
=============================================================================
