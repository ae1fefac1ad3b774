--------------------------- MODULE WebPreferences ---------------------------
(***************************************************************************)
(* What the web application remembers in the visitor's browser and all its *)
(* tabs share: the choice about analytics cookies                          *)
(* (web/app/components/CookieConsent.tsx, GoogleAnalytics.tsx) and the     *)
(* language (web/middleware.ts, web/i18n.ts,                               *)
(* components/LanguageSwitcher.tsx).  A tab reads the choice when it is    *)
(* loaded; nothing tells it of a choice made in another tab.               *)
(***************************************************************************)
EXTENDS Naturals

CONSTANTS
    Windows,        \* the browser's tabs
    Locales,        \* languages the application has
    Browsers        \* bounds of a behaviour: whether Do Not Track is set, the best
                    \* match of the browser's languages, and how many loads, choices
                    \* of language and clicks about cookies it has

VARIABLES
    browser,        \* what is left of it
    stored,         \* localStorage: "none", "denied" or "granted"
    cookie,         \* NEXT_LOCALE: a locale or "none"
    win,            \* tab -> what it shows and knows
    wire,           \* tab -> its request for a page, or none
    chosen,         \* the language last chosen, or "none"
    raced,          \* a page asked for without the cookie was under way then
    clicked         \* the visitor has allowed analytics at some time

prefs == <<browser, stored, cookie, win, wire, chosen, raced, clicked>>

Browser == [dnt : BOOLEAN, best : Locales, loads : Nat, languages : Nat, cookies : Nat]

ASSUME PreferencesAssumption == "none" \notin Locales /\ Browsers \subseteq Browser

\* draft is the component's own state; others: another tab has chosen since
\* this one was loaded or chose.
Window == [open : BOOLEAN, timer : BOOLEAN, visible : BOOLEAN, settings : BOOLEAN,
           draft : {"denied", "granted"}, gtag : {"denied", "granted"},
           locale : Locales \cup {"none"}, others : BOOLEAN]
Closed == [open |-> FALSE, timer |-> FALSE, visible |-> FALSE, settings |-> FALSE,
           draft |-> "denied", gtag |-> "denied", locale |-> "none", others |-> FALSE]

\* A request with the cookie it was sent with.
NoRequest == [for |-> "none"]
Request == [for : {"load", "refresh"}, sent : Locales \cup {"none"}]

PreferencesInit ==
    /\ browser \in Browsers
    /\ stored = "none" /\ cookie = "none"
    /\ win = [w \in Windows |-> Closed]
    /\ wire = [w \in Windows |-> NoRequest]
    /\ chosen = "none" /\ raced = FALSE /\ clicked = FALSE

Use(what) == browser[what] > 0 /\ browser' = [browser EXCEPT ![what] = @ - 1]

-----------------------------------------------------------------------------
(***************************************************************************)
(* Pages and the language                                                  *)
(***************************************************************************)

Ask(w, for) == wire' = [wire EXCEPT ![w] = [for |-> for, sent |-> cookie]]

\* A tab is opened or loaded again: what it was is gone.
Load(w) ==
    /\ Use("loads")
    /\ win' = [win EXCEPT ![w] = Closed]
    /\ Ask(w, "load")
    /\ UNCHANGED <<stored, cookie, chosen, raced, clicked>>

\* The middleware's choice, and the cookie its answer sets, if any.
localeFor(sent) == IF sent = "none" THEN browser.best ELSE sent

setCookie(sent) == IF sent = "none" THEN browser.best ELSE cookie

\* Consent Mode: denied unless granted is what the browser has stored.
gtagOf(choice) == IF choice = "granted" THEN "granted" ELSE "denied"

\* The effect of CookieConsent when the page is there: without a choice it
\* asks after a second, or takes Do Not Track for the answer.
Shown(w) ==
    [Closed EXCEPT !.open = TRUE, !.locale = localeFor(wire[w].sent),
                   !.timer = stored = "none" /\ ~browser.dnt,
                   !.draft = IF stored = "none" THEN "denied" ELSE stored,
                   !.gtag = gtagOf(stored)]

Arrives(w) ==
    /\ wire[w].for = "load"
    /\ cookie' = setCookie(wire[w].sent)
    /\ wire' = [wire EXCEPT ![w] = NoRequest]
    /\ win' = [win EXCEPT ![w] = Shown(w)]
    /\ stored' = IF stored = "none" /\ browser.dnt THEN "denied" ELSE stored
    /\ UNCHANGED <<browser, chosen, raced, clicked>>

\* A language is chosen: the cookie is set and the page asked for again.
\* The button is disabled until that is done.
handleLanguageChange(w, l) ==
    /\ win[w].open /\ wire[w] = NoRequest
    /\ Use("languages")
    /\ cookie' = l
    /\ wire' = [wire EXCEPT ![w] = [for |-> "refresh", sent |-> l]]
    /\ chosen' = l
    /\ raced' = \E v \in Windows : wire[v].for = "load" /\ wire[v].sent = "none"
    /\ UNCHANGED <<stored, win, clicked>>

Refreshed(w) ==
    /\ wire[w].for = "refresh"
    /\ cookie' = setCookie(wire[w].sent)
    /\ wire' = [wire EXCEPT ![w] = NoRequest]
    /\ win' = [win EXCEPT ![w] = [@ EXCEPT !.locale = localeFor(wire[w].sent)]]
    /\ UNCHANGED <<browser, stored, chosen, raced, clicked>>

-----------------------------------------------------------------------------
(***************************************************************************)
(* The choice about cookies                                                *)
(***************************************************************************)

Elsewhere == UNCHANGED <<cookie, wire, chosen, raced>>

\* setTimeout(() => setIsVisible(true), 1000), which nothing cancels
BannerDue(w) ==
    /\ win[w].timer
    /\ win' = [win EXCEPT ![w] = [@ EXCEPT !.timer = FALSE, !.visible = TRUE]]
    /\ Elsewhere /\ UNCHANGED <<browser, stored, clicked>>

\* The footer's button.
openCookieSettings(w) ==
    /\ win[w].open
    /\ Use("cookies")
    /\ win' = [win EXCEPT ![w] = [@ EXCEPT !.visible = TRUE, !.settings = TRUE]]
    /\ Elsewhere /\ UNCHANGED <<stored, clicked>>

\* Customize and Back
setShowSettings(w) ==
    /\ win[w].visible
    /\ Use("cookies")
    /\ win' = [win EXCEPT ![w] = [@ EXCEPT !.settings = ~win[w].settings]]
    /\ Elsewhere /\ UNCHANGED <<stored, clicked>>

opposite(choice) == IF choice = "granted" THEN "denied" ELSE "granted"

setConsent(w) ==
    /\ win[w].visible /\ win[w].settings
    /\ Use("cookies")
    /\ win' = [win EXCEPT ![w] = [@ EXCEPT !.draft = opposite(win[w].draft)]]
    /\ Elsewhere /\ UNCHANGED <<stored, clicked>>

\* saveConsent, applyConsent and the end of the dialog
Chosen(v, choice) ==
    [v EXCEPT !.draft = choice, !.gtag = choice, !.visible = FALSE,
              !.settings = FALSE, !.others = FALSE]

Choose(w, choice) ==
    /\ win[w].visible
    /\ Use("cookies")
    /\ stored' = choice
    /\ win' = [v \in Windows |->
                 IF v = w THEN Chosen(win[w], choice)
                 ELSE [win[v] EXCEPT !.others = win[v].open]]
    /\ clicked' = (clicked \/ choice = "granted")
    /\ Elsewhere

handleAcceptAll(w) == Choose(w, "granted")

handleEssentialOnly(w) == ~win[w].settings /\ Choose(w, "denied")

\* Mutant of handleSavePreferences: what is applied is what was saved before.
handleSavePreferencesLate(w) ==
    /\ win[w].visible /\ win[w].settings
    /\ Use("cookies")
    /\ stored' = win[w].draft
    /\ win' = [v \in Windows |->
                 IF v = w THEN [win[w] EXCEPT !.visible = FALSE, !.settings = FALSE, !.others = FALSE,
                                              !.gtag = IF stored = "none" THEN @ ELSE stored]
                 ELSE [win[v] EXCEPT !.others = win[v].open]]
    /\ clicked' = (clicked \/ win[w].draft = "granted")
    /\ Elsewhere

handleSavePreferences(w) == win[w].settings /\ Choose(w, win[w].draft)

PreferencesRest ==
    /\ \A w \in Windows : wire[w] = NoRequest /\ ~win[w].timer
    /\ UNCHANGED prefs

PreferencesNext ==
    \/ \E w \in Windows :
          \/ Load(w) \/ Arrives(w) \/ Refreshed(w)
          \/ \E l \in Locales : handleLanguageChange(w, l)
          \/ BannerDue(w) \/ openCookieSettings(w) \/ setShowSettings(w) \/ setConsent(w)
          \/ handleAcceptAll(w) \/ handleEssentialOnly(w) \/ handleSavePreferences(w)
    \/ PreferencesRest

PreferencesSpec == PreferencesInit /\ [][PreferencesNext]_prefs

-----------------------------------------------------------------------------
(***************************************************************************)
(* Properties                                                              *)
(***************************************************************************)

PreferencesTypeOK ==
    /\ browser \in Browser
    /\ stored \in {"none", "denied", "granted"}
    /\ cookie \in Locales \cup {"none"}
    /\ win \in [Windows -> Window]
    /\ wire \in [Windows -> {NoRequest} \cup Request]
    /\ chosen \in Locales \cup {"none"}
    /\ raced \in BOOLEAN /\ clicked \in BOOLEAN

\* What a tab tells the analytics is what is stored, whichever tab it was
\* chosen in and however often the dialog was opened and left, unless
\* another tab has chosen since.
AnalyticsAgree ==
    \A w \in Windows :
        win[w].open /\ ~win[w].others => win[w].gtag = gtagOf(stored)

\* No tab lets analytics store anything before the visitor has allowed it.
GrantedWasClicked == \A w \in Windows : win[w].gtag = "granted" => clicked

\* The language that was chosen stays, over loads and refreshes in any tab,
\* unless a first request, sent before there was a cookie, was answered later.
LanguageStays == chosen # "none" /\ ~raced => cookie = chosen

\* What the visitor chose is what the tabs act on, although each of them
\* reads it, writes it and is loaded on its own.
PreferencesInv ==
    /\ PreferencesTypeOK
    /\ AnalyticsAgree
    /\ GrantedWasClicked
    /\ LanguageStays
=============================================================================
