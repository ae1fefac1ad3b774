------------------------------ MODULE Extension ------------------------------
(***************************************************************************)
(* The browser extension in one tab: the service worker with its cache of  *)
(* answers (extension/src/background/service-worker.js), the content       *)
(* scripts that put badges on a page which navigates without being loaded  *)
(* again (content/youtube.js) or shows many posts (content/twitter.js),    *)
(* the popup (popup/popup.js) and what the options page changes            *)
(* (options/options.js).  The API's own cache is CacheAside's subject;     *)
(* here the API answers what the registry holds.                           *)
(*                                                                         *)
(* A subject is a video or a post.  Its version says how often what the    *)
(* registry holds of it has changed; zero is "not bound".                  *)
(***************************************************************************)
EXTENDS Naturals, Sequences, FiniteSets

CONSTANTS
    Subjects,       \* videos and posts
    Home,           \* a page that shows none
    Tweets,         \* post elements on the page, every one of some subject
    TweetOf,        \* element -> subject
    Slots,          \* bound: verify messages under way at once
    MaxVersion,     \* bound: changes of a subject
    Budgets         \* bounds of a behaviour: the site, and how many navigations and
                    \* loads (moves), changes of the registry, popups, refreshes and
                    \* faults (failing requests, stops of the service worker) it has

ASSUME SubjectAssumption == Home \notin Subjects
ASSUME TweetAssumption == TweetOf \in [Tweets -> Subjects]
ASSUME BoundsAssumption ==
    /\ MaxVersion \in Nat \ {0}
    /\ Budgets \subseteq [site : {"youtube", "twitter"}, moves : Nat, changes : Nat,
                         popups : Nat, refreshes : Nat, faults : Nat]

VARIABLES
    version,    \* subject -> what the registry holds
    cache,      \* subject -> {} or {the extension's cached answer}
    settings,   \* autoVerify and showBadges, taken together
    page,       \* the tab's address, the content script's variables, its page
    tweets,     \* element -> "new", "asked" or "badged"
    polls,      \* answers an interval is waiting to show under a title
    calls,      \* slot -> a verify message
    popup,
    budget      \* what is left of it; the site never changes

vars == <<version, cache, settings, page, tweets, polls, calls, popup, budget>>

\* An answer is about a subject and says a version.
Answer == [of : Subjects, says : 0 .. MaxVersion]
Hit(a) == a.says > 0

\* seen, for the properties: the addresses the tab has had since it was loaded
Addresses == Subjects \cup {Home}
Page == [url : Addresses, lastUrl : Addresses, title : BOOLEAN, current : Addresses,
         added : BOOLEAN, watching : BOOLEAN, due : Nat, badges : Seq(Answer),
         seen : SUBSET Addresses]

\* "clear" is a message the popup is yet to send, after it removed the cached
\* answer.  floor, for the properties: what its answer may not fall behind.
NoCall == [pc |-> "free"]
From == [by : {"page", "popup", "gone"}] \cup [by : {"tweet"}, tweet : Tweets]
Via == {"none", "cache", "api", "failed"}
Call == [pc : {"clear", "cache", "fetch", "store", "reply"}, from : From, of : Subjects,
         answer : Answer, via : Via, floor : 0 .. MaxVersion]

\* wired: its buttons have their listeners.  says, of, via and floor are those
\* of the answer that is shown.
Popup == [state : {"closed", "loading", "verified", "notVerified", "error", "unsupported"},
          on : Addresses, wired : BOOLEAN, says : 0 .. MaxVersion, of : Addresses,
          via : Via, floor : 0 .. MaxVersion]
NoPopup == [state |-> "closed", on |-> Home, wired |-> FALSE, says |-> 0, of |-> Home,
            via |-> "none", floor |-> 0]

NewPage(u) == [url |-> u, lastUrl |-> u, title |-> FALSE, current |-> Home, added |-> FALSE,
               watching |-> FALSE, due |-> 0, badges |-> <<>>, seen |-> {u}]

Init ==
    /\ version \in [Subjects -> {0, 1}]
    /\ cache = [s \in Subjects |-> {}]
    /\ settings \in BOOLEAN
    /\ page \in {NewPage(u) : u \in Addresses}
    /\ tweets = [e \in Tweets |-> "new"]
    /\ polls = {}
    /\ calls = [c \in Slots |-> NoCall]
    /\ popup = NoPopup
    /\ budget \in Budgets

Takes(what) == budget[what] > 0 /\ budget' = [budget EXCEPT ![what] = @ - 1]
Fault == Takes("faults")
Move == Takes("moves")

site == budget.site

-----------------------------------------------------------------------------
(***************************************************************************)
(* The registry                                                            *)
(***************************************************************************)

\* A binding, or a later change of the entry.
Change(s) ==
    /\ Takes("changes")
    /\ version[s] < MaxVersion
    /\ version' = [version EXCEPT ![s] = @ + 1]
    /\ UNCHANGED <<cache, settings, page, tweets, polls, calls, popup>>

-----------------------------------------------------------------------------
(***************************************************************************)
(* The service worker                                                      *)
(***************************************************************************)

Free == {c \in Slots : calls[c] = NoCall}

NewCall(pc, from, s, floor) ==
    /\ Free # {}
    /\ calls' = [calls EXCEPT ![CHOOSE c \in Free : TRUE] =
                   [pc |-> pc, from |-> from, of |-> s, answer |-> [of |-> s, says |-> 0],
                    via |-> "none", floor |-> floor]]

\* chrome.runtime.sendMessage({action: "verify", ...})
SendVerify(from, s) == NewCall("cache", from, s, 0)

\* What a message has learned.
Told(m, pc, n, via) == [m EXCEPT !.pc = pc, !.answer = [of |-> m.of, says |-> n], !.via = via]

\* handleVerification: settings and cache first
CacheRead(c) ==
    /\ calls[c].pc = "cache"
    /\ \/ \E n \in cache[calls[c].of] :
             calls' = [calls EXCEPT ![c] = Told(calls[c], "reply", n, "cache")]
       \/ /\ cache[calls[c].of] = {}
          /\ calls' = [calls EXCEPT ![c] = [@ EXCEPT !.pc = "fetch"]]
    /\ UNCHANGED <<version, cache, settings, page, tweets, polls, popup, budget>>

\* Not bound is 404, and an answer that is not ok throws: it is not cached.
FetchAnswer(c) ==
    LET s == calls[c].of IN
    /\ calls[c].pc = "fetch"
    /\ \/ /\ calls' = [calls EXCEPT ![c] = Told(calls[c], IF version[s] > 0 THEN "store" ELSE "reply",
                                                   version[s], "api")]
          /\ UNCHANGED budget
       \/ /\ Fault
          /\ calls' = [calls EXCEPT ![c] = Told(calls[c], "reply", 0, "failed")]
    /\ UNCHANGED <<version, cache, settings, page, tweets, polls, popup>>

Store(c) ==
    /\ calls[c].pc = "store"
    /\ cache' = [cache EXCEPT ![calls[c].of] = {calls[c].answer.says}]
    /\ calls' = [calls EXCEPT ![c] = [@ EXCEPT !.pc = "reply"]]
    /\ UNCHANGED <<version, settings, page, tweets, polls, popup, budget>>

\* Five minutes pass, or the options page clears the cache.
CacheExpires(s) ==
    /\ cache[s] # {}
    /\ cache' = [cache EXCEPT ![s] = {}]
    /\ UNCHANGED <<version, settings, page, tweets, polls, calls, popup, budget>>

clearCache ==
    /\ \E s \in Subjects : cache[s] # {}
    /\ cache' = [s \in Subjects |-> {}]
    /\ UNCHANGED <<version, settings, page, tweets, polls, calls, popup, budget>>

Sent == {c \in Slots \ Free : calls[c].pc # "clear"}

\* What the popup shows while it has no answer.
Showing(state) == [NoPopup EXCEPT !.state = state, !.on = popup.on, !.wired = popup.wired]

\* The browser stops the worker: its messages are answered with an error,
\* which the content scripts log and the popup shows.
WorkerStops ==
    /\ Sent # {}
    /\ Fault
    /\ calls' = [c \in Slots |-> IF c \in Sent THEN NoCall ELSE calls[c]]
    /\ popup' = IF \E c \in Sent : calls[c].from.by = "popup"
                THEN [Showing("error") EXCEPT !.wired = TRUE, !.via = "failed"] ELSE popup
    /\ UNCHANGED <<version, cache, settings, page, tweets, polls>>

\* saveSettings; a page looks at the settings when it is loaded only.
saveSettings ==
    /\ Move
    /\ settings' = ~settings
    /\ UNCHANGED <<version, cache, page, tweets, polls, calls, popup>>

-----------------------------------------------------------------------------
(***************************************************************************)
(* youtube.js                                                              *)
(***************************************************************************)

\* checkCurrentVideo, from the page p in which its caller leaves the script.
CheckCurrentVideo(p) ==
    IF p.url = Home \/ (p.url = p.current /\ p.added)
    THEN page' = p /\ UNCHANGED calls
    ELSE /\ page' = [p EXCEPT !.current = p.url, !.added = FALSE]
         /\ SendVerify([by |-> "page"], p.url)

\* What was under way for the old page reaches nobody.
Orphaned == [c \in Slots |-> IF calls[c] # NoCall /\ calls[c].from.by # "popup"
                             THEN [calls[c] EXCEPT !.from = [by |-> "gone"]] ELSE calls[c]]

\* A page is loaded; init runs when it has settings and its document.
LoadPage(u) ==
    /\ Move
    /\ page' = NewPage(u)
    /\ calls' = Orphaned
    /\ polls' = {}
    /\ tweets' = [e \in Tweets |-> "new"]
    /\ UNCHANGED <<version, cache, settings, popup>>

init ==
    /\ ~page.watching
    /\ settings
    /\ IF site = "youtube" THEN CheckCurrentVideo([page EXCEPT !.watching = TRUE])
       ELSE page' = [page EXCEPT !.watching = TRUE] /\ UNCHANGED calls
    /\ UNCHANGED <<version, cache, settings, tweets, polls, popup, budget>>

\* The site changes the address and the content without a load.
Navigate(u) ==
    /\ site = "youtube"
    /\ u # page.url
    /\ Move
    /\ page' = [page EXCEPT !.url = u, !.seen = @ \cup {u}]
    /\ UNCHANGED <<version, cache, settings, tweets, polls, calls, popup>>

TitleAppears ==
    /\ site = "youtube"
    /\ ~page.title
    /\ page.url # Home
    /\ page' = [page EXCEPT !.title = TRUE]
    /\ UNCHANGED <<version, cache, settings, tweets, polls, calls, popup, budget>>

\* Mutant of WatchUrl: no check is scheduled.
WatchUrlOnly ==
    /\ page.watching
    /\ page.url # page.lastUrl
    /\ page' = [page EXCEPT !.lastUrl = page.url, !.added = FALSE]
    /\ UNCHANGED <<version, cache, settings, tweets, polls, calls, popup, budget>>

\* watchForUrlChanges: a check a second from now
WatchUrl ==
    /\ page.watching
    /\ page.url # page.lastUrl
    /\ page' = [page EXCEPT !.lastUrl = page.url, !.added = FALSE, !.due = @ + 1]
    /\ UNCHANGED <<version, cache, settings, tweets, polls, calls, popup, budget>>

CheckDue ==
    /\ page.due > 0
    /\ CheckCurrentVideo([page EXCEPT !.due = @ - 1])
    /\ UNCHANGED <<version, cache, settings, tweets, polls, popup, budget>>

\* observeDomChanges: any change of the document, while there is a title and
\* no badge is thought to be there.  The address has been looked at before.
ObserveDom ==
    /\ page.watching
    /\ page.title /\ ~page.added /\ page.current # Home
    /\ page.url = page.lastUrl
    /\ CheckCurrentVideo(page)
    /\ page.url # Home
    /\ UNCHANGED <<version, cache, settings, tweets, polls, popup, budget>>

\* Mutant of PageAnswered: every answer is taken for a binding.
PageAnsweredAny(c) ==
    /\ calls[c].pc = "reply"
    /\ calls[c].from.by \in {"page", "gone"}
    /\ polls' = IF calls[c].from.by = "page" THEN polls \cup {calls[c].answer} ELSE polls
    /\ calls' = [calls EXCEPT ![c] = NoCall]
    /\ UNCHANGED <<version, cache, settings, page, tweets, popup, budget>>

\* The answer reaches the script.  It does not ask whether the page still
\* shows the video it asked about.
PageAnswered(c) ==
    /\ calls[c].pc = "reply"
    /\ calls[c].from.by \in {"page", "gone"}
    /\ polls' = IF calls[c].from.by = "page" /\ Hit(calls[c].answer)
                THEN polls \cup {calls[c].answer} ELSE polls
    /\ calls' = [calls EXCEPT ![c] = NoCall]
    /\ UNCHANGED <<version, cache, settings, page, tweets, popup, budget>>

\* addVerificationBadge: looks every half second for a title and no badge
AddBadge(a) ==
    /\ a \in polls
    /\ page.title
    /\ page.badges = <<>>
    /\ page' = [page EXCEPT !.badges = Append(@, a), !.added = TRUE]
    /\ polls' = polls \ {a}
    /\ UNCHANGED <<version, cache, settings, tweets, calls, popup, budget>>

\* ... for ten seconds
PollEnds(a) ==
    /\ a \in polls
    /\ polls' = polls \ {a}
    /\ UNCHANGED <<version, cache, settings, page, tweets, calls, popup, budget>>

-----------------------------------------------------------------------------
(***************************************************************************)
(* twitter.js                                                              *)
(***************************************************************************)

\* An element is asked about once, whatever comes of it.
checkTweet(e) ==
    /\ site = "twitter"
    /\ page.watching
    /\ tweets[e] = "new"
    /\ tweets' = [tweets EXCEPT ![e] = "asked"]
    /\ SendVerify([by |-> "tweet", tweet |-> e], TweetOf[e])
    /\ UNCHANGED <<version, cache, settings, page, polls, popup, budget>>

\* A post without a text gets no badge.
TweetAnswered(c) ==
    /\ calls[c].pc = "reply"
    /\ calls[c].from.by = "tweet"
    /\ \/ /\ Hit(calls[c].answer)
          /\ tweets' = [tweets EXCEPT ![calls[c].from.tweet] = "badged"]
       \/ UNCHANGED tweets
    /\ calls' = [calls EXCEPT ![c] = NoCall]
    /\ UNCHANGED <<version, cache, settings, page, polls, popup, budget>>

-----------------------------------------------------------------------------
(***************************************************************************)
(* popup.js                                                                *)
(***************************************************************************)

\* verifyCurrentPage, for the first time; the listeners come when it has ended.
OpenPopup ==
    /\ popup.state = "closed"
    /\ Takes("popups")
    /\ \/ /\ page.url = Home
          /\ popup' = [NoPopup EXCEPT !.state = "unsupported", !.wired = TRUE]
          /\ UNCHANGED calls
       \/ /\ page.url # Home
          /\ popup' = [NoPopup EXCEPT !.state = "loading", !.on = page.url]
          /\ SendVerify([by |-> "popup"], page.url)
    /\ UNCHANGED <<version, cache, settings, page, tweets, polls>>

ClosePopup ==
    /\ popup.state # "closed"
    /\ popup' = NoPopup
    /\ calls' = [c \in Slots |->
                    IF c \in Free \/ calls[c].from.by # "popup" THEN calls[c]
                    ELSE IF c \in Sent THEN [calls[c] EXCEPT !.from = [by |-> "gone"]] ELSE NoCall]
    /\ UNCHANGED <<version, cache, settings, page, tweets, polls, budget>>

PopupAnswered(c) ==
    /\ calls[c].pc = "reply"
    /\ calls[c].from.by = "popup"
    /\ calls' = [calls EXCEPT ![c] = NoCall]
    /\ popup' = [popup EXCEPT !.state = IF Hit(calls[c].answer) THEN "verified" ELSE "notVerified",
                              !.wired = TRUE,
                              !.says = calls[c].answer.says, !.of = calls[c].answer.of,
                              !.via = calls[c].via, !.floor = calls[c].floor]
    /\ UNCHANGED <<version, cache, settings, page, tweets, polls, budget>>

\* The oldest the API or an answer about to be stored can still say.
Floor(s) ==
    LET said == {version[s]} \cup {calls[c].answer.says : c \in {d \in Slots :
                                        calls[d].pc = "store" /\ calls[d].of = s}}
    IN  CHOOSE n \in said : \A o \in said : n <= o

\* Mutant of handleRefresh: the cached answer stays.
handleRefreshKeeping ==
    /\ popup.wired /\ popup.on # Home
    /\ Takes("refreshes")
    /\ NewCall("clear", [by |-> "popup"], popup.on, Floor(popup.on))
    /\ UNCHANGED <<version, cache, settings, page, tweets, polls, popup>>

\* handleRefresh removes the cached answer and then asks again, whatever the
\* popup shows and whatever messages of it are under way: the button is
\* always there.
handleRefresh ==
    /\ popup.wired /\ popup.on # Home
    /\ Takes("refreshes")
    /\ cache' = [cache EXCEPT ![popup.on] = {}]
    /\ NewCall("clear", [by |-> "popup"], popup.on, Floor(popup.on))
    /\ UNCHANGED <<version, settings, page, tweets, polls, popup>>

\* The second half of a refresh.
verifyCurrentPage(c) ==
    /\ calls[c].pc = "clear"
    /\ calls' = [calls EXCEPT ![c] = [@ EXCEPT !.pc = "cache"]]
    /\ popup' = Showing("loading")
    /\ UNCHANGED <<version, cache, settings, page, tweets, polls, budget>>

\* The Retry button, which only the error has.
ClickRetry ==
    /\ popup.wired /\ popup.state = "error"
    /\ popup' = Showing("loading")
    /\ SendVerify([by |-> "popup"], popup.on)
    /\ UNCHANGED <<version, cache, settings, page, tweets, polls, budget>>

Worker(c) == CacheRead(c) \/ FetchAnswer(c) \/ Store(c)
Replied(c) == PageAnswered(c) \/ TweetAnswered(c) \/ PopupAnswered(c)

\* The user has done what the budget allows, and nothing is under way.
Rest ==
    /\ budget.moves = 0
    /\ Free = Slots /\ polls = {}
    /\ UNCHANGED vars

Next ==
    \/ \E s \in Subjects : Change(s)  \/ CacheExpires(s)
    \/ clearCache \/ saveSettings \/ WorkerStops
    \/ \E c \in Slots : Worker(c) \/ Replied(c) \/ verifyCurrentPage(c)
    \/ \E u \in Addresses : LoadPage(u) \/ Navigate(u)
    \/ init \/ TitleAppears \/ WatchUrl \/ CheckDue \/ ObserveDom
    \/ \E a \in polls : AddBadge(a) \/ PollEnds(a)
    \/ \E e \in Tweets : checkTweet(e)
    \/ OpenPopup \/ ClosePopup \/ handleRefresh \/ ClickRetry
    \/ Rest

\* The worker answers, observers and timers fire, documents change all the
\* time (titles appear).  An interval fires twenty times before it is cleared,
\* hence the strong fairness.
Fairness ==
    /\ \A c \in Slots : WF_vars(Worker(c)) /\ WF_vars(Replied(c)) /\ WF_vars(verifyCurrentPage(c))
    /\ WF_vars(init) /\ WF_vars(TitleAppears) /\ WF_vars(WatchUrl) /\ WF_vars(CheckDue)
    /\ WF_vars(ObserveDom)
    /\ \A a \in Answer : Hit(a) => SF_vars(AddBadge(a))

Spec == Init /\ [][Next]_vars /\ Fairness

-----------------------------------------------------------------------------
(***************************************************************************)
(* Properties                                                              *)
(***************************************************************************)

TypeOK ==
    /\ version \in [Subjects -> 0 .. MaxVersion]
    /\ cache \in [Subjects -> SUBSET (0 .. MaxVersion)]
    /\ settings \in BOOLEAN
    /\ page \in Page
    /\ tweets \in [Tweets -> {"new", "asked", "badged"}]
    /\ polls \subseteq Answer
    /\ calls \in [Slots -> {NoCall} \cup Call]
    /\ popup \in Popup
    /\ budget \in [site : {"youtube", "twitter"}, moves : Nat, changes : Nat, popups : Nat,
                   refreshes : Nat, faults : Nat]

\* However many checks, answers and intervals of one or several videos are
\* under way, the page gets one badge at most.
OneBadge == Len(page.badges) <= 1

\* What is shown as verified was bound as it is shown: the badge, which is of a
\* video the tab has shown since it was loaded (no answer about an earlier page
\* gets in), marked posts, and the popup, which speaks of the page it was opened
\* on whatever other messages it has under way.
ShownWasTrue ==
    /\ \A i \in DOMAIN page.badges : /\ page.badges[i].says \in 1 .. version[page.badges[i].of]
                                     /\ page.badges[i].of \in page.seen
    /\ \A e \in Tweets : tweets[e] = "badged" => version[TweetOf[e]] > 0
    /\ popup.state = "verified" => popup.of = popup.on /\ popup.says \in 1 .. version[popup.on]

\* "Not verified" is never an old answer of the extension: for each time it
\* is shown the API said so, or could not be asked.  (The worker catches the
\* failing request, so the popup shows no error then, as TC-10 of
\* extension/TESTING.md expects, but this.)
DenialIsAsked == popup.state = "notVerified" => popup.via # "cache"

\* The answer to a click on Refresh is never older than what the API, or an
\* answer then about to be stored, said at that click: the cache has no say.
\* Of several clicks under way the answer to any may come last and stay.
RefreshSkipsCache == popup.state = "verified" => popup.says >= popup.floor

\* An element of a post is asked about by one message at a time.
OneCallPerTweet ==
    \A e \in Tweets : Cardinality({c \in Slots : calls[c] # NoCall
                                       /\ calls[c].from = [by |-> "tweet", tweet |-> e]}) <= 1

\* A user who stays on a bound video gets a badge under its title for good,
\* however they came there and although requests fail; and it is that video's,
\* unless the tab has shown another one since it was loaded.
BadgeAppears ==
    \A s \in Subjects :
        <>[](site = "youtube" /\ page.url = s /\ page.watching /\ version[s] > 0)
            => <>[](/\ page.badges # <<>>
                    /\ page.seen \subseteq {s, Home} => page.badges[1].of = s)

\* "Correct badge for new content" (extension/TESTING.md:281): who stays on a
\* bound video gets its badge.
BadgeIsCurrent ==
    \A s \in Subjects :
        <>[](site = "youtube" /\ page.url = s /\ page.watching /\ version[s] > 0)
            => <>[](page.badges # <<>> /\ page.badges[1].of = s)

\* What page and popup show was true of what they show it for, and is shown
\* once, however answers, navigation and intervals overlap.
ShowInv == TypeOK /\ OneBadge /\ ShownWasTrue /\ DenialIsAsked /\ OneCallPerTweet
=============================================================================
