------------------------------- MODULE WebApp -------------------------------
(***************************************************************************)
(* The web application's pages over the API: the tabs of the home page     *)
(* with their forms and its list of contents (web/app/page.tsx), the       *)
(* dashboard (web/app/dashboard/page.tsx), the toasts of either, and the   *)
(* Next.js routes that stand between two of the forms and the API          *)
(* (web/middleware.ts, web/app/api/app/, web/app/api/auth/).               *)
(*                                                                         *)
(* A tab that is left is unmounted: what it was waiting for goes on, but   *)
(* reaches the page's toasts only.  The page's toasts are an object made   *)
(* anew by every render, and the list's fetch depends on that object.      *)
(***************************************************************************)
EXTENDS Naturals, FiniteSets

CONSTANTS
    Providers,      \* sign-in providers that are configured
    PostSlots,      \* bound: posts under way at once
    FetchSlots,     \* bound: fetches of the list under way at once
    MaxToasts,      \* bound: toasts shown at once
    Visits          \* bounds of a behaviour: the page it is about, whether the
                    \* middleware recognises a session, the tabs and links that are
                    \* tried, and how many moves between tabs, edits of a field,
                    \* clicks, changes of the account, publications by others and
                    \* failing requests it has

VARIABLES
    visit,      \* what is left of it
    user,       \* the session and the linked accounts, as the database has them
    contents,   \* how often the API's contents have changed
    view,       \* the mounted tab or the dashboard
    posts,      \* slot -> a post of a form
    fetches,    \* slot -> a fetch of the list
    toasts,     \* how many are shown
    asked,      \* posts made whose end is to be announced
    said,       \* those whose end was
    due         \* contents when a one-shot was last announced as complete

web == <<visit, user, contents, view, posts, fetches, toasts, asked, said, due>>

\* A form: the fields it wants before its button works ("rest" stands for all
\* but the file), whether its error offers to try again, whether it takes
\* links and goes through the Next.js routes, whether it adds contents, and
\* whether a toast tells of its success (of its failure one always does).
UploadForm ==
   [needs |-> {"file"}, retry |-> TRUE, links |-> FALSE,
    publishes |-> FALSE, toast |-> TRUE]
OneShotForm ==
   [needs |-> {"file", "rest"}, retry |-> FALSE, links |-> TRUE,
    publishes |-> TRUE, toast |-> TRUE]
ManifestForm ==
   [needs |-> {"file", "rest"}, retry |-> TRUE, links |-> FALSE,
    publishes |-> FALSE, toast |-> TRUE]
RegisterForm ==
   [needs |-> {"file", "rest"}, retry |-> TRUE, links |-> FALSE,
    publishes |-> TRUE, toast |-> TRUE]
VerifyForm ==
   [needs |-> {"file", "rest"}, retry |-> TRUE, links |-> FALSE,
    publishes |-> FALSE, toast |-> TRUE]
ProofForm ==
   [needs |-> {"file", "rest"}, retry |-> TRUE, links |-> FALSE,
    publishes |-> FALSE, toast |-> TRUE]
BindForm ==
   [needs |-> {"rest"}, retry |-> FALSE, links |-> TRUE,
    publishes |-> TRUE, toast |-> TRUE]
VerificationsView ==
   [needs |-> {}, retry |-> TRUE, links |-> FALSE,
    publishes |-> FALSE, toast |-> FALSE]

Forms == [upload |-> UploadForm, one |-> OneShotForm, manifest |-> ManifestForm,
          register |-> RegisterForm, verify |-> VerifyForm, proof |-> ProofForm,
          bind |-> BindForm, verifications |-> VerificationsView]

Tabs == DOMAIN Forms \cup {"browse"}

\* What the box with the bindings holds: the example it starts with (a video
\* of YouTube), nothing, or a link of the named platform.
Links == {"youtube", "x", "vimeo"}
Bindings == {"example", "none"} \cup Links

\* The providers of which an account must be linked.
providerForPlatform(b) == CASE b \in {"example", "youtube"} -> {"google"}
                            [] b = "x" -> {"twitter"}
                            [] OTHER -> {}

Visit == [page : {"home", "dashboard", "none"}, decodes : BOOLEAN, tabs : SUBSET Tabs,
          links : SUBSET Links, moves : Nat, edits : Nat, clicks : Nat, accounts : Nat,
          others : Nat, faults : Nat]

ASSUME WebAssumption ==
    /\ IsFiniteSet(PostSlots)
    /\ MaxToasts \in Nat
    /\ Visits \subseteq Visit

View == [at : Tabs \cup {"dashboard", "closed"}, mount : Nat, filled : SUBSET {"file", "rest"},
         link : {"none"} \cup Links, bindings : Bindings, loading : BOOLEAN, err : BOOLEAN, result : BOOLEAN,
         list : Nat, overlap : BOOLEAN, auto : BOOLEAN]

\* result: the one-shot's is shown, with its links to share, also beside the
\* input of the next; overlap is for a property: fetches of this list have
\* overlapped.
Mounted(at, n) ==
    [at |-> at, mount |-> n, filled |-> {}, link |-> "none", bindings |-> "example",
     loading |-> FALSE, err |-> FALSE, result |-> FALSE, list |-> 0, overlap |-> FALSE, auto |-> FALSE]

None == [pc |-> "none"]
Post == [pc : {"middleware", "session", "accounts", "api", "reply"}, form : DOMAIN Forms,
         mount : Nat, complete : BOOLEAN, bindings : Bindings, ok : BOOLEAN]
Fetch == [pc : {"sent", "read"}, mount : Nat, ok : BOOLEAN, list : Nat]

WebInit ==
    /\ visit \in Visits
    /\ user \in {[in |-> FALSE, linked |-> {}]} \cup [in : {TRUE}, linked : SUBSET Providers \ {{}}]
    /\ contents = 1
    /\ view = Mounted("closed", 0)
    /\ posts = [c \in PostSlots |-> None]
    /\ fetches = [f \in FetchSlots |-> None]
    /\ toasts = 0
    /\ asked = 0 /\ said = 0 /\ due = 0

Spend(what) == visit[what] > 0 /\ visit' = [visit EXCEPT ![what] = @ - 1]
Failure == Spend("faults")

-----------------------------------------------------------------------------
(***************************************************************************)
(* Lists and toasts                                                        *)
(***************************************************************************)

\* A fetch starts in the view v; those in fs are under way.
Started(v, fs) ==
    LET free == CHOOSE f \in FetchSlots : fs[f] = None IN
    /\ \E f \in FetchSlots : fs[f] = None
    /\ fetches' = [fs EXCEPT ![free] = [pc |-> "sent", mount |-> v.mount, ok |-> TRUE, list |-> 0]]
    /\ view' = [v EXCEPT !.loading = v.at = "browse" \/ @,
                         !.overlap = @ \/ \E f \in FetchSlots : fs[f] # None /\ fs[f].mount = v.mount]

\* The home page is rendered again: the list, if it is mounted, is fetched.
Rendered(v, fs) ==
    IF v.at = "browse" THEN Started(v, fs) ELSE view' = v /\ fetches' = fs

Toast(n) == toasts + n <= MaxToasts /\ toasts' = toasts + n

\* After three seconds, at a click, or at Escape.
removeToast ==
    /\ toasts > 0
    /\ toasts' = toasts - 1
    /\ Rendered(view, fetches)
    /\ UNCHANGED <<visit, user, contents, posts, asked, said, due>>

\* What there is to copy: the values of a one-shot's result and of the list's
\* items, with the badge and the share links of either.
OneShotResult == view.at = "one" /\ view.result
ShareBlock == view.at = "browse" /\ view.list > 0

\* A button beside each: the page says "copied".
CopyButton ==
    /\ OneShotResult \/ ShareBlock
    /\ Spend("clicks")
    /\ Toast(1)
    /\ Rendered(view, fetches)
    /\ UNCHANGED <<user, contents, posts, asked, said, due>>

ReadList(f) ==
    /\ fetches[f].pc = "sent"
    /\ \/ fetches' = [fetches EXCEPT ![f] = [@ EXCEPT !.pc = "read", !.list = contents]] /\ UNCHANGED visit
       \/ Failure /\ fetches' = [fetches EXCEPT ![f] = [@ EXCEPT !.pc = "read", !.ok = FALSE]]
    /\ UNCHANGED <<user, contents, view, posts, toasts, asked, said, due>>

\* What the mounted list makes of an answer.
Listed(f) ==
    IF fetches[f].mount # view.mount THEN view
    ELSE IF fetches[f].ok THEN [view EXCEPT !.list = fetches[f].list, !.loading = FALSE,
                                            !.err = IF view.at = "browse" THEN FALSE ELSE @]
    ELSE [view EXCEPT !.err = TRUE, !.loading = FALSE]

\* Mutant of fetchItems: a fetch that worked is announced, too.
fetchItemsAnnounced(f) ==
    /\ fetches[f].pc = "read"
    /\ IF visit.page = "home"
       THEN Toast(1) /\ Rendered(Listed(f), [fetches EXCEPT ![f] = None])
       ELSE fetches' = [fetches EXCEPT ![f] = None] /\ view' = Listed(f) /\ UNCHANGED toasts
    /\ UNCHANGED <<visit, user, contents, posts, asked, said, due>>

\* The answer of a fetch, from whichever mount.  One that failed is
\* announced, on the home page, and so renders it again.
fetchItems(f) ==
    /\ fetches[f].pc = "read"
    /\ IF visit.page = "home" /\ ~fetches[f].ok
       THEN Toast(1) /\ Rendered(Listed(f), [fetches EXCEPT ![f] = None])
       ELSE fetches' = [fetches EXCEPT ![f] = None] /\ view' = Listed(f) /\ UNCHANGED toasts
    /\ UNCHANGED <<visit, user, contents, posts, asked, said, due>>

\* Refresh, which does not work while the list is loading, or Try Again,
\* which does.
Refresh ==
    /\ view.at = "browse"
    /\ ~view.loading \/ view.err
    /\ Spend("clicks")
    /\ Started(view, fetches)
    /\ UNCHANGED <<user, contents, posts, toasts, asked, said, due>>

-----------------------------------------------------------------------------
(***************************************************************************)
(* The pages                                                               *)
(***************************************************************************)

OpenHome ==
    /\ visit.page = "home" /\ view.at = "closed"
    /\ view' = Mounted("upload", 1)
    /\ UNCHANGED <<visit, user, contents, posts, fetches, toasts, asked, said, due>>

setTab(t) ==
    /\ view.at \in Tabs /\ t \in visit.tabs /\ t # view.at
    /\ Spend("moves")
    /\ Rendered(Mounted(t, view.mount + 1), fetches)
    /\ UNCHANGED <<user, contents, posts, toasts, asked, said, due>>

OpenDashboard ==
    /\ visit.page = "dashboard" /\ view.at = "closed"
    /\ Started([Mounted("dashboard", 1) EXCEPT !.loading = TRUE], fetches)
    /\ UNCHANGED <<visit, user, contents, posts, toasts, asked, said, due>>

setAutoRefresh ==
    /\ view.at = "dashboard"
    /\ Spend("clicks")
    /\ view' = [view EXCEPT !.auto = ~@]
    /\ UNCHANGED <<user, contents, posts, fetches, toasts, asked, said, due>>

\* Mutant of Interval: not again while something is shown.
IntervalOnce ==
    /\ view.at = "dashboard" /\ view.auto
    /\ view.list = 0
    /\ Started([view EXCEPT !.err = FALSE], fetches)
    /\ UNCHANGED <<visit, user, contents, posts, toasts, asked, said, due>>

\* Every ten seconds, whatever became of the last fetch.
Interval ==
    /\ view.at = "dashboard" /\ view.auto
    /\ Started([view EXCEPT !.err = FALSE], fetches)
    /\ UNCHANGED <<visit, user, contents, posts, toasts, asked, said, due>>

\* Refresh and Try Again of the dashboard.
RefreshDashboard ==
    /\ view.at = "dashboard"
    /\ Spend("clicks")
    /\ Started([view EXCEPT !.err = FALSE], fetches)
    /\ UNCHANGED <<user, contents, posts, toasts, asked, said, due>>

\* Somebody else's publication.
Publication ==
    /\ Spend("others")
    /\ contents' = contents + 1
    /\ UNCHANGED <<user, view, posts, fetches, toasts, asked, said, due>>

-----------------------------------------------------------------------------
(***************************************************************************)
(* The forms                                                               *)
(***************************************************************************)

form == Forms[view.at]
OnForm == view.at \in DOMAIN Forms

\* A field is filled or cleared.
Fill(field) ==
    /\ OnForm /\ field \in form.needs
    /\ Spend("edits")
    /\ view' = [view EXCEPT !.filled = IF field \in @ THEN @ \ {field} ELSE @ \cup {field}]
    /\ UNCHANGED <<user, contents, posts, fetches, toasts, asked, said, due>>

\* The link is typed, changed or removed; a link, but not its removal, is
\* written into the box.
setPlatformUrl(l) ==
    /\ OnForm /\ form.links /\ l # view.link
    /\ l \in visit.links \cup {"none"}
    /\ Spend("edits")
    /\ view' = [view EXCEPT !.link = l, !.bindings = IF l = "none" THEN @ ELSE l]
    /\ UNCHANGED <<user, contents, posts, fetches, toasts, asked, said, due>>

\* The box is emptied.
clearBindings ==
    /\ OnForm /\ form.links /\ view.bindings # "none"
    /\ Spend("edits")
    /\ view' = [view EXCEPT !.bindings = "none"]
    /\ UNCHANGED <<user, contents, posts, fetches, toasts, asked, said, due>>

\* The request leaves: straight to the API, or by the Next.js routes.
postJson ==
    LET free == CHOOSE c \in PostSlots : posts[c] = None IN
    /\ \E c \in PostSlots : posts[c] = None
    /\ posts' = [posts EXCEPT ![free] =
                   [pc |-> IF form.links THEN "middleware" ELSE "api", form |-> view.at,
                    mount |-> view.mount, complete |-> form.needs \subseteq view.filled,
                    bindings |-> view.bindings, ok |-> TRUE]]
    /\ view' = [view EXCEPT !.loading = TRUE, !.err = FALSE]
    /\ asked' = asked + IF form.toast THEN 1 ELSE 0
    /\ UNCHANGED <<user, contents, fetches, toasts, said, due>>

Submit ==
    /\ OnForm
    /\ form.needs \subseteq view.filled /\ ~view.loading
    /\ Spend("clicks")
    /\ postJson

\* Try Again calls the handler, not the button: all it asks for is the file.
Retry ==
    /\ OnForm
    /\ form.retry /\ view.err
    /\ Spend("clicks")
    /\ IF "file" \in form.needs \ view.filled
       THEN view' = [view EXCEPT !.err = FALSE]
            /\ UNCHANGED <<user, contents, posts, fetches, toasts, asked, said, due>>
       ELSE postJson

Refuse(c) == posts' = [posts EXCEPT ![c] = [@ EXCEPT !.pc = "reply", !.ok = FALSE]]
Proceed(c, pc) == posts' = [posts EXCEPT ![c] = [@ EXCEPT !.pc = pc]]
Server == UNCHANGED <<user, view, fetches, toasts, asked, said, due>>

\* getToken reads the cookie as a token.  Whoever has none is sent to the
\* page for signing in, which is not the answer the form can read.
middleware(c) ==
    /\ posts[c].pc = "middleware"
    /\ IF visit.decodes /\ user.in THEN Proceed(c, "session") ELSE Refuse(c)
    /\ Server /\ UNCHANGED <<visit, contents>>

\* The session itself, and what must not be missing: with an empty box the
\* bind form sends a platform id that it has no field for.
getServerSession(c) ==
    /\ posts[c].pc = "session"
    /\ IF user.in /\ ~(posts[c].form = "bind" /\ posts[c].bindings = "none")
       THEN Proceed(c, "accounts") ELSE Refuse(c)
    /\ Server /\ UNCHANGED <<visit, contents>>

\* Mutant of LinkedAccounts: only the platform field is looked at, not the bindings.
LinkedAccountsOfField(c) ==
    /\ posts[c].pc = "accounts"
    /\ Proceed(c, "api")
    /\ Server /\ UNCHANGED <<visit, contents>>

LinkedAccounts(c) ==
    /\ posts[c].pc = "accounts"
    /\ IF providerForPlatform(posts[c].bindings) \subseteq user.linked
       THEN Proceed(c, "api") ELSE Refuse(c)
    /\ Server /\ UNCHANGED <<visit, contents>>

Publishes(c) == Forms[posts[c].form].publishes

\* The API does what it is asked, if nothing is missing.
Served(c) ==
    /\ posts[c].pc = "api"
    /\ IF posts[c].complete THEN Proceed(c, "reply") ELSE Refuse(c)
    /\ contents' = IF posts[c].complete /\ Publishes(c) THEN contents + 1 ELSE contents
    /\ Server /\ UNCHANGED visit

\* It, or the way to it and back, fails; it may have published all the same.
Fails(c) ==
    /\ posts[c].pc = "api"
    /\ Failure
    /\ Refuse(c)
    /\ contents' \in {contents} \cup IF posts[c].complete /\ Publishes(c) THEN {contents + 1} ELSE {}
    /\ Server

\* What becomes of the form that is mounted.
Ended(c) ==
    IF posts[c].mount # view.mount THEN view
    ELSE [view EXCEPT !.loading = FALSE, !.err = ~posts[c].ok,
                      !.result = @ \/ (posts[c].ok /\ posts[c].form = "one")]

Announces(c) == Forms[posts[c].form].toast

\* Mutant of Answered: the list is left as it is.
AnsweredUnseen(c) ==
    /\ posts[c].pc = "reply"
    /\ posts' = [posts EXCEPT ![c] = None]
    /\ due' = IF posts[c].form = "one" /\ posts[c].ok THEN contents ELSE due
    /\ Toast(1) /\ view' = Ended(c) /\ UNCHANGED fetches
    /\ said' = said + IF Announces(c) THEN 1 ELSE 0
    /\ UNCHANGED <<visit, user, contents, asked>>

\* The form learns how it ended, if it is still there; the page's toasts
\* tell in any case, which renders the page, and a one-shot that is complete
\* renews the list.
Answered(c) ==
    /\ posts[c].pc = "reply"
    /\ posts' = [posts EXCEPT ![c] = None]
    /\ due' = IF posts[c].form = "one" /\ posts[c].ok THEN contents ELSE due
    /\ IF Announces(c) \/ ~posts[c].ok
       THEN Toast(1) /\ Rendered(Ended(c), fetches)
            /\ said' = said + IF Announces(c) THEN 1 ELSE 0
       ELSE view' = Ended(c) /\ UNCHANGED <<toasts, fetches, said>>
    /\ UNCHANGED <<visit, user, contents, asked>>

-----------------------------------------------------------------------------
(***************************************************************************)
(* Signing in and out and linking accounts, in another tab of the browser  *)
(***************************************************************************)

Account ==
    /\ Spend("accounts")
    /\ UNCHANGED <<contents, view, posts, fetches, toasts, asked, said, due>>

\* A provider's account signs its user in, who has it linked, or links it to
\* the user who is signed in.
signIn(p) ==
    /\ ~user.in \/ p \notin user.linked
    /\ user' = [in |-> TRUE, linked |-> user.linked \cup {p}]
    /\ Account

signOut ==
    /\ user.in
    /\ user' = [user EXCEPT !.in = FALSE]
    /\ Account

Serving(c) == middleware(c) \/ getServerSession(c) \/ LinkedAccounts(c) \/ Served(c)

\* Nothing is under way, and the user may leave it at that.
WebRest ==
    /\ posts = [c \in PostSlots |-> None] /\ fetches = [f \in FetchSlots |-> None] /\ toasts = 0
    /\ UNCHANGED web

WebNext ==
    \/ OpenHome \/ OpenDashboard \/ removeToast \/ CopyButton \/ Refresh
    \/ setAutoRefresh \/ Interval \/ RefreshDashboard \/ Publication
    \/ \E f \in FetchSlots : ReadList(f) \/ fetchItems(f)
    \/ \E t \in Tabs : setTab(t)
    \/ \E field \in {"file", "rest"} : Fill(field)
    \/ \E l \in Links \cup {"none"} : setPlatformUrl(l)
    \/ clearBindings \/ Submit \/ Retry
    \/ \E c \in PostSlots : Serving(c) \/ Fails(c) \/ Answered(c)
    \/ signOut \/ \E p \in Providers : signIn(p)
    \/ WebRest

\* Requests are answered, timers fire.
WebFairness ==
    /\ \A c \in PostSlots : WF_web(Serving(c)) /\ WF_web(Answered(c))
    /\ \A f \in FetchSlots : WF_web(ReadList(f)) /\ WF_web(fetchItems(f))
    /\ WF_web(removeToast) /\ WF_web(Interval)

WebSpec == WebInit /\ [][WebNext]_web /\ WebFairness

-----------------------------------------------------------------------------
(***************************************************************************)
(* Properties                                                              *)
(***************************************************************************)

WebTypeOK ==
    /\ visit \in Visit
    /\ user \in [in : BOOLEAN, linked : SUBSET Providers]
    /\ contents \in Nat /\ due \in 0 .. contents
    /\ view \in View
    /\ posts \in [PostSlots -> {None} \cup Post]
    /\ fetches \in [FetchSlots -> {None} \cup Fetch]
    /\ toasts \in 0 .. MaxToasts
    /\ asked \in Nat /\ said \in 0 .. asked

UnderWay == {c \in PostSlots : posts[c] # None}

\* As long as a form stays on the page, it has one post under way at most,
\* however its button and its Try Again are used while older posts end: an
\* impatient click publishes nothing twice.  A form that is left and opened
\* again is another one: it knows nothing of the post that is still under way,
\* and may send the same again.
OnePostPerMount ==
    Cardinality({c \in UnderWay : posts[c].mount = view.mount}) <= (IF view.loading THEN 1 ELSE 0)

\* The end of every post is announced once, also when its form was left,
\* except that a list of verifications which arrives just appears.
EveryEndAnnounced == said + Cardinality({c \in UnderWay : Announces(c)}) = asked

\* What is published through the Next.js routes is bound to platforms only
\* of which the user has an account linked.
BindingsNeedAccounts ==
    [][\A c \in PostSlots :
          (posts[c].pc = "api" /\ Forms[posts[c].form].links /\ posts'[c].pc = "reply")
            => providerForPlatform(posts[c].bindings) \subseteq user.linked]_web

\* Once the page has said that a one-shot is complete, a list that is at
\* rest shows it, unless its last fetch failed, or two fetches overlapped
\* and the older answer came last.
CompletedIsListed ==
    (view.at = "browse" /\ fetches = [f \in FetchSlots |-> None])
        => view.list >= due \/ view.err \/ view.overlap

\* Fetching ends: although every toast that comes or goes fetches the list
\* again, and a fetch that fails shows one, the page comes to rest when the
\* API answers and the user does nothing.
FetchingEnds == visit.page = "home" => <>[](\A f \in FetchSlots : fetches[f] = None)

\* A dashboard that refreshes itself ends up showing what there is,
\* in whatever order the answers come and although some fail.
DashboardCatchesUp ==
    <>[](view.auto) => <>[](view.list = contents)

\* Forms, toasts and the list agree: one post for a form that stays on the
\* page, each end announced once, and what was announced as complete is in a list at rest.
WebInv == WebTypeOK /\ OnePostPerMount /\ EveryEndAnnounced /\ CompletedIsListed
=============================================================================
