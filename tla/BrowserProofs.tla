---------------------------- MODULE BrowserProofs -----------------------------
(*****************************************************************************)
(* Theorems about the programs that run in a user's browser: the pages of    *)
(* the web application, the choices that its tabs share, and the extension.  *)
(*****************************************************************************)
EXTENDS WebApp, WebPreferences, Extension, FiniteSetTheorems, WellFoundedInduction, TLAPS

-------------------------------------------------------------------------------
(*****************************************************************************)
(* The pages of the web application and its sessions.                        *)
(*****************************************************************************)

\* The form v is waiting for the only post it has made, and shows no error
\* meanwhile; other posts were made by forms that are gone.
PostsFit(v, ps) ==
    /\ \A c \in PostSlots : ps[c] # None => ps[c].mount <= v.mount
    /\ \A c \in PostSlots : ps[c] # None /\ ps[c].mount = v.mount
                               => v.loading /\ v.at \in DOMAIN Forms
    /\ \A c, d \in PostSlots :
          ps[c] # None /\ ps[c].mount = v.mount /\ ps[d] # None /\ ps[d].mount = v.mount => c = d
    /\ v.at \in DOMAIN Forms => ~(v.err /\ v.loading)
    /\ v.at = "closed" => v.mount = 0

\* Forms fetch nothing.
FetchesFit(v, fs) ==
    \A f \in FetchSlots :
        fs[f] # None => fs[f].mount <= v.mount /\ (fs[f].mount = v.mount => v.at \notin DOMAIN Forms)

\* While a list's fetches do not overlap, what was read of it since the
\* announcement d is recent enough.
ListFits(v, fs, d) ==
    v.at = "browse" /\ ~v.overlap =>
        /\ \A f, g \in FetchSlots :
              fs[f] # None /\ fs[f].mount = v.mount /\ fs[g] # None /\ fs[g].mount = v.mount => f = g
        /\ \A f \in FetchSlots : fs[f] # None /\ fs[f].mount = v.mount
                                   => (fs[f].pc = "read" /\ fs[f].ok => fs[f].list >= d)
        /\ (\A f \in FetchSlots : fs[f] # None => fs[f].mount # v.mount)
             => v.list >= d \/ v.err

\* What has passed the last of the routes has its accounts.
AccountsFit(ps, linked) ==
    \A c \in PostSlots : ps[c].pc = "api" /\ Forms[ps[c].form].links
        => providerForPlatform(ps[c].bindings) \subseteq linked

\* The posts whose end is to be announced.
Telling(ps) == {c \in PostSlots : ps[c] # None /\ Forms[ps[c].form].toast}

\* The inductive invariant: each part relates the calls under way to the page that
\* waits for them.
WInv ==
    /\ WebTypeOK
    /\ PostsFit(view, posts)
    /\ FetchesFit(view, fetches)
    /\ ListFits(view, fetches, due)
    /\ AccountsFit(posts, user.linked)
    /\ said + Cardinality(Telling(posts)) = asked

-----------------------------------------------------------------------------
(***************************************************************************)
(* Forms, views, posts and fetches                                         *)
(***************************************************************************)

\* The forms are eight tabs, and a one-shot's end is announced.
LEMMA FormNames ==
    /\ DOMAIN Forms = {"upload", "one", "manifest", "register", "verify", "proof", "bind", "verifications"}
    /\ Tabs = DOMAIN Forms \cup {"browse"}
    /\ Forms["one"].toast
  BY DEF Forms, Tabs, OneShotForm

\* What a form wants is a file or the rest.
LEMMA FormNeeds ==
    ASSUME NEW f \in DOMAIN Forms
    PROVE  Forms[f].needs \subseteq {"file", "rest"} /\ Forms[f].links \in BOOLEAN /\ Forms[f].toast \in BOOLEAN
<1>1. CASE f = "upload"
  BY <1>1 DEF Forms, UploadForm
<1>2. CASE f = "one"
  BY <1>2 DEF Forms, OneShotForm
<1>3. CASE f = "manifest"
  BY <1>3 DEF Forms, ManifestForm
<1>4. CASE f = "register"
  BY <1>4 DEF Forms, RegisterForm
<1>5. CASE f = "verify"
  BY <1>5 DEF Forms, VerifyForm
<1>6. CASE f = "proof"
  BY <1>6 DEF Forms, ProofForm
<1>7. CASE f = "bind"
  BY <1>7 DEF Forms, BindForm
<1>8. CASE f = "verifications"
  BY <1>8 DEF Forms, VerificationsView
<1> QED
  BY <1>1, <1>2, <1>3, <1>4, <1>5, <1>6, <1>7, <1>8, FormNames

\* A slot that is free is none that is used.
LEMMA NoneIsNone ==
    /\ None.pc = "none"
    /\ \A p \in Post : p # None
    /\ \A f \in Fetch : f # None
<1>1. None.pc = "none"
  BY DEF None
<1> QED
  BY <1>1 DEF Post, Fetch

\* A view that has just been mounted.
LEMMA NewView ==
    ASSUME NEW at \in Tabs \cup {"dashboard", "closed"}, NEW n \in Nat, NEW m, m = Mounted(at, n)
    PROVE  m \in View /\ m.at = at /\ m.mount = n /\ ~m.loading /\ ~m.err
  BY DEF Mounted, View, Bindings

\* A form that posts.
LEMMA ViewPosts ==
    ASSUME NEW v \in View, NEW m, m = [v EXCEPT !.loading = TRUE, !.err = FALSE]
    PROVE  m \in View /\ m.at = v.at /\ m.mount = v.mount /\ m.loading /\ ~m.err
  BY DEF View

\* The post it makes.
LEMMA PostMade ==
    ASSUME NEW v \in View, v.at \in DOMAIN Forms, NEW k \in BOOLEAN, NEW p,
           p = [pc |-> IF Forms[v.at].links THEN "middleware" ELSE "api", form |-> v.at,
                mount |-> v.mount, complete |-> k, bindings |-> v.bindings, ok |-> TRUE]
    PROVE  /\ p \in Post /\ p.form = v.at /\ p.mount = v.mount
           /\ p.pc = "api" => ~Forms[p.form].links
<1> PICK at : at = IF Forms[v.at].links THEN "middleware" ELSE "api"
  OBVIOUS
<1>1. at \in {"middleware", "api"} /\ (at = "api" => ~Forms[v.at].links)
  OBVIOUS
<1>2. v.mount \in Nat /\ v.bindings \in Bindings
  BY DEF View
<1>3. p = [pc |-> at, form |-> v.at, mount |-> v.mount, complete |-> k, bindings |-> v.bindings, ok |-> TRUE]
  OBVIOUS
<1> QED
  BY <1>1, <1>2, <1>3 DEF Post

\* A fetch that is read, or fails.
LEMMA FetchGoes ==
    ASSUME NEW f \in Fetch, NEW n \in Nat, NEW m,
           m = [f EXCEPT !.pc = "read", !.list = n] \/ m = [f EXCEPT !.pc = "read", !.ok = FALSE]
    PROVE  m \in Fetch /\ m.mount = f.mount /\ (m.ok => m.list = n)
<1>1. CASE m = [f EXCEPT !.pc = "read", !.list = n]
  BY <1>1 DEF Fetch
<1>2. CASE m = [f EXCEPT !.pc = "read", !.ok = FALSE]
  BY <1>2 DEF Fetch
<1> QED
  BY <1>1, <1>2

\* A fetch that is sent.
LEMMA FetchSent ==
    ASSUME NEW n \in Nat, NEW m, m = [pc |-> "sent", mount |-> n, ok |-> TRUE, list |-> 0]
    PROVE  m \in Fetch /\ m.mount = n /\ m.pc = "sent"
  BY DEF Fetch

\* What becomes of a view when a post of it ends.
LEMMA EndedIs ==
    ASSUME WebTypeOK, NEW c \in PostSlots, posts[c] \in Post, NEW m, m = Ended(c)
    PROVE  /\ m \in View /\ m.at = view.at /\ m.mount = view.mount
           /\ posts[c].mount # view.mount => m = view
           /\ posts[c].mount = view.mount => ~m.loading
<1>1. view \in View /\ posts[c].ok \in BOOLEAN
  BY DEF WebTypeOK, Post
<1> PICK e : e = ~posts[c].ok
  OBVIOUS
<1> PICK r : r = (view.result \/ (posts[c].ok /\ posts[c].form = "one"))
  OBVIOUS
<1>2. m = IF posts[c].mount # view.mount THEN view
          ELSE [view EXCEPT !.loading = FALSE, !.err = e, !.result = r]
  BY DEF Ended
<1>3. CASE posts[c].mount # view.mount
  BY <1>1, <1>2, <1>3
<1>4. CASE posts[c].mount = view.mount
  <2>1. m = [view EXCEPT !.loading = FALSE, !.err = e, !.result = r]
    BY <1>2, <1>4
  <2>2. e \in BOOLEAN /\ r \in BOOLEAN
    OBVIOUS
  <2> QED
    BY <1>1, <1>4, <2>1, <2>2 DEF View
<1> QED
  BY <1>3, <1>4

\* What becomes of a view when a fetch is answered.
LEMMA ListedIs ==
    ASSUME WebTypeOK, NEW f \in FetchSlots, fetches[f] \in Fetch, NEW m, m = Listed(f)
    PROVE  /\ m \in View /\ m.at = view.at /\ m.mount = view.mount
           /\ m.overlap <=> view.overlap
           /\ fetches[f].mount # view.mount => m = view
           /\ fetches[f].mount = view.mount =>
                ~m.loading /\ (IF fetches[f].ok THEN m.list = fetches[f].list ELSE m.err)
<1>1. view \in View /\ fetches[f].ok \in BOOLEAN /\ fetches[f].list \in Nat
  BY DEF WebTypeOK, Fetch
<1>2. CASE fetches[f].mount # view.mount
  BY <1>1, <1>2 DEF Listed
<1>3. CASE fetches[f].mount = view.mount /\ fetches[f].ok
  <2> PICK e : e = IF view.at = "browse" THEN FALSE ELSE view.err
    OBVIOUS
  <2>1. m = [view EXCEPT !.list = fetches[f].list, !.loading = FALSE, !.err = e]
    BY <1>3 DEF Listed
  <2>2. e \in BOOLEAN
    BY <1>1 DEF View
  <2> QED
    BY <1>1, <1>3, <2>1, <2>2 DEF View
<1>4. CASE fetches[f].mount = view.mount /\ ~fetches[f].ok
  <2>1. m = [view EXCEPT !.err = TRUE, !.loading = FALSE]
    BY <1>4 DEF Listed
  <2> QED
    BY <1>1, <1>4, <2>1 DEF View
<1> QED
  BY <1>2, <1>3, <1>4

\* What is spent leaves the bounds bounds.
LEMMA SpendKeeps ==
    ASSUME visit \in Visit, NEW what \in {"moves", "edits", "clicks", "accounts", "others", "faults"},
           Spend(what)
    PROVE  visit' \in Visit
<1>1. visit[what] \in Nat /\ visit[what] > 0
  BY DEF Spend, Visit
<1> PICK n : n = visit[what] - 1
  OBVIOUS
<1>2. n \in Nat
  BY <1>1
<1>3. visit' = [visit EXCEPT ![what] = n]
  BY DEF Spend
<1>4. CASE what \in {"moves", "edits"}
  BY <1>2, <1>3, <1>4 DEF Visit
<1>5. CASE what \in {"clicks", "accounts"}
  BY <1>2, <1>3, <1>5 DEF Visit
<1>6. CASE what \in {"others", "faults"}
  BY <1>2, <1>3, <1>6 DEF Visit
<1> QED
  BY <1>4, <1>5, <1>6

\* The posts that are to be announced are finitely many.
LEMMA TellingFinite ==
    ASSUME NEW ps
    PROVE  IsFiniteSet(Telling(ps)) /\ Cardinality(Telling(ps)) \in Nat
<1>1. IsFiniteSet(PostSlots) /\ Telling(ps) \subseteq PostSlots
  BY WebAssumption DEF Telling
<1> QED
  BY <1>1, FS_Subset, FS_CardinalityType

-----------------------------------------------------------------------------
(***************************************************************************)
(* Rendering                                                               *)
(***************************************************************************)

\* A view without posts of its own that starts a fetch is a list, or the
\* dashboard: unless another fetch of it is under way, this one will do for
\* whatever was announced.
LEMMA StartedFits ==
    ASSUME NEW v \in View, NEW fs \in [FetchSlots -> {None} \cup Fetch], NEW ps, NEW d,
           PostsFit(v, ps), FetchesFit(v, fs), v.at \notin DOMAIN Forms, Started(v, fs)
    PROVE  /\ view' \in View /\ fetches' \in [FetchSlots -> {None} \cup Fetch]
           /\ PostsFit(view', ps) /\ FetchesFit(view', fetches') /\ ListFits(view', fetches', d)
<1> PICK s : s = CHOOSE f \in FetchSlots : fs[f] = None
  OBVIOUS
<1>1. s \in FetchSlots /\ fs[s] = None
  BY DEF Started
<1> PICK g : g = [pc |-> "sent", mount |-> v.mount, ok |-> TRUE, list |-> 0]
  OBVIOUS
<1>2. fetches' = [fs EXCEPT ![s] = g]
  BY DEF Started
<1>3. v.mount \in Nat /\ v.loading \in BOOLEAN /\ v.overlap \in BOOLEAN
  BY DEF View
<1>4. g \in Fetch /\ g.mount = v.mount /\ g.pc = "sent"
  BY <1>3, FetchSent
<1> PICK l \in BOOLEAN : l = (v.at = "browse" \/ v.loading)
  OBVIOUS
<1> PICK o \in BOOLEAN : o = (v.overlap \/ \E f \in FetchSlots : fs[f] # None /\ fs[f].mount = v.mount)
  OBVIOUS
<1> PICK m : m = view'
  OBVIOUS
<1>5. m = [v EXCEPT !.loading = l, !.overlap = o]
  BY DEF Started
<1>6. /\ m \in View /\ m.at = v.at /\ m.mount = v.mount
      /\ m.loading <=> l
      /\ m.overlap <=> o
  BY <1>5 DEF View
<1>7. fetches' \in [FetchSlots -> {None} \cup Fetch]
  BY <1>1, <1>2, <1>4
<1>8. ASSUME NEW f \in FetchSlots
      PROVE  fetches'[f] = IF f = s THEN g ELSE fs[f]
  BY <1>2
<1>9. PostsFit(m, ps)
  BY <1>6 DEF PostsFit
<1>10. FetchesFit(m, fetches')
  BY <1>3, <1>4, <1>6, <1>8 DEF FetchesFit
<1>11. ListFits(m, fetches', d)
  <2> SUFFICES ASSUME ~m.overlap
               PROVE  ListFits(m, fetches', d)
    BY DEF ListFits
  <2>1. \A f \in FetchSlots : fs[f] # None => fs[f].mount # v.mount
    BY <1>6
  <2>2. \A f \in FetchSlots : fetches'[f] # None /\ fetches'[f].mount = m.mount => f = s
    BY <1>6, <1>8, <2>1
  <2>3. fetches'[s] = g /\ g # None
    BY <1>1, <1>4, <1>8, NoneIsNone
  <2>4. \A f, h \in FetchSlots :
           fetches'[f] # None /\ fetches'[f].mount = m.mount /\ fetches'[h] # None /\ fetches'[h].mount = m.mount
             => f = h
    BY <2>2
  <2>5. \A f \in FetchSlots : fetches'[f] # None /\ fetches'[f].mount = m.mount => fetches'[f].pc # "read"
    BY <1>4, <2>2, <2>3
  <2>6. ~(\A f \in FetchSlots : fetches'[f] # None => fetches'[f].mount # m.mount)
    BY <1>1, <1>4, <1>6, <2>3
  <2> QED
    BY <2>4, <2>5, <2>6 DEF ListFits
<1> QED
  BY <1>6, <1>7, <1>9, <1>10, <1>11

\* A page that is rendered again.
LEMMA RenderedFits ==
    ASSUME NEW v \in View, NEW fs \in [FetchSlots -> {None} \cup Fetch], NEW ps, NEW d,
           PostsFit(v, ps), FetchesFit(v, fs), Rendered(v, fs)
    PROVE  /\ view' \in View /\ fetches' \in [FetchSlots -> {None} \cup Fetch]
           /\ PostsFit(view', ps) /\ FetchesFit(view', fetches') /\ ListFits(view', fetches', d)
<1>1. CASE v.at = "browse"
  <2>1. Started(v, fs) /\ v.at \notin DOMAIN Forms
    BY <1>1, FormNames DEF Rendered
  <2> QED
    BY <2>1, StartedFits
<1>2. CASE v.at # "browse"
  <2>1. view' = v /\ fetches' = fs
    BY <1>2 DEF Rendered
  <2> QED
    BY <1>2, <2>1 DEF ListFits
<1> QED
  BY <1>1, <1>2

\* A new view has no posts and no fetches.
LEMMA MountedFits ==
    ASSUME WInv, NEW at \in Tabs \cup {"dashboard"}, NEW n \in Nat, n = view.mount + 1, NEW m, m = Mounted(at, n)
    PROVE  m \in View /\ PostsFit(m, posts) /\ FetchesFit(m, fetches) /\ m.at = at
<1>1. m \in View /\ m.at = at /\ m.mount = n /\ ~m.loading /\ ~m.err
  BY NewView
<1>2. view.mount \in Nat
  BY DEF WInv, WebTypeOK, View
<1>3. ASSUME NEW c \in PostSlots, posts[c] # None
      PROVE  posts[c].mount <= n /\ posts[c].mount # n
  <2>1. posts[c] \in Post
    BY <1>3 DEF WInv, WebTypeOK
  <2>2. posts[c].mount \in Nat /\ posts[c].mount <= view.mount
    BY <1>3, <2>1 DEF WInv, PostsFit, Post
  <2> QED
    BY <1>2, <2>2
<1>4. ASSUME NEW f \in FetchSlots, fetches[f] # None
      PROVE  fetches[f].mount <= n /\ fetches[f].mount # n
  <2>1. fetches[f] \in Fetch
    BY <1>4 DEF WInv, WebTypeOK
  <2>2. fetches[f].mount \in Nat /\ fetches[f].mount <= view.mount
    BY <1>4, <2>1 DEF WInv, FetchesFit, Fetch
  <2> QED
    BY <1>2, <2>2
<1>5. m.at # "closed"
  BY <1>1, FormNames
<1> QED
  BY <1>1, <1>3, <1>4, <1>5 DEF PostsFit, FetchesFit

-----------------------------------------------------------------------------
(***************************************************************************)
(* Lists and toasts                                                        *)
(***************************************************************************)

\* What the steps of a list change at most: the view and its fetches.
LEMMA ListStep ==
    ASSUME WInv, visit' \in Visit, view' \in View, fetches' \in [FetchSlots -> {None} \cup Fetch],
           toasts' \in 0 .. MaxToasts,
           PostsFit(view', posts), FetchesFit(view', fetches'), ListFits(view', fetches', due),
           UNCHANGED <<user, contents, posts, asked, said, due>>
    PROVE  WInv'
<1>1. WebTypeOK'
  BY DEF WInv, WebTypeOK
<1> QED
  BY <1>1 DEF WInv

\* A toast more or less.
LEMMA ToastKeeps ==
    ASSUME toasts \in 0 .. MaxToasts, Toast(1) \/ (toasts > 0 /\ toasts' = toasts - 1) \/ toasts' = toasts
    PROVE  toasts' \in 0 .. MaxToasts
<1>1. MaxToasts \in Nat
  BY WebAssumption
<1>2. toasts \in Nat
  BY <1>1
<1>3. CASE Toast(1)
  BY <1>1, <1>2, <1>3 DEF Toast
<1>4. CASE toasts > 0 /\ toasts' = toasts - 1
  BY <1>1, <1>2, <1>4
<1> QED
  BY <1>3, <1>4

\* Toasts that end and values that are copied render the page.
LEMMA ToastsKeep ==
    ASSUME WInv, removeToast \/ CopyButton
    PROVE  WInv'
<1>1. /\ Rendered(view, fetches) /\ UNCHANGED <<user, contents, posts, asked, said, due>>
      /\ Toast(1) \/ (toasts > 0 /\ toasts' = toasts - 1)
      /\ visit' = visit \/ Spend("clicks")
  BY DEF removeToast, CopyButton
<1>2. /\ view \in View /\ fetches \in [FetchSlots -> {None} \cup Fetch] /\ visit \in Visit
      /\ toasts \in 0 .. MaxToasts /\ PostsFit(view, posts) /\ FetchesFit(view, fetches)
  BY DEF WInv, WebTypeOK
<1>3. /\ view' \in View /\ fetches' \in [FetchSlots -> {None} \cup Fetch]
      /\ PostsFit(view', posts) /\ FetchesFit(view', fetches') /\ ListFits(view', fetches', due)
  BY <1>1, <1>2, RenderedFits
<1>4. toasts' \in 0 .. MaxToasts /\ visit' \in Visit
  BY <1>1, <1>2, ToastKeeps, SpendKeeps
<1> QED
  BY <1>1, <1>3, <1>4, ListStep

\* The list is asked for again.
LEMMA RefreshKeeps ==
    ASSUME WInv, Refresh
    PROVE  WInv'
<1>1. /\ view.at = "browse" /\ Started(view, fetches) /\ Spend("clicks")
      /\ UNCHANGED <<user, contents, posts, toasts, asked, said, due>>
  BY DEF Refresh
<1>2. /\ view \in View /\ fetches \in [FetchSlots -> {None} \cup Fetch] /\ visit \in Visit
      /\ toasts \in 0 .. MaxToasts /\ PostsFit(view, posts) /\ FetchesFit(view, fetches)
  BY DEF WInv, WebTypeOK
<1>3. view.at \notin DOMAIN Forms
  BY <1>1, FormNames
<1>4. /\ view' \in View /\ fetches' \in [FetchSlots -> {None} \cup Fetch]
      /\ PostsFit(view', posts) /\ FetchesFit(view', fetches') /\ ListFits(view', fetches', due)
  BY <1>1, <1>2, <1>3, StartedFits
<1>5. visit' \in Visit
  BY <1>1, <1>2, SpendKeeps
<1> QED
  BY <1>1, <1>2, <1>4, <1>5, ListStep

\* The dashboard asks again, by itself or not.
LEMMA DashboardKeeps ==
    ASSUME WInv, view.at = "dashboard", Interval \/ RefreshDashboard
    PROVE  WInv'
<1> PICK v : v = [view EXCEPT !.err = FALSE]
  OBVIOUS
<1>1. /\ Started(v, fetches) /\ (visit' = visit \/ Spend("clicks"))
      /\ UNCHANGED <<user, contents, posts, toasts, asked, said, due>>
  BY DEF Interval, RefreshDashboard
<1>2. /\ view \in View /\ fetches \in [FetchSlots -> {None} \cup Fetch] /\ visit \in Visit
      /\ toasts \in 0 .. MaxToasts /\ PostsFit(view, posts) /\ FetchesFit(view, fetches)
  BY DEF WInv, WebTypeOK
<1>3. v \in View /\ v.at = view.at /\ v.mount = view.mount /\ (v.loading <=> view.loading) /\ ~v.err
  BY <1>2 DEF View
<1>4. v.at \notin DOMAIN Forms /\ v.at # "closed"
  BY <1>3, FormNames
<1>5. PostsFit(v, posts) /\ FetchesFit(v, fetches)
  BY <1>2, <1>3, <1>4 DEF PostsFit, FetchesFit
<1>6. /\ view' \in View /\ fetches' \in [FetchSlots -> {None} \cup Fetch]
      /\ PostsFit(view', posts) /\ FetchesFit(view', fetches') /\ ListFits(view', fetches', due)
  BY <1>1, <1>2, <1>3, <1>4, <1>5, StartedFits
<1>7. visit' \in Visit
  BY <1>1, <1>2, SpendKeeps
<1> QED
  BY <1>1, <1>2, <1>6, <1>7, ListStep

\* A list is read.
LEMMA ReadKeeps ==
    ASSUME WInv, NEW f \in FetchSlots, ReadList(f)
    PROVE  WInv'
<1>1. /\ fetches[f].pc = "sent" /\ (visit' = visit \/ Spend("faults"))
      /\ UNCHANGED <<user, contents, view, posts, toasts, asked, said, due>>
  BY DEF ReadList, Failure
<1>2. PICK m : /\ fetches' = [fetches EXCEPT ![f] = m]
               /\ \/ m = [fetches[f] EXCEPT !.pc = "read", !.list = contents]
                  \/ m = [fetches[f] EXCEPT !.pc = "read", !.ok = FALSE]
  BY DEF ReadList
<1>3. /\ view \in View /\ fetches \in [FetchSlots -> {None} \cup Fetch] /\ visit \in Visit
      /\ toasts \in 0 .. MaxToasts /\ contents \in Nat /\ due \in 0 .. contents
  BY DEF WInv, WebTypeOK
<1>4. fetches[f] \in Fetch
  BY <1>1, <1>3, NoneIsNone
<1>5. m \in Fetch /\ m.mount = fetches[f].mount /\ (m.ok => m.list = contents)
  BY <1>2, <1>3, <1>4, FetchGoes
<1>6. fetches' \in [FetchSlots -> {None} \cup Fetch]
  BY <1>2, <1>3, <1>5
<1>7. ASSUME NEW g \in FetchSlots
      PROVE  /\ fetches'[g] # None <=> fetches[g] # None
             /\ fetches[g] # None => fetches'[g].mount = fetches[g].mount
             /\ fetches'[g] = fetches[g] \/ fetches'[g] = m
  BY <1>2, <1>3, <1>4, <1>5, NoneIsNone
<1>8. contents >= due
  BY <1>3
<1>9. FetchesFit(view, fetches')
  BY <1>7 DEF WInv, FetchesFit
<1>10. ListFits(view, fetches', due)
  <2> SUFFICES ASSUME view.at = "browse", ~view.overlap
               PROVE  ListFits(view, fetches', due)
    BY DEF ListFits
  <2>1. \A g, h \in FetchSlots :
          fetches[g] # None /\ fetches[g].mount = view.mount /\ fetches[h] # None /\ fetches[h].mount = view.mount
            => g = h
    BY DEF WInv, ListFits
  <2>2. \A g, h \in FetchSlots :
          fetches'[g] # None /\ fetches'[g].mount = view.mount /\ fetches'[h] # None /\ fetches'[h].mount = view.mount
            => g = h
    BY <1>7, <2>1
  <2>3. \A g \in FetchSlots : fetches'[g] # None /\ fetches'[g].mount = view.mount
          => (fetches'[g].pc = "read" /\ fetches'[g].ok => fetches'[g].list >= due)
    BY <1>5, <1>7, <1>8 DEF WInv, ListFits
  <2>4. (\A g \in FetchSlots : fetches'[g] # None => fetches'[g].mount # view.mount)
          => view.list >= due \/ view.err
    BY <1>7 DEF WInv, ListFits
  <2> QED
    BY <2>2, <2>3, <2>4 DEF ListFits
<1>11. visit' \in Visit
  BY <1>1, <1>3, SpendKeeps
<1>12. PostsFit(view, posts)
  BY DEF WInv
<1> QED
  BY <1>1, <1>3, <1>6, <1>9, <1>10, <1>11, <1>12, ListStep

\* An answer reaches the list it was asked for by, or none.
LEMMA AnswerKeeps ==
    ASSUME WInv, NEW f \in FetchSlots, fetchItems(f)
    PROVE  WInv'
<1> PICK v : v = Listed(f)
  OBVIOUS
<1> PICK fs : fs = [fetches EXCEPT ![f] = None]
  OBVIOUS
<1>1. /\ fetches[f].pc = "read"
      /\ \/ Toast(1) /\ Rendered(v, fs)
         \/ fetches' = fs /\ view' = v /\ toasts' = toasts
            /\ (visit.page = "home" => fetches[f].ok)
      /\ UNCHANGED <<visit, user, contents, posts, asked, said, due>>
  BY DEF fetchItems
<1>2. /\ view \in View /\ fetches \in [FetchSlots -> {None} \cup Fetch] /\ visit \in Visit
      /\ toasts \in 0 .. MaxToasts /\ contents \in Nat /\ due \in 0 .. contents
  BY DEF WInv, WebTypeOK
<1>3. fetches[f] \in Fetch /\ fetches[f] # None
  BY <1>1, <1>2, NoneIsNone
<1>4. /\ v \in View /\ v.at = view.at /\ v.mount = view.mount
      /\ v.overlap <=> view.overlap
      /\ fetches[f].mount # view.mount => v = view
      /\ fetches[f].mount = view.mount =>
           ~v.loading /\ (IF fetches[f].ok THEN v.list = fetches[f].list ELSE v.err)
  BY <1>3, ListedIs DEF WInv
<1>5. fs \in [FetchSlots -> {None} \cup Fetch]
  BY <1>2
<1>6. ASSUME NEW g \in FetchSlots
      PROVE  fs[g] = IF g = f THEN None ELSE fetches[g]
  BY <1>2
<1>7. FetchesFit(v, fs)
  BY <1>4, <1>6 DEF WInv, FetchesFit
<1>8. PostsFit(v, posts)
  <2>1. CASE fetches[f].mount # view.mount
    BY <1>4, <2>1 DEF WInv
  <2>2. CASE fetches[f].mount = view.mount
    <3>1. view.at \notin DOMAIN Forms
      BY <1>3, <2>2 DEF WInv, FetchesFit
    <3> QED
      BY <1>4, <3>1 DEF WInv, PostsFit
  <2> QED
    BY <2>1, <2>2
<1>9. toasts' \in 0 .. MaxToasts
  BY <1>1, <1>2, ToastKeeps
<1>10. CASE Rendered(v, fs)
  <2>1. /\ view' \in View /\ fetches' \in [FetchSlots -> {None} \cup Fetch]
        /\ PostsFit(view', posts) /\ FetchesFit(view', fetches') /\ ListFits(view', fetches', due)
    BY <1>4, <1>5, <1>7, <1>8, <1>10, RenderedFits
  <2> QED
    BY <1>1, <1>2, <1>9, <2>1, ListStep
<1>11. CASE fetches' = fs /\ view' = v
  <2>1. ListFits(v, fs, due)
    <3> SUFFICES ASSUME view.at = "browse", ~view.overlap
                 PROVE  ListFits(v, fs, due)
      BY <1>4 DEF ListFits
    <3>1. \A g, h \in FetchSlots :
            fetches[g] # None /\ fetches[g].mount = view.mount /\ fetches[h] # None /\ fetches[h].mount = view.mount
              => g = h
      BY DEF WInv, ListFits
    <3>2. \A g, h \in FetchSlots :
            fs[g] # None /\ fs[g].mount = v.mount /\ fs[h] # None /\ fs[h].mount = v.mount => g = h
      BY <1>4, <1>6, <3>1
    <3>3. \A g \in FetchSlots : fs[g] # None /\ fs[g].mount = v.mount
            => (fs[g].pc = "read" /\ fs[g].ok => fs[g].list >= due)
      BY <1>4, <1>6 DEF WInv, ListFits
    <3>4. (\A g \in FetchSlots : fs[g] # None => fs[g].mount # v.mount) => v.list >= due \/ v.err
      <4>1. CASE fetches[f].mount # view.mount
        BY <1>4, <1>6, <4>1 DEF WInv, ListFits
      <4>2. CASE fetches[f].mount = view.mount
        BY <1>1, <1>3, <1>4, <4>2 DEF WInv, ListFits
      <4> QED
        BY <4>1, <4>2
    <3> QED
      BY <3>2, <3>3, <3>4 DEF ListFits
  <2>2. /\ view' \in View /\ fetches' \in [FetchSlots -> {None} \cup Fetch]
        /\ PostsFit(view', posts) /\ FetchesFit(view', fetches') /\ ListFits(view', fetches', due)
    BY <1>4, <1>5, <1>7, <1>8, <1>11, <2>1
  <2> QED
    BY <1>1, <1>2, <1>9, <2>2, ListStep
<1> QED
  BY <1>1, <1>10, <1>11

-----------------------------------------------------------------------------
(***************************************************************************)
(* The pages                                                               *)
(***************************************************************************)

\* A page or a tab is opened.
LEMMA OpenKeeps ==
    ASSUME WInv, OpenHome \/ OpenDashboard \/ \E t \in Tabs : setTab(t)
    PROVE  WInv'
<1>1. /\ view \in View /\ fetches \in [FetchSlots -> {None} \cup Fetch] /\ visit \in Visit
      /\ toasts \in 0 .. MaxToasts /\ view.mount \in Nat /\ (view.at = "closed" => view.mount = 0)
  BY DEF WInv, WebTypeOK, View, PostsFit
<1>2. CASE OpenHome
  <2> PICK m : m = Mounted("upload", 1)
    OBVIOUS
  <2>1. view' = m /\ UNCHANGED <<visit, user, contents, posts, fetches, toasts, asked, said, due>>
    BY <1>2 DEF OpenHome
  <2>2. 1 = view.mount + 1
    BY <1>1, <1>2 DEF OpenHome
  <2>3. m \in View /\ PostsFit(m, posts) /\ FetchesFit(m, fetches) /\ m.at = "upload"
    BY <2>2, MountedFits, FormNames
  <2>4. ListFits(m, fetches, due)
    BY <2>3 DEF ListFits
  <2> QED
    BY <1>1, <2>1, <2>3, <2>4, ListStep
<1>3. CASE OpenDashboard
  <2> PICK m : m = Mounted("dashboard", 1)
    OBVIOUS
  <2> PICK v : v = [m EXCEPT !.loading = TRUE]
    OBVIOUS
  <2>1. Started(v, fetches) /\ UNCHANGED <<visit, user, contents, posts, toasts, asked, said, due>>
    BY <1>3 DEF OpenDashboard
  <2>2. 1 = view.mount + 1
    BY <1>1, <1>3 DEF OpenDashboard
  <2>3. m \in View /\ PostsFit(m, posts) /\ FetchesFit(m, fetches) /\ m.at = "dashboard"
    BY <2>2, MountedFits
  <2>4. v \in View /\ v.at = m.at /\ v.mount = m.mount /\ v.loading
    BY <2>3 DEF View
  <2>5. v.at \notin DOMAIN Forms /\ v.at # "closed"
    BY <2>3, <2>4, FormNames
  <2>6. PostsFit(v, posts) /\ FetchesFit(v, fetches)
    BY <2>3, <2>4, <2>5 DEF PostsFit, FetchesFit
  <2>7. /\ view' \in View /\ fetches' \in [FetchSlots -> {None} \cup Fetch]
        /\ PostsFit(view', posts) /\ FetchesFit(view', fetches') /\ ListFits(view', fetches', due)
    BY <1>1, <2>1, <2>4, <2>5, <2>6, StartedFits
  <2> QED
    BY <1>1, <2>1, <2>7, ListStep
<1>4. ASSUME NEW t \in Tabs, setTab(t)
      PROVE  WInv'
  <2> PICK n : n = view.mount + 1
    OBVIOUS
  <2> PICK m : m = Mounted(t, n)
    OBVIOUS
  <2>1. /\ Rendered(m, fetches) /\ Spend("moves")
        /\ UNCHANGED <<user, contents, posts, toasts, asked, said, due>>
    BY <1>4 DEF setTab
  <2>2. n \in Nat
    BY <1>1
  <2>3. m \in View /\ PostsFit(m, posts) /\ FetchesFit(m, fetches)
    BY <2>2, MountedFits
  <2>4. /\ view' \in View /\ fetches' \in [FetchSlots -> {None} \cup Fetch]
        /\ PostsFit(view', posts) /\ FetchesFit(view', fetches') /\ ListFits(view', fetches', due)
    BY <1>1, <2>1, <2>3, RenderedFits
  <2>5. visit' \in Visit
    BY <1>1, <2>1, SpendKeeps
  <2> QED
    BY <1>1, <2>1, <2>4, <2>5, ListStep
<1> QED
  BY <1>2, <1>3, <1>4

-----------------------------------------------------------------------------
(***************************************************************************)
(* Forms that are filled                                                   *)
(***************************************************************************)

\* Fields, the link, the bindings, an error that is dismissed, and what the
\* dashboard is told about refreshing itself.
LEMMA EditKeeps ==
    ASSUME WInv, NEW m, view' = m,
           m \in View, m.at = view.at, m.mount = view.mount,
           m.loading <=> view.loading, m.err => view.err, view.at # "browse",
           visit' \in Visit, UNCHANGED <<user, contents, posts, fetches, toasts, asked, said, due>>
    PROVE  WInv'
<1>1. PostsFit(m, posts)
  BY DEF WInv, PostsFit
<1>2. FetchesFit(m, fetches)
  BY DEF WInv, FetchesFit
<1>3. ListFits(m, fetches, due)
  BY DEF ListFits
<1>4. fetches \in [FetchSlots -> {None} \cup Fetch] /\ toasts \in 0 .. MaxToasts
  BY DEF WInv, WebTypeOK
<1> QED
  BY <1>1, <1>2, <1>3, <1>4, ListStep

\* A form is filled, or the dashboard told to refresh itself.
LEMMA EditsKeep ==
    ASSUME WInv, \/ \E field \in {"file", "rest"} : Fill(field)
                 \/ \E l \in Links \cup {"none"} : setPlatformUrl(l)
                 \/ clearBindings \/ setAutoRefresh
    PROVE  WInv'
<1>1. view \in View /\ visit \in Visit
  BY DEF WInv, WebTypeOK
<1>2. /\ UNCHANGED <<user, contents, posts, fetches, toasts, asked, said, due>>
      /\ Spend("edits") \/ Spend("clicks")
      /\ view.at \in DOMAIN Forms \/ view.at = "dashboard"
  BY DEF Fill, setPlatformUrl, clearBindings, setAutoRefresh, OnForm
<1>3. visit' \in Visit /\ view.at # "browse"
  BY <1>1, <1>2, SpendKeeps, FormNames
<1> PICK m : m = view'
  OBVIOUS
<1>4. /\ view.filled \in SUBSET {"file", "rest"} /\ view.link \in {"none"} \cup Links
      /\ view.bindings \in Bindings /\ view.auto \in BOOLEAN
  BY <1>1 DEF View
<1>5. /\ m \in View /\ m.at = view.at /\ m.mount = view.mount
      /\ m.loading <=> view.loading
      /\ m.err => view.err
  <2>1. ASSUME NEW field \in {"file", "rest"}, Fill(field)
        PROVE  /\ m \in View /\ m.at = view.at /\ m.mount = view.mount
               /\ m.loading <=> view.loading
               /\ m.err => view.err
    <3> PICK fields : fields = IF field \in view.filled THEN view.filled \ {field} ELSE view.filled \cup {field}
      OBVIOUS
    <3>1. fields \in SUBSET {"file", "rest"}
      BY <1>4
    <3>2. m = [view EXCEPT !.filled = fields]
      BY <2>1 DEF Fill
    <3> QED
      BY <1>1, <3>1, <3>2 DEF View
  <2>2. ASSUME NEW l \in Links \cup {"none"}, setPlatformUrl(l)
        PROVE  /\ m \in View /\ m.at = view.at /\ m.mount = view.mount
               /\ m.loading <=> view.loading
               /\ m.err => view.err
    <3> PICK b : b = IF l = "none" THEN view.bindings ELSE l
      OBVIOUS
    <3>1. b \in Bindings
      BY <1>4 DEF Bindings
    <3>2. m = [view EXCEPT !.link = l, !.bindings = b]
      BY <2>2 DEF setPlatformUrl
    <3> QED
      BY <1>1, <3>1, <3>2 DEF View
  <2>3. CASE clearBindings
    <3>1. m = [view EXCEPT !.bindings = "none"] /\ "none" \in Bindings
      BY <2>3 DEF clearBindings, Bindings
    <3> QED
      BY <1>1, <3>1 DEF View
  <2>4. CASE setAutoRefresh
    <3>1. m = [view EXCEPT !.auto = ~view.auto]
      BY <2>4 DEF setAutoRefresh
    <3> QED
      BY <1>1, <1>4, <3>1 DEF View
  <2> QED
    BY <2>1, <2>2, <2>3, <2>4
<1> QED
  BY <1>2, <1>3, <1>5, EditKeeps

-----------------------------------------------------------------------------
(***************************************************************************)
(* Posts                                                                   *)
(***************************************************************************)

\* Which posts are to be announced does not change while they go on.
LEMMA TellingSame ==
    ASSUME NEW ps, NEW qs,
           \A c \in PostSlots : (qs[c] # None <=> ps[c] # None) /\ (ps[c] # None => qs[c].form = ps[c].form)
    PROVE  Telling(qs) = Telling(ps)
  BY DEF Telling

\* A form posts: its button or Try Again works only when it waits for nothing.
LEMMA PostKeeps ==
    ASSUME WInv, OnForm, ~view.loading, visit' \in Visit, postJson
    PROVE  WInv'
<1> PICK s : s = CHOOSE c \in PostSlots : posts[c] = None
  OBVIOUS
<1>1. s \in PostSlots /\ posts[s] = None
  BY DEF postJson
<1> PICK k \in BOOLEAN : k = (form.needs \subseteq view.filled)
  OBVIOUS
<1> PICK p : p = [pc |-> IF Forms[view.at].links THEN "middleware" ELSE "api", form |-> view.at,
                  mount |-> view.mount, complete |-> k, bindings |-> view.bindings, ok |-> TRUE]
  OBVIOUS
<1> PICK v : v = [view EXCEPT !.loading = TRUE, !.err = FALSE]
  OBVIOUS
<1>2. /\ posts' = [posts EXCEPT ![s] = p] /\ view' = v
      /\ asked' = asked + (IF Forms[view.at].toast THEN 1 ELSE 0)
      /\ UNCHANGED <<user, contents, fetches, toasts, said, due>>
  BY DEF postJson, form
<1>3. view \in View /\ view.at \in DOMAIN Forms /\ posts \in [PostSlots -> {None} \cup Post]
  BY DEF WInv, WebTypeOK, OnForm
<1>4. /\ p \in Post /\ p.form = view.at /\ p.mount = view.mount /\ p # None
      /\ p.pc = "api" => ~Forms[p.form].links
  BY <1>3, PostMade, NoneIsNone
<1>5. v \in View /\ v.at = view.at /\ v.mount = view.mount /\ v.loading /\ ~v.err
  BY <1>3, ViewPosts
<1>6. posts' \in [PostSlots -> {None} \cup Post]
  BY <1>2, <1>3, <1>4
<1>7. ASSUME NEW c \in PostSlots
      PROVE  posts'[c] = IF c = s THEN p ELSE posts[c]
  BY <1>2, <1>3
<1>8. PostsFit(v, posts')
  <2>1. \A c \in PostSlots : posts[c] # None => posts[c].mount # view.mount
    BY DEF WInv, PostsFit
  <2>2. view.mount <= view.mount
    BY <1>3 DEF View
  <2>3. \A c \in PostSlots : posts'[c] # None => posts'[c].mount <= v.mount
    BY <1>4, <1>5, <1>7, <2>2 DEF WInv, PostsFit
  <2>4. \A c \in PostSlots : posts'[c] # None /\ posts'[c].mount = v.mount => c = s
    BY <1>5, <1>7, <2>1
  <2>5. v.at # "closed"
    BY <1>3, <1>5, FormNames
  <2> QED
    BY <1>3, <1>5, <2>3, <2>4, <2>5 DEF PostsFit
<1>9. FetchesFit(v, fetches) /\ ListFits(v, fetches, due)
  <2>1. v.at # "browse"
    BY <1>3, <1>5, FormNames
  <2> QED
    BY <1>5, <2>1 DEF WInv, FetchesFit, ListFits
<1>10. AccountsFit(posts', user.linked)
  BY <1>4, <1>7 DEF WInv, AccountsFit
<1>11. said + Cardinality(Telling(posts')) = asked'
  <2>1. /\ IsFiniteSet(Telling(posts)) /\ Cardinality(Telling(posts)) \in Nat
        /\ said \in Nat /\ asked \in Nat
    BY TellingFinite DEF WInv, WebTypeOK
  <2>2. said + Cardinality(Telling(posts)) = asked
    BY DEF WInv
  <2>3. CASE Forms[view.at].toast
    <3>1. Telling(posts') = Telling(posts) \cup {s} /\ s \notin Telling(posts)
      BY <1>1, <1>4, <1>7, <2>3 DEF Telling
    <3>2. Cardinality(Telling(posts')) = Cardinality(Telling(posts)) + 1
      BY <2>1, <3>1, FS_AddElement
    <3>3. asked' = asked + 1
      BY <1>2, <2>3
    <3> QED
      BY <2>1, <2>2, <3>2, <3>3
  <2>4. CASE ~Forms[view.at].toast
    <3>1. Telling(posts') = Telling(posts)
      BY <1>1, <1>4, <1>7, <2>4 DEF Telling
    <3>2. asked' = asked + 0
      BY <1>2, <2>4
    <3> QED
      BY <2>1, <2>2, <3>1, <3>2
  <2> QED
    BY <2>3, <2>4
<1>12. WebTypeOK'
  <2>1. asked \in Nat /\ said \in 0 .. asked
    BY DEF WInv, WebTypeOK
  <2>2. asked' = asked \/ asked' = asked + 1
    BY <1>2, <2>1
  <2>3. asked' \in Nat /\ said \in 0 .. asked'
    BY <2>1, <2>2
  <2> QED
    BY <1>2, <1>5, <1>6, <2>3 DEF WInv, WebTypeOK
<1> QED
  BY <1>2, <1>8, <1>9, <1>10, <1>11, <1>12 DEF WInv

\* The button, and Try Again.
LEMMA SubmitKeeps ==
    ASSUME WInv, Submit \/ Retry
    PROVE  WInv'
<1>1. OnForm /\ Spend("clicks") /\ view \in View /\ visit \in Visit
  BY DEF WInv, WebTypeOK, Submit, Retry
<1>2. visit' \in Visit /\ view.at # "browse"
  BY <1>1, SpendKeeps, FormNames DEF OnForm
<1>3. ~view.loading
  BY <1>1 DEF WInv, PostsFit, Submit, Retry, OnForm
<1>4. CASE postJson
  BY <1>1, <1>2, <1>3, <1>4, PostKeeps
<1>5. CASE /\ view' = [view EXCEPT !.err = FALSE]
           /\ UNCHANGED <<user, contents, posts, fetches, toasts, asked, said, due>>
  <2> PICK m : m = [view EXCEPT !.err = FALSE]
    OBVIOUS
  <2>1. /\ m \in View /\ m.at = view.at /\ m.mount = view.mount
        /\ m.loading <=> view.loading
        /\ m.err => view.err
    BY <1>1 DEF View
  <2> QED
    BY <1>2, <1>5, <2>1, EditKeeps
<1> QED
  BY <1>4, <1>5 DEF Submit, Retry

\* A post goes on: what it is bound to and which form made it stays.
LEMMA ViewGoesFits ==
    ASSUME WInv, NEW c \in PostSlots, posts[c].pc # "none", NEW at \in {"session", "accounts", "api", "reply"}, NEW m,
           \/ m = [posts[c] EXCEPT !.pc = at]
           \/ at = "reply" /\ m = [posts[c] EXCEPT !.pc = "reply", !.ok = FALSE],
           at = "api" => providerForPlatform(posts[c].bindings) \subseteq user.linked,
           posts' = [posts EXCEPT ![c] = m]
    PROVE  /\ posts' \in [PostSlots -> {None} \cup Post]
           /\ PostsFit(view, posts') /\ AccountsFit(posts', user.linked)
           /\ Telling(posts') = Telling(posts)
<1>1. posts \in [PostSlots -> {None} \cup Post]
  BY DEF WInv, WebTypeOK
<1>2. posts[c] \in Post
  BY <1>1, NoneIsNone
<1>3. /\ m \in Post /\ m.pc = at /\ m.form = posts[c].form /\ m.mount = posts[c].mount
      /\ m.bindings = posts[c].bindings
  <2>1. CASE m = [posts[c] EXCEPT !.pc = at]
    BY <1>2, <2>1 DEF Post
  <2>2. CASE at = "reply" /\ m = [posts[c] EXCEPT !.pc = "reply", !.ok = FALSE]
    BY <1>2, <2>2 DEF Post
  <2> QED
    BY <2>1, <2>2
<1>4. m # None /\ posts[c] # None
  BY <1>2, <1>3, NoneIsNone
<1>5. \A d \in PostSlots : posts'[d] = IF d = c THEN m ELSE posts[d]
  BY <1>1
<1>6. posts' \in [PostSlots -> {None} \cup Post]
  BY <1>1, <1>3
<1>7. \A d \in PostSlots : /\ posts'[d] # None <=> posts[d] # None
                           /\ posts[d] # None => posts'[d].form = posts[d].form
                           /\ posts[d] # None => posts'[d].mount = posts[d].mount
  BY <1>3, <1>4, <1>5
<1>8. PostsFit(view, posts')
  BY <1>7 DEF WInv, PostsFit
<1>9. AccountsFit(posts', user.linked)
  <2> SUFFICES ASSUME NEW d \in PostSlots, posts'[d].pc = "api", Forms[posts'[d].form].links
               PROVE  providerForPlatform(posts'[d].bindings) \subseteq user.linked
    BY DEF AccountsFit
  <2>1. CASE d = c
    BY <1>3, <1>5, <2>1
  <2>2. CASE d # c
    <3>1. posts'[d] = posts[d]
      BY <1>5, <2>2
    <3> QED
      BY <3>1 DEF WInv, AccountsFit
  <2> QED
    BY <2>1, <2>2
<1>10. Telling(posts') = Telling(posts)
  BY <1>7 DEF Telling
<1> QED
  BY <1>6, <1>8, <1>9, <1>10

\* The routes and the API work on a post, and the API may publish.
LEMMA ServerStep ==
    ASSUME WInv, visit' \in Visit, contents' = contents \/ contents' = contents + 1, Server,
           posts' \in [PostSlots -> {None} \cup Post],
           PostsFit(view, posts'), AccountsFit(posts', user.linked), Telling(posts') = Telling(posts)
    PROVE  WInv'
<1>1. UNCHANGED <<user, view, fetches, toasts, asked, said, due>>
  BY DEF Server
<1>2. contents \in Nat /\ due \in 0 .. contents
  BY DEF WInv, WebTypeOK
<1>3. contents' \in Nat /\ due \in 0 .. contents'
  BY <1>2
<1>4. WebTypeOK'
  BY <1>1, <1>3 DEF WInv, WebTypeOK
<1> QED
  BY <1>1, <1>4 DEF WInv

\* The Next.js routes, the API, and its failures.
LEMMA ServingKeeps ==
    ASSUME WInv, NEW c \in PostSlots, Serving(c) \/ Fails(c)
    PROVE  WInv'
<1>1. posts \in [PostSlots -> {None} \cup Post] /\ visit \in Visit
  BY DEF WInv, WebTypeOK
<1>2. /\ Server /\ posts[c].pc # "none" /\ (visit' = visit \/ Spend("faults"))
      /\ contents' = contents \/ contents' = contents + 1
  BY DEF Serving, middleware, getServerSession, LinkedAccounts, Served, Fails, Failure
<1>3. visit' \in Visit
  BY <1>1, <1>2, SpendKeeps
<1>4. \/ \E at \in {"session", "accounts", "api", "reply"} :
           /\ posts' = [posts EXCEPT ![c] = [posts[c] EXCEPT !.pc = at]]
           /\ at = "api" => providerForPlatform(posts[c].bindings) \subseteq user.linked
      \/ posts' = [posts EXCEPT ![c] = [posts[c] EXCEPT !.pc = "reply", !.ok = FALSE]]
  <2>1. CASE middleware(c)
    BY <2>1 DEF middleware, Proceed, Refuse
  <2>2. CASE getServerSession(c)
    BY <2>2 DEF getServerSession, Proceed, Refuse
  <2>3. CASE LinkedAccounts(c)
    BY <2>3 DEF LinkedAccounts, Proceed, Refuse
  <2>4. CASE Served(c)
    BY <2>4 DEF Served, Proceed, Refuse
  <2>5. CASE Fails(c)
    BY <2>5 DEF Fails, Refuse
  <2> QED
    BY <2>1, <2>2, <2>3, <2>4, <2>5 DEF Serving
<1>5. /\ posts' \in [PostSlots -> {None} \cup Post]
      /\ PostsFit(view, posts') /\ AccountsFit(posts', user.linked)
      /\ Telling(posts') = Telling(posts)
  <2>1. ASSUME NEW at \in {"session", "accounts", "api", "reply"},
               posts' = [posts EXCEPT ![c] = [posts[c] EXCEPT !.pc = at]],
               at = "api" => providerForPlatform(posts[c].bindings) \subseteq user.linked
        PROVE  /\ posts' \in [PostSlots -> {None} \cup Post]
               /\ PostsFit(view, posts') /\ AccountsFit(posts', user.linked)
               /\ Telling(posts') = Telling(posts)
    <3> PICK m : m = [posts[c] EXCEPT !.pc = at]
      OBVIOUS
    <3> QED
      BY <1>2, <2>1, ViewGoesFits
  <2>2. ASSUME posts' = [posts EXCEPT ![c] = [posts[c] EXCEPT !.pc = "reply", !.ok = FALSE]]
        PROVE  /\ posts' \in [PostSlots -> {None} \cup Post]
               /\ PostsFit(view, posts') /\ AccountsFit(posts', user.linked)
               /\ Telling(posts') = Telling(posts)
    <3> PICK m : m = [posts[c] EXCEPT !.pc = "reply", !.ok = FALSE]
      OBVIOUS
    <3> QED
      BY <1>2, <2>2, ViewGoesFits
  <2> QED
    BY <1>4, <2>1, <2>2
<1> QED
  BY <1>2, <1>3, <1>5, ServerStep

\* The end of a post reaches its form, if that is still there, and the
\* toasts; the end of a one-shot renews the list.
LEMMA AnsweredKeeps ==
    ASSUME WInv, NEW c \in PostSlots, Answered(c)
    PROVE  WInv'
<1> PICK v : v = Ended(c)
  OBVIOUS
<1>1. /\ posts[c].pc = "reply" /\ posts' = [posts EXCEPT ![c] = None]
      /\ due' = IF posts[c].form = "one" /\ posts[c].ok THEN contents ELSE due
      /\ UNCHANGED <<visit, user, contents, asked>>
  BY DEF Answered
<1>2. \/ /\ Toast(1) /\ Rendered(v, fetches)
         /\ said' = said + (IF Forms[posts[c].form].toast THEN 1 ELSE 0)
      \/ /\ ~Forms[posts[c].form].toast
         /\ view' = v /\ UNCHANGED <<toasts, fetches, said>>
  BY DEF Answered, Announces
<1>3. /\ posts \in [PostSlots -> {None} \cup Post] /\ fetches \in [FetchSlots -> {None} \cup Fetch]
      /\ toasts \in 0 .. MaxToasts /\ contents \in Nat /\ due \in 0 .. contents
      /\ asked \in Nat /\ said \in 0 .. asked
  BY DEF WInv, WebTypeOK
<1>4. posts[c] \in Post /\ posts[c] # None
  BY <1>1, <1>3, NoneIsNone
<1>5. /\ v \in View /\ v.at = view.at /\ v.mount = view.mount
      /\ posts[c].mount # view.mount => v = view
      /\ posts[c].mount = view.mount => ~v.loading
  BY <1>4, EndedIs DEF WInv
<1>6. posts' \in [PostSlots -> {None} \cup Post]
  BY <1>1, <1>3
<1>7. \A d \in PostSlots : posts'[d] = IF d = c THEN None ELSE posts[d]
  BY <1>1, <1>3
<1>8. PostsFit(v, posts')
  <2>1. CASE posts[c].mount # view.mount
    BY <1>5, <1>7, <2>1 DEF WInv, PostsFit
  <2>2. CASE posts[c].mount = view.mount
    <3>1. \A d \in PostSlots : posts[d] # None /\ posts[d].mount = view.mount => d = c
      BY <1>4, <2>2 DEF WInv, PostsFit
    <3>2. \A d \in PostSlots : posts'[d] # None => posts'[d].mount # v.mount
      BY <1>5, <1>7, <3>1
    <3> QED
      BY <1>5, <1>7, <2>2, <3>2 DEF WInv, PostsFit
  <2> QED
    BY <2>1, <2>2
<1>9. FetchesFit(v, fetches)
  BY <1>5 DEF WInv, FetchesFit
<1>10. /\ view' \in View /\ fetches' \in [FetchSlots -> {None} \cup Fetch]
       /\ PostsFit(view', posts') /\ FetchesFit(view', fetches') /\ ListFits(view', fetches', due')
  <2>1. CASE Rendered(v, fetches)
    BY <1>3, <1>5, <1>8, <1>9, <2>1, RenderedFits
  <2>2. CASE ~Forms[posts[c].form].toast /\ view' = v /\ fetches' = fetches
    <3>1. due' = due
      BY <1>1, <2>2, FormNames
    <3>2. view.at = "browse" => posts[c].mount # view.mount
      BY <1>4, FormNames DEF WInv, PostsFit
    <3>3. ListFits(v, fetches, due)
      BY <1>5, <3>2 DEF WInv, ListFits
    <3> QED
      BY <1>3, <1>5, <1>8, <1>9, <2>2, <3>1, <3>3
  <2> QED
    BY <1>2, <2>1, <2>2
<1>11. AccountsFit(posts', user.linked)
  BY <1>7, NoneIsNone DEF WInv, AccountsFit
<1>12. said' + Cardinality(Telling(posts')) = asked' /\ said' \in 0 .. asked'
  <2>1. /\ IsFiniteSet(Telling(posts)) /\ Cardinality(Telling(posts)) \in Nat
        /\ IsFiniteSet(Telling(posts')) /\ Cardinality(Telling(posts')) \in Nat
    BY TellingFinite
  <2>2. said + Cardinality(Telling(posts)) = asked /\ said \in Nat /\ asked' = asked
    BY <1>1, <1>3 DEF WInv
  <2>3. CASE Forms[posts[c].form].toast
    <3>1. Telling(posts') = Telling(posts) \ {c} /\ c \in Telling(posts)
      BY <1>4, <1>7, <2>3 DEF Telling
    <3>2. Cardinality(Telling(posts')) = Cardinality(Telling(posts)) - 1
      BY <2>1, <3>1, FS_RemoveElement
    <3>3. said' = said + 1
      BY <1>2, <2>3
    <3> QED
      BY <2>1, <2>2, <3>2, <3>3
  <2>4. CASE ~Forms[posts[c].form].toast
    <3>1. Telling(posts') = Telling(posts)
      BY <1>7, <2>4 DEF Telling
    <3>2. said' = said
      BY <1>2, <2>2, <2>4
    <3> QED
      BY <2>1, <2>2, <3>1, <3>2
  <2> QED
    BY <2>3, <2>4
<1>13. WebTypeOK'
  <2>1. toasts' \in 0 .. MaxToasts
    BY <1>2, <1>3, ToastKeeps
  <2>2. due' \in 0 .. contents
    BY <1>1, <1>3
  <2> QED
    BY <1>1, <1>6, <1>10, <1>12, <2>1, <2>2 DEF WInv, WebTypeOK
<1> QED
  BY <1>1, <1>10, <1>11, <1>12, <1>13 DEF WInv

-----------------------------------------------------------------------------
(***************************************************************************)
(* The rest, and the invariant of the pages                                *)
(***************************************************************************)

\* Others publish, and accounts are only ever added.
LEMMA OthersKeep ==
    ASSUME WInv, Publication \/ signOut \/ \E p \in Providers : signIn(p)
    PROVE  WInv'
<1>1. /\ view \in View /\ visit \in Visit /\ contents \in Nat /\ due \in 0 .. contents
      /\ user \in [in : BOOLEAN, linked : SUBSET Providers]
  BY DEF WInv, WebTypeOK
<1>2. /\ UNCHANGED <<view, posts, fetches, toasts, asked, said, due>>
      /\ Spend("others") \/ Spend("accounts")
      /\ contents' = contents \/ contents' = contents + 1
  BY DEF Publication, signOut, signIn, Account
<1> PICK u : u = user'
  OBVIOUS
<1>3. u \in [in : BOOLEAN, linked : SUBSET Providers] /\ user.linked \subseteq u.linked
  <2>1. CASE Publication
    BY <1>1, <2>1 DEF Publication
  <2>2. CASE signOut
    <3>1. u = [user EXCEPT !.in = FALSE]
      BY <2>2 DEF signOut
    <3> QED
      BY <1>1, <3>1
  <2>3. ASSUME NEW p \in Providers, signIn(p)
        PROVE  u \in [in : BOOLEAN, linked : SUBSET Providers] /\ user.linked \subseteq u.linked
    <3>1. u = [in |-> TRUE, linked |-> user.linked \cup {p}]
      BY <2>3 DEF signIn
    <3> QED
      BY <1>1, <3>1
  <2> QED
    BY <2>1, <2>2, <2>3
<1>4. visit' \in Visit
  BY <1>1, <1>2, SpendKeeps
<1>5. contents' \in Nat /\ due \in 0 .. contents'
  BY <1>1, <1>2
<1>6. WebTypeOK'
  BY <1>2, <1>3, <1>4, <1>5 DEF WInv, WebTypeOK
<1>7. AccountsFit(posts, u.linked)
  BY <1>3 DEF WInv, AccountsFit
<1> QED
  BY <1>2, <1>6, <1>7 DEF WInv

\* It holds before a page is opened.
LEMMA WebBegins ==
    ASSUME WebInit
    PROVE  WInv
<1> PICK m : m = Mounted("closed", 0)
  OBVIOUS
<1>1. m \in View /\ m.at = "closed" /\ m.mount = 0 /\ ~m.loading /\ ~m.err /\ view = m
  BY NewView DEF WebInit
<1>2. /\ \A c \in PostSlots : posts[c] = None
      /\ \A f \in FetchSlots : fetches[f] = None
  BY DEF WebInit
<1>3. WebTypeOK
  <2>1. posts \in [PostSlots -> {None} \cup Post] /\ fetches \in [FetchSlots -> {None} \cup Fetch]
    BY DEF WebInit
  <2>2. user \in [in : BOOLEAN, linked : SUBSET Providers]
    <3>1. \/ user = [in |-> FALSE, linked |-> {}]
          \/ user \in [in : {TRUE}, linked : SUBSET Providers \ {{}}]
      BY DEF WebInit
    <3>2. CASE user = [in |-> FALSE, linked |-> {}]
      BY <3>2
    <3>3. CASE user \in [in : {TRUE}, linked : SUBSET Providers \ {{}}]
      BY <3>3
    <3> QED
      BY <3>1, <3>2, <3>3
  <2>3. visit \in Visit /\ MaxToasts \in Nat
    BY WebAssumption DEF WebInit
  <2>4. contents = 1 /\ toasts = 0 /\ asked = 0 /\ said = 0 /\ due = 0
    BY DEF WebInit
  <2> QED
    BY <1>1, <2>1, <2>2, <2>3, <2>4 DEF WebTypeOK
<1>4. Telling(posts) = {}
  BY <1>2 DEF Telling
<1>5. said + Cardinality(Telling(posts)) = asked
  BY <1>4, FS_EmptySet DEF WebInit
<1>6. PostsFit(view, posts)
  BY <1>1, <1>2 DEF PostsFit
<1>7. FetchesFit(view, fetches) /\ ListFits(view, fetches, due)
  BY <1>1, <1>2 DEF FetchesFit, ListFits
<1>8. AccountsFit(posts, user.linked)
  BY <1>2, NoneIsNone DEF AccountsFit
<1> QED
  BY <1>3, <1>5, <1>6, <1>7, <1>8 DEF WInv

\* Every step keeps it.
LEMMA WebStep ==
    ASSUME WInv, [WebNext]_web
    PROVE  WInv'
<1>1. CASE UNCHANGED web
  BY <1>1 DEF web, WInv, WebTypeOK
<1>2. ASSUME Interval \/ RefreshDashboard
      PROVE  WInv'
  BY <1>2, DashboardKeeps DEF Interval, RefreshDashboard
<1> QED
  BY <1>1, <1>2, OpenKeeps, ToastsKeep, RefreshKeeps, ReadKeeps, AnswerKeeps, EditsKeep, SubmitKeeps,
     ServingKeeps, AnsweredKeeps, OthersKeep
     DEF WebNext, WebRest

\* What the invariant says of the forms, the toasts and the list.
LEMMA WebKeepsPromises ==
    ASSUME WInv
    PROVE  WebInv
<1>1. EveryEndAnnounced
  <2>1. {c \in UnderWay : Announces(c)} = Telling(posts)
    BY DEF UnderWay, Announces, Telling
  <2> QED
    BY <2>1 DEF WInv, EveryEndAnnounced
<1>2. OnePostPerMount
  <2> DEFINE own == {c \in UnderWay : posts[c].mount = view.mount}
  <2>1. ASSUME NEW c \in own, NEW d \in own
        PROVE  c = d /\ view.loading
    BY DEF WInv, PostsFit, UnderWay
  <2>2. Cardinality(own) <= (IF view.loading THEN 1 ELSE 0)
    <3>1. CASE own = {}
      BY <3>1, FS_EmptySet
    <3>2. CASE own # {}
      <4>1. PICK c \in own : own = {c}
        BY <2>1, <3>2
      <4>2. Cardinality(own) = 1
        BY <4>1, FS_Singleton
      <4> QED
        BY <2>1, <4>1, <4>2
    <3> QED
      BY <3>1, <3>2
  <2> QED
    BY <2>2 DEF OnePostPerMount
<1>3. CompletedIsListed
  <2> SUFFICES ASSUME view.at = "browse", fetches = [f \in FetchSlots |-> None], ~view.overlap
               PROVE  view.list >= due \/ view.err
    BY DEF CompletedIsListed
  <2>1. \A f \in FetchSlots : fetches[f] = None
    OBVIOUS
  <2> QED
    BY <2>1 DEF WInv, ListFits
<1> QED
  BY <1>1, <1>2, <1>3 DEF WInv, WebInv

\* For any providers and bounds, and however tabs are left while posts and
\* fetches are under way: a form has one post under way at most, each end is
\* announced once, and a list at rest shows what was announced as complete
\* unless its fetch failed or fetches overlapped (page.tsx).
THEOREM PagesKeepPromises == WebSpec => []WebInv
<1>1. WebInit => WInv
  BY WebBegins
<1>2. WInv /\ [WebNext]_web => WInv'
  BY WebStep
<1>3. WInv => WebInv
  BY WebKeepsPromises
<1> QED
  BY <1>1, <1>2, <1>3, PTL DEF WebSpec

\* And whatever the API answers to a post that came by the Next.js routes was
\* bound to platforms only of which the user has an account linked, although
\* accounts change while it is under way (app/api/app/, middleware.ts).
THEOREM BindingsHaveAccounts == WebSpec => BindingsNeedAccounts
<1>1. WebInit => WInv
  BY WebBegins
<1>2. WInv /\ [WebNext]_web => WInv'
  BY WebStep
<1>3. WInv /\ [WebNext]_web =>
        [\A c \in PostSlots :
            (posts[c].pc = "api" /\ Forms[posts[c].form].links /\ posts'[c].pc = "reply")
              => providerForPlatform(posts[c].bindings) \subseteq user.linked]_web
  BY DEF WInv, AccountsFit
<1> QED
  BY <1>1, <1>2, <1>3, PTL DEF WebSpec, BindingsNeedAccounts

-------------------------------------------------------------------------------
(*****************************************************************************)
(* The cookie choice and the language that the tabs of a browser share.      *)
(*****************************************************************************)

\* Analytics was granted by a click only.
GrantedOK == (stored = "granted" => clicked) /\ GrantedWasClicked

\* Once there is a cookie it stays one, and only a request sent before there
\* was one is answered with another language than the one chosen.
LanguageOK ==
    /\ chosen # "none" => cookie # "none"
    /\ \A w \in Windows :
        /\ wire[w].for = "refresh" => wire[w].sent # "none"
        /\ wire[w].for = "load" /\ wire[w].sent = "none" => chosen = "none" \/ raced
    /\ LanguageStays

\* The inductive invariant.
PInv == PreferencesTypeOK /\ AnalyticsAgree /\ GrantedOK /\ LanguageOK

-----------------------------------------------------------------------------
(***************************************************************************)
(* Tabs and requests                                                       *)
(***************************************************************************)

\* What a tab does that has just been closed or asked for.
LEMMA ClosedTab ==
    Closed \in Window /\ ~Closed.open /\ Closed.gtag = "denied"
  BY DEF Closed, Window

\* No request, and one that is.
LEMMA Requests ==
    /\ NoRequest.for = "none"
    /\ \A r \in Request : r.for \in {"load", "refresh"} /\ r.sent \in Locales \cup {"none"}
                          /\ r # NoRequest
  <1>1. NoRequest.for = "none"
    BY DEF NoRequest
  <1> QED
    BY <1>1 DEF Request

\* A request that is sent.
LEMMA NewRequest ==
    ASSUME NEW for \in {"load", "refresh"}, NEW sent \in Locales \cup {"none"},
           NEW r, r = [for |-> for, sent |-> sent]
    PROVE  r \in Request /\ r.for = for /\ r.sent = sent
  BY DEF Request

\* Using up what a behaviour has leaves the browser one.
LEMMA UseKeeps ==
    ASSUME browser \in Browser, NEW what \in {"loads", "languages", "cookies"}, Use(what)
    PROVE  browser' \in Browser /\ browser'.best = browser.best
<1>1. browser[what] \in Nat /\ browser[what] > 0
  BY DEF Use, Browser
<1> PICK n : n = browser[what] - 1
  OBVIOUS
<1>2. n \in Nat
  BY <1>1
<1>3. browser' = [browser EXCEPT ![what] = n]
  BY DEF Use
<1>4. CASE what = "loads"
  BY <1>2, <1>3, <1>4 DEF Browser
<1>5. CASE what = "languages"
  BY <1>2, <1>3, <1>5 DEF Browser
<1>6. CASE what = "cookies"
  BY <1>2, <1>3, <1>6 DEF Browser
<1> QED
  BY <1>4, <1>5, <1>6

\* One tab changes, but not what it tells analytics.
LEMMA TabChanges ==
    ASSUME PreferencesTypeOK, AnalyticsAgree, GrantedWasClicked,
           NEW w \in Windows, NEW m \in Window,
           m.open => win[w].open, win[w].others => m.others, m.gtag = win[w].gtag,
           win' = [win EXCEPT ![w] = m], stored' = stored, clicked' = clicked
    PROVE  win' \in [Windows -> Window] /\ AnalyticsAgree' /\ GrantedWasClicked'
<1>1. win \in [Windows -> Window]
  BY DEF PreferencesTypeOK
<1>2. win' \in [Windows -> Window]
  BY <1>1
<1>3. ASSUME NEW v \in Windows
      PROVE  (win'[v].open => win[v].open) /\ (win[v].others => win'[v].others)
             /\ win'[v].gtag = win[v].gtag
  BY <1>1
<1>4. AnalyticsAgree'
  BY <1>3 DEF AnalyticsAgree, gtagOf
<1>5. GrantedWasClicked'
  BY <1>3 DEF GrantedWasClicked
<1> QED
  BY <1>2, <1>4, <1>5

\* Languages do not change.
LEMMA LanguageSame ==
    ASSUME LanguageOK, Elsewhere
    PROVE  LanguageOK'
  BY DEF LanguageOK, Elsewhere, LanguageStays

\* The records of a tab after each of its events.
LEMMA TabEvents ==
    ASSUME NEW v \in Window, NEW m,
           \/ m = [v EXCEPT !.timer = FALSE, !.visible = TRUE]
           \/ m = [v EXCEPT !.visible = TRUE, !.settings = TRUE]
           \/ m = [v EXCEPT !.settings = ~v.settings]
           \/ m = [v EXCEPT !.draft = opposite(v.draft)]
    PROVE  /\ m \in Window
           /\ m.open => v.open
           /\ v.others => m.others
           /\ m.gtag = v.gtag
<1>2. CASE m = [v EXCEPT !.timer = FALSE, !.visible = TRUE]
  BY <1>2 DEF Window
<1>3. CASE m = [v EXCEPT !.visible = TRUE, !.settings = TRUE]
  BY <1>3 DEF Window
<1>4. CASE m = [v EXCEPT !.settings = ~v.settings]
  BY <1>4 DEF Window
<1>5. CASE m = [v EXCEPT !.draft = opposite(v.draft)]
  <2>1. PICK d : d = opposite(v.draft)
    OBVIOUS
  <2>2. d \in {"denied", "granted"}
    BY <2>1 DEF opposite
  <2>3. m = [v EXCEPT !.draft = d]
    BY <1>5, <2>1
  <2> QED
    BY <2>2, <2>3 DEF Window
<1> QED
  BY <1>2, <1>3, <1>4, <1>5

\* A tab that shows its page in another language.
LEMMA TabTranslated ==
    ASSUME NEW v \in Window, NEW l \in Locales \cup {"none"}, NEW m, m = [v EXCEPT !.locale = l]
    PROVE  /\ m \in Window
           /\ m.open => v.open
           /\ v.others => m.others
           /\ m.gtag = v.gtag
  BY DEF Window

-----------------------------------------------------------------------------
(***************************************************************************)
(* The dialog                                                              *)
(***************************************************************************)

\* The steps of the dialog that choose nothing.
LEMMA DialogKeeps ==
    ASSUME PInv, NEW w \in Windows,
           BannerDue(w) \/ openCookieSettings(w) \/ setShowSettings(w) \/ setConsent(w)
    PROVE  PInv'
<1>1. PICK m : /\ win' = [win EXCEPT ![w] = m]
               /\ \/ m = [win[w] EXCEPT !.timer = FALSE, !.visible = TRUE]
                  \/ m = [win[w] EXCEPT !.visible = TRUE, !.settings = TRUE]
                  \/ m = [win[w] EXCEPT !.settings = ~win[w].settings]
                  \/ m = [win[w] EXCEPT !.draft = opposite(win[w].draft)]
  <2>1. CASE BannerDue(w)
    BY <2>1 DEF BannerDue
  <2>2. CASE openCookieSettings(w)
    BY <2>2 DEF openCookieSettings
  <2>3. CASE setShowSettings(w)
    BY <2>3 DEF setShowSettings
  <2>4. CASE setConsent(w)
    BY <2>4 DEF setConsent
  <2> QED
    BY <2>1, <2>2, <2>3, <2>4
<1>2. stored' = stored /\ clicked' = clicked /\ Elsewhere /\ (browser' = browser \/ Use("cookies"))
  BY DEF BannerDue, openCookieSettings, setShowSettings, setConsent
<1>3. win[w] \in Window
  BY DEF PInv, PreferencesTypeOK
<1>4. /\ m \in Window /\ m.gtag = win[w].gtag
      /\ m.open => win[w].open
      /\ win[w].others => m.others
  BY <1>1, <1>3, TabEvents
<1>5. win' \in [Windows -> Window] /\ AnalyticsAgree' /\ GrantedWasClicked'
  BY <1>1, <1>2, <1>4, TabChanges DEF PInv, GrantedOK
<1>6. browser' \in Browser
  BY <1>2, UseKeeps DEF PInv, PreferencesTypeOK
<1>7. PreferencesTypeOK'
  BY <1>2, <1>5, <1>6 DEF PInv, PreferencesTypeOK, Elsewhere
<1>8. LanguageOK'
  BY <1>2, LanguageSame DEF PInv
<1> QED
  BY <1>2, <1>5, <1>7, <1>8 DEF PInv, GrantedOK

\* What a choice makes of the tab it is made in.
LEMMA ChosenTab ==
    ASSUME NEW v \in Window, NEW choice \in {"denied", "granted"}, NEW m, m = Chosen(v, choice)
    PROVE  m \in Window /\ m.gtag = choice
  BY DEF Chosen, Window

\* And of another.
LEMMA OtherTab ==
    ASSUME NEW v \in Window, NEW n, n = [v EXCEPT !.others = v.open]
    PROVE  /\ n \in Window /\ n.gtag = v.gtag
           /\ n.open => n.others
  BY DEF Window

\* A choice is told to analytics by the tab it is made in.
LEMMA ChooseKeeps ==
    ASSUME PInv, NEW w \in Windows, NEW choice \in {"denied", "granted"}, Choose(w, choice)
    PROVE  PInv'
<1>1. /\ stored' = choice /\ Elsewhere /\ Use("cookies")
      /\ clicked' = (clicked \/ choice = "granted")
      /\ win' = [v \in Windows |-> IF v = w THEN Chosen(win[w], choice)
                                   ELSE [win[v] EXCEPT !.others = win[v].open]]
  BY DEF Choose
<1>2. win \in [Windows -> Window]
  BY DEF PInv, PreferencesTypeOK
<1>3. ASSUME NEW v \in Windows
      PROVE  /\ win'[v] \in Window
             /\ \/ win'[v].gtag = choice
                \/ win'[v].gtag = win[v].gtag /\ (win'[v].open => win'[v].others)
  <2>1. win'[v] = IF v = w THEN Chosen(win[w], choice) ELSE [win[v] EXCEPT !.others = win[v].open]
    BY <1>1
  <2>2. win[v] \in Window
    BY <1>2
  <2>3. CASE v = w
    <3> PICK m : m = Chosen(win[w], choice)
      OBVIOUS
    <3>1. m \in Window /\ m.gtag = choice
      BY <2>2, <2>3, ChosenTab
    <3> QED
      BY <2>1, <2>3, <3>1
  <2>4. CASE v # w
    <3> PICK n : n = [win[v] EXCEPT !.others = win[v].open]
      OBVIOUS
    <3>1. n \in Window /\ n.gtag = win[v].gtag /\ (n.open => n.others)
      BY <2>2, OtherTab
    <3> QED
      BY <2>1, <2>4, <3>1
  <2> QED
    BY <2>3, <2>4
<1>4. browser' \in Browser
  BY <1>1, UseKeeps DEF PInv, PreferencesTypeOK
<1>5. win' \in [Windows -> Window]
  <2>1. DOMAIN win' = Windows /\ win' = [v \in Windows |-> win'[v]]
    BY <1>1
  <2> QED
    BY <1>3, <2>1
<1>6. PreferencesTypeOK'
  <2>1. clicked' \in BOOLEAN
    BY <1>1
  <2>2. stored' \in {"none", "denied", "granted"}
    BY <1>1
  <2> QED
    BY <1>1, <1>4, <1>5, <2>1, <2>2 DEF PInv, PreferencesTypeOK, Elsewhere
<1>7. AnalyticsAgree'
  <2>1. choice = gtagOf(choice)
    BY DEF gtagOf
  <2> QED
    BY <1>1, <1>3, <2>1 DEF AnalyticsAgree, gtagOf
<1>8. GrantedOK'
  BY <1>1, <1>3 DEF PInv, GrantedOK, GrantedWasClicked
<1>9. LanguageOK'
  BY <1>1, LanguageSame DEF PInv
<1> QED
  BY <1>6, <1>7, <1>8, <1>9 DEF PInv

-----------------------------------------------------------------------------
(***************************************************************************)
(* Pages and the language                                                  *)
(***************************************************************************)

\* A page is asked for with the cookie there is.
LEMMA PrefLoadKeeps ==
    ASSUME PInv, NEW w \in Windows, Load(w)
    PROVE  PInv'
<1>1. /\ Use("loads") /\ win' = [win EXCEPT ![w] = Closed]
      /\ UNCHANGED <<stored, cookie, chosen, raced, clicked>>
  BY DEF Load
<1> PICK r : r = [for |-> "load", sent |-> cookie]
  OBVIOUS
<1>2. wire' = [wire EXCEPT ![w] = r]
  BY DEF Load, Ask
<1>3. r \in Request /\ r.for = "load" /\ r.sent = cookie
  BY NewRequest DEF PInv, PreferencesTypeOK
<1>4. win \in [Windows -> Window] /\ wire \in [Windows -> {NoRequest} \cup Request]
  BY DEF PInv, PreferencesTypeOK
<1>5. ASSUME NEW v \in Windows
      PROVE  win'[v] = win[v] \/ (~win'[v].open /\ win'[v].gtag = "denied")
  BY <1>1, <1>4, ClosedTab
<1>6. PreferencesTypeOK'
  <2>1. win' \in [Windows -> Window] /\ wire' \in [Windows -> {NoRequest} \cup Request]
    BY <1>1, <1>2, <1>3, <1>4, ClosedTab
  <2>2. browser' \in Browser
    BY <1>1, UseKeeps DEF PInv, PreferencesTypeOK
  <2> QED
    BY <1>1, <2>1, <2>2 DEF PInv, PreferencesTypeOK
<1>7. AnalyticsAgree'
  BY <1>1, <1>5 DEF PInv, AnalyticsAgree, gtagOf
<1>8. GrantedOK'
  BY <1>1, <1>5 DEF PInv, GrantedOK, GrantedWasClicked
<1>9. LanguageOK'
  <2>1. ASSUME NEW v \in Windows
        PROVE  wire'[v] = wire[v] \/ wire'[v] = r
    BY <1>2, <1>4
  <2> QED
    BY <1>1, <1>3, <2>1 DEF PInv, LanguageOK, LanguageStays
<1> QED
  BY <1>6, <1>7, <1>8, <1>9 DEF PInv

\* The page a tab shows first.
LEMMA ShownTab ==
    ASSUME PreferencesTypeOK, NEW w \in Windows, wire[w] \in Request, NEW m, m = Shown(w)
    PROVE  m \in Window /\ m.gtag = gtagOf(stored)
<1> PICK d : d = IF stored = "none" THEN "denied" ELSE stored
  OBVIOUS
<1> PICK t : t = (stored = "none" /\ ~browser.dnt)
  OBVIOUS
<1> PICK l : l = localeFor(wire[w].sent)
  OBVIOUS
<1> PICK g : g = gtagOf(stored)
  OBVIOUS
<1>1. d \in {"denied", "granted"} /\ t \in BOOLEAN /\ g \in {"denied", "granted"}
  BY DEF PreferencesTypeOK, gtagOf
<1>2. l \in Locales \cup {"none"}
  BY DEF PreferencesTypeOK, localeFor, Browser, Request
<1>3. m = [Closed EXCEPT !.open = TRUE, !.locale = l, !.timer = t, !.draft = d, !.gtag = g]
  BY DEF Shown
<1>4. m = [open |-> TRUE, timer |-> t, visible |-> FALSE, settings |-> FALSE,
           draft |-> d, gtag |-> g, locale |-> l, others |-> FALSE]
  BY <1>3 DEF Closed
<1> QED
  BY <1>1, <1>2, <1>4 DEF Window

\* What the answer to a request does to the cookie.
LEMMA PrefAnswerKeeps ==
    ASSUME PInv, NEW w \in Windows, wire[w] \in Request,
           cookie' = setCookie(wire[w].sent), wire' = [wire EXCEPT ![w] = NoRequest],
           UNCHANGED <<browser, chosen, raced>>
    PROVE  /\ cookie' \in Locales \cup {"none"}
           /\ wire' \in [Windows -> {NoRequest} \cup Request]
           /\ LanguageOK'
<1>1. cookie' = cookie \/ (wire[w].sent = "none" /\ cookie' = browser.best)
  BY DEF setCookie
<1>2. browser.best \in Locales /\ browser.best # "none"
  BY PreferencesAssumption DEF PInv, PreferencesTypeOK, Browser
<1>3. wire \in [Windows -> {NoRequest} \cup Request] /\ cookie \in Locales \cup {"none"}
  BY DEF PInv, PreferencesTypeOK
<1>4. ASSUME NEW v \in Windows
      PROVE  wire'[v] = wire[v] \/ wire'[v].for = "none"
  BY <1>3, Requests
<1>5. wire[w].sent = "none" => chosen = "none" \/ raced
  <2>1. wire[w].for \in {"load", "refresh"}
    BY Requests
  <2> QED
    BY <2>1 DEF PInv, LanguageOK
<1>6. LanguageOK'
  BY <1>1, <1>2, <1>4, <1>5 DEF PInv, LanguageOK, LanguageStays
<1> QED
  BY <1>1, <1>2, <1>3, <1>6

\* A page arrives, and with it what the browser has stored.
LEMMA ArrivesKeeps ==
    ASSUME PInv, NEW w \in Windows, Arrives(w)
    PROVE  PInv'
<1>1. /\ wire[w].for = "load" /\ cookie' = setCookie(wire[w].sent)
      /\ wire' = [wire EXCEPT ![w] = NoRequest]
      /\ stored' = IF stored = "none" /\ browser.dnt THEN "denied" ELSE stored
      /\ UNCHANGED <<browser, chosen, raced, clicked>>
  BY DEF Arrives
<1> PICK m : m = Shown(w)
  OBVIOUS
<1>2. win' = [win EXCEPT ![w] = m]
  BY DEF Arrives
<1>3. win \in [Windows -> Window] /\ wire[w] \in {NoRequest} \cup Request
  BY DEF PInv, PreferencesTypeOK
<1>4. wire[w] \in Request
  BY <1>1, <1>3, Requests
<1>5. m \in Window /\ m.gtag = gtagOf(stored)
  BY <1>4, ShownTab DEF PInv
<1>6. /\ cookie' \in Locales \cup {"none"} /\ LanguageOK'
      /\ wire' \in [Windows -> {NoRequest} \cup Request]
  BY <1>1, <1>4, PrefAnswerKeeps
<1>7. /\ stored' \in {"none", "denied", "granted"} /\ gtagOf(stored') = gtagOf(stored)
      /\ stored' = "granted" => stored = "granted"
  BY <1>1 DEF PInv, PreferencesTypeOK, gtagOf
<1>8. PreferencesTypeOK'
  <2>1. win' \in [Windows -> Window]
    BY <1>2, <1>3, <1>5
  <2> QED
    BY <1>1, <1>6, <1>7, <2>1 DEF PInv, PreferencesTypeOK
<1>9. ASSUME NEW v \in Windows
      PROVE  win'[v] = win[v] \/ win'[v].gtag = gtagOf(stored)
  BY <1>2, <1>3, <1>5
<1>10. AnalyticsAgree'
  BY <1>7, <1>9 DEF PInv, AnalyticsAgree, gtagOf
<1>11. GrantedOK'
  BY <1>1, <1>7, <1>9 DEF PInv, GrantedOK, GrantedWasClicked, gtagOf
<1> QED
  BY <1>6, <1>8, <1>10, <1>11 DEF PInv

\* A page is renewed in the language it was asked for in.
LEMMA RefreshedKeeps ==
    ASSUME PInv, NEW w \in Windows, Refreshed(w)
    PROVE  PInv'
<1>1. /\ wire[w].for = "refresh" /\ cookie' = setCookie(wire[w].sent)
      /\ wire' = [wire EXCEPT ![w] = NoRequest]
      /\ UNCHANGED <<browser, stored, chosen, raced, clicked>>
  BY DEF Refreshed
<1> PICK l : l = localeFor(wire[w].sent)
  OBVIOUS
<1> PICK m : m = [win[w] EXCEPT !.locale = l]
  OBVIOUS
<1>2. win' = [win EXCEPT ![w] = m]
  BY DEF Refreshed
<1>3. win[w] \in Window /\ wire[w] \in {NoRequest} \cup Request
  BY DEF PInv, PreferencesTypeOK
<1>4. wire[w] \in Request
  BY <1>1, <1>3, Requests
<1>5. l \in Locales \cup {"none"}
  BY <1>4 DEF PInv, PreferencesTypeOK, localeFor, Browser, Request
<1>6. /\ m \in Window /\ m.gtag = win[w].gtag
      /\ m.open => win[w].open
      /\ win[w].others => m.others
  BY <1>3, <1>5, TabTranslated
<1>7. win' \in [Windows -> Window] /\ AnalyticsAgree' /\ GrantedWasClicked'
  BY <1>1, <1>2, <1>6, TabChanges DEF PInv, GrantedOK
<1>8. /\ cookie' \in Locales \cup {"none"} /\ LanguageOK'
      /\ wire' \in [Windows -> {NoRequest} \cup Request]
  BY <1>1, <1>4, PrefAnswerKeeps
<1>9. PreferencesTypeOK'
  BY <1>1, <1>7, <1>8 DEF PInv, PreferencesTypeOK
<1> QED
  BY <1>1, <1>7, <1>8, <1>9 DEF PInv, GrantedOK

\* A language is chosen; requests that left without a cookie are noted.
LEMMA LanguageChangeKeeps ==
    ASSUME PInv, NEW w \in Windows, NEW l \in Locales, handleLanguageChange(w, l)
    PROVE  PInv'
<1>1. /\ cookie' = l /\ chosen' = l /\ Use("languages")
      /\ raced' = \E v \in Windows : wire[v].for = "load" /\ wire[v].sent = "none"
      /\ UNCHANGED <<stored, win, clicked>>
  BY DEF handleLanguageChange
<1> PICK r : r = [for |-> "refresh", sent |-> l]
  OBVIOUS
<1>2. wire' = [wire EXCEPT ![w] = r]
  BY DEF handleLanguageChange
<1>3. r \in Request /\ r.for = "refresh" /\ r.sent = l
  BY NewRequest
<1>4. wire \in [Windows -> {NoRequest} \cup Request] /\ l # "none"
  BY PreferencesAssumption DEF PInv, PreferencesTypeOK
<1>5. PreferencesTypeOK'
  <2>1. wire' \in [Windows -> {NoRequest} \cup Request]
    BY <1>2, <1>3, <1>4
  <2>2. browser' \in Browser
    BY <1>1, UseKeeps DEF PInv, PreferencesTypeOK
  <2>3. raced' \in BOOLEAN
    BY <1>1
  <2> QED
    BY <1>1, <2>1, <2>2, <2>3 DEF PInv, PreferencesTypeOK
<1>6. AnalyticsAgree' /\ GrantedOK'
  BY <1>1 DEF PInv, AnalyticsAgree, GrantedOK, GrantedWasClicked, gtagOf
<1>7. LanguageOK'
  <2>1. ASSUME NEW v \in Windows
        PROVE  /\ wire'[v].for = "refresh" => wire'[v].sent # "none"
               /\ wire'[v].for = "load" /\ wire'[v].sent = "none" => raced'
    <3>1. wire'[v] = r \/ wire'[v] = wire[v]
      BY <1>2, <1>4
    <3> QED
      BY <1>1, <1>3, <1>4, <3>1 DEF PInv, LanguageOK
  <2> QED
    BY <1>1, <1>4, <2>1 DEF LanguageOK, LanguageStays
<1> QED
  BY <1>5, <1>6, <1>7 DEF PInv

-----------------------------------------------------------------------------
(***************************************************************************)
(* The invariant of the preferences                                        *)
(***************************************************************************)

\* It holds before a page is asked for.
LEMMA PreferencesBegin ==
    ASSUME PreferencesInit
    PROVE  PInv
<1>1. \A w \in Windows : win[w] = Closed /\ wire[w] = NoRequest
  BY DEF PreferencesInit
<1>2. PreferencesTypeOK
  <2>1. win \in [Windows -> Window] /\ wire \in [Windows -> {NoRequest} \cup Request]
    BY ClosedTab DEF PreferencesInit
  <2>2. browser \in Browser
    BY PreferencesAssumption DEF PreferencesInit
  <2> QED
    BY <2>1, <2>2 DEF PreferencesInit, PreferencesTypeOK
<1>3. AnalyticsAgree /\ GrantedOK
  BY <1>1, ClosedTab DEF PreferencesInit, AnalyticsAgree, GrantedOK, GrantedWasClicked
<1>4. LanguageOK
  BY <1>1, Requests DEF PreferencesInit, LanguageOK, LanguageStays
<1> QED
  BY <1>2, <1>3, <1>4 DEF PInv

\* Every step keeps it.
LEMMA PreferencesStep ==
    ASSUME PInv, [PreferencesNext]_prefs
    PROVE  PInv'
<1>1. CASE UNCHANGED prefs
  BY <1>1 DEF prefs, PInv, PreferencesTypeOK, AnalyticsAgree, GrantedOK, GrantedWasClicked,
              LanguageOK, LanguageStays, gtagOf
<1>2. ASSUME NEW w \in Windows, handleAcceptAll(w) \/ handleEssentialOnly(w) \/ handleSavePreferences(w)
      PROVE  PInv'
  <2>1. PICK c \in {"denied", "granted"} : Choose(w, c)
    <3>1. win[w].draft \in {"denied", "granted"}
      BY DEF PInv, PreferencesTypeOK, Window
    <3> QED
      BY <1>2, <3>1 DEF handleAcceptAll, handleEssentialOnly, handleSavePreferences
  <2> QED
    BY <2>1, ChooseKeeps
<1> QED
  BY <1>1, <1>2, PrefLoadKeeps, ArrivesKeeps, RefreshedKeeps, LanguageChangeKeeps, DialogKeeps
     DEF PreferencesNext, PreferencesRest

\* For any tabs and languages, and however their loads, clicks and answers
\* interleave: what a tab tells analytics is what was last chosen unless
\* another tab has chosen since, nothing is granted without a click, and the
\* language that was chosen stays unless a first answer was still under way
\* (CookieConsent.tsx, GoogleAnalytics.tsx, middleware.ts).
THEOREM PreferencesHold == PreferencesSpec => []PreferencesInv
<1>1. PreferencesInit => PInv
  BY PreferencesBegin
<1>2. PInv /\ [PreferencesNext]_prefs => PInv'
  BY PreferencesStep
<1>3. PInv => PreferencesInv
  BY DEF PInv, GrantedOK, LanguageOK, PreferencesInv
<1> QED
  BY <1>1, <1>2, <1>3, PTL DEF PreferencesSpec

-------------------------------------------------------------------------------
(*****************************************************************************)
(* The browser extension.                                                    *)
(*****************************************************************************)

\* A message says of its subject what was true of it; what it says was bound
\* if it is to be stored or was stored before.  Who asks about a post asks about
\* its subject, and only the popup clears the cache before it asks.
Truthful(m, ver) ==
    /\ m.answer.of = m.of /\ m.answer.says <= ver[m.of]
    /\ m.pc = "store" \/ (m.pc = "reply" /\ m.via = "cache") => m.answer.says > 0
    /\ m.from.by = "tweet" => m.of = TweetOf[m.from.tweet]
    /\ m.pc = "clear" => m.from.by = "popup"

\* Who sent a message.
OfTweet(m) == m # NoCall /\ m.from.by = "tweet"
OfPopup(m) == m # NoCall /\ m.from.by = "popup"
OfPage(m) == m # NoCall /\ m.from.by = "page"

\* Every message under way is truthful, and what is cached was bound.
CallsFit(cs, ver) == \A c \in Slots : cs[c] # NoCall => Truthful(cs[c], ver)

CacheFits(ca, ver) == \A s \in Subjects : ca[s] \subseteq 1 .. ver[s]

\* A badge, or what an interval is to show, was bound.
BadgesFit(ps, bs, ver) ==
    /\ \A a \in ps : a.says \in 1 .. ver[a.of]
    /\ \A i \in DOMAIN bs : bs[i].says \in 1 .. ver[bs[i].of]
    /\ Len(bs) <= 1

\* It is of a video that the page has shown, as is what the page has asked about.
SeenFit(pg, ps, cs) ==
    /\ pg.url \in pg.seen
    /\ \A i \in DOMAIN pg.badges : pg.badges[i].of \in pg.seen
    /\ \A a \in ps : a.of \in pg.seen
    /\ \A c \in Slots : OfPage(cs[c]) => cs[c].of \in pg.seen

\* A post with a badge was bound.
MarksFit(tw, ver) == \A e \in Tweets : tw[e] = "badged" => ver[TweetOf[e]] > 0

\* Who has been asked about is marked, and asked about by one message.
TweetsFit(cs, tw) ==
    /\ \A c \in Slots : OfTweet(cs[c]) => tw[cs[c].from.tweet] # "new"
    /\ \A c, d \in Slots :
          OfTweet(cs[c]) /\ OfTweet(cs[d]) /\ cs[d].from.tweet = cs[c].from.tweet => c = d

\* However many messages the popup has under way, all are about its page.
PopupWaits(cs, p) == \A c \in Slots : OfPopup(cs[c]) => cs[c].of = p.on

\* What the popup shows was true, and new enough for the click that asked.
PopupFits(p, ver) ==
    /\ p.on \in Subjects <=> p.state \notin {"closed", "unsupported"}
    /\ p.state = "verified" => p.of = p.on /\ p.says \in 1 .. ver[p.on] /\ p.says >= p.floor
    /\ p.state = "notVerified" => p.via # "cache"

\* Nothing older than the floor of a message of the popup is in the cache that
\* it asks, is about to be stored there, or is its answer.
FloorFits(cs, ca, ver) ==
    \A c \in Slots : OfPopup(cs[c]) =>
        /\ cs[c].floor <= ver[cs[c].of]
        /\ \A n \in ca[cs[c].of] : n >= cs[c].floor
        /\ \A d \in Slots : cs[d] # NoCall /\ cs[d].pc = "store" /\ cs[d].of = cs[c].of
                               => cs[d].answer.says >= cs[c].floor
        /\ cs[c].pc = "reply" /\ cs[c].answer.says > 0 => cs[c].answer.says >= cs[c].floor

\* The inductive invariant.
EInv ==
    /\ TypeOK
    /\ CacheFits(cache, version)
    /\ CallsFit(calls, version)
    /\ BadgesFit(polls, page.badges, version)
    /\ SeenFit(page, polls, calls)
    /\ MarksFit(tweets, version)
    /\ TweetsFit(calls, tweets)
    /\ PopupWaits(calls, popup)
    /\ PopupFits(popup, version)
    /\ FloorFits(calls, cache, version)
-----------------------------------------------------------------------------
(***************************************************************************)
(* Messages                                                                *)
(***************************************************************************)

\* A slot that is free holds no message.
LEMMA NoCallIsFree ==
    NoCall.pc = "free" /\ \A m \in Call : m # NoCall /\ m.pc # "free"
<1>1. NoCall.pc = "free"
  BY DEF NoCall
<1> QED
  BY <1>1 DEF Call

\* The senders.
LEMMA Senders ==
    ASSUME NEW e \in Tweets, NEW f, f = [by |-> "tweet", tweet |-> e]
    PROVE  /\ [by |-> "page"] \in From /\ [by |-> "page"].by = "page"
           /\ [by |-> "popup"] \in From /\ [by |-> "popup"].by = "popup"
           /\ [by |-> "gone"] \in From /\ [by |-> "gone"].by = "gone"
           /\ f \in From /\ f.by = "tweet" /\ f.tweet = e
  BY DEF From

\* Senders without a post.
LEMMA PlainSenders ==
    ASSUME NEW w \in {"page", "popup", "gone"}, NEW f, f = [by |-> w]
    PROVE  f \in From /\ f.by = w
  BY DEF From

\* A sender is one of four kinds.
LEMMA SenderKinds ==
    ASSUME NEW f \in From
    PROVE  f.by \in {"page", "popup", "gone", "tweet"} /\ (f.by = "tweet" => f.tweet \in Tweets)
<1>1. CASE f \in [by : {"page", "popup", "gone"}]
  BY <1>1
<1>2. CASE f \in [by : {"tweet"}, tweet : Tweets]
  BY <1>2
<1> QED
  BY <1>1, <1>2 DEF From

\* Answers are numbers of versions.
LEMMA MessageIs ==
    ASSUME NEW m \in Call
    PROVE  /\ m.from \in From /\ m.of \in Subjects /\ m.answer \in Answer
           /\ m.answer.of \in Subjects /\ m.answer.says \in 0 .. MaxVersion
           /\ m.pc \in {"clear", "cache", "fetch", "store", "reply"} /\ m.via \in Via
           /\ m.floor \in 0 .. MaxVersion
<1>1. m.answer \in Answer
  BY DEF Call
<1> QED
  BY <1>1 DEF Call, Answer

\* A message that is sent, or is to be sent.
LEMMA MessageSent ==
    ASSUME NEW pc \in {"clear", "cache"}, NEW f \in From, NEW s \in Subjects, NEW n \in 0 .. MaxVersion, NEW m,
           m = [pc |-> pc, from |-> f, of |-> s, answer |-> [of |-> s, says |-> 0],
                via |-> "none", floor |-> n]
    PROVE  /\ m \in Call /\ m.pc = pc /\ m.from = f /\ m.of = s /\ m.floor = n
           /\ m.answer.of = s /\ m.answer.says = 0 /\ m.via = "none"
<1> PICK a : a = [of |-> s, says |-> 0]
  OBVIOUS
<1>1. a \in Answer /\ a.of = s /\ a.says = 0
  BY BoundsAssumption DEF Answer
<1>2. m = [pc |-> pc, from |-> f, of |-> s, answer |-> a, via |-> "none", floor |-> n]
  OBVIOUS
<1> QED
  BY <1>1, <1>2 DEF Call, Via

\* A message that has learned something.
LEMMA MessageTold ==
    ASSUME NEW m \in Call, NEW pc, pc = "store" \/ pc = "reply", NEW n \in 0 .. MaxVersion,
           NEW via, via = "cache" \/ via = "api" \/ via = "failed", NEW r, r = Told(m, pc, n, via)
    PROVE  /\ r \in Call /\ r.pc = pc /\ r.from = m.from /\ r.of = m.of
           /\ r.answer.of = m.of /\ r.answer.says = n /\ r.via = via /\ r.floor = m.floor
<1> PICK a : a = [of |-> m.of, says |-> n]
  OBVIOUS
<1>1. a \in Answer /\ a.of = m.of /\ a.says = n
  BY MessageIs DEF Answer
<1>2. r = [m EXCEPT !.pc = pc, !.answer = a, !.via = via]
  BY DEF Told
<1> QED
  BY <1>1, <1>2 DEF Call, Via

\* A message that goes on, and one whose sender is gone.
LEMMA MessageGoes ==
    ASSUME NEW m \in Call, NEW pc \in {"cache", "fetch", "reply"}, NEW r, r = [m EXCEPT !.pc = pc]
    PROVE  /\ r \in Call /\ r.pc = pc /\ r.from = m.from /\ r.of = m.of
           /\ r.answer = m.answer /\ r.via = m.via /\ r.floor = m.floor
  BY DEF Call

\* What was asked for by who is gone.
LEMMA MessageOrphaned ==
    ASSUME NEW m \in Call, NEW f \in From, NEW r, r = [m EXCEPT !.from = f]
    PROVE  /\ r \in Call /\ r.pc = m.pc /\ r.from = f /\ r.of = m.of
           /\ r.answer = m.answer /\ r.via = m.via /\ r.floor = m.floor
  BY DEF Call

\* What the type invariant says of a slot.
LEMMA SlotHolds ==
    ASSUME TypeOK, NEW c \in Slots, calls[c].pc # "free"
    PROVE  calls[c] \in Call /\ calls[c] # NoCall
  BY NoCallIsFree DEF TypeOK

\* Versions are numbers up to their bound.
LEMMA VersionIs ==
    ASSUME TypeOK, NEW s \in Subjects
    PROVE  version[s] \in Nat /\ version[s] \in 0 .. MaxVersion /\ MaxVersion \in Nat
  BY BoundsAssumption DEF TypeOK

-----------------------------------------------------------------------------
(***************************************************************************)
(* What a step does to the messages                                        *)
(***************************************************************************)

\* A message is sent, or is to be: nobody has learned anything yet.  What the
\* popup asks for may not fall behind a floor that nothing is behind.
LEMMA SendFits ==
    ASSUME EInv, NEW pc \in {"clear", "cache"}, NEW f \in From, NEW s \in Subjects, NEW n \in 0 .. MaxVersion,
           f.by = "tweet" => s = TweetOf[f.tweet], pc = "clear" => f.by = "popup",
           n <= version[s], NewCall(pc, f, s, n)
    PROVE  /\ calls' \in [Slots -> {NoCall} \cup Call]
           /\ CallsFit(calls', version)
           /\ \A ca : /\ FloorFits(calls, ca, version)
                      /\ f.by = "popup" =>
                           /\ \A x \in ca[s] : x >= n
                           /\ \A d \in Slots : calls[d] # NoCall /\ calls[d].pc = "store" /\ calls[d].of = s
                                                  => calls[d].answer.says >= n
                      => FloorFits(calls', ca, version)
           /\ \E k \in Slots, m \in Call :
                 /\ calls[k] = NoCall /\ m.from = f /\ m.of = s /\ m # NoCall
                 /\ \A c \in Slots : calls'[c] = IF c = k THEN m ELSE calls[c]
<1> PICK k : k = CHOOSE c \in Free : TRUE
  OBVIOUS
<1> PICK m : m = [pc |-> pc, from |-> f, of |-> s, answer |-> [of |-> s, says |-> 0],
                  via |-> "none", floor |-> n]
  OBVIOUS
<1>1. k \in Free /\ calls' = [calls EXCEPT ![k] = m]
  BY DEF NewCall
<1>2. k \in Slots /\ calls[k] = NoCall
  BY <1>1 DEF Free
<1>3. /\ m \in Call /\ m.pc = pc /\ m.from = f /\ m.of = s /\ m.floor = n
      /\ m.answer.of = s /\ m.answer.says = 0 /\ m.via = "none"
  BY MessageSent
<1>4. calls \in [Slots -> {NoCall} \cup Call] /\ TypeOK
  BY DEF EInv, TypeOK
<1>5. \A c \in Slots : calls'[c] = IF c = k THEN m ELSE calls[c]
  BY <1>1, <1>4
<1>6. Truthful(m, version)
  BY <1>3, <1>4, VersionIs DEF Truthful
<1>7. CallsFit(calls', version)
  BY <1>5, <1>6 DEF EInv, CallsFit
<1>8. ASSUME NEW ca, FloorFits(calls, ca, version),
             f.by = "popup" =>
               /\ \A x \in ca[s] : x >= n
               /\ \A d \in Slots : calls[d] # NoCall /\ calls[d].pc = "store" /\ calls[d].of = s
                                      => calls[d].answer.says >= n
      PROVE  FloorFits(calls', ca, version)
  <2> SUFFICES ASSUME NEW c \in Slots, OfPopup(calls'[c])
               PROVE  /\ calls'[c].floor <= version[calls'[c].of]
                      /\ \A x \in ca[calls'[c].of] : x >= calls'[c].floor
                      /\ \A d \in Slots : calls'[d] # NoCall /\ calls'[d].pc = "store"
                                             /\ calls'[d].of = calls'[c].of
                                             => calls'[d].answer.says >= calls'[c].floor
                      /\ calls'[c].pc = "reply" /\ calls'[c].answer.says > 0
                             => calls'[c].answer.says >= calls'[c].floor
    BY DEF FloorFits
  <2>1. \A d \in Slots : calls'[d] # NoCall /\ calls'[d].pc = "store" => d # k /\ calls'[d] = calls[d]
    BY <1>3, <1>5
  <2>2. CASE c = k
    BY <1>3, <1>5, <1>8, <2>1, <2>2 DEF OfPopup
  <2>3. CASE c # k
    <3>1. calls'[c] = calls[c] /\ OfPopup(calls[c])
      BY <1>5, <2>3
    <3> QED
      BY <1>8, <2>1, <3>1 DEF FloorFits
  <2> QED
    BY <2>2, <2>3
<1>9. calls' \in [Slots -> {NoCall} \cup Call]
  BY <1>1, <1>3, <1>4
<1>10. m # NoCall
  BY <1>3, NoCallIsFree
<1> QED
  BY <1>2, <1>3, <1>5, <1>7, <1>8, <1>9, <1>10

\* What sends a message has no floor of its own.
LEMMA SendIs ==
    ASSUME EInv, NEW f \in From, NEW s \in Subjects, SendVerify(f, s)
    PROVE  NewCall("cache", f, s, 0) /\ 0 \in 0 .. MaxVersion /\ 0 <= version[s]
<1>1. TypeOK
  BY DEF EInv
<1> QED
  BY <1>1, VersionIs, BoundsAssumption DEF SendVerify

\* A message goes on: its sender, its subject and its floor stay.
LEMMA GoesFits ==
    ASSUME EInv, NEW c \in Slots, calls[c] \in Call, NEW m \in Call, m.from = calls[c].from, m.of = calls[c].of,
           m.floor = calls[c].floor, Truthful(m, version), calls' = [calls EXCEPT ![c] = m],
           m.pc = "store" => \A d \in Slots : OfPopup(calls[d]) /\ calls[d].of = m.of
                                                 => m.answer.says >= calls[d].floor,
           OfPopup(m) /\ m.pc = "reply" /\ m.answer.says > 0 => m.answer.says >= m.floor
    PROVE  /\ calls' \in [Slots -> {NoCall} \cup Call]
           /\ CallsFit(calls', version) /\ TweetsFit(calls', tweets) /\ PopupWaits(calls', popup)
           /\ SeenFit(page, polls, calls') /\ FloorFits(calls', cache, version)
           /\ \A d \in Slots : calls'[d] = IF d = c THEN m ELSE calls[d]
<1>1. calls \in [Slots -> {NoCall} \cup Call]
  BY DEF EInv, TypeOK
<1>2. calls' \in [Slots -> {NoCall} \cup Call]
  BY <1>1
<1>3. \A d \in Slots : calls'[d] = IF d = c THEN m ELSE calls[d]
  BY <1>1
<1>4. m # NoCall /\ calls[c] # NoCall
  BY NoCallIsFree
<1>5. CallsFit(calls', version)
  BY <1>3 DEF EInv, CallsFit
<1>6. ASSUME NEW d \in Slots
      PROVE  /\ OfTweet(calls'[d]) <=> OfTweet(calls[d])
             /\ OfPopup(calls'[d]) <=> OfPopup(calls[d])
             /\ OfPage(calls'[d]) <=> OfPage(calls[d])
             /\ calls[d] # NoCall => /\ calls'[d].from = calls[d].from /\ calls'[d].of = calls[d].of
                                     /\ calls'[d].floor = calls[d].floor
  BY <1>3, <1>4 DEF OfTweet, OfPopup, OfPage
<1>7. TweetsFit(calls', tweets)
  <2>1. \A d \in Slots : OfTweet(calls'[d]) => OfTweet(calls[d]) /\ calls'[d].from.tweet = calls[d].from.tweet
    BY <1>6 DEF OfTweet
  <2> QED
    BY <2>1 DEF EInv, TweetsFit
<1>8. \A d \in Slots : OfPopup(calls'[d]) => /\ OfPopup(calls[d]) /\ calls'[d].of = calls[d].of
                                             /\ calls'[d].floor = calls[d].floor
  BY <1>6 DEF OfPopup
<1>9. PopupWaits(calls', popup)
  BY <1>8 DEF EInv, PopupWaits
<1>10. SeenFit(page, polls, calls')
  <2>1. \A d \in Slots : OfPage(calls'[d]) => OfPage(calls[d]) /\ calls'[d].of = calls[d].of
    BY <1>6 DEF OfPage
  <2> QED
    BY <2>1 DEF EInv, SeenFit
<1>11. FloorFits(calls', cache, version)
  <2> SUFFICES ASSUME NEW d \in Slots, OfPopup(calls'[d])
               PROVE  /\ calls'[d].floor <= version[calls'[d].of]
                      /\ \A x \in cache[calls'[d].of] : x >= calls'[d].floor
                      /\ \A e \in Slots : calls'[e] # NoCall /\ calls'[e].pc = "store"
                                             /\ calls'[e].of = calls'[d].of
                                             => calls'[e].answer.says >= calls'[d].floor
                      /\ calls'[d].pc = "reply" /\ calls'[d].answer.says > 0
                             => calls'[d].answer.says >= calls'[d].floor
    BY DEF FloorFits
  <2>1. OfPopup(calls[d]) /\ calls'[d].of = calls[d].of /\ calls'[d].floor = calls[d].floor
    BY <1>8
  <2>2. calls[d].floor <= version[calls[d].of] /\ \A x \in cache[calls[d].of] : x >= calls[d].floor
    BY <2>1 DEF EInv, FloorFits
  <2>3. ASSUME NEW e \in Slots, calls'[e] # NoCall, calls'[e].pc = "store", calls'[e].of = calls[d].of
        PROVE  calls'[e].answer.says >= calls[d].floor
    <3>1. CASE e = c
      BY <1>3, <2>1, <2>3, <3>1
    <3>2. CASE e # c
      BY <1>3, <2>1, <2>3, <3>2 DEF EInv, FloorFits
    <3> QED
      BY <3>1, <3>2
  <2>4. ASSUME calls'[d].pc = "reply", calls'[d].answer.says > 0
        PROVE  calls'[d].answer.says >= calls[d].floor
    <3>1. CASE d = c
      BY <1>3, <2>1, <2>4, <3>1
    <3>2. CASE d # c
      BY <1>3, <2>1, <2>4, <3>2 DEF EInv, FloorFits
    <3> QED
      BY <3>1, <3>2
  <2> QED
    BY <2>1, <2>2, <2>3, <2>4
<1> QED
  BY <1>2, <1>3, <1>5, <1>7, <1>9, <1>10, <1>11

\* Messages end, or lose their sender.
LEMMA EndsFit ==
    ASSUME EInv, NEW cs \in [Slots -> {NoCall} \cup Call],
           \A c \in Slots : \/ cs[c] = NoCall
                            \/ cs[c] = calls[c]
                            \/ /\ calls[c] # NoCall /\ cs[c].from.by = "gone"
                               /\ cs[c].pc = calls[c].pc /\ cs[c].of = calls[c].of /\ cs[c].pc # "clear"
                               /\ cs[c].answer = calls[c].answer /\ cs[c].via = calls[c].via
    PROVE  /\ CallsFit(cs, version) /\ TweetsFit(cs, tweets) /\ PopupWaits(cs, popup)
           /\ SeenFit(page, polls, cs) /\ FloorFits(cs, cache, version)
           /\ \A c \in Slots : (OfTweet(cs[c]) => OfTweet(calls[c]) /\ cs[c] = calls[c])
                               /\ (OfPopup(cs[c]) => OfPopup(calls[c]) /\ cs[c] = calls[c])
                               /\ (OfPage(cs[c]) => OfPage(calls[c]) /\ cs[c] = calls[c])
<1>1. \A c \in Slots : (OfTweet(cs[c]) => OfTweet(calls[c]) /\ cs[c] = calls[c])
                       /\ (OfPopup(cs[c]) => OfPopup(calls[c]) /\ cs[c] = calls[c])
                       /\ (OfPage(cs[c]) => OfPage(calls[c]) /\ cs[c] = calls[c])
  BY DEF OfTweet, OfPopup, OfPage
<1>2. CallsFit(cs, version)
  <2> SUFFICES ASSUME NEW c \in Slots, cs[c] # NoCall
               PROVE  Truthful(cs[c], version)
    BY DEF CallsFit
  <2>1. calls[c] # NoCall /\ Truthful(calls[c], version)
    BY DEF EInv, CallsFit
  <2>2. CASE cs[c] = calls[c]
    BY <2>1, <2>2
  <2>3. CASE /\ cs[c].from.by = "gone"
             /\ cs[c].pc = calls[c].pc /\ cs[c].of = calls[c].of /\ cs[c].pc # "clear"
             /\ cs[c].answer = calls[c].answer /\ cs[c].via = calls[c].via
    BY <2>1, <2>3 DEF Truthful
  <2> QED
    BY <2>2, <2>3
<1>3. TweetsFit(cs, tweets)
  BY <1>1 DEF EInv, TweetsFit
<1>4. PopupWaits(cs, popup)
  BY <1>1 DEF EInv, PopupWaits
<1>5. SeenFit(page, polls, cs)
  BY <1>1 DEF EInv, SeenFit
<1>6. FloorFits(cs, cache, version)
  <2> SUFFICES ASSUME NEW c \in Slots, OfPopup(cs[c])
               PROVE  /\ cs[c].floor <= version[cs[c].of]
                      /\ \A x \in cache[cs[c].of] : x >= cs[c].floor
                      /\ \A d \in Slots : cs[d] # NoCall /\ cs[d].pc = "store" /\ cs[d].of = cs[c].of
                                             => cs[d].answer.says >= cs[c].floor
                      /\ cs[c].pc = "reply" /\ cs[c].answer.says > 0 => cs[c].answer.says >= cs[c].floor
    BY DEF FloorFits
  <2>1. OfPopup(calls[c]) /\ cs[c] = calls[c]
    BY <1>1
  <2>2. \A d \in Slots : cs[d] # NoCall => /\ calls[d] # NoCall /\ cs[d].pc = calls[d].pc
                                           /\ cs[d].of = calls[d].of /\ cs[d].answer = calls[d].answer
    OBVIOUS
  <2> QED
    BY <2>1, <2>2 DEF EInv, FloorFits
<1> QED
  BY <1>1, <1>2, <1>3, <1>4, <1>5, <1>6

-----------------------------------------------------------------------------
(***************************************************************************)
(* The registry and the service worker                                     *)
(***************************************************************************)

\* What is taken from the budget leaves it a budget.
LEMMA TakesKeeps ==
    ASSUME TypeOK, NEW what \in {"moves", "changes", "popups", "refreshes", "faults"}, Takes(what)
    PROVE  budget' \in [site : {"youtube", "twitter"}, moves : Nat, changes : Nat, popups : Nat,
                        refreshes : Nat, faults : Nat]
<1>1. budget \in [site : {"youtube", "twitter"}, moves : Nat, changes : Nat, popups : Nat,
                  refreshes : Nat, faults : Nat]
  BY DEF TypeOK
<1>2. budget[what] \in Nat /\ budget[what] > 0
  BY <1>1 DEF Takes
<1> PICK n : n = budget[what] - 1
  OBVIOUS
<1>3. n \in Nat
  BY <1>2
<1>4. budget' = [budget EXCEPT ![what] = n]
  BY DEF Takes
<1>5. CASE what \in {"moves", "changes"}
  BY <1>1, <1>3, <1>4, <1>5
<1>6. CASE what \in {"popups", "refreshes"}
  BY <1>1, <1>3, <1>4, <1>6
<1>7. CASE what = "faults"
  BY <1>1, <1>3, <1>4, <1>7
<1> QED
  BY <1>5, <1>6, <1>7

\* The subject of what is shown, and of what may be.
LEMMA ShownIs ==
    ASSUME TypeOK
    PROVE  /\ \A a \in polls : a.of \in Subjects /\ a.says \in Nat
           /\ \A i \in DOMAIN page.badges : page.badges[i].of \in Subjects /\ page.badges[i].says \in Nat
           /\ \A e \in Tweets : TweetOf[e] \in Subjects
           /\ popup.floor \in Nat /\ popup.says \in Nat
           /\ \A s \in Subjects : cache[s] \subseteq Nat
<1>1. \A a \in Answer : a.of \in Subjects /\ a.says \in Nat
  BY BoundsAssumption DEF Answer
<1>2. \A a \in polls : a.of \in Subjects /\ a.says \in Nat
  BY <1>1 DEF TypeOK
<1>3. page.badges \in Seq(Answer)
  BY DEF TypeOK, Page
<1>4. \A i \in DOMAIN page.badges : page.badges[i] \in Answer
  BY <1>3
<1>5. \A e \in Tweets : TweetOf[e] \in Subjects
  BY TweetAssumption
<1>6. popup.floor \in Nat /\ popup.says \in Nat
  BY BoundsAssumption DEF TypeOK, Popup
<1>7. \A s \in Subjects : cache[s] \subseteq Nat
  BY BoundsAssumption DEF TypeOK
<1> QED
  BY <1>1, <1>2, <1>4, <1>5, <1>6, <1>7

\* Versions only grow, so what was true stays so.
LEMMA ChangeKeeps ==
    ASSUME EInv, NEW s \in Subjects, Change(s)
    PROVE  EInv'
<1> PICK v : v = version'
  OBVIOUS
<1>1. /\ Takes("changes") /\ version[s] < MaxVersion /\ v = [version EXCEPT ![s] = version[s] + 1]
      /\ UNCHANGED <<cache, settings, page, tweets, polls, calls, popup>>
  BY DEF Change
<1>2. TypeOK
  BY DEF EInv
<1>3. \A t \in Subjects : version[t] \in Nat /\ version[t] \in 0 .. MaxVersion /\ MaxVersion \in Nat
  BY <1>2, VersionIs
<1>4. version[s] + 1 \in 0 .. MaxVersion
  BY <1>1, <1>3
<1>5. \A t \in Subjects : v[t] = IF t = s THEN version[s] + 1 ELSE version[t]
  BY <1>1, <1>2 DEF TypeOK
<1>6. \A t \in Subjects : version[t] <= v[t] /\ v[t] \in Nat
  BY <1>3, <1>5
<1>7. TypeOK'
  <2>1. v \in [Subjects -> 0 .. MaxVersion]
    BY <1>1, <1>2, <1>4 DEF TypeOK
  <2>2. budget' \in [site : {"youtube", "twitter"}, moves : Nat, changes : Nat, popups : Nat,
                     refreshes : Nat, faults : Nat]
    BY <1>1, <1>2, TakesKeeps
  <2> QED
    BY <1>1, <1>2, <2>1, <2>2 DEF TypeOK
<1>8. ASSUME NEW n \in Nat, NEW t \in Subjects
      PROVE  /\ n <= version[t] => n <= v[t]
             /\ n \in 1 .. version[t] => n \in 1 .. v[t]
             /\ version[t] > 0 => v[t] > 0
  BY <1>3, <1>6
<1>9. CacheFits(cache, v)
  <2>1. ASSUME NEW t \in Subjects, NEW n \in cache[t]
        PROVE  n \in 1 .. v[t]
    BY <1>2, <1>8, ShownIs DEF EInv, CacheFits
  <2> QED
    BY <2>1 DEF CacheFits
<1>10. CallsFit(calls, v)
  <2> SUFFICES ASSUME NEW c \in Slots, calls[c] # NoCall
               PROVE  Truthful(calls[c], v)
    BY DEF CallsFit
  <2>1. calls[c] \in Call /\ Truthful(calls[c], version)
    BY <1>2 DEF TypeOK, EInv, CallsFit
  <2>2. calls[c].of \in Subjects /\ calls[c].answer.says \in Nat
    BY <1>3, <2>1, MessageIs
  <2> QED
    BY <1>8, <2>1, <2>2 DEF Truthful
<1>11. BadgesFit(polls, page.badges, v)
  BY <1>2, <1>8, ShownIs DEF EInv, BadgesFit
<1>12. MarksFit(tweets, v)
  BY <1>2, <1>8, ShownIs DEF EInv, MarksFit
<1>13. PopupFits(popup, v)
  BY <1>2, <1>8, ShownIs DEF EInv, PopupFits
<1>14. FloorFits(calls, cache, v)
  <2>1. ASSUME NEW c \in Slots, OfPopup(calls[c])
        PROVE  calls[c].floor <= v[calls[c].of]
    <3>1. calls[c] \in Call
      BY <1>2, <2>1 DEF TypeOK, OfPopup
    <3>2. calls[c].of \in Subjects /\ calls[c].floor \in Nat
      BY <1>3, <3>1, MessageIs
    <3>3. calls[c].floor <= version[calls[c].of]
      BY <2>1 DEF EInv, FloorFits
    <3> QED
      BY <1>8, <3>2, <3>3
  <2> QED
    BY <2>1 DEF EInv, FloorFits
<1> QED
  BY <1>1, <1>7, <1>9, <1>10, <1>11, <1>12, <1>13, <1>14 DEF EInv

\* Cached answers are dropped.
LEMMA ExpiryKeeps ==
    ASSUME EInv, clearCache \/ \E s \in Subjects : CacheExpires(s)
    PROVE  EInv'
<1>1. UNCHANGED <<version, settings, page, tweets, polls, calls, popup, budget>>
  BY DEF clearCache, CacheExpires
<1>2. cache' \in [Subjects -> SUBSET (0 .. MaxVersion)]
  BY DEF EInv, TypeOK, clearCache, CacheExpires
<1>3. \A s \in Subjects : cache'[s] \subseteq cache[s]
  <2>1. cache \in [Subjects -> SUBSET (0 .. MaxVersion)]
    BY DEF EInv, TypeOK
  <2> QED
    BY <2>1 DEF clearCache, CacheExpires
<1>4. TypeOK'
  BY <1>1, <1>2 DEF EInv, TypeOK
<1>5. CacheFits(cache', version)
  BY <1>3 DEF EInv, CacheFits
<1>6. FloorFits(calls, cache', version)
  <2>1. \A c \in Slots : OfPopup(calls[c]) => calls[c].of \in Subjects
    BY MessageIs DEF EInv, TypeOK, OfPopup
  <2> QED
    BY <1>3, <2>1 DEF EInv, FloorFits
<1> QED
  BY <1>1, <1>4, <1>5, <1>6 DEF EInv

\* The cache answers, or is empty.
LEMMA CacheReadKeeps ==
    ASSUME EInv, NEW c \in Slots, CacheRead(c)
    PROVE  EInv'
<1> PICK s : s = calls[c].of
  OBVIOUS
<1>1. calls[c].pc = "cache" /\ UNCHANGED <<version, cache, settings, page, tweets, polls, popup, budget>>
  BY DEF CacheRead
<1>2. calls[c] \in Call /\ calls[c] # NoCall /\ TypeOK
  BY <1>1, SlotHolds DEF EInv
<1>3. s \in Subjects /\ version[s] \in Nat
  BY <1>2, MessageIs, VersionIs
<1>4. PICK m : /\ calls' = [calls EXCEPT ![c] = m]
               /\ \/ \E n \in cache[s] : m = Told(calls[c], "reply", n, "cache")
                  \/ m = [calls[c] EXCEPT !.pc = "fetch"]
  BY DEF CacheRead
<1>5. Truthful(calls[c], version)
  BY <1>2 DEF EInv, CallsFit
<1>6. /\ m \in Call /\ m.from = calls[c].from /\ m.of = s /\ m.floor = calls[c].floor
      /\ Truthful(m, version) /\ m.pc # "store"
      /\ OfPopup(m) /\ m.pc = "reply" /\ m.answer.says > 0 => m.answer.says >= m.floor
  <2>1. ASSUME NEW n \in cache[s], m = Told(calls[c], "reply", n, "cache")
        PROVE  /\ m \in Call /\ m.from = calls[c].from /\ m.of = s /\ m.floor = calls[c].floor
               /\ Truthful(m, version) /\ m.pc # "store"
               /\ OfPopup(m) => m.answer.says >= m.floor
    <3>1. n \in 0 .. MaxVersion /\ n \in 1 .. version[s]
      BY <1>2, <1>3 DEF TypeOK, EInv, CacheFits
    <3>2. /\ m \in Call /\ m.pc = "reply" /\ m.from = calls[c].from /\ m.of = s
          /\ m.answer.of = s /\ m.answer.says = n /\ m.floor = calls[c].floor
      BY <1>2, <2>1, <3>1, MessageTold
    <3>3. OfPopup(m) => n >= calls[c].floor
      BY <1>2, <3>2 DEF EInv, FloorFits, OfPopup
    <3> QED
      BY <1>3, <1>5, <3>1, <3>2, <3>3 DEF Truthful
  <2>2. CASE m = [calls[c] EXCEPT !.pc = "fetch"]
    <3>1. /\ m \in Call /\ m.pc = "fetch" /\ m.from = calls[c].from /\ m.of = s
          /\ m.answer = calls[c].answer /\ m.floor = calls[c].floor
      BY <1>2, <2>2, MessageGoes
    <3> QED
      BY <1>5, <3>1 DEF Truthful
  <2> QED
    BY <1>4, <2>1, <2>2
<1>7. /\ calls' \in [Slots -> {NoCall} \cup Call]
      /\ CallsFit(calls', version) /\ TweetsFit(calls', tweets) /\ PopupWaits(calls', popup)
      /\ SeenFit(page, polls, calls') /\ FloorFits(calls', cache, version)
  BY <1>2, <1>4, <1>6, GoesFits
<1>8. TypeOK'
  BY <1>1, <1>2, <1>7 DEF TypeOK
<1> QED
  BY <1>1, <1>7, <1>8 DEF EInv

\* The API answers, or does not.
LEMMA FetchKeeps ==
    ASSUME EInv, NEW c \in Slots, FetchAnswer(c)
    PROVE  EInv'
<1> PICK s : s = calls[c].of
  OBVIOUS
<1>1. /\ calls[c].pc = "fetch" /\ UNCHANGED <<version, cache, settings, page, tweets, polls, popup>>
      /\ budget' = budget \/ Takes("faults")
  BY DEF FetchAnswer, Fault
<1>2. calls[c] \in Call /\ calls[c] # NoCall /\ TypeOK
  BY <1>1, SlotHolds DEF EInv
<1>3. s \in Subjects /\ version[s] \in Nat /\ version[s] \in 0 .. MaxVersion /\ 0 \in 0 .. MaxVersion
  BY <1>2, MessageIs, VersionIs
<1> PICK pc : pc = IF version[s] > 0 THEN "store" ELSE "reply"
  OBVIOUS
<1>4. PICK m : /\ calls' = [calls EXCEPT ![c] = m]
               /\ m = Told(calls[c], pc, version[s], "api") \/ m = Told(calls[c], "reply", 0, "failed")
  BY DEF FetchAnswer
<1>5. Truthful(calls[c], version)
  BY <1>2 DEF EInv, CallsFit
<1>6. pc \in {"store", "reply"} /\ (pc = "store" => version[s] > 0)
  OBVIOUS
<1>7. /\ m \in Call /\ m.from = calls[c].from /\ m.of = s /\ m.floor = calls[c].floor
      /\ Truthful(m, version)
      /\ m.pc = "store" => m.answer.says = version[s]
      /\ m.pc = "reply" => m.answer.says = 0
  <2>1. CASE m = Told(calls[c], pc, version[s], "api")
    <3>1. /\ m \in Call /\ m.pc = pc /\ m.from = calls[c].from /\ m.of = s
          /\ m.answer.of = s /\ m.answer.says = version[s] /\ m.via = "api" /\ m.floor = calls[c].floor
      BY <1>2, <1>3, <1>6, <2>1, MessageTold
    <3>2. pc = "reply" => version[s] = 0
      BY <1>3
    <3> QED
      BY <1>3, <1>5, <1>6, <3>1, <3>2 DEF Truthful
  <2>2. CASE m = Told(calls[c], "reply", 0, "failed")
    <3>1. /\ m \in Call /\ m.pc = "reply" /\ m.from = calls[c].from /\ m.of = s
          /\ m.answer.of = s /\ m.answer.says = 0 /\ m.via = "failed" /\ m.floor = calls[c].floor
      BY <1>2, <1>3, <2>2, MessageTold
    <3> QED
      BY <1>3, <1>5, <3>1 DEF Truthful
  <2> QED
    BY <1>4, <2>1, <2>2
<1>8. m.pc = "store" => \A d \in Slots : OfPopup(calls[d]) /\ calls[d].of = m.of
                                            => m.answer.says >= calls[d].floor
  <2> SUFFICES ASSUME m.pc = "store", NEW d \in Slots, OfPopup(calls[d]), calls[d].of = s
               PROVE  m.answer.says >= calls[d].floor
    BY <1>7
  <2>1. calls[d].floor <= version[s]
    BY DEF EInv, FloorFits
  <2>2. calls[d] \in Call
    BY <1>2 DEF TypeOK, OfPopup
  <2>3. calls[d].floor \in Nat
    BY <2>2, MessageIs, BoundsAssumption
  <2> QED
    BY <1>3, <1>7, <2>1, <2>3
<1>9. /\ calls' \in [Slots -> {NoCall} \cup Call]
      /\ CallsFit(calls', version) /\ TweetsFit(calls', tweets) /\ PopupWaits(calls', popup)
      /\ SeenFit(page, polls, calls') /\ FloorFits(calls', cache, version)
  <2>1. ~(m.answer.says > 0) \/ m.pc # "reply"
    BY <1>7
  <2> QED
    BY <1>2, <1>4, <1>7, <1>8, <2>1, GoesFits
<1>10. budget' \in [site : {"youtube", "twitter"}, moves : Nat, changes : Nat, popups : Nat,
                    refreshes : Nat, faults : Nat]
  BY <1>1, <1>2, TakesKeeps DEF TypeOK
<1>11. TypeOK'
  BY <1>1, <1>2, <1>9, <1>10 DEF TypeOK
<1> QED
  BY <1>1, <1>9, <1>11 DEF EInv

\* The answer is stored.
LEMMA StoreKeeps ==
    ASSUME EInv, NEW c \in Slots, Store(c)
    PROVE  EInv'
<1> PICK s : s = calls[c].of
  OBVIOUS
<1> PICK n : n = calls[c].answer.says
  OBVIOUS
<1> PICK m : m = [calls[c] EXCEPT !.pc = "reply"]
  OBVIOUS
<1>1. /\ calls[c].pc = "store" /\ calls' = [calls EXCEPT ![c] = m] /\ cache' = [cache EXCEPT ![s] = {n}]
      /\ UNCHANGED <<version, settings, page, tweets, polls, popup, budget>>
  BY DEF Store
<1>2. calls[c] \in Call /\ calls[c] # NoCall /\ TypeOK
  BY <1>1, SlotHolds DEF EInv
<1>3. s \in Subjects /\ n \in 0 .. MaxVersion /\ version[s] \in Nat /\ MaxVersion \in Nat
  BY <1>2, MessageIs, VersionIs
<1>4. Truthful(calls[c], version)
  BY <1>2 DEF EInv, CallsFit
<1>5. n \in Nat /\ n <= version[s] /\ n > 0
  BY <1>1, <1>3, <1>4 DEF Truthful
<1>6. /\ m \in Call /\ m.pc = "reply" /\ m.from = calls[c].from /\ m.of = s
      /\ m.answer = calls[c].answer /\ m.floor = calls[c].floor
  BY <1>2, MessageGoes
<1>7. Truthful(m, version)
  BY <1>4, <1>5, <1>6 DEF Truthful
<1>7a. \A d \in Slots : OfPopup(calls[d]) /\ calls[d].of = s => n >= calls[d].floor
  BY <1>1, <1>2 DEF EInv, FloorFits
<1>8. /\ calls' \in [Slots -> {NoCall} \cup Call]
      /\ CallsFit(calls', version) /\ TweetsFit(calls', tweets) /\ PopupWaits(calls', popup)
      /\ \A d \in Slots : calls'[d] = IF d = c THEN m ELSE calls[d]
      /\ SeenFit(page, polls, calls') /\ FloorFits(calls', cache, version)
  <2>1. OfPopup(m) => n >= m.floor
    BY <1>2, <1>6, <1>7a DEF OfPopup
  <2> QED
    BY <1>1, <1>2, <1>6, <1>7, <2>1, GoesFits
<1>9. cache' \in [Subjects -> SUBSET (0 .. MaxVersion)]
  BY <1>1, <1>2, <1>3 DEF TypeOK
<1>10. \A t \in Subjects : cache'[t] = IF t = s THEN {n} ELSE cache[t]
  BY <1>1, <1>2 DEF TypeOK
<1>11. CacheFits(cache', version)
  <2>1. {n} \subseteq 1 .. version[s]
    BY <1>3, <1>5
  <2> QED
    BY <1>10, <2>1 DEF EInv, CacheFits
<1>12. \A d \in Slots : OfPopup(calls'[d]) => /\ calls'[d].floor = calls[d].floor /\ OfPopup(calls[d])
                                               /\ calls'[d].of = calls[d].of
  BY <1>2, <1>6, <1>8 DEF OfPopup
<1>13. FloorFits(calls', cache', version)
  <2>1. ASSUME NEW d \in Slots, OfPopup(calls'[d])
        PROVE  \A x \in cache'[calls'[d].of] : x >= calls'[d].floor
    <3>1. calls'[d].of \in Subjects /\ \A x \in cache[calls'[d].of] : x >= calls'[d].floor
      <4>1. calls'[d] \in Call
        BY <1>8, <2>1 DEF OfPopup
      <4> QED
        BY <1>8, <2>1, <4>1, MessageIs DEF FloorFits
    <3>2. CASE calls'[d].of = s
      BY <1>10, <1>12, <1>7a, <2>1, <3>1, <3>2
    <3>3. CASE calls'[d].of # s
      BY <1>10, <3>1, <3>3
    <3> QED
      BY <3>2, <3>3
  <2> QED
    BY <1>8, <2>1 DEF FloorFits
<1>14. TypeOK'
  BY <1>1, <1>2, <1>8, <1>9 DEF TypeOK
<1> QED
  BY <1>1, <1>8, <1>11, <1>13, <1>14 DEF EInv

\* A popup without an answer.
LEMMA NoPopupIs ==
    /\ NoPopup \in Popup /\ NoPopup.state = "closed" /\ NoPopup.on = Home /\ NoPopup.via = "none"
    /\ NoPopup.floor = 0 /\ NoPopup.says = 0
  BY BoundsAssumption DEF NoPopup, Popup, Addresses, Via

\* The worker stops, and the messages sent to it end.
LEMMA WorkerStopsKeeps ==
    ASSUME EInv, WorkerStops
    PROVE  EInv'
<1> PICK p : p = popup'
  OBVIOUS
<1> PICK cs : cs = calls'
  OBVIOUS
<1> PICK q : q = [[NoPopup EXCEPT !.state = "error", !.on = popup.on, !.wired = popup.wired]
                    EXCEPT !.wired = TRUE, !.via = "failed"]
  OBVIOUS
<1>1. /\ Takes("faults") /\ cs = [c \in Slots |-> IF c \in Sent THEN NoCall ELSE calls[c]]
      /\ p = popup \/ (p = q /\ \E c \in Sent : calls[c].from.by = "popup")
      /\ UNCHANGED <<version, cache, settings, page, tweets, polls>>
  BY DEF WorkerStops, Fault, Showing
<1>2. TypeOK /\ popup \in Popup /\ calls \in [Slots -> {NoCall} \cup Call]
  BY DEF EInv, TypeOK
<1>3. cs \in [Slots -> {NoCall} \cup Call] /\ \A c \in Slots : cs[c] = NoCall \/ cs[c] = calls[c]
  BY <1>1, <1>2
<1>4. /\ CallsFit(cs, version) /\ TweetsFit(cs, tweets) /\ PopupWaits(cs, popup)
      /\ SeenFit(page, polls, cs) /\ FloorFits(cs, cache, version)
  BY <1>3, EndsFit
<1>5. q \in Popup /\ q.on = popup.on /\ q.state = "error"
  BY <1>2, NoPopupIs DEF Popup, Via
<1>6. PopupFits(p, version) /\ p \in Popup /\ p.on = popup.on
  <2>1. CASE p = popup
    BY <1>2, <2>1 DEF EInv
  <2>2. CASE p = q /\ \E c \in Sent : calls[c].from.by = "popup"
    <3>1. PICK c \in Slots : calls[c] # NoCall /\ calls[c].from.by = "popup"
      BY <2>2 DEF Sent, Free
    <3>2. calls[c].of = popup.on /\ calls[c] \in Call
      BY <1>2, <3>1 DEF EInv, PopupWaits, OfPopup
    <3>3. popup.on \in Subjects
      BY <3>2, MessageIs
    <3> QED
      BY <1>5, <2>2, <3>3 DEF PopupFits
  <2> QED
    BY <1>1, <2>1, <2>2
<1>7. PopupWaits(cs, p)
  BY <1>4, <1>6 DEF PopupWaits
<1>8. budget' \in [site : {"youtube", "twitter"}, moves : Nat, changes : Nat, popups : Nat,
                   refreshes : Nat, faults : Nat]
  BY <1>1, <1>2, TakesKeeps
<1>9. TypeOK'
  BY <1>1, <1>2, <1>3, <1>6, <1>8 DEF TypeOK
<1> QED
  BY <1>1, <1>4, <1>6, <1>7, <1>9 DEF EInv

-----------------------------------------------------------------------------
(***************************************************************************)
(* The page                                                                *)
(***************************************************************************)

\* A page that moves, or is looked at, keeps its badges and what it has shown.
LEMMA PageKeeps ==
    ASSUME EInv, page' \in Page, page'.badges = page.badges, page'.url \in page'.seen,
           page.seen \subseteq page'.seen, settings' \in BOOLEAN,
           budget' = budget \/ Takes("moves"),
           UNCHANGED <<version, cache, tweets, polls, calls, popup>>
    PROVE  EInv'
<1>1. budget' \in [site : {"youtube", "twitter"}, moves : Nat, changes : Nat, popups : Nat,
                   refreshes : Nat, faults : Nat]
  BY TakesKeeps DEF EInv, TypeOK
<1>2. TypeOK'
  BY <1>1 DEF EInv, TypeOK
<1>3. SeenFit(page', polls, calls)
  BY DEF EInv, SeenFit
<1> QED
  BY <1>2, <1>3 DEF EInv

\* The settings are changed, or the site moves: nothing is asked yet.
LEMMA PageMovesKeeps ==
    ASSUME EInv, saveSettings \/ TitleAppears \/ WatchUrl \/ \E u \in Addresses : Navigate(u)
    PROVE  EInv'
<1>1. page \in Page /\ settings \in BOOLEAN /\ page.url \in page.seen
  BY DEF EInv, TypeOK, SeenFit
<1>2. CASE saveSettings
  BY <1>1, <1>2, PageKeeps DEF saveSettings, Move
<1>3. CASE TitleAppears
  <2>1. page' \in Page /\ page'.badges = page.badges /\ page'.url = page.url /\ page'.seen = page.seen
    BY <1>1, <1>3 DEF TitleAppears, Page
  <2> QED
    BY <1>1, <1>3, <2>1, PageKeeps DEF TitleAppears
<1>4. CASE WatchUrl
  <2> PICK n : n = page.due + 1
    OBVIOUS
  <2>1. n \in Nat
    BY <1>1 DEF Page
  <2>2. page' = [page EXCEPT !.lastUrl = page.url, !.added = FALSE, !.due = n]
    BY <1>4 DEF WatchUrl
  <2>3. page' \in Page /\ page'.badges = page.badges /\ page'.url = page.url /\ page'.seen = page.seen
    BY <1>1, <2>1, <2>2 DEF Page
  <2> QED
    BY <1>1, <1>4, <2>3, PageKeeps DEF WatchUrl
<1>5. ASSUME NEW u \in Addresses, Navigate(u)
      PROVE  EInv'
  <2> PICK sn : sn = page.seen \cup {u}
    OBVIOUS
  <2>2. sn \in SUBSET Addresses /\ page' = [page EXCEPT !.url = u, !.seen = sn]
    BY <1>1, <1>5 DEF Navigate, Page
  <2>1. page' \in Page /\ page'.badges = page.badges /\ page'.url = u /\ page'.seen = sn
    BY <1>1, <2>2 DEF Page
  <2> QED
    BY <1>1, <1>5, <2>1, PageKeeps DEF Navigate, Move
<1> QED
  BY <1>2, <1>3, <1>4, <1>5

\* The page asks: the post elements and the popup have nothing to do with it.
LEMMA PageAsks ==
    ASSUME EInv, NEW s \in Subjects, s \in page.seen, SendVerify([by |-> "page"], s)
    PROVE  /\ calls' \in [Slots -> {NoCall} \cup Call]
           /\ CallsFit(calls', version) /\ TweetsFit(calls', tweets) /\ PopupWaits(calls', popup)
           /\ SeenFit(page, polls, calls') /\ FloorFits(calls', cache, version)
<1> PICK f : f = [by |-> "page"]
  OBVIOUS
<1>1. f \in From /\ f.by = "page"
  BY PlainSenders
<1>2. NewCall("cache", f, s, 0) /\ 0 \in 0 .. MaxVersion /\ 0 <= version[s]
  BY <1>1, SendIs
<1>3. /\ calls' \in [Slots -> {NoCall} \cup Call]
      /\ CallsFit(calls', version)
      /\ FloorFits(calls, cache, version) => FloorFits(calls', cache, version)
      /\ \E k \in Slots, m \in Call :
            /\ calls[k] = NoCall /\ m.from = f /\ m.of = s /\ m # NoCall
            /\ \A c \in Slots : calls'[c] = IF c = k THEN m ELSE calls[c]
  BY <1>1, <1>2, SendFits
<1>4. PICK k \in Slots, m \in Call :
            /\ calls[k] = NoCall /\ m.from = f /\ m.of = s /\ m # NoCall
            /\ \A c \in Slots : calls'[c] = IF c = k THEN m ELSE calls[c]
  BY <1>3
<1>5. \A c \in Slots : (OfTweet(calls'[c]) => calls'[c] = calls[c]) /\ (OfPopup(calls'[c]) => calls'[c] = calls[c])
  BY <1>1, <1>4 DEF OfTweet, OfPopup
<1>6. TweetsFit(calls', tweets)
  BY <1>5 DEF EInv, TweetsFit
<1>7. PopupWaits(calls', popup)
  BY <1>5 DEF EInv, PopupWaits
<1>8. \A c \in Slots : OfPage(calls'[c]) => calls'[c].of = s \/ calls'[c] = calls[c]
  BY <1>4
<1>9. SeenFit(page, polls, calls')
  BY <1>8 DEF EInv, SeenFit
<1> QED
  BY <1>3, <1>6, <1>7, <1>9 DEF EInv

\* The page looks at its address, and asks if there is something to ask.
LEMMA CheckKeeps ==
    ASSUME EInv, NEW p \in Page, p.badges = page.badges, p.url = page.url, p.seen = page.seen,
           CheckCurrentVideo(p),
           UNCHANGED <<version, cache, settings, tweets, polls, popup, budget>>
    PROVE  EInv'
<1>1. CASE p.url = Home \/ (p.url = p.current /\ p.added)
  <2>1. page' = p /\ calls' = calls
    BY <1>1 DEF CheckCurrentVideo
  <2> QED
    BY <2>1, PageKeeps DEF EInv, TypeOK, SeenFit
<1>2. CASE ~(p.url = Home \/ (p.url = p.current /\ p.added))
  <2>1. page' = [p EXCEPT !.current = p.url, !.added = FALSE] /\ SendVerify([by |-> "page"], p.url)
    BY <1>2 DEF CheckCurrentVideo
  <2>2. p.url \in Addresses /\ p.url # Home
    BY <1>2 DEF Page
  <2>3. p.url \in Subjects /\ p.url \in page.seen
    BY <2>2 DEF Addresses, EInv, SeenFit
  <2>4. /\ calls' \in [Slots -> {NoCall} \cup Call]
        /\ CallsFit(calls', version) /\ TweetsFit(calls', tweets) /\ PopupWaits(calls', popup)
        /\ SeenFit(page, polls, calls') /\ FloorFits(calls', cache, version)
    BY <2>1, <2>3, PageAsks
  <2>5. page' \in Page /\ page'.badges = page.badges /\ page'.url = page.url /\ page'.seen = page.seen
    BY <2>1, <2>2 DEF Page
  <2>6. TypeOK'
    BY <2>4, <2>5 DEF EInv, TypeOK
  <2>7. SeenFit(page', polls, calls')
    BY <2>4, <2>5 DEF SeenFit
  <2> QED
    BY <2>4, <2>5, <2>6, <2>7 DEF EInv
<1> QED
  BY <1>1, <1>2

\* The occasions on which it looks.
LEMMA PageLooksKeeps ==
    ASSUME EInv, init \/ CheckDue \/ ObserveDom
    PROVE  EInv'
<1>1. page \in Page /\ page.url \in page.seen
  BY DEF EInv, TypeOK, SeenFit
<1>2. CASE init
  <2> PICK p : p = [page EXCEPT !.watching = TRUE]
    OBVIOUS
  <2>1. p \in Page /\ p.badges = page.badges /\ p.url = page.url /\ p.seen = page.seen
    BY <1>1 DEF Page
  <2>2. CASE CheckCurrentVideo(p)
    BY <1>2, <2>1, <2>2, CheckKeeps DEF init
  <2>3. CASE page' = p /\ UNCHANGED calls
    <3>1. /\ page' \in Page /\ page'.badges = page.badges /\ page'.url \in page'.seen
          /\ page.seen \subseteq page'.seen
      BY <1>1, <2>1, <2>3
    <3>2. settings' \in BOOLEAN
      BY <1>2 DEF init, EInv, TypeOK
    <3> QED
      BY <1>2, <2>3, <3>1, <3>2, PageKeeps DEF init
  <2> QED
    BY <1>2, <2>2, <2>3 DEF init
<1>3. CASE CheckDue
  <2> PICK n : n = page.due - 1
    OBVIOUS
  <2> PICK p : p = [page EXCEPT !.due = n]
    OBVIOUS
  <2>1. n \in Nat
    <3>1. page.due \in Nat /\ page.due > 0
      BY <1>1, <1>3 DEF CheckDue, Page
    <3> QED
      BY <3>1
  <2>2. p \in Page /\ p.badges = page.badges /\ p.url = page.url /\ p.seen = page.seen
    BY <1>1, <2>1 DEF Page
  <2>3. CheckCurrentVideo(p)
    BY <1>3 DEF CheckDue
  <2> QED
    BY <1>3, <2>2, <2>3, CheckKeeps DEF CheckDue
<1>4. CASE ObserveDom
  BY <1>1, <1>4, CheckKeeps DEF ObserveDom
<1> QED
  BY <1>2, <1>3, <1>4

\* A page is loaded: what was shown and asked is forgotten.
LEMMA LoadKeeps ==
    ASSUME EInv, NEW u \in Addresses, LoadPage(u)
    PROVE  EInv'
<1>1. /\ Takes("moves") /\ page' = NewPage(u) /\ calls' = Orphaned /\ polls' = {}
      /\ tweets' = [e \in Tweets |-> "new"]
      /\ UNCHANGED <<version, cache, settings, popup>>
  BY DEF LoadPage, Move
<1>2. TypeOK /\ calls \in [Slots -> {NoCall} \cup Call]
  BY DEF EInv, TypeOK
<1> PICK f : f = [by |-> "gone"]
  OBVIOUS
<1>3. f \in From /\ f.by = "gone"
  BY PlainSenders
<1>4. ASSUME NEW c \in Slots
      PROVE  /\ calls'[c] \in {NoCall} \cup Call
             /\ ~OfTweet(calls'[c]) /\ ~OfPage(calls'[c])
             /\ \/ calls'[c] = NoCall
                \/ calls'[c] = calls[c]
                \/ /\ calls[c] # NoCall /\ calls'[c].from.by = "gone"
                   /\ calls'[c].pc = calls[c].pc /\ calls'[c].of = calls[c].of /\ calls'[c].pc # "clear"
                   /\ calls'[c].answer = calls[c].answer /\ calls'[c].via = calls[c].via
  <2>1. calls'[c] = IF calls[c] # NoCall /\ calls[c].from.by # "popup"
                    THEN [calls[c] EXCEPT !.from = f] ELSE calls[c]
    BY <1>1 DEF Orphaned
  <2>2. CASE calls[c] # NoCall /\ calls[c].from.by # "popup"
    <3> PICK m : m = calls'[c]
      OBVIOUS
    <3>1. calls[c] \in Call /\ m = [calls[c] EXCEPT !.from = f]
      BY <1>2, <2>1, <2>2
    <3>2. /\ m \in Call /\ m.pc = calls[c].pc /\ m.from = f /\ m.of = calls[c].of
          /\ m.answer = calls[c].answer /\ m.via = calls[c].via
      BY <1>3, <3>1, MessageOrphaned
    <3>3. calls[c].pc # "clear"
      BY <2>2 DEF EInv, CallsFit, Truthful
    <3> QED
      BY <1>3, <2>2, <3>2, <3>3 DEF OfTweet, OfPage
  <2>3. CASE ~(calls[c] # NoCall /\ calls[c].from.by # "popup")
    BY <1>2, <2>1, <2>3 DEF OfTweet, OfPage
  <2> QED
    BY <2>2, <2>3
<1>5. calls' \in [Slots -> {NoCall} \cup Call]
  <2>1. calls' = [c \in Slots |-> calls'[c]]
    BY <1>1 DEF Orphaned
  <2> QED
    BY <1>4, <2>1
<1>6. CallsFit(calls', version) /\ PopupWaits(calls', popup) /\ FloorFits(calls', cache, version)
  BY <1>4, <1>5, EndsFit
<1>7. TweetsFit(calls', tweets')
  BY <1>4 DEF TweetsFit
<1>8. page' \in Page /\ page'.badges = <<>> /\ page'.url \in page'.seen
  BY <1>1 DEF NewPage, Page, Addresses
<1>9. BadgesFit(polls', page'.badges, version)
  BY <1>1, <1>8 DEF BadgesFit
<1>9a. SeenFit(page', polls', calls')
  BY <1>1, <1>4, <1>8 DEF SeenFit
<1>10. MarksFit(tweets', version)
  BY <1>1 DEF MarksFit
<1>11. budget' \in [site : {"youtube", "twitter"}, moves : Nat, changes : Nat, popups : Nat,
                    refreshes : Nat, faults : Nat]
  BY <1>1, <1>2, TakesKeeps
<1>12. TypeOK'
  BY <1>1, <1>2, <1>5, <1>8, <1>11 DEF TypeOK
<1> QED
  BY <1>1, <1>6, <1>7, <1>9, <1>9a, <1>10, <1>12 DEF EInv

\* A slot is freed.
LEMMA FreedFits ==
    ASSUME EInv, NEW c \in Slots, calls' = [calls EXCEPT ![c] = NoCall]
    PROVE  /\ calls' \in [Slots -> {NoCall} \cup Call]
           /\ CallsFit(calls', version) /\ TweetsFit(calls', tweets) /\ PopupWaits(calls', popup)
           /\ SeenFit(page, polls, calls') /\ FloorFits(calls', cache, version)
           /\ \A d \in Slots : calls'[d] = IF d = c THEN NoCall ELSE calls[d]
<1>1. calls \in [Slots -> {NoCall} \cup Call]
  BY DEF EInv, TypeOK
<1>2. calls' \in [Slots -> {NoCall} \cup Call]
  BY <1>1
<1>3. \A d \in Slots : calls'[d] = IF d = c THEN NoCall ELSE calls[d]
  BY <1>1
<1>4. CallsFit(calls', version) /\ TweetsFit(calls', tweets) /\ PopupWaits(calls', popup)
      /\ SeenFit(page, polls, calls') /\ FloorFits(calls', cache, version)
  BY <1>2, <1>3, EndsFit
<1> QED
  BY <1>2, <1>3, <1>4

\* What an answer that is about to be given says was bound, if it says so.
LEMMA ReplyWasTrue ==
    ASSUME EInv, NEW c \in Slots, calls[c].pc = "reply"
    PROVE  /\ calls[c] \in Call /\ calls[c] # NoCall /\ Truthful(calls[c], version)
           /\ calls[c].answer \in Answer /\ calls[c].answer.of = calls[c].of /\ calls[c].of \in Subjects
           /\ calls[c].answer.says \in Nat /\ version[calls[c].of] \in Nat
           /\ Hit(calls[c].answer) => calls[c].answer.says \in 1 .. version[calls[c].of]
<1>1. TypeOK
  BY DEF EInv
<1>2. calls[c] \in Call /\ calls[c] # NoCall
  BY <1>1, SlotHolds
<1>3. Truthful(calls[c], version)
  BY <1>2 DEF EInv, CallsFit
<1>4. /\ calls[c].answer \in Answer /\ calls[c].of \in Subjects
      /\ calls[c].answer.says \in 0 .. MaxVersion /\ MaxVersion \in Nat
  BY <1>2, MessageIs, BoundsAssumption
<1>5. version[calls[c].of] \in Nat
  BY <1>1, <1>4, VersionIs
<1> QED
  BY <1>2, <1>3, <1>4, <1>5 DEF Truthful, Hit

\* An answer reaches the script of a video page.
LEMMA PageAnsweredKeeps ==
    ASSUME EInv, NEW c \in Slots, PageAnswered(c)
    PROVE  EInv'
<1> PICK a : a = calls[c].answer
  OBVIOUS
<1>1. /\ calls[c].pc = "reply" /\ calls' = [calls EXCEPT ![c] = NoCall]
      /\ polls' = polls \/ (Hit(a) /\ calls[c].from.by = "page" /\ polls' = polls \cup {a})
      /\ UNCHANGED <<version, cache, settings, page, tweets, popup, budget>>
  BY DEF PageAnswered
<1>2. a \in Answer /\ (Hit(a) => a.says \in 1 .. version[a.of]) /\ calls[c] # NoCall /\ a.of = calls[c].of
  BY <1>1, ReplyWasTrue
<1>3. /\ calls' \in [Slots -> {NoCall} \cup Call]
      /\ CallsFit(calls', version) /\ TweetsFit(calls', tweets) /\ PopupWaits(calls', popup)
      /\ SeenFit(page, polls, calls') /\ FloorFits(calls', cache, version)
  BY <1>1, FreedFits
<1>4. BadgesFit(polls', page.badges, version)
  BY <1>1, <1>2 DEF EInv, BadgesFit
<1>6. SeenFit(page, polls', calls')
  <2>1. calls[c].from.by = "page" => a.of \in page.seen
    BY <1>2 DEF EInv, SeenFit, OfPage
  <2> QED
    BY <1>1, <1>3, <2>1 DEF SeenFit
<1>5. TypeOK'
  BY <1>1, <1>2, <1>3 DEF EInv, TypeOK
<1> QED
  BY <1>1, <1>3, <1>4, <1>5, <1>6 DEF EInv

\* An interval shows a badge, or ends.
LEMMA BadgeKeeps ==
    ASSUME EInv, NEW a \in polls, AddBadge(a) \/ PollEnds(a)
    PROVE  EInv'
<1>1. polls' = polls \ {a} /\ UNCHANGED <<version, cache, settings, tweets, calls, popup, budget>>
  BY DEF AddBadge, PollEnds
<1>2. page \in Page /\ a \in Answer /\ a.says \in 1 .. version[a.of]
  BY DEF EInv, TypeOK, BadgesFit
<1>3. /\ page' \in Page /\ page'.url = page.url /\ page'.seen = page.seen
      /\ page'.badges = page.badges \/ page'.badges = <<a>>
  <2>1. CASE AddBadge(a)
    <3> PICK b : b = Append(page.badges, a)
      OBVIOUS
    <3>1. page' = [page EXCEPT !.badges = b, !.added = TRUE] /\ page.badges = <<>>
      BY <2>1 DEF AddBadge
    <3>2. b = <<a>> /\ b \in Seq(Answer)
      BY <1>2, <3>1
    <3> QED
      BY <1>2, <3>1, <3>2 DEF Page
  <2>2. CASE PollEnds(a)
    BY <1>2, <2>2 DEF PollEnds
  <2> QED
    BY <2>1, <2>2
<1>4. BadgesFit(polls', page'.badges, version)
  <2>1. CASE page'.badges = page.badges
    BY <1>1, <2>1 DEF EInv, BadgesFit
  <2>2. CASE page'.badges = <<a>>
    <3>1. DOMAIN <<a>> = {1} /\ <<a>>[1] = a /\ Len(<<a>>) = 1
      OBVIOUS
    <3>2. \A b \in polls' : b.says \in 1 .. version[b.of]
      BY <1>1 DEF EInv, BadgesFit
    <3> QED
      BY <1>2, <2>2, <3>1, <3>2 DEF BadgesFit
  <2> QED
    BY <1>3, <2>1, <2>2
<1>6. SeenFit(page', polls', calls)
  <2>1. CASE page'.badges = page.badges
    BY <1>1, <1>3, <2>1 DEF EInv, SeenFit
  <2>2. CASE page'.badges = <<a>>
    <3>1. DOMAIN <<a>> = {1} /\ <<a>>[1] = a
      OBVIOUS
    <3> QED
      BY <1>1, <1>3, <2>2, <3>1 DEF EInv, SeenFit
  <2> QED
    BY <1>3, <2>1, <2>2
<1>5. TypeOK'
  BY <1>1, <1>3 DEF EInv, TypeOK
<1> QED
  BY <1>1, <1>4, <1>5, <1>6 DEF EInv

-----------------------------------------------------------------------------
(***************************************************************************)
(* Posts                                                                   *)
(***************************************************************************)

\* A post element is asked about: it was new, so no other message is about it.
LEMMA CheckTweetKeeps ==
    ASSUME EInv, NEW e \in Tweets, checkTweet(e)
    PROVE  EInv'
<1> PICK f : f = [by |-> "tweet", tweet |-> e]
  OBVIOUS
<1>1. /\ tweets[e] = "new" /\ tweets' = [tweets EXCEPT ![e] = "asked"] /\ SendVerify(f, TweetOf[e])
      /\ UNCHANGED <<version, cache, settings, page, polls, popup, budget>>
  BY DEF checkTweet
<1>2. /\ f \in From /\ f.by = "tweet" /\ f.tweet = e /\ TweetOf[e] \in Subjects
      /\ NewCall("cache", f, TweetOf[e], 0) /\ 0 \in 0 .. MaxVersion /\ 0 <= version[TweetOf[e]]
  BY <1>1, Senders, TweetAssumption, SendIs
<1>3. /\ calls' \in [Slots -> {NoCall} \cup Call]
      /\ CallsFit(calls', version)
      /\ FloorFits(calls, cache, version) => FloorFits(calls', cache, version)
      /\ \E k \in Slots, m \in Call :
            /\ calls[k] = NoCall /\ m.from = f /\ m.of = TweetOf[e] /\ m # NoCall
            /\ \A c \in Slots : calls'[c] = IF c = k THEN m ELSE calls[c]
  BY <1>2, SendFits
<1>4. PICK k \in Slots, m \in Call :
            /\ calls[k] = NoCall /\ m.from = f /\ m.of = TweetOf[e] /\ m # NoCall
            /\ \A c \in Slots : calls'[c] = IF c = k THEN m ELSE calls[c]
  BY <1>3
<1>5. tweets \in [Tweets -> {"new", "asked", "badged"}]
  BY DEF EInv, TypeOK
<1>6. /\ tweets' \in [Tweets -> {"new", "asked", "badged"}] /\ tweets'[e] = "asked"
      /\ \A d \in Tweets : d # e => tweets'[d] = tweets[d]
  BY <1>1, <1>5
<1>7. \A c \in Slots : OfTweet(calls[c]) => calls[c].from.tweet # e
  BY <1>1 DEF EInv, TweetsFit
<1>8. \A c \in Slots : OfTweet(calls[c]) => calls[c].from.tweet \in Tweets
  <2> SUFFICES ASSUME NEW c \in Slots, OfTweet(calls[c])
               PROVE  calls[c].from.tweet \in Tweets
    OBVIOUS
  <2>1. calls[c] \in Call /\ calls[c].from.by = "tweet"
    BY DEF EInv, TypeOK, OfTweet
  <2>2. calls[c].from \in From
    BY <2>1, MessageIs
  <2> QED
    BY <2>1, <2>2, SenderKinds
<1>9. TweetsFit(calls', tweets')
  <2>1. ASSUME NEW c \in Slots, OfTweet(calls'[c])
        PROVE  tweets'[calls'[c].from.tweet] # "new"
    <3>1. CASE c = k
      BY <1>2, <1>4, <1>6, <3>1
    <3>2. CASE c # k
      <4>1. calls'[c] = calls[c] /\ OfTweet(calls[c])
        BY <1>4, <2>1, <3>2
      <4>2. tweets'[calls[c].from.tweet] = tweets[calls[c].from.tweet]
        BY <1>6, <1>7, <1>8, <4>1
      <4> QED
        BY <4>1, <4>2 DEF EInv, TweetsFit
    <3> QED
      BY <3>1, <3>2
  <2>2. ASSUME NEW c \in Slots, NEW d \in Slots, OfTweet(calls'[c]), OfTweet(calls'[d]),
               calls'[d].from.tweet = calls'[c].from.tweet
        PROVE  c = d
    <3>1. CASE c # k /\ d # k
      BY <1>4, <2>2, <3>1 DEF EInv, TweetsFit
    <3>2. CASE c = k /\ d # k
      BY <1>2, <1>4, <1>7, <2>2, <3>2
    <3>3. CASE c # k /\ d = k
      BY <1>2, <1>4, <1>7, <2>2, <3>3
    <3> QED
      BY <3>1, <3>2, <3>3
  <2> QED
    BY <2>1, <2>2 DEF TweetsFit
<1>10. PopupWaits(calls', popup)
  <2>1. \A c \in Slots : OfPopup(calls'[c]) => calls'[c] = calls[c]
    BY <1>2, <1>4 DEF OfPopup
  <2> QED
    BY <2>1 DEF EInv, PopupWaits
<1>10a. SeenFit(page, polls, calls')
  <2>1. \A c \in Slots : OfPage(calls'[c]) => calls'[c] = calls[c]
    BY <1>2, <1>4 DEF OfPage
  <2> QED
    BY <2>1 DEF EInv, SeenFit
<1>11. MarksFit(tweets', version)
  BY <1>6 DEF EInv, MarksFit
<1>12. TypeOK'
  BY <1>1, <1>3, <1>6 DEF EInv, TypeOK
<1> QED
  BY <1>1, <1>3, <1>9, <1>10, <1>10a, <1>11, <1>12 DEF EInv

\* The answer about a post marks it if it is bound.
LEMMA TweetAnsweredKeeps ==
    ASSUME EInv, NEW c \in Slots, TweetAnswered(c)
    PROVE  EInv'
<1> PICK e : e = calls[c].from.tweet
  OBVIOUS
<1>1. /\ calls[c].pc = "reply" /\ calls[c].from.by = "tweet" /\ calls' = [calls EXCEPT ![c] = NoCall]
      /\ tweets' = tweets \/ (Hit(calls[c].answer) /\ tweets' = [tweets EXCEPT ![e] = "badged"])
      /\ UNCHANGED <<version, cache, settings, page, polls, popup, budget>>
  BY DEF TweetAnswered
<1>2. /\ calls[c] \in Call /\ Truthful(calls[c], version) /\ version[calls[c].of] \in Nat
      /\ Hit(calls[c].answer) => calls[c].answer.says \in 1 .. version[calls[c].of]
  BY <1>1, ReplyWasTrue
<1>3. e \in Tweets /\ calls[c].of = TweetOf[e]
  BY <1>1, <1>2, MessageIs, SenderKinds DEF Truthful
<1>4. /\ calls' \in [Slots -> {NoCall} \cup Call]
      /\ CallsFit(calls', version) /\ TweetsFit(calls', tweets) /\ PopupWaits(calls', popup)
      /\ SeenFit(page, polls, calls') /\ FloorFits(calls', cache, version)
  BY <1>1, FreedFits
<1>5. tweets \in [Tweets -> {"new", "asked", "badged"}]
  BY DEF EInv, TypeOK
<1>6. /\ tweets' \in [Tweets -> {"new", "asked", "badged"}]
      /\ \A d \in Tweets : tweets'[d] = tweets[d]
                           \/ (d = e /\ tweets'[d] = "badged" /\ Hit(calls[c].answer))
  BY <1>1, <1>5
<1>7. MarksFit(tweets', version)
  <2>1. Hit(calls[c].answer) => version[TweetOf[e]] > 0
    BY <1>2, <1>3
  <2> QED
    BY <1>6, <2>1 DEF EInv, MarksFit
<1>8. TweetsFit(calls', tweets')
  <2> SUFFICES ASSUME NEW d \in Slots, OfTweet(calls'[d])
               PROVE  tweets'[calls'[d].from.tweet] # "new"
    BY <1>4 DEF TweetsFit
  <2>1. calls'[d] \in Call /\ calls'[d].from.by = "tweet"
    BY <1>4 DEF OfTweet
  <2>2. calls'[d].from.tweet \in Tweets
    <3> PICK m : m = calls'[d]
      OBVIOUS
    <3>1. m.from \in From /\ m.from.by = "tweet"
      BY <2>1, MessageIs
    <3> QED
      BY <3>1, SenderKinds
  <2>3. tweets[calls'[d].from.tweet] # "new"
    BY <1>4 DEF TweetsFit
  <2> QED
    BY <1>6, <2>2, <2>3
<1>9. TypeOK'
  BY <1>1, <1>4, <1>6 DEF EInv, TypeOK
<1> QED
  BY <1>1, <1>4, <1>7, <1>8, <1>9 DEF EInv

-----------------------------------------------------------------------------
(***************************************************************************)
(* The popup                                                               *)
(***************************************************************************)

\* The popup shows something else about its page.
LEMMA ShowingIs ==
    ASSUME TypeOK, NEW st \in {"loading", "error"}, NEW q, q = Showing(st)
    PROVE  q \in Popup /\ q.on = popup.on /\ q.state = st
<1>1. popup.on \in Addresses /\ popup.wired \in BOOLEAN
  BY DEF TypeOK, Popup
<1>2. q = [NoPopup EXCEPT !.state = st, !.on = popup.on, !.wired = popup.wired]
  BY DEF Showing
<1> QED
  BY <1>1, <1>2, NoPopupIs DEF Popup

\* A popup without a page has no message under way.
LEMMA NoAsker ==
    ASSUME EInv, popup.on \notin Subjects
    PROVE  \A c \in Slots : ~OfPopup(calls[c])
<1> SUFFICES ASSUME NEW c \in Slots, OfPopup(calls[c])
             PROVE  FALSE
  OBVIOUS
<1>1. calls[c] \in Call /\ calls[c].of = popup.on
  BY DEF EInv, TypeOK, OfPopup, PopupWaits
<1> QED
  BY <1>1, MessageIs

\* The popup p asks about its page, or is to ask: ca is the cache meanwhile.
LEMMA PopupAsks ==
    ASSUME EInv, NEW pc \in {"clear", "cache"}, NEW s \in Subjects, NEW n \in 0 .. MaxVersion, n <= version[s],
           NewCall(pc, [by |-> "popup"], s, n),
           NEW ca, FloorFits(calls, ca, version), \A x \in ca[s] : x >= n,
           \A d \in Slots : calls[d] # NoCall /\ calls[d].pc = "store" /\ calls[d].of = s
                               => calls[d].answer.says >= n,
           NEW p, p.on = s, PopupWaits(calls, p)
    PROVE  /\ calls' \in [Slots -> {NoCall} \cup Call]
           /\ CallsFit(calls', version) /\ TweetsFit(calls', tweets) /\ PopupWaits(calls', p)
           /\ SeenFit(page, polls, calls') /\ FloorFits(calls', ca, version)
<1> PICK f : f = [by |-> "popup"]
  OBVIOUS
<1>1. f \in From /\ f.by = "popup"
  BY PlainSenders
<1>2. NewCall(pc, f, s, n)
  OBVIOUS
<1>3. /\ calls' \in [Slots -> {NoCall} \cup Call]
      /\ CallsFit(calls', version)
      /\ FloorFits(calls', ca, version)
      /\ \E k \in Slots, m \in Call :
            /\ calls[k] = NoCall /\ m.from = f /\ m.of = s /\ m # NoCall
            /\ \A c \in Slots : calls'[c] = IF c = k THEN m ELSE calls[c]
  BY <1>1, <1>2, SendFits
<1>4. PICK k \in Slots, m \in Call :
            /\ calls[k] = NoCall /\ m.from = f /\ m.of = s /\ m # NoCall
            /\ \A c \in Slots : calls'[c] = IF c = k THEN m ELSE calls[c]
  BY <1>3
<1>5. \A c \in Slots : (OfTweet(calls'[c]) => calls'[c] = calls[c]) /\ (OfPage(calls'[c]) => calls'[c] = calls[c])
  BY <1>1, <1>4 DEF OfTweet, OfPage
<1>6. TweetsFit(calls', tweets)
  BY <1>5 DEF EInv, TweetsFit
<1>7. SeenFit(page, polls, calls')
  BY <1>5 DEF EInv, SeenFit
<1>8. PopupWaits(calls', p)
  BY <1>4 DEF PopupWaits
<1> QED
  BY <1>3, <1>6, <1>7, <1>8

\* The first message of a popup, and one it sends again, fall behind nothing.
LEMMA PopupSends ==
    ASSUME EInv, NEW s \in Subjects, SendVerify([by |-> "popup"], s), NEW p, p.on = s, PopupWaits(calls, p)
    PROVE  /\ calls' \in [Slots -> {NoCall} \cup Call]
           /\ CallsFit(calls', version) /\ TweetsFit(calls', tweets) /\ PopupWaits(calls', p)
           /\ SeenFit(page, polls, calls') /\ FloorFits(calls', cache, version)
<1> PICK f : f = [by |-> "popup"]
  OBVIOUS
<1>1. f \in From
  BY PlainSenders
<1>2. NewCall("cache", [by |-> "popup"], s, 0) /\ 0 \in 0 .. MaxVersion /\ 0 <= version[s]
  BY <1>1, SendIs
<1>3. TypeOK
  BY DEF EInv
<1>4. \A x \in cache[s] : x >= 0
  BY <1>3, ShownIs
<1>5. \A d \in Slots : calls[d] # NoCall => calls[d].answer.says >= 0
  <2> SUFFICES ASSUME NEW d \in Slots, calls[d] # NoCall
               PROVE  calls[d].answer.says >= 0
    OBVIOUS
  <2>1. calls[d] \in Call
    BY <1>3 DEF TypeOK
  <2> QED
    BY <2>1, MessageIs, BoundsAssumption
<1>6. FloorFits(calls, cache, version)
  BY DEF EInv
<1> QED
  BY <1>2, <1>4, <1>5, <1>6, PopupAsks

\* The popup is opened on the page's address.
LEMMA OpenPopupKeeps ==
    ASSUME EInv, OpenPopup
    PROVE  EInv'
<1>1. /\ popup.state = "closed" /\ Takes("popups")
      /\ UNCHANGED <<version, cache, settings, page, tweets, polls>>
  BY DEF OpenPopup
<1>2. TypeOK
  BY DEF EInv
<1>3. page.url \in Addresses
  BY <1>2 DEF TypeOK, Page
<1>4. budget' \in [site : {"youtube", "twitter"}, moves : Nat, changes : Nat, popups : Nat,
                   refreshes : Nat, faults : Nat]
  BY <1>1, <1>2, TakesKeeps
<1>5. \A c \in Slots : ~OfPopup(calls[c])
  BY <1>1, NoAsker DEF EInv, PopupFits
<1>6. CASE page.url = Home
  <2> PICK q : q = [NoPopup EXCEPT !.state = "unsupported", !.wired = TRUE]
    OBVIOUS
  <2>1. popup' = q /\ calls' = calls
    BY <1>6 DEF OpenPopup
  <2>2. q \in Popup /\ q.state = "unsupported" /\ q.on = Home
    BY NoPopupIs DEF Popup
  <2>3. PopupWaits(calls, q)
    BY <1>5 DEF PopupWaits
  <2>4. PopupFits(q, version)
    BY <2>2, SubjectAssumption DEF PopupFits
  <2>5. TypeOK'
    BY <1>1, <1>2, <1>4, <2>1, <2>2 DEF TypeOK
  <2> QED
    BY <1>1, <2>1, <2>3, <2>4, <2>5 DEF EInv
<1>7. CASE page.url # Home
  <2> PICK s : s = page.url
    OBVIOUS
  <2> PICK q : q = [NoPopup EXCEPT !.state = "loading", !.on = s]
    OBVIOUS
  <2>1. popup' = q /\ SendVerify([by |-> "popup"], s)
    BY <1>7 DEF OpenPopup
  <2>2. s \in Subjects
    BY <1>3, <1>7 DEF Addresses
  <2>3. q \in Popup /\ q.state = "loading" /\ q.on = s
    BY <1>3, NoPopupIs DEF Popup
  <2>4. PopupWaits(calls, q)
    BY <1>5 DEF PopupWaits
  <2>5. /\ calls' \in [Slots -> {NoCall} \cup Call]
        /\ CallsFit(calls', version) /\ TweetsFit(calls', tweets) /\ PopupWaits(calls', q)
        /\ SeenFit(page, polls, calls') /\ FloorFits(calls', cache, version)
    BY <2>1, <2>2, <2>3, <2>4, PopupSends
  <2>6. PopupFits(q, version)
    BY <2>2, <2>3 DEF PopupFits
  <2>7. TypeOK'
    BY <1>1, <1>2, <1>4, <2>1, <2>3, <2>5 DEF TypeOK
  <2> QED
    BY <1>1, <2>1, <2>5, <2>6, <2>7 DEF EInv
<1> QED
  BY <1>6, <1>7

\* The popup asks again about its page, after an error.
LEMMA RetryKeeps ==
    ASSUME EInv, ClickRetry
    PROVE  EInv'
<1> PICK s : s = popup.on
  OBVIOUS
<1> PICK q : q = Showing("loading")
  OBVIOUS
<1>1. /\ popup.state = "error" /\ popup' = q /\ SendVerify([by |-> "popup"], s)
      /\ UNCHANGED <<version, cache, settings, page, tweets, polls, budget>>
  BY DEF ClickRetry
<1>2. TypeOK
  BY DEF EInv
<1>3. s \in Subjects
  BY <1>1 DEF EInv, PopupFits
<1>4. q \in Popup /\ q.on = s /\ q.state = "loading"
  BY <1>2, ShowingIs
<1>5. PopupWaits(calls, q)
  BY <1>4 DEF EInv, PopupWaits
<1>6. /\ calls' \in [Slots -> {NoCall} \cup Call]
      /\ CallsFit(calls', version) /\ TweetsFit(calls', tweets) /\ PopupWaits(calls', q)
      /\ SeenFit(page, polls, calls') /\ FloorFits(calls', cache, version)
  BY <1>1, <1>3, <1>4, <1>5, PopupSends
<1>7. PopupFits(q, version)
  BY <1>3, <1>4 DEF PopupFits
<1>8. TypeOK'
  BY <1>1, <1>2, <1>4, <1>6 DEF TypeOK
<1> QED
  BY <1>1, <1>6, <1>7, <1>8 DEF EInv

\* The second half of a refresh sends its message.
LEMMA VerifyKeeps ==
    ASSUME EInv, NEW c \in Slots, verifyCurrentPage(c)
    PROVE  EInv'
<1> PICK m : m = [calls[c] EXCEPT !.pc = "cache"]
  OBVIOUS
<1> PICK q : q = Showing("loading")
  OBVIOUS
<1>1. /\ calls[c].pc = "clear" /\ calls' = [calls EXCEPT ![c] = m] /\ popup' = q
      /\ UNCHANGED <<version, cache, settings, page, tweets, polls, budget>>
  BY DEF verifyCurrentPage
<1>2. TypeOK
  BY DEF EInv
<1>3. calls[c] \in Call /\ calls[c] # NoCall
  BY <1>1, <1>2, SlotHolds
<1>4. Truthful(calls[c], version)
  BY <1>3 DEF EInv, CallsFit
<1>5. /\ m \in Call /\ m.pc = "cache" /\ m.from = calls[c].from /\ m.of = calls[c].of
      /\ m.answer = calls[c].answer /\ m.via = calls[c].via /\ m.floor = calls[c].floor
  BY <1>3, MessageGoes
<1>6. Truthful(m, version)
  BY <1>4, <1>5 DEF Truthful
<1>7. /\ calls' \in [Slots -> {NoCall} \cup Call]
      /\ CallsFit(calls', version) /\ TweetsFit(calls', tweets) /\ PopupWaits(calls', popup)
      /\ SeenFit(page, polls, calls') /\ FloorFits(calls', cache, version)
  BY <1>1, <1>3, <1>5, <1>6, GoesFits
<1>8. q \in Popup /\ q.on = popup.on /\ q.state = "loading"
  BY <1>2, ShowingIs
<1>9. popup.on \in Subjects
  <2>1. OfPopup(calls[c])
    BY <1>1, <1>3, <1>4 DEF Truthful, OfPopup
  <2> QED
    BY <2>1, NoAsker
<1>10. PopupWaits(calls', q) /\ PopupFits(q, version)
  BY <1>7, <1>8, <1>9 DEF PopupWaits, PopupFits
<1>11. TypeOK'
  BY <1>1, <1>2, <1>7, <1>8 DEF TypeOK
<1> QED
  BY <1>1, <1>7, <1>10, <1>11 DEF EInv

\* The popup is closed: nobody waits for its answers, and what
\* was to be asked is not.
LEMMA ClosePopupKeeps ==
    ASSUME EInv, ClosePopup
    PROVE  EInv'
<1> PICK f : f = [by |-> "gone"]
  OBVIOUS
<1>1. f \in From /\ f.by = "gone"
  BY PlainSenders
<1>2. /\ popup' = NoPopup
      /\ calls' = [c \in Slots |->
                      IF c \in Free \/ calls[c].from.by # "popup" THEN calls[c]
                      ELSE IF c \in Sent THEN [calls[c] EXCEPT !.from = f] ELSE NoCall]
      /\ UNCHANGED <<version, cache, settings, page, tweets, polls, budget>>
  BY DEF ClosePopup
<1>3. TypeOK /\ calls \in [Slots -> {NoCall} \cup Call]
  BY DEF EInv, TypeOK
<1>4. ASSUME NEW c \in Slots
      PROVE  /\ calls'[c] \in {NoCall} \cup Call
             /\ ~OfPopup(calls'[c])
             /\ \/ calls'[c] = NoCall
                \/ calls'[c] = calls[c]
                \/ /\ calls[c] # NoCall /\ calls'[c].from.by = "gone"
                   /\ calls'[c].pc = calls[c].pc /\ calls'[c].of = calls[c].of /\ calls'[c].pc # "clear"
                   /\ calls'[c].answer = calls[c].answer /\ calls'[c].via = calls[c].via
  <2>1. /\ calls[c] = NoCall \/ calls[c].from.by # "popup" => calls'[c] = calls[c]
        /\ calls[c] # NoCall /\ calls[c].from.by = "popup" /\ calls[c].pc # "clear"
              => calls'[c] = [calls[c] EXCEPT !.from = f]
        /\ calls[c] # NoCall /\ calls[c].from.by = "popup" /\ calls[c].pc = "clear" => calls'[c] = NoCall
    BY <1>2 DEF Free, Sent
  <2>2. CASE calls[c] # NoCall /\ calls[c].from.by = "popup" /\ calls[c].pc # "clear"
    <3> PICK m : m = calls'[c]
      OBVIOUS
    <3>1. calls[c] \in Call /\ m = [calls[c] EXCEPT !.from = f]
      BY <1>3, <2>1, <2>2
    <3>2. /\ m \in Call /\ m.pc = calls[c].pc /\ m.from = f /\ m.of = calls[c].of
          /\ m.answer = calls[c].answer /\ m.via = calls[c].via
      BY <1>1, <3>1, MessageOrphaned
    <3> QED
      BY <1>1, <2>2, <3>2 DEF OfPopup
  <2>3. CASE calls[c] = NoCall \/ calls[c].from.by # "popup"
    BY <1>3, <2>1, <2>3 DEF OfPopup
  <2>4. CASE calls[c] # NoCall /\ calls[c].from.by = "popup" /\ calls[c].pc = "clear"
    BY <2>1, <2>4 DEF OfPopup
  <2> QED
    BY <2>2, <2>3, <2>4
<1>5. calls' \in [Slots -> {NoCall} \cup Call]
  <2>1. calls' = [c \in Slots |-> calls'[c]]
    BY <1>2
  <2> QED
    BY <1>4, <2>1
<1>6. /\ CallsFit(calls', version) /\ TweetsFit(calls', tweets)
      /\ SeenFit(page, polls, calls') /\ FloorFits(calls', cache, version)
  BY <1>4, <1>5, EndsFit
<1>7. PopupWaits(calls', NoPopup)
  BY <1>4 DEF PopupWaits
<1>8. NoPopup \in Popup /\ NoPopup.state = "closed" /\ NoPopup.on = Home
  BY NoPopupIs
<1>9. PopupFits(NoPopup, version)
  BY <1>8, SubjectAssumption DEF PopupFits
<1>10. TypeOK'
  BY <1>2, <1>3, <1>5, <1>8 DEF TypeOK
<1> QED
  BY <1>2, <1>6, <1>7, <1>9, <1>10 DEF EInv

\* The popup shows an answer it waits for.
LEMMA PopupAnsweredKeeps ==
    ASSUME EInv, NEW c \in Slots, PopupAnswered(c)
    PROVE  EInv'
<1> PICK a : a = calls[c].answer
  OBVIOUS
<1> PICK v : v = calls[c].via
  OBVIOUS
<1> PICK st : st = IF Hit(a) THEN "verified" ELSE "notVerified"
  OBVIOUS
<1> PICK n : n = calls[c].floor
  OBVIOUS
<1> PICK q : q = [popup EXCEPT !.state = st, !.wired = TRUE, !.says = a.says, !.of = a.of, !.via = v,
                               !.floor = n]
  OBVIOUS
<1>1. /\ calls[c].pc = "reply" /\ calls[c].from.by = "popup" /\ calls' = [calls EXCEPT ![c] = NoCall]
      /\ popup' = q
      /\ UNCHANGED <<version, cache, settings, page, tweets, polls, budget>>
  BY DEF PopupAnswered
<1>2. /\ calls[c] \in Call /\ calls[c] # NoCall /\ Truthful(calls[c], version)
      /\ a.of = calls[c].of /\ a.says \in Nat /\ (Hit(a) => a.says \in 1 .. version[calls[c].of])
      /\ calls[c].of \in Subjects /\ a.of \in Addresses
  BY <1>1, ReplyWasTrue DEF Addresses
<1>3. OfPopup(calls[c]) /\ calls[c].of = popup.on
  BY <1>1, <1>2 DEF OfPopup, EInv, PopupWaits
<1>4. a.says \in 0 .. MaxVersion /\ v \in Via /\ n \in 0 .. MaxVersion
  BY <1>2, MessageIs
<1>5. /\ q \in Popup /\ q.state = st /\ q.says = a.says /\ q.of = a.of /\ q.via = v
      /\ q.on = popup.on /\ q.floor = n
  <2>1. popup \in Popup
    BY DEF EInv, TypeOK
  <2>2. st \in {"verified", "notVerified"}
    OBVIOUS
  <2> QED
    BY <1>2, <1>4, <2>1, <2>2 DEF Popup
<1>6. /\ calls' \in [Slots -> {NoCall} \cup Call]
      /\ CallsFit(calls', version) /\ TweetsFit(calls', tweets)
      /\ PopupWaits(calls', popup) /\ SeenFit(page, polls, calls') /\ FloorFits(calls', cache, version)
      /\ \A d \in Slots : calls'[d] = IF d = c THEN NoCall ELSE calls[d]
  BY <1>1, FreedFits
<1>7. PopupWaits(calls', q)
  BY <1>5, <1>6 DEF PopupWaits
<1>8. q.on \in Subjects
  BY <1>2, <1>3, <1>5
<1>9. Hit(a) => a.says >= n
  <2>1. Hit(a) => a.says > 0
    BY DEF Hit
  <2> QED
    BY <1>1, <1>2, <1>3, <2>1 DEF EInv, FloorFits
<1>10. v = "cache" => Hit(a)
  BY <1>1, <1>2 DEF Truthful, Hit
<1>11. PopupFits(q, version)
  <2>2. q.state = "verified" => Hit(a)
    BY <1>5
  <2>3. q.state = "notVerified" => ~Hit(a)
    BY <1>5
  <2>4. q.state \in {"verified", "notVerified"}
    BY <1>5
  <2> QED
    BY <1>2, <1>3, <1>5, <1>8, <1>9, <1>10, <2>2, <2>3, <2>4 DEF PopupFits
<1>12. TypeOK'
  BY <1>1, <1>5, <1>6 DEF EInv, TypeOK
<1> QED
  BY <1>1, <1>6, <1>7, <1>11, <1>12 DEF EInv

\* The order of the numbers, as a set of pairs.
Less == {ss \in Nat \X Nat : ss[1] < ss[2]}

\* Of numbers there is a least.
LEMMA LeastIs ==
    ASSUME NEW S, S \subseteq Nat, S # {}
    PROVE  \E n \in S : \A o \in S : n <= o
<1>1. IsWellFoundedOn(Less, Nat)
  BY NatLessThanWellFounded DEF OpToRel, Less
<1>2. \E n \in S : \A o \in S : ~(<<o, n>> \in Less)
  BY <1>1, WFMin
<1>3. \A n, o \in Nat : ~(<<o, n>> \in Less) => n <= o
  BY DEF Less
<1> QED
  BY <1>2, <1>3

\* The floor of a refresh is no higher than what it is the least of.
LEMMA FloorIs ==
    ASSUME TypeOK, NEW s \in Subjects
    PROVE  /\ Floor(s) \in 0 .. MaxVersion /\ Floor(s) <= version[s]
           /\ \A c \in Slots : calls[c].pc = "store" /\ calls[c].of = s => calls[c].answer.says >= Floor(s)
<1> PICK told : told = {version[s]} \cup {calls[c].answer.says : c \in {d \in Slots :
                                              calls[d].pc = "store" /\ calls[d].of = s}}
  OBVIOUS
<1>1. version[s] \in 0 .. MaxVersion /\ MaxVersion \in Nat
  BY VersionIs
<1>2. \A c \in Slots : calls[c].pc = "store" => calls[c].answer.says \in 0 .. MaxVersion
  BY SlotHolds, MessageIs
<1>3. told \subseteq 0 .. MaxVersion /\ told # {}
  BY <1>1, <1>2
<1>4. \E n \in told : \A o \in told : n <= o
  <2>1. told \subseteq Nat
    BY <1>1, <1>3
  <2> QED
    BY <1>3, <2>1, LeastIs
<1>5. Floor(s) = CHOOSE n \in told : \A o \in told : n <= o
  BY DEF Floor
<1>6. Floor(s) \in told /\ \A o \in told : Floor(s) <= o
  BY <1>4, <1>5
<1>7. \A c \in Slots : calls[c].pc = "store" /\ calls[c].of = s => calls[c].answer.says >= Floor(s)
  <2> SUFFICES ASSUME NEW c \in Slots, calls[c].pc = "store", calls[c].of = s
               PROVE  calls[c].answer.says >= Floor(s)
    OBVIOUS
  <2>1. calls[c].answer.says \in told
    OBVIOUS
  <2>2. Floor(s) <= calls[c].answer.says
    BY <1>6, <2>1
  <2>3. Floor(s) \in Nat /\ calls[c].answer.says \in Nat
    BY <1>1, <1>3, <1>6, <2>1
  <2> QED
    BY <2>2, <2>3
<1> QED
  BY <1>3, <1>6, <1>7

\* A refresh: the cached answer goes, and the floor is what can still be told.
LEMMA RefreshClickKeeps ==
    ASSUME EInv, handleRefresh
    PROVE  EInv'
<1> PICK s : s = popup.on
  OBVIOUS
<1> PICK n : n = Floor(s)
  OBVIOUS
<1> PICK ca : ca = cache'
  OBVIOUS
<1>1. /\ popup.on # Home /\ Takes("refreshes")
      /\ ca = [cache EXCEPT ![s] = {}] /\ NewCall("clear", [by |-> "popup"], s, n)
      /\ UNCHANGED <<version, settings, page, tweets, polls, popup>>
  BY DEF handleRefresh
<1>2. TypeOK /\ popup \in Popup
  BY DEF EInv, TypeOK
<1>3. s \in Subjects
  BY <1>1, <1>2 DEF Popup, Addresses
<1>4. /\ n \in 0 .. MaxVersion /\ n <= version[s]
      /\ \A c \in Slots : calls[c].pc = "store" /\ calls[c].of = s => calls[c].answer.says >= n
  BY <1>2, <1>3, FloorIs
<1>5. ca \in [Subjects -> SUBSET (0 .. MaxVersion)] /\ \A t \in Subjects : ca[t] = IF t = s THEN {} ELSE cache[t]
  BY <1>1, <1>2 DEF TypeOK
<1>6. CacheFits(ca, version)
  BY <1>5 DEF EInv, CacheFits
<1>7. FloorFits(calls, ca, version)
  <2>1. \A c \in Slots : OfPopup(calls[c]) => calls[c].of = s
    BY DEF EInv, PopupWaits
  <2> QED
    BY <1>3, <1>5, <2>1 DEF EInv, FloorFits
<1>8. /\ calls' \in [Slots -> {NoCall} \cup Call]
      /\ CallsFit(calls', version) /\ TweetsFit(calls', tweets) /\ PopupWaits(calls', popup)
      /\ SeenFit(page, polls, calls') /\ FloorFits(calls', ca, version)
  <2>1. PopupWaits(calls, popup)
    BY DEF EInv
  <2>2. \A x \in ca[s] : x >= n
    BY <1>3, <1>5
  <2> QED
    BY <1>1, <1>3, <1>4, <1>7, <2>1, <2>2, PopupAsks
<1>9. budget' \in [site : {"youtube", "twitter"}, moves : Nat, changes : Nat, popups : Nat,
                   refreshes : Nat, faults : Nat]
  BY <1>1, <1>2, TakesKeeps
<1>10. TypeOK'
  BY <1>1, <1>2, <1>5, <1>8, <1>9 DEF TypeOK
<1> QED
  BY <1>1, <1>6, <1>8, <1>10 DEF EInv

-----------------------------------------------------------------------------
(***************************************************************************)
(* The theorems                                                            *)
(***************************************************************************)

\* The invariant holds when the browser starts.
LEMMA ExtensionBegins == Init => EInv
<1> SUFFICES ASSUME Init PROVE EInv
  OBVIOUS
<1>1. /\ version \in [Subjects -> {0, 1}] /\ cache = [s \in Subjects |-> {}] /\ settings \in BOOLEAN
      /\ tweets = [e \in Tweets |-> "new"] /\ polls = {} /\ calls = [c \in Slots |-> NoCall]
      /\ popup = NoPopup /\ budget \in Budgets
  BY DEF Init
<1>2. MaxVersion \in Nat /\ {0, 1} \subseteq 0 .. MaxVersion
  BY BoundsAssumption
<1>3. PICK u \in Addresses : page = NewPage(u)
  BY DEF Init
<1>4. page \in Page /\ page.badges = <<>> /\ page.url \in page.seen
  BY <1>3 DEF NewPage, Page, Addresses
<1>5. NoPopup \in Popup /\ NoPopup.state = "closed" /\ NoPopup.on = Home
  BY NoPopupIs
<1>6. TypeOK
  <2>1. version \in [Subjects -> 0 .. MaxVersion] /\ cache \in [Subjects -> SUBSET (0 .. MaxVersion)]
    BY <1>1, <1>2
  <2>2. budget \in [site : {"youtube", "twitter"}, moves : Nat, changes : Nat, popups : Nat,
                    refreshes : Nat, faults : Nat]
    BY <1>1, BoundsAssumption
  <2>3. calls \in [Slots -> {NoCall} \cup Call] /\ tweets \in [Tweets -> {"new", "asked", "badged"}]
    BY <1>1
  <2> QED
    BY <1>1, <1>4, <1>5, <2>1, <2>2, <2>3 DEF TypeOK
<1>7. CacheFits(cache, version) /\ CallsFit(calls, version)
  BY <1>1 DEF CacheFits, CallsFit
<1>8. BadgesFit(polls, page.badges, version)
  BY <1>1, <1>4 DEF BadgesFit
<1>9. MarksFit(tweets, version)
  BY <1>1 DEF MarksFit
<1>10. TweetsFit(calls, tweets) /\ PopupWaits(calls, popup) /\ FloorFits(calls, cache, version)
  BY <1>1 DEF TweetsFit, PopupWaits, FloorFits, OfTweet, OfPopup
<1>11. PopupFits(popup, version) /\ SeenFit(page, polls, calls)
  BY <1>1, <1>4, <1>5, SubjectAssumption DEF PopupFits, SeenFit, OfPage
<1> QED
  BY <1>6, <1>7, <1>8, <1>9, <1>10, <1>11 DEF EInv

\* Every step keeps the invariant.
LEMMA ExtensionSteps == EInv /\ [Next]_vars => EInv'
<1> SUFFICES ASSUME EInv, [Next]_vars PROVE EInv'
  OBVIOUS
<1>1. ASSUME NEW s \in Subjects, Change(s) PROVE EInv'
  BY <1>1, ChangeKeeps
<1>2. CASE clearCache \/ \E s \in Subjects : CacheExpires(s)
  BY <1>2, ExpiryKeeps
<1>3. ASSUME NEW c \in Slots, Worker(c) PROVE EInv'
  BY <1>3, CacheReadKeeps, FetchKeeps, StoreKeeps DEF Worker
<1>4. ASSUME NEW c \in Slots, Replied(c) PROVE EInv'
  BY <1>4, PageAnsweredKeeps, TweetAnsweredKeeps, PopupAnsweredKeeps DEF Replied
<1>5. CASE WorkerStops
  BY <1>5, WorkerStopsKeeps
<1>6. CASE saveSettings \/ TitleAppears \/ WatchUrl \/ \E u \in Addresses : Navigate(u)
  BY <1>6, PageMovesKeeps
<1>7. ASSUME NEW u \in Addresses, LoadPage(u) PROVE EInv'
  BY <1>7, LoadKeeps
<1>8. CASE init \/ CheckDue \/ ObserveDom
  BY <1>8, PageLooksKeeps
<1>9. ASSUME NEW a \in polls, AddBadge(a) \/ PollEnds(a) PROVE EInv'
  BY <1>9, BadgeKeeps
<1>10. ASSUME NEW e \in Tweets, checkTweet(e) PROVE EInv'
  BY <1>10, CheckTweetKeeps
<1>11. CASE OpenPopup \/ ClosePopup \/ handleRefresh \/ ClickRetry \/ \E c \in Slots : verifyCurrentPage(c)
  BY <1>11, OpenPopupKeeps, ClosePopupKeeps, RefreshClickKeeps, RetryKeeps, VerifyKeeps
<1>12. CASE Rest \/ UNCHANGED vars
  <2>1. UNCHANGED vars
    BY <1>12 DEF Rest
  <2>2. UNCHANGED <<version, cache, settings, page, tweets, polls, calls, popup, budget>>
    BY <2>1 DEF vars
  <2>3. TypeOK'
    BY <2>2 DEF EInv, TypeOK
  <2> QED
    BY <2>2, <2>3 DEF EInv
<1> QED
  BY <1>1, <1>2, <1>3, <1>4, <1>5, <1>6, <1>7, <1>8, <1>9, <1>10, <1>11, <1>12 DEF Next

\* An element is asked about by one message: who is asked twice would be two slots.
LEMMA OneSlot ==
    ASSUME NEW S, \A c, d \in S : c = d
    PROVE  Cardinality(S) <= 1
<1>1. CASE S = {}
  BY <1>1, FS_EmptySet
<1>2. CASE S # {}
  <2>1. PICK c \in S : TRUE
    BY <1>2
  <2>2. S = {c}
    BY <2>1
  <2>3. Cardinality({c}) = 1
    BY FS_Singleton
  <2> QED
    BY <2>2, <2>3
<1> QED
  BY <1>1, <1>2

\* What the invariant says of what is shown.
LEMMA ExtensionImplies == EInv => ShowInv /\ RefreshSkipsCache
<1> SUFFICES ASSUME EInv PROVE ShowInv /\ RefreshSkipsCache
  OBVIOUS
<1>1. TypeOK
  BY DEF EInv
<1>2. OneBadge
  BY DEF EInv, BadgesFit, OneBadge
<1>3. popup.state = "verified" => popup.on \in Subjects /\ popup.of = popup.on
                                  /\ popup.says \in 1 .. version[popup.on] /\ popup.says >= popup.floor
  BY DEF EInv, PopupFits
<1>4. ShownWasTrue
  BY <1>3 DEF EInv, BadgesFit, SeenFit, MarksFit, ShownWasTrue
<1>5. DenialIsAsked
  BY DEF EInv, PopupFits, DenialIsAsked
<1>6. OneCallPerTweet
  <2> SUFFICES ASSUME NEW e \in Tweets
               PROVE  Cardinality({c \in Slots : calls[c] # NoCall
                                       /\ calls[c].from = [by |-> "tweet", tweet |-> e]}) <= 1
    BY DEF OneCallPerTweet
  <2> PICK S : S = {c \in Slots : calls[c] # NoCall /\ calls[c].from = [by |-> "tweet", tweet |-> e]}
    OBVIOUS
  <2>1. \A c \in S : c \in Slots /\ OfTweet(calls[c]) /\ calls[c].from.tweet = e
    BY DEF OfTweet
  <2>2. \A c, d \in S : c = d
    BY <2>1 DEF EInv, TweetsFit
  <2>3. Cardinality(S) <= 1
    BY <2>2, OneSlot
  <2> QED
    BY <2>3
<1>7. RefreshSkipsCache
  BY <1>3 DEF RefreshSkipsCache
<1> QED
  BY <1>1, <1>2, <1>4, <1>5, <1>6, <1>7 DEF ShowInv

\* The inductive invariant holds in every state.
LEMMA ExtensionHolds == Spec => []EInv
  BY ExtensionBegins, ExtensionSteps, PTL DEF Spec

\* What the page and the popup show as verified was so, the one badge of the
\* page is of a video it has shown since it was loaded, the popup speaks of its
\* own page whatever clicks overlap, and a denial was asked for
\* (service-worker.js, youtube.js, twitter.js, popup.js).
THEOREM ShownIsTrue == Spec => []ShowInv
  BY ExtensionHolds, ExtensionImplies, PTL

\* The answer to a click on Refresh, of several under way, is not older than
\* what could be asked at that click (handleRefresh in popup.js).
THEOREM RefreshesAreFresh == Spec => []RefreshSkipsCache
  BY ExtensionHolds, ExtensionImplies, PTL
===============================================================================
