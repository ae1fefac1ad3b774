----------------------------- MODULE IpfsUpload -----------------------------
(***************************************************************************)
(* scripts/upload-ipfs.ts: a file goes to the first provider of an order   *)
(* that takes it, each with its retries, or to the one that is forced; and *)
(* the routes /upload and /manifest around it, which keep the file in a    *)
(* temporary one meanwhile.  Uploads share nothing, so a behaviour is one. *)
(*                                                                         *)
(* A post has five outcomes: "cid", stored and told so; "odd", a response  *)
(* in which no CID is found; "busy", a status of 500 or more, 429,         *)
(* ECONNRESET or ETIMEDOUT; "refused", another status of 400 or more; and  *)
(* "lost", any other error, among them the client's own timeout of 30      *)
(* seconds, which axios calls ECONNABORTED.  After all but "refused" the   *)
(* provider may have stored the file.                                      *)
(***************************************************************************)
EXTENDS Naturals, Sequences

CONSTANTS
    Uploads     \* requests with the configuration they meet, see Upload

VARIABLES
    upload,     \* the request of this behaviour, or NoUpload
    at,         \* where its handler is
    provider,   \* the provider being asked, or "none"
    attempt,    \* of the post to it
    posts,      \* provider -> posts of the file it was sent
    failed,     \* providers that failed, in order (errors)
    stored,     \* providers that have the file
    copies,     \* times it was stored
    missed,     \* times it was stored and the response did not tell
    temp,       \* the temporary file: "none", "written", "broken" (its write failed
                \* half way), "removed" or "kept" (its unlink failed)
    answer      \* what the client got: "none", "ok", "undefined" or "error"

uploading == <<upload, at, provider, attempt, posts, failed, stored, copies, missed, temp, answer>>

Order == <<"web3storage", "pinata", "infura", "local">>
Providers == {"web3storage", "pinata", "infura", "local"}

\* Retries after the first post, each after a pause.
Retries == 2

\* force is IPFS_PROVIDER; set are the providers whose variables are set,
\* example those of them that still hold the text of .env.example, as far as
\* the code looks at that.
Upload == [route : {"upload", "manifest", "manifestOnly"}, force : Providers \cup {"none", "unknown"},
           set : SUBSET Providers, example : SUBSET {"web3storage", "pinata"}]

NoUpload == [route |-> "none"]

ASSUME UploadAssumption == Uploads \subseteq Upload

UploadInit ==
    /\ upload \in Uploads \cup {NoUpload}
    /\ at = "start"
    /\ provider = "none" /\ attempt = 0
    /\ posts = [p \in Providers |-> 0]
    /\ failed = <<>> /\ stored = {} /\ copies = 0 /\ missed = 0
    /\ temp = "none" /\ answer = "none"

Has(p) == p \in upload.set
Usable(p) == Has(p) /\ p \notin upload.example

Outside == UNCHANGED <<posts, stored, copies, missed>>

-----------------------------------------------------------------------------
(***************************************************************************)
(* The routes                                                              *)
(***************************************************************************)

\* /manifest asks for the network and signs; it may be all that is wanted.
Sign ==
    /\ at = "start" /\ upload.route \in {"manifest", "manifestOnly"}
    /\ \/ at' = (IF upload.route = "manifest" THEN "write" ELSE "done")
          /\ answer' = IF upload.route = "manifest" THEN "none" ELSE "ok"
       \/ at' = "done" /\ answer' = "error"
    /\ Outside /\ UNCHANGED <<upload, provider, attempt, failed, temp>>

\* A write that fails may have created the file, which nobody removes then:
\* tmpWrite is outside the try whose finally cleans up.
tmpWrite ==
    /\ at = "write" \/ (at = "start" /\ upload.route = "upload")
    /\ \/ at' = "choose" /\ temp' = "written" /\ UNCHANGED answer
       \/ at' = "done" /\ answer' = "error" /\ temp' \in {"none", "broken"}
    /\ Outside /\ UNCHANGED <<upload, provider, attempt, failed>>

\* finally; an unlink that fails leaves the file, unnoticed.
cleanupTmpFile ==
    /\ at = "clean"
    /\ at' = "done"
    /\ temp' \in {"removed", "kept"}
    /\ Outside /\ UNCHANGED <<upload, provider, attempt, failed, answer>>

\* The API stops in the middle, and the file stays.  A success has been
\* answered before the file is removed, an error not.
Stops ==
    /\ at \notin {"start", "done", "stopped"}
    /\ at' = "stopped"
    /\ answer' = IF answer = "error" THEN "none" ELSE answer
    /\ Outside /\ UNCHANGED <<upload, provider, attempt, failed, temp>>

-----------------------------------------------------------------------------
(***************************************************************************)
(* Providers                                                               *)
(***************************************************************************)

Ask(p) ==
    /\ provider' = p /\ attempt' = 0
    /\ at' = IF p = "infura" THEN "preflight" ELSE "post"
    /\ UNCHANGED <<failed, answer>>

GiveUp ==
    /\ at' = "clean" /\ answer' = "error" /\ provider' = "none"
    /\ UNCHANGED <<attempt, failed>>

Tried == {failed[n] : n \in DOMAIN failed}

\* The places in the order of the providers not tried yet, and the first.
Rest == {n \in DOMAIN Order : Usable(Order[n]) /\ Order[n] \notin Tried}
First(n) == \A l \in Rest : n <= l

\* Mutant of Choose: the first error is thrown.
ChooseOnce ==
    /\ at = "choose"
    /\ IF failed # <<>> THEN GiveUp
       ELSE IF upload.force \in Providers THEN Ask(upload.force)
       ELSE \/ upload.force = "none" /\ \E n \in Rest : First(n) /\ Ask(Order[n])
            \/ (upload.force = "unknown" \/ Rest = {}) /\ GiveUp
    /\ Outside /\ UNCHANGED <<upload, temp>>

\* A forced provider is tried once, with whatever its variables hold; else
\* the next one of the order that is configured.
Choose ==
    /\ at = "choose"
    /\ \/ upload.force = "none" /\ \E n \in Rest : First(n) /\ Ask(Order[n])
       \/ upload.force = "none" /\ Rest = {} /\ GiveUp
       \/ upload.force \in Providers \ Tried /\ Ask(upload.force)
       \/ upload.force \in Tried \cup {"unknown"} /\ GiveUp
    /\ Outside /\ UNCHANGED <<upload, temp>>

Fail ==
    /\ at' = "choose" /\ provider' = "none"
    /\ failed' = Append(failed, provider)
    /\ UNCHANGED <<attempt, answer>>

\* Nothing is sent without the variables; a local node needs none.
Unconfigured ==
    /\ at \in {"preflight", "post"} /\ provider # "local" /\ ~Has(provider)
    /\ Fail
    /\ Outside /\ UNCHANGED <<upload, temp>>

Configured == provider = "local" \/ Has(provider)

\* Infura is asked for its version first, once.
preflightInfura ==
    /\ at = "preflight" /\ Configured
    /\ \/ at' = "post" /\ UNCHANGED <<provider, attempt, failed, answer>>
       \/ Fail
    /\ Outside /\ UNCHANGED <<upload, temp>>

\* The file is sent; the provider may store it.
Post(outcome) ==
    /\ at = "post" /\ Configured
    /\ posts' = [posts EXCEPT ![provider] = @ + 1]
    /\ \/ /\ outcome # "refused"
          /\ stored' = stored \cup {provider} /\ copies' = copies + 1
          /\ missed' = missed + IF outcome = "cid" THEN 0 ELSE 1
       \/ outcome # "cid" /\ UNCHANGED <<stored, copies, missed>>
    /\ UNCHANGED <<upload, temp>>

Succeed(what) ==
    /\ at' = "clean" /\ answer' = what
    /\ UNCHANGED <<provider, attempt, failed>>

uploaded == Post("cid") /\ Succeed("ok")

\* A CID that is not found is an error, but not with a local node, whose
\* response without a hash makes the answer's URI ipfs://undefined.
cidMissing ==
    Post("odd") /\ (Fail \/ (provider = "local" /\ Succeed("undefined")))

\* Posted again after a pause, up to two times.
postWithRetry ==
    /\ Post("busy")
    /\ IF attempt < Retries
       THEN attempt' = attempt + 1 /\ UNCHANGED <<at, provider, failed, answer>>
       ELSE Fail

\* Web3.Storage's refusal is a response without a CID, its 429 too.
postFails == (Post("refused") \/ Post("lost")) /\ Fail

UploadRest == (at \in {"done", "stopped"} \/ upload = NoUpload) /\ UNCHANGED uploading

UploadNext ==
    \/ Sign \/ tmpWrite \/ Choose \/ Unconfigured \/ preflightInfura
    \/ uploaded \/ cidMissing \/ postWithRetry \/ postFails
    \/ cleanupTmpFile \/ Stops
    \/ UploadRest

UploadSpec == UploadInit /\ [][UploadNext]_uploading

-----------------------------------------------------------------------------
(***************************************************************************)
(* Properties                                                              *)
(***************************************************************************)

UploadTypeOK ==
    /\ upload \in Upload \cup {NoUpload}
    /\ at \in {"start", "write", "choose", "preflight", "post", "clean", "done", "stopped"}
    /\ provider \in Providers \cup {"none"}
    /\ attempt \in 0 .. Retries
    /\ posts \in [Providers -> 0 .. Retries + 1]
    /\ failed \in Seq(Providers)
    /\ stored \subseteq Providers
    /\ copies \in Nat /\ missed \in 0 .. copies
    /\ temp \in {"none", "written", "broken", "removed", "kept"}
    /\ answer \in {"none", "ok", "undefined", "error"}

\* A CID in the answer is one under which the provider that gave it has the
\* file, after whatever failed before.
CidIsStored ==
    answer = "ok" /\ upload.route # "manifestOnly" => provider \in stored

\* A provider is sent the file only when every configured one before it has
\* failed, and a forced one never falls through to another.
InOrder ==
    \A p \in Providers : posts[p] > 0 =>
        IF upload.force # "none" THEN p = upload.force
        ELSE \A n \in DOMAIN Order :
                 Usable(Order[n]) /\ (\E l \in DOMAIN Order : l > n /\ Order[l] = p)
                     => Order[n] \in Tried

\* The upload is given up only when everything configured has failed.
GivenUpLast ==
    answer = "error" /\ at = "clean" /\ upload.force = "none"
        => \A p \in Providers : Usable(p) => p \in Tried

\* The file is stored more often than once only for responses that did not
\* tell: one more copy for each of them.
CopiesNeedMisses == copies <= 1 + missed

\* A provider is sent a file that is wholly there, through every retry and
\* fallback, and however the upload ends its removal has been tried.  What
\* stays is a file whose write or unlink failed, or one of an API that stopped.
FileOutlivesPosts ==
    /\ at \in {"choose", "preflight", "post"} => temp = "written"
    /\ at = "done" => temp # "written"

\* Whatever the providers answer: they are asked in order, none is passed
\* over, a CID is one of a stored file, a copy too many has a cause, and the
\* temporary file lasts as long as the posts and no longer.
UploadInv ==
    /\ UploadTypeOK
    /\ CidIsStored
    /\ InOrder
    /\ GivenUpLast
    /\ CopiesNeedMisses
    /\ FileOutlivesPosts
=============================================================================
