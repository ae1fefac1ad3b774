------------------------------- MODULE ApiGate -------------------------------
(***************************************************************************)
(* What stands in front of the API's handlers: the rate limiters of        *)
(* scripts/middleware/rate-limit.middleware.ts as app.ts mounts them, the  *)
(* keys and tokens of middleware/auth.middleware.ts and                    *)
(* api-auth.middleware.ts, and the routes that manage keys and issue       *)
(* tokens (routes/v1/api-key.routes.ts, routes/v1/auth.routes.ts).         *)
(*                                                                         *)
(* Every request comes from one client address.  A request passes the      *)
(* limiter of every mount it matches before the router that answers it, so *)
(* one that app.ts mounts last pays for the earlier ones.  With REDIS_URL  *)
(* all limiters of all instances count under one key (prefix "rl:" and the *)
(* address); without it each limiter of each instance counts alone.        *)
(***************************************************************************)
EXTENDS Naturals, Sequences, FiniteSets

CONSTANTS
    Insts,          \* processes that serve the API
    Users,          \* wallet addresses
    Keys,           \* API keys that may ever be made
    Start,          \* the keys that exist at first; their owners are known users
    OwnerOf,        \* key in Start -> its owner
    Setups,         \* what a behaviour starts from: instances, whether REDIS_URL is
                    \* set, whether the shared API key is exempt from the limiters
                    \* (RATE_LIMIT_EXEMPT_API_KEY), and the routes that are asked
    MaxRequests,    \* bound: requests in a behaviour
    MaxResets,      \* bound: windows that end
    MaxFaults       \* bound: failing statements, restarts, Redis outages, keys expiring

Limiters == {"relaxed", "moderate", "strict"}

Max == [relaxed |-> 1000, moderate |-> 100, strict |-> 10]

\* The limiters in front of a router under /api, in the order of app.ts, for
\* one mounted behind m moderate and s strict mounts (its own included).
Behind(m, s) ==
    <<"relaxed">> \o [i \in 1 .. m |-> "moderate"] \o [i \in 1 .. s |-> "strict"]

Passes == [health   |-> Behind(0, 0), contents |-> Behind(1, 0), verify  |-> Behind(2, 0),
           upload   |-> Behind(3, 1), manifest |-> Behind(3, 2), register |-> Behind(3, 3),
           bind     |-> Behind(3, 4), oneShot  |-> Behind(3, 5),
           content  |-> <<"moderate">>, create |-> <<"moderate">>, list  |-> <<"moderate">>,
           revoke   |-> <<"moderate">>, delete |-> <<"moderate">>, token |-> <<"moderate">>]

Open     == {"health", "contents", "verify"}                      \* no credential
Guarded  == {"upload", "manifest", "register", "bind", "oneShot"} \* requireApiKey
KeyPaths == {"create", "list", "revoke", "delete"}                \* authenticateRequest

ASSUME StartAssumption == Start \subseteq Keys /\ OwnerOf \in [Start -> Users]
ASSUME SetupAssumption ==
    /\ IsFiniteSet(Insts)
    /\ Setups \subseteq [insts : SUBSET Insts, redis : {"unset", "up"}, exempt : BOOLEAN,
                         paths : SUBSET DOMAIN Passes]
ASSUME BoundsAssumption == MaxRequests \in Nat /\ MaxResets \in Nat /\ MaxFaults \in Nat

VARIABLES
    setup,      \* never changes
    redis,      \* "unset", "up" or "down"
    inst,       \* instance -> "connecting" (createApp awaits the limiters) or "ready"
    mem,        \* instance -> limiter -> hits in its memory store
    shared,     \* hits in the Redis store
    users,      \* addresses with a User row
    keys,       \* key -> ApiKey row
    tokens,     \* users who hold a JWT
    req,        \* request number, in order of arrival -> the request
    told,       \* keys whose owner was told they are revoked or deleted
    passed,     \* hits on strict limiters that were let through
    windows,    \* strict windows opened so far
    resets, faults

limits == <<mem, shared, passed, windows>>
rows == <<users, keys, tokens, told>>
vars == <<setup, redis, inst, limits, rows, req, resets, faults>>

Reqs == 1 .. MaxRequests

Cred == [by : {"none", "secret"}] \cup [by : {"key"}, key : Keys]
        \cup [by : {"jwt", "signature"}, user : Users]

Absent == [state |-> "absent"]
KeyRow == [state : {"active", "revoked", "gone"}, owner : Users, expired : BOOLEAN]

\* n counts the limiters passed, who is req.auth.userId.  For the properties:
\* alone: no hits had been counted, and no other request was or has come under way;
\* late: the key it shows had been reported revoked before it came;
\* known: the address that signs was a user before it came.
NotYet == [pc |-> "idle"]
Statuses == {200, 401, 429, 500}
Request == [pc : {"limit", "auth", "touch", "act", "insert"}, path : DOMAIN Passes, cred : Cred,
            target : Keys, at : Insts, n : Nat, who : Users \cup {"nobody"},
            alone : BOOLEAN, late : BOOLEAN, known : BOOLEAN]
Answer == [pc : {"answered"}, path : DOMAIN Passes, user : Users \cup {"nobody"},
           status : Statuses, alone : BOOLEAN, late : BOOLEAN, known : BOOLEAN]
Lost == [pc |-> "lost"]

InUse(k) == keys[k].state = "active" /\ ~keys[k].expired

Init ==
    /\ setup \in Setups
    /\ redis = setup.redis
    /\ inst = [i \in setup.insts |-> "connecting"]
    /\ mem = [i \in setup.insts |-> [l \in Limiters |-> 0]]
    /\ shared = 0
    /\ users = {OwnerOf[k] : k \in Start}
    /\ keys = [k \in Keys |-> IF k \in Start
                              THEN [state |-> "active", owner |-> OwnerOf[k], expired |-> FALSE]
                              ELSE Absent]
    /\ tokens = {OwnerOf[k] : k \in Start}
    /\ req = [r \in Reqs |-> NotYet]
    /\ told = {}
    /\ passed = 0
    /\ windows = IF redis = "unset" THEN Cardinality(setup.insts) ELSE 1
    /\ resets = 0
    /\ faults = 0

Fault == faults < MaxFaults /\ faults' = faults + 1

-----------------------------------------------------------------------------
(***************************************************************************)
(* Processes, Redis and time                                               *)
(***************************************************************************)

\* createApp awaits the three limiters; with REDIS_URL they await connect,
\* which keeps trying, so the process listens only once Redis answers.
createApp(i) ==
    /\ inst[i] = "connecting"
    /\ redis # "down"
    /\ inst' = [inst EXCEPT ![i] = "ready"]
    /\ UNCHANGED <<setup, redis, limits, rows, req, resets, faults>>

\* The requests in the process are lost with it, and so is what it counted.
Restart(i) ==
    /\ inst[i] = "ready"
    /\ Fault
    /\ inst' = [inst EXCEPT ![i] = "connecting"]
    /\ mem' = [mem EXCEPT ![i] = [l \in Limiters |-> 0]]
    /\ windows' = IF redis = "unset" THEN windows + 1 ELSE windows
    /\ req' = [r \in Reqs |-> IF req[r].pc \in {"limit", "auth", "touch", "act", "insert"}
                                 /\ req[r].at = i
                              THEN Lost ELSE req[r]]
    /\ UNCHANGED <<setup, redis, shared, passed, rows, resets>>

RedisFails ==
    /\ redis = "up"
    /\ Fault
    /\ redis' = "down"
    /\ UNCHANGED <<setup, inst, limits, rows, req, resets>>

RedisReturns ==
    /\ redis = "down"
    /\ redis' = "up"
    /\ UNCHANGED <<setup, inst, limits, rows, req, resets, faults>>

\* The window of a counter ends (60 s after its first hit).
WindowEnds ==
    /\ resets < MaxResets
    /\ resets' = resets + 1
    /\ \/ /\ redis = "unset"
          /\ \E i \in setup.insts, l \in Limiters :
                /\ mem[i][l] > 0
                /\ mem' = [mem EXCEPT ![i] = [@ EXCEPT ![l] = 0]]
                /\ windows' = IF l = "strict" THEN windows + 1 ELSE windows
          /\ UNCHANGED shared
       \/ /\ redis # "unset"
          /\ shared > 0
          /\ shared' = 0
          /\ windows' = windows + 1
          /\ UNCHANGED mem
    /\ UNCHANGED <<setup, redis, inst, passed, rows, req, faults>>

\* expiresAt passes
KeyExpires(k) ==
    /\ keys[k].state = "active"
    /\ ~keys[k].expired
    /\ Fault
    /\ keys' = [keys EXCEPT ![k] = [@ EXCEPT !.expired = TRUE]]
    /\ UNCHANGED <<setup, redis, inst, limits, users, tokens, told, req, resets>>

-----------------------------------------------------------------------------
(***************************************************************************)
(* A request arrives and passes the limiters                               *)
(***************************************************************************)

InFlight(r) == req[r].pc \in {"limit", "auth", "touch", "act", "insert"}
NoHits(i) == IF redis = "unset" THEN \A l \in Limiters : mem[i][l] = 0 ELSE shared = 0

\* What a client can present: keys that were made, tokens that were issued.
Presentable(path) ==
    CASE path \in Open -> [by : {"none"}]
      [] path = "token" -> [by : {"signature"}, user : Users]
      [] path \in Guarded -> [by : {"none", "secret"}]
      [] OTHER -> [by : {"none"}] \cup [by : {"key"}, key : {k \in Keys : keys[k].state # "absent"}]
                  \cup [by : {"jwt"}, user : tokens]

\* Keys is a bound: a key is left for each request that may make one.
Creating == {o \in Reqs : InFlight(o) /\ req[o].path = "create"}

\* The memory stores answer at once: a request passes all its limiters before
\* its process looks at the next.  (Before any process does, here: their
\* counters have nothing in common.)
Arrive(r, i) ==
    /\ req[r].pc = "idle"
    /\ r > 1 => req[r - 1].pc # "idle"
    /\ inst[i] = "ready"
    /\ redis = "unset" => \A o \in Reqs : req[o].pc # "limit"
    /\ \E path \in setup.paths : \E cred \in Presentable(path), target \in Keys :
          /\ path = "create" => Cardinality(Creating) < Cardinality({k \in Keys : keys[k] = Absent})
          /\ IF path \in {"revoke", "delete"} THEN keys[target].state # "absent"
             ELSE target = CHOOSE k \in Keys : TRUE
          /\ req' = [o \in Reqs |->
                IF o = r
                THEN [pc |-> "limit", path |-> path, cred |-> cred, target |-> target, at |-> i,
                      n |-> 0, who |-> "nobody", alone |-> NoHits(i) /\ ~\E p \in Reqs : InFlight(p),
                      late |-> cred.by = "key" /\ cred.key \in told,
                      known |-> cred.by = "signature" /\ cred.user \in users]
                ELSE IF InFlight(o) THEN [req[o] EXCEPT !.alone = FALSE] ELSE req[o]]
    /\ UNCHANGED <<setup, redis, inst, limits, rows, resets, faults>>

\* What is kept of an answered request is what the properties ask about.
AnswerTo(q, status) ==
    [pc |-> "answered", status |-> status,
     path |-> q.path, user |-> IF q.path = "token" THEN q.cred.user ELSE "nobody",
     alone |-> q.alone /\ status = 429, late |-> q.late /\ status = 200,
     known |-> q.known /\ status = 500]

Respond(r, status) == req' = [req EXCEPT ![r] = AnswerTo(@, status)]

Hits(i, l) == IF redis = "unset" THEN mem[i][l] ELSE shared

\* A limiter counts the hit before it looks at the limit.
OneMore(counts, l) == [counts EXCEPT ![l] = @ + 1]
CountHit(i, l) ==
    IF redis = "unset" THEN mem' = [mem EXCEPT ![i] = OneMore(@, l)] /\ UNCHANGED shared
                       ELSE shared' = shared + 1 /\ UNCHANGED mem

LetOn(r) == req' = [req EXCEPT ![r] = OneMore(@, "n")]

\* One limiter.  While Redis is away the command waits in the client's queue.
Hit(r) ==
    LET q == req[r]
        l == Passes[q.path][q.n + 1]
    IN  /\ q.pc = "limit"
        /\ ~(setup.exempt /\ q.cred.by = "secret")
        /\ q.n < Len(Passes[q.path])
        /\ redis # "down"
        /\ CountHit(q.at, l)
        /\ IF Hits(q.at, l) + 1 > Max[l]
           THEN Respond(r, 429) /\ UNCHANGED passed
           ELSE LetOn(r) /\ passed' = IF l = "strict" THEN passed + 1 ELSE passed
        /\ UNCHANGED <<setup, redis, inst, windows, rows, resets, faults>>

\* Past the last limiter, or skipped by all of them.
LimitsPassed(r) ==
    /\ req[r].pc = "limit"
    /\ \/ req[r].n = Len(Passes[req[r].path])
       \/ setup.exempt /\ req[r].cred.by = "secret"
    /\ req' = [req EXCEPT ![r] = [@ EXCEPT !.pc = "auth", !.n = 0]]
    /\ UNCHANGED <<setup, redis, inst, limits, rows, resets, faults>>

-----------------------------------------------------------------------------
(***************************************************************************)
(* Credentials                                                             *)
(***************************************************************************)

Elsewhere == UNCHANGED <<setup, redis, inst, limits, resets>>

\* requireApiKey and the routes that ask for nothing; the handlers behind
\* them are the other modules'.
requireApiKey(r) ==
    /\ req[r].pc = "auth"
    /\ req[r].path \in Open \cup Guarded
    /\ Respond(r, IF req[r].path \in Guarded /\ req[r].cred.by # "secret" THEN 401 ELSE 200)
    /\ Elsewhere /\ UNCHANGED <<rows, faults>>

GoTo(r, pc) == req' = [req EXCEPT ![r] = [@ EXCEPT !.pc = pc]]
GoAs(r, pc, who) == req' = [req EXCEPT ![r] = [@ EXCEPT !.pc = pc, !.who = who]]

\* authenticateRequest refuses who cannot be authenticated, while
\* optionalAuthentication lets them go on as nobody.
Unauthenticated(r) ==
    IF req[r].path \in KeyPaths THEN Respond(r, 401)
    ELSE GoTo(r, "act")

\* Mutant of verifyApiKey: only keys that have expired are found.
verifyApiKeyExpired(r) ==
    LET c == req[r].cred IN
    /\ req[r].pc = "auth"
    /\ req[r].path \in KeyPaths \cup {"content"}
    /\ CASE c.by = "none" -> Unauthenticated(r)
         [] c.by = "jwt" -> GoAs(r, "act", c.user)
         [] c.by = "key" /\ keys[c.key].state = "active" /\ keys[c.key].expired ->
               GoAs(r, "touch", keys[c.key].owner)
         [] OTHER -> Unauthenticated(r)
    /\ Elsewhere /\ UNCHANGED <<rows, faults>>

\* A token is checked without the database; a key by a look-up, which may
\* throw.
verifyApiKey(r) ==
    LET c == req[r].cred IN
    /\ req[r].pc = "auth"
    /\ req[r].path \in KeyPaths \cup {"content"}
    /\ \/ c.by = "none" /\ Unauthenticated(r) /\ UNCHANGED faults
       \/ c.by = "jwt" /\ GoAs(r, "act", c.user) /\ UNCHANGED faults
       \/ /\ c.by = "key"
          /\ InUse(c.key)
          /\ GoAs(r, "touch", keys[c.key].owner)
          /\ UNCHANGED faults
       \/ c.by = "key" /\ ~InUse(c.key) /\ Unauthenticated(r) /\ UNCHANGED faults
       \/ c.by = "key" /\ Fault /\ Unauthenticated(r)
    /\ Elsewhere /\ UNCHANGED rows

\* The update of lastUsedAt finds its row by id alone, and throws if it is
\* gone; until it has answered, req.auth is not set.
TouchKey(r) ==
    /\ req[r].pc = "touch"
    /\ \/ /\ keys[req[r].cred.key].state # "gone"
          /\ GoTo(r, "act")
          /\ UNCHANGED faults
       \/ /\ \/ keys[req[r].cred.key].state = "gone" /\ UNCHANGED faults
             \/ Fault
          /\ IF req[r].path \in KeyPaths THEN Respond(r, 401)
             ELSE GoAs(r, "act", "nobody")
    /\ Elsewhere /\ UNCHANGED rows

-----------------------------------------------------------------------------
(***************************************************************************)
(* The key and token routes                                                *)
(***************************************************************************)

Owned(r) == keys[req[r].target].state \in {"active", "revoked"}
            /\ keys[req[r].target].owner = req[r].who

Acting(r, path) == req[r].pc = "act" /\ req[r].path = path

createApiKey(r) ==
    /\ Acting(r, "create")
    /\ \E k \in Keys :
          /\ keys[k].state = "absent"
          /\ keys' = [keys EXCEPT ![k] =
                        [state |-> "active", owner |-> req[r].who, expired |-> FALSE]]
    /\ Respond(r, 200)
    /\ Elsewhere /\ UNCHANGED <<users, tokens, told, faults>>

\* GET of the keys, and of content
ListAnswers(r) ==
    /\ Acting(r, "list") \/ Acting(r, "content")
    /\ Respond(r, 200)
    /\ Elsewhere /\ UNCHANGED <<rows, faults>>

\* Mutant of revokeApiKey: the row is written after the answer, and then not.
revokeApiKeyUnawaited(r) ==
    /\ Acting(r, "revoke")
    /\ told' = IF Owned(r) THEN told \cup {req[r].target} ELSE told
    /\ Respond(r, 200)
    /\ Elsewhere /\ UNCHANGED <<users, keys, tokens, faults>>

\* updateMany and deleteMany change the caller's own row, or none; the
\* answer is the same.
revokeApiKey(r) ==
    /\ Acting(r, "revoke")
    /\ keys' = IF Owned(r) THEN [keys EXCEPT ![req[r].target] = [@ EXCEPT !.state = "revoked"]] ELSE keys
    /\ told' = IF Owned(r) THEN told \cup {req[r].target} ELSE told
    /\ Respond(r, 200)
    /\ Elsewhere /\ UNCHANGED <<users, tokens, faults>>

deleteApiKey(r) ==
    /\ Acting(r, "delete")
    /\ keys' = IF Owned(r) THEN [keys EXCEPT ![req[r].target] = [@ EXCEPT !.state = "gone"]] ELSE keys
    /\ told' = IF Owned(r) THEN told \cup {req[r].target} ELSE told
    /\ Respond(r, 200)
    /\ Elsewhere /\ UNCHANGED <<users, tokens, faults>>

\* POST /token for the address that signed: the user is looked up.
FindUser(r) ==
    /\ req[r].pc = "auth"
    /\ req[r].path = "token"
    /\ LET u == req[r].cred.user IN
          IF u \in users
          THEN tokens' = tokens \cup {u} /\ Respond(r, 200)
          ELSE GoAs(r, "insert", u) /\ UNCHANGED tokens
    /\ Elsewhere /\ UNCHANGED <<users, keys, told, faults>>

\* Mutant of InsertUser: the address is taken to be known by now.
InsertUserRefused(r) ==
    /\ req[r].pc = "insert"
    /\ users' = users \cup {req[r].who}
    /\ Respond(r, 500)
    /\ Elsewhere /\ UNCHANGED <<keys, tokens, told, faults>>

\* The address is unique: the second of two first logins throws.
InsertUser(r) ==
    /\ req[r].pc = "insert"
    /\ IF req[r].who \in users
       THEN Respond(r, 500) /\ UNCHANGED <<users, tokens>>
       ELSE /\ users' = users \cup {req[r].who}
            /\ tokens' = tokens \cup {req[r].who}
            /\ Respond(r, 200)
    /\ Elsewhere /\ UNCHANGED <<keys, told, faults>>

\* A statement of a handler throws.
HandlerFails(r) ==
    /\ \/ req[r].pc \in {"act", "insert"}
       \/ req[r].pc = "auth" /\ req[r].path = "token"
    /\ Fault
    /\ Respond(r, 500)
    /\ Elsewhere /\ UNCHANGED rows

Serve(r) ==
    \/ Hit(r) \/ LimitsPassed(r) \/ requireApiKey(r) \/ verifyApiKey(r) \/ TouchKey(r)
    \/ createApiKey(r) \/ ListAnswers(r) \/ revokeApiKey(r) \/ deleteApiKey(r)
    \/ FindUser(r) \/ InsertUser(r)

\* The bound on requests is reached and all of them are answered.
Done ==
    /\ \A r \in Reqs : req[r].pc \in {"answered", "lost"}
    /\ UNCHANGED vars

Next ==
    \/ \E i \in setup.insts : createApp(i) \/ Restart(i) \/ \E r \in Reqs : Arrive(r, i)
    \/ RedisFails \/ RedisReturns \/ WindowEnds
    \/ \E k \in Keys : KeyExpires(k)
    \/ \E r \in Reqs : Serve(r) \/ HandlerFails(r)
    \/ Done

Spec == Init /\ [][Next]_vars

-----------------------------------------------------------------------------
(***************************************************************************)
(* Properties                                                              *)
(***************************************************************************)

TypeOK ==
    /\ redis \in {"unset", "up", "down"}
    /\ setup \in Setups
    /\ inst \in [setup.insts -> {"connecting", "ready"}]
    /\ mem \in [setup.insts -> [Limiters -> Nat]]
    /\ shared \in Nat
    /\ users \subseteq Users
    /\ keys \in [Keys -> {Absent} \cup KeyRow]
    /\ tokens \subseteq Users
    /\ req \in [Reqs -> {NotYet, Lost} \cup Request \cup Answer]
    /\ told \subseteq Keys
    /\ passed \in Nat /\ windows \in Nat
    /\ resets \in 0 .. MaxResets /\ faults \in 0 .. MaxFaults

Refused(r) == req[r].pc = "answered" /\ req[r].status = 429
Served(r) == req[r].pc = "answered" /\ req[r].status = 200

\* A client that sends one request while no counter holds a hit is not told
\* to slow down, although the request pays for every mount before its own:
\* the dearest one costs nine hits on one Redis counter with limit ten.  It
\* says nothing of a second one, which that counter refuses.
LoneRequestServed == \A r \in Reqs : Refused(r) => ~req[r].alone

\* What the strict limiters let through is at most their limit per counter
\* and window, over all instances, restarts and Redis outages.
CeilingHolds == passed <= Max["strict"] * windows

\* Once its owner has been told that a key is revoked or deleted, no request
\* that comes later is served with it, whatever was under way.
RevokedKeysRefused ==
    \A r \in Reqs : Served(r) /\ req[r].path \in KeyPaths => ~req[r].late

\* A key that is good all the while is not refused, however it is used,
\* listed or touched by others: 401 needs a fault.  (Keys only ever turn bad,
\* so good at the answer is good all the while.)
GoodKeysServed ==
    [][\A r \in Reqs :
          (/\ req[r].pc # "answered" /\ req'[r].pc = "answered"
           /\ req'[r].status = 401 /\ req[r].cred.by = "key")
             => ~InUse(req[r].cred.key) \/ faults' > 0]_vars

\* Of concurrent first logins of an address the database fails all but one;
\* that one gets its token, and nobody fails who logs in after it.
FirstLoginSettles ==
    \A r \in Reqs :
        (req[r].pc = "answered" /\ req[r].path = "token" /\ req[r].status = 500 /\ faults = 0)
          => /\ ~req[r].known
             /\ \E o \in Reqs : Served(o) /\ req[o].path = "token" /\ req[o].user = req[r].user

\* However many mounts, processes and restarts: the first request of a window
\* is let through, the strict limiters let through no more hits than their
\* limit, and first logins that race leave one user with a token.  That ten
\* strict requests a minute are let through is not so: app.ts's mounts make
\* one request cost up to five strict hits, or nine on the Redis counter.
GateInv == TypeOK /\ LoneRequestServed /\ CeilingHolds /\ FirstLoginSettles
=============================================================================
