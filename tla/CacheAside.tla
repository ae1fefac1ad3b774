----------------------------- MODULE CacheAside -----------------------------
(***************************************************************************)
(* The cache of scripts/services/cache.service.ts with the routes that     *)
(* read through it and the ones that write what it holds.                  *)
(*                                                                         *)
(* Keys do not influence each other, so a behaviour is about one key, any  *)
(* of Keys, chosen initially.  What the key caches is a row, a list or a   *)
(* contract entry; all that matters of it is how often it has changed, so  *)
(* the source is a version number and a cached value the version it shows. *)
(* Version 0 is "absent".                                                  *)
(*                                                                         *)
(* A writer is a route handler or a worker.  It runs its steps in order,   *)
(* each an await: a change of the database or of the contract, or a DEL.   *)
(* A reader is one request.  Between its read of the source and its SETEX  *)
(* anything may happen, but no more than Lag ticks pass: the only          *)
(* assumption about time.  A call that fails costs one of MaxFaults, and   *)
(* so does a loss of the connection to Redis.                              *)
(***************************************************************************)
EXTENDS Naturals, Sequences

CONSTANTS
    Keys,       \* kinds of cache keys to consider, see AllKeys
    Readers,
    Writers,
    Kinds,      \* kinds of writers to consider, see AllKinds
    TTL,        \* ticks a value stays in Redis
    Lag,        \* bound: ticks between reading the source and SETEX
    MaxFaults   \* bound: failing calls

\* contentDetail is content:hash:{hash} (and contents:{...}, which is written
\* alike), entry is entry:{hash}, badge is badge:status:{hash} and badge:svg.
AllKeys == {"contentDetail", "verifications", "binding", "entry", "badge"}

AllKinds == {"register", "bind", "verify", "worker", "outside"}

ASSUME KeysAssumption == Keys \subseteq AllKeys /\ Kinds \subseteq AllKinds
ASSUME TimeAssumption == TTL \in Nat \ {0} /\ Lag \in Nat /\ MaxFaults \in Nat

VARIABLES
    key,        \* the key this behaviour is about
    source,     \* version of what it caches
    cached,     \* what Redis holds under it
    reader,     \* reader -> its request
    writer,     \* writer -> its kind and the number of steps it has taken
    redis,      \* the connection: "off", "up", "away" or "gone"
    faults      \* failed calls so far

vars == <<key, source, cached, reader, writer, redis, faults>>

-----------------------------------------------------------------------------
(***************************************************************************)
(* What the writers do, in order                                           *)
(***************************************************************************)

Change(keys) == [op |-> "change", keys |-> keys]
Delete(keys) == [op |-> "delete", keys |-> keys]

\* upsertContent: the content row, then DEL content:{hash}, a key that
\* no route fills.
UpsertContent == <<Change({"contentDetail", "badge"}), Delete({})>>

\* upsertPlatformBinding: the binding row, which the content's rows include,
\* then DEL of the binding's key.
UpsertPlatformBinding == <<Change({"contentDetail", "badge"}), Delete({"binding"})>>

\* The registration is mined, then the rows are written.
RegisterRoute == <<Change({"entry"})>> \o UpsertContent

\* Mutant of BindRoute: the rows are written ahead of the transaction.
BindRouteOptimistic == UpsertPlatformBinding \o <<Change({"binding"})>>

\* The binding is mined, then the rows are written.
BindRoute == <<Change({"binding"})>> \o UpsertPlatformBinding

\* A verification that a route records, and one that the worker records.
VerifyRoute == <<Change({"verifications"}), Delete({"verifications"})>>
WorkerRecord == <<Change({"verifications"})>>

\* A transaction sent without the API: a script, another client, a revocation.
OutsideTransaction == <<Change({"binding", "entry"})>>

Steps(kind) ==
    CASE kind = "register" -> RegisterRoute
      [] kind = "bind"     -> BindRoute
      [] kind = "verify"   -> VerifyRoute
      [] kind = "worker"   -> WorkerRecord
      [] kind = "outside"  -> OutsideTransaction

Deletes(kind) == \E n \in DOMAIN Steps(kind) :
                    Steps(kind)[n].op = "delete" /\ key \in Steps(kind)[n].keys

-----------------------------------------------------------------------------

Nothing == [version |-> "nothing"]
Entry == [version : Nat, left : 1 .. TTL, age : Nat,
          late : BOOLEAN,     \* already superseded when it was stored
          missed : BOOLEAN]   \* a change since then was not followed by a DEL

Idle == [pc |-> "idle"]
Asking == [pc |-> "ask"]
Fetching == [pc |-> "fetch"]
Filling == [pc : {"store"}, version : Nat, age : 0 .. Lag]

Init ==
    /\ key \in Keys
    /\ source \in {0, 1}
    /\ cached = Nothing
    /\ reader = [r \in Readers |-> Idle]
    /\ writer \in [Writers -> {[kind |-> k, done |-> 0] : k \in Kinds}]
    /\ redis \in {"off", "up"}
    /\ faults = 0

Fault == faults < MaxFaults /\ faults' = faults + 1

\* A call of set() or delete() that comes to nothing: the cache is off, or
\* the client has given up and rejects it, or it fails just now.
Lost == IF redis \in {"off", "gone"} THEN UNCHANGED faults ELSE Fault

\* The entry, if there is one, outlives a change it does not show.
Missed == IF cached = Nothing THEN cached ELSE [cached EXCEPT !.missed = TRUE]

-----------------------------------------------------------------------------
(***************************************************************************)
(* Writers                                                                 *)
(***************************************************************************)

Pending(w) == writer[w].done < Len(Steps(writer[w].kind))
NextStep(w) == Steps(writer[w].kind)[writer[w].done + 1]
Changed(w) == \E n \in 1 .. writer[w].done :
                 Steps(writer[w].kind)[n].op = "change" /\ key \in Steps(writer[w].kind)[n].keys
Advance(w) == writer' = [writer EXCEPT ![w].done = @ + 1]

\* A commit of the database or of the chain.
CommitChange(w) ==
    /\ Pending(w)
    /\ NextStep(w).op = "change"
    /\ Advance(w)
    /\ IF key \in NextStep(w).keys
         THEN /\ source' = source + 1
              /\ cached' = IF Deletes(writer[w].kind) THEN cached ELSE Missed
         ELSE UNCHANGED <<source, cached>>
    /\ UNCHANGED <<key, reader, redis, faults>>

\* The change fails: the handler goes to its catch block, past its DEL.
ChangeFails(w) ==
    /\ Pending(w)
    /\ NextStep(w).op = "change"
    /\ Fault
    /\ writer' = [writer EXCEPT ![w].done = Len(Steps(writer[w].kind))]
    /\ cached' = IF Changed(w) THEN Missed ELSE cached
    /\ UNCHANGED <<key, source, reader, redis>>

CommitDelete(w) ==
    /\ Pending(w)
    /\ NextStep(w).op = "delete"
    /\ redis = "up"
    /\ Advance(w)
    /\ cached' = IF key \in NextStep(w).keys THEN Nothing ELSE cached
    /\ UNCHANGED <<key, source, reader, redis, faults>>

\* delete() catches the error and returns false, which nobody looks at.
DeleteFails(w) ==
    /\ Pending(w)
    /\ NextStep(w).op = "delete"
    /\ Lost
    /\ Advance(w)
    /\ cached' = IF key \in NextStep(w).keys THEN Missed ELSE cached
    /\ UNCHANGED <<key, source, reader, redis>>

Writer(w) == CommitChange(w) \/ ChangeFails(w) \/ CommitDelete(w) \/ DeleteFails(w)

-----------------------------------------------------------------------------
(***************************************************************************)
(* Readers: getOrSet, and its like in the badge routes                     *)
(***************************************************************************)

To(r, request) == reader' = [reader EXCEPT ![r] = request]

\* What get() answers with.  A cached null, an absent row, counts as a miss.
Hit == cached # Nothing /\ ~(key = "contentDetail" /\ cached.version = 0)

\* A request that comes while the client reconnects has its command queued.
Request(r) ==
    /\ reader[r] = Idle /\ redis = "away"
    /\ To(r, Asking)
    /\ UNCHANGED <<key, source, cached, writer, redis, faults>>

\* Mutant of Get: a hit renews the TTL.
GetRenewing(r) ==
    /\ reader[r] \in {Idle, Asking} /\ redis # "away"
    /\ IF redis = "up" /\ Hit
       THEN To(r, Idle) /\ cached' = [cached EXCEPT !.left = TTL]
       ELSE To(r, Fetching) /\ UNCHANGED cached
    /\ UNCHANGED <<key, source, writer, redis, faults>>

\* Mutant of Get: a hit is written back, to keep it in the cache.
GetWritingBack(r) ==
    /\ reader[r] \in {Idle, Asking} /\ redis # "away"
    /\ To(r, IF redis = "up" /\ Hit
             THEN [pc |-> "store", version |-> cached.version, age |-> 0] ELSE Fetching)
    /\ UNCHANGED <<key, source, cached, writer, redis, faults>>

\* A hit answers the request.  Without a connection every key is a miss.
Get(r) ==
    /\ reader[r] \in {Idle, Asking} /\ redis # "away"
    /\ To(r, IF redis = "up" /\ Hit THEN Idle ELSE Fetching)
    /\ UNCHANGED <<key, source, cached, writer, redis, faults>>

\* get() catches the error and answers null, as for a miss.
GetFails(r) ==
    /\ reader[r] \in {Idle, Asking} /\ redis \in {"up", "away"}
    /\ Fault
    /\ To(r, Fetching)
    /\ UNCHANGED <<key, source, cached, writer, redis>>

\* /v1/verify/hash decodes entries as four outputs that the contract does not
\* have; the zeros of an absent entry happen to fit, a registered one's throw.
Decodes == key = "entry" => source = 0

\* fetchFn: the row or the contract as it is now.
Fetch(r) ==
    /\ reader[r] = Fetching
    /\ To(r, IF Decodes THEN [pc |-> "store", version |-> source, age |-> 0] ELSE Idle)
    /\ UNCHANGED <<key, source, cached, writer, redis, faults>>

\* fetchFn throws and the request fails, but a badge takes the content for
\* unregistered and goes on.
FetchFails(r) ==
    /\ reader[r] = Fetching
    /\ Fault
    /\ To(r, IF key = "badge" THEN [pc |-> "store", version |-> 0, age |-> 0] ELSE Idle)
    /\ UNCHANGED <<key, source, cached, writer, redis>>

\* SETEX.  getOrSet has answered already and does not wait for it.
Store(r) ==
    /\ reader[r].pc = "store" /\ redis = "up"
    /\ cached' = [version |-> reader[r].version, left |-> TTL, age |-> reader[r].age,
                  late |-> reader[r].version # source, missed |-> FALSE]
    /\ To(r, Idle)
    /\ UNCHANGED <<key, source, writer, redis, faults>>

StoreFails(r) ==
    /\ reader[r].pc = "store"
    /\ Lost
    /\ To(r, Idle)
    /\ UNCHANGED <<key, source, cached, writer, redis>>

Fill(r) == Store(r) \/ StoreFails(r)

Reader(r) == Request(r) \/ Get(r) \/ GetFails(r) \/ Fetch(r) \/ FetchFails(r) \/ Fill(r)

-----------------------------------------------------------------------------
(***************************************************************************)
(* Redis and the clock                                                     *)
(***************************************************************************)

\* allkeys-lru: memory is short and the key has not been used for long.
Evict ==
    /\ cached # Nothing
    /\ cached' = Nothing
    /\ UNCHANGED <<key, source, reader, writer, redis, faults>>

Older(request) == IF request.pc = "store" THEN [request EXCEPT !.age = @ + 1] ELSE request

Tick ==
    /\ \A r \in Readers : reader[r].pc = "store" => reader[r].age < Lag
    /\ reader' = [r \in Readers |-> Older(reader[r])]
    /\ cached' = IF cached = Nothing \/ cached.left = 1 THEN Nothing
                 ELSE [cached EXCEPT !.left = @ - 1, !.age = @ + 1]
    /\ UNCHANGED <<key, source, writer, redis, faults>>

Disconnect ==
    /\ redis = "up" /\ redis' = "away"
    /\ Fault
    /\ UNCHANGED <<key, source, cached, reader, writer>>

\* Mutant of reconnectStrategy: it is tried again for as long as it fails.
reconnectStrategyEndless == redis = "away" /\ UNCHANGED vars

\* After three attempts the client is closed for good, which isConnected does
\* not show: the commands in its queue and all later ones are rejected.
reconnectStrategy ==
    /\ redis = "away" /\ redis' \in {"up", "gone"}
    /\ UNCHANGED <<key, source, cached, reader, writer, faults>>

\* Only a restart of the API connects again, or fails to, within its three
\* seconds.  It cuts off what is under way.
Restart ==
    /\ redis = "gone" /\ redis' \in {"up", "off"}
    /\ reader' = [r \in Readers |-> Idle]
    /\ writer' = [w \in Writers |-> IF writer[w].done = 0 THEN writer[w]
                                    ELSE [writer[w] EXCEPT !.done = Len(Steps(writer[w].kind))]]
    /\ cached' = IF \E w \in Writers : Pending(w) /\ Changed(w) THEN Missed ELSE cached
    /\ UNCHANGED <<key, source, faults>>

Next ==
    \/ \E w \in Writers : Writer(w)
    \/ \E r \in Readers : Reader(r)
    \/ Evict
    \/ Tick
    \/ Disconnect \/ reconnectStrategy \/ Restart

\* Time passes, calls return, and the client's attempts to reconnect end.
\* Requests come when they like, and a writer may stop anywhere.
Fairness ==
    /\ WF_vars(Tick)
    /\ WF_vars(reconnectStrategy)
    /\ \A r \in Readers : /\ WF_vars(reader[r] = Asking /\ Get(r))
                        /\ WF_vars(Fetch(r))
                        /\ WF_vars(Fill(r))

Spec == Init /\ [][Next]_vars /\ Fairness

-----------------------------------------------------------------------------
(***************************************************************************)
(* Properties                                                              *)
(***************************************************************************)

TypeOK ==
    /\ key \in Keys
    /\ source \in Nat
    /\ cached \in Entry \cup {Nothing}
    /\ reader \in [Readers -> {Idle, Asking, Fetching} \cup Filling]
    /\ writer \in [Writers -> [kind : Kinds, done : Nat]]
    /\ redis \in {"off", "up", "away", "gone"}
    /\ faults \in 0 .. MaxFaults

Stale == cached # Nothing /\ cached.version # source

\* What the cache answers was read from the source no more than TTL + Lag
\* ticks ago, however fills, invalidations and failures interleave.
BoundedStaleness == cached # Nothing => cached.age <= TTL - cached.left + Lag

\* A stale entry always has a cause that can be named: a writer that changed
\* the source has yet to reach its DEL; the change's writer sends no DEL for
\* this key, failed before it, or its DEL failed; or the entry was already
\* superseded, or wrong, when it was stored, because its fill raced a writer.
StaleNeedsCause ==
    Stale => \/ cached.late
             \/ cached.missed
             \/ \E w \in Writers : Pending(w) /\ Changed(w) /\ Deletes(writer[w].kind)

\* However it came about, a stale entry does not last: the writers of a
\* behaviour are finitely many, and in the end the key is absent or fresh.
Converges == <>[]~Stale

\* A request for something cached ends whatever happens to Redis: that it
\* goes away does not keep requests waiting, with or without the cache.
RequestsEnd == \A r \in Readers : reader[r] # Idle ~> reader[r] = Idle
=============================================================================
