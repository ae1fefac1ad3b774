-------------------------- MODULE VerificationQueue --------------------------
(***************************************************************************)
(* Asynchronous verification: the route handlers of                        *)
(* scripts/routes/verification-jobs.routes.ts, the service                 *)
(* scripts/services/verification-queue.service.ts with its worker, the     *)
(* VerificationJob rows both of them write, and the BullMQ queue between   *)
(* them (external, modelled from how the service configures it).           *)
(*                                                                         *)
(* Every await is a point where other activity runs, so a handler and a    *)
(* worker execution are split at their awaits.  A submission is one POST   *)
(* of /verify or /proof; an execution is one call of                       *)
(* processVerificationJob, in one of the worker's concurrent slots.        *)
(*                                                                         *)
(* Faults, as many as the scenario allows: a database statement fails; a   *)
(* worker loses its lock on a job it is still executing (stall); the       *)
(* process dies and restarts; Redis loses its keys (the cache service      *)
(* configures the same Redis with allkeys-lru, which may evict BullMQ's).  *)
(***************************************************************************)
EXTENDS Naturals, FiniteSets

CONSTANTS
    Submissions,    \* requests made to the API
    InputOf,        \* submission -> "file" (what the routes send) or "hash" (what a
                    \* caller of queueVerification may send instead)
    CheckOutcomes,  \* what fetching the manifest and the chain entry may do:
                    \* a set of "ok" and "throw"
    RedisModes,     \* a set of "unset" (no REDIS_URL), "up" and "down"
    Slots,          \* the worker's concurrent executions (3 in the code)
    MaxAttempts,    \* MAX_RETRY_ATTEMPTS
    Scenarios       \* bound: the requests that come and the faults that may happen,
                    \* one of which is chosen at the start

ASSUME FiniteAssumption == IsFiniteSet(Submissions) /\ IsFiniteSet(Slots)
ASSUME NoneAssumption == "none" \notin Submissions
ASSUME InputAssumption == InputOf \in [Submissions -> {"file", "hash"}]
ASSUME OutcomeAssumption == CheckOutcomes \subseteq {"ok", "throw"}
ASSUME RedisAssumption == RedisModes \subseteq {"unset", "up", "down"}
ASSUME AttemptsAssumption == MaxAttempts \in Nat \ {0}
ASSUME ScenarioAssumption ==
    Scenarios \subseteq [requests : SUBSET Submissions,
                         kinds : SUBSET {"db", "stall", "crash", "loss"}, faults : Nat]

VARIABLES
    handler,        \* submission -> where its request handler is
    idOf,           \* submission -> BullMQ job id, 0 before queue.add
    file,           \* submission -> its uploaded temp file
    mq,             \* job id -> BullMQ's record of the job
    nextId,         \* BullMQ's job id counter
    redis,          \* what the process finds at its start; fixed from then on
    row,            \* job id -> VerificationJob row
    slot,           \* slot -> execution in it
    verifications,  \* submission -> Verification rows written for it
    scenario,       \* the requests and faults of this behaviour
    faults          \* how many faults have happened

apiVars   == <<handler, idOf, file>>
queueVars == <<mq, nextId, redis, scenario>>
vars == <<apiVars, queueVars, row, slot, verifications, faults>>

Ids == 1 .. Cardinality(Submissions)

NoJob == [state |-> "none"]
Job == [state : {"waiting", "active", "delayed", "completed", "failed"},
        for : Submissions, attemptsMade : 0 .. MaxAttempts, stalled : 0 .. 2]

NoRow == [status |-> "none"]
Row == [for : Submissions, status : {"queued", "processing", "completed", "failed"},
        progress : {0, 10, 100}, retryCount : 0 .. MaxAttempts,
        error : BOOLEAN, hash : {"none"} \cup Submissions, result : {"none"} \cup Submissions]

Idle == [pc |-> "idle"]
Execution == [pc : {"find", "create", "mark", "hash", "note", "check", "persist",
                    "complete", "fail", "resolve", "reject"},
              id : Ids, for : Submissions, attempt : 0 .. MaxAttempts, locked : BOOLEAN]

Init ==
    /\ handler = [s \in Submissions |-> "idle"]
    /\ idOf = [s \in Submissions |-> 0]
    /\ file = [s \in Submissions |-> "none"]
    /\ mq = [i \in Ids |-> NoJob]
    /\ nextId = 1
    /\ redis \in RedisModes
    /\ row = [i \in Ids |-> NoRow]
    /\ slot = [w \in Slots |-> Idle]
    /\ verifications = [s \in Submissions |-> 0]
    /\ scenario \in Scenarios
    /\ faults = 0

Fault(kind) ==
    /\ kind \in scenario.kinds
    /\ faults < scenario.faults
    /\ faults' = faults + 1
DbFault == Fault("db")

-----------------------------------------------------------------------------
(***************************************************************************)
(* The route handlers                                                      *)
(***************************************************************************)

\* REDIS_URL was set; whether Redis answers is not asked.
isAvailable == redis # "unset"

HandlerTo(s, pc) == handler' = [handler EXCEPT ![s] = pc]

\* unlink(path).catch(() => {}): one that fails leaves the file, unnoticed.
Unlink(s) == \E f \in {"deleted", "kept"} :
                file' = [file EXCEPT ![s] = IF @ = "present" THEN f ELSE @]

\* The catch block: unlink the temp file, answer 500.
Refuse(s) ==
    /\ HandlerTo(s, "refused")
    /\ Unlink(s)

\* The handler looks at isAvailable() and takes one of its two branches.  (A
\* caller with a hash gets "queued: false" without a queue and verifies in
\* place as well.)
Branch == IF isAvailable THEN "adding" ELSE "hashing"

\* multer has written the upload to the temp directory before validateBody
\* and validateFile look at the request.  Either may answer 400, and then
\* neither unlinks the file.
Upload(s) ==
    /\ s \in scenario.requests
    /\ handler[s] = "idle"
    /\ file' = [file EXCEPT ![s] = IF InputOf[s] = "file" THEN "present" ELSE @]
    /\ \/ InputOf[s] = "file" /\ HandlerTo(s, "rejected")
       \/ HandlerTo(s, Branch)
    /\ UNCHANGED <<idOf, queueVars, row, slot, verifications, faults>>

\* Mutant of AddJob: the upload goes in a finally block, as it does when the
\* request is verified in place.
AddJobUnlinking(s) ==
    /\ handler[s] = "adding"
    /\ redis = "up"
    /\ mq' = [mq EXCEPT ![nextId] = [state |-> "waiting", for |-> s,
                                     attemptsMade |-> 0, stalled |-> 0]]
    /\ idOf' = [idOf EXCEPT ![s] = nextId]
    /\ nextId' = nextId + 1
    /\ HandlerTo(s, "recording")
    /\ Unlink(s)
    /\ UNCHANGED <<redis, scenario, row, slot, verifications, faults>>

\* queueVerification: queue.add.  From here on a worker may run the job.  The
\* connection has maxRetriesPerRequest null, so without Redis the call waits.
AddJob(s) ==
    /\ handler[s] = "adding"
    /\ redis = "up"
    /\ mq' = [mq EXCEPT ![nextId] = [state |-> "waiting", for |-> s,
                                     attemptsMade |-> 0, stalled |-> 0]]
    /\ idOf' = [idOf EXCEPT ![s] = nextId]
    /\ nextId' = nextId + 1
    /\ HandlerTo(s, "recording")
    /\ UNCHANGED <<redis, scenario, file, row, slot, verifications, faults>>

\* Mutant of CreateRow: an upsert, so that the worker's row is no obstacle.
CreateRowUpsert(s) ==
    /\ handler[s] = "recording"
    /\ row' = [row EXCEPT ![idOf[s]] =
                  [for |-> s, status |-> "queued", progress |-> 0, retryCount |-> 0,
                   error |-> FALSE, hash |-> "none", result |-> "none"]]
    /\ HandlerTo(s, "accepted")
    /\ UNCHANGED <<idOf, file, queueVars, slot, verifications, faults>>

\* queueVerification: create the row.  jobId is unique, so this throws when
\* a row with the job's id exists, and the route's catch block answers.
CreateRow(s) ==
    /\ handler[s] = "recording"
    /\ row[idOf[s]] = NoRow
    /\ row' = [row EXCEPT ![idOf[s]] =
                  [for |-> s, status |-> "queued", progress |-> 0, retryCount |-> 0,
                   error |-> FALSE, hash |-> "none", result |-> "none"]]
    /\ HandlerTo(s, "accepted")
    /\ UNCHANGED <<idOf, file, queueVars, slot, verifications, faults>>

\* Mutant of CreateRowFails: the row is best effort.
CreateRowOptional(s) ==
    /\ handler[s] = "recording"
    /\ \/ row[idOf[s]] # NoRow /\ UNCHANGED faults
       \/ DbFault
    /\ HandlerTo(s, "accepted")
    /\ UNCHANGED <<idOf, file, queueVars, row, slot, verifications>>

CreateRowFails(s) ==
    /\ handler[s] = "recording"
    /\ \/ row[idOf[s]] # NoRow /\ UNCHANGED faults
       \/ DbFault
    /\ Refuse(s)
    /\ UNCHANGED <<idOf, queueVars, row, slot, verifications>>

\* Without a queue the request verifies synchronously.  The temp file goes
\* as soon as it is hashed, in a finally block.
SyncHash(s) ==
    /\ handler[s] = "hashing"
    /\ Unlink(s)
    /\ HandlerTo(s, "checking")
    /\ UNCHANGED <<idOf, queueVars, row, slot, verifications, faults>>

SyncCheck(s) ==
    /\ handler[s] = "checking"
    /\ \/ "ok" \in CheckOutcomes /\ HandlerTo(s, "persisting") /\ UNCHANGED file
       \/ "throw" \in CheckOutcomes /\ Refuse(s)
    /\ UNCHANGED <<idOf, queueVars, row, slot, verifications, faults>>

\* The verification record is best effort; the reply carries the result.
SyncPersist(s) ==
    /\ handler[s] = "persisting"
    /\ \/ verifications' = [verifications EXCEPT ![s] = @ + 1] /\ UNCHANGED faults
       \/ DbFault /\ UNCHANGED verifications
    /\ HandlerTo(s, "answered")
    /\ UNCHANGED <<idOf, file, queueVars, row, slot>>

Handler(s) ==
    \/ Upload(s) \/ AddJob(s) \/ CreateRow(s) \/ CreateRowFails(s)
    \/ SyncHash(s) \/ SyncCheck(s) \/ SyncPersist(s)

-----------------------------------------------------------------------------
(***************************************************************************)
(* processVerificationJob, in slot w                                       *)
(***************************************************************************)

At(w, pc) == slot[w].pc = pc
Goto(w, pc) == slot' = [slot EXCEPT ![w].pc = pc]

\* The steps between the row's updates begin with job.updateProgress, which
\* throws when Redis no longer has the job.
GotoReporting(w, pc) == Goto(w, IF mq[slot[w].id] = NoJob THEN "fail" ELSE pc)

\* The worker fetches a waiting job and calls the processor.
Take(w, i) ==
    /\ At(w, "idle")
    /\ mq[i].state = "waiting"
    /\ mq' = [mq EXCEPT ![i].state = "active"]
    /\ slot' = [slot EXCEPT ![w] =
                  [pc |-> "find", id |-> i, for |-> mq[i].for,
                   attempt |-> mq[i].attemptsMade, locked |-> TRUE]]
    /\ UNCHANGED <<apiVars, nextId, redis, scenario, row, verifications, faults>>

\* findUnique by job id; what follows depends on what it saw.
FindRow(w) ==
    /\ At(w, "find")
    /\ \/ Goto(w, IF row[slot[w].id] = NoRow THEN "create" ELSE "mark") /\ UNCHANGED faults
       \/ Goto(w, "reject") /\ DbFault
    /\ UNCHANGED <<apiVars, queueVars, row, verifications>>

\* create, outside the try block: an exception rejects the attempt and
\* leaves the row, if the API made it meanwhile, as it is.
CreateProcessing(w) ==
    LET e == slot[w] IN
    /\ At(w, "create")
    /\ \/ /\ row[e.id] = NoRow
          /\ row' = [row EXCEPT ![e.id] =
                        [for |-> e.for, status |-> "processing", progress |-> 0,
                         retryCount |-> e.attempt, error |-> FALSE,
                         hash |-> "none", result |-> "none"]]
          /\ Goto(w, "hash")
          /\ UNCHANGED faults
       \/ /\ row[e.id] # NoRow
          /\ Goto(w, "reject")
          /\ UNCHANGED <<row, faults>>
       \/ DbFault /\ Goto(w, "reject") /\ UNCHANGED row
    /\ UNCHANGED <<apiVars, queueVars, verifications>>

\* update to "processing", also outside the try block
MarkProcessing(w) ==
    LET e == slot[w] IN
    /\ At(w, "mark")
    /\ \/ /\ row' = [row EXCEPT ![e.id].status = "processing", ![e.id].retryCount = e.attempt]
          /\ Goto(w, "hash")
          /\ UNCHANGED faults
       \/ DbFault /\ Goto(w, "reject") /\ UNCHANGED row
    /\ UNCHANGED <<apiVars, queueVars, verifications>>

\* The content hash comes with the job or is computed from the file, and
\* sha256HexFromFile calls a createHash the module imports from "fs", which
\* exports none: every job that carries a file throws here.
HashInput(w) ==
    /\ At(w, "hash")
    /\ GotoReporting(w, IF InputOf[slot[w].for] = "hash" THEN "note" ELSE "fail")
    /\ UNCHANGED <<apiVars, queueVars, row, verifications, faults>>

\* The content hash goes into whichever row has the job's id.
NoteHash(w) ==
    LET e == slot[w] IN
    /\ At(w, "note")
    /\ \/ /\ row' = [row EXCEPT ![e.id].progress = 10, ![e.id].hash = e.for]
          /\ Goto(w, "check")
          /\ UNCHANGED faults
       \/ DbFault /\ Goto(w, "fail") /\ UNCHANGED row
    /\ UNCHANGED <<apiVars, queueVars, verifications>>

\* Mutant of CheckContent: the verification is recorded before the checks.
CheckContentRecording(w) ==
    /\ At(w, "check")
    /\ \E o \in CheckOutcomes : Goto(w, IF o = "ok" THEN "persist" ELSE "fail")
    /\ verifications' = [verifications EXCEPT ![slot[w].for] = @ + 1]
    /\ UNCHANGED <<apiVars, queueVars, row, faults>>

\* Fetch the manifest, recover the signer, read the registry entry and, for
\* a proof, the registration's log.
CheckContent(w) ==
    /\ At(w, "check")
    /\ \E o \in CheckOutcomes : GotoReporting(w, IF o = "ok" THEN "persist" ELSE "fail")
    /\ UNCHANGED <<apiVars, queueVars, row, verifications, faults>>

\* The Verification row, best effort: a failing insert is logged only.
PersistVerification(w) ==
    /\ At(w, "persist")
    /\ GotoReporting(w, "complete")
    /\ \/ /\ mq[slot[w].id] # NoJob
          /\ verifications' = [verifications EXCEPT ![slot[w].for] = @ + 1]
          /\ UNCHANGED faults
       \/ mq[slot[w].id] = NoJob /\ UNCHANGED <<verifications, faults>>
       \/ DbFault /\ UNCHANGED verifications
    /\ UNCHANGED <<apiVars, queueVars, row>>

\* Mutant of CompleteRow: the result is not stored with the status.
CompleteRowBare(w) ==
    LET e == slot[w] IN
    /\ At(w, "complete")
    /\ row' = [row EXCEPT ![e.id].status = "completed"]
    /\ Goto(w, "resolve")
    /\ UNCHANGED <<apiVars, queueVars, verifications, faults>>

CompleteRow(w) ==
    LET e == slot[w] IN
    /\ At(w, "complete")
    /\ \/ /\ mq[e.id] # NoJob
          /\ row' = [row EXCEPT ![e.id].status = "completed",
                                ![e.id].progress = 100,
                                ![e.id].result = e.for]
          /\ Goto(w, "resolve")
          /\ UNCHANGED faults
       \/ mq[e.id] = NoJob /\ Goto(w, "fail") /\ UNCHANGED <<row, faults>>
       \/ DbFault /\ Goto(w, "fail") /\ UNCHANGED row
    /\ UNCHANGED <<apiVars, queueVars, verifications>>

\* Mutant of FailRow: the catch block rethrows without touching the row.
FailRowSilently(w) ==
    /\ At(w, "fail")
    /\ Goto(w, "reject")
    /\ UNCHANGED <<apiVars, queueVars, row, verifications, faults>>

\* The catch block, on every failed attempt: status "failed", then rethrow.
FailRow(w) ==
    LET e == slot[w] IN
    /\ At(w, "fail")
    /\ Goto(w, "reject")
    /\ \/ /\ row' = [row EXCEPT ![e.id].status = "failed", ![e.id].error = TRUE,
                                ![e.id].retryCount = e.attempt]
          /\ UNCHANGED faults
       \/ DbFault /\ UNCHANGED row
    /\ UNCHANGED <<apiVars, queueVars, verifications>>

-----------------------------------------------------------------------------
(***************************************************************************)
(* BullMQ                                                                  *)
(***************************************************************************)

\* The processor resolved.  Only the holder of the job's lock can settle it.
Resolve(w) ==
    LET e == slot[w] IN
    /\ At(w, "resolve")
    /\ slot' = [slot EXCEPT ![w] = Idle]
    /\ mq' = IF e.locked
               THEN [mq EXCEPT ![e.id].state = "completed", ![e.id].attemptsMade = @ + 1]
               ELSE mq
    /\ UNCHANGED <<apiVars, nextId, redis, scenario, row, verifications, faults>>

\* Mutant of Reject: the job is retried without counting the attempt.
RejectUncounted(w) ==
    LET e == slot[w] IN
    /\ At(w, "reject")
    /\ slot' = [slot EXCEPT ![w] = Idle]
    /\ mq' = IF e.locked THEN [mq EXCEPT ![e.id].state = "delayed"] ELSE mq
    /\ UNCHANGED <<apiVars, nextId, redis, scenario, row, verifications, faults>>

\* The processor threw: retry after a backoff, or give up.
Reject(w) ==
    LET e == slot[w] IN
    /\ At(w, "reject")
    /\ slot' = [slot EXCEPT ![w] = Idle]
    /\ mq' = IF e.locked
               THEN [mq EXCEPT
                      ![e.id].state = IF e.attempt + 1 < MaxAttempts THEN "delayed" ELSE "failed",
                      ![e.id].attemptsMade = @ + 1]
               ELSE mq
    /\ UNCHANGED <<apiVars, nextId, redis, scenario, row, verifications, faults>>

\* The backoff of a retry is over.
Promote(i) ==
    /\ mq[i].state = "delayed"
    /\ mq' = [mq EXCEPT ![i].state = "waiting"]
    /\ UNCHANGED <<apiVars, nextId, redis, scenario, row, slot, verifications, faults>>

Holders(i) == {w \in Slots : slot[w] # Idle /\ slot[w].id = i /\ slot[w].locked}

\* The stalled check puts an active job with no live lock back; a job that
\* stalls more than maxStalledCount (1) times is failed by BullMQ itself.
Requeue(i) ==
    mq' = [mq EXCEPT ![i].state = IF mq[i].stalled < 1 THEN "waiting" ELSE "failed",
                     ![i].stalled = @ + 1]

Recover(i) ==
    /\ mq[i].state = "active"
    /\ Holders(i) = {}
    /\ Requeue(i)
    /\ UNCHANGED <<apiVars, nextId, redis, scenario, row, slot, verifications, faults>>

\* A live execution loses its lock (its event loop was busy for longer than
\* the lock lasts) and goes on, unaware of it.
Stall(i) ==
    /\ Fault("stall")
    /\ mq[i].state = "active"
    /\ \E w \in Holders(i) : slot' = [slot EXCEPT ![w].locked = FALSE]
    /\ Requeue(i)
    /\ UNCHANGED <<apiVars, nextId, redis, scenario, row, verifications>>

\* The API process, which also hosts the worker, dies and restarts: requests
\* and executions are gone, rows, files and the queue stay.
Crash ==
    /\ Fault("crash")
    /\ slot' = [w \in Slots |-> Idle]
    /\ handler' = [s \in Submissions |->
                      IF handler[s] \in {"idle", "rejected", "accepted", "refused", "answered"}
                        THEN handler[s] ELSE "lost"]
    /\ UNCHANGED <<idOf, file, queueVars, row, verifications>>

\* Redis loses the queue, and with it the counter job ids come from and the
\* locks of the executions under way.
LoseQueue ==
    /\ Fault("loss")
    /\ mq' = [i \in Ids |-> NoJob]
    /\ nextId' = 1
    /\ slot' = [w \in Slots |-> IF slot[w] = Idle THEN Idle
                               ELSE [slot[w] EXCEPT !.locked = FALSE]]
    /\ UNCHANGED <<apiVars, redis, scenario, row, verifications>>

Execute(w) ==
    \/ \E i \in Ids : Take(w, i)
    \/ FindRow(w) \/ CreateProcessing(w) \/ MarkProcessing(w) \/ HashInput(w)
    \/ NoteHash(w) \/ CheckContent(w) \/ PersistVerification(w) \/ CompleteRow(w)
    \/ FailRow(w) \/ Resolve(w) \/ Reject(w)

Settled(i) == mq[i].state \in {"none", "completed", "failed"}

\* The request has had its answer, or its connection was lost.
Answered(s) == handler[s] \in {"rejected", "accepted", "refused", "answered", "lost"}

\* Nothing is left to do: every job is settled, and every request answered
\* that does not wait for a Redis that is away.
Quiescent ==
    /\ \A s \in scenario.requests : Answered(s) \/ (handler[s] = "adding" /\ redis = "down")
    /\ \A i \in Ids : Settled(i)
    /\ \A w \in Slots : slot[w] = Idle

Finished == Quiescent /\ UNCHANGED vars

Next ==
    \/ \E s \in Submissions : Handler(s)
    \/ \E w \in Slots : Execute(w)
    \/ \E i \in Ids : Promote(i) \/ Recover(i) \/ Stall(i)
    \/ Crash
    \/ LoseQueue
    \/ Finished

\* Node's event loop and the database driver complete every await, BullMQ
\* promotes delayed jobs, checks for stalled ones and hands waiting jobs to
\* idle slots.  No fairness on uploads or on faults.
Fairness ==
    /\ \A s \in Submissions : WF_vars(Handler(s) /\ handler[s] # "idle")
    /\ \A w \in Slots : WF_vars(Execute(w))
    /\ \A i \in Ids : WF_vars(Promote(i)) /\ WF_vars(Recover(i))

Spec == Init /\ [][Next]_vars /\ Fairness

-----------------------------------------------------------------------------
(***************************************************************************)
(* Properties                                                              *)
(***************************************************************************)

TypeOK ==
    /\ handler \in [Submissions -> {"idle", "adding", "recording", "hashing", "checking",
                                    "persisting", "rejected", "accepted", "refused", "answered", "lost"}]
    /\ idOf \in [Submissions -> {0} \cup Ids]
    /\ file \in [Submissions -> {"none", "present", "deleted", "kept"}]
    /\ mq \in [Ids -> Job \cup {NoJob}]
    /\ redis \in RedisModes
    /\ nextId \in 1 .. Cardinality(Submissions) + 1
    /\ row \in [Ids -> Row \cup {NoRow}]
    /\ slot \in [Slots -> Execution \cup {Idle}]
    /\ verifications \in [Submissions -> Nat]
    /\ scenario \in Scenarios

Executing(i) == \E w \in Slots : slot[w] # Idle /\ slot[w].id = i

\* As long as nothing went wrong: when BullMQ is done with a job and no
\* execution of it is left, the row tells the same outcome.  A completed job's
\* row is completed and holds its own result, a failed job's row is failed with
\* an error and the number of its last attempt.  The row is written by two
\* parties in separate steps.
RowTellsOutcome ==
    \A i \in Ids : faults = 0 /\ ~Executing(i) =>
        /\ mq[i].state = "completed" =>
              /\ row[i].status = "completed"
              /\ row[i].progress = 100
              /\ row[i].result = mq[i].for
        /\ mq[i].state = "failed" =>
              /\ row[i].status = "failed"
              /\ row[i].error
              /\ row[i].retryCount = mq[i].attemptsMade - 1

\* However requests, workers, retries and faults interleave, a submission is
\* recorded in Verification at most once more than there were faults: retries
\* alone never record a verification twice.
DuplicatesNeedFaults ==
    \A s \in Submissions : verifications[s] <= 1 + faults

\* Job ids start again when Redis loses its keys, while the rows stay.  Even
\* so, no two requests that were answered 200 poll the same row; the row of
\* each is about it; and a hash or a result in it that is another request's
\* comes from one that was given the same id and was not answered 200.
PollsOwnRow ==
    \A s \in Submissions : handler[s] = "accepted" =>
        /\ row[idOf[s]] # NoRow
        /\ row[idOf[s]].for = s
        /\ \A t \in Submissions \ {s} : handler[t] = "accepted" =>
              /\ idOf[t] # idOf[s]
              /\ t \notin {row[idOf[s]].hash, row[idOf[s]].result}

\* A queued job's upload is removed only by its own request, and only when
\* that request was refused after all; and a request that was refused, or
\* verified in place, has tried to remove its upload.  (A request that
\* validation rejects never does, and nobody removes an accepted job's.)
UploadsFollowAnswers ==
    \A s \in Submissions :
        /\ idOf[s] # 0 /\ file[s] \in {"deleted", "kept"} => handler[s] = "refused"
        /\ handler[s] \in {"refused", "answered"} => file[s] # "present"

\* A completed row is never taken back, as long as nothing goes wrong.
CompletedIsFinal ==
    [][faults' = 0 => \A i \in Ids : row[i].status = "completed" => row'[i] = row[i]]_vars

\* A job that was queued is eventually settled, and no execution of it is
\* left behind.
JobsSettle ==
    \A i \in Ids : mq[i].state = "waiting" ~> (Settled(i) /\ ~Executing(i))

\* "If Redis is unavailable, the API automatically falls back to synchronous
\* processing" (docs/VERIFICATION_QUEUE.md:375): no request waits for ever.
RequestsAnswered ==
    \A s \in Submissions : handler[s] = "adding" ~> Answered(s)

\* An accepted request's row eventually shows a final outcome for good,
\* unless something goes wrong.
AcceptedEndsTerminal ==
    \A s \in Submissions, i \in Ids : (handler[s] = "accepted" /\ idOf[s] = i) ~>
        (faults > 0 \/ [](row[i].status \in {"completed", "failed"}))

\* A job's row tells its outcome once everything is at rest.
QueueInv == TypeOK /\ RowTellsOutcome
=============================================================================
