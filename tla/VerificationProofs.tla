-------------------------- MODULE VerificationProofs --------------------------
(*****************************************************************************)
(* Theorems about the verification queue, for any submissions, slots, number *)
(* of attempts and faults.                                                   *)
(*****************************************************************************)
EXTENDS VerificationQueue, FiniteSetTheorems, TLAPS

-------------------------------------------------------------------------------
(*****************************************************************************)
(* The invariant IInv ties the three records of one job together: the        *)
(* request that queued it, BullMQ's entry and the execution that holds its   *)
(* lock.  The two sections after this one build on it.                       *)
(*****************************************************************************)

\* Steps of an execution.
PCs == {"find", "create", "mark", "hash", "note", "check", "persist",
        "complete", "fail", "resolve", "reject"}

\* Steps taken only once the job's row has been seen or made.
AfterRow == {"mark", "hash", "note", "check", "persist", "complete", "fail"}

\* Steps from which an execution may still record the verification.
Recording == {"find", "create", "mark", "hash", "note", "check", "persist"}

\* Steps of a request that has not been queued.
Early == {"idle", "adding", "hashing", "checking", "persisting"}

\* Job i has a row.
RowOf(i) == row[i].status # "none"

\* A live job: BullMQ may still start an execution of it, or has.
Live(i) == mq[i].state \in {"waiting", "active", "delayed"}

\* An execution under way, and one that holds the lock of job i.
Running(w) == slot[w].pc # "idle"
Holds(w, i) == Running(w) /\ slot[w].locked /\ slot[w].id = i

-----------------------------------------------------------------------------
(* The invariant behind the properties that hold whatever goes wrong.      *)

\* The types.
Types ==
    /\ handler \in [Submissions -> {"idle", "adding", "recording", "hashing", "checking",
                                    "persisting", "rejected", "accepted", "refused", "answered",
                                    "lost"}]
    /\ idOf \in [Submissions -> {0} \cup Ids]
    /\ file \in [Submissions -> {"none", "present", "deleted", "kept"}]
    /\ mq \in [Ids -> Job \cup {NoJob}]
    /\ redis \in RedisModes
    /\ nextId \in Nat \ {0}
    /\ row \in [Ids -> Row \cup {NoRow}]
    /\ slot \in [Slots -> Execution \cup {Idle}]
    /\ verifications \in [Submissions -> Nat]
    /\ scenario \in Scenarios
    /\ faults \in Nat

\* Submissions whose job has been queued.
Added == {s \in Submissions : idOf[s] # 0}

\* What holds of each request.
HandlerOK(s) ==
    /\ handler[s] \in Early \cup {"rejected", "answered"} => idOf[s] = 0
    /\ handler[s] \in {"recording", "accepted"} => idOf[s] \in Ids
    /\ handler[s] \in {"checking", "persisting", "answered", "refused"} => file[s] # "present"
    /\ handler[s] = "idle" => file[s] = "none"
    /\ handler[s] = "adding" => file[s] \in {"none", "present"}
    /\ idOf[s] # 0 /\ file[s] \in {"deleted", "kept"} => handler[s] = "refused"
    /\ handler[s] = "accepted" => RowOf(idOf[s]) /\ row[idOf[s]].for = s

\* What holds of each job.
JobOK(i) == mq[i].state # "none" =>
    /\ idOf[mq[i].for] = i
    /\ i < nextId
    /\ Live(i) => mq[i].attemptsMade < MaxAttempts /\ mq[i].stalled <= 1

\* The execution that holds the lock of a job is the one BullMQ knows of.
LockOK(w) == Running(w) /\ slot[w].locked =>
    /\ mq[slot[w].id].state = "active"
    /\ mq[slot[w].id].for = slot[w].for
    /\ mq[slot[w].id].attemptsMade = slot[w].attempt

\* An execution past its row's creation has a row.
RunOK(w) == slot[w].pc \in AfterRow => RowOf(slot[w].id)

\* A job has one lock holder.
OneHolder == \A v, w \in Slots, i \in Ids : Holds(v, i) /\ Holds(w, i) => v = w

\* The inductive invariant.
IInv ==
    /\ Types
    /\ nextId <= Cardinality(Added) + 1
    /\ \A s \in Submissions : HandlerOK(s)
    /\ \A i \in Ids : JobOK(i)
    /\ \A w \in Slots : LockOK(w) /\ RunOK(w)
    /\ OneHolder

-----------------------------------------------------------------------------
(* Cardinalities.                                                          *)

\* There are finitely many jobs, one id for each submission.
LEMMA IdsAreNat == Cardinality(Submissions) \in Nat /\ Ids \subseteq Nat \ {0}
BY FiniteAssumption, FS_CardinalityType DEF Ids

\* Job ids never run out: the next one belongs to a submission not queued.
LEMMA NextIdIsFree ==
    ASSUME IInv, NEW s \in Submissions, idOf[s] = 0
    PROVE  /\ nextId \in Ids
           /\ Cardinality(Added \cup {s}) = Cardinality(Added) + 1
<1>1. IsFiniteSet(Added) /\ Added \subseteq Submissions
  BY FiniteAssumption, FS_Subset DEF Added
<1>2. s \notin Added
  BY DEF Added
<1>3. Cardinality(Added \cup {s}) = Cardinality(Added) + 1 /\ Cardinality(Added) \in Nat
  BY <1>1, <1>2, FS_AddElement, FS_CardinalityType
<1>4. Cardinality(Added \cup {s}) <= Cardinality(Submissions)
  BY <1>1, FiniteAssumption, FS_Subset
<1> QED
  BY <1>3, <1>4, IdsAreNat DEF IInv, Types, Ids

-----------------------------------------------------------------------------
(* What one step of an execution changes.                                  *)

\* A running execution, and what of it changes when it goes to another step.
LEMMA GotoFields ==
    ASSUME Types, NEW w \in Slots, NEW p \in PCs, Running(w), Goto(w, p)
    PROVE  /\ slot[w] \in Execution /\ slot'[w] \in Execution
           /\ slot' \in [Slots -> Execution \cup {Idle}]
           /\ slot'[w].pc = p
           /\ slot'[w].id = slot[w].id /\ slot'[w].for = slot[w].for
           /\ slot'[w].attempt = slot[w].attempt
           /\ slot'[w].locked <=> slot[w].locked
           /\ \A v \in Slots : v # w => slot'[v] = slot[v]
<1>1. slot[w] \in Execution
  BY DEF Types, Running, Idle
<1>2. slot' = [slot EXCEPT ![w] = [slot[w] EXCEPT !.pc = p]]
  BY DEF Goto
<1> DEFINE e == [slot[w] EXCEPT !.pc = p]
<1>3. /\ e \in Execution /\ e.pc = p /\ e.id = slot[w].id /\ e.for = slot[w].for
      /\ e.attempt = slot[w].attempt
      /\ e.locked <=> slot[w].locked
  BY <1>1 DEF Execution, PCs
<1>4. slot'[w] = e /\ \A v \in Slots : v # w => slot'[v] = slot[v]
  BY <1>2 DEF Types
<1>5. slot' \in [Slots -> Execution \cup {Idle}]
  <2> HIDE DEF e
  <2> QED BY <1>2, <1>3 DEF Types, e
<1> HIDE DEF e
<1> QED
  BY <1>1, <1>3, <1>4, <1>5

\* A row r that says something of submission t: its hash or its result.
Names(r, t) == r.status # "none" /\ (r.hash = t \/ r.result = t)

\* Rows are made and updated, never deleted or given to another submission,
\* only row i is touched, and nothing new is said in it but of s.
RowMoves(i, s) ==
    /\ row' \in [Ids -> Row \cup {NoRow}]
    /\ \A j \in Ids : j # i => row'[j] = row[j]
    /\ row[i].status # "none" => row'[i].status # "none" /\ row'[i].for = row[i].for
    /\ \A t \in Submissions : t # s /\ Names(row'[i], t) => Names(row[i], t)

\* A new row.
LEMMA RowCreated ==
    ASSUME Types, NEW i \in Ids, row[i] = NoRow, NEW r \in Row,
           r.hash = "none" /\ r.result = "none", NEW s \in Submissions,
           row' = [row EXCEPT ![i] = r]
    PROVE  RowMoves(i, s) /\ RowOf(i)' /\ row'[i] = r
<1>1. row'[i] = r /\ ~RowOf(i)
  BY DEF Types, RowOf, NoRow
<1>2. r.status # "none"
  BY DEF Row
<1>3. \A t \in Submissions : ~Names(row'[i], t)
  BY <1>1, NoneAssumption DEF Names
<1> QED BY <1>1, <1>2, <1>3 DEF Types, RowMoves, RowOf

\* An updated row: still a row, about the same submission.
LEMMA RowUpdated ==
    ASSUME Types, NEW i \in Ids, RowOf(i), NEW r \in Row, r.for = row[i].for,
           NEW s \in Submissions,
           r.hash \in {row[i].hash, s}, r.result \in {row[i].result, s},
           row' = [row EXCEPT ![i] = r]
    PROVE  RowMoves(i, s) /\ RowOf(i)' /\ row'[i] = r
<1>1. row'[i] = r
  BY DEF Types
<1>2. r.status # "none"
  BY DEF Row
<1>3. \A t \in Submissions : t # s /\ Names(row'[i], t) => Names(row[i], t)
  BY <1>1 DEF Names, RowOf
<1> QED BY <1>1, <1>2, <1>3 DEF Types, RowMoves, RowOf

\* A row is a row.
LEMMA RowType ==
    ASSUME Types, NEW i \in Ids, RowOf(i)
    PROVE  row[i] \in Row
BY DEF Types, RowOf, NoRow

\* Updating one field of a row.
LEMMA SetStatus ==
    ASSUME NEW r \in Row, NEW v \in {"queued", "processing", "completed", "failed"}
    PROVE  LET e == [r EXCEPT !.status = v] IN
           /\ e \in Row /\ e.status = v
           /\ e.for = r.for /\ e.progress = r.progress /\ e.retryCount = r.retryCount
           /\ e.error <=> r.error
           /\ e.hash = r.hash /\ e.result = r.result
BY DEF Row

\* The same for its progress.
LEMMA SetProgress ==
    ASSUME NEW r \in Row, NEW v \in {0, 10, 100}
    PROVE  LET e == [r EXCEPT !.progress = v] IN
           /\ e \in Row /\ e.progress = v
           /\ e.for = r.for /\ e.status = r.status /\ e.retryCount = r.retryCount
           /\ e.error <=> r.error
           /\ e.hash = r.hash /\ e.result = r.result
BY DEF Row

\* The same for its retry count.
LEMMA SetRetryCount ==
    ASSUME NEW r \in Row, NEW v \in 0 .. MaxAttempts
    PROVE  LET e == [r EXCEPT !.retryCount = v] IN
           /\ e \in Row /\ e.retryCount = v
           /\ e.for = r.for /\ e.status = r.status /\ e.progress = r.progress
           /\ e.error <=> r.error
           /\ e.hash = r.hash /\ e.result = r.result
BY DEF Row

\* The same for its error.
LEMMA SetError ==
    ASSUME NEW r \in Row
    PROVE  LET e == [r EXCEPT !.error = TRUE] IN
           /\ e \in Row /\ e.error
           /\ e.for = r.for /\ e.status = r.status /\ e.progress = r.progress
           /\ e.retryCount = r.retryCount /\ e.hash = r.hash /\ e.result = r.result
BY Zenon DEF Row

\* The same for its result.
LEMMA SetResult ==
    ASSUME NEW r \in Row, NEW v \in Submissions
    PROVE  LET e == [r EXCEPT !.result = v] IN
           /\ e \in Row /\ e.result = v
           /\ e.for = r.for /\ e.status = r.status /\ e.progress = r.progress
           /\ e.retryCount = r.retryCount /\ e.hash = r.hash
           /\ e.error <=> r.error
BY DEF Row

\* The same for its hash.
LEMMA SetHash ==
    ASSUME NEW r \in Row, NEW v \in Submissions
    PROVE  LET e == [r EXCEPT !.hash = v] IN
           /\ e \in Row /\ e.hash = v
           /\ e.for = r.for /\ e.status = r.status /\ e.progress = r.progress
           /\ e.retryCount = r.retryCount /\ e.result = r.result
           /\ e.error <=> r.error
BY DEF Row

\* MarkProcessing's update of a row.
LEMMA RowMarked ==
    ASSUME Types, NEW i \in Ids, RowOf(i), NEW n \in 0 .. MaxAttempts, NEW s \in Submissions,
           row' = [row EXCEPT ![i].status = "processing", ![i].retryCount = n]
    PROVE  RowMoves(i, s) /\ RowOf(i)' /\ row'[i].status = "processing"
<1> DEFINE r1 == [row[i] EXCEPT !.status = "processing"]
           r == [r1 EXCEPT !.retryCount = n]
<1>0. /\ r1 \in Row /\ r1.for = row[i].for /\ r1.status = "processing"
      /\ r1.hash = row[i].hash /\ r1.result = row[i].result
  BY RowType, SetStatus
<1>2. row' = [row EXCEPT ![i] = r]
  BY Zenon
<1> HIDE DEF r1
<1>1. /\ r \in Row /\ r.for = row[i].for /\ r.status = "processing"
      /\ r.hash = row[i].hash /\ r.result = row[i].result
  BY <1>0, SetRetryCount
<1> HIDE DEF r
<1> QED BY <1>1, <1>2, RowUpdated

\* NoteHash's update of a row.
LEMMA RowNoted ==
    ASSUME Types, NEW i \in Ids, RowOf(i), NEW s \in Submissions,
           row' = [row EXCEPT ![i].progress = 10, ![i].hash = s]
    PROVE  RowMoves(i, s) /\ RowOf(i)' /\ row'[i].status = row[i].status
<1> DEFINE r1 == [row[i] EXCEPT !.progress = 10]
           r == [r1 EXCEPT !.hash = s]
<1>1. /\ r1 \in Row /\ r1.for = row[i].for /\ r1.status = row[i].status
      /\ r1.result = row[i].result
  BY RowType, SetProgress
<1>2. row' = [row EXCEPT ![i] = r]
  BY Zenon
<1> HIDE DEF r1
<1>3. /\ r \in Row /\ r.for = row[i].for /\ r.status = row[i].status
      /\ r.hash = s /\ r.result = row[i].result
  BY <1>1, SetHash
<1> HIDE DEF r
<1> QED BY <1>2, <1>3, RowUpdated

\* A row that tells of success, and one that tells of a failed attempt.
Done(i, s) == row[i].status = "completed" /\ row[i].progress = 100 /\ row[i].result = s
\* The row of i says that attempt n failed.
Failed(i, n) == row[i].status = "failed" /\ row[i].error /\ row[i].retryCount = n

\* CompleteRow's update of a row.
LEMMA RowCompleted ==
    ASSUME Types, NEW i \in Ids, RowOf(i), NEW s \in Submissions,
           row' = [row EXCEPT ![i].status = "completed", ![i].progress = 100, ![i].result = s]
    PROVE  RowMoves(i, s) /\ RowOf(i)' /\ Done(i, s)'
<1> DEFINE r1 == [row[i] EXCEPT !.status = "completed"]
           r2 == [r1 EXCEPT !.progress = 100]
           r == [r2 EXCEPT !.result = s]
<1>1. r1 \in Row /\ r1.for = row[i].for /\ r1.status = "completed" /\ r1.hash = row[i].hash
  BY RowType, SetStatus
<1>2. row' = [row EXCEPT ![i] = r]
  BY Zenon
<1> HIDE DEF r1
<1>3. /\ r2 \in Row /\ r2.for = row[i].for /\ r2.status = "completed" /\ r2.progress = 100
      /\ r2.hash = row[i].hash
  BY <1>1, SetProgress
<1> HIDE DEF r2
<1>4. /\ r \in Row /\ r.for = row[i].for /\ r.status = "completed" /\ r.progress = 100
      /\ r.hash = row[i].hash /\ r.result = s
  BY <1>3, SetResult
<1>5. r \in Row /\ r.for = row[i].for /\ r.hash \in {row[i].hash, s} /\ r.result \in {row[i].result, s}
  BY <1>4
<1> HIDE DEF r
<1>7. RowMoves(i, s) /\ RowOf(i)' /\ row'[i] = r
  BY <1>2, <1>5, RowUpdated
<1>8. row'[i].status = "completed" /\ row'[i].progress = 100 /\ row'[i].result = s
  BY <1>4, <1>7
<1>9. Done(i, s)'
  BY <1>8 DEF Done
<1> QED BY <1>7, <1>9

\* FailRow's update of a row.
LEMMA RowFailed ==
    ASSUME Types, NEW i \in Ids, RowOf(i), NEW n \in 0 .. MaxAttempts, NEW s \in Submissions,
           row' = [row EXCEPT ![i].status = "failed", ![i].error = TRUE, ![i].retryCount = n]
    PROVE  RowMoves(i, s) /\ RowOf(i)' /\ Failed(i, n)'
<1> DEFINE r1 == [row[i] EXCEPT !.status = "failed"]
           r2 == [r1 EXCEPT !.error = TRUE]
           r == [r2 EXCEPT !.retryCount = n]
<1>1. /\ r1 \in Row /\ r1.for = row[i].for /\ r1.status = "failed"
      /\ r1.hash = row[i].hash /\ r1.result = row[i].result
  BY RowType, SetStatus
<1>2. row' = [row EXCEPT ![i] = r]
  BY Zenon
<1> HIDE DEF r1
<1>3. /\ r2 \in Row /\ r2.for = row[i].for /\ r2.status = "failed" /\ r2.error
      /\ r2.hash = row[i].hash /\ r2.result = row[i].result
  BY <1>1, SetError
<1> HIDE DEF r2
<1>4. /\ r \in Row /\ r.for = row[i].for /\ r.status = "failed" /\ r.error /\ r.retryCount = n
      /\ r.hash = row[i].hash /\ r.result = row[i].result
  BY <1>3, SetRetryCount
<1> HIDE DEF r
<1>5. RowMoves(i, s) /\ RowOf(i)' /\ row'[i] = r
  BY <1>4, <1>2, RowUpdated
<1> QED BY <1>4, <1>5 DEF Failed

\* A row that is not touched.
LEMMA RowKept ==
    ASSUME Types, NEW i \in Ids, NEW s \in Submissions, row' = row
    PROVE  RowMoves(i, s)
BY DEF Types, RowMoves

\* The steps an execution takes of its own.
Stepping(w) ==
    \/ FindRow(w) \/ CreateProcessing(w) \/ MarkProcessing(w) \/ HashInput(w)
    \/ NoteHash(w) \/ CheckContent(w) \/ PersistVerification(w) \/ CompleteRow(w)
    \/ FailRow(w)

\* A step that records nothing never goes back to where it could, and a step
\* that has recorded goes on to complete the row.
RecordsNothing(w, p) ==
    /\ verifications' = verifications
    /\ p \in Recording => slot[w].pc \in Recording
    /\ slot[w].pc # "resolve"
    /\ slot[w].pc = "complete" /\ slot[w].locked => p = "resolve" \/ faults' = faults + 1

\* A step that records does so once, and goes on to complete.
RecordsOnce(w, p) ==
    /\ verifications' = [verifications EXCEPT ![slot[w].for] = @ + 1]
    /\ slot[w].pc = "persist"
    /\ p = "complete"
    /\ faults' = faults

\* The step to p of execution w moves at most its own row, and records as above.
StepEffect(w, p) ==
    /\ Running(w) /\ Goto(w, p)
    /\ UNCHANGED <<apiVars, queueVars>>
    /\ RowMoves(slot[w].id, slot[w].for)
    /\ p \in AfterRow => row'[slot[w].id].status # "none"
    /\ faults' = faults \/ faults' = faults + 1
    /\ RecordsNothing(w, p) \/ RecordsOnce(w, p)

\* Every step of an execution is of this kind.
LEMMA StepEffects ==
    ASSUME IInv, NEW w \in Slots, Stepping(w)
    PROVE  \E p \in PCs : StepEffect(w, p)
<1>1. Types /\ RunOK(w) /\ LockOK(w)
  BY DEF IInv
<1>2. Running(w) /\ slot[w] \in Execution
  BY <1>1 DEF Types, Running, Idle, Stepping, At, FindRow, CreateProcessing, MarkProcessing,
     HashInput, NoteHash, CheckContent, PersistVerification, CompleteRow, FailRow
<1>3. PICK e : e = slot[w]
  OBVIOUS
<1>4. e \in Execution /\ e.id \in Ids /\ e.for \in Submissions /\ e.attempt \in 0 .. MaxAttempts
  BY <1>2, <1>3 DEF Execution
<1>5. e.locked => mq[e.id] # NoJob
  BY <1>1, <1>2, <1>3 DEF LockOK, NoJob
<1>6. row' = row => RowMoves(e.id, e.for) /\ row'[e.id] = row[e.id]
  BY <1>1, <1>4, RowKept
<1>7. e.pc \in AfterRow => RowOf(e.id)
  BY <1>1, <1>3 DEF RunOK
<1>8. CASE FindRow(w)
  <2>1. e.pc = "find" /\ row' = row /\ UNCHANGED <<apiVars, queueVars, verifications>>
    BY <1>3, <1>8 DEF FindRow, At
  <2>2. CASE Goto(w, IF row[e.id] = NoRow THEN "create" ELSE "mark") /\ UNCHANGED faults
    <3>1. CASE row[e.id] = NoRow
      <4>1. StepEffect(w, "create")
        BY <1>2, <1>3, <1>6, <2>1, <2>2, <3>1
           DEF StepEffect, RecordsNothing, Recording, AfterRow
      <4> QED BY <4>1 DEF PCs
    <3>2. CASE row[e.id] # NoRow
      <4>1. row[e.id] \in Row
        BY <1>1, <1>4, <3>2 DEF Types
      <4>2. row[e.id].status \in {"queued", "processing", "completed", "failed"}
        BY <4>1 DEF Row
      <4>3. RowOf(e.id)
        BY <4>2 DEF RowOf
      <4>4. Goto(w, "mark")
        BY <2>2, <3>2
      <4>5. row'[e.id].status # "none"
        BY <1>6, <2>1, <4>3 DEF RowOf
      <4>6. StepEffect(w, "mark")
        BY <1>2, <1>3, <1>6, <2>1, <2>2, <4>4, <4>5
           DEF StepEffect, RecordsNothing, Recording
      <4> QED BY <4>6 DEF PCs
    <3> QED BY <3>1, <3>2
  <2>3. CASE Goto(w, "reject") /\ DbFault
    <3>1. StepEffect(w, "reject")
      BY <1>2, <1>3, <1>6, <2>1, <2>3
         DEF StepEffect, RecordsNothing, Recording, AfterRow, DbFault, Fault
    <3> QED BY <3>1 DEF PCs
  <2> QED BY <1>3, <1>8, <2>2, <2>3 DEF FindRow
<1>9. CASE CreateProcessing(w)
  <2>1. e.pc = "create" /\ UNCHANGED <<apiVars, queueVars, verifications>>
    BY <1>3, <1>9 DEF CreateProcessing, At
  <2> DEFINE r == [for |-> e.for, status |-> "processing", progress |-> 0,
                   retryCount |-> e.attempt, error |-> FALSE,
                   hash |-> "none", result |-> "none"]
  <2>2. CASE /\ row[e.id] = NoRow
             /\ row' = [row EXCEPT ![e.id] = r]
             /\ Goto(w, "hash")
             /\ UNCHANGED faults
    <3>1. r \in Row /\ r.hash = "none" /\ r.result = "none"
      BY <1>4 DEF Row
    <3> HIDE DEF r
    <3>2. RowMoves(e.id, e.for) /\ row'[e.id].status # "none"
      BY <1>1, <1>4, <2>2, <3>1, RowCreated DEF RowOf
    <3>3. StepEffect(w, "hash")
      BY <1>2, <1>3, <2>1, <2>2, <3>2 DEF StepEffect, RecordsNothing, Recording
    <3> QED BY <3>3 DEF PCs
  <2>3. CASE Goto(w, "reject") /\ row' = row /\ (UNCHANGED faults \/ DbFault)
    <3>1. StepEffect(w, "reject")
      BY <1>2, <1>3, <1>6, <2>1, <2>3
         DEF StepEffect, RecordsNothing, Recording, AfterRow, DbFault, Fault
    <3> QED BY <3>1 DEF PCs
  <2> QED BY <1>3, <1>9, <2>2, <2>3 DEF CreateProcessing
<1>10. CASE MarkProcessing(w)
  <2>1. e.pc = "mark" /\ UNCHANGED <<apiVars, queueVars, verifications>>
    BY <1>3, <1>10 DEF MarkProcessing, At
  <2>2. CASE /\ row' = [row EXCEPT ![e.id].status = "processing", ![e.id].retryCount = e.attempt]
             /\ Goto(w, "hash")
             /\ UNCHANGED faults
    <3>1. RowMoves(e.id, e.for) /\ row'[e.id].status # "none"
      BY <1>1, <1>4, <1>7, <2>1, <2>2, RowMarked DEF RowOf, AfterRow
    <3>2. StepEffect(w, "hash")
      BY <1>2, <1>3, <2>1, <2>2, <3>1 DEF StepEffect, RecordsNothing, Recording
    <3> QED BY <3>2 DEF PCs
  <2>3. CASE DbFault /\ Goto(w, "reject") /\ row' = row
    <3>1. StepEffect(w, "reject")
      BY <1>2, <1>3, <1>6, <2>1, <2>3
         DEF StepEffect, RecordsNothing, Recording, AfterRow, DbFault, Fault
    <3> QED BY <3>1 DEF PCs
  <2> QED BY <1>3, <1>10, <2>2, <2>3 DEF MarkProcessing
<1>11. CASE HashInput(w)
  <2>1. e.pc = "hash" /\ UNCHANGED <<apiVars, queueVars, row, verifications, faults>>
    BY <1>3, <1>11 DEF HashInput, At
  <2>2. Goto(w, "note") \/ Goto(w, "fail")
    BY <1>11 DEF HashInput, GotoReporting
  <2>3. row'[e.id].status # "none"
    BY <1>6, <1>7, <2>1 DEF RowOf, AfterRow
  <2>4. \A p \in {"note", "fail"} : Goto(w, p) => StepEffect(w, p)
    BY <1>2, <1>3, <1>6, <2>1, <2>3 DEF StepEffect, RecordsNothing, Recording
  <2> QED BY <2>2, <2>4 DEF PCs
<1>12. CASE NoteHash(w)
  <2>1. e.pc = "note" /\ UNCHANGED <<apiVars, queueVars, verifications>>
    BY <1>3, <1>12 DEF NoteHash, At
  <2>2. CASE row' = [row EXCEPT ![e.id].progress = 10, ![e.id].hash = e.for] /\ Goto(w, "check") /\ UNCHANGED faults
    <3>1. RowMoves(e.id, e.for) /\ row'[e.id].status # "none"
      BY <1>1, <1>4, <1>7, <2>1, <2>2, RowNoted DEF RowOf, AfterRow
    <3>2. StepEffect(w, "check")
      BY <1>2, <1>3, <2>1, <2>2, <3>1 DEF StepEffect, RecordsNothing, Recording
    <3> QED BY <3>2 DEF PCs
  <2>3. CASE DbFault /\ Goto(w, "fail") /\ row' = row
    <3>1. row'[e.id].status # "none"
      BY <1>6, <1>7, <2>1, <2>3 DEF RowOf, AfterRow
    <3>2. StepEffect(w, "fail")
      BY <1>2, <1>3, <1>6, <2>1, <2>3, <3>1
         DEF StepEffect, RecordsNothing, Recording, DbFault, Fault
    <3> QED BY <3>2 DEF PCs
  <2> QED BY <1>3, <1>12, <2>2, <2>3 DEF NoteHash
<1>13. CASE CheckContent(w)
  <2>1. e.pc = "check" /\ UNCHANGED <<apiVars, queueVars, row, verifications, faults>>
    BY <1>3, <1>13 DEF CheckContent, At
  <2>2. Goto(w, "persist") \/ Goto(w, "fail")
    BY <1>13 DEF CheckContent, GotoReporting
  <2>3. row'[e.id].status # "none"
    BY <1>6, <1>7, <2>1 DEF RowOf, AfterRow
  <2>4. \A p \in {"persist", "fail"} : Goto(w, p) => StepEffect(w, p)
    BY <1>2, <1>3, <1>6, <2>1, <2>3 DEF StepEffect, RecordsNothing, Recording
  <2> QED BY <2>2, <2>4 DEF PCs
<1>14. CASE PersistVerification(w)
  <2>1. e.pc = "persist" /\ UNCHANGED <<apiVars, queueVars, row>>
    BY <1>3, <1>14 DEF PersistVerification, At
  <2>2. row'[e.id].status # "none"
    BY <1>6, <1>7, <2>1 DEF RowOf, AfterRow
  <2>3. CASE /\ mq[e.id] # NoJob
             /\ verifications' = [verifications EXCEPT ![e.for] = @ + 1]
             /\ UNCHANGED faults
    <3>1. Goto(w, "complete")
      BY <1>3, <1>14, <2>3 DEF PersistVerification, GotoReporting
    <3>2. StepEffect(w, "complete")
      BY <1>2, <1>3, <1>6, <2>1, <2>2, <2>3, <3>1 DEF StepEffect, RecordsOnce
    <3> QED BY <3>2 DEF PCs
  <2>4. CASE verifications' = verifications /\ (UNCHANGED faults \/ DbFault)
    <3>1. Goto(w, "complete") \/ Goto(w, "fail")
      BY <1>14 DEF PersistVerification, GotoReporting
    <3>2. \A p \in {"complete", "fail"} : Goto(w, p) => StepEffect(w, p)
      BY <1>2, <1>3, <1>6, <2>1, <2>2, <2>4
         DEF StepEffect, RecordsNothing, Recording, DbFault, Fault
    <3> QED BY <3>1, <3>2 DEF PCs
  <2> QED BY <1>3, <1>14, <2>3, <2>4 DEF PersistVerification
<1>15. CASE CompleteRow(w)
  <2>1. e.pc = "complete" /\ UNCHANGED <<apiVars, queueVars, verifications>>
    BY <1>3, <1>15 DEF CompleteRow, At
  <2>2. CASE /\ row' = [row EXCEPT ![e.id].status = "completed", ![e.id].progress = 100,
                                   ![e.id].result = e.for]
             /\ Goto(w, "resolve")
             /\ UNCHANGED faults
    <3>1. RowMoves(e.id, e.for) /\ row'[e.id].status # "none"
      BY <1>1, <1>4, <1>7, <2>1, <2>2, RowCompleted DEF RowOf, AfterRow
    <3>2. StepEffect(w, "resolve")
      BY <1>2, <1>3, <2>1, <2>2, <3>1 DEF StepEffect, RecordsNothing, Recording
    <3> QED BY <3>2 DEF PCs
  <2>3. CASE /\ (mq[e.id] = NoJob /\ UNCHANGED faults) \/ DbFault
             /\ Goto(w, "fail") /\ row' = row
    <3>1. row'[e.id].status # "none"
      BY <1>6, <1>7, <2>1, <2>3 DEF RowOf, AfterRow
    <3>2. e.locked => faults' = faults + 1
      BY <1>5, <2>3 DEF DbFault, Fault
    <3>3. StepEffect(w, "fail")
      BY <1>2, <1>3, <1>6, <2>1, <2>3, <3>1, <3>2
         DEF StepEffect, RecordsNothing, Recording, DbFault, Fault
    <3> QED BY <3>3 DEF PCs
  <2> QED BY <1>3, <1>15, <2>2, <2>3 DEF CompleteRow
<1>16. CASE FailRow(w)
  <2>1. e.pc = "fail" /\ Goto(w, "reject") /\ UNCHANGED <<apiVars, queueVars, verifications>>
    BY <1>3, <1>16 DEF FailRow, At
  <2>2. CASE /\ row' = [row EXCEPT ![e.id].status = "failed", ![e.id].error = TRUE,
                                   ![e.id].retryCount = e.attempt]
             /\ UNCHANGED faults
    <3>1. RowMoves(e.id, e.for)
      BY <1>1, <1>4, <1>7, <2>1, <2>2, RowFailed DEF AfterRow
    <3>2. StepEffect(w, "reject")
      BY <1>2, <1>3, <2>1, <2>2, <3>1 DEF StepEffect, RecordsNothing, Recording, AfterRow
    <3> QED BY <3>2 DEF PCs
  <2>3. CASE DbFault /\ row' = row
    <3>1. StepEffect(w, "reject")
      BY <1>2, <1>3, <1>6, <2>1, <2>3
         DEF StepEffect, RecordsNothing, Recording, AfterRow, DbFault, Fault
    <3> QED BY <3>1 DEF PCs
  <2> QED BY <1>3, <1>16, <2>2, <2>3 DEF FailRow
<1> QED
  BY <1>8, <1>9, <1>10, <1>11, <1>12, <1>13, <1>14, <1>15, <1>16 DEF Stepping

-----------------------------------------------------------------------------
(* What one step of a job changes.                                         *)

\* States of a job BullMQ knows.
States == {"waiting", "active", "delayed", "completed", "failed"}

\* Job i, and no other, goes to a state; if it stays live it is within its
\* attempts and stalls.
JobMoves(i, state) ==
    /\ mq' \in [Ids -> Job \cup {NoJob}]
    /\ \A j \in Ids : j # i => mq'[j] = mq[j]
    /\ mq'[i].state = state
    /\ mq'[i].for = mq[i].for
    /\ Live(i)' => mq'[i].attemptsMade < MaxAttempts /\ mq'[i].stalled <= 1

\* A job that is not new is a job.
LEMMA JobType ==
    ASSUME IInv, NEW i \in Ids, mq[i].state # "none"
    PROVE  /\ mq[i] \in Job
           /\ mq[i].attemptsMade \in 0 .. MaxAttempts
           /\ mq[i].stalled \in 0 .. 2
           /\ mq[i].for \in Submissions
           /\ Live(i) => mq[i].attemptsMade < MaxAttempts /\ mq[i].stalled <= 1
<1>1. mq[i] \in Job
  BY DEF IInv, Types, NoJob
<1>2. Live(i) => mq[i].attemptsMade < MaxAttempts /\ mq[i].stalled <= 1
  BY DEF IInv, JobOK
<1> QED BY <1>1, <1>2 DEF Job

\* Taken, or its backoff is over: only the state changes.
LEMMA JobRestated ==
    ASSUME IInv, NEW i \in Ids, Live(i), NEW x \in States,
           mq' = [mq EXCEPT ![i].state = x]
    PROVE  JobMoves(i, x) /\ mq'[i].attemptsMade = mq[i].attemptsMade
<1> DEFINE j == [mq[i] EXCEPT !.state = x]
<1>1. mq[i].state # "none"
  BY DEF Live
<1>2. /\ j \in Job /\ j.state = x /\ j.for = mq[i].for /\ j.stalled = mq[i].stalled
      /\ j.attemptsMade = mq[i].attemptsMade
  BY <1>1, JobType DEF Job, States
<1>3. mq' = [mq EXCEPT ![i] = j]
  OBVIOUS
<1> HIDE DEF j
<1>4. mq'[i] = j
  BY <1>3 DEF IInv, Types
<1>5. mq' \in [Ids -> Job \cup {NoJob}] /\ \A k \in Ids : k # i => mq'[k] = mq[k]
  BY <1>2, <1>3 DEF IInv, Types
<1> QED
  BY <1>1, <1>2, <1>4, <1>5, JobType DEF JobMoves

\* An execution settled: the attempt is counted.
LEMMA JobSettled ==
    ASSUME IInv, NEW i \in Ids, Live(i), NEW x \in States,
           x \in {"completed", "failed"} \/ mq[i].attemptsMade + 1 < MaxAttempts,
           mq' = [mq EXCEPT ![i].state = x, ![i].attemptsMade = @ + 1]
    PROVE  JobMoves(i, x) /\ mq'[i].attemptsMade = mq[i].attemptsMade + 1
<1> DEFINE n == mq[i].attemptsMade + 1
           j == [mq[i] EXCEPT !.state = x, !.attemptsMade = n]
<1>1. mq[i].state # "none"
  BY DEF Live
<1>2. mq[i].attemptsMade \in 0 .. MaxAttempts /\ mq[i].attemptsMade < MaxAttempts
      /\ mq[i] \in Job /\ mq[i].stalled <= 1
  BY <1>1, JobType
<1>3. n \in 0 .. MaxAttempts
  BY <1>2, AttemptsAssumption
<1>4. mq' = [mq EXCEPT ![i] = j]
  BY <1>2
<1> HIDE DEF n
<1>5. /\ j \in Job /\ j.state = x /\ j.for = mq[i].for /\ j.stalled = mq[i].stalled
      /\ j.attemptsMade = n
  BY <1>2, <1>3 DEF Job, States
<1> HIDE DEF j
<1>6. mq'[i] = j
  BY <1>4 DEF IInv, Types
<1>7. mq' \in [Ids -> Job \cup {NoJob}] /\ \A k \in Ids : k # i => mq'[k] = mq[k]
  <2>1. j \in Job /\ mq \in [Ids -> Job \cup {NoJob}]
    BY <1>5 DEF IInv, Types
  <2> QED BY <1>4, <2>1
<1>8. Live(i)' => mq'[i].attemptsMade < MaxAttempts /\ mq'[i].stalled <= 1
  BY <1>2, <1>5, <1>6 DEF Live, n
<1>9. mq'[i].attemptsMade = mq[i].attemptsMade + 1
  BY <1>5, <1>6 DEF n
<1> QED
  BY <1>5, <1>6, <1>7, <1>8, <1>9 DEF JobMoves

\* The stalled check: the job waits again, once.
LEMMA JobRequeued ==
    ASSUME IInv, NEW i \in Ids, Live(i), Requeue(i)
    PROVE  \E x \in {"waiting", "failed"} :
             JobMoves(i, x) /\ mq'[i].attemptsMade = mq[i].attemptsMade
<1> DEFINE x == IF mq[i].stalled < 1 THEN "waiting" ELSE "failed"
           n == mq[i].stalled + 1
           j == [mq[i] EXCEPT !.state = x, !.stalled = n]
<1>1. mq[i].state # "none"
  BY DEF Live
<1>2. /\ mq[i].attemptsMade \in 0 .. MaxAttempts /\ mq[i].attemptsMade < MaxAttempts
      /\ mq[i] \in Job /\ mq[i].stalled \in 0 .. 2 /\ mq[i].stalled <= 1
  BY <1>1, JobType
<1>3. n \in 0 .. 2 /\ x \in {"waiting", "failed"} /\ (x = "waiting" => n <= 1)
  BY <1>2
<1>4. mq' = [mq EXCEPT ![i] = j]
  BY <1>2 DEF Requeue
<1> HIDE DEF n, x
<1>5. /\ j \in Job /\ j.state = x /\ j.for = mq[i].for /\ j.stalled = n
      /\ j.attemptsMade = mq[i].attemptsMade
  BY <1>2, <1>3 DEF Job
<1> HIDE DEF j
<1>6. mq'[i] = j
  BY <1>4 DEF IInv, Types
<1>7. mq' \in [Ids -> Job \cup {NoJob}] /\ \A k \in Ids : k # i => mq'[k] = mq[k]
  BY <1>4, <1>5 DEF IInv, Types
<1>8. Live(i)' => mq'[i].attemptsMade < MaxAttempts /\ mq'[i].stalled <= 1
  BY <1>2, <1>3, <1>5, <1>6 DEF Live
<1>9. JobMoves(i, x)
  BY <1>5, <1>6, <1>7, <1>8 DEF JobMoves
<1> QED
  BY <1>3, <1>5, <1>6, <1>9

-----------------------------------------------------------------------------
(* The invariant is kept by every step.                                    *)

\* Rows stay, and stay about the same submission.
RowsKeep ==
    /\ row' \in [Ids -> Row \cup {NoRow}]
    /\ \A i \in Ids : RowOf(i) => RowOf(i)' /\ row'[i].for = row[i].for

\* Touching one row keeps the rows.
LEMMA RowMovesKeep ==
    ASSUME IInv, NEW i \in Ids, NEW s, RowMoves(i, s)
    PROVE  RowsKeep
BY DEF RowMoves, RowsKeep, RowOf

\* So does touching none.
LEMMA NoRowMoves ==
    ASSUME IInv, row' = row
    PROVE  RowsKeep
BY DEF RowsKeep, IInv, Types, RowOf

\* What is known of a request stays true while rows are kept.
LEMMA HandlersKept ==
    ASSUME IInv, UNCHANGED apiVars, RowsKeep
    PROVE  \A s \in Submissions : HandlerOK(s)'
<1> SUFFICES ASSUME NEW s \in Submissions PROVE HandlerOK(s)'
  OBVIOUS
<1>1. HandlerOK(s)
  BY DEF IInv
<1>2. handler'[s] = handler[s] /\ idOf'[s] = idOf[s] /\ file'[s] = file[s]
  BY DEF apiVars
<1>3. handler[s] = "accepted" => idOf[s] \in Ids /\ RowOf(idOf[s]) /\ row[idOf[s]].for = s
  BY <1>1 DEF HandlerOK
<1>4. handler[s] = "accepted" => RowOf(idOf[s])' /\ row'[idOf'[s]].for = s
  <2> SUFFICES ASSUME handler[s] = "accepted"
               PROVE  row'[idOf[s]].status # "none" /\ row'[idOf[s]].for = s
    BY <1>2 DEF RowOf
  <2>1. PICK i \in Ids : i = idOf[s]
    BY <1>3
  <2> QED BY <1>3, <2>1 DEF RowsKeep, RowOf
<1> QED
  BY <1>1, <1>2, <1>3, <1>4 DEF HandlerOK

\* What is known of the jobs stays true when one of them moves.
LEMMA JobsKept ==
    ASSUME IInv, NEW i \in Ids, Live(i), NEW x, JobMoves(i, x), UNCHANGED <<idOf, nextId>>
    PROVE  \A j \in Ids : JobOK(j)'
<1> SUFFICES ASSUME NEW j \in Ids PROVE JobOK(j)'
  OBVIOUS
<1>1. JobOK(j) /\ JobOK(i) /\ mq[i].state # "none"
  BY DEF IInv, Live
<1>2. CASE j = i
  BY <1>1, <1>2 DEF JobMoves, JobOK
<1>3. CASE j # i
  BY <1>1, <1>3 DEF JobMoves, JobOK, Live
<1> QED BY <1>2, <1>3

\* An execution's own step.
LEMMA InvStep ==
    ASSUME IInv, NEW w \in Slots, NEW p \in PCs, StepEffect(w, p)
    PROVE  IInv'
<1>1. Types /\ Running(w) /\ Goto(w, p) /\ UNCHANGED <<apiVars, queueVars>>
  BY DEF IInv, StepEffect
<1>2. /\ slot[w] \in Execution
      /\ slot' \in [Slots -> Execution \cup {Idle}]
      /\ slot'[w].pc = p
      /\ slot'[w].id = slot[w].id /\ slot'[w].for = slot[w].for
      /\ slot'[w].attempt = slot[w].attempt
      /\ slot'[w].locked <=> slot[w].locked
      /\ \A v \in Slots : v # w => slot'[v] = slot[v]
  BY <1>1, GotoFields
<1>3. PICK i \in Ids : i = slot[w].id
  BY <1>2 DEF Execution
<1>4. RowMoves(i, slot[w].for) /\ RowsKeep
  BY <1>3, RowMovesKeep DEF StepEffect
<1>5. Types'
  <2>1. verifications' \in [Submissions -> Nat]
    <3>1. slot[w].for \in Submissions
      BY <1>2 DEF Execution
    <3>2. verifications[slot[w].for] + 1 \in Nat
      BY <1>1, <3>1 DEF Types
    <3> QED BY <1>1, <3>2 DEF Types, StepEffect, RecordsNothing, RecordsOnce
  <2>2. faults' \in Nat
    BY <1>1 DEF Types, StepEffect
  <2>3. row' \in [Ids -> Row \cup {NoRow}]
    BY <1>4 DEF RowsKeep
  <2> QED BY <1>1, <1>2, <2>1, <2>2, <2>3 DEF Types, apiVars, queueVars
<1>6. nextId' <= Cardinality(Added') + 1
  BY <1>1 DEF IInv, Added, apiVars, queueVars
<1>7. \A s \in Submissions : HandlerOK(s)'
  BY <1>1, <1>4, HandlersKept
<1>8. \A j \in Ids : JobOK(j)'
  BY <1>1 DEF IInv, JobOK, Live, apiVars, queueVars
<1>9. \A v \in Slots, j \in Ids : Holds(v, j)' <=> Holds(v, j)
  <2> SUFFICES ASSUME NEW v \in Slots, NEW j \in Ids PROVE Holds(v, j)' <=> Holds(v, j)
    OBVIOUS
  <2>1. CASE v = w
    <3>1. Running(w)'
      BY <1>2 DEF Running, PCs
    <3> QED BY <1>1, <1>2, <2>1, <3>1 DEF Holds
  <2>2. CASE v # w
    BY <1>2, <2>2 DEF Holds, Running
  <2> QED BY <2>1, <2>2
<1>10. \A v \in Slots : LockOK(v)'
  <2> SUFFICES ASSUME NEW v \in Slots PROVE LockOK(v)'
    OBVIOUS
  <2>1. LockOK(v)
    BY DEF IInv
  <2>2. mq' = mq
    BY <1>1 DEF queueVars
  <2>3. CASE v = w
    BY <1>1, <1>2, <2>1, <2>2, <2>3 DEF LockOK
  <2>4. CASE v # w
    BY <1>2, <2>1, <2>2, <2>4 DEF LockOK, Running
  <2> QED BY <2>3, <2>4
<1>11. \A v \in Slots : RunOK(v)'
  <2> SUFFICES ASSUME NEW v \in Slots PROVE RunOK(v)'
    OBVIOUS
  <2>1. CASE v = w
    <3>1. p \in AfterRow => row'[i].status # "none"
      BY <1>3 DEF StepEffect
    <3> QED BY <1>2, <1>3, <2>1, <3>1 DEF RunOK, RowOf
  <2>2. CASE v # w
    <3>1. SUFFICES ASSUME slot[v].pc \in AfterRow PROVE row'[slot[v].id].status # "none"
      BY <1>2, <2>2 DEF RunOK, RowOf
    <3>2. RowOf(slot[v].id)
      BY <3>1 DEF IInv, RunOK
    <3>3. slot[v] \in Execution
      BY <1>1, <3>1 DEF Types, Idle, AfterRow
    <3>4. PICK j \in Ids : j = slot[v].id
      BY <3>3 DEF Execution
    <3> QED BY <1>4, <3>2, <3>4 DEF RowsKeep, RowOf
  <2> QED BY <2>1, <2>2
<1>12. OneHolder'
  BY <1>9 DEF IInv, OneHolder
<1> QED
  BY <1>5, <1>6, <1>7, <1>8, <1>10, <1>11, <1>12 DEF IInv

HandlerSteps == {"idle", "adding", "recording", "hashing", "checking", "persisting",
                 "rejected", "accepted", "refused", "answered", "lost"}

\* Nothing the executions rely on changes when the slots and the queue do not.
LEMMA ExecutionsKept ==
    ASSUME IInv, RowsKeep, slot' = slot, UNCHANGED queueVars
    PROVE  (\A w \in Slots : LockOK(w)' /\ RunOK(w)') /\ OneHolder'
<1>1. \A w \in Slots : LockOK(w)'
  BY DEF IInv, LockOK, Running, queueVars
<1>2. \A w \in Slots : RunOK(w)'
  <2> SUFFICES ASSUME NEW w \in Slots, slot[w].pc \in AfterRow
               PROVE  row'[slot[w].id].status # "none"
    BY DEF RunOK, RowOf
  <2>1. RowOf(slot[w].id) /\ slot[w] \in Execution
    BY DEF IInv, RunOK, Types, Idle, AfterRow
  <2>2. PICK i \in Ids : i = slot[w].id
    BY <2>1 DEF Execution
  <2> QED BY <2>1, <2>2 DEF RowsKeep, RowOf
<1>3. OneHolder'
  BY DEF IInv, OneHolder, Holds, Running
<1> QED
  BY <1>1, <1>2, <1>3

\* A step of a request that leaves the queue alone.
LEMMA InvRequest ==
    ASSUME IInv, RowsKeep, UNCHANGED <<idOf, queueVars, slot>>,
           NEW s \in Submissions, NEW h \in HandlerSteps, HandlerTo(s, h),
           NEW f \in {"none", "present", "deleted", "kept"}, file' = [file EXCEPT ![s] = f],
           verifications' \in [Submissions -> Nat], faults' \in Nat, HandlerOK(s)'
    PROVE  IInv'
<1>1. Types
  BY DEF IInv
<1>2. Types'
  BY <1>1 DEF Types, HandlerTo, HandlerSteps, RowsKeep, queueVars
<1>3. nextId' <= Cardinality(Added') + 1
  BY DEF IInv, Added, queueVars
<1>4. \A t \in Submissions : HandlerOK(t)'
  <2> SUFFICES ASSUME NEW t \in Submissions, t # s PROVE HandlerOK(t)'
    OBVIOUS
  <2>1. handler'[t] = handler[t] /\ idOf'[t] = idOf[t] /\ file'[t] = file[t]
    BY <1>1 DEF Types, HandlerTo
  <2>2. HandlerOK(t)
    BY DEF IInv
  <2>3. handler[t] = "accepted" => row'[idOf[t]].status # "none" /\ row'[idOf[t]].for = t
    <3> SUFFICES ASSUME handler[t] = "accepted"
                 PROVE  row'[idOf[t]].status # "none" /\ row'[idOf[t]].for = t
      OBVIOUS
    <3>1. PICK i \in Ids : i = idOf[t]
      BY <2>2 DEF HandlerOK
    <3> QED BY <2>2, <3>1 DEF RowsKeep, RowOf, HandlerOK
  <2> QED BY <2>1, <2>2, <2>3 DEF HandlerOK, RowOf
<1>5. \A i \in Ids : JobOK(i)'
  BY DEF IInv, JobOK, Live, queueVars
<1>6. (\A w \in Slots : LockOK(w)' /\ RunOK(w)') /\ OneHolder'
  BY ExecutionsKept
<1> QED
  BY <1>2, <1>3, <1>4, <1>5, <1>6 DEF IInv, RowsKeep

\* The file of a request after Unlink.
LEMMA Unlinked ==
    ASSUME Types, NEW s \in Submissions, Unlink(s)
    PROVE  \E f \in {"none", "deleted", "kept"} : file' = [file EXCEPT ![s] = f]
<1>1. PICK g \in {"deleted", "kept"} :
        file' = [file EXCEPT ![s] = IF file[s] = "present" THEN g ELSE file[s]]
  BY DEF Unlink
<1>2. file[s] \in {"none", "present", "deleted", "kept"}
  BY DEF Types
<1>3. CASE file[s] = "present"
  BY <1>1, <1>3
<1>4. CASE file[s] # "present"
  BY <1>1, <1>2, <1>4
<1> QED BY <1>3, <1>4

\* A request that is refused keeps nothing but its job id.
LEMMA InvRefuse ==
    ASSUME IInv, NEW s \in Submissions, Refuse(s), UNCHANGED <<idOf, queueVars, row, slot>>,
           verifications' = verifications, faults' \in Nat
    PROVE  IInv'
<1>1. Types /\ RowsKeep
  BY NoRowMoves DEF IInv
<1>2. PICK f \in {"none", "deleted", "kept"} : file' = [file EXCEPT ![s] = f]
  BY <1>1, Unlinked DEF Refuse
<1>3. HandlerTo(s, "refused")
  BY DEF Refuse
<1>4. handler'[s] = "refused" /\ file'[s] = f
  BY <1>1, <1>2, <1>3 DEF Types, HandlerTo
<1>5. HandlerOK(s)'
  BY <1>2, <1>4 DEF HandlerOK, Early
<1>6. "refused" \in HandlerSteps /\ f \in {"none", "present", "deleted", "kept"}
      /\ verifications' \in [Submissions -> Nat]
  BY <1>1, <1>2 DEF HandlerSteps, Types
<1> QED
  BY <1>1, <1>2, <1>3, <1>5, <1>6, InvRequest

\* The request handlers' steps but for queue.add.
LEMMA InvHandler ==
    ASSUME IInv, NEW s \in Submissions, Handler(s), ~AddJob(s)
    PROVE  IInv'
<1>1. Types /\ HandlerOK(s) /\ (row' = row => RowsKeep) /\ faults \in Nat
      /\ handler[s] \in HandlerSteps /\ file[s] \in {"none", "present", "deleted", "kept"}
  BY NoRowMoves DEF IInv, Types, HandlerSteps
<1>2. CASE Upload(s)
  <2>1. PICK h \in {"rejected", "adding", "hashing"} : HandlerTo(s, h)
    BY <1>2 DEF Upload, Branch
  <2>2. PICK f \in {"none", "present"} : file' = [file EXCEPT ![s] = f]
    BY <1>1, <1>2 DEF Upload, HandlerOK
  <2>3. handler'[s] = h /\ idOf'[s] = 0
    BY <1>1, <1>2, <2>1 DEF Upload, Types, HandlerTo, HandlerOK, Early
  <2>6. file'[s] = f
    BY <1>1, <2>2 DEF Types
  <2>4. HandlerOK(s)'
    BY <2>1, <2>2, <2>3, <2>6 DEF HandlerOK
  <2>5. h \in HandlerSteps /\ verifications' \in [Submissions -> Nat] /\ faults' \in Nat
    BY <1>1, <1>2, <2>1 DEF HandlerSteps, Types, Upload
  <2> QED BY <1>1, <1>2, <2>1, <2>2, <2>4, <2>5, InvRequest DEF Upload
<1>3. CASE CreateRow(s)
  <2> DEFINE r == [for |-> s, status |-> "queued", progress |-> 0, retryCount |-> 0,
                   error |-> FALSE, hash |-> "none", result |-> "none"]
  <2>1. PICK i \in Ids : i = idOf[s]
    BY <1>1, <1>3 DEF CreateRow, HandlerOK
  <2>2. row[i] = NoRow /\ row' = [row EXCEPT ![i] = r] /\ HandlerTo(s, "accepted")
    BY <1>3, <2>1 DEF CreateRow
  <2>3. r \in Row /\ r.hash = "none" /\ r.result = "none" /\ r.for = s
    BY AttemptsAssumption DEF Row
  <2> HIDE DEF r
  <2>4. RowMoves(i, s) /\ RowOf(i)' /\ row'[i] = r
    BY <1>1, <2>2, <2>3, RowCreated
  <2>5. RowsKeep
    BY <2>4, RowMovesKeep
  <2>6. handler'[s] = "accepted" /\ idOf'[s] = i
    BY <1>1, <1>3, <2>1, <2>2 DEF Types, HandlerTo, CreateRow
  <2>10. idOf[s] # 0 /\ file[s] \in {"deleted", "kept"} => FALSE
    BY <1>1, <1>3 DEF HandlerOK, CreateRow
  <2>11. UNCHANGED <<idOf, file>>
    BY <1>3 DEF CreateRow
  <2>7. HandlerOK(s)'
    BY <2>3, <2>4, <2>6, <2>10, <2>11 DEF HandlerOK, Early, RowOf
  <2>8. file' = [file EXCEPT ![s] = file[s]]
    BY <1>1, <1>3 DEF CreateRow, Types
  <2>9. "accepted" \in HandlerSteps /\ verifications' \in [Submissions -> Nat] /\ faults' \in Nat
    BY <1>1, <1>3 DEF HandlerSteps, Types, CreateRow
  <2> QED BY <1>1, <1>3, <2>2, <2>5, <2>7, <2>8, <2>9, InvRequest DEF CreateRow
<1>4. CASE CreateRowFails(s)
  <2>1. faults' \in Nat
    BY <1>1, <1>4 DEF CreateRowFails, DbFault, Fault
  <2> QED BY <1>4, <2>1, InvRefuse DEF CreateRowFails
<1>5. CASE SyncHash(s)
  <2>1. PICK f \in {"none", "deleted", "kept"} : file' = [file EXCEPT ![s] = f]
    BY <1>1, <1>5, Unlinked DEF SyncHash
  <2>2. HandlerTo(s, "checking")
    BY <1>5 DEF SyncHash
  <2>3. handler'[s] = "checking" /\ idOf'[s] = 0 /\ file'[s] = f
    BY <1>1, <1>5, <2>1, <2>2 DEF SyncHash, Types, HandlerTo, HandlerOK, Early
  <2>4. HandlerOK(s)'
    BY <2>1, <2>3 DEF HandlerOK
  <2>5. /\ "checking" \in HandlerSteps /\ f \in {"none", "present", "deleted", "kept"}
        /\ verifications' \in [Submissions -> Nat] /\ faults' \in Nat
    BY <1>1, <1>5, <2>1 DEF HandlerSteps, Types, SyncHash
  <2> QED BY <1>1, <1>5, <2>1, <2>2, <2>4, <2>5, InvRequest DEF SyncHash
<1>6. CASE SyncCheck(s)
  <2>1. CASE HandlerTo(s, "persisting") /\ UNCHANGED file
    <3>1. handler'[s] = "persisting" /\ idOf'[s] = 0 /\ file'[s] = file[s]
          /\ file[s] # "present"
      BY <1>1, <1>6, <2>1 DEF SyncCheck, Types, HandlerTo, HandlerOK, Early
    <3>2. HandlerOK(s)'
      BY <3>1 DEF HandlerOK
    <3>3. /\ "persisting" \in HandlerSteps /\ file' = [file EXCEPT ![s] = file[s]]
          /\ verifications' \in [Submissions -> Nat] /\ faults' \in Nat
      BY <1>1, <1>6, <2>1 DEF HandlerSteps, Types, SyncCheck
    <3> QED BY <1>1, <1>6, <2>1, <3>2, <3>3, InvRequest DEF SyncCheck
  <2>2. CASE Refuse(s)
    BY <1>1, <1>6, <2>2, InvRefuse DEF SyncCheck
  <2> QED BY <1>6, <2>1, <2>2 DEF SyncCheck
<1>7. CASE SyncPersist(s)
  <2>1. handler'[s] = "answered" /\ idOf'[s] = 0 /\ file'[s] = file[s]
        /\ file[s] # "present"
    BY <1>1, <1>7 DEF SyncPersist, Types, HandlerTo, HandlerOK, Early
  <2>2. HandlerOK(s)'
    BY <2>1 DEF HandlerOK
  <2>3. "answered" \in HandlerSteps /\ file' = [file EXCEPT ![s] = file[s]]
    BY <1>1, <1>7 DEF HandlerSteps, Types, SyncPersist
  <2>4. verifications' \in [Submissions -> Nat] /\ faults' \in Nat
    <3>1. verifications[s] + 1 \in Nat
      BY <1>1 DEF Types
    <3> QED BY <1>1, <1>7, <3>1 DEF Types, SyncPersist, DbFault, Fault
  <2> QED BY <1>1, <1>7, <2>2, <2>3, <2>4, InvRequest DEF SyncPersist
<1> QED
  BY <1>2, <1>3, <1>4, <1>5, <1>6, <1>7 DEF Handler

\* What is known of the requests does not depend on slots and jobs.
LEMMA RequestsKept ==
    ASSUME IInv, UNCHANGED <<apiVars, nextId, redis, scenario, row>>
    PROVE  /\ \A s \in Submissions : HandlerOK(s)'
           /\ nextId' <= Cardinality(Added') + 1
<1>1. RowsKeep
  BY NoRowMoves
<1> QED
  BY <1>1, HandlersKept DEF IInv, Added, apiVars, RowsKeep

\* queue.add.
LEMMA InvAddJob ==
    ASSUME IInv, NEW s \in Submissions, AddJob(s)
    PROVE  IInv'
<1>1. Types /\ HandlerOK(s) /\ handler[s] = "adding"
  BY DEF IInv, AddJob
<1>2. idOf[s] = 0
  BY <1>1 DEF HandlerOK, Early
<1>3. nextId \in Ids /\ Cardinality(Added \cup {s}) = Cardinality(Added) + 1
  BY <1>2, NextIdIsFree
<1>4. PICK i \in Ids : i = nextId
  BY <1>3
<1> DEFINE j == [state |-> "waiting", for |-> s, attemptsMade |-> 0, stalled |-> 0]
<1>5. /\ mq' = [mq EXCEPT ![i] = j] /\ idOf' = [idOf EXCEPT ![s] = i] /\ nextId' = i + 1
      /\ handler' = [handler EXCEPT ![s] = "recording"]
      /\ UNCHANGED <<redis, scenario, file, row, slot, verifications, faults>>
  BY <1>4 DEF AddJob, HandlerTo
<1>6. /\ j \in Job /\ j.for = s /\ j.state = "waiting" /\ j.attemptsMade = 0 /\ j.stalled = 0
  BY AttemptsAssumption DEF Job
<1> HIDE DEF j
<1>7. i \in Nat \ {0}
  BY IdsAreNat
<1>8. /\ mq'[i] = j /\ \A k \in Ids : k # i => mq'[k] = mq[k]
      /\ idOf'[s] = i /\ \A t \in Submissions : t # s => idOf'[t] = idOf[t]
      /\ handler'[s] = "recording" /\ \A t \in Submissions : t # s => handler'[t] = handler[t]
  BY <1>1, <1>5 DEF Types
<1>9. Types'
  <2>1. /\ mq' \in [Ids -> Job \cup {NoJob}]
        /\ idOf' \in [Submissions -> {0} \cup Ids]
        /\ nextId' \in Nat \ {0}
    BY <1>1, <1>5, <1>6, <1>7 DEF Types
  <2> QED BY <1>1, <1>5, <2>1 DEF Types
<1>10. nextId' <= Cardinality(Added') + 1
  <2>1. Added' = Added \cup {s}
    BY <1>7, <1>8 DEF Added
  <2>2. Cardinality(Added) \in Nat
    BY FiniteAssumption, FS_Subset, FS_CardinalityType DEF Added
  <2>3. i <= Cardinality(Added) + 1 /\ nextId' = i + 1
    BY <1>4, <1>5 DEF IInv
  <2> QED BY <1>3, <1>7, <2>1, <2>2, <2>3
<1>11. \A t \in Submissions : HandlerOK(t)'
  <2> SUFFICES ASSUME NEW t \in Submissions PROVE HandlerOK(t)'
    OBVIOUS
  <2>1. HandlerOK(t) /\ file' = file /\ row' = row
    BY <1>5 DEF IInv
  <2>2. CASE t = s
    BY <1>1, <1>8, <2>1, <2>2 DEF HandlerOK, Early
  <2>3. CASE t # s
    BY <1>8, <2>1, <2>3 DEF HandlerOK, RowOf
  <2> QED BY <2>2, <2>3
<1>12. \A k \in Ids : JobOK(k)'
  <2> SUFFICES ASSUME NEW k \in Ids PROVE JobOK(k)'
    OBVIOUS
  <2>1. CASE k = i
    BY <1>5, <1>6, <1>7, <1>8, <2>1, AttemptsAssumption DEF JobOK
  <2>2. CASE k # i
    <3> SUFFICES ASSUME mq[k].state # "none"
                 PROVE  /\ idOf'[mq[k].for] = k
                        /\ k < nextId'
                        /\ Live(k) => mq[k].attemptsMade < MaxAttempts /\ mq[k].stalled <= 1
      BY <1>8, <2>2 DEF JobOK, Live
    <3>1. idOf[mq[k].for] = k /\ k < nextId /\ mq[k].for \in Submissions
      BY JobType DEF IInv, JobOK
    <3>2. k # 0 /\ k \in Nat
      BY IdsAreNat
    <3>3. mq[k].for # s
      BY <1>2, <3>1, <3>2
    <3>4. idOf'[mq[k].for] = k
      BY <1>8, <3>1, <3>3
    <3>5. k < nextId'
      BY <1>4, <1>5, <1>7, <3>1, <3>2
    <3> QED BY <3>4, <3>5, JobType
  <2> QED BY <2>1, <2>2
<1>13. mq[i].state = "none"
  BY <1>4, <1>7 DEF IInv, JobOK
<1>14. \A w \in Slots : LockOK(w)' /\ RunOK(w)'
  <2> SUFFICES ASSUME NEW w \in Slots PROVE LockOK(w)' /\ RunOK(w)'
    OBVIOUS
  <2>1. LockOK(w) /\ RunOK(w) /\ slot' = slot /\ row' = row
    BY <1>5 DEF IInv
  <2>2. Running(w) => slot[w].id \in Ids
    BY <1>1 DEF Types, Running, Execution, Idle
  <2>3. Running(w) /\ slot[w].locked => slot[w].id # i
    BY <1>13, <2>1 DEF LockOK
  <2>4. Running(w) /\ slot[w].locked => mq'[slot[w].id] = mq[slot[w].id]
    BY <1>8, <2>2, <2>3
  <2> QED BY <2>1, <2>4 DEF LockOK, RunOK, Running, RowOf
<1>15. OneHolder'
  BY <1>5 DEF IInv, OneHolder, Holds, Running
<1> QED
  BY <1>9, <1>10, <1>11, <1>12, <1>14, <1>15 DEF IInv

\* A job without a holder moves: taken jobs aside, Promote and Recover.
LEMMA InvMove ==
    ASSUME IInv, NEW i \in Ids, Live(i), NEW x, JobMoves(i, x),
           \A w \in Slots : ~Holds(w, i),
           UNCHANGED <<apiVars, nextId, redis, scenario, row, slot, verifications, faults>>
    PROVE  IInv'
<1>1. Types'
  BY DEF IInv, Types, JobMoves, apiVars
<1>2. \A j \in Ids : JobOK(j)'
  BY JobsKept DEF apiVars
<1>3. \A w \in Slots : LockOK(w)' /\ RunOK(w)'
  <2> SUFFICES ASSUME NEW w \in Slots PROVE LockOK(w)' /\ RunOK(w)'
    OBVIOUS
  <2>1. LockOK(w) /\ RunOK(w)
    BY DEF IInv
  <2>2. Running(w) => slot[w].id \in Ids
    BY DEF IInv, Types, Running, Execution, Idle
  <2>3. Running(w) /\ slot[w].locked => mq'[slot[w].id] = mq[slot[w].id]
    BY <2>2 DEF JobMoves, Holds
  <2> QED BY <2>1, <2>3 DEF LockOK, RunOK, Running, RowOf
<1>4. OneHolder'
  BY DEF IInv, OneHolder, Holds, Running
<1> QED
  BY <1>1, <1>2, <1>3, <1>4, RequestsKept DEF IInv

\* Without a holder, in the words of the module.
LEMMA NoHolders ==
    ASSUME Types, NEW i \in Ids, Holders(i) = {}
    PROVE  \A w \in Slots : ~Holds(w, i)
BY DEF Holders, Holds, Running, Idle

\* Only an active job has a holder.
LEMMA HeldIsActive ==
    ASSUME IInv, NEW i \in Ids, NEW w \in Slots, Holds(w, i)
    PROVE  mq[i].state = "active"
BY DEF IInv, LockOK, Holds

\* The queue's own moves.
LEMMA InvQueue ==
    ASSUME IInv, NEW i \in Ids, Promote(i) \/ Recover(i)
    PROVE  IInv'
<1>1. CASE Promote(i)
  <2>1. Live(i) /\ \A w \in Slots : ~Holds(w, i)
    BY <1>1, HeldIsActive DEF Promote, Live
  <2>2. JobMoves(i, "waiting")
    BY <1>1, <2>1, JobRestated DEF Promote, States
  <2> QED BY <1>1, <2>1, <2>2, InvMove DEF Promote
<1>2. CASE Recover(i)
  <2>1. Live(i) /\ \A w \in Slots : ~Holds(w, i)
    BY <1>2, NoHolders DEF Recover, Live, IInv
  <2>2. PICK x \in {"waiting", "failed"} : JobMoves(i, x)
    BY <1>2, <2>1, JobRequeued DEF Recover
  <2> QED BY <1>2, <2>1, <2>2, InvMove DEF Recover
<1> QED BY <1>1, <1>2

\* A slot is given an execution, or freed, and the job it is about moves:
\* no other execution holds that job's lock.
LEMMA OthersKept ==
    ASSUME IInv, NEW w \in Slots, NEW v \in Slots, v # w, slot'[v] = slot[v], row' = row,
           NEW i \in Ids, NEW x, JobMoves(i, x) \/ mq' = mq, ~Holds(v, i)
    PROVE  LockOK(v)' /\ RunOK(v)' /\ \A j \in Ids : Holds(v, j)' <=> Holds(v, j)
<1>1. LockOK(v) /\ RunOK(v)
  BY DEF IInv
<1>2. Running(v) => slot[v].id \in Ids
  BY DEF IInv, Types, Running, Execution, Idle
<1>3. Running(v) /\ slot[v].locked => mq'[slot[v].id] = mq[slot[v].id]
  BY <1>2 DEF JobMoves, Holds
<1>4. LockOK(v)'
  BY <1>1, <1>3 DEF LockOK, Running
<1>5. RunOK(v)'
  BY <1>1 DEF RunOK, RowOf
<1>6. \A j \in Ids : Holds(v, j)' <=> Holds(v, j)
  BY DEF Holds, Running
<1> QED
  BY <1>4, <1>5, <1>6

\* A worker takes a job: what the new execution and its job look like.
LEMMA TakeFields ==
    ASSUME IInv, NEW w \in Slots, NEW i \in Ids, Take(w, i)
    PROVE  /\ Live(i) /\ JobMoves(i, "active") /\ mq'[i].attemptsMade = mq[i].attemptsMade
           /\ slot' \in [Slots -> Execution \cup {Idle}]
           /\ slot'[w].pc = "find" /\ slot'[w].id = i /\ slot'[w].for = mq[i].for
           /\ slot'[w].attempt = mq[i].attemptsMade /\ slot'[w].locked
           /\ \A v \in Slots : v # w => slot'[v] = slot[v]
           /\ \A v \in Slots : ~Holds(v, i)
           /\ ~Running(w)
<1>1. Live(i) /\ mq[i].state = "waiting"
  BY DEF Take, Live
<1>2. JobMoves(i, "active") /\ mq'[i].attemptsMade = mq[i].attemptsMade
  BY <1>1, JobRestated DEF Take, States
<1>3. mq[i].for \in Submissions /\ mq[i].attemptsMade \in 0 .. MaxAttempts
  BY <1>1, JobType
<1> DEFINE e == [pc |-> "find", id |-> i, for |-> mq[i].for, attempt |-> mq[i].attemptsMade,
                 locked |-> TRUE]
<1>4. /\ e \in Execution /\ e.pc = "find" /\ e.id = i /\ e.for = mq[i].for
      /\ e.attempt = mq[i].attemptsMade /\ e.locked
  BY <1>3 DEF Execution
<1>5. slot' = [slot EXCEPT ![w] = e]
  BY DEF Take
<1> HIDE DEF e
<1>6. /\ slot' \in [Slots -> Execution \cup {Idle}] /\ slot'[w] = e
      /\ \A v \in Slots : v # w => slot'[v] = slot[v]
  BY <1>4, <1>5 DEF IInv, Types
<1>7. \A v \in Slots : ~Holds(v, i)
  BY <1>1, HeldIsActive
<1>8. ~Running(w)
  BY DEF Take, At, Running
<1> QED
  BY <1>1, <1>2, <1>4, <1>6, <1>7, <1>8

\* A worker takes a job.
LEMMA InvTake ==
    ASSUME IInv, NEW w \in Slots, NEW i \in Ids, Take(w, i)
    PROVE  IInv'
<1>1. /\ Live(i) /\ JobMoves(i, "active") /\ mq'[i].attemptsMade = mq[i].attemptsMade
      /\ slot' \in [Slots -> Execution \cup {Idle}]
      /\ slot'[w].pc = "find" /\ slot'[w].id = i /\ slot'[w].for = mq[i].for
      /\ slot'[w].attempt = mq[i].attemptsMade /\ slot'[w].locked
      /\ \A v \in Slots : v # w => slot'[v] = slot[v]
      /\ \A v \in Slots : ~Holds(v, i)
  BY TakeFields
<1>2. UNCHANGED <<apiVars, nextId, redis, scenario, row, verifications, faults>>
  BY DEF Take
<1>3. Types'
  BY <1>1, <1>2 DEF IInv, Types, JobMoves, apiVars
<1>4. \A j \in Ids : JobOK(j)'
  BY <1>1, <1>2, JobsKept DEF apiVars
<1>5. \A v \in Slots : v # w =>
        LockOK(v)' /\ RunOK(v)' /\ \A j \in Ids : Holds(v, j)' <=> Holds(v, j)
  BY <1>1, <1>2, OthersKept
<1>6. LockOK(w)' /\ RunOK(w)'
  BY <1>1 DEF LockOK, RunOK, AfterRow, JobMoves
<1>7. OneHolder'
  <2> SUFFICES ASSUME NEW u \in Slots, NEW v \in Slots, NEW j \in Ids, Holds(u, j)', Holds(v, j)'
               PROVE  u = v
    BY DEF OneHolder
  <2>1. \A y \in Slots : y # w /\ Holds(y, j)' => j # i
    BY <1>1, <1>5
  <2>2. Holds(w, j)' => j = i
    BY <1>1 DEF Holds
  <2>3. u # w /\ v # w => Holds(u, j) /\ Holds(v, j)
    BY <1>5
  <2> QED BY <2>1, <2>2, <2>3 DEF IInv, OneHolder
<1> QED
  BY <1>2, <1>3, <1>4, <1>5, <1>6, <1>7, RequestsKept DEF IInv

\* An execution ends.  If it held its job's lock, the job is settled or waits
\* for a retry; otherwise the job is no longer its own.
Ends(w) ==
    /\ slot[w].pc \in {"resolve", "reject"}
    /\ slot' = [slot EXCEPT ![w] = Idle]
    /\ \/ slot[w].locked /\ \E x \in {"completed", "delayed", "failed"} :
            /\ JobMoves(slot[w].id, x)
            /\ mq'[slot[w].id].attemptsMade = mq[slot[w].id].attemptsMade + 1
            /\ slot[w].pc = "resolve" <=> x = "completed"
            /\ x = "delayed" <=> x # "completed" /\ slot[w].attempt + 1 < MaxAttempts
       \/ ~slot[w].locked /\ mq' = mq
    /\ UNCHANGED <<apiVars, nextId, redis, scenario, row, verifications, faults>>

\* Resolve and Reject are of this kind.
LEMMA SettleEnds ==
    ASSUME IInv, NEW w \in Slots, Resolve(w) \/ Reject(w)
    PROVE  Ends(w)
<1>1. slot[w] \in Execution
  BY DEF IInv, Types, Idle, Resolve, Reject, At
<1>2. PICK e \in Execution : e = slot[w]
  BY <1>1
<1>3. e.id \in Ids /\ e.attempt \in 0 .. MaxAttempts
  BY DEF Execution
<1>4. e.locked => Live(e.id) /\ mq[e.id].attemptsMade = e.attempt
  BY <1>2 DEF IInv, LockOK, Running, Live, Resolve, Reject, At
<1>5. CASE Resolve(w)
  <2>1. e.locked => JobMoves(e.id, "completed")
                    /\ mq'[e.id].attemptsMade = mq[e.id].attemptsMade + 1
    BY <1>2, <1>3, <1>4, <1>5, JobSettled DEF Resolve, States
  <2> QED BY <1>2, <1>5, <2>1 DEF Resolve, Ends, At
<1>6. CASE Reject(w)
  <2>1. PICK x \in {"delayed", "failed"} : x = IF e.attempt + 1 < MaxAttempts THEN "delayed" ELSE "failed"
    OBVIOUS
  <2>2. e.locked => mq' = [mq EXCEPT ![e.id].state = x, ![e.id].attemptsMade = @ + 1]
    BY <1>2, <1>6, <2>1 DEF Reject
  <2>3. x = "failed" \/ e.attempt + 1 < MaxAttempts
    BY <2>1
  <2>4. e.locked => JobMoves(e.id, x) /\ mq'[e.id].attemptsMade = mq[e.id].attemptsMade + 1
    BY <1>3, <1>4, <2>2, <2>3, JobSettled DEF States
  <2>5. ~e.locked => mq' = mq
    BY <1>2, <1>6 DEF Reject
  <2>6. e.pc = "reject" /\ slot' = [slot EXCEPT ![w] = Idle]
        /\ UNCHANGED <<apiVars, nextId, redis, scenario, row, verifications, faults>>
    BY <1>2, <1>6 DEF Reject, At
  <2>7. x = "delayed" <=> x # "completed" /\ e.attempt + 1 < MaxAttempts
    BY <2>1
  <2> QED BY <1>2, <2>1, <2>4, <2>5, <2>6, <2>7 DEF Ends
<1> QED BY <1>5, <1>6

\* The end of an execution.
LEMMA InvEnd ==
    ASSUME IInv, NEW w \in Slots, Ends(w)
    PROVE  IInv'
<1>1. /\ slot[w] \in Execution /\ Running(w)
      /\ slot' \in [Slots -> Execution \cup {Idle}]
      /\ slot'[w] = Idle /\ \A v \in Slots : v # w => slot'[v] = slot[v]
      /\ UNCHANGED <<apiVars, nextId, redis, scenario, row, verifications, faults>>
  BY DEF IInv, Types, Ends, Idle, Running
<1>2. PICK i \in Ids : i = slot[w].id
  BY <1>1 DEF Execution
<1>3. (slot[w].locked /\ \E x : JobMoves(i, x)) \/ (~slot[w].locked /\ mq' = mq)
  BY <1>2 DEF Ends
<1>4. slot[w].locked => Live(i)
  BY <1>1, <1>2 DEF IInv, LockOK, Live
<1>5. Types' /\ \A j \in Ids : JobOK(j)'
  <2>1. CASE mq' = mq
    BY <1>1, <2>1 DEF IInv, Types, apiVars, JobOK, Live
  <2>2. CASE slot[w].locked
    <3>1. PICK x : JobMoves(i, x)
      BY <1>3, <2>2
    <3>2. \A j \in Ids : JobOK(j)'
      BY <1>1, <1>4, <2>2, <3>1, JobsKept DEF apiVars
    <3>3. Types'
      BY <1>1, <3>1 DEF IInv, Types, apiVars, JobMoves
    <3> QED BY <3>2, <3>3
  <2> QED BY <1>3, <2>1, <2>2
<1>6. \A v \in Slots : v # w =>
        LockOK(v)' /\ RunOK(v)' /\ \A j \in Ids : Holds(v, j)' <=> Holds(v, j)
  <2> SUFFICES ASSUME NEW v \in Slots, v # w
               PROVE  LockOK(v)' /\ RunOK(v)' /\ \A j \in Ids : Holds(v, j)' <=> Holds(v, j)
    OBVIOUS
  <2>1. slot[w].locked => ~Holds(v, i)
    BY <1>1, <1>2 DEF IInv, OneHolder, Holds
  <2>2. CASE slot[w].locked
    BY <1>1, <1>3, <2>1, <2>2, OthersKept
  <2>3. CASE mq' = mq
    BY <1>1, <2>3 DEF IInv, LockOK, RunOK, Running, RowOf, Holds
  <2> QED BY <1>3, <2>2, <2>3
<1>7. LockOK(w)' /\ RunOK(w)' /\ \A j \in Ids : ~Holds(w, j)'
  BY <1>1 DEF LockOK, RunOK, Running, Idle, AfterRow, Holds
<1>8. OneHolder'
  BY <1>6, <1>7 DEF IInv, OneHolder
<1> QED
  BY <1>1, <1>5, <1>6, <1>7, <1>8, RequestsKept DEF IInv

\* An execution that loses its lock, and what of it changes.
Unlocks(w) ==
    /\ slot[w] \in Execution /\ slot'[w] \in Execution
    /\ slot'[w].pc = slot[w].pc /\ slot'[w].id = slot[w].id /\ slot'[w].for = slot[w].for
    /\ ~slot'[w].locked

\* What it is to lose the lock.
LEMMA UnlockFields ==
    ASSUME NEW w \in Slots, slot[w] \in Execution, slot'[w] = [slot[w] EXCEPT !.locked = FALSE]
    PROVE  Unlocks(w)
<1> DEFINE e == [slot[w] EXCEPT !.locked = FALSE]
<1>1. /\ e \in Execution /\ ~e.locked
      /\ e.pc = slot[w].pc /\ e.id = slot[w].id /\ e.for = slot[w].for
  BY Zenon DEF Execution
<1> HIDE DEF e
<1>2. slot'[w] = e
  BY DEF e
<1> QED BY <1>1, <1>2, Zenon DEF Unlocks

\* Losing its lock leaves an execution with nothing but its place.
LEMMA UnlockedOK ==
    ASSUME IInv, NEW w \in Slots, Unlocks(w), row' = row
    PROVE  LockOK(w)' /\ RunOK(w)' /\ \A j \in Ids : ~Holds(w, j)'
<1>1. RunOK(w)
  BY DEF IInv
<1>2. RunOK(w)'
  BY <1>1 DEF Unlocks, RunOK, RowOf
<1> QED
  BY <1>2 DEF Unlocks, LockOK, Holds

\* One execution loses its lock and BullMQ puts its job back.
LEMMA StallFields ==
    ASSUME IInv, NEW i \in Ids, Stall(i)
    PROVE  \E w \in Slots, x \in {"waiting", "failed"} :
             /\ Holds(w, i) /\ Unlocks(w)
             /\ slot' \in [Slots -> Execution \cup {Idle}]
             /\ \A v \in Slots : v # w => slot'[v] = slot[v]
             /\ Live(i) /\ JobMoves(i, x)
<1>1. PICK w \in Holders(i) : slot' = [slot EXCEPT ![w].locked = FALSE]
  BY DEF Stall
<1>2. w \in Slots /\ slot[w] \in Execution
  BY <1>1 DEF Holders, IInv, Types
<1>3. Holds(w, i)
  <2>1. slot[w].pc # "idle"
    BY <1>2 DEF Execution
  <2> QED BY <1>1, <2>1, Zenon DEF Holders, Holds, Running
<1> DEFINE e == [slot[w] EXCEPT !.locked = FALSE]
<1>4. slot' = [slot EXCEPT ![w] = e]
  BY <1>1, Zenon
<1>5. e \in Execution
  BY <1>2, Zenon DEF Execution
<1> HIDE DEF e
<1>6. /\ slot' \in [Slots -> Execution \cup {Idle}] /\ slot'[w] = e
      /\ \A v \in Slots : v # w => slot'[v] = slot[v]
  BY <1>2, <1>4, <1>5 DEF IInv, Types
<1>7. Unlocks(w)
  BY <1>2, <1>6, UnlockFields DEF e
<1>8. Live(i)
  BY DEF Stall, Live
<1>9. PICK x \in {"waiting", "failed"} : JobMoves(i, x)
  BY <1>8, JobRequeued DEF Stall
<1> QED
  BY <1>2, <1>3, <1>6, <1>7, <1>8, <1>9

\* A lost lock.
LEMMA InvStall ==
    ASSUME IInv, NEW i \in Ids, Stall(i)
    PROVE  IInv'
<1>1. PICK w \in Slots, x \in {"waiting", "failed"} :
        /\ Holds(w, i) /\ Unlocks(w)
        /\ slot' \in [Slots -> Execution \cup {Idle}]
        /\ \A v \in Slots : v # w => slot'[v] = slot[v]
        /\ Live(i) /\ JobMoves(i, x)
  BY StallFields
<1>2. UNCHANGED <<apiVars, nextId, redis, scenario, row, verifications>> /\ faults' = faults + 1
  BY DEF Stall, Fault
<1>3. Types'
  BY <1>1, <1>2 DEF IInv, Types, JobMoves, apiVars
<1>4. \A j \in Ids : JobOK(j)'
  BY <1>1, <1>2, JobsKept DEF apiVars
<1>5. \A v \in Slots : v # w =>
        LockOK(v)' /\ RunOK(v)' /\ \A j \in Ids : Holds(v, j)' <=> Holds(v, j)
  <2>1. \A v \in Slots : v # w => ~Holds(v, i)
    BY <1>1 DEF IInv, OneHolder
  <2> QED BY <1>1, <1>2, <2>1, OthersKept
<1>6. LockOK(w)' /\ RunOK(w)' /\ \A j \in Ids : ~Holds(w, j)'
  BY <1>1, <1>2, UnlockedOK
<1>7. OneHolder'
  BY <1>5, <1>6 DEF IInv, OneHolder
<1> QED
  BY <1>2, <1>3, <1>4, <1>5, <1>6, <1>7, RequestsKept DEF IInv

\* The process dies.
LEMMA InvCrash ==
    ASSUME IInv, Crash
    PROVE  IInv'
<1>1. /\ slot' = [w \in Slots |-> Idle]
      /\ \A s \in Submissions : handler'[s] \in {handler[s], "lost"}
      /\ \A s \in Submissions : handler[s] = "refused" => handler'[s] = "refused"
      /\ UNCHANGED <<idOf, file, queueVars, row, verifications>> /\ faults' = faults + 1
  BY DEF Crash, Fault
<1>2. Types'
  <2>1. handler' \in [Submissions -> HandlerSteps]
    BY DEF Crash, IInv, Types, HandlerSteps
  <2> QED BY <1>1, <2>1 DEF IInv, Types, HandlerSteps, queueVars
<1>3. nextId' <= Cardinality(Added') + 1
  BY <1>1 DEF IInv, Added, queueVars
<1>4. \A s \in Submissions : HandlerOK(s)'
  <2> SUFFICES ASSUME NEW s \in Submissions PROVE HandlerOK(s)'
    OBVIOUS
  <2>1. HandlerOK(s)
    BY DEF IInv
  <2>2. CASE handler'[s] = handler[s]
    BY <1>1, <2>1, <2>2 DEF HandlerOK, RowOf
  <2>3. CASE handler'[s] = "lost"
    BY <1>1, <2>1, <2>3 DEF HandlerOK, Early
  <2> QED BY <1>1, <2>2, <2>3
<1>5. \A i \in Ids : JobOK(i)'
  BY <1>1 DEF IInv, JobOK, Live, queueVars
<1>6. \A w \in Slots : LockOK(w)' /\ RunOK(w)' /\ \A i \in Ids : ~Holds(w, i)'
  BY <1>1 DEF LockOK, RunOK, Running, Idle, AfterRow, Holds
<1>7. OneHolder'
  BY <1>6 DEF OneHolder
<1> QED
  BY <1>2, <1>3, <1>4, <1>5, <1>6, <1>7 DEF IInv

\* Redis loses the queue: what that does to the executions.
LEMMA LoseFields ==
    ASSUME IInv, LoseQueue
    PROVE  /\ slot' \in [Slots -> Execution \cup {Idle}]
           /\ \A w \in Slots : (slot[w] = Idle /\ slot'[w] = Idle) \/ Unlocks(w)
<1>1. slot' = [w \in Slots |-> IF slot[w] = Idle THEN Idle ELSE [slot[w] EXCEPT !.locked = FALSE]]
  BY DEF LoseQueue
<1>2. \A w \in Slots : slot[w] # Idle => Unlocks(w)
  <2> SUFFICES ASSUME NEW w \in Slots, slot[w] # Idle PROVE Unlocks(w)
    OBVIOUS
  <2>1. slot[w] \in Execution
    BY DEF IInv, Types
  <2>2. slot'[w] = [slot[w] EXCEPT !.locked = FALSE]
    BY <1>1
  <2> QED BY <2>1, <2>2, UnlockFields
<1>3. \A w \in Slots : slot[w] = Idle => slot'[w] = Idle
  BY <1>1
<1>4. \A w \in Slots : slot'[w] \in Execution \cup {Idle}
  BY <1>2, <1>3 DEF Unlocks
<1>5. slot' \in [Slots -> Execution \cup {Idle}]
  BY <1>1, <1>4
<1> QED
  BY <1>2, <1>3, <1>5

\* Redis loses the queue.
LEMMA InvLoseQueue ==
    ASSUME IInv, LoseQueue
    PROVE  IInv'
<1>1. /\ slot' \in [Slots -> Execution \cup {Idle}]
      /\ \A w \in Slots : (slot[w] = Idle /\ slot'[w] = Idle) \/ Unlocks(w)
  BY LoseFields
<1>2. /\ mq' = [i \in Ids |-> NoJob] /\ nextId' = 1
      /\ UNCHANGED <<apiVars, redis, scenario, row, verifications>> /\ faults' = faults + 1
  BY DEF LoseQueue, Fault
<1>3. Types'
  BY <1>1, <1>2 DEF IInv, Types, apiVars
<1>4. nextId' <= Cardinality(Added') + 1
  <2>1. Cardinality(Added') \in Nat
    BY FiniteAssumption, FS_Subset, FS_CardinalityType DEF Added
  <2> QED BY <1>2, <2>1
<1>5. \A s \in Submissions : HandlerOK(s)'
  BY <1>2, NoRowMoves, HandlersKept
<1>6. \A i \in Ids : JobOK(i)'
  BY <1>2 DEF JobOK, NoJob
<1>7. \A w \in Slots : LockOK(w)' /\ RunOK(w)' /\ \A i \in Ids : ~Holds(w, i)'
  <2> SUFFICES ASSUME NEW w \in Slots
               PROVE  LockOK(w)' /\ RunOK(w)' /\ \A i \in Ids : ~Holds(w, i)'
    OBVIOUS
  <2>1. CASE slot'[w] = Idle
    BY <2>1 DEF LockOK, RunOK, Running, Idle, AfterRow, Holds
  <2>2. CASE Unlocks(w)
    BY <1>2, <2>2, UnlockedOK
  <2> QED BY <1>1, <2>1, <2>2
<1>8. OneHolder'
  BY <1>7 DEF OneHolder
<1> QED
  BY <1>3, <1>4, <1>5, <1>6, <1>7, <1>8 DEF IInv

\* A step that changes nothing.
LEMMA InvStutter ==
    ASSUME IInv, UNCHANGED vars
    PROVE  IInv'
BY DEF vars, apiVars, queueVars, IInv, Types, Added, HandlerOK, JobOK, LockOK, RunOK, OneHolder,
   Holds, Running, Live, RowOf

\* The initial states.
LEMMA InvInit ==
    ASSUME Init
    PROVE  IInv
<1>1. /\ handler = [s \in Submissions |-> "idle"] /\ idOf = [s \in Submissions |-> 0]
      /\ file = [s \in Submissions |-> "none"] /\ mq = [i \in Ids |-> NoJob] /\ nextId = 1
      /\ redis \in RedisModes /\ row = [i \in Ids |-> NoRow]
      /\ slot = [w \in Slots |-> Idle] /\ verifications = [s \in Submissions |-> 0] /\ faults = 0
      /\ scenario \in Scenarios
  BY DEF Init
<1>2. Types
  BY <1>1 DEF Types
<1>3. Added = {}
  BY <1>1 DEF Added
<1>4. nextId <= Cardinality(Added) + 1
  BY <1>1, <1>3, FS_EmptySet
<1>5. \A s \in Submissions : HandlerOK(s)
  BY <1>1 DEF HandlerOK, Early
<1>6. \A i \in Ids : JobOK(i)
  BY <1>1 DEF JobOK, NoJob
<1>7. \A w \in Slots : LockOK(w) /\ RunOK(w)
  BY <1>1 DEF LockOK, RunOK, Running, Idle, AfterRow
<1>8. OneHolder
  BY <1>1 DEF OneHolder, Holds, Running, Idle
<1> QED
  BY <1>2, <1>4, <1>5, <1>6, <1>7, <1>8 DEF IInv

\* The invariant is inductive.
LEMMA InvNext ==
    ASSUME IInv, [Next]_vars
    PROVE  IInv'
<1>1. ASSUME NEW s \in Submissions, Handler(s) PROVE IInv'
  BY <1>1, InvAddJob, InvHandler
<1>2. ASSUME NEW w \in Slots, Execute(w) PROVE IInv'
  <2>1. CASE \E i \in Ids : Take(w, i)
    BY <2>1, InvTake
  <2>2. CASE Stepping(w)
    BY <2>2, StepEffects, InvStep
  <2>3. CASE Resolve(w) \/ Reject(w)
    BY <2>3, SettleEnds, InvEnd
  <2> QED BY <1>2, <2>1, <2>2, <2>3 DEF Execute, Stepping
<1>3. ASSUME NEW i \in Ids, Promote(i) \/ Recover(i) \/ Stall(i) PROVE IInv'
  BY <1>3, InvQueue, InvStall
<1>4. CASE Finished \/ UNCHANGED vars
  BY <1>4, InvStutter DEF Finished
<1> QED
  BY <1>1, <1>2, <1>3, <1>4, InvCrash, InvLoseQueue DEF Next

\* What the parts of the invariant say of the properties.
LEMMA InvImplies ==
    ASSUME IInv
    PROVE  TypeOK /\ UploadsFollowAnswers
<1>1. nextId \in 1 .. Cardinality(Submissions) + 1
  <2>1. Cardinality(Added) <= Cardinality(Submissions) /\ Cardinality(Added) \in Nat
    BY FiniteAssumption, FS_Subset, FS_CardinalityType DEF Added
  <2> QED BY <2>1, IdsAreNat DEF IInv, Types
<1>2. TypeOK
  BY <1>1 DEF IInv, Types, TypeOK
<1>3. UploadsFollowAnswers
  BY DEF UploadsFollowAnswers, IInv, HandlerOK
<1> QED
  BY <1>2, <1>3

\* Every state is of its type: job ids never run out and attempts, stalls and
\* rows stay within their bounds.
THEOREM TypeCorrect == Spec => []TypeOK
<1>1. Init => IInv
  BY InvInit
<1>2. IInv /\ [Next]_vars => IInv'
  BY InvNext
<1>3. IInv => TypeOK
  BY InvImplies
<1> QED BY <1>1, <1>2, <1>3, PTL DEF Spec

\* A queued job loses its upload only to its own request, refused after all;
\* and a request refused or verified in place has tried to remove its upload,
\* at whichever of its steps it failed.
THEOREM UploadsAreFollowed == Spec => []UploadsFollowAnswers
<1>1. Init => IInv
  BY InvInit
<1>2. IInv /\ [Next]_vars => IInv'
  BY InvNext
<1>3. IInv => UploadsFollowAnswers
  BY InvImplies
<1> QED BY <1>1, <1>2, <1>3, PTL DEF Spec

-------------------------------------------------------------------------------
(*****************************************************************************)
(* Job ids are given out again once Redis has lost its counter, but a row    *)
(* only ever says something of the submissions that were given its id, and   *)
(* the unique job id lets one of these be accepted.                          *)
(*****************************************************************************)

\* An execution is of a submission that was given its job's id.
Placed(w) == Running(w) => idOf[slot[w].for] = slot[w].id

\* Row i speaks of submissions that were given the id i.
Spoken(i) == \A t \in Submissions : Names(row[i], t) => idOf[t] = i

\* Accepted submissions have ids of their own.
Apart ==
    \A s, t \in Submissions :
        handler[s] = "accepted" /\ handler[t] = "accepted" /\ idOf[s] = idOf[t] => s = t

\* The inductive invariant.
PInv ==
    /\ IInv
    /\ \A w \in Slots : Placed(w)
    /\ \A i \in Ids : Spoken(i)
    /\ Apart

\* A step that gives no id, accepts nobody and writes nothing.
LEMMA PollKept ==
    ASSUME PInv, UNCHANGED <<idOf, row>>,
           \A s \in Submissions : handler'[s] = "accepted" => handler[s] = "accepted",
           \A w \in Slots : \/ slot'[w].pc = "idle"
                            \/ /\ Running(w) /\ slot'[w].for = slot[w].for
                               /\ slot'[w].id = slot[w].id
    PROVE  (\A w \in Slots : Placed(w)') /\ (\A i \in Ids : Spoken(i)') /\ Apart'
<1>1. \A w \in Slots : Placed(w)'
  BY DEF PInv, Placed, Running
<1>2. \A i \in Ids : Spoken(i)'
  BY DEF PInv, Spoken
<1>3. Apart'
  BY DEF PInv, Apart
<1> QED BY <1>1, <1>2, <1>3

\* The request handlers.
LEMMA PollHandler ==
    ASSUME PInv, NEW s \in Submissions, Handler(s)
    PROVE  (\A w \in Slots : Placed(w)') /\ (\A i \in Ids : Spoken(i)') /\ Apart'
<1>1. IInv /\ Types /\ HandlerOK(s)
  BY DEF PInv, IInv
<1>2. CASE CreateRow(s)
  <2>1. PICK i \in Ids : i = idOf[s]
    BY <1>1, <1>2 DEF CreateRow, HandlerOK
  <2>2. /\ row[i] = NoRow /\ (\A j \in Ids : j # i => row'[j] = row[j])
        /\ row'[i].hash = "none" /\ row'[i].result = "none"
        /\ UNCHANGED <<idOf, slot>>
        /\ \A t \in Submissions : t # s => handler'[t] = handler[t]
    BY <1>1, <1>2, <2>1 DEF CreateRow, HandlerTo, Types
  <2>3. \A w \in Slots : Placed(w)'
    BY <2>2 DEF PInv, Placed, Running
  <2>4. ASSUME NEW j \in Ids PROVE Spoken(j)'
    <3>1. CASE j = i
      BY <2>2, <3>1, NoneAssumption DEF Spoken, Names
    <3>2. CASE j # i
      BY <2>2, <3>2 DEF PInv, Spoken
    <3> QED BY <3>1, <3>2
  <2>5. \A t \in Submissions : handler[t] = "accepted" => idOf[t] # i
    <3> SUFFICES ASSUME NEW t \in Submissions, handler[t] = "accepted", idOf[t] = i
                 PROVE  FALSE
      OBVIOUS
    <3>1. RowOf(idOf[t])
      BY <1>1 DEF IInv, HandlerOK
    <3> QED BY <2>2, <3>1 DEF RowOf, NoRow
  <2>6. Apart'
    BY <2>1, <2>2, <2>5 DEF PInv, Apart
  <2> QED BY <2>3, <2>4, <2>6
<1>3. CASE AddJob(s)
  <2>1. idOf[s] = 0
    BY <1>1, <1>3 DEF AddJob, HandlerOK, Early
  <2>2. PICK i \in Ids : i = nextId
    BY <1>1, <2>1, NextIdIsFree
  <2>3. /\ UNCHANGED <<row, slot>>
        /\ handler'[s] = "recording" /\ \A t \in Submissions : t # s => handler'[t] = handler[t]
        /\ \A t \in Submissions : t # s => idOf'[t] = idOf[t]
    BY <1>1, <1>3, <2>2 DEF AddJob, HandlerTo, Types
  <2>4. ASSUME NEW w \in Slots PROVE Placed(w)'
    <3>1. Running(w) => slot[w].for \in Submissions /\ slot[w].id \in Ids
      BY <1>1 DEF Types, Running, Execution, Idle
    <3>2. Running(w) => slot[w].for # s
      BY <2>1, <3>1, IdsAreNat DEF PInv, Placed
    <3> QED BY <2>3, <3>1, <3>2 DEF PInv, Placed, Running
  <2>5. ASSUME NEW j \in Ids PROVE Spoken(j)'
    <3>1. \A t \in Submissions : Names(row[j], t) => idOf[t] = j /\ t # s
      BY <2>1, IdsAreNat DEF PInv, Spoken
    <3> QED BY <2>3, <3>1 DEF Spoken
  <2>6. Apart'
    BY <2>3 DEF PInv, Apart
  <2> QED BY <2>4, <2>5, <2>6
<1>4. CASE ~CreateRow(s) /\ ~AddJob(s)
  <2>1. UNCHANGED <<idOf, slot, row>>
    BY <1>4 DEF Handler, Upload, CreateRowFails, SyncHash, SyncCheck, SyncPersist, Refuse
  <2>2. PICK h \in HandlerSteps \ {"accepted"} : handler' = [handler EXCEPT ![s] = h]
    BY <1>4 DEF Handler, Upload, Branch, CreateRowFails, SyncHash, SyncCheck, SyncPersist, Refuse,
       HandlerTo, HandlerSteps
  <2>3. \A t \in Submissions : handler'[t] = "accepted" => handler[t] = "accepted"
    BY <1>1, <2>2 DEF Types
  <2> QED BY <2>1, <2>3, PollKept DEF Running
<1> QED
  BY <1>2, <1>3, <1>4

\* An execution writes its own row, and of its own submission.
LEMMA PollStep ==
    ASSUME PInv, NEW w \in Slots, NEW p \in PCs, StepEffect(w, p)
    PROVE  (\A v \in Slots : Placed(v)') /\ (\A i \in Ids : Spoken(i)') /\ Apart'
<1>1. IInv /\ Types /\ Running(w) /\ Goto(w, p) /\ UNCHANGED <<apiVars, queueVars>>
  BY DEF PInv, IInv, StepEffect
<1>2. /\ slot[w] \in Execution
      /\ slot'[w].id = slot[w].id /\ slot'[w].for = slot[w].for
      /\ \A v \in Slots : v # w => slot'[v] = slot[v]
  BY <1>1, GotoFields
<1>3. PICK e \in Execution : e = slot[w]
  BY <1>2
<1>4. e.id \in Ids /\ e.for \in Submissions /\ idOf[e.for] = e.id
  BY <1>1, <1>3 DEF Execution, PInv, Placed
<1>5. RowMoves(e.id, e.for)
  BY <1>3 DEF StepEffect
<1>6. \A v \in Slots : Placed(v)'
  <2> SUFFICES ASSUME NEW v \in Slots PROVE Placed(v)'
    OBVIOUS
  <2>1. CASE v = w
    BY <1>1, <1>2, <1>3, <1>4, <2>1 DEF Placed, apiVars
  <2>2. CASE v # w
    BY <1>1, <1>2, <2>2 DEF PInv, Placed, Running, apiVars
  <2> QED BY <2>1, <2>2
<1>7. ASSUME NEW i \in Ids PROVE Spoken(i)'
  <2>1. ASSUME NEW t \in Submissions, Names(row'[i], t) PROVE idOf[t] = i
    <3>1. CASE i # e.id
      BY <1>5, <2>1, <3>1 DEF RowMoves, PInv, Spoken
    <3>2. CASE i = e.id /\ t = e.for
      BY <1>4, <3>2
    <3>3. CASE i = e.id /\ t # e.for
      <4>1. Names(row[i], t)
        BY <1>5, <2>1, <3>3 DEF RowMoves
      <4> QED BY <4>1 DEF PInv, Spoken
    <3> QED BY <3>1, <3>2, <3>3
  <2> QED BY <1>1, <2>1 DEF Spoken, apiVars
<1>8. Apart'
  BY <1>1 DEF PInv, Apart, apiVars
<1> QED BY <1>6, <1>7, <1>8

\* Nothing is accepted or said at the start.
LEMMA PollInit ==
    ASSUME Init
    PROVE  PInv
<1>1. IInv
  BY InvInit
<1>2. \A w \in Slots : Placed(w)
  BY DEF Init, Placed, Running, Idle
<1>3. \A i \in Ids : Spoken(i)
  BY DEF Init, Spoken, Names, NoRow
<1>4. Apart
  BY DEF Init, Apart
<1> QED BY <1>1, <1>2, <1>3, <1>4 DEF PInv

\* The invariant is inductive.
LEMMA PollNext ==
    ASSUME PInv, [Next]_vars
    PROVE  PInv'
<1>1. IInv' /\ IInv /\ Types
  BY InvNext DEF PInv, IInv
<1> SUFFICES (\A w \in Slots : Placed(w)') /\ (\A i \in Ids : Spoken(i)') /\ Apart'
  BY <1>1 DEF PInv
<1>2. ASSUME NEW s \in Submissions, Handler(s)
      PROVE  (\A w \in Slots : Placed(w)') /\ (\A i \in Ids : Spoken(i)') /\ Apart'
  BY <1>2, PollHandler
<1>3. ASSUME NEW w \in Slots, NEW i \in Ids, Take(w, i)
      PROVE  (\A v \in Slots : Placed(v)') /\ (\A j \in Ids : Spoken(j)') /\ Apart'
  <2>1. /\ slot'[w].id = i /\ slot'[w].for = mq[i].for
        /\ \A v \in Slots : v # w => slot'[v] = slot[v]
    BY <1>1, <1>3, TakeFields
  <2>2. UNCHANGED <<handler, idOf, row>> /\ mq[i].state # "none"
    BY <1>3 DEF Take, apiVars
  <2>3. idOf[mq[i].for] = i
    BY <1>1, <2>2 DEF IInv, JobOK
  <2>4. \A v \in Slots : Placed(v)'
    <3> SUFFICES ASSUME NEW v \in Slots PROVE Placed(v)'
      OBVIOUS
    <3>1. CASE v = w
      BY <2>1, <2>2, <2>3, <3>1 DEF Placed
    <3>2. CASE v # w
      BY <2>1, <2>2, <3>2 DEF PInv, Placed, Running
    <3> QED BY <3>1, <3>2
  <2>5. (\A j \in Ids : Spoken(j)') /\ Apart'
    BY <2>2 DEF PInv, Spoken, Apart
  <2> QED BY <2>4, <2>5
<1>4. ASSUME NEW w \in Slots, Stepping(w)
      PROVE  (\A v \in Slots : Placed(v)') /\ (\A i \in Ids : Spoken(i)') /\ Apart'
  BY <1>1, <1>4, StepEffects, PollStep
<1>5. ASSUME NEW w \in Slots, Resolve(w) \/ Reject(w)
      PROVE  (\A v \in Slots : Placed(v)') /\ (\A i \in Ids : Spoken(i)') /\ Apart'
  <2>1. UNCHANGED <<handler, idOf, row>> /\ slot' = [slot EXCEPT ![w] = Idle]
    BY <1>5 DEF Resolve, Reject, apiVars
  <2>2. slot'[w].pc = "idle" /\ \A v \in Slots : v # w => slot'[v] = slot[v]
    BY <1>1, <2>1 DEF Types, Idle
  <2> QED BY <2>1, <2>2, PollKept DEF Running
<1>6. ASSUME NEW i \in Ids, Promote(i) \/ Recover(i)
      PROVE  (\A v \in Slots : Placed(v)') /\ (\A j \in Ids : Spoken(j)') /\ Apart'
  <2>1. UNCHANGED <<handler, idOf, row, slot>>
    BY <1>6 DEF Promote, Recover, apiVars
  <2> QED BY <2>1, PollKept DEF Running
<1>7. ASSUME NEW i \in Ids, Stall(i)
      PROVE  (\A v \in Slots : Placed(v)') /\ (\A j \in Ids : Spoken(j)') /\ Apart'
  <2>1. UNCHANGED <<handler, idOf, row>>
    BY <1>7 DEF Stall, apiVars
  <2>2. PICK w \in Slots : Unlocks(w) /\ \A v \in Slots : v # w => slot'[v] = slot[v]
    BY <1>1, <1>7, StallFields
  <2>3. \A v \in Slots : \/ slot'[v].pc = "idle"
                         \/ Running(v) /\ slot'[v].for = slot[v].for /\ slot'[v].id = slot[v].id
    BY <2>2 DEF Unlocks, Running
  <2> QED BY <2>1, <2>3, PollKept
<1>8. CASE Crash
  <2>1. UNCHANGED <<idOf, row>> /\ slot' = [w \in Slots |-> Idle]
        /\ \A s \in Submissions : handler'[s] \in {handler[s], "lost"}
    BY <1>8 DEF Crash
  <2>2. \A w \in Slots : slot'[w].pc = "idle"
    BY <2>1 DEF Idle
  <2> QED BY <2>1, <2>2, PollKept
<1>9. CASE LoseQueue
  <2>1. UNCHANGED <<handler, idOf, row>>
    BY <1>9 DEF LoseQueue, apiVars
  <2>2. \A w \in Slots : (slot[w] = Idle /\ slot'[w] = Idle) \/ Unlocks(w)
    BY <1>1, <1>9, LoseFields
  <2>3. \A v \in Slots : \/ slot'[v].pc = "idle"
                         \/ Running(v) /\ slot'[v].for = slot[v].for /\ slot'[v].id = slot[v].id
    BY <2>2 DEF Unlocks, Running, Idle
  <2> QED BY <2>1, <2>3, PollKept
<1>10. CASE Finished \/ UNCHANGED vars
  <2>1. UNCHANGED <<handler, idOf, row, slot>>
    BY <1>10 DEF Finished, vars, apiVars
  <2> QED BY <2>1, PollKept DEF Running
<1> QED
  BY <1>2, <1>3, <1>4, <1>5, <1>6, <1>7, <1>8, <1>9, <1>10 DEF Next, Execute, Stepping

\* What the invariant says of the property.
LEMMA PollImplies ==
    ASSUME PInv
    PROVE  PollsOwnRow
<1> SUFFICES ASSUME NEW s \in Submissions, handler[s] = "accepted"
             PROVE  /\ row[idOf[s]] # NoRow
                    /\ row[idOf[s]].for = s
                    /\ \A t \in Submissions \ {s} : handler[t] = "accepted" =>
                          /\ idOf[t] # idOf[s]
                          /\ t \notin {row[idOf[s]].hash, row[idOf[s]].result}
  BY DEF PollsOwnRow
<1>1. PICK i \in Ids : i = idOf[s]
  BY DEF PInv, IInv, HandlerOK
<1>2. RowOf(i) /\ row[i].for = s
  BY <1>1 DEF PInv, IInv, HandlerOK
<1>3. \A t \in Submissions \ {s} : handler[t] = "accepted" => idOf[t] # i
  BY <1>1 DEF PInv, Apart
<1>4. \A t \in Submissions : t \in {row[i].hash, row[i].result} => idOf[t] = i
  BY <1>2 DEF PInv, Spoken, Names, RowOf
<1> QED BY <1>1, <1>2, <1>3, <1>4 DEF RowOf, NoRow

\* No two requests answered 200 poll one row, each polls a row about it, and
\* what such a row says of another upload comes from a request that was given
\* the same id again and was not answered 200; whatever fails, stalls, crashes
\* or is lost.
THEOREM AcceptedPollTheirOwn == Spec => []PollsOwnRow
<1>1. Init => PInv
  BY PollInit
<1>2. PInv /\ [Next]_vars => PInv'
  BY PollNext
<1>3. PInv => PollsOwnRow
  BY PollImplies
<1> QED BY <1>1, <1>2, <1>3, PTL DEF Spec

-------------------------------------------------------------------------------
(*****************************************************************************)
(* A submission is recorded at most once more than there were faults.  The   *)
(* bound on the records alone is not inductive: CInv counts with them        *)
(* everyone who may still record, that is the request or the execution that  *)
(* holds, or will hold, its job's lock (at most one debt), and every         *)
(* execution that lost its lock and does not know (a stray).  Recording pays *)
(* one of these off; only a fault makes one more.                            *)
(*****************************************************************************)

\* Executions about s that lost their lock and may still record it.
Strays(s) == {w \in Slots : slot[w].pc \in Recording /\ ~slot[w].locked /\ slot[w].for = s}

\* The request itself, or its job's execution that holds the lock now or will
\* hold it later, may still record s.
Owed(s) ==
    \/ handler[s] \in Early
    \/ /\ idOf[s] \in Ids /\ Live(idOf[s]) /\ mq[idOf[s]].for = s
       /\ \A w \in Slots : Holds(w, idOf[s]) => slot[w].pc \notin {"complete", "resolve"}

\* The bound, with those who may still record.
Counted(s) ==
    verifications[s] + Cardinality(Strays(s)) + (IF Owed(s) THEN 1 ELSE 0) <= 1 + faults

\* The inductive invariant with the count.
CInv == IInv /\ \A s \in Submissions : Counted(s)

\* How many they are can be compared.
LEMMA StraysCount ==
    ASSUME NEW s
    PROVE  /\ Cardinality(Strays(s)) \in Nat /\ Cardinality(Strays(s)') \in Nat
           /\ Strays(s)' \subseteq Strays(s) => Cardinality(Strays(s)') <= Cardinality(Strays(s))
           /\ \A w : Strays(s)' \subseteq Strays(s) \cup {w} =>
                       Cardinality(Strays(s)') <= Cardinality(Strays(s)) + 1
           /\ \A w \in Strays(s) : Strays(s)' \subseteq Strays(s) \ {w} =>
                       Cardinality(Strays(s)') + 1 <= Cardinality(Strays(s))
<1>1. IsFiniteSet(Strays(s)) /\ IsFiniteSet(Strays(s)')
  <2>1. Strays(s) \subseteq Slots /\ Strays(s)' \subseteq Slots
    BY DEF Strays
  <2> QED BY <2>1, FiniteAssumption, FS_Subset
<1>2. Cardinality(Strays(s)) \in Nat /\ Cardinality(Strays(s)') \in Nat
  BY <1>1, FS_CardinalityType
<1>3. Strays(s)' \subseteq Strays(s) => Cardinality(Strays(s)') <= Cardinality(Strays(s))
  BY <1>1, FS_Subset
<1>4. ASSUME NEW w, Strays(s)' \subseteq Strays(s) \cup {w}
      PROVE  Cardinality(Strays(s)') <= Cardinality(Strays(s)) + 1
  <2>1. IsFiniteSet(Strays(s) \cup {w})
        /\ Cardinality(Strays(s) \cup {w}) <= Cardinality(Strays(s)) + 1
    BY <1>1, <1>2, FS_AddElement
  <2>2. Cardinality(Strays(s)') <= Cardinality(Strays(s) \cup {w})
    BY <1>4, <2>1, FS_Subset
  <2>3. Cardinality(Strays(s) \cup {w}) \in Nat
    BY <2>1, FS_CardinalityType
  <2> QED BY <1>2, <2>1, <2>2, <2>3
<1>5. ASSUME NEW w \in Strays(s), Strays(s)' \subseteq Strays(s) \ {w}
      PROVE  Cardinality(Strays(s)') + 1 <= Cardinality(Strays(s))
  <2>1. IsFiniteSet(Strays(s) \ {w})
        /\ Cardinality(Strays(s) \ {w}) = Cardinality(Strays(s)) - 1
    BY <1>1, FS_RemoveElement
  <2>2. Cardinality(Strays(s)') <= Cardinality(Strays(s) \ {w})
    BY <1>5, <2>1, FS_Subset
  <2> QED BY <1>2, <2>1, <2>2
<1> QED
  BY <1>2, <1>3, <1>4, <1>5

\* Nothing recorded, no new stray, and a debt only for a fault.
LEMMA CountKept ==
    ASSUME CInv, NEW s \in Submissions, verifications'[s] = verifications[s],
           Strays(s)' \subseteq Strays(s), faults' = faults \/ faults' = faults + 1,
           Owed(s)' => Owed(s) \/ faults' = faults + 1
    PROVE  Counted(s)'
<1>1. Counted(s) /\ verifications[s] \in Nat /\ faults \in Nat
  BY DEF CInv, IInv, Types
<1>2. Cardinality(Strays(s)') <= Cardinality(Strays(s))
      /\ Cardinality(Strays(s)) \in Nat /\ Cardinality(Strays(s)') \in Nat
  BY StraysCount
<1>3. Counted(s)' <=> verifications'[s] + Cardinality(Strays(s)') + (IF Owed(s)' THEN 1 ELSE 0)
                        <= 1 + faults'
  BY DEF Counted
<1>4. verifications[s] + Cardinality(Strays(s)) + (IF Owed(s) THEN 1 ELSE 0) <= 1 + faults
  BY <1>1 DEF Counted
<1> QED
  BY <1>1, <1>2, <1>3, <1>4

\* A debt paid by recording: the request's or its job's, or a stray's.
LEMMA CountPaid ==
    ASSUME CInv, NEW s \in Submissions, verifications'[s] = verifications[s] + 1,
           faults' = faults,
           \/ Strays(s)' \subseteq Strays(s) /\ Owed(s) /\ ~Owed(s)'
           \/ /\ \E w \in Strays(s) : Strays(s)' \subseteq Strays(s) \ {w}
              /\ Owed(s)' => Owed(s)
    PROVE  Counted(s)'
<1>1. Counted(s) /\ verifications[s] \in Nat /\ faults \in Nat
  BY DEF CInv, IInv, Types
<1>2. Cardinality(Strays(s)) \in Nat /\ Cardinality(Strays(s)') \in Nat
  BY StraysCount
<1>3. Counted(s)' <=> verifications'[s] + Cardinality(Strays(s)') + (IF Owed(s)' THEN 1 ELSE 0)
                        <= 1 + faults'
  BY DEF Counted
<1>4. verifications[s] + Cardinality(Strays(s)) + (IF Owed(s) THEN 1 ELSE 0) <= 1 + faults
  BY <1>1 DEF Counted
<1>5. CASE Strays(s)' \subseteq Strays(s) /\ Owed(s) /\ ~Owed(s)'
  <2>1. Cardinality(Strays(s)') <= Cardinality(Strays(s))
    BY <1>5, StraysCount
  <2> QED BY <1>1, <1>2, <1>3, <1>4, <1>5, <2>1
<1>6. CASE /\ \E w \in Strays(s) : Strays(s)' \subseteq Strays(s) \ {w}
           /\ Owed(s)' => Owed(s)
  <2>1. Cardinality(Strays(s)') + 1 <= Cardinality(Strays(s))
    BY <1>6, StraysCount
  <2> QED BY <1>1, <1>2, <1>3, <1>4, <1>6, <2>1
<1> QED BY <1>5, <1>6

\* One stray more takes a fault, and the debt it was.
LEMMA CountStray ==
    ASSUME CInv, NEW s \in Submissions, verifications'[s] = verifications[s],
           faults' = faults + 1, \E w : Strays(s)' \subseteq Strays(s) \cup {w},
           Owed(s)' => Owed(s)
    PROVE  Counted(s)'
<1>1. Counted(s) /\ verifications[s] \in Nat /\ faults \in Nat
  BY DEF CInv, IInv, Types
<1>2. Cardinality(Strays(s)') <= Cardinality(Strays(s)) + 1
      /\ Cardinality(Strays(s)) \in Nat /\ Cardinality(Strays(s)') \in Nat
  BY StraysCount
<1>3. Counted(s)' <=> verifications'[s] + Cardinality(Strays(s)') + (IF Owed(s)' THEN 1 ELSE 0)
                        <= 1 + faults'
  BY DEF Counted
<1>4. verifications[s] + Cardinality(Strays(s)) + (IF Owed(s) THEN 1 ELSE 0) <= 1 + faults
  BY <1>1 DEF Counted
<1> QED
  BY <1>1, <1>2, <1>3, <1>4

\* A job that has a holder is the job of the submission it is about, and it
\* is live.
LEMMA HeldJob ==
    ASSUME IInv, NEW w \in Slots, Running(w), slot[w].locked
    PROVE  /\ slot[w].id \in Ids /\ slot[w].for \in Submissions
           /\ idOf[slot[w].for] = slot[w].id /\ Live(slot[w].id)
           /\ mq[slot[w].id].for = slot[w].for
           /\ \A v \in Slots : Holds(v, slot[w].id) => v = w
<1>1. slot[w] \in Execution
  BY DEF IInv, Types, Running, Idle
<1>2. PICK i \in Ids : i = slot[w].id
  BY <1>1 DEF Execution
<1>3. mq[i].state = "active" /\ mq[i].for = slot[w].for
  BY <1>2 DEF IInv, LockOK
<1>4. idOf[mq[i].for] = i
  BY <1>3 DEF IInv, JobOK
<1>5. \A v \in Slots : Holds(v, i) => v = w
  BY <1>2 DEF IInv, OneHolder, Holds
<1> QED
  BY <1>1, <1>2, <1>3, <1>4, <1>5 DEF Execution, Live

\* A debt stays one when only the holder of another submission's job moves.
LEMMA OwedElsewhere ==
    ASSUME IInv, NEW s \in Submissions, UNCHANGED <<handler, idOf, mq>>,
           NEW w \in Slots, \A v \in Slots : v # w => slot'[v] = slot[v],
           ~Holds(w, idOf[s])
    PROVE  Owed(s)' => Owed(s)
<1> SUFFICES ASSUME Owed(s)', handler[s] \notin Early
             PROVE  /\ idOf[s] \in Ids /\ Live(idOf[s]) /\ mq[idOf[s]].for = s
                    /\ \A v \in Slots : Holds(v, idOf[s]) =>
                         slot[v].pc \notin {"complete", "resolve"}
  BY DEF Owed
<1>1. idOf[s] \in Ids /\ Live(idOf[s]) /\ mq[idOf[s]].for = s
  BY DEF Owed, Live
<1>2. ASSUME NEW v \in Slots, Holds(v, idOf[s])
      PROVE  slot[v].pc \notin {"complete", "resolve"}
  <2>1. v # w /\ slot'[v] = slot[v]
    BY <1>2
  <2>2. Holds(v, idOf[s])'
    BY <1>2, <2>1 DEF Holds, Running
  <2>3. slot'[v].pc \notin {"complete", "resolve"}
    BY <2>2 DEF Owed
  <2> QED BY <2>1, <2>3
<1> QED
  BY <1>1, <1>2

\* An execution's own step.
LEMMA CountStep ==
    ASSUME CInv, NEW w \in Slots, NEW p \in PCs, StepEffect(w, p), NEW s \in Submissions
    PROVE  Counted(s)'
<1>1. IInv /\ Types /\ Running(w) /\ Goto(w, p) /\ UNCHANGED <<apiVars, queueVars>>
  BY DEF CInv, IInv, StepEffect
<1>2. /\ slot[w] \in Execution
      /\ slot'[w].pc = p
      /\ slot'[w].id = slot[w].id /\ slot'[w].for = slot[w].for
      /\ slot'[w].locked <=> slot[w].locked
      /\ \A v \in Slots : v # w => slot'[v] = slot[v]
  BY <1>1, GotoFields
<1>3. faults' = faults \/ faults' = faults + 1
  BY DEF StepEffect
<1>4. UNCHANGED <<handler, idOf, mq>>
  BY <1>1 DEF apiVars, queueVars
<1>5. p \notin Recording \/ slot[w].pc \in Recording
  BY DEF StepEffect, RecordsNothing, RecordsOnce, Recording
<1>6. Strays(s)' \subseteq Strays(s)
  <2> SUFFICES ASSUME NEW v \in Slots, v \in Strays(s)' PROVE v \in Strays(s)
    BY DEF Strays
  <2>1. slot'[v].pc \in Recording /\ ~slot'[v].locked /\ slot'[v].for = s
    BY DEF Strays
  <2>2. CASE v = w
    BY <1>2, <1>5, <2>1, <2>2 DEF Strays
  <2>3. CASE v # w
    BY <1>2, <2>1, <2>3 DEF Strays
  <2> QED BY <2>2, <2>3
<1>7. Holds(w, idOf[s]) => slot[w].locked /\ slot[w].id = idOf[s]
  BY DEF Holds
<1>8. slot[w].locked => mq[slot[w].id].for = slot[w].for /\ idOf[slot[w].for] = slot[w].id
                        /\ Live(slot[w].id) /\ slot[w].id \in Ids
                        /\ \A v \in Slots : Holds(v, slot[w].id) => v = w
  BY <1>1, HeldJob
<1>9. CASE verifications'[s] = verifications[s] /\ RecordsNothing(w, p)
  <2>1. Owed(s)' => Owed(s) \/ faults' = faults + 1
    <3>1. CASE ~Holds(w, idOf[s])
      BY <1>1, <1>2, <1>4, <3>1, OwedElsewhere
    <3>2. CASE Holds(w, idOf[s]) /\ slot[w].pc # "complete"
      <4> SUFFICES ASSUME Owed(s)', handler[s] \notin Early PROVE Owed(s)
        BY DEF Owed
      <4>1. idOf[s] \in Ids /\ Live(idOf[s]) /\ mq[idOf[s]].for = s
        BY <1>4 DEF Owed, Live
      <4>2. slot[w].pc # "resolve"
        BY <1>9 DEF RecordsNothing
      <4>3. \A v \in Slots : Holds(v, idOf[s]) => v = w
        BY <1>7, <1>8, <3>2
      <4> QED BY <3>2, <4>1, <4>2, <4>3 DEF Owed
    <3>3. CASE Holds(w, idOf[s]) /\ slot[w].pc = "complete"
      <4> SUFFICES ASSUME p = "resolve" PROVE Owed(s)' => Owed(s)
        BY <1>7, <1>9, <3>3 DEF RecordsNothing
      <4>1. Holds(w, idOf[s])'
        BY <1>2, <1>4, <3>3 DEF Holds, Running
      <4>2. Owed(s)' => handler[s] \in Early
        BY <1>2, <1>4, <4>1 DEF Owed
      <4> QED BY <4>2 DEF Owed
    <3> QED BY <3>1, <3>2, <3>3
  <2> QED BY <1>3, <1>6, <1>9, <2>1, CountKept
<1>10. CASE RecordsOnce(w, p) /\ s # slot[w].for
  <2>1. verifications'[s] = verifications[s]
    BY <1>1, <1>10 DEF RecordsOnce, Types
  <2>2. ~Holds(w, idOf[s]) \/ mq[idOf[s]].for # s
    BY <1>7, <1>8, <1>10
  <2>3. Owed(s)' => Owed(s)
    <3>1. CASE ~Holds(w, idOf[s])
      BY <1>1, <1>2, <1>4, <3>1, OwedElsewhere
    <3>2. CASE mq[idOf[s]].for # s
      BY <1>4, <3>2 DEF Owed
    <3> QED BY <2>2, <3>1, <3>2
  <2> QED BY <1>3, <1>6, <2>1, <2>3, CountKept
<1>11. CASE RecordsOnce(w, p) /\ s = slot[w].for
  <2>1. verifications'[s] = verifications[s] + 1 /\ slot[w].pc = "persist" /\ p = "complete"
    BY <1>1, <1>11 DEF RecordsOnce, Types
  <2>2. faults' = faults
    BY <1>11 DEF RecordsOnce
  <2>3. CASE slot[w].locked
    <3>1. Owed(s)
      BY <1>8, <1>11, <2>1, <2>3 DEF Owed
    <3>2. ~Owed(s)'
      <4>1. handler[s] \notin Early
        <5>1. idOf[s] # 0
          BY <1>8, <1>11, <2>3, IdsAreNat
        <5> QED BY <1>1, <5>1 DEF IInv, HandlerOK
      <4>2. Holds(w, idOf[s])'
        BY <1>1, <1>2, <1>4, <1>8, <1>11, <2>1, <2>3 DEF Holds, Running
      <4> QED BY <1>2, <1>4, <2>1, <4>1, <4>2 DEF Owed
    <3> QED BY <1>6, <2>1, <2>2, <3>1, <3>2, CountPaid
  <2>4. CASE ~slot[w].locked
    <3>1. w \in Strays(s)
      BY <1>11, <2>1, <2>4 DEF Strays, Recording
    <3>2. Strays(s)' \subseteq Strays(s) \ {w}
      BY <1>2, <1>6, <2>1 DEF Strays, Recording
    <3>3. Owed(s)' => Owed(s)
      BY <1>1, <1>2, <1>4, <1>7, <2>4, OwedElsewhere
    <3> QED BY <2>1, <2>2, <3>1, <3>2, <3>3, CountPaid
  <2> QED BY <2>3, <2>4
<1>12. RecordsNothing(w, p) => verifications'[s] = verifications[s]
  BY DEF RecordsNothing
<1> QED
  BY <1>9, <1>10, <1>11, <1>12 DEF StepEffect

-----------------------------------------------------------------------------
(* The request handlers and the queue.                                     *)

\* A step of the requests that leaves slots, queue and records alone keeps
\* the count when no request goes back to where it could record.
LEMMA CountRequests ==
    ASSUME CInv, UNCHANGED <<idOf, slot, mq, verifications>>, NEW s \in Submissions,
           faults' = faults \/ faults' = faults + 1,
           handler'[s] \in Early => handler[s] \in Early
    PROVE  Counted(s)'
<1>1. Strays(s)' \subseteq Strays(s)
  BY DEF Strays
<1>2. Owed(s)' => Owed(s)
  BY DEF Owed, Live, Holds, Running
<1> QED
  BY <1>1, <1>2, CountKept

\* The handlers' steps but for queue.add.
LEMMA CountHandler ==
    ASSUME CInv, NEW s \in Submissions, Handler(s), ~AddJob(s), NEW t \in Submissions
    PROVE  Counted(t)'
<1>1. IInv /\ Types
  BY DEF CInv, IInv
<1>2. CASE SyncPersist(s) /\ verifications' = [verifications EXCEPT ![s] = @ + 1] /\ t = s
  <2>1. verifications'[s] = verifications[s] + 1
    BY <1>1, <1>2 DEF Types
  <2>2. UNCHANGED <<idOf, slot>> /\ handler[s] = "persisting" /\ handler'[s] = "answered"
    BY <1>1, <1>2 DEF SyncPersist, HandlerTo, Types
  <2>3. faults' = faults
    BY <1>1, <1>2 DEF SyncPersist, DbFault, Types
  <2>4. idOf[s] \notin Ids
    BY <1>1, <2>2, IdsAreNat DEF IInv, HandlerOK, Early
  <2>5. Owed(s) /\ ~Owed(s)'
    BY <2>2, <2>4 DEF Owed, Early
  <2>6. Strays(s)' \subseteq Strays(s)
    BY <2>2 DEF Strays
  <2> QED BY <1>2, <2>1, <2>3, <2>5, <2>6, CountPaid
<1>3. CASE ~SyncPersist(s) \/ verifications' = verifications \/ t # s
  <2>1. UNCHANGED <<idOf, slot, mq>> /\ (faults' = faults \/ faults' = faults + 1)
    BY DEF Handler, Upload, CreateRow, CreateRowFails, SyncHash, SyncCheck, SyncPersist,
       queueVars, DbFault, Fault
  <2>2. handler'[t] \in Early => handler[t] \in Early
    BY <1>1 DEF Types, Handler, Upload, CreateRow, CreateRowFails, SyncHash, SyncCheck,
       SyncPersist, HandlerTo, Refuse, Early
  <2>3. verifications'[t] = verifications[t]
    BY <1>1, <1>3 DEF Types, Handler, Upload, CreateRow, CreateRowFails, SyncHash, SyncCheck,
       SyncPersist
  <2>4. Strays(t)' \subseteq Strays(t)
    BY <2>1 DEF Strays
  <2>5. Owed(t)' => Owed(t)
    BY <2>1, <2>2 DEF Owed, Live, Holds, Running
  <2> QED BY <2>1, <2>3, <2>4, <2>5, CountKept
<1> QED
  BY <1>2, <1>3 DEF SyncPersist

\* queue.add hands the debt from the request to its job.
LEMMA CountAddJob ==
    ASSUME CInv, NEW s \in Submissions, AddJob(s), NEW t \in Submissions
    PROVE  Counted(t)'
<1>1. IInv /\ Types
  BY DEF CInv, IInv
<1>2. UNCHANGED <<slot, verifications, faults>> /\ handler[s] = "adding"
  BY DEF AddJob
<1>3. Strays(t)' \subseteq Strays(t)
  BY <1>2 DEF Strays
<1>4. Owed(t)' => Owed(t)
  <2>1. CASE t = s
    BY <1>2, <2>1 DEF Owed, Early
  <2>2. CASE t # s
    <3>1. handler'[t] = handler[t] /\ idOf'[t] = idOf[t]
      BY <1>1, <2>2 DEF AddJob, HandlerTo, Types
    <3>2. SUFFICES ASSUME handler[t] \notin Early, idOf[t] \in Ids, Live(idOf[t])',
                          mq'[idOf[t]].for = t,
                          \A w \in Slots : Holds(w, idOf[t])' =>
                            slot[w].pc \notin {"complete", "resolve"}
                   PROVE  Owed(t)
      BY <1>2, <3>1 DEF Owed, Live, Holds, Running
    <3>3. nextId \in Ids
      BY <1>1, <1>2, NextIdIsFree DEF IInv, HandlerOK, Early
    <3>4. mq'[nextId].for = s
      BY <1>1, <3>3 DEF AddJob, Types
    <3>5. idOf[t] # nextId
      BY <2>2, <3>2, <3>4
    <3>6. mq'[idOf[t]] = mq[idOf[t]]
      BY <1>1, <3>2, <3>5 DEF AddJob, Types
    <3>7. Live(idOf[t])
      BY <3>1, <3>2, <3>6 DEF Live
    <3>8. \A w \in Slots : Holds(w, idOf[t]) => slot[w].pc \notin {"complete", "resolve"}
      BY <1>2, <3>1, <3>2 DEF Holds, Running
    <3> QED BY <3>2, <3>6, <3>7, <3>8 DEF Owed
  <2> QED BY <2>1, <2>2
<1> QED
  BY <1>2, <1>3, <1>4, CountKept

\* A job without a holder that moves was owed already.
LEMMA OwedMoved ==
    ASSUME IInv, NEW i \in Ids, Live(i), NEW x, JobMoves(i, x),
           \A w \in Slots : ~Holds(w, i), UNCHANGED <<handler, idOf>>,
           \A v \in Slots, j \in Ids : j # i /\ Holds(v, j) => slot'[v] = slot[v],
           NEW s \in Submissions
    PROVE  Owed(s)' => Owed(s)
<1> SUFFICES ASSUME Owed(s)', handler[s] \notin Early PROVE Owed(s)
  BY DEF Owed
<1>1. PICK j \in Ids : j = idOf[s]
  BY DEF Owed
<1>2. Live(j)' /\ mq'[j].for = s
  BY <1>1 DEF Owed, Live
<1>3. CASE j = i
  BY <1>1, <1>2, <1>3 DEF Owed, JobMoves
<1>4. CASE j # i
  <2>1. mq'[j] = mq[j]
    BY <1>4 DEF JobMoves
  <2>2. ASSUME NEW v \in Slots, Holds(v, j) PROVE slot[v].pc \notin {"complete", "resolve"}
    <3>1. slot'[v] = slot[v]
      BY <1>4, <2>2
    <3>2. Holds(v, idOf[s])'
      BY <1>1, <2>2, <3>1 DEF Holds, Running
    <3> QED BY <3>1, <3>2 DEF Owed
  <2>3. Live(j)
    BY <1>2, <2>1 DEF Live
  <2> QED BY <1>1, <1>2, <2>1, <2>2, <2>3 DEF Owed
<1> QED BY <1>3, <1>4

\* The queue's own moves.
LEMMA CountQueue ==
    ASSUME CInv, NEW i \in Ids, Promote(i) \/ Recover(i), NEW s \in Submissions
    PROVE  Counted(s)'
<1>1. IInv /\ UNCHANGED <<apiVars, slot, verifications, faults>>
  BY DEF CInv, Promote, Recover
<1>2. Live(i) /\ (\A w \in Slots : ~Holds(w, i)) /\ \E x : JobMoves(i, x)
  <2>1. CASE Promote(i)
    <3>1. Live(i) /\ \A w \in Slots : ~Holds(w, i)
      BY <1>1, <2>1, HeldIsActive DEF Promote, Live
    <3>2. JobMoves(i, "waiting")
      BY <1>1, <2>1, <3>1, JobRestated DEF Promote, States
    <3> QED BY <3>1, <3>2
  <2>2. CASE Recover(i)
    <3>1. Live(i) /\ \A w \in Slots : ~Holds(w, i)
      BY <1>1, <2>2, NoHolders DEF Recover, Live, IInv
    <3>2. \E x : JobMoves(i, x)
      BY <1>1, <2>2, <3>1, JobRequeued DEF Recover
    <3> QED BY <3>1, <3>2
  <2> QED BY <2>1, <2>2
<1>3. Strays(s)' \subseteq Strays(s)
  BY <1>1 DEF Strays
<1>4. Owed(s)' => Owed(s)
  BY <1>1, <1>2, OwedMoved DEF apiVars
<1> QED
  BY <1>1, <1>3, <1>4, CountKept

\* A worker takes a job.
LEMMA CountTake ==
    ASSUME CInv, NEW w \in Slots, NEW i \in Ids, Take(w, i), NEW s \in Submissions
    PROVE  Counted(s)'
<1>1. IInv /\ UNCHANGED <<apiVars, verifications, faults>>
  BY DEF CInv, Take
<1>2. /\ Live(i) /\ JobMoves(i, "active") /\ slot'[w].locked
      /\ \A v \in Slots : v # w => slot'[v] = slot[v]
      /\ \A v \in Slots : ~Holds(v, i)
      /\ ~Running(w)
  BY <1>1, TakeFields
<1>3. Strays(s)' \subseteq Strays(s)
  BY <1>2 DEF Strays
<1>4. Owed(s)' => Owed(s)
  BY <1>1, <1>2, OwedMoved DEF apiVars, Holds
<1> QED
  BY <1>1, <1>3, <1>4, CountKept

\* An execution ends: its job is settled, or owed again for a retry.
LEMMA CountEnd ==
    ASSUME CInv, NEW w \in Slots, Ends(w), NEW s \in Submissions
    PROVE  Counted(s)'
<1>1. IInv /\ UNCHANGED <<apiVars, verifications, faults>>
  BY DEF CInv, Ends
<1>2. /\ slot[w] \in Execution /\ Running(w)
      /\ slot'[w] = Idle /\ \A v \in Slots : v # w => slot'[v] = slot[v]
  BY <1>1 DEF IInv, Types, Ends, Idle, Running
<1>3. Strays(s)' \subseteq Strays(s)
  BY <1>2 DEF Strays, Idle, Recording
<1>4. Owed(s)' => Owed(s)
  <2>1. CASE ~slot[w].locked /\ mq' = mq
    BY <1>1, <1>2, <2>1, OwedElsewhere DEF apiVars, Holds
  <2>2. CASE slot[w].locked
    <3>1. PICK i \in Ids : i = slot[w].id
      BY <1>2 DEF Execution
    <3>2. PICK x \in {"completed", "delayed", "failed"} :
            JobMoves(i, x) /\ (slot[w].pc = "resolve" <=> x = "completed")
      BY <2>2, <3>1 DEF Ends
    <3>3. Live(i) /\ \A v \in Slots : Holds(v, i) => v = w
      BY <1>1, <1>2, <2>2, <3>1, HeldJob
    <3> SUFFICES ASSUME Owed(s)', handler[s] \notin Early PROVE Owed(s)
      BY <1>1 DEF Owed, apiVars
    <3>4. PICK j \in Ids : j = idOf[s]
      BY <1>1 DEF Owed, apiVars
    <3>5. Live(j)' /\ mq'[j].for = s
      BY <1>1, <3>4 DEF Owed, Live, apiVars
    <3>6. CASE j = i
      <4>1. x = "delayed"
        BY <3>2, <3>5, <3>6 DEF JobMoves, Live
      <4>2. slot[w].pc = "reject"
        BY <3>2, <4>1 DEF Ends
      <4>3. \A v \in Slots : Holds(v, j) => slot[v].pc = "reject"
        BY <3>3, <3>6, <4>2
      <4> QED BY <3>2, <3>3, <3>4, <3>5, <3>6, <4>3 DEF Owed, JobMoves
    <3>7. CASE j # i
      <4>1. mq'[j] = mq[j]
        BY <3>2, <3>7 DEF JobMoves
      <4>2. ASSUME NEW v \in Slots, Holds(v, j) PROVE slot[v].pc \notin {"complete", "resolve"}
        <5>1. v # w /\ slot'[v] = slot[v]
          BY <1>2, <3>1, <3>7, <4>2 DEF Holds
        <5>2. Holds(v, idOf[s])'
          BY <1>1, <3>4, <4>2, <5>1 DEF Holds, Running, apiVars
        <5> QED BY <1>1, <5>1, <5>2 DEF Owed, apiVars
      <4>3. Live(j)
        BY <3>5, <4>1 DEF Live
      <4> QED BY <3>4, <3>5, <4>1, <4>2, <4>3 DEF Owed
    <3> QED BY <3>6, <3>7
  <2> QED BY <2>1, <2>2 DEF Ends
<1> QED
  BY <1>1, <1>3, <1>4, CountKept

\* A lost lock makes a stray of the execution the submission was owed by, or,
\* when that has recorded already, a new debt.
LEMMA CountStall ==
    ASSUME CInv, NEW i \in Ids, Stall(i), NEW s \in Submissions
    PROVE  Counted(s)'
<1>1. IInv /\ UNCHANGED <<apiVars, verifications>> /\ faults' = faults + 1
  BY DEF CInv, Stall, Fault
<1>2. PICK w \in Slots, x \in {"waiting", "failed"} :
        /\ Holds(w, i) /\ Unlocks(w)
        /\ \A v \in Slots : v # w => slot'[v] = slot[v]
        /\ Live(i) /\ JobMoves(i, x)
  BY <1>1, StallFields
<1>3. Strays(s)' \subseteq Strays(s) \cup {w}
  BY <1>2 DEF Strays
<1>4. CASE slot[w].pc \in Recording /\ slot[w].for = s
  <2>1. /\ idOf[s] = i /\ mq[i].for = s
        /\ \A v \in Slots : Holds(v, i) => v = w
    BY <1>1, <1>2, <1>4, HeldJob DEF Holds
  <2>2. Owed(s)
    BY <1>2, <1>4, <2>1 DEF Owed, Recording
  <2> QED BY <1>1, <1>3, <2>2, CountStray
<1>5. CASE ~(slot[w].pc \in Recording /\ slot[w].for = s)
  <2>1. w \notin Strays(s)'
    BY <1>2, <1>5 DEF Strays, Unlocks
  <2>2. Strays(s)' \subseteq Strays(s)
    BY <1>3, <2>1
  <2> QED BY <1>1, <2>2, CountKept
<1> QED
  BY <1>4, <1>5

\* A crash ends every execution; what it takes back is one debt at most.
LEMMA CountCrash ==
    ASSUME CInv, Crash, NEW s \in Submissions
    PROVE  Counted(s)'
<1>1. UNCHANGED verifications /\ faults' = faults + 1 /\ slot' = [w \in Slots |-> Idle]
  BY DEF Crash, Fault
<1>2. Strays(s)' \subseteq Strays(s)
  BY <1>1 DEF Strays, Idle, Recording
<1> QED
  BY <1>1, <1>2, CountKept

\* Losing the queue makes a stray of at most one execution about s, the one
\* that held its job, and leaves no job to owe.
LEMMA CountLose ==
    ASSUME CInv, LoseQueue, NEW s \in Submissions
    PROVE  Counted(s)'
<1>1. IInv /\ UNCHANGED <<apiVars, verifications>> /\ faults' = faults + 1
  BY DEF CInv, LoseQueue, Fault
<1>2. \A w \in Slots : (slot[w] = Idle /\ slot'[w] = Idle) \/ Unlocks(w)
  BY <1>1, LoseFields
<1>3. Owed(s)' => Owed(s)
  <2>1. Owed(s)' => handler[s] \in Early
    BY <1>1 DEF Owed, LoseQueue, Live, NoJob, apiVars
  <2> QED BY <2>1 DEF Owed
<1>4. \A w \in Strays(s)' : /\ w \in Slots /\ Running(w) /\ slot[w].for = s
                            /\ slot[w].pc \in Recording
  <2> SUFFICES ASSUME NEW w \in Slots, w \in Strays(s)'
               PROVE  Running(w) /\ slot[w].for = s /\ slot[w].pc \in Recording
    BY DEF Strays
  <2>1. slot'[w].pc \in Recording /\ slot'[w].for = s
    BY DEF Strays
  <2>2. Unlocks(w)
    BY <1>2, <2>1 DEF Idle, Recording
  <2> QED BY <2>1, <2>2 DEF Unlocks, Running, Recording
<1>5. CASE \E w \in Strays(s)' : slot[w].locked
  <2>1. PICK w \in Strays(s)' : slot[w].locked
    BY <1>5
  <2>2. \A v \in Strays(s)' : slot[v].locked => v = w
    <3> SUFFICES ASSUME NEW v \in Strays(s)', slot[v].locked PROVE v = w
      OBVIOUS
    <3>1. idOf[s] = slot[w].id /\ idOf[s] = slot[v].id /\ slot[w].id \in Ids
          /\ \A u \in Slots : Holds(u, slot[w].id) => u = w
      BY <1>1, <1>4, <2>1, HeldJob
    <3> QED BY <1>4, <3>1 DEF Holds
  <2>3. Strays(s)' \subseteq Strays(s) \cup {w}
    BY <1>4, <2>2 DEF Strays
  <2> QED BY <1>1, <1>3, <2>3, CountStray
<1>6. CASE \A w \in Strays(s)' : ~slot[w].locked
  <2>1. Strays(s)' \subseteq Strays(s)
    BY <1>4, <1>6 DEF Strays
  <2> QED BY <1>1, <1>3, <2>1, CountKept
<1> QED
  BY <1>5, <1>6

-----------------------------------------------------------------------------
(* The theorem.                                                            *)

\* Nothing is recorded at the start, and one record is owed.
LEMMA CountInit ==
    ASSUME Init
    PROVE  CInv
<1>1. IInv
  BY InvInit
<1>2. ASSUME NEW s \in Submissions PROVE Counted(s)
  <2>1. Strays(s) = {}
    BY DEF Init, Strays, Idle, Recording
  <2>2. verifications[s] = 0 /\ faults = 0
    BY DEF Init
  <2> QED BY <2>1, <2>2, FS_EmptySet DEF Counted
<1> QED
  BY <1>1, <1>2 DEF CInv

\* The count is kept by every step.
LEMMA CountNext ==
    ASSUME CInv, [Next]_vars
    PROVE  CInv'
<1>1. IInv'
  BY InvNext DEF CInv
<1> SUFFICES ASSUME NEW s \in Submissions PROVE Counted(s)'
  BY <1>1 DEF CInv
<1>2. ASSUME NEW t \in Submissions, Handler(t) PROVE Counted(s)'
  BY <1>2, CountAddJob, CountHandler
<1>3. ASSUME NEW w \in Slots, Execute(w) PROVE Counted(s)'
  <2>1. CASE \E i \in Ids : Take(w, i)
    BY <2>1, CountTake
  <2>2. CASE Stepping(w)
    <3>1. PICK p \in PCs : StepEffect(w, p)
      BY <2>2, StepEffects DEF CInv
    <3> QED BY <3>1, CountStep
  <2>3. CASE Resolve(w) \/ Reject(w)
    BY <2>3, SettleEnds, CountEnd DEF CInv
  <2> QED BY <1>3, <2>1, <2>2, <2>3 DEF Execute, Stepping
<1>4. ASSUME NEW i \in Ids, Promote(i) \/ Recover(i) \/ Stall(i) PROVE Counted(s)'
  BY <1>4, CountQueue, CountStall
<1>5. CASE Finished \/ UNCHANGED vars
  <2>1. UNCHANGED vars
    BY <1>5 DEF Finished
  <2>2. UNCHANGED <<handler, idOf, mq, slot, verifications, faults>>
    BY <2>1 DEF vars, apiVars, queueVars
  <2> QED BY <2>2, CountRequests
<1> QED
  BY <1>2, <1>3, <1>4, <1>5, CountCrash, CountLose DEF Next

\* However requests, workers, retries and faults interleave, a submission is
\* recorded at most once more than there were faults: without a fault, at
\* most once.
THEOREM RecordsNeedFaults == Spec => []DuplicatesNeedFaults
<1>1. Init => CInv
  BY CountInit
<1>2. CInv /\ [Next]_vars => CInv'
  BY CountNext
<1>3. CInv => DuplicatesNeedFaults
  <2> SUFFICES ASSUME CInv, NEW s \in Submissions PROVE verifications[s] <= 1 + faults
    BY DEF DuplicatesNeedFaults
  <2>1. /\ Counted(s) /\ verifications[s] \in Nat /\ faults \in Nat
        /\ Cardinality(Strays(s)) \in Nat
    BY StraysCount DEF CInv, IInv, Types
  <2> QED BY <2>1 DEF Counted
<1> QED BY <1>1, <1>2, <1>3, PTL DEF Spec

-------------------------------------------------------------------------------
(*****************************************************************************)
(* Without faults, and when a job is retried at all, the row of a settled    *)
(* job tells its outcome and a completed row is final.  The row is created   *)
(* by the request or by the worker, whichever is first, and the loser of     *)
(* that race is turned away.  QInv follows it: what the row says at each     *)
(* step of the execution that holds the job's lock, and that the last        *)
(* attempt of a job is one after the first, so that its row was there and    *)
(* its failure could be written.                                             *)
(*****************************************************************************)

\* What an execution without faults knows of its row.
Follows(w) == Running(w) =>
    /\ slot[w].locked
    /\ slot[w].attempt > 0 => RowOf(slot[w].id)
    /\ slot[w].pc = "create" => slot[w].attempt = 0
    /\ slot[w].pc = "resolve" => Done(slot[w].id, slot[w].for)
    /\ slot[w].pc = "reject" =>
          \/ Failed(slot[w].id, slot[w].attempt)
          \/ slot[w].attempt = 0 /\ RowOf(slot[w].id)

\* What each job tells.
JobTells(i) ==
    /\ mq[i].state \in {"waiting", "delayed"} /\ mq[i].attemptsMade > 0 => RowOf(i)
    /\ mq[i].state = "active" => \E w \in Slots : Holds(w, i)
    /\ mq[i].state = "completed" => Done(i, mq[i].for)
    /\ mq[i].state = "failed" => Failed(i, mq[i].attemptsMade - 1)
    /\ row[i].status = "completed" =>
          \/ mq[i].state = "completed"
          \/ \E w \in Slots : Holds(w, i) /\ slot[w].pc = "resolve"

\* The inductive invariant without faults.
QInv ==
    /\ IInv
    /\ \A w \in Slots : Follows(w)
    /\ \A i \in Ids : JobTells(i)

\* Nothing has gone wrong, this step included; a job is retried at all.
NoFaults == faults \in Nat /\ faults' = 0
Retried == MaxAttempts > 1

\* Nothing fails.
LEMMA Quiet ==
    ASSUME NoFaults, NEW k
    PROVE  ~Fault(k)
BY DEF NoFaults, Fault

-----------------------------------------------------------------------------
(* What one step of an execution writes.                                   *)

\* What a step writes of row i.
Writes(w, i) ==
    /\ slot'[w].pc = "create" => ~RowOf(i)
    /\ slot'[w].pc = "resolve" => Done(i, slot[w].for)'
    /\ slot'[w].pc = "reject" => \/ Failed(i, slot[w].attempt)'
                                 \/ slot[w].pc = "create" /\ RowOf(i)
    /\ row'[i].status = "completed" =>
          slot'[w].pc = "resolve" \/ row[i].status = "completed"

\* The row after each step of its execution.
LEMMA StepWrites ==
    ASSUME IInv, NoFaults, NEW w \in Slots, Stepping(w), slot[w].locked,
           NEW i \in Ids, i = slot[w].id
    PROVE  Writes(w, i)
<1>1. Types /\ RunOK(w) /\ LockOK(w)
  BY DEF IInv
<1>2. Running(w) /\ slot[w] \in Execution
  BY <1>1 DEF Types, Running, Idle, Stepping, At, FindRow, CreateProcessing, MarkProcessing,
     HashInput, NoteHash, CheckContent, PersistVerification, CompleteRow, FailRow
<1>3. PICK e \in Execution : e = slot[w]
  BY <1>2
<1>4. e.id = i /\ e.for \in Submissions /\ e.attempt \in 0 .. MaxAttempts
  BY <1>3 DEF Execution
<1>5. \A p \in PCs : Goto(w, p) => slot'[w].pc = p /\ slot'[w].for = e.for
                                   /\ slot'[w].attempt = e.attempt
  BY <1>1, <1>2, <1>3, GotoFields
<1>6. mq[i] # NoJob
  BY <1>1, <1>2 DEF LockOK, NoJob
<1>7. ~DbFault
  BY Quiet DEF DbFault
<1>8. e.pc \in AfterRow => RowOf(i)
  BY <1>1, <1>3, <1>4 DEF RunOK
<1>9. CASE FindRow(w)
  <2>1. row' = row
    BY <1>9 DEF FindRow
  <2>2. Goto(w, IF row[i] = NoRow THEN "create" ELSE "mark")
    BY <1>3, <1>4, <1>7, <1>9 DEF FindRow
  <2>3. slot'[w].pc \in {"create", "mark"} /\ (slot'[w].pc = "create" => row[i] = NoRow)
    BY <1>5, <2>2 DEF PCs
  <2> QED BY <2>1, <2>3 DEF Writes, RowOf, NoRow
<1>10. CASE CreateProcessing(w)
  <2> DEFINE r == [for |-> e.for, status |-> "processing", progress |-> 0,
                   retryCount |-> e.attempt, error |-> FALSE,
                   hash |-> "none", result |-> "none"]
  <2>1. CASE row[i] = NoRow /\ row' = [row EXCEPT ![i] = r] /\ Goto(w, "hash")
    <3>1. row'[i] = r
      BY <1>1, <2>1 DEF Types
    <3>2. slot'[w].pc = "hash"
      BY <1>5, <2>1 DEF PCs
    <3> QED BY <3>1, <3>2 DEF Writes
  <2>2. CASE row[i] # NoRow /\ Goto(w, "reject") /\ row' = row
    <3>1. row[i] \in Row
      BY <1>1, <2>2 DEF Types
    <3>2. row[i].status \in {"queued", "processing", "completed", "failed"}
      BY <3>1 DEF Row
    <3>3. RowOf(i)
      BY <3>2 DEF RowOf
    <3>4. slot'[w].pc = "reject" /\ slot[w].pc = "create"
      BY <1>5, <1>10, <2>2 DEF PCs, CreateProcessing, At
    <3> QED BY <2>2, <3>3, <3>4 DEF Writes
  <2> QED BY <1>3, <1>4, <1>7, <1>10, <2>1, <2>2 DEF CreateProcessing
<1>11. CASE MarkProcessing(w)
  <2>1. row' = [row EXCEPT ![i].status = "processing", ![i].retryCount = e.attempt]
        /\ Goto(w, "hash")
    BY <1>3, <1>4, <1>7, <1>11 DEF MarkProcessing
  <2>2. slot'[w].pc = "hash"
    BY <1>5, <2>1 DEF PCs
  <2>3. RowOf(i)
    BY <1>3, <1>8, <1>11 DEF MarkProcessing, At, AfterRow
  <2>4. row'[i].status = "processing"
    BY <1>1, <1>4, <2>1, <2>3, RowMarked
  <2> QED BY <2>2, <2>4 DEF Writes
<1>12. CASE HashInput(w) \/ CheckContent(w) \/ PersistVerification(w)
  <2>1. row' = row
    BY <1>12 DEF HashInput, CheckContent, PersistVerification
  <2>2. \E p \in {"note", "persist", "complete", "fail"} : Goto(w, p)
    BY <1>12 DEF HashInput, CheckContent, PersistVerification, GotoReporting
  <2>3. slot'[w].pc \in {"note", "persist", "complete", "fail"}
    BY <1>5, <2>2 DEF PCs
  <2> QED BY <2>1, <2>3 DEF Writes
<1>13. CASE NoteHash(w)
  <2>1. row' = [row EXCEPT ![i].progress = 10, ![i].hash = e.for] /\ Goto(w, "check")
    BY <1>3, <1>4, <1>7, <1>13 DEF NoteHash
  <2>2. slot'[w].pc = "check"
    BY <1>5, <2>1 DEF PCs
  <2>3. RowOf(i)
    BY <1>3, <1>8, <1>13 DEF NoteHash, At, AfterRow
  <2>4. row'[i].status = row[i].status
    BY <1>1, <1>4, <2>1, <2>3, RowNoted
  <2> QED BY <2>2, <2>4 DEF Writes
<1>14. CASE CompleteRow(w)
  <2>1. row' = [row EXCEPT ![i].status = "completed", ![i].progress = 100, ![i].result = e.for]
        /\ Goto(w, "resolve")
    BY <1>3, <1>4, <1>6, <1>7, <1>14 DEF CompleteRow
  <2>2. slot'[w].pc = "resolve"
    BY <1>5, <2>1 DEF PCs
  <2>3. RowOf(i)
    BY <1>3, <1>8, <1>14 DEF CompleteRow, At, AfterRow
  <2>4. Done(i, e.for)'
    BY <1>1, <1>4, <2>1, <2>3, RowCompleted
  <2>5. slot'[w].for = e.for
    BY <1>5, <2>1 DEF PCs
  <2> QED BY <1>3, <2>2, <2>4, <2>5 DEF Writes, Done
<1>15. CASE FailRow(w)
  <2>1. row' = [row EXCEPT ![i].status = "failed", ![i].error = TRUE, ![i].retryCount = e.attempt]
        /\ Goto(w, "reject")
    BY <1>3, <1>4, <1>7, <1>15 DEF FailRow
  <2>2. slot'[w].pc = "reject" /\ slot'[w].attempt = e.attempt
    BY <1>5, <2>1 DEF PCs
  <2>3. RowOf(i)
    BY <1>3, <1>8, <1>15 DEF FailRow, At, AfterRow
  <2>4. Failed(i, e.attempt)'
    BY <1>1, <1>4, <2>1, <2>3, RowFailed
  <2>5. row'[i].status = "failed" /\ Failed(i, slot[w].attempt)'
    BY <2>2, <2>4 DEF Failed
  <2> QED BY <2>2, <2>5 DEF Writes
<1> QED
  BY <1>9, <1>10, <1>11, <1>12, <1>13, <1>14, <1>15 DEF Stepping

-----------------------------------------------------------------------------
(* The invariant is kept by every step.                                    *)

\* An execution is never without its lock, so a row is written by one at most.
LEMMA OthersElsewhere ==
    ASSUME QInv, NEW w \in Slots, Running(w), NEW v \in Slots, Running(v), v # w
    PROVE  /\ slot[w].locked /\ slot[w].id \in Ids /\ slot[v].locked /\ slot[v].id \in Ids
           /\ slot[v].id # slot[w].id
<1>1. slot[w].locked /\ slot[v].locked
  BY DEF QInv, Follows
<1>2. slot[w] \in Execution /\ slot[v] \in Execution
  BY DEF QInv, IInv, Types, Running, Idle
<1>3. slot[w].id \in Ids /\ slot[v].id \in Ids
  BY <1>2 DEF Execution
<1>4. PICK i \in Ids : i = slot[w].id
  BY <1>3
<1>5. ~Holds(v, i)
  BY <1>1, <1>4 DEF QInv, IInv, OneHolder, Holds
<1> QED
  BY <1>1, <1>3, <1>4, <1>5 DEF Holds

\* An execution about an untouched row.
LEMMA FollowsKept ==
    ASSUME QInv, NEW v \in Slots, slot'[v] = slot[v], NEW i \in Ids,
           Running(v) => slot[v].id # i, \A j \in Ids : j # i => row'[j] = row[j]
    PROVE  Follows(v)'
<1> SUFFICES ASSUME Running(v) PROVE Follows(v)'
  BY DEF Follows, Running
<1>1. slot[v] \in Execution
  BY DEF QInv, IInv, Types, Running, Idle
<1>2. PICK j \in Ids : j = slot[v].id
  BY <1>1 DEF Execution
<1>3. row'[j] = row[j]
  BY <1>2
<1>4. Follows(v)
  BY DEF QInv
<1>5. slot[v].attempt > 0 => row'[j].status # "none"
  BY <1>2, <1>3, <1>4 DEF Follows, RowOf
<1>6. slot[v].pc = "resolve" => /\ row'[j].status = "completed" /\ row'[j].progress = 100
                                /\ row'[j].result = slot[v].for
  BY <1>2, <1>3, <1>4 DEF Follows, Done
<1>7. slot[v].pc = "reject" =>
        \/ row'[j].status = "failed" /\ row'[j].error /\ row'[j].retryCount = slot[v].attempt
        \/ slot[v].attempt = 0 /\ row'[j].status # "none"
  BY <1>2, <1>3, <1>4 DEF Follows, Failed, RowOf
<1> QED
  BY <1>2, <1>4, <1>5, <1>6, <1>7 DEF Follows, RowOf, Done, Failed, Running

\* A job nobody touches.
LEMMA JobTellsKept ==
    ASSUME QInv, NEW j \in Ids, mq'[j] = mq[j], row'[j] = row[j],
           \A v \in Slots : Holds(v, j) => slot'[v] = slot[v]
    PROVE  JobTells(j)'
<1>1. JobTells(j)
  BY DEF QInv
<1>2. \A v \in Slots : Holds(v, j) => Holds(v, j)' /\ slot'[v].pc = slot[v].pc
  BY DEF Holds, Running
<1>3. RowOf(j)' <=> RowOf(j)
  BY DEF RowOf
<1>4. mq[j].state = "completed" => Done(j, mq[j].for)'
  BY <1>1 DEF JobTells, Done
<1>5. mq[j].state = "failed" => Failed(j, mq[j].attemptsMade - 1)'
  BY <1>1 DEF JobTells, Failed
<1>6. mq[j].state = "active" => \E w \in Slots : Holds(w, j)'
  BY <1>1, <1>2 DEF JobTells
<1>7. row[j].status = "completed" =>
        \/ mq[j].state = "completed"
        \/ \E w \in Slots : Holds(w, j)' /\ slot'[w].pc = "resolve"
  BY <1>1, <1>2 DEF JobTells
<1> QED
  BY <1>1, <1>3, <1>4, <1>5, <1>6, <1>7 DEF JobTells

\* An execution's own step.
LEMMA RowStep ==
    ASSUME QInv, NoFaults, NEW w \in Slots, Stepping(w)
    PROVE  (\A v \in Slots : Follows(v)') /\ (\A j \in Ids : JobTells(j)')
<1>1. PICK p \in PCs : StepEffect(w, p)
  BY StepEffects DEF QInv
<1>2. Types /\ Running(w) /\ Goto(w, p) /\ UNCHANGED <<apiVars, queueVars>>
  BY <1>1 DEF QInv, IInv, StepEffect
<1>3. /\ slot[w] \in Execution
      /\ slot'[w].pc = p
      /\ slot'[w].id = slot[w].id /\ slot'[w].for = slot[w].for
      /\ slot'[w].attempt = slot[w].attempt
      /\ slot'[w].locked <=> slot[w].locked
      /\ \A v \in Slots : v # w => slot'[v] = slot[v]
  BY <1>2, GotoFields
<1>4. PICK e \in Execution : e = slot[w]
  BY <1>3
<1>5. PICK i \in Ids : i = e.id
  BY DEF Execution
<1>6. e.locked /\ (e.attempt > 0 => RowOf(i)) /\ e.attempt \in Nat
      /\ (e.pc = "create" => e.attempt = 0)
  <2>1. e.attempt \in Nat
    BY AttemptsAssumption DEF Execution
  <2> QED BY <1>2, <1>4, <1>5, <2>1 DEF QInv, Follows
<1>7. Writes(w, i)
  BY <1>1, <1>4, <1>5, <1>6, StepWrites DEF QInv
<1>8. RowMoves(i, e.for)
  BY <1>1, <1>4, <1>5 DEF StepEffect
<1>9. Follows(w)'
  <2>1. slot'[w].locked /\ slot'[w].attempt = e.attempt /\ slot'[w].id = i
        /\ slot'[w].for = e.for
    BY <1>3, <1>4, <1>5, <1>6
  <2>2. e.attempt > 0 => RowOf(i)'
    BY <1>6, <1>8 DEF RowMoves, RowOf
  <2>3. p = "create" => e.attempt = 0
    BY <1>3, <1>6, <1>7 DEF Writes
  <2>4. p = "resolve" => Done(i, e.for)'
    BY <1>3, <1>4, <1>7 DEF Writes, Done
  <2>5. p = "reject" => Failed(i, e.attempt)' \/ (e.attempt = 0 /\ RowOf(i)')
    <3>1. p = "reject" => Failed(i, e.attempt)' \/ (e.pc = "create" /\ RowOf(i))
      BY <1>3, <1>4, <1>7 DEF Writes, Failed
    <3>2. RowOf(i) => RowOf(i)'
      BY <1>8 DEF RowMoves, RowOf
    <3> QED BY <1>6, <3>1, <3>2
  <2>6. slot'[w].pc = p
    BY <1>3
  <2> QED BY <2>1, <2>2, <2>3, <2>4, <2>5, <2>6 DEF Follows, Running, RowOf, Done, Failed
<1>10. ASSUME NEW v \in Slots, v # w PROVE Follows(v)'
  <2>1. Running(v) => slot[v].id # i
    BY <1>2, <1>4, <1>5, <1>10, OthersElsewhere
  <2>2. \A j \in Ids : j # i => row'[j] = row[j]
    BY <1>8 DEF RowMoves
  <2> QED BY <1>3, <1>10, <2>1, <2>2, FollowsKept
<1>11. ASSUME NEW j \in Ids, j # i PROVE JobTells(j)'
  <2>1. mq'[j] = mq[j] /\ row'[j] = row[j]
    BY <1>2, <1>8, <1>11 DEF RowMoves, queueVars
  <2>2. \A v \in Slots : Holds(v, j) => slot'[v] = slot[v]
    BY <1>3, <1>4, <1>5, <1>11 DEF Holds
  <2> QED BY <2>1, <2>2, JobTellsKept
<1>12. JobTells(i)'
  <2>1. Holds(w, i) /\ mq[i].state = "active" /\ mq'[i].state = "active"
    BY <1>2, <1>4, <1>5, <1>6 DEF Holds, QInv, IInv, LockOK, queueVars
  <2>2. Holds(w, i)'
    BY <1>3, <1>4, <1>5, <1>6 DEF Holds, Running, PCs
  <2>3. row[i].status # "completed"
    <3>1. \A v \in Slots : Holds(v, i) => v = w
      BY <2>1 DEF QInv, IInv, OneHolder
    <3>2. slot[w].pc # "resolve"
      BY <1>1 DEF StepEffect, RecordsNothing, RecordsOnce
    <3> QED BY <2>1, <3>1, <3>2 DEF QInv, JobTells
  <2>4. row'[i].status = "completed" => slot'[w].pc = "resolve"
    BY <1>7, <2>3 DEF Writes
  <2> QED BY <2>1, <2>2, <2>4 DEF JobTells
<1> QED
  BY <1>9, <1>10, <1>11, <1>12

\* A worker takes a job.
LEMMA RowTake ==
    ASSUME QInv, NEW w \in Slots, NEW i \in Ids, Take(w, i)
    PROVE  (\A v \in Slots : Follows(v)') /\ (\A j \in Ids : JobTells(j)')
<1>1. IInv /\ row' = row /\ mq[i].state = "waiting"
  BY DEF QInv, Take
<1>2. /\ Live(i) /\ JobMoves(i, "active")
      /\ slot'[w].pc = "find" /\ slot'[w].id = i
      /\ slot'[w].attempt = mq[i].attemptsMade /\ slot'[w].locked
      /\ \A v \in Slots : v # w => slot'[v] = slot[v]
      /\ \A v \in Slots : ~Holds(v, i)
      /\ ~Running(w)
  BY <1>1, TakeFields
<1>3. Follows(w)'
  <2>1. mq[i].attemptsMade > 0 => RowOf(i)
    BY <1>1 DEF QInv, JobTells
  <2>2. slot'[w].attempt > 0 => row'[slot'[w].id].status # "none"
    BY <1>1, <1>2, <2>1 DEF RowOf
  <2> QED BY <1>2, <2>2 DEF Follows, RowOf
<1>4. ASSUME NEW v \in Slots, v # w PROVE Follows(v)'
  <2>1. Running(v) => slot[v].id # i
    <3>1. Running(v) => slot[v].locked
      BY DEF QInv, Follows
    <3> QED BY <1>2, <3>1 DEF Holds
  <2> QED BY <1>1, <1>2, <1>4, <2>1, FollowsKept
<1>5. ASSUME NEW j \in Ids, j # i PROVE JobTells(j)'
  <2>1. mq'[j] = mq[j] /\ row'[j] = row[j]
    BY <1>1, <1>2, <1>5 DEF JobMoves
  <2>2. \A v \in Slots : Holds(v, j) => slot'[v] = slot[v]
    BY <1>2 DEF Holds
  <2> QED BY <2>1, <2>2, JobTellsKept
<1>6. JobTells(i)'
  <2>1. mq'[i].state = "active" /\ Holds(w, i)'
    BY <1>2 DEF JobMoves, Holds, Running
  <2>2. row'[i].status # "completed"
    BY <1>1, <1>2 DEF QInv, JobTells
  <2> QED BY <2>1, <2>2 DEF JobTells
<1> QED
  BY <1>3, <1>4, <1>5, <1>6

\* An execution ends and its job is settled or waits for a retry.
LEMMA RowEnd ==
    ASSUME QInv, Retried, NEW w \in Slots, Ends(w)
    PROVE  (\A v \in Slots : Follows(v)') /\ (\A j \in Ids : JobTells(j)')
<1>1. /\ IInv /\ row' = row /\ Running(w) /\ slot[w] \in Execution
      /\ slot'[w] = Idle /\ \A v \in Slots : v # w => slot'[v] = slot[v]
  BY DEF QInv, IInv, Types, Ends, Idle, Running
<1>2. PICK e \in Execution : e = slot[w]
  BY <1>1
<1>3. PICK i \in Ids : i = e.id
  BY DEF Execution
<1>4. e.attempt \in Nat
  BY AttemptsAssumption DEF Execution
<1>5. /\ e.locked
      /\ e.pc = "resolve" => Done(i, e.for)
      /\ e.pc = "reject" => Failed(i, e.attempt) \/ (e.attempt = 0 /\ RowOf(i))
  BY <1>1, <1>2, <1>3 DEF QInv, Follows
<1>6. Holds(w, i) /\ mq[i].state = "active" /\ mq[i].for = e.for /\ mq[i].attemptsMade = e.attempt
      /\ \A v \in Slots : Holds(v, i) => v = w
  BY <1>1, <1>2, <1>3, <1>5 DEF IInv, LockOK, Holds, OneHolder
<1>7. PICK x \in {"completed", "delayed", "failed"} :
        /\ JobMoves(i, x)
        /\ mq'[i].attemptsMade = mq[i].attemptsMade + 1
        /\ e.pc = "resolve" <=> x = "completed"
        /\ x = "delayed" <=> x # "completed" /\ e.attempt + 1 < MaxAttempts
  BY <1>2, <1>3, <1>5 DEF Ends
<1>8. e.pc \in {"resolve", "reject"}
  BY <1>2 DEF Ends
<1>9. Follows(w)'
  BY <1>1 DEF Follows, Running, Idle
<1>10. ASSUME NEW v \in Slots, v # w PROVE Follows(v)'
  <2>1. Running(v) => slot[v].id # i
    BY <1>1, <1>2, <1>3, <1>10, OthersElsewhere
  <2> QED BY <1>1, <1>10, <2>1, FollowsKept
<1>11. ASSUME NEW j \in Ids, j # i PROVE JobTells(j)'
  <2>1. mq'[j] = mq[j] /\ row'[j] = row[j]
    BY <1>1, <1>7, <1>11 DEF JobMoves
  <2>2. \A v \in Slots : Holds(v, j) => slot'[v] = slot[v]
    BY <1>1, <1>2, <1>3, <1>11 DEF Holds
  <2> QED BY <2>1, <2>2, JobTellsKept
<1>12. JobTells(i)'
  <2>1. mq'[i].state = x /\ mq'[i].for = e.for /\ mq'[i].attemptsMade = e.attempt + 1
    BY <1>6, <1>7 DEF JobMoves
  <2>2. CASE x = "completed"
    <3>1. Done(i, e.for)'
      BY <1>1, <1>5, <1>7, <2>2 DEF Done
    <3>2. Done(i, mq[i].for)'
      BY <2>1, <3>1 DEF Done
    <3> QED BY <2>1, <2>2, <3>2 DEF JobTells
  <2>3. CASE x # "completed"
    <3>1. e.pc = "reject" /\ row[i].status # "completed"
      <4>1. e.pc = "reject"
        BY <1>7, <1>8, <2>3
      <4>2. \A v \in Slots : Holds(v, i) => slot[v].pc = "reject"
        BY <1>2, <1>6, <4>1
      <4> QED BY <1>6, <4>1, <4>2 DEF QInv, JobTells
    <3>2. row'[i].status # "completed"
      BY <1>1, <3>1
    <3>3. CASE x = "delayed"
      <4>1. RowOf(i)'
        BY <1>1, <1>5, <3>1 DEF RowOf, Failed
      <4> QED BY <2>1, <3>2, <3>3, <4>1 DEF JobTells
    <3>4. CASE x = "failed"
      <4>1. e.attempt # 0
        BY <1>7, <3>4 DEF Retried
      <4>2. Failed(i, e.attempt)
        BY <1>5, <3>1, <4>1
      <4>3. mq'[i].attemptsMade - 1 = e.attempt
        BY <1>4, <2>1
      <4>4. Failed(i, mq[i].attemptsMade - 1)'
        BY <1>1, <4>2, <4>3 DEF Failed
      <4> QED BY <2>1, <3>2, <3>4, <4>4 DEF JobTells
    <3> QED BY <2>3, <3>3, <3>4
  <2> QED BY <2>2, <2>3
<1> QED
  BY <1>9, <1>10, <1>11, <1>12

\* A step that takes no job and moves no execution, and writes a row only
\* where there was none.
LEMMA RowRequests ==
    ASSUME QInv, UNCHANGED <<mq, slot>>,
           \A i \in Ids : RowOf(i) => row'[i] = row[i],
           \A i \in Ids : row'[i].status = "completed" => row'[i] = row[i]
    PROVE  (\A v \in Slots : Follows(v)') /\ (\A j \in Ids : JobTells(j)')
<1>1. ASSUME NEW v \in Slots PROVE Follows(v)'
  <2> SUFFICES ASSUME Running(v) PROVE Follows(v)'
    BY DEF Follows, Running
  <2>1. slot[v] \in Execution
    BY DEF QInv, IInv, Types, Running, Idle
  <2>2. PICK j \in Ids : j = slot[v].id
    BY <2>1 DEF Execution
  <2>3. Follows(v)
    BY DEF QInv
  <2>4. CASE RowOf(j)
    <3>1. row'[j] = row[j]
      BY <2>4
    <3> QED BY <2>2, <2>3, <3>1 DEF Follows, RowOf, Done, Failed, Running
  <2>5. CASE ~RowOf(j)
    <3>1. slot[v].attempt > 0 => RowOf(j)
      BY <2>2, <2>3 DEF Follows
    <3>2. slot[v].pc # "resolve" /\ slot[v].pc # "reject"
      BY <2>2, <2>3, <2>5 DEF Follows, RowOf, Done, Failed
    <3>3. slot[v].locked /\ (slot[v].pc = "create" => slot[v].attempt = 0)
      BY <2>3 DEF Follows
    <3> QED BY <2>5, <3>1, <3>2, <3>3 DEF Follows, Running
  <2> QED BY <2>4, <2>5
<1>2. ASSUME NEW j \in Ids PROVE JobTells(j)'
  <2>1. JobTells(j)
    BY DEF QInv
  <2>2. CASE RowOf(j)
    <3>1. mq'[j] = mq[j] /\ row'[j] = row[j]
      BY <2>2
    <3> QED BY <3>1, JobTellsKept
  <2>3. CASE ~RowOf(j)
    <3>1. mq[j].state \notin {"completed", "failed"}
          /\ (mq[j].state \in {"waiting", "delayed"} => ~(mq[j].attemptsMade > 0))
          /\ (mq[j].state = "active" => \E w \in Slots : Holds(w, j))
      BY <2>1, <2>3 DEF JobTells, RowOf, Done, Failed
    <3>2. row'[j].status # "completed"
      BY <2>3 DEF RowOf
    <3>3. \A w \in Slots : Holds(w, j)' <=> Holds(w, j)
      BY DEF Holds, Running
    <3> QED BY <3>1, <3>2, <3>3 DEF JobTells
  <2> QED BY <2>2, <2>3
<1> QED
  BY <1>1, <1>2

\* The request handlers.
LEMMA RowHandler ==
    ASSUME QInv, NEW s \in Submissions, Handler(s)
    PROVE  (\A v \in Slots : Follows(v)') /\ (\A j \in Ids : JobTells(j)')
<1>1. IInv /\ Types /\ HandlerOK(s)
  BY DEF QInv, IInv
<1>2. CASE CreateRow(s)
  <2>1. PICK i \in Ids : i = idOf[s]
    BY <1>1, <1>2 DEF CreateRow, HandlerOK
  <2>2. row[i] = NoRow /\ \A j \in Ids : j # i => row'[j] = row[j]
    BY <1>1, <1>2, <2>1 DEF CreateRow, Types
  <2>3. row'[i].status = "queued"
    BY <1>1, <1>2, <2>1 DEF CreateRow, Types
  <2>4. UNCHANGED <<mq, slot>>
    BY <1>2 DEF CreateRow, queueVars
  <2>5. ~RowOf(i)
    BY <2>2 DEF RowOf, NoRow
  <2>6. \A j \in Ids : RowOf(j) => row'[j] = row[j]
    BY <2>2, <2>5
  <2>7. \A j \in Ids : row'[j].status = "completed" => row'[j] = row[j]
    BY <2>2, <2>3
  <2> QED BY <2>4, <2>6, <2>7, RowRequests
<1>3. CASE AddJob(s)
  <2>1. idOf[s] = 0
    BY <1>1, <1>3 DEF AddJob, HandlerOK, Early
  <2>2. PICK i \in Ids : i = nextId
    BY <1>1, <2>1, NextIdIsFree
  <2>3. UNCHANGED <<row, slot>> /\ (\A j \in Ids : j # i => mq'[j] = mq[j])
    BY <1>1, <1>3, <2>2 DEF AddJob, Types
  <2>4. mq'[i].state = "waiting" /\ mq'[i].attemptsMade = 0
    BY <1>1, <1>3, <2>2 DEF AddJob, Types
  <2>5. mq[i].state = "none"
    BY <1>1, <2>2, IdsAreNat DEF IInv, JobOK
  <2>6. row'[i].status # "completed"
    <3>1. \A w \in Slots : ~Holds(w, i)
      BY <1>1, <2>5, HeldIsActive
    <3> QED BY <2>3, <2>5, <3>1 DEF QInv, JobTells
  <2>7. JobTells(i)'
    BY <2>4, <2>6 DEF JobTells
  <2>8. ASSUME NEW j \in Ids, j # i PROVE JobTells(j)'
    BY <2>3, <2>8, JobTellsKept
  <2>9. ASSUME NEW v \in Slots PROVE Follows(v)'
    <3>1. Follows(v)
      BY DEF QInv
    <3> QED BY <2>3, <3>1 DEF Follows, Running, RowOf, Done, Failed
  <2> QED BY <2>7, <2>8, <2>9
<1>4. CASE ~CreateRow(s) /\ ~AddJob(s)
  <2>1. UNCHANGED <<mq, slot, row>>
    BY <1>4 DEF Handler, Upload, CreateRowFails, SyncHash, SyncCheck, SyncPersist, queueVars
  <2> QED BY <2>1, RowRequests
<1> QED
  BY <1>2, <1>3, <1>4

\* A backoff is over; and no active job is without its execution, so the
\* stalled check finds none.
LEMMA RowQueue ==
    ASSUME QInv, NEW i \in Ids, Promote(i) \/ Recover(i)
    PROVE  (\A v \in Slots : Follows(v)') /\ (\A j \in Ids : JobTells(j)')
<1>1. IInv /\ Types
  BY DEF QInv, IInv
<1>2. ~Recover(i)
  <2> SUFFICES ASSUME Recover(i) PROVE FALSE
    OBVIOUS
  <2>1. \E w \in Slots : Holds(w, i)
    BY DEF Recover, QInv, JobTells
  <2> QED BY <1>1, <2>1, NoHolders DEF Recover
<1>3. mq[i].state = "delayed" /\ UNCHANGED <<row, slot>>
  BY <1>2 DEF Promote
<1>4. Live(i)
  BY <1>3 DEF Live
<1>5. JobMoves(i, "waiting") /\ mq'[i].attemptsMade = mq[i].attemptsMade
  BY <1>1, <1>2, <1>4, JobRestated DEF Promote, States
<1>6. ASSUME NEW v \in Slots PROVE Follows(v)'
  <2>1. Follows(v)
    BY DEF QInv
  <2> QED BY <1>3, <2>1 DEF Follows, Running, RowOf, Done, Failed
<1>7. JobTells(i)'
  <2>1. mq'[i].state = "waiting"
    BY <1>5 DEF JobMoves
  <2>2. mq[i].attemptsMade > 0 => RowOf(i)'
    BY <1>3 DEF QInv, JobTells, RowOf
  <2>3. row'[i].status # "completed"
    <3>1. \A w \in Slots : ~Holds(w, i)
      BY <1>1, <1>3, HeldIsActive
    <3> QED BY <1>3, <3>1 DEF QInv, JobTells
  <2> QED BY <1>5, <2>1, <2>2, <2>3 DEF JobTells
<1>8. ASSUME NEW j \in Ids, j # i PROVE JobTells(j)'
  <2>1. mq'[j] = mq[j] /\ row'[j] = row[j]
    BY <1>3, <1>5, <1>8 DEF JobMoves
  <2> QED BY <1>3, <2>1, JobTellsKept
<1> QED
  BY <1>6, <1>7, <1>8

\* At the start there are no jobs, rows or executions.
LEMMA RowInit ==
    ASSUME Init
    PROVE  QInv
<1>1. IInv
  BY InvInit
<1>2. \A w \in Slots : Follows(w)
  BY DEF Init, Follows, Running, Idle
<1>3. \A i \in Ids : JobTells(i)
  BY DEF Init, JobTells, NoJob, NoRow
<1> QED
  BY <1>1, <1>2, <1>3 DEF QInv

\* The invariant is inductive.
LEMMA RowNext ==
    ASSUME QInv, NoFaults, Retried, [Next]_vars
    PROVE  QInv'
<1>1. IInv'
  BY InvNext DEF QInv
<1> SUFFICES (\A v \in Slots : Follows(v)') /\ (\A j \in Ids : JobTells(j)')
  BY <1>1 DEF QInv
<1>2. ASSUME NEW s \in Submissions, Handler(s)
      PROVE  (\A v \in Slots : Follows(v)') /\ (\A j \in Ids : JobTells(j)')
  BY <1>2, RowHandler
<1>3. ASSUME NEW w \in Slots, Execute(w)
      PROVE  (\A v \in Slots : Follows(v)') /\ (\A j \in Ids : JobTells(j)')
  <2>1. CASE \E i \in Ids : Take(w, i)
    BY <2>1, RowTake
  <2>2. CASE Stepping(w)
    BY <2>2, RowStep
  <2>3. CASE Resolve(w) \/ Reject(w)
    BY <2>3, SettleEnds, RowEnd DEF QInv
  <2> QED BY <1>3, <2>1, <2>2, <2>3 DEF Execute, Stepping
<1>4. ASSUME NEW i \in Ids, Promote(i) \/ Recover(i)
      PROVE  (\A v \in Slots : Follows(v)') /\ (\A j \in Ids : JobTells(j)')
  BY <1>4, RowQueue
<1>5. ~Crash /\ ~LoseQueue /\ \A i \in Ids : ~Stall(i)
  BY Quiet DEF Crash, LoseQueue, Stall
<1>6. CASE Finished \/ UNCHANGED vars
  <2>1. UNCHANGED vars
    BY <1>6 DEF Finished
  <2>2. UNCHANGED <<mq, slot, row>>
    BY <2>1 DEF vars, queueVars
  <2> QED BY <2>2, RowRequests
<1> QED
  BY <1>2, <1>3, <1>4, <1>5, <1>6 DEF Next

-----------------------------------------------------------------------------
(* The theorems.                                                           *)

\* The inductive invariant of every behaviour: what is told without faults is
\* told until the first of them.
GInv == IInv /\ (faults = 0 => QInv)

\* Faults are counted and never forgotten.
LEMMA FaultsGrow ==
    ASSUME faults \in Nat, [Next]_vars
    PROVE  faults' = faults \/ faults' = faults + 1
<1>1. ASSUME NEW s \in Submissions, Handler(s) PROVE faults' = faults \/ faults' = faults + 1
  BY <1>1 DEF Handler, Upload, AddJob, CreateRow, CreateRowFails, SyncHash, SyncCheck,
     SyncPersist, DbFault, Fault
<1>2. ASSUME NEW w \in Slots, Execute(w) PROVE faults' = faults \/ faults' = faults + 1
  BY <1>2 DEF Execute, Take, FindRow, CreateProcessing, MarkProcessing, HashInput, NoteHash,
     CheckContent, PersistVerification, CompleteRow, FailRow, Resolve, Reject, DbFault, Fault
<1>3. ASSUME NEW i \in Ids, Promote(i) \/ Recover(i) \/ Stall(i)
      PROVE  faults' = faults \/ faults' = faults + 1
  BY <1>3 DEF Promote, Recover, Stall, Fault
<1>4. CASE Crash \/ LoseQueue \/ Finished \/ UNCHANGED vars
  BY <1>4 DEF Crash, LoseQueue, Finished, vars, Fault
<1> QED BY <1>1, <1>2, <1>3, <1>4 DEF Next

\* It holds at the start,
LEMMA GoodInit ==
    ASSUME Init
    PROVE  GInv
BY RowInit DEF GInv, QInv

\* and it is inductive.
LEMMA GoodNext ==
    ASSUME GInv, Retried, [Next]_vars
    PROVE  GInv'
<1>1. IInv' /\ faults \in Nat
  BY InvNext DEF GInv, IInv, Types
<1>2. ASSUME faults' = 0 PROVE QInv'
  <2>1. NoFaults /\ faults = 0
    BY <1>1, <1>2, FaultsGrow DEF NoFaults
  <2> QED BY <2>1, RowNext DEF GInv
<1> QED
  BY <1>1, <1>2 DEF GInv

\* What the invariant says of the properties.
LEMMA RowImplies ==
    ASSUME GInv
    PROVE  QueueInv
<1>1. IInv
  BY DEF GInv
<1>2. RowTellsOutcome
  <2> SUFFICES ASSUME faults = 0, NEW i \in Ids
               PROVE  /\ mq[i].state = "completed" => Done(i, mq[i].for)
                      /\ mq[i].state = "failed" => Failed(i, mq[i].attemptsMade - 1)
    BY DEF RowTellsOutcome, Done, Failed
  <2> QED BY DEF GInv, QInv, JobTells
<1> QED
  BY <1>1, <1>2, InvImplies DEF QueueInv

\* When a failed job is retried at least once, and as long as nothing has gone
\* wrong: once BullMQ is done with a job its row tells the same outcome.  The
\* row is written by the request and the worker in an order nothing fixes.
THEOREM RowsTellOutcomes ==
    ASSUME Retried
    PROVE  Spec => []QueueInv
<1>1. Init => GInv
  BY GoodInit
<1>2. GInv /\ [Next]_vars => GInv'
  BY GoodNext
<1>3. GInv => QueueInv
  BY RowImplies
<1> QED BY <1>1, <1>2, <1>3, PTL DEF Spec

\* A completed row belongs to a settled job, or to the execution about to
\* settle it, so nobody writes it again.
LEMMA CompletedStays ==
    ASSUME QInv, NoFaults, [Next]_vars, NEW i \in Ids, row[i].status = "completed"
    PROVE  row'[i] = row[i]
<1>1. IInv /\ Types /\ RowOf(i)
  BY DEF QInv, IInv, RowOf
<1>2. ASSUME NEW s \in Submissions, Handler(s) PROVE row'[i] = row[i]
  <2>1. CASE CreateRow(s)
    <3>1. row[idOf[s]] = NoRow /\ idOf[s] \in Ids
      BY <1>1, <2>1 DEF CreateRow, IInv, HandlerOK
    <3>2. idOf[s] # i
      BY <1>1, <3>1 DEF RowOf, NoRow
    <3> QED BY <1>1, <2>1, <3>2 DEF CreateRow, Types
  <2>2. CASE ~CreateRow(s)
    BY <1>2, <2>2 DEF Handler, Upload, AddJob, CreateRowFails, SyncHash, SyncCheck, SyncPersist
  <2> QED BY <2>1, <2>2
<1>3. ASSUME NEW w \in Slots, Stepping(w) PROVE row'[i] = row[i]
  <2>1. PICK p \in PCs : StepEffect(w, p)
    BY <1>1, <1>3, StepEffects
  <2>2. Running(w) /\ slot[w] \in Execution /\ slot[w].pc # "resolve"
    BY <1>1, <2>1 DEF StepEffect, Running, Types, Idle, RecordsNothing, RecordsOnce
  <2>3. slot[w].locked
    BY <2>2 DEF QInv, Follows
  <2>4. slot[w].id # i
    <3> SUFFICES ASSUME slot[w].id = i PROVE FALSE
      OBVIOUS
    <3>1. Holds(w, i) /\ mq[i].state = "active"
      BY <1>1, <2>2, <2>3, HeldIsActive DEF Holds
    <3>2. \A v \in Slots : Holds(v, i) => v = w
      BY <1>1, <3>1 DEF IInv, OneHolder
    <3> QED BY <2>2, <3>1, <3>2 DEF QInv, JobTells
  <2>5. PICK j \in Ids : j = slot[w].id
    BY <2>2 DEF Execution
  <2>6. RowMoves(j, slot[w].for)
    BY <2>1, <2>5 DEF StepEffect
  <2> QED BY <2>4, <2>5, <2>6 DEF RowMoves
<1>4. ASSUME NEW w \in Slots, Execute(w), ~Stepping(w) PROVE row'[i] = row[i]
  BY <1>4 DEF Execute, Stepping, Take, Resolve, Reject
<1>5. ASSUME NEW j \in Ids, Promote(j) \/ Recover(j) \/ Stall(j) PROVE row'[i] = row[i]
  BY <1>5 DEF Promote, Recover, Stall
<1>6. CASE Crash \/ LoseQueue \/ Finished \/ UNCHANGED vars
  BY <1>6 DEF Crash, LoseQueue, Finished, vars
<1> QED
  BY <1>2, <1>3, <1>4, <1>5, <1>6 DEF Next

\* As long as nothing has gone wrong a completed row is never taken back,
\* however executions, retries and requests interleave.
THEOREM CompletedRowsAreFinal ==
    ASSUME Retried
    PROVE  Spec => CompletedIsFinal
<1>1. Init => GInv
  BY GoodInit
<1>2. GInv /\ [Next]_vars => GInv'
  BY GoodNext
<1>3. GInv /\ [Next]_vars =>
        [faults' = 0 => \A i \in Ids : row[i].status = "completed" => row'[i] = row[i]]_vars
  <2> SUFFICES ASSUME GInv, [Next]_vars, faults' = 0, NEW i \in Ids, row[i].status = "completed"
               PROVE  row'[i] = row[i]
    OBVIOUS
  <2>1. NoFaults /\ QInv
    BY FaultsGrow DEF GInv, IInv, Types, NoFaults
  <2> QED BY <2>1, CompletedStays
<1> QED BY <1>1, <1>2, <1>3, PTL DEF Spec, CompletedIsFinal
===============================================================================
