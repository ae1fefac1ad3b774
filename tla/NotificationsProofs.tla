------------------------ MODULE NotificationsProofs ------------------------
(***************************************************************************)
(* Proofs about the notifications, for any notices, slots, attempts,       *)
(* changes of the preferences and faults.                                  *)
(*                                                                         *)
(* SInv ties the call, BullMQ's job, the execution that holds its lock and *)
(* the row of each attempt together.  BInv keeps the books on top of it:   *)
(* for each notice the mails that were sent, may still be sent, and are    *)
(* reported.                                                               *)
(***************************************************************************)
EXTENDS Notifications, FiniteSetTheorems, SequenceTheorems, TLAPS

\* An execution that is under way, that holds the lock of notice n, and a job
\* that may still be taken.
Running(w) == slot[w].pc # "idle"
Holds(w, n) == Running(w) /\ slot[w].locked /\ slot[w].for = n
Live(n) == job[n].state \in {"waiting", "active", "delayed"}

\* The shape of every variable.
Shapes ==
    /\ redis \in {"unset", "up"} /\ provider \in {"disabled", "on"}
    /\ call \in [Notices -> {"idle", "create", "queue", "logSent", "logFailed", "done", "dropped"}]
    /\ job \in [Notices -> {NoJob} \cup Job]
    /\ slot \in [Slots -> {Idle} \cup Execution]
    /\ rows \in [Notices -> Seq(Row)]
    /\ mails \in [Notices -> Nat]
    /\ faults \in 0 .. MaxFaults

\* The call makes the job, and only with a queue.
CallOK(n) ==
    /\ job[n].state # "none" => call[n] = "done" /\ redis = "up"
    /\ call[n] \in {"logSent", "logFailed"} => redis = "unset"
    /\ Live(n) => job[n].made < MaxAttempts /\ job[n].stalled <= 1

\* The execution that holds the lock of a job is the one BullMQ knows of.
LockOK(w) == Running(w) /\ slot[w].locked =>
    job[slot[w].for].state = "active" /\ job[slot[w].for].made = slot[w].made

\* A job has one lock holder.
OneHolder == \A v, w \in Slots, n \in Notices : Holds(v, n) /\ Holds(w, n) => v = w

\* What the row of an attempt says at each step of it.
RowOK(e, its) == LET i == e.row IN
    /\ i = 0 \/ i \in DOMAIN its[e.for]
    /\ e.pc = "create" => i = 0
    /\ e.pc \in {"check", "skip", "send", "update"} => i # 0 /\ its[e.for][i].status = "queued"
    /\ e.pc = "fail" => i # 0 /\ its[e.for][i].status # "sent"
    /\ e.pc = "resolve" => i # 0 /\ its[e.for][i].status \in {"sent", "skipped"}

\* No two executions write one row.
RowsApart == \A v, w \in Slots :
    Running(v) /\ Running(w) /\ slot[v].for = slot[w].for /\ slot[v].row = slot[w].row /\ slot[v].row # 0
        => v = w

\* A row that tells of the mail, and that no execution writes any more.
Logged(n) == job[n].state = "completed" =>
    \E i \in DOMAIN rows[n] :
        /\ rows[n][i].status \in {"sent", "skipped"}
        /\ \A w \in Slots : Running(w) /\ slot[w].for = n => slot[w].row # i

\* The structure of the queue, without a count.
SInv ==
    /\ Shapes
    /\ \A n \in Notices : CallOK(n) /\ Logged(n)
    /\ \A w \in Slots : LockOK(w) /\ (Running(w) => RowOK(slot[w], rows))
    /\ OneHolder /\ RowsApart

-----------------------------------------------------------------------------
\* Executions that lost their lock and may still send the mail.
Strays(n) == {w \in Slots : slot[w].pc \in {"create", "check", "send"} /\ ~slot[w].locked /\ slot[w].for = n}

\* Executions that sent the mail and have not said so in the row.
Reporting(n) == {w \in Slots : At(w, "update") /\ slot[w].ok /\ slot[w].for = n}

\* So has the execution that holds the lock; so has the call, without a queue.
HeldReport(n) == \E w \in Reporting(n) : slot[w].locked
Logging(n) == call[n] = "logSent"

\* The call, or its job's execution that holds the lock now or will hold it
\* later, may still send the mail.
Owed(n) ==
    \/ call[n] \in {"idle", "create", "queue"}
    \/ Live(n) /\ \A w \in Slots : Holds(w, n) =>
                     slot[w].pc # "resolve" /\ ~(slot[w].pc = "update" /\ slot[w].ok)

\* Counting a condition, and the two sets above.
One(b) == IF b THEN 1 ELSE 0

Astray(n) == Cardinality(Strays(n))
Unreported(n) == Cardinality(Reporting(n))

\* The two counts: mails against faults, and rows that say "sent" against mails.
Counted(n) == mails[n] + Astray(n) + One(Owed(n)) <= 1 + faults
Reported(n) == provider = "on" =>
    /\ Sent(n) + Unreported(n) + One(Logging(n)) <= mails[n]
    /\ mails[n] + Astray(n) <= Sent(n) + faults + One(HeldReport(n)) + One(Logging(n))

\* The structure and both counts.
BInv == SInv /\ \A n \in Notices : Counted(n) /\ Reported(n)

-----------------------------------------------------------------------------
\* The preferences and who looks at them.
PrefsOK ==
    /\ prefs \in {NoPrefs} \cup Prefs
    /\ choices \in 0 .. MaxChoices
    /\ viewer \in {"idle", "create", "done"}

\* What an execution about to send has read of the choices is what they are now,
\* or they changed since.
ReadOK(w) == slot[w].pc = "send" /\ ~slot[w].blind =>
    slot[w].seen <= choices /\ (slot[w].seen = choices => Wanted(slot[w].for))

\* Until the first row of preferences is made nobody is past its creation, and
\* its maker is.
FirstOK == faults = 0 /\ choices = 0 /\ viewer = "idle" =>
    IF prefs.exists THEN \E n \in Notices : call[n] \in {"queue", "logSent", "logFailed", "done"}
    ELSE \A n \in Notices : call[n] \in {"idle", "create"}

\* The invariant of the preferences.
PInv == PrefsOK /\ Shapes /\ FirstOK /\ \A w \in Slots : ReadOK(w)

-----------------------------------------------------------------------------
(* The records of one notice.                                              *)

\* All rows but the i-th of n stay as they are.
RowsKeep(n, i) ==
    /\ rows' \in [Notices -> Seq(Row)]
    /\ \A m \in Notices : \A j \in DOMAIN rows[m] :
          j \in DOMAIN rows'[m] /\ ((m = n /\ j = i) \/ rows'[m][j] = rows[m][j])

\* Each fault is counted, up to the bound.
LEMMA FaultCounts ==
    ASSUME faults \in 0 .. MaxFaults, NEW kind, Fault(kind)
    PROVE  faults' \in 0 .. MaxFaults /\ faults' = faults + 1
BY BoundsAssumption DEF Fault

\* The status of one row is written.
Writes(n, i, status) == rows' = [rows EXCEPT ![n][i].status = status]

\* Writing a status into a row that is there.
LEMMA SetRowKeeps ==
    ASSUME SInv, NEW n \in Notices, NEW i \in DOMAIN rows[n],
           NEW status \in {"queued", "sent", "failed", "skipped"},
           Writes(n, i, status)
    PROVE  /\ RowsKeep(n, i)
           /\ \A m \in Notices : DOMAIN rows'[m] = DOMAIN rows[m]
           /\ rows'[n][i].status = status
<1>1. rows \in [Notices -> Seq(Row)] /\ rows[n] \in Seq(Row)
  BY DEF SInv, Shapes
<1>2. rows[n][i] \in Row
  BY <1>1, ElementOfSeq, LenProperties
<1> DEFINE r == [rows[n][i] EXCEPT !.status = status]
<1>3. r \in Row /\ r.status = status
  BY <1>2 DEF Row
<1>4. rows' = [rows EXCEPT ![n] = [@ EXCEPT ![i] = r]]
  BY DEF Writes
<1> DEFINE t == [rows[n] EXCEPT ![i] = r]
<1> HIDE DEF r
<1>5. /\ t \in Seq(Row) /\ DOMAIN t = DOMAIN rows[n] /\ t[i] = r
      /\ \A j \in DOMAIN rows[n] : j # i => t[j] = rows[n][j]
  BY <1>1, <1>3, ExceptSeq, LenProperties
<1>6. rows' = [rows EXCEPT ![n] = t]
  BY <1>4
<1> HIDE DEF t
<1> QED
  BY <1>1, <1>3, <1>5, <1>6 DEF RowsKeep

\* A new row is the last one.
LEMMA AppendKeeps ==
    ASSUME SInv, NEW n \in Notices, NEW r \in Row, rows' = [rows EXCEPT ![n] = Append(@, r)]
    PROVE  LET i == Len(rows[n]) + 1 IN
           /\ i \in Nat \ {0} /\ i \notin DOMAIN rows[n] /\ RowsKeep(n, i)
           /\ DOMAIN rows'[n] = DOMAIN rows[n] \cup {i} /\ rows'[n][i] = r
           /\ \A m \in Notices \ {n} : rows'[m] = rows[m]
<1> DEFINE i == Len(rows[n]) + 1
<1>1. rows \in [Notices -> Seq(Row)] /\ rows[n] \in Seq(Row)
  BY DEF SInv, Shapes
<1>2. /\ Append(rows[n], r) \in Seq(Row) /\ Len(Append(rows[n], r)) = i
      /\ \A j \in 1 .. Len(rows[n]) : Append(rows[n], r)[j] = rows[n][j]
      /\ Append(rows[n], r)[i] = r
  BY <1>1, AppendProperties
<1>3. DOMAIN rows[n] = 1 .. Len(rows[n]) /\ Len(rows[n]) \in Nat /\ DOMAIN Append(rows[n], r) = 1 .. i
  BY <1>1, <1>2, LenProperties
<1>4. rows'[n] = Append(rows[n], r) /\ \A m \in Notices \ {n} : rows'[m] = rows[m]
  BY <1>1
<1>5. rows' \in [Notices -> Seq(Row)]
  BY <1>1, <1>2
<1> QED
  BY <1>2, <1>3, <1>4, <1>5 DEF RowsKeep

\* A worker's execution.
LEMMA RunningIs ==
    ASSUME SInv, NEW w \in Slots, Running(w)
    PROVE  slot[w] \in Execution /\ slot[w].for \in Notices /\ RowOK(slot[w], rows)
<1>1. slot[w] # Idle
  BY DEF Running, Idle
<1> QED
  BY <1>1 DEF SInv, Shapes, Execution

\* What an execution is after the provider answered.
Asked(e, ok) == [e EXCEPT !.pc = "update", !.ok = ok, !.seen = 0, !.blind = FALSE]

\* An execution that has asked the provider.
LEMMA AskedIs ==
    ASSUME NEW e \in Execution, NEW ok \in BOOLEAN, NEW d, d = Asked(e, ok)
    PROVE  /\ d \in Execution /\ d.for = e.for /\ d.made = e.made /\ d.locked = e.locked
           /\ d.row = e.row /\ d.pc = "update" /\ d.ok = ok
<1>1. 0 \in 0 .. MaxChoices
  BY BoundsAssumption
<1>2. d \in Execution
  BY <1>1 DEF Execution, Asked
<1>3. /\ d.for = e.for /\ d.made = e.made /\ d.locked = e.locked
      /\ d.row = e.row /\ d.pc = "update" /\ d.ok = ok
  BY DEF Execution, Asked
<1> QED BY <1>2, <1>3

\* A job whose attempt failed.
LEMMA RetriedIs ==
    ASSUME NEW j \in Job, NEW k, j.made = k, j.stalled <= 1, k < MaxAttempts
    PROVE  /\ Retried(j, k) \in Job /\ Retried(j, k).state \in {"delayed", "failed"}
           /\ Retried(j, k).stalled <= 1
           /\ Retried(j, k).state = "delayed" => Retried(j, k).made < MaxAttempts
<1>1. k \in Nat
  BY DEF Job
<1> DEFINE to == IF k + 1 < MaxAttempts THEN "delayed" ELSE "failed"
<1>2. Retried(j, k) = [j EXCEPT !.made = @ + 1, !.state = to]
  BY DEF Retried
<1>3. to \in {"delayed", "failed"}
  OBVIOUS
<1>4. to = "delayed" => k + 1 < MaxAttempts
  OBVIOUS
<1>5. k + 1 \in 0 .. MaxAttempts
  BY <1>1, AttemptsAssumption
<1> HIDE DEF to
<1>6. /\ Retried(j, k).state = to /\ Retried(j, k).stalled = j.stalled
      /\ Retried(j, k).made = k + 1
  BY <1>2 DEF Job
<1>7. Retried(j, k) \in Job
  BY <1>2, <1>3, <1>5 DEF Job
<1> QED BY <1>3, <1>4, <1>6, <1>7

\* A job that nobody holds any more.
LEMMA RequeuedIs ==
    ASSUME NEW j \in Job, j.stalled <= 1
    PROVE  /\ Requeued(j) \in Job /\ Requeued(j).state \in {"waiting", "failed"}
           /\ Requeued(j).state = "waiting" => Requeued(j).made = j.made /\ Requeued(j).stalled <= 1
<1> DEFINE to == IF j.stalled = 0 THEN "waiting" ELSE "failed"
<1>1. Requeued(j) = [j EXCEPT !.stalled = @ + 1, !.state = to]
  BY DEF Requeued
<1>2. to \in {"waiting", "failed"} /\ (to = "waiting" => j.stalled = 0)
  OBVIOUS
<1> HIDE DEF to
<1>3. /\ Requeued(j).state = to /\ Requeued(j).made = j.made
      /\ Requeued(j).stalled = j.stalled + 1
  BY <1>1 DEF Job
<1>4. Requeued(j) \in Job
  <2>1. j.stalled + 1 \in 0 .. 2
    BY DEF Job
  <2> DEFINE more == j.stalled + 1
  <2>3. more \in 0 .. 2
    BY <2>1
  <2> HIDE DEF more
  <2>2. [j EXCEPT !.stalled = more, !.state = to] \in Job
    BY <1>2, <2>3 DEF Job
  <2> QED BY <1>1, <2>2 DEF more
<1> QED BY <1>2, <1>3, <1>4

\* A step of an execution, which writes its own row at most, and keeps its
\* lock as it is.
LEMMA WorkerStep ==
    ASSUME SInv, NEW w \in Slots, Running(w), NEW e \in Execution,
           e.for = slot[w].for, e.made = slot[w].made, e.locked => slot[w].locked,
           slot' = [slot EXCEPT ![w] = e],
           UNCHANGED <<config, call, job>>, mails' \in [Notices -> Nat], faults' \in 0 .. MaxFaults,
           RowsKeep(e.for, e.row), RowOK(e, rows'),
           e.row = slot[w].row \/ (slot[w].row = 0 /\ e.row \notin DOMAIN rows[e.for])
    PROVE  SInv'
<1>1. slot[w] \in Execution /\ e.for \in Notices /\ RowOK(slot[w], rows)
  BY RunningIs
<1>2. slot'[w] = e /\ \A v \in Slots : v # w => slot'[v] = slot[v]
  BY DEF SInv, Shapes
<1>3. Running(w)' /\ \A v \in Slots : v # w => (Running(v)' <=> Running(v))
  BY <1>2 DEF Running, Execution
<1>4. Shapes'
  BY DEF SInv, Shapes, RowsKeep, config
<1>5. \A n \in Notices : CallOK(n)'
  BY DEF SInv, CallOK, Live, config
<1>6. \A v \in Slots : LockOK(v)'
  BY <1>2, <1>3 DEF SInv, LockOK
<1>7. OneHolder'
  BY <1>2, <1>3 DEF SInv, OneHolder, Holds
<1>8. ASSUME NEW v \in Slots, v # w, Running(v), slot[v].for = e.for, slot[v].row # 0
      PROVE  slot[v].row # e.row
  <2>1. RowOK(slot[v], rows)
    BY <1>8 DEF SInv
  <2>2. slot[v].row \in DOMAIN rows[e.for]
    BY <1>8, <2>1 DEF RowOK
  <2> QED BY <1>8, <2>2 DEF SInv, RowsApart
<1>9. ASSUME NEW v \in Slots, Running(v)' PROVE RowOK(slot[v], rows)'
  <2>1. CASE v = w
    BY <1>2, <2>1 DEF RowOK
  <2>2. CASE v # w
    <3>1. Running(v) /\ slot[v] \in Execution /\ slot[v].for \in Notices /\ RowOK(slot[v], rows)
      BY <1>3, <1>9, <2>2, RunningIs
    <3>2. slot[v].row # 0 => /\ slot[v].row \in DOMAIN rows[slot[v].for]
                             /\ slot[v].row \in DOMAIN rows'[slot[v].for]
                             /\ rows'[slot[v].for][slot[v].row] = rows[slot[v].for][slot[v].row]
      BY <1>8, <2>2, <3>1 DEF RowsKeep, RowOK
    <3> QED BY <1>2, <2>2, <3>1, <3>2 DEF RowOK
  <2> QED BY <2>1, <2>2
<1>10. RowsApart'
  BY <1>2, <1>3, <1>8 DEF SInv, RowsApart
<1>11. ASSUME NEW n \in Notices, job[n].state = "completed" PROVE Logged(n)'
  <2>1. PICK i \in DOMAIN rows[n] :
            /\ rows[n][i].status \in {"sent", "skipped"}
            /\ \A v \in Slots : Running(v) /\ slot[v].for = n => slot[v].row # i
    BY <1>11 DEF SInv, Logged
  <2>2. e.for = n => e.row # i
    BY <2>1
  <2>3. i \in DOMAIN rows'[n] /\ rows'[n][i] = rows[n][i]
    BY <2>1, <2>2 DEF RowsKeep
  <2> QED BY <1>2, <1>3, <2>1, <2>2, <2>3 DEF Logged
<1> QED
  BY <1>4, <1>5, <1>6, <1>7, <1>9, <1>10, <1>11 DEF SInv, Logged

\* The end of an execution; its outcome counts while it holds the lock.
LEMMA EndStep ==
    ASSUME SInv, NEW w \in Slots, Running(w), slot' = [slot EXCEPT ![w] = Idle],
           UNCHANGED <<config, call, rows, mails, faults>>,
           job' \in [Notices -> {NoJob} \cup Job],
           \A n \in Notices : n # slot[w].for \/ ~slot[w].locked => job'[n] = job[n],
           slot[w].locked =>
              /\ job'[slot[w].for].state \in {"completed", "delayed", "failed"}
              /\ job'[slot[w].for].state = "completed" => slot[w].pc = "resolve"
              /\ job'[slot[w].for].state = "delayed" => /\ job'[slot[w].for].made < MaxAttempts
                                                        /\ job'[slot[w].for].stalled <= 1
    PROVE  SInv'
<1> DEFINE n == slot[w].for
<1>1. slot[w] \in Execution /\ n \in Notices /\ RowOK(slot[w], rows)
  BY RunningIs
<1>2. slot'[w] = Idle /\ \A v \in Slots : v # w => slot'[v] = slot[v]
  BY DEF SInv, Shapes
<1>3. ~Running(w)' /\ \A v \in Slots : v # w => (Running(v)' <=> Running(v))
  BY <1>2 DEF Running, Idle
<1>4. Shapes'
  BY <1>2 DEF SInv, Shapes, config
<1>5. slot[w].locked => job[n].state = "active"
  BY DEF SInv, LockOK
<1>6. ASSUME NEW m \in Notices PROVE CallOK(m)'
  BY <1>1, <1>5 DEF SInv, CallOK, Live, config
<1>7. ASSUME NEW v \in Slots, Running(v)', slot'[v].locked
      PROVE  job'[slot[v].for] = job[slot[v].for] /\ v # w
  <2>1. v # w /\ Running(v) /\ slot[v].locked /\ slot[v].for \in Notices
    BY <1>2, <1>3, <1>7, RunningIs
  <2>2. ~(slot[w].locked /\ slot[v].for = n)
    BY <1>1, <2>1 DEF SInv, OneHolder, Holds
  <2> QED BY <2>1, <2>2
<1>8. \A v \in Slots : LockOK(v)'
  BY <1>2, <1>3, <1>7 DEF SInv, LockOK
<1>9. OneHolder' /\ RowsApart'
  BY <1>2, <1>3 DEF SInv, OneHolder, Holds, RowsApart
<1>10. \A v \in Slots : Running(v)' => RowOK(slot[v], rows)'
  BY <1>2, <1>3 DEF SInv, RowOK
<1>11. ASSUME NEW m \in Notices, job'[m].state = "completed" PROVE Logged(m)'
  <2>1. CASE job[m].state = "completed"
    BY <1>2, <1>3, <2>1 DEF SInv, Logged
  <2>2. CASE job[m].state # "completed"
    <3>1. m = n /\ slot[w].pc = "resolve"
      BY <1>1, <1>11, <2>2
    <3>2. slot[w].row \in DOMAIN rows[n] /\ rows[n][slot[w].row].status \in {"sent", "skipped"} /\ slot[w].row # 0
      BY <1>1, <3>1 DEF RowOK
    <3>3. \A v \in Slots : Running(v)' /\ slot'[v].for = n => slot'[v].row # slot[w].row
      BY <1>2, <1>3, <3>2 DEF SInv, RowsApart
    <3> QED BY <3>1, <3>2, <3>3 DEF Logged
  <2> QED BY <2>1, <2>2
<1> QED
  BY <1>4, <1>6, <1>8, <1>9, <1>10, <1>11 DEF SInv, Logged

\* A job that no execution holds moves.
LEMMA JobStep ==
    ASSUME SInv, NEW n \in Notices, NEW j \in Job, job' = [job EXCEPT ![n] = j],
           \A w \in Slots : ~Holds(w, n), j.state # "completed",
           call' \in [Notices -> {"idle", "create", "queue", "logSent", "logFailed", "done", "dropped"}],
           \A m \in Notices \ {n} : call'[m] = call[m],
           UNCHANGED <<config, slot, rows, mails, faults>>, CallOK(n)'
    PROVE  SInv'
<1>1. job'[n] = j /\ \A m \in Notices \ {n} : job'[m] = job[m]
  BY DEF SInv, Shapes
<1>2. Shapes'
  BY DEF SInv, Shapes, config
<1>3. \A m \in Notices : CallOK(m)' /\ Logged(m)'
  BY <1>1 DEF SInv, CallOK, Logged, Live, Running, config
<1>4. ASSUME NEW w \in Slots PROVE LockOK(w)'
  <2> SUFFICES ASSUME Running(w), slot[w].locked
               PROVE  job'[slot[w].for].state = "active" /\ job'[slot[w].for].made = slot[w].made
    BY DEF LockOK, Running
  <2>1. slot[w].for \in Notices \ {n}
    BY RunningIs DEF Holds
  <2> QED BY <1>1, <2>1 DEF SInv, LockOK
<1> QED
  BY <1>2, <1>3, <1>4 DEF SInv, Running, RowOK, OneHolder, Holds, RowsApart

\* Calls that do not touch the queue.
LEMMA CallStep ==
    ASSUME SInv, UNCHANGED <<config, job, slot>>, rows' = rows \/ \E n \in Notices : RowsKeep(n, Len(rows[n]) + 1),
           call' \in [Notices -> {"idle", "create", "queue", "logSent", "logFailed", "done", "dropped"}],
           mails' \in [Notices -> Nat], faults' \in 0 .. MaxFaults,
           \A n \in Notices : /\ call[n] = "done" => call'[n] = "done"
                              /\ call'[n] \in {"logSent", "logFailed"} => redis = "unset"
    PROVE  SInv'
<1>1. rows' \in [Notices -> Seq(Row)]
      /\ \A m \in Notices : \A j \in DOMAIN rows[m] : j \in DOMAIN rows'[m] /\ rows'[m][j] = rows[m][j]
  <2>1. CASE rows' = rows
    BY <2>1 DEF SInv, Shapes
  <2>2. ASSUME NEW n \in Notices, RowsKeep(n, Len(rows[n]) + 1)
        PROVE  rows' \in [Notices -> Seq(Row)]
               /\ \A m \in Notices : \A j \in DOMAIN rows[m] : j \in DOMAIN rows'[m] /\ rows'[m][j] = rows[m][j]
    <3>1. Len(rows[n]) + 1 \notin DOMAIN rows[n]
      BY LenProperties DEF SInv, Shapes
    <3> QED BY <2>2, <3>1 DEF RowsKeep
  <2> QED BY <2>1, <2>2
<1>2. Shapes'
  BY <1>1 DEF SInv, Shapes, config
<1>3. \A m \in Notices : CallOK(m)'
  BY DEF SInv, CallOK, Live, config
<1>5. ASSUME NEW m \in Notices, job[m].state = "completed" PROVE Logged(m)'
  <2>1. PICK i \in DOMAIN rows[m] :
            /\ rows[m][i].status \in {"sent", "skipped"}
            /\ \A v \in Slots : Running(v) /\ slot[v].for = m => slot[v].row # i
    BY <1>5 DEF SInv, Logged
  <2> QED BY <1>1, <2>1 DEF Logged, Running
<1>4. \A w \in Slots : Running(w) => RowOK(slot[w], rows)'
  BY <1>1, RunningIs DEF RowOK
<1> QED
  BY <1>2, <1>3, <1>4, <1>5 DEF SInv, LockOK, Running, OneHolder, Holds, RowsApart, Logged

\* Nothing but the pc, and what was read or sent, of an execution changes.
LEMMA RowsAsTheyAre ==
    ASSUME SInv, rows' = rows, NEW n \in Notices, NEW i
    PROVE  RowsKeep(n, i)
BY DEF SInv, Shapes, RowsKeep

\* The mails of a notice after sendEmail.
LEMMA SendMails ==
    ASSUME Shapes, NEW n \in Notices, NEW ok \in BOOLEAN, sendEmail(n, ok)
    PROVE  /\ mails' \in [Notices -> Nat] /\ faults' \in 0 .. MaxFaults
           /\ \A m \in Notices \ {n} : mails'[m] = mails[m]
           /\ ok => faults' = faults /\ mails'[n] = IF provider = "on" THEN mails[n] + 1 ELSE mails[n]
           /\ ~ok => faults' = faults + 1 /\ mails'[n] \in {mails[n], mails[n] + 1}
<1>1. ~ok => faults' = faults + 1 /\ faults' \in 0 .. MaxFaults
  BY FaultCounts DEF Shapes, sendEmail
<1> QED
  BY <1>1 DEF Shapes, sendEmail

\* The worker makes the row of its attempt: one more row, which only it writes.
LEMMA CreateRowSafe ==
    ASSUME SInv, NEW w \in Slots, CreateRow(w)
    PROVE  SInv'
<1> DEFINE e == slot[w]
<1>1. /\ Running(w) /\ e \in Execution /\ e.for \in Notices /\ e.row = 0
      /\ mails' \in [Notices -> Nat] /\ UNCHANGED <<config, call, job>>
  BY RunningIs DEF CreateRow, At, Running, RowOK, SInv, Shapes
<1>2. CASE Fault("db") /\ Goto(w, "reject") /\ UNCHANGED rows
  <2> DEFINE d == [e EXCEPT !.pc = "reject"]
  <2>1. /\ d \in Execution /\ d.for = e.for /\ d.made = e.made /\ d.locked = e.locked
        /\ d.row = 0 /\ d.pc = "reject" /\ slot' = [slot EXCEPT ![w] = d]
    <3>1. slot' = [slot EXCEPT ![w] = d]
      BY <1>1, <1>2 DEF Goto
    <3>2. e \in Execution /\ e.row = 0
      BY <1>1
    <3>3. /\ d \in Execution /\ d.for = e.for /\ d.made = e.made /\ d.locked = e.locked
          /\ d.row = 0 /\ d.pc = "reject"
      BY <3>2 DEF Execution
    <3> QED BY <3>1, <3>3
  <2>2. faults' \in 0 .. MaxFaults
    BY <1>2, FaultCounts DEF SInv, Shapes
  <2>3. RowOK(d, rows')
    BY <2>1 DEF RowOK
  <2>4. RowsKeep(d.for, d.row)
    BY <1>1, <1>2, <2>1, RowsAsTheyAre
  <2> HIDE DEF d
  <2> QED BY <1>1, <2>1, <2>2, <2>3, <2>4, WorkerStep
<1>3. CASE /\ rows' = [rows EXCEPT ![e.for] = Append(@, [status |-> "queued", retryCount |-> e.made])]
           /\ slot' = [slot EXCEPT ![w] = [@ EXCEPT !.pc = "check", !.row = Len(rows[e.for]) + 1]]
           /\ UNCHANGED faults
  <2> DEFINE i == Len(rows[e.for]) + 1
             d == [e EXCEPT !.pc = "check", !.row = i]
             r == [status |-> "queued", retryCount |-> e.made]
  <2>1. r \in Row
    BY <1>1 DEF Row, Execution
  <2>2. /\ i \in Nat \ {0} /\ i \notin DOMAIN rows[e.for] /\ RowsKeep(e.for, i)
        /\ i \in DOMAIN rows'[e.for] /\ rows'[e.for][i].status = "queued"
    <3>1. r.status = "queued" /\ rows' = [rows EXCEPT ![e.for] = Append(@, r)]
      BY <1>3
    <3> HIDE DEF r
    <3>2. /\ i \in Nat \ {0} /\ i \notin DOMAIN rows[e.for] /\ RowsKeep(e.for, i)
          /\ DOMAIN rows'[e.for] = DOMAIN rows[e.for] \cup {i} /\ rows'[e.for][i] = r
      BY <1>1, <2>1, <3>1, AppendKeeps
    <3> QED BY <3>1, <3>2
  <2>3. /\ d \in Execution /\ d.for = e.for /\ d.made = e.made /\ d.locked = e.locked
        /\ d.row = i /\ d.pc = "check" /\ slot' = [slot EXCEPT ![w] = d]
    <3>1. slot' = [slot EXCEPT ![w] = d]
      BY <1>1, <1>3, <2>2
    <3>2. e \in Execution
      BY <1>1
    <3>3. /\ d \in Execution /\ d.for = e.for /\ d.made = e.made /\ d.locked = e.locked
          /\ d.row = i /\ d.pc = "check"
      BY <3>2, <2>2 DEF Execution
    <3> QED BY <3>1, <3>3
  <2>4. faults' \in 0 .. MaxFaults
    BY <1>3 DEF SInv, Shapes
  <2> HIDE DEF d, i
  <2>5. RowOK(d, rows')
    BY <2>2, <2>3 DEF RowOK
  <2> QED BY <1>1, <2>2, <2>3, <2>4, <2>5, WorkerStep
<1> QED
  BY <1>2, <1>3 DEF CreateRow

\* A step that writes no row.
LEMMA MoveSafe ==
    ASSUME SInv, NEW w \in Slots, Running(w), NEW d \in Execution,
           d.for = slot[w].for, d.made = slot[w].made, d.locked = slot[w].locked, d.row = slot[w].row,
           slot' = [slot EXCEPT ![w] = d],
           UNCHANGED <<config, call, job, rows>>, mails' \in [Notices -> Nat], faults' \in 0 .. MaxFaults,
           \/ d.pc = "reject" \/ d.pc = slot[w].pc
           \/ slot[w].pc \in {"check", "skip", "send", "update"} /\ d.pc \in {"skip", "send", "update", "fail"}
    PROVE  SInv'
<1>1. slot[w].for \in Notices /\ RowOK(slot[w], rows)
  BY RunningIs
<1>2. RowOK(d, rows')
  BY <1>1 DEF RowOK
<1>3. RowsKeep(d.for, d.row)
  BY <1>1, RowsAsTheyAre
<1> QED
  BY <1>2, <1>3, WorkerStep

\* A step that writes the status of its own row.
LEMMA WriteSafe ==
    ASSUME SInv, NEW w \in Slots, Running(w), NEW pc \in {"resolve", "fail", "reject"},
           NEW status \in {"sent", "failed", "skipped"},
           slot[w].pc \in {"skip", "update", "fail"}, SetRow(w, status), Goto(w, pc),
           pc = "resolve" => status # "failed", pc = "fail" => status = "failed",
           UNCHANGED <<config, call, job, mails, faults>>
    PROVE  SInv'
<1> DEFINE e == slot[w]
           d == [e EXCEPT !.pc = pc]
<1>1. e \in Execution /\ e.for \in Notices /\ e.row \in DOMAIN rows[e.for] /\ e.row # 0
  BY RunningIs DEF RowOK
<1>2. /\ d \in Execution /\ d.for = e.for /\ d.made = e.made /\ d.locked = e.locked
      /\ d.row = e.row /\ d.pc = pc /\ slot' = [slot EXCEPT ![w] = d]
  BY <1>1 DEF Execution, Goto
<1>3. /\ RowsKeep(e.for, e.row) /\ rows'[e.for][e.row].status = status
      /\ e.row \in DOMAIN rows'[e.for]
  <2>1. Writes(e.for, e.row, status)
    BY DEF SetRow, Writes
  <2> HIDE DEF e
  <2> QED BY <1>1, <2>1, SetRowKeeps
<1>4. mails' \in [Notices -> Nat] /\ faults' \in 0 .. MaxFaults
  BY DEF SInv, Shapes
<1> HIDE DEF d
<1>5. RowOK(d, rows')
  BY <1>1, <1>2, <1>3 DEF RowOK
<1> QED
  BY <1>2, <1>3, <1>4, <1>5, WorkerStep

\* The other steps of an execution.
LEMMA WorkerSafe ==
    ASSUME SInv, PrefsOK, NEW w \in Slots,
           checkUserPreferences(w) \/ SkipRow(w) \/ Send(w) \/ UpdateRow(w) \/ FailRow(w)
    PROVE  SInv'
<1> DEFINE e == slot[w]
<1>1. /\ Running(w) /\ e \in Execution /\ e.for \in Notices
      /\ UNCHANGED <<config, call, job>> /\ mails \in [Notices -> Nat] /\ faults \in 0 .. MaxFaults
  BY RunningIs DEF checkUserPreferences, SkipRow, Send, UpdateRow, FailRow, At, Running, SInv, Shapes
<1>2. ASSUME NEW to \in {"skip", "send", "update", "fail", "reject"}, Goto(w, to), UNCHANGED <<rows, mails>>,
             faults' = faults \/ Fault("db"),
             to = "reject" \/ e.pc \in {"check", "skip", "send", "update"}
      PROVE  SInv'
  <2> DEFINE d == [e EXCEPT !.pc = to]
  <2>1. /\ d \in Execution /\ d.for = e.for /\ d.made = e.made /\ d.locked = e.locked
        /\ d.row = e.row /\ d.pc = to /\ slot' = [slot EXCEPT ![w] = d]
    <3>1. slot' = [slot EXCEPT ![w] = d]
      BY <1>1, <1>2 DEF Goto
    <3>2. e \in Execution
      BY <1>1
    <3>3. /\ d \in Execution /\ d.for = e.for /\ d.made = e.made /\ d.locked = e.locked
          /\ d.row = e.row /\ d.pc = to
      BY <3>2 DEF Execution
    <3> QED BY <3>1, <3>3
  <2>2. faults' \in 0 .. MaxFaults
    BY <1>1, <1>2, FaultCounts
  <2> HIDE DEF d
  <2> QED BY <1>1, <1>2, <2>1, <2>2, MoveSafe
<1>3. CASE checkUserPreferences(w)
  <2>1. CASE Fault("db") /\ slot' = [slot EXCEPT ![w] = [@ EXCEPT !.blind = TRUE, !.pc = "send"]]
    <3> DEFINE d == [e EXCEPT !.blind = TRUE, !.pc = "send"]
    <3>1. /\ d \in Execution /\ d.for = e.for /\ d.made = e.made /\ d.locked = e.locked
          /\ d.row = e.row /\ d.pc = "send" /\ slot' = [slot EXCEPT ![w] = d]
      <4>1. slot' = [slot EXCEPT ![w] = d]
        BY <1>1, <2>1
      <4>2. e \in Execution
        BY <1>1
      <4>3. /\ d \in Execution /\ d.for = e.for /\ d.made = e.made /\ d.locked = e.locked
            /\ d.row = e.row /\ d.pc = "send"
        BY <4>2 DEF Execution
      <4> QED BY <4>1, <4>3
    <3>2. faults' \in 0 .. MaxFaults
      BY <1>1, <2>1, FaultCounts
    <3> HIDE DEF d
    <3> QED BY <1>1, <1>3, <3>1, <3>2, MoveSafe DEF checkUserPreferences, At
  <2>2. ASSUME NEW to \in {"send", "skip"},
               slot' = [slot EXCEPT ![w] = [@ EXCEPT !.seen = choices, !.pc = to]], UNCHANGED faults
        PROVE  SInv'
    <3> DEFINE d == [e EXCEPT !.seen = choices, !.pc = to]
    <3>1. /\ d \in Execution /\ d.for = e.for /\ d.made = e.made /\ d.locked = e.locked
          /\ d.row = e.row /\ d.pc = to /\ slot' = [slot EXCEPT ![w] = d]
      <4>1. slot' = [slot EXCEPT ![w] = d]
        BY <1>1, <2>2
      <4>2. e \in Execution
        BY <1>1
      <4>3. /\ d \in Execution /\ d.for = e.for /\ d.made = e.made /\ d.locked = e.locked
            /\ d.row = e.row /\ d.pc = to
        BY <4>2 DEF Execution, PrefsOK
      <4> QED BY <4>1, <4>3
    <3> HIDE DEF d
    <3> QED BY <1>1, <1>3, <2>2, <3>1, MoveSafe DEF checkUserPreferences, At
  <2> QED BY <1>3, <2>1, <2>2 DEF checkUserPreferences
<1>4. CASE SkipRow(w)
  <2>1. CASE SetRow(w, "skipped") /\ Goto(w, "resolve") /\ UNCHANGED faults
    BY <1>1, <1>4, <2>1, WriteSafe DEF SkipRow, At
  <2> QED BY <1>2, <1>4, <2>1 DEF SkipRow, At
<1>5. CASE Send(w)
  <2>1. PICK ok \in BOOLEAN :
            /\ sendEmail(e.for, ok)
            /\ slot' = [slot EXCEPT ![w] = [@ EXCEPT !.pc = "update", !.ok = ok, !.seen = 0, !.blind = FALSE]]
    BY <1>5 DEF Send
  <2> DEFINE d == Asked(e, ok)
  <2>2. /\ d \in Execution /\ d.for = e.for /\ d.made = e.made /\ d.locked = e.locked
        /\ d.row = e.row /\ d.pc = "update" /\ slot' = [slot EXCEPT ![w] = d]
    <3>1. slot' = [slot EXCEPT ![w] = d]
      BY <2>1 DEF Asked
    <3> QED BY <1>1, <3>1, AskedIs
  <2>3. mails' \in [Notices -> Nat] /\ faults' \in 0 .. MaxFaults
    BY <1>1, <2>1, SendMails DEF SInv
  <2> HIDE DEF d
  <2> QED BY <1>1, <1>5, <2>2, <2>3, MoveSafe DEF Send, At
<1>6. CASE UpdateRow(w)
  <2>1. CASE /\ SetRow(w, IF e.ok THEN "sent" ELSE "failed") /\ UNCHANGED faults
             /\ Goto(w, IF e.ok THEN "resolve" ELSE "fail")
    <3>1. CASE e.ok
      BY <1>1, <1>6, <2>1, <3>1, WriteSafe DEF UpdateRow, At
    <3>2. CASE ~e.ok
      BY <1>1, <1>6, <2>1, <3>2, WriteSafe DEF UpdateRow, At
    <3> QED BY <3>1, <3>2
  <2> QED BY <1>2, <1>6, <2>1 DEF UpdateRow, At
<1>7. CASE FailRow(w)
  <2>1. CASE SetRow(w, "failed") /\ UNCHANGED faults
    BY <1>1, <1>7, <2>1, WriteSafe DEF FailRow, At
  <2> QED BY <1>2, <1>7, <2>1 DEF FailRow, At
<1> QED
  BY <1>3, <1>4, <1>5, <1>6, <1>7

\* The worker settles a job.
LEMMA SettleSafe ==
    ASSUME SInv, NEW w \in Slots, Resolve(w) \/ Reject(w)
    PROVE  SInv'
<1> DEFINE n == slot[w].for
<1>1. Running(w) /\ n \in Notices /\ slot[w] \in Execution
  BY RunningIs DEF Resolve, Reject, At, Running
<1>2. UNCHANGED <<config, call, rows, mails, faults>> /\ slot' = [slot EXCEPT ![w] = Idle]
  BY DEF Resolve, Reject
<1>3. job \in [Notices -> {NoJob} \cup Job]
  BY DEF SInv, Shapes
<1>4. slot[w].locked =>
          /\ job[n] \in Job /\ job[n].made = slot[w].made /\ job[n].made < MaxAttempts /\ job[n].stalled <= 1
  BY <1>1, <1>3 DEF SInv, LockOK, CallOK, Live, NoJob
<1>5. CASE ~slot[w].locked
  BY <1>1, <1>2, <1>3, <1>5, EndStep DEF Resolve, Reject
<1>6. CASE slot[w].locked /\ Resolve(w)
  <2> DEFINE j == [job[n] EXCEPT !.state = "completed"]
  <2>1. j \in Job /\ j.state = "completed"
    BY <1>4, <1>6 DEF Job
  <2>2. slot[w].pc = "resolve" /\ job' = [job EXCEPT ![n] = j]
    BY <1>6 DEF Resolve, At
  <2> HIDE DEF j
  <2>3. /\ job' \in [Notices -> {NoJob} \cup Job] /\ job'[n] = j
        /\ \A m \in Notices : m # n => job'[m] = job[m]
    BY <1>1, <1>3, <2>1, <2>2
  <2> QED BY <1>1, <1>2, <1>6, <2>1, <2>2, <2>3, EndStep
<1>7. CASE slot[w].locked /\ Reject(w)
  <2> DEFINE j == Retried(job[n], slot[w].made)
  <2>1. /\ j \in Job /\ j.state \in {"delayed", "failed"}
        /\ j.state = "delayed" => j.made < MaxAttempts /\ j.stalled <= 1
    BY <1>4, <1>7, RetriedIs
  <2>2. job' = [job EXCEPT ![n] = j]
    BY <1>7 DEF Reject
  <2> HIDE DEF j
  <2>3. /\ job' \in [Notices -> {NoJob} \cup Job] /\ job'[n] = j
        /\ \A m \in Notices : m # n => job'[m] = job[m]
    BY <1>1, <1>3, <2>1, <2>2
  <2> QED BY <1>1, <1>2, <1>7, <2>1, <2>3, EndStep
<1> QED
  BY <1>5, <1>6, <1>7

\* The user's routes and a notification's call until it queues or sends.
LEMMA CallerSafe ==
    ASSUME SInv, NEW n \in Notices,
           sendNotification(n) \/ CreateDefaults(n) \/ SendNow(n) \/ LogNow(n)
    PROVE  SInv'
<1>1. /\ call \in [Notices -> {"idle", "create", "queue", "logSent", "logFailed", "done", "dropped"}]
      /\ mails \in [Notices -> Nat] /\ faults \in 0 .. MaxFaults /\ Shapes
  BY DEF SInv, Shapes
<1>2. ASSUME NEW kind, Fault(kind) PROVE faults' \in 0 .. MaxFaults
  BY <1>1, <1>2, FaultCounts
<1>3. CASE sendNotification(n) \/ CreateDefaults(n)
  <2>1. PICK pc \in {"queue", "create", "dropped"} : CallTo(n, pc)
    BY <1>3 DEF sendNotification, CreateDefaults
  <2>2. faults' \in 0 .. MaxFaults
    BY <1>1, <1>2, <1>3 DEF sendNotification, CreateDefaults
  <2>3. /\ UNCHANGED <<config, job, slot, rows, mails>> /\ call[n] # "done"
    BY <1>3 DEF sendNotification, CreateDefaults
  <2>4. /\ call' \in [Notices -> {"idle", "create", "queue", "logSent", "logFailed", "done", "dropped"}]
        /\ \A m \in Notices : /\ call[m] = "done" => call'[m] = "done"
                              /\ call'[m] \in {"logSent", "logFailed"} => redis = "unset"
    BY <1>1, <2>1, <2>3 DEF CallTo, SInv, CallOK
  <2> QED BY <1>1, <2>2, <2>3, <2>4, CallStep
<1>4. CASE SendNow(n)
  <2>1. PICK ok \in BOOLEAN : sendEmail(n, ok) /\ CallTo(n, IF ok THEN "logSent" ELSE "logFailed")
    BY <1>4 DEF SendNow
  <2>2. mails' \in [Notices -> Nat] /\ faults' \in 0 .. MaxFaults
    BY <1>1, <2>1, SendMails
  <2>3. /\ UNCHANGED <<config, job, slot, rows>> /\ call[n] = "queue" /\ redis = "unset"
    BY <1>4 DEF SendNow
  <2>4. /\ call' \in [Notices -> {"idle", "create", "queue", "logSent", "logFailed", "done", "dropped"}]
        /\ \A m \in Notices : /\ call[m] = "done" => call'[m] = "done"
                              /\ call'[m] \in {"logSent", "logFailed"} => redis = "unset"
    BY <1>1, <2>1, <2>3 DEF CallTo
  <2> QED BY <2>2, <2>3, <2>4, CallStep
<1>5. CASE LogNow(n)
  <2>1. PICK pc \in {"done", "dropped"} : CallTo(n, pc)
    BY <1>5 DEF LogNow
  <2>2. UNCHANGED <<config, job, slot, mails>> /\ call[n] # "done"
    BY <1>5 DEF LogNow
  <2>3. faults' \in 0 .. MaxFaults
    BY <1>1, <1>2, <1>5 DEF LogNow
  <2>4. rows' = rows \/ RowsKeep(n, Len(rows[n]) + 1)
    <3> DEFINE r == [status |-> IF call[n] = "logSent" THEN "sent" ELSE "failed", retryCount |-> 0]
    <3>1. rows' = rows \/ rows' = [rows EXCEPT ![n] = Append(@, r)]
      BY <1>5 DEF LogNow
    <3>2. r \in Row
      BY AttemptsAssumption DEF Row
    <3> HIDE DEF r
    <3> QED BY <3>1, <3>2, AppendKeeps
  <2>5. /\ call' \in [Notices -> {"idle", "create", "queue", "logSent", "logFailed", "done", "dropped"}]
        /\ \A m \in Notices : /\ call[m] = "done" => call'[m] = "done"
                              /\ call'[m] \in {"logSent", "logFailed"} => redis = "unset"
    BY <1>1, <2>1, <2>2 DEF CallTo, SInv, CallOK
  <2> QED BY <1>1, <2>2, <2>3, <2>4, <2>5, CallStep
<1> QED
  BY <1>3, <1>4, <1>5

\* BullMQ gets the job, promotes a delayed one, and requeues a lost one.
LEMMA QueueSafe ==
    ASSUME SInv, NEW n \in Notices, Enqueue(n) \/ Promote(n) \/ Requeue(n)
    PROVE  SInv'
<1>1. /\ call \in [Notices -> {"idle", "create", "queue", "logSent", "logFailed", "done", "dropped"}]
      /\ job[n] \in {NoJob} \cup Job /\ CallOK(n)
  BY DEF SInv, Shapes
<1>2. ASSUME NEW w \in Slots, Holds(w, n) PROVE job[n].state = "active"
  BY <1>2 DEF SInv, LockOK, Holds
<1>3. CASE Enqueue(n)
  <2> DEFINE j == [state |-> "waiting", made |-> 0, stalled |-> 0]
  <2>1. j \in Job /\ j.state = "waiting" /\ j.made = 0 /\ j.stalled = 0
    BY AttemptsAssumption DEF Job
  <2>2. /\ job' = [job EXCEPT ![n] = j] /\ call[n] = "queue" /\ redis = "up" /\ CallTo(n, "done")
        /\ UNCHANGED <<config, slot, rows, mails, faults>>
    BY <1>3 DEF Enqueue
  <2> HIDE DEF j
  <2>3. job[n].state = "none"
    BY <1>1, <2>2 DEF CallOK
  <2>4. \A w \in Slots : ~Holds(w, n)
    BY <1>2, <2>3
  <2>5. /\ call' \in [Notices -> {"idle", "create", "queue", "logSent", "logFailed", "done", "dropped"}]
        /\ call'[n] = "done" /\ \A m \in Notices \ {n} : call'[m] = call[m]
    BY <1>1, <2>2 DEF CallTo
  <2>6. job'[n] = j
    BY <2>2 DEF SInv, Shapes
  <2>7. CallOK(n)'
    BY <2>1, <2>2, <2>5, <2>6, AttemptsAssumption DEF CallOK, config
  <2> QED BY <2>1, <2>2, <2>4, <2>5, <2>7, JobStep
<1>4. ASSUME NEW j \in Job, j.state \in {"waiting", "failed"}, job' = [job EXCEPT ![n] = j], Live(n),
             \A w \in Slots : ~Holds(w, n), UNCHANGED <<config, call, slot, rows, mails, faults>>,
             j.state = "waiting" => j.made = job[n].made /\ j.stalled <= 1
      PROVE  SInv'
  <2>1. job'[n] = j
    BY <1>4 DEF SInv, Shapes
  <2>2. CallOK(n)'
    BY <1>1, <1>4, <2>1 DEF CallOK, Live, config
  <2> QED BY <1>1, <1>4, <2>2, JobStep
<1>5. CASE Promote(n)
  <2> DEFINE j == [job[n] EXCEPT !.state = "waiting"]
  <2>1. job[n].state = "delayed" /\ job' = [job EXCEPT ![n] = j] /\ UNCHANGED <<config, call, slot, rows, mails, faults>>
    BY <1>5 DEF Promote, userVars
  <2>2. job[n] \in Job /\ job[n].stalled <= 1
    BY <1>1, <2>1 DEF NoJob, CallOK, Live
  <2>3. j \in Job /\ j.state = "waiting" /\ j.made = job[n].made /\ j.stalled = job[n].stalled
    BY <2>2 DEF Job
  <2> HIDE DEF j
  <2>4. \A w \in Slots : ~Holds(w, n)
    BY <1>2, <2>1
  <2> QED BY <1>4, <2>1, <2>2, <2>3, <2>4 DEF Live
<1>6. CASE Requeue(n)
  <2> DEFINE j == Requeued(job[n])
  <2>1. job[n].state = "active" /\ job' = [job EXCEPT ![n] = j] /\ UNCHANGED <<config, call, slot, rows, mails, faults>>
    BY <1>6 DEF Requeue, userVars
  <2>2. job[n] \in Job /\ job[n].stalled <= 1
    BY <1>1, <2>1 DEF NoJob, CallOK, Live
  <2>3. /\ j \in Job /\ j.state \in {"waiting", "failed"}
        /\ j.state = "waiting" => j.made = job[n].made /\ j.stalled <= 1
    BY <2>2, RequeuedIs
  <2> HIDE DEF j
  <2>6. \A w \in Slots : ~Holds(w, n)
    BY <1>6 DEF Requeue, Holds, Running
  <2> QED BY <1>4, <2>1, <2>3, <2>6 DEF Live
<1> QED
  BY <1>3, <1>5, <1>6

\* A worker takes a job that waits.
LEMMA TakeSafe ==
    ASSUME SInv, NEW w \in Slots, NEW n \in Notices, Take(w, n)
    PROVE  SInv'
<1> DEFINE j == [job[n] EXCEPT !.state = "active"]
           e == [pc |-> "create", for |-> n, row |-> 0, made |-> job[n].made, ok |-> FALSE,
                 seen |-> 0, blind |-> FALSE, locked |-> TRUE]
<1>1. /\ job[n].state = "waiting" /\ job' = [job EXCEPT ![n] = j] /\ slot' = [slot EXCEPT ![w] = e]
      /\ ~Running(w) /\ UNCHANGED <<config, call, rows, mails, faults>>
  BY DEF Take, At, Running, userVars
<1>2. /\ job \in [Notices -> {NoJob} \cup Job] /\ job[n] \in Job /\ CallOK(n) /\ Live(n)
      /\ slot \in [Slots -> {Idle} \cup Execution]
  BY <1>1 DEF SInv, Shapes, NoJob, Live
<1>3. j \in Job /\ j.state = "active" /\ j.made = job[n].made /\ j.stalled = job[n].stalled
  BY <1>2 DEF Job
<1>4. /\ e \in Execution /\ e.pc = "create" /\ e.for = n /\ e.row = 0 /\ e.made = job[n].made
  BY <1>2, BoundsAssumption DEF Execution, Job
<1>5. e.locked
  OBVIOUS
<1> HIDE DEF j, e
<1>6. /\ job'[n] = j /\ \A m \in Notices : m # n => job'[m] = job[m]
      /\ slot'[w] = e /\ \A v \in Slots : v # w => slot'[v] = slot[v]
  BY <1>1, <1>2
<1>7. Running(w)' /\ \A v \in Slots : v # w => (Running(v)' <=> Running(v))
  BY <1>4, <1>6 DEF Running
<1>8. ASSUME NEW v \in Slots PROVE ~Holds(v, n)
  BY <1>1 DEF SInv, LockOK, Holds
<1>9. Shapes'
  BY <1>1, <1>2, <1>3, <1>4 DEF SInv, Shapes, config
<1>10. ASSUME NEW m \in Notices PROVE CallOK(m)' /\ Logged(m)'
  <2>1. CallOK(m)'
    BY <1>1, <1>2, <1>3, <1>6 DEF SInv, CallOK, Live, config
  <2>2. m # n => Logged(m)'
    BY <1>1, <1>4, <1>6, <1>7 DEF SInv, Logged
  <2>3. Logged(n)'
    BY <1>3, <1>6 DEF Logged
  <2> QED BY <2>1, <2>2, <2>3
<1>11. ASSUME NEW v \in Slots PROVE LockOK(v)' /\ (Running(v)' => RowOK(slot[v], rows)')
  <2>1. CASE v = w
    BY <1>3, <1>4, <1>6, <2>1 DEF LockOK, RowOK
  <2>2. CASE v # w
    <3>1. Running(v) => slot[v].for \in Notices /\ RowOK(slot[v], rows)
      BY RunningIs
    <3>2. Running(v) /\ slot[v].locked => slot[v].for # n
      BY <1>8 DEF Holds
    <3>3. LockOK(v)'
      BY <1>6, <1>7, <2>2, <3>1, <3>2 DEF SInv, LockOK
    <3> QED BY <1>1, <1>6, <1>7, <2>2, <3>1, <3>3 DEF RowOK
  <2> QED BY <2>1, <2>2
<1>12. OneHolder'
  <2> SUFFICES ASSUME NEW v \in Slots, NEW u \in Slots, NEW m \in Notices, Holds(v, m)', Holds(u, m)'
               PROVE  v = u
    BY DEF OneHolder
  <2>1. \A x \in Slots : x # w => (Holds(x, m)' <=> Holds(x, m))
    BY <1>6, <1>7 DEF Holds
  <2>2. Holds(w, m)' => m = n
    BY <1>4, <1>6 DEF Holds
  <2> QED BY <1>8, <2>1, <2>2 DEF SInv, OneHolder
<1>13. RowsApart'
  BY <1>4, <1>6, <1>7 DEF SInv, RowsApart
<1> QED
  BY <1>9, <1>10, <1>11, <1>12, <1>13 DEF SInv

\* An execution loses its lock.
LEMMA StallSafe ==
    ASSUME SInv, NEW w \in Slots, Stall(w)
    PROVE  SInv'
<1> DEFINE e == slot[w]
           d == [e EXCEPT !.locked = FALSE]
<1>1. Running(w) /\ e \in Execution /\ e.for \in Notices /\ RowOK(e, rows)
  BY RunningIs DEF Stall, Running
<1>2. e.locked /\ slot' = [slot EXCEPT ![w] = d] /\ UNCHANGED <<config, call, job, rows, mails>>
  BY DEF Stall, userVars
<1>3. d \in Execution /\ d.for = e.for /\ d.made = e.made /\ d.row = e.row /\ d.pc = e.pc
  BY <1>1 DEF Execution
<1>4. mails' \in [Notices -> Nat] /\ faults' \in 0 .. MaxFaults
  BY <1>2, FaultCounts DEF SInv, Shapes, Stall
<1> HIDE DEF d
<1>5. RowOK(d, rows')
  BY <1>1, <1>2, <1>3 DEF RowOK
<1>6. RowsKeep(d.for, d.row)
  BY <1>1, <1>2, <1>3, RowsAsTheyAre
<1> QED
  BY <1>1, <1>2, <1>3, <1>4, <1>5, <1>6, WorkerStep

\* The process restarts: nothing in memory is left.
LEMMA CrashSafe ==
    ASSUME SInv, Crash
    PROVE  SInv'
<1>1. /\ slot' = [w \in Slots |-> Idle] /\ UNCHANGED <<config, job, rows, mails>>
      /\ call' = [n \in Notices |-> IF call[n] \in {"idle", "done"} THEN call[n] ELSE "dropped"]
      /\ faults' \in 0 .. MaxFaults
  BY FaultCounts DEF Crash, SInv, Shapes
<1>2. \A w \in Slots : ~Running(w)'
  BY <1>1 DEF Running, Idle
<1>3. Shapes'
  BY <1>1 DEF SInv, Shapes, config
<1>4. ASSUME NEW n \in Notices PROVE CallOK(n)' /\ Logged(n)'
  BY <1>1, <1>2 DEF SInv, CallOK, Logged, Live, config
<1> QED
  BY <1>2, <1>3, <1>4 DEF SInv, LockOK, OneHolder, Holds, RowsApart

\* The structure holds of every state.
LEMMA Structure ==
    ASSUME SInv, PrefsOK, [Next]_vars
    PROVE  SInv'
<1>1. CASE UserRoutes
  <2>1. UNCHANGED <<config, call, job, slot, rows, mails, faults>>
    BY <1>1 DEF UserRoutes, updateEmailPreferences, unsubscribe, resubscribe, Choose, ViewPreferences
  <2> QED BY <2>1, CallStep DEF SInv, Shapes, CallOK
<1>2. ASSUME NEW n \in Notices, Caller(n) \/ Promote(n) \/ Requeue(n) PROVE SInv'
  BY <1>2, CallerSafe, QueueSafe DEF Caller
<1>3. ASSUME NEW w \in Slots, Execute(w) \/ Stall(w) \/ \E n \in Notices : Take(w, n) PROVE SInv'
  BY <1>3, CreateRowSafe, WorkerSafe, SettleSafe, StallSafe, TakeSafe DEF Execute
<1>4. CASE UNCHANGED vars
  <2>1. UNCHANGED <<config, call, job, slot, rows, mails, faults>>
    BY <1>4 DEF vars
  <2> QED BY <2>1, CallStep DEF SInv, Shapes, CallOK
<1> QED
  BY <1>1, <1>2, <1>3, <1>4, CrashSafe DEF Next, Quiet

-----------------------------------------------------------------------------
(* The books.                                                              *)

\* Two finite sets that differ in one element at most.
LEMMA OneMoves ==
    ASSUME NEW A, NEW B, IsFiniteSet(A), IsFiniteSet(B), NEW w,
           \A v : v # w => (v \in A <=> v \in B)
    PROVE  Cardinality(B) + One(w \in A) = Cardinality(A) + One(w \in B)
<1>1. Cardinality(A) \in Nat /\ Cardinality(B) \in Nat
  BY FS_CardinalityType
<1>2. CASE w \in A /\ w \notin B
  <2>1. B = A \ {w}
    BY <1>2
  <2>2. Cardinality(B) = Cardinality(A) - 1
    BY <1>2, <2>1, FS_RemoveElement
  <2> QED BY <1>1, <1>2, <2>2 DEF One
<1>3. CASE w \notin A /\ w \in B
  <2>1. A = B \ {w}
    BY <1>3
  <2>2. Cardinality(A) = Cardinality(B) - 1
    BY <1>3, <2>1, FS_RemoveElement
  <2> QED BY <1>1, <1>3, <2>2 DEF One
<1>4. CASE (w \in A <=> w \in B)
  <2>1. A = B
    BY <1>4
  <2> QED BY <1>1, <2>1 DEF One
<1> QED
  BY <1>2, <1>3, <1>4

\* The rows that say sent.
SentRows(n) == {i \in DOMAIN rows[n] : rows[n][i].status = "sent"}

\* What the books add up.
LEMMA Numbers ==
    ASSUME Shapes, NEW n \in Notices
    PROVE  /\ IsFiniteSet(Strays(n)) /\ Astray(n) \in Nat
           /\ IsFiniteSet(Reporting(n)) /\ Unreported(n) \in Nat
           /\ IsFiniteSet(SentRows(n)) /\ Sent(n) \in Nat /\ Sent(n) = Cardinality(SentRows(n))
           /\ mails[n] \in Nat /\ faults \in Nat
<1>1. IsFiniteSet(Strays(n)) /\ IsFiniteSet(Reporting(n))
  BY SlotAssumption, FS_Subset DEF Strays, Reporting
<1>2. rows[n] \in Seq(Row)
  BY DEF Shapes
<1>3. DOMAIN rows[n] = 1 .. Len(rows[n]) /\ Len(rows[n]) \in Nat
  BY <1>2, LenProperties
<1>4. IsFiniteSet(DOMAIN rows[n])
  BY <1>3, FS_Interval
<1>5. IsFiniteSet(SentRows(n))
  BY <1>4, FS_Subset DEF SentRows
<1>6. Sent(n) = Cardinality(SentRows(n))
  BY DEF Sent, SentRows
<1>7. mails[n] \in Nat /\ faults \in Nat
  BY BoundsAssumption DEF Shapes
<1> QED
  BY <1>1, <1>5, <1>6, <1>7, FS_CardinalityType DEF Astray, Unreported

\* The same after a step.
LEMMA NumbersNext ==
    ASSUME Shapes', NEW n \in Notices
    PROVE  /\ IsFiniteSet(Strays(n)') /\ Astray(n)' \in Nat
           /\ IsFiniteSet(Reporting(n)') /\ Unreported(n)' \in Nat
           /\ IsFiniteSet(SentRows(n)') /\ Sent(n)' \in Nat /\ Sent(n)' = Cardinality(SentRows(n)')
           /\ mails'[n] \in Nat /\ faults' \in Nat
<1>1. IsFiniteSet(Strays(n)') /\ IsFiniteSet(Reporting(n)')
  BY SlotAssumption, FS_Subset DEF Strays, Reporting
<1>2. rows'[n] \in Seq(Row)
  BY DEF Shapes
<1>3. DOMAIN rows'[n] = 1 .. Len(rows'[n]) /\ Len(rows'[n]) \in Nat
  BY <1>2, LenProperties
<1>4. IsFiniteSet(DOMAIN rows'[n])
  BY <1>3, FS_Interval
<1>5. IsFiniteSet(SentRows(n)')
  BY <1>4, FS_Subset DEF SentRows
<1>6. Sent(n)' = Cardinality(SentRows(n)')
  BY DEF Sent, SentRows
<1>7. mails'[n] \in Nat /\ faults' \in Nat
  BY BoundsAssumption DEF Shapes
<1> QED
  BY <1>1, <1>5, <1>6, <1>7, FS_CardinalityType DEF Astray, Unreported

\* The books of a notice that no step touches.
LEMMA BooksSame ==
    ASSUME BInv, Shapes', NEW n \in Notices, provider' = provider,
           mails'[n] = mails[n], Sent(n)' = Sent(n), faults' >= faults,
           Astray(n)' = Astray(n), Unreported(n)' = Unreported(n), Owed(n)' => Owed(n),
           HeldReport(n) => HeldReport(n)', Logging(n)' <=> Logging(n)
    PROVE  Counted(n)' /\ Reported(n)'
<1>1. /\ Astray(n) \in Nat /\ Unreported(n) \in Nat /\ Sent(n) \in Nat /\ mails[n] \in Nat
      /\ faults \in Nat /\ faults' \in Nat
  BY Numbers, NumbersNext DEF BInv, SInv
<1>2. Counted(n) /\ Reported(n)
  BY DEF BInv
<1>3. One(Owed(n)') <= One(Owed(n)) /\ One(Owed(n)') \in Nat /\ One(Owed(n)) \in Nat
  BY DEF One
<1>4. One(HeldReport(n)) <= One(HeldReport(n)') /\ One(HeldReport(n)') \in Nat /\ One(HeldReport(n)) \in Nat
  BY DEF One
<1>5. One(Logging(n)') = One(Logging(n)) /\ One(Logging(n)) \in Nat
  BY DEF One
<1>6. Counted(n)'
  BY <1>1, <1>2, <1>3 DEF Counted
<1>7. Reported(n)'
  BY <1>1, <1>2, <1>4, <1>5 DEF Reported
<1> QED
  BY <1>6, <1>7

\* The job of an execution that holds the lock is owed unless it is done.
Done(e) == e.pc = "resolve" \/ (e.pc = "update" /\ e.ok)

\* While an execution holds the lock of n, what n still owes is what that
\* execution still owes.
LEMMA OwedHeld ==
    ASSUME SInv, NEW w \in Slots, NEW n \in Notices, Holds(w, n)
    PROVE  (Owed(n) <=> ~Done(slot[w])) /\ (HeldReport(n) <=> w \in Reporting(n)) /\ call[n] = "done"
<1>1. job[n].state = "active" /\ call[n] = "done"
  BY DEF SInv, LockOK, CallOK, Holds
<1>2. \A v \in Slots : Holds(v, n) => v = w
  BY DEF SInv, OneHolder
<1>3. Owed(n) <=> ~Done(slot[w])
  BY <1>1, <1>2 DEF Owed, Live, Done
<1>4. HeldReport(n) <=> w \in Reporting(n)
  BY <1>2 DEF HeldReport, Reporting, Holds, Running, At
<1> QED
  BY <1>1, <1>3, <1>4

\* The same after a step.
LEMMA OwedHeldNext ==
    ASSUME SInv', NEW w \in Slots, NEW n \in Notices, Holds(w, n)'
    PROVE  /\ Owed(n)' <=> ~Done(slot'[w])
           /\ HeldReport(n)' <=> w \in Reporting(n)'
<1>1. job'[n].state = "active" /\ call'[n] = "done"
  BY DEF SInv, LockOK, CallOK, Holds
<1>2. \A v \in Slots : Holds(v, n)' => v = w
  BY DEF SInv, OneHolder
<1>3. Owed(n)' <=> ~Done(slot'[w])
  BY <1>1, <1>2 DEF Owed, Live, Done
<1>4. HeldReport(n)' <=> w \in Reporting(n)'
  BY <1>2 DEF HeldReport, Reporting, Holds, Running, At
<1> QED
  BY <1>3, <1>4

\* A job that no execution holds and that is not over is owed.
LEMMA OwedFree ==
    ASSUME SInv, NEW n \in Notices, Live(n), \A w \in Slots : ~Holds(w, n)
    PROVE  Owed(n)
BY DEF Owed

\* Rows that stay as they are, one that is written and one that is new.
LEMMA SentSame ==
    ASSUME NEW n \in Notices, rows'[n] = rows[n]
    PROVE  Sent(n)' = Sent(n)
BY DEF Sent

\* Writing a status over one that was not "sent" counts one more row as sent
\* exactly when the status is.
LEMMA WrittenSent ==
    ASSUME SInv, SInv', NEW n \in Notices, NEW i \in DOMAIN rows[n], rows[n][i].status # "sent",
           NEW status \in {"queued", "sent", "failed", "skipped"}, Writes(n, i, status)
    PROVE  /\ Sent(n)' = Sent(n) + One(status = "sent")
           /\ \A m \in Notices : m # n => Sent(m)' = Sent(m)
<1>1. /\ RowsKeep(n, i) /\ rows'[n][i].status = status
      /\ DOMAIN rows'[n] = DOMAIN rows[n]
  BY SetRowKeeps
<1>2. \A m \in Notices : m # n => Sent(m)' = Sent(m)
  BY SentSame DEF Writes, SInv, Shapes
<1>3. \A j : j # i => (j \in SentRows(n) <=> j \in SentRows(n)')
  BY <1>1 DEF SentRows, RowsKeep
<1>4. /\ IsFiniteSet(SentRows(n)) /\ Sent(n) = Cardinality(SentRows(n)) /\ Sent(n) \in Nat
      /\ IsFiniteSet(SentRows(n)') /\ Sent(n)' = Cardinality(SentRows(n)') /\ Sent(n)' \in Nat
  BY Numbers, NumbersNext DEF SInv
<1>5. Sent(n)' + One(i \in SentRows(n)) = Sent(n) + One(i \in SentRows(n)')
  BY <1>3, <1>4, OneMoves
<1>6. i \notin SentRows(n) /\ (i \in SentRows(n)' <=> status = "sent")
  BY <1>1 DEF SentRows
<1>7. One(i \in SentRows(n)) = 0 /\ One(i \in SentRows(n)') = One(status = "sent")
  BY <1>6 DEF One
<1> QED
  BY <1>2, <1>4, <1>5, <1>7

\* So does a new row.
LEMMA AppendedSent ==
    ASSUME SInv, SInv', NEW n \in Notices, NEW r \in Row, rows' = [rows EXCEPT ![n] = Append(@, r)]
    PROVE  /\ Sent(n)' = Sent(n) + One(r.status = "sent")
           /\ \A m \in Notices : m # n => Sent(m)' = Sent(m)
<1> DEFINE i == Len(rows[n]) + 1
<1>1. /\ RowsKeep(n, i) /\ rows'[n][i] = r /\ i \notin DOMAIN rows[n]
      /\ DOMAIN rows'[n] = DOMAIN rows[n] \cup {i}
  BY AppendKeeps
<1>2. \A m \in Notices : m # n => Sent(m)' = Sent(m)
  BY SentSame, AppendKeeps
<1> HIDE DEF i
<1>3. \A j : j # i => (j \in SentRows(n) <=> j \in SentRows(n)')
  BY <1>1 DEF SentRows, RowsKeep
<1>4. /\ IsFiniteSet(SentRows(n)) /\ Sent(n) = Cardinality(SentRows(n)) /\ Sent(n) \in Nat
      /\ IsFiniteSet(SentRows(n)') /\ Sent(n)' = Cardinality(SentRows(n)') /\ Sent(n)' \in Nat
  BY Numbers, NumbersNext DEF SInv
<1>5. Sent(n)' + One(i \in SentRows(n)) = Sent(n) + One(i \in SentRows(n)')
  BY <1>3, <1>4, OneMoves
<1>6. i \notin SentRows(n) /\ (i \in SentRows(n)' <=> r.status = "sent")
  BY <1>1 DEF SentRows
<1>7. One(i \in SentRows(n)) = 0 /\ One(i \in SentRows(n)') = One(r.status = "sent")
  BY <1>6 DEF One
<1> QED
  BY <1>2, <1>4, <1>5, <1>7

\* An execution that lost its lock and may still send; one whose mail went out
\* and whose row does not say so yet.
Strayed(e) == e.pc \in {"create", "check", "send"} /\ ~e.locked
Told(e) == e.pc = "update" /\ e.ok

\* What a slot that goes from one execution to another, or ends one, moves in
\* the books of the notice.
LEMMA SlotMoves ==
    ASSUME BInv, SInv', NEW w \in Slots, Running(w), NEW d \in {Idle} \cup Execution,
           NEW n \in Notices, n = slot[w].for,
           d = Idle \/ d.for = n, slot' = [slot EXCEPT ![w] = d]
    PROVE  /\ Astray(n)' + One(Strayed(slot[w])) = Astray(n) + One(Strayed(d))
           /\ Unreported(n)' + One(Told(slot[w])) = Unreported(n) + One(Told(d))
           /\ \A m \in Notices : m # n => Astray(m)' = Astray(m) /\ Unreported(m)' = Unreported(m)
<1>1. slot[w] \in Execution
  BY RunningIs DEF BInv
<1>2. slot'[w] = d /\ \A v \in Slots : v # w => slot'[v] = slot[v]
  BY DEF BInv, SInv, Shapes
<1>3. d = Idle => ~Strayed(d) /\ ~Told(d)
  BY DEF Idle, Strayed, Told
<1>4. ASSUME NEW m \in Notices
      PROVE  /\ IsFiniteSet(Strays(m)) /\ IsFiniteSet(Strays(m)')
             /\ IsFiniteSet(Reporting(m)) /\ IsFiniteSet(Reporting(m)')
             /\ \A v : v # w => (v \in Strays(m) <=> v \in Strays(m)') /\ (v \in Reporting(m) <=> v \in Reporting(m)')
  BY <1>2, Numbers, NumbersNext DEF BInv, SInv, Strays, Reporting, At
<1>5. /\ w \in Strays(n) <=> Strayed(slot[w])
      /\ w \in Reporting(n) <=> Told(slot[w])
      /\ w \in Strays(n)' <=> Strayed(d) /\ slot'[w].for = n
      /\ w \in Reporting(n)' <=> Told(d) /\ slot'[w].for = n
  BY <1>2, <1>3 DEF Strays, Reporting, Strayed, Told, At
<1>6. /\ w \in Strays(n)' <=> Strayed(d)
      /\ w \in Reporting(n)' <=> Told(d)
  BY <1>2, <1>3, <1>5
<1>7. Astray(n)' + One(Strayed(slot[w])) = Astray(n) + One(Strayed(d))
  <2>1. Cardinality(Strays(n)') + One(w \in Strays(n)) = Cardinality(Strays(n)) + One(w \in Strays(n)')
    <3>1. \A v : v # w => (v \in Strays(n) <=> v \in Strays(n)')
      BY <1>1, <1>4
    <3>2. IsFiniteSet(Strays(n)) /\ IsFiniteSet(Strays(n)')
      BY <1>1, <1>4
    <3> QED BY <3>1, <3>2, OneMoves
  <2>2. One(w \in Strays(n)) = One(Strayed(slot[w])) /\ One(w \in Strays(n)') = One(Strayed(d))
    BY <1>5, <1>6 DEF One
  <2> QED BY <2>1, <2>2 DEF Astray
<1>8. Unreported(n)' + One(Told(slot[w])) = Unreported(n) + One(Told(d))
  <2>1. Cardinality(Reporting(n)') + One(w \in Reporting(n)) = Cardinality(Reporting(n)) + One(w \in Reporting(n)')
    <3>1. \A v : v # w => (v \in Reporting(n) <=> v \in Reporting(n)')
      BY <1>1, <1>4
    <3>2. IsFiniteSet(Reporting(n)) /\ IsFiniteSet(Reporting(n)')
      BY <1>1, <1>4
    <3> QED BY <3>1, <3>2, OneMoves
  <2>2. One(w \in Reporting(n)) = One(Told(slot[w])) /\ One(w \in Reporting(n)') = One(Told(d))
    BY <1>5, <1>6 DEF One
  <2> QED BY <2>1, <2>2 DEF Unreported
<1>9. ASSUME NEW m \in Notices, m # n
      PROVE  Astray(m)' = Astray(m) /\ Unreported(m)' = Unreported(m)
  <2>1. w \notin Strays(m) /\ w \notin Strays(m)' /\ w \notin Reporting(m) /\ w \notin Reporting(m)'
    BY <1>2, <1>3, <1>9 DEF Strays, Reporting, Strayed, Told, At
  <2>2. Strays(m)' = Strays(m) /\ Reporting(m)' = Reporting(m)
    BY <1>4, <2>1
  <2> QED BY <2>2 DEF Astray, Unreported
<1> QED
  BY <1>1, <1>7, <1>8, <1>9

\* What a step of an execution moves: other notices' books stay, and its own
\* job is owed, and reported, by it alone while it holds the lock.
LEMMA WorkerMoves ==
    ASSUME BInv, SInv', NEW w \in Slots, Running(w), NEW d \in Execution,
           NEW n \in Notices, n = slot[w].for,
           d.for = n, d.locked = slot[w].locked, slot' = [slot EXCEPT ![w] = d],
           UNCHANGED <<config, call, job>>
    PROVE  /\ \A m \in Notices : m # n => (Owed(m)' => Owed(m)) /\ (HeldReport(m) => HeldReport(m)')
           /\ ~d.locked => (Owed(n)' <=> Owed(n)) /\ (HeldReport(n)' <=> HeldReport(n))
           /\ d.locked => /\ Owed(n) <=> ~Done(slot[w])
                          /\ Owed(n)' <=> ~Done(d)
                          /\ HeldReport(n) <=> Told(slot[w])
                          /\ HeldReport(n)' <=> Told(d)
<1>1. slot[w] \in Execution
  BY RunningIs DEF BInv
<1>2. slot'[w] = d /\ \A v \in Slots : v # w => slot'[v] = slot[v]
  BY DEF BInv, SInv, Shapes
<1>3. Running(w)' /\ \A v \in Slots : v # w => (Running(v)' <=> Running(v))
  BY <1>2 DEF Running, Execution
<1>4. ASSUME NEW m \in Notices, m # n \/ ~d.locked
      PROVE  (Owed(m)' <=> Owed(m)) /\ (HeldReport(m)' <=> HeldReport(m))
  <2>1. ~Holds(w, m) /\ ~Holds(w, m)'
    BY <1>2, <1>4 DEF Holds
  <2>2. \A v \in Slots : v # w => (Holds(v, m)' <=> Holds(v, m))
    BY <1>2, <1>3 DEF Holds
  <2>3. Owed(m)' <=> Owed(m)
    BY <1>2, <2>1, <2>2 DEF Owed, Live
  <2>4. \A v \in Slots : v # w => (v \in Reporting(m)' <=> v \in Reporting(m))
    BY <1>2 DEF Reporting, At
  <2>5. /\ ~(w \in Reporting(m) /\ slot[w].locked)
        /\ ~(w \in Reporting(m)' /\ slot'[w].locked)
    BY <1>2, <1>4 DEF Reporting
  <2>6. HeldReport(m)' <=> HeldReport(m)
    BY <1>2, <2>4, <2>5 DEF HeldReport, Reporting
  <2> QED BY <2>3, <2>6
<1>5. ASSUME d.locked
      PROVE  /\ Owed(n) <=> ~Done(slot[w])
             /\ Owed(n)' <=> ~Done(d)
             /\ HeldReport(n) <=> Told(slot[w])
             /\ HeldReport(n)' <=> Told(d)
  <2>1. Holds(w, n) /\ Holds(w, n)'
    BY <1>2, <1>3, <1>5 DEF Holds
  <2>2. /\ Owed(n) <=> ~Done(slot[w])
        /\ Owed(n)' <=> ~Done(d)
        /\ HeldReport(n) <=> w \in Reporting(n)
        /\ HeldReport(n)' <=> w \in Reporting(n)'
    BY <1>1, <1>2, <2>1, OwedHeld, OwedHeldNext DEF BInv
  <2> QED BY <1>2, <2>2 DEF Reporting, Told, At
<1> QED
  BY <1>1, <1>4, <1>5

\* The books of the other notices stay.
LEMMA OthersKeep ==
    ASSUME BInv, SInv', NEW w \in Slots, Running(w), NEW d \in Execution,
           NEW n \in Notices, n = slot[w].for,
           d.for = n, d.locked = slot[w].locked, slot' = [slot EXCEPT ![w] = d],
           UNCHANGED <<config, call, job>>, faults' >= faults,
           \A m \in Notices : m # n => mails'[m] = mails[m] /\ Sent(m)' = Sent(m)
    PROVE  \A m \in Notices : m # n => Counted(m)' /\ Reported(m)'
<1> SUFFICES ASSUME NEW m \in Notices, m # n PROVE Counted(m)' /\ Reported(m)'
  OBVIOUS
<1>1. Astray(m)' = Astray(m) /\ Unreported(m)' = Unreported(m)
  BY SlotMoves
<1>2. (Owed(m)' => Owed(m)) /\ (HeldReport(m) => HeldReport(m)')
  BY WorkerMoves
<1>3. provider' = provider /\ (Logging(m)' <=> Logging(m)) /\ Shapes'
  BY DEF config, Logging, SInv
<1> QED
  BY <1>1, <1>2, <1>3, BooksSame

\* A step that moves the books of its own notice.
LEMMA OwnStep ==
    ASSUME BInv, SInv', NEW w \in Slots, Running(w), NEW d \in Execution,
           NEW n \in Notices, n = slot[w].for,
           d.for = n, d.locked = slot[w].locked, slot' = [slot EXCEPT ![w] = d],
           UNCHANGED <<config, call, job>>, faults' >= faults,
           \A m \in Notices : m # n => mails'[m] = mails[m] /\ Sent(m)' = Sent(m),
           mails'[n] + One(Strayed(d)) + One(d.locked /\ ~Done(d)) + faults
               <= mails[n] + One(Strayed(slot[w])) + One(d.locked /\ ~Done(slot[w])) + faults',
           provider = "on" =>
               /\ Sent(n)' + One(Told(d)) + mails[n] <= Sent(n) + One(Told(slot[w])) + mails'[n]
               /\ mails'[n] + One(Strayed(d)) + Sent(n) + faults + One(d.locked /\ Told(slot[w]))
                    <= mails[n] + One(Strayed(slot[w])) + Sent(n)' + faults' + One(d.locked /\ Told(d))
    PROVE  \A m \in Notices : Counted(m)' /\ Reported(m)'
<1>2. \A m \in Notices : m # n => Counted(m)' /\ Reported(m)'
  BY OthersKeep
<1>3. /\ Astray(n)' + One(Strayed(slot[w])) = Astray(n) + One(Strayed(d))
      /\ Unreported(n)' + One(Told(slot[w])) = Unreported(n) + One(Told(d))
  BY SlotMoves
<1>4. /\ ~d.locked => (Owed(n)' <=> Owed(n)) /\ (HeldReport(n)' <=> HeldReport(n))
      /\ d.locked => /\ Owed(n) <=> ~Done(slot[w])
                     /\ Owed(n)' <=> ~Done(d)
                     /\ HeldReport(n) <=> Told(slot[w])
                     /\ HeldReport(n)' <=> Told(d)
  BY WorkerMoves
<1>5. /\ Astray(n) \in Nat /\ Unreported(n) \in Nat /\ Sent(n) \in Nat /\ mails[n] \in Nat /\ faults \in Nat
      /\ Astray(n)' \in Nat /\ Unreported(n)' \in Nat /\ Sent(n)' \in Nat /\ mails'[n] \in Nat /\ faults' \in Nat
  BY Numbers, NumbersNext DEF BInv, SInv
<1>6. /\ One(Owed(n)') + One(d.locked /\ ~Done(slot[w])) = One(Owed(n)) + One(d.locked /\ ~Done(d))
      /\ One(HeldReport(n)') + One(d.locked /\ Told(slot[w])) = One(HeldReport(n)) + One(d.locked /\ Told(d))
      /\ Logging(n)' = Logging(n)
  BY <1>4 DEF One, Logging
<1>7. /\ One(Owed(n)) \in Nat /\ One(Owed(n)') \in Nat /\ One(HeldReport(n)) \in Nat /\ One(HeldReport(n)') \in Nat
      /\ One(Logging(n)) \in Nat /\ One(d.locked /\ ~Done(slot[w])) \in Nat /\ One(d.locked /\ ~Done(d)) \in Nat
      /\ One(d.locked /\ Told(slot[w])) \in Nat /\ One(d.locked /\ Told(d)) \in Nat
      /\ One(Strayed(d)) \in Nat /\ One(Strayed(slot[w])) \in Nat /\ One(Told(d)) \in Nat /\ One(Told(slot[w])) \in Nat
  BY DEF One
<1>8. Counted(n) /\ Reported(n) /\ provider' = provider
  BY DEF BInv, config
<1>9. Counted(n)'
  BY <1>3, <1>5, <1>6, <1>7, <1>8 DEF Counted
<1>10. Reported(n)'
  <2> SUFFICES ASSUME provider = "on"
               PROVE  /\ Sent(n)' + Unreported(n)' + One(Logging(n)') <= mails'[n]
                      /\ mails'[n] + Astray(n)' <= Sent(n)' + faults' + One(HeldReport(n)') + One(Logging(n)')
    BY <1>8 DEF Reported
  <2>1. Sent(n) + Unreported(n) + One(Logging(n)) <= mails[n]
        /\ mails[n] + Astray(n) <= Sent(n) + faults + One(HeldReport(n)) + One(Logging(n))
    BY <1>8 DEF Reported
  <2>2. One(Logging(n)') = One(Logging(n))
    BY <1>6 DEF One
  <2>3. Sent(n)' + Unreported(n)' + One(Logging(n)') <= mails'[n]
    BY <1>3, <1>5, <1>7, <2>1, <2>2
  <2>4. mails'[n] + Astray(n)' <= Sent(n)' + faults' + One(HeldReport(n)') + One(Logging(n)')
    BY <1>3, <1>5, <1>6, <1>7, <2>1, <2>2
  <2> QED BY <2>3, <2>4
<1> QED
  BY <1>2, <1>9, <1>10

\* A step that moves nothing in the books.
LEMMA IdleStep ==
    ASSUME BInv, SInv', NEW w \in Slots, Running(w), NEW d \in Execution,
           d.for = slot[w].for, d.locked = slot[w].locked, slot' = [slot EXCEPT ![w] = d],
           UNCHANGED <<config, call, job, mails>>, faults' >= faults,
           \A m \in Notices : Sent(m)' = Sent(m),
           ~Told(slot[w]), ~Told(d), Strayed(d) => Strayed(slot[w]), Done(slot[w]) => Done(d)
    PROVE  \A m \in Notices : Counted(m)' /\ Reported(m)'
<1>1. PICK n \in Notices : n = slot[w].for
  BY RunningIs DEF BInv
<1>2. mails[n] \in Nat /\ Sent(n) \in Nat /\ faults \in Nat /\ faults' \in Nat
  BY Numbers, NumbersNext DEF BInv, SInv
<1>3. /\ One(Strayed(d)) \in Nat /\ One(Strayed(slot[w])) \in Nat /\ One(Strayed(d)) <= One(Strayed(slot[w]))
      /\ One(Told(d)) = 0 /\ One(Told(slot[w])) = 0
      /\ One(d.locked /\ Told(slot[w])) = 0 /\ One(d.locked /\ Told(d)) = 0
      /\ One(d.locked /\ ~Done(d)) \in Nat /\ One(d.locked /\ ~Done(slot[w])) \in Nat
      /\ One(d.locked /\ ~Done(d)) <= One(d.locked /\ ~Done(slot[w]))
  BY DEF One
<1>4. mails'[n] + One(Strayed(d)) + One(d.locked /\ ~Done(d)) + faults
        <= mails[n] + One(Strayed(slot[w])) + One(d.locked /\ ~Done(slot[w])) + faults'
  BY <1>2, <1>3
<1>5. /\ Sent(n)' + One(Told(d)) + mails[n] <= Sent(n) + One(Told(slot[w])) + mails'[n]
      /\ mails'[n] + One(Strayed(d)) + Sent(n) + faults + One(d.locked /\ Told(slot[w]))
           <= mails[n] + One(Strayed(slot[w])) + Sent(n)' + faults' + One(d.locked /\ Told(d))
  BY <1>2, <1>3
<1> QED
  BY <1>1, <1>4, <1>5, OwnStep

\* A new pc, and nothing else, for an execution.
LEMMA GoneTo ==
    ASSUME NEW e \in Execution,
           NEW pc \in {"check", "skip", "send", "fail", "resolve", "reject"}, NEW d, d = [e EXCEPT !.pc = pc]
    PROVE  /\ d \in Execution /\ d.pc = pc /\ d.for = e.for /\ d.made = e.made /\ d.locked = e.locked
           /\ ~Told(d) /\ (Strayed(d) <=> pc \in {"check", "send"} /\ ~e.locked) /\ (Done(d) <=> pc = "resolve")
<1>1. d \in Execution
  BY DEF Execution
<1>2. d.pc = pc /\ d.for = e.for /\ d.made = e.made /\ d.locked = e.locked
  BY DEF Execution
<1> QED
  BY <1>1, <1>2 DEF Told, Strayed, Done

\* The row of the attempt is created, or not.
LEMMA CreateRowBooks ==
    ASSUME BInv, SInv', NEW w \in Slots, CreateRow(w)
    PROVE  \A m \in Notices : Counted(m)' /\ Reported(m)'
<1>1. PICK e \in Execution : e = slot[w]
  BY RunningIs DEF CreateRow, At, Running, BInv
<1>2. PICK n \in Notices : n = e.for
  BY <1>1 DEF Execution
<1>3. /\ Running(w) /\ e.pc = "create" /\ SInv /\ UNCHANGED <<config, call, job, mails>>
      /\ faults \in 0 .. MaxFaults
  BY <1>1 DEF CreateRow, At, Running, BInv, SInv, Shapes
<1>4. ~Told(e) /\ ~Done(e) /\ (~e.locked => Strayed(e))
  BY <1>3 DEF Told, Done, Strayed
<1>5. CASE Fault("db") /\ Goto(w, "reject") /\ UNCHANGED rows
  <2> DEFINE d == [e EXCEPT !.pc = "reject"]
  <2>1. slot' = [slot EXCEPT ![w] = d]
    BY <1>1, <1>5 DEF Goto
  <2>2. d = [e EXCEPT !.pc = "reject"]
    OBVIOUS
  <2> HIDE DEF d
  <2>3. /\ d \in Execution /\ d.for = e.for /\ d.locked = e.locked /\ ~Told(d) /\ ~Strayed(d)
    BY <2>2, GoneTo
  <2>4. faults' >= faults
    BY <1>3, <1>5, FaultCounts
  <2>5. \A m \in Notices : Sent(m)' = Sent(m)
    BY <1>5, SentSame
  <2> QED BY <1>1, <1>3, <1>4, <2>1, <2>3, <2>4, <2>5, IdleStep
<1>6. ASSUME NEW r, r = [status |-> "queued", retryCount |-> e.made],
             rows' = [rows EXCEPT ![n] = Append(@, r)],
             slot' = [slot EXCEPT ![w] = [@ EXCEPT !.pc = "check", !.row = Len(rows[n]) + 1]],
             UNCHANGED faults
      PROVE  \A m \in Notices : Counted(m)' /\ Reported(m)'
  <2>1. PICK i : i = Len(rows[n]) + 1
    OBVIOUS
  <2> DEFINE d == [e EXCEPT !.pc = "check", !.row = i]
  <2>2. slot' = [slot EXCEPT ![w] = d]
    BY <1>1, <1>6, <2>1
  <2>3. i \in Nat
    BY <2>1, LenProperties DEF BInv, SInv, Shapes
  <2>4. d \in Execution /\ d.for = e.for /\ d.locked = e.locked /\ d.pc = "check"
    BY <2>3 DEF Execution
  <2> HIDE DEF d
  <2>5. ~Told(d) /\ (Strayed(d) => Strayed(e))
    BY <1>3, <2>4 DEF Told, Strayed
  <2>6. r \in Row /\ r.status # "sent"
    BY <1>6 DEF Row, Execution
  <2>7. Sent(n) \in Nat
    BY Numbers DEF BInv, SInv
  <2>8. \A m \in Notices : Sent(m)' = Sent(m)
    <3>1. /\ Sent(n)' = Sent(n) + One(r.status = "sent")
          /\ \A m \in Notices : m # n => Sent(m)' = Sent(m)
      BY <1>3, <1>6, <2>6, AppendedSent
    <3>2. One(r.status = "sent") = 0
      BY <2>6 DEF One
    <3> QED BY <2>7, <3>1, <3>2
  <2>9. faults' >= faults
    BY <1>3, <1>6
  <2> QED BY <1>1, <1>3, <1>4, <2>2, <2>4, <2>5, <2>8, <2>9, IdleStep
<1>7. \/ Fault("db") /\ Goto(w, "reject") /\ UNCHANGED rows
      \/ /\ rows' = [rows EXCEPT ![n] = Append(@, [status |-> "queued", retryCount |-> e.made])]
         /\ slot' = [slot EXCEPT ![w] = [@ EXCEPT !.pc = "check", !.row = Len(rows[n]) + 1]]
         /\ UNCHANGED faults
  BY <1>1, <1>2 DEF CreateRow
<1> QED
  BY <1>5, <1>6, <1>7

\* The row of the attempt gets its status, and the execution moves on.
LEMMA WriteBooks ==
    ASSUME BInv, SInv', NEW w \in Slots, Running(w), NEW n \in Notices, n = slot[w].for,
           slot[w].pc \in {"skip", "update", "fail"},
           NEW status \in {"sent", "failed", "skipped"}, SetRow(w, status)
    PROVE  /\ Sent(n)' = Sent(n) + One(status = "sent")
           /\ \A m \in Notices : m # n => Sent(m)' = Sent(m)
<1>1. PICK i : i = slot[w].row
  OBVIOUS
<1>2. i \in DOMAIN rows[n] /\ rows[n][i].status # "sent" /\ SInv
  BY <1>1, RunningIs DEF BInv, RowOK
<1>3. Writes(n, i, status)
  BY <1>1 DEF SetRow, Writes
<1> QED
  BY <1>2, <1>3, WrittenSent

\* An execution that has not sent the mail moves on.
LEMMA GoBooks ==
    ASSUME BInv, SInv', NEW w \in Slots, Running(w),
           NEW pc \in {"skip", "send", "fail", "resolve", "reject"}, Goto(w, pc),
           UNCHANGED <<config, call, job, mails>>, faults' = faults \/ Fault("db"),
           \A m \in Notices : Sent(m)' = Sent(m), ~Told(slot[w]), slot[w].pc # "resolve",
           pc = "send" => slot[w].pc = "check"
    PROVE  \A m \in Notices : Counted(m)' /\ Reported(m)'
<1>1. PICK e \in Execution : e = slot[w]
  BY RunningIs DEF BInv
<1> DEFINE d == [e EXCEPT !.pc = pc]
<1>2. slot' = [slot EXCEPT ![w] = d] /\ d = [e EXCEPT !.pc = pc]
  BY <1>1 DEF Goto
<1> HIDE DEF d
<1>3. /\ d \in Execution /\ d.for = e.for /\ d.locked = e.locked /\ ~Told(d)
      /\ Strayed(d) <=> pc \in {"check", "send"} /\ ~e.locked
  BY <1>2, GoneTo
<1>4. ~Done(e) /\ (Strayed(d) => Strayed(e))
  BY <1>1, <1>3 DEF Told, Done, Strayed
<1>5. faults' >= faults
  BY FaultCounts DEF BInv, SInv, Shapes
<1> QED
  BY <1>1, <1>2, <1>3, <1>4, <1>5, IdleStep

\* The preferences are read, or not.
LEMMA CheckBooks ==
    ASSUME BInv, SInv', PrefsOK, NEW w \in Slots, checkUserPreferences(w)
    PROVE  \A m \in Notices : Counted(m)' /\ Reported(m)'
<1>1. PICK e \in Execution : e = slot[w]
  BY RunningIs DEF checkUserPreferences, At, Running, BInv
<1>2. /\ Running(w) /\ e.pc = "check" /\ SInv /\ UNCHANGED <<config, call, job, rows, mails>>
      /\ faults \in 0 .. MaxFaults
  BY <1>1 DEF checkUserPreferences, At, Running, BInv, SInv, Shapes
<1>3. \A m \in Notices : Sent(m)' = Sent(m)
  BY <1>2, SentSame
<1>4. ~Told(e) /\ ~Done(e) /\ (~e.locked => Strayed(e))
  BY <1>2 DEF Told, Done, Strayed
<1>5. ASSUME NEW d \in Execution, d.for = e.for, d.locked = e.locked, d.pc \in {"skip", "send"},
             slot' = [slot EXCEPT ![w] = d], faults' >= faults
      PROVE  \A m \in Notices : Counted(m)' /\ Reported(m)'
  <2>1. ~Told(d) /\ (Strayed(d) => Strayed(e))
    BY <1>4, <1>5 DEF Told, Strayed
  <2> QED BY <1>1, <1>2, <1>3, <1>4, <1>5, <2>1, IdleStep
<1>6. CASE Fault("db") /\ slot' = [slot EXCEPT ![w] = [@ EXCEPT !.blind = TRUE, !.pc = "send"]]
  <2> DEFINE d == [e EXCEPT !.blind = TRUE, !.pc = "send"]
  <2>1. slot' = [slot EXCEPT ![w] = d]
    BY <1>1, <1>6
  <2>2. d \in Execution /\ d.for = e.for /\ d.locked = e.locked /\ d.pc = "send"
    BY DEF Execution
  <2> HIDE DEF d
  <2>3. faults' >= faults
    BY <1>2, <1>6, FaultCounts
  <2> QED BY <1>5, <2>1, <2>2, <2>3
<1>7. ASSUME NEW pc \in {"skip", "send"}, NEW seen, seen = choices, UNCHANGED faults,
             slot' = [slot EXCEPT ![w] = [@ EXCEPT !.seen = seen, !.pc = pc]]
      PROVE  \A m \in Notices : Counted(m)' /\ Reported(m)'
  <2> DEFINE d == [e EXCEPT !.seen = seen, !.pc = pc]
  <2>1. slot' = [slot EXCEPT ![w] = d]
    BY <1>1, <1>7
  <2>2. d \in Execution /\ d.for = e.for /\ d.locked = e.locked /\ d.pc = pc
    BY <1>7 DEF Execution, PrefsOK
  <2> HIDE DEF d
  <2>3. faults' >= faults
    BY <1>2, <1>7
  <2> QED BY <1>5, <2>1, <2>2, <2>3
<1>8. \/ Fault("db") /\ slot' = [slot EXCEPT ![w] = [@ EXCEPT !.blind = TRUE, !.pc = "send"]]
      \/ UNCHANGED faults /\ \E pc \in {"skip", "send"} :
            slot' = [slot EXCEPT ![w] = [@ EXCEPT !.seen = choices, !.pc = pc]]
  BY DEF checkUserPreferences
<1> QED
  BY <1>6, <1>7, <1>8

\* The mail leaves, or does not.
LEMMA SendBooks ==
    ASSUME BInv, SInv', NEW w \in Slots, Send(w)
    PROVE  \A m \in Notices : Counted(m)' /\ Reported(m)'
<1>1. PICK e \in Execution : e = slot[w]
  BY RunningIs DEF Send, At, Running, BInv
<1>2. PICK n \in Notices : n = e.for
  BY <1>1 DEF Execution
<1>3. /\ Running(w) /\ e.pc = "send" /\ SInv /\ Shapes /\ UNCHANGED <<config, call, job, rows>>
  BY <1>1 DEF Send, At, Running, BInv, SInv
<1>4. PICK ok \in BOOLEAN :
          /\ sendEmail(n, ok)
          /\ slot' = [slot EXCEPT ![w] = [@ EXCEPT !.pc = "update", !.ok = ok, !.seen = 0, !.blind = FALSE]]
  BY <1>1, <1>2 DEF Send
<1> DEFINE d == Asked(e, ok)
<1>5. slot' = [slot EXCEPT ![w] = d]
  BY <1>1, <1>4 DEF Asked
<1>6. d \in Execution /\ d.for = n /\ d.locked = e.locked /\ d.pc = "update" /\ d.ok = ok
  BY <1>2, AskedIs
<1> HIDE DEF d
<1>7. /\ \A m \in Notices \ {n} : mails'[m] = mails[m]
      /\ ok => faults' = faults /\ mails'[n] = IF provider = "on" THEN mails[n] + 1 ELSE mails[n]
      /\ ~ok => faults' = faults + 1 /\ mails'[n] \in {mails[n], mails[n] + 1}
  BY <1>3, <1>4, SendMails
<1>8. /\ mails[n] \in Nat /\ mails'[n] \in Nat /\ Sent(n) \in Nat /\ faults \in Nat /\ faults' \in Nat
  BY Numbers, NumbersNext DEF BInv, SInv
<1>9. \A m \in Notices : Sent(m)' = Sent(m)
  BY <1>3, SentSame
<1>10. /\ One(Strayed(e)) = One(~e.locked) /\ One(Strayed(d)) = 0
       /\ One(d.locked /\ ~Done(e)) = One(e.locked)
       /\ One(d.locked /\ Told(e)) = 0 /\ One(Told(e)) = 0
       /\ One(~e.locked) + One(e.locked) = 1 /\ One(e.locked) \in Nat /\ One(~e.locked) \in Nat
  BY <1>3, <1>6 DEF One, Strayed, Done, Told
<1>11. CASE ok
  <2>1. One(Told(d)) = 1 /\ One(d.locked /\ Told(d)) = One(e.locked) /\ One(d.locked /\ ~Done(d)) = 0
    BY <1>6, <1>11 DEF One, Told, Done
  <2>2. mails'[n] + One(Strayed(d)) + One(d.locked /\ ~Done(d)) + faults
          <= mails[n] + One(Strayed(e)) + One(d.locked /\ ~Done(e)) + faults'
    BY <1>7, <1>8, <1>10, <1>11, <2>1
  <2>3. provider = "on" =>
          /\ Sent(n)' + One(Told(d)) + mails[n] <= Sent(n) + One(Told(e)) + mails'[n]
          /\ mails'[n] + One(Strayed(d)) + Sent(n) + faults + One(d.locked /\ Told(e))
               <= mails[n] + One(Strayed(e)) + Sent(n)' + faults' + One(d.locked /\ Told(d))
    BY <1>7, <1>8, <1>9, <1>10, <1>11, <2>1
  <2>4. faults' >= faults
    BY <1>7, <1>8, <1>11
  <2> QED BY <1>1, <1>2, <1>3, <1>5, <1>6, <1>7, <1>9, <2>2, <2>3, <2>4, OwnStep
<1>12. CASE ~ok
  <2>1. One(Told(d)) = 0 /\ One(d.locked /\ Told(d)) = 0 /\ One(d.locked /\ ~Done(d)) = One(e.locked)
    BY <1>6, <1>12 DEF One, Told, Done
  <2>2. mails'[n] + One(Strayed(d)) + One(d.locked /\ ~Done(d)) + faults
          <= mails[n] + One(Strayed(e)) + One(d.locked /\ ~Done(e)) + faults'
    BY <1>7, <1>8, <1>10, <1>12, <2>1
  <2>3. /\ Sent(n)' + One(Told(d)) + mails[n] <= Sent(n) + One(Told(e)) + mails'[n]
        /\ mails'[n] + One(Strayed(d)) + Sent(n) + faults + One(d.locked /\ Told(e))
             <= mails[n] + One(Strayed(e)) + Sent(n)' + faults' + One(d.locked /\ Told(d))
    BY <1>7, <1>8, <1>9, <1>10, <1>12, <2>1
  <2>4. faults' >= faults
    BY <1>7, <1>8, <1>12
  <2> QED BY <1>1, <1>2, <1>3, <1>5, <1>6, <1>7, <1>9, <2>2, <2>3, <2>4, OwnStep
<1> QED
  BY <1>11, <1>12

\* The row says that the mail was sent; or cannot say so.
LEMMA ToldBooks ==
    ASSUME BInv, SInv', NEW w \in Slots, UpdateRow(w), slot[w].ok
    PROVE  \A m \in Notices : Counted(m)' /\ Reported(m)'
<1>1. PICK e \in Execution : e = slot[w]
  BY RunningIs DEF UpdateRow, At, Running, BInv
<1>2. PICK n \in Notices : n = e.for
  BY <1>1 DEF Execution
<1>3. /\ Running(w) /\ e.pc = "update" /\ e.ok /\ SInv /\ UNCHANGED <<config, call, job, mails>>
  BY <1>1 DEF UpdateRow, At, Running, BInv
<1>4. PICK pc \in {"resolve", "fail"} : Goto(w, pc) /\
          \/ pc = "resolve" /\ SetRow(w, "sent") /\ UNCHANGED faults
          \/ pc = "fail" /\ UNCHANGED rows /\ Fault("db")
  BY <1>1, <1>3 DEF UpdateRow
<1> DEFINE d == [e EXCEPT !.pc = pc]
<1>5. slot' = [slot EXCEPT ![w] = d] /\ d = [e EXCEPT !.pc = pc]
  BY <1>1, <1>4 DEF Goto
<1> HIDE DEF d
<1>6. d \in Execution /\ d.for = n /\ d.locked = e.locked /\ ~Told(d) /\ ~Strayed(d) /\ (Done(d) <=> pc = "resolve")
  BY <1>2, <1>5, GoneTo
<1>7. /\ mails[n] \in Nat /\ mails'[n] \in Nat /\ Sent(n) \in Nat /\ Sent(n)' \in Nat /\ faults \in Nat /\ faults' \in Nat
  BY Numbers, NumbersNext DEF BInv, SInv
<1>8. /\ One(Strayed(e)) = 0 /\ One(Strayed(d)) = 0 /\ One(d.locked /\ ~Done(e)) = 0
      /\ One(d.locked /\ Told(e)) = One(e.locked) /\ One(Told(e)) = 1 /\ One(Told(d)) = 0
      /\ One(d.locked /\ Told(d)) = 0 /\ One(e.locked) \in {0, 1}
      /\ One(d.locked /\ ~Done(d)) = IF pc = "resolve" THEN 0 ELSE One(e.locked)
  BY <1>3, <1>6 DEF One, Strayed, Done, Told
<1>9. /\ \A m \in Notices : m # n => Sent(m)' = Sent(m)
      /\ pc = "resolve" => Sent(n)' = Sent(n) + 1 /\ faults' = faults
      /\ pc = "fail" => Sent(n)' = Sent(n) /\ faults' = faults + 1
  <2>1. CASE pc = "resolve"
    <3>1. SetRow(w, "sent") /\ UNCHANGED faults
      BY <1>4, <2>1
    <3>2. /\ Sent(n)' = Sent(n) + One("sent" = "sent")
          /\ \A m \in Notices : m # n => Sent(m)' = Sent(m)
      BY <1>1, <1>2, <1>3, <3>1, WriteBooks
    <3>3. One("sent" = "sent") = 1
      BY DEF One
    <3> QED BY <2>1, <3>1, <3>2, <3>3
  <2>2. CASE pc = "fail"
    <3>1. UNCHANGED rows /\ Fault("db")
      BY <1>4, <2>2
    <3>2. \A m \in Notices : Sent(m)' = Sent(m)
      BY <3>1, SentSame
    <3>3. faults' = faults + 1
      BY <3>1, FaultCounts DEF BInv, SInv, Shapes
    <3> QED BY <2>2, <3>2, <3>3
  <2> QED BY <2>1, <2>2
<1>10. mails'[n] + One(Strayed(d)) + One(d.locked /\ ~Done(d)) + faults
         <= mails[n] + One(Strayed(e)) + One(d.locked /\ ~Done(e)) + faults'
  BY <1>3, <1>7, <1>8, <1>9
<1>11. /\ Sent(n)' + One(Told(d)) + mails[n] <= Sent(n) + One(Told(e)) + mails'[n]
       /\ mails'[n] + One(Strayed(d)) + Sent(n) + faults + One(d.locked /\ Told(e))
            <= mails[n] + One(Strayed(e)) + Sent(n)' + faults' + One(d.locked /\ Told(d))
  BY <1>3, <1>7, <1>8, <1>9
<1>12. faults' >= faults
  BY <1>7, <1>9
<1> QED
  BY <1>1, <1>2, <1>3, <1>5, <1>6, <1>9, <1>10, <1>11, <1>12, OwnStep

\* The steps that write a status other than sent, or fail to.
LEMMA OtherRowBooks ==
    ASSUME BInv, SInv', NEW w \in Slots, SkipRow(w) \/ (UpdateRow(w) /\ ~slot[w].ok) \/ FailRow(w)
    PROVE  \A m \in Notices : Counted(m)' /\ Reported(m)'
<1>1. /\ Running(w) /\ slot[w].pc \in {"skip", "update", "fail"} /\ ~Told(slot[w])
      /\ UNCHANGED <<config, call, job, mails>>
  BY DEF SkipRow, UpdateRow, FailRow, At, Running, Told
<1>2. PICK n \in Notices : n = slot[w].for
  BY <1>1, RunningIs DEF BInv
<1>3. \E pc \in {"resolve", "fail", "reject"} : Goto(w, pc)
  BY DEF SkipRow, UpdateRow, FailRow
<1>4. faults' = faults \/ Fault("db")
  BY DEF SkipRow, UpdateRow, FailRow
<1>5. UNCHANGED rows \/ \E status \in {"failed", "skipped"} : SetRow(w, status)
  BY DEF SkipRow, UpdateRow, FailRow
<1>6. \A m \in Notices : Sent(m)' = Sent(m)
  <2>1. CASE UNCHANGED rows
    BY <2>1, SentSame
  <2>2. ASSUME NEW status \in {"failed", "skipped"}, SetRow(w, status)
        PROVE  \A m \in Notices : Sent(m)' = Sent(m)
    <3>1. /\ Sent(n)' = Sent(n) + One(status = "sent")
          /\ \A m \in Notices : m # n => Sent(m)' = Sent(m)
      BY <1>1, <1>2, <2>2, WriteBooks
    <3>2. One(status = "sent") = 0
      BY DEF One
    <3>3. Sent(n) \in Nat
      BY Numbers DEF BInv, SInv
    <3> QED BY <3>1, <3>2, <3>3
  <2> QED BY <1>5, <2>1, <2>2
<1> QED
  BY <1>1, <1>3, <1>4, <1>6, GoBooks

\* The worker settles the job.
LEMMA SettleBooks ==
    ASSUME BInv, SInv', NEW w \in Slots, Resolve(w) \/ Reject(w)
    PROVE  \A m \in Notices : Counted(m)' /\ Reported(m)'
<1>1. PICK e \in Execution : e = slot[w]
  BY RunningIs DEF Resolve, Reject, At, Running, BInv
<1>2. PICK n \in Notices : n = e.for
  BY <1>1 DEF Execution
<1>3. /\ Running(w) /\ e.pc \in {"resolve", "reject"} /\ SInv /\ Shapes' /\ slot' = [slot EXCEPT ![w] = Idle]
      /\ UNCHANGED <<config, call, rows, mails, faults>>
  BY <1>1 DEF Resolve, Reject, At, Running, BInv, SInv
<1>4. ~Strayed(e) /\ ~Told(e) /\ ~Strayed(Idle) /\ ~Told(Idle)
  BY <1>3 DEF Strayed, Told, Idle
<1>5. slot'[w] = Idle /\ \A v \in Slots : v # w => slot'[v] = slot[v]
  BY <1>3 DEF SInv, Shapes
<1>6. ~Running(w)' /\ \A v \in Slots : v # w => (Running(v)' <=> Running(v))
  BY <1>5 DEF Running, Idle
<1>7. ASSUME NEW m \in Notices PROVE Astray(m)' = Astray(m) /\ Unreported(m)' = Unreported(m)
  <2>1. /\ Astray(n)' + One(Strayed(e)) = Astray(n) + One(Strayed(Idle))
        /\ Unreported(n)' + One(Told(e)) = Unreported(n) + One(Told(Idle))
        /\ m # n => Astray(m)' = Astray(m) /\ Unreported(m)' = Unreported(m)
    BY <1>1, <1>2, <1>3, SlotMoves
  <2>2. One(Strayed(e)) = 0 /\ One(Strayed(Idle)) = 0 /\ One(Told(e)) = 0 /\ One(Told(Idle)) = 0
    BY <1>4 DEF One
  <2>3. Astray(n) \in Nat /\ Astray(n)' \in Nat /\ Unreported(n) \in Nat /\ Unreported(n)' \in Nat
    BY <1>3, Numbers, NumbersNext DEF SInv
  <2> QED BY <2>1, <2>2, <2>3
<1>8. ASSUME NEW m \in Notices PROVE HeldReport(m) => HeldReport(m)'
  BY <1>1, <1>3, <1>5 DEF HeldReport, Reporting, At
<1>9. ASSUME NEW m \in Notices PROVE Owed(m)' => Owed(m)
  <2>1. CASE m # n \/ ~e.locked
    <3>1. ~Holds(w, m) /\ ~Holds(w, m)'
      BY <1>1, <1>2, <1>6, <2>1 DEF Holds
    <3>2. \A v \in Slots : v # w => (Holds(v, m)' <=> Holds(v, m))
      BY <1>5, <1>6 DEF Holds
    <3>3. job'[m] = job[m]
      BY <1>1, <1>2, <2>1 DEF Resolve, Reject, SInv, Shapes
    <3> QED BY <1>3, <1>5, <3>1, <3>2, <3>3 DEF Owed, Live
  <2>2. CASE m = n /\ e.locked /\ Resolve(w)
    <3>1. Holds(w, n)
      BY <1>1, <1>2, <1>3, <2>2 DEF Holds
    <3>2. call[n] = "done" /\ job[n] \in Job
      BY <1>3, <3>1, OwedHeld DEF SInv, Shapes, LockOK, Holds, NoJob
    <3>3. job'[n].state = "completed"
      BY <1>1, <1>2, <1>3, <2>2, <3>2 DEF Resolve, SInv, Shapes, Job
    <3> QED BY <1>3, <2>2, <3>2, <3>3 DEF Owed, Live
  <2>3. CASE m = n /\ e.locked /\ Reject(w)
    <3>1. Holds(w, n)
      BY <1>1, <1>2, <1>3, <2>3 DEF Holds
    <3>2. ~Done(e)
      BY <1>1, <2>3 DEF Done, Reject, At
    <3> QED BY <1>1, <1>3, <2>3, <3>1, <3>2, OwedHeld
  <2> QED BY <2>1, <2>2, <2>3
<1>10. \A m \in Notices : Sent(m)' = Sent(m)
  BY <1>3, SentSame
<1>11. faults' >= faults /\ provider' = provider
  BY <1>3, Numbers, <1>2 DEF SInv, config
<1>12. \A m \in Notices : Logging(m)' <=> Logging(m)
  BY <1>3 DEF Logging
<1> QED
  BY <1>3, <1>7, <1>8, <1>9, <1>10, <1>11, <1>12, BooksSame

\* Slots that stay as they are.
LEMMA SlotsSame ==
    ASSUME NEW m \in Notices, slot' = slot
    PROVE  Astray(m)' = Astray(m) /\ Unreported(m)' = Unreported(m) /\ (HeldReport(m)' <=> HeldReport(m))
BY DEF Astray, Unreported, HeldReport, Strays, Reporting, At

\* A worker takes the job.
LEMMA TakeBooks ==
    ASSUME BInv, SInv', NEW w \in Slots, NEW n \in Notices, Take(w, n)
    PROVE  \A m \in Notices : Counted(m)' /\ Reported(m)'
<1> SUFFICES ASSUME NEW m \in Notices PROVE Counted(m)' /\ Reported(m)'
  OBVIOUS
<1>1. /\ SInv /\ Shapes' /\ job[n].state = "waiting" /\ slot[w].pc = "idle"
      /\ UNCHANGED <<config, call, rows, mails, faults>>
  BY DEF Take, At, BInv, SInv
<1>2. /\ slot'[w].pc = "create" /\ slot'[w].locked /\ slot'[w].for = n
      /\ \A v \in Slots : v # w => slot'[v] = slot[v]
  BY DEF Take, BInv, SInv, Shapes
<1>3. Strays(m)' = Strays(m) /\ Reporting(m)' = Reporting(m)
  BY <1>1, <1>2 DEF Strays, Reporting, At
<1>4. Astray(m)' = Astray(m) /\ Unreported(m)' = Unreported(m)
  BY <1>3 DEF Astray, Unreported
<1>5. HeldReport(m) => HeldReport(m)'
  BY <1>1, <1>2, <1>3 DEF HeldReport, Reporting, At
<1>6. Owed(m)' => Owed(m)
  <2>1. CASE m = n
    BY <1>1, <2>1, OwedFree DEF SInv, LockOK, Holds, Live
  <2>2. CASE m # n
    <3>1. job'[m] = job[m]
      BY <2>2 DEF Take, BInv, SInv, Shapes
    <3>2. \A v \in Slots : (Holds(v, m)' <=> Holds(v, m))
      BY <1>1, <1>2, <2>2 DEF Holds, Running
    <3> QED BY <1>1, <1>2, <2>2, <3>1, <3>2 DEF Owed, Live, Holds
  <2> QED BY <2>1, <2>2
<1>7. Sent(m)' = Sent(m) /\ (Logging(m)' <=> Logging(m)) /\ provider' = provider
  BY <1>1, SentSame DEF Logging, config
<1>8. faults' >= faults
  BY <1>1, Numbers DEF SInv
<1> QED
  BY <1>1, <1>4, <1>5, <1>6, <1>7, <1>8, BooksSame

\* The job is made, waits again, or is given up.
LEMMA QueueBooks ==
    ASSUME BInv, SInv', NEW n \in Notices, Enqueue(n) \/ Promote(n) \/ Requeue(n)
    PROVE  \A m \in Notices : Counted(m)' /\ Reported(m)'
<1> SUFFICES ASSUME NEW m \in Notices PROVE Counted(m)' /\ Reported(m)'
  OBVIOUS
<1>1. SInv /\ Shapes' /\ UNCHANGED <<config, slot, rows, mails, faults>>
  BY DEF Enqueue, Promote, Requeue, BInv, SInv
<1>2. m # n => job'[m] = job[m] /\ call'[m] = call[m]
  BY DEF Enqueue, Promote, Requeue, CallTo, BInv, SInv, Shapes
<1>3. Owed(n)
  <2>1. CASE Enqueue(n)
    BY <2>1 DEF Enqueue, Owed
  <2>2. CASE Promote(n)
    BY <1>1, <2>2, OwedFree DEF Promote, SInv, LockOK, Holds, Live
  <2>3. CASE Requeue(n)
    BY <1>1, <2>3, OwedFree DEF Requeue, Holds, Running, Live
  <2> QED BY <2>1, <2>2, <2>3
<1>4. Owed(m)' => Owed(m)
  BY <1>1, <1>2, <1>3 DEF Owed, Live, Holds, Running
<1>5. Logging(m)' <=> Logging(m)
  BY <1>1, <1>2 DEF Enqueue, Promote, Requeue, CallTo, Logging, SInv, Shapes
<1>6. Sent(m)' = Sent(m) /\ provider' = provider
  BY <1>1, SentSame DEF config
<1>7. faults' >= faults
  BY <1>1, Numbers DEF SInv
<1> QED
  BY <1>1, <1>4, <1>5, <1>6, <1>7, SlotsSame, BooksSame

\* An execution that loses its lock may send the mail besides the next one.
LEMMA StallBooks ==
    ASSUME BInv, SInv', NEW w \in Slots, Stall(w)
    PROVE  \A m \in Notices : Counted(m)' /\ Reported(m)'
<1>1. PICK e \in Execution : e = slot[w]
  BY RunningIs DEF Stall, Running, BInv
<1>2. PICK n \in Notices : n = e.for
  BY <1>1 DEF Execution
<1> DEFINE d == [e EXCEPT !.locked = FALSE]
<1>3. /\ Running(w) /\ e.locked /\ SInv /\ Shapes' /\ slot' = [slot EXCEPT ![w] = d] /\ Fault("stall")
      /\ UNCHANGED <<config, call, job, rows, mails>>
  BY <1>1 DEF Stall, Running, BInv, SInv
<1>4. d \in Execution /\ d.for = n /\ d.pc = e.pc /\ d.ok = e.ok
  BY <1>2 DEF Execution
<1>5. ~d.locked
  BY DEF Execution
<1> HIDE DEF d
<1>6. /\ Astray(n)' + One(Strayed(e)) = Astray(n) + One(Strayed(d))
      /\ Unreported(n)' + One(Told(e)) = Unreported(n) + One(Told(d))
      /\ \A m \in Notices : m # n => Astray(m)' = Astray(m) /\ Unreported(m)' = Unreported(m)
  BY <1>1, <1>2, <1>3, <1>4, SlotMoves
<1>7. /\ One(Strayed(e)) = 0 /\ One(Told(e)) = One(Told(d)) /\ One(Told(e)) \in Nat /\ One(Strayed(d)) \in {0, 1}
  BY <1>3, <1>4 DEF One, Strayed, Told
<1>8. faults' = faults + 1
  BY <1>3, FaultCounts DEF SInv, Shapes
<1>9. slot'[w] = d /\ \A v \in Slots : v # w => slot'[v] = slot[v]
  BY <1>3 DEF SInv, Shapes
<1>10. provider' = provider /\ \A m \in Notices : Sent(m)' = Sent(m) /\ (Logging(m)' <=> Logging(m))
  BY <1>3, SentSame DEF Logging, config
<1>11. ASSUME NEW m \in Notices, m # n PROVE Counted(m)' /\ Reported(m)'
  <2>1. ~Holds(w, m) /\ ~Holds(w, m)'
    BY <1>1, <1>2, <1>4, <1>9, <1>11 DEF Holds
  <2>2. \A v \in Slots : v # w => (Holds(v, m)' <=> Holds(v, m))
    BY <1>9 DEF Holds, Running
  <2>3. Owed(m)' => Owed(m)
    BY <1>3, <1>9, <2>1, <2>2 DEF Owed, Live
  <2>4. HeldReport(m) => HeldReport(m)'
    BY <1>1, <1>2, <1>9, <1>11 DEF HeldReport, Reporting, At
  <2>5. faults' >= faults /\ mails'[m] = mails[m]
    BY <1>3, <1>8, Numbers DEF SInv
  <2> QED BY <1>3, <1>6, <1>10, <1>11, <2>3, <2>4, <2>5, BooksSame
<1>12. Holds(w, n)
  BY <1>1, <1>2, <1>3 DEF Holds
<1>13. (Owed(n) <=> ~Done(e)) /\ (HeldReport(n) <=> Told(e))
  BY <1>1, <1>2, <1>3, <1>12, OwedHeld DEF Reporting, At, Told
<1>14. Strayed(d) => ~Done(e) /\ ~Told(e)
  BY <1>4 DEF Strayed, Done, Told
<1>15. /\ Astray(n) \in Nat /\ Unreported(n) \in Nat /\ Sent(n) \in Nat /\ mails[n] \in Nat /\ faults \in Nat
       /\ Astray(n)' \in Nat /\ Unreported(n)' \in Nat
  BY <1>3, Numbers, NumbersNext DEF SInv
<1>16. Counted(n) /\ Reported(n)
  BY DEF BInv
<1>17. One(Strayed(d)) + One(Owed(n)') <= One(Owed(n)) + 1
  BY <1>13, <1>14 DEF One
<1>18. One(Owed(n)) \in Nat /\ One(Owed(n)') \in Nat /\ One(Logging(n)) \in Nat /\ One(Logging(n)') = One(Logging(n))
  BY <1>10 DEF One
<1>19. One(Strayed(d)) + One(HeldReport(n)) <= 1 /\ One(HeldReport(n)) \in Nat /\ One(HeldReport(n)') \in Nat
  BY <1>13, <1>14 DEF One
<1>20. mails'[n] = mails[n]
  BY <1>3
<1>21. Counted(n)'
  BY <1>6, <1>7, <1>8, <1>15, <1>16, <1>17, <1>18, <1>20 DEF Counted
<1>22. Reported(n)'
  BY <1>6, <1>7, <1>8, <1>10, <1>15, <1>16, <1>18, <1>19, <1>20 DEF Reported
<1> QED
  BY <1>11, <1>21, <1>22

\* A restart: what was under way is lost, and at most one mail unreported.
LEMMA CrashBooks ==
    ASSUME BInv, SInv', Crash
    PROVE  \A m \in Notices : Counted(m)' /\ Reported(m)'
<1> SUFFICES ASSUME NEW m \in Notices PROVE Counted(m)' /\ Reported(m)'
  OBVIOUS
<1>1. /\ SInv /\ Shapes' /\ slot' = [w \in Slots |-> Idle] /\ UNCHANGED <<config, job, rows, mails>>
      /\ call' = [n \in Notices |-> IF call[n] \in {"idle", "done"} THEN call[n] ELSE "dropped"]
      /\ faults' = faults + 1
  BY FaultCounts DEF Crash, BInv, SInv, Shapes
<1>2. Strays(m)' = {} /\ Reporting(m)' = {}
  BY <1>1 DEF Strays, Reporting, At, Idle
<1>3. Astray(m)' = 0 /\ Unreported(m)' = 0 /\ ~HeldReport(m)'
  BY <1>2, FS_EmptySet DEF Astray, Unreported, HeldReport
<1>4. ~Logging(m)'
  BY <1>1 DEF Logging
<1>5. HeldReport(m) => ~Logging(m)
  BY <1>1 DEF HeldReport, Reporting, At, Logging, SInv, LockOK, CallOK, Running
<1>6. /\ One(HeldReport(m)) + One(Logging(m)) <= 1 /\ One(HeldReport(m)') = 0 /\ One(Logging(m)') = 0
      /\ One(Owed(m)) \in Nat /\ One(Owed(m)') \in {0, 1} /\ One(HeldReport(m)) \in Nat /\ One(Logging(m)) \in Nat
  BY <1>3, <1>4, <1>5 DEF One
<1>7. /\ Astray(m) \in Nat /\ Unreported(m) \in Nat /\ Sent(m) \in Nat /\ mails[m] \in Nat /\ faults \in Nat
  BY <1>1, Numbers DEF SInv
<1>8. Counted(m) /\ Reported(m)
  BY DEF BInv
<1>9. Sent(m)' = Sent(m) /\ mails'[m] = mails[m] /\ provider' = provider
  BY <1>1, SentSame DEF config
<1>10. Counted(m)'
  BY <1>1, <1>3, <1>6, <1>7, <1>8, <1>9 DEF Counted
<1>11. Reported(m)'
  BY <1>1, <1>3, <1>6, <1>7, <1>8, <1>9 DEF Reported
<1> QED
  BY <1>10, <1>11

\* A notification's call.
LEMMA CallerBooks ==
    ASSUME BInv, SInv', NEW n \in Notices,
           sendNotification(n) \/ CreateDefaults(n) \/ SendNow(n) \/ LogNow(n)
    PROVE  \A m \in Notices : Counted(m)' /\ Reported(m)'
<1>1. SInv /\ Shapes /\ Shapes' /\ UNCHANGED <<config, job, slot>>
  BY DEF sendNotification, CreateDefaults, SendNow, LogNow, BInv, SInv
<1>2. \A m \in Notices : m # n => call'[m] = call[m]
  BY <1>1 DEF sendNotification, CreateDefaults, SendNow, LogNow, CallTo, Shapes
<1>3. provider' = provider
  BY <1>1 DEF config
<1>4. faults \in Nat /\ faults' \in Nat /\ faults' >= faults
  BY <1>1, Numbers, NumbersNext, FaultCounts
     DEF sendNotification, CreateDefaults, SendNow, LogNow, sendEmail, Shapes
<1>5. ASSUME NEW m \in Notices, mails'[m] = mails[m], Sent(m)' = Sent(m),
             m # n \/ (Owed(n) /\ ~Logging(n) /\ ~Logging(n)')
      PROVE  Counted(m)' /\ Reported(m)'
  <2>1. Owed(m)' => Owed(m)
    BY <1>1, <1>2, <1>5 DEF Owed, Live, Holds, Running
  <2>2. Logging(m)' <=> Logging(m)
    BY <1>2, <1>5 DEF Logging
  <2> QED BY <1>1, <1>3, <1>4, <1>5, <2>1, <2>2, SlotsSame, BooksSame
<1>6. CASE sendNotification(n) \/ CreateDefaults(n)
  <2>1. /\ call[n] \in {"idle", "create"} /\ UNCHANGED <<rows, mails>>
        /\ call'[n] \in {"queue", "create", "dropped"}
    BY <1>1, <1>6 DEF sendNotification, CreateDefaults, CallTo, Shapes
  <2>2. Owed(n) /\ ~Logging(n) /\ ~Logging(n)'
    BY <2>1 DEF Owed, Logging
  <2> QED BY <1>5, <2>1, <2>2, SentSame
<1>7. /\ Astray(n) \in Nat /\ Unreported(n) \in Nat /\ Sent(n) \in Nat /\ mails[n] \in Nat
      /\ mails'[n] \in Nat /\ Sent(n)' \in Nat
      /\ Astray(n)' = Astray(n) /\ Unreported(n)' = Unreported(n) /\ (HeldReport(n)' <=> HeldReport(n))
  BY <1>1, Numbers, NumbersNext, SlotsSame
<1>8. Counted(n) /\ Reported(n)
  BY DEF BInv
<1>9. call[n] # "done" => ~Live(n)
  BY <1>1 DEF SInv, CallOK, Live
<1>10. CASE SendNow(n)
  <2>1. PICK ok \in BOOLEAN : sendEmail(n, ok) /\ CallTo(n, IF ok THEN "logSent" ELSE "logFailed")
    BY <1>10 DEF SendNow
  <2>2. call[n] = "queue" /\ UNCHANGED rows /\ (Logging(n)' <=> ok) /\ call'[n] \in {"logSent", "logFailed"}
    BY <1>1, <1>10, <2>1 DEF SendNow, CallTo, Shapes, Logging
  <2>3. /\ \A m \in Notices \ {n} : mails'[m] = mails[m]
        /\ ok => faults' = faults /\ mails'[n] = IF provider = "on" THEN mails[n] + 1 ELSE mails[n]
        /\ ~ok => faults' = faults + 1 /\ mails'[n] \in {mails[n], mails[n] + 1}
    BY <1>1, <2>1, SendMails
  <2>4. \A m \in Notices : Sent(m)' = Sent(m)
    BY <2>2, SentSame
  <2>5. Owed(n) /\ ~Owed(n)' /\ ~Logging(n)
    BY <1>1, <1>9, <2>2 DEF Owed, Live, Logging
  <2>6. /\ One(Owed(n)) = 1 /\ One(Owed(n)') = 0 /\ One(Logging(n)) = 0 /\ One(Logging(n)') = One(ok)
        /\ One(HeldReport(n)') = One(HeldReport(n)) /\ One(HeldReport(n)) \in Nat
        /\ One(ok) = IF ok THEN 1 ELSE 0
    BY <1>7, <2>2, <2>5 DEF One
  <2>7. Counted(n)'
    BY <1>4, <1>7, <1>8, <2>3, <2>6 DEF Counted
  <2>8. Reported(n)'
    BY <1>3, <1>4, <1>7, <1>8, <2>3, <2>4, <2>6 DEF Reported
  <2> QED BY <1>5, <2>3, <2>4, <2>7, <2>8
<1>11. CASE LogNow(n)
  <2>1. /\ call[n] \in {"logSent", "logFailed"} /\ UNCHANGED mails /\ call'[n] \in {"done", "dropped"}
    BY <1>1, <1>11 DEF LogNow, CallTo, Shapes
  <2>2. ~Owed(n)' /\ ~Logging(n)'
    BY <1>1, <1>9, <2>1 DEF Owed, Live, Logging
  <2>3. /\ One(Owed(n)') = 0 /\ One(Logging(n)') = 0 /\ One(Owed(n)) \in Nat
        /\ One(HeldReport(n)') = One(HeldReport(n)) /\ One(HeldReport(n)) \in Nat
        /\ One(Logging(n)) = IF call[n] = "logSent" THEN 1 ELSE 0
    BY <1>7, <2>2 DEF One, Logging
  <2>4. mails'[n] = mails[n] /\ \A m \in Notices : mails'[m] = mails[m]
    BY <2>1
  <2>5. Counted(n)'
    BY <1>4, <1>7, <1>8, <2>3, <2>4 DEF Counted
  <2>6. CASE Fault("db") /\ UNCHANGED rows
    <3>1. faults' = faults + 1
      BY <1>1, <2>6, FaultCounts DEF Shapes
    <3>2. \A m \in Notices : Sent(m)' = Sent(m)
      BY <2>6, SentSame
    <3>3. Reported(n)'
      BY <1>3, <1>4, <1>7, <1>8, <2>3, <2>4, <3>1, <3>2 DEF Reported
    <3> QED BY <1>5, <2>4, <2>5, <3>2, <3>3
  <2>7. ASSUME NEW r, r = [status |-> IF call[n] = "logSent" THEN "sent" ELSE "failed", retryCount |-> 0],
               rows' = [rows EXCEPT ![n] = Append(@, r)]
        PROVE  \A m \in Notices : Counted(m)' /\ Reported(m)'
    <3>1. r \in Row /\ (r.status = "sent" <=> call[n] = "logSent")
      BY <2>1, <2>7, AttemptsAssumption DEF Row
    <3>2. /\ Sent(n)' = Sent(n) + One(r.status = "sent")
          /\ \A m \in Notices : m # n => Sent(m)' = Sent(m)
      BY <1>1, <2>7, <3>1, AppendedSent
    <3>3. Sent(n)' = Sent(n) + One(Logging(n)) /\ One(Logging(n)) \in Nat
      BY <2>3, <3>1, <3>2 DEF One
    <3>4. Reported(n)'
      BY <1>3, <1>4, <1>7, <1>8, <2>3, <2>4, <3>3 DEF Reported
    <3> QED BY <1>5, <2>4, <2>5, <3>2, <3>4
  <2>8. \/ Fault("db") /\ UNCHANGED rows
        \/ rows' = [rows EXCEPT ![n] =
                      Append(@, [status |-> IF call[n] = "logSent" THEN "sent" ELSE "failed", retryCount |-> 0])]
    BY <1>11 DEF LogNow
  <2> QED BY <2>6, <2>7, <2>8
<1> QED
  BY <1>6, <1>10, <1>11

\* The books hold of every state.
LEMMA BooksStep ==
    ASSUME BInv, PrefsOK, [Next]_vars
    PROVE  BInv'
<1>1. SInv'
  BY Structure DEF BInv
<1>2. ASSUME UNCHANGED <<config, call, job, slot, rows, mails, faults>>
      PROVE  \A m \in Notices : Counted(m)' /\ Reported(m)'
  <2> SUFFICES ASSUME NEW m \in Notices PROVE Counted(m)' /\ Reported(m)'
    OBVIOUS
  <2>1. Sent(m)' = Sent(m) /\ faults' >= faults /\ provider' = provider /\ Shapes'
    BY <1>1, <1>2, SentSame, Numbers DEF BInv, SInv, config
  <2>2. (Owed(m)' => Owed(m)) /\ (Logging(m)' <=> Logging(m))
    BY <1>2 DEF Owed, Live, Holds, Running, Logging
  <2> QED BY <1>2, <2>1, <2>2, SlotsSame, BooksSame
<1>3. CASE UserRoutes
  <2>1. UNCHANGED <<config, call, job, slot, rows, mails, faults>>
    BY <1>3 DEF UserRoutes, updateEmailPreferences, unsubscribe, resubscribe, Choose, ViewPreferences
  <2> QED BY <1>1, <1>2, <2>1 DEF BInv
<1>4. ASSUME NEW n \in Notices, Caller(n) \/ Promote(n) \/ Requeue(n) PROVE BInv'
  BY <1>1, <1>4, CallerBooks, QueueBooks DEF Caller, BInv
<1>5. ASSUME NEW w \in Slots, Execute(w) \/ Stall(w) \/ \E n \in Notices : Take(w, n) PROVE BInv'
  BY <1>1, <1>5, CreateRowBooks, CheckBooks, OtherRowBooks, SendBooks, ToldBooks, SettleBooks, StallBooks,
     TakeBooks DEF Execute, BInv
<1>6. CASE Crash
  BY <1>1, <1>6, CrashBooks DEF BInv
<1>7. CASE UNCHANGED vars
  <2>1. UNCHANGED <<config, call, job, slot, rows, mails, faults>>
    BY <1>7 DEF vars
  <2> QED BY <1>1, <1>2, <2>1 DEF BInv
<1> QED
  BY <1>3, <1>4, <1>5, <1>6, <1>7 DEF Next, Quiet

-----------------------------------------------------------------------------
(* The preferences.                                                        *)

\* What a step may do to the row of preferences: nothing, the user's choice,
\* or the defaults where there was none.
LEMMA PrefsMove ==
    ASSUME PrefsOK, [Next]_vars
    PROVE  /\ PrefsOK'
           /\ \/ prefs' = prefs /\ choices' = choices
              \/ choices' = choices + 1
              \/ ~prefs.exists /\ prefs' = Defaults /\ choices' = choices
<1> Defaults \in Prefs /\ Defaults.exists
  BY DEF Defaults, Prefs
<1>1. CASE UNCHANGED <<prefs, choices, viewer>>
  BY <1>1 DEF PrefsOK
<1>2. ASSUME NEW new \in Prefs, Choose(new)
      PROVE  PrefsOK' /\ choices' = choices + 1
  BY <1>2, BoundsAssumption DEF Choose, PrefsOK
<1>3. CASE UserRoutes
  <2>1. prefs.exists => prefs \in Prefs
    BY DEF PrefsOK, NoPrefs
  <2>2. ASSUME NEW off \in SUBSET Keys, updateEmailPreferences(off) PROVE PrefsOK' /\ choices' = choices + 1
    <3> DEFINE new == [exists |-> TRUE, off |-> off,
                       unsubscribed |-> IF prefs.exists THEN prefs.unsubscribed ELSE FALSE]
    <3>1. Choose(new)
      BY <2>2 DEF updateEmailPreferences
    <3>2. (IF prefs.exists THEN prefs.unsubscribed ELSE FALSE) \in BOOLEAN
      BY <2>1 DEF Prefs
    <3>3. new \in Prefs
      BY <3>2 DEF Prefs
    <3> HIDE DEF new
    <3> QED BY <1>2, <3>1, <3>3
  <2>3. CASE unsubscribe
    <3> DEFINE new == [exists |-> TRUE, off |-> IF prefs.exists THEN prefs.off ELSE {}, unsubscribed |-> TRUE]
    <3>1. Choose(new)
      BY <2>3 DEF unsubscribe
    <3>2. (IF prefs.exists THEN prefs.off ELSE {}) \in SUBSET Keys
      BY <2>1 DEF Prefs
    <3>3. new \in Prefs
      BY <3>2 DEF Prefs
    <3> HIDE DEF new
    <3> QED BY <1>2, <3>1, <3>3
  <2>4. CASE resubscribe
    <3> DEFINE new == [prefs EXCEPT !.unsubscribed = FALSE]
    <3>1. Choose(new) /\ prefs.exists
      BY <2>4 DEF resubscribe
    <3>2. new \in Prefs
      BY <2>1, <3>1 DEF Prefs
    <3> HIDE DEF new
    <3> QED BY <1>2, <3>1, <3>2
  <2>5. CASE ViewPreferences /\ UNCHANGED choices
    BY <2>5 DEF ViewPreferences, PrefsOK
  <2> QED BY <1>3, <2>2, <2>3, <2>4, <2>5 DEF UserRoutes
<1>4. ASSUME NEW n \in Notices, Caller(n) \/ Promote(n) \/ Requeue(n)
      PROVE  \/ UNCHANGED <<prefs, choices, viewer>>
             \/ ~prefs.exists /\ prefs' = Defaults /\ UNCHANGED <<choices, viewer>>
  BY <1>4 DEF Caller, sendNotification, CreateDefaults, Enqueue, SendNow, LogNow, Promote, Requeue, userVars
<1>5. ASSUME NEW w \in Slots, Execute(w) \/ Stall(w) \/ \E n \in Notices : Take(w, n)
      PROVE  UNCHANGED <<prefs, choices, viewer>>
  BY <1>5 DEF Execute, CreateRow, checkUserPreferences, SkipRow, Send, UpdateRow, FailRow, Resolve, Reject,
     Stall, Take, userVars
<1>6. CASE ~prefs.exists /\ prefs' = Defaults /\ UNCHANGED <<choices, viewer>>
  BY <1>6 DEF PrefsOK
<1>7. CASE Crash
  BY <1>7 DEF Crash, PrefsOK
<1>8. CASE UNCHANGED vars
  BY <1>1, <1>8 DEF vars, userVars
<1> QED
  BY <1>1, <1>3, <1>4, <1>5, <1>6, <1>7, <1>8 DEF Next, Quiet

\* Without a choice of the user, wanting a notice does not change.
LEMMA WantedStands ==
    ASSUME PrefsOK, [Next]_vars, choices' = choices, NEW n \in Notices, Wanted(n)
    PROVE  Wanted(n)'
<1>1. choices \in Nat
  BY BoundsAssumption DEF PrefsOK
<1>2. prefs' = prefs \/ prefs' = Defaults
  BY <1>1, PrefsMove
<1> QED
  BY <1>2 DEF Wanted, Defaults

\* A step of a worker that reads the preferences; the others read nothing.
LEMMA SendsWere ==
    ASSUME PInv, [Next]_vars, NEW w \in Slots, slot'[w].pc = "send"
    PROVE  \/ slot'[w].pc = slot[w].pc /\ slot'[w].for = slot[w].for /\ slot'[w].seen = slot[w].seen
              /\ (slot[w].blind => slot'[w].blind)
           \/ slot'[w].blind
           \/ slot'[w].for = slot[w].for /\ slot'[w].seen = choices /\ Wanted(slot[w].for) /\ prefs' = prefs
              /\ choices' = choices /\ slot[w].for \in Notices
<1>1. slot \in [Slots -> {Idle} \cup Execution] /\ (slot[w].pc # "idle" => slot[w] \in Execution)
  BY DEF PInv, Shapes, Idle
<1>2. CASE UNCHANGED slot
  BY <1>2
<1>3. CASE UserRoutes
  BY <1>2, <1>3 DEF UserRoutes, updateEmailPreferences, unsubscribe, resubscribe, Choose, ViewPreferences
<1>4. ASSUME NEW n \in Notices, Caller(n) \/ Promote(n) \/ Requeue(n) PROVE UNCHANGED slot
  BY <1>4 DEF Caller, sendNotification, CreateDefaults, Enqueue, SendNow, LogNow, Promote, Requeue
<1>5. ASSUME NEW v \in Slots, v # w, Execute(v) \/ Stall(v) \/ \E n \in Notices : Take(v, n)
      PROVE  slot'[w] = slot[w]
  BY <1>1, <1>5 DEF Execute, CreateRow, checkUserPreferences, SkipRow, Send, UpdateRow, FailRow, Resolve, Reject,
     Stall, Take, Goto
<1>6. ASSUME CreateRow(w) \/ SkipRow(w) \/ Send(w) \/ UpdateRow(w) \/ FailRow(w) PROVE FALSE
  <2>1. slot[w] \in Execution
    BY <1>1, <1>6 DEF CreateRow, SkipRow, Send, UpdateRow, FailRow, At
  <2>2. \E e \in Execution : e = slot[w] /\ slot' = [slot EXCEPT ![w] = slot'[w]]
        /\ slot'[w].pc \in {"check", "reject", "resolve", "fail", "update"}
    BY <1>1, <1>6, <2>1 DEF CreateRow, SkipRow, Send, UpdateRow, FailRow, Goto, Execution
  <2> QED BY <2>2
<1>7. Resolve(w) \/ Reject(w) \/ (\E n \in Notices : Take(w, n)) => FALSE
  BY <1>1 DEF Resolve, Reject, Take, Idle
<1>8. CASE Stall(w)
  <2>1. slot[w] \in Execution /\ slot'[w] = [slot[w] EXCEPT !.locked = FALSE]
    BY <1>1, <1>8 DEF Stall
  <2>2. /\ slot'[w].pc = slot[w].pc /\ slot'[w].for = slot[w].for /\ slot'[w].seen = slot[w].seen
        /\ slot'[w].blind = slot[w].blind
    BY <2>1 DEF Execution
  <2> QED BY <2>2
<1>9. CASE checkUserPreferences(w)
  <2>1. slot[w] \in Execution /\ UNCHANGED <<prefs, choices>>
    BY <1>1, <1>9 DEF checkUserPreferences, At, userVars
  <2>2. CASE slot' = [slot EXCEPT ![w] = [@ EXCEPT !.blind = TRUE, !.pc = "send"]]
    BY <1>1, <2>1, <2>2 DEF Execution
  <2>3. ASSUME NEW pc, pc = IF Wanted(slot[w].for) THEN "send" ELSE "skip",
               slot' = [slot EXCEPT ![w] = [@ EXCEPT !.seen = choices, !.pc = pc]]
        PROVE  slot'[w].for = slot[w].for /\ slot'[w].seen = choices /\ Wanted(slot[w].for)
    <3>1. slot'[w] = [slot[w] EXCEPT !.seen = choices, !.pc = pc]
      BY <1>1, <2>3
    <3>2. slot'[w].for = slot[w].for /\ slot'[w].seen = choices /\ slot'[w].pc = pc
      BY <2>1, <3>1 DEF Execution
    <3> QED BY <2>3, <3>2
  <2>4. slot[w].for \in Notices
    BY <2>1 DEF Execution
  <2>5. \/ slot' = [slot EXCEPT ![w] = [@ EXCEPT !.blind = TRUE, !.pc = "send"]]
        \/ slot' = [slot EXCEPT ![w] = [@ EXCEPT !.seen = choices,
                                                 !.pc = IF Wanted(slot[w].for) THEN "send" ELSE "skip"]]
    BY <1>9 DEF checkUserPreferences
  <2> QED BY <2>1, <2>2, <2>3, <2>4, <2>5
<1>10. Crash => FALSE
  BY DEF Crash, Idle
<1>11. CASE UNCHANGED vars
  BY <1>2, <1>11 DEF vars
<1> QED
  BY <1>2, <1>3, <1>4, <1>5, <1>6, <1>7, <1>8, <1>9, <1>10, <1>11 DEF Next, Execute, Quiet

\* What an attempt that sends the mail read is as old as it says.
LEMMA ReadsStand ==
    ASSUME PInv, Shapes', [Next]_vars, NEW w \in Slots
    PROVE  ReadOK(w)'
<1> SUFFICES ASSUME slot'[w].pc = "send", ~slot'[w].blind
             PROVE  slot'[w].seen <= choices' /\ (slot'[w].seen = choices' => Wanted(slot[w].for)')
  BY DEF ReadOK
<1>1. PrefsOK /\ ReadOK(w) /\ choices \in Nat
  BY BoundsAssumption DEF PInv, PrefsOK
<1>2. slot'[w].for \in Notices /\ slot'[w].seen \in Nat
  BY DEF Shapes, Idle, Execution
<1>3. choices' = choices \/ choices' = choices + 1
  BY <1>1, PrefsMove
<1>4. PICK n \in Notices : n = slot'[w].for
  BY <1>2
<1>5. CASE slot'[w].for = slot[w].for /\ slot'[w].seen = choices /\ Wanted(slot[w].for) /\ prefs' = prefs
           /\ choices' = choices
  BY <1>1, <1>2, <1>5 DEF Wanted
<1>6. CASE slot'[w].pc = slot[w].pc /\ slot'[w].for = slot[w].for /\ slot'[w].seen = slot[w].seen
           /\ (slot[w].blind => slot'[w].blind)
  <2>1. slot[w].seen <= choices /\ (slot[w].seen = choices => Wanted(n))
    BY <1>1, <1>4, <1>6 DEF ReadOK
  <2>2. choices' = choices => (Wanted(n) => Wanted(n)')
    BY <1>1, WantedStands
  <2>3. Wanted(slot[w].for)' <=> Wanted(n)'
    BY <1>4 DEF Wanted
  <2>4. slot'[w].seen <= choices'
    BY <1>1, <1>2, <1>3, <1>6, <2>1
  <2>5. slot'[w].seen = choices' => choices' = choices /\ slot[w].seen = choices
    BY <1>1, <1>2, <1>3, <1>6, <2>1
  <2> QED BY <2>1, <2>2, <2>3, <2>4, <2>5
<1> QED
  BY <1>5, <1>6, SendsWere

\* A notification survives: the maker of the first row of preferences does.
LEMMA FirstStands ==
    ASSUME PInv, SInv, [Next]_vars
    PROVE  FirstOK'
<1>1. /\ call \in [Notices -> {"idle", "create", "queue", "logSent", "logFailed", "done", "dropped"}]
      /\ faults \in Nat /\ choices \in Nat /\ viewer \in {"idle", "create", "done"}
  BY BoundsAssumption DEF PInv, PrefsOK, Shapes
<1> DEFINE Past(pc) == pc \in {"queue", "logSent", "logFailed", "done"}
<1>2. SUFFICES ASSUME faults' = 0, choices' = 0, viewer' = "idle"
               PROVE  IF prefs'.exists THEN \E n \in Notices : Past(call'[n])
                      ELSE \A n \in Notices : call'[n] \in {"idle", "create"}
  BY DEF FirstOK
<1>3. \A kind : ~Fault(kind)
  BY <1>1, <1>2 DEF Fault
<1>4. FirstOK
  BY DEF PInv
<1>5. CASE UNCHANGED <<prefs, choices, viewer, call, faults>>
  BY <1>2, <1>4, <1>5 DEF FirstOK
<1>6. CASE UserRoutes
  <2>1. ASSUME NEW new, Choose(new) PROVE FALSE
    BY <1>1, <1>2, <2>1 DEF Choose
  <2>2. ~ViewPreferences
    BY <1>2 DEF ViewPreferences
  <2> QED BY <1>6, <2>1, <2>2 DEF UserRoutes, updateEmailPreferences, unsubscribe, resubscribe
<1>7. ASSUME NEW n \in Notices, Caller(n)
      PROVE  IF prefs'.exists THEN \E m \in Notices : Past(call'[m])
             ELSE \A m \in Notices : call'[m] \in {"idle", "create"}
  <2>1. UNCHANGED <<choices, viewer>> /\ \A m \in Notices : m # n => call'[m] = call[m]
    BY <1>1, <1>7 DEF Caller, sendNotification, CreateDefaults, Enqueue, SendNow, LogNow, CallTo, userVars
  <2>2. faults = 0
    BY <1>1, <1>2, <1>3, <1>7 DEF Caller, sendNotification, CreateDefaults, Enqueue, SendNow, LogNow, sendEmail
  <2>3. IF prefs.exists THEN \E m \in Notices : Past(call[m])
        ELSE \A m \in Notices : call[m] \in {"idle", "create"}
    BY <1>2, <1>4, <2>1, <2>2 DEF FirstOK
  <2>4. \/ prefs' = prefs /\ Past(call[n]) /\ Past(call'[n])
        \/ prefs' = prefs /\ call[n] \in {"idle", "create"} /\ prefs.exists
        \/ prefs' = prefs /\ call'[n] = "create" /\ ~prefs.exists
        \/ prefs' = Defaults /\ Past(call'[n])
    BY <1>1, <1>3, <1>7
       DEF Caller, sendNotification, CreateDefaults, Enqueue, SendNow, LogNow, CallTo, userVars
  <2> QED BY <2>1, <2>3, <2>4 DEF Defaults
<1>8. ASSUME NEW n \in Notices, Promote(n) \/ Requeue(n) PROVE UNCHANGED <<prefs, choices, viewer, call, faults>>
  BY <1>8 DEF Promote, Requeue, userVars
<1>9. ASSUME NEW w \in Slots, Execute(w) \/ Stall(w) \/ \E n \in Notices : Take(w, n)
      PROVE  UNCHANGED <<prefs, choices, viewer, call, faults>>
  BY <1>3, <1>9, <1>1, <1>2 DEF Execute, CreateRow, checkUserPreferences, SkipRow, Send, UpdateRow, FailRow,
     Resolve, Reject, Stall, Take, sendEmail, userVars
<1>10. ~Crash
  BY <1>3 DEF Crash
<1>11. CASE UNCHANGED vars
  BY <1>5, <1>11 DEF vars, userVars
<1> QED
  BY <1>2, <1>5, <1>6, <1>7, <1>8, <1>9, <1>10, <1>11 DEF Next, Quiet

-----------------------------------------------------------------------------
\* Everything the theorems below need.
NInv == BInv /\ PInv

\* The initial states keep the books.
LEMMA NInvInit == Init => NInv
<1> SUFFICES ASSUME Init PROVE NInv
  OBVIOUS
<1>1. /\ slot = [w \in Slots |-> Idle] /\ job = [n \in Notices |-> NoJob] /\ call = [n \in Notices |-> "idle"]
      /\ rows = [n \in Notices |-> <<>>] /\ mails = [n \in Notices |-> 0] /\ faults = 0
      /\ redis \in {"unset", "up"} /\ provider \in {"disabled", "on"}
  BY ModeAssumption DEF Init
<1>2. Shapes
  BY <1>1, BoundsAssumption, EmptySeq DEF Shapes
<1>3. \A w \in Slots : ~Running(w)
  BY <1>1 DEF Running, Idle
<1>4. \A n \in Notices : CallOK(n) /\ Logged(n)
  BY <1>1 DEF CallOK, Logged, Live, NoJob
<1>5. SInv
  BY <1>2, <1>3, <1>4 DEF SInv, LockOK, OneHolder, Holds, RowsApart
<1>6. ASSUME NEW n \in Notices PROVE Counted(n) /\ Reported(n)
  <2>1. Strays(n) = {} /\ Reporting(n) = {} /\ SentRows(n) = {}
    BY <1>1 DEF Strays, Reporting, SentRows, At, Idle
  <2>2. Astray(n) = 0 /\ Unreported(n) = 0 /\ Sent(n) = 0
    BY <1>2, <2>1, FS_EmptySet, Numbers DEF Astray, Unreported
  <2>3. ~HeldReport(n) /\ ~Logging(n) /\ One(Owed(n)) \in {0, 1}
    BY <1>1, <2>1 DEF HeldReport, Logging, One
  <2>4. mails[n] = 0
    BY <1>1
  <2> QED BY <1>1, <2>2, <2>3, <2>4 DEF Counted, Reported, One
<1>7. PrefsOK
  BY BoundsAssumption DEF Init, PrefsOK
<1>8. FirstOK
  BY DEF Init, FirstOK, NoPrefs
<1>9. \A w \in Slots : ReadOK(w)
  BY <1>1 DEF ReadOK, Idle
<1> QED
  BY <1>2, <1>5, <1>6, <1>7, <1>8, <1>9 DEF NInv, BInv, PInv

\* Every step keeps them.
LEMMA NInvNext == NInv /\ [Next]_vars => NInv'
<1> SUFFICES ASSUME NInv, [Next]_vars PROVE NInv'
  OBVIOUS
<1>1. BInv'
  BY BooksStep DEF NInv, PInv
<1>2. Shapes'
  BY <1>1 DEF BInv, SInv
<1>3. PrefsOK'
  BY PrefsMove DEF NInv, PInv
<1>4. FirstOK' /\ \A w \in Slots : ReadOK(w)'
  BY <1>2, FirstStands, ReadsStand DEF NInv, BInv
<1> QED
  BY <1>1, <1>2, <1>3, <1>4 DEF NInv, PInv

\* They hold always.
LEMMA NInvAlways == Spec => []NInv
BY NInvInit, NInvNext, PTL DEF Spec

\* A notice is mailed once, once more per fault at most; one of the notices
\* survives the race for the first row of preferences; and a completed job has
\* a row that says how it ended: whatever callers, worker slots, the lock's
\* loss, restarts and the user's changes do.
THEOREM NoticesAreKept == Spec => []NoticeInv
<1>1. NInv => NoticeInv
  <2> SUFFICES ASSUME NInv PROVE NoticeInv
    OBVIOUS
  <2>1. TypeOK
    BY DEF NInv, PInv, PrefsOK, Shapes, TypeOK
  <2>2. RepeatsNeedFaults
    <3> SUFFICES ASSUME NEW n \in Notices PROVE mails[n] <= 1 + faults
      BY DEF RepeatsNeedFaults
    <3>1. Astray(n) \in Nat /\ mails[n] \in Nat /\ faults \in Nat /\ Counted(n)
      BY Numbers DEF NInv, BInv, SInv
    <3>2. One(Owed(n)) \in Nat
      BY DEF One
    <3> QED BY <3>1, <3>2 DEF Counted
  <2>3. SomeNoticeSurvives
    BY DEF NInv, PInv, FirstOK, SomeNoticeSurvives, Ended
  <2>4. CompletedIsLogged
    BY DEF NInv, BInv, SInv, Logged, CompletedIsLogged
  <2> QED BY <2>1, <2>2, <2>3, <2>4 DEF NoticeInv
<1> QED
  BY <1>1, NInvAlways, PTL

\* The statistics never claim more mails than left, and claim less only by
\* mails under way and by faults.
THEOREM StatisticsTellMails == Spec => []StatsTellMails
<1>1. NInv => StatsTellMails
  <2> SUFFICES ASSUME NInv, provider = "on", NEW n \in Notices
               PROVE  /\ Sent(n) <= mails[n]
                      /\ mails[n] <= Sent(n) + faults
                                     + Cardinality({w \in Slots : At(w, "update") /\ slot[w].for = n})
                                     + (IF call[n] = "logSent" THEN 1 ELSE 0)
    BY DEF StatsTellMails
  <2> DEFINE Updating == {w \in Slots : At(w, "update") /\ slot[w].for = n}
  <2>1. /\ Astray(n) \in Nat /\ Unreported(n) \in Nat /\ Sent(n) \in Nat /\ mails[n] \in Nat /\ faults \in Nat
        /\ Reported(n)
    BY Numbers DEF NInv, BInv, SInv
  <2>2. IsFiniteSet(Updating) /\ Cardinality(Updating) \in Nat
    BY SlotAssumption, FS_Subset, FS_CardinalityType
  <2>3. One(HeldReport(n)) <= Cardinality(Updating) /\ One(HeldReport(n)) \in Nat
    <3>1. HeldReport(n) => Updating # {}
      BY DEF HeldReport, Reporting
    <3>2. Updating # {} => Cardinality(Updating) # 0
      BY <2>2, FS_EmptySet
    <3> QED BY <2>2, <3>1, <3>2 DEF One
  <2>4. One(Logging(n)) = IF call[n] = "logSent" THEN 1 ELSE 0
    BY DEF One, Logging
  <2> HIDE DEF Updating
  <2>5. /\ Sent(n) + Unreported(n) + One(Logging(n)) <= mails[n]
        /\ mails[n] + Astray(n) <= Sent(n) + faults + One(HeldReport(n)) + One(Logging(n))
    BY <2>1 DEF Reported
  <2>6. /\ Sent(n) <= mails[n]
        /\ mails[n] <= Sent(n) + faults + Cardinality(Updating) + (IF call[n] = "logSent" THEN 1 ELSE 0)
    BY <2>1, <2>2, <2>3, <2>4, <2>5
  <2> QED BY <2>6 DEF Updating
<1> QED
  BY <1>1, NInvAlways, PTL

\* With a queue, a mail against the user's wishes left on a reading that was
\* older than the user's last choice, or that failed.
THEOREM OptOutsAreHonoured == Spec => OptOutHonoured
<1>1. NInv /\ [Next]_vars =>
        [\A n \in Notices : mails'[n] # mails[n] /\ redis = "up" =>
            \/ Wanted(n)
            \/ \E w \in Slots : /\ At(w, "send") /\ slot[w].for = n
                                /\ slot[w].seen < choices \/ slot[w].blind]_vars
  <2> SUFFICES ASSUME NInv, [Next]_vars, NEW n \in Notices, mails'[n] # mails[n], redis = "up"
               PROVE  \/ Wanted(n)
                      \/ \E w \in Slots : /\ At(w, "send") /\ slot[w].for = n
                                          /\ slot[w].seen < choices \/ slot[w].blind
    OBVIOUS
  <2>1. SInv /\ Shapes /\ PInv /\ PrefsOK
    BY DEF NInv, BInv, SInv, PInv
  <2>2. \/ \E m \in Notices : SendNow(m)
        \/ \E w \in Slots : Send(w)
    BY DEF Next, Quiet, UserRoutes, updateEmailPreferences, unsubscribe, resubscribe, Choose, ViewPreferences,
       Caller, sendNotification, CreateDefaults, Enqueue, LogNow, Promote, Requeue, Execute, CreateRow,
       checkUserPreferences, SkipRow, UpdateRow, FailRow, Resolve, Reject, Stall, Take, Crash, vars
  <2>3. PICK w \in Slots : Send(w)
    BY <2>2 DEF SendNow
  <2>4. PICK ok \in BOOLEAN : sendEmail(slot[w].for, ok)
    BY <2>3 DEF Send
  <2>5. slot[w].for \in Notices
    BY <2>1, <2>3, RunningIs DEF Send, At, Running
  <2>6. slot[w].for = n
    BY <2>1, <2>4, <2>5, SendMails
  <2>7. At(w, "send") /\ ReadOK(w) /\ choices \in Nat
    BY <2>1, <2>3, BoundsAssumption DEF Send, PInv, PrefsOK
  <2>8. slot[w].seen \in Nat
    BY <2>1, <2>7 DEF Shapes, At, Idle, Execution
  <2> QED BY <2>6, <2>7, <2>8 DEF ReadOK, At
<1> QED
  BY <1>1, NInvAlways, PTL DEF Spec, OptOutHonoured

\* Nothing but the user's own routes writes over the user's choice.
THEOREM ChoicesDoStand == Spec => ChoicesStand
<1>1. NInv /\ [Next]_vars => [prefs.exists /\ prefs' # prefs => choices' > choices]_vars
  <2> SUFFICES ASSUME NInv, [Next]_vars, prefs.exists, prefs' # prefs PROVE choices' > choices
    OBVIOUS
  <2>1. PrefsOK /\ choices \in Nat
    BY BoundsAssumption DEF NInv, PInv, PrefsOK
  <2>2. choices' = choices + 1
    BY <2>1, PrefsMove
  <2> QED BY <2>1, <2>2
<1> QED
  BY <1>1, NInvAlways, PTL DEF Spec, ChoicesStand
=============================================================================
