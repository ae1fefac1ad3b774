---------------------------- MODULE Notifications ----------------------------
(***************************************************************************)
(* Notifications by e-mail to one user: the service                        *)
(* scripts/services/notification.service.ts, the queue and its worker in   *)
(* email-queue.service.ts, the provider behind email.service.ts, the       *)
(* preferences the user changes through routes/notifications.routes.ts,    *)
(* and the EmailLog rows.  BullMQ is external and modelled from how the    *)
(* service configures it.  Calls and worker executions are split at their  *)
(* awaits.                                                                 *)
(*                                                                         *)
(* Faults, with a budget for all of them: a database statement fails; the  *)
(* provider refuses a mail, or accepts it and its answer is lost; a worker *)
(* loses the lock of its job; the process restarts.                        *)
(***************************************************************************)
EXTENDS Naturals, Sequences, FiniteSets

CONSTANTS
    Notices,        \* calls of the service's send... methods, all for one user
    TypeOf,         \* notice -> template type
    RedisModes,     \* a set of "unset" (no REDIS_URL) and "up"
    Providers,      \* a set of "disabled" (no EMAIL_PROVIDER) and "on"
    AuthMounted,    \* whether something before the routes sets req.userId, as they
                    \* assume (app.ts mounts nothing that does)
    Slots,          \* the worker's concurrent executions (5 in the code), numbers
    MaxAttempts,    \* MAX_RETRY_ATTEMPTS
    FaultKinds,     \* which of "db", "provider", "stall", "crash" may happen
    MaxFaults,      \* bound: how many of them happen
    MaxChoices      \* bound: changes the user makes to the preferences

PrefKey == [welcome                        |-> "welcomeEmails",
            verification_success           |-> "verificationUpdates",
            verification_failure           |-> "verificationUpdates",
            verification_pending           |-> "verificationUpdates",
            platform_binding               |-> "platformBindingConfirmations",
            transaction_notification       |-> "transactionNotifications",
            security_alert_login           |-> "securityAlerts",
            security_alert_password_change |-> "securityAlerts"]

Types == DOMAIN PrefKey

ASSUME TypeAssumption == TypeOf \in [Notices -> Types]
ASSUME ModeAssumption == RedisModes \subseteq {"unset", "up"} /\ Providers \subseteq {"disabled", "on"}
ASSUME AuthAssumption == AuthMounted \in BOOLEAN
ASSUME SlotAssumption == Slots \subseteq Nat /\ IsFiniteSet(Slots)
ASSUME AttemptsAssumption == MaxAttempts \in Nat \ {0}
ASSUME BoundsAssumption == MaxFaults \in Nat /\ MaxChoices \in Nat

VARIABLES
    redis, provider,    \* the configuration the process finds; never changes
    prefs,              \* the user's EmailPreferences row
    choices,            \* preference changes made so far
    viewer,             \* where a GET /preferences is
    call,               \* notice -> where its sendNotification is
    job,                \* notice -> BullMQ's record of its job
    slot,               \* worker slot -> execution in it
    rows,               \* notice -> its EmailLog rows, oldest first
    mails,              \* notice -> mails the provider has accepted
    faults

config   == <<redis, provider>>
userVars == <<prefs, choices, viewer>>
vars == <<config, userVars, call, job, slot, rows, mails, faults>>

\* getPriority: BullMQ takes the job with the smallest number first.
Priority(n) ==
    IF PrefKey[TypeOf[n]] = "securityAlerts" THEN 1
    ELSE IF PrefKey[TypeOf[n]] \in {"verificationUpdates", "transactionNotifications"} THEN 5
    ELSE 10

NoPrefs == [exists |-> FALSE]
Defaults == [exists |-> TRUE, off |-> {}, unsubscribed |-> FALSE]
Keys == {PrefKey[TypeOf[n]] : n \in Notices}
Prefs == [exists : {TRUE}, off : SUBSET Keys, unsubscribed : BOOLEAN]

Row == [status : {"queued", "sent", "failed", "skipped"}, retryCount : 0 .. MaxAttempts]

NoJob == [state |-> "none"]
Job == [state : {"waiting", "active", "delayed", "completed", "failed"},
        made : 0 .. MaxAttempts, stalled : 0 .. 2]

Idle == [pc |-> "idle"]
Execution == [pc : {"create", "check", "skip", "send", "update", "fail", "resolve", "reject"},
              for : Notices, row : Nat, made : 0 .. MaxAttempts, ok : BOOLEAN,
              seen : 0 .. MaxChoices, blind : BOOLEAN, locked : BOOLEAN]

Init ==
    /\ redis \in RedisModes
    /\ provider \in Providers
    /\ prefs = NoPrefs
    /\ choices = 0
    /\ viewer = "idle"
    /\ call = [n \in Notices |-> "idle"]
    /\ job = [n \in Notices |-> NoJob]
    /\ slot = [w \in Slots |-> Idle]
    /\ rows = [n \in Notices |-> <<>>]
    /\ mails = [n \in Notices |-> 0]
    /\ faults = 0

Fault(kind) ==
    /\ kind \in FaultKinds
    /\ faults < MaxFaults
    /\ faults' = faults + 1

-----------------------------------------------------------------------------
(***************************************************************************)
(* The user's preferences                                                  *)
(***************************************************************************)

Choose(new) ==
    /\ choices < MaxChoices
    /\ choices' = choices + 1
    /\ prefs' = new
    /\ UNCHANGED <<config, viewer, call, job, slot, rows, mails, faults>>

\* upsert: fields the request leaves out keep their value
updateEmailPreferences(off) ==
    Choose([exists |-> TRUE, off |-> off,
            unsubscribed |-> IF prefs.exists THEN prefs.unsubscribed ELSE FALSE])

unsubscribe ==
    Choose([exists |-> TRUE, off |-> IF prefs.exists THEN prefs.off ELSE {},
            unsubscribed |-> TRUE])

\* update, which throws when there is no row
resubscribe == prefs.exists /\ Choose([prefs EXCEPT !.unsubscribed = FALSE])

\* GET /preferences reads the row and creates it, in a second statement,
\* when there is none; the create throws when the row has appeared meanwhile.
ViewPreferences ==
    \/ /\ viewer = "idle"
       /\ AuthMounted
       /\ viewer' = IF prefs.exists THEN "done" ELSE "create"
       /\ UNCHANGED <<prefs, faults>>
    \/ /\ viewer = "create"
       /\ viewer' = "done"
       /\ prefs' = IF prefs.exists THEN prefs ELSE Defaults
       /\ UNCHANGED faults

\* Of the routes only POST /unsubscribe works without authentication.
UserRoutes ==
    \/ AuthMounted /\ \E off \in SUBSET Keys : updateEmailPreferences(off)
    \/ unsubscribe
    \/ AuthMounted /\ resubscribe
    \/ ViewPreferences /\ UNCHANGED <<config, choices, call, job, slot, rows, mails>>

Wanted(n) ==
    prefs.exists => ~prefs.unsubscribed /\ PrefKey[TypeOf[n]] \notin prefs.off

-----------------------------------------------------------------------------
(***************************************************************************)
(* sendNotification and queueEmail                                         *)
(***************************************************************************)

CallTo(n, pc) == call' = [call EXCEPT ![n] = pc]

\* Every send... method hands its type and data to sendNotification, which
\* looks for the preferences first.
sendNotification(n) ==
    /\ call[n] = "idle"
    /\ \/ CallTo(n, IF prefs.exists THEN "queue" ELSE "create") /\ UNCHANGED faults
       \/ Fault("db") /\ CallTo(n, "dropped")
    /\ UNCHANGED <<config, userVars, job, slot, rows, mails>>

\* Mutant of CreateDefaults: an upsert that resets an existing row.
CreateDefaultsReset(n) ==
    /\ call[n] = "create"
    /\ prefs' = Defaults
    /\ CallTo(n, "queue")
    /\ UNCHANGED <<config, choices, viewer, job, slot, rows, mails, faults>>

\* userId is unique: the create throws when someone else has made the row
\* since, and the catch block drops the notification.
CreateDefaults(n) ==
    /\ call[n] = "create"
    /\ \/ ~prefs.exists /\ prefs' = Defaults /\ CallTo(n, "queue") /\ UNCHANGED faults
       \/ prefs.exists /\ CallTo(n, "dropped") /\ UNCHANGED <<prefs, faults>>
       \/ Fault("db") /\ CallTo(n, "dropped") /\ UNCHANGED prefs
    /\ UNCHANGED <<config, choices, viewer, job, slot, rows, mails>>

\* queue.add
Enqueue(n) ==
    /\ call[n] = "queue"
    /\ redis = "up"
    /\ job' = [job EXCEPT ![n] = [state |-> "waiting", made |-> 0, stalled |-> 0]]
    /\ CallTo(n, "done")
    /\ UNCHANGED <<config, userVars, slot, rows, mails, faults>>

\* sendEmail for a notice, with what it reports.  A disabled provider sends
\* nothing and reports success; an exception is reported, not thrown.
\* (initialize, which throws, has been called before: createApp awaits it, and
\* without it nothing listens.)
sendEmail(n, ok) ==
    \/ /\ ok
       /\ mails' = [mails EXCEPT ![n] = IF provider = "on" THEN @ + 1 ELSE @]
       /\ UNCHANGED faults
    \/ /\ ~ok
       /\ provider = "on"
       /\ Fault("provider")
       /\ \/ UNCHANGED mails
          \/ mails' = [mails EXCEPT ![n] = @ + 1]

\* Without a queue the mail is sent at once; nothing asks the preferences.
SendNow(n) ==
    /\ call[n] = "queue"
    /\ redis = "unset"
    /\ \E ok \in BOOLEAN : sendEmail(n, ok) /\ CallTo(n, IF ok THEN "logSent" ELSE "logFailed")
    /\ UNCHANGED <<config, userVars, job, slot, rows>>

LogNow(n) ==
    /\ call[n] \in {"logSent", "logFailed"}
    /\ \/ /\ rows' = [rows EXCEPT ![n] =
                        Append(@, [status |-> IF call[n] = "logSent" THEN "sent" ELSE "failed",
                                   retryCount |-> 0])]
          /\ CallTo(n, "done")
          /\ UNCHANGED faults
       \/ Fault("db") /\ CallTo(n, "dropped") /\ UNCHANGED rows
    /\ UNCHANGED <<config, userVars, job, slot, mails>>

Caller(n) == sendNotification(n) \/ CreateDefaults(n) \/ Enqueue(n) \/ SendNow(n) \/ LogNow(n)

-----------------------------------------------------------------------------
(***************************************************************************)
(* processEmailJob, in slot w                                              *)
(***************************************************************************)

At(w, pc) == slot[w].pc = pc
Goto(w, pc) == slot' = [slot EXCEPT ![w] = [@ EXCEPT !.pc = pc]]
SetRow(w, status) ==
    rows' = [rows EXCEPT ![slot[w].for][slot[w].row].status = status]

\* The worker takes a waiting job into a free slot; which one makes no
\* difference, so it is the first.
Take(w, n) ==
    /\ At(w, "idle")
    /\ \A v \in Slots : v < w => ~At(v, "idle")
    /\ job[n].state = "waiting"
    /\ \A o \in Notices : job[o].state = "waiting" => Priority(n) <= Priority(o)
    /\ job' = [job EXCEPT ![n] = [@ EXCEPT !.state = "active"]]
    /\ slot' = [slot EXCEPT ![w] =
                  [pc |-> "create", for |-> n, row |-> 0, made |-> job[n].made, ok |-> FALSE,
                   seen |-> 0, blind |-> FALSE, locked |-> TRUE]]
    /\ UNCHANGED <<config, userVars, call, rows, mails, faults>>

\* A row per attempt, created outside the try block.
CreateRow(w) ==
    LET e == slot[w] IN
    /\ At(w, "create")
    /\ \/ /\ rows' = [rows EXCEPT ![e.for] =
                        Append(@, [status |-> "queued", retryCount |-> e.made])]
          /\ slot' = [slot EXCEPT ![w] = [@ EXCEPT !.pc = "check", !.row = Len(rows[e.for]) + 1]]
          /\ UNCHANGED faults
       \/ Fault("db") /\ Goto(w, "reject") /\ UNCHANGED rows
    /\ UNCHANGED <<config, userVars, call, job, mails>>

\* Mutant of checkUserPreferences: the global opt-out is forgotten.
checkUserPreferencesKeysOnly(w) ==
    /\ At(w, "check")
    /\ slot' = [slot EXCEPT ![w] = [@ EXCEPT !.seen = choices,
                                             !.pc = IF PrefKey[TypeOf[slot[w].for]] \in prefs.off
                                                    THEN "skip" ELSE "send"]]
    /\ UNCHANGED <<config, userVars, call, job, rows, mails, faults>>

\* A failing look-up counts as consent.
checkUserPreferences(w) ==
    /\ At(w, "check")
    /\ \/ /\ slot' = [slot EXCEPT ![w] = [@ EXCEPT !.seen = choices,
                                                !.pc = IF Wanted(slot[w].for) THEN "send" ELSE "skip"]]
          /\ UNCHANGED faults
       \/ /\ Fault("db")
          /\ slot' = [slot EXCEPT ![w] = [@ EXCEPT !.blind = TRUE, !.pc = "send"]]
    /\ UNCHANGED <<config, userVars, call, job, rows, mails>>

SkipRow(w) ==
    /\ At(w, "skip")
    /\ \/ SetRow(w, "skipped") /\ Goto(w, "resolve") /\ UNCHANGED faults
       \/ Fault("db") /\ Goto(w, "fail") /\ UNCHANGED rows
    /\ UNCHANGED <<config, userVars, call, job, mails>>

\* Mutant of Send: the row is marked before the provider answers.
SendMarking(w) ==
    /\ At(w, "send")
    /\ \E ok \in BOOLEAN :
          /\ sendEmail(slot[w].for, ok)
          /\ slot' = [slot EXCEPT ![w] = [@ EXCEPT !.pc = IF ok THEN "update" ELSE "fail", !.ok = ok]]
    /\ SetRow(w, "sent")
    /\ UNCHANGED <<config, userVars, call, job>>

Send(w) ==
    /\ At(w, "send")
    /\ \E ok \in BOOLEAN :
          /\ sendEmail(slot[w].for, ok)
          /\ slot' = [slot EXCEPT ![w] = [@ EXCEPT !.pc = "update", !.ok = ok,
                                                !.seen = 0, !.blind = FALSE]]
    /\ UNCHANGED <<config, userVars, call, job, rows>>

\* Mutant of UpdateRow: the test that throws is inverted.
UpdateRowInverted(w) ==
    /\ At(w, "update")
    /\ SetRow(w, IF slot[w].ok THEN "sent" ELSE "failed")
    /\ Goto(w, IF slot[w].ok THEN "fail" ELSE "resolve")
    /\ UNCHANGED <<config, userVars, call, job, mails, faults>>

\* A mail that was not sent throws, after the row says so.
UpdateRow(w) ==
    /\ At(w, "update")
    /\ \/ /\ SetRow(w, IF slot[w].ok THEN "sent" ELSE "failed")
          /\ Goto(w, IF slot[w].ok THEN "resolve" ELSE "fail")
          /\ UNCHANGED faults
       \/ Fault("db") /\ Goto(w, "fail") /\ UNCHANGED rows
    /\ UNCHANGED <<config, userVars, call, job, mails>>

\* The catch block, which rethrows.
FailRow(w) ==
    /\ At(w, "fail")
    /\ Goto(w, "reject")
    /\ \/ SetRow(w, "failed") /\ UNCHANGED faults
       \/ Fault("db") /\ UNCHANGED rows
    /\ UNCHANGED <<config, userVars, call, job, mails>>

-----------------------------------------------------------------------------
(***************************************************************************)
(* BullMQ and the process                                                  *)
(***************************************************************************)

\* The outcome only counts while the execution holds the job's lock.
Resolve(w) ==
    /\ At(w, "resolve")
    /\ job' = IF slot[w].locked THEN [job EXCEPT ![slot[w].for] = [@ EXCEPT !.state = "completed"]] ELSE job
    /\ slot' = [slot EXCEPT ![w] = Idle]
    /\ UNCHANGED <<config, userVars, call, rows, mails, faults>>

Retried(j, made) ==
    [j EXCEPT !.made = @ + 1, !.state = IF made + 1 < MaxAttempts THEN "delayed" ELSE "failed"]

Reject(w) ==
    LET e == slot[w] IN
    /\ At(w, "reject")
    /\ job' = IF ~e.locked THEN job
              ELSE [job EXCEPT ![e.for] = Retried(@, e.made)]
    /\ slot' = [slot EXCEPT ![w] = Idle]
    /\ UNCHANGED <<config, userVars, call, rows, mails, faults>>

Promote(n) ==
    /\ job[n].state = "delayed"
    /\ job' = [job EXCEPT ![n] = [@ EXCEPT !.state = "waiting"]]
    /\ UNCHANGED <<config, userVars, call, slot, rows, mails, faults>>

Stall(w) ==
    /\ slot[w].pc # "idle"
    /\ slot[w].locked
    /\ Fault("stall")
    /\ slot' = [slot EXCEPT ![w] = [@ EXCEPT !.locked = FALSE]]
    /\ UNCHANGED <<config, userVars, call, job, rows, mails>>

\* A job whose lock nobody holds waits again, once; then it fails.
Requeued(j) ==
    [j EXCEPT !.stalled = @ + 1, !.state = IF j.stalled = 0 THEN "waiting" ELSE "failed"]

Requeue(n) ==
    /\ job[n].state = "active"
    /\ \A w \in Slots : slot[w].pc # "idle" /\ slot[w].for = n => ~slot[w].locked
    /\ job' = [job EXCEPT ![n] = Requeued(@)]
    /\ UNCHANGED <<config, userVars, call, slot, rows, mails, faults>>

Crash ==
    /\ Fault("crash")
    /\ slot' = [w \in Slots |-> Idle]
    /\ call' = [n \in Notices |-> IF call[n] \in {"idle", "done"} THEN call[n] ELSE "dropped"]
    /\ viewer' = "idle"
    /\ UNCHANGED <<config, prefs, choices, job, rows, mails>>

Execute(w) ==
    \/ CreateRow(w) \/ checkUserPreferences(w) \/ SkipRow(w) \/ Send(w) \/ UpdateRow(w)
    \/ FailRow(w) \/ Resolve(w) \/ Reject(w)

Ended == call \in [Notices -> {"done", "dropped"}]
Settled(n) == job[n].state \in {"none", "completed", "failed"}

\* Everything has been sent or given up and the user is content.
Quiet ==
    /\ Ended
    /\ \A n \in Notices : Settled(n)
    /\ \A w \in Slots : At(w, "idle")
    /\ UNCHANGED vars

Next ==
    \/ UserRoutes
    \/ \E n \in Notices : Caller(n) \/ Promote(n) \/ Requeue(n)
    \/ \E w \in Slots : Execute(w) \/ Stall(w) \/ \E n \in Notices : Take(w, n)
    \/ Crash
    \/ Quiet

Spec == Init /\ [][Next]_vars

-----------------------------------------------------------------------------
(***************************************************************************)
(* Properties                                                              *)
(***************************************************************************)

TypeOK ==
    /\ redis \in {"unset", "up"}
    /\ provider \in {"disabled", "on"}
    /\ prefs \in {NoPrefs} \cup Prefs
    /\ choices \in 0 .. MaxChoices
    /\ viewer \in {"idle", "create", "done"}
    /\ call \in [Notices -> {"idle", "create", "queue", "logSent", "logFailed", "done", "dropped"}]
    /\ job \in [Notices -> {NoJob} \cup Job]
    /\ slot \in [Slots -> {Idle} \cup Execution]
    /\ rows \in [Notices -> Seq(Row)]
    /\ mails \in [Notices -> Nat]
    /\ faults \in 0 .. MaxFaults

\* With a queue, a mail leaves against the user's wishes only if they
\* changed after this attempt had read them, or reading them failed.
\* (Without a queue they are not read at all.)
OptOutHonoured ==
    [][\A n \in Notices : mails'[n] # mails[n] /\ redis = "up" =>
          \/ Wanted(n)
          \/ \E w \in Slots : /\ At(w, "send") /\ slot[w].for = n
                              /\ slot[w].seen < choices \/ slot[w].blind]_vars

\* The user's choice stands until the user makes another: no notification
\* and no view of the preferences puts defaults over it, however they race.
ChoicesStand ==
    [][prefs.exists /\ prefs' # prefs => choices' > choices]_vars

\* A user gets a notification once, and once more per fault at most:
\* retries alone never repeat a mail that was reported as sent.
RepeatsNeedFaults == \A n \in Notices : mails[n] <= 1 + faults

\* Notifications drop each other only in the race for the first row of
\* preferences, which one of them wins: without faults and without the user
\* interfering they are not all dropped.
SomeNoticeSurvives ==
    (Ended /\ faults = 0 /\ choices = 0 /\ viewer = "idle" /\ Notices # {}) =>
        \E n \in Notices : call[n] = "done"

\* What getEmailStats counts as sent: rows per status.
Sent(n) == Cardinality({i \in DOMAIN rows[n] : rows[n][i].status = "sent"})

\* The statistics are never rosier than what the provider accepted, and
\* worse only by mails under way and by faults.
StatsTellMails ==
    provider = "on" =>
        \A n \in Notices :
            /\ Sent(n) <= mails[n]
            /\ mails[n] <= Sent(n) + faults
                           + Cardinality({w \in Slots : At(w, "update") /\ slot[w].for = n})
                           + (IF call[n] = "logSent" THEN 1 ELSE 0)

\* A job that BullMQ lists as completed has a log row that says how.
CompletedIsLogged ==
    \A n \in Notices : job[n].state = "completed" =>
        \E i \in DOMAIN rows[n] : rows[n][i].status \in {"sent", "skipped"}

\* A notice is sent once, once more per fault at most, is not dropped in
\* favour of none, and is logged when its job is completed.
NoticeInv == TypeOK /\ RepeatsNeedFaults /\ SomeNoticeSurvives /\ CompletedIsLogged
=============================================================================
