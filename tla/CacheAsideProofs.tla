-------------------------- MODULE CacheAsideProofs --------------------------
(***************************************************************************)
(* Theorems about CacheAside, for any numbers of readers and writers, any  *)
(* TTL, any lag and any number of faults.                                  *)
(*                                                                         *)
(* The argument for StaleNeedsCause is about the writers' programs: a DEL  *)
(* is always a writer's last step.  So a writer that has made its change   *)
(* and would invalidate the key is pending until it does, and one that     *)
(* does not get there leaves the entry marked as missed.                   *)
(***************************************************************************)
EXTENDS CacheAside, SequenceTheorems, TLAPS

-----------------------------------------------------------------------------
\* What RegisterRoute and BindRoute are put together with.
LEMMA Concatenation ==
    ASSUME NEW a, NEW b, NEW c
    PROVE  <<a>> \o <<b, c>> = <<a, b, c>>
<1> DEFINE S == {a, b, c}
           s == <<a>> \o <<b, c>>
           t == <<a, b, c>>
<1>1. <<a>> \in Seq(S) /\ <<b, c>> \in Seq(S) /\ t \in Seq(S)
  OBVIOUS
<1>2. /\ s \in Seq(S) /\ Len(s) = 3
      /\ s[1] = a /\ s[2] = b /\ s[3] = c
  BY <1>1, ConcatProperties
<1>3. Len(t) = 3 /\ t[1] = a /\ t[2] = b /\ t[3] = c
  OBVIOUS
<1> HIDE DEF s, t
<1>4. \A n \in 1 .. Len(s) : s[n] = t[n]
  BY <1>2, <1>3
<1> QED
  BY <1>1, <1>2, <1>3, <1>4, SeqEqual DEF s, t

\* The writers' programs have steps, and only the last one may be a DEL.
LEMMA DeleteIsLast ==
    ASSUME NEW kind \in AllKinds
    PROVE  /\ Len(Steps(kind)) \in Nat
           /\ DOMAIN Steps(kind) = 1 .. Len(Steps(kind))
           /\ \A n \in DOMAIN Steps(kind) :
                 Steps(kind)[n].op = "delete" => n = Len(Steps(kind))
<1>1. CASE kind = "register"
  <2>1. Steps(kind) = <<Change({"entry"}), Change({"contentDetail", "badge"}), Delete({})>>
    BY <1>1, Concatenation DEF Steps, RegisterRoute, UpsertContent
  <2> QED
    BY <2>1 DEF Change
<1>2. CASE kind = "bind"
  <2>1. Steps(kind) = <<Change({"binding"}), Change({"contentDetail", "badge"}), Delete({"binding"})>>
    BY <1>2, Concatenation DEF Steps, BindRoute, UpsertPlatformBinding
  <2> QED
    BY <2>1 DEF Change
<1>3. CASE kind = "verify"
  <2>1. Steps(kind) = <<Change({"verifications"}), Delete({"verifications"})>>
    BY <1>3 DEF Steps, VerifyRoute
  <2> QED
    BY <2>1 DEF Change
<1>4. CASE kind = "worker"
  <2>1. Steps(kind) = <<Change({"verifications"})>>
    BY <1>4 DEF Steps, WorkerRecord
  <2> QED
    BY <2>1 DEF Change
<1>5. CASE kind = "outside"
  <2>1. Steps(kind) = <<Change({"binding", "entry"})>>
    BY <1>5 DEF Steps, OutsideTransaction
  <2> QED
    BY <2>1 DEF Change
<1> QED
  BY <1>1, <1>2, <1>3, <1>4, <1>5 DEF AllKinds

-----------------------------------------------------------------------------
\* A restart and a failed change set a writer's done to the length of its
\* program, the rest is by assignment.
LEMMA TypeInit == Init => TypeOK
BY KeysAssumption, TimeAssumption DEF Init, TypeOK, Nothing, Idle

\* An entry that a tick does not expire.
LEMMA EntryAges ==
    ASSUME NEW e \in Entry, e.left # 1
    PROVE  LET f == [e EXCEPT !.left = @ - 1, !.age = @ + 1]
           IN  /\ f \in Entry /\ f.left = e.left - 1 /\ f.age = e.age + 1
               /\ f.version = e.version /\ f.late = e.late /\ f.missed = e.missed
<1> DEFINE d == [e EXCEPT !.left = @ - 1]
           f == [d EXCEPT !.age = @ + 1]
<1>1. e.left \in 1 .. TTL /\ e.age \in Nat /\ e.left - 1 \in 1 .. TTL
  BY TimeAssumption DEF Entry
<1>2. d \in Entry /\ d = [version |-> e.version, left |-> e.left - 1, age |-> e.age,
                              late |-> e.late, missed |-> e.missed]
  BY <1>1 DEF Entry
<1> HIDE DEF d
<1>3. f \in Entry /\ f = [version |-> d.version, left |-> d.left, age |-> d.age + 1,
                              late |-> d.late, missed |-> d.missed]
  BY <1>2 DEF Entry
<1>4. [e EXCEPT !.left = @ - 1, !.age = @ + 1] = f
  BY <1>1 DEF d, Entry
<1> QED
  BY <1>2, <1>3, <1>4

\* Every step keeps the types.
LEMMA TypeStep == TypeOK /\ [Next]_vars => TypeOK'
<1> SUFFICES ASSUME TypeOK, [Next]_vars PROVE TypeOK'
  OBVIOUS
<1> USE DEF TypeOK
<1>1. Missed \in Entry \cup {Nothing}
  BY DEF Missed, Entry
<1>2. ASSUME NEW w \in Writers
      PROVE  writer[w] \in [kind : Kinds, done : Nat] /\ Len(Steps(writer[w].kind)) \in Nat
  BY DeleteIsLast, KeysAssumption
<1> DEFINE Counted == redis' \in {"off", "up", "away", "gone"} /\ faults' \in 0 .. MaxFaults
<1>0. Counted
  BY TimeAssumption
     DEF Next, Writer, CommitChange, ChangeFails, CommitDelete, DeleteFails, Reader, Request,
         Get, GetFails, Fetch, FetchFails, Fill, Store, StoreFails, Evict, Tick, Disconnect,
         reconnectStrategy, Restart, vars, Fault, Lost
<1>3. ASSUME NEW w \in Writers, Writer(w) PROVE TypeOK'
  <2>1. CASE CommitChange(w)
    BY <1>0, <1>1, <1>2, <2>1 DEF CommitChange, Advance
  <2>2. CASE ChangeFails(w)
    BY <1>0, <1>1, <1>2, <2>2 DEF ChangeFails
  <2>3. CASE CommitDelete(w)
    BY <1>0, <1>2, <2>3 DEF CommitDelete, Advance
  <2>4. CASE DeleteFails(w)
    BY <1>0, <1>1, <1>2, <2>4 DEF DeleteFails, Advance
  <2> QED
    BY <1>3, <2>1, <2>2, <2>3, <2>4 DEF Writer
<1>4. ASSUME NEW r \in Readers, Reader(r) PROVE TypeOK'
  <2>1. 0 \in 0 .. Lag /\ [pc |-> "store", version |-> source, age |-> 0] \in Filling
        /\ [pc |-> "store", version |-> 0, age |-> 0] \in Filling
    BY TimeAssumption DEF Filling
  <2>2. CASE Request(r) \/ Get(r) \/ GetFails(r)
    BY <1>0, <2>2 DEF Request, Get, GetFails, To
  <2>3. CASE Fetch(r) \/ FetchFails(r)
    BY <1>0, <2>1, <2>3 DEF Fetch, FetchFails, To
  <2>4. CASE Store(r)
    <3>1. reader[r] \in Filling
      BY <2>4 DEF Store, Idle, Asking, Fetching
    <3>2. cached' \in Entry
      BY <2>4, <3>1, TimeAssumption DEF Store, Entry, Filling
    <3> QED
      BY <1>0, <2>4, <3>2 DEF Store, To
  <2>5. CASE StoreFails(r)
    BY <1>0, <2>5 DEF StoreFails, To
  <2> QED
    BY <1>4, <2>2, <2>3, <2>4, <2>5 DEF Reader, Fill
<1>5. CASE Tick
  <2>1. cached' \in Entry \cup {Nothing}
    BY <1>5, EntryAges DEF Tick
  <2>2. ASSUME NEW r \in Readers PROVE Older(reader[r]) \in {Idle, Asking, Fetching} \cup Filling
    <3>1. CASE reader[r].pc = "store"
      BY <1>5, <3>1, TimeAssumption DEF Tick, Older, Filling, Idle, Asking, Fetching
    <3> QED
      BY <3>1 DEF Older
  <2> QED
    BY <1>0, <1>5, <2>1, <2>2 DEF Tick
<1>6. CASE Restart
  BY <1>0, <1>1, <1>2, <1>6 DEF Restart
<1>7. CASE Evict \/ Disconnect \/ reconnectStrategy \/ UNCHANGED vars
  BY <1>0, <1>7 DEF Evict, Disconnect, reconnectStrategy, vars
<1> QED
  BY <1>3, <1>4, <1>5, <1>6, <1>7 DEF Next

\* Entries and requests keep their types whatever fails; no entry's time is
\* ever up without its being gone.
THEOREM TypeCorrect == Spec => []TypeOK
BY TypeInit, TypeStep, PTL DEF Spec

-----------------------------------------------------------------------------
\* A tick takes one from what is left and adds one to the age; only a fill,
\* whose value is at most Lag old, sets them anew.
LEMMA AgeStep == TypeOK /\ BoundedStaleness /\ [Next]_vars => BoundedStaleness'
<1> SUFFICES ASSUME TypeOK, BoundedStaleness, [Next]_vars, cached' # Nothing
             PROVE  cached'.age <= TTL - cached'.left + Lag
  BY DEF BoundedStaleness
<1>1. CASE cached' \in {cached, Missed}
  <2>1. cached # Nothing /\ cached \in Entry
    BY <1>1 DEF Missed, TypeOK
  <2>2. cached'.age = cached.age /\ cached'.left = cached.left
    BY <1>1, <2>1 DEF Missed, Entry
  <2> QED
    BY <2>1, <2>2 DEF BoundedStaleness
<1>2. ASSUME NEW r \in Readers, Store(r) PROVE cached'.age <= TTL - cached'.left + Lag
  <2>1. reader[r] \in Filling
    BY <1>2 DEF Store, TypeOK, Idle, Asking, Fetching
  <2>2. cached'.left = TTL /\ cached'.age \in 0 .. Lag
    BY <1>2, <2>1 DEF Store, Filling
  <2> QED
    BY <2>2, TimeAssumption
<1>3. CASE Tick
  <2>1. cached \in Entry /\ cached.left # 1
    BY <1>3 DEF Tick, TypeOK
  <2>2. cached'.age = cached.age + 1 /\ cached'.left = cached.left - 1
    BY <1>3, <2>1, EntryAges DEF Tick
  <2>3. cached.age <= TTL - cached.left + Lag
    BY <2>1, <1>3 DEF BoundedStaleness, Tick
  <2> QED
    BY <2>1, <2>2, <2>3, TimeAssumption DEF Entry
<1> QED
  BY <1>1, <1>2, <1>3
     DEF Next, Writer, CommitChange, ChangeFails, CommitDelete, DeleteFails, Reader, Request,
         Get, GetFails, Fetch, FetchFails, Fill, StoreFails, Evict, Disconnect,
         reconnectStrategy, Restart, vars

\* What the cache answers is at most TTL + Lag ticks behind its source.
THEOREM StalenessIsBounded == Spec => []BoundedStaleness
<1>1. Init => BoundedStaleness
  BY DEF Init, BoundedStaleness
<1> QED
  BY <1>1, TypeInit, TypeStep, AgeStep, PTL DEF Spec

-----------------------------------------------------------------------------
\* The writer that still owes the key a DEL.
Owes(w) == Pending(w) /\ Changed(w) /\ Deletes(writer[w].kind)

\* A writer that would invalidate the key does so in its last step.
LEMMA DeletesLast ==
    ASSUME TypeOK, NEW w \in Writers, Deletes(writer[w].kind), Pending(w)
    PROVE  /\ NextStep(w).op = "delete" => key \in NextStep(w).keys
           /\ NextStep(w).op = "change" => writer[w].done + 1 < Len(Steps(writer[w].kind))
<1> DEFINE kind == writer[w].kind
           done == writer[w].done
<1>1. kind \in AllKinds /\ done \in Nat
  BY KeysAssumption DEF TypeOK
<1>2. PICK n \in DOMAIN Steps(kind) : Steps(kind)[n].op = "delete" /\ key \in Steps(kind)[n].keys
  BY DEF Deletes
<1>3. n = Len(Steps(kind))
  BY <1>1, <1>2, DeleteIsLast
<1>4. done < Len(Steps(kind)) /\ Len(Steps(kind)) \in Nat /\ DOMAIN Steps(kind) = 1 .. Len(Steps(kind))
  BY <1>1, DeleteIsLast DEF Pending
<1>5. done + 1 \in DOMAIN Steps(kind)
  BY <1>1, <1>4
<1>6. NextStep(w).op = "delete" => done + 1 = n
  BY <1>1, <1>3, <1>5, DeleteIsLast DEF NextStep
<1>7. NextStep(w).op = "change" => done + 1 # n
  BY <1>2 DEF NextStep
<1> QED
  BY <1>1, <1>2, <1>3, <1>4, <1>6, <1>7 DEF NextStep

\* A change leaves its writer owing the DEL, or owing it still.
LEMMA ChangeOwes ==
    ASSUME TypeOK, NEW w \in Writers, CommitChange(w), Deletes(writer[w].kind),
           Changed(w) \/ key \in NextStep(w).keys
    PROVE  Owes(w)'
<1>1. writer[w] \in [kind : Kinds, done : Nat]
  BY DEF TypeOK
<1>2. /\ writer'[w].kind = writer[w].kind /\ writer'[w].done = writer[w].done + 1
      /\ key' = key
  BY <1>1 DEF CommitChange, Advance, TypeOK
<1>3. Pending(w)'
  BY <1>1, <1>2, DeletesLast DEF CommitChange, Pending
<1>4. Changed(w)'
  BY <1>1, <1>2 DEF CommitChange, Changed, NextStep
<1>5. Deletes(writer[w].kind)'
  BY <1>2 DEF Deletes
<1> QED
  BY <1>3, <1>4, <1>5 DEF Owes

\* A writer owes what it owed as long as it takes no step.
LEMMA OwesStill ==
    ASSUME NEW w \in Writers, Owes(w), writer'[w] = writer[w], key' = key
    PROVE  Owes(w)'
BY DEF Owes, Pending, Changed, Deletes

\* An entry that is marked stays in need of no other cause.
LEMMA MissedIsMarked ==
    ASSUME TypeOK, cached' = Missed, cached' # Nothing
    PROVE  cached'.missed
BY DEF TypeOK, Missed, Entry

\* What may still make a cached value stale.
Causes == cached.late \/ cached.missed \/ \E w \in Writers : Owes(w)

\* A step of a writer leaves a cause behind, or no stale entry.
LEMMA WriterLeavesCause ==
    ASSUME TypeOK, Stale => Causes, NEW w \in Writers, Writer(w), Stale'
    PROVE  Causes'
<1>1. cached' # Nothing
  BY DEF Stale
<1>2. cached' = Missed => Causes'
  BY <1>1, MissedIsMarked DEF Causes
<1>3. key' = key /\ \A v \in Writers \ {w} : writer'[v] = writer[v]
  BY DEF Writer, CommitChange, ChangeFails, CommitDelete, DeleteFails, Advance, TypeOK
<1>4. ASSUME cached' = cached, source' = source, ~Owes(w) PROVE Causes'
  <2>1. Stale
    BY <1>4 DEF Stale
  <2>2. ASSUME NEW v \in Writers, Owes(v) PROVE Owes(v)'
    BY <1>3, <1>4, <2>2, OwesStill
  <2> QED
    BY <1>4, <2>1, <2>2 DEF Causes
<1>5. CASE CommitChange(w)
  <2>1. CASE key \in NextStep(w).keys /\ ~Deletes(writer[w].kind)
    BY <1>2, <1>5, <2>1 DEF CommitChange
  <2>2. CASE Deletes(writer[w].kind) /\ (Changed(w) \/ key \in NextStep(w).keys)
    BY <1>5, <2>2, ChangeOwes DEF Causes
  <2>3. CASE key \notin NextStep(w).keys /\ ~(Changed(w) /\ Deletes(writer[w].kind))
    BY <1>4, <1>5, <2>3 DEF CommitChange, Owes
  <2> QED
    BY <2>1, <2>2, <2>3
<1>6. CASE ChangeFails(w)
  <2>1. CASE Changed(w)
    BY <1>2, <1>6, <2>1 DEF ChangeFails
  <2>2. CASE ~Changed(w)
    BY <1>4, <1>6, <2>2 DEF ChangeFails, Owes
  <2> QED
    BY <2>1, <2>2
<1>7. CASE CommitDelete(w) \/ DeleteFails(w)
  <2>1. CASE key \in NextStep(w).keys
    BY <1>1, <1>2, <1>7, <2>1 DEF CommitDelete, DeleteFails
  <2>2. CASE key \notin NextStep(w).keys
    <3>1. ~Owes(w)
      BY <1>7, <2>2, DeletesLast DEF CommitDelete, DeleteFails, Owes
    <3> QED
      BY <1>4, <1>7, <2>2, <3>1 DEF CommitDelete, DeleteFails
  <2> QED
    BY <2>1, <2>2
<1> QED
  BY <1>5, <1>6, <1>7 DEF Writer

\* Every step of the system does.
LEMMA CauseStep == TypeOK /\ StaleNeedsCause /\ [Next]_vars => StaleNeedsCause'
<1>1. StaleNeedsCause <=> (Stale => Causes)
  BY DEF StaleNeedsCause, Causes, Owes
<1>2. StaleNeedsCause' <=> (Stale' => Causes')
  BY DEF StaleNeedsCause, Causes, Owes
<1> SUFFICES ASSUME TypeOK, Stale => Causes, [Next]_vars, Stale' PROVE Causes'
  BY <1>1, <1>2
<1>3. ASSUME NEW w \in Writers, Writer(w) PROVE Causes'
  BY <1>3, WriterLeavesCause
<1>4. ASSUME UNCHANGED <<key, source, cached, writer>> PROVE Causes'
  <2>1. \A w \in Writers : Owes(w) => Owes(w)'
    BY <1>4, OwesStill
  <2>2. Stale
    BY <1>4 DEF Stale
  <2> QED
    BY <1>4, <2>1, <2>2 DEF Causes
<1>5. ASSUME NEW r \in Readers, Store(r) PROVE Causes'
  BY <1>5 DEF Store, Stale, Causes
<1>6. CASE Tick
  <2>1. cached \in Entry /\ cached.left # 1 /\ cached # Nothing
    BY <1>6 DEF Tick, TypeOK, Stale
  <2>2. cached'.version = cached.version /\ cached'.late = cached.late
        /\ cached'.missed = cached.missed /\ source' = source
    BY <1>6, <2>1, EntryAges DEF Tick
  <2>3. Causes
    BY <2>1, <2>2 DEF Stale
  <2>4. \A w \in Writers : Owes(w) => Owes(w)'
    BY <1>6, OwesStill DEF Tick
  <2> QED
    BY <2>2, <2>3, <2>4 DEF Causes
<1>7. CASE Restart
  <2>1. CASE \E w \in Writers : Pending(w) /\ Changed(w)
    BY <1>7, <2>1, MissedIsMarked DEF Restart, Stale, Causes
  <2>2. CASE ~\E w \in Writers : Pending(w) /\ Changed(w)
    BY <1>7, <2>2 DEF Restart, Stale, Causes, Owes
  <2> QED
    BY <2>1, <2>2
<1>8. CASE Evict
  BY <1>8 DEF Evict, Stale
<1> QED
  BY <1>3, <1>4, <1>5, <1>6, <1>7, <1>8
     DEF Next, Reader, Request, Get, GetFails, Fetch, FetchFails, Fill, StoreFails, Disconnect,
         reconnectStrategy, vars

\* However fills, invalidations, failures and restarts interleave, a stale
\* entry raced a writer when it was stored, was left behind by a writer that
\* sends no DEL for it or did not get to it, or is about to be deleted.
THEOREM StaleHasCause == Spec => []StaleNeedsCause
<1>1. Init => StaleNeedsCause
  BY DEF Init, StaleNeedsCause, Stale
<1> QED
  BY <1>1, TypeInit, TypeStep, CauseStep, PTL DEF Spec
=============================================================================
