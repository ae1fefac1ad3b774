------------------------ MODULE PublishPipelineProofs ------------------------
(***************************************************************************)
(* Proofs that the publishing routes keep the database behind the chain    *)
(* and answer "ok" only for what is on it, for any requests, registries,   *)
(* contents, posts, faults and replaced transactions.                      *)
(*                                                                         *)
(* RowsAreOnChain is not inductive: that a row is written only for what is *)
(* on the chain follows from where its handler stands.  The invariant IInv *)
(* therefore says of each handler what the chain holds at its step: after  *)
(* the receipt, its own effect; before it, that whatever of its own there  *)
(* is at its nonce, waiting or mined, is the transaction it sent.  Entries *)
(* and bindings are never changed, so what is settled stays settled.       *)
(***************************************************************************)
EXTENDS PublishPipeline, SequenceTheorems, FiniteSetTheorems, TLAPS

-----------------------------------------------------------------------------
(* Updating one field of a handler, and the control flow built from that.  *)

Steps == {"idle", "pin", "check", "prepare", "broadcast", "wait", "find", "link", "store", "done"}
Answers == {Null, "ok", "error", "refused", "lost"}

\* [r EXCEPT !.step = v] is a handler that differs from r in its step only.
LEMMA SetStep ==
    ASSUME NEW r \in Request, NEW v \in Steps
    PROVE  LET e == [r EXCEPT !.step = v] IN
           /\ e \in Request /\ e.step = v
           /\ e.kind = r.kind /\ e.registry = r.registry /\ e.hash = r.hash
           /\ e.keys = r.keys /\ e.registering = r.registering /\ e.nonce = r.nonce
           /\ e.found = r.found /\ e.answer = r.answer
BY DEF Request, Steps

\* The same for its answer.
LEMMA SetAnswer ==
    ASSUME NEW r \in Request, NEW v \in Answers
    PROVE  LET e == [r EXCEPT !.answer = v] IN
           /\ e \in Request /\ e.answer = v
           /\ e.kind = r.kind /\ e.registry = r.registry /\ e.hash = r.hash
           /\ e.keys = r.keys /\ e.registering = r.registering /\ e.step = r.step
           /\ e.nonce = r.nonce /\ e.found = r.found
BY DEF Request, Answers

\* The same for whether it registers.
LEMMA SetRegistering ==
    ASSUME NEW r \in Request, NEW v \in BOOLEAN
    PROVE  LET e == [r EXCEPT !.registering = v] IN
           /\ e \in Request /\ e.registering = v
           /\ e.kind = r.kind /\ e.registry = r.registry /\ e.hash = r.hash
           /\ e.keys = r.keys /\ e.step = r.step /\ e.nonce = r.nonce /\ e.found = r.found
           /\ e.answer = r.answer
BY Zenon DEF Request

\* The same for the bindings left to make.
LEMMA SetKeys ==
    ASSUME NEW r \in Request, NEW v \in Seq(Keys)
    PROVE  LET e == [r EXCEPT !.keys = v] IN
           /\ e \in Request /\ e.keys = v
           /\ e.kind = r.kind /\ e.registry = r.registry /\ e.hash = r.hash
           /\ e.registering = r.registering /\ e.step = r.step /\ e.nonce = r.nonce
           /\ e.found = r.found /\ e.answer = r.answer
BY DEF Request

\* The same for its nonce.
LEMMA SetNonce ==
    ASSUME NEW r \in Request, NEW v \in Nat
    PROVE  LET e == [r EXCEPT !.nonce = v] IN
           /\ e \in Request /\ e.nonce = v
           /\ e.kind = r.kind /\ e.registry = r.registry /\ e.hash = r.hash
           /\ e.keys = r.keys /\ e.registering = r.registering /\ e.step = r.step
           /\ e.found = r.found /\ e.answer = r.answer
BY DEF Request

\* The same for the content row it found.
LEMMA SetFound ==
    ASSUME NEW r \in Request, NEW v \in Hashes \cup {Null}
    PROVE  LET e == [r EXCEPT !.found = v] IN
           /\ e \in Request /\ e.found = v
           /\ e.kind = r.kind /\ e.registry = r.registry /\ e.hash = r.hash
           /\ e.keys = r.keys /\ e.registering = r.registering /\ e.step = r.step
           /\ e.nonce = r.nonce /\ e.answer = r.answer
BY DEF Request

\* A handler that answers is done, holds no nonce and keeps what was asked.
LEMMA AnswerFields ==
    ASSUME NEW r \in Request, NEW a \in {"ok", "error", "refused", "lost"}
    PROVE  LET e == Answer(r, a) IN
           /\ e \in Request
           /\ e.step = "done" /\ e.answer = a /\ e.nonce = 0
           /\ ~e.registering
           /\ r.kind = "bind" => e.keys = r.keys
           /\ e.kind = r.kind /\ e.registry = r.registry /\ e.hash = r.hash
           /\ e.found = r.found
<1> DEFINE keys == IF r.kind = "bind" THEN r.keys ELSE <<>>
           d1 == [r EXCEPT !.step = "done"]
           d2 == [d1 EXCEPT !.answer = a]
           d3 == [d2 EXCEPT !.registering = FALSE]
           d4 == [d3 EXCEPT !.keys = keys]
           d5 == [d4 EXCEPT !.nonce = 0]
<1>1. d1 \in Request /\ d1.step = "done"
      /\ d1.kind = r.kind /\ d1.registry = r.registry /\ d1.hash = r.hash
      /\ d1.found = r.found
  BY SetStep DEF Steps
<1>2. d2 \in Request
      /\ d2.kind = r.kind /\ d2.registry = r.registry /\ d2.hash = r.hash
      /\ d2.found = r.found
      /\ d2.step = "done" /\ d2.answer = a
  <2>1. a \in Answers
    BY DEF Answers
  <2> HIDE DEF d1
  <2> QED BY <1>1, <2>1, SetAnswer
<1>3. d3 \in Request /\ ~d3.registering
      /\ d3.kind = r.kind /\ d3.registry = r.registry /\ d3.hash = r.hash
      /\ d3.found = r.found
      /\ d3.step = "done" /\ d3.answer = a
  <2> HIDE DEF d2
  <2> QED BY <1>2, SetRegistering
<1>4. d4 \in Request /\ ~d4.registering
      /\ d4.kind = r.kind /\ d4.registry = r.registry /\ d4.hash = r.hash
      /\ d4.found = r.found
      /\ d4.step = "done" /\ d4.answer = a
      /\ d4.keys = keys
  <2>1. keys \in Seq(Keys)
    BY DEF Request
  <2> HIDE DEF d3, keys
  <2> QED BY <1>3, SetKeys, <2>1
<1>5. d5 \in Request /\ ~d5.registering
      /\ d5.kind = r.kind /\ d5.registry = r.registry /\ d5.hash = r.hash
      /\ d5.found = r.found
      /\ d5.step = "done" /\ d5.answer = a
      /\ d5.keys = keys /\ d5.nonce = 0
  <2> HIDE DEF d4, keys
  <2> QED BY <1>4, SetNonce
<1>6. Answer(r, a) = d5
  BY DEF Answer
<1> HIDE DEF d5
<1> QED
  BY <1>5, <1>6

-----------------------------------------------------------------------------
(* The shape of a handler.                                                 *)

\* A handler between its first step and its answer.
Active(r) == r.step \notin {"idle", "done"}

\* The fields of a handler fit its kind and its step.
Shape(r) ==
  /\ r \in Request
  /\ Active(r) => r.kind \in Kinds /\ r.registry \in Registries /\ r.hash \in Hashes
  /\ r.step # "done" => r.answer = Null
  /\ r.registering => r.kind \in {"register", "one-shot"}
  /\ Active(r) /\ r.kind = "register" => r.registering
  /\ r.step = "pin" => r.registering
  /\ r.step = "check" => r.kind # "one-shot"
  /\ r.step = "store" => r.kind \in {"register", "one-shot"}
  /\ r.step \in {"check", "find", "link"} => ~r.registering
  /\ Active(r) /\ ~r.registering /\ r.step # "store" => r.keys # <<>>
  /\ r.answer = "ok" => r.registry \in Registries /\ r.hash \in Hashes /\ r.kind \in Kinds
  /\ r.answer = "ok" /\ r.kind = "bind" => r.keys # <<>>

\* Going to a step changes nothing else.
LEMMA ToFields ==
    ASSUME NEW r \in Request, NEW v \in Steps
    PROVE  LET e == To(r, v) IN
           /\ e \in Request /\ e.step = v
           /\ e.kind = r.kind /\ e.registry = r.registry /\ e.hash = r.hash
           /\ e.keys = r.keys /\ e.registering = r.registering /\ e.nonce = r.nonce
           /\ e.found = r.found /\ e.answer = r.answer
BY SetStep DEF To

\* After a binding: the next one, the content's row, or success.
LEMMA ContinueFields ==
    ASSUME NEW r \in Request, r.answer = Null, ~r.registering
    PROVE  LET e == Continue(r) IN
           /\ e \in Request /\ ~e.registering
           /\ e.kind = r.kind /\ e.registry = r.registry /\ e.hash = r.hash
           /\ e.found = r.found
           /\ e.nonce = r.nonce \/ e.nonce = 0
           /\ \/ e.step = "prepare" /\ e.keys # <<>> /\ e.answer = Null
              \/ e.step = "store" /\ e.answer = Null /\ r.kind = "one-shot"
              \/ e.step = "done" /\ e.answer = "ok" /\ r.kind # "one-shot"
<1>1. CASE r.keys # <<>>
  <2>1. Continue(r) = To(r, "prepare")
    BY <1>1 DEF Continue
  <2>2. "prepare" \in Steps
    BY DEF Steps
  <2> QED
    BY <1>1, <2>1, <2>2, ToFields
<1>2. CASE r.keys = <<>> /\ r.kind = "one-shot"
  <2>1. Continue(r) = To(r, "store")
    BY <1>2 DEF Continue
  <2>2. "store" \in Steps
    BY DEF Steps
  <2> QED
    BY <1>2, <2>1, <2>2, ToFields
<1>3. CASE r.keys = <<>> /\ r.kind # "one-shot"
  <2>1. Continue(r) = Answer(r, "ok")
    BY <1>3 DEF Continue
  <2> QED
    BY <1>3, <2>1, AnswerFields
<1> QED
  BY <1>1, <1>2, <1>3

\* The loop of /bind-many and /one-shot, one binding on.
LEMMA NextKeyFields ==
    ASSUME NEW r \in Request, r.answer = Null, ~r.registering,
           r.kind # "bind", r.keys # <<>>
    PROVE  LET e == NextKey(r) IN
           /\ e \in Request /\ ~e.registering
           /\ e.kind = r.kind /\ e.registry = r.registry /\ e.hash = r.hash
           /\ e.found = r.found
           /\ e.nonce = r.nonce \/ e.nonce = 0
           /\ \/ e.step = "prepare" /\ e.keys # <<>> /\ e.answer = Null
              \/ e.step = "store" /\ e.answer = Null /\ r.kind = "one-shot"
              \/ e.step = "done" /\ e.answer = "ok" /\ r.kind # "one-shot"
<1> DEFINE d == [r EXCEPT !.keys = Tail(r.keys)]
<1>1. Tail(r.keys) \in Seq(Keys)
  BY DEF Request
<1>2. /\ d \in Request
      /\ d.kind = r.kind /\ d.registry = r.registry /\ d.hash = r.hash
      /\ d.registering = r.registering /\ d.nonce = r.nonce
      /\ d.found = r.found /\ d.answer = r.answer
  BY <1>1, SetKeys
<1>3. NextKey(r) = Continue(d)
  BY DEF NextKey
<1> HIDE DEF d
<1> QED
  BY <1>2, <1>3, ContinueFields

\* An exception ends in an error, or in the loop's next turn when the
\* registration is over.
LEMMA ThrowFields ==
    ASSUME NEW r, Shape(r), Active(r)
    PROVE  LET e == Throw(r) IN
           /\ e \in Request /\ ~e.registering
           /\ e.kind = r.kind /\ e.registry = r.registry /\ e.hash = r.hash
           /\ e.found = r.found
           /\ e.nonce = r.nonce \/ e.nonce = 0
           /\ \/ e.step = "done" /\ e.answer = "error"
              \/ /\ r.kind \in {"bind-many", "one-shot"} /\ ~r.registering
                 /\ \/ e.step = "prepare" /\ e.keys # <<>> /\ e.answer = Null
                    \/ e.step = "store" /\ e.answer = Null /\ r.kind = "one-shot"
                    \/ e.step = "done" /\ e.answer = "ok" /\ r.kind # "one-shot"
<1>0. r \in Request /\ r.answer = Null 
  BY DEF Shape, Active, Request
<1>1. CASE r.kind \in {"bind-many", "one-shot"} /\ ~r.registering
           /\ r.step \notin {"check", "store"}
  <2>1. Throw(r) = NextKey(r)
    BY <1>1 DEF Throw
  <2>2. r.keys # <<>> /\ r.kind # "bind" /\ ~r.registering
    BY <1>0, <1>1 DEF Shape
  <2> QED
    BY <1>0, <1>1, <2>1, <2>2, NextKeyFields
<1>2. CASE ~(r.kind \in {"bind-many", "one-shot"} /\ ~r.registering
           /\ r.step \notin {"check", "store"})
  <2>1. Throw(r) = Answer(r, "error")
    BY <1>2 DEF Throw
  <2> QED
    BY <1>0, <2>1, AnswerFields
<1> QED
  BY <1>1, <1>2

-----------------------------------------------------------------------------
(* The invariant.                                                          *)

\* What a registration and a binding leave on chain.
Registered(q, r) == registered[r.registry][r.hash] = [by |-> Wallet, manifest |-> q]
Bound(r) == bound[r.registry][Head(r.keys)] = r.hash

\* What the chain and the database hold when a handler is where it stands.
Settled(q, r) ==
  /\ r.step = "store" => Registered(q, r)
  /\ Active(r) /\ r.kind = "one-shot" /\ ~r.registering => Registered(q, r)
  /\ r.step \in {"find", "link"} => Bound(r)
  /\ r.step = "link" => r.found \in {Null, r.hash}
  /\ r.answer = "ok" /\ r.kind \in {"register", "one-shot"} =>
       Registered(q, r) /\ content[r.hash] # Null
  /\ r.answer = "ok" /\ r.kind = "bind" => Bound(r) /\ binding[Head(r.keys)] # Null

\* A handler that waits: what there is of its own at its nonce is the
\* transaction it sent, and once that is mined its effect is on the chain.
Waiting(q, r) ==
  r.step = "wait" =>
    /\ r.nonce < Len(mined) + Len(pool)
    /\ \A i \in 1..Len(pool) : i + Len(mined) = r.nonce + 1 /\ pool[i].from = q =>
         /\ pool[i].op = IF r.registering THEN "register" ELSE "bind"
         /\ pool[i].registry = r.registry /\ pool[i].hash = r.hash
         /\ ~r.registering => pool[i].key = Head(r.keys)
    /\ r.nonce < Len(mined) /\ mined[r.nonce + 1].from = q /\ mined[r.nonce + 1].ok =>
         IF r.registering THEN Registered(q, r) ELSE Bound(r)

\* What holds of each handler.
HandlerOK(q) ==
  /\ Shape(request[q])
  /\ request[q].nonce <= Len(mined) + Len(pool)
  /\ Settled(q, request[q])
  /\ Waiting(q, request[q])

\* The types of the chain.
ChainTypes ==
  /\ registered \in [Registries -> [Hashes -> {Null} \union
       [by : {Wallet, Other}, manifest : Requests \union {Null}]]]
  /\ bound \in [Registries -> [Keys -> Hashes \union {Null}]]
  /\ pool \in Seq(Tx) /\ mined \in Seq([from : Requests, ok : BOOLEAN])
  /\ \A i \in 1..Len(pool) : pool[i].op = "bind" => pool[i].key \in Keys

\* The types of the rows.
RowTypes ==
  /\ content \in [Hashes -> {Null} \union [registry : Registries, manifest : Requests]]
  /\ binding \in [Keys -> {Null} \union [content : Hashes \union {Null}]]

\* The inductive invariant.
IInv ==
  /\ ChainTypes /\ RowTypes
  /\ request \in [Requests -> Request] /\ faults \in 0..MaxFaults
  /\ RowsAreOnChain
  /\ \A q \in Requests : HandlerOK(q)

\* Entries and bindings are never changed, rows never deleted.
Grows ==
  /\ \A r \in Registries, h \in Hashes :
       registered[r][h] # Null => registered'[r][h] = registered[r][h]
  /\ \A r \in Registries, k \in Keys : bound[r][k] # Null => bound'[r][k] = bound[r][k]

\* No row of the database goes away.
RowsGrow ==
  /\ \A h \in Hashes : content[h] # Null => content'[h] # Null
  /\ \A k \in Keys : binding[k] # Null => binding'[k] # Null

\* What a handler has settled stays, when entries and rows only grow.
LEMMA SettledStays ==
    ASSUME NEW q \in Requests, NEW r, Shape(r), Settled(q, r), Grows, RowsGrow
    PROVE  Settled(q, r)'
<1>1. r \in Request /\ (Active(r) \/ r.answer = "ok" => r.registry \in Registries /\ r.hash \in Hashes)
  BY DEF Shape
<1>2. [by |-> Wallet, manifest |-> q] # Null
  BY NullAssumption
<1>3. ASSUME Active(r) \/ r.answer = "ok", Registered(q, r)
      PROVE  Registered(q, r)'
  BY <1>1, <1>2, <1>3 DEF Registered, Grows
<1>4. ASSUME Active(r) \/ r.answer = "ok", r.keys # <<>>, Bound(r)
      PROVE  Bound(r)' /\ Head(r.keys) \in Keys
  <2>1. Head(r.keys) \in Keys
    BY <1>1, <1>4 DEF Request
  <2>2. r.hash # Null
    BY <1>1, <1>4, NullAssumption
  <2> QED
    BY <1>1, <1>4, <2>1, <2>2 DEF Bound, Grows
<1>5. r.step \in {"store", "find", "link"} => Active(r)
  BY DEF Active
<1>6. r.step \in {"find", "link"} => r.keys # <<>>
  BY DEF Shape, Active
<1>7. r.answer = "ok" /\ r.kind = "bind" => r.keys # <<>>
  BY DEF Shape
<1> QED
  BY <1>1, <1>3, <1>4, <1>5, <1>6, <1>7 DEF Settled, RowsGrow

\* The four parts of HandlerOK, for a record a handler may become.
Standing(q, r) ==
  Shape(r) /\ r.nonce <= Len(mined) + Len(pool) /\ Settled(q, r) /\ Waiting(q, r)

\* Wherever a handler stands, it may throw: what it then relies on is settled.
LEMMA ThrowStands ==
    ASSUME NEW q \in Requests, NEW r, Shape(r), Active(r), Settled(q, r),
           r.nonce <= Len(mined) + Len(pool), Len(mined) \in Nat, Len(pool) \in Nat
    PROVE  Standing(q, Throw(r))
<1> DEFINE e == Throw(r)
<1>1. /\ e \in Request /\ ~e.registering
      /\ e.kind = r.kind /\ e.registry = r.registry /\ e.hash = r.hash
      /\ e.found = r.found
      /\ e.nonce = r.nonce \/ e.nonce = 0
      /\ \/ e.step = "done" /\ e.answer = "error"
         \/ /\ r.kind \in {"bind-many", "one-shot"} /\ ~r.registering
            /\ \/ e.step = "prepare" /\ e.keys # <<>> /\ e.answer = Null
               \/ e.step = "store" /\ e.answer = Null /\ r.kind = "one-shot"
               \/ e.step = "done" /\ e.answer = "ok" /\ r.kind # "one-shot"
  BY ThrowFields
<1> HIDE DEF e
<1>2. r.kind \in Kinds /\ r.registry \in Registries /\ r.hash \in Hashes
  BY DEF Shape
<1>3. r.kind = "one-shot" /\ ~r.registering => Registered(q, r)
  BY DEF Settled
<1>4. Null # "ok" /\ Null # "error"
  BY NullAssumption
<1>5. Shape(e)
  BY <1>1, <1>2, <1>4 DEF Shape, Active
<1>6. e.nonce <= Len(mined) + Len(pool)
  BY <1>1
<1>7. Settled(q, e)
  BY <1>1, <1>3, <1>4 DEF Settled, Registered, Active
<1>8. Waiting(q, e)
  BY <1>1 DEF Waiting
<1>9. Standing(q, e)
  BY <1>5, <1>6, <1>7, <1>8 DEF Standing
<1> QED
  BY <1>9 DEF e

\* A step that moves one handler and touches neither the chain nor the database.
LEMMA Moves ==
    ASSUME IInv, NEW q \in Requests, NEW r, Standing(q, r), Becomes(q, r),
           UNCHANGED <<chain, rows>>, faults' \in 0..MaxFaults
    PROVE  IInv'
<1> USE DEF chain, rows
<1>1. r \in Request
  BY DEF Standing, Shape
<1>2. request' \in [Requests -> Request]
  BY <1>1 DEF Becomes, IInv
<1>3. ASSUME NEW p \in Requests
      PROVE  HandlerOK(p)'
  <2>1. HandlerOK(p)
    BY DEF IInv
  <2>2. CASE p = q
    <3>1. request'[p] = r
      BY <2>2 DEF Becomes, IInv
    <3> QED
      BY <2>2, <3>1 DEF Standing, HandlerOK, Settled, Waiting, Registered, Bound
  <2>3. CASE p # q
    <3>1. request'[p] = request[p]
      BY <2>3 DEF Becomes, IInv
    <3> QED
      BY <2>1, <3>1 DEF HandlerOK, Settled, Waiting, Registered, Bound
  <2> QED
    BY <2>2, <2>3
<1>4. ChainTypes' /\ RowTypes' /\ RowsAreOnChain'
  BY DEF IInv, ChainTypes, RowTypes, RowsAreOnChain
<1> QED
  BY <1>2, <1>3, <1>4 DEF IInv

\* What IInv says of one handler.
LEMMA Now == ASSUME IInv, NEW q \in Requests
             PROVE  /\ Standing(q, request[q]) /\ request[q] \in Request
                    /\ Len(mined) \in Nat /\ Len(pool) \in Nat
                    /\ faults \in 0..MaxFaults /\ MaxFaults \in Nat
BY PublishAssumption DEF IInv, HandlerOK, Standing, ChainTypes

\* What a transaction has done stays done.
LEMMA EffectStays ==
    ASSUME NEW q \in Requests, NEW r, Shape(r), Active(r), Grows
    PROVE  /\ Registered(q, r) => Registered(q, r)'
           /\ Bound(r) /\ r.keys # <<>> => Bound(r)'
<1>1. r \in Request /\ r.registry \in Registries /\ r.hash \in Hashes
  BY DEF Shape
<1>2. [by |-> Wallet, manifest |-> q] # Null /\ r.hash # Null
  BY <1>1, NullAssumption
<1>3. r.keys # <<>> => Head(r.keys) \in Keys
  BY <1>1 DEF Request
<1> QED
  BY <1>1, <1>2, <1>3 DEF Registered, Bound, Grows

\* A handler that a step leaves alone, when entries and rows only grow and the
\* wallet's transactions are not touched at its nonce.
LEMMA Unmoved ==
    ASSUME IInv, NEW q \in Requests, request'[q] = request[q], Grows, RowsGrow,
           Len(mined) + Len(pool) <= Len(mined') + Len(pool'), Len(mined') \in Nat, Len(pool') \in Nat,
           NEW r, r = request[q], Waiting(q, r)'
    PROVE  HandlerOK(q)'
<1>1. Shape(r) /\ r.nonce <= Len(mined) + Len(pool) /\ Settled(q, r)
  BY Now DEF Standing
<1>2. Settled(q, r)'
  BY <1>1, SettledStays
<1>3. r.nonce <= Len(mined') + Len(pool')
  <2>1. r.nonce \in Nat
    BY <1>1 DEF Shape, Request
  <2> QED
    BY <1>1, <2>1, Now
<1>4. Settled(q, request[q])' /\ Waiting(q, request[q])'
  BY <1>2 DEF Settled, Waiting, Registered, Bound
<1> QED
  BY <1>1, <1>3, <1>4 DEF HandlerOK

\* Rows stay on the chain when the chain grows and the database rests.
LEMMA RowsStay == ASSUME IInv, Grows, UNCHANGED rows PROVE RowsAreOnChain'
<1> USE DEF rows
<1>1. content' = content /\ binding' = binding
  OBVIOUS
<1>2. ASSUME NEW h \in Hashes, content'[h] # Null
      PROVE  registered'[content'[h].registry][h]
               = [by |-> Wallet, manifest |-> content'[h].manifest]
  <2>1. content[h] \in [registry : Registries, manifest : Requests]
    BY <1>1, <1>2 DEF IInv, RowTypes
  <2>2. registered[content[h].registry][h] = [by |-> Wallet, manifest |-> content[h].manifest]
    BY <1>1, <1>2 DEF IInv, RowsAreOnChain
  <2>3. [by |-> Wallet, manifest |-> content[h].manifest] # Null
    BY <2>1, NullAssumption
  <2>4. content[h].registry \in Registries
    BY <2>1
  <2> QED
    BY <1>1, <2>2, <2>3, <2>4 DEF Grows
<1>3. ASSUME NEW k \in Keys, binding'[k] # Null
      PROVE  \E r \in Registries : bound'[r][k] # Null
  BY <1>1, <1>3 DEF IInv, RowsAreOnChain, Grows
<1>4. ASSUME NEW k \in Keys, binding'[k] # Null, binding'[k].content # Null
      PROVE  \E r \in Registries : bound'[r][k] = binding'[k].content
  BY <1>1, <1>4 DEF IInv, RowsAreOnChain, Grows
<1> QED
  BY <1>2, <1>3, <1>4 DEF RowsAreOnChain

-----------------------------------------------------------------------------
(* One lemma per action.                                                   *)

\* No request has come: nothing is on the chain, nothing is stored.
LEMMA InitHolds == Init => IInv
<1> SUFFICES ASSUME Init
             PROVE  IInv
  OBVIOUS
<1>1. ChainTypes /\ RowTypes /\ RowsAreOnChain
  BY DEF Init, ChainTypes, RowTypes, RowsAreOnChain
<1>2. Idle \in Request
  BY DEF Idle, Request
<1>3. ASSUME NEW q \in Requests
      PROVE  HandlerOK(q)
  <2>1. request[q] = Idle
    BY DEF Init
  <2>2. /\ Idle.step = "idle" /\ ~Idle.registering /\ Idle.answer = Null
        /\ Idle.nonce = 0 /\ Idle.kind = Null
    BY DEF Idle
  <2>3. Null # "ok"
    BY NullAssumption
  <2>4. Shape(Idle)
    BY <1>2, <2>2, <2>3 DEF Shape, Active
  <2>5. Settled(q, Idle) /\ Waiting(q, Idle)
    BY <2>2, <2>3 DEF Settled, Waiting, Active
  <2>6. Len(mined) = 0 /\ Len(pool) = 0
    BY DEF Init
  <2> QED
    BY <2>1, <2>2, <2>4, <2>5, <2>6 DEF HandlerOK
<1>4. request \in [Requests -> Request] /\ faults \in 0..MaxFaults
  BY <1>2, PublishAssumption DEF Init
<1> QED
  BY <1>1, <1>3, <1>4 DEF IInv

\* A handler that has just begun is a handler.
LEMMA HandlerType ==
    ASSUME NEW k \in Kinds, NEW g \in Registries, NEW h \in Hashes, NEW ks \in Seq(Keys),
           NEW b \in BOOLEAN, NEW s \in Steps
    PROVE  [kind |-> k, registry |-> g, hash |-> h, keys |-> ks, registering |-> b,
            step |-> s, nonce |-> 0, found |-> Null, answer |-> Null] \in Request
BY DEF Request, Steps

\* A request is parsed.
LEMMA ArriveStep == ASSUME IInv, NEW q \in Requests, Arrive(q) PROVE IInv'
<1>1. PICK kind \in Kinds, r \in Registries, h \in Hashes, ks \in BindLists :
       /\ (kind = "bind") => Len(ks) = 1
       /\ (kind = "bind-many") => ks # <<>>
       /\ Becomes(q, Received(kind, r, h, ks))
  BY DEF Arrive
<1> DEFINE new == Received(kind, r, h, ks)
           step == FirstStep(kind)
<1>2. Becomes(q, new)
  BY <1>1
<1>3. /\ new.kind = kind /\ new.registry = r /\ new.hash = h /\ new.keys = ks
      /\ new.nonce = 0 /\ new.found = Null /\ new.answer = Null
      /\ new.step = step
  BY DEF Received
<1>4. new.registering <=> kind \in {"register", "one-shot"}
  BY Zenon DEF Received
<1>5. \/ kind = "register" /\ step = "prepare"
      \/ kind = "one-shot" /\ step = "pin"
      \/ kind \in {"bind", "bind-many"} /\ step = "check" /\ ks # <<>>
  <2>1. ks \in Seq(Keys)
    BY PublishAssumption
  <2>2. kind \in {"bind", "bind-many"} => ks # <<>>
    <3>1. /\ (kind = "bind") => Len(ks) = 1
          /\ (kind = "bind-many") => ks # <<>>
      BY <1>1
    <3>2. Len(<<>>) = 0
      OBVIOUS
    <3> QED
      BY <3>1, <3>2
  <2>3. kind \in {"register", "one-shot", "bind", "bind-many"}
    BY DEF Kinds
  <2> QED
    BY <2>2, <2>3 DEF FirstStep
<1>6. new \in Request
  <2> DEFINE b == kind \in {"register", "one-shot"}
  <2>1. step \in Steps /\ ks \in Seq(Keys) /\ b \in BOOLEAN
    BY <1>5, PublishAssumption DEF Steps
  <2>2. new = [kind |-> kind, registry |-> r, hash |-> h, keys |-> ks, registering |-> b,
               step |-> step, nonce |-> 0, found |-> Null, answer |-> Null]
    BY Zenon DEF Received
  <2> HIDE DEF b, step, new
  <2> QED
    BY <2>1, <2>2, HandlerType
<1> HIDE DEF new
<1>7. Null # "ok"
  BY NullAssumption
<1>8. Shape(new)
  BY <1>3, <1>4, <1>5, <1>6, <1>7 DEF Shape, Active
<1>9. Settled(q, new) /\ Waiting(q, new)
  BY <1>3, <1>4, <1>5, <1>7 DEF Settled, Waiting, Active
<1>10. Standing(q, new)
  BY <1>3, <1>8, <1>9, Now DEF Standing
<1> QED
  BY <1>2, <1>10, Moves, Now DEF Arrive

\* The manifest has been pinned.
LEMMA PinStep == ASSUME IInv, NEW q \in Requests, Pin(q) PROVE IInv'
<1> DEFINE r == request[q]
           e == To(r, "prepare")
<1>1. Standing(q, r) /\ r \in Request /\ r.step = "pin"
  BY Now DEF Pin, At
<1> HIDE DEF r
<1>2. /\ e \in Request /\ e.step = "prepare"
      /\ e.kind = r.kind /\ e.registry = r.registry /\ e.hash = r.hash
      /\ e.keys = r.keys /\ e.registering = r.registering /\ e.nonce = r.nonce
      /\ e.found = r.found /\ e.answer = r.answer
  <2>1. "prepare" \in Steps
    BY DEF Steps
  <2> QED
    BY <1>1, <2>1, ToFields
<1> HIDE DEF e
<1>3. Standing(q, e)
  BY <1>1, <1>2 DEF Standing, Shape, Settled, Waiting, Active, Registered, Bound
<1>4. Becomes(q, e)
  BY DEF Pin, r, e
<1> QED
  BY <1>3, <1>4, Moves, Now DEF Pin

\* The wallet is the entry's creator, or the request is refused.
LEMMA CheckCreatorStep == ASSUME IInv, NEW q \in Requests, CheckCreator(q) PROVE IInv'
<1> DEFINE r == request[q]
           e == To(r, "prepare")
           a == Answer(r, "refused")
<1>1. Standing(q, r) /\ r \in Request /\ r.step = "check"
  BY Now DEF CheckCreator, At
<1>2. Becomes(q, e) \/ Becomes(q, a)
  BY DEF CheckCreator
<1>3. UNCHANGED <<chain, rows, faults>>
  BY DEF CheckCreator
<1> HIDE DEF r
<1>4. /\ e \in Request /\ e.step = "prepare"
      /\ e.kind = r.kind /\ e.registry = r.registry /\ e.hash = r.hash
      /\ e.keys = r.keys /\ e.registering = r.registering /\ e.nonce = r.nonce
      /\ e.found = r.found /\ e.answer = r.answer
  <2>1. "prepare" \in Steps
    BY DEF Steps
  <2> QED
    BY <1>1, <2>1, ToFields
<1>5. /\ a \in Request /\ a.step = "done" /\ a.answer = "refused" /\ a.nonce = 0
      /\ ~a.registering
  BY <1>1, AnswerFields
<1> HIDE DEF e, a
<1>6. Standing(q, e)
  BY <1>1, <1>4 DEF Standing, Shape, Settled, Waiting, Active, Registered, Bound
<1>7. Standing(q, a)
  BY <1>5, Now DEF Standing, Shape, Settled, Waiting, Active
<1> QED
  BY <1>2, <1>3, <1>6, <1>7, Moves, Now

\* A nonce is taken that leaves no gap, or the estimate throws.
LEMMA PrepareStep == ASSUME IInv, NEW q \in Requests, Prepare(q) PROVE IInv'
<1> DEFINE r == request[q]
           d == To(r, "broadcast")
           e == [d EXCEPT !.nonce = PendingCount(q)]
<1>1. Standing(q, r) /\ r \in Request /\ r.step = "prepare"
  BY Now DEF Prepare, At
<1>2. Becomes(q, e) \/ Becomes(q, Throw(r))
  BY DEF Prepare
<1>3. UNCHANGED <<chain, rows, faults>>
  BY DEF Prepare
<1> HIDE DEF r
<1>4. /\ d \in Request /\ d.step = "broadcast"
      /\ d.kind = r.kind /\ d.registry = r.registry /\ d.hash = r.hash
      /\ d.keys = r.keys /\ d.registering = r.registering
      /\ d.found = r.found /\ d.answer = r.answer
  <2>1. "broadcast" \in Steps
    BY DEF Steps
  <2> QED
    BY <1>1, <2>1, ToFields
<1> HIDE DEF d
<1>5. PendingCount(q) \in Nat /\ PendingCount(q) <= Len(mined) + Len(pool)
  BY Now DEF PendingCount
<1>6. /\ e \in Request /\ e.step = "broadcast" /\ e.nonce = PendingCount(q)
      /\ e.kind = r.kind /\ e.registry = r.registry /\ e.hash = r.hash
      /\ e.keys = r.keys /\ e.registering = r.registering
      /\ e.found = r.found /\ e.answer = r.answer
  BY <1>4, <1>5, SetNonce
<1> HIDE DEF e
<1>7. Standing(q, e)
  BY <1>1, <1>5, <1>6 DEF Standing, Shape, Settled, Waiting, Active, Registered, Bound
<1>8. Standing(q, Throw(r))
  BY <1>1, Now, ThrowStands DEF Standing, Active
<1> QED
  BY <1>2, <1>3, <1>7, <1>8, Moves, Now

\* The content's row is read, before the binding's is written.
LEMMA FindContentStep == ASSUME IInv, NEW q \in Requests, FindContent(q) PROVE IInv'
<1> DEFINE r == request[q]
           d == To(r, "link")
           id == IF content[r.hash] = Null THEN Null ELSE r.hash
           e == [d EXCEPT !.found = id]
<1>1. Standing(q, r) /\ r \in Request /\ r.step = "find"
  BY Now DEF FindContent, At
<1>2. Becomes(q, e)
  BY DEF FindContent
<1>3. UNCHANGED <<chain, rows, faults>>
  BY DEF FindContent
<1> HIDE DEF r
<1>4. /\ d \in Request /\ d.step = "link"
      /\ d.kind = r.kind /\ d.registry = r.registry /\ d.hash = r.hash
      /\ d.keys = r.keys /\ d.registering = r.registering
      /\ d.nonce = r.nonce /\ d.answer = r.answer
  <2>1. "link" \in Steps
    BY DEF Steps
  <2> QED
    BY <1>1, <2>1, ToFields
<1>5. id \in {Null, r.hash} /\ id \in Hashes \cup {Null}
  BY <1>1 DEF Standing, Shape, Active
<1> HIDE DEF d, id
<1>6. /\ e \in Request /\ e.step = "link" /\ e.found = id
      /\ e.kind = r.kind /\ e.registry = r.registry /\ e.hash = r.hash
      /\ e.keys = r.keys /\ e.registering = r.registering
      /\ e.nonce = r.nonce /\ e.answer = r.answer
  BY <1>4, <1>5, SetFound
<1> HIDE DEF e
<1>7. Standing(q, e)
  BY <1>1, <1>5, <1>6 DEF Standing, Shape, Settled, Waiting, Active, Registered, Bound
<1> QED
  BY <1>2, <1>3, <1>7, Moves, Now

\* Any call throws: the handler goes where its catch clause does.
LEMMA CallFailsStep == ASSUME IInv, NEW q \in Requests, CallFails(q) PROVE IInv'
<1> DEFINE r == request[q]
           d == [r EXCEPT !.found = Null]
<1>1. Standing(q, r) /\ r \in Request /\ Active(r)
  BY Now DEF CallFails, InFlight, Active
<1>2. Becomes(q, Throw(d)) /\ UNCHANGED <<chain, rows>> /\ faults' \in 0..MaxFaults
  BY Now DEF CallFails
<1> HIDE DEF r
<1>3. /\ d \in Request /\ d.step = r.step /\ d.found = Null
      /\ d.kind = r.kind /\ d.registry = r.registry /\ d.hash = r.hash
      /\ d.keys = r.keys /\ d.registering = r.registering
      /\ d.nonce = r.nonce /\ d.answer = r.answer
  BY <1>1, SetFound
<1> HIDE DEF d
<1>4. Shape(d) /\ Active(d) /\ Settled(q, d)
  BY <1>1, <1>3 DEF Standing, Shape, Settled, Active, Registered, Bound
<1>5. d.nonce <= Len(mined) + Len(pool)
  BY <1>1, <1>3 DEF Standing
<1>6. Standing(q, Throw(d))
  BY <1>4, <1>5, Now, ThrowStands
<1> QED
  BY <1>2, <1>6, Moves

\* The receipt: it is this handler's own transaction, and it succeeded, so
\* its effect is on the chain.
LEMMA WaitStep == ASSUME IInv, NEW q \in Requests, Wait(q) PROVE IInv'
<1> DEFINE r == request[q]
           s == To(r, "store")
           f == To(r, "find")
           d == [r EXCEPT !.registering = FALSE]
           c == Continue(d)
<1>1. Standing(q, r) /\ r \in Request /\ r.step = "wait" /\ r.nonce < Len(mined)
  BY Now DEF Wait, At
<1>2. UNCHANGED <<chain, rows, faults>>
  BY DEF Wait
<1>3. Becomes(q, IF Confirmed(q) THEN AfterReceipt(r) ELSE Throw(r))
  BY DEF Wait
<1>4. Confirmed(q) => IF r.registering THEN Registered(q, r) ELSE Bound(r)
  BY <1>1 DEF Standing, Waiting, Confirmed
<1>5. r.registering => r.kind \in {"register", "one-shot"}
  BY <1>1 DEF Standing, Shape
<1>6. AfterReceipt(r) = IF r.registering
                          THEN IF r.kind = "register" THEN s ELSE c
                          ELSE f
  BY <1>5 DEF AfterReceipt
<1> HIDE DEF r
<1>7. Standing(q, Throw(r))
  BY <1>1, Now, ThrowStands DEF Standing, Active
<1>8. ASSUME r.registering, r.kind = "register", Registered(q, r)
      PROVE  Standing(q, s)
  <2>1. /\ s \in Request /\ s.step = "store"
        /\ s.kind = r.kind /\ s.registry = r.registry /\ s.hash = r.hash
        /\ s.keys = r.keys /\ s.registering = r.registering /\ s.nonce = r.nonce
        /\ s.found = r.found /\ s.answer = r.answer
    <3>1. "store" \in Steps
      BY DEF Steps
    <3> QED
      BY <1>1, <3>1, ToFields
  <2> HIDE DEF s
  <2> QED
    BY <1>1, <1>8, <2>1 DEF Standing, Shape, Settled, Waiting, Active, Registered, Bound
<1>9. ASSUME ~r.registering, Bound(r)
      PROVE  Standing(q, f)
  <2>1. /\ f \in Request /\ f.step = "find"
        /\ f.kind = r.kind /\ f.registry = r.registry /\ f.hash = r.hash
        /\ f.keys = r.keys /\ f.registering = r.registering /\ f.nonce = r.nonce
        /\ f.found = r.found /\ f.answer = r.answer
    <3>1. "find" \in Steps
      BY DEF Steps
    <3> QED
      BY <1>1, <3>1, ToFields
  <2> HIDE DEF f
  <2> QED
    BY <1>1, <1>9, <2>1 DEF Standing, Shape, Settled, Waiting, Active, Registered, Bound
<1>10. ASSUME r.registering, r.kind = "one-shot", Registered(q, r)
       PROVE  Standing(q, c)
  <2>1. r.answer = Null /\ r.registry \in Registries /\ r.hash \in Hashes
    BY <1>1 DEF Standing, Shape, Active
  <2>2. /\ d \in Request /\ ~d.registering /\ d.answer = Null
        /\ d.kind = r.kind /\ d.registry = r.registry /\ d.hash = r.hash
        /\ d.nonce = r.nonce
    BY <1>1, <2>1, SetRegistering
  <2> HIDE DEF d
  <2>3. /\ c \in Request /\ ~c.registering
        /\ c.kind = r.kind /\ c.registry = r.registry /\ c.hash = r.hash
        /\ c.nonce = r.nonce \/ c.nonce = 0
        /\ \/ c.step = "prepare" /\ c.keys # <<>> /\ c.answer = Null
           \/ c.step = "store" /\ c.answer = Null
    BY <1>10, <2>2, ContinueFields
  <2> HIDE DEF c
  <2>4. "one-shot" \in Kinds /\ Null # "ok"
    BY NullAssumption DEF Kinds
  <2>5. Shape(c) /\ Settled(q, c) /\ Waiting(q, c)
    BY <1>10, <2>1, <2>3, <2>4 DEF Shape, Settled, Waiting, Active, Registered
  <2>6. c.nonce <= Len(mined) + Len(pool)
    BY <1>1, <2>3, Now DEF Standing
  <2> QED
    BY <2>5, <2>6 DEF Standing
<1> HIDE DEF s, f, c
<1> QED
  BY <1>2, <1>3, <1>4, <1>5, <1>6, <1>7, <1>8, <1>9, <1>10, Moves, Now

\* Another account registers what nobody has registered.
LEMMA OutsideRegisterStep ==
    ASSUME IInv, NEW r \in Registries, NEW h \in Hashes, OutsideRegister(r, h)
    PROVE  IInv'
<1> DEFINE new == [by |-> Other, manifest |-> Null]
<1>1. /\ registered[r][h] = Null
      /\ registered' = [registered EXCEPT ![r][h] = new]
      /\ UNCHANGED <<bound, pool, mined, content, binding, request, faults>>
  BY DEF OutsideRegister, rows
<1>2. new \in [by : {Wallet, Other}, manifest : Requests \cup {Null}]
  OBVIOUS
<1> HIDE DEF new
<1>3. ChainTypes' /\ RowTypes'
  BY <1>1, <1>2 DEF IInv, ChainTypes, RowTypes
<1>4. Grows /\ RowsGrow
  BY <1>1 DEF Grows, RowsGrow, IInv, ChainTypes
<1>5. RowsAreOnChain'
  BY <1>1, <1>4, RowsStay DEF rows
<1>6. ASSUME NEW q \in Requests
      PROVE  HandlerOK(q)'
  <2>1. PICK r0 : r0 = request[q]
    OBVIOUS
  <2>2. Waiting(q, r0)
    BY <2>1, Now DEF Standing
  <2>3. r0.step = "wait" => Shape(r0) /\ Active(r0) /\ (~r0.registering => r0.keys # <<>>)
    BY <2>1, Now DEF Standing, Shape, Active
  <2>4. Waiting(q, r0)'
    BY <1>1, <1>4, <2>2, <2>3, EffectStays DEF Waiting
  <2> QED
    BY <1>1, <1>4, <2>1, <2>4, Unmoved, Now
<1> QED
  BY <1>1, <1>3, <1>5, <1>6 DEF IInv

\* All requests in flight are lost, the chain and the rows are not.
LEMMA RestartStep == ASSUME IInv, Restart PROVE IInv'
<1>1. /\ faults' \in 0..MaxFaults /\ UNCHANGED <<chain, rows>>
      /\ request' = [q \in Requests |->
           IF InFlight(q) THEN Answer(request[q], "lost") ELSE request[q]]
  BY PublishAssumption DEF Restart, IInv
<1>2. ASSUME NEW q \in Requests
      PROVE  Standing(q, request'[q])
  <2>1. CASE ~InFlight(q)
    <3>1. request'[q] = request[q]
      BY <1>1, <2>1
    <3> QED
      BY <3>1, Now
  <2>2. CASE InFlight(q)
    <3> DEFINE e == Answer(request[q], "lost")
    <3>1. request'[q] = e
      BY <1>1, <2>2
    <3>2. e \in Request /\ e.step = "done" /\ e.answer = "lost" /\ e.nonce = 0 /\ ~e.registering
      BY Now, AnswerFields
    <3> HIDE DEF e
    <3>3. Standing(q, e)
      BY <3>2, Now DEF Standing, Shape, Settled, Waiting, Active
    <3> QED
      BY <3>1, <3>3
  <2> QED
    BY <2>1, <2>2
<1>3. request' \in [Requests -> Request]
  BY <1>1, <1>2 DEF Standing, Shape
<1>4. ASSUME NEW q \in Requests
      PROVE  HandlerOK(q)'
  BY <1>1, <1>2 DEF Standing, HandlerOK, Settled, Waiting, Registered, Bound, chain, rows
<1>5. ChainTypes' /\ RowTypes' /\ RowsAreOnChain'
  BY <1>1 DEF IInv, ChainTypes, RowTypes, RowsAreOnChain, chain, rows
<1> QED
  BY <1>1, <1>3, <1>4, <1>5 DEF IInv

\* The content's row is written for a registration of this handler's own.
LEMMA UpsertContentStep == ASSUME IInv, NEW q \in Requests, UpsertContent(q) PROVE IInv'
<1>1. PICK r : r = request[q]
  OBVIOUS
<1> DEFINE e == Answer(r, "ok")
           row == [registry |-> r.registry, manifest |-> q]
<1>2. Standing(q, r) /\ r \in Request /\ r.step = "store" /\ Active(r)
  BY <1>1, Now DEF UpsertContent, At, Active
<1>3. /\ content' = [content EXCEPT ![r.hash] = row]
      /\ request' = [request EXCEPT ![q] = e]
      /\ UNCHANGED <<registered, bound, pool, mined, binding, faults>>
  BY <1>1 DEF UpsertContent, Becomes, chain
<1>4. r.registry \in Registries /\ r.hash \in Hashes /\ r.kind \in {"register", "one-shot"}
  BY <1>2 DEF Standing, Shape
<1>5. row \in [registry : Registries, manifest : Requests] /\ row # Null
  BY <1>4, NullAssumption
<1>6. /\ e \in Request /\ ~e.registering /\ e.step = "done" /\ e.answer = "ok" /\ e.nonce = 0
      /\ e.kind = r.kind /\ e.registry = r.registry /\ e.hash = r.hash
  BY <1>2, AnswerFields
<1>7. Registered(q, r)
  BY <1>2 DEF Standing, Settled
<1>8. row.registry = r.registry /\ row.manifest = q
  OBVIOUS
<1> HIDE DEF row, e
<1>9. \A h \in Hashes : content'[h] = IF h = r.hash THEN row ELSE content[h]
  BY <1>3 DEF IInv, RowTypes
<1>10. Grows /\ RowsGrow
  BY <1>3, <1>5, <1>9 DEF Grows, RowsGrow
<1>11. ChainTypes' /\ RowTypes'
  BY <1>3, <1>5 DEF IInv, ChainTypes, RowTypes
<1>12. RowsAreOnChain'
  BY <1>3, <1>7, <1>8, <1>9 DEF IInv, RowsAreOnChain, Registered
<1>13. request' \in [Requests -> Request]
  BY <1>3, <1>6 DEF IInv
<1>14. ASSUME NEW p \in Requests
       PROVE  HandlerOK(p)'
  <2>1. CASE p = q
    <3>1. request'[p] = e
      BY <1>3, <2>1 DEF IInv
    <3>2. Shape(e) /\ e.nonce <= Len(mined') + Len(pool')
      BY <1>3, <1>4, <1>6, Now, NullAssumption DEF Shape, Active, Kinds
    <3>3. Settled(q, e)'
      BY <1>3, <1>4, <1>5, <1>6, <1>7, <1>9 DEF Settled, Registered, Active
    <3>4. Waiting(q, e)'
      BY <1>6 DEF Waiting
    <3> QED
      BY <2>1, <3>1, <3>2, <3>3, <3>4 DEF HandlerOK, Settled, Waiting, Registered, Bound
  <2>2. CASE p # q
    <3>1. request'[p] = request[p]
      BY <1>3, <2>2 DEF IInv
    <3>2. PICK o : o = request[p]
      OBVIOUS
    <3>3. Waiting(p, o)'
      BY <1>3, <3>2, Now DEF Standing, Waiting, Registered, Bound
    <3> QED
      BY <1>3, <1>10, <3>1, <3>2, <3>3, Unmoved, Now
  <2> QED
    BY <2>1, <2>2
<1> QED
  BY <1>3, <1>11, <1>12, <1>13, <1>14 DEF IInv

\* The binding's row is written for a post that is bound to its content.
LEMMA UpsertPlatformBindingStep ==
    ASSUME IInv, NEW q \in Requests, UpsertPlatformBinding(q) PROVE IInv'
<1>1. PICK r : r = request[q]
  OBVIOUS
<1> DEFINE k == Head(r.keys)
           d == [r EXCEPT !.found = Null]
           e == NextKey(d)
           row == [content |-> r.found]
<1>2. Standing(q, r) /\ r \in Request /\ r.step = "link" /\ Active(r)
  BY <1>1, Now DEF UpsertPlatformBinding, At, Active
<1>3. /\ binding' = IF binding[k] # Null /\ r.found = Null THEN binding
                    ELSE [binding EXCEPT ![k] = row]
      /\ request' = [request EXCEPT ![q] = e]
      /\ UNCHANGED <<registered, bound, pool, mined, content, faults>>
  BY <1>1 DEF UpsertPlatformBinding, Becomes, chain
<1>4. /\ r.registry \in Registries /\ r.hash \in Hashes /\ r.kind \in Kinds
      /\ ~r.registering /\ r.keys # <<>> /\ r.answer = Null /\ r.kind # "register"
      /\ r.found \in {Null, r.hash} /\ Bound(r)
      /\ r.kind = "one-shot" => Registered(q, r)
  BY <1>2 DEF Standing, Shape, Settled
<1>5. k \in Keys
  BY <1>2, <1>4 DEF Request
<1>6. row \in [content : Hashes \cup {Null}] /\ row # Null /\ row.content = r.found
  BY <1>4, NullAssumption
<1>7. /\ d \in Request /\ d.found = Null
      /\ d.kind = r.kind /\ d.registry = r.registry /\ d.hash = r.hash
      /\ d.keys = r.keys /\ d.registering = r.registering /\ d.step = r.step
      /\ d.nonce = r.nonce /\ d.answer = r.answer
  BY <1>2, SetFound
<1> HIDE DEF d
<1>8. /\ e \in Request /\ ~e.registering
      /\ e.kind = r.kind /\ e.registry = r.registry /\ e.hash = r.hash
      /\ e.nonce = r.nonce \/ e.nonce = 0
      /\ \/ e.step = "prepare" /\ e.keys # <<>> /\ e.answer = Null /\ r.kind # "bind"
         \/ e.step = "store" /\ e.answer = Null /\ r.kind = "one-shot"
         \/ e.step = "done" /\ e.answer = "ok" /\ r.kind = "bind-many"
         \/ e.step = "done" /\ e.answer = "ok" /\ r.kind = "bind" /\ e.keys = r.keys
  <2>1. CASE r.kind = "bind"
    <3>1. e = Answer(d, "ok")
      BY <1>7, <2>1 DEF NextKey
    <3> HIDE DEF e
    <3> QED
      BY <1>7, <2>1, <3>1, AnswerFields
  <2>2. CASE r.kind # "bind"
    BY <1>4, <1>7, <2>2, NextKeyFields DEF Kinds
  <2> QED
    BY <2>1, <2>2
<1> HIDE DEF row, e, k
<1>9. ASSUME NEW j \in Keys
      PROVE  binding'[j] = binding[j] \/ (j = k /\ binding'[j] = row)
  <2>1. CASE binding' = binding
    BY <2>1
  <2>2. CASE binding' = [binding EXCEPT ![k] = row]
    BY <2>2 DEF IInv, RowTypes
  <2> QED
    BY <1>3, <2>1, <2>2
<1>10. binding'[k] # Null
  BY <1>3, <1>5, <1>6 DEF IInv, RowTypes
<1>11. Grows /\ RowsGrow
  BY <1>3, <1>6, <1>9 DEF Grows, RowsGrow
<1>12. ChainTypes' /\ RowTypes'
  BY <1>3, <1>6 DEF IInv, ChainTypes, RowTypes
<1>13. RowsAreOnChain'
  <2>1. bound[r.registry][k] = r.hash /\ r.hash # Null
    BY <1>4, NullAssumption DEF Bound, k
  <2> QED
    BY <1>3, <1>4, <1>6, <1>9, <2>1 DEF IInv, RowsAreOnChain
<1>14. request' \in [Requests -> Request]
  BY <1>3, <1>8 DEF IInv
<1>15. ASSUME NEW p \in Requests
       PROVE  HandlerOK(p)'
  <2>1. CASE p = q
    <3>1. request'[p] = e
      BY <1>3, <2>1 DEF IInv
    <3>2. Null # "ok"
      BY NullAssumption
    <3>3. Shape(e)
      BY <1>4, <1>8, <3>2 DEF Shape, Active
    <3>4. e.nonce <= Len(mined') + Len(pool')
      BY <1>2, <1>3, <1>8, Now DEF Standing
    <3>5. Settled(q, e)'
      BY <1>3, <1>4, <1>8, <1>10, <3>2 DEF Settled, Registered, Bound, Active, k
    <3>6. Waiting(q, e)'
      BY <1>8 DEF Waiting
    <3> QED
      BY <2>1, <3>1, <3>3, <3>4, <3>5, <3>6 DEF HandlerOK, Settled, Waiting, Registered, Bound
  <2>2. CASE p # q
    <3>1. request'[p] = request[p]
      BY <1>3, <2>2 DEF IInv
    <3>2. PICK o : o = request[p]
      OBVIOUS
    <3>3. Waiting(p, o)'
      BY <1>3, <3>2, Now DEF Standing, Waiting, Registered, Bound
    <3> QED
      BY <1>3, <1>11, <3>1, <3>2, <3>3, Unmoved, Now
  <2> QED
    BY <2>1, <2>2
<1> QED
  BY <1>3, <1>12, <1>13, <1>14, <1>15 DEF IInv

\* The transaction a handler sends is well formed and its own.
LEMMA SendingTx ==
    ASSUME IInv, NEW q \in Requests, At(q, "broadcast"), NEW tx, tx = TxOf(q)
    PROVE  /\ tx \in Tx /\ tx.from = q
           /\ tx.op = IF request[q].registering THEN "register" ELSE "bind"
           /\ tx.registry = request[q].registry /\ tx.hash = request[q].hash
           /\ ~request[q].registering => tx.key = Head(request[q].keys) /\ tx.key \in Keys
<1>1. PICK r : r = request[q]
  OBVIOUS
<1>2. r \in Request /\ r.registry \in Registries /\ r.hash \in Hashes
      /\ (~r.registering => r.keys # <<>>)
  BY <1>1, Now DEF Standing, Shape, Active, At
<1>3. ~r.registering => Head(r.keys) \in Keys
  BY <1>2 DEF Request
<1>4. CASE r.registering
  <2>1. tx = [from |-> q, op |-> "register", registry |-> r.registry, hash |-> r.hash,
              key |-> Null]
    BY <1>1, <1>4 DEF TxOf
  <2> QED
    BY <1>1, <1>2, <1>4, <2>1 DEF Tx
<1>5. CASE ~r.registering
  <2>1. tx = [from |-> q, op |-> "bind", registry |-> r.registry, hash |-> r.hash,
              key |-> Head(r.keys)]
    BY <1>1, <1>5 DEF TxOf
  <2> QED
    BY <1>1, <1>2, <1>3, <1>5, <2>1 DEF Tx
<1> QED
  BY <1>4, <1>5

\* The node takes a transaction, at the end of the pool or in place of another.
LEMMA Sent ==
    ASSUME IInv, NEW q \in Requests, At(q, "broadcast"),
           UNCHANGED <<registered, bound, mined, content, binding, faults>>,
           Becomes(q, To(request[q], "wait")),
           NEW i \in 1..Len(pool)+1, i + Len(mined) = request[q].nonce + 1,
           NEW tx, tx = TxOf(q),
           \/ i = Len(pool) + 1 /\ pool' = Append(pool, tx)
           \/ i \in 1..Len(pool) /\ pool' = [pool EXCEPT ![i] = tx]
    PROVE  IInv'
<1>1. PICK r : r = request[q]
  OBVIOUS
<1> DEFINE e == To(r, "wait")
<1>2. Standing(q, r) /\ r \in Request /\ r.step = "broadcast" /\ Active(r)
  BY <1>1, Now DEF At, Active
<1>3. request' = [request EXCEPT ![q] = e]
  BY <1>1 DEF Becomes
<1>4. /\ e \in Request /\ e.step = "wait"
      /\ e.kind = r.kind /\ e.registry = r.registry /\ e.hash = r.hash
      /\ e.keys = r.keys /\ e.registering = r.registering /\ e.nonce = r.nonce
      /\ e.found = r.found /\ e.answer = r.answer
  <2>1. "wait" \in Steps
    BY DEF Steps
  <2> QED
    BY <1>2, <2>1, ToFields
<1> HIDE DEF e
<1>5. /\ tx \in Tx /\ tx.from = q
      /\ tx.op = IF r.registering THEN "register" ELSE "bind"
      /\ tx.registry = r.registry /\ tx.hash = r.hash
      /\ ~r.registering => tx.key = Head(r.keys) /\ tx.key \in Keys
  BY <1>1, SendingTx
<1>6. /\ pool \in Seq(Tx) /\ pool' \in Seq(Tx)
      /\ Len(pool') \in Nat /\ Len(pool) \in Nat /\ Len(mined) \in Nat
      /\ Len(pool) <= Len(pool') /\ i <= Len(pool') /\ Len(pool') <= Len(pool) + 1
      /\ \A j \in 1..Len(pool') : IF j = i THEN pool'[j] = tx
                                 ELSE j \in 1..Len(pool) /\ pool'[j] = pool[j]
  <2>1. pool \in Seq(Tx) /\ Len(pool) \in Nat /\ Len(mined) \in Nat
    BY Now DEF IInv, ChainTypes
  <2>2. CASE i = Len(pool) + 1 /\ pool' = Append(pool, tx)
    <3>1. /\ pool' \in Seq(Tx) /\ Len(pool') = Len(pool) + 1
          /\ \A j \in 1..Len(pool) : pool'[j] = pool[j]
          /\ pool'[Len(pool)+1] = tx
      BY <1>5, <2>1, <2>2, AppendProperties
    <3> QED
      BY <2>1, <2>2, <3>1
  <2>3. CASE i \in 1..Len(pool) /\ pool' = [pool EXCEPT ![i] = tx]
    <3>1. /\ pool' \in Seq(Tx) /\ Len(pool') = Len(pool)
          /\ \A j \in 1..Len(pool) : pool'[j] = IF j = i THEN tx ELSE pool[j]
      BY <1>5, <2>1, <2>3, ExceptSeq
    <3>2. i \in 1..Len(pool)
      BY <2>3
    <3> QED
      BY <2>1, <3>1, <3>2
  <2> QED
    BY <2>2, <2>3
<1>7. ChainTypes' /\ RowTypes'
  <2>1. \A j \in 1..Len(pool') : pool'[j].op = "bind" => pool'[j].key \in Keys
    BY <1>5, <1>6 DEF IInv, ChainTypes
  <2> QED
    BY <1>6, <2>1 DEF IInv, ChainTypes, RowTypes
<1>8. RowsAreOnChain'
  BY DEF IInv, RowsAreOnChain
<1>9. request' \in [Requests -> Request]
  BY <1>3, <1>4 DEF IInv
<1>10. Grows /\ RowsGrow
  BY DEF Grows, RowsGrow
<1>11. ASSUME NEW p \in Requests
       PROVE  HandlerOK(p)'
  <2>1. CASE p = q
    <3>1. request'[p] = e
      BY <1>3, <2>1 DEF IInv
    <3>2. Shape(e)
      BY <1>2, <1>4 DEF Standing, Shape, Active
    <3>3. e.nonce < Len(mined) + Len(pool') /\ Len(mined) <= e.nonce /\ e.nonce \in Nat
      BY <1>1, <1>4, <1>6 DEF Request
    <3>4. Settled(q, e)'
      BY <1>2, <1>4 DEF Standing, Settled, Registered, Bound, Active
    <3>5. Waiting(q, e)'
      BY <1>1, <1>4, <1>5, <1>6, <3>3 DEF Waiting
    <3> QED
      BY <2>1, <3>1, <3>2, <3>3, <3>4, <3>5 DEF HandlerOK, Settled, Waiting, Registered, Bound
  <2>2. CASE p # q
    <3>1. request'[p] = request[p]
      BY <1>3, <2>2 DEF IInv
    <3>2. PICK o : o = request[p]
      OBVIOUS
    <3>3. Waiting(p, o) /\ o.nonce \in Nat
      BY <3>2, Now DEF Standing, Request
    <3>4. Waiting(p, o)'
      <4>1. ASSUME o.step = "wait"
            PROVE  o.nonce < Len(mined) + Len(pool')
        BY <1>6, <3>3, <4>1 DEF Waiting
      <4>2. ASSUME o.step = "wait", NEW j \in 1..Len(pool'),
                   j + Len(mined) = o.nonce + 1, pool'[j].from = p
            PROVE  /\ pool'[j].op = IF o.registering THEN "register" ELSE "bind"
                   /\ pool'[j].registry = o.registry /\ pool'[j].hash = o.hash
                   /\ ~o.registering => pool'[j].key = Head(o.keys)
        <5>1. j \in 1..Len(pool) /\ pool'[j] = pool[j]
          BY <1>5, <1>6, <2>2, <4>2
        <5> QED
          BY <3>3, <4>2, <5>1 DEF Waiting
      <4>3. ASSUME o.step = "wait", o.nonce < Len(mined), mined[o.nonce + 1].from = p,
                   mined[o.nonce + 1].ok
            PROVE  IF o.registering THEN Registered(p, o) ELSE Bound(o)
        BY <3>3, <4>3 DEF Waiting
      <4> QED
        BY <4>1, <4>2, <4>3 DEF Waiting, Registered, Bound
    <3>5. Len(mined') \in Nat /\ Len(mined) + Len(pool) <= Len(mined') + Len(pool')
      BY <1>6
    <3> QED
      BY <1>6, <1>10, <3>1, <3>2, <3>4, <3>5, Unmoved
  <2> QED
    BY <2>1, <2>2
<1> QED
  BY <1>7, <1>8, <1>9, <1>11 DEF IInv

\* The transaction is appended, replaces another, or is refused.
LEMMA BroadcastStep == ASSUME IInv, NEW q \in Requests, Broadcast(q) PROVE IInv'
<1> DEFINE i == request[q].nonce + 1 - Len(mined)
<1>1. Standing(q, request[q]) /\ At(q, "broadcast") /\ Active(request[q])
      /\ Len(mined) \in Nat /\ Len(pool) \in Nat /\ request[q].nonce \in Nat
      /\ request[q].nonce <= Len(mined) + Len(pool)
  BY Now DEF Broadcast, Standing, At, Active, Request
<1>2. /\ UNCHANGED <<registered, bound, mined, content, binding, faults>>
      /\ \/ i = Len(pool) + 1 /\ pool' = Append(pool, TxOf(q)) /\ Becomes(q, To(request[q], "wait"))
         \/ i \in DOMAIN pool /\ pool' = [pool EXCEPT ![i] = TxOf(q)] /\ Becomes(q, To(request[q], "wait"))
         \/ pool' = pool /\ Becomes(q, Throw(request[q]))
  BY DEF Broadcast, rows
<1>3. CASE pool' = pool /\ Becomes(q, Throw(request[q]))
  <2>1. Standing(q, Throw(request[q]))
    BY <1>1, ThrowStands DEF Standing
  <2> QED
    BY <1>2, <1>3, <2>1, Moves, Now DEF chain, rows
<1>4. CASE i = Len(pool) + 1 /\ pool' = Append(pool, TxOf(q)) /\ Becomes(q, To(request[q], "wait"))
  <2>1. i \in 1..Len(pool)+1 /\ i + Len(mined) = request[q].nonce + 1
    BY <1>1, <1>4
  <2> HIDE DEF i
  <2> QED
    BY <1>1, <1>2, <1>4, <2>1, Sent
<1>5. CASE i \in DOMAIN pool /\ pool' = [pool EXCEPT ![i] = TxOf(q)] /\ Becomes(q, To(request[q], "wait"))
  <2>1. DOMAIN pool = 1..Len(pool)
    BY DEF IInv, ChainTypes
  <2>2. i \in 1..Len(pool) /\ i \in 1..Len(pool)+1 /\ i + Len(mined) = request[q].nonce + 1
    BY <1>1, <1>5, <2>1
  <2> HIDE DEF i
  <2> QED
    BY <1>1, <1>2, <1>5, <2>2, Sent
<1> QED
  BY <1>2, <1>3, <1>4, <1>5

\* A block takes the first transaction: what others have settled stays, and
\* its sender finds its effect.
LEMMA MineStep == ASSUME IInv, Mine PROVE IInv'
<1>1. PICK tx : tx = Head(pool)
  OBVIOUS
<1>2. PICK ok : ok = Allowed(tx)
  OBVIOUS
<1> DEFINE new == [by |-> Wallet, manifest |-> tx.from]
           block == [from |-> tx.from, ok |-> ok]
<1>3. /\ pool # <<>> /\ pool' = Tail(pool)
      /\ mined' = Append(mined, block)
      /\ registered' = IF tx.op = "register" /\ ok
                       THEN [registered EXCEPT ![tx.registry][tx.hash] = new]
                       ELSE registered
      /\ bound' = IF tx.op = "bind" /\ ok
                  THEN [bound EXCEPT ![tx.registry][tx.key] = tx.hash] ELSE bound
      /\ UNCHANGED <<content, binding, request, faults>>
  BY <1>1, <1>2 DEF Mine, rows
<1>4. pool \in Seq(Tx) /\ mined \in Seq([from : Requests, ok : BOOLEAN])
      /\ Len(mined) \in Nat /\ Len(pool) \in Nat
  BY Now DEF IInv, ChainTypes
<1>5. /\ pool' \in Seq(Tx) /\ Len(pool') = Len(pool) - 1 /\ tx \in Tx /\ tx = pool[1]
      /\ 1 \in 1..Len(pool) /\ Len(pool') \in Nat
      /\ \A i \in 1..Len(pool') : pool'[i] = pool[i + 1] /\ i + 1 \in 1..Len(pool)
  <2>1. /\ tx \in Tx /\ pool' \in Seq(Tx) /\ Len(pool') = Len(pool) - 1
        /\ \A i \in 1..Len(pool') : pool'[i] = pool[i + 1]
    BY <1>1, <1>3, <1>4, HeadTailProperties
  <2>2. Len(pool) >= 1
    BY <1>3, <1>4, EmptySeq
  <2>3. tx = pool[1]
    BY <1>1
  <2> QED
    BY <1>4, <2>1, <2>2, <2>3
<1>6. /\ tx.from \in Requests /\ tx.op \in {"register", "bind"}
      /\ tx.registry \in Registries /\ tx.hash \in Hashes
      /\ tx.op = "bind" => tx.key \in Keys
  BY <1>5 DEF Tx, IInv, ChainTypes
<1>7. ok \in BOOLEAN
  BY <1>2 DEF Allowed
<1>8. /\ mined' \in Seq([from : Requests, ok : BOOLEAN]) /\ Len(mined') = Len(mined) + 1
      /\ \A i \in 1..Len(mined) : mined'[i] = mined[i]
      /\ mined'[Len(mined) + 1] = block
  <2>1. block \in [from : Requests, ok : BOOLEAN]
    BY <1>6, <1>7
  <2> HIDE DEF block
  <2> QED
    BY <1>3, <1>4, <2>1, AppendProperties
<1>9. block.from = tx.from /\ (block.ok <=> ok)
  BY <1>7
<1>10. new \in [by : {Wallet, Other}, manifest : Requests \cup {Null}] /\ new # Null
  BY <1>6, NullAssumption
<1> HIDE DEF block
<1>11. /\ tx.op = "register" /\ ok => registered[tx.registry][tx.hash] = Null
       /\ tx.op = "bind" /\ ok => bound[tx.registry][tx.key] = Null
  BY <1>2, <1>6 DEF Allowed
<1>12. \A r \in Registries, h \in Hashes :
         registered'[r][h] = IF tx.op = "register" /\ ok /\ r = tx.registry /\ h = tx.hash
                             THEN new ELSE registered[r][h]
  <2> HIDE DEF new
  <2> QED
    BY <1>3, <1>6 DEF IInv, ChainTypes
<1>13. \A r \in Registries, k \in Keys :
         bound'[r][k] = IF tx.op = "bind" /\ ok /\ r = tx.registry /\ k = tx.key
                        THEN tx.hash ELSE bound[r][k]
  BY <1>3, <1>6 DEF IInv, ChainTypes
<1>14. Grows
  BY <1>11, <1>12, <1>13 DEF Grows
<1>15. RowsGrow
  BY <1>3 DEF RowsGrow
<1>16. ChainTypes'
  <2>1. registered' \in [Registries -> [Hashes -> {Null} \union
          [by : {Wallet, Other}, manifest : Requests \union {Null}]]]
    <3> HIDE DEF new
    <3> QED
      BY <1>3, <1>6, <1>10 DEF IInv, ChainTypes
  <2>2. bound' \in [Registries -> [Keys -> Hashes \union {Null}]]
    BY <1>3, <1>6 DEF IInv, ChainTypes
  <2>3. \A i \in 1..Len(pool') : pool'[i].op = "bind" => pool'[i].key \in Keys
    BY <1>5 DEF IInv, ChainTypes
  <2> QED
    BY <1>5, <1>8, <2>1, <2>2, <2>3 DEF ChainTypes
<1>17. RowTypes' /\ RowsAreOnChain'
  BY <1>3, <1>14, RowsStay DEF IInv, RowTypes, rows
<1>18. ASSUME NEW q \in Requests
       PROVE  HandlerOK(q)'
  <2>1. PICK r : r = request[q]
    OBVIOUS
  <2>2. Standing(q, r) /\ r.nonce \in Nat
    BY <2>1, Now DEF Request
  <2>3. ASSUME r.step = "wait"
        PROVE  /\ Shape(r) /\ Active(r) /\ (~r.registering => r.keys # <<>>)
               /\ r.registry \in Registries /\ r.hash \in Hashes
               /\ (~r.registering => Head(r.keys) \in Keys)
    <3>1. /\ Shape(r) /\ Active(r) /\ (~r.registering => r.keys # <<>>) /\ r.keys \in Seq(Keys)
          /\ r.registry \in Registries /\ r.hash \in Hashes
      BY <2>2, <2>3 DEF Standing, Shape, Active, Request
    <3> QED
      BY <3>1
  <2>4. ASSUME r.step = "wait"
        PROVE  r.nonce < Len(mined') + Len(pool')
    BY <1>4, <1>5, <1>8, <2>2, <2>4 DEF Standing, Waiting
  <2>5. ASSUME r.step = "wait", NEW i \in 1..Len(pool'),
               i + Len(mined') = r.nonce + 1, pool'[i].from = q
        PROVE  /\ pool'[i].op = IF r.registering THEN "register" ELSE "bind"
               /\ pool'[i].registry = r.registry /\ pool'[i].hash = r.hash
               /\ ~r.registering => pool'[i].key = Head(r.keys)
    <3>1. pool'[i] = pool[i + 1] /\ i + 1 \in 1..Len(pool) /\ i + 1 + Len(mined) = r.nonce + 1
      BY <1>4, <1>5, <1>8, <2>2, <2>5
    <3> QED
      BY <2>2, <2>5, <3>1 DEF Standing, Waiting
  <2>6. ASSUME r.step = "wait", r.nonce < Len(mined'), mined'[r.nonce + 1].from = q,
               mined'[r.nonce + 1].ok
        PROVE  IF r.registering THEN Registered(q, r)' ELSE Bound(r)'
    <3>1. CASE r.nonce < Len(mined)
      <4>1. mined'[r.nonce + 1] = mined[r.nonce + 1]
        BY <1>4, <1>8, <2>2, <3>1
      <4> QED
        BY <1>14, <2>2, <2>3, <2>6, <3>1, <4>1, EffectStays DEF Standing, Waiting
    <3>2. CASE r.nonce = Len(mined)
      <4>1. tx.from = q /\ ok
        BY <1>8, <1>9, <2>6, <3>2
      <4>2. /\ tx.op = IF r.registering THEN "register" ELSE "bind"
            /\ tx.registry = r.registry /\ tx.hash = r.hash
            /\ ~r.registering => tx.key = Head(r.keys)
        <5>1. 1 + Len(mined) = r.nonce + 1
          BY <1>4, <3>2
        <5> QED
          BY <1>5, <2>2, <2>6, <4>1, <5>1 DEF Standing, Waiting
      <4> QED
        BY <1>12, <1>13, <2>3, <2>6, <4>1, <4>2 DEF Registered, Bound
    <3> QED
      BY <1>4, <1>8, <2>2, <2>6, <3>1, <3>2
  <2>7. Waiting(q, r)'
    BY <2>4, <2>5, <2>6 DEF Waiting
  <2> QED
    BY <1>3, <1>4, <1>5, <1>8, <1>14, <1>15, <2>1, <2>7, Unmoved
<1> QED
  BY <1>3, <1>16, <1>17, <1>18 DEF IInv

\* IInv is inductive.
LEMMA NextKeeps == IInv /\ [Next]_vars => IInv'
<1> SUFFICES ASSUME IInv, [Next]_vars
             PROVE  IInv'
  OBVIOUS
<1>1. ASSUME NEW q \in Requests, Arrive(q)
      PROVE  IInv'
  BY <1>1, ArriveStep
<1>2. ASSUME NEW q \in Requests, Handle(q)
      PROVE  IInv'
  BY <1>2, PinStep, CheckCreatorStep, PrepareStep, BroadcastStep, WaitStep, FindContentStep,
     UpsertPlatformBindingStep, UpsertContentStep DEF Handle
<1>3. ASSUME NEW q \in Requests, CallFails(q)
      PROVE  IInv'
  BY <1>3, CallFailsStep
<1>4. CASE Mine
  BY <1>4, MineStep
<1>5. CASE Restart
  BY <1>5, RestartStep
<1>6. ASSUME NEW r \in Registries, NEW h \in Hashes, OutsideRegister(r, h)
      PROVE  IInv'
  BY <1>6, OutsideRegisterStep
<1>7. CASE UNCHANGED vars
  <2>1. UNCHANGED <<registered, bound, pool, mined, content, binding, request, faults>>
    BY <1>7 DEF vars
  <2> QED
    BY <2>1 DEF IInv, ChainTypes, RowTypes, RowsAreOnChain, HandlerOK, Settled, Waiting,
                Registered, Bound
<1> QED
  BY <1>1, <1>2, <1>3, <1>4, <1>5, <1>6, <1>7 DEF Next, Quiet

\* IInv holds in every reachable state.
LEMMA Invariance == Spec => []IInv
BY InitHolds, NextKeeps, PTL DEF Spec

\* Every variable has its type and no handler's nonce leaves a gap, whatever
\* the sets of requests, registries, contents and posts are.
THEOREM TypeCorrect == Spec => []TypeOK
<1>1. IInv => TypeOK
  BY DEF IInv, ChainTypes, RowTypes, HandlerOK, TypeOK
<1> QED
  BY <1>1, Invariance, PTL

\* The database never runs ahead of the chain or mixes two registrations: the
\* rows that /register, /bind, /bind-many and /one-shot leave are on the chain,
\* for any number of requests, registries, replaced transactions and failures.
THEOREM RowsStayOnChain == Spec => []RowsAreOnChain
<1>1. IInv => RowsAreOnChain
  BY DEF IInv
<1> QED
  BY <1>1, Invariance, PTL

\* An answer of success is true: what was registered or bound is on the chain
\* and has its row, and stays so.
THEOREM OkMeansPublished == Spec => []AnswersAreTrue
<1>1. IInv => AnswersAreTrue
  BY DEF IInv, HandlerOK, Settled, AnswersAreTrue, Registered, Bound
<1> QED
  BY <1>1, Invariance, PTL

-----------------------------------------------------------------------------
(***************************************************************************)
(* What is astray: rows the database lacks for what is on the chain that   *)
(* no handler is on its way to write, and transactions that will be mined  *)
(* with nobody to wait for them.  Each was cut off by a failing call, or   *)
(* by a restart, which cuts off two for a handler at most: the content of  *)
(* a one-shot request and the binding it is at.                            *)
(***************************************************************************)

\* What may be missing: the row of a content, the row of a binding, and the write
\* a transaction is the cause of.
Things == ({"content"} \X Hashes) \cup ({"binding"} \X Keys) \cup ({"tx"} \X Nat)

\* Missing from the database, or waiting for a block.
Open(x) ==
  \/ x[1] = "content" /\ x[2] \in MissingContents
  \/ x[1] = "binding" /\ x[2] \in MissingBindings
  \/ x[1] = "tx" /\ Len(mined) <= x[2] /\ x[2] < Len(mined) + Len(pool)

\* Its own transaction is in a block (mi) and succeeded.
Took(q, r, mi) == r.nonce < Len(mi) /\ mi[r.nonce + 1].from = q /\ mi[r.nonce + 1].ok

\* Its own transaction waits in the pool (po).
Sending(q, r, mi, po) == \E i \in 1..Len(po) : i + Len(mi) = r.nonce + 1 /\ po[i].from = q

\* A handler that stands at r will write this row, or waits for this transaction.
MindsContent(q, r, h, mi) ==
  /\ h = r.hash
  /\ \/ Active(r) /\ r.kind = "one-shot" /\ ~r.registering
     \/ r.step = "store"
     \/ r.registering /\ r.step = "wait" /\ Took(q, r, mi)
MindsBinding(q, r, k, mi) ==
  /\ ~r.registering /\ r.keys # <<>> /\ k = Head(r.keys)
  /\ r.step \in {"find", "link"} \/ (r.step = "wait" /\ Took(q, r, mi))
MindsTx(q, r, n, mi, po) == r.step = "wait" /\ n = r.nonce /\ Sending(q, r, mi, po)

\* Handler r of q is on its way to write x; mi and po are the chain.
Minds(q, r, x, mi, po) ==
  \/ x[1] = "content" /\ MindsContent(q, r, x[2], mi)
  \/ x[1] = "binding" /\ MindsBinding(q, r, x[2], mi)
  \/ x[1] = "tx" /\ MindsTx(q, r, x[2], mi, po)

\* What is missing and no handler minds.
Astray == {x \in Things : Open(x) /\ \A q \in Requests : ~Minds(q, request[q], x, mined, pool)}

\* Requests a restart cut off, and requests that have begun.
Lost == {q \in Requests : request[q].answer = "lost"}
Begun == {q \in Requests : request[q].step # "idle"}

\* Each fault leads astray one thing, each lost request at most two.
Tally ==
  /\ IsFiniteSet(Astray) /\ IsFiniteSet(Begun)
  /\ Cardinality(Astray) <= faults + 2 * Cardinality(Lost)

\* A thing has a tag and a name.
LEMMA ThingIs ==
    ASSUME NEW x \in Things
    PROVE  /\ x = <<x[1], x[2]>> /\ x[1] \in {"content", "binding", "tx"}
           /\ x[1] = "content" => x[2] \in Hashes
           /\ x[1] = "binding" => x[2] \in Keys
           /\ x[1] = "tx" => x[2] \in Nat
  BY DEF Things

\* An image is no larger.
LEMMA ImageIsNoLarger ==
    ASSUME NEW S, IsFiniteSet(S), NEW f, NEW T, T = {f[x] : x \in S}
    PROVE  IsFiniteSet(T) /\ Cardinality(T) <= Cardinality(S)
<1> DEFINE g == [x \in S |-> f[x]]
<1>1. g \in Surjection(S, T)
  BY DEF Surjection
<1> QED
  BY <1>1, FS_Surjection

\* One more element.
LEMMA OneMore ==
    ASSUME NEW S, IsFiniteSet(S), NEW T, NEW y, T \subseteq S \cup {y}
    PROVE  /\ IsFiniteSet(T) /\ Cardinality(T) \in Nat /\ Cardinality(S) \in Nat
           /\ Cardinality(T) <= Cardinality(S) + 1
<1>1. IsFiniteSet(S \cup {y}) /\ Cardinality(S \cup {y}) <= Cardinality(S) + 1 /\ Cardinality(S) \in Nat
  <2>1. Cardinality(S) \in Nat
    BY FS_CardinalityType
  <2>2. IsFiniteSet(S \cup {y})
    BY FS_AddElement
  <2>3. Cardinality(S \cup {y}) = IF y \in S THEN Cardinality(S) ELSE Cardinality(S) + 1
    BY FS_AddElement
  <2> QED
    BY <2>1, <2>2, <2>3
<1>2. IsFiniteSet(T) /\ Cardinality(T) <= Cardinality(S \cup {y})
  BY <1>1, FS_Subset
<1>3. Cardinality(T) \in Nat /\ Cardinality(S \cup {y}) \in Nat
  BY <1>1, <1>2, FS_CardinalityType
<1> QED
  BY <1>1, <1>2, <1>3

\* One goes and one comes.
LEMMA OneForOne ==
    ASSUME NEW S, IsFiniteSet(S), NEW T, NEW x \in S, NEW y, T \subseteq (S \ {x}) \cup {y}
    PROVE  IsFiniteSet(T) /\ Cardinality(T) <= Cardinality(S)
<1>1. IsFiniteSet(S \ {x}) /\ Cardinality(S \ {x}) = Cardinality(S) - 1 /\ Cardinality(S) \in Nat
  BY FS_RemoveElement, FS_CardinalityType
<1>2. IsFiniteSet(T) /\ Cardinality(T) <= Cardinality(S \ {x}) + 1
  BY <1>1, OneMore
<1>3. Cardinality(T) \in Nat
  BY <1>2, FS_CardinalityType
<1> QED
  BY <1>1, <1>2, <1>3

\* A union is no larger than both.
LEMMA UnionIsNoLarger ==
    ASSUME NEW S, IsFiniteSet(S), NEW T, IsFiniteSet(T)
    PROVE  /\ IsFiniteSet(S \cup T) /\ Cardinality(S \cup T) \in Nat
           /\ Cardinality(S) \in Nat /\ Cardinality(T) \in Nat
           /\ Cardinality(S \cup T) <= Cardinality(S) + Cardinality(T)
<1>1. IsFiniteSet(S \cup T) /\ Cardinality(S) \in Nat /\ Cardinality(T) \in Nat
  BY FS_Union, FS_CardinalityType
<1>2. Cardinality(S \cup T) \in Nat
  BY <1>1, FS_CardinalityType
<1>3. Cardinality(S \cup T) = Cardinality(S) + Cardinality(T) - Cardinality(S \cap T)
  BY FS_Union
<1>4. Cardinality(S \cap T) \in Nat
  <2>1. IsFiniteSet(S \cap T)
    BY FS_Intersection
  <2> QED
    BY <2>1, FS_CardinalityType
<1> QED
  BY <1>1, <1>2, <1>3, <1>4

\* Requests that a restart cut off had begun, and only so many begin.
LEMMA LostIsFinite ==
    ASSUME IInv, Tally
    PROVE  IsFiniteSet(Lost) /\ Cardinality(Lost) \in Nat
<1>1. \A p \in Requests : request[p].answer = "lost" => request[p].step # "idle"
  BY Now, NullAssumption DEF Standing, Shape
<1>2. Lost \subseteq Begun
  BY <1>1 DEF Lost, Begun
<1>3. IsFiniteSet(Lost)
  BY <1>2, FS_Subset DEF Tally
<1> QED
  BY <1>3, FS_CardinalityType

\* What Tally needs to know of a step that loses nothing.
LEMMA Steady ==
    ASSUME IInv, Tally, Astray' \subseteq Astray, Lost' = Lost, NEW q, Begun' \subseteq Begun \cup {q},
           faults' = faults
    PROVE  Tally'
<1>1. IsFiniteSet(Astray') /\ Cardinality(Astray') <= Cardinality(Astray) /\ IsFiniteSet(Begun')
      /\ Cardinality(Astray) \in Nat /\ Cardinality(Astray') \in Nat
  BY FS_Subset, OneMore, FS_CardinalityType DEF Tally
<1>2. faults \in Nat
  BY DEF IInv
<1>4. Cardinality(Lost) \in Nat
  BY LostIsFinite
<1>5. Cardinality(Astray) <= faults + 2 * Cardinality(Lost)
  BY DEF Tally
<1>6. Cardinality(Astray') <= faults' + 2 * Cardinality(Lost')
  BY <1>1, <1>2, <1>4, <1>5
<1> QED
  BY <1>1, <1>6 DEF Tally

\* One handler moves: what is lost, what has begun.
LEMMA OneHandlerMoves ==
    ASSUME IInv, NEW q \in Requests, NEW e, Becomes(q, e), request[q].step # "done", e.answer # "lost"
    PROVE  Lost' = Lost /\ Begun' \subseteq Begun \cup {q}
           /\ request'[q] = e /\ \A p \in Requests : p # q => request'[p] = request[p]
<1>1. request'[q] = e /\ \A p \in Requests : p # q => request'[p] = request[p]
  BY DEF Becomes, IInv
<1>2. request[q].answer # "lost"
  BY Now, NullAssumption DEF Standing, Shape
<1>3. \A p \in Requests : request'[p].answer = "lost" <=> request[p].answer = "lost"
  BY <1>1, <1>2
<1>4. Lost' = Lost
  BY <1>3 DEF Lost
<1>5. Begun' \subseteq Begun \cup {q}
  BY <1>1 DEF Begun
<1> QED
  BY <1>1, <1>4, <1>5

\* One handler moves, and no more is missing: what is astray then and was not
\* is what the handler minded before and does not mind any more.
LEMMA AstrayBy ==
    ASSUME IInv, NEW q \in Requests, NEW e, Becomes(q, e), UNCHANGED <<mined, pool>>,
           \A x \in Things : Open(x)' => Open(x), NEW Y,
           \A x \in Things : Open(x)' /\ Minds(q, request[q], x, mined, pool)
                                => Minds(q, e, x, mined, pool) \/ x \in Y
    PROVE  Astray' \subseteq Astray \cup Y
<1>1. request'[q] = e /\ \A p \in Requests : p # q => request'[p] = request[p]
  BY DEF Becomes, IInv
<1>2. ASSUME NEW x \in Astray', x \notin Y
      PROVE  x \in Astray
  <2>1. x \in Things /\ Open(x)' /\ \A p \in Requests : ~Minds(p, request'[p], x, mined', pool')
    BY <1>2 DEF Astray
  <2>2. \A p \in Requests : ~Minds(p, request'[p], x, mined, pool)
    BY <2>1
  <2>3. ~Minds(q, request[q], x, mined, pool)
    BY <1>1, <1>2, <2>1, <2>2
  <2>4. \A p \in Requests : ~Minds(p, request[p], x, mined, pool)
    BY <1>1, <2>2, <2>3
  <2> QED
    BY <2>1, <2>4 DEF Astray
<1> QED
  BY <1>2

\* Nothing that is written or not written on the chain or in the database.
LEMMA OpenRests ==
    ASSUME UNCHANGED <<chain, rows>>
    PROVE  UNCHANGED <<mined, pool>> /\ \A x \in Things : Open(x)' => Open(x)
  BY DEF chain, rows, Open, MissingContents, MissingBindings

\* A handler moves, and minds what it minded.
LEMMA MovesTally ==
    ASSUME IInv, Tally, NEW q \in Requests, NEW e, Becomes(q, e), request[q].step # "done",
           e.answer # "lost", UNCHANGED <<chain, rows, faults>>,
           \A x \in Things : Minds(q, request[q], x, mined, pool) => Minds(q, e, x, mined, pool)
    PROVE  Tally'
<1>1. UNCHANGED <<mined, pool>> /\ \A x \in Things : Open(x)' => Open(x)
  BY OpenRests
<1> PICK Y : Y = {}
  OBVIOUS
<1>2. Astray' \subseteq Astray \cup Y
  BY <1>1, AstrayBy
<1>3. Lost' = Lost /\ Begun' \subseteq Begun \cup {q}
  BY OneHandlerMoves
<1> QED
  BY <1>2, <1>3, Steady

\* A handler without a transaction of its own minds its content's row only.
LEMMA MindsBeforeReceipt ==
    ASSUME NEW q \in Requests, NEW r, Shape(r), Active(r), NEW x \in Things,
           r.step \notin {"wait", "find", "link", "store"},
           Minds(q, r, x, mined, pool)
    PROVE  /\ x = <<"content", r.hash>> /\ r.kind = "one-shot" /\ ~r.registering
           /\ r.step \notin {"pin", "check"}
  BY ThingIs DEF Minds, MindsContent, MindsBinding, MindsTx, Shape

\* What a one-shot request that has registered minds until its content is stored.
LEMMA OneShotMinds ==
    ASSUME NEW q, NEW e, Active(e), e.kind = "one-shot", ~e.registering
    PROVE  Minds(q, e, <<"content", e.hash>>, mined, pool)
  BY DEF Minds, MindsContent

\* An exception inside the loop of a one-shot request leaves it in flight.
LEMMA ThrowMinds ==
    ASSUME NEW q \in Requests, NEW r, Shape(r), Active(r), r.step # "store",
           r.kind = "one-shot", ~r.registering
    PROVE  Minds(q, Throw(r), <<"content", r.hash>>, mined, pool)
<1>1. r \in Request /\ r.answer = Null /\ r.keys # <<>> /\ r.step # "check"
  BY DEF Shape, Active
<1>2. Throw(r) = NextKey(r)
  BY <1>1 DEF Throw
<1> PICK e : e = NextKey(r)
  OBVIOUS
<1>3. e.kind = "one-shot" /\ ~e.registering /\ e.hash = r.hash /\ e.step \in {"prepare", "store"}
  BY <1>1, NextKeyFields
<1>4. Minds(q, e, <<"content", e.hash>>, mined, pool)
  BY <1>3, OneShotMinds DEF Active
<1> QED
  BY <1>2, <1>3, <1>4

\* An exception does not lose an answer.
LEMMA ThrowAnswers ==
    ASSUME NEW r, Shape(r), Active(r)
    PROVE  Throw(r).answer # "lost"
  BY ThrowFields, NullAssumption

\* A request comes.
LEMMA ArriveTally ==
    ASSUME IInv, Tally, NEW q \in Requests, Arrive(q)
    PROVE  Tally'
<1>1. PICK kind \in Kinds, g \in Registries, h \in Hashes, ks \in BindLists : Becomes(q, Received(kind, g, h, ks))
  BY DEF Arrive
<1> PICK e : e = Received(kind, g, h, ks)
  OBVIOUS
<1>2. e.answer # "lost"
  BY NullAssumption DEF Received
<1>3. request[q].step = "idle" /\ UNCHANGED <<chain, rows, faults>>
  BY DEF Arrive, At
<1>4. Shape(request[q])
  BY Now DEF Standing
<1>5. \A x \in Things : ~Minds(q, request[q], x, mined, pool)
  BY <1>3, <1>4 DEF Minds, MindsContent, MindsBinding, MindsTx, Active
<1> QED
  BY <1>1, <1>2, <1>3, <1>5, MovesTally

\* Before it has anything to wait for, a handler goes on or throws.
LEMMA EarlyTally ==
    ASSUME IInv, Tally, NEW q \in Requests, Pin(q) \/ CheckCreator(q) \/ Prepare(q)
    PROVE  Tally'
<1> PICK r : r = request[q]
  OBVIOUS
<1>1. Shape(r) /\ Active(r) /\ r \in Request /\ r.step \in {"pin", "check", "prepare"}
  BY Now DEF Standing, Pin, CheckCreator, Prepare, At, Active
<1>2. UNCHANGED <<chain, rows, faults>>
  BY DEF Pin, CheckCreator, Prepare
<1> PICK n : n = PendingCount(q)
  OBVIOUS
<1>3. n \in Nat
  BY Now DEF PendingCount
<1>4. PICK e : /\ Becomes(q, e)
               /\ \/ r.step = "pin" /\ e = To(r, "prepare")
                  \/ r.step = "check" /\ (e = To(r, "prepare") \/ e = Answer(r, "refused"))
                  \/ r.step = "prepare" /\ (e = [To(r, "broadcast") EXCEPT !.nonce = n] \/ e = Throw(r))
  BY DEF Pin, CheckCreator, Prepare, At
<1>5. r.answer = Null /\ Null # "lost"
  BY <1>1, NullAssumption DEF Shape, Active
<1>6. e.answer # "lost"
  <2>1. CASE e = To(r, "prepare")
    BY <1>1, <1>5, <2>1, ToFields DEF Steps
  <2>2. CASE e = Answer(r, "refused")
    BY <1>1, <2>2, AnswerFields
  <2>3. CASE e = [To(r, "broadcast") EXCEPT !.nonce = n]
    <3> PICK d : d = To(r, "broadcast")
      OBVIOUS
    <3>1. d \in Request /\ d.answer = Null
      BY <1>1, <1>5, ToFields DEF Steps
    <3>2. e = [d EXCEPT !.nonce = n]
      BY <2>3
    <3> QED
      BY <1>3, <1>5, <3>1, <3>2, SetNonce
  <2>4. CASE e = Throw(r)
    BY <1>1, <2>4, ThrowAnswers
  <2> QED
    BY <1>4, <2>1, <2>2, <2>3, <2>4
<1>7. ASSUME NEW x \in Things, Minds(q, r, x, mined, pool)
      PROVE  Minds(q, e, x, mined, pool)
  <2>1. /\ x = <<"content", r.hash>> /\ r.kind = "one-shot" /\ ~r.registering
        /\ r.step \notin {"pin", "check"}
    BY <1>1, <1>7, MindsBeforeReceipt
  <2>2. CASE e = Throw(r)
    BY <1>1, <2>1, <2>2, ThrowMinds
  <2>3. CASE e = [To(r, "broadcast") EXCEPT !.nonce = n]
    <3> PICK d : d = To(r, "broadcast")
      OBVIOUS
    <3>1. d \in Request /\ d.step = "broadcast" /\ d.kind = r.kind /\ d.hash = r.hash /\ d.registering = r.registering
      BY <1>1, ToFields DEF Steps
    <3>2. e = [d EXCEPT !.nonce = n]
      BY <2>3
    <3>3. e.step = "broadcast" /\ e.kind = "one-shot" /\ ~e.registering /\ e.hash = r.hash
      BY <1>3, <2>1, <3>1, <3>2, SetNonce
    <3> QED
      BY <2>1, <3>3, OneShotMinds DEF Active
  <2> QED
    BY <1>1, <1>4, <2>1, <2>2, <2>3
<1>8. request[q].step # "done"
  BY <1>1
<1> QED
  BY <1>2, <1>4, <1>6, <1>7, <1>8, MovesTally

\* The receipt: what the handler waited for it goes on to write.
LEMMA WaitTally ==
    ASSUME IInv, Tally, NEW q \in Requests, Wait(q)
    PROVE  Tally'
<1> PICK r : r = request[q]
  OBVIOUS
<1>1. Shape(r) /\ Active(r) /\ r \in Request /\ r.step = "wait" /\ r.nonce < Len(mined) /\ r.nonce \in Nat
      /\ Len(mined) \in Nat /\ Len(pool) \in Nat
  BY Now DEF Standing, Wait, At, Active, Request
<1>2. UNCHANGED <<chain, rows, faults>>
  BY DEF Wait
<1>3. Confirmed(q) <=> Took(q, r, mined)
  BY <1>1 DEF Confirmed, Took
<1>4. PICK e : Becomes(q, e) /\ e = IF Confirmed(q) THEN AfterReceipt(r) ELSE Throw(r)
  BY DEF Wait
<1>5. r.answer = Null /\ Null # "lost" /\ (r.registering => r.kind \in {"register", "one-shot"})
      /\ (r.kind = "register" => r.registering)
  BY <1>1, NullAssumption DEF Shape
<1>6. ~Sending(q, r, mined, pool)
  BY <1>1 DEF Sending
<1>7. CASE ~Confirmed(q)
  <2>1. e = Throw(r)
    BY <1>4, <1>7
  <2>2. ASSUME NEW x \in Things, Minds(q, r, x, mined, pool)
        PROVE  Minds(q, e, x, mined, pool)
    <3>1. x = <<"content", r.hash>> /\ r.kind = "one-shot" /\ ~r.registering
      BY <1>1, <1>3, <1>6, <1>7, <2>2, ThingIs DEF Minds, MindsContent, MindsBinding, MindsTx
    <3> QED
      BY <1>1, <2>1, <3>1, ThrowMinds
  <2>3. e.answer # "lost"
    BY <1>1, <2>1, ThrowAnswers
  <2> QED
    BY <1>1, <1>2, <1>4, <2>2, <2>3, MovesTally
<1>8. CASE Confirmed(q) /\ r.registering /\ r.kind = "register"
  <2>1. e = To(r, "store")
    BY <1>4, <1>8 DEF AfterReceipt
  <2>2. e.step = "store" /\ e.hash = r.hash /\ e.answer = Null
    BY <1>1, <1>5, <2>1, ToFields DEF Steps
  <2>3. ASSUME NEW x \in Things, Minds(q, r, x, mined, pool)
        PROVE  Minds(q, e, x, mined, pool)
    BY <1>1, <1>6, <1>8, <2>2, <2>3 DEF Minds, MindsContent, MindsBinding, MindsTx
  <2> QED
    BY <1>1, <1>2, <1>4, <1>5, <2>2, <2>3, MovesTally
<1>9. CASE Confirmed(q) /\ r.registering /\ r.kind = "one-shot"
  <2> PICK d : d = [r EXCEPT !.registering = FALSE]
    OBVIOUS
  <2>1. e = Continue(d)
    BY <1>4, <1>9 DEF AfterReceipt
  <2>2. d \in Request /\ ~d.registering /\ d.answer = Null /\ d.kind = "one-shot" /\ d.hash = r.hash
    BY <1>1, <1>5, <1>9, SetRegistering
  <2>3. ~e.registering /\ e.kind = "one-shot" /\ e.hash = r.hash /\ e.step \in {"prepare", "store"} /\ e.answer = Null
    BY <2>1, <2>2, ContinueFields
  <2>4. ASSUME NEW x \in Things, Minds(q, r, x, mined, pool)
        PROVE  Minds(q, e, x, mined, pool)
    <3>1. x = <<"content", e.hash>>
      BY <1>1, <1>6, <1>9, <2>3, <2>4, ThingIs DEF Minds, MindsContent, MindsBinding, MindsTx
    <3> QED
      BY <2>3, <3>1, OneShotMinds DEF Active
  <2> QED
    BY <1>1, <1>2, <1>4, <1>5, <2>3, <2>4, MovesTally
<1>10. CASE Confirmed(q) /\ ~r.registering
  <2>1. e = To(r, "find")
    BY <1>4, <1>10 DEF AfterReceipt
  <2>2. /\ e.step = "find" /\ e.hash = r.hash /\ e.answer = Null /\ e.kind = r.kind
        /\ e.registering = r.registering /\ e.keys = r.keys
    BY <1>1, <1>5, <2>1, ToFields DEF Steps
  <2>3. ASSUME NEW x \in Things, Minds(q, r, x, mined, pool)
        PROVE  Minds(q, e, x, mined, pool)
    BY <1>1, <1>6, <1>10, <2>2, <2>3 DEF Minds, MindsContent, MindsBinding, MindsTx, Active
  <2> QED
    BY <1>1, <1>2, <1>4, <1>5, <2>2, <2>3, MovesTally
<1> QED
  BY <1>5, <1>7, <1>8, <1>9, <1>10

\* The content's row is read; the binding will be written as before.
LEMMA FindTally ==
    ASSUME IInv, Tally, NEW q \in Requests, FindContent(q)
    PROVE  Tally'
<1> PICK r : r = request[q]
  OBVIOUS
<1> PICK id : id = IF content[r.hash] = Null THEN Null ELSE r.hash
  OBVIOUS
<1> PICK d : d = To(r, "link")
  OBVIOUS
<1> PICK e : e = [d EXCEPT !.found = id]
  OBVIOUS
<1>1. Shape(r) /\ Active(r) /\ r \in Request /\ r.step = "find" /\ r.answer = Null /\ Null # "lost"
      /\ r.hash \in Hashes
  BY Now, NullAssumption DEF Standing, Shape, FindContent, At, Active
<1>2. UNCHANGED <<chain, rows, faults>> /\ Becomes(q, e)
  BY DEF FindContent
<1>3. /\ d \in Request /\ d.step = "link" /\ d.kind = r.kind /\ d.hash = r.hash /\ d.keys = r.keys
      /\ d.registering = r.registering /\ d.answer = Null
  BY <1>1, ToFields DEF Steps
<1>4. id \in Hashes \cup {Null}
  BY <1>1
<1>5. /\ e.step = "link" /\ e.kind = r.kind /\ e.hash = r.hash /\ e.keys = r.keys
      /\ e.registering = r.registering /\ e.answer = Null
  BY <1>3, <1>4, SetFound
<1>6. ASSUME NEW x \in Things, Minds(q, r, x, mined, pool)
      PROVE  Minds(q, e, x, mined, pool)
  BY <1>1, <1>5, <1>6 DEF Minds, MindsContent, MindsBinding, MindsTx, Active
<1> QED
  BY <1>1, <1>2, <1>5, <1>6, MovesTally

\* The binding's row is written, so it is not missing.
LEMMA LinkTally ==
    ASSUME IInv, Tally, NEW q \in Requests, UpsertPlatformBinding(q)
    PROVE  Tally'
<1> PICK r : r = request[q]
  OBVIOUS
<1> PICK k : k = Head(r.keys)
  OBVIOUS
<1> PICK d : d = [r EXCEPT !.found = Null]
  OBVIOUS
<1> PICK e : e = NextKey(d)
  OBVIOUS
<1> PICK row : row = [content |-> r.found]
  OBVIOUS
<1>1. /\ Shape(r) /\ Active(r) /\ r \in Request /\ r.step = "link" /\ r.answer = Null /\ Null # "lost"
      /\ ~r.registering /\ r.keys # <<>> /\ r.kind # "register" /\ r.found \in Hashes \cup {Null}
  BY Now, NullAssumption DEF Standing, Shape, UpsertPlatformBinding, At, Active, Request
<1>2. k \in Keys
  BY <1>1 DEF Request
<1>3. /\ Becomes(q, e) /\ UNCHANGED <<registered, bound, pool, mined, content, faults>>
      /\ binding' = IF binding[k] # Null /\ r.found = Null THEN binding ELSE [binding EXCEPT ![k] = row]
  BY DEF UpsertPlatformBinding, chain
<1>4. row # Null
  BY <1>1, NullAssumption
<1>5. binding'[k] # Null /\ \A j \in Keys : binding[j] # Null => binding'[j] # Null
  BY <1>2, <1>3, <1>4 DEF IInv, RowTypes
<1>6. \A x \in Things : Open(x)' => Open(x) /\ x # <<"binding", k>>
  BY <1>3, <1>5 DEF Open, MissingContents, MissingBindings
<1>7. /\ d \in Request /\ d.kind = r.kind /\ d.hash = r.hash /\ d.keys = r.keys
      /\ ~d.registering /\ d.answer = Null
  <2>1. /\ d \in Request /\ d.kind = r.kind /\ d.hash = r.hash
        /\ d.keys = r.keys /\ d.registering = r.registering /\ d.answer = r.answer
    BY <1>1, SetFound
  <2> QED
    BY <1>1, <2>1
<1>8. /\ e.answer # "lost"
      /\ r.kind = "one-shot" => e.kind = "one-shot" /\ ~e.registering /\ e.hash = r.hash
                                /\ e.step \in {"prepare", "store"}
  <2>1. CASE r.kind = "bind"
    <3>1. e = Answer(d, "ok")
      BY <1>7, <2>1 DEF NextKey
    <3>2. e.answer = "ok"
      BY <1>7, <3>1, AnswerFields
    <3> QED
      BY <2>1, <3>2
  <2>2. CASE r.kind # "bind"
    <3>1. /\ ~e.registering /\ e.kind = d.kind /\ e.hash = d.hash
          /\ \/ e.step = "prepare" /\ e.answer = Null
             \/ e.step = "store" /\ e.answer = Null
             \/ e.step = "done" /\ e.answer = "ok" /\ d.kind # "one-shot"
      BY <1>1, <1>7, <2>2, NextKeyFields
    <3> QED
      BY <1>1, <1>7, <3>1
  <2> QED
    BY <2>1, <2>2
<1>9. ASSUME NEW x \in Things, Open(x)', Minds(q, r, x, mined, pool)
      PROVE  Minds(q, e, x, mined, pool)
  <2>1. x # <<"binding", k>>
    BY <1>6, <1>9
  <2>2. x = <<"content", r.hash>> /\ r.kind = "one-shot"
    BY <1>1, <1>9, <2>1, ThingIs DEF Minds, MindsContent, MindsBinding, MindsTx
  <2> QED
    BY <1>8, <2>2, OneShotMinds DEF Active
<1> PICK Y : Y = {}
  OBVIOUS
<1>10. Astray' \subseteq Astray \cup Y
  BY <1>3, <1>6, <1>9, AstrayBy
<1>11. Lost' = Lost /\ Begun' \subseteq Begun \cup {q}
  BY <1>1, <1>3, <1>8, OneHandlerMoves
<1> QED
  BY <1>3, <1>10, <1>11, Steady

\* The content's row is written, so it is not missing.
LEMMA ContentTally ==
    ASSUME IInv, Tally, NEW q \in Requests, UpsertContent(q)
    PROVE  Tally'
<1> PICK r : r = request[q]
  OBVIOUS
<1> PICK e : e = Answer(r, "ok")
  OBVIOUS
<1> PICK row : row = [registry |-> r.registry, manifest |-> q]
  OBVIOUS
<1>1. /\ Shape(r) /\ Active(r) /\ r \in Request /\ r.step = "store" /\ r.registry \in Registries
      /\ r.hash \in Hashes
  BY Now DEF Standing, Shape, UpsertContent, At, Active
<1>2. /\ Becomes(q, e) /\ UNCHANGED <<registered, bound, pool, mined, binding, faults>>
      /\ content' = [content EXCEPT ![r.hash] = row]
  BY DEF UpsertContent, chain
<1>3. row # Null
  BY <1>1, NullAssumption
<1>4. content'[r.hash] # Null /\ \A h \in Hashes : content[h] # Null => content'[h] # Null
  BY <1>1, <1>2, <1>3 DEF IInv, RowTypes
<1>5. \A x \in Things : Open(x)' => Open(x) /\ x # <<"content", r.hash>>
  BY <1>2, <1>4 DEF Open, MissingContents, MissingBindings
<1>6. e.answer = "ok"
  BY <1>1, AnswerFields
<1>7. ASSUME NEW x \in Things, Open(x)', Minds(q, r, x, mined, pool)
      PROVE  FALSE
  <2>1. x # <<"content", r.hash>>
    BY <1>5, <1>7
  <2> QED
    BY <1>1, <1>7, <2>1, ThingIs DEF Minds, MindsContent, MindsBinding, MindsTx
<1> PICK Y : Y = {}
  OBVIOUS
<1>8. Astray' \subseteq Astray \cup Y
  BY <1>2, <1>5, <1>7, AstrayBy
<1>9. Lost' = Lost /\ Begun' \subseteq Begun \cup {q}
  BY <1>1, <1>2, <1>6, OneHandlerMoves
<1> QED
  BY <1>2, <1>8, <1>9, Steady

\* What a handler is at: the row or the transaction that it loses if it is cut off here.
AtHand(r) ==
  IF r.step = "wait" /\ Len(mined) <= r.nonce THEN <<"tx", r.nonce>>
  ELSE IF r.registering \/ r.step = "store" THEN <<"content", r.hash>>
  ELSE <<"binding", Head(r.keys)>>

\* It minds nothing else, but for the content of a one-shot request.
LEMMA MindsTwo ==
    ASSUME IInv, NEW q \in Requests, NEW r, r = request[q], NEW x \in Things, Minds(q, r, x, mined, pool)
    PROVE  /\ Active(r)
           /\ x = AtHand(r) \/ (x = <<"content", r.hash>> /\ r.kind = "one-shot" /\ ~r.registering
                                /\ r.step # "store")
<1>1. r.nonce \in Nat /\ Len(mined) \in Nat /\ Len(pool) \in Nat /\ Shape(r)
  BY Now DEF Request, Standing
<1>2. CASE x[1] = "content"
  BY <1>1, <1>2, ThingIs DEF Minds, MindsContent, AtHand, Took, Active
<1>3. CASE x[1] = "binding"
  BY <1>1, <1>3, ThingIs DEF Minds, MindsBinding, AtHand, Took, Active
<1>4. CASE x[1] = "tx"
  <2>1. r.step = "wait" /\ x = <<"tx", r.nonce>> /\ Sending(q, r, mined, pool)
    BY <1>4, ThingIs DEF Minds, MindsTx
  <2>2. Len(mined) <= r.nonce
    BY <1>1, <2>1 DEF Sending
  <2> QED
    BY <2>1, <2>2 DEF AtHand, Active
<1> QED
  BY <1>2, <1>3, <1>4, ThingIs

\* A failing call loses one.
LEMMA CallFailsTally ==
    ASSUME IInv, Tally, NEW q \in Requests, CallFails(q)
    PROVE  Tally'
<1> PICK r : r = request[q]
  OBVIOUS
<1> PICK d : d = [r EXCEPT !.found = Null]
  OBVIOUS
<1> PICK e : e = Throw(d)
  OBVIOUS
<1> PICK y : y = AtHand(r)
  OBVIOUS
<1>1. Shape(r) /\ Active(r) /\ r \in Request /\ r.step # "done"
  BY Now DEF Standing, CallFails, InFlight, Active
<1>2. Becomes(q, e) /\ UNCHANGED <<chain, rows>> /\ faults' = faults + 1
  BY DEF CallFails
<1>3. /\ d \in Request /\ d.step = r.step /\ d.found = Null
      /\ d.kind = r.kind /\ d.registry = r.registry /\ d.hash = r.hash
      /\ d.keys = r.keys /\ d.registering = r.registering
      /\ d.nonce = r.nonce /\ d.answer = r.answer
  BY <1>1, SetFound
<1>4. Shape(d) /\ Active(d)
  BY <1>1, <1>3 DEF Shape, Active
<1>5. e.answer # "lost"
  BY <1>4, ThrowAnswers
<1>6. ASSUME NEW x \in Things, Minds(q, r, x, mined, pool)
      PROVE  Minds(q, e, x, mined, pool) \/ x \in {y}
  <2>1. x = y \/ (x = <<"content", r.hash>> /\ r.kind = "one-shot" /\ ~r.registering /\ r.step # "store")
    BY <1>6, MindsTwo
  <2>2. ASSUME x = <<"content", r.hash>>, r.kind = "one-shot", ~r.registering, r.step # "store"
        PROVE  Minds(q, e, x, mined, pool)
    BY <1>3, <1>4, <2>2, ThrowMinds
  <2> QED
    BY <2>1, <2>2
<1>7. UNCHANGED <<mined, pool>> /\ \A x \in Things : Open(x)' => Open(x)
  BY <1>2, OpenRests
<1> PICK Y : Y = {y}
  OBVIOUS
<1>8. Astray' \subseteq Astray \cup Y
  BY <1>2, <1>6, <1>7, AstrayBy
<1>9. Lost' = Lost /\ Begun' \subseteq Begun \cup {q}
  BY <1>1, <1>2, <1>5, OneHandlerMoves
<1>10. IsFiniteSet(Astray') /\ Cardinality(Astray') <= Cardinality(Astray) + 1 /\ IsFiniteSet(Begun')
       /\ Cardinality(Astray) \in Nat /\ Cardinality(Astray') \in Nat
  BY <1>8, <1>9, OneMore DEF Tally
<1>11. faults \in Nat /\ Cardinality(Lost) \in Nat
  BY LostIsFinite DEF IInv
<1>12. Cardinality(Astray) <= faults + 2 * Cardinality(Lost)
  BY DEF Tally
<1>13. Cardinality(Astray') <= faults' + 2 * Cardinality(Lost')
  BY <1>2, <1>9, <1>10, <1>11, <1>12
<1> QED
  BY <1>10, <1>13 DEF Tally

\* A restart loses two of each handler in flight.
LEMMA RestartTally ==
    ASSUME IInv, Tally, Restart
    PROVE  Tally'
<1> PICK F : F = {q \in Requests : InFlight(q)}
  OBVIOUS
<1> PICK f : f = [q \in F |-> AtHand(request[q])]
  OBVIOUS
<1> PICK g : g = [q \in F |-> <<"content", request[q].hash>>]
  OBVIOUS
<1> PICK D1 : D1 = {f[q] : q \in F}
  OBVIOUS
<1> PICK D2 : D2 = {g[q] : q \in F}
  OBVIOUS
<1>1. /\ UNCHANGED <<chain, rows>> /\ faults' = faults + 1
      /\ request' = [q \in Requests |-> IF InFlight(q) THEN Answer(request[q], "lost") ELSE request[q]]
  BY DEF Restart
<1>2. UNCHANGED <<mined, pool>> /\ \A x \in Things : Open(x)' => Open(x)
  BY <1>1, OpenRests
<1>3. ASSUME NEW q \in Requests
      PROVE  /\ q \in F => request'[q].answer = "lost" /\ request'[q].step = "done" /\ request[q].answer # "lost"
                           /\ request[q].step # "idle"
             /\ q \notin F => request'[q] = request[q]
  <2>1. q \in F <=> InFlight(q)
    OBVIOUS
  <2>2. ASSUME InFlight(q)
        PROVE  request'[q].answer = "lost" /\ request'[q].step = "done" /\ request[q].answer # "lost"
               /\ request[q].step # "idle"
    <3>1. request'[q] = Answer(request[q], "lost")
      BY <1>1, <2>2
    <3>2. request'[q].answer = "lost" /\ request'[q].step = "done"
      BY <3>1, Now, AnswerFields
    <3> QED
      BY <2>2, <3>2, Now, NullAssumption DEF InFlight, Standing, Shape
  <2>3. ~InFlight(q) => request'[q] = request[q]
    BY <1>1
  <2> QED
    BY <2>1, <2>2, <2>3
<1>4. Astray' \subseteq Astray \cup (D1 \cup D2)
  <2> SUFFICES ASSUME NEW x \in Astray', x \notin D1 \cup D2
               PROVE  x \in Astray
    OBVIOUS
  <2>1. x \in Things /\ Open(x)' /\ \A q \in Requests : ~Minds(q, request'[q], x, mined', pool')
    BY DEF Astray
  <2>2. ASSUME NEW q \in Requests, Minds(q, request[q], x, mined, pool)
        PROVE  FALSE
    <3>1. Active(request[q]) /\ (x = AtHand(request[q]) \/ x = <<"content", request[q].hash>>)
      BY <2>1, <2>2, MindsTwo
    <3>2. q \in F
      BY <3>1 DEF Active, InFlight
    <3>3. AtHand(request[q]) \in D1 /\ <<"content", request[q].hash>> \in D2
      BY <3>2
    <3> QED
      BY <3>1, <3>3
  <2> QED
    BY <1>2, <2>1, <2>2 DEF Astray
<1>5. F \subseteq Begun /\ IsFiniteSet(F) /\ Cardinality(F) \in Nat
  <2>1. F \subseteq Begun
    BY <1>3 DEF Begun
  <2>2. IsFiniteSet(F)
    BY <2>1, FS_Subset DEF Tally
  <2> QED
    BY <2>1, <2>2, FS_CardinalityType
<1>6. IsFiniteSet(D1) /\ Cardinality(D1) <= Cardinality(F) /\ IsFiniteSet(D2) /\ Cardinality(D2) <= Cardinality(F)
  BY <1>5, ImageIsNoLarger
<1>7. /\ IsFiniteSet(Astray') /\ Cardinality(Astray') \in Nat /\ Cardinality(Astray) \in Nat
      /\ Cardinality(Astray') <= Cardinality(Astray) + 2 * Cardinality(F)
  <2>1. IsFiniteSet(D1 \cup D2) /\ Cardinality(D1 \cup D2) <= Cardinality(D1) + Cardinality(D2)
        /\ Cardinality(D1) \in Nat /\ Cardinality(D2) \in Nat /\ Cardinality(D1 \cup D2) \in Nat
    BY <1>6, UnionIsNoLarger
  <2>2. IsFiniteSet(Astray \cup (D1 \cup D2))
        /\ Cardinality(Astray \cup (D1 \cup D2)) <= Cardinality(Astray) + Cardinality(D1 \cup D2)
        /\ Cardinality(Astray) \in Nat /\ Cardinality(Astray \cup (D1 \cup D2)) \in Nat
    BY <2>1, UnionIsNoLarger DEF Tally
  <2>3. IsFiniteSet(Astray') /\ Cardinality(Astray') <= Cardinality(Astray \cup (D1 \cup D2))
    BY <1>4, <2>2, FS_Subset
  <2>4. Cardinality(Astray') \in Nat
    BY <2>3, FS_CardinalityType
  <2> QED
    BY <1>5, <1>6, <2>1, <2>2, <2>3, <2>4
<1>8. Lost' = Lost \cup F /\ Lost \cap F = {}
  BY <1>3 DEF Lost
<1>9. Cardinality(Lost') = Cardinality(Lost) + Cardinality(F) /\ Cardinality(Lost) \in Nat
  <2>1. IsFiniteSet(Lost) /\ Cardinality(Lost) \in Nat
    BY LostIsFinite
  <2>2. Cardinality(Lost \cup F) = Cardinality(Lost) + Cardinality(F) - Cardinality(Lost \cap F)
    BY <1>5, <2>1, FS_Union
  <2>3. Cardinality(Lost \cap F) = 0
    BY <1>8, FS_EmptySet
  <2> QED
    BY <1>5, <1>8, <2>1, <2>2, <2>3
<1>10. Begun' \subseteq Begun
  BY <1>3, <1>5 DEF Begun
<1>11. IsFiniteSet(Begun')
  BY <1>10, FS_Subset DEF Tally
<1>12. faults \in Nat /\ Cardinality(Astray) <= faults + 2 * Cardinality(Lost)
  BY DEF IInv, Tally
<1>13. Cardinality(Astray') <= faults' + 2 * Cardinality(Lost')
  BY <1>1, <1>5, <1>7, <1>9, <1>12
<1> QED
  BY <1>7, <1>11, <1>13 DEF Tally

\* What others register is not the wallet's.
LEMMA OutsideTally ==
    ASSUME IInv, Tally, NEW r \in Registries, NEW h \in Hashes, OutsideRegister(r, h)
    PROVE  Tally'
<1> PICK new : new = [by |-> Other, manifest |-> Null]
  OBVIOUS
<1>1. /\ registered' = [registered EXCEPT ![r][h] = new]
      /\ UNCHANGED <<bound, pool, mined, content, binding, request, faults>>
  BY DEF OutsideRegister, rows
<1>2. new.by = Other /\ Other # Wallet
  BY PublishAssumption
<1>3. \A s \in Registries, i \in Hashes :
         registered'[s][i] # Null /\ registered'[s][i].by = Wallet
             => registered[s][i] # Null /\ registered[s][i].by = Wallet
  BY <1>1, <1>2 DEF IInv, ChainTypes
<1>4. MissingContents' \subseteq MissingContents /\ MissingBindings' = MissingBindings
  BY <1>1, <1>3 DEF MissingContents, MissingBindings
<1>5. Astray' \subseteq Astray
  BY <1>1, <1>4 DEF Astray, Open
<1>6. Lost' = Lost /\ Begun' \subseteq Begun \cup {h}
  BY <1>1 DEF Lost, Begun
<1> QED
  BY <1>1, <1>5, <1>6, Steady

\* A block writes what its transaction is about: if its sender waits, it will
\* store it; if nobody waits, the transaction was astray already.
LEMMA MineTally ==
    ASSUME IInv, Tally, Mine
    PROVE  Tally'
<1> PICK tx : tx = Head(pool)
  OBVIOUS
<1> PICK ok : ok = Allowed(tx)
  OBVIOUS
<1> PICK new : new = [by |-> Wallet, manifest |-> tx.from]
  OBVIOUS
<1> PICK block : block = [from |-> tx.from, ok |-> ok]
  OBVIOUS
<1> PICK y : y = <<"tx", Len(mined)>>
  OBVIOUS
<1> PICK z : z = IF tx.op = "register" THEN <<"content", tx.hash>> ELSE <<"binding", tx.key>>
  OBVIOUS
<1>1. /\ pool # <<>> /\ pool' = Tail(pool)
      /\ mined' = Append(mined, block)
      /\ registered' = IF tx.op = "register" /\ ok
                       THEN [registered EXCEPT ![tx.registry][tx.hash] = new]
                       ELSE registered
      /\ bound' = IF tx.op = "bind" /\ ok
                  THEN [bound EXCEPT ![tx.registry][tx.key] = tx.hash] ELSE bound
      /\ UNCHANGED <<content, binding, request, faults>>
  BY DEF Mine, rows
<1>2. pool \in Seq(Tx) /\ mined \in Seq([from : Requests, ok : BOOLEAN])
      /\ Len(mined) \in Nat /\ Len(pool) \in Nat
  BY Now DEF IInv, ChainTypes
<1>3. /\ pool' \in Seq(Tx) /\ Len(pool') = Len(pool) - 1 /\ tx \in Tx /\ tx = pool[1]
      /\ 1 \in 1..Len(pool) /\ Len(pool') \in Nat
      /\ \A i \in 1..Len(pool') : pool'[i] = pool[i + 1] /\ i + 1 \in 1..Len(pool)
  <2>1. /\ tx \in Tx /\ pool' \in Seq(Tx) /\ Len(pool') = Len(pool) - 1
        /\ \A i \in 1..Len(pool') : pool'[i] = pool[i + 1]
    BY <1>1, <1>2, HeadTailProperties
  <2>2. Len(pool) >= 1
    BY <1>1, <1>2, EmptySeq
  <2>3. tx = pool[1]
    OBVIOUS
  <2> QED
    BY <1>2, <2>1, <2>2, <2>3
<1>4. /\ tx.from \in Requests /\ tx.op \in {"register", "bind"}
      /\ tx.registry \in Registries /\ tx.hash \in Hashes
      /\ tx.op = "bind" => tx.key \in Keys
  BY <1>3 DEF Tx, IInv, ChainTypes
<1>5. ok \in BOOLEAN
  BY DEF Allowed
<1>6. /\ Len(mined') = Len(mined) + 1
      /\ \A i \in 1..Len(mined) : mined'[i] = mined[i]
      /\ mined'[Len(mined) + 1] = block
  <2>1. block \in [from : Requests, ok : BOOLEAN]
    BY <1>4, <1>5
  <2> QED
    BY <1>1, <1>2, <2>1, AppendProperties
<1>7. block.from = tx.from /\ (block.ok <=> ok)
  BY <1>5
<1>8. \A r \in Registries, h \in Hashes :
         registered'[r][h] = IF tx.op = "register" /\ ok /\ r = tx.registry /\ h = tx.hash
                             THEN new ELSE registered[r][h]
  BY <1>1, <1>4 DEF IInv, ChainTypes
<1>9. \A r \in Registries, k \in Keys :
         bound'[r][k] = IF tx.op = "bind" /\ ok /\ r = tx.registry /\ k = tx.key
                        THEN tx.hash ELSE bound[r][k]
  BY <1>1, <1>4 DEF IInv, ChainTypes
<1>10. ASSUME NEW x \in Things, Open(x)'
       PROVE  (Open(x) \/ (ok /\ x = z)) /\ x # y
  <2>1. x # y
    BY <1>2, <1>6, <1>10 DEF Open
  <2>2. CASE x[1] = "content"
    <3>1. x[2] \in Hashes /\ x[2] \in MissingContents' /\ x = <<"content", x[2]>>
      BY <1>10, <2>2, ThingIs DEF Open
    <3>2. CASE tx.op = "register" /\ ok /\ x[2] = tx.hash
      BY <2>1, <3>1, <3>2
    <3>3. CASE ~(tx.op = "register" /\ ok /\ x[2] = tx.hash)
      <4>1. \A r \in Registries : registered'[r][x[2]] = registered[r][x[2]]
        BY <1>8, <3>1, <3>3
      <4>2. x[2] \in MissingContents
        BY <1>1, <3>1, <4>1 DEF MissingContents
      <4> QED
        BY <2>1, <2>2, <4>2 DEF Open
    <3> QED
      BY <3>2, <3>3
  <2>3. CASE x[1] = "binding"
    <3>1. x[2] \in Keys /\ x[2] \in MissingBindings' /\ x = <<"binding", x[2]>>
      BY <1>10, <2>3, ThingIs DEF Open
    <3>2. CASE tx.op = "bind" /\ ok /\ x[2] = tx.key
      BY <2>1, <3>1, <3>2
    <3>3. CASE ~(tx.op = "bind" /\ ok /\ x[2] = tx.key)
      <4>1. \A r \in Registries : bound'[r][x[2]] = bound[r][x[2]]
        BY <1>9, <3>1, <3>3
      <4>2. x[2] \in MissingBindings
        BY <1>1, <3>1, <4>1 DEF MissingBindings
      <4> QED
        BY <2>1, <2>3, <4>2 DEF Open
    <3> QED
      BY <3>2, <3>3
  <2>4. CASE x[1] = "tx"
    <3>1. x[2] \in Nat /\ Len(mined') <= x[2] /\ x[2] < Len(mined') + Len(pool')
      BY <1>10, <2>4, ThingIs DEF Open
    <3> QED
      BY <1>2, <1>3, <1>6, <2>1, <2>4, <3>1 DEF Open
  <2> QED
    BY <2>2, <2>3, <2>4, ThingIs
<1>11. ASSUME NEW q \in Requests, NEW r, r = request[q]
       PROVE  /\ r \in Request /\ r.nonce \in Nat
              /\ Took(q, r, mined) => Took(q, r, mined')
  <2>1. r \in Request /\ r.nonce \in Nat
    BY <1>11, Now DEF Request
  <2>2. ASSUME Took(q, r, mined)
        PROVE  Took(q, r, mined')
    <3>1. r.nonce < Len(mined) /\ mined[r.nonce + 1].from = q /\ mined[r.nonce + 1].ok
      BY <2>2 DEF Took
    <3>2. mined'[r.nonce + 1] = mined[r.nonce + 1] /\ r.nonce < Len(mined')
      BY <1>2, <1>6, <2>1, <3>1
    <3> QED
      BY <3>1, <3>2 DEF Took
  <2> QED
    BY <2>1, <2>2
<1>12. ASSUME NEW x \in Things, x # y, NEW q \in Requests, Minds(q, request[q], x, mined, pool)
       PROVE  Minds(q, request'[q], x, mined', pool')
  <2> PICK r : r = request[q]
    OBVIOUS
  <2>1. r.nonce \in Nat /\ (Took(q, r, mined) => Took(q, r, mined')) /\ request'[q] = r
    BY <1>1, <1>11
  <2>2. CASE x[1] \in {"content", "binding"}
    BY <1>12, <2>1, <2>2 DEF Minds, MindsContent, MindsBinding, MindsTx
  <2>3. CASE x[1] = "tx"
    <3>1. r.step = "wait" /\ x[2] = r.nonce /\ Sending(q, r, mined, pool)
      BY <1>12, <2>3 DEF Minds, MindsTx
    <3>2. PICK i \in 1..Len(pool) : i + Len(mined) = r.nonce + 1 /\ pool[i].from = q
      BY <3>1 DEF Sending
    <3>3. i # 1
      <4>1. x = <<"tx", r.nonce>>
        BY <2>3, <3>1, ThingIs
      <4> QED
        BY <1>2, <1>12, <2>1, <3>2, <4>1
    <3>4. i - 1 \in 1..Len(pool') /\ (i - 1) + Len(mined') = r.nonce + 1 /\ pool'[i - 1] = pool[i]
      BY <1>2, <1>3, <1>6, <2>1, <3>2, <3>3
    <3>5. Sending(q, r, mined', pool')
      BY <3>2, <3>4 DEF Sending
    <3> QED
      BY <2>1, <2>3, <3>1, <3>5 DEF Minds, MindsTx
  <2> QED
    BY <2>2, <2>3, ThingIs
<1>13. Lost' = Lost /\ Begun' \subseteq Begun \cup {y}
  BY <1>1 DEF Lost, Begun
<1>14. CASE \E q \in Requests : Minds(q, request[q], y, mined, pool)
  <2>1. PICK q \in Requests : Minds(q, request[q], y, mined, pool)
    BY <1>14
  <2> PICK r : r = request[q]
    OBVIOUS
  <2>2. r.step = "wait" /\ Len(mined) = r.nonce /\ Sending(q, r, mined, pool)
    BY <2>1 DEF Minds, MindsTx
  <2>3. tx.from = q
    BY <1>2, <1>3, <2>2 DEF Sending
  <2>4. /\ Waiting(q, r) /\ Shape(r) /\ Active(r)
        /\ (~r.registering => r.keys # <<>>)
    BY <2>2, Now DEF Standing, Shape, Active
  <2>5. /\ tx.op = IF r.registering THEN "register" ELSE "bind"
        /\ tx.hash = r.hash /\ (~r.registering => tx.key = Head(r.keys))
    <3>1. 1 + Len(mined) = r.nonce + 1 /\ pool[1].from = q
      BY <1>2, <1>3, <2>2, <2>3
    <3> QED
      BY <1>3, <2>2, <2>4, <3>1 DEF Waiting
  <2>6. ok => Took(q, r, mined')
    BY <1>2, <1>6, <1>7, <2>2, <2>3 DEF Took
  <2>7. ok => Minds(q, r, z, mined', pool')
    <3>1. CASE r.registering
      <4>1. z = <<"content", r.hash>>
        BY <2>5, <3>1
      <4> QED
        BY <2>2, <2>6, <3>1, <4>1 DEF Minds, MindsContent
    <3>2. CASE ~r.registering
      <4>1. z = <<"binding", Head(r.keys)>>
        BY <2>5, <3>2
      <4> QED
        BY <2>2, <2>4, <2>6, <3>2, <4>1 DEF Minds, MindsBinding
    <3> QED
      BY <3>1, <3>2
  <2>8. Astray' \subseteq Astray
    <3> SUFFICES ASSUME NEW x \in Astray'
                 PROVE  x \in Astray
      OBVIOUS
    <3>1. x \in Things /\ Open(x)' /\ \A p \in Requests : ~Minds(p, request'[p], x, mined', pool')
      BY DEF Astray
    <3>2. x # y /\ (Open(x) \/ (ok /\ x = z))
      BY <1>10, <3>1
    <3>3. ~(ok /\ x = z)
      BY <1>1, <2>7, <3>1
    <3>4. \A p \in Requests : ~Minds(p, request[p], x, mined, pool)
      BY <1>12, <3>1, <3>2
    <3> QED
      BY <3>1, <3>2, <3>3, <3>4 DEF Astray
  <2> QED
    BY <1>1, <1>13, <2>8, Steady
<1>15. CASE ~\E q \in Requests : Minds(q, request[q], y, mined, pool)
  <2>1. y \in Astray
    <3>1. y \in Things /\ y[1] = "tx" /\ y[2] = Len(mined)
      BY <1>2 DEF Things
    <3>2. Open(y)
      BY <1>2, <1>3, <3>1 DEF Open
    <3> QED
      BY <1>15, <3>1, <3>2 DEF Astray
  <2>2. Astray' \subseteq (Astray \ {y}) \cup {z}
    <3> SUFFICES ASSUME NEW x \in Astray', x # z
                 PROVE  x \in Astray /\ x # y
      OBVIOUS
    <3>1. x \in Things /\ Open(x)' /\ \A p \in Requests : ~Minds(p, request'[p], x, mined', pool')
      BY DEF Astray
    <3>2. x # y /\ Open(x)
      BY <1>10, <3>1
    <3>3. \A p \in Requests : ~Minds(p, request[p], x, mined, pool)
      BY <1>12, <3>1, <3>2
    <3> QED
      BY <3>1, <3>2, <3>3 DEF Astray
  <2>3. IsFiniteSet(Astray') /\ Cardinality(Astray') <= Cardinality(Astray)
    BY <2>1, <2>2, OneForOne DEF Tally
  <2>4. Cardinality(Astray') \in Nat /\ Cardinality(Astray) \in Nat
    BY <2>3, FS_CardinalityType DEF Tally
  <2>5. faults \in Nat /\ Cardinality(Lost) \in Nat
    BY LostIsFinite DEF IInv
  <2>6. IsFiniteSet(Begun')
    BY <1>13, OneMore DEF Tally
  <2>7. Cardinality(Astray') <= faults' + 2 * Cardinality(Lost')
    BY <1>1, <1>13, <2>3, <2>4, <2>5 DEF Tally
  <2> QED
    BY <2>3, <2>6, <2>7 DEF Tally
<1> QED
  BY <1>14, <1>15

\* A transaction is taken: its sender waits for it, and nobody else loses his
\* place but to it.
LEMMA SentTally ==
    ASSUME IInv, Tally, NEW q \in Requests, At(q, "broadcast"),
           UNCHANGED <<registered, bound, mined, content, binding, faults>>,
           Becomes(q, To(request[q], "wait")),
           NEW i \in 1..Len(pool)+1, i + Len(mined) = request[q].nonce + 1,
           NEW tx, tx = TxOf(q),
           \/ i = Len(pool) + 1 /\ pool' = Append(pool, tx)
           \/ i \in 1..Len(pool) /\ pool' = [pool EXCEPT ![i] = tx]
    PROVE  Tally'
<1> PICK r : r = request[q]
  OBVIOUS
<1> PICK e : e = To(r, "wait")
  OBVIOUS
<1> PICK y : y = <<"tx", r.nonce>>
  OBVIOUS
<1>1. r \in Request /\ r.step = "broadcast" /\ Shape(r) /\ Active(r) /\ r.nonce \in Nat /\ r.answer = Null
      /\ Null # "lost"
  BY Now, NullAssumption DEF At, Active, Standing, Shape, Request
<1>2. /\ e.step = "wait" /\ e.kind = r.kind /\ e.hash = r.hash
      /\ e.registering = r.registering /\ e.nonce = r.nonce /\ e.answer = Null
  BY <1>1, ToFields DEF Steps
<1>3. tx \in Tx /\ tx.from = q
  BY SendingTx
<1>4. /\ Len(pool') \in Nat /\ Len(pool) \in Nat /\ Len(mined) \in Nat
      /\ Len(pool) <= Len(pool') /\ i <= Len(pool') /\ Len(pool') <= Len(pool) + 1
      /\ Len(pool') = Len(pool) + 1 => i = Len(pool')
      /\ \A j \in 1..Len(pool') : IF j = i THEN pool'[j] = tx
                                 ELSE j \in 1..Len(pool) /\ pool'[j] = pool[j]
  <2>1. pool \in Seq(Tx) /\ Len(pool) \in Nat /\ Len(mined) \in Nat
    BY Now DEF IInv, ChainTypes
  <2>2. CASE i = Len(pool) + 1 /\ pool' = Append(pool, tx)
    <3>1. /\ pool' \in Seq(Tx) /\ Len(pool') = Len(pool) + 1
          /\ \A j \in 1..Len(pool) : pool'[j] = pool[j]
          /\ pool'[Len(pool)+1] = tx
      BY <1>3, <2>1, <2>2, AppendProperties
    <3> QED
      BY <2>1, <2>2, <3>1
  <2>3. CASE i \in 1..Len(pool) /\ pool' = [pool EXCEPT ![i] = tx]
    <3>1. /\ pool' \in Seq(Tx) /\ Len(pool') = Len(pool)
          /\ \A j \in 1..Len(pool) : pool'[j] = IF j = i THEN tx ELSE pool[j]
      BY <1>3, <2>1, <2>3, ExceptSeq
    <3>2. i \in 1..Len(pool)
      BY <2>3
    <3> QED
      BY <2>1, <3>1, <3>2
  <2> QED
    BY <2>2, <2>3
<1>5. Becomes(q, e)
  OBVIOUS
<1>6. /\ Lost' = Lost /\ Begun' \subseteq Begun \cup {q}
      /\ request'[q] = e /\ \A p \in Requests : p # q => request'[p] = request[p]
  BY <1>1, <1>2, <1>5, OneHandlerMoves
<1>7. Minds(q, e, y, mined', pool')
  <2>1. i \in 1..Len(pool') /\ i + Len(mined') = e.nonce + 1 /\ pool'[i].from = q
    BY <1>2, <1>3, <1>4
  <2> QED
    BY <1>2, <2>1 DEF Minds, MindsTx, Sending
<1>8. ASSUME NEW x \in Things, Open(x)', x # y
      PROVE  Open(x)
  <2>1. x[1] \in {"content", "binding"} => Open(x)
    BY <1>8 DEF Open, MissingContents, MissingBindings
  <2>2. CASE x[1] = "tx"
    <3>1. x[2] \in Nat /\ Len(mined) <= x[2] /\ x[2] < Len(mined) + Len(pool') /\ x = <<"tx", x[2]>>
      BY <1>8, <2>2, ThingIs DEF Open
    <3>2. x[2] # r.nonce
      BY <1>8, <3>1
    <3>3. x[2] < Len(mined) + Len(pool)
      BY <1>1, <1>4, <3>1, <3>2
    <3> QED
      BY <2>2, <3>1, <3>3 DEF Open
  <2> QED
    BY <2>1, <2>2, ThingIs
<1>9. ASSUME NEW x \in Things, x # y, NEW p \in Requests, Minds(p, request[p], x, mined, pool)
      PROVE  Minds(p, request'[p], x, mined', pool')
  <2>1. CASE p = q
    <3>1. x = <<"content", r.hash>> /\ r.kind = "one-shot" /\ ~r.registering
      BY <1>1, <1>9, <2>1, MindsBeforeReceipt
    <3> QED
      BY <1>2, <1>6, <2>1, <3>1 DEF Minds, MindsContent, Active
  <2>2. CASE p # q
    <3> PICK o : o = request[p]
      OBVIOUS
    <3>1. request'[p] = o /\ mined' = mined
      BY <1>6, <2>2
    <3>2. CASE x[1] \in {"content", "binding"}
      BY <1>9, <3>1, <3>2 DEF Minds, MindsContent, MindsBinding, MindsTx
    <3>3. CASE x[1] = "tx"
      <4>1. o.step = "wait" /\ x[2] = o.nonce /\ Sending(p, o, mined, pool) /\ x = <<"tx", o.nonce>>
        BY <1>9, <3>3, ThingIs DEF Minds, MindsTx
      <4>2. PICK j \in 1..Len(pool) : j + Len(mined) = o.nonce + 1 /\ pool[j].from = p
        BY <4>1 DEF Sending
      <4>3. o.nonce # r.nonce
        BY <1>9, <4>1
      <4>4. o.nonce \in Nat
        BY Now DEF Request
      <4>5. j # i
        BY <1>1, <1>4, <4>2, <4>3, <4>4
      <4>6. j \in 1..Len(pool') /\ pool'[j] = pool[j]
        BY <1>4, <4>5
      <4>7. Sending(p, o, mined', pool')
        BY <4>2, <4>6 DEF Sending
      <4> QED
        BY <3>1, <3>3, <4>1, <4>7 DEF Minds, MindsTx
    <3> QED
      BY <3>2, <3>3, ThingIs
  <2> QED
    BY <2>1, <2>2
<1>10. Astray' \subseteq Astray
  <2> SUFFICES ASSUME NEW x \in Astray'
               PROVE  x \in Astray
    OBVIOUS
  <2>1. x \in Things /\ Open(x)' /\ \A p \in Requests : ~Minds(p, request'[p], x, mined', pool')
    BY DEF Astray
  <2>2. x # y
    BY <1>6, <1>7, <2>1
  <2>3. \A p \in Requests : ~Minds(p, request[p], x, mined, pool)
    BY <1>9, <2>1, <2>2
  <2> QED
    BY <1>8, <2>1, <2>2, <2>3 DEF Astray
<1> QED
  BY <1>6, <1>10, Steady

\* The transaction is appended, replaces another, or is refused.
LEMMA BroadcastTally ==
    ASSUME IInv, Tally, NEW q \in Requests, Broadcast(q)
    PROVE  Tally'
<1> DEFINE i == request[q].nonce + 1 - Len(mined)
<1>1. Shape(request[q]) /\ At(q, "broadcast") /\ Active(request[q])
      /\ Len(mined) \in Nat /\ Len(pool) \in Nat /\ request[q].nonce \in Nat
  BY Now DEF Broadcast, Standing, At, Active, Request
<1>2. /\ UNCHANGED <<registered, bound, mined, content, binding, faults>>
      /\ \/ i = Len(pool) + 1 /\ pool' = Append(pool, TxOf(q)) /\ Becomes(q, To(request[q], "wait"))
         \/ i \in DOMAIN pool /\ pool' = [pool EXCEPT ![i] = TxOf(q)] /\ Becomes(q, To(request[q], "wait"))
         \/ pool' = pool /\ Becomes(q, Throw(request[q]))
  BY DEF Broadcast, rows
<1>3. CASE pool' = pool /\ Becomes(q, Throw(request[q]))
  <2> PICK r : r = request[q]
    OBVIOUS
  <2>1. r.step = "broadcast" /\ Shape(r) /\ Active(r) /\ Throw(r).answer # "lost"
    BY <1>1, ThrowAnswers DEF At
  <2>2. ASSUME NEW x \in Things, Minds(q, r, x, mined, pool)
        PROVE  Minds(q, Throw(r), x, mined, pool)
    <3>1. x = <<"content", r.hash>> /\ r.kind = "one-shot" /\ ~r.registering
      BY <2>1, <2>2, MindsBeforeReceipt
    <3> QED
      BY <2>1, <3>1, ThrowMinds
  <2>3. UNCHANGED <<chain, rows, faults>> /\ Becomes(q, Throw(r))
    BY <1>2, <1>3 DEF chain, rows
  <2> QED
    BY <2>1, <2>2, <2>3, MovesTally
<1>4. CASE i = Len(pool) + 1 /\ pool' = Append(pool, TxOf(q)) /\ Becomes(q, To(request[q], "wait"))
  <2>1. i \in 1..Len(pool)+1 /\ i + Len(mined) = request[q].nonce + 1
    BY <1>1, <1>4
  <2> HIDE DEF i
  <2> QED
    BY <1>1, <1>2, <1>4, <2>1, SentTally
<1>5. CASE i \in DOMAIN pool /\ pool' = [pool EXCEPT ![i] = TxOf(q)] /\ Becomes(q, To(request[q], "wait"))
  <2>1. DOMAIN pool = 1..Len(pool)
    BY DEF IInv, ChainTypes
  <2>2. i \in 1..Len(pool) /\ i \in 1..Len(pool)+1 /\ i + Len(mined) = request[q].nonce + 1
    BY <1>1, <1>5, <2>1
  <2> HIDE DEF i
  <2> QED
    BY <1>1, <1>2, <1>5, <2>2, SentTally
<1> QED
  BY <1>2, <1>3, <1>4, <1>5

\* No step loses more than it pays for.
LEMMA NextTally == IInv /\ Tally /\ [Next]_vars => Tally'
<1> SUFFICES ASSUME IInv, Tally, [Next]_vars
             PROVE  Tally'
  OBVIOUS
<1>1. ASSUME NEW q \in Requests, Arrive(q)
      PROVE  Tally'
  BY <1>1, ArriveTally
<1>2. ASSUME NEW q \in Requests, Handle(q)
      PROVE  Tally'
  BY <1>2, EarlyTally, BroadcastTally, WaitTally, FindTally, LinkTally, ContentTally DEF Handle
<1>3. ASSUME NEW q \in Requests, CallFails(q)
      PROVE  Tally'
  BY <1>3, CallFailsTally
<1>4. CASE Mine
  BY <1>4, MineTally
<1>5. CASE Restart
  BY <1>5, RestartTally
<1>6. ASSUME NEW r \in Registries, NEW h \in Hashes, OutsideRegister(r, h)
      PROVE  Tally'
  BY <1>6, OutsideTally
<1>7. CASE UNCHANGED vars
  <2>1. UNCHANGED <<registered, bound, pool, mined, content, binding, request, faults>>
    BY <1>7 DEF vars
  <2>2. Astray' = Astray /\ Lost' = Lost /\ Begun' = Begun
    BY <2>1 DEF Astray, Lost, Begun, Open, MissingContents, MissingBindings
  <2> QED
    BY <2>1, <2>2 DEF Tally
<1> QED
  BY <1>1, <1>2, <1>3, <1>4, <1>5, <1>6, <1>7 DEF Next, Quiet

\* At the start nothing is astray.
LEMMA InitTally == Init => Tally
<1> SUFFICES ASSUME Init
             PROVE  Tally
  OBVIOUS
<1>1. MissingContents = {} /\ MissingBindings = {} /\ Len(mined) = 0 /\ Len(pool) = 0
  BY DEF Init, MissingContents, MissingBindings
<1>2. Astray = {}
  <2> SUFFICES ASSUME NEW x \in Things, Open(x)
               PROVE  FALSE
    BY DEF Astray
  <2> QED
    BY <1>1, ThingIs DEF Open
<1>3. Begun = {}
  BY DEF Init, Begun, Idle
<1>4. Lost = {}
  <2>1. \A q \in Requests : request[q].answer = Null
    BY DEF Init, Idle
  <2> QED
    BY <2>1, NullAssumption DEF Lost
<1>5. faults = 0
  BY DEF Init
<1> QED
  BY <1>2, <1>3, <1>4, <1>5, FS_EmptySet DEF Tally

\* When nothing is under way, what is missing is astray.
LEMMA MissingIsAstray == IInv /\ Tally => MissingRowsAreFaults
<1> SUFFICES ASSUME IInv, Tally, pool = <<>>, \A q \in Requests : ~InFlight(q)
             PROVE  Cardinality(MissingContents) + Cardinality(MissingBindings) <=
                      faults + 2 * Cardinality({q \in Requests : request[q].answer = "lost"})
  BY DEF MissingRowsAreFaults
<1> PICK TC : TC = {"content"} \X MissingContents
  OBVIOUS
<1> PICK TB : TB = {"binding"} \X MissingBindings
  OBVIOUS
<1>1. ASSUME NEW x \in TC \cup TB
      PROVE  x \in Astray
  <2>1. x \in Things /\ Open(x)
    BY DEF Things, Open, MissingContents, MissingBindings
  <2>2. \A q \in Requests : ~Minds(q, request[q], x, mined, pool)
    BY DEF Minds, MindsContent, MindsBinding, MindsTx, InFlight, Active
  <2> QED
    BY <2>1, <2>2 DEF Astray
<1>2. TC \cup TB \subseteq Astray /\ TC \cap TB = {}
  BY <1>1
<1>3. IsFiniteSet(TC) /\ IsFiniteSet(TB) /\ IsFiniteSet(TC \cup TB)
      /\ Cardinality(TC \cup TB) <= Cardinality(Astray)
  BY <1>2, FS_Subset DEF Tally
<1>4. Cardinality(TC) + Cardinality(TB) = Cardinality(TC \cup TB)
  <2>1. Cardinality(TC \cup TB) = Cardinality(TC) + Cardinality(TB) - Cardinality(TC \cap TB)
    BY <1>3, FS_Union
  <2>2. Cardinality(TC \cap TB) = 0
    BY <1>2, FS_EmptySet
  <2>3. Cardinality(TC) \in Nat /\ Cardinality(TB) \in Nat
    BY <1>3, FS_CardinalityType
  <2> QED
    BY <2>1, <2>2, <2>3
<1>5. /\ IsFiniteSet(MissingContents) /\ Cardinality(MissingContents) <= Cardinality(TC)
      /\ IsFiniteSet(MissingBindings) /\ Cardinality(MissingBindings) <= Cardinality(TB)
  <2>1. PICK M : M = MissingContents
    OBVIOUS
  <2>2. PICK B : B = MissingBindings
    OBVIOUS
  <2>3. PICK f : f = [x \in TC |-> x[2]]
    OBVIOUS
  <2>4. PICK g : g = [x \in TB |-> x[2]]
    OBVIOUS
  <2>5. f \in Surjection(TC, M)
    <3>1. TC = {"content"} \X M
      BY <2>1
    <3>2. f \in [TC -> M]
      BY <2>3, <3>1
    <3>3. ASSUME NEW t \in M
          PROVE  \E x \in TC : f[x] = t
      <4>1. <<"content", t>> \in TC
        BY <3>1
      <4>2. f[<<"content", t>>] = t
        BY <2>3, <4>1
      <4> QED
        BY <4>1, <4>2
    <3> QED
      BY <3>2, <3>3 DEF Surjection
  <2>6. g \in Surjection(TB, B)
    <3>1. TB = {"binding"} \X B
      BY <2>2
    <3>2. g \in [TB -> B]
      BY <2>4, <3>1
    <3>3. ASSUME NEW t \in B
          PROVE  \E x \in TB : g[x] = t
      <4>1. <<"binding", t>> \in TB
        BY <3>1
      <4>2. g[<<"binding", t>>] = t
        BY <2>4, <4>1
      <4> QED
        BY <4>1, <4>2
    <3> QED
      BY <3>2, <3>3 DEF Surjection
  <2>7. IsFiniteSet(M) /\ Cardinality(M) <= Cardinality(TC)
    BY <1>3, <2>5, FS_Surjection
  <2>8. IsFiniteSet(B) /\ Cardinality(B) <= Cardinality(TB)
    BY <1>3, <2>6, FS_Surjection
  <2> QED
    BY <2>1, <2>2, <2>7, <2>8
<1>6. /\ Cardinality(MissingContents) \in Nat /\ Cardinality(MissingBindings) \in Nat
      /\ Cardinality(TC) \in Nat /\ Cardinality(TB) \in Nat /\ Cardinality(Astray) \in Nat
  BY <1>3, <1>5, FS_CardinalityType DEF Tally
<1>7. Cardinality(Astray) <= faults + 2 * Cardinality(Lost) /\ faults \in Nat /\ Cardinality(Lost) \in Nat
  BY LostIsFinite DEF Tally, IInv
<1>8. Cardinality(MissingContents) + Cardinality(MissingBindings) <= faults + 2 * Cardinality(Lost)
  BY <1>3, <1>4, <1>5, <1>6, <1>7
<1> QED
  BY <1>8 DEF Lost

\* Chain and database are written one after the other; when every request is
\* over and no transaction waits, each row the database lacks was lost to a
\* failing call or to a request that a restart cut off, for any number of
\* requests, registries, replaced transactions and faults.
THEOREM OnlyFaultsLoseRows == Spec => []MissingRowsAreFaults
<1>1. Spec => [](IInv /\ Tally)
  <2>1. Init => IInv /\ Tally
    BY InitHolds, InitTally
  <2>2. (IInv /\ Tally) /\ [Next]_vars => (IInv /\ Tally)'
    BY NextKeeps, NextTally
  <2> QED
    BY <2>1, <2>2, PTL DEF Spec
<1> QED
  BY <1>1, MissingIsAstray, PTL
=============================================================================
