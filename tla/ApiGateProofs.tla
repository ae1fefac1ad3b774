---------------------------- MODULE ApiGateProofs ----------------------------
(***************************************************************************)
(* Proofs about the API's gate, for any instances, users, keys, requests,  *)
(* windows and faults.                                                     *)
(***************************************************************************)
EXTENDS ApiGate, FiniteSetTheorems, SequenceTheorems, TLAPS

\* The steps at which a request waits for a store.
Waits == {"limit", "auth", "touch", "act", "insert"}

\* A request that is under way, by itself.
Sound(q) ==
    /\ q.at \in setup.insts
    /\ q.path = "token" => q.cred.by = "signature"
    /\ q.path \in Open \cup Guarded => q.cred.by \in {"none", "secret"}
    /\ q.pc = "limit" => q.n <= Len(Passes[q.path])
    /\ q.pc = "touch" => q.cred.by = "key" /\ q.path \in KeyPaths \cup {"content"}
    /\ q.pc \in {"touch", "act"} /\ q.path \in KeyPaths => q.who \in Users
    /\ q.pc = "insert" => q.path = "token" /\ q.who = q.cred.user /\ ~q.known
    /\ q.late => /\ q.cred.by = "key" /\ q.cred.key \in told
                 /\ q.path \in KeyPaths => q.pc \in {"limit", "auth"}
    /\ q.known => q.cred.by = "signature" /\ q.cred.user \in users

\* Every request under way has been let through what it passed.
SoundOK == \A r \in Reqs : InFlight(r) => Sound(req[r])

\* A lone request is the only one under way, and every hit is its own.
LonelyOK == \A r \in Reqs : InFlight(r) /\ req[r].alone =>
    /\ \A o \in Reqs : InFlight(o) => o = r
    /\ req[r].pc = "limit" => \A l \in Limiters : Hits(req[r].at, l) <= req[r].n

\* No lone request was refused, and no late one did anything to a key.
AnswersOK == \A r \in Reqs : req[r].pc = "answered" =>
    ~req[r].alone /\ (req[r].late => req[r].path \notin KeyPaths)

\* A key whose owner was told that it is revoked is revoked, or its row is gone.
ToldOK == \A k \in told : keys[k].state \in {"revoked", "gone"}

\* Somebody logged in for the first time as u.
HasToken(u) == \E o \in Reqs : Served(o) /\ req[o].path = "token" /\ req[o].user = u

\* Without faults a token row is there when its user is known, and no first
\* request of a known user is turned away.
LoginsOK == faults = 0 => \A r \in Reqs :
    /\ req[r].pc = "insert" /\ req[r].who \in users => HasToken(req[r].who)
    /\ req[r].pc = "answered" /\ req[r].path = "token" /\ req[r].status = 500 =>
          ~req[r].known /\ HasToken(req[r].user)

\* What the strict limiters may still let through in the open windows.
Room == IF redis = "unset" THEN {x \in setup.insts \X (1 .. 10) : mem[x[1]]["strict"] < x[2]}
        ELSE {0} \X {k \in 1 .. 10 : shared < k}

\* Redis is unset for as long as it was from the start.
RedisOK == redis = "unset" <=> setup.redis = "unset"

\* What passed the limiter in Redis, with the room its window has left, is at most
\* ten for each window.
CountsOK == passed + Cardinality(Room) <= 10 * windows

\* The inductive invariant.
GInv ==
    /\ TypeOK
    /\ SoundOK /\ LonelyOK /\ AnswersOK /\ ToldOK /\ LoginsOK /\ RedisOK /\ CountsOK

-----------------------------------------------------------------------------
(***************************************************************************)
(* The limiters a path passes                                              *)
(***************************************************************************)

\* Behind(m, s) is a sequence of limiters, one relaxed, m moderate, s strict.
LEMMA BehindIs ==
    ASSUME NEW m \in Nat, NEW s \in Nat
    PROVE  Behind(m, s) \in Seq(Limiters) /\ Len(Behind(m, s)) = 1 + m + s
<1> DEFINE a == <<"relaxed">>
           b == [i \in 1 .. m |-> "moderate"]
           c == [i \in 1 .. s |-> "strict"]
<1>1. a \in Seq(Limiters) /\ Len(a) = 1
  BY DEF Limiters
<1>2. b \in Seq(Limiters) /\ Len(b) = m
  BY DEF Limiters
<1>3. c \in Seq(Limiters) /\ Len(c) = s
  BY DEF Limiters
<1> HIDE DEF a, b, c
<1>4. a \o b \in Seq(Limiters) /\ Len(a \o b) = 1 + m
  BY <1>1, <1>2, ConcatProperties
<1>5. (a \o b) \o c \in Seq(Limiters) /\ Len((a \o b) \o c) = (1 + m) + s
  BY <1>3, <1>4, ConcatProperties
<1>6. Behind(m, s) = (a \o b) \o c
  BY DEF Behind, a, b, c
<1> QED
  BY <1>5, <1>6

Few == {f \in Seq(Limiters) : Len(f) <= 9}

\* Up to eight routers at or before its mount, a path passes nine limiters.
LEMMA BehindFew ==
    ASSUME NEW m \in Nat, NEW s \in Nat, m + s <= 8
    PROVE  Behind(m, s) \in Few
  BY BehindIs DEF Few

\* No path passes more than nine limiters: fewer than the least limit.
LEMMA PassesNine ==
    ASSUME NEW p \in DOMAIN Passes
    PROVE  Passes[p] \in Seq(Limiters) /\ Len(Passes[p]) <= 9
<1>1. Behind(0, 0) \in Few
  BY BehindFew
<1>2. Behind(1, 0) \in Few
  BY BehindFew
<1>3. Behind(2, 0) \in Few
  BY BehindFew
<1>4. Behind(3, 1) \in Few
  BY BehindFew
<1>5. Behind(3, 2) \in Few
  BY BehindFew
<1>6. Behind(3, 3) \in Few
  BY BehindFew
<1>7. Behind(3, 4) \in Few
  BY BehindFew
<1>8. Behind(3, 5) \in Few
  BY BehindFew
<1>9. <<"moderate">> \in Few
  BY DEF Limiters, Few
<1>10. Passes[p] \in Few
  BY <1>1, <1>2, <1>3, <1>4, <1>5, <1>6, <1>7, <1>8, <1>9 DEF Passes
<1> QED
  BY <1>10 DEF Few

-----------------------------------------------------------------------------
(***************************************************************************)
(* Single requests                                                         *)
(***************************************************************************)

\* Who presents a token or signs is a user; who presents a key, a key.
LEMMA CredFields ==
    ASSUME NEW c \in Cred
    PROVE  /\ c.by \in {"none", "secret", "key", "jwt", "signature"}
           /\ c.by = "key" => c.key \in Keys
           /\ c.by \in {"jwt", "signature"} => c.user \in Users
  BY DEF Cred

\* The fields of a request have their types.
LEMMA RequestFields ==
    ASSUME NEW q \in Request
    PROVE  /\ q.pc \in Waits /\ q.path \in DOMAIN Passes /\ q.cred \in Cred
           /\ q.target \in Keys /\ q.at \in Insts /\ q.n \in Nat
           /\ q.who \in Users \cup {"nobody"}
           /\ q.alone \in BOOLEAN /\ q.late \in BOOLEAN /\ q.known \in BOOLEAN
  BY DEF Request, Waits

\* An answer keeps of its request what the properties ask about.
LEMMA AnswerFields ==
    ASSUME NEW q \in Request, NEW status \in Statuses,
           q.path = "token" => q.cred.by = "signature"
    PROVE  /\ AnswerTo(q, status) \in Answer
           /\ AnswerTo(q, status).pc = "answered"
           /\ AnswerTo(q, status).status = status
           /\ AnswerTo(q, status).path = q.path
           /\ q.path = "token" => AnswerTo(q, status).user = q.cred.user
           /\ AnswerTo(q, status).alone = (q.alone /\ status = 429)
           /\ AnswerTo(q, status).late = (q.late /\ status = 200)
           /\ AnswerTo(q, status).known = (q.known /\ status = 500)
<1> DEFINE user == IF q.path = "token" THEN q.cred.user ELSE "nobody"
           alone == q.alone /\ status = 429
           late == q.late /\ status = 200
           known == q.known /\ status = 500
           a == [pc |-> "answered", status |-> status, path |-> q.path, user |-> user,
                 alone |-> alone, late |-> late, known |-> known]
<1>1. a = AnswerTo(q, status)
  BY DEF AnswerTo
<1>2. user \in Users \cup {"nobody"} /\ (q.path = "token" => user = q.cred.user)
  BY CredFields, RequestFields
<1>3. alone \in BOOLEAN /\ late \in BOOLEAN /\ known \in BOOLEAN
  OBVIOUS
<1>4. q.path \in DOMAIN Passes
  BY RequestFields
<1> HIDE DEF user, alone, late, known
<1>5. /\ a \in Answer /\ a.pc = "answered" /\ a.status = status /\ a.path = q.path
      /\ a.user = user /\ a.alone = alone /\ a.late = late /\ a.known = known
  BY <1>2, <1>3, <1>4 DEF Answer
<1> QED
  BY <1>1, <1>2, <1>5 DEF alone, late, known

\* A request that goes on changes nothing but where it is.
LEMMA GoToFields ==
    ASSUME NEW q \in Request, NEW pc \in Waits,
           NEW m, m = [q EXCEPT !.pc = pc]
    PROVE  /\ m \in Request /\ m.pc = pc /\ m.who = q.who
           /\ m.path = q.path /\ m.cred = q.cred /\ m.at = q.at
           /\ m.alone = q.alone /\ m.late = q.late /\ m.known = q.known
  BY DEF Request, Waits

\* The same for one past its limiters.
LEMMA PastFields ==
    ASSUME NEW q \in Request,
           NEW m, m = [q EXCEPT !.pc = "auth", !.n = 0]
    PROVE  /\ m \in Request /\ m.pc = "auth" /\ m.who = q.who
           /\ m.path = q.path /\ m.cred = q.cred /\ m.at = q.at
           /\ m.alone = q.alone /\ m.late = q.late /\ m.known = q.known
  BY DEF Request, Waits

\* The same for one let through by a limiter.
LEMMA HitFields ==
    ASSUME NEW q \in Request,
           NEW m, m = OneMore(q, "n")
    PROVE  /\ m \in Request /\ m.pc = q.pc /\ m.who = q.who /\ m.n = q.n + 1
           /\ m.path = q.path /\ m.cred = q.cred /\ m.at = q.at
           /\ m.alone = q.alone /\ m.late = q.late /\ m.known = q.known
<1>1. q.n + 1 \in Nat
  BY RequestFields
<1>2. m = [q EXCEPT !.n = q.n + 1]
  BY DEF OneMore
<1> QED
  BY <1>1, <1>2 DEF Request

\* Requests under way are requests; answered ones are answers.
LEMMA ReqIs ==
    ASSUME TypeOK, NEW r \in Reqs
    PROVE  /\ InFlight(r) <=> req[r] \in Request
           /\ req[r].pc = "answered" <=> req[r] \in Answer
           /\ InFlight(r) <=> req[r].pc \in Waits
<1>1. req[r] \in {NotYet, Lost} \cup Request \cup Answer
  BY DEF TypeOK
<1>2. \A q \in Request : q.pc \in Waits
  BY RequestFields
<1>3. \A q \in Answer : q.pc = "answered"
  BY DEF Answer
<1>4. NotYet.pc = "idle" /\ Lost.pc = "lost"
  BY DEF NotYet, Lost
<1>5. InFlight(r) <=> req[r].pc \in Waits
  BY DEF InFlight, Waits
<1>6. "idle" \notin Waits /\ "lost" \notin Waits /\ "answered" \notin Waits
  BY DEF Waits
<1>7. CASE req[r] \in Request
  <2>1. req[r].pc \in Waits
    BY <1>2, <1>7
  <2>2. req[r] \notin Answer
    BY <2>1, <1>3, <1>6
  <2> QED
    BY <2>1, <2>2, <1>5, <1>6, <1>7
<1>8. CASE req[r] \in Answer
  <2>1. req[r].pc = "answered"
    BY <1>3, <1>8
  <2>2. req[r] \notin Request
    BY <2>1, <1>2, <1>6
  <2> QED
    BY <2>1, <2>2, <1>5, <1>6, <1>8
<1>9. CASE req[r] \notin Request /\ req[r] \notin Answer
  <2>1. req[r] = NotYet \/ req[r] = Lost
    BY <1>1, <1>9
  <2>2. req[r].pc \in {"idle", "lost"}
    BY <2>1, <1>4
  <2> QED
    BY <2>2, <1>5, <1>6, <1>9
<1> QED
  BY <1>7, <1>8, <1>9

-----------------------------------------------------------------------------
(***************************************************************************)
(* One request under way becomes q                                         *)
(***************************************************************************)

\* What is said of the others still holds: what was told stays told, and
\* users stay users.
LEMMA MoveSound ==
    ASSUME TypeOK, SoundOK, NEW r \in Reqs, NEW q, req' = [req EXCEPT ![r] = q],
           told \subseteq told', users \subseteq users', setup' = setup,
           q.pc \in Waits => Sound(q)'
    PROVE  SoundOK'
<1> SUFFICES ASSUME NEW o \in Reqs, InFlight(o)'
             PROVE  Sound(req[o])'
  BY DEF SoundOK
<1>1. req \in [Reqs -> {NotYet, Lost} \cup Request \cup Answer]
  BY DEF TypeOK
<1>2. req'[o].pc \in Waits
  BY DEF InFlight, Waits
<1>3. CASE o = r
  <2>1. req'[o] = q
    BY <1>1, <1>3
  <2> QED
    BY <2>1, <1>2 DEF Sound
<1>4. CASE o # r
  <2>1. req'[o] = req[o]
    BY <1>1, <1>4
  <2>2. Sound(req[o])
    BY <2>1, <1>2, ReqIs DEF SoundOK
  <2> QED
    BY <2>1, <2>2 DEF Sound
<1> QED
  BY <1>3, <1>4

\* A lone request stays alone while it is the only one that goes on.
LEMMA MoveLonely ==
    ASSUME TypeOK, LonelyOK, NEW r \in Reqs, InFlight(r), NEW q,
           req' = [req EXCEPT ![r] = q],
           q.pc \in Waits /\ q.alone => req[r].alone,
           q.pc = "limit" /\ q.alone => \A l \in Limiters : Hits(q.at, l)' <= q.n
    PROVE  LonelyOK'
<1> SUFFICES ASSUME NEW p \in Reqs, InFlight(p)', req'[p].alone
             PROVE  /\ \A o \in Reqs : InFlight(o)' => o = p
                    /\ req'[p].pc = "limit" => \A l \in Limiters : Hits(req[p].at, l)' <= req'[p].n
  BY DEF LonelyOK
<1>1. req \in [Reqs -> {NotYet, Lost} \cup Request \cup Answer]
  BY DEF TypeOK
<1>2. ASSUME NEW o \in Reqs, InFlight(o)'
      PROVE  InFlight(o)
  BY <1>1, <1>2 DEF InFlight
<1>3. req[p].alone
  <2>1. CASE p = r
    BY <1>1, <2>1 DEF InFlight, Waits
  <2>2. CASE p # r
    BY <1>1, <2>2
  <2> QED
    BY <2>1, <2>2
<1>4. InFlight(p)
  BY <1>2
<1>5. \A o \in Reqs : InFlight(o) => o = p
  BY <1>3, <1>4 DEF LonelyOK
<1>6. p = r
  BY <1>5
<1>7. req'[p] = q
  BY <1>1, <1>6
<1>8. req'[p].pc = "limit" => \A l \in Limiters : Hits(req[p].at, l)' <= req'[p].n
  BY <1>7 DEF Hits
<1> QED
  BY <1>2, <1>5, <1>8

\* Answers stay what they are.
LEMMA MoveAnswers ==
    ASSUME TypeOK, AnswersOK, NEW r \in Reqs, NEW q, req' = [req EXCEPT ![r] = q],
           q.pc = "answered" => ~q.alone /\ (q.late => q.path \notin KeyPaths)
    PROVE  AnswersOK'
<1> SUFFICES ASSUME NEW o \in Reqs, req'[o].pc = "answered"
             PROVE  ~req'[o].alone /\ (req'[o].late => req'[o].path \notin KeyPaths)
  BY DEF AnswersOK
<1>1. req \in [Reqs -> {NotYet, Lost} \cup Request \cup Answer]
  BY DEF TypeOK
<1>2. CASE o = r
  BY <1>1, <1>2
<1>3. CASE o # r
  <2>1. req'[o] = req[o]
    BY <1>1, <1>3
  <2> QED
    BY <2>1 DEF AnswersOK
<1> QED
  BY <1>2, <1>3

\* A first login that was served stays so.
LEMMA TokenStays ==
    ASSUME TypeOK, NEW r \in Reqs, InFlight(r), NEW q, req' = [req EXCEPT ![r] = q],
           NEW u, HasToken(u)
    PROVE  HasToken(u)'
<1>1. req \in [Reqs -> {NotYet, Lost} \cup Request \cup Answer]
  BY DEF TypeOK
<1>2. PICK o \in Reqs : Served(o) /\ req[o].path = "token" /\ req[o].user = u
  BY DEF HasToken
<1>3. o # r
  BY <1>2 DEF Served, InFlight
<1>4. req'[o] = req[o]
  BY <1>1, <1>3
<1>5. Served(o)' /\ req'[o].path = "token" /\ req'[o].user = u
  BY <1>2, <1>4 DEF Served
<1> QED
  BY <1>5 DEF HasToken

\* The logins of the others settle as before, when whoever becomes a user
\* now is served with a token.
LEMMA MoveLogins ==
    ASSUME TypeOK, LoginsOK, NEW r \in Reqs, InFlight(r), NEW q,
           req' = [req EXCEPT ![r] = q],
           faults' = 0 => faults = 0,
           \A u \in users' : u \in users \/ HasToken(u)',
           faults = 0 /\ q.pc = "insert" => q.who \notin users',
           faults' = 0 /\ q.pc = "answered" /\ q.path = "token" /\ q.status = 500 =>
              ~q.known /\ HasToken(q.user)'
    PROVE  LoginsOK'
<1> SUFFICES ASSUME faults' = 0, NEW o \in Reqs
             PROVE  /\ req'[o].pc = "insert" /\ req'[o].who \in users' => HasToken(req[o].who)'
                    /\ req'[o].pc = "answered" /\ req'[o].path = "token" /\ req'[o].status = 500 =>
                          ~req'[o].known /\ HasToken(req[o].user)'
  BY DEF LoginsOK
<1>1. req \in [Reqs -> {NotYet, Lost} \cup Request \cup Answer]
  BY DEF TypeOK
<1>2. CASE o = r
  <2>1. req'[o] = q
    BY <1>1, <1>2
  <2> QED
    BY <2>1 DEF HasToken, Served
<1>3. CASE o # r
  <2>1. req'[o] = req[o]
    BY <1>1, <1>3
  <2>2. PICK w : w = req[o].who
    OBVIOUS
  <2>3. PICK u : u = req[o].user
    OBVIOUS
  <2>4. req[o].pc = "insert" /\ w \in users' => HasToken(w)'
    <3>1. CASE w \in users /\ req[o].pc = "insert"
      <4>1. HasToken(w)
        BY <3>1, <2>2 DEF LoginsOK, HasToken
      <4> QED
        BY <4>1, TokenStays
    <3>2. CASE w \notin users
      BY <3>2
    <3> QED
      BY <3>1, <3>2
  <2>5. HasToken(u) => HasToken(u)'
    BY TokenStays
  <2>6. req[o].pc = "answered" /\ req[o].path = "token" /\ req[o].status = 500 =>
          ~req[o].known /\ HasToken(u)'
    <3> SUFFICES ASSUME req[o].pc = "answered", req[o].path = "token", req[o].status = 500
                 PROVE  ~req[o].known /\ HasToken(u)'
      OBVIOUS
    <3>1. ~req[o].known /\ HasToken(u)
      BY <2>3 DEF LoginsOK, HasToken
    <3> QED
      BY <3>1, <2>5
  <2> QED
    BY <2>1, <2>2, <2>3, <2>4, <2>6 DEF HasToken, Served
<1> QED
  BY <1>2, <1>3

\* The type invariant, for the requests and for the rest.
ReqType == req \in [Reqs -> {NotYet, Lost} \cup Request \cup Answer]

\* What is said of the requests, each by itself and of those alone.
FlowOK == ReqType /\ SoundOK /\ LonelyOK /\ AnswersOK

\* An answer keeps all of it: only a request that is not alone is refused by
\* a limiter, and none with a key that was reported revoked is served.
LEMMA RespondKeeps ==
    ASSUME TypeOK, FlowOK, NEW r \in Reqs, InFlight(r), NEW status \in Statuses,
           Respond(r, status), told \subseteq told', users \subseteq users', setup' = setup,
           status = 429 => ~req[r].alone,
           status = 200 /\ req[r].path \in KeyPaths => ~req[r].late
    PROVE  FlowOK'
<1> PICK e \in Request : e = req[r]
  BY ReqIs
<1> PICK q : q = AnswerTo(e, status)
  OBVIOUS
<1>1. Sound(e)
  BY DEF FlowOK, SoundOK, Sound
<1>2. /\ q \in Answer /\ q.pc = "answered" /\ q.path = e.path
      /\ q.alone = (e.alone /\ status = 429) /\ q.late = (e.late /\ status = 200)
  <2>1. e.path = "token" => e.cred.by = "signature"
    BY <1>1 DEF Sound
  <2> QED
    BY <2>1, AnswerFields
<1>3. req' = [req EXCEPT ![r] = q]
  BY DEF Respond
<1>4. q.pc \notin Waits
  BY <1>2 DEF Waits
<1>5. SoundOK'
  BY <1>3, <1>4, MoveSound DEF FlowOK
<1>6. LonelyOK'
  BY <1>3, <1>4, <1>2, MoveLonely DEF FlowOK
<1>7. AnswersOK'
  BY <1>2, <1>3, MoveAnswers DEF FlowOK
<1>8. ReqType'
  BY <1>2, <1>3 DEF ReqType, FlowOK
<1> QED
  BY <1>5, <1>6, <1>7, <1>8 DEF FlowOK

\* So does a step past the limiters that leaves the request sound.
LEMMA GoesKeep ==
    ASSUME TypeOK, FlowOK, NEW r \in Reqs, InFlight(r), NEW m \in Request,
           req' = [req EXCEPT ![r] = m], told \subseteq told', users \subseteq users',
           setup' = setup, m.pc # "limit", m.alone = req[r].alone, Sound(m)'
    PROVE  FlowOK'
<1>1. m.pc \in Waits
  BY RequestFields
<1>2. m.pc # "answered"
  BY <1>1 DEF Waits
<1>3. SoundOK'
  BY MoveSound DEF FlowOK
<1>4. LonelyOK'
  BY MoveLonely DEF FlowOK
<1>5. AnswersOK'
  BY <1>2, MoveAnswers DEF FlowOK
<1>6. ReqType'
  BY DEF ReqType, FlowOK
<1> QED
  BY <1>3, <1>4, <1>5, <1>6 DEF FlowOK

-----------------------------------------------------------------------------
(***************************************************************************)
(* The steps of a request                                                  *)
(***************************************************************************)

\* LimitsPassed keeps what is said of the requests.
LEMMA FlowLimitsPassed ==
    ASSUME TypeOK, FlowOK, NEW r \in Reqs, LimitsPassed(r)
    PROVE  FlowOK'
<1>1. InFlight(r)
  BY DEF LimitsPassed, InFlight
<1> PICK e \in Request : e = req[r]
  BY <1>1, ReqIs
<1> PICK m : m = [e EXCEPT !.pc = "auth", !.n = 0]
  OBVIOUS
<1>2. /\ m \in Request /\ m.pc = "auth" /\ m.who = e.who
      /\ m.path = e.path /\ m.cred = e.cred /\ m.at = e.at
      /\ m.alone = e.alone /\ m.late = e.late /\ m.known = e.known
  BY PastFields
<1>3. req' = [req EXCEPT ![r] = m] /\ e.pc = "limit"
  BY DEF LimitsPassed
<1>4. UNCHANGED <<setup, told, users>>
  BY DEF LimitsPassed, rows
<1>5. Sound(e)
  BY <1>1 DEF FlowOK, SoundOK, Sound
<1>6. Sound(m)'
  BY <1>2, <1>3, <1>4, <1>5 DEF Sound
<1> QED
  BY <1>1, <1>2, <1>3, <1>4, <1>6, GoesKeep

\* requireApiKey keeps it.
LEMMA FlowRequire ==
    ASSUME TypeOK, FlowOK, NEW r \in Reqs, requireApiKey(r)
    PROVE  FlowOK'
<1>1. InFlight(r)
  BY DEF requireApiKey, InFlight
<1> DEFINE status == IF req[r].path \in Guarded /\ req[r].cred.by # "secret" THEN 401 ELSE 200
<1>2. status \in Statuses /\ status # 429
  BY DEF Statuses
<1>3. Respond(r, status)
  BY DEF requireApiKey
<1>4. req[r].path \notin KeyPaths
  BY DEF requireApiKey, Open, Guarded, KeyPaths
<1>5. UNCHANGED <<setup, told, users>>
  BY DEF requireApiKey, rows, Elsewhere
<1> HIDE DEF status
<1> QED
  BY <1>1, <1>2, <1>3, <1>4, <1>5, RespondKeeps

\* Being let go on as nobody keeps it, and so does being refused.
LEMMA FlowUnauthenticated ==
    ASSUME TypeOK, FlowOK, NEW r \in Reqs, req[r].pc = "auth",
           req[r].path \in KeyPaths \cup {"content"},
           Unauthenticated(r), UNCHANGED <<setup, told, users>>
    PROVE  FlowOK'
<1>1. InFlight(r)
  BY DEF InFlight
<1>2. CASE req[r].path \in KeyPaths
  <2>1. Respond(r, 401)
    BY <1>2 DEF Unauthenticated
  <2>2. 401 \in Statuses
    BY DEF Statuses
  <2> QED
    BY <1>1, <2>1, <2>2, RespondKeeps
<1>3. CASE req[r].path \notin KeyPaths
  <2> PICK e \in Request : e = req[r]
    BY <1>1, ReqIs
  <2> PICK m : m = [e EXCEPT !.pc = "act"]
    OBVIOUS
  <2>1. "act" \in Waits
    BY DEF Waits
  <2>2. /\ m \in Request /\ m.pc = "act" /\ m.who = e.who
        /\ m.path = e.path /\ m.cred = e.cred /\ m.at = e.at
        /\ m.alone = e.alone /\ m.late = e.late /\ m.known = e.known
    BY <2>1, GoToFields
  <2>3. req' = [req EXCEPT ![r] = m]
    BY <1>3 DEF Unauthenticated, GoTo
  <2>4. Sound(e)
    BY <1>1 DEF FlowOK, SoundOK, Sound
  <2>5. Sound(m)'
    BY <2>2, <2>4, <1>3 DEF Sound
  <2> QED
    BY <1>1, <2>2, <2>3, <2>5, GoesKeep
<1> QED
  BY <1>2, <1>3

\* Being let in as a key's owner or a token's holder keeps it, when the
\* request is sound where it goes.
LEMMA FlowGoAs ==
    ASSUME TypeOK, FlowOK, NEW r \in Reqs, InFlight(r), NEW e \in Request, e = req[r],
           NEW pc \in Waits \ {"limit"}, NEW who \in Users \cup {"nobody"}, GoAs(r, pc, who),
           UNCHANGED <<setup, told, users>>,
           pc = "touch" => e.cred.by = "key" /\ e.path \in KeyPaths \cup {"content"},
           pc \in {"touch", "act"} /\ e.path \in KeyPaths => who \in Users,
           pc = "insert" => e.path = "token" /\ who = e.cred.user /\ ~e.known,
           pc # "auth" /\ e.path \in KeyPaths => ~e.late
    PROVE  FlowOK'
<1> PICK m : m = [e EXCEPT !.pc = pc, !.who = who]
  OBVIOUS
<1>1. /\ m \in Request /\ m.pc = pc /\ m.who = who
      /\ m.path = e.path /\ m.cred = e.cred /\ m.at = e.at
      /\ m.alone = e.alone /\ m.late = e.late /\ m.known = e.known
  <2>1. pc \in Waits /\ who \in Users \cup {"nobody"}
    OBVIOUS
  <2> QED
    BY <2>1 DEF Request, Waits
<1>2. req' = [req EXCEPT ![r] = m]
  BY DEF GoAs
<1>3. Sound(e)
  BY DEF FlowOK, SoundOK, Sound
<1>4. Sound(m)'
  BY <1>1, <1>3 DEF Sound
<1> QED
  BY <1>1, <1>2, <1>4, GoesKeep

\* verifyApiKey keeps it: a key that was reported revoked is not in use.
LEMMA FlowVerify ==
    ASSUME TypeOK, FlowOK, ToldOK, NEW r \in Reqs, verifyApiKey(r)
    PROVE  FlowOK'
<1>1. InFlight(r) /\ req[r].pc = "auth" /\ req[r].path \in KeyPaths \cup {"content"}
  BY DEF verifyApiKey, InFlight
<1>2. UNCHANGED <<setup, told, users>>
  BY DEF verifyApiKey, rows, Elsewhere
<1> PICK e \in Request : e = req[r]
  BY <1>1, ReqIs
<1>3. Sound(e)
  BY <1>1 DEF FlowOK, SoundOK, Sound
<1>4. CASE Unauthenticated(r)
  BY <1>1, <1>2, <1>4, FlowUnauthenticated
<1>5. CASE e.cred.by = "jwt" /\ GoAs(r, "act", e.cred.user)
  <2> PICK u : u = e.cred.user
    OBVIOUS
  <2>1. u \in Users
    BY <1>5, CredFields, RequestFields
  <2>2. ~e.late
    BY <1>3, <1>5 DEF Sound
  <2>3. "act" \in Waits \ {"limit"}
    BY DEF Waits
  <2>4. GoAs(r, "act", u)
    BY <1>5
  <2> QED
    BY <1>1, <1>2, <2>1, <2>2, <2>3, <2>4, FlowGoAs
<1>6. CASE e.cred.by = "key" /\ InUse(e.cred.key) /\ GoAs(r, "touch", keys[e.cred.key].owner)
  <2> PICK k : k = e.cred.key
    OBVIOUS
  <2> PICK u : u = keys[k].owner
    OBVIOUS
  <2>1. k \in Keys
    BY <1>6, CredFields, RequestFields
  <2>2. keys[k].state = "active"
    BY <1>6 DEF InUse
  <2>3. u \in Users
    BY <2>1, <2>2 DEF TypeOK, KeyRow, Absent
  <2>4. ~e.late
    BY <1>3, <2>2 DEF Sound, ToldOK
  <2>5. "touch" \in Waits \ {"limit"}
    BY DEF Waits
  <2>6. GoAs(r, "touch", u)
    BY <1>6
  <2> QED
    BY <1>1, <1>2, <1>6, <2>3, <2>4, <2>5, <2>6, FlowGoAs
<1> QED
  BY <1>4, <1>5, <1>6 DEF verifyApiKey

\* TouchKey keeps it.
LEMMA FlowTouch ==
    ASSUME TypeOK, FlowOK, NEW r \in Reqs, TouchKey(r)
    PROVE  FlowOK'
<1>1. InFlight(r) /\ req[r].pc = "touch"
  BY DEF TouchKey, InFlight
<1>2. UNCHANGED <<setup, told, users>>
  BY DEF TouchKey, rows, Elsewhere
<1> PICK e \in Request : e = req[r]
  BY <1>1, ReqIs
<1>3. Sound(e)
  BY <1>1 DEF FlowOK, SoundOK, Sound
<1>4. "act" \in Waits \ {"limit"}
  BY DEF Waits
<1>5. CASE GoTo(r, "act")
  <2> PICK m : m = [e EXCEPT !.pc = "act"]
    OBVIOUS
  <2>1. /\ m \in Request /\ m.pc = "act" /\ m.who = e.who
        /\ m.path = e.path /\ m.cred = e.cred /\ m.at = e.at
        /\ m.alone = e.alone /\ m.late = e.late /\ m.known = e.known
    BY <1>4, GoToFields
  <2>2. req' = [req EXCEPT ![r] = m]
    BY <1>5 DEF GoTo
  <2>3. Sound(m)'
    BY <1>1, <1>2, <1>3, <2>1 DEF Sound
  <2> QED
    BY <1>1, <1>2, <2>1, <2>2, <2>3, GoesKeep
<1>6. CASE Respond(r, 401)
  <2>1. 401 \in Statuses
    BY DEF Statuses
  <2> QED
    BY <1>1, <1>2, <1>6, <2>1, RespondKeeps
<1>7. CASE e.path \notin KeyPaths /\ GoAs(r, "act", "nobody")
  <2>1. "nobody" \in Users \cup {"nobody"}
    OBVIOUS
  <2> QED
    BY <1>1, <1>2, <1>4, <1>7, <2>1, FlowGoAs
<1> QED
  BY <1>5, <1>6, <1>7 DEF TouchKey

\* The routes of keys answer requests that are not late.
LEMMA FlowAct ==
    ASSUME TypeOK, FlowOK, NEW r \in Reqs, req[r].pc = "act", Respond(r, 200),
           told \subseteq told', users' = users, setup' = setup
    PROVE  FlowOK'
<1>1. InFlight(r)
  BY DEF InFlight
<1>2. req[r].path \in KeyPaths => ~req[r].late
  BY <1>1 DEF FlowOK, SoundOK, Sound
<1>3. 200 \in Statuses
  BY DEF Statuses
<1> QED
  BY <1>1, <1>2, <1>3, RespondKeeps

\* FindUser keeps it: who signs and is not found was not known before.
LEMMA FlowFind ==
    ASSUME TypeOK, FlowOK, NEW r \in Reqs, FindUser(r)
    PROVE  FlowOK'
<1>1. InFlight(r) /\ req[r].pc = "auth" /\ req[r].path = "token"
  BY DEF FindUser, InFlight
<1>2. UNCHANGED <<setup, told, users>>
  BY DEF FindUser, rows, Elsewhere
<1> PICK e \in Request : e = req[r]
  BY <1>1, ReqIs
<1> PICK u : u = e.cred.user
  OBVIOUS
<1>3. Sound(e)
  BY <1>1 DEF FlowOK, SoundOK, Sound
<1>4. u \in Users
  BY <1>1, <1>3, CredFields, RequestFields DEF Sound
<1>5. e.path \notin KeyPaths
  BY <1>1 DEF KeyPaths
<1>6. CASE Respond(r, 200)
  <2>1. 200 \in Statuses
    BY DEF Statuses
  <2> QED
    BY <1>1, <1>2, <1>5, <1>6, <2>1, RespondKeeps
<1>7. CASE u \notin users /\ GoAs(r, "insert", u)
  <2>1. "insert" \in Waits \ {"limit"}
    BY DEF Waits
  <2>2. ~e.known
    BY <1>3, <1>7 DEF Sound
  <2> QED
    BY <1>1, <1>2, <1>4, <1>5, <1>7, <2>1, <2>2, FlowGoAs
<1> QED
  BY <1>6, <1>7 DEF FindUser

\* InsertUser keeps it.
LEMMA FlowInsert ==
    ASSUME TypeOK, FlowOK, NEW r \in Reqs, InsertUser(r)
    PROVE  FlowOK'
<1>1. InFlight(r) /\ req[r].pc = "insert"
  BY DEF InsertUser, InFlight
<1>2. UNCHANGED <<setup, told>> /\ users \subseteq users'
  BY DEF InsertUser, Elsewhere
<1>3. req[r].path \notin KeyPaths
  BY <1>1 DEF FlowOK, SoundOK, Sound, KeyPaths
<1>4. 200 \in Statuses /\ 500 \in Statuses
  BY DEF Statuses
<1>5. Respond(r, 500) \/ Respond(r, 200)
  BY DEF InsertUser
<1>6. CASE Respond(r, 500)
  BY <1>1, <1>2, <1>4, <1>6, RespondKeeps
<1>7. CASE Respond(r, 200)
  BY <1>1, <1>2, <1>3, <1>4, <1>7, RespondKeeps
<1> QED
  BY <1>5, <1>6, <1>7

\* HandlerFails keeps it.
LEMMA FlowFails ==
    ASSUME TypeOK, FlowOK, NEW r \in Reqs, HandlerFails(r)
    PROVE  FlowOK'
<1>1. InFlight(r)
  BY DEF HandlerFails, InFlight
<1>2. UNCHANGED <<setup, told, users>> /\ Respond(r, 500)
  BY DEF HandlerFails, Elsewhere, rows
<1>3. 500 \in Statuses
  BY DEF Statuses
<1> QED
  BY <1>1, <1>2, <1>3, RespondKeeps

\* The next limiter is one of the three; ten hits reach none of their limits
\* before the last of them.
LEMMA NextLimiter ==
    ASSUME NEW p \in DOMAIN Passes, NEW n \in Nat, n < Len(Passes[p])
    PROVE  /\ Passes[p][n + 1] \in Limiters
           /\ n + 1 <= 9
           /\ Max[Passes[p][n + 1]] \in Nat /\ Max[Passes[p][n + 1]] >= 10
<1>1. Passes[p] \in Seq(Limiters) /\ Len(Passes[p]) <= 9
  BY PassesNine
<1>2. Len(Passes[p]) \in Nat /\ n + 1 \in 1 .. Len(Passes[p])
  BY <1>1
<1>3. Passes[p][n + 1] \in Limiters
  BY <1>1, <1>2, ElementOfSeq
<1>4. \A l \in Limiters : Max[l] \in Nat /\ Max[l] >= 10
  BY DEF Limiters, Max
<1> QED
  BY <1>1, <1>2, <1>3, <1>4

\* A hit counts one more on one counter, where the request is.
LEMMA HitCounts ==
    ASSUME TypeOK, NEW r \in Reqs, NEW e \in Request, e = req[r], Hit(r),
           e.at \in setup.insts
    PROVE  \A k \in Limiters : /\ Hits(e.at, k) \in Nat /\ Hits(e.at, k)' \in Nat
                               /\ Hits(e.at, k)' <= Hits(e.at, k) + 1
<1> PICK l : l = Passes[e.path][e.n + 1]
  OBVIOUS
<1>1. mem \in [setup.insts -> [Limiters -> Nat]] /\ shared \in Nat
  BY DEF TypeOK
<1>2. redis' = redis
  BY DEF Hit
<1> PICK f \in [Limiters -> Nat] : f = mem[e.at]
  BY <1>1
<1>5. CountHit(e.at, l)
  BY DEF Hit
<1>3. CASE redis = "unset"
  <2>1. mem' = [mem EXCEPT ![e.at] = OneMore(@, l)]
    BY <1>3, <1>5 DEF CountHit
  <2>2. mem'[e.at] = OneMore(f, l)
    BY <1>1, <2>1
  <2>3. ASSUME NEW k \in Limiters
        PROVE  mem'[e.at][k] \in Nat /\ mem'[e.at][k] <= f[k] + 1
    BY <2>2 DEF OneMore
  <2> QED
    BY <1>2, <1>3, <2>3 DEF Hits
<1>4. CASE redis # "unset"
  <2>1. shared' = shared + 1
    BY <1>4, <1>5 DEF CountHit
  <2> QED
    BY <1>1, <1>2, <1>4, <2>1 DEF Hits
<1> QED
  BY <1>3, <1>4

\* Hit keeps it: a lone request has at most nine hits to its account.
LEMMA FlowHit ==
    ASSUME TypeOK, FlowOK, NEW r \in Reqs, Hit(r)
    PROVE  FlowOK'
<1>1. InFlight(r) /\ req[r].pc = "limit"
  BY DEF Hit, InFlight
<1>2. UNCHANGED <<setup, told, users>>
  BY DEF Hit, rows
<1> PICK e \in Request : e = req[r]
  BY <1>1, ReqIs
<1> PICK l : l = Passes[e.path][e.n + 1]
  OBVIOUS
<1>3. Sound(e)
  BY <1>1 DEF FlowOK, SoundOK, Sound
<1>4. e.path \in DOMAIN Passes /\ e.n \in Nat /\ e.at \in setup.insts
  BY <1>3, RequestFields DEF Sound
<1>5. e.n < Len(Passes[e.path])
  BY DEF Hit
<1>6. l \in Limiters /\ e.n + 1 <= 9 /\ Max[l] \in Nat /\ Max[l] >= 10
  BY <1>4, <1>5, NextLimiter
<1>7. \A k \in Limiters : /\ Hits(e.at, k) \in Nat /\ Hits(e.at, k)' \in Nat
                          /\ Hits(e.at, k)' <= Hits(e.at, k) + 1
  BY <1>4, HitCounts
<1>8. e.alone => \A k \in Limiters : Hits(e.at, k) <= e.n
  BY <1>1 DEF FlowOK, LonelyOK, Hits
<1>9. CASE Hits(e.at, l) + 1 > Max[l]
  <2>1. Respond(r, 429)
    BY <1>9 DEF Hit, Hits
  <2>2. ~e.alone
    BY <1>4, <1>6, <1>7, <1>8, <1>9
  <2>3. 429 \in Statuses
    BY DEF Statuses
  <2> QED
    BY <1>1, <1>2, <2>1, <2>2, <2>3, RespondKeeps
<1>10. CASE ~(Hits(e.at, l) + 1 > Max[l])
  <2> PICK m : m = OneMore(e, "n")
    OBVIOUS
  <2>1. req' = [req EXCEPT ![r] = m]
    <3>1. LetOn(r)
      BY <1>10 DEF Hit, Hits
    <3> QED
      BY <3>1 DEF LetOn
  <2>2. /\ m \in Request /\ m.pc = e.pc /\ m.who = e.who /\ m.n = e.n + 1
        /\ m.path = e.path /\ m.cred = e.cred /\ m.at = e.at
        /\ m.alone = e.alone /\ m.late = e.late /\ m.known = e.known
    BY HitFields
  <2>3. Len(Passes[e.path]) \in Nat
    BY <1>4, PassesNine
  <2>4. m.n <= Len(Passes[m.path])
    BY <1>4, <1>5, <2>2, <2>3
  <2>5. m.pc = "limit"
    BY <1>1, <2>2
  <2>6. Sound(m)'
    BY <1>2, <1>3, <2>2, <2>4, <2>5 DEF Sound
  <2>7. SoundOK'
    BY <1>2, <2>1, <2>6, MoveSound DEF FlowOK
  <2>8. m.alone => \A k \in Limiters : Hits(e.at, k)' <= e.n + 1
    BY <1>4, <1>7, <1>8, <2>2
  <2>9. m.alone => \A k \in Limiters : Hits(m.at, k)' <= m.n
    BY <2>2, <2>8 DEF Hits
  <2>10. LonelyOK'
    BY <1>1, <2>1, <2>2, <2>9, MoveLonely DEF FlowOK
  <2>11. AnswersOK'
    BY <2>1, <2>5, MoveAnswers DEF FlowOK
  <2>12. ReqType'
    BY <2>1, <2>2 DEF ReqType, FlowOK
  <2> QED
    BY <2>7, <2>10, <2>11, <2>12 DEF FlowOK
<1> QED
  BY <1>9, <1>10

-----------------------------------------------------------------------------
(***************************************************************************)
(* Requests that come and that are lost                                    *)
(***************************************************************************)

\* A setup names instances and paths.
LEMMA SetupFields ==
    ASSUME TypeOK
    PROVE  /\ setup.insts \subseteq Insts /\ setup.paths \subseteq DOMAIN Passes
           /\ setup.redis \in {"unset", "up"}
<1>1. setup \in [insts : SUBSET Insts, redis : {"unset", "up"}, exempt : BOOLEAN,
                 paths : SUBSET DOMAIN Passes]
  BY SetupAssumption DEF TypeOK
<1> QED
  BY <1>1

\* A client presents a credential of the kind its path asks for.
LEMMA PresentableIs ==
    ASSUME TypeOK, NEW path \in DOMAIN Passes, NEW c \in Presentable(path)
    PROVE  /\ c \in Cred
           /\ path = "token" => c.by = "signature"
           /\ path \in Open \cup Guarded => c.by \in {"none", "secret"}
<1>1. tokens \subseteq Users
  BY DEF TypeOK
<1>2. CASE path \in Open
  BY <1>2 DEF Presentable, Cred, Open
<1>3. CASE path = "token"
  BY <1>3 DEF Presentable, Cred, Open, Guarded
<1>4. CASE path \in Guarded
  BY <1>4 DEF Presentable, Cred, Open, Guarded
<1>5. CASE path \notin Open \cup Guarded /\ path # "token"
  <2>1. c \in [by : {"none"}] \cup [by : {"key"}, key : {k \in Keys : keys[k].state # "absent"}]
              \cup [by : {"jwt"}, user : tokens]
    BY <1>5 DEF Presentable
  <2>2. CASE c \in [by : {"none"}]
    BY <2>2, <1>5 DEF Cred
  <2>3. CASE c \in [by : {"key"}, key : {k \in Keys : keys[k].state # "absent"}]
    BY <2>3, <1>5 DEF Cred
  <2>4. CASE c \in [by : {"jwt"}, user : tokens]
    BY <2>4, <1>1, <1>5 DEF Cred
  <2> QED
    BY <2>1, <2>2, <2>3, <2>4
<1> QED
  BY <1>2, <1>3, <1>4, <1>5

\* Nothing is said of a request by itself that depends on its being alone.
LEMMA AloneNoMore ==
    ASSUME NEW q \in Request, NEW m, m = [q EXCEPT !.alone = FALSE]
    PROVE  /\ m \in Request /\ m.pc = q.pc /\ m.who = q.who /\ m.n = q.n
           /\ m.path = q.path /\ m.cred = q.cred /\ m.at = q.at
           /\ m.alone = FALSE /\ m.late = q.late /\ m.known = q.known
  BY DEF Request

\* Arrive keeps it: a request is lone only if nothing else is under way, and
\* nothing under way stays lone.
LEMMA FlowArrive ==
    ASSUME TypeOK, FlowOK, NEW i \in setup.insts, NEW r \in Reqs, Arrive(r, i)
    PROVE  FlowOK'
<1>1. req \in [Reqs -> {NotYet, Lost} \cup Request \cup Answer]
  BY DEF TypeOK
<1>2. UNCHANGED <<setup, redis, mem, shared, users, told>>
  BY DEF Arrive, limits, rows
<1>3. PICK path \in setup.paths : \E cred \in Presentable(path), target \in Keys :
          req' = [o \in Reqs |->
                IF o = r
                THEN [pc |-> "limit", path |-> path, cred |-> cred, target |-> target, at |-> i,
                      n |-> 0, who |-> "nobody", alone |-> NoHits(i) /\ ~\E p \in Reqs : InFlight(p),
                      late |-> cred.by = "key" /\ cred.key \in told,
                      known |-> cred.by = "signature" /\ cred.user \in users]
                ELSE IF InFlight(o) THEN [req[o] EXCEPT !.alone = FALSE] ELSE req[o]]
  BY DEF Arrive
<1>4. PICK cred \in Presentable(path), target \in Keys :
          req' = [o \in Reqs |->
                IF o = r
                THEN [pc |-> "limit", path |-> path, cred |-> cred, target |-> target, at |-> i,
                      n |-> 0, who |-> "nobody", alone |-> NoHits(i) /\ ~\E p \in Reqs : InFlight(p),
                      late |-> cred.by = "key" /\ cred.key \in told,
                      known |-> cred.by = "signature" /\ cred.user \in users]
                ELSE IF InFlight(o) THEN [req[o] EXCEPT !.alone = FALSE] ELSE req[o]]
  BY <1>3
<1> PICK alone : alone = (NoHits(i) /\ ~\E p \in Reqs : InFlight(p))
  OBVIOUS
<1> PICK late : late = (cred.by = "key" /\ cred.key \in told)
  OBVIOUS
<1> PICK known : known = (cred.by = "signature" /\ cred.user \in users)
  OBVIOUS
<1> PICK q : q = [pc |-> "limit", path |-> path, cred |-> cred, target |-> target, at |-> i,
                  n |-> 0, who |-> "nobody", alone |-> alone, late |-> late, known |-> known]
  OBVIOUS
<1>5. req' = [o \in Reqs |-> IF o = r THEN q
                             ELSE IF InFlight(o) THEN [req[o] EXCEPT !.alone = FALSE] ELSE req[o]]
  BY <1>4
<1>6. /\ path \in DOMAIN Passes /\ cred \in Cred
      /\ path = "token" => cred.by = "signature"
      /\ path \in Open \cup Guarded => cred.by \in {"none", "secret"}
  BY SetupFields, PresentableIs
<1>7. alone \in BOOLEAN /\ late \in BOOLEAN /\ known \in BOOLEAN
  OBVIOUS
<1>8. i \in Insts
  BY SetupFields
<1>9. /\ q \in Request /\ q.pc = "limit" /\ q.path = path /\ q.cred = cred /\ q.at = i /\ q.n = 0
      /\ q.alone = alone /\ q.late = late /\ q.known = known
  BY <1>6, <1>7, <1>8 DEF Request
<1>10. req'[r] = q
  BY <1>5
<1>11. ASSUME NEW o \in Reqs, o # r, InFlight(o)
       PROVE  req'[o] = [req[o] EXCEPT !.alone = FALSE]
  BY <1>5, <1>11
<1>12. ASSUME NEW o \in Reqs, o # r, ~InFlight(o)
       PROVE  req'[o] = req[o]
  BY <1>5, <1>12
<1> HIDE <1>3, <1>4, <1>5
<1>13. ReqType'
  <2>1. ASSUME NEW o \in Reqs
        PROVE  req'[o] \in {NotYet, Lost} \cup Request \cup Answer
    <3>1. CASE o = r
      BY <3>1, <1>9, <1>10
    <3>2. CASE o # r /\ InFlight(o)
      BY <3>2, <1>11, ReqIs, AloneNoMore
    <3>3. CASE o # r /\ ~InFlight(o)
      BY <3>3, <1>1, <1>12
    <3> QED
      BY <3>1, <3>2, <3>3
  <2>2. req' = [o \in Reqs |-> req'[o]]
    BY <1>5
  <2> QED
    BY <2>1, <2>2 DEF ReqType
<1>14. Len(Passes[path]) \in Nat
  BY <1>6, PassesNine
<1>15. Sound(q)'
  <2>1. q.n <= Len(Passes[q.path])
    BY <1>9, <1>14
  <2>2. q.pc \notin {"touch", "act", "insert"}
    BY <1>9
  <2>3. q.late => q.cred.by = "key" /\ q.cred.key \in told
    BY <1>9
  <2>4. q.known => q.cred.by = "signature" /\ q.cred.user \in users
    BY <1>9
  <2> QED
    BY <2>1, <2>2, <2>3, <2>4, <1>2, <1>6, <1>9 DEF Sound
<1>16. SoundOK'
  <2> SUFFICES ASSUME NEW o \in Reqs, InFlight(o)'
               PROVE  Sound(req[o])'
    BY DEF SoundOK
  <2>1. CASE o = r
    BY <2>1, <1>10, <1>15 DEF Sound
  <2>2. CASE o # r
    <3>1. InFlight(o)
      BY <2>2, <1>12 DEF InFlight
    <3> PICK e \in Request : e = req[o]
      BY <3>1, ReqIs
    <3> PICK m : m = [e EXCEPT !.alone = FALSE]
      OBVIOUS
    <3>2. req'[o] = m
      BY <3>1, <2>2, <1>11
    <3>3. Sound(e)
      BY <3>1 DEF FlowOK, SoundOK, Sound
    <3>4. /\ m.pc = e.pc /\ m.who = e.who /\ m.n = e.n /\ m.path = e.path /\ m.cred = e.cred
          /\ m.at = e.at /\ m.late = e.late /\ m.known = e.known
      BY AloneNoMore
    <3>5. Sound(m)'
      BY <1>2, <3>3, <3>4 DEF Sound
    <3> QED
      BY <3>2, <3>5 DEF Sound
  <2> QED
    BY <2>1, <2>2
<1>17. LonelyOK'
  <2> SUFFICES ASSUME NEW p \in Reqs, InFlight(p)', req'[p].alone
               PROVE  /\ \A o \in Reqs : InFlight(o)' => o = p
                      /\ req'[p].pc = "limit" =>
                            \A l \in Limiters : Hits(req[p].at, l)' <= req'[p].n
    BY DEF LonelyOK
  <2>1. p = r
    <3> SUFFICES ASSUME p # r
                 PROVE  FALSE
      OBVIOUS
    <3>1. InFlight(p)
      BY <1>12 DEF InFlight
    <3> PICK e \in Request : e = req[p]
      BY <3>1, ReqIs
    <3>2. req'[p] = [e EXCEPT !.alone = FALSE]
      BY <3>1, <1>11
    <3> QED
      BY <3>2, AloneNoMore
  <2>2. alone
    BY <2>1, <1>9, <1>10
  <2>3. NoHits(i) /\ \A o \in Reqs : ~InFlight(o)
    BY <2>2
  <2>4. ASSUME NEW o \in Reqs, InFlight(o)'
        PROVE  o = p
    BY <2>1, <2>3, <2>4, <1>12 DEF InFlight
  <2>5. \A l \in Limiters : Hits(i, l) = 0
    BY <2>3 DEF NoHits, Hits
  <2>6. \A l \in Limiters : Hits(i, l)' <= 0
    BY <2>5, <1>2 DEF Hits
  <2>7. \A l \in Limiters : Hits(req[p].at, l)' <= req'[p].n
    BY <2>1, <2>6, <1>9, <1>10 DEF Hits
  <2> QED
    BY <2>4, <2>7
<1>18. AnswersOK'
  <2> SUFFICES ASSUME NEW o \in Reqs, req'[o].pc = "answered"
               PROVE  ~req'[o].alone /\ (req'[o].late => req'[o].path \notin KeyPaths)
    BY DEF AnswersOK
  <2>1. o # r
    BY <1>9, <1>10
  <2>2. ~InFlight(o)
    <3> SUFFICES ASSUME InFlight(o)
                 PROVE  FALSE
      OBVIOUS
    <3> PICK e \in Request : e = req[o]
      BY ReqIs
    <3>1. req'[o] = [e EXCEPT !.alone = FALSE]
      BY <2>1, <1>11
    <3>2. req'[o].pc = e.pc
      BY <3>1, AloneNoMore
    <3> QED
      BY <3>2 DEF InFlight
  <2> QED
    BY <2>1, <2>2, <1>12 DEF FlowOK, AnswersOK
<1> QED
  BY <1>13, <1>16, <1>17, <1>18 DEF FlowOK

\* What counters hold.
LEMMA HitsAre ==
    ASSUME TypeOK, NEW i \in setup.insts, NEW l \in Limiters
    PROVE  Hits(i, l) \in Nat
  BY DEF TypeOK, Hits

\* Steps that leave the requests alone and count no hits keep it.
LEMMA FlowQuiet ==
    ASSUME TypeOK, FlowOK, UNCHANGED <<req, setup, told, users>>,
           \A i \in setup.insts, l \in Limiters : Hits(i, l)' \in Nat /\ Hits(i, l)' <= Hits(i, l)
    PROVE  FlowOK'
<1>1. ReqType'
  BY DEF FlowOK, ReqType
<1>2. SoundOK'
  <2> SUFFICES ASSUME NEW o \in Reqs, InFlight(o)'
               PROVE  Sound(req[o])'
    BY DEF SoundOK
  <2>1. InFlight(o)
    BY DEF InFlight
  <2>2. Sound(req[o])
    BY <2>1 DEF FlowOK, SoundOK, Sound
  <2> QED
    BY <2>2 DEF Sound
<1>3. LonelyOK'
  <2> SUFFICES ASSUME NEW p \in Reqs, InFlight(p)', req'[p].alone
               PROVE  /\ \A o \in Reqs : InFlight(o)' => o = p
                      /\ req'[p].pc = "limit" =>
                            \A l \in Limiters : Hits(req[p].at, l)' <= req'[p].n
    BY DEF LonelyOK
  <2>1. InFlight(p)
    BY DEF InFlight
  <2> PICK e \in Request : e = req[p]
    BY <2>1, ReqIs
  <2> PICK at : at = e.at
    OBVIOUS
  <2>2. at \in setup.insts
    BY <2>1 DEF FlowOK, SoundOK, Sound
  <2>3. \A o \in Reqs : InFlight(o)' => o = p
    BY <2>1 DEF FlowOK, LonelyOK, InFlight
  <2>4. e.n \in Nat
    BY RequestFields
  <2>5. e.pc = "limit" => \A l \in Limiters : Hits(at, l) <= e.n
    BY <2>1 DEF FlowOK, LonelyOK, Hits
  <2>6. e.pc = "limit" => \A l \in Limiters : Hits(at, l)' <= e.n
    BY <2>2, <2>4, <2>5, HitsAre
  <2> QED
    BY <2>3, <2>6 DEF Hits
<1>4. AnswersOK'
  BY DEF FlowOK, AnswersOK
<1> QED
  BY <1>1, <1>2, <1>3, <1>4 DEF FlowOK

\* Processes, Redis and windows never add to a counter.
LEMMA FlowElse ==
    ASSUME TypeOK, FlowOK,
           \/ \E i \in setup.insts : createApp(i)
           \/ RedisFails \/ RedisReturns \/ WindowEnds
           \/ \E k \in Keys : KeyExpires(k)
    PROVE  FlowOK'
<1>1. UNCHANGED <<req, setup, told, users>>
  BY DEF createApp, RedisFails, RedisReturns, WindowEnds, KeyExpires, rows
<1>2. redis' = "unset" <=> redis = "unset"
  BY DEF createApp, RedisFails, RedisReturns, WindowEnds, KeyExpires
<1> SUFFICES ASSUME NEW i \in setup.insts, NEW l \in Limiters
             PROVE  Hits(i, l)' \in Nat /\ Hits(i, l)' <= Hits(i, l)
  BY <1>1, FlowQuiet
<1>3. CASE WindowEnds
  <2>1. mem \in [setup.insts -> [Limiters -> Nat]] /\ shared \in Nat
    BY DEF TypeOK
  <2>2. CASE redis = "unset"
    <3> PICK n \in Nat : n = mem[i][l]
      BY <2>1
    <3> PICK j \in setup.insts, k \in Limiters : mem' = [mem EXCEPT ![j] = [@ EXCEPT ![k] = 0]]
      BY <1>3, <2>2 DEF WindowEnds
    <3>1. mem'[i][l] = n \/ mem'[i][l] = 0
      BY <2>1
    <3>2. Hits(i, l)' = n \/ Hits(i, l)' = 0
      BY <1>2, <2>2, <3>1 DEF Hits
    <3> QED
      BY <2>2, <3>2 DEF Hits
  <2>3. CASE redis # "unset"
    <3>1. shared' = 0
      BY <1>3, <2>3 DEF WindowEnds
    <3> QED
      BY <1>2, <2>1, <2>3, <3>1 DEF Hits
  <2> QED
    BY <2>2, <2>3
<1>4. CASE UNCHANGED <<mem, shared>>
  <2>1. Hits(i, l)' = Hits(i, l)
    BY <1>2, <1>4 DEF Hits
  <2> QED
    BY <2>1, HitsAre
<1> QED
  BY <1>3, <1>4 DEF createApp, RedisFails, RedisReturns, KeyExpires, limits

\* Restart keeps it.
LEMMA FlowRestart ==
    ASSUME TypeOK, FlowOK, NEW i \in setup.insts, Restart(i)
    PROVE  FlowOK'
<1>1. req \in [Reqs -> {NotYet, Lost} \cup Request \cup Answer]
  BY DEF TypeOK
<1>2. UNCHANGED <<setup, redis, shared, told, users>>
  BY DEF Restart, rows
<1>3. req' = [r \in Reqs |-> IF req[r].pc \in {"limit", "auth", "touch", "act", "insert"}
                                 /\ req[r].at = i
                              THEN Lost ELSE req[r]]
  BY DEF Restart
<1>4. ASSUME NEW o \in Reqs
      PROVE  req'[o] = Lost \/ (req'[o] = req[o] /\ (InFlight(o) => req[o].at # i))
  BY <1>3 DEF InFlight
<1>5. Lost.pc \notin Waits /\ Lost.pc # "answered"
  BY DEF Lost, Waits
<1>6. ReqType'
  <2>1. \A o \in Reqs : req'[o] \in {NotYet, Lost} \cup Request \cup Answer
    BY <1>1, <1>4
  <2> QED
    BY <1>3, <2>1 DEF ReqType
<1>7. ASSUME NEW o \in Reqs, InFlight(o)'
      PROVE  InFlight(o) /\ req'[o] = req[o] /\ req[o].at # i
  <2>1. req'[o].pc \in Waits
    BY <1>7 DEF InFlight, Waits
  <2>2. req'[o] # Lost
    BY <2>1, <1>5
  <2>3. req'[o] = req[o]
    BY <2>2, <1>4
  <2> QED
    BY <2>1, <2>2, <2>3, <1>4 DEF InFlight, Waits
<1>8. SoundOK'
  <2> SUFFICES ASSUME NEW o \in Reqs, InFlight(o)'
               PROVE  Sound(req[o])'
    BY DEF SoundOK
  <2>1. InFlight(o) /\ req'[o] = req[o]
    BY <1>7
  <2>2. Sound(req[o])
    BY <2>1 DEF FlowOK, SoundOK, Sound
  <2> QED
    BY <1>2, <2>1, <2>2 DEF Sound
<1>9. LonelyOK'
  <2> SUFFICES ASSUME NEW p \in Reqs, InFlight(p)', req'[p].alone
               PROVE  /\ \A o \in Reqs : InFlight(o)' => o = p
                      /\ req'[p].pc = "limit" =>
                            \A l \in Limiters : Hits(req[p].at, l)' <= req'[p].n
    BY DEF LonelyOK
  <2>1. InFlight(p) /\ req'[p] = req[p] /\ req[p].at # i
    BY <1>7
  <2>2. \A o \in Reqs : InFlight(o)' => o = p
    BY <1>7, <2>1 DEF FlowOK, LonelyOK
  <2> PICK at : at = req[p].at
    OBVIOUS
  <2>3. mem' = [mem EXCEPT ![i] = [l \in Limiters |-> 0]]
    BY DEF Restart
  <2>4. at \in setup.insts
    BY <2>1 DEF FlowOK, SoundOK, Sound
  <2>5. mem'[at] = mem[at]
    BY <2>1, <2>3, <2>4 DEF TypeOK
  <2>6. \A l \in Limiters : Hits(at, l)' = Hits(at, l)
    BY <1>2, <2>5 DEF Hits
  <2>7. req[p].pc = "limit" => \A l \in Limiters : Hits(at, l) <= req[p].n
    BY <2>1 DEF FlowOK, LonelyOK, Hits
  <2>8. req[p].pc = "limit" => \A l \in Limiters : Hits(at, l)' <= req[p].n
    BY <2>6, <2>7
  <2> QED
    BY <2>1, <2>2, <2>8 DEF Hits
<1>10. AnswersOK'
  <2> SUFFICES ASSUME NEW o \in Reqs, req'[o].pc = "answered"
               PROVE  ~req'[o].alone /\ (req'[o].late => req'[o].path \notin KeyPaths)
    BY DEF AnswersOK
  <2>1. req'[o] = req[o]
    BY <1>4, <1>5
  <2> QED
    BY <2>1 DEF FlowOK, AnswersOK
<1> QED
  BY <1>6, <1>8, <1>9, <1>10 DEF FlowOK

\* Every step keeps what is said of the requests.
LEMMA FlowStep ==
    ASSUME TypeOK, FlowOK, ToldOK, [Next]_vars
    PROVE  FlowOK'
<1>1. ASSUME NEW r \in Reqs, Serve(r) \/ HandlerFails(r)
      PROVE  FlowOK'
  <2>1. CASE Hit(r)
    BY <2>1, FlowHit
  <2>2. CASE LimitsPassed(r)
    BY <2>2, FlowLimitsPassed
  <2>3. CASE requireApiKey(r)
    BY <2>3, FlowRequire
  <2>4. CASE verifyApiKey(r)
    BY <2>4, FlowVerify
  <2>5. CASE TouchKey(r)
    BY <2>5, FlowTouch
  <2>6. CASE createApiKey(r) \/ ListAnswers(r) \/ revokeApiKey(r) \/ deleteApiKey(r)
    <3>1. /\ req[r].pc = "act" /\ Respond(r, 200) /\ told \subseteq told'
          /\ users' = users /\ setup' = setup
      BY <2>6 DEF createApiKey, ListAnswers, revokeApiKey, deleteApiKey, Acting, Elsewhere, rows
    <3> QED
      BY <3>1, FlowAct
  <2>7. CASE FindUser(r)
    BY <2>7, FlowFind
  <2>8. CASE InsertUser(r)
    BY <2>8, FlowInsert
  <2>9. CASE HandlerFails(r)
    BY <2>9, FlowFails
  <2> QED
    BY <1>1, <2>1, <2>2, <2>3, <2>4, <2>5, <2>6, <2>7, <2>8, <2>9 DEF Serve
<1>2. ASSUME NEW i \in setup.insts, Restart(i)
      PROVE  FlowOK'
  BY <1>2, FlowRestart
<1>3. ASSUME NEW i \in setup.insts, NEW r \in Reqs, Arrive(r, i)
      PROVE  FlowOK'
  BY <1>3, FlowArrive
<1>4. CASE UNCHANGED vars
  BY <1>4, FlowQuiet, HitsAre
      DEF vars, limits, rows, Hits
<1> QED
  BY <1>1, <1>2, <1>3, <1>4, FlowElse DEF Next, Done

-----------------------------------------------------------------------------
(***************************************************************************)
(* Types                                                                   *)
(***************************************************************************)

\* The bound on faults is kept, and a fault leaves a trace.
LEMMA FaultCounts ==
    ASSUME TypeOK, Fault
    PROVE  faults' \in 0 .. MaxFaults /\ faults' > 0
  BY BoundsAssumption DEF TypeOK, Fault

TypeButReq ==
    /\ redis \in {"unset", "up", "down"}
    /\ setup \in Setups
    /\ inst \in [setup.insts -> {"connecting", "ready"}]
    /\ mem \in [setup.insts -> [Limiters -> Nat]]
    /\ shared \in Nat
    /\ users \subseteq Users
    /\ keys \in [Keys -> {Absent} \cup KeyRow]
    /\ tokens \subseteq Users
    /\ told \subseteq Keys
    /\ passed \in Nat /\ windows \in Nat
    /\ resets \in 0 .. MaxResets /\ faults \in 0 .. MaxFaults

\* A row that changes its state or expires is a row.
LEMMA RowChanges ==
    ASSUME NEW row \in KeyRow
    PROVE  /\ \A s \in {"revoked", "gone"} : [row EXCEPT !.state = s] \in KeyRow
           /\ \A s \in {"revoked", "gone"} : [row EXCEPT !.state = s].state = s
           /\ [row EXCEPT !.expired = TRUE] \in KeyRow
           /\ [row EXCEPT !.expired = TRUE].state = row.state
  BY DEF KeyRow

\* A key that was made has a row.
LEMMA MadeKeys ==
    ASSUME TypeOK, NEW k \in Keys, keys[k].state \in {"active", "revoked", "gone"}
    PROVE  keys[k] \in KeyRow
<1>1. keys[k] \in {Absent} \cup KeyRow
  BY DEF TypeOK
<1>2. Absent.state = "absent"
  BY DEF Absent
<1> QED
  BY <1>1, <1>2

\* The handlers of keys write rows and report keys.
LEMMA TypeKeys ==
    ASSUME TypeOK, FlowOK, NEW r \in Reqs,
           createApiKey(r) \/ revokeApiKey(r) \/ deleteApiKey(r)
    PROVE  keys' \in [Keys -> {Absent} \cup KeyRow] /\ told' \subseteq Keys
<1>1. InFlight(r) /\ req[r].pc = "act"
  BY DEF InFlight, createApiKey, revokeApiKey, deleteApiKey, Acting
<1> PICK e \in Request : e = req[r]
  BY <1>1, ReqIs
<1> PICK t : t = e.target
  OBVIOUS
<1>2. t \in Keys
  BY RequestFields
<1>3. keys \in [Keys -> {Absent} \cup KeyRow] /\ told \subseteq Keys
  BY DEF TypeOK
<1>4. CASE createApiKey(r)
  <2>1. e.path = "create"
    BY <1>4 DEF createApiKey, Acting
  <2> PICK who : who = e.who
    OBVIOUS
  <2>2. who \in Users
    <3>1. "create" \in KeyPaths
      BY DEF KeyPaths
    <3> QED
      BY <1>1, <2>1, <3>1 DEF FlowOK, SoundOK, Sound
  <2> DEFINE row == [state |-> "active", owner |-> who, expired |-> FALSE]
  <2>3. row \in KeyRow
    BY <2>2 DEF KeyRow
  <2>4. PICK k \in Keys : keys' = [keys EXCEPT ![k] = row]
    BY <1>4 DEF createApiKey
  <2> HIDE DEF row
  <2>5. told' = told
    BY <1>4 DEF createApiKey
  <2> QED
    BY <1>3, <2>3, <2>4, <2>5
<1>5. CASE revokeApiKey(r) \/ deleteApiKey(r)
  <2>1. told' \subseteq told \cup {t}
    BY <1>5 DEF revokeApiKey, deleteApiKey
  <2>2. CASE keys' = keys
    BY <1>2, <1>3, <2>1, <2>2
  <2>3. CASE keys' # keys
    <3>1. keys[t].state \in {"active", "revoked"}
      BY <1>5, <2>3 DEF revokeApiKey, deleteApiKey, Owned
    <3> PICK row \in KeyRow : row = keys[t]
      BY <1>2, <3>1, MadeKeys
    <3>2. PICK s \in {"revoked", "gone"} : keys' = [keys EXCEPT ![t] = [row EXCEPT !.state = s]]
      BY <1>5, <2>3 DEF revokeApiKey, deleteApiKey
    <3>3. [row EXCEPT !.state = s] \in KeyRow
      BY RowChanges
    <3> QED
      BY <1>2, <1>3, <2>1, <3>2, <3>3
  <2> QED
    BY <2>2, <2>3
<1> QED
  BY <1>4, <1>5

\* Who logs in is a user of the right type.
LEMMA TypeLogins ==
    ASSUME TypeOK, FlowOK, NEW r \in Reqs, FindUser(r) \/ InsertUser(r)
    PROVE  users' \subseteq Users /\ tokens' \subseteq Users
<1>1. InFlight(r)
  BY DEF InFlight, FindUser, InsertUser
<1> PICK e \in Request : e = req[r]
  BY <1>1, ReqIs
<1> PICK u : u = e.cred.user
  OBVIOUS
<1>2. Sound(e)
  BY <1>1 DEF FlowOK, SoundOK, Sound
<1>3. e.path = "token"
  BY <1>2 DEF FindUser, InsertUser, Sound
<1>4. u \in Users
  BY <1>2, <1>3, CredFields, RequestFields DEF Sound
<1>5. users \subseteq Users /\ tokens \subseteq Users
  BY DEF TypeOK
<1>6. CASE FindUser(r)
  BY <1>4, <1>5, <1>6 DEF FindUser
<1>7. CASE InsertUser(r)
  <2>1. e.who = u
    BY <1>2, <1>7 DEF InsertUser, Sound
  <2> QED
    BY <1>4, <1>5, <1>7, <2>1 DEF InsertUser
<1> QED
  BY <1>6, <1>7

\* Hits are natural numbers, and so is what is let through.
LEMMA TypeHits ==
    ASSUME TypeOK, FlowOK, NEW r \in Reqs, Hit(r)
    PROVE  /\ mem' \in [setup.insts -> [Limiters -> Nat]]
           /\ shared' \in Nat /\ passed' \in Nat
<1>1. InFlight(r)
  BY DEF Hit, InFlight
<1> PICK e \in Request : e = req[r]
  BY <1>1, ReqIs
<1> PICK at : at = e.at
  OBVIOUS
<1> PICK l : l = Passes[e.path][e.n + 1]
  OBVIOUS
<1>2. mem \in [setup.insts -> [Limiters -> Nat]] /\ shared \in Nat /\ passed \in Nat
  BY DEF TypeOK
<1>3. CountHit(at, l)
  BY DEF Hit
<1>4. passed' = passed \/ passed' = passed + 1
  BY DEF Hit
<1>5. shared' = shared \/ shared' = shared + 1
  BY <1>3 DEF CountHit
<1>6. mem' \in [setup.insts -> [Limiters -> Nat]]
  <2>1. CASE mem' = mem
    BY <1>2, <2>1
  <2>2. CASE mem' = [mem EXCEPT ![at] = OneMore(mem[at], l)]
    <3>1. ASSUME NEW f \in [Limiters -> Nat]
          PROVE  OneMore(f, l) \in [Limiters -> Nat]
      <4>1. CASE l \in Limiters
        BY <4>1 DEF OneMore
      <4>2. CASE l \notin Limiters
        BY <4>2 DEF OneMore
      <4> QED
        BY <4>1, <4>2
    <3> QED
      BY <1>2, <2>2, <3>1
  <2> QED
    BY <1>3, <2>1, <2>2 DEF CountHit
<1> QED
  BY <1>2, <1>4, <1>5, <1>6

\* Every step keeps the types.
LEMMA TypeStep ==
    ASSUME TypeOK, FlowOK, ToldOK, [Next]_vars
    PROVE  TypeOK'
<1>1. ReqType'
  BY FlowStep DEF FlowOK
<1>2. TypeButReq
  BY DEF TypeOK, TypeButReq
<1> USE DEF limits, rows
<1> SUFFICES TypeButReq'
  BY <1>1 DEF TypeOK, TypeButReq, ReqType
<1>3. ASSUME NEW r \in Reqs, Serve(r) \/ HandlerFails(r)
      PROVE  TypeButReq'
  <2>1. CASE Hit(r)
    <3>1. UNCHANGED <<setup, redis, inst, windows, users, keys, tokens, told, resets, faults>>
      BY <2>1 DEF Hit
    <3> QED
      BY <1>2, <2>1, <3>1, TypeHits DEF TypeButReq
  <2>2. CASE createApiKey(r) \/ revokeApiKey(r) \/ deleteApiKey(r)
    <3>1. UNCHANGED <<setup, redis, inst, mem, shared, passed, windows, users, tokens, resets, faults>>
      BY <2>2 DEF createApiKey, revokeApiKey, deleteApiKey, Elsewhere
    <3> QED
      BY <1>2, <2>2, <3>1, TypeKeys DEF TypeButReq
  <2>3. CASE FindUser(r) \/ InsertUser(r)
    <3>1. UNCHANGED <<setup, redis, inst, mem, shared, passed, windows, keys, told, resets, faults>>
      BY <2>3 DEF FindUser, InsertUser, Elsewhere
    <3> QED
      BY <1>2, <2>3, <3>1, TypeLogins DEF TypeButReq
  <2>4. CASE LimitsPassed(r) \/ requireApiKey(r) \/ verifyApiKey(r) \/ TouchKey(r)
              \/ ListAnswers(r) \/ HandlerFails(r)
    <3>1. /\ UNCHANGED <<setup, redis, inst, mem, shared, passed, windows, users, keys, tokens, told,
                         resets>>
          /\ faults' = faults \/ Fault
      BY <2>4 DEF LimitsPassed, requireApiKey, verifyApiKey, TouchKey, ListAnswers, HandlerFails,
                  Elsewhere
    <3> QED
      BY <1>2, <3>1, FaultCounts DEF TypeButReq
  <2> QED
    BY <1>3, <2>1, <2>2, <2>3, <2>4 DEF Serve
<1>4. ASSUME NEW i \in setup.insts, createApp(i)
      PROVE  TypeButReq'
  BY <1>2, <1>4 DEF TypeButReq, createApp
<1>5. ASSUME NEW i \in setup.insts, Restart(i)
      PROVE  TypeButReq'
  <2>1. UNCHANGED <<setup, redis, shared, passed, users, keys, tokens, told, resets>>
    BY <1>5 DEF Restart
  <2>2. inst' \in [setup.insts -> {"connecting", "ready"}]
    BY <1>2, <1>5 DEF Restart, TypeButReq
  <2>3. mem' \in [setup.insts -> [Limiters -> Nat]]
    BY <1>2, <1>5 DEF Restart, TypeButReq
  <2>4. windows' \in Nat
    BY <1>2, <1>5 DEF Restart, TypeButReq
  <2>5. faults' \in 0 .. MaxFaults
    BY <1>5, FaultCounts DEF Restart
  <2> QED
    BY <1>2, <2>1, <2>2, <2>3, <2>4, <2>5 DEF TypeButReq
<1>6. ASSUME NEW i \in setup.insts, NEW r \in Reqs, Arrive(r, i)
      PROVE  TypeButReq'
  BY <1>2, <1>6 DEF TypeButReq, Arrive
<1>7. CASE RedisFails \/ RedisReturns
  <2>1. /\ UNCHANGED <<setup, inst, mem, shared, passed, windows, users, keys, tokens, told, resets>>
        /\ redis' \in {"up", "down"}
        /\ faults' = faults \/ Fault
    BY <1>7 DEF RedisFails, RedisReturns
  <2> QED
    BY <1>2, <2>1, FaultCounts DEF TypeButReq
<1>8. CASE WindowEnds
  <2>1. UNCHANGED <<setup, redis, inst, passed, users, keys, tokens, told, faults>>
    BY <1>8 DEF WindowEnds
  <2>2. mem' \in [setup.insts -> [Limiters -> Nat]]
    <3>1. CASE UNCHANGED mem
      BY <1>2, <3>1 DEF TypeButReq
    <3>2. CASE \E i \in setup.insts, l \in Limiters : mem' = [mem EXCEPT ![i] = [@ EXCEPT ![l] = 0]]
      BY <1>2, <3>2 DEF TypeButReq
    <3> QED
      BY <1>8, <3>1, <3>2 DEF WindowEnds
  <2>3. shared' \in Nat
    BY <1>2, <1>8 DEF TypeButReq, WindowEnds
  <2>4. windows' \in Nat
    BY <1>2, <1>8 DEF TypeButReq, WindowEnds
  <2>5. resets' \in 0 .. MaxResets
    BY <1>2, <1>8, BoundsAssumption DEF TypeButReq, WindowEnds
  <2> QED
    BY <1>2, <2>1, <2>2, <2>3, <2>4, <2>5 DEF TypeButReq
<1>9. ASSUME NEW k \in Keys, KeyExpires(k)
      PROVE  TypeButReq'
  <2>1. UNCHANGED <<setup, redis, inst, mem, shared, passed, windows, users, tokens, told, resets>>
    BY <1>9 DEF KeyExpires
  <2>2. keys' \in [Keys -> {Absent} \cup KeyRow]
    <3> PICK row \in KeyRow : row = keys[k]
      BY <1>9, MadeKeys DEF KeyExpires
    <3>1. keys' = [keys EXCEPT ![k] = [row EXCEPT !.expired = TRUE]]
      BY <1>9 DEF KeyExpires
    <3>2. [row EXCEPT !.expired = TRUE] \in KeyRow
      BY RowChanges
    <3> QED
      BY <1>2, <3>1, <3>2 DEF TypeButReq
  <2>3. faults' \in 0 .. MaxFaults
    BY <1>9, FaultCounts DEF KeyExpires
  <2> QED
    BY <1>2, <2>1, <2>2, <2>3 DEF TypeButReq
<1>10. CASE UNCHANGED vars
  BY <1>2, <1>10 DEF vars, TypeButReq
<1> QED
  BY <1>3, <1>4, <1>5, <1>6, <1>7, <1>8, <1>9, <1>10 DEF Next, Done

-----------------------------------------------------------------------------
(***************************************************************************)
(* Keys that were reported revoked, and first logins                       *)
(***************************************************************************)

\* A key that was reported revoked or deleted stays so.
LEMMA ToldStep ==
    ASSUME TypeOK, ToldOK, [Next]_vars
    PROVE  ToldOK'
<1> SUFFICES ASSUME NEW k \in told'
             PROVE  keys'[k].state \in {"revoked", "gone"}
  BY DEF ToldOK
<1>1. keys \in [Keys -> {Absent} \cup KeyRow] /\ told \subseteq Keys
  BY DEF TypeOK
<1> USE DEF limits, rows
<1>2. CASE UNCHANGED <<keys, told>>
  BY <1>2 DEF ToldOK
<1>3. ASSUME NEW j \in Keys, KeyExpires(j)
      PROVE  keys'[k].state \in {"revoked", "gone"}
  <2> PICK row \in KeyRow : row = keys[j]
    BY <1>3, MadeKeys DEF KeyExpires
  <2>1. keys' = [keys EXCEPT ![j] = [row EXCEPT !.expired = TRUE]] /\ told' = told
    BY <1>3 DEF KeyExpires
  <2>2. row.state = "active"
    BY <1>3 DEF KeyExpires
  <2>3. k # j
    BY <2>1, <2>2 DEF ToldOK
  <2> QED
    BY <1>1, <2>1, <2>3 DEF ToldOK
<1>4. ASSUME NEW r \in Reqs, createApiKey(r)
      PROVE  keys'[k].state \in {"revoked", "gone"}
  <2>1. PICK j \in Keys : keys[j].state = "absent"
                          /\ \A i \in Keys \ {j} : keys'[i] = keys[i]
    BY <1>1, <1>4 DEF createApiKey
  <2>2. told' = told
    BY <1>4 DEF createApiKey
  <2>3. k # j
    BY <2>1, <2>2 DEF ToldOK
  <2> QED
    BY <1>1, <2>1, <2>2, <2>3 DEF ToldOK
<1>5. ASSUME NEW r \in Reqs, revokeApiKey(r) \/ deleteApiKey(r)
      PROVE  keys'[k].state \in {"revoked", "gone"}
  <2> PICK t : t = req[r].target
    OBVIOUS
  <2>1. CASE Owned(r)
    <3>1. InFlight(r)
      BY <1>5 DEF revokeApiKey, deleteApiKey, Acting, InFlight
    <3>2. t \in Keys
      BY <3>1, ReqIs, RequestFields
    <3> PICK row \in KeyRow : row = keys[t]
      BY <2>1, <3>2, MadeKeys DEF Owned
    <3>3. PICK s \in {"revoked", "gone"} : keys' = [keys EXCEPT ![t] = [row EXCEPT !.state = s]]
      BY <1>5, <2>1 DEF revokeApiKey, deleteApiKey
    <3>4. told' = told \cup {t}
      BY <1>5, <2>1 DEF revokeApiKey, deleteApiKey
    <3>5. CASE k = t
      BY <1>1, <3>2, <3>3, <3>5, RowChanges
    <3>6. CASE k # t
      BY <1>1, <3>3, <3>4, <3>6 DEF ToldOK
    <3> QED
      BY <3>5, <3>6
  <2>2. CASE ~Owned(r)
    <3>1. UNCHANGED <<keys, told>>
      BY <1>5, <2>2 DEF revokeApiKey, deleteApiKey
    <3> QED
      BY <3>1, <1>2
  <2> QED
    BY <2>1, <2>2
<1>6. ASSUME NEW r \in Reqs, Serve(r) \/ HandlerFails(r)
      PROVE  \/ UNCHANGED <<keys, told>>
             \/ createApiKey(r) \/ revokeApiKey(r) \/ deleteApiKey(r)
  BY <1>6 DEF Serve, Hit, LimitsPassed, requireApiKey, verifyApiKey, TouchKey, ListAnswers,
              FindUser, InsertUser, HandlerFails, Elsewhere
<1>7. ASSUME NEW i \in setup.insts, createApp(i) \/ Restart(i) \/ \E r \in Reqs : Arrive(r, i)
      PROVE  UNCHANGED <<keys, told>>
  BY <1>7 DEF createApp, Restart, Arrive
<1>8. CASE RedisFails \/ RedisReturns \/ WindowEnds \/ UNCHANGED vars
  <2>1. UNCHANGED <<keys, told>>
    BY <1>8 DEF RedisFails, RedisReturns, WindowEnds, vars
  <2> QED
    BY <2>1, <1>2
<1> QED
  BY <1>2, <1>3, <1>4, <1>5, <1>6, <1>7, <1>8 DEF Next, Done

\* An answer that is no failure leaves first logins as they are.
LEMMA RespondLogins ==
    ASSUME TypeOK, FlowOK, LoginsOK, NEW r \in Reqs, InFlight(r), NEW status \in Statuses \ {500},
           Respond(r, status), users' = users, faults' = 0 => faults = 0
    PROVE  LoginsOK'
<1> PICK e \in Request : e = req[r]
  BY ReqIs
<1> PICK q : q = AnswerTo(e, status)
  OBVIOUS
<1>1. Sound(e)
  BY DEF FlowOK, SoundOK, Sound
<1>2. status \in Statuses /\ status # 500
  OBVIOUS
<1>3. q.pc = "answered" /\ q.status = status
  BY <1>1, <1>2, AnswerFields DEF Sound
<1>4. req' = [req EXCEPT ![r] = q]
  BY DEF Respond
<1> QED
  BY <1>2, <1>3, <1>4, MoveLogins

\* So does a request that goes on and is not to insert a known user.
LEMMA GoLogins ==
    ASSUME TypeOK, LoginsOK, NEW r \in Reqs, InFlight(r), NEW m \in Request,
           req' = [req EXCEPT ![r] = m], users' = users, faults' = 0 => faults = 0,
           m.pc = "insert" => m.who \notin users
    PROVE  LoginsOK'
<1>1. m.pc # "answered"
  BY RequestFields DEF Waits
<1> QED
  BY <1>1, MoveLogins

\* Being let in leaves them as they are.
LEMMA GoAsLogins ==
    ASSUME TypeOK, LoginsOK, NEW r \in Reqs, InFlight(r),
           NEW pc \in Waits, NEW who \in Users \cup {"nobody"}, GoAs(r, pc, who),
           users' = users, faults' = 0 => faults = 0,
           pc = "insert" => who \notin users
    PROVE  LoginsOK'
<1> PICK e \in Request : e = req[r]
  BY ReqIs
<1> PICK m : m = [e EXCEPT !.pc = pc, !.who = who]
  OBVIOUS
<1>1. m \in Request /\ m.pc = pc /\ m.who = who
  <2>1. pc \in Waits /\ who \in Users \cup {"nobody"}
    OBVIOUS
  <2> QED
    BY <2>1 DEF Request, Waits
<1>2. req' = [req EXCEPT ![r] = m]
  BY DEF GoAs
<1> QED
  BY <1>1, <1>2, GoLogins

\* So does going on to the handler.
LEMMA GoToLogins ==
    ASSUME TypeOK, LoginsOK, NEW r \in Reqs, InFlight(r), GoTo(r, "act"),
           users' = users, faults' = 0 => faults = 0
    PROVE  LoginsOK'
<1> PICK e \in Request : e = req[r]
  BY ReqIs
<1> PICK m : m = [e EXCEPT !.pc = "act"]
  OBVIOUS
<1>1. "act" \in Waits
  BY DEF Waits
<1>2. m \in Request /\ m.pc = "act"
  BY <1>1, GoToFields
<1>3. req' = [req EXCEPT ![r] = m]
  BY DEF GoTo
<1> QED
  BY <1>2, <1>3, GoLogins

\* Being refused or let on as nobody leaves them, too.
LEMMA UnauthenticatedLogins ==
    ASSUME TypeOK, FlowOK, LoginsOK, NEW r \in Reqs, InFlight(r), Unauthenticated(r),
           users' = users, faults' = 0 => faults = 0
    PROVE  LoginsOK'
<1>1. CASE Respond(r, 401)
  <2>1. 401 \in Statuses \ {500}
    BY DEF Statuses
  <2> QED
    BY <1>1, <2>1, RespondLogins
<1>2. CASE GoTo(r, "act")
  BY <1>2, GoToLogins
<1> QED
  BY <1>1, <1>2 DEF Unauthenticated

\* A first login: the user is not there when it is looked up, and whoever
\* finds it there when it is inserted comes after one that got the token.
LEMMA FirstLogins ==
    ASSUME TypeOK, FlowOK, LoginsOK, NEW r \in Reqs, FindUser(r) \/ InsertUser(r)
    PROVE  LoginsOK'
<1>1. InFlight(r)
  BY DEF FindUser, InsertUser, InFlight
<1> PICK e \in Request : e = req[r]
  BY <1>1, ReqIs
<1> PICK u : u = e.cred.user
  OBVIOUS
<1>2. Sound(e)
  BY <1>1 DEF FlowOK, SoundOK, Sound
<1>3. faults' = faults
  BY DEF FindUser, InsertUser
<1>4. e.path = "token" /\ e.cred.by = "signature"
  BY <1>2 DEF FindUser, InsertUser, Sound
<1>5. u \in Users
  BY <1>4, CredFields, RequestFields
<1>6. CASE FindUser(r)
  <2>1. users' = users
    BY <1>6 DEF FindUser
  <2>2. CASE Respond(r, 200)
    <3>1. 200 \in Statuses \ {500}
      BY DEF Statuses
    <3> QED
      BY <1>1, <1>3, <2>1, <2>2, <3>1, RespondLogins
  <2>3. CASE u \notin users /\ GoAs(r, "insert", u)
    <3>1. "insert" \in Waits
      BY DEF Waits
    <3>2. u \in Users \cup {"nobody"}
      BY <1>5
    <3> QED
      BY <1>1, <1>3, <2>1, <2>3, <3>1, <3>2, GoAsLogins
  <2> QED
    BY <1>6, <2>2, <2>3 DEF FindUser
<1>7. CASE InsertUser(r) /\ u \in users
  <2>1. e.who = u /\ ~e.known /\ e.pc = "insert"
    BY <1>2, <1>7 DEF InsertUser, Sound
  <2>2. Respond(r, 500) /\ users' = users
    BY <1>7, <2>1 DEF InsertUser
  <2> PICK q : q = AnswerTo(e, 500)
    OBVIOUS
  <2>3. q.pc = "answered" /\ q.user = u /\ ~q.known
    <3>1. 500 \in Statuses
      BY DEF Statuses
    <3>2. q.pc = "answered" /\ q.user = u /\ q.known = (e.known /\ 500 = 500)
      BY <1>4, <3>1, AnswerFields
    <3> QED
      BY <2>1, <3>2
  <2>4. req' = [req EXCEPT ![r] = q]
    BY <2>2 DEF Respond
  <2>5. faults = 0 => HasToken(u)
    BY <1>7, <2>1 DEF LoginsOK, HasToken
  <2>6. HasToken(u) => HasToken(u)'
    BY <1>1, <2>4, TokenStays
  <2>7. faults' = 0 => HasToken(q.user)'
    BY <1>3, <2>3, <2>5, <2>6 DEF HasToken, Served
  <2> QED
    BY <1>1, <1>3, <2>2, <2>3, <2>4, <2>7, MoveLogins
<1>8. CASE InsertUser(r) /\ u \notin users
  <2>1. e.who = u
    BY <1>2, <1>8 DEF InsertUser, Sound
  <2>2. Respond(r, 200) /\ users' = users \cup {u}
    BY <1>8, <2>1 DEF InsertUser
  <2> PICK q : q = AnswerTo(e, 200)
    OBVIOUS
  <2>3. q \in Answer /\ q.pc = "answered" /\ q.user = u /\ q.status = 200 /\ q.path = "token"
    <3>1. 200 \in Statuses
      BY DEF Statuses
    <3> QED
      BY <1>4, <3>1, AnswerFields
  <2>4. req' = [req EXCEPT ![r] = q]
    BY <2>2 DEF Respond
  <2>5. req'[r] = q
    BY <2>4 DEF FlowOK, ReqType
  <2>6. Served(r)' /\ req'[r].path = "token" /\ req'[r].user = u
    BY <2>3, <2>5 DEF Served
  <2>7. HasToken(u)'
    BY <2>6 DEF HasToken
  <2>8. \A v \in users' : v \in users \/ HasToken(v)'
    BY <2>2, <2>7
  <2>9. q.pc # "insert" /\ q.status # 500
    BY <2>3
  <2>10. faults' = 0 => faults = 0
    BY <1>3
  <2> QED
    BY <1>1, <2>4, <2>8, <2>9, <2>10, MoveLogins
<1> QED
  BY <1>6, <1>7, <1>8

\* A request that comes leaves them as they are.
LEMMA ArriveLogins ==
    ASSUME TypeOK, LoginsOK, NEW i \in setup.insts, NEW r \in Reqs, Arrive(r, i)
    PROVE  LoginsOK'
<1>1. faults' = faults /\ users' = users
  BY DEF Arrive, rows
<1>2. req[r].pc = "idle" /\ req'[r].pc = "limit"
  BY DEF Arrive
<1>3. ASSUME NEW o \in Reqs, o # r, ~InFlight(o)
      PROVE  req'[o] = req[o]
  BY <1>3 DEF Arrive
<1>4. ASSUME NEW o \in Reqs, o # r, InFlight(o)
      PROVE  req'[o].pc = req[o].pc /\ req'[o].who = req[o].who
  <2>1. req'[o] = [req[o] EXCEPT !.alone = FALSE]
    BY <1>4 DEF Arrive
  <2>2. req[o] \in Request
    BY <1>4, ReqIs
  <2> QED
    BY <2>1, <2>2, AloneNoMore
<1>5. ASSUME NEW u, HasToken(u)
      PROVE  HasToken(u)'
  <2>1. PICK o \in Reqs : Served(o) /\ req[o].path = "token" /\ req[o].user = u
    BY <1>5 DEF HasToken
  <2>2. o # r /\ ~InFlight(o)
    BY <2>1, <1>2 DEF Served, InFlight
  <2>3. req'[o] = req[o]
    BY <2>2, <1>3
  <2>4. Served(o)' /\ req'[o].path = "token" /\ req'[o].user = u
    BY <2>1, <2>3 DEF Served
  <2> QED
    BY <2>4 DEF HasToken
<1> SUFFICES ASSUME faults' = 0, NEW o \in Reqs
             PROVE  /\ req'[o].pc = "insert" /\ req'[o].who \in users' => HasToken(req[o].who)'
                    /\ req'[o].pc = "answered" /\ req'[o].path = "token" /\ req'[o].status = 500 =>
                          ~req'[o].known /\ HasToken(req[o].user)'
  BY DEF LoginsOK
<1>6. ASSUME req'[o].pc = "insert", req'[o].who \in users'
      PROVE  HasToken(req[o].who)'
  <2>1. o # r
    BY <1>2, <1>6
  <2>2. req[o].pc = "insert" /\ req'[o].who = req[o].who
    BY <2>1, <1>3, <1>4, <1>6
  <2> PICK w : w = req[o].who
    OBVIOUS
  <2>3. HasToken(w)
    BY <1>1, <1>6, <2>2 DEF LoginsOK, HasToken
  <2>4. HasToken(w)'
    BY <1>5, <2>3
  <2> QED
    BY <2>2, <2>4 DEF HasToken, Served
<1>7. ASSUME req'[o].pc = "answered", req'[o].path = "token", req'[o].status = 500
      PROVE  ~req'[o].known /\ HasToken(req[o].user)'
  <2>1. o # r
    BY <1>2, <1>7
  <2>2. ~InFlight(o)
    BY <2>1, <1>4, <1>7 DEF InFlight
  <2>3. req'[o] = req[o]
    BY <2>1, <2>2, <1>3
  <2> PICK u : u = req[o].user
    OBVIOUS
  <2>4. ~req[o].known /\ HasToken(u)
    BY <1>1, <1>7, <2>3 DEF LoginsOK, HasToken
  <2>5. HasToken(u)'
    BY <1>5, <2>4
  <2> QED
    BY <2>3, <2>4, <2>5 DEF HasToken, Served
<1> QED
  BY <1>6, <1>7

\* First logins settle over every step.
LEMMA LoginsStep ==
    ASSUME TypeOK, FlowOK, LoginsOK, [Next]_vars
    PROVE  LoginsOK'
<1> USE DEF limits, rows
<1>1. ASSUME UNCHANGED <<req, users>>, faults' = 0 => faults = 0
      PROVE  LoginsOK'
  BY <1>1 DEF LoginsOK, HasToken, Served
<1>2. Fault => faults' # 0 /\ LoginsOK'
  <2>1. Fault => faults' > 0
    BY FaultCounts
  <2> QED
    BY <2>1 DEF LoginsOK
<1>3. ASSUME NEW r \in Reqs, Serve(r)
      PROVE  LoginsOK'
  <2>1. CASE Hit(r)
    <3>1. InFlight(r) /\ users' = users /\ faults' = faults
      BY <2>1 DEF Hit, InFlight
    <3>2. CASE Respond(r, 429)
      <4>1. 429 \in Statuses \ {500}
        BY DEF Statuses
      <4> QED
        BY <3>1, <3>2, <4>1, RespondLogins
    <3>3. CASE LetOn(r)
      <4> PICK e \in Request : e = req[r]
        BY <3>1, ReqIs
      <4> PICK m : m = OneMore(e, "n")
        OBVIOUS
      <4>1. m \in Request /\ m.pc = e.pc
        BY HitFields
      <4>2. m.pc # "insert"
        BY <2>1, <4>1 DEF Hit
      <4>3. req' = [req EXCEPT ![r] = m]
        BY <3>3 DEF LetOn
      <4> QED
        BY <3>1, <4>1, <4>2, <4>3, GoLogins
    <3> QED
      BY <2>1, <3>2, <3>3 DEF Hit
  <2>2. CASE LimitsPassed(r)
    <3>1. InFlight(r) /\ users' = users /\ faults' = faults
      BY <2>2 DEF LimitsPassed, InFlight
    <3> PICK e \in Request : e = req[r]
      BY <3>1, ReqIs
    <3> PICK m : m = [e EXCEPT !.pc = "auth", !.n = 0]
      OBVIOUS
    <3>2. m \in Request /\ m.pc = "auth"
      BY PastFields
    <3>3. req' = [req EXCEPT ![r] = m]
      BY <2>2 DEF LimitsPassed
    <3> QED
      BY <3>1, <3>2, <3>3, GoLogins
  <2>3. CASE requireApiKey(r)
    <3>1. InFlight(r) /\ users' = users /\ faults' = faults
      BY <2>3 DEF requireApiKey, InFlight
    <3>2. Respond(r, 200) \/ Respond(r, 401)
      BY <2>3 DEF requireApiKey
    <3>3. 200 \in Statuses \ {500} /\ 401 \in Statuses \ {500}
      BY DEF Statuses
    <3> QED
      BY <3>1, <3>2, <3>3, RespondLogins
  <2>4. CASE verifyApiKey(r)
    <3>1. InFlight(r) /\ users' = users
      BY <2>4 DEF verifyApiKey, InFlight
    <3>2. CASE Fault
      BY <3>2, <1>2
    <3>3. CASE faults' = faults /\ Unauthenticated(r)
      BY <3>1, <3>3, UnauthenticatedLogins
    <3>4. CASE faults' = faults /\ req[r].cred.by = "jwt" /\ GoAs(r, "act", req[r].cred.user)
      <4> PICK u : u = req[r].cred.user
        OBVIOUS
      <4>1. u \in Users
        BY <3>1, <3>4, ReqIs, CredFields, RequestFields
      <4>2. "act" \in Waits /\ u \in Users \cup {"nobody"}
        BY <4>1 DEF Waits
      <4> QED
        BY <3>1, <3>4, <4>2, GoAsLogins
    <3>5. CASE /\ faults' = faults /\ req[r].cred.by = "key" /\ InUse(req[r].cred.key)
               /\ GoAs(r, "touch", keys[req[r].cred.key].owner)
      <4> PICK k : k = req[r].cred.key
        OBVIOUS
      <4> PICK u : u = keys[k].owner
        OBVIOUS
      <4>1. k \in Keys
        BY <3>1, <3>5, ReqIs, CredFields, RequestFields
      <4>2. keys[k] \in KeyRow
        BY <3>5, <4>1, MadeKeys DEF InUse
      <4>3. u \in Users
        BY <4>2 DEF KeyRow
      <4>4. "touch" \in Waits /\ u \in Users \cup {"nobody"}
        BY <4>3 DEF Waits
      <4> QED
        BY <3>1, <3>5, <4>4, GoAsLogins
    <3> QED
      BY <2>4, <3>2, <3>3, <3>4, <3>5 DEF verifyApiKey
  <2>5. CASE TouchKey(r)
    <3>1. InFlight(r) /\ users' = users
      BY <2>5 DEF TouchKey, InFlight, Elsewhere
    <3>2. CASE Fault
      BY <3>2, <1>2
    <3>3. CASE faults' = faults /\ GoTo(r, "act")
      BY <3>1, <3>3, GoToLogins
    <3>4. CASE faults' = faults /\ Respond(r, 401)
      <4>1. 401 \in Statuses \ {500}
        BY DEF Statuses
      <4> QED
        BY <3>1, <3>4, <4>1, RespondLogins
    <3>5. CASE faults' = faults /\ GoAs(r, "act", "nobody")
      <4>1. "act" \in Waits /\ "nobody" \in Users \cup {"nobody"}
        BY DEF Waits
      <4> QED
        BY <3>1, <3>5, <4>1, GoAsLogins
    <3> QED
      BY <2>5, <3>2, <3>3, <3>4, <3>5 DEF TouchKey
  <2>6. CASE createApiKey(r) \/ ListAnswers(r) \/ revokeApiKey(r) \/ deleteApiKey(r)
    <3>1. InFlight(r) /\ Respond(r, 200) /\ users' = users /\ faults' = faults
      BY <2>6 DEF createApiKey, ListAnswers, revokeApiKey, deleteApiKey, Acting, InFlight
    <3>2. 200 \in Statuses \ {500}
      BY DEF Statuses
    <3> QED
      BY <3>1, <3>2, RespondLogins
  <2>7. CASE FindUser(r) \/ InsertUser(r)
    BY <2>7, FirstLogins
  <2> QED
    BY <1>3, <2>1, <2>2, <2>3, <2>4, <2>5, <2>6, <2>7 DEF Serve
<1>4. ASSUME NEW i \in setup.insts, createApp(i) \/ Restart(i) \/ \E r \in Reqs : Arrive(r, i)
      PROVE  LoginsOK'
  <2>1. CASE createApp(i)
    BY <2>1, <1>1 DEF createApp
  <2>2. CASE Restart(i)
    BY <2>2, <1>2 DEF Restart
  <2>3. CASE \E r \in Reqs : Arrive(r, i)
    BY <2>3, ArriveLogins
  <2> QED
    BY <1>4, <2>1, <2>2, <2>3
<1>5. CASE RedisFails \/ RedisReturns \/ WindowEnds \/ \E k \in Keys : KeyExpires(k)
  <2>1. UNCHANGED <<req, users>> /\ (Fault \/ faults' = faults)
    BY <1>5 DEF RedisFails, RedisReturns, WindowEnds, KeyExpires
  <2> QED
    BY <2>1, <1>1, <1>2
<1>6. ASSUME NEW r \in Reqs, HandlerFails(r)
      PROVE  LoginsOK'
  BY <1>6, <1>2 DEF HandlerFails
<1>7. CASE UNCHANGED vars
  BY <1>7, <1>1 DEF vars
<1> QED
  BY <1>3, <1>4, <1>5, <1>6, <1>7 DEF Next, Done

-----------------------------------------------------------------------------
(***************************************************************************)
(* What the strict limiters let through                                    *)
(***************************************************************************)

\* As many numbers as the limit.
LEMMA UpTo == \A n \in Nat : IsFiniteSet(1 .. n) /\ Cardinality(1 .. n) = n
<1> SUFFICES ASSUME NEW n \in Nat
             PROVE  IsFiniteSet(1 .. n) /\ Cardinality(1 .. n) = n
  OBVIOUS
<1>1. IsFiniteSet(1 .. n) /\ Cardinality(1 .. n) = IF 1 > n THEN 0 ELSE n - 1 + 1
  BY FS_Interval
<1> QED
  BY <1>1

\* One element less, or at most ten more.
LEMMA RoomCounts ==
    ASSUME NEW A, IsFiniteSet(A), NEW B
    PROVE  /\ Cardinality(A) \in Nat
           /\ B \subseteq A => IsFiniteSet(B) /\ Cardinality(B) \in Nat /\ Cardinality(B) <= Cardinality(A)
           /\ \A x \in A : B \subseteq A \ {x} => Cardinality(B) + 1 <= Cardinality(A)
           /\ \A y : B \subseteq A \cup ({y} \X (1 .. 10)) =>
                 Cardinality(B) \in Nat /\ Cardinality(B) <= Cardinality(A) + 10
<1>1. Cardinality(A) \in Nat
  BY FS_CardinalityType
<1>2. B \subseteq A => IsFiniteSet(B) /\ Cardinality(B) \in Nat /\ Cardinality(B) <= Cardinality(A)
  BY FS_Subset, FS_CardinalityType
<1>3. ASSUME NEW x \in A, B \subseteq A \ {x}
      PROVE  Cardinality(B) + 1 <= Cardinality(A)
  <2>1. IsFiniteSet(A \ {x}) /\ Cardinality(A \ {x}) = Cardinality(A) - 1
    BY FS_RemoveElement
  <2>2. Cardinality(B) \in Nat /\ Cardinality(B) <= Cardinality(A \ {x})
    BY <1>3, <2>1, FS_Subset, FS_CardinalityType
  <2> QED
    BY <1>1, <2>1, <2>2
<1>4. ASSUME NEW y, B \subseteq A \cup ({y} \X (1 .. 10))
      PROVE  Cardinality(B) \in Nat /\ Cardinality(B) <= Cardinality(A) + 10
  <2> DEFINE T == {y} \X (1 .. 10)
  <2>1. IsFiniteSet({y}) /\ Cardinality({y}) = 1
    BY FS_Singleton
  <2>2. IsFiniteSet(1 .. 10) /\ Cardinality(1 .. 10) = 10
    BY UpTo
  <2>3. IsFiniteSet(T) /\ Cardinality(T) = 1 * 10
    BY <2>1, <2>2, FS_Product
  <2> HIDE DEF T
  <2>4. IsFiniteSet(A \cup T)
    BY <2>3, FS_Union
  <2>5. Cardinality(A \cup T) = Cardinality(A) + Cardinality(T) - Cardinality(A \cap T)
    BY <2>3, FS_Union
  <2>6. Cardinality(A \cap T) \in Nat /\ Cardinality(A \cup T) \in Nat
    <3>1. IsFiniteSet(A \cap T)
      BY FS_Subset
    <3> QED
      BY <2>4, <3>1, FS_CardinalityType
  <2>7. Cardinality(B) \in Nat /\ Cardinality(B) <= Cardinality(A \cup T)
    BY <1>4, <2>4, FS_Subset, FS_CardinalityType DEF T
  <2> QED
    BY <1>1, <2>3, <2>5, <2>6, <2>7
<1> QED
  BY <1>1, <1>2, <1>3, <1>4

\* There is room for finitely many.
LEMMA RoomFinite ==
    ASSUME TypeOK
    PROVE  IsFiniteSet(Room)
<1>1. IsFiniteSet(1 .. 10)
  BY UpTo
<1>2. IsFiniteSet(setup.insts)
  BY SetupFields, SetupAssumption, FS_Subset
<1>3. IsFiniteSet(setup.insts \X (1 .. 10))
  BY <1>1, <1>2, FS_Product
<1>4. IsFiniteSet({0} \X (1 .. 10))
  BY <1>1, FS_Singleton, FS_Product
<1>5. CASE redis = "unset"
  <2>1. Room \subseteq setup.insts \X (1 .. 10)
    BY <1>5 DEF Room
  <2> QED
    BY <1>3, <2>1, FS_Subset
<1>6. CASE redis # "unset"
  <2>1. Room \subseteq {0} \X (1 .. 10)
    BY <1>6 DEF Room
  <2> QED
    BY <1>4, <2>1, FS_Subset
<1> QED
  BY <1>5, <1>6

\* With no more room and nothing let through the ceiling holds as before.
LEMMA CountsLess ==
    ASSUME TypeOK, CountsOK, Room' \subseteq Room, UNCHANGED <<passed, windows>>
    PROVE  CountsOK'
<1>1. passed \in Nat /\ windows \in Nat
  BY DEF TypeOK
<1> PICK B : B = Room'
  OBVIOUS
<1>2. /\ Cardinality(Room) \in Nat /\ Cardinality(B) \in Nat
      /\ Cardinality(B) <= Cardinality(Room)
  BY RoomFinite, RoomCounts
<1>3. passed + Cardinality(B) <= 10 * windows
  BY <1>1, <1>2 DEF CountsOK
<1> QED
  BY <1>3 DEF CountsOK

\* What is let through takes its place in the room there was.
LEMMA CountsTaken ==
    ASSUME TypeOK, CountsOK, NEW x \in Room, Room' \subseteq Room \ {x},
           passed' = passed + 1, windows' = windows
    PROVE  CountsOK'
<1>1. passed \in Nat /\ windows \in Nat
  BY DEF TypeOK
<1> PICK B : B = Room'
  OBVIOUS
<1>2. B \subseteq Room /\ B \subseteq Room \ {x}
  OBVIOUS
<1>3. Cardinality(Room) \in Nat /\ Cardinality(B) \in Nat
  BY <1>2, RoomFinite, RoomCounts
<1>4. Cardinality(B) + 1 <= Cardinality(Room)
  BY <1>2, RoomFinite, RoomCounts
<1>5. (passed + 1) + Cardinality(B) <= 10 * windows
  BY <1>1, <1>3, <1>4 DEF CountsOK
<1> QED
  BY <1>5 DEF CountsOK

\* A new window makes room for ten.
LEMMA CountsMore ==
    ASSUME TypeOK, CountsOK, NEW y, Room' \subseteq Room \cup ({y} \X (1 .. 10)),
           passed' = passed, windows' = windows + 1
    PROVE  CountsOK'
<1>1. passed \in Nat /\ windows \in Nat
  BY DEF TypeOK
<1> PICK B : B = Room'
  OBVIOUS
<1>2. Cardinality(Room) \in Nat
  BY RoomFinite, RoomCounts
<1>3. Cardinality(B) \in Nat /\ Cardinality(B) <= Cardinality(Room) + 10
  BY RoomFinite, RoomCounts
<1>4. passed + Cardinality(B) <= 10 * (windows + 1)
  BY <1>1, <1>2, <1>3 DEF CountsOK
<1> QED
  BY <1>4 DEF CountsOK

\* Hit keeps the ceiling: what it lets through was room.
LEMMA CountsHit ==
    ASSUME TypeOK, FlowOK, CountsOK, NEW r \in Reqs, Hit(r)
    PROVE  CountsOK'
<1>1. InFlight(r)
  BY DEF Hit, InFlight
<1> PICK e \in Request : e = req[r]
  BY <1>1, ReqIs
<1> PICK at : at = e.at
  OBVIOUS
<1> PICK l : l = Passes[e.path][e.n + 1]
  OBVIOUS
<1>2. at \in setup.insts
  BY <1>1 DEF FlowOK, SoundOK, Sound
<1>3. CountHit(at, l) /\ UNCHANGED <<setup, redis, windows>>
  BY DEF Hit
<1>4. l \in Limiters
  BY RequestFields, NextLimiter DEF Hit
<1>5. mem \in [setup.insts -> [Limiters -> Nat]] /\ shared \in Nat
  BY DEF TypeOK
<1>6. \/ passed' = passed
      \/ l = "strict" /\ passed' = passed + 1 /\ ~(Hits(at, l) + 1 > Max[l])
  BY DEF Hit, Hits
<1>7. CASE redis = "unset"
  <2> PICK f \in [Limiters -> Nat] : f = mem[at]
    BY <1>2, <1>5
  <2> PICK g : g = OneMore(f, l)
    OBVIOUS
  <2>1. mem' = [mem EXCEPT ![at] = g]
    BY <1>3, <1>7 DEF CountHit
  <2>2. /\ f["strict"] \in Nat /\ g["strict"] \in Nat /\ f["strict"] <= g["strict"]
        /\ l = "strict" => g["strict"] = f["strict"] + 1
    <3>1. "strict" \in Limiters
      BY DEF Limiters
    <3> QED
      BY <3>1 DEF OneMore
  <2>3. ASSUME NEW x \in Room'
        PROVE  /\ x \in Room
               /\ l = "strict" => x # <<at, f["strict"] + 1>>
    <3>1. x \in setup.insts \X (1 .. 10) /\ mem'[x[1]]["strict"] < x[2]
      BY <1>3, <1>7 DEF Room
    <3> PICK j \in setup.insts, n \in 1 .. 10 : x = <<j, n>>
      BY <3>1
    <3>2. mem'[j]["strict"] < n
      BY <3>1
    <3>3. CASE j = at
      <4>1. g["strict"] < n
        BY <3>2, <3>3, <2>1, <1>2, <1>5
      <4>2. f["strict"] < n /\ (l = "strict" => n # f["strict"] + 1)
        BY <4>1, <2>2
      <4>3. mem[j]["strict"] < n
        BY <4>2, <3>3
      <4> QED
        BY <4>2, <4>3, <1>7 DEF Room
    <3>4. CASE j # at
      <4>1. mem'[j] = mem[j]
        BY <3>4, <2>1, <1>5
      <4> QED
        BY <3>2, <3>4, <4>1, <1>7 DEF Room
    <3> QED
      BY <3>3, <3>4
  <2>4. CASE passed' = passed
    BY <1>3, <2>3, <2>4, CountsLess
  <2>5. CASE l = "strict" /\ passed' = passed + 1 /\ ~(Hits(at, l) + 1 > Max[l])
    <3>1. Max["strict"] = 10
      BY DEF Max
    <3> PICK x : x = <<at, f["strict"] + 1>>
      OBVIOUS
    <3>2. f["strict"] + 1 \in 1 .. 10
      BY <2>2, <2>5, <3>1, <1>7 DEF Hits
    <3>3. mem[at]["strict"] < f["strict"] + 1
      BY <2>2
    <3>4. x \in Room
      BY <1>2, <1>7, <3>2, <3>3 DEF Room
    <3>5. Room' \subseteq Room \ {x}
      BY <2>3, <2>5
    <3> QED
      BY <1>3, <2>5, <3>4, <3>5, CountsTaken
  <2> QED
    BY <1>6, <2>4, <2>5
<1>8. CASE redis # "unset"
  <2>1. shared' = shared + 1
    BY <1>3, <1>8 DEF CountHit
  <2>2. ASSUME NEW x \in Room'
        PROVE  x \in Room /\ x # <<0, shared + 1>>
    <3>1. x \in {0} \X {k \in 1 .. 10 : shared' < k}
      BY <1>3, <1>8 DEF Room
    <3> PICK n \in 1 .. 10 : x = <<0, n>> /\ shared' < n
      BY <3>1
    <3>2. shared < n /\ n # shared + 1
      BY <2>1, <1>5
    <3> QED
      BY <3>2, <1>8 DEF Room
  <2>3. CASE passed' = passed
    BY <1>3, <2>2, <2>3, CountsLess
  <2>4. CASE l = "strict" /\ passed' = passed + 1 /\ ~(Hits(at, l) + 1 > Max[l])
    <3>1. Max["strict"] = 10
      BY DEF Max
    <3> PICK x : x = <<0, shared + 1>>
      OBVIOUS
    <3>2. shared + 1 \in 1 .. 10
      BY <1>5, <2>4, <3>1, <1>8 DEF Hits
    <3>3. x \in Room
      BY <1>5, <1>8, <3>2 DEF Room
    <3>4. Room' \subseteq Room \ {x}
      BY <2>2
    <3> QED
      BY <1>3, <2>4, <3>3, <3>4, CountsTaken
  <2> QED
    BY <1>6, <2>3, <2>4
<1> QED
  BY <1>7, <1>8

\* Steps that touch no strict counter leave the room as it is.
LEMMA CountsQuiet ==
    ASSUME TypeOK, CountsOK, setup' = setup, redis' = "unset" <=> redis = "unset",
           UNCHANGED <<shared, passed, windows>>,
           redis = "unset" => \A i \in setup.insts : mem'[i]["strict"] = mem[i]["strict"]
    PROVE  CountsOK'
<1>1. Room' \subseteq Room
  <2>1. CASE redis = "unset"
    <3>1. ASSUME NEW x \in Room'
          PROVE  x \in Room
      <4>1. x \in setup.insts \X (1 .. 10) /\ mem'[x[1]]["strict"] < x[2]
        BY <2>1 DEF Room
      <4> PICK j \in setup.insts, n \in 1 .. 10 : x = <<j, n>>
        BY <4>1
      <4>2. mem[j]["strict"] < n
        BY <2>1, <4>1
      <4> QED
        BY <4>2, <2>1 DEF Room
    <3> QED
      BY <3>1
  <2>2. CASE redis # "unset"
    BY <2>2 DEF Room
  <2> QED
    BY <2>1, <2>2
<1> QED
  BY <1>1, CountsLess

\* A counter of a process that starts anew opens a window of ten.
LEMMA CountsEmptied ==
    ASSUME TypeOK, CountsOK, UNCHANGED <<setup, redis, passed>>,
           redis = "unset", windows' = windows + 1, NEW i \in setup.insts,
           \A j \in setup.insts : j # i => mem'[j]["strict"] = mem[j]["strict"]
    PROVE  CountsOK'
<1>1. Room' \subseteq Room \cup ({i} \X (1 .. 10))
  <2>1. ASSUME NEW x \in Room'
        PROVE  x \in Room \cup ({i} \X (1 .. 10))
    <3>1. x \in setup.insts \X (1 .. 10) /\ mem'[x[1]]["strict"] < x[2]
      BY DEF Room
    <3> PICK j \in setup.insts, n \in 1 .. 10 : x = <<j, n>>
      BY <3>1
    <3>2. CASE j = i
      BY <3>2
    <3>3. CASE j # i
      <4>1. mem[j]["strict"] < n
        BY <3>1, <3>3
      <4> QED
        BY <4>1 DEF Room
    <3> QED
      BY <3>2, <3>3
  <2> QED
    BY <2>1
<1> QED
  BY <1>1, CountsMore

\* The ceiling holds over every step.
LEMMA CountsStep ==
    ASSUME TypeOK, FlowOK, CountsOK, [Next]_vars
    PROVE  CountsOK'
<1> USE DEF limits, rows
<1>1. ASSUME UNCHANGED <<setup, mem, shared, passed, windows>>, redis' = "unset" <=> redis = "unset"
      PROVE  CountsOK'
  BY <1>1, CountsQuiet
<1>2. ASSUME NEW r \in Reqs, Serve(r) \/ HandlerFails(r)
      PROVE  CountsOK'
  <2>1. CASE Hit(r)
    BY <2>1, CountsHit
  <2>2. CASE ~Hit(r)
    <3>1. UNCHANGED <<setup, redis, mem, shared, passed, windows>>
      BY <1>2, <2>2
          DEF Serve, LimitsPassed, requireApiKey, verifyApiKey, TouchKey, createApiKey, ListAnswers,
              revokeApiKey, deleteApiKey, FindUser, InsertUser, HandlerFails, Elsewhere
    <3> QED
      BY <3>1, <1>1
  <2> QED
    BY <2>1, <2>2
<1>3. ASSUME NEW i \in setup.insts, Restart(i)
      PROVE  CountsOK'
  <2>1. UNCHANGED <<setup, redis, shared, passed>>
    BY <1>3 DEF Restart
  <2>2. mem \in [setup.insts -> [Limiters -> Nat]]
    BY DEF TypeOK
  <2>3. mem' = [mem EXCEPT ![i] = [l \in Limiters |-> 0]]
    BY <1>3 DEF Restart
  <2>4. \A j \in setup.insts : j # i => mem'[j] = mem[j]
    BY <2>2, <2>3
  <2>5. CASE redis = "unset"
    <3>1. windows' = windows + 1
      BY <1>3, <2>5 DEF Restart
    <3> QED
      BY <2>1, <2>4, <2>5, <3>1, CountsEmptied
  <2>6. CASE redis # "unset"
    <3>1. windows' = windows
      BY <1>3, <2>6 DEF Restart
    <3> QED
      BY <2>1, <2>6, <3>1, CountsQuiet
  <2> QED
    BY <2>5, <2>6
<1>4. CASE WindowEnds
  <2>1. UNCHANGED <<setup, redis, passed>>
    BY <1>4 DEF WindowEnds
  <2>2. mem \in [setup.insts -> [Limiters -> Nat]] /\ shared \in Nat
    BY DEF TypeOK
  <2>3. CASE redis = "unset"
    <3>1. PICK i \in setup.insts, l \in Limiters :
             /\ mem' = [mem EXCEPT ![i] = [@ EXCEPT ![l] = 0]]
             /\ windows' = IF l = "strict" THEN windows + 1 ELSE windows
      BY <1>4, <2>3 DEF WindowEnds
    <3>2. shared' = shared
      BY <1>4, <2>3 DEF WindowEnds
    <3> PICK f \in [Limiters -> Nat] : f = mem[i]
      BY <2>2
    <3>3. mem' = [mem EXCEPT ![i] = [f EXCEPT ![l] = 0]]
      BY <3>1
    <3>4. \A j \in setup.insts : j # i => mem'[j] = mem[j]
      BY <2>2, <3>3
    <3>5. CASE l = "strict"
      <4>1. windows' = windows + 1
        BY <3>1, <3>5
      <4> QED
        BY <2>1, <2>3, <3>4, <4>1, CountsEmptied
    <3>6. CASE l # "strict"
      <4>1. windows' = windows
        BY <3>1, <3>6
      <4>2. "strict" \in Limiters
        BY DEF Limiters
      <4>3. mem'[i]["strict"] = mem[i]["strict"]
        BY <2>2, <3>3, <3>6, <4>2
      <4>4. \A j \in setup.insts : mem'[j]["strict"] = mem[j]["strict"]
        BY <3>4, <4>3
      <4> QED
        BY <2>1, <3>2, <4>1, <4>4, CountsQuiet
    <3> QED
      BY <3>5, <3>6
  <2>4. CASE redis # "unset"
    <3>1. windows' = windows + 1
      BY <1>4, <2>4 DEF WindowEnds
    <3>2. Room' \subseteq Room \cup ({0} \X (1 .. 10))
      BY <2>1, <2>4 DEF Room
    <3> QED
      BY <2>1, <3>1, <3>2, CountsMore
  <2> QED
    BY <2>3, <2>4
<1>5. ASSUME NEW i \in setup.insts, createApp(i) \/ \E r \in Reqs : Arrive(r, i)
      PROVE  CountsOK'
  <2>1. UNCHANGED <<setup, redis, mem, shared, passed, windows>>
    BY <1>5 DEF createApp, Arrive
  <2> QED
    BY <2>1, <1>1
<1>6. CASE RedisFails \/ RedisReturns
  <2>1. UNCHANGED <<setup, mem, shared, passed, windows>> /\ (redis' = "unset" <=> redis = "unset")
    BY <1>6 DEF RedisFails, RedisReturns
  <2> QED
    BY <2>1, <1>1
<1>7. ASSUME NEW k \in Keys, KeyExpires(k)
      PROVE  CountsOK'
  <2>1. UNCHANGED <<setup, redis, mem, shared, passed, windows>>
    BY <1>7 DEF KeyExpires
  <2> QED
    BY <2>1, <1>1
<1>8. CASE UNCHANGED vars
  BY <1>8, <1>1 DEF vars
<1> QED
  BY <1>2, <1>3, <1>4, <1>5, <1>6, <1>7, <1>8 DEF Next, Done

-----------------------------------------------------------------------------
(***************************************************************************)
(* The invariant of the gate                                               *)
(***************************************************************************)

\* The gate starts with no request, every counter at zero and as much room as
\* the windows give.
LEMMA GateInit ==
    ASSUME Init
    PROVE  GInv
<1>1. setup \in [insts : SUBSET Insts, redis : {"unset", "up"}, exempt : BOOLEAN,
                 paths : SUBSET DOMAIN Passes]
  BY SetupAssumption DEF Init
<1>2. setup.insts \subseteq Insts /\ setup.redis \in {"unset", "up"}
  BY <1>1
<1>3. IsFiniteSet(setup.insts) /\ Cardinality(setup.insts) \in Nat
  BY <1>2, SetupAssumption, FS_Subset, FS_CardinalityType
<1>4. \A r \in Reqs : req[r] = NotYet
  BY DEF Init
<1>5. NotYet.pc = "idle"
  BY DEF NotYet
<1>6. \A r \in Reqs : req[r].pc = "idle"
  BY <1>4, <1>5
<1>7. TypeOK
  <2>1. keys \in [Keys -> {Absent} \cup KeyRow]
    <3>1. \A k \in Start : [state |-> "active", owner |-> OwnerOf[k], expired |-> FALSE] \in KeyRow
      BY StartAssumption DEF KeyRow
    <3> QED
      BY <3>1 DEF Init
  <2>2. users \subseteq Users /\ tokens \subseteq Users
    BY StartAssumption DEF Init
  <2>3. req \in [Reqs -> {NotYet, Lost} \cup Request \cup Answer]
    BY DEF Init
  <2>4. windows \in Nat
    BY <1>3 DEF Init
  <2>5. redis \in {"unset", "up", "down"} /\ setup \in Setups
    BY <1>2 DEF Init
  <2>6. inst \in [setup.insts -> {"connecting", "ready"}]
    BY DEF Init
  <2>7. mem \in [setup.insts -> [Limiters -> Nat]]
    BY DEF Init
  <2>8. shared \in Nat /\ passed \in Nat /\ told \subseteq Keys
    BY DEF Init
  <2>9. resets \in 0 .. MaxResets /\ faults \in 0 .. MaxFaults
    BY BoundsAssumption DEF Init
  <2> QED
    BY <2>1, <2>2, <2>3, <2>4, <2>5, <2>6, <2>7, <2>8, <2>9 DEF TypeOK
<1>8. ReqType /\ SoundOK /\ LonelyOK /\ AnswersOK /\ LoginsOK
  BY <1>6, <1>7 DEF ReqType, TypeOK, SoundOK, LonelyOK, AnswersOK, LoginsOK, InFlight
<1>9. ToldOK /\ RedisOK
  BY DEF Init, ToldOK, RedisOK
<1>10. CountsOK
  <2>1. passed = 0
    BY DEF Init
  <2>2. CASE redis = "unset"
    <3>1. Room \subseteq setup.insts \X (1 .. 10)
      BY <2>2 DEF Room
    <3>2. /\ IsFiniteSet(setup.insts \X (1 .. 10))
          /\ Cardinality(setup.insts \X (1 .. 10)) = Cardinality(setup.insts) * 10
      <4>1. IsFiniteSet(1 .. 10) /\ Cardinality(1 .. 10) = 10
        BY UpTo
      <4> PICK ten : ten = 1 .. 10
        OBVIOUS
      <4>2. /\ IsFiniteSet(setup.insts \X ten)
            /\ Cardinality(setup.insts \X ten) = Cardinality(setup.insts) * Cardinality(ten)
        BY <1>3, <4>1, FS_Product
      <4> QED
        BY <4>1, <4>2
    <3>3. Cardinality(Room) \in Nat /\ Cardinality(Room) <= Cardinality(setup.insts) * 10
      BY <3>1, <3>2, FS_Subset, FS_CardinalityType
    <3>4. windows = Cardinality(setup.insts)
      BY <2>2 DEF Init
    <3>5. 0 + Cardinality(Room) <= 10 * Cardinality(setup.insts)
      BY <1>3, <3>3
    <3> QED
      BY <2>1, <3>4, <3>5 DEF CountsOK
  <2>3. CASE redis # "unset"
    <3>1. Room \subseteq {} \cup ({0} \X (1 .. 10))
      BY <2>3 DEF Room
    <3>2. IsFiniteSet({}) /\ Cardinality({}) = 0
      BY FS_EmptySet
    <3>3. Cardinality(Room) \in Nat /\ Cardinality(Room) <= 0 + 10
      BY <3>1, <3>2, RoomCounts
    <3>4. windows = 1
      BY <2>3 DEF Init
    <3> QED
      BY <2>1, <3>3, <3>4 DEF CountsOK
  <2> QED
    BY <2>2, <2>3
<1> QED
  BY <1>7, <1>8, <1>9, <1>10 DEF GInv

\* Redis is in use in all of a behaviour or in none of it.
LEMMA RedisStep ==
    ASSUME TypeOK, RedisOK, [Next]_vars
    PROVE  RedisOK'
<1>1. setup' = setup
  BY DEF Next, Done, vars, Serve, createApp, Restart, Arrive, RedisFails, RedisReturns, WindowEnds,
         KeyExpires, Hit, LimitsPassed, requireApiKey, verifyApiKey, TouchKey, createApiKey,
         ListAnswers, revokeApiKey, deleteApiKey, FindUser, InsertUser, HandlerFails, Elsewhere
<1>2. redis' = redis \/ (redis \in {"up", "down"} /\ redis' \in {"up", "down"})
  BY DEF Next, Done, vars, Serve, createApp, Restart, Arrive, RedisFails, RedisReturns, WindowEnds,
         KeyExpires, Hit, LimitsPassed, requireApiKey, verifyApiKey, TouchKey, createApiKey,
         ListAnswers, revokeApiKey, deleteApiKey, FindUser, InsertUser, HandlerFails, Elsewhere
<1> QED
  BY <1>1, <1>2 DEF RedisOK

\* Every step keeps the invariant.
LEMMA GateStep ==
    ASSUME GInv, [Next]_vars
    PROVE  GInv'
<1>1. TypeOK /\ FlowOK /\ ToldOK /\ LoginsOK /\ RedisOK /\ CountsOK
  BY DEF GInv, FlowOK, ReqType, TypeOK
<1>2. TypeOK' /\ FlowOK' /\ ToldOK' /\ LoginsOK' /\ RedisOK' /\ CountsOK'
  BY <1>1, TypeStep, FlowStep, ToldStep, LoginsStep, RedisStep, CountsStep
<1> QED
  BY <1>2 DEF GInv, FlowOK

\* In every behaviour the invariant holds.
LEMMA GateHolds == Spec => []GInv
<1>1. Init => GInv
  BY GateInit
<1>2. GInv /\ [Next]_vars => GInv'
  BY GateStep
<1> QED
  BY <1>1, <1>2, PTL DEF Spec

\* However many processes, mounts, windows, restarts and Redis outages there
\* are, a client that sends one request and waits is not told to slow down,
\* the strict limiters let through at most ten hits per counter and window,
\* and of first logins that race one gets its token (rate-limit.middleware.ts,
\* app.ts, auth.routes.ts).
THEOREM GateKeeps == Spec => []GateInv
<1>1. GInv => GateInv
  <2> SUFFICES ASSUME GInv
               PROVE  GateInv
    OBVIOUS
  <2>1. TypeOK
    BY DEF GInv
  <2>2. LoneRequestServed
    BY DEF GInv, AnswersOK, LoneRequestServed, Refused
  <2>3. CeilingHolds
    <3>1. passed \in Nat /\ windows \in Nat /\ Cardinality(Room) \in Nat
      BY <2>1, RoomFinite, FS_CardinalityType DEF TypeOK
    <3>2. Max["strict"] = 10
      BY DEF Max
    <3>3. passed + Cardinality(Room) <= 10 * windows
      BY DEF GInv, CountsOK
    <3>4. passed <= 10 * windows
      BY <3>1, <3>3
    <3> QED
      BY <3>2, <3>4 DEF CeilingHolds
  <2>4. FirstLoginSettles
    BY DEF GInv, LoginsOK, HasToken, FirstLoginSettles
  <2> QED
    BY <2>1, <2>2, <2>3, <2>4 DEF GateInv
<1> QED
  BY <1>1, GateHolds, PTL

\* Once the owner of a key has been told that it is revoked or deleted, no
\* request that comes later is served with it (api-auth.middleware.ts).
THEOREM RevokedStayRefused == Spec => []RevokedKeysRefused
<1>1. GInv => RevokedKeysRefused
  BY DEF GInv, AnswersOK, RevokedKeysRefused, Served
<1> QED
  BY <1>1, GateHolds, PTL

\* Only an answer of the credentials' check is a 401, and it is given to a
\* key that is not in use, or after a fault.
LEMMA GoodKeyStep ==
    ASSUME TypeOK, FlowOK, [Next]_vars, NEW r \in Reqs,
           req[r].pc # "answered", req'[r].pc = "answered", req'[r].status = 401,
           req[r].cred.by = "key"
    PROVE  ~InUse(req[r].cred.key) \/ faults' > 0
<1>1. req \in [Reqs -> {NotYet, Lost} \cup Request \cup Answer]
  BY DEF TypeOK
<1>2. Lost.pc # "answered"
  BY DEF Lost
<1>3. Fault => faults' > 0
  BY FaultCounts
<1>4. ASSUME NEW o \in Reqs, NEW q, req' = [req EXCEPT ![o] = q]
      PROVE  o = r /\ q.pc = "answered"
  BY <1>1, <1>4
<1>5. ASSUME NEW o \in Reqs, NEW status \in Statuses, Respond(o, status), InFlight(o)
      PROVE  o = r /\ status = 401
  <2> PICK e \in Request : e = req[o]
    BY <1>5, ReqIs
  <2> PICK q : q = AnswerTo(e, status)
    OBVIOUS
  <2>1. req' = [req EXCEPT ![o] = q]
    BY <1>5 DEF Respond
  <2>2. q.status = status
    BY DEF AnswerTo
  <2>3. o = r
    BY <1>4, <2>1
  <2> QED
    BY <1>1, <2>1, <2>2, <2>3
<1>6. 200 \in Statuses /\ 401 \in Statuses /\ 429 \in Statuses /\ 500 \in Statuses
  BY DEF Statuses
<1>7. ASSUME NEW o \in Reqs, NEW m, m \in Request, req' = [req EXCEPT ![o] = m]
      PROVE  FALSE
  <2>1. m.pc = "answered"
    BY <1>4, <1>7
  <2> QED
    BY <2>1, <1>7, RequestFields DEF Waits
<1>8. ASSUME NEW o \in Reqs, InFlight(o), NEW pc \in Waits, GoTo(o, pc)
      PROVE  FALSE
  <2> PICK e \in Request : e = req[o]
    BY <1>8, ReqIs
  <2> PICK m : m = [e EXCEPT !.pc = pc]
    OBVIOUS
  <2>1. m \in Request
    BY GoToFields
  <2>2. req' = [req EXCEPT ![o] = m]
    BY <1>8 DEF GoTo
  <2> QED
    BY <2>1, <2>2, <1>7
<1>9. ASSUME NEW o \in Reqs, InFlight(o), NEW pc \in Waits, NEW who, GoAs(o, pc, who)
      PROVE  FALSE
  <2> PICK e \in Request : e = req[o]
    BY <1>9, ReqIs
  <2> PICK m : m = [e EXCEPT !.pc = pc, !.who = who]
    OBVIOUS
  <2>1. m.pc = pc
    BY DEF Request
  <2>2. req' = [req EXCEPT ![o] = m]
    BY <1>9 DEF GoAs
  <2>3. m.pc = "answered"
    BY <1>4, <2>2
  <2> QED
    BY <2>1, <2>3 DEF Waits
<1>10. "act" \in Waits /\ "touch" \in Waits /\ "insert" \in Waits
  BY DEF Waits
<1>11. ASSUME NEW o \in Reqs, Serve(o) \/ HandlerFails(o)
       PROVE  ~InUse(req[r].cred.key) \/ faults' > 0
  <2>1. CASE Hit(o)
    <3>1. InFlight(o)
      BY <2>1 DEF Hit, InFlight
    <3> PICK e \in Request : e = req[o]
      BY <3>1, ReqIs
    <3> PICK m : m = OneMore(e, "n")
      OBVIOUS
    <3>2. m \in Request
      BY HitFields
    <3>3. Respond(o, 429) \/ req' = [req EXCEPT ![o] = m]
      BY <2>1 DEF Hit, LetOn
    <3> QED
      BY <1>5, <1>6, <1>7, <3>1, <3>2, <3>3
  <2>2. CASE LimitsPassed(o)
    <3>1. InFlight(o)
      BY <2>2 DEF LimitsPassed, InFlight
    <3> PICK e \in Request : e = req[o]
      BY <3>1, ReqIs
    <3> PICK m : m = [e EXCEPT !.pc = "auth", !.n = 0]
      OBVIOUS
    <3>2. m \in Request
      BY PastFields
    <3>3. req' = [req EXCEPT ![o] = m]
      BY <2>2 DEF LimitsPassed
    <3> QED
      BY <1>7, <3>2, <3>3
  <2>3. CASE requireApiKey(o)
    <3>1. InFlight(o) /\ (Respond(o, 200) \/ Respond(o, 401)) /\ req[o].path \in Open \cup Guarded
      BY <2>3 DEF requireApiKey, InFlight
    <3>2. o = r
      BY <3>1, <1>5, <1>6
    <3>3. req[r].cred.by \in {"none", "secret"}
      BY <3>1, <3>2 DEF FlowOK, SoundOK, Sound
    <3> QED
      BY <3>3
  <2>4. CASE verifyApiKey(o)
    <3>1. InFlight(o)
      BY <2>4 DEF verifyApiKey, InFlight
    <3>2. CASE Fault
      BY <3>2, <1>3
    <3>3. CASE Unauthenticated(o) /\ (req[o].cred.by = "none" \/ ~InUse(req[o].cred.key))
      <4>1. Respond(o, 401)
        BY <3>1, <3>3, <1>8, <1>10 DEF Unauthenticated
      <4>2. o = r
        BY <4>1, <3>1, <1>5, <1>6
      <4> QED
        BY <3>3, <4>2
    <3>4. CASE GoAs(o, "act", req[o].cred.user) \/ GoAs(o, "touch", keys[req[o].cred.key].owner)
      BY <3>1, <3>4, <1>9, <1>10
    <3> QED
      BY <2>4, <3>2, <3>3, <3>4 DEF verifyApiKey
  <2>5. CASE TouchKey(o)
    <3>1. InFlight(o)
      BY <2>5 DEF TouchKey, InFlight
    <3>2. CASE Fault
      BY <3>2, <1>3
    <3>3. CASE GoTo(o, "act") \/ GoAs(o, "act", "nobody")
      BY <3>1, <3>3, <1>8, <1>9, <1>10
    <3>4. CASE keys[req[o].cred.key].state = "gone" /\ Respond(o, 401)
      <4>1. o = r
        BY <3>1, <3>4, <1>5, <1>6
      <4> QED
        BY <3>4, <4>1 DEF InUse
    <3> QED
      BY <2>5, <3>2, <3>3, <3>4 DEF TouchKey
  <2>6. CASE createApiKey(o) \/ ListAnswers(o) \/ revokeApiKey(o) \/ deleteApiKey(o)
    <3>1. InFlight(o) /\ Respond(o, 200)
      BY <2>6 DEF createApiKey, ListAnswers, revokeApiKey, deleteApiKey, Acting, InFlight
    <3> QED
      BY <3>1, <1>5, <1>6
  <2>7. CASE FindUser(o)
    <3>1. InFlight(o) /\ (Respond(o, 200) \/ GoAs(o, "insert", req[o].cred.user))
      BY <2>7 DEF FindUser, InFlight
    <3> QED
      BY <3>1, <1>5, <1>6, <1>9, <1>10
  <2>8. CASE InsertUser(o)
    <3>1. InFlight(o) /\ (Respond(o, 200) \/ Respond(o, 500))
      BY <2>8 DEF InsertUser, InFlight
    <3> QED
      BY <3>1, <1>5, <1>6
  <2>9. CASE HandlerFails(o)
    <3>1. Fault
      BY <2>9 DEF HandlerFails
    <3> QED
      BY <3>1, <1>3
  <2> QED
    BY <1>11, <2>1, <2>2, <2>3, <2>4, <2>5, <2>6, <2>7, <2>8, <2>9 DEF Serve
<1>12. ASSUME NEW i \in setup.insts, createApp(i) \/ Restart(i) \/ \E o \in Reqs : Arrive(o, i)
       PROVE  FALSE
  <2>1. CASE createApp(i)
    BY <2>1 DEF createApp
  <2>2. CASE Restart(i)
    <3>1. req'[r] = Lost \/ req'[r] = req[r]
      BY <2>2 DEF Restart
    <3> QED
      BY <3>1, <1>2
  <2>3. CASE \E o \in Reqs : Arrive(o, i)
    <3> PICK o \in Reqs : Arrive(o, i)
      BY <2>3
    <3>1. CASE r = o
      <4>1. req'[r].pc = "limit"
        BY <3>1 DEF Arrive
      <4> QED
        BY <4>1
    <3>2. CASE r # o /\ InFlight(r)
      <4> PICK e \in Request : e = req[r]
        BY <3>2, ReqIs
      <4>1. req'[r] = [e EXCEPT !.alone = FALSE]
        BY <3>2 DEF Arrive
      <4> QED
        BY <4>1, AloneNoMore
    <3>3. CASE r # o /\ ~InFlight(r)
      <4>1. req'[r] = req[r]
        BY <3>3 DEF Arrive
      <4> QED
        BY <4>1
    <3> QED
      BY <3>1, <3>2, <3>3
  <2> QED
    BY <1>12, <2>1, <2>2, <2>3
<1>13. req' # req
  OBVIOUS
<1> QED
  BY <1>11, <1>12, <1>13
      DEF Next, Done, vars, RedisFails, RedisReturns, WindowEnds, KeyExpires

\* A key that is good all the while is not refused, however it is used,
\* listed or touched by others: a 401 needs a fault (api-auth.middleware.ts).
THEOREM GoodKeysAreServed == Spec => GoodKeysServed
<1>1. GInv /\ [Next]_vars => [\A r \in Reqs :
          (/\ req[r].pc # "answered" /\ req'[r].pc = "answered"
           /\ req'[r].status = 401 /\ req[r].cred.by = "key")
             => ~InUse(req[r].cred.key) \/ faults' > 0]_vars
  <2> SUFFICES ASSUME GInv, [Next]_vars
               PROVE  \A r \in Reqs :
          (/\ req[r].pc # "answered" /\ req'[r].pc = "answered"
           /\ req'[r].status = 401 /\ req[r].cred.by = "key")
             => ~InUse(req[r].cred.key) \/ faults' > 0
    OBVIOUS
  <2>1. TypeOK /\ FlowOK
    BY DEF GInv, FlowOK, ReqType, TypeOK
  <2> QED
    BY <2>1, GoodKeyStep
<1> QED
  BY <1>1, GateHolds, PTL DEF Spec, GoodKeysServed
=============================================================================
