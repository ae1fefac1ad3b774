----------------------------- MODULE MC_ApiGate -----------------------------
(***************************************************************************)
(* Small instances of ApiGate: one key of one user exists, another key and *)
(* another user may come to be.                                            *)
(***************************************************************************)
EXTENDS ApiGate, TLC

CONSTANTS i1, i2, u1, u2, k1, k2

\* The limiters on their own: processes that count alone (one of them can be
\* filled by three requests), or one that counts in Redis (there the count does not depend on which process it is),
\* with and without the exempt key; and the routes that depend on keys and
\* users, which all processes share.
Counting == {"health", "upload", "oneShot"}
SomeSetups ==
    {[insts |-> {i1, i2}, redis |-> "unset", exempt |-> FALSE, paths |-> Counting],
     [insts |-> {i1}, redis |-> "unset", exempt |-> FALSE, paths |-> {"upload", "oneShot"}],
     [insts |-> {i1}, redis |-> "up", exempt |-> FALSE, paths |-> Counting],
     [insts |-> {i1}, redis |-> "up", exempt |-> TRUE, paths |-> {"upload", "oneShot"}],
     [insts |-> {i1}, redis |-> "unset", exempt |-> FALSE,
      paths |-> {"content", "create", "revoke", "delete", "token"}]}

Swap == Permutations({i1, i2})

OneOwner == [k \in Start |-> u1]
=============================================================================
