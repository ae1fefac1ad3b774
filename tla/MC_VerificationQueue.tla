------------------------ MODULE MC_VerificationQueue ------------------------
(***************************************************************************)
(* A small instance of VerificationQueue.                                  *)
(***************************************************************************)
EXTENDS VerificationQueue, TLC

CONSTANTS s1, s2

\* One job with its hash, one with an uploaded file, as the routes send it.
MixedInput == (s1 :> "hash") @@ (s2 :> "file")

Scenario(requests, kinds, n) == [requests |-> requests, kinds |-> kinds, faults |-> n]

\* Both requests, while the queue may be lost once; and one request with up to
\* three faults of any kind.
MixedScenarios ==
    { Scenario({s1, s2}, {"loss"}, 1),
      Scenario({s1}, {"db", "stall", "crash", "loss"}, 3) }

\* Both requests, and nothing fails.
PlainScenarios == {Scenario({s1, s2}, {}, 0)}
=============================================================================
