---------------------------- MODULE MC_CacheAside ----------------------------
(***************************************************************************)
(* Small instances of CacheAside.                                          *)
(***************************************************************************)
EXTENDS CacheAside

\* Writers that write what the key caches, each pair of them once.
KindOrder == <<"register", "bind", "verify", "worker", "outside">>
Writes(k) == \E n \in DOMAIN Steps(k) : key \in Steps(k)[n].keys
Place(k) == CHOOSE n \in DOMAIN KindOrder : KindOrder[n] = k

MCInit ==
    /\ Init
    /\ \A w \in Writers : Writes(writer[w].kind)
    /\ \A w, v \in Writers : w < v => Place(writer[w].kind) <= Place(writer[v].kind)

MCSpec == MCInit /\ [][Next]_vars /\ Fairness
=============================================================================
