-------------------------- MODULE ProvenanceLedger --------------------------
(***************************************************************************)
(* What the on-chain registry promises to the rest of Internet ID: an      *)
(* append-only ledger.  A claim says who registered a content hash and     *)
(* when; a link says which content a platform key stands for.  Claims and  *)
(* links are added, never changed and never removed, and a link is only    *)
(* added by the account that holds the claim it points to.  Everything     *)
(* else the contract does (publishing and revoking manifest URIs,          *)
(* upgrades, ownership) leaves the ledger alone.                           *)
(***************************************************************************)
CONSTANTS
    Hashes,     \* content hashes
    Accounts,   \* externally owned accounts that send transactions
    Keys,       \* platform keys
    Times       \* the times at which a claim can be made

VARIABLES
    claims,     \* partial function: content hash -> [by, at]
    links       \* partial function: platform key -> content hash

ledgerVars == <<claims, links>>

\* f with x mapped to y, x being outside its domain
Extend(f, x, y) == [z \in DOMAIN f \cup {x} |-> IF z = x THEN y ELSE f[z]]

Empty == [x \in {} |-> x]

Init == claims = Empty /\ links = Empty

\* An account claims a content hash nobody has claimed.
Claim(a, h) ==
    /\ h \notin DOMAIN claims
    /\ \E t \in Times : claims' = Extend(claims, h, [by |-> a, at |-> t])
    /\ UNCHANGED links

\* The holder of a claim links a free platform key to it.
Link(a, h, k) ==
    /\ k \notin DOMAIN links
    /\ h \in DOMAIN claims
    /\ claims[h].by = a
    /\ links' = Extend(links, k, h)
    /\ UNCHANGED claims

Next ==
    \E a \in Accounts, h \in Hashes :
        \/ Claim(a, h)
        \/ \E k \in Keys : Link(a, h, k)

Spec == Init /\ [][Next]_ledgerVars
=============================================================================
