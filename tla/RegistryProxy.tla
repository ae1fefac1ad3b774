---------------------------- MODULE RegistryProxy ----------------------------
(***************************************************************************)
(* The registry behind its UUPS proxy: ContentRegistryV1 and               *)
(* ContentRegistryV2 executing on the proxy's storage.  The registry's own *)
(* functions are those of module ContentRegistry; this module adds         *)
(* ownership, upgrades (to V2 and back: the owner may install any UUPS     *)
(* implementation), and V2's second way to register with its counter.      *)
(***************************************************************************)
EXTENDS ContentRegistry, FiniteSets

CONSTANT Deployer   \* the account that ran scripts/deploy-upgradeable.ts

ASSUME DeployerAssumption == Deployer \in Accounts

VARIABLES
    implementation,     \* the ERC-1967 implementation slot: "V1" or "V2"
    owner,              \* OwnableUpgradeable's owner
    totalRegistrations  \* V2's counter, in storage behind V1's gap

proxyVars == <<implementation, owner, totalRegistrations>>
vars == <<registryVars, proxyVars>>

\* deployProxy runs initialize(deployer) in the proxy's constructor, so no
\* state with an uninitialised proxy exists; _disableInitializers keeps the
\* implementation contract itself from ever being initialised.
ProxyInit ==
    /\ Init
    /\ implementation = "V1"
    /\ owner = Deployer
    /\ totalRegistrations = 0

\* The functions V2 inherits from V1 unchanged, register included.
Inherited(sender, h) == Transaction(sender, h) /\ UNCHANGED proxyVars

\* Mutant of RegisterV2: V2 stores the entry itself and forgets _register's
\* "Already registered" check.
RegisterV2Unchecked(sender, h, uri) ==
    /\ implementation = "V2"
    /\ totalRegistrations <= Cardinality(Hashes)
    /\ entries' = [entries EXCEPT ![h] = [creator     |-> sender,
                                          timestamp   |-> blockTime,
                                          manifestURI |-> uri]]
    /\ totalRegistrations' = totalRegistrations + 1
    /\ UNCHANGED <<platformToHash, hashToPlatformKeys, blockTime, boundEvents,
                   implementation, owner>>

RegisterV2(sender, h, uri) ==
    /\ implementation = "V2"
    /\ Register(sender, h, uri)
    /\ totalRegistrations' = totalRegistrations + 1
    /\ UNCHANGED <<implementation, owner>>

GetTotalRegistrations == totalRegistrations

\* upgradeToAndCall, guarded by _authorizeUpgrade (onlyOwner)
Upgrade(sender, new) ==
    /\ sender = owner
    /\ implementation' = new
    /\ UNCHANGED <<registryVars, owner, totalRegistrations>>

\* OwnableUpgradeable's two public functions (OpenZeppelin)
TransferOwnership(sender, newOwner) ==
    /\ sender = owner
    /\ owner' = newOwner
    /\ UNCHANGED <<registryVars, implementation, totalRegistrations>>

RenounceOwnership(sender) ==
    /\ sender = owner
    /\ owner' = ZeroAccount
    /\ UNCHANGED <<registryVars, implementation, totalRegistrations>>

ProxyNext ==
    \/ \E sender \in Accounts, h \in Hashes :
          \/ Inherited(sender, h)
          \/ \E uri \in URIs : RegisterV2(sender, h, uri)
    \/ \E sender \in Accounts :
          \/ \E new \in {"V1", "V2"} : Upgrade(sender, new)
          \/ \E newOwner \in Accounts : TransferOwnership(sender, newOwner)
          \/ RenounceOwnership(sender)
    \/ Mine /\ UNCHANGED proxyVars

ProxySpec == ProxyInit /\ [][ProxyNext]_vars

-----------------------------------------------------------------------------
(***************************************************************************)
(* Properties                                                              *)
(***************************************************************************)

ProxyTypeOK ==
    /\ TypeOK
    /\ implementation \in {"V1", "V2"}
    /\ owner \in Accounts \cup {ZeroAccount}
    /\ totalRegistrations \in Nat

\* Upgrades, downgrades and changes of ownership, in any order and between
\* any two transactions, are invisible to users of the registry: the proxy
\* behaves like one ContentRegistry contract that was never replaced.
UpgradeTransparent == Spec

\* V2's counter never runs ahead of the registry: every unit of it is a
\* content hash registered through registerV2, also after a downgrade to V1
\* and a second upgrade.
CounterBounded ==
    totalRegistrations <= Cardinality({h \in Hashes : Registered(h)})

\* Once ownership is renounced the code is frozen: no later transaction
\* changes the implementation or brings an owner back.
RenouncedForever ==
    [][owner = ZeroAccount => UNCHANGED <<implementation, owner>>]_vars
=============================================================================
