----------------------------- MODULE Governance ------------------------------
(***************************************************************************)
(* The contracts of a market as contracts that can be replaced: the        *)
(* registry of addresses (PoolAddressesProvider.sol) that makes proxies of *)
(* the Pool and of the configurator, the configurator that makes proxies   *)
(* of the tokens of each reserve (ConfiguratorLogic.sol), and the proxies  *)
(* themselves, whose code changes while their storage stays.               *)
(*                                                                         *)
(* A proxy obeys only the account that made it.  Its storage holds the     *)
(* last revision it was initialized for (VersionedInitializable.sol);      *)
(* initialize of each contract may be called by anyone, and only that      *)
(* revision stops it.  An implementation is an address with a revision,    *)
(* made for this registry.  Who may act as the owner of the registry or as *)
(* the administrator of the Pool is left out.                              *)
(***************************************************************************)
EXTENDS PercentageMath

CONSTANTS
  Proxies, ZERO, REGISTRY,           \* addresses
  Pools, Configurators, ATokens,     \* addresses of implementations
  Revision,                          \* getRevision() of each
  Underlyings,
  Premiums                           \* the values tried for a flash loan premium

Implementations == Pools \cup Configurators \cup ATokens
AddressIds      == {"POOL", "POOL_CONFIGURATOR"}
KindOf(id)      == IF id = "POOL" THEN Pools ELSE Configurators

ASSUME GovernanceAssumption ==
  /\ ZERO \notin Proxies \cup Implementations \cup {REGISTRY}
  /\ REGISTRY \notin Proxies
  /\ Revision \in [Implementations -> Nat \ {0}]
  /\ Premiums \subseteq Nat
  /\ PERCENTAGE_FACTOR > 9

VARIABLES
  addresses,  \* of the registry, by id
  proxy,      \* admin, implementation and lastInitializedRevision of each proxy
  premium,    \* of each Pool: what flash loans cost, and what of it the protocol gets
  poolOf,     \* of each configurator: the Pool it administers
  aTokenOf,   \* of each Pool: the aToken of each asset it lists
  replaced    \* history: the ids that setAddress has replaced

governanceVars == <<addresses, proxy, premium, poolOf, aTokenOf, replaced>>

NotDeployed == [admin |-> ZERO, implementation |-> ZERO, lastInitializedRevision |-> 0]
NoPremium   == [total |-> 0, toProtocol |-> 0]

GovernanceInit ==
  /\ addresses = [id \in AddressIds |-> ZERO]
  /\ proxy = [p \in Proxies |-> NotDeployed]
  /\ premium = [p \in Proxies |-> NoPremium]
  /\ poolOf = [p \in Proxies |-> ZERO]
  /\ aTokenOf = [p \in Proxies |-> [a \in Underlyings |-> ZERO]]
  /\ replaced = {}

Deployed(p) == proxy[p].implementation # ZERO

-----------------------------------------------------------------------------
(* Proxies.                                                                *)

\* The proxy gets the code, and initialize runs in it: it reverts for a revision
\* that is not above the last one.
Initialized(p, by, impl) ==
  /\ Revision[impl] > proxy[p].lastInitializedRevision
  /\ proxy' = [proxy EXCEPT ![p] = [admin |-> by, implementation |-> impl,
                                    lastInitializedRevision |-> Revision[impl]]]

\* The address of the next proxy is determined by those before.
Free == {p \in Proxies : ~Deployed(p)}
NewAddress == CHOOSE p \in Free : TRUE

Deploy(by, impl) == Free # {} /\ Initialized(NewAddress, by, impl)

\* A mistake: the code is replaced and initialize is not called.
UpgradeTo(p, by, impl) ==
  /\ proxy[p].admin = by
  /\ proxy' = [proxy EXCEPT ![p].implementation = impl]

UpgradeToAndCall(p, by, impl) == proxy[p].admin = by /\ Initialized(p, by, impl)

-----------------------------------------------------------------------------
(* The registry.                                                           *)

\* A mistake: what the protocol gets of the premium is not reset.
InitializePremiumOnly(p) == premium' = [premium EXCEPT ![p].total = 9] /\ UNCHANGED poolOf

\* An upgrade of the Pool resets what the configurator has set.
InitializePool(p) ==
  premium' = [premium EXCEPT ![p] = [total |-> 9, toProtocol |-> 0]] /\ UNCHANGED poolOf

InitializeConfigurator(p) ==
  poolOf' = [poolOf EXCEPT ![p] = addresses["POOL"]] /\ UNCHANGED premium

Initialize(id, p) ==
  (id = "POOL" /\ InitializePool(p)) \/ (id # "POOL" /\ InitializeConfigurator(p))

\* A mistake: a new proxy for each implementation.
UpdateImplAnew(id, impl) ==
  /\ Deploy(REGISTRY, impl) /\ Initialize(id, NewAddress)
  /\ addresses' = [addresses EXCEPT ![id] = NewAddress]
  /\ UNCHANGED <<aTokenOf, replaced>>

\* setPoolImpl, setPoolConfiguratorImpl, setAddressAsProxy.
UpdateImpl(id, impl) ==
  /\ \/ /\ addresses[id] = ZERO
        /\ Deploy(REGISTRY, impl) /\ Initialize(id, NewAddress)
        /\ addresses' = [addresses EXCEPT ![id] = NewAddress]
     \/ /\ addresses[id] # ZERO
        /\ UpgradeToAndCall(addresses[id], REGISTRY, impl) /\ Initialize(id, addresses[id])
        /\ UNCHANGED addresses
  /\ UNCHANGED <<aTokenOf, replaced>>

\* The address is replaced by none, or by that of an earlier contract.
SetAddress(id, p) ==
  /\ p # addresses[id]
  /\ p # ZERO => proxy[p].implementation \in KindOf(id)
  /\ addresses' = [addresses EXCEPT ![id] = p]
  /\ replaced' = replaced \cup {id}
  /\ UNCHANGED <<proxy, premium, poolOf, aTokenOf>>

-----------------------------------------------------------------------------
(* A configurator c, registered or not, and the Pool it knows.             *)

IsConfigurator(c)   == proxy[c].implementation \in Configurators /\ poolOf[c] # ZERO
IsRegistered(c)     == addresses["POOL_CONFIGURATOR"] = c
ATokenAt(c, a)      == aTokenOf[poolOf[c]][a]
unchangedRegistry   == UNCHANGED <<addresses, poolOf, replaced>>

\* The debt tokens of the reserve are made and upgraded in the same way.
InitReserveTokens(c, a, impl) ==
  /\ IsConfigurator(c) /\ IsRegistered(c) /\ ATokenAt(c, a) = ZERO
  /\ Deploy(c, impl)
  /\ aTokenOf' = [aTokenOf EXCEPT ![poolOf[c]][a] = NewAddress]
  /\ UNCHANGED premium /\ unchangedRegistry

DropReserveTokens(c, a) ==
  /\ IsConfigurator(c) /\ IsRegistered(c) /\ ATokenAt(c, a) # ZERO
  /\ aTokenOf' = [aTokenOf EXCEPT ![poolOf[c]][a] = ZERO]
  /\ UNCHANGED <<proxy, premium>> /\ unchangedRegistry

\* The Pool is only read: the token asks whether it is c who made it.
UpdateAToken(c, a, impl) ==
  /\ IsConfigurator(c) /\ ATokenAt(c, a) # ZERO
  /\ UpgradeToAndCall(ATokenAt(c, a), c, impl)
  /\ UNCHANGED <<premium, aTokenOf>> /\ unchangedRegistry

\* updateFlashloanPremiums of the Pool.
SetPremium(c, value) ==
  /\ IsRegistered(c)
  /\ premium' = [premium EXCEPT ![poolOf[c]] = value]
  /\ UNCHANGED <<proxy, aTokenOf>> /\ unchangedRegistry

UpdateFlashloanPremiumTotal(c, n) ==
  /\ IsConfigurator(c) /\ n < PERCENTAGE_FACTOR /\ n >= premium[poolOf[c]].toProtocol
  /\ SetPremium(c, [premium[poolOf[c]] EXCEPT !.total = n])

UpdateFlashloanPremiumToProtocol(c, n) ==
  /\ IsConfigurator(c) /\ n < PERCENTAGE_FACTOR /\ n <= premium[poolOf[c]].total
  /\ SetPremium(c, [premium[poolOf[c]] EXCEPT !.toProtocol = n])

-----------------------------------------------------------------------------
GovernanceNext ==
  \/ \E id \in AddressIds :
       \/ \E impl \in KindOf(id) : UpdateImpl(id, impl)
       \/ \E p \in Proxies \cup {ZERO} : SetAddress(id, p)
  \/ \E c \in Proxies :
       \/ \E a \in Underlyings :
            \/ \E impl \in ATokens : InitReserveTokens(c, a, impl) \/ UpdateAToken(c, a, impl)
            \/ DropReserveTokens(c, a)
       \/ \E n \in Premiums :
            UpdateFlashloanPremiumTotal(c, n) \/ UpdateFlashloanPremiumToProtocol(c, n)

GovernanceSpec == GovernanceInit /\ [][GovernanceNext]_governanceVars

-----------------------------------------------------------------------------
GovernanceTypeOK ==
  /\ addresses \in [AddressIds -> Proxies \cup {ZERO}]
  /\ proxy \in [Proxies -> [admin : Proxies \cup {REGISTRY, ZERO},
                            implementation : Implementations \cup {ZERO},
                            lastInitializedRevision : Nat]]
  /\ premium \in [Proxies -> [total : Nat, toProtocol : Nat]]
  /\ poolOf \in [Proxies -> Proxies \cup {ZERO}]
  /\ aTokenOf \in [Proxies -> [Underlyings -> Proxies \cup {ZERO}]]
  /\ replaced \subseteq AddressIds

\* Whatever is upgraded, and in whatever order, every proxy has been initialized
\* for the code it runs, in the transaction that gave it this code: initialize,
\* which is open to all, is open to nobody.
InitializedForItsCode ==
  \A p \in Proxies :
    Deployed(p) => proxy[p].lastInitializedRevision = Revision[proxy[p].implementation]

\* The tokens of every listed reserve obey the registered configurator, through
\* all its upgrades and those of the Pool, unless setAddress has replaced it: a
\* token obeys for ever the proxy that made it.
TokensStayUpgradable ==
  "POOL_CONFIGURATOR" \notin replaced =>
    \A p \in Proxies, a \in Underlyings :
      aTokenOf[p][a] # ZERO => proxy[aTokenOf[p][a]].admin = addresses["POOL_CONFIGURATOR"]

\* No configurator administers a Pool that is not the registered one, although
\* each asks the registry only when it is initialized, unless setAddress has
\* replaced the Pool; one that is older than the Pool administers none.
ConfiguratorAtThePool ==
  "POOL" \notin replaced => \A c \in Proxies : poolOf[c] \in {ZERO, addresses["POOL"]}

\* The protocol never gets more of a flash loan's premium than there is, which
\* would make every flash loan revert: the two are set one by one, each against
\* the other, and both by an upgrade of the Pool.
PremiumsSplit ==
  \A p \in Proxies : /\ premium[p].toProtocol <= premium[p].total
                     /\ premium[p].total < PERCENTAGE_FACTOR
=============================================================================
