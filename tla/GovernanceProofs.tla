-------------------------- MODULE GovernanceProofs ---------------------------
(***************************************************************************)
(* The invariants of Governance, for any number of proxies, implementations *)
(* and revisions.  TokensStayUpgradable and ConfiguratorAtThePool are about *)
(* what one contract remembers of another, and rest on this: a token that  *)
(* is listed has been deployed, and what has been deployed was made by     *)
(* somebody.                                                               *)
(***************************************************************************)
EXTENDS Governance, TLAPS

\* The token of a listed reserve has been deployed.
ListedIsDeployed ==
  \A p \in Proxies, a \in Underlyings : aTokenOf[p][a] # ZERO => Deployed(aTokenOf[p][a])

DeployedHasAdmin ==
  \A p \in Proxies : Deployed(p) => proxy[p].admin # ZERO

\* The invariants, made inductive by the two facts above.
GovernanceInv ==
  /\ GovernanceTypeOK
  /\ ListedIsDeployed
  /\ DeployedHasAdmin
  /\ InitializedForItsCode
  /\ TokensStayUpgradable
  /\ ConfiguratorAtThePool
  /\ PremiumsSplit

ProxiesTyped ==
  proxy \in [Proxies -> [admin : Proxies \cup {REGISTRY, ZERO},
                         implementation : Implementations \cup {ZERO},
                         lastInitializedRevision : Nat]]

\* A step that gives p this code, and leaves the other proxies as they are.
GivesCode(p, by, impl) ==
  /\ proxy'[p] = [admin |-> by, implementation |-> impl,
                  lastInitializedRevision |-> Revision[impl]]
  /\ \A q \in Proxies \ {p} : proxy'[q] = proxy[q]

USE GovernanceAssumption, PercentageAssumption

\* The next address is a proxy that has not been deployed.
LEMMA NewAddressIsFree ==
  ASSUME Free # {}
  PROVE  NewAddress \in Proxies /\ ~Deployed(NewAddress)
<1>1. NewAddress \in Free
  BY DEF NewAddress
<1> QED BY <1>1 DEF Free

\* A proxy that gets a code is initialized for it, and the others stay as they are.
LEMMA InitializedProxy ==
  ASSUME GovernanceTypeOK, InitializedForItsCode, DeployedHasAdmin,
         NEW p \in Proxies, NEW by \in Proxies \cup {REGISTRY}, NEW impl \in Implementations,
         Initialized(p, by, impl)
  PROVE  ProxiesTyped' /\ GivesCode(p, by, impl) /\ InitializedForItsCode' /\ DeployedHasAdmin'
<1>1. Revision[impl] \in Nat /\ impl # ZERO /\ by # ZERO
  OBVIOUS
<1>2. ProxiesTyped'
  BY <1>1 DEF Initialized, GovernanceTypeOK, ProxiesTyped
<1>3. GivesCode(p, by, impl)
  BY DEF Initialized, GovernanceTypeOK, GivesCode
<1>4. InitializedForItsCode' /\ DeployedHasAdmin'
  BY <1>1, <1>3 DEF InitializedForItsCode, DeployedHasAdmin, Deployed, GivesCode
<1> QED BY <1>2, <1>3, <1>4

-----------------------------------------------------------------------------
LEMMA GovernanceInitInv == GovernanceInit => GovernanceInv
<1> SUFFICES ASSUME GovernanceInit PROVE GovernanceInv
  OBVIOUS
<1>1. GovernanceTypeOK
  BY DEF GovernanceInit, GovernanceTypeOK, NotDeployed, NoPremium
<1>2. ListedIsDeployed /\ TokensStayUpgradable /\ ConfiguratorAtThePool
  BY DEF GovernanceInit, ListedIsDeployed, TokensStayUpgradable, ConfiguratorAtThePool
<1>3. DeployedHasAdmin /\ InitializedForItsCode
  BY DEF GovernanceInit, DeployedHasAdmin, InitializedForItsCode, Deployed, NotDeployed
<1>4. PremiumsSplit
  BY DEF GovernanceInit, PremiumsSplit, NoPremium
<1> QED BY <1>1, <1>2, <1>3, <1>4 DEF GovernanceInv

-----------------------------------------------------------------------------
(* Each action.                                                            *)

\* A contract of the registry is made or upgraded: p is its proxy.
LEMMA InitializeInv ==
  ASSUME GovernanceTypeOK, ConfiguratorAtThePool, PremiumsSplit,
         NEW id \in AddressIds, NEW p \in Proxies, Initialize(id, p),
         addresses'["POOL"] = addresses["POOL"] \/ addresses["POOL"] = ZERO,
         id # "POOL" => addresses'["POOL"] = addresses["POOL"],
         UNCHANGED replaced
  PROVE  /\ premium' \in [Proxies -> [total : Nat, toProtocol : Nat]]
         /\ poolOf' \in [Proxies -> Proxies \cup {ZERO}]
         /\ ConfiguratorAtThePool'
         /\ PremiumsSplit'
<1>1. CASE id = "POOL"
  <2>1. premium' = [premium EXCEPT ![p] = [total |-> 9, toProtocol |-> 0]] /\ UNCHANGED poolOf
    BY <1>1 DEF Initialize, InitializePool
  <2>2. premium' \in [Proxies -> [total : Nat, toProtocol : Nat]] /\ PremiumsSplit'
    BY <2>1 DEF GovernanceTypeOK, PremiumsSplit
  <2>3. ConfiguratorAtThePool'
    BY <2>1 DEF ConfiguratorAtThePool
  <2> QED BY <2>1, <2>2, <2>3 DEF GovernanceTypeOK
<1>2. CASE id # "POOL"
  <2>1. poolOf' = [poolOf EXCEPT ![p] = addresses["POOL"]] /\ UNCHANGED premium
    BY <1>2 DEF Initialize, InitializeConfigurator
  <2>2. addresses["POOL"] \in Proxies \cup {ZERO}
    BY DEF GovernanceTypeOK, AddressIds
  <2>3. poolOf' \in [Proxies -> Proxies \cup {ZERO}]
    BY <2>1, <2>2 DEF GovernanceTypeOK
  <2>4. ConfiguratorAtThePool'
    BY <1>2, <2>1 DEF ConfiguratorAtThePool, GovernanceTypeOK
  <2>5. PremiumsSplit'
    BY <2>1 DEF PremiumsSplit
  <2> QED BY <2>1, <2>3, <2>4, <2>5 DEF GovernanceTypeOK
<1> QED BY <1>1, <1>2

LEMMA UpdateImplInv ==
  ASSUME GovernanceInv, NEW id \in AddressIds, NEW impl \in KindOf(id), UpdateImpl(id, impl)
  PROVE  GovernanceInv'
<1>0. impl \in Implementations /\ "POOL" \in AddressIds /\ "POOL_CONFIGURATOR" \in AddressIds
  BY DEF KindOf, Implementations, AddressIds
<1>1. aTokenOf' = aTokenOf /\ replaced' = replaced
  BY DEF UpdateImpl
<1>2. PICK p \in Proxies :
        /\ Initialized(p, REGISTRY, impl) /\ Initialize(id, p)
        /\ \/ ~Deployed(p) /\ addresses[id] = ZERO /\ addresses' = [addresses EXCEPT ![id] = p]
           \/ proxy[p].admin = REGISTRY /\ UNCHANGED addresses
  <2>1. CASE addresses[id] = ZERO
    BY <2>1, NewAddressIsFree DEF UpdateImpl, Deploy
  <2>2. CASE addresses[id] # ZERO
    <3>1. addresses[id] \in Proxies
      BY <2>2 DEF GovernanceInv, GovernanceTypeOK
    <3> QED BY <2>2, <3>1 DEF UpdateImpl, UpgradeToAndCall
  <2> QED BY <2>1, <2>2
<1>3. ProxiesTyped' /\ GivesCode(p, REGISTRY, impl) /\ InitializedForItsCode' /\ DeployedHasAdmin'
  BY <1>0, <1>2, InitializedProxy DEF GovernanceInv
<1>3a. /\ proxy'[p].admin = REGISTRY /\ proxy'[p].implementation = impl
       /\ \A q \in Proxies \ {p} : proxy'[q] = proxy[q]
  BY <1>3 DEF GivesCode
<1>4. addresses' \in [AddressIds -> Proxies \cup {ZERO}]
  BY <1>2 DEF GovernanceInv, GovernanceTypeOK
<1>5. /\ addresses'["POOL"] = addresses["POOL"] \/ addresses["POOL"] = ZERO
      /\ id # "POOL" => addresses'["POOL"] = addresses["POOL"]
  BY <1>0, <1>2 DEF GovernanceInv, GovernanceTypeOK
<1>6. /\ premium' \in [Proxies -> [total : Nat, toProtocol : Nat]]
      /\ poolOf' \in [Proxies -> Proxies \cup {ZERO}]
      /\ ConfiguratorAtThePool' /\ PremiumsSplit'
  BY <1>1, <1>2, <1>5, InitializeInv DEF GovernanceInv
<1>7. ListedIsDeployed'
  <2> SUFFICES ASSUME NEW q \in Proxies, NEW a \in Underlyings, aTokenOf[q][a] # ZERO
               PROVE  proxy'[aTokenOf[q][a]].implementation # ZERO
    BY <1>1 DEF ListedIsDeployed, Deployed
  <2>1. aTokenOf[q][a] \in Proxies /\ proxy[aTokenOf[q][a]].implementation # ZERO
    BY DEF GovernanceInv, GovernanceTypeOK, ListedIsDeployed, Deployed
  <2>2. impl # ZERO
    BY <1>0
  <2> QED BY <1>3a, <2>1, <2>2
<1>8. TokensStayUpgradable'
  <2> SUFFICES ASSUME "POOL_CONFIGURATOR" \notin replaced, NEW q \in Proxies, NEW a \in Underlyings,
                      aTokenOf[q][a] # ZERO
               PROVE  proxy'[aTokenOf[q][a]].admin = addresses'["POOL_CONFIGURATOR"]
    BY <1>1 DEF TokensStayUpgradable
  <2>1. /\ aTokenOf[q][a] \in Proxies /\ Deployed(aTokenOf[q][a])
        /\ proxy[aTokenOf[q][a]].admin = addresses["POOL_CONFIGURATOR"]
        /\ proxy[aTokenOf[q][a]].admin # ZERO
    BY DEF GovernanceInv, GovernanceTypeOK, ListedIsDeployed, TokensStayUpgradable, DeployedHasAdmin
  <2>2. addresses'["POOL_CONFIGURATOR"] = addresses["POOL_CONFIGURATOR"]
    BY <1>0, <1>2, <2>1 DEF GovernanceInv, GovernanceTypeOK
  <2>3. proxy'[aTokenOf[q][a]].admin = proxy[aTokenOf[q][a]].admin
    BY <1>2, <1>3a, <2>1
  <2> QED BY <2>1, <2>2, <2>3
<1> QED BY <1>1, <1>3, <1>4, <1>6, <1>7, <1>8 DEF GovernanceInv, GovernanceTypeOK, ProxiesTyped

LEMMA SetAddressInv ==
  ASSUME GovernanceInv, NEW id \in AddressIds, NEW p \in Proxies \cup {ZERO}, SetAddress(id, p)
  PROVE  GovernanceInv'
<1>1. /\ addresses' = [addresses EXCEPT ![id] = p] /\ replaced' = replaced \cup {id}
      /\ UNCHANGED <<proxy, premium, poolOf, aTokenOf>>
  BY DEF SetAddress
<1>2. GovernanceTypeOK'
  BY <1>1 DEF GovernanceInv, GovernanceTypeOK
<1>3. ListedIsDeployed' /\ DeployedHasAdmin' /\ InitializedForItsCode'
  BY <1>1 DEF GovernanceInv, ListedIsDeployed, DeployedHasAdmin, InitializedForItsCode, Deployed
<1>4. TokensStayUpgradable' /\ ConfiguratorAtThePool'
  BY <1>1 DEF GovernanceInv, GovernanceTypeOK, TokensStayUpgradable, ConfiguratorAtThePool,
              AddressIds
<1>5. PremiumsSplit'
  BY <1>1 DEF GovernanceInv, PremiumsSplit
<1> QED BY <1>2, <1>3, <1>4, <1>5 DEF GovernanceInv

\* A configurator is a proxy that knows a proxy.
LEMMA KnownPool ==
  ASSUME GovernanceTypeOK, NEW c \in Proxies, IsConfigurator(c)
  PROVE  poolOf[c] \in Proxies
BY DEF GovernanceTypeOK, IsConfigurator

LEMMA InitReserveTokensInv ==
  ASSUME GovernanceInv, NEW c \in Proxies, NEW a \in Underlyings, NEW impl \in ATokens,
         InitReserveTokens(c, a, impl)
  PROVE  GovernanceInv'
<1>0. impl \in Implementations
  BY DEF Implementations
<1>1. /\ NewAddress \in Proxies /\ ~Deployed(NewAddress)
      /\ Initialized(NewAddress, c, impl)
      /\ aTokenOf' = [aTokenOf EXCEPT ![poolOf[c]][a] = NewAddress]
      /\ addresses["POOL_CONFIGURATOR"] = c
      /\ UNCHANGED <<addresses, premium, poolOf, replaced>>
  BY NewAddressIsFree DEF InitReserveTokens, Deploy, IsRegistered, unchangedRegistry
<1>2. ProxiesTyped' /\ GivesCode(NewAddress, c, impl) /\ InitializedForItsCode' /\ DeployedHasAdmin'
  BY <1>0, <1>1, InitializedProxy DEF GovernanceInv
<1>2a. /\ proxy'[NewAddress].admin = c /\ proxy'[NewAddress].implementation = impl
       /\ \A q \in Proxies \ {NewAddress} : proxy'[q] = proxy[q]
  BY <1>2 DEF GivesCode
<1>3. poolOf[c] \in Proxies
  BY KnownPool DEF GovernanceInv, InitReserveTokens
<1>4. aTokenOf' \in [Proxies -> [Underlyings -> Proxies \cup {ZERO}]]
  BY <1>1, <1>3 DEF GovernanceInv, GovernanceTypeOK
<1>5. \A q \in Proxies, b \in Underlyings :
        aTokenOf'[q][b] = NewAddress \/ aTokenOf'[q][b] = aTokenOf[q][b]
  BY <1>1, <1>3 DEF GovernanceInv, GovernanceTypeOK
<1>6. impl # ZERO
  BY <1>0
<1>7. ListedIsDeployed'
  <2> SUFFICES ASSUME NEW q \in Proxies, NEW b \in Underlyings, aTokenOf'[q][b] # ZERO
               PROVE  proxy'[aTokenOf'[q][b]].implementation # ZERO
    BY DEF ListedIsDeployed, Deployed
  <2>1. CASE aTokenOf'[q][b] = NewAddress
    BY <1>2a, <1>6, <2>1
  <2>2. CASE aTokenOf'[q][b] = aTokenOf[q][b]
    <3>1. aTokenOf[q][b] \in Proxies /\ Deployed(aTokenOf[q][b])
      BY <2>2 DEF GovernanceInv, GovernanceTypeOK, ListedIsDeployed
    <3>2. proxy'[aTokenOf[q][b]] = proxy[aTokenOf[q][b]]
      BY <1>1, <1>2a, <3>1
    <3> QED BY <2>2, <3>1, <3>2 DEF Deployed
  <2> QED BY <1>5, <2>1, <2>2
<1>8. TokensStayUpgradable'
  <2> SUFFICES ASSUME "POOL_CONFIGURATOR" \notin replaced, NEW q \in Proxies, NEW b \in Underlyings,
                      aTokenOf'[q][b] # ZERO
               PROVE  proxy'[aTokenOf'[q][b]].admin = addresses["POOL_CONFIGURATOR"]
    BY <1>1 DEF TokensStayUpgradable
  <2>1. CASE aTokenOf'[q][b] = NewAddress
    BY <1>1, <1>2a, <2>1
  <2>2. CASE aTokenOf'[q][b] = aTokenOf[q][b]
    <3>1. /\ aTokenOf[q][b] \in Proxies /\ Deployed(aTokenOf[q][b])
          /\ proxy[aTokenOf[q][b]].admin = addresses["POOL_CONFIGURATOR"]
      BY <2>2 DEF GovernanceInv, GovernanceTypeOK, ListedIsDeployed, TokensStayUpgradable
    <3>2. proxy'[aTokenOf[q][b]] = proxy[aTokenOf[q][b]]
      BY <1>1, <1>2a, <3>1
    <3> QED BY <2>2, <3>1, <3>2
  <2> QED BY <1>5, <2>1, <2>2
<1>9. ConfiguratorAtThePool' /\ PremiumsSplit'
  BY <1>1 DEF GovernanceInv, ConfiguratorAtThePool, PremiumsSplit
<1> QED BY <1>1, <1>2, <1>4, <1>7, <1>8, <1>9 DEF GovernanceInv, GovernanceTypeOK, ProxiesTyped

LEMMA DropReserveTokensInv ==
  ASSUME GovernanceInv, NEW c \in Proxies, NEW a \in Underlyings, DropReserveTokens(c, a)
  PROVE  GovernanceInv'
<1>1. /\ aTokenOf' = [aTokenOf EXCEPT ![poolOf[c]][a] = ZERO]
      /\ UNCHANGED <<addresses, proxy, premium, poolOf, replaced>>
  BY DEF DropReserveTokens, unchangedRegistry
<1>2. poolOf[c] \in Proxies
  BY KnownPool DEF GovernanceInv, DropReserveTokens
<1>3. \A q \in Proxies, b \in Underlyings :
        aTokenOf'[q][b] = ZERO \/ aTokenOf'[q][b] = aTokenOf[q][b]
  BY <1>1, <1>2 DEF GovernanceInv, GovernanceTypeOK
<1>4. GovernanceTypeOK'
  BY <1>1, <1>2 DEF GovernanceInv, GovernanceTypeOK
<1>5. ListedIsDeployed' /\ TokensStayUpgradable'
  BY <1>1, <1>3 DEF GovernanceInv, ListedIsDeployed, TokensStayUpgradable, Deployed
<1>6. DeployedHasAdmin' /\ InitializedForItsCode' /\ ConfiguratorAtThePool' /\ PremiumsSplit'
  BY <1>1 DEF GovernanceInv, DeployedHasAdmin, InitializedForItsCode, ConfiguratorAtThePool,
              PremiumsSplit, Deployed
<1> QED BY <1>4, <1>5, <1>6 DEF GovernanceInv

LEMMA UpdateATokenInv ==
  ASSUME GovernanceInv, NEW c \in Proxies, NEW a \in Underlyings, NEW impl \in ATokens,
         UpdateAToken(c, a, impl)
  PROVE  GovernanceInv'
<1>0. impl \in Implementations
  BY DEF Implementations
<1>1. poolOf[c] \in Proxies
  BY KnownPool DEF GovernanceInv, UpdateAToken
<1> DEFINE p == aTokenOf[poolOf[c]][a]
<1>2. /\ p \in Proxies /\ proxy[p].admin = c /\ Initialized(p, c, impl)
      /\ UNCHANGED <<addresses, premium, poolOf, aTokenOf, replaced>>
  BY <1>1 DEF UpdateAToken, ATokenAt, UpgradeToAndCall, unchangedRegistry, GovernanceInv,
              GovernanceTypeOK
<1> HIDE DEF p
<1>3. ProxiesTyped' /\ GivesCode(p, c, impl) /\ InitializedForItsCode' /\ DeployedHasAdmin'
  BY <1>0, <1>2, InitializedProxy DEF GovernanceInv
<1>3a. /\ proxy'[p].admin = c /\ proxy'[p].implementation = impl
       /\ \A q \in Proxies \ {p} : proxy'[q] = proxy[q]
  BY <1>3 DEF GivesCode
<1>4. \A q \in Proxies : proxy'[q].admin = proxy[q].admin
  BY <1>2, <1>3a
<1>5. ListedIsDeployed' /\ TokensStayUpgradable'
  <2>1. impl # ZERO
    BY <1>0
  <2>2. \A q \in Proxies : proxy[q].implementation # ZERO => proxy'[q].implementation # ZERO
    BY <1>3a, <2>1
  <2>3. \A q \in Proxies, b \in Underlyings : aTokenOf[q][b] \in Proxies \cup {ZERO}
    BY DEF GovernanceInv, GovernanceTypeOK
  <2>4. ListedIsDeployed'
    BY <1>2, <2>2, <2>3 DEF GovernanceInv, ListedIsDeployed, Deployed
  <2>5. TokensStayUpgradable'
    BY <1>2, <1>4, <2>3 DEF GovernanceInv, TokensStayUpgradable
  <2> QED BY <2>4, <2>5
<1>6. ConfiguratorAtThePool' /\ PremiumsSplit'
  BY <1>2 DEF GovernanceInv, ConfiguratorAtThePool, PremiumsSplit
<1> QED BY <1>2, <1>3, <1>5, <1>6 DEF GovernanceInv, GovernanceTypeOK, ProxiesTyped

\* Either part of the premium may be set to what the other allows.
LEMMA SetPremiumInv ==
  ASSUME GovernanceInv, NEW c \in Proxies, IsConfigurator(c),
         NEW value \in [total : Nat, toProtocol : Nat],
         value.toProtocol <= value.total, value.total < PERCENTAGE_FACTOR,
         SetPremium(c, value)
  PROVE  GovernanceInv'
<1>1. /\ premium' = [premium EXCEPT ![poolOf[c]] = value]
      /\ UNCHANGED <<addresses, proxy, poolOf, aTokenOf, replaced>>
  BY DEF SetPremium, unchangedRegistry
<1>2. poolOf[c] \in Proxies
  BY KnownPool DEF GovernanceInv
<1>3. GovernanceTypeOK' /\ PremiumsSplit'
  BY <1>1, <1>2 DEF GovernanceInv, GovernanceTypeOK, PremiumsSplit
<1>4. /\ ListedIsDeployed' /\ DeployedHasAdmin' /\ InitializedForItsCode'
      /\ TokensStayUpgradable' /\ ConfiguratorAtThePool'
  BY <1>1 DEF GovernanceInv, ListedIsDeployed, DeployedHasAdmin, InitializedForItsCode,
              TokensStayUpgradable, ConfiguratorAtThePool, Deployed
<1> QED BY <1>3, <1>4 DEF GovernanceInv

LEMMA UpdatePremiumInv ==
  ASSUME GovernanceInv, NEW c \in Proxies, NEW n \in Premiums,
         UpdateFlashloanPremiumTotal(c, n) \/ UpdateFlashloanPremiumToProtocol(c, n)
  PROVE  GovernanceInv'
<1>1. n \in Nat /\ IsConfigurator(c)
  BY DEF UpdateFlashloanPremiumTotal, UpdateFlashloanPremiumToProtocol
<1>2. /\ premium[poolOf[c]] \in [total : Nat, toProtocol : Nat]
      /\ premium[poolOf[c]].toProtocol <= premium[poolOf[c]].total
      /\ premium[poolOf[c]].total < PERCENTAGE_FACTOR
  BY <1>1, KnownPool DEF GovernanceInv, GovernanceTypeOK, PremiumsSplit
<1>3. CASE UpdateFlashloanPremiumTotal(c, n)
  BY <1>1, <1>2, <1>3, SetPremiumInv DEF UpdateFlashloanPremiumTotal
<1>4. CASE UpdateFlashloanPremiumToProtocol(c, n)
  BY <1>1, <1>2, <1>4, SetPremiumInv DEF UpdateFlashloanPremiumToProtocol
<1> QED BY <1>3, <1>4

-----------------------------------------------------------------------------
LEMMA GovernanceNextInv == GovernanceInv /\ [GovernanceNext]_governanceVars => GovernanceInv'
<1> SUFFICES ASSUME GovernanceInv, [GovernanceNext]_governanceVars PROVE GovernanceInv'
  OBVIOUS
<1>1. CASE \E id \in AddressIds : \E impl \in KindOf(id) : UpdateImpl(id, impl)
  BY <1>1, UpdateImplInv
<1>2. CASE \E id \in AddressIds, p \in Proxies \cup {ZERO} : SetAddress(id, p)
  BY <1>2, SetAddressInv
<1>3. CASE \E c \in Proxies, a \in Underlyings, impl \in ATokens : InitReserveTokens(c, a, impl)
  BY <1>3, InitReserveTokensInv
<1>4. CASE \E c \in Proxies, a \in Underlyings, impl \in ATokens : UpdateAToken(c, a, impl)
  BY <1>4, UpdateATokenInv
<1>5. CASE \E c \in Proxies, a \in Underlyings : DropReserveTokens(c, a)
  BY <1>5, DropReserveTokensInv
<1>6. CASE \E c \in Proxies, n \in Premiums :
             UpdateFlashloanPremiumTotal(c, n) \/ UpdateFlashloanPremiumToProtocol(c, n)
  BY <1>6, UpdatePremiumInv
<1>7. CASE UNCHANGED governanceVars
  BY <1>7 DEF governanceVars, GovernanceInv, GovernanceTypeOK, ListedIsDeployed, DeployedHasAdmin,
              InitializedForItsCode, TokensStayUpgradable, ConfiguratorAtThePool, PremiumsSplit,
              Deployed
<1> QED BY <1>1, <1>2, <1>3, <1>4, <1>5, <1>6, <1>7 DEF GovernanceNext

THEOREM GovernanceInvariance == GovernanceSpec => []GovernanceInv
<1> QED BY GovernanceInitInv, GovernanceNextInv, PTL DEF GovernanceSpec

\* No proxy, of the Pool, of the configurator or of a token, can be initialized by
\* anyone but those who upgrade it, however many there are.
THEOREM ProxiesAreInitialized == GovernanceSpec => []InitializedForItsCode
<1>1. GovernanceInv => InitializedForItsCode
  BY DEF GovernanceInv
<1> QED BY <1>1, GovernanceInvariance, PTL

\* Until setAddress replaces the configurator, the tokens of every listed reserve
\* obey the one that is registered.
THEOREM TokensObeyTheConfigurator == GovernanceSpec => []TokensStayUpgradable
<1>1. GovernanceInv => TokensStayUpgradable
  BY DEF GovernanceInv
<1> QED BY <1>1, GovernanceInvariance, PTL

\* Until setAddress replaces the Pool, no configurator administers another one.
THEOREM ConfiguratorsFollowThePool == GovernanceSpec => []ConfiguratorAtThePool
<1>1. GovernanceInv => ConfiguratorAtThePool
  BY DEF GovernanceInv
<1> QED BY <1>1, GovernanceInvariance, PTL

\* In every Pool, what the protocol gets of a premium is part of it.
THEOREM PremiumsStaySplit == GovernanceSpec => []PremiumsSplit
<1>1. GovernanceInv => PremiumsSplit
  BY DEF GovernanceInv
<1> QED BY <1>1, GovernanceInvariance, PTL
=============================================================================
