---------------------------- MODULE LedgerProofs ----------------------------
(***************************************************************************)
(* The contract implements PresaleLedger, and the chain's metadata follows *)
(* the contract's keys, for every number of coins and users, every         *)
(* deployment and every width.                                             *)
(***************************************************************************)
EXTENDS GardenProofs

\* The two variables of the ledger that the contract does not store.
Phases == [d \in Denoms |-> Phase(d)]

Claimants == [d \in Denoms |-> {g \in Users : presale_claimed[d][g]}]

\* Which conditions make which phase.
LEMMA PhaseIs ==
    ASSUME NEW d \in Denoms
    PROVE  /\ ~Created(d) => Phase(d) = "none"
           /\ (Created(d) /\ shitcoin_launched[d]) => Phase(d) = "launched"
           /\ (Created(d) /\ ~shitcoin_launched[d] /\ ~Ended(d)) => Phase(d) = "open"
           /\ (Created(d) /\ ~shitcoin_launched[d] /\ Ended(d)) => Phase(d) = "closed"
BY DEF Phase

\* The same after a step.
LEMMA PhaseBecomes ==
    ASSUME NEW d \in Denoms
    PROVE  /\ ~Created(d)' => Phase(d)' = "none"
           /\ (Created(d)' /\ shitcoin_launched'[d]) => Phase(d)' = "launched"
           /\ (Created(d)' /\ ~shitcoin_launched'[d] /\ ~Ended(d)') => Phase(d)' = "open"
           /\ (Created(d)' /\ ~shitcoin_launched'[d] /\ Ended(d)') => Phase(d)' = "closed"
BY DEF Phase

\* A phase depends on the creator, the launch, the end and the clock alone.
LEMMA PhaseFrame ==
    ASSUME NEW d \in Denoms,
           shitcoin_creator'[d] = shitcoin_creator[d],
           shitcoin_launched'[d] = shitcoin_launched[d],
           presale_end'[d] = presale_end[d], now' = now
    PROVE  Phase(d)' = Phase(d)
<1>1. (Created(d)' <=> Created(d)) /\ (Ended(d)' <=> Ended(d))
  BY DEF Created, Ended
<1> QED
  BY <1>1 DEF Phase

\* The phases of all coins change with that of one.
LEMMA PhaseUpdate ==
    ASSUME NEW c \in Denoms, NEW p, Phase(c)' = p,
           \A d \in Denoms \ {c} : Phase(d)' = Phase(d)
    PROVE  Phases' = [Phases EXCEPT ![c] = p]
BY DEF Phases

\* create_shitcoin plants a coin.
LEMMA CreatePlants ==
    ASSUME Inductive, NEW u \in Users, NEW t \in Tickers, NEW s \in Supplies, NEW f \in Funds,
           CreateShitcoin(u, t, s, f)
    PROVE  Ledger!Plant(DenomOf[t], now + config.presale_length)
           /\ now + config.presale_length \in 0 .. U64Max
<1> DEFINE new == DenomOf[t]
           end == now + config.presale_length
<1>1. TypeOK /\ ListedOnce /\ NothingBeforeCreate
  BY DEF Inductive
<1>2. /\ new \in Denoms /\ ~Created(new)
      /\ \A d \in Denoms : Created(d)' <=> (d = new \/ Created(d))
  BY <1>1, RegistryCreate
<1>3. /\ now \in Nat /\ config.presale_length \in Nat /\ config.presale_length > 0
      /\ end \in 0 .. U64Max
  BY <1>1, AmountsAssumption DEF CreateShitcoin, FitsU64, TypeOK, ConfigType, ValidMsg
<1>4. /\ presale_end' = [presale_end EXCEPT ![new] = end]
      /\ presale_raise' = [presale_raise EXCEPT ![new] = 0]
      /\ shitcoin_creator' = [shitcoin_creator EXCEPT ![new] = u]
      /\ UNCHANGED <<now, shitcoin_launched, presale_submission, presale_claimed>>
  BY DEF CreateShitcoin
<1> HIDE DEF new, end
<1>5. Phase(new) = "none"
  BY <1>2, PhaseIs
<1>6. Phase(new)' = "open"
  <2>1. presale_end'[new] = end
    BY <1>1, <1>2, <1>4 DEF TypeOK
  <2>2. ~Ended(new)'
    BY <1>3, <1>4, <2>1 DEF Ended, end
  <2>3. Created(new)' /\ ~shitcoin_launched'[new]
    BY <1>1, <1>2, <1>4 DEF NothingBeforeCreate
  <2> QED
    BY <1>2, <2>2, <2>3, PhaseBecomes
<1>7. \A d \in Denoms \ {new} : Phase(d)' = Phase(d)
  <2> SUFFICES ASSUME NEW d \in Denoms \ {new} PROVE Phase(d)' = Phase(d)
    OBVIOUS
  <2>1. presale_end'[d] = presale_end[d] /\ shitcoin_creator'[d] = shitcoin_creator[d]
    BY <1>1, <1>4 DEF TypeOK
  <2> QED
    BY <1>4, <2>1, PhaseFrame
<1>8. Phases' = [Phases EXCEPT ![new] = "open"]
  BY <1>2, <1>6, <1>7, PhaseUpdate
<1>9. presale_raise' = presale_raise
  <2>1. presale_raise[new] = 0
    BY <1>1, <1>2 DEF NothingBeforeCreate
  <2> QED
    BY <1>1, <1>2, <1>4, <2>1 DEF TypeOK
<1>10. Ledger!Plant(new, end)
  BY <1>2, <1>4, <1>5, <1>8, <1>9
  DEF Ledger!Plant, Ledger!OpensUntil, Ledger!Enters, Phases
<1> QED
  BY <1>3, <1>10 DEF new, end

\* enter_presale contributes what the fee leaves of the payment.
LEMMA EnterContributes ==
    ASSUME Inductive, config \in InstantiateMsgs, ~DexAcceptsEmptySide,
           NEW u \in Users, NEW c \in Denoms, NEW f \in Funds, EnterPresale(u, c, f)
    PROVE  \E n \in Contributions : Ledger!Contribute(c, u, n)
<1> DEFINE n == Submission(f.amount, config.presale_fee_rate)
<1>1. TypeOK /\ Created(c) /\ ~Ended(c)
  BY DEF Inductive, EnterPresale
<1>2. /\ presale_raise' = [presale_raise EXCEPT ![c] = @ + n]
      /\ presale_submission' = [presale_submission EXCEPT ![c][u] = @ + n]
      /\ UNCHANGED <<now, coinVars, shitcoin_launched, presale_end, presale_claimed>>
  BY DEF EnterPresale, RecordSubmission
<1>3. n \in Contributions
  BY DEF Contributions, Funds
<1> HIDE DEF n
<1>4. ~shitcoin_launched[c]
  BY <1>1 DEF Inductive, PairsFollowLaunch
<1>5. Phase(c) = "open"
  BY <1>1, <1>4, PhaseIs
<1>6. Phases' = Phases
  BY <1>2, PhaseFrame DEF Phases, coinVars
<1>7. Ledger!Contribute(c, u, n)
  BY <1>2, <1>5, <1>6 DEF Ledger!Contribute, Phases
<1> QED
  BY <1>3, <1>7

\* extend_presale opens a closed presale again, for a later end.
LEMMA ExtendReopens ==
    ASSUME Inductive, ~DexAcceptsEmptySide,
           NEW u \in Users, NEW c \in Denoms, NEW x \in Attachments,
           ExtendPresale(u, c, x)
    PROVE  \E end \in 0 .. U64Max : Ledger!Reopen(c, end)
<1> DEFINE end == now + config.presale_length
<1>1. TypeOK /\ Created(c) /\ Ended(c) /\ presale_raise[c] = 0
  BY DEF Inductive, ExtendPresale, Extendable
<1>2. /\ presale_end' = [presale_end EXCEPT ![c] = end]
      /\ UNCHANGED <<now, coinVars, shitcoin_launched, presale_raise,
                     presale_submission, presale_claimed>>
  BY DEF ExtendPresale
<1>3. /\ now \in Nat /\ config.presale_length \in Nat /\ config.presale_length > 0
      /\ presale_end[c] \in Nat /\ end \in 0 .. U64Max
  BY <1>1, AmountsAssumption DEF ExtendPresale, FitsU64, TypeOK, ConfigType, ValidMsg
<1>4. presale_end[c] < end /\ now < end
  BY <1>1, <1>3 DEF Ended
<1> HIDE DEF end
<1>5. ~shitcoin_launched[c]
  <2>1. ~(presale_raise[c] > 0)
    BY <1>1
  <2> QED
    BY <1>1, <2>1 DEF Inductive, PairsFollowLaunch
<1>6. Phase(c) = "closed"
  BY <1>1, <1>5, PhaseIs
<1>7. Phase(c)' = "open"
  <2>1. ~Ended(c)'
    BY <1>1, <1>2, <1>3, <1>4 DEF Ended, TypeOK
  <2> QED
    BY <1>1, <1>2, <1>5, <2>1, PhaseBecomes DEF Created, coinVars
<1>8. \A d \in Denoms \ {c} : Phase(d)' = Phase(d)
  BY <1>1, <1>2, PhaseFrame DEF TypeOK, coinVars
<1>9. Phases' = [Phases EXCEPT ![c] = "open"]
  BY <1>7, <1>8, PhaseUpdate
<1>10. Ledger!Reopen(c, end)
  BY <1>1, <1>2, <1>4, <1>6, <1>9
  DEF Ledger!Reopen, Ledger!OpensUntil, Ledger!Enters, Phases
<1> QED
  BY <1>3, <1>10

\* launch_shitcoin launches a presale that is over, and never an empty one.
LEMMA LaunchLaunches ==
    ASSUME Inductive, ~DexAcceptsEmptySide,
           NEW u \in Users, NEW c \in Denoms, NEW x \in Attachments,
           LaunchShitcoin(u, c, x)
    PROVE  Ledger!Launch(c)
<1>1. /\ TypeOK /\ Created(c) /\ Ended(c) /\ ~shitcoin_launched[c] /\ presale_raise[c] > 0
      /\ shitcoin_launched' = [shitcoin_launched EXCEPT ![c] = TRUE]
      /\ UNCHANGED <<now, coinVars, presale_end, presale_raise, presale_submission,
                     presale_claimed>>
  BY DEF Inductive, LaunchShitcoin, CanLaunch, CanProvide, ProvideLiquidity
<1>2. Phase(c) = "closed"
  BY <1>1, PhaseIs
<1>3. Phase(c)' = "launched"
  <2>1. Created(c)' /\ shitcoin_launched'[c]
    BY <1>1 DEF Created, coinVars, TypeOK
  <2> QED
    BY <2>1, PhaseBecomes
<1>4. \A d \in Denoms \ {c} : Phase(d)' = Phase(d)
  BY <1>1, PhaseFrame DEF TypeOK, coinVars
<1>5. Phases' = [Phases EXCEPT ![c] = "launched"]
  BY <1>3, <1>4, PhaseUpdate
<1> QED
  BY <1>1, <1>2, <1>5 DEF Ledger!Launch, Ledger!Enters, Phases

\* claim_shitcoin adds one degen to those who have claimed a launched coin.
LEMMA ClaimClaims ==
    ASSUME Inductive, NEW u \in Users, NEW c \in Denoms, NEW x \in Attachments,
           ClaimShitcoin(u, c, x)
    PROVE  Ledger!Claim(c, u)
<1>1. /\ TypeOK /\ Created(c) /\ shitcoin_launched[c] /\ ~presale_claimed[c][u]
      /\ presale_submission[c][u] > 0
      /\ presale_claimed' = [presale_claimed EXCEPT ![c][u] = TRUE]
      /\ UNCHANGED <<now, coinVars, shitcoin_launched, presale_end, presale_raise,
                     presale_submission>>
  BY DEF Inductive, ClaimShitcoin, CanClaim, MarkClaimed
<1>2. Phase(c) = "launched"
  BY <1>1, PhaseIs
<1>3. Phases' = Phases
  BY <1>1, PhaseFrame DEF Phases, coinVars
<1>4. Claimants' = [Claimants EXCEPT ![c] = @ \cup {u}]
  <2>1. ASSUME NEW d \in Denoms
        PROVE  {g \in Users : presale_claimed'[d][g]} =
                  IF d = c THEN {g \in Users : presale_claimed[d][g]} \cup {u}
                  ELSE {g \in Users : presale_claimed[d][g]}
    BY <1>1 DEF TypeOK
  <2> QED
    BY <2>1 DEF Claimants
<1> QED
  BY <1>1, <1>2, <1>3, <1>4 DEF Ledger!Claim, Phases, Claimants

\* A later block closes every presale whose end it reaches, and no other.
LEMMA TickCloses ==
    ASSUME Inductive, Tick
    PROVE  \E due \in SUBSET Denoms : Ledger!Close(due)
<1> DEFINE due == {d \in Denoms : Phase(d) = "open" /\ Ended(d)'}
<1>1. /\ TypeOK /\ now \in Nat /\ now' = now + 1
      /\ UNCHANGED <<coinVars, saleVars>>
  BY DEF Inductive, Tick, TypeOK
<1>2. ASSUME NEW d \in Denoms
      PROVE  Phase(d)' = IF d \in due THEN "closed" ELSE Phase(d)
  <2>1. /\ Created(d)' <=> Created(d)
        /\ shitcoin_launched'[d] = shitcoin_launched[d]
        /\ Ended(d) => Ended(d)'
    BY <1>1, AmountsAssumption DEF Created, Ended, coinVars, saleVars, TypeOK
  <2>2. CASE ~Created(d) \/ shitcoin_launched[d]
    BY <2>1, <2>2, PhaseIs, PhaseBecomes
  <2>3. CASE Created(d) /\ ~shitcoin_launched[d]
    BY <2>1, <2>3, PhaseIs, PhaseBecomes
  <2> QED
    BY <2>2, <2>3
<1>3. Phases' = [d \in Denoms |-> IF d \in due THEN "closed" ELSE Phases[d]]
  BY <1>2 DEF Phases
<1>4. \A d \in due : Phases[d] = "open"
  BY DEF Phases
<1> HIDE DEF due
<1>5. Ledger!Close(due)
  BY <1>1, <1>3, <1>4 DEF Ledger!Close, Phases, saleVars
<1> QED
  BY <1>5 DEF due

\* The url and the metadata are none of the ledger's business.
LEMMA UrlStutters ==
    ASSUME UNCHANGED <<now, coinVars, saleVars>>
    PROVE  UNCHANGED Ledger!ledger
<1>1. Phases' = Phases
  BY PhaseFrame DEF Phases, coinVars, saleVars
<1>2. Claimants' = Claimants
  BY DEF Claimants, saleVars
<1> QED
  BY <1>1, <1>2 DEF Ledger!ledger, Phases, Claimants, saleVars

\* The contract starts where the ledger does.
LEMMA LedgerInit == Init => Ledger!Init
<1> SUFFICES ASSUME Init PROVE Ledger!Init
  OBVIOUS
<1>1. \A d \in Denoms : Phase(d) = "none"
  BY PhaseIs DEF Init, Created
<1>2. Claimants = [d \in Denoms |-> {}]
  BY DEF Claimants, Init
<1> QED
  BY <1>1, <1>2 DEF Init, Ledger!Init, Claimants

\* With a dex that refuses an empty side every transaction of the contract is
\* one step of the ledger, and a url none.
LEMMA LedgerStep ==
    ASSUME Inductive, config \in InstantiateMsgs, ~DexAcceptsEmptySide, [Next]_vars
    PROVE  [Ledger!Next]_(Ledger!ledger)
<1>1. ASSUME NEW u \in Users, NEW t \in Tickers, NEW s \in Supplies, NEW f \in Funds,
             CreateShitcoin(u, t, s, f)
      PROVE  Ledger!Next
  <2>1. DenomOf[t] \in Denoms
    BY NamesAssumption
  <2> QED
    BY <1>1, <2>1, CreatePlants DEF Ledger!Next
<1>2. ASSUME NEW u \in Users, NEW c \in Denoms, NEW f \in Funds, EnterPresale(u, c, f)
      PROVE  Ledger!Next
  BY <1>2, EnterContributes DEF Ledger!Next
<1>3. ASSUME NEW u \in Users, NEW c \in Denoms, NEW x \in Attachments,
             ExtendPresale(u, c, x) PROVE Ledger!Next
  BY <1>3, ExtendReopens DEF Ledger!Next
<1>4. ASSUME NEW u \in Users, NEW c \in Denoms, NEW x \in Attachments,
             LaunchShitcoin(u, c, x) PROVE Ledger!Next
  BY <1>4, LaunchLaunches DEF Ledger!Next
<1>5. ASSUME NEW u \in Users, NEW c \in Denoms, NEW x \in Attachments,
             ClaimShitcoin(u, c, x) PROVE Ledger!Next
  BY <1>5, ClaimClaims DEF Ledger!Next
<1>6. ASSUME NEW u \in Users, NEW c \in Denoms, NEW url \in Urls, NEW x \in Attachments,
             SetShitcoinUrl(u, c, url, x)
      PROVE  UNCHANGED Ledger!ledger
  BY <1>6, UrlStutters DEF SetShitcoinUrl
<1>7. CASE Tick
  BY <1>7, TickCloses DEF Ledger!Next
<1>8. CASE UNCHANGED vars
  BY <1>8, UrlStutters DEF vars
<1> QED
  BY <1>1, <1>2, <1>3, <1>4, <1>5, <1>6, <1>7, <1>8 DEF Next

\* With a dex that refuses an empty side the contract implements the presales
\* of PresaleLedger: what users may rely on is what that module says.
THEOREM ContractImplementsLedger ==
    ASSUME ~DexAcceptsEmptySide
    PROVE  Spec => ImplementsLedger
<1>1. Init => config \in InstantiateMsgs
  BY DEF Init
<1>2. config \in InstantiateMsgs /\ [Next]_vars => (config \in InstantiateMsgs)'
  BY DEF Next, CreateShitcoin, EnterPresale, ExtendPresale, LaunchShitcoin, ClaimShitcoin,
         SetShitcoinUrl, Tick, vars
<1>3. Spec => [](config \in InstantiateMsgs)
  BY <1>1, <1>2, PTL DEF Spec
<1>4. Inductive /\ config \in InstantiateMsgs /\ [Next]_vars => [Ledger!Next]_(Ledger!ledger)
  BY LedgerStep
<1> QED
  BY <1>3, <1>4, LedgerInit, InductiveHolds, PTL DEF Spec, ImplementsLedger, Ledger!Spec
-----------------------------------------------------------------------------
(***************************************************************************)
(* The metadata.                                                           *)
(***************************************************************************)

\* Nobody sets the url of a coin that was not created.
NoUrlBeforeCreate == \A d \in Denoms : ~Created(d) => shitcoin_url[d] = None

\* A created coin starts with the empty url its metadata is given, because
\* nothing was stored under its key before.
LEMMA MetadataStep ==
    ASSUME Inductive, NoUrlBeforeCreate, MetadataMirrorsState, [Next]_vars
    PROVE  NoUrlBeforeCreate' /\ MetadataMirrorsState'
<1>0. TypeOK /\ ListedOnce
  BY DEF Inductive
<1>1. ASSUME NEW u \in Users, NEW t \in Tickers, NEW s \in Supplies, NEW f \in Funds,
             CreateShitcoin(u, t, s, f)
      PROVE  NoUrlBeforeCreate' /\ MetadataMirrorsState'
  <2> DEFINE new == DenomOf[t]
  <2>1. /\ new \in Denoms /\ ~Created(new)
        /\ \A d \in Denoms : Created(d)' <=> (d = new \/ Created(d))
    BY <1>0, <1>1, RegistryCreate
  <2>2. /\ shitcoin_url' = shitcoin_url
        /\ shitcoin_ticker' = [shitcoin_ticker EXCEPT ![new] = t]
        /\ denom_metadata' = [denom_metadata EXCEPT ![new] = [symbol |-> t, uri |-> None]]
    BY <1>1 DEF CreateShitcoin, SetDenomMetadata
  <2> HIDE DEF new
  <2> QED
    BY <1>0, <2>1, <2>2 DEF NoUrlBeforeCreate, MetadataMirrorsState, TypeOK
<1>2. ASSUME NEW u \in Users, NEW c \in Denoms, NEW url \in Urls, NEW x \in Attachments,
             SetShitcoinUrl(u, c, url, x)
      PROVE  NoUrlBeforeCreate' /\ MetadataMirrorsState'
  <2>1. Created(c) /\ \A d \in Denoms : Created(d)' <=> Created(d)
    BY <1>2, NamesAssumption DEF SetShitcoinUrl, Created, coinVars
  <2>2. /\ shitcoin_url' = [shitcoin_url EXCEPT ![c] = url]
        /\ shitcoin_ticker' = shitcoin_ticker
        /\ denom_metadata' =
              [denom_metadata EXCEPT ![c] = [symbol |-> shitcoin_ticker[c], uri |-> url]]
    BY <1>2 DEF SetShitcoinUrl, SetDenomMetadata, coinVars
  <2> QED
    BY <1>0, <2>1, <2>2 DEF NoUrlBeforeCreate, MetadataMirrorsState, TypeOK
<1>3. ASSUME UNCHANGED <<coinVars, urlVars>>
      PROVE  NoUrlBeforeCreate' /\ MetadataMirrorsState'
  BY <1>3 DEF NoUrlBeforeCreate, MetadataMirrorsState, Created, coinVars, urlVars
<1> QED
  BY <1>1, <1>2, <1>3
  DEF Next, EnterPresale, ExtendPresale, LaunchShitcoin, ClaimShitcoin, Tick, vars

\* What the chain's metadata says of a coin is what the contract's keys say,
\* whichever of the two handlers wrote it last.
THEOREM MetadataFollowsKeys == Spec => []MetadataMirrorsState
<1>1. Init => NoUrlBeforeCreate /\ MetadataMirrorsState
  BY DEF Init, NoUrlBeforeCreate, MetadataMirrorsState, Created
<1>2. Inductive /\ NoUrlBeforeCreate /\ MetadataMirrorsState /\ [Next]_vars
        => (NoUrlBeforeCreate /\ MetadataMirrorsState)'
  BY MetadataStep
<1> QED
  BY <1>1, <1>2, InductiveHolds, PTL DEF Spec
=============================================================================
