------------------------- MODULE GardenFundsProofs -------------------------
(***************************************************************************)
(* Theorems about the money and the coins the contract keeps: sums over    *)
(* all degens and all presales, for any number of them.  The last part is  *)
(* about what truncation leaves in the contract: the claims of a coin take *)
(* all of the shared half but less than one unit for each degen.           *)
(***************************************************************************)
EXTENDS GardenProofs, TotalProofs

(***************************************************************************)
(* The raise is the sum of the submissions.                                *)
(***************************************************************************)

\* Before any presale both sides are zero.
LEMMA AddUpInit == Init => SubmissionsAddUp
<1> SUFFICES ASSUME Init, NEW d \in Denoms
             PROVE  Total(presale_submission[d], Users) = presale_raise[d]
  BY DEF SubmissionsAddUp
<1>1. \A g \in Users : presale_submission[d][g] = 0
  BY DEF Init
<1>2. presale_raise[d] = 0
  BY DEF Init
<1> QED
  BY <1>1, <1>2, TotalZero, FiniteAssumption

\* enter_presale adds one amount to both keys, and nothing else moves either.
LEMMA AddUpStep ==
    ASSUME TypeOK, ListedOnce, NothingBeforeCreate, SubmissionsAddUp, [Next]_vars
    PROVE  SubmissionsAddUp'
<1>1. ASSUME NEW u \in Users, NEW t \in Tickers, NEW s \in Supplies, NEW f \in Funds,
             CreateShitcoin(u, t, s, f)
      PROVE  SubmissionsAddUp'
  <2>1. DenomOf[t] \in Denoms /\ presale_raise[DenomOf[t]] = 0
    BY <1>1, RegistryCreate DEF NothingBeforeCreate
  <2>2. /\ presale_submission' = presale_submission
        /\ presale_raise' = [presale_raise EXCEPT ![DenomOf[t]] = 0]
    BY <1>1 DEF CreateShitcoin
  <2>3. presale_raise' = presale_raise
    BY <2>1, <2>2 DEF TypeOK
  <2> QED
    BY <2>2, <2>3 DEF SubmissionsAddUp
<1>2. ASSUME NEW u \in Users, NEW c \in Denoms, NEW f \in Funds, EnterPresale(u, c, f)
      PROVE  SubmissionsAddUp'
  <2> DEFINE submission == Submission(f.amount, config.presale_fee_rate)
  <2>1. /\ submission \in Nat
        /\ presale_raise' = [presale_raise EXCEPT ![c] = @ + submission]
        /\ presale_submission' = [presale_submission EXCEPT ![c][u] = @ + submission]
    BY <1>2, EnterFigures
  <2> HIDE DEF submission
  <2> SUFFICES ASSUME NEW d \in Denoms
               PROVE  Total(presale_submission'[d], Users) = presale_raise'[d]
    BY DEF SubmissionsAddUp
  <2>2. Total(presale_submission[d], Users) = presale_raise[d] /\ presale_raise[d] \in Nat
    BY AmountsAssumption DEF SubmissionsAddUp, TypeOK
  <2>3. CASE d # c
    BY <2>1, <2>2, <2>3 DEF TypeOK
  <2>4. CASE d = c
    <3> DEFINE old == presale_submission[c]
               new == presale_submission'[c]
    <3>1. /\ \A g \in Users : old[g] \in Nat /\ new[g] \in Nat
          /\ \A g \in Users : g # u => new[g] = old[g]
          /\ new[u] = old[u] + submission
      BY <2>1 DEF TypeOK
    <3> HIDE DEF old, new
    <3>2. Total(new, Users) + old[u] = Total(old, Users) + new[u]
      BY <3>1, TotalUpdate, FiniteAssumption
    <3>3. Total(new, Users) \in Nat
      BY <3>1, TotalType, FiniteAssumption
    <3>4. Total(new, Users) = Total(old, Users) + submission
      BY <2>1, <2>2, <2>4, <3>1, <3>2, <3>3 DEF old
    <3>5. presale_raise'[c] = presale_raise[c] + submission
      BY <2>1 DEF TypeOK
    <3> QED
      BY <2>2, <2>4, <3>4, <3>5 DEF old, new
  <2> QED
    BY <2>3, <2>4
<1>3. CASE \/ \E u \in Users, d \in Denoms, x \in Attachments :
                 ExtendPresale(u, d, x) \/ LaunchShitcoin(u, d, x)
           \/ \E u \in Users, d \in Denoms, x \in Attachments : ClaimShitcoin(u, d, x)
           \/ \E u \in Users, d \in Denoms, x \in Attachments, url \in Urls :
                 SetShitcoinUrl(u, d, url, x)
           \/ Tick
           \/ UNCHANGED vars
  BY <1>3 DEF ExtendPresale, LaunchShitcoin, ClaimShitcoin, SetShitcoinUrl, Tick, vars,
              SubmissionsAddUp, saleVars
<1> QED
  BY <1>1, <1>2, <1>3 DEF Next

\* For any number of degens, the raise the contract keeps for a presale is the
\* sum of what it keeps for each degen: the two keys enter_presale writes never
\* drift apart, and create_shitcoin's reset of the raise loses nothing.
THEOREM RaiseIsSumOfSubmissions == Spec => []SubmissionsAddUp
<1>1. Inductive /\ SubmissionsAddUp /\ [Next]_vars => SubmissionsAddUp'
  BY AddUpStep DEF Inductive
<1> QED
  BY <1>1, AddUpInit, InductiveHolds, PTL DEF Spec

-----------------------------------------------------------------------------
(***************************************************************************)
(* The escrow.                                                             *)
(***************************************************************************)

\* What the contract owes to the presales it has not launched.
Owed == [d \in Denoms |-> IF shitcoin_launched[d] THEN 0 ELSE presale_raise[d]]

\* EscrowBacksPresales in terms of Owed.
LEMMA EscrowByDenom ==
    EscrowBacksPresales <=>
        \A k \in NativeDenoms : bank[Garden][k] =
            kept[k] + IF k = config.presale_denom THEN Total(Owed, Denoms) ELSE 0
BY DEF EscrowBacksPresales, Owed

\* What is owed to a presale is a natural number.
LEMMA OwedType == TypeOK => \A d \in Denoms : Owed[d] \in Nat
BY AmountsAssumption DEF TypeOK, Owed

\* Before any presale the contract holds nothing.
LEMMA EscrowInit == Init => EscrowBacksPresales
<1> SUFFICES ASSUME Init PROVE EscrowBacksPresales
  OBVIOUS
<1>1. \A d \in Denoms : Owed[d] = 0
  BY DEF Init, Owed
<1>2. Total(Owed, Denoms) = 0
  BY <1>1, TotalZero, FiniteAssumption
<1>3. \A k \in NativeDenoms : bank[Garden][k] = 0 /\ kept[k] = 0
  BY NamesAssumption DEF Init, Accounts, AllDenoms
<1> QED
  BY <1>2, <1>3, EscrowByDenom

\* The one-coin case: when what is owed to one presale, or what was attached,
\* changes and the escrow with it, the sum over all of them still is what the
\* contract holds.
LEMMA EscrowUpdate ==
    ASSUME TypeOK, TypeOK', EscrowBacksPresales, config' = config,
           NEW c \in Denoms,
           \A d \in Denoms : d # c => Owed'[d] = Owed[d],
           bank'[Garden][config.presale_denom] + Owed[c] + kept[config.presale_denom] =
               bank[Garden][config.presale_denom] + Owed'[c] + kept'[config.presale_denom],
           \A k \in NativeDenoms : k # config.presale_denom =>
               bank'[Garden][k] + kept[k] = bank[Garden][k] + kept'[k]
    PROVE  EscrowBacksPresales'
<1> DEFINE k == config.presale_denom
           old == Owed
           new == Owed'
<1>1. \A d \in Denoms : old[d] \in Nat /\ new[d] \in Nat
  BY OwedType, AmountsAssumption DEF TypeOK, Owed
<1>2. /\ k \in NativeDenoms
      /\ \A j \in NativeDenoms : /\ bank[Garden][j] \in Nat /\ bank'[Garden][j] \in Nat
                                 /\ kept[j] \in Nat /\ kept'[j] \in Nat
  <2>1. k \in NativeDenoms
    BY DEF TypeOK, ConfigType
  <2>2. bank \in BankType /\ bank' \in BankType
    BY DEF TypeOK, BankType
  <2>3. \A j \in NativeDenoms : kept[j] \in Nat /\ kept'[j] \in Nat
    BY DEF TypeOK
  <2> QED
    BY <2>1, <2>2, <2>3 DEF BankType, Accounts, AllDenoms
<1>3. /\ bank[Garden][k] = kept[k] + Total(old, Denoms)
      /\ \A j \in NativeDenoms : j # k => bank[Garden][j] = kept[j]
  <2>1. \A j \in NativeDenoms :
           bank[Garden][j] = kept[j] + IF j = k THEN Total(old, Denoms) ELSE 0
    BY EscrowByDenom
  <2> QED
    BY <1>2, <2>1
<1>4. \A d \in Denoms : d # c => new[d] = old[d]
  OBVIOUS
<1>5. /\ bank'[Garden][k] + old[c] + kept[k] = bank[Garden][k] + new[c] + kept'[k]
      /\ \A j \in NativeDenoms : j # k =>
            bank'[Garden][j] + kept[j] = bank[Garden][j] + kept'[j]
  OBVIOUS
<1> HIDE DEF old, new, k
<1>6. Total(new, Denoms) + old[c] = Total(old, Denoms) + new[c]
  BY <1>1, <1>4, TotalUpdate, FiniteAssumption
<1>7. Total(new, Denoms) \in Nat /\ Total(old, Denoms) \in Nat
  BY <1>1, TotalType, FiniteAssumption
<1>8. bank'[Garden][k] = kept'[k] + Total(new, Denoms)
  BY <1>1, <1>2, <1>3, <1>5, <1>6, <1>7
<1>9. \A j \in NativeDenoms : j # k => bank'[Garden][j] = kept'[j]
  <2> SUFFICES ASSUME NEW j \in NativeDenoms, j # k PROVE bank'[Garden][j] = kept'[j]
    OBVIOUS
  <2> QED
    BY <1>2, <1>3, <1>5
<1>10. \A j \in NativeDenoms :
          bank'[Garden][j] = kept'[j] + IF j = k THEN Total(new, Denoms) ELSE 0
  BY <1>2, <1>8, <1>9
<1> QED
  BY <1>10 DEF EscrowBacksPresales, Owed, new, k

\* Every transaction keeps the escrow equal to what is owed.
LEMMA EscrowStep ==
    ASSUME Inductive, EscrowBacksPresales, [Next]_vars, ~DexAcceptsEmptySide
    PROVE  EscrowBacksPresales'
<1>1. /\ TypeOK /\ TypeOK' /\ ListedOnce /\ NothingBeforeCreate
      /\ PairsFollowLaunch
  <2>1. Inductive'
    BY InductiveStep
  <2> QED
    BY <2>1 DEF Inductive
<1>2. /\ Garden \in Accounts /\ Garden \notin Users /\ Denoms \cap NativeDenoms = {}
      /\ AllDenoms = Denoms \cup NativeDenoms
      /\ config.presale_denom \in NativeDenoms
      /\ \A k \in AllDenoms : bank[Garden][k] \in Nat /\ bank'[Garden][k] \in Nat
      /\ \A k \in NativeDenoms : kept[k] \in Nat /\ kept'[k] \in Nat
  <2>1. config.presale_denom \in NativeDenoms
    BY <1>1 DEF TypeOK, ConfigType
  <2>2. /\ Garden \in Accounts
        /\ \A k \in AllDenoms : bank[Garden][k] \in Nat /\ bank'[Garden][k] \in Nat
        /\ \A k \in NativeDenoms : kept[k] \in Nat /\ kept'[k] \in Nat
    BY <1>1 DEF Accounts, TypeOK
  <2> QED
    BY <2>1, <2>2, NamesAssumption DEF AllDenoms
<1>3. ASSUME UNCHANGED <<config, shitcoin_launched, presale_raise>>,
             \A k \in NativeDenoms :
                bank'[Garden][k] + kept[k] = bank[Garden][k] + kept'[k]
      PROVE  EscrowBacksPresales'
  <2> DEFINE owed == [k \in NativeDenoms |->
                        IF k = config.presale_denom THEN Total(Owed, Denoms) ELSE 0]
  <2>1. Owed' = Owed
    BY <1>3 DEF Owed
  <2>2. \A k \in NativeDenoms : owed[k] \in Nat
    BY <1>1, OwedType, TotalType, FiniteAssumption
  <2>3. \A k \in NativeDenoms : bank[Garden][k] = kept[k] + owed[k]
    BY EscrowByDenom
  <2> HIDE DEF owed
  <2>4. \A k \in NativeDenoms : bank'[Garden][k] = kept'[k] + owed[k]
    <3> SUFFICES ASSUME NEW k \in NativeDenoms PROVE bank'[Garden][k] = kept'[k] + owed[k]
      OBVIOUS
    <3> QED
      BY <1>2, <1>3, <2>2, <2>3
  <2> QED
    BY <1>3, <2>1, <2>4 DEF EscrowBacksPresales, Owed, owed
<1>4. ASSUME NEW u \in Users, NEW x \in Attachments, Keep(u, x),
             \A k \in NativeDenoms : bank'[Garden][k] = Attached(u, x)[Garden][k]
      PROVE  \A k \in NativeDenoms :
                bank'[Garden][k] + kept[k] = bank[Garden][k] + kept'[k]
  <2> DEFINE more == [k \in NativeDenoms |-> IF k = x.denom THEN x.amount ELSE 0]
  <2>1. /\ more \in [NativeDenoms -> Nat]
        /\ \A k \in NativeDenoms : bank'[Garden][k] = bank[Garden][k] + more[k]
        /\ \A k \in NativeDenoms : kept'[k] = kept[k] + more[k]
    BY <1>1, <1>4, AttachedBank
  <2> HIDE DEF more
  <2> QED
    BY <1>2, <2>1
<1>5. ASSUME NEW u \in Users, NEW t \in Tickers, NEW s \in Supplies, NEW f \in Funds,
             CreateShitcoin(u, t, s, f)
      PROVE  EscrowBacksPresales'
  <2>1. /\ DenomOf[t] \in Denoms
        /\ presale_raise[DenomOf[t]] = 0
    BY <1>1, <1>5, RegistryCreate DEF NothingBeforeCreate
  <2>2. UNCHANGED <<config, shitcoin_launched, presale_raise, kept>>
    BY <1>1, <1>5, <2>1 DEF CreateShitcoin, TypeOK
  <2>3. \A k \in NativeDenoms : bank'[Garden][k] = bank[Garden][k]
    <3>1. \A k \in AllDenoms : k # DenomOf[t] => bank'[Garden][k] = bank[Garden][k]
      BY <1>1, <1>5, CreateBank
    <3> QED
      BY <1>2, <2>1, <3>1
  <2>4. \A k \in NativeDenoms : bank'[Garden][k] + kept[k] = bank[Garden][k] + kept'[k]
    BY <2>2, <2>3
  <2> QED
    BY <1>3, <2>2, <2>4
<1>6. ASSUME NEW u \in Users, NEW c \in Denoms, NEW f \in Funds, EnterPresale(u, c, f)
      PROVE  EscrowBacksPresales'
  <2> DEFINE submission == Submission(f.amount, config.presale_fee_rate)
             k == config.presale_denom
  <2>1. /\ submission \in Nat
        /\ bank'[Garden][k] = bank[Garden][k] + submission
        /\ \A a \in Accounts, j \in AllDenoms : j # k => bank'[a][j] = bank[a][j]
    BY <1>1, <1>6, EnterBank
  <2>2. /\ Created(c) /\ ~Ended(c)
        /\ presale_raise' = [presale_raise EXCEPT ![c] = @ + submission]
    BY <1>1, <1>6, EnterFigures
  <2>3. ~shitcoin_launched[c]
    BY <1>1, <2>2 DEF PairsFollowLaunch
  <2>4. UNCHANGED <<config, shitcoin_launched, kept>>
    BY <1>6 DEF EnterPresale
  <2> HIDE DEF submission
  <2>5. /\ Owed[c] = presale_raise[c] /\ Owed'[c] = presale_raise[c] + submission
        /\ \A d \in Denoms : d # c => Owed'[d] = Owed[d]
    BY <1>1, <2>2, <2>3, <2>4 DEF Owed, TypeOK
  <2>6. presale_raise[c] \in Nat
    BY <1>1, AmountsAssumption DEF TypeOK
  <2>7. bank'[Garden][k] + Owed[c] + kept[k] = bank[Garden][k] + Owed'[c] + kept'[k]
    BY <1>2, <2>1, <2>4, <2>5, <2>6
  <2>8. \A j \in NativeDenoms : j # k =>
           bank'[Garden][j] + kept[j] = bank[Garden][j] + kept'[j]
    BY <1>2, <2>1, <2>4
  <2> QED
    BY <1>1, <2>4, <2>5, <2>7, <2>8, EscrowUpdate
<1>7. ASSUME NEW u \in Users, NEW c \in Denoms, NEW x \in Attachments,
             LaunchShitcoin(u, c, x)
      PROVE  EscrowBacksPresales'
  <2> DEFINE k == config.presale_denom
             more == [j \in NativeDenoms |-> IF j = x.denom THEN x.amount ELSE 0]
             raise == presale_raise[c]
  <2>1. /\ ~shitcoin_launched[c]
        /\ shitcoin_launched' = [shitcoin_launched EXCEPT ![c] = TRUE]
        /\ UNCHANGED <<config, presale_raise>>
        /\ Keep(u, x)
    BY <1>7 DEF LaunchShitcoin, CanLaunch
  <2>2. /\ more \in [NativeDenoms -> Nat]
        /\ \A j \in NativeDenoms : kept'[j] = kept[j] + more[j]
    BY <1>1, <2>1, AttachedBank
  <2>3. \A j \in NativeDenoms :
           bank'[Garden][j] = bank[Garden][j] + more[j] - (IF j = k THEN raise ELSE 0)
    BY <1>1, <1>7, LaunchBank
  <2>4. /\ Owed[c] = raise /\ Owed'[c] = 0
        /\ \A d \in Denoms : d # c => Owed'[d] = Owed[d]
    BY <1>1, <2>1 DEF Owed, TypeOK
  <2>5. raise \in Nat
    BY <1>1, AmountsAssumption DEF TypeOK
  <2> HIDE DEF more, raise
  <2>6. bank'[Garden][k] + Owed[c] + kept[k] = bank[Garden][k] + Owed'[c] + kept'[k]
    BY <1>2, <2>2, <2>3, <2>4, <2>5
  <2>7. \A j \in NativeDenoms : j # k =>
           bank'[Garden][j] + kept[j] = bank[Garden][j] + kept'[j]
    BY <1>2, <2>2, <2>3
  <2> QED
    BY <1>1, <2>1, <2>4, <2>6, <2>7, EscrowUpdate
<1>8. ASSUME NEW u \in Users, NEW c \in Denoms, NEW x \in Attachments,
             ClaimShitcoin(u, c, x)
      PROVE  EscrowBacksPresales'
  <2>1. /\ bank' = Send(Attached(u, x), Garden, u, c, Share(c, u))
        /\ Keep(u, x)
        /\ UNCHANGED <<config, shitcoin_launched, presale_raise>>
    BY <1>8 DEF ClaimShitcoin
  <2>2. \A j \in NativeDenoms : j # c
    BY <1>2
  <2>3. \A j \in NativeDenoms : bank'[Garden][j] = Attached(u, x)[Garden][j]
    <3>1. Attached(u, x) \in BankType
      BY <1>1, <2>1, AttachedBank
    <3> QED
      BY <1>2, <2>1, <2>2, <3>1 DEF Send, BankType
  <2> QED
    BY <1>1, <1>3, <1>4, <2>1, <2>3
<1>9. CASE \/ \E u \in Users, d \in Denoms, x \in Attachments : ExtendPresale(u, d, x)
           \/ \E u \in Users, d \in Denoms, x \in Attachments, url \in Urls :
                 SetShitcoinUrl(u, d, url, x)
  <2>1. PICK u \in Users, x \in Attachments :
           /\ bank' = Attached(u, x) /\ Keep(u, x)
           /\ UNCHANGED <<config, shitcoin_launched, presale_raise>>
    BY <1>9 DEF ExtendPresale, SetShitcoinUrl, saleVars
  <2> QED
    BY <1>3, <1>4, <2>1
<1>10. CASE Tick \/ UNCHANGED vars
  <2>1. UNCHANGED <<config, shitcoin_launched, presale_raise, bank, kept>>
    BY <1>10 DEF Tick, vars, saleVars, chainVars
  <2> QED
    BY <1>3, <2>1
<1> QED
  BY <1>5, <1>6, <1>7, <1>8, <1>9, <1>10 DEF Next

\* For any number of coins: the one account that holds the funds of every open
\* presale holds what they have raised, to the unit, beside what was attached to
\* messages that ask for nothing, and no fee is left in it.
\* It takes a dex that refuses an empty side: with one that does not, a coin
\* can be launched empty, extended and entered, and that raise is stuck.
THEOREM EscrowHolds ==
    ASSUME ~DexAcceptsEmptySide
    PROVE  Spec => []EscrowBacksPresales
<1>1. Inductive /\ EscrowBacksPresales /\ [Next]_vars => EscrowBacksPresales'
  BY EscrowStep
<1> QED
  BY <1>1, EscrowInit, InductiveHolds, PTL DEF Spec

-----------------------------------------------------------------------------
(***************************************************************************)
(* The coins: what the contract holds of each covers what it has promised. *)
(***************************************************************************)

\* What is true of the balances of one coin at each stage of its life.  Before
\* it is created nobody has it; until the launch the contract has the whole
\* supply and nobody has claimed; afterwards the contract has at least what is
\* unclaimed and each degen has what it claimed.
CoinBacked(d) ==
    /\ ~Created(d) => bank[Garden][d] = 0
    /\ ~shitcoin_launched[d] => \A g \in Users : ~presale_claimed[d][g]
    /\ \A g \in Users :
          bank[g][d] = IF presale_claimed[d][g] THEN Share(d, g) ELSE 0
    /\ Created(d) => IF shitcoin_launched[d]
                     THEN Total(Unclaimed(d), Users) <= bank[Garden][d]
                     ELSE bank[Garden][d] = shitcoin_supply[d]

CoinsBacked == \A d \in Denoms : CoinBacked(d)

\* Before any create nobody has a coin.
LEMMA CoinsInit == Init => CoinsBacked
<1> SUFFICES ASSUME Init, NEW d \in Denoms PROVE CoinBacked(d)
  BY DEF CoinsBacked
<1>1. ~Created(d) /\ \A g \in Users : ~presale_claimed[d][g]
  BY DEF Init, Created
<1>2. \A a \in Accounts : bank[a][d] = 0
  BY NamesAssumption DEF Init, AllDenoms
<1> QED
  BY <1>1, <1>2 DEF CoinBacked, Accounts

\* A step that moves neither the coin nor what its shares are worked out from.
LEMMA CoinFrame ==
    ASSUME NEW d \in Denoms, CoinBacked(d),
           Created(d)' <=> Created(d),
           shitcoin_launched'[d] = shitcoin_launched[d],
           shitcoin_supply'[d] = shitcoin_supply[d],
           presale_claimed'[d] = presale_claimed[d],
           shitcoin_launched[d] => /\ presale_raise'[d] = presale_raise[d]
                                   /\ presale_submission'[d] = presale_submission[d],
           \A a \in Accounts : bank'[a][d] = bank[a][d]
    PROVE  CoinBacked(d)'
<1>1. \A g \in Users : bank'[g][d] = bank[g][d]
  BY DEF Accounts
<1>2. bank'[Garden][d] = bank[Garden][d]
  BY DEF Accounts
<1>3. CASE ~shitcoin_launched[d]
  BY <1>1, <1>2, <1>3 DEF CoinBacked
<1>4. CASE shitcoin_launched[d]
  <2>1. \A g \in Users : Share(d, g)' = Share(d, g)
    BY <1>4 DEF Share
  <2>2. Unclaimed(d)' = Unclaimed(d)
    BY <1>4, <2>1 DEF Unclaimed
  <2> QED
    BY <1>1, <1>2, <1>4, <2>1, <2>2 DEF CoinBacked
<1> QED
  BY <1>3, <1>4

\* The shares of a coin at its launch fit in the half that is not pooled.
LEMMA UnclaimedFits ==
    ASSUME TypeOK, NEW d \in Denoms, Total(presale_submission[d], Users) = presale_raise[d],
           presale_raise[d] > 0
    PROVE  Total(Unclaimed(d), Users) <= Half(shitcoin_supply[d])
<1> DEFINE half == Half(shitcoin_supply[d])
           raise == presale_raise[d]
           sub == presale_submission[d]
           q == [g \in Users |-> Claimable(half, sub[g], raise)]
           un == Unclaimed(d)
<1>1. half \in Nat /\ raise \in Nat \ {0} /\ \A g \in Users : sub[g] \in Nat
  <2>1. half \in Nat
    BY HalfBounds, AmountsAssumption DEF TypeOK
  <2>2. raise \in Nat
    BY AmountsAssumption DEF TypeOK
  <2>3. \A g \in Users : sub[g] \in Nat
    BY DEF TypeOK
  <2> QED
    BY <2>1, <2>2, <2>3
<1>2. \A g \in Users : un[g] = 0 \/ un[g] = q[g]
  BY DEF Unclaimed, Share
<1>3. \A g \in Users : q[g] \in Nat
  BY ShareType DEF Share
<1> HIDE DEF half, sub, raise, un
<1>4. Total(q, Users) <= half
  BY <1>1, SharesFit, FiniteAssumption DEF sub, raise
<1> HIDE DEF q
<1>5. \A g \in Users : un[g] \in Nat /\ q[g] \in Nat /\ 1 * un[g] <= 1 * q[g]
  BY <1>2, <1>3
<1>6. 1 * Total(un, Users) <= 1 * Total(q, Users)
  BY <1>5, TotalScaled, FiniteAssumption
<1>7. Total(un, Users) \in Nat /\ Total(q, Users) \in Nat
  BY <1>5, TotalType, FiniteAssumption
<1> QED
  BY <1>1, <1>4, <1>6, <1>7 DEF half, un

\* Every transaction keeps every coin backed.
LEMMA CoinsStep ==
    ASSUME Inductive, SubmissionsAddUp, CoinsBacked, [Next]_vars, ~DexAcceptsEmptySide,
           NEW d \in Denoms
    PROVE  CoinBacked(d)'
<1>1. /\ TypeOK /\ ListedOnce /\ NothingBeforeCreate
      /\ PairsFollowLaunch /\ CoinBacked(d)
  BY DEF Inductive, CoinsBacked
<1>2. shitcoin_launched[d] => /\ presale_raise'[d] = presale_raise[d]
                              /\ presale_submission'[d] = presale_submission[d]
  BY LaunchFrozen
<1>3. /\ Garden \in Accounts /\ Garden \notin Users /\ Accounts = Users \cup {Garden}
      /\ d \in AllDenoms /\ config.presale_denom # d
      /\ \A a \in Accounts : bank[a][d] \in Nat
  <2>1. config.presale_denom \in NativeDenoms
    BY <1>1 DEF TypeOK, ConfigType
  <2>2. d \in AllDenoms
    BY DEF AllDenoms
  <2>3. \A a \in Accounts : bank[a][d] \in Nat
    BY <1>1, <2>2 DEF TypeOK
  <2> QED
    BY <2>1, <2>2, <2>3, NamesAssumption DEF Accounts
<1>4. ASSUME NEW u \in Users, NEW t \in Tickers, NEW s \in Supplies, NEW f \in Funds,
             CreateShitcoin(u, t, s, f)
      PROVE  CoinBacked(d)'
  <2> DEFINE new == DenomOf[t]
             total == s * Micro
  <2>1. /\ new \in Denoms /\ ~Created(new)
        /\ Created(d)' <=> (d = new \/ Created(d))
    BY <1>1, <1>4, RegistryCreate
  <2>2. /\ bank'[Garden][d] = IF d = new THEN bank[Garden][d] + total ELSE bank[Garden][d]
        /\ \A a \in Users : bank'[a][d] = bank[a][d]
        /\ total \in Nat
    BY <1>1, <1>3, <1>4, CreateBank
  <2>3. /\ shitcoin_supply' = [shitcoin_supply EXCEPT ![new] = total]
        /\ UNCHANGED <<shitcoin_launched, presale_claimed>>
    BY <1>4 DEF CreateShitcoin
  <2> HIDE DEF new, total
  <2>4. CASE d = new
    <3>1. shitcoin_supply'[d] = total
      BY <1>1, <2>3, <2>4 DEF TypeOK
    <3>2. bank[Garden][d] = 0
      BY <1>1, <2>1, <2>4 DEF CoinBacked
    <3>3. bank'[Garden][d] = total
      BY <2>2, <2>4, <3>2
    <3>4. ~shitcoin_launched[d] /\ \A g \in Users : ~presale_claimed[d][g]
      BY <1>1, <2>1, <2>4 DEF NothingBeforeCreate
    <3>5. \A g \in Users : bank'[g][d] = 0
      BY <1>1, <2>2, <3>4 DEF CoinBacked
    <3> QED
      BY <2>1, <2>3, <2>4, <3>1, <3>3, <3>4, <3>5 DEF CoinBacked
  <2>5. CASE d # new
    <3>1. shitcoin_supply'[d] = shitcoin_supply[d]
      BY <1>1, <2>3, <2>5 DEF TypeOK
    <3>2. \A a \in Accounts : bank'[a][d] = bank[a][d]
      BY <1>3, <2>2, <2>5
    <3> QED
      BY <1>1, <1>2, <2>1, <2>3, <2>5, <3>1, <3>2, CoinFrame
  <2> QED
    BY <2>4, <2>5
<1>5. ASSUME NEW u \in Users, NEW c \in Denoms, NEW f \in Funds, EnterPresale(u, c, f)
      PROVE  CoinBacked(d)'
  <2>1. \A a \in Accounts : bank'[a][d] = bank[a][d]
    BY <1>1, <1>3, <1>5, EnterBank
  <2>2. UNCHANGED <<coinVars, shitcoin_launched, presale_claimed>>
    BY <1>5 DEF EnterPresale
  <2>3. Created(d)' <=> Created(d)
    BY <2>2 DEF Created, coinVars
  <2>4. shitcoin_supply'[d] = shitcoin_supply[d]
    BY <2>2 DEF coinVars
  <2> QED
    BY <1>1, <1>2, <2>1, <2>2, <2>3, <2>4, CoinFrame
<1>6. ASSUME NEW u \in Users, NEW c \in Denoms, NEW x \in Attachments,
             LaunchShitcoin(u, c, x)
      PROVE  CoinBacked(d)'
  <2> DEFINE half == Half(shitcoin_supply[c])
  <2>1. /\ Created(c) /\ ~shitcoin_launched[c]
        /\ shitcoin_launched' = [shitcoin_launched EXCEPT ![c] = TRUE]
        /\ UNCHANGED <<coinVars, presale_claimed, presale_raise, presale_submission>>
        /\ presale_raise[c] > 0
    BY <1>6 DEF LaunchShitcoin, CanLaunch, CanProvide
  <2>2. \A a \in Accounts :
           bank'[a][d] = IF a = Garden /\ d = c THEN bank[a][d] - half ELSE bank[a][d]
    BY <1>1, <1>3, <1>6, LaunchBank
  <2>3. /\ Created(d)' <=> Created(d)
        /\ shitcoin_supply'[d] = shitcoin_supply[d]
    BY <2>1 DEF Created, coinVars
  <2>4. CASE d # c
    <3>1. shitcoin_launched'[d] = shitcoin_launched[d]
      BY <1>1, <2>1, <2>4 DEF TypeOK
    <3>2. \A a \in Accounts : bank'[a][d] = bank[a][d]
      BY <2>2, <2>4
    <3> QED
      BY <1>1, <1>2, <2>1, <2>3, <3>1, <3>2, CoinFrame
  <2>5. CASE d = c
    <3> DEFINE supply == shitcoin_supply[d]
    <3>1. supply \in Nat
      BY <1>1, AmountsAssumption DEF TypeOK
    <3>2. Half(supply) \in Nat /\ Half(supply) <= supply - Half(supply)
      BY <3>1 DEF Half
    <3>3. bank'[Garden][d] = supply - Half(supply)
      BY <1>1, <1>3, <2>1, <2>2, <2>5 DEF CoinBacked
    <3>4. Total(Unclaimed(d), Users) <= Half(supply)
      BY <1>1, <2>1, <2>5, UnclaimedFits DEF SubmissionsAddUp
    <3>5. \A g \in Users : Share(d, g)' = Share(d, g)
      BY <2>1, <2>3 DEF Share
    <3>6. Unclaimed(d)' = Unclaimed(d)
      BY <2>1, <3>5 DEF Unclaimed
    <3>7. \A g \in Users : Unclaimed(d)[g] \in Nat
      <4> SUFFICES ASSUME NEW g \in Users PROVE Unclaimed(d)[g] \in Nat
        OBVIOUS
      <4>1. Share(d, g) \in Nat
        BY <1>1, <2>1, <2>5, ShareType
      <4> QED
        BY <4>1 DEF Unclaimed
    <3>8. Total(Unclaimed(d), Users) \in Nat
      BY <3>7, TotalType, FiniteAssumption
    <3>9. Total(Unclaimed(d), Users) <= bank'[Garden][d]
      BY <3>1, <3>2, <3>3, <3>4, <3>8
    <3>10. \A g \in Users : ~presale_claimed[d][g] /\ bank'[g][d] = 0
      BY <1>1, <1>3, <2>1, <2>2, <2>5 DEF CoinBacked
    <3>11. shitcoin_launched'[d] /\ Created(d)' /\ presale_claimed' = presale_claimed
      BY <1>1, <2>1, <2>3, <2>5 DEF TypeOK
    <3> QED
      BY <3>6, <3>9, <3>10, <3>11 DEF CoinBacked
  <2> QED
    BY <2>4, <2>5
<1>7. ASSUME NEW u \in Users, NEW c \in Denoms, NEW x \in Attachments,
             ClaimShitcoin(u, c, x)
      PROVE  CoinBacked(d)'
  <2> DEFINE share == Share(c, u)
  <2>1. /\ Created(c) /\ shitcoin_launched[c] /\ ~presale_claimed[c][u]
        /\ presale_submission[c][u] > 0
        /\ Keep(u, x) /\ share <= Attached(u, x)[Garden][c]
        /\ bank' = Send(Attached(u, x), Garden, u, c, share)
        /\ presale_claimed' = [presale_claimed EXCEPT ![c][u] = TRUE]
        /\ UNCHANGED <<coinVars, shitcoin_launched, presale_raise, presale_submission>>
    BY <1>7 DEF ClaimShitcoin, CanClaim, CanSend, MarkClaimed
  <2>2. presale_raise[c] > 0
    BY <1>1, <2>1 DEF PairsFollowLaunch
  <2>3. \A g \in Users : Share(c, g) \in Nat
    BY <1>1, <2>2, ShareType
  <2>4. share \in Nat
    BY <2>3
  <2> HIDE DEF share
  <2>5. \A a \in Accounts :
           bank'[a][d] = IF d = c THEN bank[a][d] + (IF a = u THEN share ELSE 0)
                                                  - (IF a = Garden THEN share ELSE 0)
                         ELSE bank[a][d]
    <3>1. /\ Attached(u, x) \in BankType /\ c \in AllDenoms /\ u \in Accounts
          /\ \A a \in Accounts : Attached(u, x)[a][d] = bank[a][d]
      BY <1>1, <1>3, <2>1, AttachedBank DEF AllDenoms
    <3>2. \A a \in Accounts :
             bank'[a][d] =
                IF d = c THEN Attached(u, x)[a][d] + (IF a = u THEN share ELSE 0)
                                                   - (IF a = Garden THEN share ELSE 0)
                ELSE Attached(u, x)[a][d]
      BY <1>3, <2>1, <2>4, <3>1, SendType
    <3> QED
      BY <3>1, <3>2
  <2>6. /\ Created(d)' <=> Created(d)
        /\ shitcoin_supply'[d] = shitcoin_supply[d]
    BY <2>1 DEF Created, coinVars
  <2>7. CASE d # c
    <3>1. presale_claimed'[d] = presale_claimed[d]
      BY <1>1, <2>1, <2>7 DEF TypeOK
    <3>2. \A a \in Accounts : bank'[a][d] = bank[a][d]
      BY <2>5, <2>7
    <3> QED
      BY <1>1, <1>2, <2>1, <2>6, <3>1, <3>2, CoinFrame
  <2>8. CASE d = c
    <3>1. \A g \in Users : Share(d, g)' = Share(d, g)
      BY <2>1, <2>6 DEF Share
    <3>2. \A g \in Users : presale_claimed'[d][g] <=> (g = u \/ presale_claimed[d][g])
      <4>1. presale_claimed \in [Denoms -> [Users -> BOOLEAN]]
        BY <1>1 DEF TypeOK
      <4>2. /\ presale_claimed'[d][u] = TRUE
            /\ \A g \in Users : g # u => presale_claimed'[d][g] = presale_claimed[d][g]
        BY <2>1, <2>8, <4>1
      <4> QED
        BY <4>2
    <3>3. bank[u][d] = 0
      BY <1>1, <2>1, <2>8 DEF CoinBacked
    <3>4. \A g \in Users : bank'[g][d] = IF g = u THEN share ELSE bank[g][d]
      BY <1>3, <2>4, <2>5, <2>8, <3>3
    <3>5. \A g \in Users : bank'[g][d] = IF presale_claimed'[d][g] THEN Share(d, g)' ELSE 0
      BY <1>1, <2>8, <3>1, <3>2, <3>4 DEF CoinBacked, share
    <3>6. bank'[Garden][d] = bank[Garden][d] - share
      BY <1>3, <2>4, <2>5, <2>8
    <3> DEFINE old == Unclaimed(d)
               new == Unclaimed(d)'
    <3>7. /\ \A g \in Users : old[g] \in Nat /\ new[g] \in Nat
          /\ \A g \in Users : g # u => new[g] = old[g]
          /\ old[u] = share /\ new[u] = 0
      <4>1. \A g \in Users :
               new[g] = IF g = u \/ presale_claimed[d][g] \/ presale_submission[d][g] = 0
                        THEN 0 ELSE Share(d, g)
        BY <2>1, <3>1, <3>2 DEF Unclaimed
      <4>2. \A g \in Users :
               old[g] = IF presale_claimed[d][g] \/ presale_submission[d][g] = 0
                        THEN 0 ELSE Share(d, g)
        BY DEF Unclaimed
      <4> HIDE DEF old, new
      <4>3. old[u] = share
        BY <2>1, <2>8, <4>2 DEF share
      <4> QED
        BY <2>3, <2>8, <4>1, <4>2, <4>3
    <3>8. Total(old, Users) <= bank[Garden][d]
      BY <1>1, <2>1, <2>8 DEF CoinBacked
    <3> HIDE DEF old, new
    <3>9. Total(new, Users) + old[u] = Total(old, Users) + new[u]
      BY <3>7, TotalUpdate, FiniteAssumption
    <3>10. Total(new, Users) \in Nat /\ Total(old, Users) \in Nat
      BY <3>7, TotalType, FiniteAssumption
    <3>11. Total(new, Users) <= bank'[Garden][d]
      BY <1>3, <2>4, <3>6, <3>7, <3>8, <3>9, <3>10
    <3>12. shitcoin_launched'[d] /\ Created(d)'
      BY <2>1, <2>6, <2>8
    <3> QED
      BY <3>5, <3>11, <3>12 DEF CoinBacked, new
  <2> QED
    BY <2>7, <2>8
<1>8. CASE \/ \E u \in Users, c \in Denoms, x \in Attachments : ExtendPresale(u, c, x)
           \/ \E u \in Users, c \in Denoms, x \in Attachments, url \in Urls :
                 SetShitcoinUrl(u, c, url, x)
  <2>1. PICK u \in Users, x \in Attachments :
           /\ bank' = Attached(u, x) /\ Keep(u, x)
           /\ UNCHANGED <<shitcoin_creator, shitcoin_supply, shitcoin_launched,
                          presale_claimed>>
    BY <1>8 DEF ExtendPresale, SetShitcoinUrl, coinVars, saleVars
  <2>2. \A a \in Accounts : bank'[a][d] = bank[a][d]
    BY <1>1, <2>1, AttachedBank
  <2>3. Created(d)' <=> Created(d)
    BY <2>1 DEF Created
  <2> QED
    BY <1>1, <1>2, <2>1, <2>2, <2>3, CoinFrame
<1>9. CASE Tick \/ UNCHANGED vars
  <2>1. UNCHANGED <<shitcoin_creator, shitcoin_supply, shitcoin_launched, presale_claimed, bank>>
    BY <1>9 DEF Tick, vars, coinVars, saleVars, chainVars
  <2>2. Created(d)' <=> Created(d)
    BY <2>1 DEF Created
  <2> QED
    BY <1>1, <1>2, <2>1, <2>2, CoinFrame
<1> QED
  BY <1>4, <1>5, <1>6, <1>7, <1>8, <1>9 DEF Next

\* Every coin is backed in every reachable state.
LEMMA CoinsHold ==
    ASSUME ~DexAcceptsEmptySide
    PROVE  Spec => []CoinsBacked
<1>1. Inductive /\ SubmissionsAddUp /\ CoinsBacked /\ [Next]_vars => CoinsBacked'
  BY CoinsStep DEF CoinsBacked
<1> QED
  BY <1>1, CoinsInit, InductiveHolds, RaiseIsSumOfSubmissions, PTL DEF Spec

\* For any number of degens and any amounts, what the contract holds of a
\* launched coin covers every share that is still unclaimed, so nobody's claim
\* depends on who claimed first.
THEOREM EveryClaimBacked ==
    ASSUME ~DexAcceptsEmptySide
    PROVE  Spec => []ClaimsBacked
<1>1. CoinsBacked => ClaimsBacked
  BY DEF CoinsBacked, CoinBacked, ClaimsBacked
<1> QED
  BY <1>1, CoinsHold, PTL

\* A degen has of a coin nothing or its whole share, never two shares and never
\* a share by figures that have moved since.
THEOREM PaidOnceInFull ==
    ASSUME ~DexAcceptsEmptySide
    PROVE  Spec => []PaidProRata
<1>1. CoinsBacked => PaidProRata
  BY DEF CoinsBacked, CoinBacked, PaidProRata
<1> QED
  BY <1>1, CoinsHold, PTL

-----------------------------------------------------------------------------
(***************************************************************************)
(* The dust.                                                               *)
(***************************************************************************)

\* One more for each member of a set adds as much as the set has members.
LEMMA TotalCounts ==
    ASSUME NEW S, IsFiniteSet(S), NEW P \in SUBSET S, NEW f, NEW h,
           \A x \in S : f[x] \in Nat /\ h[x] = f[x] + (IF x \in P THEN 1 ELSE 0)
    PROVE  Total(h, S) = Total(f, S) + Cardinality(P)
<1> DEFINE Law(s) == Total(h, s) = Total(f, s) + Cardinality(P \cap s)
           T == {s \in SUBSET S : ~Law(s)}
<1>0. ASSUME T # {} PROVE FALSE
  <2>1. PICK m \in T : \A s \in SUBSET m : s # m => s \notin T
    <3>1. T \subseteq SUBSET S /\ T # {}
      BY <1>0
    <3> HIDE DEF T
    <3> QED
      BY <3>1, SmallestSubset
  <2>2. m \in SUBSET S /\ ~Law(m)
    OBVIOUS
  <2> DEFINE y == First(m)
             rest == m \ {First(m)}
  <2>3. /\ Total(f, m) = IF m = {} THEN 0 ELSE f[y] + Total(f, rest)
        /\ Total(h, m) = IF m = {} THEN 0 ELSE h[y] + Total(h, rest)
    BY <2>2, TotalFold
  <2>4. m # {}
    <3> SUFFICES ASSUME m = {} PROVE FALSE
      OBVIOUS
    <3>1. Cardinality(P \cap m) = 0
      BY FS_EmptySet
    <3> QED
      BY <2>2, <2>3, <3>1
  <2>5. y \in m /\ y \in S /\ rest \in SUBSET S /\ rest \notin T
    BY <2>1, <2>2, <2>4, FirstMember
  <2>6. Law(rest)
    BY <2>5
  <2>7. IsFiniteSet(rest) /\ IsFiniteSet(P \cap rest) /\ IsFiniteSet(P \cap m)
    BY <2>2, <2>5, FS_Subset
  <2>8. /\ Total(f, rest) \in Nat /\ Cardinality(P \cap rest) \in Nat
        /\ f[y] \in Nat /\ h[y] = f[y] + (IF y \in P THEN 1 ELSE 0)
    BY <2>5, <2>7, TotalType, FS_CardinalityType
  <2>9. Cardinality(P \cap m) = Cardinality(P \cap rest) + (IF y \in P THEN 1 ELSE 0)
    <3>1. CASE y \in P
      <4>1. P \cap m = (P \cap rest) \cup {y} /\ y \notin P \cap rest
        BY <2>5, <3>1
      <4> HIDE DEF y, rest
      <4> QED
        BY <2>7, <3>1, <4>1, FS_AddElement
    <3>2. CASE y \notin P
      <4>1. P \cap m = P \cap rest
        BY <3>2
      <4> HIDE DEF y, rest
      <4> QED
        BY <2>8, <3>2, <4>1
    <3> QED
      BY <3>1, <3>2
  <2> HIDE DEF y, rest, T
  <2> QED
    BY <2>2, <2>3, <2>4, <2>6, <2>8, <2>9
<1>1. Law(S)
  BY <1>0
<1>2. P \cap S = P
  OBVIOUS
<1> QED
  BY <1>1, <1>2

\* The shares of everybody, each rounded down, leave less than one unit for each
\* of those who have one: together with SharesFit, what is shared out and what
\* is left.
THEOREM SharesNearlyFill ==
    ASSUME NEW S, IsFiniteSet(S), NEW half \in Nat, NEW raise \in Nat \ {0},
           NEW f, \A x \in S : f[x] \in Nat, Total(f, S) = raise
    PROVE  half < Total([x \in S |-> Claimable(half, f[x], raise)], S)
                    + Cardinality({x \in S : f[x] > 0})
<1> DEFINE q == [x \in S |-> Claimable(half, f[x], raise)]
           P == {x \in S : f[x] > 0}
           h == [x \in S |-> q[x] + (IF x \in P THEN 1 ELSE 0)]
\* Some f[z] is positive, for their sum is.
<1>1. PICK z \in S : f[z] > 0
  <2> SUFFICES ASSUME \A x \in S : ~(f[x] > 0) PROVE FALSE
    OBVIOUS
  <2>1. \A x \in S : f[x] = 0
    OBVIOUS
  <2>2. Total(f, S) = 0
    BY <2>1, TotalZero
  <2> QED
    BY <2>2
<1> DEFINE g == [x \in S |-> half * f[x]]
           e == [x \in S |-> half * f[x] + (IF x = z THEN 1 ELSE 0)]
\* One more than a share is more than the exact part, where there is a part.
<1>2. ASSUME NEW x \in S
      PROVE  /\ q[x] \in Nat /\ h[x] \in Nat /\ g[x] \in Nat /\ e[x] \in Nat
             /\ 1 * e[x] <= raise * h[x]
             /\ half * f[x] <= 1 * g[x]
  <2> DEFINE product == half * f[x]
             share == product \div raise
             more == IF x \in P THEN 1 ELSE 0
             one == IF x = z THEN 1 ELSE 0
  <2>1. product \in Nat /\ more \in {0, 1} /\ one \in {0, 1} /\ (one = 1 => more = 1)
    BY <1>1
  <2>2. q[x] = share /\ h[x] = share + more /\ g[x] = product /\ e[x] = product + one
    BY DEF Claimable
  <2>3. more = 0 => product = 0
    OBVIOUS
  <2> HIDE DEF product, more, one
  <2>4. share \in Nat /\ raise * share <= product /\ product < raise * share + raise
    BY <2>1
  <2> HIDE DEF share
  <2>5. raise * share \in Nat /\ raise * (share + 1) = raise * share + raise
    BY <2>4
  <2>6. CASE more = 0
    <3>1. one = 0 /\ product = 0
      BY <2>1, <2>3, <2>6
    <3>2. h[x] = share /\ e[x] = 0 /\ g[x] = 0 /\ q[x] = share
      BY <2>2, <2>4, <2>6, <3>1
    <3>3. half * f[x] = 0
      BY <3>1 DEF product
    <3> HIDE DEF q, h, g, e
    <3>4. raise * h[x] \in Nat
      BY <2>4, <3>2
    <3> QED
      BY <2>4, <3>2, <3>3, <3>4
  <2>7. CASE more = 1
    <3>1. raise * h[x] = raise * share + raise
      BY <2>2, <2>5, <2>7
    <3> HIDE DEF q, h, g, e
    <3> QED
      BY <2>1, <2>2, <2>4, <2>5, <2>7, <3>1 DEF product
  <2> QED
    BY <2>1, <2>6, <2>7
<1>3. Total(h, S) = Total(q, S) + Cardinality(P)
  <2>1. P \in SUBSET S /\ \A x \in S : q[x] \in Nat /\ h[x] = q[x] + (IF x \in P THEN 1 ELSE 0)
    BY <1>2
  <2> HIDE DEF q, h, P
  <2> QED
    BY <2>1, TotalCounts
<1>4. Total(e, S) + g[z] = Total(g, S) + e[z] /\ e[z] = g[z] + 1
  <2>1. /\ \A x \in S : g[x] \in Nat /\ e[x] \in Nat
        /\ \A x \in S : x # z => e[x] = g[x]
        /\ e[z] = g[z] + 1
    BY <1>2
  <2> HIDE DEF g, e
  <2> QED
    BY <2>1, TotalUpdate
<1>5. \A x \in S : /\ f[x] \in Nat /\ h[x] \in Nat /\ g[x] \in Nat /\ e[x] \in Nat
                   /\ 1 * e[x] <= raise * h[x] /\ half * f[x] <= 1 * g[x]
  BY <1>2
<1> HIDE DEF q, h, g, e, P
<1>6. 1 * Total(e, S) <= raise * Total(h, S) /\ half * Total(f, S) <= 1 * Total(g, S)
  BY <1>5, TotalScaled
<1>7. /\ Total(e, S) \in Nat /\ Total(g, S) \in Nat /\ Total(h, S) \in Nat
      /\ g[z] \in Nat
  BY <1>5, TotalType
<1> DEFINE H == Total(h, S)
<1>8. H \in Nat /\ half * raise + 1 <= raise * H
  <2>1. half * raise \in Nat /\ raise * H \in Nat
    BY <1>7
  <2> DEFINE hr == half * raise
             rh == raise * H
  <2>2. hr <= Total(g, S) /\ Total(e, S) <= rh /\ Total(e, S) = Total(g, S) + 1
    BY <1>4, <1>6, <1>7
  <2> HIDE DEF hr, rh
  <2>3. hr + 1 <= rh
    BY <1>7, <2>1, <2>2 DEF hr, rh
  <2> QED
    BY <1>7, <2>3 DEF hr, rh
<1> HIDE DEF H
<1>9. half < H
  <2> SUFFICES ASSUME H <= half PROVE FALSE
    BY <1>8
  <2>1. raise * H <= raise * half
    BY <1>8
  <2>2. raise * half = half * raise /\ half * raise \in Nat
    OBVIOUS
  <2> QED
    BY <1>8, <2>1, <2>2
<1> QED
  BY <1>3, <1>9 DEF H, q, P
-----------------------------------------------------------------------------
(***************************************************************************)
(* The coins: what is minted is in the pool, in the contract or with a     *)
(* degen.                                                                  *)
(***************************************************************************)

Paid(d) == [g \in Users |-> bank[g][d]]

\* No unit of a coin is lost or made: the contract and the degens have the whole
\* supply until the launch and what was not pooled from then on.
Conserved(d) ==
    Created(d) => bank[Garden][d] + Total(Paid(d), Users) =
        IF shitcoin_launched[d] THEN shitcoin_supply[d] - Half(shitcoin_supply[d])
        ELSE shitcoin_supply[d]

CoinsConserved == \A d \in Denoms : Conserved(d)

\* Supplies are whole coins, and at least one.
WholeSupplies ==
    \A d \in Denoms : shitcoin_supply[d] % 2 = 0 /\ (Created(d) => shitcoin_supply[d] > 0)

\* Nobody but a claimant has a coin.
LEMMA PaidType ==
    ASSUME TypeOK, NEW d \in Denoms
    PROVE  /\ \A g \in Users : Paid(d)[g] \in Nat
           /\ bank[Garden][d] \in Nat
           /\ Total(Paid(d), Users) \in Nat
<1>1. d \in AllDenoms /\ Garden \in Accounts /\ \A g \in Users : g \in Accounts
  BY DEF AllDenoms, Accounts
<1>2. bank[Garden][d] \in Nat /\ \A g \in Users : bank[g][d] \in Nat
  BY <1>1 DEF TypeOK
<1>3. \A g \in Users : Paid(d)[g] \in Nat
  BY <1>2 DEF Paid
<1> QED
  BY <1>2, <1>3, TotalType, FiniteAssumption

\* A step that moves neither the coin nor its launch.
LEMMA ConservedFrame ==
    ASSUME NEW d \in Denoms, Conserved(d),
           Created(d)' <=> Created(d),
           shitcoin_launched'[d] = shitcoin_launched[d],
           shitcoin_supply'[d] = shitcoin_supply[d],
           \A a \in Accounts : bank'[a][d] = bank[a][d]
    PROVE  Conserved(d)'
<1>1. bank'[Garden][d] = bank[Garden][d] /\ \A g \in Users : bank'[g][d] = bank[g][d]
  BY DEF Accounts
<1>2. Paid(d)' = Paid(d)
  BY <1>1 DEF Paid
<1> QED
  BY <1>1, <1>2 DEF Conserved

\* Every transaction keeps the coins: a create mints the whole supply to the
\* contract, a launch takes half of it away, a claim moves a share.
LEMMA ConservedStep ==
    ASSUME Inductive, CoinsBacked, CoinsConserved, [Next]_vars, ~DexAcceptsEmptySide,
           NEW d \in Denoms
    PROVE  Conserved(d)'
<1>1. /\ TypeOK /\ ListedOnce /\ NothingBeforeCreate /\ PairsFollowLaunch
      /\ CoinBacked(d) /\ Conserved(d)
  BY DEF Inductive, CoinsBacked, CoinsConserved
<1>2. TypeOK'
  BY InductiveStep DEF Inductive
<1>3. /\ Garden \in Accounts /\ Garden \notin Users /\ Accounts = Users \cup {Garden}
      /\ d \in AllDenoms /\ config.presale_denom # d
      /\ \A a \in Accounts : bank[a][d] \in Nat
  <2>1. config.presale_denom \in NativeDenoms
    BY <1>1 DEF TypeOK, ConfigType
  <2>2. d \in AllDenoms
    BY DEF AllDenoms
  <2>3. \A a \in Accounts : bank[a][d] \in Nat
    BY <1>1, <2>2 DEF TypeOK
  <2> QED
    BY <2>1, <2>2, <2>3, NamesAssumption DEF Accounts
<1>4. ASSUME NEW u \in Users, NEW t \in Tickers, NEW s \in Supplies, NEW f \in Funds,
             CreateShitcoin(u, t, s, f)
      PROVE  Conserved(d)'
  <2> DEFINE new == DenomOf[t]
             total == s * Micro
  <2>1. /\ new \in Denoms /\ ~Created(new)
        /\ Created(d)' <=> (d = new \/ Created(d))
    BY <1>1, <1>4, RegistryCreate
  <2>2. /\ bank'[Garden][d] = IF d = new THEN bank[Garden][d] + total ELSE bank[Garden][d]
        /\ \A a \in Users : bank'[a][d] = bank[a][d]
        /\ total \in Nat
    BY <1>1, <1>3, <1>4, CreateBank
  <2>3. /\ shitcoin_supply' = [shitcoin_supply EXCEPT ![new] = total]
        /\ UNCHANGED <<shitcoin_launched, presale_claimed>>
    BY <1>4 DEF CreateShitcoin
  <2> HIDE DEF new, total
  <2>4. CASE d = new
    <3>1. shitcoin_supply'[d] = total
      BY <1>1, <2>3, <2>4 DEF TypeOK
    <3>2. bank'[Garden][d] = total
      BY <1>1, <2>1, <2>2, <2>4 DEF CoinBacked
    <3>3. ~shitcoin_launched[d] /\ \A g \in Users : ~presale_claimed[d][g]
      BY <1>1, <2>1, <2>4 DEF NothingBeforeCreate
    <3>4. \A g \in Users : Paid(d)'[g] = 0
      BY <1>1, <2>2, <3>3 DEF CoinBacked, Paid
    <3>5. Total(Paid(d)', Users) = 0
      BY <3>4, TotalZero, FiniteAssumption
    <3>6. Total(Paid(d), Users)' = Total(Paid(d)', Users)
      OBVIOUS
    <3> QED
      BY <2>2, <2>3, <3>1, <3>2, <3>3, <3>5, <3>6 DEF Conserved
  <2>5. CASE d # new
    <3>1. shitcoin_supply'[d] = shitcoin_supply[d]
      BY <1>1, <2>3, <2>5 DEF TypeOK
    <3>2. \A a \in Accounts : bank'[a][d] = bank[a][d]
      BY <1>3, <2>2, <2>5
    <3> QED
      BY <1>1, <2>1, <2>3, <2>5, <3>1, <3>2, ConservedFrame
  <2> QED
    BY <2>4, <2>5
<1>5. ASSUME NEW u \in Users, NEW c \in Denoms, NEW f \in Funds, EnterPresale(u, c, f)
      PROVE  Conserved(d)'
  <2>1. \A a \in Accounts : bank'[a][d] = bank[a][d]
    BY <1>1, <1>3, <1>5, EnterBank
  <2>2. UNCHANGED <<coinVars, shitcoin_launched>>
    BY <1>5 DEF EnterPresale
  <2>3. (Created(d)' <=> Created(d)) /\ shitcoin_supply'[d] = shitcoin_supply[d]
    BY <2>2 DEF Created, coinVars
  <2> QED
    BY <1>1, <2>1, <2>2, <2>3, ConservedFrame
<1>6. ASSUME NEW u \in Users, NEW c \in Denoms, NEW x \in Attachments,
             LaunchShitcoin(u, c, x)
      PROVE  Conserved(d)'
  <2> DEFINE half == Half(shitcoin_supply[c])
  <2>1. /\ Created(c) /\ ~shitcoin_launched[c]
        /\ shitcoin_launched' = [shitcoin_launched EXCEPT ![c] = TRUE]
        /\ UNCHANGED coinVars
    BY <1>6 DEF LaunchShitcoin, CanLaunch
  <2>2. \A a \in Accounts :
           bank'[a][d] = IF a = Garden /\ d = c THEN bank[a][d] - half ELSE bank[a][d]
    BY <1>1, <1>3, <1>6, LaunchBank
  <2>3. (Created(d)' <=> Created(d)) /\ shitcoin_supply'[d] = shitcoin_supply[d]
    BY <2>1 DEF Created, coinVars
  <2>4. CASE d # c
    <3>1. shitcoin_launched'[d] = shitcoin_launched[d]
      BY <1>1, <2>1, <2>4 DEF TypeOK
    <3>2. \A a \in Accounts : bank'[a][d] = bank[a][d]
      BY <2>2, <2>4
    <3> QED
      BY <1>1, <2>3, <3>1, <3>2, ConservedFrame
  <2>5. CASE d = c
    <3>1. \A g \in Users : bank'[g][d] = bank[g][d]
      BY <1>3, <2>2
    <3>2. Paid(d)' = Paid(d)
      BY <3>1 DEF Paid
    <3>3. half \in Nat /\ shitcoin_supply[d] \in Nat
      BY <1>1, HalfBounds, AmountsAssumption DEF TypeOK
    <3>4. bank'[Garden][d] = bank[Garden][d] - half
      BY <1>3, <2>2, <2>5
    <3>5. shitcoin_launched'[d]
      BY <1>1, <2>1, <2>5 DEF TypeOK
    <3>6. bank[Garden][d] + Total(Paid(d), Users) = shitcoin_supply[d]
      BY <1>1, <2>1, <2>5 DEF Conserved
    <3>7. Total(Paid(d), Users) \in Nat /\ bank[Garden][d] \in Nat
      BY <1>1, PaidType
    <3> DEFINE paid == Total(Paid(d), Users)
    <3>8. paid' = paid
      BY <3>2
    <3> HIDE DEF paid, half
    <3>9. bank'[Garden][d] + paid' = shitcoin_supply[d] - half
      BY <3>3, <3>4, <3>6, <3>7, <3>8 DEF paid
    <3> QED
      BY <2>3, <2>5, <3>5, <3>9 DEF Conserved, paid, half
  <2> QED
    BY <2>4, <2>5
<1>7. ASSUME NEW u \in Users, NEW c \in Denoms, NEW x \in Attachments,
             ClaimShitcoin(u, c, x)
      PROVE  Conserved(d)'
  <2> DEFINE share == Share(c, u)
  <2>1. /\ Keep(u, x) /\ share <= Attached(u, x)[Garden][c]
        /\ bank' = Send(Attached(u, x), Garden, u, c, share)
        /\ shitcoin_launched[c] /\ UNCHANGED <<coinVars, shitcoin_launched>>
    BY <1>7 DEF ClaimShitcoin, CanClaim, CanSend
  <2>2. share \in Nat
    <3>1. presale_raise[c] > 0
      BY <1>1, <1>7 DEF PairsFollowLaunch, ClaimShitcoin, CanClaim
    <3> QED
      BY <1>1, <3>1, ShareType
  <2> HIDE DEF share
  <2>3. \A a \in Accounts :
           bank'[a][d] = IF d = c THEN bank[a][d] + (IF a = u THEN share ELSE 0)
                                                  - (IF a = Garden THEN share ELSE 0)
                         ELSE bank[a][d]
    <3>1. /\ Attached(u, x) \in BankType /\ c \in AllDenoms /\ u \in Accounts
          /\ \A a \in Accounts : Attached(u, x)[a][d] = bank[a][d]
      BY <1>1, <1>3, <2>1, AttachedBank DEF AllDenoms
    <3>2. \A a \in Accounts :
             bank'[a][d] =
                IF d = c THEN Attached(u, x)[a][d] + (IF a = u THEN share ELSE 0)
                                                   - (IF a = Garden THEN share ELSE 0)
                ELSE Attached(u, x)[a][d]
      BY <1>3, <2>1, <2>2, <3>1, SendType
    <3> QED
      BY <3>1, <3>2
  <2>4. (Created(d)' <=> Created(d)) /\ shitcoin_supply'[d] = shitcoin_supply[d]
    BY <2>1 DEF Created, coinVars
  <2>5. CASE d # c
    <3>1. \A a \in Accounts : bank'[a][d] = bank[a][d]
      BY <2>3, <2>5
    <3> QED
      BY <1>1, <2>1, <2>4, <3>1, ConservedFrame
  <2>6. CASE d = c
    <3> DEFINE old == Paid(d)
               new == Paid(d)'
    <3>1. /\ \A g \in Users : old[g] \in Nat
          /\ bank[Garden][d] \in Nat /\ Total(old, Users) \in Nat
      BY <1>1, PaidType
    <3>2. \A g \in Users : new[g] = IF g = u THEN old[g] + share ELSE old[g]
      BY <1>3, <2>2, <2>3, <2>6 DEF Paid
    <3>3. bank'[Garden][d] = bank[Garden][d] - share
      BY <1>3, <2>2, <2>3, <2>6
    <3>4. Total(Paid(d), Users)' = Total(new, Users)
      OBVIOUS
    <3>5. bank[Garden][d] + Total(old, Users) =
             IF shitcoin_launched[d] THEN shitcoin_supply[d] - Half(shitcoin_supply[d])
             ELSE shitcoin_supply[d]
      BY <1>1, <1>7, <2>6 DEF Conserved, ClaimShitcoin, CanClaim
    <3> HIDE DEF old, new
    <3>6. \A g \in Users : new[g] \in Nat
      BY <2>2, <3>1, <3>2
    <3>7. Total(new, Users) + old[u] = Total(old, Users) + new[u]
      BY <3>1, <3>2, <3>6, TotalUpdate, FiniteAssumption
    <3>8. Total(new, Users) \in Nat
      BY <3>6, TotalType, FiniteAssumption
    <3>9. Total(new, Users) = Total(old, Users) + share
      BY <2>2, <3>1, <3>2, <3>6, <3>7, <3>8
    <3>10. bank'[Garden][d] + Total(new, Users) = bank[Garden][d] + Total(old, Users)
      BY <2>2, <3>1, <3>3, <3>9
    <3> QED
      BY <2>1, <2>4, <3>4, <3>5, <3>10 DEF Conserved
  <2> QED
    BY <2>5, <2>6
<1>8. CASE \/ \E u \in Users, c \in Denoms, x \in Attachments : ExtendPresale(u, c, x)
           \/ \E u \in Users, c \in Denoms, x \in Attachments, url \in Urls :
                 SetShitcoinUrl(u, c, url, x)
  <2>1. PICK u \in Users, x \in Attachments :
           /\ bank' = Attached(u, x) /\ Keep(u, x)
           /\ UNCHANGED <<shitcoin_creator, shitcoin_supply, shitcoin_launched>>
    BY <1>8 DEF ExtendPresale, SetShitcoinUrl, coinVars, saleVars
  <2>2. \A a \in Accounts : bank'[a][d] = bank[a][d]
    BY <1>1, <2>1, AttachedBank
  <2>3. Created(d)' <=> Created(d)
    BY <2>1 DEF Created
  <2> QED
    BY <1>1, <2>1, <2>2, <2>3, ConservedFrame
<1>9. CASE Tick \/ UNCHANGED vars
  <2>1. UNCHANGED <<shitcoin_creator, shitcoin_supply, shitcoin_launched, bank>>
    BY <1>9 DEF Tick, vars, coinVars, saleVars, chainVars
  <2>2. Created(d)' <=> Created(d)
    BY <2>1 DEF Created
  <2> QED
    BY <1>1, <2>1, <2>2, ConservedFrame
<1> QED
  BY <1>4, <1>5, <1>6, <1>7, <1>8, <1>9 DEF Next

\* A supply is a number of whole coins, and a whole coin divides in two.
LEMMA WholeSuppliesStep ==
    ASSUME TypeOK, ListedOnce, WholeSupplies, [Next]_vars, Micro % 2 = 0
    PROVE  WholeSupplies'
<1>1. ASSUME NEW u \in Users, NEW t \in Tickers, NEW s \in Supplies, NEW f \in Funds,
             CreateShitcoin(u, t, s, f)
      PROVE  WholeSupplies'
  <2> DEFINE total == s * Micro
             h == Micro \div 2
  <2>1. s \in Nat \ {0} /\ h \in Nat \ {0} /\ Micro = 2 * h
    BY <1>1, AmountsAssumption DEF CreateShitcoin
  <2> HIDE DEF h
  <2>2. total = 2 * (s * h) /\ s * h \in Nat \ {0}
    BY <2>1
  <2>3. total % 2 = 0 /\ total > 0
    BY <2>2
  <2>4. /\ shitcoin_supply' = [shitcoin_supply EXCEPT ![DenomOf[t]] = total]
        /\ shitcoin_creator' = [shitcoin_creator EXCEPT ![DenomOf[t]] = u]
    BY <1>1 DEF CreateShitcoin
  <2> HIDE DEF total
  <2> QED
    BY <2>3, <2>4 DEF WholeSupplies, TypeOK, Created
<1>2. CASE ~ \E u \in Users, t \in Tickers, s \in Supplies, f \in Funds :
                CreateShitcoin(u, t, s, f)
  BY <1>2, RegistryFrame DEF WholeSupplies, coinVars, Created
<1> QED
  BY <1>1, <1>2

\* Both hold in every reachable state.
LEMMA CoinsStayConserved ==
    ASSUME ~DexAcceptsEmptySide, Micro % 2 = 0
    PROVE  Spec => [](CoinsConserved /\ WholeSupplies)
<1>1. Init => CoinsConserved /\ WholeSupplies
  BY DEF Init, CoinsConserved, Conserved, WholeSupplies, Created
<1>2. Inductive /\ CoinsBacked /\ CoinsConserved /\ [Next]_vars => CoinsConserved'
  BY ConservedStep DEF CoinsConserved
<1>3. Inductive /\ WholeSupplies /\ [Next]_vars => WholeSupplies'
  BY WholeSuppliesStep DEF Inductive
<1> QED
  BY <1>1, <1>2, <1>3, InductiveHolds, CoinsHold, PTL DEF Spec

\* Once every degen of a launched coin has claimed, the contract keeps of it
\* less than one unit for each of them, however the submissions divide.
THEOREM DustIsAllThatStays ==
    ASSUME ~DexAcceptsEmptySide, Micro % 2 = 0
    PROVE  Spec => []OnlyDustStays
<1>1. Inductive /\ SubmissionsAddUp /\ CoinsBacked /\ CoinsConserved /\ WholeSupplies
      => OnlyDustStays
  <2> SUFFICES ASSUME Inductive, SubmissionsAddUp, CoinsBacked, CoinsConserved, WholeSupplies,
                      NEW d \in Denoms, shitcoin_launched[d],
                      \A g \in {g \in Users : presale_submission[d][g] > 0} :
                          presale_claimed[d][g]
               PROVE  bank[Garden][d] < Cardinality({g \in Users : presale_submission[d][g] > 0})
    BY DEF OnlyDustStays
  <2> DEFINE supply == shitcoin_supply[d]
             half == Half(supply)
             raise == presale_raise[d]
             sub == presale_submission[d]
             degens == {g \in Users : sub[g] > 0}
             q == [g \in Users |-> Claimable(half, sub[g], raise)]
  <2>1. TypeOK /\ Created(d) /\ CoinBacked(d) /\ Conserved(d) /\ raise > 0
    BY DEF Inductive, NothingBeforeCreate, PairsFollowLaunch, CoinsBacked, CoinsConserved
  <2>2. supply \in Nat /\ supply % 2 = 0
    BY <2>1, AmountsAssumption DEF TypeOK, WholeSupplies
  <2>3. half \in Nat /\ supply - half = half
    BY <2>2 DEF Half
  <2>4. raise \in Nat \ {0} /\ \A g \in Users : sub[g] \in Nat
    <3>1. raise \in Nat
      BY <2>1, AmountsAssumption DEF TypeOK
    <3>2. \A g \in Users : sub[g] \in Nat
      BY <2>1 DEF TypeOK
    <3> QED
      BY <2>1, <3>1, <3>2
  <2>5. Total(sub, Users) = raise
    BY DEF SubmissionsAddUp
  <2>6. Paid(d) = q
    <3> SUFFICES ASSUME NEW g \in Users PROVE bank[g][d] = Claimable(half, sub[g], raise)
      BY DEF Paid
    <3>1. bank[g][d] = IF presale_claimed[d][g] THEN Claimable(half, sub[g], raise) ELSE 0
      BY <2>1 DEF CoinBacked, Share
    <3>2. CASE presale_claimed[d][g]
      BY <3>1, <3>2
    <3>3. CASE ~presale_claimed[d][g]
      <4>1. sub[g] = 0
        BY <2>4, <3>3
      <4> HIDE DEF half, raise, sub
      <4>2. half * sub[g] = 0 /\ 0 \div raise = 0
        BY <2>3, <2>4, <4>1
      <4> QED
        BY <3>1, <3>3, <4>2 DEF Claimable
    <3> QED
      BY <3>2, <3>3
  <2>7. bank[Garden][d] + Total(q, Users) = half
    BY <2>1, <2>3, <2>6 DEF Conserved
  <2>8. bank[Garden][d] \in Nat /\ Total(q, Users) \in Nat
    BY <2>1, <2>6, PaidType
  <2>9. half < Total(q, Users) + Cardinality(degens)
    <3> HIDE DEF half, raise, sub
    <3> QED
      BY <2>3, <2>4, <2>5, SharesNearlyFill, FiniteAssumption
  <2>10. Cardinality(degens) \in Nat
    <3>1. IsFiniteSet(degens)
      BY FiniteAssumption, FS_Subset
    <3> QED
      BY <3>1, FS_CardinalityType
  <2> DEFINE left == bank[Garden][d]
             paid == Total(q, Users)
             n == Cardinality(degens)
  <2> HIDE DEF left, paid, n, half
  <2>11. left < n
    BY <2>3, <2>7, <2>8, <2>9, <2>10 DEF left, paid, n
  <2> QED
    BY <2>11 DEF left, n
<1> QED
  BY <1>1, InductiveHolds, RaiseIsSumOfSubmissions, CoinsHold, CoinsStayConserved, PTL

-----------------------------------------------------------------------------
(***************************************************************************)
(* Nothing is stuck.                                                       *)
(***************************************************************************)

\* One value is no more than the sum of all.
LEMMA TotalCovers ==
    ASSUME NEW S, IsFiniteSet(S), NEW x \in S, NEW f, \A y \in S : f[y] \in Nat
    PROVE  f[x] <= Total(f, S)
<1> DEFINE h == [y \in S |-> IF y = x THEN 0 ELSE f[y]]
<1>1. /\ \A y \in S : h[y] \in Nat /\ (y # x => h[y] = f[y])
      /\ h[x] = 0
  OBVIOUS
<1> HIDE DEF h
<1>2. Total(h, S) + f[x] = Total(f, S) + h[x]
  BY <1>1, TotalUpdate
<1>3. Total(h, S) \in Nat /\ Total(f, S) \in Nat
  BY <1>1, TotalType
<1> QED
  BY <1>1, <1>2, <1>3

\* When a presale with a raise is over, the contract has what its launch needs:
\* half the supply, which is at least a unit, and of the escrow its raise.
LEMMA LaunchAccepted ==
    ASSUME Inductive, EscrowBacksPresales, CoinsBacked, WholeSupplies, ~DexAcceptsEmptySide,
           NEW d \in Denoms, Created(d), Ended(d), ~shitcoin_launched[d], presale_raise[d] > 0
    PROVE  CanLaunch(bank, d)
<1>1. TypeOK /\ pool[d] = [shitcoin |-> 0, presale |-> 0] /\ bank[Garden][d] = shitcoin_supply[d]
  BY DEF Inductive, PairsFollowLaunch, CoinsBacked, CoinBacked
<1> DEFINE half == Half(shitcoin_supply[d])
<1>2. half > 0 /\ half <= bank[Garden][d]
  <2>1. shitcoin_supply[d] \in Nat /\ shitcoin_supply[d] % 2 = 0 /\ shitcoin_supply[d] > 0
    BY <1>1, AmountsAssumption DEF TypeOK, WholeSupplies
  <2> QED
    BY <1>1, <2>1 DEF Half
<1>3. presale_raise[d] <= bank[Garden][config.presale_denom]
  <2>1. Owed[d] = presale_raise[d] /\ \A c \in Denoms : Owed[c] \in Nat
    BY <1>1, OwedType DEF Owed
  <2>2. Owed[d] <= Total(Owed, Denoms)
    BY <2>1, TotalCovers, FiniteAssumption
  <2>3. /\ config.presale_denom \in NativeDenoms /\ kept[config.presale_denom] \in Nat
        /\ bank[Garden][config.presale_denom] =
              kept[config.presale_denom] + Total(Owed, Denoms)
    <3>1. config.presale_denom \in NativeDenoms
      BY <1>1 DEF TypeOK, ConfigType
    <3>2. kept[config.presale_denom] \in Nat
      BY <1>1, <3>1 DEF TypeOK
    <3> QED
      BY <3>1, <3>2, EscrowByDenom
  <2>4. Total(Owed, Denoms) \in Nat
    BY <2>1, TotalType, FiniteAssumption
  <2> QED
    BY <2>1, <2>2, <2>3, <2>4
<1>4. pool[d] # None
  BY <1>1, EnvironmentAssumption
<1> QED
  BY <1>2, <1>3, <1>4 DEF CanLaunch, CanProvide

\* Whoever is owed something of a launched coin can have it.
LEMMA ClaimAccepted ==
    ASSUME Inductive, CoinsBacked, ~DexAcceptsEmptySide, NEW d \in Denoms, NEW g \in Users,
           shitcoin_launched[d], ~presale_claimed[d][g], presale_submission[d][g] > 0,
           Share(d, g) > 0
    PROVE  CanClaim(bank, g, d)
<1>1. /\ TypeOK /\ Created(d) /\ Ended(d) /\ presale_raise[d] > 0
      /\ Total(Unclaimed(d), Users) <= bank[Garden][d]
  BY DEF Inductive, NothingBeforeCreate, PairsFollowLaunch, CoinsBacked, CoinBacked
<1>2. \A u \in Users : Unclaimed(d)[u] \in Nat
  BY <1>1, ShareType DEF Unclaimed
<1>3. Unclaimed(d)[g] = Share(d, g)
  BY <1>1 DEF Unclaimed, TypeOK
<1>4. Unclaimed(d)[g] <= Total(Unclaimed(d), Users) /\ Total(Unclaimed(d), Users) \in Nat
  BY <1>2, TotalCovers, TotalType, FiniteAssumption
<1>5. bank[Garden][d] \in Nat /\ Share(d, g) \in Nat
  BY <1>1, PaidType, ShareType
<1>6. Share(d, g) <= bank[Garden][d]
  BY <1>1, <1>3, <1>4, <1>5
<1> QED
  BY <1>1, <1>6 DEF CanClaim, CanSend

\* For any number of coins and degens: a presale that is over with a raise can
\* be launched, although the raises of all coins lie in one account, and what a
\* degen is owed of a launched coin it can claim, although all claims are paid
\* from one half, each rounded down.
THEOREM NothingIsStuck ==
    ASSUME ~DexAcceptsEmptySide, Micro % 2 = 0
    PROVE  Spec => []FundsNeverStuck
<1>1. Inductive /\ EscrowBacksPresales /\ CoinsBacked /\ WholeSupplies => FundsNeverStuck
  <2> SUFFICES ASSUME Inductive, EscrowBacksPresales, CoinsBacked, WholeSupplies,
                      NEW d \in Denoms, Created(d), Ended(d)
               PROVE  /\ (~shitcoin_launched[d] /\ presale_raise[d] > 0) => CanLaunch(bank, d)
                      /\ \A g \in Users : (shitcoin_launched[d] /\ Unclaimed(d)[g] > 0)
                                             => CanClaim(bank, g, d)
    BY DEF FundsNeverStuck
  <2>1. ASSUME NEW g \in Users, shitcoin_launched[d], Unclaimed(d)[g] > 0
        PROVE  CanClaim(bank, g, d)
    <3>1. Unclaimed(d)[g] = IF presale_claimed[d][g] \/ presale_submission[d][g] = 0
                            THEN 0 ELSE Share(d, g)
      BY DEF Unclaimed
    <3>2. ~presale_claimed[d][g] /\ presale_submission[d][g] # 0 /\ Share(d, g) > 0
      BY <2>1, <3>1
    <3>3. presale_submission[d][g] \in Nat
      BY DEF Inductive, TypeOK
    <3> QED
      BY <2>1, <3>2, <3>3, ClaimAccepted
  <2> QED
    BY <2>1, LaunchAccepted
<1> QED
  BY <1>1, InductiveHolds, EscrowHolds, CoinsHold, CoinsStayConserved, PTL
=============================================================================
