---------------------------- MODULE GardenProofs ----------------------------
(***************************************************************************)
(* Theorems about the contract that hold for every number of users, coins  *)
(* and payments, every deployment and every width of its integers.         *)
(***************************************************************************)
EXTENDS Garden, TLAPS

BankType == [Accounts -> [AllDenoms -> Nat]]
-----------------------------------------------------------------------------
(***************************************************************************)
(* The arithmetic and the bank.                                            *)
(***************************************************************************)

\* A fee never exceeds the payment it is taken from, its two parts are whole
\* and make it up, and so payment, fee and submission add up.
LEMMA FeeBounds ==
    ASSUME NEW amount \in Nat, NEW rate \in Nat, rate < ONE_PERCENT_BPS
    PROVE  LET fee == PresaleFee(amount, rate)
           IN  /\ fee \in 0 .. amount
               /\ Submission(amount, rate) \in Nat
               /\ Submission(amount, rate) + fee = amount
               /\ CreatorFee(fee) \in Nat /\ PlatformFee(fee) \in Nat
               /\ CreatorFee(fee) + PlatformFee(fee) = fee
<1> DEFINE fee == PresaleFee(amount, rate)
<1>1. amount * rate \in Nat /\ amount * rate <= amount * 10000
  BY DEF ONE_PERCENT_BPS
<1>2. fee \in 0 .. amount
  <2> DEFINE product == amount * rate
  <2>1. product \in Nat /\ product <= amount * 10000
    BY <1>1
  <2> HIDE DEF product
  <2>2. product \div 10000 \in 0 .. amount
    BY <2>1
  <2> QED
    BY <2>2 DEF PresaleFee, HUNDRED_PERCENT_BPS, product
<1> HIDE DEF fee
<1>3. CreatorFee(fee) \in 0 .. fee
  BY <1>2 DEF CreatorFee
<1> QED
  BY <1>2, <1>3 DEF Submission, PlatformFee, fee

\* A transfer that the sender can afford leaves whole balances and changes no
\* other denom.
LEMMA SendType ==
    ASSUME NEW b \in BankType, NEW from \in Accounts, NEW to \in Accounts,
           NEW k \in AllDenoms, NEW amount \in Nat, amount <= b[from][k]
    PROVE  /\ Send(b, from, to, k, amount) \in BankType
           /\ \A a \in Accounts, j \in AllDenoms :
                 Send(b, from, to, k, amount)[a][j] =
                    IF j = k THEN b[a][j] + (IF a = to THEN amount ELSE 0)
                                          - (IF a = from THEN amount ELSE 0)
                    ELSE b[a][j]
<1>1. ASSUME NEW a \in Accounts
      PROVE  [b[a] EXCEPT ![k] = @ + (IF a = to THEN amount ELSE 0)
                                   - (IF a = from THEN amount ELSE 0)] \in [AllDenoms -> Nat]
  BY DEF BankType
<1>2. Send(b, from, to, k, amount) \in BankType
  BY <1>1 DEF Send, BankType
<1>3. ASSUME NEW a \in Accounts, NEW j \in AllDenoms
      PROVE  Send(b, from, to, k, amount)[a][j] =
                IF j = k THEN b[a][j] + (IF a = to THEN amount ELSE 0)
                                      - (IF a = from THEN amount ELSE 0)
                ELSE b[a][j]
  BY DEF Send, BankType
<1> QED
  BY <1>2, <1>3

\* What leaves the modelled accounts leaves one balance of one account.
LEMMA WithdrawType ==
    ASSUME NEW b \in BankType, NEW from \in Accounts, NEW k \in AllDenoms,
           NEW amount \in Nat, amount <= b[from][k]
    PROVE  /\ Withdraw(b, from, k, amount) \in BankType
           /\ \A a \in Accounts, j \in AllDenoms :
                 Withdraw(b, from, k, amount)[a][j] =
                    IF a = from /\ j = k THEN b[a][j] - amount ELSE b[a][j]
BY DEF Withdraw, BankType

\* What is minted is added to one balance of one account.
LEMMA MintType ==
    ASSUME NEW b \in BankType, NEW to \in Accounts, NEW k \in AllDenoms, NEW amount \in Nat
    PROVE  /\ Mint(b, to, k, amount) \in BankType
           /\ \A a \in Accounts, j \in AllDenoms :
                 Mint(b, to, k, amount)[a][j] =
                    IF a = to /\ j = k THEN b[a][j] + amount ELSE b[a][j]
BY DEF Mint, BankType

\* What is attached to a message that asks for nothing is added to what the
\* contract has of that denom, and to what it keeps; no coin of the garden moves.
LEMMA AttachedBank ==
    ASSUME TypeOK, NEW u \in Users, NEW x \in Attachments, Keep(u, x)
    PROVE  LET b == Attached(u, x)
               more == [k \in NativeDenoms |-> IF k = x.denom THEN x.amount ELSE 0]
           IN  /\ b \in BankType
               /\ more \in [NativeDenoms -> Nat]
               /\ \A a \in Accounts, j \in Denoms : b[a][j] = bank[a][j]
               /\ \A k \in NativeDenoms : b[Garden][k] = bank[Garden][k] + more[k]
               /\ kept' \in [NativeDenoms -> Nat]
               /\ \A k \in NativeDenoms : kept'[k] = kept[k] + more[k]
<1>1. /\ u \in Accounts /\ Garden \in Accounts /\ u # Garden
      /\ x.denom \in NativeDenoms /\ x.amount \in Nat
      /\ \A k \in NativeDenoms : k \in AllDenoms /\ k \notin Denoms
      /\ Denoms \subseteq AllDenoms
  BY NamesAssumption, AmountsAssumption DEF Accounts, AllDenoms, Attachments
<1>2. bank \in BankType /\ x.amount <= bank[u][x.denom]
  BY DEF TypeOK, BankType, Keep
<1>3. /\ Attached(u, x) \in BankType
      /\ \A a \in Accounts, j \in AllDenoms :
            Attached(u, x)[a][j] =
               IF j = x.denom THEN bank[a][j] + (IF a = Garden THEN x.amount ELSE 0)
                                              - (IF a = u THEN x.amount ELSE 0)
               ELSE bank[a][j]
  BY <1>1, <1>2, SendType DEF Attached
<1>4. \A a \in Accounts, j \in Denoms : Attached(u, x)[a][j] = bank[a][j]
  BY <1>1, <1>3
<1>5. \A k \in NativeDenoms :
         Attached(u, x)[Garden][k] =
            bank[Garden][k] + (IF k = x.denom THEN x.amount ELSE 0)
  <2> SUFFICES ASSUME NEW k \in NativeDenoms
               PROVE  Attached(u, x)[Garden][k] =
                         bank[Garden][k] + (IF k = x.denom THEN x.amount ELSE 0)
    OBVIOUS
  <2>1. bank[Garden][k] \in Nat
    BY <1>1, <1>2 DEF BankType
  <2> QED
    BY <1>1, <1>3, <2>1
<1>6. /\ kept' \in [NativeDenoms -> Nat]
      /\ \A k \in NativeDenoms :
            kept'[k] = kept[k] + (IF k = x.denom THEN x.amount ELSE 0)
  BY <1>1 DEF Keep, TypeOK
<1> QED
  BY <1>1, <1>3, <1>4, <1>5, <1>6
-----------------------------------------------------------------------------
(***************************************************************************)
(* Every key and every balance keeps its type.                             *)
(***************************************************************************)

\* The state instantiate leaves is typed.
LEMMA TypeInit == Init => TypeOK
<1> SUFFICES ASSUME Init PROVE TypeOK
  OBVIOUS
<1>1. config \in ConfigType /\ ValidMsg(config)
  BY DeploymentAssumption DEF Init
<1>2. shitcoin_denom \in Seq(Denoms)
  BY DEF Init
<1>3. bank \in BankType
  <2>1. \A a \in Accounts, k \in AllDenoms :
           (IF a \in Users /\ k \in NativeDenoms THEN Wallets[a][k] ELSE 0) \in Nat
    BY AmountsAssumption
  <2> QED
    BY <2>1 DEF Init, BankType
<1> QED
  BY <1>1, <1>2, <1>3, AmountsAssumption DEF Init, TypeOK, BankType

\* A fee passes through the contract to its recipient and the supply is minted
\* to the contract: of every other denom it holds what it held before.
LEMMA CreateBank ==
    ASSUME TypeOK, NEW u \in Users, NEW t \in Tickers, NEW s \in Supplies, NEW f \in Funds,
           CreateShitcoin(u, t, s, f)
    PROVE  LET new == DenomOf[t]
               total == s * Micro
           IN  /\ bank' \in BankType
               /\ total \in 0 .. U128Max
               /\ \A j \in AllDenoms :
                     bank'[Garden][j] = IF j = new THEN bank[Garden][j] + total
                                        ELSE bank[Garden][j]
               /\ \A a \in Users, j \in Denoms : bank'[a][j] = bank[a][j]
<1> DEFINE new == DenomOf[t]
           total == s * Micro
           k == f.denom
           r == config.fee_recipient
           paid == Send(bank, u, Garden, k, f.amount)
           minted == Mint(paid, Garden, new, total)
<1>1. /\ u \in Users /\ r \in Users /\ Garden \notin Users /\ Accounts = Users \cup {Garden}
      /\ new \in Denoms /\ k \in NativeDenoms /\ Denoms \cap NativeDenoms = {}
      /\ AllDenoms = Denoms \cup NativeDenoms
      /\ f.amount \in Nat /\ bank \in BankType
  BY NamesAssumption, AmountsAssumption
  DEF Funds, AllDenoms, Accounts, TypeOK, ConfigType, BankType
<1>2. /\ f.amount <= bank[u][k]
      /\ bank' = Send(minted, Garden, r, k, f.amount)
  BY DEF CreateShitcoin, CanSend
<1>3. total \in 0 .. U128Max /\ total \in Nat
  BY AmountsAssumption DEF CreateShitcoin, FitsU128
<1> HIDE DEF new, total, k, r
<1>4. /\ paid \in BankType
      /\ \A a \in Accounts, j \in AllDenoms :
            paid[a][j] = IF j = k THEN bank[a][j] + (IF a = Garden THEN f.amount ELSE 0)
                                                  - (IF a = u THEN f.amount ELSE 0)
                         ELSE bank[a][j]
  BY <1>1, <1>2, SendType
<1> HIDE DEF paid
<1>5. /\ minted \in BankType
      /\ \A a \in Accounts, j \in AllDenoms :
            minted[a][j] = IF a = Garden /\ j = new THEN paid[a][j] + total ELSE paid[a][j]
  <2>1. Garden \in Accounts /\ new \in AllDenoms
    BY <1>1
  <2> QED
    BY <1>3, <1>4, <2>1, MintType
<1> HIDE DEF minted
<1>6. f.amount <= minted[Garden][k]
  BY <1>1, <1>4, <1>5 DEF BankType
<1>7. /\ bank' \in BankType
      /\ \A a \in Accounts, j \in AllDenoms :
            bank'[a][j] = IF j = k THEN minted[a][j] + (IF a = r THEN f.amount ELSE 0)
                                                     - (IF a = Garden THEN f.amount ELSE 0)
                          ELSE minted[a][j]
  BY <1>1, <1>2, <1>5, <1>6, SendType
<1>8. \A j \in AllDenoms :
         bank'[Garden][j] = IF j = new THEN bank[Garden][j] + total ELSE bank[Garden][j]
  <2> SUFFICES ASSUME NEW j \in AllDenoms
               PROVE  bank'[Garden][j] = IF j = new THEN bank[Garden][j] + total
                                         ELSE bank[Garden][j]
    OBVIOUS
  <2>1. Garden \in Accounts /\ Garden # u /\ Garden # r /\ k # new
    BY <1>1
  <2>2. bank[Garden][j] \in Nat
    BY <1>1, <2>1 DEF BankType
  <2>3. CASE j = k
    <3>1. paid[Garden][j] = bank[Garden][j] + f.amount
      BY <1>1, <1>4, <2>1, <2>2, <2>3
    <3>2. minted[Garden][j] = bank[Garden][j] + f.amount
      BY <1>5, <2>1, <2>3, <3>1
    <3>3. bank'[Garden][j] = minted[Garden][j] - f.amount
      BY <1>1, <1>7, <2>1, <2>2, <2>3, <3>2
    <3> QED
      BY <1>1, <2>1, <2>2, <2>3, <3>2, <3>3
  <2>4. CASE j # k
    BY <1>4, <1>5, <1>7, <2>1, <2>4
  <2> QED
    BY <2>3, <2>4
<1>9. \A a \in Users, j \in Denoms : bank'[a][j] = bank[a][j]
  BY <1>1, <1>4, <1>5, <1>7
<1> QED
  BY <1>3, <1>7, <1>8, <1>9 DEF new, total

\* create_shitcoin keeps every type: its guards bound the supply and the deadline.
LEMMA TypeCreate ==
    ASSUME TypeOK, NEW u \in Users, NEW t \in Tickers, NEW s \in Supplies, NEW f \in Funds,
           CreateShitcoin(u, t, s, f)
    PROVE  TypeOK'
<1> DEFINE d == DenomOf[t]
           total == s * Micro
<1>1. d \in Denoms
  BY NamesAssumption
<1>2. bank' \in BankType /\ total \in 0 .. U128Max
  BY CreateBank
<1>3. now + config.presale_length \in 0 .. U64Max
  BY AmountsAssumption DEF CreateShitcoin, FitsU64, TypeOK, ConfigType
<1>4. /\ factory' \subseteq Denoms
      /\ pool' \in [Denoms -> [shitcoin : Nat, presale : Nat] \cup {None}]
  BY <1>1 DEF CreateShitcoin, CreateDenomAndPair, TypeOK
<1>5. shitcoin_denom' \in Seq(Denoms)
  BY <1>1 DEF CreateShitcoin, TypeOK
<1>6. denom_metadata' \in [Denoms -> [symbol : Tickers \cup {None}, uri : Urls \cup {None}]]
  BY <1>1 DEF CreateShitcoin, SetDenomMetadata, TypeOK
<1>7. /\ shitcoin_creator' \in [Denoms -> Users \cup {None}]
      /\ shitcoin_ticker' \in [Denoms -> Tickers \cup {None}]
  BY <1>1 DEF CreateShitcoin, TypeOK
<1>8. shitcoin_supply' \in [Denoms -> 0 .. U128Max]
  <2> HIDE DEF total, d
  <2> QED
    BY <1>1, <1>2 DEF CreateShitcoin, TypeOK, total, d
<1>9. /\ presale_end' \in [Denoms -> 0 .. U64Max]
      /\ presale_raise' \in [Denoms -> 0 .. U128Max]
  BY <1>1, <1>3, AmountsAssumption DEF CreateShitcoin, TypeOK
<1>10. UNCHANGED <<config, now, shitcoin_launched, shitcoin_url, presale_submission,
                   presale_claimed, kept>>
  BY DEF CreateShitcoin
<1> QED
  BY <1>2, <1>4, <1>5, <1>6, <1>7, <1>8, <1>9, <1>10 DEF TypeOK, ValidMsg, BankType

\* Of a payment to a presale exactly the submission stays with the contract:
\* the parts of the fee go out again, and no other denom moves.
LEMMA EnterBank ==
    ASSUME TypeOK, NEW u \in Users, NEW d \in Denoms, NEW f \in Funds, EnterPresale(u, d, f)
    PROVE  LET k == config.presale_denom
               submission == Submission(f.amount, config.presale_fee_rate)
           IN  /\ bank' \in BankType
               /\ submission \in Nat
               /\ bank'[Garden][k] = bank[Garden][k] + submission
               /\ \A a \in Accounts, j \in AllDenoms : j # k => bank'[a][j] = bank[a][j]
<1> DEFINE k == config.presale_denom
           c == shitcoin_creator[d]
           r == config.fee_recipient
           fee == PresaleFee(f.amount, config.presale_fee_rate)
           submission == Submission(f.amount, config.presale_fee_rate)
           paid == Send(bank, u, Garden, k, f.amount)
           creatorPaid == Send(paid, Garden, c, k, CreatorFee(fee))
<1>1. /\ u \in Users /\ c \in Users /\ r \in Users /\ Garden \notin Users
      /\ k \in AllDenoms /\ f.amount \in Nat /\ bank \in BankType
      /\ Accounts = Users \cup {Garden}
  BY NamesAssumption, AmountsAssumption
  DEF Funds, AllDenoms, Accounts, TypeOK, ConfigType, BankType, EnterPresale, Created
<1>2. /\ config.presale_fee_rate \in Nat /\ config.presale_fee_rate < ONE_PERCENT_BPS
      /\ f.amount <= bank[u][k]
      /\ CreatorFee(fee) <= paid[Garden][k]
      /\ PlatformFee(fee) <= creatorPaid[Garden][k]
      /\ bank' = Send(creatorPaid, Garden, r, k, PlatformFee(fee))
  BY DEF TypeOK, ConfigType, ValidMsg, EnterPresale, CanSend
<1>3. /\ fee \in 0 .. f.amount
      /\ submission \in Nat /\ submission + fee = f.amount
      /\ CreatorFee(fee) \in Nat /\ PlatformFee(fee) \in Nat
      /\ CreatorFee(fee) + PlatformFee(fee) = fee
  BY <1>1, <1>2, FeeBounds
<1> HIDE DEF k, c, r, fee, submission
<1>4. /\ paid \in BankType
      /\ paid[Garden][k] = bank[Garden][k] + f.amount
      /\ \A a \in Accounts, j \in AllDenoms : j # k => paid[a][j] = bank[a][j]
  <2>1. /\ paid \in BankType
        /\ \A a \in Accounts, j \in AllDenoms :
              paid[a][j] = IF j = k THEN bank[a][j] + (IF a = Garden THEN f.amount ELSE 0)
                                                    - (IF a = u THEN f.amount ELSE 0)
                           ELSE bank[a][j]
    BY <1>1, <1>2, SendType
  <2> HIDE DEF paid
  <2> QED
    BY <1>1, <2>1 DEF BankType
<1> HIDE DEF paid
<1>5. /\ creatorPaid \in BankType
      /\ creatorPaid[Garden][k] = bank[Garden][k] + f.amount - CreatorFee(fee)
      /\ \A a \in Accounts, j \in AllDenoms : j # k => creatorPaid[a][j] = bank[a][j]
  <2>1. /\ creatorPaid \in BankType
        /\ \A a \in Accounts, j \in AllDenoms :
              creatorPaid[a][j] =
                 IF j = k THEN paid[a][j] + (IF a = c THEN CreatorFee(fee) ELSE 0)
                                          - (IF a = Garden THEN CreatorFee(fee) ELSE 0)
                 ELSE paid[a][j]
    <3>1. /\ c \in Accounts /\ Garden \in Accounts /\ k \in AllDenoms
          /\ CreatorFee(fee) <= paid[Garden][k]
      BY <1>1, <1>2
    <3>2. paid \in BankType /\ CreatorFee(fee) \in Nat
      BY <1>3, <1>4
    <3> QED
      BY <3>1, <3>2, SendType
  <2> HIDE DEF creatorPaid
  <2> QED
    BY <1>1, <1>3, <1>4, <2>1 DEF BankType
<1> HIDE DEF creatorPaid
<1>6. /\ bank' \in BankType
      /\ \A a \in Accounts, j \in AllDenoms :
            bank'[a][j] =
               IF j = k THEN creatorPaid[a][j] + (IF a = r THEN PlatformFee(fee) ELSE 0)
                                               - (IF a = Garden THEN PlatformFee(fee) ELSE 0)
               ELSE creatorPaid[a][j]
  <2>1. /\ r \in Accounts /\ Garden \in Accounts
        /\ k \in AllDenoms /\ PlatformFee(fee) <= creatorPaid[Garden][k]
        /\ bank' = Send(creatorPaid, Garden, r, k, PlatformFee(fee))
    BY <1>1, <1>2
  <2>2. creatorPaid \in BankType /\ PlatformFee(fee) \in Nat
    BY <1>3, <1>5
  <2> QED
    BY <2>1, <2>2, SendType
<1>7. bank'[Garden][k] = bank[Garden][k] + submission
  BY <1>1, <1>3, <1>5, <1>6 DEF BankType
<1> QED
  BY <1>3, <1>5, <1>6, <1>7 DEF k, submission

\* enter_presale keeps every type: its guards bound the raise and the transfers.
LEMMA TypeEnter ==
    ASSUME TypeOK, NEW u \in Users, NEW d \in Denoms, NEW f \in Funds, EnterPresale(u, d, f)
    PROVE  TypeOK'
<1> DEFINE submission == Submission(f.amount, config.presale_fee_rate)
<1>1. bank' \in BankType /\ submission \in Nat
  BY EnterBank
<1>2. RecordSubmission(d, u, submission)
  BY DEF EnterPresale
<1> HIDE DEF submission
<1>3. /\ presale_raise' \in [Denoms -> 0 .. U128Max]
      /\ presale_submission' \in [Denoms -> [Users -> Nat]]
  BY <1>1, <1>2, AmountsAssumption DEF RecordSubmission, FitsU128, TypeOK
<1>4. UNCHANGED <<config, now, coinVars, shitcoin_launched, presale_end, presale_claimed,
                  factory, pool, kept, urlVars>>
  BY DEF EnterPresale
<1> QED
  BY <1>1, <1>3, <1>4 DEF TypeOK, ValidMsg, BankType, coinVars, urlVars

\* extend_presale keeps every type: its guard bounds the deadline.
LEMMA TypeExtend ==
    ASSUME TypeOK, NEW u \in Users, NEW d \in Denoms, NEW x \in Attachments,
           ExtendPresale(u, d, x)
    PROVE  TypeOK'
<1>1. now + config.presale_length \in 0 .. U64Max
  BY AmountsAssumption DEF ExtendPresale, FitsU64, TypeOK, ConfigType
<1>2. presale_end' \in [Denoms -> 0 .. U64Max]
  BY <1>1 DEF ExtendPresale, TypeOK
<1>3. bank' \in BankType /\ kept' \in [NativeDenoms -> Nat]
  BY AttachedBank DEF ExtendPresale
<1> QED
  BY <1>2, <1>3 DEF ExtendPresale, TypeOK, ValidMsg, BankType, coinVars, urlVars

\* Half of a supply is a whole number of units, and so is what is left of it.
LEMMA HalfBounds ==
    ASSUME NEW supply \in Nat
    PROVE  Half(supply) \in 0 .. supply
BY DEF Half

\* A launch takes half the supply of its coin and the whole raise out of the
\* contract, which keeps what was attached; no other coin moves.
LEMMA LaunchBank ==
    ASSUME TypeOK, NEW u \in Users, NEW d \in Denoms, NEW x \in Attachments,
           LaunchShitcoin(u, d, x)
    PROVE  LET half == Half(shitcoin_supply[d])
               more == [k \in NativeDenoms |-> IF k = x.denom THEN x.amount ELSE 0]
           IN  /\ bank' \in BankType
               /\ half \in Nat /\ half <= bank[Garden][d]
               /\ \A a \in Accounts, j \in Denoms :
                     bank'[a][j] = IF a = Garden /\ j = d THEN bank[a][j] - half
                                   ELSE bank[a][j]
               /\ \A k \in NativeDenoms :
                     bank'[Garden][k] =
                        bank[Garden][k] + more[k]
                           - (IF k = config.presale_denom THEN presale_raise[d] ELSE 0)
<1> DEFINE half == Half(shitcoin_supply[d])
           raise == presale_raise[d]
           k == config.presale_denom
           more == [j \in NativeDenoms |-> IF j = x.denom THEN x.amount ELSE 0]
           b == Attached(u, x)
           seeded == Withdraw(b, Garden, d, half)
<1>1. /\ Garden \in Accounts /\ d \in AllDenoms /\ k \in AllDenoms /\ k # d
      /\ raise \in Nat /\ Denoms \subseteq AllDenoms /\ NativeDenoms \subseteq AllDenoms
      /\ k \notin Denoms /\ d \notin NativeDenoms
  <2>1. k \in NativeDenoms
    BY DEF TypeOK, ConfigType
  <2>2. raise \in Nat
    BY AmountsAssumption DEF TypeOK
  <2> QED
    BY <2>1, <2>2, NamesAssumption DEF Accounts, AllDenoms
<1>2. half \in Nat
  BY HalfBounds, AmountsAssumption DEF TypeOK
<1>3. /\ half <= b[Garden][d] /\ raise <= b[Garden][k]
      /\ bank' = Withdraw(seeded, Garden, k, raise)
      /\ Keep(u, x)
  BY DEF LaunchShitcoin, CanLaunch, CanProvide, ProvideLiquidity
<1>4. /\ b \in BankType /\ more \in [NativeDenoms -> Nat]
      /\ \A a \in Accounts, j \in Denoms : b[a][j] = bank[a][j]
      /\ \A j \in NativeDenoms : b[Garden][j] = bank[Garden][j] + more[j]
  BY <1>3, AttachedBank
<1> HIDE DEF half, raise, k, more, b
<1>5. /\ seeded \in BankType
      /\ \A a \in Accounts, j \in AllDenoms :
            seeded[a][j] = IF a = Garden /\ j = d THEN b[a][j] - half ELSE b[a][j]
  BY <1>1, <1>2, <1>3, <1>4, WithdrawType
<1> HIDE DEF seeded
<1>6. raise <= seeded[Garden][k]
  BY <1>1, <1>3, <1>5
<1>7. /\ bank' \in BankType
      /\ \A a \in Accounts, j \in AllDenoms :
            bank'[a][j] = IF a = Garden /\ j = k THEN seeded[a][j] - raise ELSE seeded[a][j]
  BY <1>1, <1>3, <1>5, <1>6, WithdrawType
<1>8. \A a \in Accounts, j \in Denoms :
         bank'[a][j] = IF a = Garden /\ j = d THEN bank[a][j] - half ELSE bank[a][j]
  BY <1>1, <1>4, <1>5, <1>7
<1>9. \A j \in NativeDenoms :
         bank'[Garden][j] = bank[Garden][j] + more[j] - (IF j = k THEN raise ELSE 0)
  <2> SUFFICES ASSUME NEW j \in NativeDenoms
               PROVE  bank'[Garden][j] =
                         bank[Garden][j] + more[j] - (IF j = k THEN raise ELSE 0)
    OBVIOUS
  <2>1. bank[Garden][j] \in Nat /\ more[j] \in Nat
    BY <1>1, <1>4 DEF TypeOK
  <2> QED
    BY <1>1, <1>4, <1>5, <1>7, <2>1
<1>10. half <= bank[Garden][d]
  BY <1>1, <1>3, <1>4
<1> QED
  BY <1>2, <1>7, <1>8, <1>9, <1>10 DEF half, raise, k, more

\* launch_shitcoin keeps every type: the pair only takes what the contract has.
LEMMA TypeLaunch ==
    ASSUME TypeOK, NEW u \in Users, NEW d \in Denoms, NEW x \in Attachments,
           LaunchShitcoin(u, d, x)
    PROVE  TypeOK'
<1> DEFINE half == Half(shitcoin_supply[d])
<1>1. bank' \in BankType
  BY LaunchBank
<1>2. half \in Nat /\ presale_raise[d] \in Nat
  BY HalfBounds, AmountsAssumption DEF TypeOK
<1>3. /\ pool[d] # None /\ ProvideLiquidity(d, half, presale_raise[d])
      /\ Keep(u, x)
  BY DEF LaunchShitcoin, CanLaunch, CanProvide
<1> HIDE DEF half
<1>4. pool' \in [Denoms -> [shitcoin : Nat, presale : Nat] \cup {None}]
  <2>1. pool[d] \in [shitcoin : Nat, presale : Nat]
    BY <1>3 DEF TypeOK
  <2>2. pool' = [pool EXCEPT ![d] = [shitcoin |-> pool[d].shitcoin + half,
                                     presale |-> pool[d].presale + presale_raise[d]]]
    BY <1>3 DEF ProvideLiquidity, TypeOK
  <2> QED
    BY <1>2, <2>1, <2>2 DEF TypeOK
<1>5. /\ shitcoin_launched' \in [Denoms -> BOOLEAN]
      /\ UNCHANGED <<config, now, coinVars, presale_end, presale_raise, presale_submission,
                     presale_claimed, factory, urlVars>>
  BY DEF LaunchShitcoin, TypeOK
<1>6. kept' \in [NativeDenoms -> Nat]
  BY <1>3, AttachedBank
<1> QED
  BY <1>1, <1>4, <1>5, <1>6 DEF TypeOK, ValidMsg, BankType, coinVars, urlVars

\* The share of a degen is a whole number of units.
LEMMA ShareType ==
    ASSUME TypeOK, NEW d \in Denoms, NEW g \in Users, presale_raise[d] > 0
    PROVE  Share(d, g) \in Nat
<1> DEFINE half == Half(shitcoin_supply[d])
<1>1. half \in Nat /\ presale_submission[d][g] \in Nat /\ presale_raise[d] \in Nat \ {0}
  BY HalfBounds, AmountsAssumption DEF TypeOK
<1> HIDE DEF half
<1>2. half * presale_submission[d][g] \in Nat
  BY <1>1
<1> DEFINE product == half * presale_submission[d][g]
<1> HIDE DEF product
<1>3. product \div presale_raise[d] \in Nat
  BY <1>1, <1>2 DEF product
<1> QED
  BY <1>3 DEF Share, Claimable, product, half

\* A share divides by the raise: it is the submission of whoever claims, and
\* SubmissionsInRaise, that make the raise positive.
LEMMA TypeClaim ==
    ASSUME TypeOK, SubmissionsInRaise, NEW u \in Users, NEW d \in Denoms, NEW x \in Attachments,
           ClaimShitcoin(u, d, x)
    PROVE  TypeOK'
<1> DEFINE share == Share(d, u)
<1>1. share \in Nat
  <2>1. presale_submission[d][u] > 0
    BY DEF ClaimShitcoin, CanClaim
  <2>2. presale_raise[d] > 0
    BY <2>1, AmountsAssumption DEF SubmissionsInRaise, TypeOK
  <2> QED
    BY <2>2, ShareType
<1>2. /\ share <= Attached(u, x)[Garden][d] /\ Keep(u, x)
      /\ bank' = Send(Attached(u, x), Garden, u, d, share)
      /\ presale_claimed' = [presale_claimed EXCEPT ![d][u] = TRUE]
      /\ UNCHANGED <<config, now, coinVars, shitcoin_launched, presale_end, presale_raise,
                     presale_submission, factory, pool, urlVars>>
  BY DEF ClaimShitcoin, CanClaim, CanSend, MarkClaimed
<1> HIDE DEF share
<1>3. bank' \in BankType /\ kept' \in [NativeDenoms -> Nat]
  <2>1. Garden \in Accounts /\ u \in Accounts /\ d \in AllDenoms
    BY DEF Accounts, AllDenoms
  <2>2. Attached(u, x) \in BankType /\ kept' \in [NativeDenoms -> Nat]
    BY <1>2, AttachedBank
  <2> QED
    BY <1>1, <1>2, <2>1, <2>2, SendType
<1>4. presale_claimed' \in [Denoms -> [Users -> BOOLEAN]]
  BY <1>2 DEF TypeOK
<1> QED
  BY <1>2, <1>3, <1>4 DEF TypeOK, ValidMsg, BankType, coinVars, urlVars

\* set_shitcoin_url keeps every type.
LEMMA TypeUrl ==
    ASSUME TypeOK, NEW u \in Users, NEW d \in Denoms, NEW url \in Urls, NEW x \in Attachments,
           SetShitcoinUrl(u, d, url, x)
    PROVE  TypeOK'
<1>1. shitcoin_url' \in [Denoms -> Urls \cup {None}]
  BY DEF SetShitcoinUrl, TypeOK
<1>2. denom_metadata' \in [Denoms -> [symbol : Tickers \cup {None}, uri : Urls \cup {None}]]
  BY DEF SetShitcoinUrl, SetDenomMetadata, TypeOK
<1>3. bank' \in BankType /\ kept' \in [NativeDenoms -> Nat]
  BY AttachedBank DEF SetShitcoinUrl
<1> QED
  BY <1>1, <1>2, <1>3 DEF SetShitcoinUrl, TypeOK, ValidMsg, BankType, coinVars, saleVars

\* Time passes within its width.
LEMMA TypeTick == ASSUME TypeOK, Tick PROVE TypeOK'
<1>1. now' \in 0 .. U64Max
  BY AmountsAssumption DEF Tick, TypeOK
<1> QED
  BY <1>1 DEF Tick, TypeOK, ValidMsg, BankType, coinVars, saleVars, chainVars, urlVars

-----------------------------------------------------------------------------
(***************************************************************************)
(* The other parts of Inductive, one lemma for each and one step for each  *)
(* handler that disturbs it.                                               *)
(***************************************************************************)

\* The handlers other than create_shitcoin leave the registry alone.
LEMMA RegistryFrame ==
    ASSUME [Next]_vars,
           ~ \E u \in Users, t \in Tickers, s \in Supplies, f \in Funds :
                CreateShitcoin(u, t, s, f)
    PROVE  UNCHANGED <<coinVars, factory>>
BY DEF Next, EnterPresale, ExtendPresale, LaunchShitcoin, ClaimShitcoin, SetShitcoinUrl, Tick,
       coinVars, chainVars, vars

\* What create_shitcoin does to the registry: the denom is new to the factory,
\* and so to every key.
LEMMA RegistryCreate ==
    ASSUME TypeOK, ListedOnce, NEW u \in Users, NEW t \in Tickers, NEW s \in Supplies,
           NEW f \in Funds, CreateShitcoin(u, t, s, f)
    PROVE  /\ DenomOf[t] \in Denoms /\ ~Created(DenomOf[t])
           /\ \A d \in Denoms : Created(d)' <=> (d = DenomOf[t] \/ Created(d))
           /\ ListedOnce'
<1> DEFINE new == DenomOf[t]
<1>1. new \in Denoms
  BY NamesAssumption
<1>2. ~Created(new)
  BY <1>1 DEF CreateShitcoin, CreateDenomAndPair, ListedOnce
<1>3. \A d \in Denoms : Created(d)' <=> (d = new \/ Created(d))
  BY <1>1, NamesAssumption DEF CreateShitcoin, TypeOK, Created
<1>4. /\ shitcoin_denom' = Append(shitcoin_denom, new)
      /\ factory' = factory \cup {new}
  BY DEF CreateShitcoin, CreateDenomAndPair
<1> HIDE DEF new
<1> DEFINE n == Len(shitcoin_denom)
<1>5. /\ n \in Nat /\ DOMAIN shitcoin_denom = 1 .. n /\ DOMAIN shitcoin_denom' = 1 .. n + 1
      /\ shitcoin_denom'[n + 1] = new
      /\ \A i \in 1 .. n : shitcoin_denom'[i] = shitcoin_denom[i]
  BY <1>1, <1>4 DEF TypeOK
<1> HIDE DEF n
<1>6. \A i \in 1 .. n : Created(shitcoin_denom[i])
  BY <1>5 DEF ListedOnce
<1>7. \A i, j \in 1 .. n + 1 : shitcoin_denom'[i] = shitcoin_denom'[j] => i = j
  <2>1. \A i \in 1 .. n : shitcoin_denom[i] # new
    BY <1>2, <1>6
  <2>2. \A i \in 1 .. n + 1 : i \in 1 .. n \/ i = n + 1
    BY <1>5
  <2>3. \A i, j \in 1 .. n : shitcoin_denom[i] = shitcoin_denom[j] => i = j
    BY <1>5 DEF ListedOnce
  <2> QED
    BY <1>5, <2>1, <2>2, <2>3
<1>8. {shitcoin_denom'[i] : i \in 1 .. n + 1} = {shitcoin_denom[i] : i \in 1 .. n} \cup {new}
  <2>1. \A i \in 1 .. n + 1 : i \in 1 .. n \/ i = n + 1
    BY <1>5
  <2>2. \A i \in 1 .. n : i \in 1 .. n + 1
    BY <1>5
  <2>3. n + 1 \in 1 .. n + 1
    BY <1>5
  <2> QED
    BY <1>5, <2>1, <2>2, <2>3
<1>9. /\ {shitcoin_denom'[i] : i \in DOMAIN shitcoin_denom'} = {d \in Denoms : Created(d)'}
      /\ factory' = {d \in Denoms : Created(d)'}
  BY <1>1, <1>3, <1>4, <1>5, <1>8 DEF ListedOnce
<1>10. ListedOnce'
  BY <1>5, <1>7, <1>9 DEF ListedOnce
<1> QED
  BY <1>1, <1>2, <1>3, <1>10 DEF new

\* Every transaction keeps the list, the keys and the factory in step.
LEMMA ListedOnceStep ==
    ASSUME TypeOK, ListedOnce, [Next]_vars
    PROVE  ListedOnce'
<1>1. CASE \E u \in Users, t \in Tickers, s \in Supplies, f \in Funds :
              CreateShitcoin(u, t, s, f)
  BY <1>1, RegistryCreate
<1>2. CASE ~ \E u \in Users, t \in Tickers, s \in Supplies, f \in Funds :
              CreateShitcoin(u, t, s, f)
  BY <1>2, RegistryFrame DEF ListedOnce, Created, coinVars
<1> QED
  BY <1>1, <1>2

\* How enter_presale moves the two figures it keeps for a degen.
LEMMA EnterFigures ==
    ASSUME TypeOK, NEW u \in Users, NEW d \in Denoms, NEW f \in Funds, EnterPresale(u, d, f)
    PROVE  LET submission == Submission(f.amount, config.presale_fee_rate)
           IN  /\ submission \in Nat /\ Created(d) /\ ~Ended(d)
               /\ presale_raise' = [presale_raise EXCEPT ![d] = @ + submission]
               /\ presale_submission' = [presale_submission EXCEPT ![d][u] = @ + submission]
<1>1. Submission(f.amount, config.presale_fee_rate) \in Nat
  BY EnterBank
<1> QED
  BY <1>1 DEF EnterPresale, RecordSubmission

\* No transaction keeps anything about a coin that was not created.
LEMMA NothingBeforeCreateStep ==
    ASSUME TypeOK, ListedOnce, NothingBeforeCreate, [Next]_vars
    PROVE  NothingBeforeCreate'
<1>1. ASSUME NEW u \in Users, NEW t \in Tickers, NEW s \in Supplies, NEW f \in Funds,
             CreateShitcoin(u, t, s, f)
      PROVE  NothingBeforeCreate'
  <2>1. \A d \in Denoms : Created(d)' <=> (d = DenomOf[t] \/ Created(d))
    BY <1>1, RegistryCreate
  <2>2. \A d \in Denoms : d # DenomOf[t] => presale_raise'[d] = presale_raise[d]
    BY <1>1 DEF CreateShitcoin, TypeOK
  <2> QED
    BY <1>1, <2>1, <2>2 DEF CreateShitcoin, NothingBeforeCreate
<1>2. ASSUME NEW u \in Users, NEW c \in Denoms, NEW f \in Funds, EnterPresale(u, c, f)
      PROVE  NothingBeforeCreate'
  <2>1. /\ Created(c)
        /\ UNCHANGED <<shitcoin_creator, shitcoin_launched, presale_claimed>>
    BY <1>2 DEF EnterPresale, coinVars
  <2>2. \A d \in Denoms : d # c => /\ presale_raise'[d] = presale_raise[d]
                                   /\ presale_submission'[d] = presale_submission[d]
    BY <1>2, EnterFigures DEF TypeOK
  <2> QED
    BY <2>1, <2>2 DEF NothingBeforeCreate, Created
<1>3. ASSUME NEW u \in Users, NEW c \in Denoms, NEW x \in Attachments,
             LaunchShitcoin(u, c, x) PROVE NothingBeforeCreate'
  BY <1>3 DEF LaunchShitcoin, CanLaunch, NothingBeforeCreate, Created, TypeOK, coinVars
<1>4. ASSUME NEW u \in Users, NEW c \in Denoms, NEW x \in Attachments,
             ClaimShitcoin(u, c, x)
      PROVE  NothingBeforeCreate'
  BY <1>4 DEF ClaimShitcoin, CanClaim, MarkClaimed, NothingBeforeCreate, Created, TypeOK, coinVars
<1>5. ASSUME NEW u \in Users, NEW c \in Denoms, NEW x \in Attachments,
             ExtendPresale(u, c, x) PROVE NothingBeforeCreate'
  BY <1>5 DEF ExtendPresale, NothingBeforeCreate, Created, coinVars
<1>6. ASSUME NEW u \in Users, NEW c \in Denoms, NEW url \in Urls, NEW x \in Attachments,
             SetShitcoinUrl(u, c, url, x)
      PROVE  NothingBeforeCreate'
  BY <1>6 DEF SetShitcoinUrl, NothingBeforeCreate, Created, coinVars, saleVars
<1>7. CASE Tick \/ UNCHANGED vars
  BY <1>7 DEF Tick, vars, NothingBeforeCreate, Created, coinVars, saleVars
<1> QED
  BY <1>1, <1>2, <1>3, <1>4, <1>5, <1>6, <1>7 DEF Next

\* Every transaction keeps each submission within the raise.
LEMMA SubmissionsInRaiseStep ==
    ASSUME TypeOK, ListedOnce, NothingBeforeCreate, SubmissionsInRaise, [Next]_vars
    PROVE  SubmissionsInRaise'
<1>1. ASSUME NEW u \in Users, NEW t \in Tickers, NEW s \in Supplies, NEW f \in Funds,
             CreateShitcoin(u, t, s, f)
      PROVE  SubmissionsInRaise'
  <2>1. /\ DenomOf[t] \in Denoms
        /\ \A g \in Users : presale_submission[DenomOf[t]][g] = 0
    BY <1>1, RegistryCreate DEF NothingBeforeCreate
  <2>2. /\ presale_submission' = presale_submission
        /\ presale_raise' = [presale_raise EXCEPT ![DenomOf[t]] = 0]
    BY <1>1 DEF CreateShitcoin
  <2> QED
    BY <2>1, <2>2, AmountsAssumption DEF SubmissionsInRaise, TypeOK
<1>2. ASSUME NEW u \in Users, NEW c \in Denoms, NEW f \in Funds, EnterPresale(u, c, f)
      PROVE  SubmissionsInRaise'
  <2> DEFINE submission == Submission(f.amount, config.presale_fee_rate)
  <2>1. /\ submission \in Nat
        /\ presale_raise' = [presale_raise EXCEPT ![c] = @ + submission]
        /\ presale_submission' = [presale_submission EXCEPT ![c][u] = @ + submission]
    BY <1>2, EnterFigures
  <2> HIDE DEF submission
  <2> SUFFICES ASSUME NEW d \in Denoms, NEW g \in Users
               PROVE  presale_submission'[d][g] <= presale_raise'[d]
    BY DEF SubmissionsInRaise
  <2>2. /\ presale_submission[d][g] \in Nat /\ presale_raise[d] \in Nat
        /\ presale_submission[d][g] <= presale_raise[d]
    BY AmountsAssumption DEF SubmissionsInRaise, TypeOK
  <2>3. presale_raise'[d] = IF d = c THEN presale_raise[d] + submission ELSE presale_raise[d]
    BY <2>1 DEF TypeOK
  <2>4. presale_submission'[d][g] =
           IF d = c /\ g = u THEN presale_submission[d][g] + submission
           ELSE presale_submission[d][g]
    BY <2>1 DEF TypeOK
  <2> QED
    BY <2>1, <2>2, <2>3, <2>4
<1>3. CASE \/ \E u \in Users, d \in Denoms, x \in Attachments :
                 ExtendPresale(u, d, x) \/ LaunchShitcoin(u, d, x)
           \/ \E u \in Users, d \in Denoms, x \in Attachments : ClaimShitcoin(u, d, x)
           \/ \E u \in Users, d \in Denoms, x \in Attachments, url \in Urls :
                 SetShitcoinUrl(u, d, url, x)
           \/ Tick
           \/ UNCHANGED vars
  BY <1>3 DEF ExtendPresale, LaunchShitcoin, ClaimShitcoin, SetShitcoinUrl, Tick, vars,
              SubmissionsInRaise, saleVars
<1> QED
  BY <1>1, <1>2, <1>3 DEF Next

\* With a dex that refuses an empty side every transaction keeps the pairs as
\* the launches left them.
LEMMA PairsFollowLaunchStep ==
    ASSUME TypeOK, ListedOnce, NothingBeforeCreate, PairsFollowLaunch, [Next]_vars,
           ~DexAcceptsEmptySide
    PROVE  PairsFollowLaunch'
<1>1. ASSUME NEW u \in Users, NEW t \in Tickers, NEW s \in Supplies, NEW f \in Funds,
             CreateShitcoin(u, t, s, f)
      PROVE  PairsFollowLaunch'
  <2> DEFINE new == DenomOf[t]
  <2>1. /\ new \in Denoms /\ ~shitcoin_launched[new]
        /\ \A d \in Denoms : Created(d)' <=> (d = new \/ Created(d))
    BY <1>1, RegistryCreate DEF NothingBeforeCreate
  <2>2. pool'[new] = [shitcoin |-> 0, presale |-> 0]
    BY <1>1, <2>1 DEF CreateShitcoin, CreateDenomAndPair, TypeOK
  <2>3. \A d \in Denoms : d # new =>
           /\ pool'[d] = pool[d] /\ presale_raise'[d] = presale_raise[d]
           /\ presale_end'[d] = presale_end[d] /\ shitcoin_supply'[d] = shitcoin_supply[d]
    BY <1>1 DEF CreateShitcoin, CreateDenomAndPair, TypeOK
  <2>4. now' = now /\ shitcoin_launched' = shitcoin_launched
    BY <1>1 DEF CreateShitcoin
  <2> HIDE DEF new
  <2> QED
    BY <2>1, <2>2, <2>3, <2>4 DEF PairsFollowLaunch, Ended
<1>2. ASSUME NEW u \in Users, NEW c \in Denoms, NEW f \in Funds, EnterPresale(u, c, f)
      PROVE  PairsFollowLaunch'
  <2>1. /\ Created(c) /\ ~Ended(c)
        /\ \A d \in Denoms : d # c => presale_raise'[d] = presale_raise[d]
    BY <1>2, EnterFigures DEF TypeOK
  <2>2. ~shitcoin_launched[c]
    BY <2>1 DEF PairsFollowLaunch
  <2>3. UNCHANGED <<now, shitcoin_creator, shitcoin_supply, shitcoin_launched, presale_end, pool>>
    BY <1>2 DEF EnterPresale, coinVars
  <2> QED
    BY <2>1, <2>2, <2>3 DEF PairsFollowLaunch, Created, Ended
<1>3. ASSUME NEW u \in Users, NEW c \in Denoms, NEW x \in Attachments,
             ExtendPresale(u, c, x) PROVE PairsFollowLaunch'
  <2>1. Created(c) /\ presale_raise[c] = 0
    BY <1>3 DEF ExtendPresale, Extendable
  <2>2. ~shitcoin_launched[c]
    <3>1. shitcoin_launched[c] => presale_raise[c] > 0
      BY <2>1 DEF PairsFollowLaunch
    <3> QED
      BY <2>1, <3>1
  <2>3. \A d \in Denoms : d # c => presale_end'[d] = presale_end[d]
    BY <1>3 DEF ExtendPresale, TypeOK
  <2>4. UNCHANGED <<now, shitcoin_creator, shitcoin_supply, shitcoin_launched, presale_raise, pool>>
    BY <1>3 DEF ExtendPresale, coinVars, chainVars
  <2> QED
    BY <2>2, <2>3, <2>4 DEF PairsFollowLaunch, Created, Ended
<1>4. ASSUME NEW u \in Users, NEW c \in Denoms, NEW x \in Attachments,
             LaunchShitcoin(u, c, x) PROVE PairsFollowLaunch'
  <2> DEFINE half == Half(shitcoin_supply[c])
             raise == presale_raise[c]
  <2>1. /\ Created(c) /\ Ended(c) /\ ~shitcoin_launched[c]
        /\ CanProvide(Attached(u, x), c, half, raise) /\ ProvideLiquidity(c, half, raise)
        /\ shitcoin_launched' = [shitcoin_launched EXCEPT ![c] = TRUE]
        /\ UNCHANGED <<now, shitcoin_creator, shitcoin_supply, presale_end, presale_raise>>
    BY <1>4 DEF LaunchShitcoin, CanLaunch, coinVars
  <2>2. half \in Nat /\ raise \in Nat
    BY HalfBounds, AmountsAssumption DEF TypeOK
  <2> HIDE DEF half
  <2>3. pool[c] = [shitcoin |-> 0, presale |-> 0]
    BY <2>1 DEF PairsFollowLaunch
  <2>4. pool' = [pool EXCEPT ![c] = [shitcoin |-> pool[c].shitcoin + half,
                                     presale |-> pool[c].presale + raise]]
    BY <2>1 DEF ProvideLiquidity, TypeOK
  <2>5. /\ pool'[c] = [shitcoin |-> half, presale |-> raise]
        /\ \A d \in Denoms : d # c => pool'[d] = pool[d]
    BY <2>2, <2>3, <2>4 DEF TypeOK
  <2>6. raise > 0
    BY <2>1 DEF CanProvide
  <2>7. /\ shitcoin_launched'[c]
        /\ \A d \in Denoms : d # c => shitcoin_launched'[d] = shitcoin_launched[d]
    BY <2>1 DEF TypeOK
  <2> QED
    BY <2>1, <2>5, <2>6, <2>7 DEF PairsFollowLaunch, Created, Ended, half
<1>5. CASE Tick
  <2>1. UNCHANGED <<coinVars, saleVars, chainVars>> /\ now' = now + 1
    BY <1>5 DEF Tick
  <2>2. now \in Nat /\ \A d \in Denoms : presale_end[d] \in Nat
    BY AmountsAssumption DEF TypeOK
  <2>3. \A d \in Denoms : Ended(d) => Ended(d)'
    BY <2>1, <2>2 DEF Ended, saleVars
  <2> QED
    BY <2>1, <2>3 DEF PairsFollowLaunch, Created, coinVars, saleVars, chainVars
<1>6. CASE \/ \E u \in Users, d \in Denoms, x \in Attachments : ClaimShitcoin(u, d, x)
           \/ \E u \in Users, d \in Denoms, x \in Attachments, url \in Urls :
                 SetShitcoinUrl(u, d, url, x)
           \/ UNCHANGED vars
  BY <1>6 DEF ClaimShitcoin, SetShitcoinUrl, vars, PairsFollowLaunch, Created, Ended, coinVars,
              saleVars, chainVars
<1> QED
  BY <1>1, <1>2, <1>3, <1>4, <1>5, <1>6 DEF Next

-----------------------------------------------------------------------------
(***************************************************************************)
(* The theorems.                                                           *)
(***************************************************************************)

\* Every transaction keeps every type.
LEMMA TypeStep ==
    ASSUME TypeOK, SubmissionsInRaise, [Next]_vars
    PROVE  TypeOK'
<1>1. CASE UNCHANGED vars
  BY <1>1 DEF vars, coinVars, saleVars, chainVars, urlVars, TypeOK, ValidMsg
<1> QED
  BY <1>1, TypeCreate, TypeEnter, TypeExtend, TypeLaunch, TypeClaim, TypeUrl, TypeTick DEF Next

\* The state instantiate leaves satisfies the inductive invariant.
LEMMA InductiveInit == Init => Inductive
<1> SUFFICES ASSUME Init PROVE Inductive
  OBVIOUS
<1>1. \A d \in Denoms : ~Created(d)
  BY DEF Init, Created
<1>2. ListedOnce
  BY <1>1 DEF Init, ListedOnce
<1>3. NothingBeforeCreate /\ SubmissionsInRaise
  BY DEF Init, NothingBeforeCreate, SubmissionsInRaise
<1>4. PairsFollowLaunch
  BY <1>1 DEF PairsFollowLaunch
<1> QED
  BY <1>2, <1>3, <1>4, TypeInit DEF Inductive

\* Every transaction preserves the inductive invariant.
LEMMA InductiveStep == Inductive /\ [Next]_vars => Inductive'
BY TypeStep, ListedOnceStep, NothingBeforeCreateStep, SubmissionsInRaiseStep,
   PairsFollowLaunchStep
DEF Inductive

\* Whatever the users, the deployment and the widths, every state of the
\* contract satisfies the invariant the other theorems start from.
THEOREM InductiveHolds == Spec => []Inductive
BY InductiveInit, InductiveStep, PTL DEF Spec

\* Every storage key and every balance of the contract keeps its type: no
\* balance goes below zero and no kept time, supply or raise leaves its width.
THEOREM TypeCorrect == Spec => []TypeOK
<1>1. Inductive => TypeOK
  BY DEF Inductive
<1> QED
  BY <1>1, InductiveHolds, PTL

\* The list that queries page through has each created coin once, and the
\* token factory knows the same coins, although create_shitcoin looks at
\* neither: the factory's refusal undoes what it wrote.
THEOREM CoinsListedOnce == Spec => []ListedOnce
<1>1. Inductive => ListedOnce
  BY DEF Inductive
<1> QED
  BY <1>1, InductiveHolds, PTL

\* With a dex that refuses an empty side, a launched coin's pair holds half the
\* supply and the whole raise, and the raise is not empty.
THEOREM LaunchPairs ==
    ASSUME ~DexAcceptsEmptySide
    PROVE  Spec => []LaunchPairsRaise
<1>1. Inductive => LaunchPairsRaise
  <2> SUFFICES ASSUME Inductive, NEW d \in Denoms, shitcoin_launched[d]
               PROVE  /\ presale_raise[d] > 0
                      /\ pool[d] = [shitcoin |-> Half(shitcoin_supply[d]),
                                    presale |-> presale_raise[d]]
    BY DEF LaunchPairsRaise
  <2>1. Created(d)
    BY DEF Inductive, NothingBeforeCreate
  <2> QED
    BY <2>1 DEF Inductive, PairsFollowLaunch
<1> QED
  BY <1>1, InductiveHolds, PTL

\* With a dex that refuses an empty side no transaction changes the end, the
\* raise or the submissions of a launched coin: its presale is over and has a
\* raise, and either alone keeps one of extend_presale and enter_presale out.
LEMMA LaunchFrozen ==
    ASSUME Inductive, [Next]_vars, ~DexAcceptsEmptySide, NEW d \in Denoms, shitcoin_launched[d]
    PROVE  /\ shitcoin_launched'[d]
           /\ presale_end'[d] = presale_end[d]
           /\ presale_raise'[d] = presale_raise[d]
           /\ presale_submission'[d] = presale_submission[d]
<1> DEFINE Frozen == /\ shitcoin_launched'[d]
                     /\ presale_end'[d] = presale_end[d]
                     /\ presale_raise'[d] = presale_raise[d]
                     /\ presale_submission'[d] = presale_submission[d]
<1>1. /\ TypeOK /\ ListedOnce
      /\ Created(d) /\ Ended(d) /\ presale_raise[d] > 0
  BY DEF Inductive, NothingBeforeCreate, PairsFollowLaunch
<1>2. ASSUME NEW u \in Users, NEW t \in Tickers, NEW s \in Supplies, NEW f \in Funds,
             CreateShitcoin(u, t, s, f)
      PROVE  Frozen
  <2>1. d # DenomOf[t]
    BY <1>1, <1>2, RegistryCreate
  <2> QED
    BY <1>1, <1>2, <2>1 DEF CreateShitcoin, TypeOK
<1>3. ASSUME NEW u \in Users, NEW c \in Denoms, NEW f \in Funds, EnterPresale(u, c, f)
      PROVE  Frozen
  <2>1. c # d
    BY <1>1, <1>3, EnterFigures
  <2>2. /\ presale_raise'[d] = presale_raise[d]
        /\ presale_submission'[d] = presale_submission[d]
    BY <1>1, <1>3, <2>1, EnterFigures DEF TypeOK
  <2> QED
    BY <1>3, <2>2 DEF EnterPresale
<1>4. ASSUME NEW u \in Users, NEW c \in Denoms, NEW x \in Attachments,
             ExtendPresale(u, c, x) PROVE Frozen
  <2>1. presale_raise[c] = 0
    BY <1>4 DEF ExtendPresale, Extendable
  <2>2. c # d
    BY <1>1, <2>1
  <2> QED
    BY <1>1, <1>4, <2>2 DEF ExtendPresale, TypeOK
<1>5. ASSUME NEW u \in Users, NEW c \in Denoms, NEW x \in Attachments,
             LaunchShitcoin(u, c, x) PROVE Frozen
  BY <1>1, <1>5 DEF LaunchShitcoin, TypeOK
<1>6. CASE \/ \E u \in Users, c \in Denoms, x \in Attachments : ClaimShitcoin(u, c, x)
           \/ \E u \in Users, c \in Denoms, x \in Attachments, url \in Urls :
                 SetShitcoinUrl(u, c, url, x)
           \/ Tick
           \/ UNCHANGED vars
  BY <1>6 DEF ClaimShitcoin, SetShitcoinUrl, Tick, vars, saleVars
<1> QED
  BY <1>2, <1>3, <1>4, <1>5, <1>6 DEF Next

\* The launch is final with such a dex: the figures claims are worked out from
\* never change once they can be claimed on.
THEOREM LaunchIsFinal ==
    ASSUME ~DexAcceptsEmptySide
    PROVE  Spec => LaunchFreezesPresale
<1>1. Inductive /\ [Next]_vars =>
         [\A d \in Denoms : shitcoin_launched[d] =>
             /\ shitcoin_launched'[d]
             /\ presale_end'[d] = presale_end[d]
             /\ presale_raise'[d] = presale_raise[d]
             /\ presale_submission'[d] = presale_submission[d]]_vars
  BY LaunchFrozen
<1> QED
  BY <1>1, InductiveHolds, PTL DEF Spec, LaunchFreezesPresale

\* A created coin stays its creator's: no transaction changes its creator,
\* ticker or supply, lowers its raise or a submission, or forgets a claim.
THEOREM CreatedOnce == Spec => NoTakeover
<1> DEFINE Kept(d) == /\ shitcoin_creator'[d] = shitcoin_creator[d]
                      /\ shitcoin_ticker'[d] = shitcoin_ticker[d]
                      /\ shitcoin_supply'[d] = shitcoin_supply[d]
                      /\ presale_raise'[d] >= presale_raise[d]
                      /\ \A g \in Users :
                            /\ presale_submission'[d][g] >= presale_submission[d][g]
                            /\ presale_claimed[d][g] => presale_claimed'[d][g]
<1>1. ASSUME Inductive, Next, NEW d \in Denoms, Created(d)
      PROVE  Kept(d)
  <2>1. /\ TypeOK /\ ListedOnce
        /\ presale_raise[d] \in Nat
        /\ \A g \in Users : presale_submission[d][g] \in Nat
    BY <1>1, AmountsAssumption DEF Inductive, TypeOK
  <2>2. ASSUME NEW u \in Users, NEW t \in Tickers, NEW s \in Supplies, NEW f \in Funds,
               CreateShitcoin(u, t, s, f)
        PROVE  Kept(d)
    <3>1. d # DenomOf[t]
      BY <1>1, <2>1, <2>2, RegistryCreate
    <3> QED
      BY <2>1, <2>2, <3>1 DEF CreateShitcoin, TypeOK
  <2>3. ASSUME NEW u \in Users, NEW c \in Denoms, NEW f \in Funds, EnterPresale(u, c, f)
        PROVE  Kept(d)
    <3> DEFINE submission == Submission(f.amount, config.presale_fee_rate)
    <3>1. /\ submission \in Nat
          /\ presale_raise' = [presale_raise EXCEPT ![c] = @ + submission]
          /\ presale_submission' = [presale_submission EXCEPT ![c][u] = @ + submission]
      BY <2>1, <2>3, EnterFigures
    <3> HIDE DEF submission
    <3>2. presale_raise'[d] = presale_raise[d] \/ presale_raise'[d] = presale_raise[d] + submission
      BY <2>1, <3>1 DEF TypeOK
    <3>3. \A g \in Users :
             \/ presale_submission'[d][g] = presale_submission[d][g]
             \/ presale_submission'[d][g] = presale_submission[d][g] + submission
      BY <2>1, <3>1 DEF TypeOK
    <3>4. UNCHANGED <<coinVars, presale_claimed>>
      BY <2>3 DEF EnterPresale
    <3> QED
      BY <2>1, <3>1, <3>2, <3>3, <3>4 DEF coinVars
  <2>4. ASSUME NEW u \in Users, NEW c \in Denoms, NEW x \in Attachments,
               ClaimShitcoin(u, c, x)
        PROVE  Kept(d)
    <3>1. \A g \in Users : presale_claimed[d][g] => presale_claimed'[d][g]
      BY <2>1, <2>4 DEF ClaimShitcoin, MarkClaimed, TypeOK
    <3> QED
      BY <2>1, <2>4, <3>1 DEF ClaimShitcoin, coinVars
  <2>5. CASE \/ \E u \in Users, c \in Denoms, x \in Attachments :
                   ExtendPresale(u, c, x) \/ LaunchShitcoin(u, c, x)
             \/ \E u \in Users, c \in Denoms, x \in Attachments, url \in Urls :
                   SetShitcoinUrl(u, c, url, x)
             \/ Tick
    BY <2>1, <2>5 DEF ExtendPresale, LaunchShitcoin, SetShitcoinUrl, Tick, coinVars, saleVars
  <2> QED
    BY <1>1, <2>2, <2>3, <2>4, <2>5 DEF Next
<1>2. Inductive /\ [Next]_vars => [\A d \in Denoms : Created(d) => Kept(d)]_vars
  BY <1>1
<1> QED
  BY <1>2, InductiveHolds, PTL DEF Spec, NoTakeover

=============================================================================
