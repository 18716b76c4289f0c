------------------------------- MODULE Garden -------------------------------
(***************************************************************************)
(* The shitcoin-garden contract and the parts of its chain it calls.       *)
(*                                                                         *)
(* A transaction is one step: the chain moves the attached funds to the    *)
(* contract, runs one handler and then the messages the handler returned,  *)
(* and undoes all of it when any part fails.  A failed transaction is      *)
(* therefore a stuttering step, and what makes one fail (an error, a       *)
(* panic, an overflow, a refusal of the bank, the token factory or the     *)
(* pool factory) is a conjunct of the guard.                               *)
(*                                                                         *)
(* The contract's storage is one function per key prefix of state.rs.  The *)
(* keys of a coin are all written by create_shitcoin, so "not found" is    *)
(* the same for all of them: no creator is stored.                         *)
(*                                                                         *)
(* Four of the six handlers do not look at the funds of their message and  *)
(* execute refuses none, so what is attached to one stays with the         *)
(* contract.  Coins of the garden move only as it moves them: who trades   *)
(* or sends them, by themselves or attached to a message, is left out.     *)
(***************************************************************************)
EXTENDS PresaleMath, Sequences

CONSTANTS
    Users,               \* accounts that send transactions
    Garden,              \* the contract's own account
    None,                \* "nothing stored", "no such pair", the empty url
    Tickers,             \* tickers a creator may pick
    Denoms,              \* factory denoms of the contract
    DenomOf,             \* ticker -> denom: lower case, factory prefix
    NativeDenoms,        \* denoms that are not the contract's
    Urls,                \* urls a creator may set
    InstantiateMsgs,     \* the messages the contract may be deployed with
    Wallets,             \* what each user owns at the start
    Supplies,            \* whole coin supplies a creator may ask for
    Payments,            \* amounts a user may pay with
    Extras,              \* amounts a user may attach where nothing is asked for
    Micro,               \* units per whole coin, 10^6 in the code
    U64Max, U128Max,     \* the widths of the contract's integers
    DexAcceptsEmptySide, \* does the pair take a provision with a zero side
    BankAcceptsZero      \* does the bank send zero coins

Accounts == Users \cup {Garden}

AllDenoms == Denoms \cup NativeDenoms

ConfigType ==
    [fee_recipient : Users, create_fee_denom : NativeDenoms, create_fee : Nat,
     presale_denom : NativeDenoms, presale_length : Nat, presale_fee_rate : Nat]

ASSUME NamesAssumption ==
    /\ Garden \notin Users /\ None \notin Users
    /\ Denoms \cap NativeDenoms = {}
    /\ DenomOf \in [Tickers -> Denoms]

ASSUME FiniteAssumption == IsFiniteSet(Users) /\ IsFiniteSet(Denoms)

ASSUME AmountsAssumption ==
    /\ Supplies \subseteq Nat /\ Payments \subseteq Nat
    /\ Extras \subseteq Nat /\ 0 \in Extras
    /\ Wallets \in [Users -> [NativeDenoms -> Nat]]
    /\ Micro \in Nat \ {0} /\ U64Max \in Nat /\ U128Max \in Nat

ASSUME EnvironmentAssumption ==
    /\ None \notin [shitcoin : Nat, presale : Nat]
    /\ DexAcceptsEmptySide \in BOOLEAN /\ BankAcceptsZero \in BOOLEAN

ASSUME DeploymentAssumption == InstantiateMsgs \subseteq ConfigType

VARIABLES
    config,             \* the message of instantiate
    shitcoin_denom,     \* the index list; its length is shitcoin_count
    shitcoin_creator, shitcoin_ticker, shitcoin_url,
    shitcoin_supply, shitcoin_launched,
    presale_end, presale_raise,
    presale_submission, presale_claimed,    \* denom -> degen -> value
    now,                \* block time in seconds
    bank,               \* account -> denom -> balance
    factory,            \* denoms the token factory has created
    denom_metadata,     \* the metadata the bank keeps of a denom
    pool,               \* denom -> the reserves of its pair, or None
    kept                \* history: denom -> what was attached and not asked for

coinVars == <<shitcoin_denom, shitcoin_creator, shitcoin_ticker, shitcoin_supply>>
saleVars == <<shitcoin_launched, presale_end, presale_raise, presale_submission,
              presale_claimed>>
chainVars == <<bank, factory, pool, kept>>
urlVars == <<shitcoin_url, denom_metadata>>
vars == <<config, now, coinVars, saleVars, chainVars, urlVars>>
-----------------------------------------------------------------------------
(***************************************************************************)
(* The chain.                                                              *)
(***************************************************************************)

\* The bank after `from` sends amount k to `to`; the two may be the same.
Send(b, from, to, k, amount) ==
    [a \in Accounts |->
        [b[a] EXCEPT ![k] = @ + (IF a = to THEN amount ELSE 0)
                              - (IF a = from THEN amount ELSE 0)]]

CanSend(b, from, k, amount) ==
    /\ amount <= b[from][k]
    /\ amount > 0 \/ BankAcceptsZero

\* The bank after amount k leaves for an account that is not modelled.
Withdraw(b, from, k, amount) == [b EXCEPT ![from][k] = @ - amount]

Mint(b, to, k, amount) == [b EXCEPT ![to][k] = @ + amount]

\* A message whose handler does not look at its funds: the chain moves what is
\* attached to the contract, and nothing moves it on.
Attached(sender, extra) == Send(bank, sender, Garden, extra.denom, extra.amount)

Keep(sender, extra) ==
    /\ extra.amount <= bank[sender][extra.denom]
    /\ kept' = [kept EXCEPT ![extra.denom] = @ + extra.amount]

\* cw_utils::must_pay: exactly one coin, of this denom, and not zero.
MustPay(funds, k) == funds.denom = k /\ funds.amount > 0

\* Mutant: an addition that wraps in silence.
FitsAnything(n) == TRUE

FitsU64(n) == n <= U64Max

FitsU128(n) == n <= U128Max

\* Mutant: the create message dispatched so that its failure is ignored.
CreateDenomIgnoringErrors(d) ==
    /\ factory' = factory \cup {d}
    /\ pool' = [pool EXCEPT ![d] = [shitcoin |-> 0, presale |-> 0]]

\* The token factory creates a denom once, the pool factory its pair once.
CreateDenomAndPair(d) ==
    /\ d \notin factory /\ pool[d] = None
    /\ factory' = factory \cup {d}
    /\ pool' = [pool EXCEPT ![d] = [shitcoin |-> 0, presale |-> 0]]

\* The pair refuses a provision with an empty side, unless it is a mock.
CanProvide(b, d, shitcoins, funds) ==
    /\ pool[d] # None
    /\ DexAcceptsEmptySide \/ (shitcoins > 0 /\ funds > 0)
    /\ shitcoins <= b[Garden][d] /\ funds <= b[Garden][config.presale_denom]

\* Mutant: the two assets of the message swapped.
ProvideSwapped(d, shitcoins, funds) ==
    pool' = [pool EXCEPT ![d] = [shitcoin |-> @.shitcoin + funds,
                                 presale |-> @.presale + shitcoins]]

ProvideLiquidity(d, shitcoins, funds) ==
    pool' = [pool EXCEPT ![d] = [shitcoin |-> @.shitcoin + shitcoins,
                                 presale |-> @.presale + funds]]
-----------------------------------------------------------------------------
(***************************************************************************)
(* The handlers.                                                           *)
(***************************************************************************)
Created(d) == shitcoin_creator[d] # None

\* presale_end.saturating_sub(now) == 0
Ended(d) == now >= presale_end[d]

ValidMsg(m) == m.presale_length > 0 /\ m.presale_fee_rate < ONE_PERCENT_BPS

Init ==
    /\ config \in {m \in InstantiateMsgs : ValidMsg(m)}
    /\ shitcoin_denom = << >>
    /\ shitcoin_creator = [d \in Denoms |-> None]
    /\ shitcoin_ticker = [d \in Denoms |-> None]
    /\ shitcoin_supply = [d \in Denoms |-> 0]
    /\ shitcoin_launched = [d \in Denoms |-> FALSE]
    /\ shitcoin_url = [d \in Denoms |-> None]
    /\ presale_end = [d \in Denoms |-> 0]
    /\ presale_raise = [d \in Denoms |-> 0]
    /\ presale_submission = [d \in Denoms |-> [g \in Users |-> 0]]
    /\ presale_claimed = [d \in Denoms |-> [g \in Users |-> FALSE]]
    /\ now = 0
    /\ bank = [a \in Accounts |-> [k \in AllDenoms |->
                  IF a \in Users /\ k \in NativeDenoms THEN Wallets[a][k] ELSE 0]]
    /\ factory = {}
    /\ denom_metadata = [d \in Denoms |-> [symbol |-> None, uri |-> None]]
    /\ pool = [d \in Denoms |-> None]
    /\ kept = [k \in NativeDenoms |-> 0]

\* Mutant: the metadata message taken from create_shitcoin with its empty uri.
DescribeWithoutUri(d, ticker, url) ==
    denom_metadata' = [denom_metadata EXCEPT ![d] = [symbol |-> ticker, uri |-> None]]

\* The whole metadata of a denom is replaced, never one field of it.
SetDenomMetadata(d, ticker, url) ==
    denom_metadata' = [denom_metadata EXCEPT ![d] = [symbol |-> ticker, uri |-> url]]

\* create_shitcoin: the storage is written before the factory is asked, and
\* only the factory's refusal of a known denom keeps a coin from being
\* created over another one.
CreateShitcoin(sender, ticker, supply, funds) ==
    LET d == DenomOf[ticker]
        total == supply * Micro
        paid == Send(bank, sender, Garden, funds.denom, funds.amount)
        minted == Mint(paid, Garden, d, total)
    IN  /\ supply > 0
        /\ MustPay(funds, config.create_fee_denom)
        /\ CanSend(bank, sender, funds.denom, funds.amount)
        /\ funds.amount >= config.create_fee
        /\ FitsU64(now + config.presale_length)
        /\ FitsU128(total)
        /\ CreateDenomAndPair(d)
        /\ shitcoin_denom' = Append(shitcoin_denom, d)
        /\ shitcoin_creator' = [shitcoin_creator EXCEPT ![d] = sender]
        /\ shitcoin_ticker' = [shitcoin_ticker EXCEPT ![d] = ticker]
        /\ shitcoin_supply' = [shitcoin_supply EXCEPT ![d] = total]
        /\ presale_end' = [presale_end EXCEPT ![d] = now + config.presale_length]
        /\ presale_raise' = [presale_raise EXCEPT ![d] = 0]
        /\ SetDenomMetadata(d, ticker, None)
        /\ bank' = Send(minted, Garden, config.fee_recipient, funds.denom, funds.amount)
        /\ UNCHANGED <<config, now, shitcoin_launched, shitcoin_url,
                       presale_submission, presale_claimed, kept>>

\* Mutant: the submission of a degen who comes back replaces the earlier one.
ReplaceSubmission(d, g, submission) ==
    /\ presale_raise' = [presale_raise EXCEPT ![d] = @ + submission]
    /\ presale_submission' = [presale_submission EXCEPT ![d][g] = submission]

RecordSubmission(d, g, submission) ==
    /\ FitsU128(presale_raise[d] + submission)
    /\ presale_raise' = [presale_raise EXCEPT ![d] = @ + submission]
    /\ presale_submission' = [presale_submission EXCEPT ![d][g] = @ + submission]

EnterPresale(sender, d, funds) ==
    LET k == config.presale_denom
        fee == PresaleFee(funds.amount, config.presale_fee_rate)
        submission == Submission(funds.amount, config.presale_fee_rate)
        paid == Send(bank, sender, Garden, k, funds.amount)
        creatorPaid == Send(paid, Garden, shitcoin_creator[d], k, CreatorFee(fee))
    IN  /\ Created(d)
        /\ ~Ended(d)
        /\ MustPay(funds, k)
        /\ CanSend(bank, sender, k, funds.amount)
        /\ FitsU128(funds.amount * config.presale_fee_rate)
        /\ fee > 0
        /\ CanSend(paid, Garden, k, CreatorFee(fee))
        /\ CanSend(creatorPaid, Garden, k, PlatformFee(fee))
        /\ RecordSubmission(d, sender, submission)
        /\ bank' = Send(creatorPaid, Garden, config.fee_recipient, k, PlatformFee(fee))
        /\ UNCHANGED <<config, now, coinVars, shitcoin_launched, presale_end,
                       presale_claimed, factory, pool, kept, urlVars>>

\* Mutant: extend_presale without its look at the raise.
ExtendableWithFunds(d) == Created(d) /\ Ended(d)

Extendable(d) == Created(d) /\ Ended(d) /\ presale_raise[d] = 0

ExtendPresale(sender, d, extra) ==
    /\ Extendable(d)
    /\ FitsU64(now + config.presale_length)
    /\ presale_end' = [presale_end EXCEPT ![d] = now + config.presale_length]
    /\ Keep(sender, extra)
    /\ bank' = Attached(sender, extra)
    /\ UNCHANGED <<config, now, coinVars, shitcoin_launched, presale_raise,
                   presale_submission, presale_claimed, factory, pool, urlVars>>

\* launch_shitcoin does not look at the raise: it leaves an empty one to the dex.
CanLaunch(b, d) ==
    /\ Created(d)
    /\ Ended(d)
    /\ ~shitcoin_launched[d]
    /\ CanProvide(b, d, Half(shitcoin_supply[d]), presale_raise[d])

LaunchShitcoin(sender, d, extra) ==
    LET half == Half(shitcoin_supply[d])
        raise == presale_raise[d]
        k == config.presale_denom
        b == Attached(sender, extra)
    IN  /\ Keep(sender, extra)
        /\ CanLaunch(b, d)
        /\ ProvideLiquidity(d, half, raise)
        /\ shitcoin_launched' = [shitcoin_launched EXCEPT ![d] = TRUE]
        /\ bank' = Withdraw(Withdraw(b, Garden, d, half), Garden, k, raise)
        /\ UNCHANGED <<config, now, coinVars, presale_end, presale_raise,
                       presale_submission, presale_claimed, factory, urlVars>>

\* What claim_shitcoin works out for degen g.
Share(d, g) ==
    Claimable(Half(shitcoin_supply[d]), presale_submission[d][g], presale_raise[d])

\* Mutant: a claim that leaves no trace.
ForgetClaim(d, g) == UNCHANGED presale_claimed

MarkClaimed(d, g) == presale_claimed' = [presale_claimed EXCEPT ![d][g] = TRUE]

CanClaim(b, sender, d) ==
    /\ Created(d)
    /\ Ended(d)
    /\ shitcoin_launched[d]
    /\ ~presale_claimed[d][sender]
    /\ presale_submission[d][sender] > 0
    /\ CanSend(b, Garden, d, Share(d, sender))

ClaimShitcoin(sender, d, extra) ==
    LET b == Attached(sender, extra)
    IN  /\ Keep(sender, extra)
        /\ CanClaim(b, sender, d)
        /\ MarkClaimed(d, sender)
        /\ bank' = Send(b, Garden, sender, d, Share(d, sender))
        /\ UNCHANGED <<config, now, coinVars, shitcoin_launched, presale_end,
                       presale_raise, presale_submission, factory, pool, urlVars>>

SetShitcoinUrl(sender, d, url, extra) ==
    /\ shitcoin_creator[d] = sender
    /\ shitcoin_url' = [shitcoin_url EXCEPT ![d] = url]
    /\ SetDenomMetadata(d, shitcoin_ticker[d], url)
    /\ Keep(sender, extra)
    /\ bank' = Attached(sender, extra)
    /\ UNCHANGED <<config, now, coinVars, saleVars, factory, pool>>

\* A later block.
Tick ==
    /\ now < U64Max
    /\ now' = now + 1
    /\ UNCHANGED <<config, coinVars, saleVars, chainVars, urlVars>>

Funds == [denom : NativeDenoms, amount : Payments]

Attachments == [denom : NativeDenoms, amount : Extras]

Next ==
    \/ \E u \in Users, t \in Tickers, s \in Supplies, f \in Funds :
          CreateShitcoin(u, t, s, f)
    \/ \E u \in Users, d \in Denoms, f \in Funds : EnterPresale(u, d, f)
    \/ \E u \in Users, d \in Denoms, x \in Attachments :
          \/ ExtendPresale(u, d, x)
          \/ LaunchShitcoin(u, d, x)
          \/ ClaimShitcoin(u, d, x)
          \/ \E url \in Urls : SetShitcoinUrl(u, d, url, x)
    \/ Tick

Spec == Init /\ [][Next]_vars
-----------------------------------------------------------------------------
(***************************************************************************)
(* Properties.                                                             *)
(***************************************************************************)

\* Every storage key and every balance holds a value of its kind, and no
\* time or supply exceeds its width.
TypeOK ==
    /\ config \in ConfigType /\ ValidMsg(config)
    /\ shitcoin_denom \in Seq(Denoms)
    /\ shitcoin_creator \in [Denoms -> Users \cup {None}]
    /\ shitcoin_ticker \in [Denoms -> Tickers \cup {None}]
    /\ shitcoin_url \in [Denoms -> Urls \cup {None}]
    /\ shitcoin_supply \in [Denoms -> 0 .. U128Max]
    /\ shitcoin_launched \in [Denoms -> BOOLEAN]
    /\ presale_end \in [Denoms -> 0 .. U64Max]
    /\ presale_raise \in [Denoms -> 0 .. U128Max]
    /\ presale_submission \in [Denoms -> [Users -> Nat]]
    /\ presale_claimed \in [Denoms -> [Users -> BOOLEAN]]
    /\ now \in 0 .. U64Max
    /\ bank \in [Accounts -> [AllDenoms -> Nat]]
    /\ factory \subseteq Denoms
    /\ denom_metadata \in
          [Denoms -> [symbol : Tickers \cup {None}, uri : Urls \cup {None}]]
    /\ pool \in [Denoms -> [shitcoin : Nat, presale : Nat] \cup {None}]
    /\ kept \in [NativeDenoms -> Nat]

\* The raise kept for a presale is the sum of the submissions kept for its
\* degens: two keys that enter_presale updates side by side.
SubmissionsAddUp ==
    \A d \in Denoms : Total(presale_submission[d], Users) = presale_raise[d]

\* The funds of all presales share one account.  What the contract holds of the
\* presale denom is exactly what the presales it has not launched have raised,
\* and of every other native denom nothing, each beside what was attached to
\* messages that ask for nothing: no fee sticks, no launch spends the raise of
\* another coin or what somebody attached, and nobody is paid from either.
EscrowBacksPresales ==
    LET owed == [d \in Denoms |-> IF shitcoin_launched[d] THEN 0 ELSE presale_raise[d]]
    IN  \A k \in NativeDenoms : bank[Garden][k] =
            kept[k] + IF k = config.presale_denom THEN Total(owed, Denoms) ELSE 0

\* What a degen has not claimed yet of a launched coin.
Unclaimed(d) ==
    [g \in Users |-> IF presale_claimed[d][g] \/ presale_submission[d][g] = 0
                     THEN 0 ELSE Share(d, g)]

\* The contract can always pay what is left to claim, whoever claims first:
\* the shares, each rounded down, fit in the half that was not pooled.  Until
\* the launch it holds the whole supply.
ClaimsBacked ==
    \A d \in Denoms : Created(d) =>
        IF shitcoin_launched[d]
        THEN Total(Unclaimed(d), Users) <= bank[Garden][d]
        ELSE bank[Garden][d] = shitcoin_supply[d]

\* Each degen owns of a coin either nothing or, once claimed, its share by
\* the final raise and its final submission: a claim is paid in full, once,
\* and the figures it was worked out from never move afterwards.
PaidProRata ==
    \A d \in Denoms, g \in Users :
        bank[g][d] = IF presale_claimed[d][g] THEN Share(d, g) ELSE 0

\* Once every degen of a coin has claimed, what truncation leaves in the
\* contract is less than one unit for each of them.
OnlyDustStays ==
    \A d \in Denoms :
        LET degens == {g \in Users : presale_submission[d][g] > 0}
        IN  (shitcoin_launched[d] /\ \A g \in degens : presale_claimed[d][g])
            => bank[Garden][d] < Cardinality(degens)

\* The index that queries page through lists each created coin once, and the
\* coins with keys are those the token factory knows.
ListedOnce ==
    /\ \A i, j \in DOMAIN shitcoin_denom :
          shitcoin_denom[i] = shitcoin_denom[j] => i = j
    /\ {shitcoin_denom[i] : i \in DOMAIN shitcoin_denom} = {d \in Denoms : Created(d)}
    /\ factory = {d \in Denoms : Created(d)}

\* The pair of a launched coin was seeded with half the supply and the whole
\* raise, and that raise was not empty.
LaunchPairsRaise ==
    \A d \in Denoms : shitcoin_launched[d] =>
        /\ presale_raise[d] > 0
        /\ pool[d] = [shitcoin |-> Half(shitcoin_supply[d]), presale |-> presale_raise[d]]

\* Nobody's funds get stuck: when a presale with a raise is over anyone can
\* launch it and attach nothing, whatever else the one account has paid, and
\* when it is launched whoever is owed a coin can claim it, whoever has claimed
\* before.
FundsNeverStuck ==
    \A d \in Denoms : (Created(d) /\ Ended(d)) =>
        /\ (~shitcoin_launched[d] /\ presale_raise[d] > 0) => CanLaunch(bank, d)
        /\ \A g \in Users :
              (shitcoin_launched[d] /\ Unclaimed(d)[g] > 0) => CanClaim(bank, g, d)

\* What the chain's metadata says of a coin is what the contract's own keys
\* say, although two handlers write it from different inputs.
MetadataMirrorsState ==
    \A d \in Denoms : Created(d) =>
        denom_metadata[d] = [symbol |-> shitcoin_ticker[d], uri |-> shitcoin_url[d]]

\* A launch is final: the figures claims are worked out from stay as they are.
LaunchFreezesPresale ==
    [][\A d \in Denoms : shitcoin_launched[d] =>
          /\ shitcoin_launched'[d]
          /\ presale_end'[d] = presale_end[d]
          /\ presale_raise'[d] = presale_raise[d]
          /\ presale_submission'[d] = presale_submission[d]]_vars

\* A coin is created once: no later transaction gives its denom to another
\* creator, remints it or forgets what was submitted to it or claimed from it,
\* whatever ticker it is sent with.
NoTakeover ==
    [][\A d \in Denoms : Created(d) =>
          /\ shitcoin_creator'[d] = shitcoin_creator[d]
          /\ shitcoin_ticker'[d] = shitcoin_ticker[d]
          /\ shitcoin_supply'[d] = shitcoin_supply[d]
          /\ presale_raise'[d] >= presale_raise[d]
          /\ \A g \in Users :
                /\ presale_submission'[d][g] >= presale_submission[d][g]
                /\ presale_claimed[d][g] => presale_claimed'[d][g]]_vars

\* Nothing is kept about a coin that was not created: create_shitcoin resets
\* neither the submissions nor the claims, it relies on there being none.
NothingBeforeCreate ==
    \A d \in Denoms : ~Created(d) =>
        /\ ~shitcoin_launched[d] /\ presale_raise[d] = 0
        /\ \A g \in Users : presale_submission[d][g] = 0 /\ ~presale_claimed[d][g]

\* A submission is part of the raise, so a claim never divides by zero.
SubmissionsInRaise ==
    \A d \in Denoms, g \in Users : presale_submission[d][g] <= presale_raise[d]

\* A pair is empty until the launch.  A dex that wants two assets makes the
\* launch final: the presale is over for good, with the raise it then had.
PairsFollowLaunch ==
    \A d \in Denoms : Created(d) =>
        IF shitcoin_launched[d]
        THEN /\ Ended(d) /\ presale_raise[d] > 0
             /\ pool[d] = [shitcoin |-> Half(shitcoin_supply[d]),
                           presale |-> presale_raise[d]]
        ELSE pool[d] = [shitcoin |-> 0, presale |-> 0]

\* What every handler preserves and the proofs of GardenProofs rest on.  No
\* part is inductive alone: a claim divides by a raise, a raise outlives a
\* create only because no coin is created twice, and that is the factory's
\* doing.
Inductive ==
    /\ TypeOK /\ ListedOnce /\ NothingBeforeCreate /\ SubmissionsInRaise
    /\ ~DexAcceptsEmptySide => PairsFollowLaunch

\* The phase of a presale is nowhere stored: it is read off the clock and keys.
Phase(d) ==
    CASE ~Created(d) -> "none"
      [] Created(d) /\ shitcoin_launched[d] -> "launched"
      [] Created(d) /\ ~shitcoin_launched[d] /\ ~Ended(d) -> "open"
      [] Created(d) /\ ~shitcoin_launched[d] /\ Ended(d) -> "closed"

\* Everything a payment can come to once the fee is off.
Contributions ==
    {Submission(a, m.presale_fee_rate) : a \in Payments, m \in InstantiateMsgs}

Ledger == INSTANCE PresaleLedger WITH
    Coins <- Denoms, Degens <- Users, Amounts <- Contributions,
    Deadlines <- 0 .. U64Max,
    phase <- [d \in Denoms |-> Phase(d)], deadline <- presale_end, raised <- presale_raise,
    contributed <- presale_submission,
    claimed <- [d \in Denoms |-> {g \in Users : presale_claimed[d][g]}]

\* The contract implements the presales of PresaleLedger.
ImplementsLedger == Ledger!Spec
=============================================================================
