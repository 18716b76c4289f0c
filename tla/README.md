# Shitcoin garden: specifications, model checking and proofs

TLA+ modules of the shitcoin-garden contract (`contract/`), of the web server
that shows it (`web/src/`) and of the page in the browser (`web/js/`,
`web/templates/`), TLC configurations that check them on small instances, and
TLAPS proofs of what they promise for every number of users, coins, payments and
events. Paths below are relative to `src/`.

    tlc -config MCGarden.cfg MCGarden            # 476 000 states, a minute
    tlc -config MCFeed.cfg MCFeed                # 6.6 million, two minutes
    tlapm WebCacheProofs.tla                     # and the other *Proofs modules

## 1. The system

| part | state it keeps | operations | talks to |
|---|---|---|---|
| contract handlers, `contract/lib.rs`, `state.rs` | config; per coin: creator, names, url, supply, launched, presale end and raise; per coin and degen: submission, claimed; the index list | instantiate, create_shitcoin, enter_presale, extend_presale, launch_shitcoin, claim_shitcoin, set_shitcoin_url | bank, token factory, pool factory and pair, by messages in the same transaction |
| contract queries, `contract/lib.rs` | none | Config, Shitcoins (a page), ShitcoinMetadata, DegenMetadata | read the keys above |
| storage keys, `state.rs`, `web/src/model.rs` | key = parts joined with `:`, value = bytes of a width | compose, write; query one key; decode all keys | written by the contract, read by the server |
| state cache, `web/src/{main,events,model}.rs` | indexes, a map of coins, a map of (coin, degen) behind one lock | read all storage in pages, subscribe, apply an event | node by gRPC and a websocket |
| pages and server-sent events, `web/src/{main,view,chain}.rs` | who waits for the lock, a broadcast channel of 20 events | list, row, two streams | the cache (read lock), the node |
| view, `web/src/view.rs`, `web/templates/` | none | a row: figures, countdown, buttons | rendered by pages and streams |
| browser, `web/js/script.js`, templates | wallet, request listeners, working flags | connect, disconnect, key change, the operations | Keplr, the pages, the chain |
| mock dex, scripts, schema | none | - | - |

A transaction of the contract is atomic: storage, bank and the messages it
returns all happen or none does. What is hard about it is not concurrency
inside a handler but *which sequences of legal calls* there are, that the raises
of all coins share one account and one denom, and integer arithmetic that
truncates. The server is where steps interleave: a snapshot read page by page at
different blocks, a gap between the snapshot and the subscription, queries that
see a later block than the event they answer, failures at every `await`, a panic
at every `unwrap`, a websocket driver that nobody starts again, one lock that
pages keep while they ask the node, and a channel that forgets. The browser adds
what a user and an extension do during each `await` of the script.

What makes each part correct:

* contract: funds are conserved to the unit; each coin is created once; its
  presale closes, launches once with everything raised, and then each degen is
  paid its share once, whoever comes first; no funds are stuck; a launch is final;
* queries: an answered first page has every coin, and an answered page with the one
  answered after it passes none over, as long as the limit is no longer than the list;
* storage: no two things share a key, and both ways of reading agree with the
  contract and with each other;
* cache: it never shows what has not happened, catches up with the contract as far
  as it is told of its messages, never goes back, and no failure leaves the monitor stuck;
* pages and events: a browser that has caught up shows what a list loaded now
  would, events never take a row back, every page is answered;
* view: a degen is offered one operation, one the contract accepts, and is shown
  the share it gets;
* browser: requests name the connected account once, the page follows the
  selected key when Keplr lets it, and no flag outlives its transaction.

## 2. Modules

    PresaleMath --- Garden --- Paging, StorageKeys, View --- MCReaders
                      :
                      : implements (INSTANCE with a refinement mapping)
                      :
    PresaleLedger --- WebCache --- Feed             Wallet

    Proofs:  GardenProofs --- LedgerProofs            WebCacheProofs --- FeedProofs
                  |
             GardenFundsProofs (+ TotalProofs) --- ReaderProofs     WalletProofs

**PresaleMath.** The integer operators: `PresaleFee`, `CreatorFee`, `PlatformFee`,
`Submission`, `Half`, `Claimable`, and `Total`, the sum of a function over a
set. `multiply_ratio` works in 256 bits and truncates, so `\div` is all it does.

**Garden.** One action per message. A transaction is one step and a failed one
is a stuttering step, so everything that can make one fail is a guard: the
handler's errors, `must_pay`, overflows (`FitsU64`, `FitsU128`), transfers that
the bank refuses because the balance is short or the amount is zero, a denom the
token factory already knows, a pair that refuses an empty side. Storage is one
function per key prefix of `state.rs`. `create_shitcoin` writes its keys before
the factory is asked, exactly as the code does; there is no "does it exist"
guard in it, because the code has none. `DenomOf` maps tickers to denoms and is
not injective: the code lower-cases the ticker. `Tick` is a later block. `CanLaunch`
and `CanClaim` are the guards of those two handlers and of what the chain does with
their messages (`CanProvide`), named because properties are about them.
`execute` refuses no funds, and only two handlers look at them (`must_pay`). What is
attached to the other four messages is moved before the handler runs (`Attached`) and
stays with the contract; the history variable `kept` counts it (`Keep`).
`DexAcceptsEmptySide` and `BankAcceptsZero` are the two facts about the chain
that the code relies on: the mock dex of the tests accepts everything, Astroport
does not; the Cosmos bank refuses zero coins.

**PresaleLedger.** What the garden promises, without clock, fees, balances or
keys: `none -> open <-> closed -> launched`. `Garden!ImplementsLedger` maps the
phase, which the code stores nowhere, to what can be read off the creator, the
clock and the launched flag; one `Tick` may close several presales, which is
`Close(due)`.

**Paging, StorageKeys, View.** Those who read the contract, as operators over its
state, so that one run checks them in every state the contract gets into.
*Paging* is the contract's own queries. `Indices` is the code's range with its
`max`, and an index without a denom is the panic of `expect`. A page is a function of
the list's length too, so that a page answered earlier and the next one answered now can
be put side by side. *StorageKeys* is the
storage as a set of (key, value) pairs. A string is the sequence of its parts
between colons: joining is concatenation and `split` is looking at the parts, so
a ticker with a colon is simply a longer name. A value carries the type it was
written with, and reading it with another is `None`, the failed `try_into`.
`DigitsOf` is how an index is written in a key: a constant, of which all that matters
is that different numbers are written differently.
`QueriedShitcoin` and `QueriedDegen` are the keyed queries of the event handlers,
`DecodedShitcoin`, `DecodedDegen` and `DecodedIndexes` what `add_model_to_state`
makes of all keys together. *View* is a row: the figures of `get_shitcoin`, the
percentages as exact fractions, and the conditions of the template's buttons.

**WebCache.** The contract here is PresaleLedger: what the cache needs of the
contract is what Garden was shown to implement. A transaction may hold several
messages. The node tells of it by one event, and the server reads the first kind, denom
and degen of it: the first message appends an event to `unpublished` (`Emit`), later
ones change the contract and append none (`Unannounced`). Taking the messages one by one
lets a query see half of a transaction, which only adds behaviour. `Publish` delivers an
event to whoever has subscribed by then.
The monitor is a small program counter `at`: *snapshot* (the key prefixes up to
the end of a page, each page at its own block), *subscribe*, *listen*, *query*
(the write lock is held; each query is a step and sees the chain of that moment),
*timestamp*, *dead*. `StartOver` is the `?` at any of these points: it drops the
lock with whatever was written under it. `ConnectionCloses` is the end of the
websocket driver, which `server` spawns once: afterwards subscribing fails at once
and the loop reads the storage again and again (`Unsubscribed`) until the process
is replaced. `SnapshotFails` is `exit(1)`, `Panic` an `unwrap` on a missing entry:
with `PanicAborts` (the release profile of the workspace) the process is gone and
the platform starts it again, without it only the task dies. `gap` is a history
variable: a message fell where neither the snapshot nor the subscription need have seen
it, or behind another in its transaction while the snapshot had read something already.
Reading the storage anew ends it. Coins are those without a colon in their ticker: a
snapshot files the keys of others under other names, which is the subject of StorageKeys,
and nothing is claimed here of a garden that has one.

**Feed.** The whole server: WebCache's monitor, the lock, the page handlers, the
channel and the browsers. Every action of WebCache appears in it, conjoined with
what it means for the lock and the channel (`FeedReceive` is `Receive` once the
lock is granted, `FeedBroadcast` is `Broadcast` into the inboxes). `queue` is
the lock's queue: `Granted` lets in its head, a writer when no reader is left.
A page handler is `AskForList`, `AskForRow` or `Visit`, `GrantPage`, and then
`AnswerList`, `AnswerRow`, `AnswerVisit`, `PageFails` or `PagePanics`; a visit asks for
the row of any coin by its address, created or not, which is the one page that
unwraps what nobody promised to be there; between the grant and the answer it
keeps the lock, as the handler does across its calls to the node. An event is
taken from the channel (`Take`), waits for the lock when the stream is a degen's,
and is rendered from the coin in the event and the degen in the cache (`Deliver`).
`Lag` is the receiver whose oldest events were overwritten. `behind` and
`overtaken` are history variables for the two ways a table can legitimately differ.

**Wallet.** One action per stretch of `script.js` between two `await`s: a connect is
`ClickConnect` (or `Loaded`, when an earlier page stored it), `AccountsKnown`,
`Connected` or `ConnectFails`; a key change is `SwitchKey`, `AnswerAccounts`,
`KeyStoreChanged`. `listeners` are those the body has, `modifier` the one the page
remembers. `getAccounts` may be refused (`AnswerAccounts` with `Refusal`): the handler of
the key change ends in an error and the page keeps the account it had; the history
variable `refused` says that this befell the handler of the latest change. The
disconnect button is never disabled, so several disconnects may be at their `await`.
`claim`, `enter` and `url` stand for the six operations: one whose button
is disabled while another works, one whose form is not, and one without a spinner.

**MC modules** give the constants their values. **Proof modules**: see section 5.

Operators marked *Mutant* are plausible mistakes in the definition next to them;
every property of a passing run is violated when one of them takes its place
(the pairs are listed in `PROJECT.json`).

### Taken from outside the repository

tokio's `RwLock` is fair: whoever asks first is let in first, and a waiting writer
keeps later readers out. A `broadcast` receiver that has lost events gets an error
next, which ends the body of a server-sent-events response; the browser then
connects again. htmx swaps what an answer says it swaps, and a swapped element
takes its event source with it. Keplr answers in the order it is asked. The node
delivers the events of a subscription in order and nothing from before it, may end
it, tells of a transaction by one event, and answers each query from some block not older than the last one seen. The
Cosmos bank, token factory and dex are the external definitions of Garden.

## 3. Runs

| run | asks | bounds |
|---|---|---|
| `garden` | all safety properties of the contract, the inductive invariant of the proofs, and the refinement of PresaleLedger | 2 coins, 3 tickers of which 2 collide, 2 degens, 3 accepted deployments, 400 attached or nothing, `U64Max` = 4 |
| `readers` | the money properties when shares truncate to nothing and integers overflow; metadata, page queries, storage and rows agree with the contract | coins of 10 units, `U128Max` = 60000, payments 200, 600, 1300, 700 attached or nothing, one ticker with a colon |
| `web_cache` | the cache is never ahead, agrees when drained, never goes back, and settles; handlers find the entries they unwrap | 1 coin, 1 degen, 1 url, pages cut anywhere, 2 failures, 2 events in flight |
| `web_cache_two` | the order of the list, with events of one coin between the queries of another and transactions about both | 2 coins, no failure, a panic only ends the task |
| `feed` | a table that has caught up is the truth; events never take a row back; without a gap or a failure nothing panics | 1 browser, visitors with and without a wallet, 1 failure, a channel of 1 |
| `feed_live` | the lock's queue holds nobody who is gone; only a visit to a coin that is not there panics; liveness through the one lock | 2 browsers, 1 visit, no contributions, no failure |
| `wallet` | requests, account and flags | 2 accounts, 3 connects, 2 disconnects at once, 2 key changes, 2 calls of a kind |
| `paging_indices`, `keys_colon`, `countdown`, `web_entries`, `web_known` | one statement of a comment, text or assertion each, which the code violates (section 6) | as small as the case needs |

### Why the bounds are enough

* Two coins are what it takes to confuse one raise with another; the collision
  of two tickers is what it takes to create over a coin; two degens are what it
  takes for claims to race. More users, coins and payments are covered by proof.
* Payments of 1, 200, 400 and 1000 meet every branch of the fee at 0.5%: a fee of
  zero (refused), of one (the creator's half is zero coins, which the bank refuses),
  even, and odd. The deployments have both fee denoms, a rate just below the
  limit, a rate of zero, and two messages that instantiate refuses.
* `Wallets` bound how much can be raised, `U64Max` is the last block time, so
  extensions end when a deadline would not fit; both stand for "then the
  transaction fails" and cut no branch. `U128Max` is above every sum in `garden`
  and is what overflows in `readers`. `Micro` is the real 10^6, or 10 to make
  shares truncate: with coins of ten units a degen's share can be zero.
* In `readers` one name has a colon and the other has none, so every key of both
  kinds is read in both ways. `PagesMeetEverywhere` is proved for lists of any length;
  the run has limits below, at and above its two coins, and `paging_indices` three coins.
* `Extras` have nothing and an amount that pays for a share of the raise, so that what
  is attached could be mistaken for raised funds.
* In WebCache `MaxRaise` and `Deadlines` bound the contract, and `MaxBacklog` the
  events committed but not handled: two, beside the one in hand, so that one can be
  late while the next is already visible to its queries. A transaction may have as many
  more messages as the contract allows while its event is unpublished. `PageEnds` in
  `web_cache` lets a page end after every prefix but two: between the end and the raise of
  a coin, which no property relates, and between its name, which never changes, and its
  url; `web_entries` has these too. `web_cache_two` has the four cuts around creator and
  index. A fault may strike at every step; the second one strikes the recovery from the
  first. That more of everything changes nothing for agreement, order and types is proved.
* In `feed` the channel keeps one event, so that the second one overwrites; one
  browser loads lists for both kinds of visitor, again and again, and reloads rows
  in between. The storage is cut into two pages, the fewest that tear a coin.
  `feed_live` needs two browsers for one to overtake the other; without
  contributions there are still events to wait for (create, launch, extend).
  `MaxVisits` is one there: a visit holds the lock like a row and shows nothing in the
  table, so one is as many as change anything; a coin may be visited before its creation.
* In `wallet` three connects are two that overlap and one after a disconnect, and
  two key changes let the second come before the first is worked off, and either may be
  refused; two disconnects let the second end after a new connect.
* `CHECK_DEADLOCK FALSE` everywhere: time, funds and clicks run out in a bounded
  instance, and the contract may simply be left alone.

### Fairness

`FairWebSpec` is weakly fair to the monitor and to publication. Each request of
the monitor ends: the gRPC channel has a timeout of five seconds
(`web/src/main.rs:298`), and a timeout is the failure that `StartOver` models. The
runtime polls a ready task. A restart is a step of the monitor because the process
is hosted by a platform that starts it again. Faults and transactions are not
fair: they may stop, and `MaxFaults` says they do, without which nothing settles.

`FairFeedSpec` adds weak fairness for each browser's page handler and stream: what
they wait for is the lock, which is granted in turn, and the node, which answers or
times out (`PageFails`). Nothing in it says that a waiting task is let in: that is
what `Granted` says, and with a lock that prefers readers, or the last to come,
`Settles` and `PagesAnswered` fail. Users are not fair; browsers need not ask.

## 4. Properties

Of the contract (`Garden.tla`): `TypeOK`, `SubmissionsAddUp`, `EscrowBacksPresales`
(the one account holds exactly the raises not launched, in every denom, beside what was
attached to messages that ask for nothing),
`ClaimsBacked` (what is left covers every unclaimed share, in any order),
`PaidProRata` (each degen owns nothing or its final share), `OnlyDustStays`,
`LaunchPairsRaise`, `FundsNeverStuck` (a raise can always be launched
and a positive share always claimed), `MetadataMirrorsState`; as properties of steps
`LaunchFreezesPresale` and `NoTakeover`; and `ImplementsLedger`. `ListedOnce` (the index
list, the keys and the token factory name the same coins, each once) is a conjunct of
`Inductive`, which the run checks.

Of its readers: `PagesMeet` (an answered first page has every coin; an answered page and
the next one, answered when the list may have grown, pass over none, unless the limit was
longer than the list; nothing of pages that panic, which is `IndicesAreValid`);
`KeysApart`, `QueriesAgree`, `SnapshotAgrees`
(the decoded snapshot holds what the queries of an event would store);
`OneButton`, `OffersMatchContract` (an offered transaction is one the contract
accepts, and the other way round), `ShownShareIsOwed`.

Of the cache: `WebTypeOK`, `NeverAhead`, `DrainedAgrees`, `ListsCoinsInOrder`,
`NeverBackwards`, `KnownWithoutGap` (the handlers find what they unwrap), `Settles`. Of
the feed: `TablesAgree`, `EventsMoveRowsOn`, `NothingPanics` (so do the list, the rows that
load themselves again and the streams: only a visit to a coin without an entry panics),
`QueueHoldsWhoWaits` (nobody waits behind a task that is gone), `PagesAnswered`, and
`Settles` again, now through the lock. Of the wallet:
`PathNamesTheWallet`, `WalletFollowsKeplr`, `FlagsStandForCalls`.

Several have a condition that names where the code promises nothing, and without
which they do not hold: `~gap` (a message between snapshot and subscription, or behind
another in its transaction; `web_known` shows what that costs), `faults = 0` (nothing has failed yet; `web_entries`
shows what one failed query costs), `~behind` (the list was read before the stream
was there, the channel lagged, the state was refetched), `~overtaken` (a row was
loaded again past waiting events), `~overlapped` (two connects at once leave a
listener nobody can remove), `~missed` (the key changed while a call already had the
accounts), `~refused` (Keplr refused the accounts to the handler of the latest change),
`PlainName` (a ticker without a colon that begins no other). `Settles`
promises a monitor that listens only while its connection lives; after that it
promises what the code still delivers, a cache that agrees because it is read again.

## 5. Proofs

All theorems are checked by TLAPS from the assumptions the modules state about
their constants, which TLC evaluates in the runs. Of Garden: names are distinct
(`NamesAssumption`), users and coins are finite in number (`FiniteAssumption`), amounts
are natural numbers (`AmountsAssumption`), the pool's "none" is no reserve
(`EnvironmentAssumption`), instantiate messages are of their type
(`DeploymentAssumption`). Of StorageKeys: names are non-empty and distinct, those of
users have no colon, two denoms share the first part of their names only when one is
a first part of the other (`NameAssumption`), and different indexes have different
digits (`DigitsAssumption`). Nothing is assumed about the fee rate below the limit that
instantiate enforces, about the number of coins per denom, or about who calls what.
Of Paging: pages and limits are numbers or absent. Of WebCache: bounds are numbers,
and `Absent` is no coin, degen or event (`AbsentAssumption`). Of Feed: the channel
keeps at least one event, visitors are degens or nobody, and `Absent` is no message, table
or page (`FeedAssumption`).

| theorem | says | needs besides |
|---|---|---|
| `InductiveHolds`, `TypeCorrect` | `[]Inductive`, `[]TypeOK` | |
| `CoinsListedOnce`, `CreatedOnce` | `[]ListedOnce`, `NoTakeover` | |
| `LaunchPairs`, `LaunchIsFinal` | `[]LaunchPairsRaise`, `LaunchFreezesPresale` | `~DexAcceptsEmptySide` |
| `RaiseIsSumOfSubmissions` | `[]SubmissionsAddUp` | |
| `EscrowHolds`, `EveryClaimBacked`, `PaidOnceInFull` | `[]EscrowBacksPresales`, `[]ClaimsBacked`, `[]PaidProRata` | `~DexAcceptsEmptySide` |
| `SharesFit`, `SharesNearlyFill` | truncated shares of a set of any size fit in the half, and leave less than a unit each | |
| `DustIsAllThatStays`, `NothingIsStuck` | `[]OnlyDustStays`, `[]FundsNeverStuck` | the same, `Micro % 2 = 0` |
| `ContractImplementsLedger` | `ImplementsLedger` | `~DexAcceptsEmptySide` |
| `MetadataFollowsKeys` | `[]MetadataMirrorsState` | |
| `PagesMeetEverywhere`, `AnsweredPages` | `[]PagesMeet`; a page panics exactly when it does not lie within the list | |
| `OneButtonOffered`, `ShownShares` | `[]OneButton`, `[]ShownShareIsOwed` | `~DexAcceptsEmptySide` |
| `CountdownsFromTheLatestBlock` | counted from the latest block no open presale has more left than a presale lasts | |
| `OffersAccepted` | what a row offers is what the contract's guards accept, and the other way round | the same, `Micro % 2 = 0`, `~BankAcceptsZero` |
| `NoKeyShared`, `QueriesReadTheState`, `SnapshotDecodes` | `[]KeysApart`, `[]QueriesAgree`, `[]SnapshotAgrees` | |
| `ColonsBreakTheList` | a decoded list can be shown exactly when no created coin's name has a colon | |
| `MonitorKeepsItsTypes` | `[]WebTypeOK` | |
| `SiteNeverAhead`, `SiteNeverBackwards` | `[]NeverAhead`, `NeverBackwards` | |
| `DrainedSiteAgrees`, `DrainedSiteListsInOrder` | `[]DrainedAgrees`, `[]ListsCoinsInOrder` | |
| `HandlersFindEntries` | `[]KnownWithoutGap` | |
| `PagesLeaveTheCopy` | every step of the server is one of WebCache, or the end of the process | |
| `PagesNeverAhead`, `DrainedPagesAgree` | the same of the server with its pages | |
| `TablesComeToAgree`, `RowsMoveOn` | `[]TablesAgree`, `EventsMoveRowsOn` | |
| `LockWaitsForNobodyGone` | `[]QueueHoldsWhoWaits` | |
| `LockNeverStuck` | while somebody waits, whoever has the lock or is first for it can go on; nobody is overtaken | |
| `OnlyGapsPanic` | `[]NothingPanics` | |
| `FlagsAreCalls`, `PathsNameTheWallet`, `WalletFollows` | `[]FlagsStandForCalls`, `[]PathNamesTheWallet`, `[]WalletFollowsKeplr` | |

**The contract's invariant (`GardenProofs`).** `TypeOK` is not inductive: a claim divides
by the raise. The raise is positive because it is at least the claimant's submission
(`SubmissionsInRaise`). That survives `create_shitcoin`, which resets the raise of a
denom but not its submissions, only because nothing is kept about a denom that
was not created (`NothingBeforeCreate`), which in turn needs that no denom is
created twice, and that is the token factory's doing (`ListedOnce`). With a dex
that refuses an empty side, `PairsFollowLaunch` adds that a launched presale is
over and has a raise; extending needs a raise of zero and entering a presale
that is not over, so neither can touch a launched coin. The conjunction is
`Inductive`, which the run `garden` also checks.

**Sums (`TotalProofs`).** `Total` is a fold, a recursive function on the subsets of a
set. The module shows that the fold exists and is unique and then proves the laws
by looking at a smallest subset that breaks them (the library's well-foundedness
of strict inclusion): `TotalType`, `TotalUpdate` (changing one value changes the sum by
as much), `TotalZero`, `TotalScaled`, and `SharesFit`.

**Money (`GardenFundsProofs`).** `SubmissionsAddUp` follows by `TotalUpdate`.
The escrow changes for one coin at a time (`EscrowUpdate`); what is attached to a message
adds the same to the account and to `kept`. `CoinBacked` describes the
balances of one coin in every phase of its life: nobody has it before it is created,
the contract has all of it until the launch, and from then on at least what is
unclaimed. At the launch that is `SharesFit`; at a claim the balance and the unclaimed
sum go down together. For the dust, `CoinsConserved` says that from the launch on what
the contract holds and what it has paid are exactly half the supply, and
`SharesNearlyFill` that the shares leave less than a unit each; `WholeSupplies` makes
the half exact, which is why the number of units in a coin must be even.

**Nothing is stuck (same module).** A launch is accepted because everything it sends is
there: the escrow of a denom is at least any one raise in it (`TotalCovers`, a term of a
sum of naturals is at most the sum), the contract holds the whole supply until the
launch and half of it is positive (`WholeSupplies`), and neither side of the pair is
empty. A claim is accepted because `CoinBacked` leaves at least what is unclaimed, of
which the share is a term. `OffersAccepted`
adds the converse, which needs a bank that refuses zero coins: otherwise the contract
also accepts the claim of a share that truncates to nothing.

**Refinement (`LedgerProofs`).** Under the mapping each handler is one step of
PresaleLedger or none (`set_shitcoin_url`), and a tick is `Close` of the presales that
are due, or none. `Inductive` supplies what a mapped step needs: that a coin being
created was not there, that a presale being entered has not launched, that one being
extended has nothing raised. `MetadataFollowsKeys` needs one more invariant, that no
url is kept for a coin that was not created: its first description is without one.

**Readers (`ReaderProofs`).** An answered page runs from its start to the end of the list,
because the end it works out is the larger one (`PageOfList`); when the limit was not cut
down, the next page of a longer list starts one limit further on, within what the
earlier page has shown. A limit longer than the earlier list is cut down then and less
so later, and coins fall between the two pages: hence the condition. The buttons are a case split that
`Inductive` completes: a launched presale is over and has a raise. The shown share is
arithmetic: a rounded quotient against one that truncates twice. Countdowns need
`EndsAreNear`: no presale ends later than one that is created or extended now.

**Keys (same module).** A key's first part is its kind; the kind decides how many parts
after the name of a coin belong to a degen or a number, so the length of a key
gives back the length of the name, its parts the name, and the name the coin: colons
in names do not matter for keys that are composed. They matter for keys that are
split. For a coin with a plain name, a key that is split to that name is
one composed for it, because no other name begins with it; the decoded entry is then
the one the keyed queries build from the same values. That it *has* an entry needs only
that its own name has no colon, and a coin whose name has one never has: hence the
equivalence `ColonsBreakTheList`.

**The cache (`WebCacheProofs`).** Four invariants, each of which uses those before it.

1. `BaseInv`: the ledger's types, and the monitor's; every event on its way or in hand
   has happened (a claim's degen has claimed, an entered coin is planted), and while
   an event is in hand its queries are exactly those left and those answered.
2. `AheadInv`: cache, draft and answers are not ahead of the contract. They are stable
   because the contract only grows (`Grows`, one lemma per transaction).
3. `NotBehind`: what is about to replace an entry is not behind it: the answers of
   the event in hand, and the part of the draft that has been read, of coins and of
   degens. It is what makes the site go forward when a snapshot replaces what events
   have written.
4. `FollowInv`: without a gap, the draft *is* what the storage holds under the prefixes
   read so far, the installed copy agrees until the subscription is there, and from
   then on **every difference is announced**: each field is the contract's, or an event
   that sets it is on its way or in hand; an answer already given is the contract's, or
   an event after the one in hand corrects it. The first message of a transaction announces what
   it changes (`CommitAnnounces`), and a later one falls into the gap or before a
   snapshot has read anything (`CommitFallsInGap`); receiving moves an event into the hand
   (`ReceiveForgetsNothing`), applying it stores answers that are right or announced
   (`ApplyCoversCoins`, `ApplyCoversDegens`). When nothing is on its way, nothing differs.

That reading some prefixes and then others is reading them together, and that
reading all of them gives what the contract has, are the lemmas `ReadTwice` and
`AllRead`: the page cuts do not matter as long as the chain stands still.

**Its list.** `OrderInv`: no event comes before a creation except those of coins created
earlier. `ListInv`: the server lists no coin the contract lacks; without a gap its list
starts as the contract's, every coin it lacks has its creation on the way, and each place
a coin has in it is behind a place of every coin created before (`Follows`). Receiving a
creation keeps that: an earlier coin is listed, for by `OrderInv` its creation can not
be still to come. A coin that is listed twice does not matter to first appearances.

**What handlers unwrap (same module).** `OrderInv` also orders the events about one entry:
the creation of a coin comes before everything about it, a degen's entering before its
claim. `KnownInv`: without a gap, each event the monitor has received is about an entry
that is in the cache, or the event that makes it has been received too. What is
subscribed to starts from an installed copy that holds everything the contract has
(`FollowInv`), and a transaction's event comes behind those of what it needs. So when an
event is in hand with its queries answered, what makes its entry can not be behind it,
and it is there. A failure ends the subscription and starts over; a connection that has
closed only brings no further events.

**The pages (`FeedProofs`).** `PagesLeaveTheCopy`: to WebCache, a step of Feed is one of
its own or `Aborts`, so its invariants hold beside the pages (`CopyInv`). `MetaInv`
sharpens `FollowInv`: an entry that exists differs from the contract only when an event
other than its creation is coming, since a row is only replaced by those. On top of it
`TablesInv`: for a browser that was told of everything since its list was read, each
row differs from what the contract has only if some event that replaces it is in its
channel, in its hand, in the monitor's, or on its way there; and a created coin is in
the table or its creation is. When nothing is on its way, the table is the list.

**Rows move on (same module).** `TablesInv` says nothing of a browser that has missed
something, and `EventsMoveRowsOn` is about those too: a table may be older than a refetch
or a restart of the server. What carries it is that the server never knows less than it
has told (`MetaHeld`, `DegenHeld`): while it serves, its copy goes on from every row and
message there is, which `SiteNeverBackwards` keeps true; and while a new process reads its first
snapshot, of which nobody is shown anything yet (`DoorInv`), every row left in a browser is
behind the pages read so far, because pages are read at blocks no older than what the
rows were made of. So a message is never behind a row when it is broadcast, the messages
of a channel are in order, and those that were overwritten leave the rest in order
(`ShownInv`). A delivered row has the coin as its message has it, which goes on from the
row it replaces, and the degen as the copy has it now. Only a row that was loaded again
past waiting messages can be ahead of them: `overtaken`.

**Nothing panics (same module).** A page unwraps the entries of its index list and their
creators. `CalmInv`: until something fails or a message falls into the gap, a listed
coin has an entry, unless its creation is what the monitor is storing, under the lock
that keeps pages out; a row that is asked for has an entry, since the table it is in
was made from one, by this process or by an earlier one whose coins the new snapshot
holds (`OnwardInv`); entries have creators (`EntriesHaveCreators`), and so have the
messages made from them, in the channel and in hand. A visit asks for any coin: when its
entry is there it has a creator, and when it is not the visit panics, which is why
the property excludes it. A snapshot of the first
process is torn at most by transactions, and those are in the gap.

**The lock (same module).** What of liveness is safety: who is first in the queue is there
to take the lock. `QueueHoldsWhoWaits` is inductive with the types of the queue
(`LockInv`), because a task asks only when it is not waiting yet, and the two ways out of
a queue, being let in and being dropped with one's stream, take it out of the one place
it has (`OneMore`, `OneLess`). A monitor that waits goes on needing the lock, since
nothing but what it waits for moves it (`MonitorWaitsOn`). `LockNeverStuck` draws the two
conclusions. While the queue is not empty somebody gets on (`SomebodyGetsOn`): a reader
may answer or fail, the monitor has a query whose predecessors are answered
(`SomeQueryNext`), or has them all, or the first in the queue is let in
(`TheFirstGetsOn`). And of whoever waits before and after a step, those ahead of it are
no more than before (`NobodyOvertakes`: `OrderOfOneMore`, `OrderOfOneLess`). That
whoever gets on then does so is fairness, and stays with `feed_live`.

**The wallet (`WalletProofs`).** The flags by a direct invariant. For the paths: without
overlapping connects at most one connect runs, it runs only while not connected,
and the listeners are exactly the one the page remembers, or none. For the account
(`Following`): as long as no key change was missed, a connect that has its accounts has
the selected one, the last handler still pending has it, has yet to ask or was refused,
and with none pending a connected page has it unless the last was refused.

The hypothesis `~DexAcceptsEmptySide` is needed, and instructive: `launch_shitcoin`
does not look at the raise. With a dex that takes an empty side, a coin can be
launched with nothing, extended, and entered, and that raise is never paired.

Only model-checked:

* liveness, out of the prover's reach: `Settles`, `PagesAnswered` (their safety half is
  `LockWaitsForNobodyGone` and `LockNeverStuck`);
* `OffersMatchContract`, which is stated with ENABLED; `OffersAccepted` is the same with
  the guards of the actions written out.

## 6. What the violated properties show

Each run is one case; the theorem named after it says how far the case goes.

* `paging_indices`: the end of a page is `total.max(start + limit)`; a page that
  reaches past the last coin panics at `expect("valid index")`. `AnsweredPages`: exactly
  the pages that do not lie within the list do.
* `keys_colon`: keys are split at every colon, and a ticker may have one. Its coin is
  listed by a decoded snapshot that has no entry for it, and the list page unwraps.
  `ColonsBreakTheList`: one created coin with a colon is enough, and nothing else is.
* `countdown`: the list of a visitor without a wallet is rendered with a block time of
  zero, so it counts down from 1970 where the page promises 24 hours.
  `CountdownsFromTheLatestBlock`: with the time of the latest block it would keep to
  that, whatever was extended when.
* `web_entries`: when the metadata query of a created coin fails, its index stays in
  the shared state without an entry, which the list page unwraps.
* `web_known`: a coin created between the snapshot and the subscription is unknown
  when its first event arrives, and the handler unwraps it. `HandlersFindEntries`: only
  with such a message, or one that its transaction's event does not tell of, can a
  handler miss an entry.

`OnlyGapsPanic` is about the last two together: until the first failure or message in the
gap, no `unwrap` of the server's handlers and streams, of its lists and of the rows that
load themselves again fails, in a garden of coins without colons and slashes in their
tickers. What remains is the visit: `GET /presale/<any name>` unwraps the entry of a
name nobody created, at any time, in a server that has seen everything.

## 7. Not modelled

* The amount that `enterPresale` computes as a float times a million: floating point.
* Names, and tickers beyond the denom they map to; the name's key and the pool
  factory's; the digits of numbers, thousands separators, block-time ages: layout.
* `/dump` and `/balance` (one reads under the lock, one does not take it) and the static
  pages: they change nothing and nothing waits for them but the lock, which Feed's
  pages already take.
* Coins sent to the contract outside a message, and coins of the garden attached to one;
  LP tokens, trading after the launch: nothing in the contract reads them. They
  would only add to what the contract and its degens have.
* In WebCache and Feed, coins with a colon in their ticker (see `keys_colon`); in Feed also
  those with a slash, whose rows ask for the address of another name and so panic like a
  visit to it.
* Page breaks inside a key prefix: WebCache breaks pages between prefixes, which
  already tears a coin in two.
* In WebCache the name, ticker and supply (written once, with the creator).
* The creation, extension and launch operations of `script.js` one by one: they have the same
  flags as the three operations that stand for them.
* Scripts, schema, styling.

## 8. What could follow

1. Requests that browsers give up while they wait for the lock, and `/dump` as one more
   reader of it.
2. A proof that what WebCache and Feed need of PresaleLedger is what Garden implements for
   all of its coins at once, with the events each handler emits as part of the mapping.
