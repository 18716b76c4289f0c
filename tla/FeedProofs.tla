----------------------------- MODULE FeedProofs -----------------------------
(***************************************************************************)
(* Theorems about the pages: beside them the server's copy behaves as it   *)
(* does alone, and what a browser shows follows the contract as that copy  *)
(* does, for any number of browsers and any capacity of the channel.       *)
(***************************************************************************)
EXTENDS Feed, WebCacheProofs, SequenceTheorems
-----------------------------------------------------------------------------
(***************************************************************************)
(* The copy beside its pages.                                              *)
(***************************************************************************)

\* What is known of the monitor without pages.
CopyInv == BaseInv /\ AheadInv /\ NotBehind /\ FollowInv /\ OrderInv /\ ListInv

\* At the start.
LEMMA CopyAtStart == WebInit => CopyInv
<1> SUFFICES ASSUME WebInit PROVE CopyInv
  OBVIOUS
<1>1. BaseInv /\ AheadInv /\ FollowInv /\ OrderInv /\ ListInv
  BY BaseAtStart, AheadAtStart, FollowAtStart, ListAtStart
<1>2. NotBehind
  <2>1. at = "snapshot" /\ page = 1
    BY DEF WebInit
  <2>2. Before(page) = {}
    BY <2>1 DEF Before
  <2> QED
    BY <2>1, <2>2 DEF NotBehind, AnswersNotBehind, DraftNotBehind, DraftHas, DraftHasDegen
<1> QED
  BY <1>1, <1>2 DEF CopyInv

\* A page that ends the process leaves the monitor as a failed snapshot does.
LEMMA AbortKeepsCopy ==
    ASSUME CopyInv, Aborts
    PROVE  BaseInv' /\ Grows /\ AheadInv' /\ NotBehind' /\ FollowInv'
<1>1. /\ StartSnapshot /\ cache' = EmptyState /\ connected' = TRUE
      /\ UNCHANGED chain /\ faults' = faults
  BY DEF Aborts, Restart
<1>2. Grows /\ ChainInv' /\ unpublished' = unpublished
  BY <1>1, MonitorStepShrinksNothing DEF CopyInv, BaseInv
<1>3. cache' \in StateType /\ faults' \in 0 .. MaxFaults
  BY <1>1, EmptyStateType DEF CopyInv, BaseInv, MonitorInv, WebTypeOK
<1>4. MonitorInv'
  BY <1>1, <1>2, <1>3, StartsAgain DEF CopyInv, BaseInv
<1>5. BaseInv'
  BY <1>2, <1>4 DEF BaseInv
<1>6. AheadInv'
  BY <1>1, <1>2, <1>5, StartingAgainNotAhead DEF CopyInv
<1> QED
  BY <1>1, <1>2, <1>5, <1>6, StartingNotBehind, StartingFollows

\* Every step of the monitor keeps all of it.
LEMMA CopyKept ==
    ASSUME CopyInv, [WebNext \/ Aborts]_vars
    PROVE  CopyInv' /\ Grows
<1>1. OrderInv' /\ ListInv'
  BY OrderKept, ListKept DEF CopyInv
<1>2. CASE [WebNext]_vars
  BY <1>1, <1>2, BaseKept, AheadKept, NotBehindKept, FollowKept DEF CopyInv
<1>3. CASE Aborts
  BY <1>1, <1>3, AbortKeepsCopy DEF CopyInv
<1> QED
  BY <1>2, <1>3

\* The steps of a browser.
LEMMA BrowserSteps ==
    ASSUME NEW b \in Browsers,
           \/ \E w \in Visitors : AskForList(b, w)
           \/ \E c \in Coins : AskForRow(b, c) \/ Visit(b, c)
           \/ Serve(b) \/ Connect(b) \/ Stream(b)
    PROVE  UNCHANGED vars \/ Aborts
BY DEF AskForList, AskForRow, Visit, Serve, GrantPage, PageFails, PagePanics, AnswerList,
       AnswerRow, AnswerVisit, Connect, Stream, Take, Deliver, DeliveryPanics, Lag

\* A page that replaces nothing does to the server what a page that fails does.
LEMMA VisitEnds ==
    ASSUME NEW b \in Browsers, NEW c \in Coins, AnswerVisit(b, c)
    PROVE  PageFails(b)
BY DEF AnswerVisit, PageFails

\* The pages are told apart, and from none.
LEMMA PagesDiffer ==
    /\ \A w \in Visitors : ListPage(w) # Absent
    /\ \A c \in Coins : RowPage(c) # Absent /\ VisitPage(c) # Absent
    /\ \A c, d, w : /\ ListPage(w) # RowPage(c) /\ ListPage(w) # VisitPage(c)
                    /\ RowPage(c) # VisitPage(d)
<1>1. /\ \A w \in Visitors : ListPage(w) # Absent
      /\ \A c \in Coins : RowPage(c) # Absent /\ VisitPage(c) # Absent
  BY FeedAssumption DEF ListPage, RowPage, VisitPage
<1>2. /\ \A w : ListPage(w).page = "list"
      /\ \A c : RowPage(c).page = "row" /\ VisitPage(c).page = "visit"
  BY DEF ListPage, RowPage, VisitPage
<1> QED
  BY <1>1, <1>2

\* To the monitor every step with pages is one of its own, or the end of the
\* process.
LEMMA StepsOfTheCopy ==
    ASSUME [FeedNext]_allVars
    PROVE  [WebNext \/ Aborts]_vars
<1>1. CASE (Commit \/ TimePasses) \/ FeedPublish \/ FeedFaults
  BY <1>1 DEF FeedPublish, FeedFaults, WebNext
<1>2. CASE FeedMonitor
  BY <1>2 DEF FeedMonitor, AskToWrite, FeedReceive, FeedInstall, FeedBroadcast,
              FeedMonitorSteps, FeedPanic, WebNext, Monitor
<1>3. CASE UNCHANGED allVars
  BY <1>3 DEF allVars
<1> QED
  BY <1>1, <1>2, <1>3, BrowserSteps DEF FeedNext

\* Beside its pages, with the lock between them, the server's copy does what it
\* does alone or is lost with the process.
THEOREM PagesLeaveTheCopy == FeedSpec => WebInit /\ [][WebNext \/ Aborts]_vars
<1>1. FeedInit => WebInit
  BY DEF FeedInit
<1>2. [FeedNext]_allVars => [WebNext \/ Aborts]_vars
  BY StepsOfTheCopy
<1> QED
  BY <1>1, <1>2, PTL DEF FeedSpec

\* All of it holds beside the pages.
LEMMA CopyBesidePages == FeedSpec => []CopyInv
<1>1. FeedInit => CopyInv
  BY CopyAtStart DEF FeedInit
<1>2. CopyInv /\ [FeedNext]_allVars => CopyInv'
  BY StepsOfTheCopy, CopyKept
<1> QED
  BY <1>1, <1>2, PTL DEF FeedSpec

\* The copy that the pages are made of is never ahead of the contract.
THEOREM PagesNeverAhead == FeedSpec => []NeverAhead
<1>1. CopyInv => NeverAhead
  BY NotAheadIsNeverAhead DEF CopyInv
<1> QED
  BY <1>1, CopyBesidePages, PTL

\* With all events worked off and every message told of by one, or by the snapshot,
\* it agrees with the contract and lists its coins in order, although pages take the
\* lock and may end the process.
THEOREM DrainedPagesAgree == FeedSpec => [](DrainedAgrees /\ ListsCoinsInOrder)
<1>1. CopyInv => DrainedAgrees /\ ListsCoinsInOrder
  BY NothingLeftToTell, NothingLeftToList DEF CopyInv
<1> QED
  BY <1>1, CopyBesidePages, PTL
-----------------------------------------------------------------------------
(***************************************************************************)
(* The events that rows wait for.                                          *)
(***************************************************************************)

\* The events that replace the rows of their coin in every table.
Refreshing == {"ShitcoinUrlSet", "PresaleEntered", "PresaleExtended", "ShitcoinLaunched"}

\* The monitor works from a copy without a gap.
Tracked == (at = "subscribe" \/ Subscribed) /\ connected /\ ~gap

\* The events the browsers have not been told of.
Upcoming == IF Subscribed THEN {e \in Coming \cup {event} : e # Absent} ELSE {}

About(news, kinds, c) == \E e \in news : e.kind \in kinds /\ e.coin = c

AboutOf(news, kind, c, g) == \E e \in news : e.kind = kind /\ e.coin = c /\ e.degen = g

\* The entry of a coin is the contract's, or an event that is not that of its
\* creation will tell of the difference.
MetaTold(c) ==
    cache.shitcoins[c] # Absent =>
        cache.shitcoins[c] = OnChainMeta(c) \/ Told(Refreshing, c)

MetaInv ==
    /\ Subscribed /\ connected /\ ~gap => \A c \in Coins : MetaTold(c)
    /\ at = "timestamp" => cache.shitcoins[event.coin] # Absent

\* What a step changes is announced after it, and the change of a coin that was
\* there before not by its creation.
ContractTold ==
    \A c \in Coins :
        /\ Planted(c) => OnChainMeta(c)' = OnChainMeta(c) \/ Announced(Refreshing, c)'
        /\ Planted(c)' => Planted(c) \/ Announced({"ShitcoinCreated"}, c)'
        /\ \A g \in Degens :
              /\ contributed'[c][g] = contributed[c][g] \/ AnnouncedOf("PresaleEntered", c, g)'
              /\ \/ g \in claimed'[c] <=> g \in claimed[c]
                 \/ AnnouncedOf("ShitcoinClaimed", c, g)'

\* An entry whose fields are the contract's is the contract's.
LEMMA EntryOfTheContract ==
    ASSUME NEW c \in Coins, Planted(c), NEW meta \in MetaType,
           meta.creator, meta.end = deadline[c], meta.raise = raised[c],
           meta.url = url[c], meta.launched <=> Launched(c)
    PROVE  meta = OnChainMeta(c)
<1>1. meta = [creator |-> TRUE, url |-> url[c], end |-> deadline[c],
              raise |-> raised[c], launched |-> phase[c] = "launched"]
  BY DEF MetaType, Launched
<1> QED
  BY <1>1 DEF OnChainMeta

\* Where nothing changes, nothing has to be told.
LEMMA NothingToTell ==
    ASSUME ChangesNothing
    PROVE  ContractTold /\ \A c \in Coins : OnChainMeta(c)' = OnChainMeta(c)
<1> SUFFICES ASSUME NEW c \in Coins
             PROVE  OnChainMeta(c)' = OnChainMeta(c)
  BY DEF ContractTold, ChangesNothing
<1>1. /\ deadline'[c] = deadline[c] /\ raised'[c] = raised[c] /\ url'[c] = url[c]
      /\ (phase'[c] = "launched") = (phase[c] = "launched")
      /\ (phase'[c] # "none") = (phase[c] # "none")
  BY DEF ChangesNothing, Launched, Planted
<1> QED
  BY <1>1 DEF OnChainMeta, Planted

\* A message without a gap is told by its event.
LEMMA CommitTells ==
    ASSUME BaseInv, Commit, at = "subscribe" \/ Subscribed, ~gap'
    PROVE  ContractTold /\ Coming \subseteq Coming' /\ Subscribed /\ ~gap
<1>1. PICK e : MessageDoes(e) /\ CoinListed(e) /\ (Emit(e) \/ Unannounced)
  BY CommitDoes DEF BaseInv
<1>told. Subscribed /\ ~gap /\ TransactionDoes(e)
  <2>1. /\ gap => gap'
        /\ ~gap' => at # "subscribe"
        /\ (Subscribed /\ ~gap') => TransactionDoes(e)
    BY <1>1, CommitFallsInGap
  <2> QED
    BY <2>1, Zenon
<1>2. /\ e \in EventType /\ unpublished' = Append(unpublished, e) /\ ChangesOnly(e)
      /\ stream' = stream /\ unpublished \in Seq(EventType)
  BY <1>told DEF TransactionDoes, MessageDoes, Commit, BaseInv, MonitorInv
<1>3. e \in Coming' /\ Coming \subseteq Coming'
  <2>1. Elements(unpublished') = Elements(unpublished) \cup {e}
    BY <1>2, ElementsOfAppend
  <2> QED
    BY <1>2, <2>1 DEF Coming
<1>4. /\ \A kinds, c : (e.coin = c /\ e.kind \in kinds) => Announced(kinds, c)'
      /\ \A kind, c, g : (e.coin = c /\ e.degen = g /\ e.kind = kind) => AnnouncedOf(kind, c, g)'
  BY <1>3 DEF Announced, AnnouncedOf
<1>5. ASSUME NEW c \in Coins, Planted(c), ~Announced(Refreshing, c)'
      PROVE  OnChainMeta(c)' = OnChainMeta(c)
  <2>1. ~(e.coin = c /\ e.kind \in Refreshing)
    BY <1>4, <1>5
  <2>2. ~(e.coin = c /\ e.kind = "ShitcoinCreated")
    BY <1>1, <1>5 DEF CoinListed
  <2>3. /\ deadline'[c] = deadline[c] /\ raised'[c] = raised[c] /\ url'[c] = url[c]
        /\ (Launched(c)' <=> Launched(c)) /\ (Planted(c)' <=> Planted(c))
    BY <1>2, <2>1, <2>2
       DEF ChangesOnly, Refreshing, EndKinds, RaiseKinds, UrlKinds, LaunchKinds
  <2>4. /\ (phase'[c] = "launched") = (phase[c] = "launched")
        /\ (phase'[c] # "none") = (phase[c] # "none")
    BY <2>3 DEF Launched, Planted
  <2> QED
    BY <2>3, <2>4 DEF OnChainMeta, Planted
<1>6. ASSUME NEW c \in Coins
      PROVE  /\ Planted(c)' => Planted(c) \/ Announced({"ShitcoinCreated"}, c)'
             /\ \A g \in Degens :
                   /\ \/ contributed'[c][g] = contributed[c][g]
                      \/ AnnouncedOf("PresaleEntered", c, g)'
                   /\ \/ g \in claimed'[c] <=> g \in claimed[c]
                      \/ AnnouncedOf("ShitcoinClaimed", c, g)'
  BY <1>2, <1>4 DEF ChangesOnly
<1> QED
  BY <1>told, <1>3, <1>5, <1>6 DEF ContractTold

\* Steps that write no entry and forget no event.
LEMMA MetaUnmoved ==
    ASSUME BaseInv, AheadInv, \A c \in Coins : MetaTold(c), ContractTold, StillTold,
           cache'.shitcoins = cache.shitcoins
    PROVE  \A c \in Coins : MetaTold(c)'
<1> SUFFICES ASSUME NEW c \in Coins, cache.shitcoins[c] # Absent
             PROVE  cache.shitcoins[c] = OnChainMeta(c)' \/ Told(Refreshing, c)'
  BY DEF MetaTold
<1>1. Planted(c)
  BY DEF AheadInv, NotAhead, MetaNotAhead
<1>2. cache.shitcoins[c] = OnChainMeta(c) \/ Told(Refreshing, c)
  BY DEF MetaTold
<1>3. OnChainMeta(c)' = OnChainMeta(c) \/ Told(Refreshing, c)'
  BY <1>1, AnnouncedIsTold DEF ContractTold
<1> QED
  BY <1>2, <1>3 DEF StillTold

\* What agrees needs no telling.
LEMMA AgreementTold ==
    ASSUME CacheAgrees
    PROVE  \A c \in Coins : MetaTold(c)
BY DEF CacheAgrees, MetaTold

\* Once stored, an entry waits for later events only: that of the creation of
\* the coin is not among them.
LEMMA ApplyTells ==
    ASSUME CopyInv, MetaInv, Apply, connected, ~gap
    PROVE  \A c \in Coins : MetaTold(c)'
<1>1. /\ at = "query" /\ at' = "timestamp" /\ event \in EventType /\ Happened(event)
      /\ event.coin \in Coins
      /\ UNCHANGED chain /\ UNCHANGED <<stream, connected, event, gap>>
  BY AppliesToEntries DEF CopyInv, BaseInv
<1>2. Coming' = Coming
  BY <1>1 DEF Coming, chain
<1>3. \A kinds, c : Told(kinds, c)' <=> Announced(kinds, c)
  BY <1>1, <1>2 DEF Told, InHand, Announced
<1>4. \A c \in Coins : OnChainMeta(c)' = OnChainMeta(c) /\ (Planted(c)' <=> Planted(c))
  BY <1>1 DEF OnChainMeta, Planted, chain, ledger
<1>5. ASSUME NEW c \in Coins \ {event.coin}
      PROVE  MetaTold(c)'
  <2>1. cache'.shitcoins[c] = cache.shitcoins[c]
    BY <1>5, Applies DEF CopyInv, BaseInv
  <2>2. MetaTold(c)
    BY <1>1 DEF MetaInv, Subscribed
  <2>3. Told(Refreshing, c) => Announced(Refreshing, c)
    BY DEF Told, InHand
  <2> QED
    BY <1>3, <1>4, <2>1, <2>2, <2>3 DEF MetaTold
<1>6. ASSUME NEW c \in Coins, c = event.coin
      PROVE  MetaTold(c)'
  <2> DEFINE meta == cache'.shitcoins[c]
  <2>1. meta \in MetaType /\ Planted(c)
    BY <1>1, <1>6, Applies DEF CopyInv, BaseInv, Happened
  <2>2. FollowInv'
    BY ApplyFollows DEF CopyInv
  <2>3. CoinCovered(c)'
    BY <1>1, <2>2 DEF FollowInv, Subscribed, Covered
  <2>5. \A f \in Coming : ~(f.kind = "ShitcoinCreated" /\ f.coin = c)
    BY <1>1, <1>6, AbsentAssumption DEF CopyInv, OrderInv, Precedes
  <2> SUFFICES ASSUME ~Announced(Refreshing, c)
               PROVE  meta = OnChainMeta(c)
    BY <1>1, <1>3, <1>4 DEF MetaTold
  <2>6. /\ ~Announced(EndKinds, c) /\ ~Announced(RaiseKinds, c)
        /\ ~Announced(UrlKinds, c) /\ ~Announced(LaunchKinds, c)
    BY <2>5 DEF Announced, Refreshing, EndKinds, RaiseKinds, UrlKinds, LaunchKinds
  <2>7. /\ deadline' = deadline /\ raised' = raised /\ url' = url
        /\ (Launched(c)' <=> Launched(c))
    BY <1>1 DEF chain, ledger, Launched
  <2>8. meta # Absent
    BY <2>1, AbsentAssumption
  <2>9. /\ meta.creator /\ meta.end = deadline[c] /\ meta.raise = raised[c]
        /\ meta.url = url[c] /\ (meta.launched <=> Launched(c))
    BY <1>1, <1>3, <2>3, <2>6, <2>7, <2>8 DEF CoinCovered
  <2> HIDE DEF meta
  <2> QED
    BY <1>1, <2>1, <2>9, EntryOfTheContract
<1> QED
  BY <1>5, <1>6

\* Every step keeps the entries told.
LEMMA MetaKept ==
    ASSUME CopyInv, MetaInv, [WebNext \/ Aborts]_vars
    PROVE  MetaInv'
<1> USE DEF CopyInv
<1>1. ASSUME (at = "timestamp")' PROVE (cache.shitcoins[event.coin] # Absent)'
  <2>1. CASE Apply
    <3>1. cache'.shitcoins[event.coin] \in MetaType /\ event' = event
      BY <2>1, Applies, AppliesToEntries DEF BaseInv
    <3> QED
      BY <3>1, AbsentAssumption
  <2>2. CASE ~Apply
    <3>1. at = "timestamp" /\ UNCHANGED <<event, cache>>
      BY <1>1, <2>2 DEF WebNext, Commit, TimePasses, Publish, Monitor, ReadPage,
         InstallSnapshot, Subscribe, Unsubscribed, Receive, QueryAnswers, Broadcast, Panic,
         StartOver, ConnectionCloses, SnapshotFails, Aborts, Restart, StartSnapshot, handling,
         vars
    <3> QED
      BY <3>1 DEF MetaInv
  <2> QED
    BY <2>1, <2>2
<1>2. ASSUME (Subscribed /\ connected /\ ~gap)' PROVE (\A c \in Coins : MetaTold(c))'
  <2>1. CASE Apply
    BY <1>2, <2>1, ApplyTells DEF Apply
  <2>2. CASE Receive
    <3>1. cache'.shitcoins = cache.shitcoins /\ ChangesNothing /\ StillTold
      BY <2>2, Receives, MonitorStepShrinksNothing, ReceiveForgetsNothing DEF BaseInv
    <3>2. \A c \in Coins : MetaTold(c)
      BY <1>2, <2>2 DEF MetaInv, Receive, Subscribed
    <3> QED
      BY <3>1, <3>2, NothingToTell, MetaUnmoved
  <2>3. CASE Broadcast
    <3>1. /\ at = "timestamp" /\ at' = "listen" /\ cache' = cache /\ stream' = stream
          /\ UNCHANGED chain /\ UNCHANGED <<connected, gap>>
      BY <2>3 DEF Broadcast
    <3>2. Coming' = Coming /\ ChangesNothing
      BY <3>1, MonitorStepShrinksNothing DEF chain, Coming, BaseInv
    <3>3. StillTold
      BY <3>1, <3>2 DEF StillTold, Told, ToldOf, InHand, Announced, AnnouncedOf
    <3>4. \A c \in Coins : MetaTold(c)
      BY <1>2, <3>1 DEF MetaInv, Subscribed
    <3> QED
      BY <3>1, <3>2, <3>3, <3>4, NothingToTell, MetaUnmoved
  <2>4. CASE Commit
    <3>1. cache' = cache /\ UNCHANGED <<at, event, connected>> /\ Subscribed /\ ~gap'
      BY <1>2, <2>4 DEF Commit, handling, Subscribed
    <3>2. ContractTold /\ Coming \subseteq Coming' /\ ~gap
      BY <2>4, <3>1, CommitTells
    <3>3. StillTold
      BY <3>1, <3>2, MoreIsTold
    <3>4. \A c \in Coins : MetaTold(c)
      BY <1>2, <3>1, <3>2 DEF MetaInv
    <3> QED
      BY <3>1, <3>2, <3>3, <3>4, MetaUnmoved
  <2>5. CASE Subscribe
    <3>1. /\ at = "subscribe" /\ cache' = cache /\ UNCHANGED chain
          /\ UNCHANGED <<stream, event, connected, gap>>
      BY <2>5 DEF Subscribe, handling
    <3>2. Coming' = Coming /\ ChangesNothing
      BY <3>1, MonitorStepShrinksNothing DEF chain, Coming, BaseInv
    <3>3. StillTold
      BY <3>1, <3>2, MoreIsTold
    <3>4. \A c \in Coins : MetaTold(c)
      BY <1>2, <3>1, AgreementTold DEF FollowInv
    <3> QED
      BY <3>1, <3>2, <3>3, <3>4, NothingToTell, MetaUnmoved
  <2>6. CASE TimePasses \/ Publish \/ QueryAnswers \/ UNCHANGED vars
    <3>1. UNCHANGED <<at, event, cache, connected, gap>>
      BY <2>6 DEF TimePasses, Publish, QueryAnswers, vars, handling
    <3>2. ChangesNothing /\ Coming' = Coming
      <4>1. CASE TimePasses
        BY <4>1, Closes DEF BaseInv, TimePasses, Coming
      <4>2. CASE Publish
        <5>1. Subscribed /\ connected
          BY <1>2, <3>1 DEF Subscribed
        <5>2. ChangesNothing
          BY <4>2, NothingShrinks DEF BaseInv, Publish
        <5> QED
          BY <4>2, <5>1, <5>2, Publishes DEF BaseInv
      <4>3. CASE QueryAnswers \/ UNCHANGED vars
        BY <4>3, MonitorStepShrinksNothing DEF BaseInv, QueryAnswers, vars, chain, Coming
      <4> QED
        BY <2>6, <4>1, <4>2, <4>3
    <3>3. StillTold
      BY <3>1, <3>2, MoreIsTold
    <3>4. \A c \in Coins : MetaTold(c)
      BY <1>2, <3>1 DEF MetaInv, Subscribed
    <3> QED
      BY <3>1, <3>2, <3>3, <3>4, NothingToTell, MetaUnmoved
  <2> QED
    BY <1>2, <2>1, <2>2, <2>3, <2>4, <2>5, <2>6
       DEF WebNext, Monitor, ReadPage, InstallSnapshot, Unsubscribed, Panic, StartOver,
           ConnectionCloses, SnapshotFails, Aborts, Restart, StartSnapshot, Subscribed
<1> QED
  BY <1>1, <1>2 DEF MetaInv

\* The same said of the events the browsers wait for.
NewsTell ==
    \A c \in Coins :
        /\ Planted(c) => OnChainMeta(c)' = OnChainMeta(c) \/ About(Upcoming, Refreshing, c)'
        /\ Planted(c)' => Planted(c) \/ About(Upcoming, {"ShitcoinCreated"}, c)'
        /\ \A g \in Degens :
              /\ \/ contributed'[c][g] = contributed[c][g]
                 \/ AboutOf(Upcoming, "PresaleEntered", c, g)'
              /\ \/ g \in claimed'[c] <=> g \in claimed[c]
                 \/ AboutOf(Upcoming, "ShitcoinClaimed", c, g)'

\* A step that changes nothing leaves nothing to tell.
LEMMA NoNews ==
    ASSUME ChangesNothing
    PROVE  NewsTell
BY NothingToTell DEF ChangesNothing, NewsTell

\* What is told of, is among the events to come.
LEMMA ToldIsUpcoming ==
    ASSUME BaseInv, Subscribed
    PROVE  /\ \A kinds, c : Told(kinds, c) => About(Upcoming, kinds, c)
           /\ \A kind, c, g : ToldOf(kind, c, g) => AboutOf(Upcoming, kind, c, g)
<1>1. \A e \in Coming : e # Absent
  BY AbsentAssumption DEF BaseInv, MonitorInv, Happened
<1>2. at = "query" => event # Absent
  BY DEF BaseInv, MonitorInv, WebTypeOK
<1>3. Coming \subseteq Upcoming /\ (at = "query" => event \in Upcoming)
  BY <1>1, <1>2 DEF Upcoming
<1>4. ASSUME NEW kinds, NEW c, Told(kinds, c) PROVE About(Upcoming, kinds, c)
  BY <1>3, <1>4 DEF Told, Announced, InHand, About
<1>5. ASSUME NEW kind, NEW c, NEW g, ToldOf(kind, c, g) PROVE AboutOf(Upcoming, kind, c, g)
  BY <1>3, <1>5 DEF ToldOf, AnnouncedOf, InHand, AboutOf
<1> QED
  BY <1>4, <1>5

\* While the copy is followed no event is forgotten but by broadcasting it, and
\* every change is told.
LEMMA NewsStays ==
    ASSUME CopyInv, Tracked, Tracked', [WebNext \/ Aborts]_vars, ~Broadcast
    PROVE  Upcoming \subseteq Upcoming' /\ NewsTell
<1> USE DEF CopyInv
<1>1. CASE Commit
  <2>1. /\ ContractTold /\ Coming \subseteq Coming' /\ UNCHANGED <<at, event>>
        /\ Subscribed
    BY <1>1, CommitTells DEF Commit, handling, Tracked
  <2>2. Upcoming \subseteq Upcoming' /\ Subscribed' /\ BaseInv'
    BY <2>1, CopyKept DEF Upcoming, Subscribed
  <2>3. /\ \A kinds, c : Announced(kinds, c)' => About(Upcoming, kinds, c)'
        /\ \A kind, c, g : AnnouncedOf(kind, c, g)' => AboutOf(Upcoming, kind, c, g)'
    <3>1. \A e \in Coming' : e # Absent
      BY <2>2, AbsentAssumption DEF BaseInv, MonitorInv, Happened
    <3>2. Coming' \subseteq Upcoming'
      BY <2>2, <3>1 DEF Upcoming
    <3> QED
      BY <3>2 DEF Announced, AnnouncedOf, About, AboutOf
  <2> QED
    BY <2>1, <2>2, <2>3 DEF ContractTold, NewsTell
<1>2. CASE Receive
  <2>1. /\ at = "listen" /\ at' = "query" /\ Coming = Coming' \cup {event'}
        /\ UNCHANGED chain
    BY <1>2, Receives DEF BaseInv
  <2>2. event = Absent /\ ChangesNothing
    BY <2>1, MonitorStepShrinksNothing DEF BaseInv, MonitorInv, WebTypeOK
  <2>3. Upcoming \subseteq Upcoming'
    BY <2>1, <2>2 DEF Upcoming, Subscribed
  <2> QED
    BY <2>2, <2>3, NoNews
<1>3. CASE TimePasses \/ Publish \/ UNCHANGED vars \/ QueryAnswers \/ Apply \/ Subscribe
  <2>1. event' = event /\ ChangesNothing
    BY <1>3, Closes, NothingShrinks, MonitorStepShrinksNothing, AppliesToEntries
       DEF BaseInv, TimePasses, Publish, vars, chain, QueryAnswers, Subscribe, handling
  <2>2. Subscribed => Subscribed' /\ Coming' = Coming
    <3>1. CASE TimePasses
      BY <3>1 DEF TimePasses, Coming, Subscribed
    <3>2. CASE Publish
      BY <3>2, Publishes DEF BaseInv, Publish, Tracked, Subscribed
    <3>3. CASE UNCHANGED vars \/ QueryAnswers \/ Apply \/ Subscribe
      BY <3>3 DEF vars, chain, QueryAnswers, Apply, Subscribe, Coming, Subscribed
    <3> QED
      BY <1>3, <3>1, <3>2, <3>3
  <2>3. Upcoming \subseteq Upcoming'
    BY <2>1, <2>2 DEF Upcoming
  <2> QED
    BY <2>1, <2>3, NoNews
<1> QED
  BY <1>1, <1>2, <1>3
     DEF WebNext, Monitor, ReadPage, InstallSnapshot, Unsubscribed, Panic, StartOver,
         ConnectionCloses, SnapshotFails, Aborts, Restart, StartSnapshot, Subscribed, Tracked
-----------------------------------------------------------------------------
(***************************************************************************)
(* What the browsers show.                                                 *)
(***************************************************************************)

\* The messages a browser has not shown yet, and the news it will be shown.
Pending(b) == {m \in {inhand[b]} \cup Elements(inbox[b]) : m # Absent}

Due(b) == Upcoming \cup Pending(b)

After(s, i) == {s[j] : j \in {k \in DOMAIN s : i < k}}

\* What a row says of its coin and of the degen is the contract's, or due to be
\* said anew.
MetaRight(b, row) ==
    row.meta = OnChainMeta(row.coin) \/ About(Due(b), Refreshing, row.coin)

DegenRight(b, row) ==
    IF who[b] = Absent THEN row.degen = Absent
    ELSE /\ row.degen # Absent
         /\ \/ row.degen.submission = contributed[row.coin][who[b]]
            \/ AboutOf(Due(b), "PresaleEntered", row.coin, who[b])
         /\ \/ row.degen.claimed <=> who[b] \in claimed[row.coin]
            \/ AboutOf(Due(b), "ShitcoinClaimed", row.coin, who[b])

RowTold(b, row) == Planted(row.coin) /\ MetaRight(b, row) /\ DegenRight(b, row)

\* A message says what the contract says of its coin, or a later one will.
MessageTold(m, later) == m.meta = OnChainMeta(m.coin) \/ About(later, Refreshing, m.coin)

MessagesTold(b) ==
    /\ inhand[b] # Absent => MessageTold(inhand[b], Upcoming \cup Elements(inbox[b]))
    /\ \A i \in DOMAIN inbox[b] : MessageTold(inbox[b][i], Upcoming \cup After(inbox[b], i))

\* A table that was told of everything has a row for every coin or will get it,
\* and its rows are right or will be.
TableTold(b) ==
    /\ \A row \in Elements(table[b]) : RowTold(b, row)
    /\ \A c \in Coins : Planted(c) =>
          \/ \E row \in Elements(table[b]) : row.coin = c
          \/ About(Due(b), {"ShitcoinCreated"}, c)
    /\ MessagesTold(b)

\* The types of what the browsers have.
BrowserTypes ==
    /\ behind \in [Browsers -> BOOLEAN] /\ lagged \in [Browsers -> BOOLEAN]
    /\ subscribed \in [Browsers -> BOOLEAN]
    /\ inbox \in [Browsers -> Seq(MessageType)]
    /\ inhand \in [Browsers -> {Absent} \cup MessageType]
    /\ who \in [Browsers -> Degens \cup {Absent}]
    /\ DOMAIN table = Browsers /\ DOMAIN overtaken = Browsers /\ DOMAIN request = Browsers

\* Of one browser: the channel keeps to its capacity, a receiver that lost
\* events still has later ones, and its messages are about coins there are.
BrowserInv(b) ==
    /\ Len(inbox[b]) <= Capacity /\ (lagged[b] => inbox[b] # << >>)
    /\ ~behind[b] => table[b] \in Seq(RowType)
    /\ \A m \in Pending(b) : Planted(m.coin)
    /\ Tracked /\ ~behind[b] /\ ~lagged[b] => TableTold(b)

TablesInv == BrowserTypes /\ MetaInv /\ \A b \in Browsers : BrowserInv(b)

\* More news is about what less was.
LEMMA MoreNews ==
    ASSUME NEW less, NEW more, less \subseteq more
    PROVE  /\ \A kinds, c : About(less, kinds, c) => About(more, kinds, c)
           /\ \A kind, c, g : AboutOf(less, kind, c, g) => AboutOf(more, kind, c, g)
BY DEF About, AboutOf

\* A right row stays right while its news does and changes are told.
LEMMA RowStays ==
    ASSUME NEW b, NEW row \in RowType, RowTold(b, row), who[b] \in Degens \cup {Absent},
           who'[b] = who[b], Grows, NewsTell,
           About(Due(b), Refreshing, row.coin) => About(Due(b), Refreshing, row.coin)',
           \A kind \in {"PresaleEntered", "ShitcoinClaimed"} :
               who[b] # Absent /\ AboutOf(Due(b), kind, row.coin, who[b]) =>
                   AboutOf(Due(b), kind, row.coin, who[b])'
    PROVE  RowTold(b, row)'
<1> DEFINE c == row.coin
<1>1. c \in Coins /\ Planted(c) /\ Planted(c)'
  BY DEF RowType, RowTold, Grows
<1>2. /\ \A kinds : About(Upcoming, kinds, c)' => About(Due(b), kinds, c)'
      /\ \A kind, g : AboutOf(Upcoming, kind, c, g)' => AboutOf(Due(b), kind, c, g)'
  BY DEF About, AboutOf, Due
<1>3. OnChainMeta(c)' = OnChainMeta(c) \/ About(Due(b), Refreshing, c)'
  BY <1>1, <1>2 DEF NewsTell
<1>4. MetaRight(b, row)'
  BY <1>3 DEF RowTold, MetaRight
<1>5. DegenRight(b, row)'
  <2>1. CASE who[b] = Absent
    BY <2>1 DEF RowTold, DegenRight
  <2>2. CASE who[b] # Absent
    <3> DEFINE w == who[b]
    <3>1. w \in Degens /\ who'[b] = w
      BY <2>2
    <3>2. /\ contributed'[c][w] = contributed[c][w] \/ AboutOf(Due(b), "PresaleEntered", c, w)'
          /\ \/ w \in claimed'[c] <=> w \in claimed[c]
             \/ AboutOf(Due(b), "ShitcoinClaimed", c, w)'
      BY <1>1, <1>2, <3>1 DEF NewsTell
    <3>3. /\ row.degen # Absent
          /\ row.degen.submission = contributed[c][w] \/ AboutOf(Due(b), "PresaleEntered", c, w)'
          /\ \/ row.degen.claimed <=> w \in claimed[c]
             \/ AboutOf(Due(b), "ShitcoinClaimed", c, w)'
      BY <2>2, <3>1 DEF RowTold, DegenRight
    <3>4. /\ row.degen # Absent
          /\ row.degen.submission = contributed'[c][w] \/ AboutOf(Due(b), "PresaleEntered", c, w)'
          /\ \/ row.degen.claimed <=> w \in claimed'[c]
             \/ AboutOf(Due(b), "ShitcoinClaimed", c, w)'
      BY <3>2, <3>3
    <3> QED
      BY <2>2, <3>1, <3>4 DEF DegenRight
  <2> QED
    BY <2>1, <2>2
<1> QED
  BY <1>1, <1>4, <1>5 DEF RowTold

\* So does a message.
LEMMA MessageStays ==
    ASSUME NEW m, m.coin \in Coins, Planted(m.coin), NEW later, NEW new, NewsTell,
           MessageTold(m, later), Upcoming' \subseteq new,
           About(later, Refreshing, m.coin) => About(new, Refreshing, m.coin)
    PROVE  m.meta = OnChainMeta(m.coin)' \/ About(new, Refreshing, m.coin)
<1>1. About(Upcoming, Refreshing, m.coin)' => About(new, Refreshing, m.coin)
  BY DEF About
<1>2. \/ OnChainMeta(m.coin)' = OnChainMeta(m.coin)
      \/ About(Upcoming, Refreshing, m.coin)'
  BY DEF NewsTell
<1> QED
  BY <1>1, <1>2 DEF MessageTold

\* A browser nothing happens to.
Untouched(b) ==
    /\ table'[b] = table[b] /\ who'[b] = who[b] /\ behind'[b] = behind[b]
    /\ inbox'[b] = inbox[b] /\ inhand'[b] = inhand[b] /\ lagged'[b] = lagged[b]

\* The types of the pending messages.
LEMMA PendingTypes ==
    ASSUME BrowserTypes, NEW b \in Browsers
    PROVE  /\ \A m \in Pending(b) : m \in MessageType /\ m.coin \in Coins
           /\ inhand[b] # Absent => inhand[b] \in Pending(b)
           /\ \A i \in DOMAIN inbox[b] : inbox[b][i] \in Pending(b)
           /\ Elements(inbox[b]) \subseteq Pending(b)
           /\ who[b] \in Degens \cup {Absent}
<1>1. inbox[b] \in Seq(MessageType) /\ inhand[b] \in {Absent} \cup MessageType
  BY DEF BrowserTypes
<1>2. \A m \in Elements(inbox[b]) : m \in MessageType /\ m # Absent
  BY <1>1, FeedAssumption DEF Elements
<1> QED
  BY <1>1, <1>2 DEF Pending, Elements, MessageType, BrowserTypes

\* To such a browser the monitor's steps are harmless.
LEMMA UntouchedStays ==
    ASSUME CopyInv, [WebNext \/ Aborts]_vars, ~Broadcast, Tracked' => Tracked,
           BrowserTypes, NEW b \in Browsers, BrowserInv(b), Untouched(b)
    PROVE  BrowserInv(b)'
<1>1. Grows
  BY CopyKept
<1>2. Pending(b)' = Pending(b) /\ Elements(table[b])' = Elements(table[b])
  BY DEF Untouched, Pending, Elements
<1>3. \A m \in Pending(b) : m.coin \in Coins /\ Planted(m.coin)
  BY PendingTypes DEF BrowserInv
<1>4. (\A m \in Pending(b) : Planted(m.coin))'
  BY <1>1, <1>2, <1>3 DEF Grows
<1>5. ASSUME Tracked', ~behind[b], ~lagged[b]
      PROVE  TableTold(b)'
  <2>1. Upcoming \subseteq Upcoming' /\ NewsTell
    BY <1>5, NewsStays
  <2>2. Due(b) \subseteq Due(b)'
    BY <1>2, <2>1 DEF Due
  <2>3. /\ \A kinds, c : About(Due(b), kinds, c) => About(Due(b), kinds, c)'
        /\ \A kind, c, g : AboutOf(Due(b), kind, c, g) => AboutOf(Due(b), kind, c, g)'
    BY <2>2 DEF About, AboutOf
  <2>4. TableTold(b) /\ table[b] \in Seq(RowType)
    BY <1>5 DEF BrowserInv
  <2>5. who[b] \in Degens \cup {Absent} /\ who'[b] = who[b]
    BY PendingTypes DEF Untouched
  <2>6. ASSUME NEW row \in Elements(table[b]) PROVE RowTold(b, row)'
    <3>1. row \in RowType /\ RowTold(b, row)
      BY <2>4 DEF Elements, TableTold
    <3> QED
      BY <1>1, <2>1, <2>3, <2>5, <3>1, RowStays
  <2>7. ASSUME NEW c \in Coins, Planted(c)'
        PROVE  \/ \E row \in Elements(table[b]) : row.coin = c
               \/ About(Due(b), {"ShitcoinCreated"}, c)'
    <3>1. Planted(c) \/ About(Upcoming, {"ShitcoinCreated"}, c)'
      BY <2>1, <2>7 DEF NewsTell
    <3>2. About(Upcoming, {"ShitcoinCreated"}, c)' => About(Due(b), {"ShitcoinCreated"}, c)'
      BY DEF About, Due
    <3> QED
      BY <2>3, <2>4, <3>1, <3>2 DEF TableTold
  <2>8. MessagesTold(b)'
    <3>1. MessagesTold(b)
      BY <2>4 DEF TableTold
    <3>2. ASSUME inhand[b] # Absent
          PROVE  MessageTold(inhand[b], Upcoming \cup Elements(inbox[b]))'
      <4>0. PICK m : m = inhand[b]
        OBVIOUS
      <4> DEFINE later == Upcoming \cup Elements(inbox[b])
             new == Upcoming' \cup Elements(inbox[b])
      <4>1. m.coin \in Coins /\ Planted(m.coin) /\ MessageTold(m, later)
        BY <1>3, <3>1, <3>2, <4>0, PendingTypes DEF MessagesTold
      <4>2. later \subseteq new /\ Upcoming' \subseteq new
        BY <2>1
      <4>3. inhand'[b] = m /\ (Upcoming \cup Elements(inbox[b]))' = new
        BY <4>0 DEF Untouched, Elements
      <4> HIDE DEF later, new
      <4>4. About(later, Refreshing, m.coin) => About(new, Refreshing, m.coin)
        BY <4>2, MoreNews
      <4>5. m.meta = OnChainMeta(m.coin)' \/ About(new, Refreshing, m.coin)
        BY <2>1, <4>1, <4>2, <4>4, MessageStays
      <4> QED
        BY <4>3, <4>5 DEF MessageTold
    <3>3. ASSUME NEW i \in DOMAIN inbox[b]
          PROVE  MessageTold(inbox[b][i], Upcoming \cup After(inbox[b], i))'
      <4>0. PICK m : m = inbox[b][i]
        OBVIOUS
      <4> DEFINE later == Upcoming \cup After(inbox[b], i)
             new == Upcoming' \cup After(inbox[b], i)
      <4>1. m.coin \in Coins /\ Planted(m.coin) /\ MessageTold(m, later)
        BY <1>3, <3>1, <3>3, <4>0, PendingTypes DEF MessagesTold
      <4>2. later \subseteq new /\ Upcoming' \subseteq new
        BY <2>1
      <4>3. inbox'[b][i] = m /\ (Upcoming \cup After(inbox[b], i))' = new
        BY <4>0 DEF Untouched, After
      <4> HIDE DEF later, new
      <4>4. About(later, Refreshing, m.coin) => About(new, Refreshing, m.coin)
        BY <4>2, MoreNews
      <4>5. m.meta = OnChainMeta(m.coin)' \/ About(new, Refreshing, m.coin)
        BY <2>1, <4>1, <4>2, <4>4, MessageStays
      <4> QED
        BY <4>3, <4>5 DEF MessageTold
    <3> QED
      BY <3>2, <3>3 DEF MessagesTold, Untouched
  <2> QED
    BY <1>2, <2>6, <2>7, <2>8 DEF TableTold
<1> QED
  BY <1>4, <1>5 DEF BrowserInv, Untouched

\* A browser that may have missed something, or has nothing to be told.
LEMMA BehindStays ==
    ASSUME Grows, BrowserTypes, NEW b \in Browsers, BrowserInv(b), behind'[b],
           \/ UNCHANGED <<inbox, inhand, lagged>>
           \/ inbox'[b] = << >> /\ inhand'[b] = Absent /\ ~lagged'[b]
    PROVE  BrowserInv(b)'
<1>1. \A m \in Pending(b) : m.coin \in Coins /\ Planted(m.coin)
  BY PendingTypes DEF BrowserInv
<1>2. Pending(b)' \subseteq Pending(b)
  BY ElementsOfNone DEF Pending, Elements
<1>3. (\A m \in Pending(b) : Planted(m.coin))'
  BY <1>1, <1>2 DEF Grows
<1>4. (Len(inbox[b]) <= Capacity /\ (lagged[b] => inbox[b] # << >>))'
  BY FeedAssumption DEF BrowserInv
<1> QED
  BY <1>3, <1>4 DEF BrowserInv

\* The monitor broadcasts: a message takes the place of the event.
LEMMA BroadcastStays ==
    ASSUME CopyInv, MetaInv, BrowserTypes, FeedBroadcast, NEW b \in Browsers, BrowserInv(b)
    PROVE  BrowserInv(b)'
<1>1. /\ at = "timestamp" /\ at' = "listen" /\ event' = Absent /\ event \in EventType
      /\ Happened(event) /\ event # Absent /\ cache' = cache /\ stream' = stream
      /\ UNCHANGED chain /\ UNCHANGED <<connected, gap, who, table, inhand>>
  BY AbsentAssumption DEF FeedBroadcast, Broadcast, CopyInv, BaseInv, MonitorInv, WebTypeOK
<1>2. /\ Coming' = Coming /\ ChangesNothing /\ Grows
      /\ \A c \in Coins : OnChainMeta(c)' = OnChainMeta(c)
  BY <1>1, MonitorStepShrinksNothing, NothingToTell DEF CopyInv, BaseInv, Coming, chain
<1>3. /\ event.coin \in Coins /\ Planted(event.coin) /\ event.kind \in Kinds
      /\ event.degen \in Degens \cup {Absent} /\ Meta \in {Absent} \cup MetaType
  BY <1>1 DEF Happened, EventType, Meta, CopyInv, BaseInv, MonitorInv, WebTypeOK, StateType
<1>4. PICK message : message = Message
  OBVIOUS
<1>5. /\ message \in MessageType /\ message.kind = event.kind /\ message.coin = event.coin
      /\ message.degen = event.degen /\ message.meta = cache.shitcoins[event.coin]
  BY <1>3, <1>4 DEF Message, MessageType, Meta
<1>6. /\ inbox'[b] = IF ~subscribed[b] THEN inbox[b]
                     ELSE IF Len(inbox[b]) < Capacity THEN Append(inbox[b], message)
                     ELSE Append(Tail(inbox[b]), message)
      /\ lagged'[b] = (lagged[b] \/ (subscribed[b] /\ Len(inbox[b]) = Capacity))
      /\ behind'[b] = (behind[b] \/ ~subscribed[b])
      /\ inbox[b] \in Seq(MessageType)
  BY <1>4 DEF FeedBroadcast, BrowserTypes
<1>7. \A m \in Pending(b) : m.coin \in Coins /\ Planted(m.coin) /\ Planted(m.coin)'
  BY <1>2, PendingTypes DEF BrowserInv, Grows
<1>8. \/ inbox'[b] = inbox[b] /\ ~subscribed[b]
      \/ /\ subscribed[b] /\ Len(inbox[b]) < Capacity
         /\ inbox'[b] = Append(inbox[b], message)
         /\ Elements(inbox'[b]) = Elements(inbox[b]) \cup {message}
         /\ Len(inbox'[b]) = Len(inbox[b]) + 1 /\ inbox'[b] # << >>
      \/ /\ subscribed[b] /\ Len(inbox[b]) = Capacity /\ lagged'[b]
         /\ inbox'[b] # << >> /\ Len(inbox'[b]) = Capacity
         /\ Elements(inbox'[b]) \subseteq Elements(inbox[b]) \cup {message}
  <2>1. Len(inbox[b]) \in Nat /\ Len(inbox[b]) <= Capacity /\ Capacity \in Nat \ {0}
    BY <1>6, FeedAssumption DEF BrowserInv
  <2> DEFINE old == inbox[b]
             new == inbox'[b]
  <2>2. CASE subscribed[b] /\ Len(inbox[b]) < Capacity
    <3>1. old \in Seq(MessageType) /\ new = Append(old, message)
      BY <1>6, <2>2
    <3> HIDE DEF old, new
    <3>2. /\ Elements(new) = Elements(old) \cup {message}
          /\ Len(new) = Len(old) + 1 /\ new # << >>
      BY <1>5, <3>1, ElementsOfAppend
    <3> QED
      BY <2>2, <3>1, <3>2 DEF old, new
  <2>3. CASE subscribed[b] /\ Len(inbox[b]) = Capacity
    <3>1. inbox[b] # << >>
      BY <2>1, <2>3
    <3>2. PICK rest : rest = Tail(inbox[b])
      OBVIOUS
    <3>3. /\ rest \in Seq(MessageType) /\ Len(rest) = Len(inbox[b]) - 1
          /\ Elements(rest) \subseteq Elements(inbox[b])
      BY <1>6, <3>1, <3>2, ElementsOfTail
    <3>4. inbox'[b] = Append(rest, message)
      BY <1>6, <2>1, <2>3, <3>2
    <3>5. /\ Elements(inbox'[b]) = Elements(rest) \cup {message}
          /\ Len(inbox'[b]) = Len(rest) + 1 /\ inbox'[b] # << >>
      BY <1>5, <3>3, <3>4, ElementsOfAppend
    <3>6. Len(inbox'[b]) = Capacity
      BY <2>1, <2>3, <3>3, <3>5
    <3>7. lagged'[b]
      BY <1>6, <2>3
    <3> QED
      BY <2>3, <3>3, <3>5, <3>6, <3>7
  <2>4. CASE ~subscribed[b]
    BY <1>6, <2>4
  <2> QED
    BY <2>1, <2>2, <2>3, <2>4
<1>9. Len(inbox'[b]) <= Capacity /\ (lagged'[b] => inbox'[b] # << >>)
  <2>1. Len(inbox[b]) \in Nat /\ Len(inbox[b]) <= Capacity /\ Capacity \in Nat \ {0}
    BY <1>6, FeedAssumption DEF BrowserInv
  <2>2. CASE inbox'[b] = inbox[b] /\ ~subscribed[b]
    BY <1>6, <2>1, <2>2 DEF BrowserInv
  <2>3. CASE ~(inbox'[b] = inbox[b] /\ ~subscribed[b])
    <3>1. \/ Len(inbox'[b]) = Len(inbox[b]) + 1 /\ Len(inbox[b]) < Capacity
          \/ Len(inbox'[b]) = Capacity
      BY <1>8, <2>3
    <3>2. Len(inbox'[b]) <= Capacity
      BY <2>1, <3>1
    <3> QED
      BY <1>8, <2>3, <3>2
  <2> QED
    BY <2>2, <2>3
<1>10. Elements(inbox[b])' = Elements(inbox'[b])
  BY DEF Elements
<1>11. (\A m \in Pending(b) : Planted(m.coin))'
  <2>1. Pending(b)' \subseteq Pending(b) \cup {message}
    BY <1>1, <1>8, <1>10 DEF Pending
  <2>2. Planted(message.coin)'
    BY <1>2, <1>3, <1>5 DEF Grows
  <2> QED
    BY <1>7, <2>1, <2>2
<1>12. ASSUME Tracked', ~behind'[b], ~lagged'[b]
       PROVE  TableTold(b)'
  <2>1. /\ Tracked /\ ~behind[b] /\ ~lagged[b] /\ subscribed[b] /\ Subscribed
        /\ Elements(inbox'[b]) = Elements(inbox[b]) \cup {message}
        /\ inbox'[b] = Append(inbox[b], message)
    BY <1>1, <1>6, <1>8, <1>12 DEF Tracked, Subscribed
  <2>2. TableTold(b) /\ table[b] \in Seq(RowType)
    BY <2>1 DEF BrowserInv
  <2>3. /\ Upcoming = Coming \cup {event} /\ Upcoming' = Coming
    <3>1. \A e \in Coming : e # Absent
      BY AbsentAssumption DEF CopyInv, BaseInv, MonitorInv, Happened
    <3>2. Subscribed'
      BY <1>1 DEF Subscribed
    <3> QED
      BY <1>1, <1>2, <2>1, <3>1, <3>2 DEF Upcoming
  <2>4. message # Absent
    BY <1>5, FeedAssumption
  <2>5. Pending(b)' = Pending(b) \cup {message}
    BY <1>1, <1>10, <2>1, <2>4 DEF Pending
  <2>6. ASSUME NEW X, NEW Y, X \cup {message} \subseteq Y
        PROVE  /\ \A kinds, c : About(Upcoming \cup X, kinds, c) =>
                     About(Upcoming' \cup Y, kinds, c)
               /\ \A kind, c, g : AboutOf(Upcoming \cup X, kind, c, g) =>
                     AboutOf(Upcoming' \cup Y, kind, c, g)
    BY <1>5, <2>3, <2>6 DEF About, AboutOf
  <2>7. Due(b) = Upcoming \cup Pending(b) /\ Due(b)' = Upcoming' \cup Pending(b)'
    BY DEF Due
  <2>8. /\ \A kinds, c : About(Due(b), kinds, c) => About(Due(b), kinds, c)'
        /\ \A kind, c, g : AboutOf(Due(b), kind, c, g) => AboutOf(Due(b), kind, c, g)'
    <3>1. Pending(b) \cup {message} \subseteq Pending(b)'
      BY <2>5
    <3>2. /\ \A kinds, c : About(Due(b), kinds, c) => About(Upcoming' \cup Pending(b)', kinds, c)
          /\ \A kind, c, g : AboutOf(Due(b), kind, c, g) =>
                AboutOf(Upcoming' \cup Pending(b)', kind, c, g)
      BY <2>6, <2>7, <3>1
    <3> QED
      BY <2>7, <3>2 DEF About, AboutOf
  <2>9. NewsTell /\ who[b] \in Degens \cup {Absent} /\ who'[b] = who[b]
    BY <1>1, <1>2, NoNews, PendingTypes
  <2>10. ASSUME NEW row \in Elements(table[b]) PROVE RowTold(b, row)'
    <3>1. row \in RowType /\ RowTold(b, row)
      BY <2>2 DEF Elements, TableTold
    <3> QED
      BY <1>2, <2>8, <2>9, <3>1, RowStays
  <2>11. ASSUME NEW c \in Coins, Planted(c)'
         PROVE  \/ \E row \in Elements(table[b]) : row.coin = c
                \/ About(Due(b), {"ShitcoinCreated"}, c)'
    <3>1. Planted(c)
      BY <1>2, <2>11 DEF ChangesNothing
    <3> QED
      BY <2>2, <2>8, <3>1 DEF TableTold
  <2>12. MessagesTold(b)'
    <3>1. MessagesTold(b)
      BY <2>2 DEF TableTold
    <3>2. ASSUME inhand[b] # Absent
          PROVE  MessageTold(inhand[b], Upcoming \cup Elements(inbox[b]))'
      <4>1. PICK m : m = inhand[b]
        OBVIOUS
      <4>2. /\ m.coin \in Coins
            /\ MessageTold(m, Upcoming \cup Elements(inbox[b]))
        BY <3>1, <3>2, <4>1, <1>7, PendingTypes DEF MessagesTold
      <4>3. \/ m.meta = OnChainMeta(m.coin)'
            \/ About(Upcoming' \cup Elements(inbox'[b]), Refreshing, m.coin)
        BY <1>2, <2>1, <2>6, <4>2 DEF MessageTold
      <4>4. /\ inhand'[b] = m
            /\ (Upcoming \cup Elements(inbox[b]))' = Upcoming' \cup Elements(inbox'[b])
        BY <1>1, <1>10, <4>1
      <4> QED
        BY <4>3, <4>4 DEF MessageTold
    <3>3. ASSUME NEW i \in DOMAIN inbox'[b]
          PROVE  MessageTold(inbox[b][i], Upcoming \cup After(inbox[b], i))'
      <4> DEFINE n == Len(inbox[b])
      <4>1. /\ n \in Nat /\ DOMAIN inbox[b] = 1 .. n /\ DOMAIN inbox'[b] = 1 .. n + 1
            /\ inbox'[b][n + 1] = message
            /\ \A j \in 1 .. n : inbox'[b][j] = inbox[b][j]
        <5> DEFINE old == inbox[b]
                   new == inbox'[b]
        <5>1. old \in Seq(MessageType) /\ new = Append(old, message) /\ message \in MessageType
          BY <1>5, <1>6, <2>1
        <5> HIDE DEF old, new
        <5>2. /\ Len(old) \in Nat /\ DOMAIN old = 1 .. Len(old)
              /\ DOMAIN new = 1 .. Len(old) + 1 /\ new[Len(old) + 1] = message
              /\ \A j \in 1 .. Len(old) : new[j] = old[j]
          BY <5>1
        <5> QED
          BY <5>2 DEF old, new
      <4> HIDE DEF n
      <4>2. PICK m : m = inbox'[b][i]
        OBVIOUS
      <4>3. (Upcoming \cup After(inbox[b], i))' = Upcoming' \cup After(inbox'[b], i)
        BY DEF After
      <4> SUFFICES \/ m.meta = OnChainMeta(m.coin)'
                   \/ About(Upcoming' \cup After(inbox'[b], i), Refreshing, m.coin)
        BY <4>2, <4>3 DEF MessageTold
      <4>4. CASE i = n + 1
        <5>1. m = message
          BY <4>1, <4>2, <4>4
        <5>2. MetaTold(event.coin) /\ cache.shitcoins[event.coin] # Absent
          BY <1>1, <1>3, <2>1 DEF MetaInv, Tracked
        <5>3. m.meta = OnChainMeta(m.coin) \/ Announced(Refreshing, m.coin)
          BY <1>1, <1>5, <5>1, <5>2 DEF MetaTold, Told, InHand
        <5> QED
          BY <1>2, <1>3, <1>5, <2>3, <5>1, <5>3 DEF Announced, About
      <4>5. CASE i # n + 1
        <5>1. i \in 1 .. n /\ m = inbox[b][i]
          BY <4>1, <4>2, <4>5
        <5>2. After(inbox[b], i) \cup {message} \subseteq After(inbox'[b], i)
          BY <4>1, <5>1 DEF After
        <5>3. m.coin \in Coins /\ MessageTold(m, Upcoming \cup After(inbox[b], i))
          BY <1>7, <3>1, <4>1, <5>1, PendingTypes DEF MessagesTold
        <5> QED
          BY <1>2, <2>6, <5>2, <5>3 DEF MessageTold
      <4> QED
        BY <4>4, <4>5
    <3> QED
      BY <1>1, <3>2, <3>3 DEF MessagesTold
  <2> QED
    BY <1>1, <2>10, <2>11, <2>12 DEF TableTold, Elements
<1>13. (~behind[b] => table[b] \in Seq(RowType))'
  BY <1>1, <1>6 DEF BrowserInv
<1> QED
  BY <1>9, <1>11, <1>12, <1>13 DEF BrowserInv

\* A step of a page or a browser is no news.
LEMMA NothingNew ==
    ASSUME CopyInv, UNCHANGED vars
    PROVE  /\ ChangesNothing /\ Grows /\ NewsTell
           /\ Upcoming' = Upcoming /\ (Tracked' <=> Tracked) /\ cache' = cache
           /\ \A c \in Coins : OnChainMeta(c)' = OnChainMeta(c) /\ (Planted(c)' <=> Planted(c))
<1>1. UNCHANGED chain /\ UNCHANGED <<stream, at, event, connected, gap, cache>>
  BY DEF vars, handling
<1>2. ChangesNothing /\ Grows /\ unpublished' = unpublished
  BY <1>1, MonitorStepShrinksNothing DEF CopyInv, BaseInv
<1>3. Upcoming' = Upcoming /\ (Tracked' <=> Tracked)
  BY <1>1, <1>2 DEF Upcoming, Coming, Tracked, Subscribed
<1> QED
  BY <1>1, <1>2, <1>3, NoNews, NothingToTell DEF ChangesNothing

\* Nor is one of another browser.
LEMMA QuietStays ==
    ASSUME CopyInv, UNCHANGED vars, BrowserTypes, NEW b \in Browsers, BrowserInv(b),
           Untouched(b)
    PROVE  BrowserInv(b)'
<1>1. CopyInv /\ [WebNext \/ Aborts]_vars /\ (Tracked' => Tracked)
  BY NothingNew
<1>2. CASE ~Broadcast
  BY <1>1, <1>2, UntouchedStays
<1>3. CASE Broadcast
  <2>1. at # at'
    BY <1>3 DEF Broadcast
  <2> QED
    BY <2>1 DEF vars
<1> QED
  BY <1>2, <1>3

\* What a row made now says of a degen.
LEMMA DegenTold ==
    ASSUME CopyInv, NEW c \in Coins, NEW w \in Degens, NEW degen,
           degen = Or(cache.degens[c][w], DefaultDegen)
    PROVE  /\ degen \in DegenType /\ degen # Absent
           /\ Tracked =>
                 /\ \/ degen.submission = contributed[c][w]
                    \/ AboutOf(Upcoming, "PresaleEntered", c, w)
                 /\ \/ degen.claimed <=> w \in claimed[c]
                    \/ AboutOf(Upcoming, "ShitcoinClaimed", c, w)
<1>1. degen \in DegenType
  BY DEF CopyInv, BaseInv, MonitorInv, WebTypeOK, StateType, Or, DefaultDegen, DegenType
<1>2. CASE Subscribed /\ connected /\ ~gap
  <2>1. DegenCovered(c, w)
    BY <1>2 DEF CopyInv, FollowInv, Covered
  <2>2. /\ ToldOf("PresaleEntered", c, w) => AboutOf(Upcoming, "PresaleEntered", c, w)
        /\ ToldOf("ShitcoinClaimed", c, w) => AboutOf(Upcoming, "ShitcoinClaimed", c, w)
    BY <1>2, ToldIsUpcoming DEF CopyInv
  <2>3. degen # Absent
    BY <1>1, AbsentAssumption
  <2> QED
    BY <1>1, <2>1, <2>2, <2>3 DEF DegenCovered
<1>3. CASE at = "subscribe" /\ ~gap
  <2>1. degen = [submission |-> contributed[c][w], claimed |-> w \in claimed[c]]
    BY <1>3 DEF CopyInv, FollowInv, CacheAgrees
  <2> DEFINE has == w \in claimed[c]
  <2>2. has \in BOOLEAN /\ degen = [submission |-> contributed[c][w], claimed |-> has]
    BY <2>1
  <2> HIDE DEF has
  <2>3. degen.submission = contributed[c][w] /\ degen.claimed = has
    BY <2>2
  <2>4. degen.submission = contributed[c][w] /\ (degen.claimed <=> w \in claimed[c])
    BY <2>3 DEF has
  <2>5. degen # Absent
    BY <1>1, AbsentAssumption
  <2> QED
    BY <1>1, <2>4, <2>5
<1> QED
  BY <1>1, <1>2, <1>3, AbsentAssumption DEF Tracked

\* A row made of the entries there are.
LEMMA CachedRowTold ==
    ASSUME CopyInv, MetaInv, NEW c \in Coins, NEW w \in Degens \cup {Absent},
           NEW row, row = CachedRow(c, w)
    PROVE  /\ row \in RowType /\ row.coin = c
           /\ cache.shitcoins[c] # Absent => Planted(c)
           /\ Tracked /\ cache.shitcoins[c] # Absent =>
                 /\ row.meta = OnChainMeta(c) \/ About(Upcoming, Refreshing, c)
                 /\ IF w = Absent THEN row.degen = Absent
                    ELSE /\ row.degen # Absent
                         /\ \/ row.degen.submission = contributed[c][w]
                            \/ AboutOf(Upcoming, "PresaleEntered", c, w)
                         /\ \/ row.degen.claimed <=> w \in claimed[c]
                            \/ AboutOf(Upcoming, "ShitcoinClaimed", c, w)
<1>1. /\ row.coin = c /\ row.meta = cache.shitcoins[c]
      /\ row.degen = IF w = Absent THEN Absent ELSE Or(cache.degens[c][w], DefaultDegen)
      /\ row = [coin |-> c, meta |-> row.meta, degen |-> row.degen]
  BY DEF CachedRow, Row
<1>2. cache.shitcoins[c] \in {Absent} \cup MetaType
  BY DEF CopyInv, BaseInv, MonitorInv, WebTypeOK, StateType
<1>3. IF w = Absent THEN row.degen = Absent
      ELSE /\ row.degen \in DegenType /\ row.degen # Absent
           /\ Tracked =>
                 /\ \/ row.degen.submission = contributed[c][w]
                    \/ AboutOf(Upcoming, "PresaleEntered", c, w)
                 /\ \/ row.degen.claimed <=> w \in claimed[c]
                    \/ AboutOf(Upcoming, "ShitcoinClaimed", c, w)
  BY <1>1, DegenTold
<1>4. row \in RowType
  BY <1>1, <1>2, <1>3 DEF RowType
<1>5. cache.shitcoins[c] # Absent => Planted(c)
  BY DEF CopyInv, AheadInv, NotAhead, MetaNotAhead
<1>6. ASSUME Tracked, cache.shitcoins[c] # Absent
      PROVE  row.meta = OnChainMeta(c) \/ About(Upcoming, Refreshing, c)
  <2>1. CASE Subscribed
    <3>1. MetaTold(c)
      BY <1>6, <2>1 DEF MetaInv, Tracked
    <3> QED
      BY <1>1, <1>6, <2>1, <3>1, ToldIsUpcoming DEF MetaTold, CopyInv
  <2>2. CASE at = "subscribe"
    BY <1>1, <1>6, <2>2 DEF CopyInv, FollowInv, CacheAgrees, Tracked
  <2> QED
    BY <1>6, <2>1, <2>2 DEF Tracked
<1> QED
  BY <1>1, <1>3, <1>4, <1>5, <1>6

\* The rows of a list.
LEMMA ListRows ==
    ASSUME CopyInv, MetaInv, NEW w \in Degens \cup {Absent}
    PROVE  /\ List(w) \in Seq(RowType)
           /\ Elements(List(w)) = {CachedRow(c, w) : c \in Elements(cache.indexes)}
<1> DEFINE s == cache.indexes
           n == Len(s)
           rows == [i \in DOMAIN s |-> CachedRow(s[i], w)]
<1>1. s \in Seq(Coins) /\ n \in Nat /\ DOMAIN s = 1 .. n
  BY DEF CopyInv, BaseInv, MonitorInv, WebTypeOK, StateType
<1>2. \A c \in Coins : CachedRow(c, w) \in RowType
  BY CachedRowTold
<1>3. \A i \in 1 .. n : s[i] \in Coins
  BY <1>1
<1> HIDE DEF s, n
<1>4. rows \in [1 .. n -> RowType] /\ \A i \in 1 .. n : rows[i] = CachedRow(s[i], w)
  BY <1>1, <1>2, <1>3
<1>5. rows \in Seq(RowType) /\ Len(rows) = n
  BY <1>1, <1>4
<1>6. List(w) = [i \in 1 .. n |-> rows[(n - i) + 1]]
  BY <1>5 DEF List, Reverse, s
<1> HIDE DEF rows
<1>7. \A i \in 1 .. n : (n - i) + 1 \in 1 .. n /\ (n - ((n - i) + 1)) + 1 = i
  BY <1>1
<1>8. List(w) \in [1 .. n -> RowType] /\ \A i \in 1 .. n : List(w)[i] = rows[(n - i) + 1]
  BY <1>4, <1>6, <1>7
<1>9. List(w) \in Seq(RowType) /\ DOMAIN List(w) = 1 .. n
  BY <1>1, <1>8
<1>10. ASSUME NEW i \in 1 .. n
       PROVE  \E c \in Elements(s) : List(w)[i] = CachedRow(c, w)
  <2>1. List(w)[i] = CachedRow(s[(n - i) + 1], w) /\ (n - i) + 1 \in DOMAIN s
    BY <1>1, <1>4, <1>7, <1>8
  <2> QED
    BY <2>1 DEF Elements
<1>11. ASSUME NEW c \in Elements(s)
       PROVE  CachedRow(c, w) \in Elements(List(w))
  <2>1. PICK i \in 1 .. n : s[i] = c
    BY <1>1 DEF Elements
  <2>2. List(w)[(n - i) + 1] = CachedRow(c, w) /\ (n - i) + 1 \in DOMAIN List(w)
    BY <1>4, <1>7, <1>8, <1>9, <2>1
  <2> QED
    BY <2>2 DEF Elements
<1>12. Elements(List(w)) = {CachedRow(c, w) : c \in Elements(s)}
  BY <1>9, <1>10, <1>11 DEF Elements
<1> QED
  BY <1>9, <1>12 DEF s

\* A list is right when it is loaded.
LEMMA ListStays ==
    ASSUME CopyInv, MetaInv, BrowserTypes, NEW b \in Browsers, NEW w \in Visitors,
           AnswerList(b, w)
    PROVE  BrowserInv(b)'
<1>1. /\ UNCHANGED vars /\ w \in Degens \cup {Absent} /\ PageRenders(ListPage(w))
      /\ table'[b] = List(w) /\ who'[b] = w /\ inbox'[b] = << >> /\ inhand'[b] = Absent
      /\ ~lagged'[b]
  BY FeedAssumption DEF AnswerList, CloseStream, BrowserTypes
<1>2. /\ Upcoming' = Upcoming /\ (Tracked' <=> Tracked)
      /\ \A c \in Coins : OnChainMeta(c)' = OnChainMeta(c) /\ (Planted(c)' <=> Planted(c))
      /\ contributed' = contributed /\ claimed' = claimed
  BY <1>1, NothingNew DEF vars, chain, ledger
<1>3. /\ Pending(b)' = {} /\ Due(b)' = Upcoming
      /\ Len(inbox'[b]) = 0
  BY <1>1, <1>2, ElementsOfNone DEF Pending, Due, Elements
<1>4. /\ List(w) \in Seq(RowType)
      /\ Elements(List(w)) = {CachedRow(c, w) : c \in Elements(cache.indexes)}
  BY <1>1, ListRows
<1>5. cache.indexes \in Seq(Coins)
  BY DEF CopyInv, BaseInv, MonitorInv, WebTypeOK, StateType
<1>6. \A c \in Elements(cache.indexes) : c \in Coins /\ cache.shitcoins[c] # Absent
  BY <1>1, <1>5 DEF PageRenders, ListPage, Renders, Elements
<1>7. Elements(table[b])' = Elements(List(w))
  BY <1>1 DEF Elements
<1>8. ASSUME Tracked
      PROVE  TableTold(b)'
  <2>1. ASSUME NEW row \in Elements(List(w)) PROVE RowTold(b, row)'
    <3>1. PICK c \in Elements(cache.indexes) : row = CachedRow(c, w)
      BY <1>4, <2>1
    <3>2. c \in Coins /\ cache.shitcoins[c] # Absent
      BY <1>6
    <3>3. /\ row.coin = c /\ Planted(c)
          /\ row.meta = OnChainMeta(c) \/ About(Upcoming, Refreshing, c)
          /\ IF w = Absent THEN row.degen = Absent
             ELSE /\ row.degen # Absent
                  /\ \/ row.degen.submission = contributed[c][w]
                     \/ AboutOf(Upcoming, "PresaleEntered", c, w)
                  /\ \/ row.degen.claimed <=> w \in claimed[c]
                     \/ AboutOf(Upcoming, "ShitcoinClaimed", c, w)
      BY <1>1, <1>8, <3>1, <3>2, CachedRowTold
    <3>4. MetaRight(b, row)'
      BY <1>2, <1>3, <3>2, <3>3 DEF MetaRight, About
    <3>5. DegenRight(b, row)'
      BY <1>1, <1>2, <1>3, <3>3 DEF DegenRight, AboutOf
    <3> QED
      BY <1>2, <3>2, <3>3, <3>4, <3>5 DEF RowTold
  <2>2. ASSUME NEW c \in Coins, Planted(c)
        PROVE  \/ \E row \in Elements(List(w)) : row.coin = c
               \/ About(Upcoming, {"ShitcoinCreated"}, c)
    <3>1. c \in Elements(cache.indexes) \/ About(Upcoming, {"ShitcoinCreated"}, c)
      <4>1. CASE Subscribed
        BY <1>8, <2>2, <4>1, ToldIsUpcoming DEF CopyInv, ListInv, Tracked, Told
      <4>2. CASE at = "subscribe"
        BY <1>8, <2>2, <4>2 DEF CopyInv, ListInv, OrderInv, ListedInv, Tracked
      <4> QED
        BY <1>8, <4>1, <4>2 DEF Tracked
    <3>2. ASSUME c \in Elements(cache.indexes)
          PROVE  \E row \in Elements(List(w)) : row.coin = c
      <4>1. CachedRow(c, w) \in Elements(List(w))
        BY <1>4, <3>2
      <4>2. CachedRow(c, w).coin = c
        BY DEF CachedRow, Row
      <4> QED
        BY <4>1, <4>2
    <3> QED
      BY <3>1, <3>2
  <2>3. (\A c \in Coins : Planted(c) =>
            \/ \E row \in Elements(table[b]) : row.coin = c
            \/ About(Due(b), {"ShitcoinCreated"}, c))'
    BY <1>2, <1>3, <1>7, <2>2 DEF About
  <2>4. MessagesTold(b)'
    BY <1>1 DEF MessagesTold
  <2> QED
    BY <1>7, <2>1, <2>3, <2>4 DEF TableTold
<1> QED
  BY <1>1, <1>2, <1>3, <1>4, <1>8, FeedAssumption DEF BrowserInv

\* A row loaded again is right too, whatever is still waiting.
LEMMA RowAnswerStays ==
    ASSUME CopyInv, MetaInv, BrowserTypes, NEW b \in Browsers, BrowserInv(b), NEW c \in Coins,
           AnswerRow(b, c)
    PROVE  BrowserInv(b)'
<1>1. /\ UNCHANGED vars /\ UNCHANGED <<inbox, inhand, lagged, who, behind>>
      /\ cache.shitcoins[c] # Absent /\ who[b] \in Degens \cup {Absent}
  BY DEF AnswerRow, PageRenders, RowPage, Renders, channel, BrowserTypes
<1>2. CASE table' = table
  <2>1. Untouched(b)
    BY <1>1, <1>2 DEF Untouched
  <2> QED
    BY <1>1, <2>1, QuietStays
<1>3. CASE table' # table
  <2>1. PICK row : row = CachedRow(c, who[b])
    OBVIOUS
  <2>2. PICK i \in DOMAIN table[b] : /\ table[b][i].coin = c
                                     /\ table' = [table EXCEPT ![b][i] = row]
    BY <1>3, <2>1 DEF AnswerRow
  <2>3. /\ row \in RowType /\ row.coin = c /\ Planted(c)
        /\ Tracked =>
              /\ row.meta = OnChainMeta(c) \/ About(Upcoming, Refreshing, c)
              /\ IF who[b] = Absent THEN row.degen = Absent
                 ELSE /\ row.degen # Absent
                      /\ \/ row.degen.submission = contributed[c][who[b]]
                         \/ AboutOf(Upcoming, "PresaleEntered", c, who[b])
                      /\ \/ row.degen.claimed <=> who[b] \in claimed[c]
                         \/ AboutOf(Upcoming, "ShitcoinClaimed", c, who[b])
    BY <1>1, <2>1, CachedRowTold
  <2>4. /\ Upcoming' = Upcoming /\ (Tracked' <=> Tracked) /\ NewsTell /\ Grows
        /\ \A x \in Coins : OnChainMeta(x)' = OnChainMeta(x) /\ (Planted(x)' <=> Planted(x))
        /\ contributed' = contributed /\ claimed' = claimed
    BY <1>1, NothingNew DEF vars, chain, ledger
  <2>5. /\ Pending(b)' = Pending(b) /\ Due(b)' = Due(b)
    BY <1>1, <2>4 DEF Pending, Due, Elements
  <2>6. (\A m \in Pending(b) : Planted(m.coin))'
    BY <2>4, <2>5, PendingTypes DEF BrowserInv
  <2>7. ASSUME ~behind[b]
        PROVE  /\ table'[b] \in Seq(RowType) /\ DOMAIN table'[b] = DOMAIN table[b]
               /\ table'[b][i] = row
               /\ \A j \in DOMAIN table[b] : j # i => table'[b][j] = table[b][j]
               /\ \A j \in DOMAIN table[b] : table'[b][j].coin = table[b][j].coin
    <3>1. table[b] \in Seq(RowType) /\ table'[b] = [table[b] EXCEPT ![i] = row]
      BY <2>2, <2>7 DEF BrowserInv, BrowserTypes
    <3>2. PICK old : old = table[b]
      OBVIOUS
    <3>3. old \in Seq(RowType) /\ table'[b] = [old EXCEPT ![i] = row] /\ i \in DOMAIN old
      BY <3>1, <3>2
    <3>4. table'[b] \in Seq(RowType)
      BY <2>3, <3>3
    <3> QED
      BY <2>2, <2>3, <3>2, <3>3, <3>4
  <2>8. ASSUME Tracked, ~behind[b], ~lagged[b]
        PROVE  TableTold(b)'
    <3>1. TableTold(b) /\ table[b] \in Seq(RowType)
      BY <2>8 DEF BrowserInv
    <3>2. RowTold(b, row)'
      <4>1. MetaRight(b, row)'
        BY <2>3, <2>4, <2>5, <2>8 DEF MetaRight, About, Due
      <4>2. DegenRight(b, row)'
        BY <1>1, <2>3, <2>4, <2>5, <2>8 DEF DegenRight, AboutOf, Due
      <4> QED
        BY <2>3, <2>4, <4>1, <4>2 DEF RowTold
    <3>3. ASSUME NEW j \in DOMAIN table[b], j # i, NEW r, r = table[b][j]
          PROVE  RowTold(b, r)' /\ table'[b][j] = r
      <4>1. r \in RowType /\ RowTold(b, r)
        BY <3>1, <3>3 DEF Elements, TableTold
      <4>2. RowTold(b, r)'
        BY <1>1, <2>4, <2>5, <4>1, RowStays DEF About, AboutOf
      <4> QED
        BY <2>7, <2>8, <3>3, <4>2
    <3>4. (\A r \in Elements(table[b]) : RowTold(b, r))'
      <4>1. ASSUME NEW r \in Elements(table'[b]) PROVE RowTold(b, r)'
        <5>1. PICK j \in DOMAIN table[b] : r = table'[b][j]
          BY <2>7, <2>8 DEF Elements
        <5>2. CASE j = i
          BY <2>7, <2>8, <3>2, <5>1, <5>2
        <5>3. CASE j # i
          BY <3>3, <5>1, <5>3
        <5> QED
          BY <5>2, <5>3
      <4>2. Elements(table[b])' = Elements(table'[b])
        BY DEF Elements
      <4> QED
        BY <4>1, <4>2
    <3>5. ASSUME NEW x \in Coins, Planted(x)
          PROVE  \/ \E r \in Elements(table'[b]) : r.coin = x
                 \/ About(Due(b), {"ShitcoinCreated"}, x)
      BY <2>7, <2>8, <3>1, <3>5 DEF TableTold, Elements
    <3>6. (\A x \in Coins : Planted(x) =>
              \/ \E r \in Elements(table[b]) : r.coin = x
              \/ About(Due(b), {"ShitcoinCreated"}, x))'
      BY <2>4, <2>5, <3>5 DEF About, Elements
    <3>7. MessagesTold(b)'
      <4>1. MessagesTold(b)
        BY <3>1 DEF TableTold
      <4>2. \A m \in Pending(b) : OnChainMeta(m.coin)' = OnChainMeta(m.coin)
        BY <2>4, PendingTypes
      <4> QED
        BY <1>1, <2>4, <4>1, <4>2, PendingTypes
           DEF MessagesTold, MessageTold, About, After, Elements
    <3> QED
      BY <3>4, <3>6, <3>7 DEF TableTold
  <2> QED
    BY <1>1, <2>4, <2>6, <2>7, <2>8 DEF BrowserInv
<1> QED
  BY <1>2, <1>3

\* What comes after the first message, and what comes after the others.
LEMMA AfterTail ==
    ASSUME NEW S, NEW s \in Seq(S), s # << >>
    PROVE  /\ 1 \in DOMAIN s /\ Head(s) = s[1] /\ After(s, 1) = Elements(Tail(s))
           /\ \A i \in DOMAIN Tail(s) : /\ i + 1 \in DOMAIN s /\ Tail(s)[i] = s[i + 1]
                                        /\ After(Tail(s), i) = After(s, i + 1)
           /\ Len(Tail(s)) <= Len(s)
<1> DEFINE n == Len(s)
           t == Tail(s)
<1>1. /\ n \in Nat /\ n >= 1 /\ DOMAIN s = 1 .. n /\ DOMAIN t = 1 .. n - 1
      /\ \A i \in 1 .. n - 1 : t[i] = s[i + 1]
      /\ Head(s) = s[1] /\ Len(t) = n - 1
  OBVIOUS
<1> HIDE DEF n, t
<1>2. ASSUME NEW i \in 0 .. n - 1
      PROVE  {t[j] : j \in {k \in 1 .. n - 1 : i < k}} = {s[j] : j \in {k \in 1 .. n : i + 1 < k}}
  <2>1. ASSUME NEW j \in 1 .. n - 1, i < j
        PROVE  j + 1 \in {k \in 1 .. n : i + 1 < k} /\ t[j] = s[j + 1]
    BY <1>1, <2>1
  <2>2. ASSUME NEW j \in 1 .. n, i + 1 < j
        PROVE  j - 1 \in {k \in 1 .. n - 1 : i < k} /\ t[j - 1] = s[j]
    <3>1. j - 1 \in 1 .. n - 1 /\ i < j - 1 /\ (j - 1) + 1 = j
      BY <1>1, <2>2
    <3> QED
      BY <1>1, <3>1
  <2> QED
    BY <2>1, <2>2
<1>3. After(s, 1) = Elements(t)
  <2>1. Elements(t) = {t[j] : j \in {k \in 1 .. n - 1 : 0 < k}}
    BY <1>1 DEF Elements
  <2>2. After(s, 1) = {s[j] : j \in {k \in 1 .. n : 0 + 1 < k}}
    BY <1>1 DEF After
  <2>3. 0 \in 0 .. n - 1
    BY <1>1
  <2> QED
    BY <1>2, <2>1, <2>2, <2>3, Zenon
<1>4. ASSUME NEW i \in DOMAIN t
      PROVE  i + 1 \in DOMAIN s /\ t[i] = s[i + 1] /\ After(t, i) = After(s, i + 1)
  <2>1. i \in 0 .. n - 1 /\ i + 1 \in DOMAIN s /\ t[i] = s[i + 1]
    BY <1>1
  <2>2. After(t, i) = {t[j] : j \in {k \in 1 .. n - 1 : i < k}}
    BY <1>1 DEF After
  <2>3. After(s, i + 1) = {s[j] : j \in {k \in 1 .. n : i + 1 < k}}
    BY <1>1 DEF After
  <2>4. i \in 0 .. n - 1 => After(t, i) = After(s, i + 1)
    BY <1>2, <2>2, <2>3, Zenon
  <2> QED
    BY <2>1, <2>4
<1> QED
  BY <1>1, <1>3, <1>4 DEF n, t

\* An event taken from the channel is still to be shown.
LEMMA TakeStays ==
    ASSUME CopyInv, BrowserTypes, NEW b \in Browsers, BrowserInv(b), Take(b)
    PROVE  BrowserInv(b)'
<1>1. /\ UNCHANGED vars /\ UNCHANGED <<who, table, behind, lagged>> /\ ~lagged[b]
      /\ inhand[b] = Absent /\ inbox[b] # << >> /\ inbox[b] \in Seq(MessageType)
      /\ inhand'[b] = Head(inbox[b]) /\ inbox'[b] = Tail(inbox[b])
  BY DEF Take, pages, BrowserTypes
<1>2. PICK s : s = inbox[b]
  OBVIOUS
<1>3. PICK t : t = Tail(s)
  OBVIOUS
<1>4. /\ s \in Seq(MessageType) /\ s # << >> /\ t \in Seq(MessageType)
      /\ inbox[b] = s /\ inbox'[b] = t /\ inhand'[b] = s[1] /\ 1 \in DOMAIN s
      /\ Elements(s) = {s[1]} \cup Elements(t) /\ After(s, 1) = Elements(t)
      /\ \A i \in DOMAIN t : i + 1 \in DOMAIN s /\ t[i] = s[i + 1] /\ After(t, i) = After(s, i + 1)
      /\ Len(t) <= Len(s)
  BY <1>1, <1>2, <1>3, AfterTail, ElementsOfTail
<1>5. /\ NewsTell /\ Upcoming' = Upcoming /\ (Tracked' <=> Tracked)
      /\ \A c \in Coins : OnChainMeta(c)' = OnChainMeta(c) /\ (Planted(c)' <=> Planted(c))
      /\ Grows
  BY <1>1, NothingNew
<1>6. Pending(b)' = Pending(b) /\ Due(b)' = Due(b)
  <2>1. Elements(inbox[b])' = Elements(t)
    BY <1>4 DEF Elements
  <2>2. Pending(b)' = Pending(b)
    BY <1>1, <1>4, <2>1 DEF Pending
  <2> QED
    BY <1>5, <2>2 DEF Due
<1>7. (\A m \in Pending(b) : Planted(m.coin))'
  BY <1>5, <1>6, PendingTypes DEF BrowserInv
<1>8. (Len(inbox[b]) <= Capacity)'
  <2>1. Len(s) \in Nat /\ Len(t) \in Nat /\ Len(s) <= Capacity /\ Capacity \in Nat
    BY <1>4, FeedAssumption DEF BrowserInv
  <2> QED
    BY <1>4, <2>1
<1>9. ASSUME Tracked, ~behind[b]
      PROVE  TableTold(b)'
  <2>1. TableTold(b) /\ table[b] \in Seq(RowType) /\ table'[b] = table[b]
    BY <1>1, <1>9 DEF BrowserInv
  <2>2. ASSUME NEW row \in Elements(table[b]) PROVE RowTold(b, row)'
    <3>1. row \in RowType /\ RowTold(b, row) /\ who[b] \in Degens \cup {Absent} /\ who' = who
      BY <1>1, <2>1, PendingTypes DEF Elements, TableTold
    <3> QED
      BY <1>5, <1>6, <3>1, RowStays DEF About, AboutOf
  <2>3. (\A c \in Coins : Planted(c) =>
            \/ \E row \in Elements(table[b]) : row.coin = c
            \/ About(Due(b), {"ShitcoinCreated"}, c))'
    BY <1>5, <1>6, <2>1 DEF TableTold, About, Elements
  <2>4. ASSUME NEW i \in DOMAIN s
        PROVE  /\ s[i].coin \in Coins
               /\ \/ s[i].meta = OnChainMeta(s[i].coin)'
                  \/ About(Upcoming \cup After(s, i), Refreshing, s[i].coin)
    BY <1>4, <1>5, <2>1, PendingTypes DEF TableTold, MessagesTold, MessageTold
  <2>5. MessageTold(inhand[b], Upcoming \cup Elements(inbox[b]))'
    <3>1. PICK m : m = s[1]
      OBVIOUS
    <3>2. m.meta = OnChainMeta(m.coin)' \/ About(Upcoming \cup Elements(t), Refreshing, m.coin)
      BY <1>4, <2>4, <3>1
    <3>3. inhand'[b] = m /\ (Upcoming \cup Elements(inbox[b]))' = Upcoming \cup Elements(t)
      BY <1>4, <1>5, <3>1 DEF Elements
    <3> QED
      BY <3>2, <3>3 DEF MessageTold
  <2>6. ASSUME NEW i \in DOMAIN t
        PROVE  MessageTold(inbox[b][i], Upcoming \cup After(inbox[b], i))'
    <3>1. PICK m : m = t[i]
      OBVIOUS
    <3>2. m.meta = OnChainMeta(m.coin)' \/ About(Upcoming \cup After(t, i), Refreshing, m.coin)
      BY <1>4, <2>4, <3>1
    <3>3. inbox'[b][i] = m /\ (Upcoming \cup After(inbox[b], i))' = Upcoming \cup After(t, i)
      BY <1>4, <1>5, <3>1 DEF After
    <3> QED
      BY <3>2, <3>3 DEF MessageTold
  <2>7. MessagesTold(b)'
    BY <1>4, <2>5, <2>6 DEF MessagesTold
  <2>8. Elements(table[b])' = Elements(table[b])
    BY <2>1 DEF Elements
  <2> QED
    BY <2>2, <2>3, <2>7, <2>8 DEF TableTold
<1> QED
  BY <1>1, <1>5, <1>7, <1>8, <1>9 DEF BrowserInv

\* A row made of a message.
LEMMA MessageRowTold ==
    ASSUME CopyInv, NEW e \in MessageType, NEW w \in Degens \cup {Absent},
           NEW row, row = Row(e.coin, e.meta, w)
    PROVE  /\ row \in RowType /\ row.coin = e.coin /\ row.meta = e.meta
           /\ Tracked =>
                 IF w = Absent THEN row.degen = Absent
                 ELSE /\ row.degen # Absent
                      /\ \/ row.degen.submission = contributed[e.coin][w]
                         \/ AboutOf(Upcoming, "PresaleEntered", e.coin, w)
                      /\ \/ row.degen.claimed <=> w \in claimed[e.coin]
                         \/ AboutOf(Upcoming, "ShitcoinClaimed", e.coin, w)
<1>1. /\ row.coin = e.coin /\ row.meta = e.meta
      /\ row.degen = IF w = Absent THEN Absent ELSE Or(cache.degens[e.coin][w], DefaultDegen)
      /\ row = [coin |-> row.coin, meta |-> row.meta, degen |-> row.degen]
  BY DEF Row
<1>2. e.coin \in Coins /\ e.meta \in {Absent} \cup MetaType
  BY DEF MessageType
<1>3. IF w = Absent THEN row.degen = Absent
      ELSE /\ row.degen \in DegenType /\ row.degen # Absent
           /\ Tracked =>
                 /\ \/ row.degen.submission = contributed[e.coin][w]
                    \/ AboutOf(Upcoming, "PresaleEntered", e.coin, w)
                 /\ \/ row.degen.claimed <=> w \in claimed[e.coin]
                    \/ AboutOf(Upcoming, "ShitcoinClaimed", e.coin, w)
  BY <1>1, <1>2, DegenTold
<1>4. row \in RowType
  BY <1>1, <1>2, <1>3 DEF RowType
<1> QED
  BY <1>1, <1>3, <1>4

\* The rows an event leaves: the new one and old ones, and the old ones of the
\* coin only when the event is not about what they say; and of every coin that
\* had a row there is one.
LEMMA RowsSwapped ==
    ASSUME NEW rows \in Seq(RowType), NEW e \in MessageType, NEW w,
           NEW row \in RowType, row = Row(e.coin, e.meta, w), row.coin = e.coin,
           NEW new, new = Swapped(rows, e, w)
    PROVE  /\ new \in Seq(RowType)
           /\ \A r \in Elements(new) :
                 \/ r = row /\ ~Skips(e, w)
                 \/ /\ r \in Elements(rows)
                    /\ Skips(e, w) \/ e.kind = "ShitcoinCreated" \/ r.coin # e.coin
           /\ \A r \in Elements(rows) : \E s \in Elements(new) : s.coin = r.coin
           /\ e.kind = "ShitcoinCreated" => row \in Elements(new)
<1>1. CASE Skips(e, w)
  BY <1>1 DEF Swapped, Skips
<1>2. CASE ~Skips(e, w) /\ e.kind = "ShitcoinCreated"
  <2>1. new = <<row>> \o rows
    BY <1>2 DEF Swapped
  <2>2. /\ new \in Seq(RowType) /\ Len(rows) \in Nat
        /\ DOMAIN rows = 1 .. Len(rows) /\ DOMAIN new = 1 .. Len(rows) + 1
        /\ new[1] = row /\ \A i \in 1 .. Len(rows) : new[i + 1] = rows[i]
    BY <2>1
  <2>3. row \in Elements(new)
    BY <2>2 DEF Elements
  <2>4. ASSUME NEW i \in 1 .. Len(rows) + 1
        PROVE  new[i] = row \/ new[i] \in Elements(rows)
    <3>1. CASE i = 1
      BY <2>2, <3>1
    <3>2. CASE i # 1
      <4>1. i - 1 \in 1 .. Len(rows) /\ new[(i - 1) + 1] = rows[i - 1] /\ (i - 1) + 1 = i
        BY <2>2, <3>2
      <4> QED
        BY <2>2, <4>1 DEF Elements
    <3> QED
      BY <3>1, <3>2
  <2>5. ASSUME NEW i \in 1 .. Len(rows)
        PROVE  rows[i] \in Elements(new)
    <3>1. i + 1 \in DOMAIN new /\ new[i + 1] = rows[i]
      BY <2>2
    <3> QED
      BY <3>1 DEF Elements
  <2>6. \A r \in Elements(new) : r = row \/ r \in Elements(rows)
    BY <2>2, <2>4 DEF Elements
  <2>7. Elements(rows) \subseteq Elements(new)
    BY <2>2, <2>5 DEF Elements
  <2> QED
    BY <1>2, <2>2, <2>3, <2>6, <2>7
<1>3. CASE ~Skips(e, w) /\ e.kind # "ShitcoinCreated"
  <2>1. new = [i \in DOMAIN rows |-> IF rows[i].coin = e.coin THEN row ELSE rows[i]]
    BY <1>3 DEF Swapped
  <2>2. /\ Len(rows) \in Nat /\ DOMAIN rows = 1 .. Len(rows)
        /\ \A i \in DOMAIN rows : rows[i] \in RowType
    OBVIOUS
  <2>3. new \in [1 .. Len(rows) -> RowType]
    BY <2>1, <2>2
  <2>4. new \in Seq(RowType) /\ DOMAIN new = DOMAIN rows
    BY <2>2, <2>3
  <2>5. \A i \in DOMAIN rows : /\ rows[i].coin = e.coin => new[i] = row
                               /\ rows[i].coin # e.coin => new[i] = rows[i]
                               /\ new[i].coin = rows[i].coin
    BY <2>1
  <2>6. \A r \in Elements(new) : r = row \/ (r \in Elements(rows) /\ r.coin # e.coin)
    BY <2>4, <2>5 DEF Elements
  <2>7. \A r \in Elements(rows) : \E s \in Elements(new) : s.coin = r.coin
    BY <2>4, <2>5 DEF Elements
  <2> QED
    BY <1>3, <2>4, <2>6, <2>7
<1> QED
  BY <1>1, <1>2, <1>3

\* A delivered event leaves right rows: those it replaces are made of the coin
\* as the message has it and of the degen as the copy has it now, and the
\* others it was not about.
LEMMA DeliverStays ==
    ASSUME CopyInv, BrowserTypes, NEW b \in Browsers, BrowserInv(b), Deliver(b)
    PROVE  BrowserInv(b)'
<1>1. /\ UNCHANGED vars /\ UNCHANGED <<who, inbox, behind, lagged>>
      /\ inhand[b] # Absent /\ inhand'[b] = Absent
      /\ table'[b] = Swapped(table[b], inhand[b], who[b])
      /\ inbox[b] \in Seq(MessageType) /\ inhand[b] \in MessageType
  BY DEF Deliver, BrowserTypes
<1>2. PICK m : m = inhand[b]
  OBVIOUS
<1>3. PICK w : w = who[b]
  OBVIOUS
<1>4. PICK row : row = Row(m.coin, m.meta, w)
  OBVIOUS
<1>5. /\ m \in MessageType /\ m \in Pending(b) /\ m.coin \in Coins /\ w \in Degens \cup {Absent}
      /\ who'[b] = w
  BY <1>1, <1>2, <1>3, PendingTypes
<1>6. /\ row \in RowType /\ row.coin = m.coin /\ row.meta = m.meta
      /\ Tracked =>
            IF w = Absent THEN row.degen = Absent
            ELSE /\ row.degen # Absent
                 /\ \/ row.degen.submission = contributed[m.coin][w]
                    \/ AboutOf(Upcoming, "PresaleEntered", m.coin, w)
                 /\ \/ row.degen.claimed <=> w \in claimed[m.coin]
                    \/ AboutOf(Upcoming, "ShitcoinClaimed", m.coin, w)
  BY <1>4, <1>5, MessageRowTold
<1>7. /\ NewsTell /\ Upcoming' = Upcoming /\ (Tracked' <=> Tracked)
      /\ \A c \in Coins : OnChainMeta(c)' = OnChainMeta(c) /\ (Planted(c)' <=> Planted(c))
      /\ Grows /\ contributed' = contributed /\ claimed' = claimed
  BY <1>1, NothingNew DEF vars, chain, ledger
<1>8. /\ Pending(b)' = Elements(inbox[b]) /\ Pending(b) = {m} \cup Elements(inbox[b])
      /\ Due(b)' = Upcoming \cup Elements(inbox[b])
      /\ Due(b) = {m} \cup Due(b)'
  <2>1. \A e \in Elements(inbox[b]) : e # Absent
    BY <1>1, FeedAssumption DEF Elements
  <2>2. Elements(inbox[b])' = Elements(inbox[b])
    BY <1>1 DEF Elements
  <2>3. /\ Pending(b)' = Elements(inbox[b])
        /\ Pending(b) = {m} \cup Elements(inbox[b])
    BY <1>1, <1>2, <2>1, <2>2 DEF Pending
  <2> QED
    BY <1>7, <2>3 DEF Due
<1>9. (\A x \in Pending(b) : Planted(x.coin))'
  BY <1>7, <1>8, PendingTypes DEF BrowserInv
<1>10. ASSUME ~behind[b]
       PROVE  /\ table[b] \in Seq(RowType) /\ table'[b] \in Seq(RowType)
              /\ \A r \in Elements(table'[b]) :
                    \/ r = row /\ ~Skips(m, w)
                    \/ /\ r \in Elements(table[b])
                       /\ Skips(m, w) \/ m.kind = "ShitcoinCreated" \/ r.coin # m.coin
              /\ \A r \in Elements(table[b]) : \E s \in Elements(table'[b]) : s.coin = r.coin
              /\ m.kind = "ShitcoinCreated" => row \in Elements(table'[b])
  <2>1. table[b] \in Seq(RowType) /\ table'[b] = Swapped(table[b], m, w)
    BY <1>1, <1>2, <1>3, <1>10 DEF BrowserInv
  <2>2. PICK old : old = table[b]
    OBVIOUS
  <2>3. PICK new : new = Swapped(old, m, w)
    OBVIOUS
  <2>4. /\ new \in Seq(RowType)
        /\ \A r \in Elements(new) :
              \/ r = row /\ ~Skips(m, w)
              \/ /\ r \in Elements(old)
                 /\ Skips(m, w) \/ m.kind = "ShitcoinCreated" \/ r.coin # m.coin
        /\ \A r \in Elements(old) : \E s \in Elements(new) : s.coin = r.coin
        /\ m.kind = "ShitcoinCreated" => row \in Elements(new)
    BY <1>4, <1>5, <1>6, <2>1, <2>2, <2>3, RowsSwapped
  <2>5. table'[b] = new
    BY <2>1, <2>2, <2>3
  <2> QED
    BY <2>1, <2>2, <2>4, <2>5
<1>11. ASSUME Tracked, ~behind[b], ~lagged[b]
       PROVE  TableTold(b)'
  <2>1. TableTold(b)
    BY <1>11 DEF BrowserInv
  <2>2. m.meta = OnChainMeta(m.coin) \/ About(Due(b)', Refreshing, m.coin)
    BY <1>1, <1>2, <1>8, <2>1 DEF TableTold, MessagesTold, MessageTold
  <2>3. RowTold(b, row)'
    <3>1. MetaRight(b, row)'
      BY <1>5, <1>6, <1>7, <2>2 DEF MetaRight, About
    <3>2. DegenRight(b, row)'
      BY <1>3, <1>5, <1>6, <1>7, <1>8, <1>11 DEF DegenRight, AboutOf
    <3>3. Planted(row.coin)'
      BY <1>5, <1>6, <1>7 DEF BrowserInv
    <3> QED
      BY <3>1, <3>2, <3>3 DEF RowTold
  <2>4. ASSUME NEW r \in Elements(table[b]),
               Skips(m, w) \/ m.kind = "ShitcoinCreated" \/ r.coin # m.coin
        PROVE  RowTold(b, r)'
    <3>1. r \in RowType /\ RowTold(b, r)
      BY <1>10, <1>11, <2>1 DEF Elements, TableTold
    <3>2. ~(m.kind \in Refreshing /\ m.coin = r.coin)
      BY <2>4 DEF Skips, Refreshing
    <3>3. About(Due(b), Refreshing, r.coin) => About(Due(b)', Refreshing, r.coin)
      BY <1>8, <3>2 DEF About
    <3>4. ASSUME NEW kind \in {"PresaleEntered", "ShitcoinClaimed"}, w # Absent,
                 AboutOf(Due(b), kind, r.coin, w)
          PROVE  AboutOf(Due(b)', kind, r.coin, w)
      <4>1. ~(m.kind = kind /\ m.coin = r.coin /\ m.degen = w)
        BY <2>4, <3>4 DEF Skips
      <4> QED
        BY <1>8, <3>4, <4>1 DEF AboutOf
    <3>5. About(Due(b), Refreshing, r.coin) => About(Due(b), Refreshing, r.coin)'
      BY <3>3 DEF About
    <3>6. \A kind \in {"PresaleEntered", "ShitcoinClaimed"} :
              who[b] # Absent /\ AboutOf(Due(b), kind, r.coin, who[b]) =>
                  AboutOf(Due(b), kind, r.coin, who[b])'
      BY <1>3, <1>5, <3>4 DEF AboutOf
    <3>7. who[b] \in Degens \cup {Absent} /\ who'[b] = who[b]
      BY <1>1, <1>3, <1>5
    <3> QED
      BY <1>7, <3>1, <3>5, <3>6, <3>7, RowStays
  <2>5. (\A r \in Elements(table[b]) : RowTold(b, r))'
    <3>1. ASSUME NEW r \in Elements(table'[b]) PROVE RowTold(b, r)'
      <4>1. CASE r = row
        BY <2>3, <4>1
      <4>2. CASE r # row
        BY <1>10, <1>11, <2>4, <4>2
      <4> QED
        BY <4>1, <4>2
    <3>2. Elements(table[b])' = Elements(table'[b])
      BY DEF Elements
    <3> QED
      BY <3>1, <3>2
  <2>6. ASSUME NEW c \in Coins, Planted(c)
        PROVE  \/ \E r \in Elements(table'[b]) : r.coin = c
               \/ About(Due(b)', {"ShitcoinCreated"}, c)
    <3>1. CASE \E r \in Elements(table[b]) : r.coin = c
      BY <1>10, <1>11, <3>1
    <3>2. CASE About(Due(b), {"ShitcoinCreated"}, c)
      <4>1. CASE m.kind = "ShitcoinCreated" /\ m.coin = c
        BY <1>6, <1>10, <1>11, <4>1
      <4>2. CASE ~(m.kind = "ShitcoinCreated" /\ m.coin = c)
        BY <1>8, <3>2, <4>2 DEF About
      <4> QED
        BY <4>1, <4>2
    <3> QED
      BY <2>1, <2>6, <3>1, <3>2 DEF TableTold
  <2>7. (\A c \in Coins : Planted(c) =>
            \/ \E r \in Elements(table[b]) : r.coin = c
            \/ About(Due(b), {"ShitcoinCreated"}, c))'
    BY <1>7, <2>6 DEF About, Elements
  <2>8. MessagesTold(b)'
    <3>1. ASSUME NEW i \in DOMAIN inbox[b]
          PROVE  MessageTold(inbox[b][i], Upcoming \cup After(inbox[b], i))'
      <4>1. PICK x : x = inbox[b][i]
        OBVIOUS
      <4>2. x.coin \in Coins /\ MessageTold(x, Upcoming \cup After(inbox[b], i))
        BY <2>1, <4>1, PendingTypes DEF TableTold, MessagesTold
      <4>3. /\ inbox'[b][i] = x
            /\ (Upcoming \cup After(inbox[b], i))' = Upcoming \cup After(inbox[b], i)
        BY <1>1, <1>7, <4>1 DEF After
      <4> QED
        BY <1>7, <4>2, <4>3 DEF MessageTold
    <3> QED
      BY <1>1, <3>1 DEF MessagesTold
  <2> QED
    BY <2>5, <2>7, <2>8 DEF TableTold
<1> QED
  BY <1>1, <1>7, <1>9, <1>10, <1>11 DEF BrowserInv
-----------------------------------------------------------------------------
(***************************************************************************)
(* Every step.                                                             *)
(***************************************************************************)

\* A copy that is followed was followed before, unless it has just been loaded.
LEMMA TrackedBefore ==
    ASSUME [WebNext \/ Aborts]_vars, Tracked', ~InstallSnapshot
    PROVE  Tracked
<1>1. CASE \/ Commit \/ TimePasses \/ Publish \/ UNCHANGED vars \/ QueryAnswers \/ ReadPage
           \/ Receive \/ Apply \/ Broadcast \/ Subscribe
  <2>1. CASE Commit
    <3>1. at' = at /\ connected' = connected /\ (~gap' => ~gap)
      BY <2>1 DEF Commit, Emit, Unannounced
    <3> QED
      BY <3>1 DEF Tracked, Subscribed
  <2>2. CASE \/ TimePasses \/ Publish \/ UNCHANGED vars \/ QueryAnswers \/ ReadPage
             \/ Receive \/ Apply \/ Broadcast \/ Subscribe
    <3>1. /\ connected' = connected /\ gap' = gap
          /\ at' = at \/ at \in {"subscribe", "listen", "query", "timestamp"}
      BY <2>2 DEF TimePasses, Publish, vars, QueryAnswers, ReadPage, Receive, Apply, Broadcast,
                  Subscribe
    <3> QED
      BY <3>1 DEF Tracked, Subscribed
  <2> QED
    BY <1>1, <2>1, <2>2
<1>2. CASE Unsubscribed
  BY <1>2 DEF Unsubscribed, StartSnapshot, Tracked, Subscribed
<1>3. CASE Panic \/ StartOver \/ ConnectionCloses \/ SnapshotFails \/ Aborts
  BY <1>3 DEF Panic, StartOver, ConnectionCloses, SnapshotFails, Aborts, Restart, StartSnapshot,
              Tracked, Subscribed
<1> QED
  BY <1>1, <1>2, <1>3 DEF WebNext, Monitor

\* No other action of the monitor is the broadcast or the installation.
LEMMA NotBroadcast ==
    ASSUME Commit \/ TimePasses \/ Publish \/ Receive \/ ReadPage \/ Subscribe \/ Unsubscribed
           \/ QueryAnswers \/ Apply \/ StartOver \/ ConnectionCloses \/ Panic
    PROVE  ~Broadcast /\ ~InstallSnapshot
BY DEF Commit, TimePasses, Publish, Receive, ReadPage, Subscribe, Unsubscribed, QueryAnswers,
       Apply, StartOver, StartSnapshot, ConnectionCloses, Panic, Restart, Broadcast,
       InstallSnapshot, snapshot

\* The server's end.
LEMMA GoneStays ==
    ASSUME Grows, BrowserTypes, ServerGone, NEW b \in Browsers, BrowserInv(b)
    PROVE  BrowserInv(b)'
<1>1. behind'[b] /\ inbox'[b] = << >> /\ inhand'[b] = Absent /\ ~lagged'[b]
  BY DEF ServerGone, NoBrowsers
<1> QED
  BY <1>1, BehindStays

\* The end of a stream.
LEMMA StreamEndStays ==
    ASSUME CopyInv, UNCHANGED vars, BrowserTypes, NEW b \in Browsers, CloseStream(b),
           behind' = [behind EXCEPT ![b] = TRUE], UNCHANGED <<who, table>>,
           NEW x \in Browsers, BrowserInv(x)
    PROVE  BrowserInv(x)'
<1>1. CASE x = b
  <2>1. behind'[b] /\ inbox'[b] = << >> /\ inhand'[b] = Absent /\ ~lagged'[b]
    BY DEF CloseStream, BrowserTypes
  <2> QED
    BY <1>1, <2>1, BehindStays, NothingNew
<1>2. CASE x # b
  <2>1. Untouched(x)
    BY <1>2 DEF CloseStream, BrowserTypes, Untouched
  <2> QED
    BY <2>1, QuietStays
<1> QED
  BY <1>1, <1>2

\* The steps of a browser keep what is known of every browser.
LEMMA BrowserStepStays ==
    ASSUME CopyInv, MetaInv, BrowserTypes, NEW b \in Browsers, NEW x \in Browsers,
           BrowserInv(x),
           \/ \E w \in Visitors : AskForList(b, w)
           \/ \E c \in Coins : AskForRow(b, c) \/ Visit(b, c)
           \/ Serve(b) \/ Connect(b) \/ Stream(b)
    PROVE  BrowserInv(x)'
<1>1. CASE Aborts /\ ServerGone
  <2>1. Grows
    BY <1>1, CopyKept
  <2> QED
    BY <1>1, <2>1, GoneStays
<1>2. CASE \/ \E w \in Visitors : AskForList(b, w)
           \/ \E c \in Coins : AskForRow(b, c) \/ Visit(b, c)
           \/ GrantPage(b) \/ PageFails(b) \/ Connect(b)
           \/ PagePanics(b) /\ ~PanicAborts
  <2>1. UNCHANGED vars /\ Untouched(x)
    BY <1>2 DEF AskForList, AskForRow, Visit, GrantPage, PageFails, Connect, PagePanics,
                Untouched, channel, pages
  <2> QED
    BY <2>1, QuietStays
<1>3. ASSUME NEW w \in Visitors, AnswerList(b, w) PROVE BrowserInv(x)'
  <2>1. CASE x # b
    <3>1. UNCHANGED vars /\ Untouched(x)
      BY <1>3, <2>1 DEF AnswerList, CloseStream, BrowserTypes, Untouched
    <3> QED
      BY <3>1, QuietStays
  <2> QED
    BY <1>3, <2>1, ListStays
<1>4. ASSUME NEW c \in Coins, AnswerRow(b, c) PROVE BrowserInv(x)'
  <2>1. CASE x # b
    <3>1. UNCHANGED vars /\ Untouched(x)
      BY <1>4, <2>1 DEF AnswerRow, channel, BrowserTypes, Untouched
    <3> QED
      BY <3>1, QuietStays
  <2> QED
    BY <1>4, <2>1, RowAnswerStays
<1>5. CASE Take(b)
  <2>1. CASE x # b
    <3>1. UNCHANGED vars /\ Untouched(x)
      BY <1>5, <2>1 DEF Take, pages, BrowserTypes, Untouched
    <3> QED
      BY <3>1, QuietStays
  <2> QED
    BY <1>5, <2>1, TakeStays
<1>6. CASE Deliver(b)
  <2>1. CASE x # b
    <3>1. UNCHANGED vars /\ Untouched(x)
      BY <1>6, <2>1 DEF Deliver, BrowserTypes, Untouched
    <3> QED
      BY <3>1, QuietStays
  <2> QED
    BY <1>6, <2>1, DeliverStays
<1>7. CASE Lag(b) \/ (DeliveryPanics(b) /\ ~PanicAborts)
  <2>1. /\ UNCHANGED vars /\ CloseStream(b) /\ behind' = [behind EXCEPT ![b] = TRUE]
        /\ UNCHANGED <<who, table>>
    BY <1>7 DEF Lag, DeliveryPanics
  <2> QED
    BY <2>1, StreamEndStays
<1>8. (PagePanics(b) \/ DeliveryPanics(b)) /\ PanicAborts => Aborts /\ ServerGone
  BY DEF PagePanics, DeliveryPanics
<1> QED
  BY <1>1, <1>2, <1>3, <1>4, <1>5, <1>6, <1>7, <1>8, VisitEnds DEF Serve, Stream

\* So do the steps of the monitor and what goes wrong.
LEMMA MonitorStepStays ==
    ASSUME CopyInv, MetaInv, BrowserTypes, NEW b \in Browsers, BrowserInv(b),
           [WebNext \/ Aborts]_vars,
           \/ (Commit \/ TimePasses) /\ UNCHANGED feed
           \/ FeedPublish \/ FeedMonitor \/ FeedFaults
           \/ UNCHANGED allVars
    PROVE  BrowserInv(b)'
<1>1. Grows
  BY CopyKept
<1>2. CASE FeedBroadcast
  BY <1>2, BroadcastStays
<1>3. CASE FeedInstall
  <2>1. behind'[b] /\ UNCHANGED <<inbox, inhand, lagged>>
    BY <1>3 DEF FeedInstall, channel
  <2> QED
    BY <1>1, <2>1, BehindStays
<1>4. CASE ServerGone
  BY <1>1, <1>4, GoneStays
<1>5. CASE AskToWrite \/ UNCHANGED allVars
  <2>1. UNCHANGED vars /\ Untouched(b)
    BY <1>5 DEF AskToWrite, allVars, feed, channel, pages, Untouched
  <2> QED
    BY <2>1, QuietStays
<1>6. CASE FeedReceive
  <2>1. Receive /\ Untouched(b) /\ [WebNext \/ Aborts]_vars
    BY <1>6 DEF FeedReceive, channel, pages, Untouched, WebNext, Monitor
  <2> QED
    BY <2>1, UntouchedStays, TrackedBefore, NotBroadcast
<1>7. CASE UNCHANGED feed /\ (Commit \/ TimePasses \/ FeedPublish \/ FeedMonitorSteps
                              \/ FeedPanic \/ StartOver \/ ConnectionCloses)
  <2>1. /\ Commit \/ TimePasses \/ Publish \/ ReadPage \/ Subscribe \/ Unsubscribed
           \/ QueryAnswers \/ Apply \/ Panic \/ StartOver \/ ConnectionCloses
        /\ Untouched(b)
    BY <1>7 DEF FeedPublish, FeedMonitorSteps, FeedPanic, feed, channel, pages, Untouched
  <2>2. [WebNext \/ Aborts]_vars
    BY <2>1 DEF WebNext, Monitor
  <2> QED
    BY <2>1, <2>2, UntouchedStays, TrackedBefore, NotBroadcast
<1> QED
  BY <1>2, <1>3, <1>4, <1>5, <1>6, <1>7
     DEF FeedMonitor, FeedFaults, FeedPublish, FeedMonitorSteps, FeedPanic

\* The types of what the browsers have.
LEMMA BrowserTypesKept ==
    ASSUME CopyInv, BrowserTypes, [FeedNext]_allVars
    PROVE  BrowserTypes'
<1> USE DEF BrowserTypes
<1>1. CASE UNCHANGED <<channel, pages>>
  BY <1>1 DEF channel, pages
<1>2. CASE ServerGone
  <2>1. << >> \in Seq(MessageType)
    OBVIOUS
  <2> QED
    BY <1>2, <2>1 DEF ServerGone, NoBrowsers
<1>3. CASE FeedInstall
  BY <1>3 DEF FeedInstall, channel
<1>4. CASE FeedBroadcast
  <2>1. PICK message : message = Message
    OBVIOUS
  <2>2. message \in MessageType
    <3>1. event \in EventType /\ Meta \in {Absent} \cup MetaType
      BY <1>4 DEF FeedBroadcast, Broadcast, CopyInv, BaseInv, MonitorInv, WebTypeOK, StateType,
                  Happened, EventType, Meta
    <3> QED
      BY <2>1, <3>1 DEF Message, MessageType, EventType
  <2>3. ASSUME NEW b \in Browsers
        PROVE  inbox'[b] \in Seq(MessageType)
    <3>1. PICK s : s = inbox[b]
      OBVIOUS
    <3>2. s \in Seq(MessageType)
      BY <3>1
    <3>3. \/ inbox'[b] = s \/ inbox'[b] = Append(s, message)
          \/ inbox'[b] = Append(Tail(s), message) /\ ~(Len(s) < Capacity)
      BY <1>4, <2>1, <3>1 DEF FeedBroadcast
    <3>4. ~(Len(s) < Capacity) => Tail(s) \in Seq(MessageType)
      <4>1. ~(Len(s) < Capacity) => s # << >>
        BY FeedAssumption
      <4> QED
        BY <3>2, <4>1
    <3>5. /\ Append(s, message) \in Seq(MessageType)
          /\ ~(Len(s) < Capacity) => Append(Tail(s), message) \in Seq(MessageType)
      BY <2>2, <3>2, <3>4, ElementsOfAppend
    <3> QED
      BY <3>2, <3>3, <3>5
  <2>4. DOMAIN inbox' = Browsers /\ inbox' \in [Browsers -> Seq(MessageType)]
    <3>1. inbox' = [b \in Browsers |-> inbox'[b]]
      BY <1>4 DEF FeedBroadcast
    <3> QED
      BY <2>3, <3>1
  <2>5. lagged' \in [Browsers -> BOOLEAN] /\ behind' \in [Browsers -> BOOLEAN]
    BY <1>4 DEF FeedBroadcast
  <2> QED
    BY <1>4, <2>4, <2>5 DEF FeedBroadcast
<1>5. CASE UNCHANGED vars /\ \E b \in Browsers :
              \/ \E w \in Visitors : AskForList(b, w)
              \/ \E c \in Coins : AskForRow(b, c) \/ Visit(b, c)
              \/ GrantPage(b) \/ PageFails(b) \/ Connect(b)
  <2>1. CASE UNCHANGED channel /\ UNCHANGED <<who, table, behind, overtaken>>
             /\ DOMAIN request' = DOMAIN request
    BY <2>1 DEF channel
  <2>2. CASE \E b \in Browsers : Connect(b)
    BY <2>2 DEF Connect, pages
  <2> HIDE DEF BrowserTypes
  <2> QED
    BY <1>5, <2>1, <2>2 DEF AskForList, AskForRow, Visit, GrantPage, PageFails, Unlock, pages
<1>6. ASSUME NEW b \in Browsers, CloseStream(b), UNCHANGED <<request, who, table, overtaken>>,
             behind' = [behind EXCEPT ![b] = TRUE]
      PROVE  BrowserTypes'
  BY <1>6 DEF CloseStream
<1>7. ASSUME NEW b \in Browsers, NEW w \in Visitors, AnswerList(b, w)
      PROVE  BrowserTypes'
  BY <1>7, FeedAssumption DEF AnswerList, Unlock, CloseStream
<1>8. ASSUME NEW b \in Browsers, NEW c \in Coins, AnswerRow(b, c)
      PROVE  BrowserTypes'
  BY <1>8 DEF AnswerRow, Unlock, channel
<1>9. ASSUME NEW b \in Browsers, Take(b)
      PROVE  BrowserTypes'
  <2>1. PICK s : s = inbox[b]
    OBVIOUS
  <2>2. s \in Seq(MessageType) /\ s # << >>
    BY <1>9, <2>1 DEF Take
  <2>3. Head(s) \in MessageType /\ Tail(s) \in Seq(MessageType)
    BY <2>2
  <2>4. /\ inhand' = [inhand EXCEPT ![b] = Head(s)] /\ inbox' = [inbox EXCEPT ![b] = Tail(s)]
        /\ UNCHANGED <<subscribed, lagged, pages>>
    BY <1>9, <2>1 DEF Take
  <2> HIDE DEF BrowserTypes
  <2>5. /\ inhand' \in [Browsers -> {Absent} \cup MessageType]
        /\ inbox' \in [Browsers -> Seq(MessageType)]
    BY <2>3, <2>4 DEF BrowserTypes
  <2> QED
    BY <2>4, <2>5 DEF BrowserTypes, pages
<1>10. ASSUME NEW b \in Browsers, Deliver(b)
       PROVE  BrowserTypes'
  BY <1>10 DEF Deliver
<1> HIDE DEF BrowserTypes
<1>11. CASE \E b \in Browsers :
              \/ \E w \in Visitors : AskForList(b, w)
              \/ \E c \in Coins : AskForRow(b, c) \/ Visit(b, c)
              \/ Serve(b) \/ Connect(b) \/ Stream(b)
  <2>1. PICK b \in Browsers :
           \/ \E w \in Visitors : AskForList(b, w)
           \/ \E c \in Coins : AskForRow(b, c) \/ Visit(b, c)
           \/ Serve(b) \/ Connect(b) \/ Stream(b)
    BY <1>11
  <2>2. CASE \/ \E w \in Visitors : AskForList(b, w)
             \/ \E c \in Coins : AskForRow(b, c) \/ Visit(b, c)
             \/ GrantPage(b) \/ PageFails(b) \/ Connect(b)
    <3>1. UNCHANGED vars
      BY <2>2 DEF AskForList, AskForRow, Visit, GrantPage, PageFails, Connect
    <3> QED
      BY <1>5, <2>2, <3>1
  <2>3. CASE PagePanics(b)
    BY <1>1, <1>2, <2>3 DEF PagePanics, channel, pages, Unlock, BrowserTypes
  <2>4. CASE DeliveryPanics(b) \/ Lag(b)
    BY <1>2, <1>6, <2>4 DEF DeliveryPanics, Lag
  <2> QED
    BY <1>7, <1>8, <1>9, <1>10, <2>1, <2>2, <2>3, <2>4, VisitEnds DEF Serve, Stream
<1>12. CASE ((Commit \/ TimePasses) /\ UNCHANGED feed) \/ FeedPublish \/ FeedFaults
  BY <1>1, <1>2, <1>12 DEF FeedPublish, FeedFaults, feed
<1>13. CASE FeedMonitor
  BY <1>1, <1>2, <1>3, <1>4, <1>13
     DEF FeedMonitor, AskToWrite, FeedReceive, FeedMonitorSteps, FeedPanic, feed
<1>14. CASE UNCHANGED allVars
  BY <1>1, <1>14 DEF allVars, feed
<1> QED
  BY <1>11, <1>12, <1>13, <1>14 DEF FeedNext

\* Nobody shows anything at the start.
LEMMA TablesAtStart ==
    ASSUME FeedInit
    PROVE  TablesInv
<1>1. << >> \in Seq(MessageType) /\ Len(<< >>) = 0 /\ Elements(<< >>) = {}
  BY ElementsOfNone
<1>2. BrowserTypes
  BY <1>1 DEF FeedInit, BrowserTypes
<1>3. MetaInv
  BY DEF FeedInit, WebInit, MetaInv, Subscribed
<1>4. ASSUME NEW b \in Browsers PROVE BrowserInv(b)
  <2>1. inbox[b] = << >> /\ inhand[b] = Absent /\ behind[b] /\ ~lagged[b]
    BY DEF FeedInit
  <2>2. Pending(b) = {}
    BY <1>1, <2>1 DEF Pending
  <2> QED
    BY <1>1, <2>1, <2>2, FeedAssumption DEF BrowserInv
<1> QED
  BY <1>2, <1>3, <1>4 DEF TablesInv

\* Every step keeps the tables told.
LEMMA TablesKept ==
    ASSUME CopyInv, TablesInv, [FeedNext]_allVars
    PROVE  TablesInv'
<1>1. [WebNext \/ Aborts]_vars
  BY StepsOfTheCopy
<1>2. BrowserTypes' /\ MetaInv'
  BY <1>1, BrowserTypesKept, MetaKept DEF TablesInv
<1>3. ASSUME NEW x \in Browsers PROVE BrowserInv(x)'
  <2>1. BrowserInv(x) /\ BrowserTypes /\ MetaInv
    BY DEF TablesInv
  <2>2. CASE \/ (Commit \/ TimePasses) /\ UNCHANGED feed
             \/ FeedPublish \/ FeedMonitor \/ FeedFaults
             \/ UNCHANGED allVars
    BY <1>1, <2>1, <2>2, MonitorStepStays
  <2>3. CASE \E b \in Browsers :
                \/ \E w \in Visitors : AskForList(b, w)
                \/ \E c \in Coins : AskForRow(b, c) \/ Visit(b, c)
                \/ Serve(b) \/ Connect(b) \/ Stream(b)
    BY <2>1, <2>3, BrowserStepStays
  <2> QED
    BY <2>2, <2>3 DEF FeedNext
<1> QED
  BY <1>2, <1>3 DEF TablesInv

\* A row that is right with nothing due is the row of the list.
LEMMA RightRow ==
    ASSUME CacheAgrees, BrowserTypes, NEW b \in Browsers, Due(b) = {},
           NEW row \in RowType, RowTold(b, row)
    PROVE  row = CachedRow(row.coin, who[b])
<1> DEFINE c == row.coin
           w == who[b]
<1>1. c \in Coins /\ w \in Degens \cup {Absent} /\ row.degen \in {Absent} \cup DegenType
      /\ row = [coin |-> row.coin, meta |-> row.meta, degen |-> row.degen]
  BY DEF RowType, BrowserTypes
<1>2. row.meta = cache.shitcoins[c]
  BY <1>1 DEF RowTold, MetaRight, About, CacheAgrees
<1>3. row.degen = IF w = Absent THEN Absent ELSE Or(cache.degens[c][w], DefaultDegen)
  <2>1. CASE w = Absent
    BY <2>1 DEF RowTold, DegenRight
  <2>2. CASE w # Absent
    <3> DEFINE has == w \in claimed[c]
    <3>1. /\ row.degen \in DegenType /\ row.degen.submission = contributed[c][w]
          /\ row.degen.claimed <=> has
      BY <1>1, <2>2 DEF RowTold, DegenRight, AboutOf
    <3>2. Or(cache.degens[c][w], DefaultDegen) = [submission |-> contributed[c][w], claimed |-> has]
      BY <1>1, <2>2 DEF CacheAgrees
    <3>3. has \in BOOLEAN
      OBVIOUS
    <3> HIDE DEF has
    <3>4. row.degen.claimed = has
      BY <3>1, <3>3 DEF DegenType
    <3>5. row.degen = [submission |-> row.degen.submission, claimed |-> row.degen.claimed]
      BY <3>1 DEF DegenType
    <3>6. row.degen = [submission |-> contributed[c][w], claimed |-> has]
      BY <3>1, <3>4, <3>5
    <3> QED
      BY <2>2, <3>2, <3>6
  <2> QED
    BY <2>1, <2>2
<1> QED
  BY <1>1, <1>2, <1>3 DEF CachedRow, Row

\* With nothing due a table has the rows of the list.
LEMMA NothingDue ==
    ASSUME CopyInv, TablesInv, Drained, ~gap, NEW b \in Browsers, CaughtUp(b)
    PROVE  ToSet(table[b]) = ToSet(List(who[b]))
<1>1. /\ at = "listen" /\ connected /\ stream = << >> /\ unpublished = << >>
      /\ inbox[b] = << >> /\ inhand[b] = Absent /\ ~behind[b]
      /\ BrowserTypes /\ MetaInv /\ BrowserInv(b)
  BY DEF Drained, CaughtUp, TablesInv
<1>2. Coming = {} /\ event = Absent
  BY <1>1, ElementsOfNone DEF Coming, CopyInv, BaseInv, MonitorInv, WebTypeOK
<1>3. Upcoming = {} /\ Pending(b) = {} /\ Due(b) = {} /\ Tracked
  BY <1>1, <1>2, ElementsOfNone DEF Upcoming, Pending, Due, Tracked, Subscribed
<1>4. TableTold(b) /\ table[b] \in Seq(RowType)
  BY <1>1, <1>3 DEF BrowserInv
<1>5. CacheAgrees /\ Elements(cache.indexes) = {c \in Coins : Planted(c)}
  <2>1. CacheAgrees
    BY NothingLeftToTell DEF CopyInv, DrainedAgrees
  <2>2. ListsCoinsInOrder
    BY NothingLeftToList DEF CopyInv
  <2> QED
    BY <2>1, <2>2 DEF ListsCoinsInOrder, Elements
<1>6. who[b] \in Degens \cup {Absent}
  BY <1>1 DEF BrowserTypes
<1>7. Elements(List(who[b])) = {CachedRow(c, who[b]) : c \in {c \in Coins : Planted(c)}}
  BY <1>1, <1>5, <1>6, ListRows
<1>8. ASSUME NEW row \in Elements(table[b])
      PROVE  row = CachedRow(row.coin, who[b]) /\ row.coin \in Coins /\ Planted(row.coin)
  <2>1. row \in RowType /\ RowTold(b, row)
    BY <1>4 DEF Elements, TableTold
  <2> QED
    BY <1>1, <1>3, <1>5, <2>1, RightRow DEF RowTold, RowType
<1>9. ASSUME NEW c \in Coins, Planted(c)
      PROVE  CachedRow(c, who[b]) \in Elements(table[b])
  <2>1. PICK row \in Elements(table[b]) : row.coin = c
    BY <1>3, <1>4, <1>9 DEF TableTold, About
  <2> QED
    BY <1>8, <2>1
<1>10. Elements(table[b]) = Elements(List(who[b]))
  BY <1>7, <1>8, <1>9
<1> QED
  BY <1>10 DEF Elements, ToSet

\* A browser that has worked off its events, and was told of every change since it
\* loaded its list, shows exactly what a list loaded now would show, while every
\* message to the contract was told of by the snapshot or an event.
THEOREM TablesComeToAgree == FeedSpec => []TablesAgree
<1>1. FeedInit => CopyInv /\ TablesInv
  BY CopyAtStart, TablesAtStart DEF FeedInit
<1>2. CopyInv /\ TablesInv /\ [FeedNext]_allVars => (CopyInv /\ TablesInv)'
  BY StepsOfTheCopy, CopyKept, TablesKept
<1>3. CopyInv /\ TablesInv => TablesAgree
  BY NothingDue DEF TablesAgree
<1> QED
  BY <1>1, <1>2, <1>3, PTL DEF FeedSpec
-----------------------------------------------------------------------------
(***************************************************************************)
(* Events move rows on.                                                    *)
(***************************************************************************)
MetaGoesOn(old, new) ==
    /\ old.end <= new.end /\ old.raise <= new.raise /\ old.url <= new.url
    /\ old.launched => new.launched

DegenGoesOn(old, new) == old.submission <= new.submission /\ (old.claimed => new.claimed)

\* What a browser has been told of a coin the server knows as well: from its copy
\* or, before the first snapshot of a process is installed, from its pages.
MetaHeld(c, meta) ==
    /\ MetaNotAhead(c, meta)
    /\ IF serving THEN cache.shitcoins[c] # Absent /\ MetaGoesOn(meta, cache.shitcoins[c])
       ELSE DraftHas(c, meta)

DegenHeld(c, g, degen) ==
    /\ DegenNotAhead(c, g, degen)
    /\ IF serving THEN DegenGoesOn(degen, CachedDegen(c, g)) ELSE DraftHasDegen(c, g, degen)

FullRowType == [coin : Coins, meta : MetaType, degen : {Absent} \cup DegenType]

RowHeld(w, row) ==
    /\ MetaHeld(row.coin, row.meta)
    /\ row.degen # Absent => w \in Degens /\ DegenHeld(row.coin, w, row.degen)

\* Before the first snapshot nobody is served.
DoorInv ==
    /\ ~serving => /\ at = "snapshot" /\ queue = << >> /\ readers = {}
                   /\ \A b \in Browsers : ~subscribed[b]
    /\ \A b \in Browsers :
          ~subscribed[b] => inbox[b] = << >> /\ inhand[b] = Absent /\ ~lagged[b]

\* Of two messages about a coin, or a row and a message, the later goes on from
\* the earlier.
GoesOnTo(x, y) == x.coin = y.coin => MetaGoesOn(x.meta, y.meta)

RowsHeld(b) ==
    table[b] # Absent => /\ table[b] \in Seq(FullRowType)
                         /\ \A row \in Elements(table[b]) : RowHeld(who[b], row)

MessagesHeld(b) == \A m \in Pending(b) : m.meta \in MetaType /\ MetaHeld(m.coin, m.meta)

MessagesInOrder(b) ==
    /\ inhand[b] # Absent => \A m \in Elements(inbox[b]) : GoesOnTo(inhand[b], m)
    /\ \A i, j \in DOMAIN inbox[b] : i < j => GoesOnTo(inbox[b][i], inbox[b][j])

RowsInOrder(b) ==
    (table[b] # Absent /\ ~overtaken[b]) =>
        \A row \in Elements(table[b]), m \in Pending(b) : GoesOnTo(row, m)

\* There is a table where there is a stream, or a row that loads itself.
TableThere(b) ==
    (subscribed[b] \/ \E c \in Coins : request[b] = RowPage(c)) => table[b] # Absent

ShownInv(b) ==
    RowsHeld(b) /\ MessagesHeld(b) /\ MessagesInOrder(b) /\ RowsInOrder(b) /\ TableThere(b)

OnwardInv == DoorInv /\ \A b \in Browsers : ShownInv(b)

\* A step with pages ends the process, or serves on from a copy that lives on, or
\* goes on with the first snapshot, or installs it.
LEMMA FourWays ==
    ASSUME DoorInv, [FeedNext]_allVars
    PROVE  \/ ServerGone /\ Restart
           \/ serving /\ serving' /\ CopyLives
           \/ ~serving /\ ~serving' /\ (ReadPage \/ UNCHANGED snapshot) /\ at' = at
           \/ ~serving /\ serving' /\ InstallSnapshot
<1> DEFINE Ways ==
              \/ ServerGone /\ Restart
              \/ serving /\ serving' /\ CopyLives
              \/ ~serving /\ ~serving' /\ (ReadPage \/ UNCHANGED snapshot) /\ at' = at
              \/ ~serving /\ serving' /\ InstallSnapshot
<1>1. CASE UNCHANGED <<cache, snapshot, at, serving>>
  BY <1>1 DEF CopyLives
<1>2. CASE (Commit \/ TimePasses) /\ UNCHANGED feed
  BY <1>1, <1>2 DEF Commit, TimePasses, feed
<1>3. CASE FeedPublish
  BY <1>1, <1>3 DEF FeedPublish, Publish, feed
<1>4. CASE FeedFaults
  <2>1. CASE SnapshotFails /\ ServerGone
    BY <2>1 DEF SnapshotFails
  <2>2. CASE ConnectionCloses /\ UNCHANGED feed
    BY <1>1, <2>2 DEF ConnectionCloses, feed
  <2>3. CASE StartOver /\ UNCHANGED feed
    <3>1. serving /\ serving' /\ cache' = cache
      BY <2>3 DEF StartOver, DoorInv, feed
    <3> QED
      BY <3>1 DEF CopyLives
  <2> QED
    BY <1>4, <2>1, <2>2, <2>3 DEF FeedFaults
<1>5. CASE FeedMonitor
  <2>1. CASE AskToWrite
    BY <1>1, <2>1 DEF AskToWrite, vars
  <2>2. CASE FeedReceive
    <3>1. serving /\ serving' /\ Receive
      BY <2>2 DEF FeedReceive, Granted, DoorInv
    <3> QED
      BY <3>1 DEF CopyLives
  <2>3. CASE FeedInstall
    BY <2>3 DEF FeedInstall, CopyLives
  <2>4. CASE FeedBroadcast
    <3>1. serving /\ serving' /\ cache' = cache
      BY <2>4 DEF FeedBroadcast, Broadcast, DoorInv
    <3> QED
      BY <3>1 DEF CopyLives
  <2>5. CASE FeedMonitorSteps
    <3>1. CASE ReadPage
      <4>1. cache' = cache /\ at' = at /\ serving' = serving
        BY <2>5, <3>1 DEF FeedMonitorSteps, ReadPage, feed
      <4> QED
        BY <3>1, <4>1 DEF CopyLives
    <3>2. CASE Subscribe \/ Unsubscribed \/ QueryAnswers \/ Apply
      <4>1. serving /\ serving' /\ (cache' = cache \/ Apply)
        BY <2>5, <3>2 DEF FeedMonitorSteps, Subscribe, Unsubscribed, QueryAnswers, Apply,
                          DoorInv, feed
      <4> QED
        BY <4>1 DEF CopyLives
    <3> QED
      BY <2>5, <3>1, <3>2 DEF FeedMonitorSteps
  <2>6. CASE FeedPanic
    <3>1. CASE PanicAborts
      BY <2>6, <3>1 DEF FeedPanic, Panic
    <3>2. CASE ~PanicAborts
      <4>1. serving /\ serving' /\ cache' = cache
        BY <2>6, <3>2 DEF FeedPanic, Panic, DoorInv, feed
      <4> QED
        BY <4>1 DEF CopyLives
    <3> QED
      BY <3>1, <3>2
  <2> QED
    BY <1>5, <2>1, <2>2, <2>3, <2>4, <2>5, <2>6 DEF FeedMonitor
<1>6. ASSUME NEW b \in Browsers,
             \/ \E w \in Visitors : AskForList(b, w)
             \/ \E c \in Coins : AskForRow(b, c) \/ Visit(b, c)
             \/ Serve(b) \/ Connect(b) \/ Stream(b)
      PROVE  Ways
  <2>1. (UNCHANGED vars /\ serving' = serving) \/ (Aborts /\ ServerGone)
    BY <1>6 DEF AskForList, AskForRow, Visit, Serve, GrantPage, PageFails, PagePanics, AnswerList,
                AnswerRow, AnswerVisit, Connect, Stream, Take, Deliver, DeliveryPanics, Lag
  <2> QED
    BY <1>1, <2>1 DEF vars, Aborts
<1>7. CASE UNCHANGED allVars
  BY <1>1, <1>7 DEF allVars, vars, feed
<1> QED
  BY <1>2, <1>3, <1>4, <1>5, <1>6, <1>7 DEF FeedNext

\* The steps of a browser and what it is sent: they leave it, or end its process
\* or its stream.
BrowserStep(b) ==
    \/ \E w \in Visitors : AskForList(b, w)
    \/ \E c \in Coins : AskForRow(b, c) \/ Visit(b, c)
    \/ Serve(b) \/ Connect(b) \/ Stream(b)

\* Nobody gets in before the first snapshot, and no channel outlives its stream.
LEMMA DoorKept ==
    ASSUME DoorInv, BrowserTypes, [FeedNext]_allVars
    PROVE  DoorInv'
<1> DEFINE Quiet(b) == ~subscribed[b] => inbox[b] = << >> /\ inhand[b] = Absent /\ ~lagged[b]
<1>1. ASSUME NEW b \in Browsers
      PROVE  Quiet(b)'
  <2>0. Quiet(b)
    BY DEF DoorInv
  <2>1. CASE UNCHANGED channel
    BY <2>0, <2>1 DEF channel
  <2>2. CASE ServerGone
    BY <2>2 DEF ServerGone, NoBrowsers
  <2>3. CASE FeedBroadcast
    BY <2>0, <2>3 DEF FeedBroadcast
  <2>4. ASSUME NEW x \in Browsers, CloseStream(x) PROVE Quiet(b)'
    BY <2>0, <2>4 DEF CloseStream, BrowserTypes
  <2>5. ASSUME NEW x \in Browsers, Connect(x) \/ Take(x) \/ Deliver(x) PROVE Quiet(b)'
    BY <2>0, <2>5 DEF Connect, Take, Deliver, BrowserTypes
  <2>6. ASSUME NEW x \in Browsers, BrowserStep(x)
        PROVE  UNCHANGED channel \/ ServerGone \/ CloseStream(x) \/ Connect(x) \/ Take(x)
               \/ Deliver(x)
    BY <2>6 DEF BrowserStep, AskForList, AskForRow, Visit, Serve, GrantPage, PageFails,
                PagePanics, AnswerList, AnswerRow, AnswerVisit, Stream, DeliveryPanics, Lag
  <2>7. UNCHANGED channel \/ ServerGone \/ FeedBroadcast \/ \E x \in Browsers : BrowserStep(x)
    BY DEF FeedNext, FeedPublish, FeedMonitor, FeedFaults, AskToWrite, FeedReceive, FeedInstall,
           FeedMonitorSteps, FeedPanic, BrowserStep, allVars, feed
  <2> HIDE DEF Quiet
  <2> QED
    BY <2>1, <2>2, <2>3, <2>4, <2>5, <2>6, <2>7
<1>2. ASSUME ~serving'
      PROVE  /\ at' = "snapshot" /\ queue' = << >> /\ readers' = {}
             /\ \A b \in Browsers : ~subscribed'[b]
  <2>1. CASE ServerGone /\ Restart
    BY <2>1 DEF ServerGone, NoBrowsers, Restart, StartSnapshot
  <2>2. CASE ~ServerGone
    <3>1. ~serving /\ at' = at
      BY <1>2, <2>2, FourWays
    <3>2. /\ at = "snapshot" /\ queue = << >> /\ readers = {}
          /\ \A b \in Browsers : ~subscribed[b] /\ inhand[b] = Absent /\ ~lagged[b]
      BY <3>1 DEF DoorInv
    <3>3. ~FeedMonitor \/ UNCHANGED feed
      BY <1>2, <2>2, <3>1, <3>2 DEF FeedMonitor, AskToWrite, FeedReceive, FeedInstall, Granted,
         FeedBroadcast, Broadcast, FeedMonitorSteps, FeedPanic
    <3>4. ~\E b \in Browsers : BrowserStep(b)
      BY <2>2, <3>1, <3>2 DEF BrowserStep, AskForList, AskForRow, Visit, Serve, GrantPage,
                              Granted, PageFails, PagePanics, AnswerList, AnswerRow, AnswerVisit,
                              Connect, Stream, Take, Deliver, DeliveryPanics, Lag
    <3>5. UNCHANGED feed
      BY <2>2, <3>3, <3>4 DEF FeedNext, FeedPublish, FeedFaults, BrowserStep, allVars
    <3> QED
      BY <3>1, <3>2, <3>5 DEF feed, locking, channel
  <2>3. CASE ServerGone /\ ~Restart
    <3>1. ~serving /\ at' = at
      BY <1>2, <2>3, FourWays
    <3> QED
      BY <2>3, <3>1 DEF DoorInv, ServerGone, NoBrowsers
  <2> QED
    BY <2>1, <2>2, <2>3
<1> QED
  BY <1>1, <1>2 DEF DoorInv

\* What goes on from what goes on, goes on.
LEMMA OnlyForward ==
    /\ \A x, y, z \in MetaType : MetaGoesOn(x, y) /\ MetaGoesOn(y, z) => MetaGoesOn(x, z)
    /\ \A x, y, z \in DegenType : DegenGoesOn(x, y) /\ DegenGoesOn(y, z) => DegenGoesOn(x, z)
    /\ \A x \in MetaType : MetaGoesOn(x, x)
    /\ \A x \in DegenType : DegenGoesOn(x, x)
<1>1. /\ \A x \in MetaType : x.end \in Nat /\ x.raise \in Nat /\ x.url \in Nat
      /\ \A x \in DegenType : x.submission \in Nat
  BY DEF MetaType, DegenType
<1> QED
  BY <1>1 DEF MetaGoesOn, DegenGoesOn

\* Which prefixes a snapshot that is installed, or starts, has read.
LEMMA WhatIsRead ==
    ASSUME BaseInv
    PROVE  /\ InstallSnapshot =>
                 /\ {"PRESALE_END", "PRESALE_RAISE", "SHITCOIN_URL", "SHITCOIN_LAUNCHED",
                     "PRESALE_SUBMISSION", "PRESALE_CLAIMED"} \subseteq Before(page)
                 /\ cache' = draft
           /\ Restart => Before(page)' = {}
<1>1. ASSUME InstallSnapshot
      PROVE  {"PRESALE_END", "PRESALE_RAISE", "SHITCOIN_URL", "SHITCOIN_LAUNCHED",
              "PRESALE_SUBMISSION", "PRESALE_CLAIMED"} \subseteq Before(page)
  <2>1. Len(KeyPrefixes) = 9
    BY DEF KeyPrefixes
  <2>2. page > 9 /\ page \in 1 .. 10
    BY <1>1, <2>1 DEF InstallSnapshot, BaseInv, MonitorInv, WebTypeOK
  <2> QED
    BY <2>2, BeforePage
<1>2. ASSUME Restart PROVE Before(page)' = {}
  BY <1>2 DEF Restart, StartSnapshot, Before
<1> QED
  BY <1>1, <1>2 DEF InstallSnapshot

\* What a browser was told of a coin the server goes on to know.
LEMMA MetaStaysHeld ==
    ASSUME CopyInv, DoorInv, [FeedNext]_allVars, NEW c \in Coins, NEW meta \in MetaType,
           MetaHeld(c, meta)
    PROVE  MetaHeld(c, meta)'
<1>1. [WebNext \/ Aborts]_vars
  BY StepsOfTheCopy
<1>2. BaseInv /\ AheadInv /\ NotBehind /\ BaseInv' /\ Grows
  BY <1>1, CopyKept DEF CopyInv
<1>3. MetaNotAhead(c, meta) /\ MetaNotAhead(c, meta)'
  BY <1>2, MetaStaysBehind DEF MetaHeld, BaseInv
<1>4. CASE ServerGone /\ Restart
  <2>1. DraftHas(c, meta)'
    BY <1>2, <1>4, WhatIsRead DEF DraftHas
  <2> QED
    BY <1>3, <1>4, <2>1 DEF MetaHeld, ServerGone
<1>5. CASE serving /\ serving' /\ CopyLives
  <2> DEFINE old == cache.shitcoins[c]
             new == cache'.shitcoins[c]
  <2>1. old # Absent /\ MetaGoesOn(meta, old)
    BY <1>5 DEF MetaHeld
  <2>2. new # Absent /\ MetaGoesOn(old, new)
    BY <1>2, <1>5, <2>1, StepNotBackwards DEF MetaGoesOn
  <2>3. old \in MetaType /\ new \in MetaType
    BY <1>2, <2>1, <2>2 DEF BaseInv, MonitorInv, WebTypeOK, StateType
  <2> HIDE DEF old, new
  <2>4. MetaGoesOn(meta, new)
    BY <2>1, <2>2, <2>3, OnlyForward
  <2> QED
    BY <1>3, <1>5, <2>2, <2>4 DEF MetaHeld, MetaGoesOn, new
<1>6. CASE ~serving /\ ~serving' /\ (ReadPage \/ UNCHANGED snapshot) /\ at' = at
  <2>1. DraftHas(c, meta)
    BY <1>6 DEF MetaHeld
  <2>2. DraftHas(c, meta)'
    <3>1. CASE ReadPage
      BY <1>2, <1>3, <2>1, <3>1, PageHas
    <3>2. CASE UNCHANGED snapshot
      BY <2>1, <3>2 DEF snapshot, DraftHas, Before
    <3> QED
      BY <1>6, <3>1, <3>2
  <2> QED
    BY <1>3, <1>6, <2>2 DEF MetaHeld
<1>7. CASE ~serving /\ serving' /\ InstallSnapshot
  <2>1. DraftHas(c, meta)
    BY <1>7 DEF MetaHeld
  <2>2. cache'.shitcoins[c] # Absent /\ MetaGoesOn(meta, cache'.shitcoins[c])
    BY <1>2, <1>7, <2>1, WhatIsRead DEF DraftHas, MetaGoesOn
  <2> QED
    BY <1>3, <1>7, <2>2 DEF MetaHeld, MetaGoesOn
<1> QED
  BY <1>4, <1>5, <1>6, <1>7, FourWays

\* And of a degen.
LEMMA DegenStaysHeld ==
    ASSUME CopyInv, DoorInv, [FeedNext]_allVars, NEW c \in Coins, NEW g \in Degens,
           NEW degen \in DegenType, DegenHeld(c, g, degen)
    PROVE  DegenHeld(c, g, degen)'
<1>1. [WebNext \/ Aborts]_vars
  BY StepsOfTheCopy
<1>2. BaseInv /\ AheadInv /\ NotBehind /\ BaseInv' /\ AheadInv' /\ Grows
  BY <1>1, CopyKept DEF CopyInv
<1>3. DegenNotAhead(c, g, degen) /\ DegenNotAhead(c, g, degen)'
  BY <1>2, DegenStaysBehind DEF DegenHeld, BaseInv
<1>4. CASE ServerGone /\ Restart
  <2>1. DraftHasDegen(c, g, degen)'
    BY <1>2, <1>4, WhatIsRead DEF DraftHasDegen
  <2> QED
    BY <1>3, <1>4, <2>1 DEF DegenHeld, ServerGone
<1>5. CASE serving /\ serving' /\ CopyLives
  <2> DEFINE old == CachedDegen(c, g)
             new == Or(cache'.degens[c][g], DefaultDegen)
  <2>1. DegenGoesOn(degen, old)
    BY <1>5 DEF DegenHeld
  <2>2. DegenGoesOn(old, new)
    BY <1>2, <1>5, DegenNotBackwards DEF DegenGoesOn
  <2>3. old \in DegenType /\ new \in DegenType
    <3>1. cache'.degens[c][g] \in {Absent} \cup DegenType
      BY <1>2 DEF BaseInv, MonitorInv, WebTypeOK, StateType
    <3> QED
      BY <1>2, <3>1, CachedDegenBounds DEF Or, DefaultDegen, DegenType
  <2> HIDE DEF old, new
  <2>4. DegenGoesOn(degen, new)
    BY <2>1, <2>2, <2>3, OnlyForward
  <2>5. new = CachedDegen(c, g)'
    BY DEF new, CachedDegen
  <2> QED
    BY <1>3, <1>5, <2>4, <2>5 DEF DegenHeld, DegenGoesOn
<1>6. CASE ~serving /\ ~serving' /\ (ReadPage \/ UNCHANGED snapshot) /\ at' = at
  <2>1. DraftHasDegen(c, g, degen)
    BY <1>6 DEF DegenHeld
  <2>2. DraftHasDegen(c, g, degen)'
    <3>1. CASE ReadPage
      BY <1>2, <1>3, <2>1, <3>1, PageHasDegen
    <3>2. CASE UNCHANGED snapshot
      BY <2>1, <3>2 DEF snapshot, DraftHasDegen, Before
    <3> QED
      BY <1>6, <3>1, <3>2
  <2> QED
    BY <1>3, <1>6, <2>2 DEF DegenHeld
<1>7. CASE ~serving /\ serving' /\ InstallSnapshot
  <2>1. DraftHasDegen(c, g, degen)
    BY <1>7 DEF DegenHeld
  <2>2. DegenGoesOn(degen, Or(cache'.degens[c][g], DefaultDegen))
    BY <1>2, <1>7, <2>1, WhatIsRead DEF DraftHasDegen, DegenGoesOn
  <2>3. CachedDegen(c, g)' = Or(cache'.degens[c][g], DefaultDegen)
    BY DEF CachedDegen
  <2> QED
    BY <1>3, <1>7, <2>2, <2>3 DEF DegenHeld, DegenGoesOn
<1> QED
  BY <1>4, <1>5, <1>6, <1>7, FourWays

\* A row stays held, and a message.
LEMMA RowStaysHeld ==
    ASSUME CopyInv, DoorInv, [FeedNext]_allVars, NEW w, NEW row \in FullRowType, RowHeld(w, row)
    PROVE  RowHeld(w, row)'
<1>1. row.coin \in Coins /\ row.meta \in MetaType /\ row.degen \in {Absent} \cup DegenType
  BY DEF FullRowType
<1>2. MetaHeld(row.coin, row.meta)'
  BY <1>1, MetaStaysHeld DEF RowHeld
<1>3. row.degen # Absent => w \in Degens /\ DegenHeld(row.coin, w, row.degen)'
  BY <1>1, DegenStaysHeld DEF RowHeld
<1> QED
  BY <1>2, <1>3 DEF RowHeld

\* So does a table that nothing happens to.
LEMMA RowsStay ==
    ASSUME CopyInv, DoorInv, [FeedNext]_allVars, NEW b \in Browsers, RowsHeld(b),
           table'[b] = table[b], who'[b] = who[b]
    PROVE  RowsHeld(b)'
<1>1. PICK w : w = who[b]
  OBVIOUS
<1>2. Elements(table[b])' = Elements(table[b])
  BY DEF Elements
<1>3. ASSUME table[b] # Absent, NEW row \in Elements(table[b])
      PROVE  RowHeld(w, row)'
  <2>1. row \in FullRowType /\ RowHeld(w, row)
    BY <1>1, <1>3 DEF RowsHeld, Elements
  <2> QED
    BY <2>1, RowStaysHeld
<1>4. ASSUME NEW row, RowHeld(w, row)' PROVE RowHeld(who[b], row)'
  BY <1>1, <1>4 DEF RowHeld
<1> QED
  BY <1>2, <1>3, <1>4 DEF RowsHeld

\* And messages nobody adds to.
LEMMA MessagesStay ==
    ASSUME CopyInv, DoorInv, BrowserTypes, [FeedNext]_allVars, NEW b \in Browsers,
           MessagesHeld(b), NEW m \in Pending(b)
    PROVE  m.meta \in MetaType /\ MetaHeld(m.coin, m.meta)'
<1>1. m.coin \in Coins /\ m.meta \in MetaType /\ MetaHeld(m.coin, m.meta)
  BY PendingTypes DEF MessagesHeld
<1> QED
  BY <1>1, MetaStaysHeld

\* A browser whose table is left alone and that gets no message.
LEMMA QuietShown ==
    ASSUME CopyInv, DoorInv, BrowserTypes, [FeedNext]_allVars, NEW b \in Browsers, ShownInv(b),
           table'[b] = table[b], who'[b] = who[b], overtaken'[b] = overtaken[b],
           Pending(b)' \subseteq Pending(b), MessagesInOrder(b)', TableThere(b)'
    PROVE  ShownInv(b)'
<1>1. RowsHeld(b)'
  BY RowsStay DEF ShownInv
<1>2. MessagesHeld(b)'
  BY MessagesStay DEF ShownInv, MessagesHeld
<1>3. RowsInOrder(b)'
  <2>1. Elements(table[b])' = Elements(table[b])
    BY DEF Elements
  <2>2. RowsInOrder(b)
    BY DEF ShownInv
  <2> QED
    BY <2>1, <2>2 DEF RowsInOrder
<1> QED
  BY <1>1, <1>2, <1>3 DEF ShownInv

\* A table stays where it is while no stream or row begins without one.
StillThere(b) ==
    /\ subscribed'[b] => subscribed[b] \/ table[b] # Absent
    /\ \A c \in Coins : request'[b] = RowPage(c) => request[b] = RowPage(c) \/ table[b] # Absent

\* A browser that nothing happens to, or whose stream ends.
LEMMA LeftAloneShown ==
    ASSUME CopyInv, DoorInv, BrowserTypes, [FeedNext]_allVars, NEW b \in Browsers, ShownInv(b),
           table'[b] = table[b], who'[b] = who[b], overtaken'[b] = overtaken[b], StillThere(b),
           \/ inbox'[b] = inbox[b] /\ inhand'[b] = inhand[b]
           \/ inbox'[b] = << >> /\ inhand'[b] = Absent
    PROVE  ShownInv(b)'
<1>1. TableThere(b)'
  BY DEF ShownInv, TableThere, StillThere
<1>2. CASE inbox'[b] = inbox[b] /\ inhand'[b] = inhand[b]
  <2>1. Pending(b)' = Pending(b)
    BY <1>2 DEF Pending, Elements
  <2>2. MessagesInOrder(b)'
    BY <1>2 DEF ShownInv, MessagesInOrder, Elements
  <2> QED
    BY <1>1, <2>1, <2>2, QuietShown
<1>3. CASE inbox'[b] = << >> /\ inhand'[b] = Absent
  <2>1. Elements(inbox[b])' = {} /\ DOMAIN inbox'[b] = {}
    BY <1>3, ElementsOfNone DEF Elements
  <2>2. Pending(b)' = {}
    BY <1>3, <2>1 DEF Pending
  <2>3. MessagesInOrder(b)'
    BY <1>3, <2>1 DEF MessagesInOrder
  <2> QED
    BY <1>1, <2>2, <2>3, QuietShown
<1> QED
  BY <1>2, <1>3

\* What the copy has of a coin is held.
LEMMA CachedHeld ==
    ASSUME CopyInv, serving, NEW c \in Coins, cache.shitcoins[c] # Absent
    PROVE  cache.shitcoins[c] \in MetaType /\ MetaHeld(c, cache.shitcoins[c])
<1>1. cache.shitcoins[c] \in MetaType
  BY DEF CopyInv, BaseInv, MonitorInv, WebTypeOK, StateType
<1>2. MetaNotAhead(c, cache.shitcoins[c])
  BY DEF CopyInv, AheadInv, NotAhead
<1>3. MetaGoesOn(cache.shitcoins[c], cache.shitcoins[c])
  BY <1>1, OnlyForward
<1> QED
  BY <1>1, <1>2, <1>3 DEF MetaHeld

\* So is a row put together from a coin that is and the copy's degen.
LEMMA MadeRowHeld ==
    ASSUME CopyInv, serving, NEW c \in Coins, NEW meta \in MetaType, MetaHeld(c, meta),
           NEW w \in Degens \cup {Absent}, NEW row, row = Row(c, meta, w)
    PROVE  row \in FullRowType /\ RowHeld(w, row) /\ row.coin = c /\ row.meta = meta
<1>1. row.coin = c /\ row.meta = meta
      /\ row.degen = IF w = Absent THEN Absent ELSE CachedDegen(c, w)
  BY DEF Row, CachedDegen
<1>2. ASSUME w # Absent
      PROVE  /\ w \in Degens /\ CachedDegen(c, w) \in DegenType
             /\ DegenHeld(c, w, CachedDegen(c, w))
  <2>1. /\ w \in Degens /\ CachedDegen(c, w) \in DegenType
        /\ DegenNotAhead(c, w, CachedDegen(c, w))
    BY <1>2, CachedDegenBounds DEF CopyInv
  <2>2. DegenGoesOn(CachedDegen(c, w), CachedDegen(c, w))
    BY <2>1, OnlyForward
  <2> QED
    BY <2>1, <2>2 DEF DegenHeld
<1>3. row \in FullRowType
  BY <1>2 DEF Row, CachedDegen, FullRowType
<1>4. RowHeld(w, row)
  BY <1>1, <1>2 DEF RowHeld
<1> QED
  BY <1>1, <1>3, <1>4

\* A sequence of rows that are all full.
LEMMA FullRows ==
    ASSUME NEW rows \in Seq(RowType), \A row \in Elements(rows) : row \in FullRowType
    PROVE  rows \in Seq(FullRowType)
<1>1. /\ Len(rows) \in Nat /\ DOMAIN rows = 1 .. Len(rows)
      /\ rows \in [1 .. Len(rows) -> RowType]
  OBVIOUS
<1>2. rows \in [1 .. Len(rows) -> FullRowType]
  BY <1>1 DEF Elements
<1> QED
  BY <1>1, <1>2

\* A new table of held rows is held, and there.
LEMMA TableHeld ==
    ASSUME CopyInv, DoorInv, [FeedNext]_allVars, NEW b \in Browsers, NEW rows, NEW w,
           table'[b] = rows, who'[b] = w, rows \in Seq(RowType),
           \A row \in Elements(rows) : row \in FullRowType /\ RowHeld(w, row)
    PROVE  RowsHeld(b)' /\ table'[b] # Absent
<1>1. rows \in Seq(FullRowType) /\ rows # Absent
  BY FullRows, FeedAssumption
<1>2. \A row \in Elements(rows) : RowHeld(w, row)'
  BY RowStaysHeld
<1>3. ASSUME NEW row, RowHeld(w, row)' PROVE RowHeld(who[b], row)'
  BY <1>3 DEF RowHeld
<1>4. Elements(table[b])' = Elements(rows)
  BY DEF Elements
<1> QED
  BY <1>1, <1>2, <1>3, <1>4 DEF RowsHeld

\* Messages that are in order.
OneAfterAnother(s) == \A i, j \in DOMAIN s : i < j => GoesOnTo(s[i], s[j])

\* They stay so without the first, which the others go on from, and with one
\* more that goes on from all of them.
LEMMA OrderOfTheRest ==
    ASSUME NEW s \in Seq(MessageType), s # << >>, OneAfterAnother(s)
    PROVE  /\ OneAfterAnother(Tail(s))
           /\ \A m \in Elements(Tail(s)) : GoesOnTo(s[1], m)
<1> DEFINE t == Tail(s)
           n == Len(s)
<1>1. /\ n \in Nat /\ n >= 1 /\ DOMAIN s = 1 .. n /\ DOMAIN t = 1 .. n - 1
      /\ \A i \in 1 .. n - 1 : t[i] = s[i + 1]
  OBVIOUS
<1> HIDE DEF t, n
<1>2. ASSUME NEW i \in DOMAIN t, NEW j \in DOMAIN t, i < j
      PROVE  GoesOnTo(t[i], t[j])
  <2>1. /\ i + 1 \in DOMAIN s /\ j + 1 \in DOMAIN s /\ i + 1 < j + 1
        /\ t[i] = s[i + 1] /\ t[j] = s[j + 1]
    BY <1>1, <1>2
  <2> QED
    BY <2>1 DEF OneAfterAnother
<1>3. ASSUME NEW i \in DOMAIN t
      PROVE  GoesOnTo(s[1], t[i])
  <2>1. 1 \in DOMAIN s /\ i + 1 \in DOMAIN s /\ 1 < i + 1 /\ t[i] = s[i + 1]
    BY <1>1, <1>3
  <2> QED
    BY <2>1 DEF OneAfterAnother
<1> QED
  BY <1>2, <1>3 DEF OneAfterAnother, Elements, t

\* The other half of it.
LEMMA OrderWithOneMore ==
    ASSUME NEW s \in Seq(MessageType), NEW m \in MessageType, OneAfterAnother(s),
           \A x \in Elements(s) : GoesOnTo(x, m)
    PROVE  OneAfterAnother(Append(s, m))
<1> DEFINE t == Append(s, m)
           n == Len(s)
<1>1. /\ n \in Nat /\ DOMAIN s = 1 .. n /\ DOMAIN t = 1 .. n + 1
      /\ t[n + 1] = m /\ \A i \in 1 .. n : t[i] = s[i]
  OBVIOUS
<1> HIDE DEF t, n
<1>2. ASSUME NEW i \in DOMAIN t, NEW j \in DOMAIN t, i < j
      PROVE  GoesOnTo(t[i], t[j])
  <2>1. i \in DOMAIN s /\ t[i] = s[i]
    BY <1>1, <1>2
  <2>2. CASE j = n + 1
    BY <1>1, <2>1, <2>2 DEF Elements
  <2>3. CASE j # n + 1
    <3>1. j \in DOMAIN s /\ t[j] = s[j]
      BY <1>1, <2>3
    <3> QED
      BY <1>2, <2>1, <3>1 DEF OneAfterAnother
  <2> QED
    BY <2>2, <2>3
<1> QED
  BY <1>2 DEF OneAfterAnother, t

\* The monitor broadcasts: the coin is in the message as it is in the copy, and
\* every row and message before it is not ahead of the copy.
LEMMA BroadcastShown ==
    ASSUME CopyInv, MetaInv, DoorInv, BrowserTypes, [FeedNext]_allVars, FeedBroadcast,
           NEW b \in Browsers, ShownInv(b)
    PROVE  ShownInv(b)'
<1>1. /\ at = "timestamp" /\ event \in EventType /\ Happened(event) /\ serving
      /\ cache.shitcoins[event.coin] # Absent
      /\ UNCHANGED <<who, table, inhand, overtaken, subscribed, request>>
  BY DEF FeedBroadcast, Broadcast, CopyInv, BaseInv, MonitorInv, WebTypeOK, MetaInv, DoorInv
<1>2. PICK m : m = Message
  OBVIOUS
<1>3. /\ m \in MessageType /\ m.coin \in Coins
      /\ m.meta = cache.shitcoins[m.coin] /\ m.meta # Absent
  BY <1>1, <1>2 DEF Message, MessageType, Meta, Happened, EventType, CopyInv, BaseInv,
                    MonitorInv, WebTypeOK, StateType
<1>4. m.meta \in MetaType /\ MetaHeld(m.coin, m.meta)
  BY <1>1, <1>3, CachedHeld
<1>5. MetaHeld(m.coin, m.meta)'
  BY <1>3, <1>4, MetaStaysHeld
<1>6. ASSUME NEW y, MetaHeld(y.coin, y.meta) PROVE GoesOnTo(y, m)
  BY <1>1, <1>3, <1>6 DEF MetaHeld, GoesOnTo
<1>7. \A x \in Pending(b) : GoesOnTo(x, m)
  BY <1>6 DEF ShownInv, MessagesHeld
<1>8. PICK s : s = inbox[b]
  OBVIOUS
<1>9. PICK t : t = inbox'[b]
  OBVIOUS
<1>10. /\ s \in Seq(MessageType) /\ OneAfterAnother(s) /\ Elements(s) \subseteq Pending(b)
       /\ inhand[b] # Absent => \A x \in Elements(s) : GoesOnTo(inhand[b], x)
  BY <1>8, PendingTypes DEF BrowserTypes, ShownInv, MessagesInOrder, OneAfterAnother
<1>11. OneAfterAnother(t) /\ Elements(t) \subseteq Elements(s) \cup {m}
  <2>1. CASE t = s
    BY <1>10, <2>1
  <2>2. CASE t = Append(s, m)
    <3>1. OneAfterAnother(t)
      BY <1>3, <1>7, <1>10, <2>2, OrderWithOneMore
    <3>2. Elements(t) = Elements(s) \cup {m}
      BY <1>3, <1>10, <2>2, ElementsOfAppend
    <3> QED
      BY <3>1, <3>2
  <2>3. CASE t = Append(Tail(s), m) /\ ~(Len(s) < Capacity)
    <3>1. s # << >>
      BY <2>3, FeedAssumption
    <3>2. PICK rest : rest = Tail(s)
      OBVIOUS
    <3>3. rest \in Seq(MessageType) /\ Elements(rest) \subseteq Elements(s) /\ OneAfterAnother(rest)
      BY <1>10, <3>1, <3>2, ElementsOfTail, OrderOfTheRest
    <3>4. OneAfterAnother(t)
      BY <1>3, <1>7, <1>10, <2>3, <3>2, <3>3, OrderWithOneMore
    <3>5. t = Append(rest, m)
      BY <2>3, <3>2
    <3>6. Elements(t) = Elements(rest) \cup {m}
      BY <1>3, <3>3, <3>5, ElementsOfAppend
    <3> QED
      BY <3>3, <3>4, <3>6
  <2>4. \/ t = s \/ t = Append(s, m)
        \/ t = Append(Tail(s), m) /\ ~(Len(s) < Capacity)
    BY <1>2, <1>8, <1>9 DEF FeedBroadcast
  <2> QED
    BY <2>1, <2>2, <2>3, <2>4
<1>12. Elements(inbox[b])' = Elements(t)
  BY <1>9 DEF Elements
<1>13. Pending(b)' \subseteq Pending(b) \cup {m}
  BY <1>1, <1>8, <1>10, <1>11, <1>12 DEF Pending
<1>14. MessagesHeld(b)'
  <2>1. \A x \in Pending(b) : x.meta \in MetaType /\ MetaHeld(x.coin, x.meta)'
    BY MessagesStay DEF ShownInv
  <2> QED
    BY <1>4, <1>5, <1>13, <2>1 DEF MessagesHeld
<1>15. MessagesInOrder(b)'
  <2>1. inhand[b] # Absent => \A x \in Elements(t) : GoesOnTo(inhand[b], x)
    BY <1>7, <1>10, <1>11, PendingTypes
  <2>2. \A i, j \in DOMAIN t : i < j => GoesOnTo(t[i], t[j])
    BY <1>11 DEF OneAfterAnother
  <2> QED
    BY <1>1, <1>9, <1>12, <2>1, <2>2 DEF MessagesInOrder
<1>16. RowsInOrder(b)'
  <2>1. ASSUME table[b] # Absent, ~overtaken[b], NEW row \in Elements(table[b]),
               NEW x \in Pending(b) \cup {m}
        PROVE  GoesOnTo(row, x)
    <3>1. MetaHeld(row.coin, row.meta)
      BY <2>1 DEF ShownInv, RowsHeld, RowHeld
    <3> QED
      BY <1>6, <2>1, <3>1 DEF ShownInv, RowsInOrder
  <2>2. Elements(table[b])' = Elements(table[b])
    BY <1>1 DEF Elements
  <2> QED
    BY <1>1, <1>13, <2>1, <2>2 DEF RowsInOrder
<1>17. RowsHeld(b)' /\ TableThere(b)'
  BY <1>1, RowsStay DEF ShownInv, TableThere
<1> QED
  BY <1>14, <1>15, <1>16, <1>17 DEF ShownInv

\* Full rows are rows.
LEMMA RowsOfRows ==
    ASSUME NEW rows \in Seq(FullRowType)
    PROVE  rows \in Seq(RowType)
<1>1. FullRowType \subseteq RowType
  BY DEF FullRowType, RowType
<1>2. /\ Len(rows) \in Nat /\ DOMAIN rows = 1 .. Len(rows)
      /\ rows \in [1 .. Len(rows) -> FullRowType]
  OBVIOUS
<1>3. rows \in [1 .. Len(rows) -> RowType]
  BY <1>1, <1>2
<1> QED
  BY <1>2, <1>3

\* A list is made of what the copy has.
LEMMA AnswerListShown ==
    ASSUME CopyInv, MetaInv, DoorInv, BrowserTypes, [FeedNext]_allVars, NEW b \in Browsers,
           NEW w \in Visitors, AnswerList(b, w)
    PROVE  ShownInv(b)'
<1>1. /\ serving /\ w \in Degens \cup {Absent} /\ PageRenders(ListPage(w))
      /\ table'[b] = List(w) /\ who'[b] = w
      /\ inbox'[b] = << >> /\ inhand'[b] = Absent
  BY FeedAssumption DEF AnswerList, CloseStream, DoorInv, BrowserTypes
<1>2. PICK rows : rows = List(w)
  OBVIOUS
<1>3. rows \in Seq(RowType) /\ Elements(rows) = {CachedRow(c, w) : c \in Elements(cache.indexes)}
  BY <1>1, <1>2, ListRows
<1>4. ASSUME NEW row \in Elements(rows)
      PROVE  row \in FullRowType /\ RowHeld(w, row)
  <2>1. PICK c \in Elements(cache.indexes) : row = CachedRow(c, w)
    BY <1>3
  <2>2. c \in Coins /\ cache.shitcoins[c] # Absent
    BY <1>1 DEF Elements, PageRenders, ListPage, Renders, CopyInv, BaseInv, MonitorInv,
                WebTypeOK, StateType
  <2>3. cache.shitcoins[c] \in MetaType /\ MetaHeld(c, cache.shitcoins[c])
    BY <1>1, <2>2, CachedHeld
  <2> QED
    BY <1>1, <2>1, <2>2, <2>3, MadeRowHeld DEF CachedRow
<1>5. RowsHeld(b)' /\ table'[b] # Absent
  BY <1>1, <1>2, <1>3, <1>4, TableHeld
<1>6. Elements(inbox[b])' = {} /\ DOMAIN inbox'[b] = {} /\ Pending(b)' = {}
  BY <1>1, ElementsOfNone DEF Elements, Pending
<1> QED
  BY <1>1, <1>5, <1>6 DEF ShownInv, MessagesHeld, MessagesInOrder, RowsInOrder, TableThere

\* So is a row that was loaded again; past waiting events it is not in order.
LEMMA AnswerRowShown ==
    ASSUME CopyInv, DoorInv, BrowserTypes, [FeedNext]_allVars, NEW b \in Browsers,
           NEW c \in Coins, AnswerRow(b, c), ShownInv(b)
    PROVE  ShownInv(b)'
<1>1. /\ serving /\ UNCHANGED <<who, inbox, inhand, subscribed>> /\ cache.shitcoins[c] # Absent
      /\ table[b] # Absent
  BY DEF AnswerRow, DoorInv, PageRenders, RowPage, Renders, channel, ShownInv, TableThere
<1>2. PICK w : w = who[b]
  OBVIOUS
<1>3. PICK row : row = CachedRow(c, w)
  OBVIOUS
<1>4. row \in FullRowType /\ RowHeld(w, row) /\ w \in Degens \cup {Absent}
  <2>1. w \in Degens \cup {Absent}
    BY <1>2 DEF BrowserTypes
  <2>2. cache.shitcoins[c] \in MetaType /\ MetaHeld(c, cache.shitcoins[c])
    BY <1>1, CachedHeld
  <2> QED
    BY <1>1, <1>3, <2>1, <2>2, MadeRowHeld DEF CachedRow
<1>5. CASE table' = table /\ overtaken' = overtaken
  BY <1>1, <1>5, LeftAloneShown DEF StillThere
<1>6. CASE \E i \in DOMAIN table[b] :
              /\ table' = [table EXCEPT ![b][i] = CachedRow(c, who[b])]
              /\ overtaken' = [overtaken EXCEPT ![b] =
                                 @ \/ inbox[b] # << >> \/ inhand[b] # Absent]
  <2>1. PICK i \in DOMAIN table[b] : table' = [table EXCEPT ![b][i] = row]
    BY <1>2, <1>3, <1>6
  <2>2. PICK old : old = table[b]
    OBVIOUS
  <2>3. PICK new : new = [old EXCEPT ![i] = row]
    OBVIOUS
  <2>4. /\ old \in Seq(FullRowType) /\ i \in DOMAIN old
        /\ \A r \in Elements(old) : RowHeld(w, r)
        /\ table'[b] = new
    BY <1>1, <1>2, <2>1, <2>2, <2>3 DEF ShownInv, RowsHeld, BrowserTypes
  <2>5. new \in Seq(FullRowType)
    BY <1>4, <2>3, <2>4
  <2>6. \A r \in Elements(new) : r = row \/ r \in Elements(old)
    BY <2>3, <2>4 DEF Elements
  <2>7. \A r \in Elements(new) : r \in FullRowType /\ RowHeld(w, r)
    BY <1>4, <2>4, <2>5, <2>6 DEF Elements
  <2>8. RowsHeld(b)' /\ table'[b] # Absent
    BY <1>1, <1>2, <2>4, <2>5, <2>7, RowsOfRows, TableHeld
  <2>9. Pending(b)' = Pending(b)
    BY <1>1 DEF Pending, Elements
  <2>10. MessagesHeld(b)' /\ MessagesInOrder(b)'
    <3>1. MessagesHeld(b)'
      BY <2>9, MessagesStay DEF ShownInv, MessagesHeld
    <3> QED
      BY <1>1, <3>1 DEF ShownInv, MessagesInOrder, Elements
  <2>11. RowsInOrder(b)'
    <3>1. ~overtaken'[b] => Pending(b) = {}
      BY <1>6, ElementsOfNone DEF BrowserTypes, Pending
    <3> QED
      BY <2>9, <3>1 DEF RowsInOrder
  <2> QED
    BY <2>8, <2>10, <2>11 DEF ShownInv, TableThere
<1> QED
  BY <1>5, <1>6 DEF AnswerRow

\* The first message of the channel is taken.
LEMMA TakeShown ==
    ASSUME CopyInv, DoorInv, BrowserTypes, [FeedNext]_allVars, NEW b \in Browsers, Take(b),
           ShownInv(b)
    PROVE  ShownInv(b)'
<1>1. /\ UNCHANGED <<who, table, overtaken, subscribed, request>>
      /\ inhand[b] = Absent /\ inbox[b] # << >> /\ inbox[b] \in Seq(MessageType)
      /\ inhand'[b] = Head(inbox[b]) /\ inbox'[b] = Tail(inbox[b])
  BY DEF Take, pages, BrowserTypes
<1>2. PICK s : s = inbox[b]
  OBVIOUS
<1>3. PICK t : t = Tail(s)
  OBVIOUS
<1>4. /\ s \in Seq(MessageType) /\ s # << >> /\ OneAfterAnother(s)
      /\ inbox[b] = s /\ inbox'[b] = t /\ inhand'[b] = s[1]
  BY <1>1, <1>2, <1>3 DEF ShownInv, MessagesInOrder, OneAfterAnother
<1>5. /\ Elements(s) = {s[1]} \cup Elements(t) /\ OneAfterAnother(t)
      /\ \A m \in Elements(t) : GoesOnTo(s[1], m)
  BY <1>3, <1>4, AfterTail, ElementsOfTail, OrderOfTheRest
<1>6. Elements(inbox[b])' = Elements(t)
  BY <1>4 DEF Elements
<1>7. Pending(b)' \subseteq Pending(b)
  BY <1>1, <1>4, <1>5, <1>6 DEF Pending
<1>8. MessagesInOrder(b)'
  <2>1. \A i, j \in DOMAIN t : i < j => GoesOnTo(t[i], t[j])
    BY <1>5 DEF OneAfterAnother
  <2> QED
    BY <1>4, <1>5, <1>6, <2>1 DEF MessagesInOrder
<1>9. TableThere(b)'
  BY <1>1 DEF ShownInv, TableThere
<1> QED
  BY <1>1, <1>7, <1>8, <1>9, QuietShown

\* An event is delivered: the row made of it is in order with what comes after.
LEMMA DeliverShown ==
    ASSUME CopyInv, DoorInv, BrowserTypes, [FeedNext]_allVars, NEW b \in Browsers, Deliver(b),
           ShownInv(b)
    PROVE  ShownInv(b)'
<1>1. /\ UNCHANGED <<who, inbox, overtaken, subscribed, request>>
      /\ inhand[b] # Absent /\ inhand'[b] = Absent
      /\ table'[b] = Swapped(table[b], inhand[b], who[b])
  BY DEF Deliver, BrowserTypes
<1>2. serving /\ subscribed[b] /\ table[b] # Absent
  BY <1>1 DEF DoorInv, ShownInv, TableThere
<1>3. PICK m : m = inhand[b]
  OBVIOUS
<1>4. PICK w : w = who[b]
  OBVIOUS
<1>5. PICK row : row = Row(m.coin, m.meta, w)
  OBVIOUS
<1>6. /\ m \in MessageType /\ m.coin \in Coins /\ w \in Degens \cup {Absent} /\ m \in Pending(b)
      /\ m.meta \in MetaType /\ MetaHeld(m.coin, m.meta)
      /\ \A x \in Elements(inbox[b]) : GoesOnTo(m, x)
  BY <1>1, <1>3, <1>4, PendingTypes DEF ShownInv, MessagesHeld, MessagesInOrder
<1>7. row \in FullRowType /\ RowHeld(w, row) /\ row.coin = m.coin /\ row.meta = m.meta
  BY <1>2, <1>5, <1>6, MadeRowHeld
<1>8. PICK old : old = table[b]
  OBVIOUS
<1>9. PICK new : new = Swapped(old, m, w)
  OBVIOUS
<1>10. /\ old \in Seq(FullRowType) /\ old \in Seq(RowType) /\ row \in RowType
       /\ \A r \in Elements(old) : r \in FullRowType /\ RowHeld(w, r)
       /\ table'[b] = new
  <2>1. old \in Seq(FullRowType) /\ \A r \in Elements(old) : RowHeld(w, r)
    BY <1>2, <1>4, <1>8 DEF ShownInv, RowsHeld
  <2>2. row \in RowType
    BY <1>7 DEF FullRowType, RowType
  <2> QED
    BY <1>1, <1>3, <1>4, <1>8, <1>9, <2>1, <2>2, RowsOfRows DEF Elements
<1>11. new \in Seq(RowType) /\ \A r \in Elements(new) : r = row \/ r \in Elements(old)
  BY <1>5, <1>6, <1>7, <1>9, <1>10, RowsSwapped
<1>12. RowsHeld(b)' /\ table'[b] # Absent
  BY <1>1, <1>4, <1>7, <1>10, <1>11, TableHeld
<1>13. Elements(inbox[b])' = Elements(inbox[b]) /\ Elements(table[b])' = Elements(new)
  BY <1>1, <1>10 DEF Elements
<1>14. Pending(b)' = Elements(inbox[b]) /\ Elements(inbox[b]) \subseteq Pending(b)
  BY <1>1, <1>13, PendingTypes DEF Pending
<1>15. MessagesHeld(b)'
  BY <1>14, MessagesStay DEF ShownInv, MessagesHeld
<1>16. MessagesInOrder(b)'
  BY <1>1 DEF ShownInv, MessagesInOrder
<1>17. RowsInOrder(b)'
  <2>1. ASSUME ~overtaken[b], NEW r \in Elements(new), NEW x \in Elements(inbox[b])
        PROVE  GoesOnTo(r, x)
    <3>1. CASE r = row
      BY <1>6, <1>7, <2>1, <3>1 DEF GoesOnTo
    <3>2. CASE r \in Elements(old)
      BY <1>2, <1>8, <1>14, <2>1, <3>2 DEF ShownInv, RowsInOrder
    <3> QED
      BY <1>11, <3>1, <3>2
  <2> QED
    BY <1>1, <1>13, <1>14, <2>1 DEF RowsInOrder
<1> QED
  BY <1>12, <1>15, <1>16, <1>17 DEF ShownInv, TableThere

\* With the process the streams end, and every page that was asked for.
LEMMA GoneShown ==
    ASSUME CopyInv, DoorInv, BrowserTypes, [FeedNext]_allVars, ServerGone,
           NEW b \in Browsers, ShownInv(b)
    PROVE  ShownInv(b)'
<1>1. /\ UNCHANGED <<who, table, overtaken>>
      /\ inbox'[b] = << >> /\ inhand'[b] = Absent /\ ~subscribed'[b] /\ request'[b] = Absent
  BY DEF ServerGone, NoBrowsers
<1>2. \A c \in Coins : RowPage(c) # Absent
  BY FeedAssumption DEF RowPage
<1>3. StillThere(b)
  BY <1>1, <1>2 DEF StillThere
<1> QED
  BY <1>1, <1>3, LeftAloneShown

\* A browser no step is about.
LEMMA UnmovedShown ==
    ASSUME CopyInv, DoorInv, BrowserTypes, [FeedNext]_allVars, NEW b \in Browsers, ShownInv(b),
           table'[b] = table[b], who'[b] = who[b], overtaken'[b] = overtaken[b],
           inbox'[b] = inbox[b], inhand'[b] = inhand[b],
           subscribed'[b] = subscribed[b], request'[b] = request[b]
    PROVE  ShownInv(b)'
<1>1. StillThere(b)
  BY DEF StillThere
<1> QED
  BY <1>1, LeftAloneShown

\* The steps of a browser.
LEMMA BrowserStepShown ==
    ASSUME CopyInv, MetaInv, DoorInv, BrowserTypes, [FeedNext]_allVars,
           NEW b \in Browsers, BrowserStep(b), NEW x \in Browsers, ShownInv(x)
    PROVE  ShownInv(x)'
<1>1. CASE ServerGone
  BY <1>1, GoneShown
<1>2. CASE x # b /\ ~ServerGone
  <2>1. /\ table'[x] = table[x] /\ who'[x] = who[x] /\ overtaken'[x] = overtaken[x]
        /\ inbox'[x] = inbox[x] /\ inhand'[x] = inhand[x]
        /\ subscribed'[x] = subscribed[x] /\ request'[x] = request[x]
    <3>1. CASE \/ \E w \in Visitors : AskForList(b, w)
               \/ \E c \in Coins : AskForRow(b, c) \/ Visit(b, c)
      BY <1>2, <3>1 DEF AskForList, AskForRow, Visit, channel, BrowserTypes
    <3>2. CASE GrantPage(b) \/ PageFails(b) \/ PagePanics(b)
      BY <1>2, <3>2 DEF GrantPage, PageFails, PagePanics, Unlock, channel, pages, BrowserTypes
    <3>3. CASE (\E w \in Visitors : AnswerList(b, w)) \/ (\E c \in Coins : AnswerRow(b, c))
      BY <1>2, <3>3 DEF AnswerList, AnswerRow, Unlock, CloseStream, channel, BrowserTypes
    <3>4. CASE Connect(b)
      BY <1>2, <3>4 DEF Connect, pages, BrowserTypes
    <3>5. CASE Take(b)
      BY <1>2, <3>5 DEF Take, pages, BrowserTypes
    <3>6. CASE Deliver(b)
      BY <1>2, <3>6 DEF Deliver, BrowserTypes
    <3>7. CASE DeliveryPanics(b) \/ Lag(b)
      BY <1>2, <3>7 DEF DeliveryPanics, Lag, CloseStream, BrowserTypes
    <3> QED
      BY <3>1, <3>2, <3>3, <3>4, <3>5, <3>6, <3>7, VisitEnds DEF BrowserStep, Serve, Stream
  <2> QED
    BY <2>1, UnmovedShown
<1>3. CASE x = b /\ ~ServerGone
  <2> USE <1>3
  <2>1. ASSUME NEW w \in Visitors, AskForList(b, w) PROVE ShownInv(x)'
    <3>1. \A c \in Coins : ListPage(w) # RowPage(c)
      BY PagesDiffer
    <3>2. StillThere(b)
      BY <2>1, <3>1 DEF AskForList, channel, StillThere, BrowserTypes
    <3> QED
      BY <2>1, <3>2, LeftAloneShown DEF AskForList, channel
  <2>2. ASSUME NEW c \in Coins, AskForRow(b, c) PROVE ShownInv(x)'
    <3>1. StillThere(b)
      BY <2>2 DEF AskForRow, channel, StillThere
    <3> QED
      BY <2>2, <3>1, LeftAloneShown DEF AskForRow, channel
  <2>7. ASSUME NEW c \in Coins, Visit(b, c) PROVE ShownInv(x)'
    <3>1. \A d \in Coins : VisitPage(c) # RowPage(d)
      BY PagesDiffer
    <3>2. StillThere(b)
      BY <2>7, <3>1 DEF Visit, channel, StillThere, BrowserTypes
    <3> QED
      BY <2>7, <3>2, LeftAloneShown DEF Visit, channel
  <2>3. CASE GrantPage(b)
    BY <2>3, UnmovedShown DEF GrantPage, channel, pages
  <2>4. CASE PageFails(b) \/ PagePanics(b)
    <3>1. /\ request'[b] = Absent /\ UNCHANGED <<channel, who, table, overtaken>>
      BY <2>4 DEF PageFails, PagePanics, Unlock, BrowserTypes
    <3>2. \A c \in Coins : RowPage(c) # Absent
      BY FeedAssumption DEF RowPage
    <3>3. StillThere(b)
      BY <3>1, <3>2 DEF channel, StillThere
    <3> QED
      BY <3>1, <3>3, LeftAloneShown DEF channel
  <2>5. CASE Connect(b)
    <3>1. StillThere(b)
      BY <2>5 DEF Connect, StillThere, pages
    <3> QED
      BY <2>5, <3>1, LeftAloneShown DEF Connect, pages
  <2>6. CASE DeliveryPanics(b) \/ Lag(b)
    <3>1. /\ UNCHANGED <<request, who, table, overtaken>>
          /\ inbox'[b] = << >> /\ inhand'[b] = Absent /\ ~subscribed'[b]
      BY <2>6 DEF DeliveryPanics, Lag, CloseStream, BrowserTypes
    <3>2. StillThere(b)
      BY <3>1 DEF StillThere
    <3> QED
      BY <3>1, <3>2, LeftAloneShown
  <2> QED
    BY <2>1, <2>2, <2>3, <2>4, <2>5, <2>6, <2>7, AnswerListShown, AnswerRowShown, TakeShown,
       DeliverShown, VisitEnds DEF BrowserStep, Serve, Stream
<1> QED
  BY <1>1, <1>2, <1>3

\* Every step.
LEMMA OnwardKept ==
    ASSUME CopyInv, TablesInv, OnwardInv, [FeedNext]_allVars
    PROVE  OnwardInv'
<1>1. BrowserTypes /\ MetaInv /\ DoorInv /\ \A x \in Browsers : ShownInv(x)
  BY DEF TablesInv, OnwardInv
<1>2. DoorInv'
  BY <1>1, DoorKept
<1>3. ASSUME NEW x \in Browsers PROVE ShownInv(x)'
  <2>1. CASE UNCHANGED <<channel, request, who, table, overtaken>>
    BY <1>1, <2>1, UnmovedShown DEF channel
  <2>2. CASE ServerGone
    BY <1>1, <2>2, GoneShown
  <2>3. CASE FeedBroadcast
    BY <1>1, <2>3, BroadcastShown
  <2>4. ASSUME NEW b \in Browsers, BrowserStep(b) PROVE ShownInv(x)'
    BY <1>1, <2>4, BrowserStepShown
  <2>5. \/ UNCHANGED <<channel, request, who, table, overtaken>>
        \/ ServerGone \/ FeedBroadcast \/ \E b \in Browsers : BrowserStep(b)
    BY DEF FeedNext, FeedPublish, FeedMonitor, FeedFaults, AskToWrite, FeedReceive, FeedInstall,
           FeedMonitorSteps, FeedPanic, BrowserStep, allVars, feed, pages
  <2> QED
    BY <2>1, <2>2, <2>3, <2>4, <2>5
<1> QED
  BY <1>2, <1>3 DEF OnwardInv

\* At the start nobody is served and nothing is shown.
LEMMA OnwardAtStart ==
    ASSUME FeedInit
    PROVE  OnwardInv
<1>1. ASSUME NEW b \in Browsers
      PROVE  /\ table[b] = Absent /\ request[b] = Absent /\ ~subscribed[b] /\ ~lagged[b]
             /\ inbox[b] = << >> /\ inhand[b] = Absent
  BY DEF FeedInit
<1>2. DoorInv
  BY <1>1 DEF FeedInit, WebInit, DoorInv
<1>3. ASSUME NEW b \in Browsers PROVE ShownInv(b)
  <2>1. Elements(inbox[b]) = {} /\ DOMAIN inbox[b] = {}
    BY <1>1, ElementsOfNone
  <2>2. Pending(b) = {}
    BY <1>1, <2>1 DEF Pending
  <2>3. \A c \in Coins : RowPage(c) # Absent
    BY FeedAssumption DEF RowPage
  <2> QED
    BY <1>1, <2>1, <2>2, <2>3 DEF ShownInv, RowsHeld, MessagesHeld, MessagesInOrder, RowsInOrder,
                                  TableThere
<1> QED
  BY <1>2, <1>3 DEF OnwardInv

\* An event that is no longer in hand, on a stream that goes on, was delivered.
LEMMA OnlyDelivered ==
    ASSUME BrowserTypes, [FeedNext]_allVars, NEW b \in Browsers,
           inhand[b] # Absent, inhand'[b] = Absent, subscribed'[b]
    PROVE  Deliver(b)
<1>1. ~UNCHANGED channel /\ ~ServerGone /\ ~FeedBroadcast
  BY DEF channel, ServerGone, NoBrowsers, FeedBroadcast
<1>2. ASSUME NEW x \in Browsers, CloseStream(x) PROVE FALSE
  BY <1>2 DEF CloseStream, BrowserTypes
<1>3. ASSUME NEW x \in Browsers, Connect(x) \/ Take(x) PROVE FALSE
  BY <1>3 DEF Connect, Take, BrowserTypes
<1>4. ASSUME NEW x \in Browsers, Deliver(x) PROVE x = b
  BY <1>4 DEF Deliver, BrowserTypes
<1>5. ASSUME NEW x \in Browsers, BrowserStep(x)
      PROVE  UNCHANGED channel \/ ServerGone \/ CloseStream(x) \/ Connect(x) \/ Take(x)
             \/ Deliver(x)
  BY <1>5 DEF BrowserStep, AskForList, AskForRow, Visit, Serve, GrantPage, PageFails, PagePanics,
              AnswerList, AnswerRow, AnswerVisit, Stream, DeliveryPanics, Lag
<1>6. UNCHANGED channel \/ ServerGone \/ FeedBroadcast \/ \E x \in Browsers : BrowserStep(x)
  BY DEF FeedNext, FeedPublish, FeedMonitor, FeedFaults, AskToWrite, FeedReceive, FeedInstall,
         FeedMonitorSteps, FeedPanic, BrowserStep, allVars, feed
<1> QED
  BY <1>1, <1>2, <1>3, <1>4, <1>5, <1>6

\* What the rows of a table are after an event: every row is its own or the new
\* one, and is found as far from the end as it was.
LEMMA WhereRowsGo ==
    ASSUME NEW rows \in Seq(RowType), NEW e, NEW w, NEW row, row = Row(e.coin, e.meta, w),
           NEW new, new = Swapped(rows, e, w), NEW i \in DOMAIN rows
    PROVE  \/ new[i + (Len(new) - Len(rows))] = rows[i]
           \/ new[i + (Len(new) - Len(rows))] = row /\ rows[i].coin = e.coin
<1>1. Len(rows) \in Nat /\ DOMAIN rows = 1 .. Len(rows) /\ i \in 1 .. Len(rows)
  OBVIOUS
<1>2. CASE Skips(e, w)
  <2>1. new = rows /\ i + (Len(rows) - Len(rows)) = i
    BY <1>1, <1>2 DEF Swapped
  <2> QED
    BY <2>1
<1>3. CASE ~Skips(e, w) /\ e.kind = "ShitcoinCreated"
  <2>1. new = <<row>> \o rows
    BY <1>3 DEF Swapped
  <2>2. PICK one : one = <<row>>
    OBVIOUS
  <2>3. Len(new) = Len(rows) + 1 /\ new[i + 1] = rows[i]
    BY <1>1, <2>1
  <2>4. i + (Len(new) - Len(rows)) = i + 1
    BY <1>1, <2>3
  <2> QED
    BY <2>3, <2>4
<1>4. CASE ~Skips(e, w) /\ e.kind # "ShitcoinCreated"
  <2>1. new = [j \in DOMAIN rows |-> IF rows[j].coin = e.coin THEN row ELSE rows[j]]
    BY <1>4 DEF Swapped
  <2>2. DOMAIN new = 1 .. Len(rows)
    BY <1>1, <2>1
  <2>3. Len(new) = Len(rows)
    BY <1>1, <2>2
  <2>4. i + (Len(new) - Len(rows)) = i
    BY <1>1, <2>3
  <2> QED
    BY <2>1, <2>4
<1> QED
  BY <1>2, <1>3, <1>4

\* A delivered event moves its rows on.
LEMMA EventMovesRowsOn ==
    ASSUME CopyInv, TablesInv, OnwardInv, NEW b \in Browsers, Deliver(b), ~overtaken[b],
           NEW i \in DOMAIN table[b]
    PROVE  RowGoesOn(table[b][i], table'[b][i + (Len(table'[b]) - Len(table[b]))])
<1>1. /\ BrowserTypes /\ DoorInv /\ ShownInv(b) /\ inhand[b] # Absent
      /\ table'[b] = Swapped(table[b], inhand[b], who[b])
  BY DEF TablesInv, OnwardInv, Deliver, BrowserTypes
<1>2. serving /\ subscribed[b] /\ table[b] # Absent
  BY <1>1 DEF DoorInv, ShownInv, TableThere
<1>3. PICK m : m = inhand[b]
  OBVIOUS
<1>4. PICK w : w = who[b]
  OBVIOUS
<1>5. PICK row : row = Row(m.coin, m.meta, w)
  OBVIOUS
<1>6. PICK old : old = table[b]
  OBVIOUS
<1>7. PICK new : new = Swapped(old, m, w)
  OBVIOUS
<1>8. PICK r : r = old[i]
  OBVIOUS
<1>9. /\ old \in Seq(FullRowType) /\ i \in DOMAIN old /\ r \in FullRowType /\ RowHeld(w, r)
      /\ table'[b] = new /\ m.coin \in Coins /\ m.meta \in MetaType /\ m \in Pending(b)
      /\ GoesOnTo(r, m)
  <2>1. m.coin \in Coins /\ m.meta \in MetaType /\ m \in Pending(b)
    BY <1>1, <1>3, PendingTypes DEF ShownInv, MessagesHeld
  <2>2. old \in Seq(FullRowType) /\ r \in Elements(old) /\ RowHeld(w, r)
    BY <1>1, <1>2, <1>4, <1>6, <1>8 DEF ShownInv, RowsHeld, Elements
  <2>3. GoesOnTo(r, m)
    BY <1>1, <1>2, <1>6, <2>1, <2>2 DEF ShownInv, RowsInOrder
  <2> QED
    BY <1>1, <1>3, <1>4, <1>6, <1>7, <1>8, <2>1, <2>2, <2>3
<1>10. /\ r.coin \in Coins /\ r.meta \in MetaType /\ r.degen \in {Absent} \cup DegenType
  BY <1>9 DEF FullRowType
<1>11. RowGoesOn(r, r)
  <2>1. MetaGoesOn(r.meta, r.meta) /\ (r.degen # Absent => DegenGoesOn(r.degen, r.degen))
    BY <1>10, OnlyForward
  <2> QED
    BY <2>1 DEF RowGoesOn, MetaGoesOn, DegenGoesOn
<1>12. ASSUME r.coin = m.coin PROVE RowGoesOn(r, row)
  <2>1. /\ row.meta = m.meta
        /\ row.degen = IF w = Absent THEN Absent ELSE CachedDegen(m.coin, w)
    BY <1>5 DEF Row, CachedDegen
  <2>2. MetaGoesOn(r.meta, row.meta)
    BY <1>9, <1>12, <2>1 DEF GoesOnTo
  <2>3. r.degen # Absent => DegenGoesOn(r.degen, CachedDegen(m.coin, w))
    BY <1>2, <1>9, <1>12 DEF RowHeld, DegenHeld
  <2> QED
    BY <2>1, <2>2, <2>3 DEF RowGoesOn, MetaGoesOn, DegenGoesOn
<1>13. \/ new[i + (Len(new) - Len(old))] = r
       \/ new[i + (Len(new) - Len(old))] = row /\ r.coin = m.coin
  BY <1>5, <1>7, <1>8, <1>9, RowsOfRows, WhereRowsGo
<1>14. RowGoesOn(r, new[i + (Len(new) - Len(old))])
  BY <1>11, <1>12, <1>13
<1> QED
  BY <1>6, <1>8, <1>9, <1>14

\* An event never takes a row of a table back to an earlier state of its coin or
\* its degen, unless the row was loaded again past events that were waiting:
\* over any number of snapshots, restarts, lost events and pages.
THEOREM RowsMoveOn == FeedSpec => EventsMoveRowsOn
<1> DEFINE Inv == CopyInv /\ TablesInv /\ OnwardInv
           MovesOn == \A b \in Browsers :
               (inhand[b] # Absent /\ inhand'[b] = Absent /\ subscribed'[b] /\ ~overtaken[b]) =>
                   LET added == Len(table'[b]) - Len(table[b])
                   IN  \A i \in DOMAIN table[b] : RowGoesOn(table[b][i], table'[b][i + added])
<1>1. FeedInit => Inv
  BY CopyAtStart, TablesAtStart, OnwardAtStart DEF FeedInit
<1>2. Inv /\ [FeedNext]_allVars => Inv'
  BY StepsOfTheCopy, CopyKept, TablesKept, OnwardKept
<1>3. Inv /\ [FeedNext]_allVars => [MovesOn]_allVars
  BY OnlyDelivered, EventMovesRowsOn DEF TablesInv
<1> HIDE DEF Inv, MovesOn
<1>4. FeedSpec => [][MovesOn]_allVars
  BY <1>1, <1>2, <1>3, PTL DEF FeedSpec
<1> QED
  BY <1>4 DEF EventsMoveRowsOn, MovesOn
-----------------------------------------------------------------------------
(***************************************************************************)
(* The lock.                                                               *)
(***************************************************************************)
Tasks ==
    {MonitorWaits} \cup {PageWaits(b) : b \in Browsers} \cup {EventWaits(b) : b \in Browsers}

\* What is asked for, and what is in hand, is in the queue or has the lock.
WaitsRight(b) ==
    /\ request[b] # Absent <=> (b \in readers \/ InQueue(PageWaits(b)))
    /\ ~(b \in readers /\ InQueue(PageWaits(b)))
    /\ (inhand[b] # Absent /\ who[b] # Absent) <=> InQueue(EventWaits(b))

LockInv == queue \in Seq(Tasks) /\ readers \subseteq Browsers /\ QueueHoldsWhoWaits

\* No task is taken for another.
LEMMA TasksDiffer ==
    /\ MonitorWaits \in Tasks
    /\ \A b \in Browsers : /\ PageWaits(b) \in Tasks /\ EventWaits(b) \in Tasks
                           /\ PageWaits(b) # MonitorWaits /\ EventWaits(b) # MonitorWaits
    /\ \A b, c \in Browsers : /\ PageWaits(b) # EventWaits(c)
                              /\ PageWaits(b) = PageWaits(c) => b = c
                              /\ EventWaits(b) = EventWaits(c) => b = c
<1>1. MonitorWaits.task = "monitor"
  BY DEF MonitorWaits
<1>2. \A b \in Browsers : /\ PageWaits(b).task = "page" /\ PageWaits(b).browser = b
                          /\ EventWaits(b).task = "event" /\ EventWaits(b).browser = b
  BY DEF PageWaits, EventWaits
<1>3. /\ MonitorWaits \in Tasks
      /\ \A b \in Browsers : PageWaits(b) \in Tasks /\ EventWaits(b) \in Tasks
  BY DEF Tasks
<1>4. \A b \in Browsers : PageWaits(b) # MonitorWaits /\ EventWaits(b) # MonitorWaits
  <2> SUFFICES ASSUME NEW b \in Browsers
               PROVE  PageWaits(b) # MonitorWaits /\ EventWaits(b) # MonitorWaits
    OBVIOUS
  <2>1. PageWaits(b).task # MonitorWaits.task /\ EventWaits(b).task # MonitorWaits.task
    BY <1>1, <1>2
  <2> QED
    BY <2>1
<1>5. ASSUME NEW b \in Browsers, NEW c \in Browsers
      PROVE  /\ PageWaits(b) # EventWaits(c)
             /\ PageWaits(b) = PageWaits(c) => b = c
             /\ EventWaits(b) = EventWaits(c) => b = c
  <2>1. PageWaits(b).task # EventWaits(c).task
    BY <1>2
  <2>2. /\ PageWaits(b).browser = b /\ PageWaits(c).browser = c
        /\ EventWaits(b).browser = b /\ EventWaits(c).browser = c
    BY <1>2
  <2> QED
    BY <2>1, <2>2
<1> QED
  BY <1>3, <1>4, <1>5

\* A queue with one more at its end.
LEMMA OneMore ==
    ASSUME NEW S, NEW s \in Seq(S), IsInjective(s), NEW w \in S, w \notin ToSet(s)
    PROVE  /\ Append(s, w) \in Seq(S) /\ IsInjective(Append(s, w))
           /\ ToSet(Append(s, w)) = ToSet(s) \cup {w}
<1> DEFINE t == Append(s, w)
           n == Len(s)
<1>1. /\ n \in Nat /\ DOMAIN s = 1 .. n /\ DOMAIN t = 1 .. n + 1
      /\ t[n + 1] = w /\ \A i \in 1 .. n : t[i] = s[i]
      /\ t \in Seq(S)
  OBVIOUS
<1> HIDE DEF t, n
<1>2. \A i \in DOMAIN t : i = n + 1 \/ (i \in DOMAIN s /\ t[i] = s[i] /\ t[i] # w)
  BY <1>1 DEF ToSet
<1>3. IsInjective(t)
  BY <1>1, <1>2 DEF IsInjective
<1>4. ToSet(t) = ToSet(s) \cup {w}
  <2>1. ASSUME NEW i \in DOMAIN t PROVE t[i] \in ToSet(s) \cup {w}
    BY <1>1, <1>2 DEF ToSet
  <2>2. ASSUME NEW i \in DOMAIN s PROVE s[i] \in ToSet(t)
    <3>1. i \in DOMAIN t /\ t[i] = s[i]
      BY <1>1
    <3> QED
      BY <3>1 DEF ToSet
  <2>3. w \in ToSet(t)
    <3>1. n + 1 \in DOMAIN t /\ t[n + 1] = w
      BY <1>1
    <3> QED
      BY <3>1 DEF ToSet
  <2>4. ToSet(t) \subseteq ToSet(s) \cup {w}
    BY <2>1 DEF ToSet
  <2>5. ToSet(s) \subseteq ToSet(t)
    BY <2>2 DEF ToSet
  <2> QED
    BY <2>3, <2>4, <2>5
<1> QED
  BY <1>1, <1>3, <1>4 DEF t

\* What a sequence is without the element at a place.
LEMMA OneRemoved ==
    ASSUME NEW S, NEW s \in Seq(S), NEW i \in DOMAIN s
    PROVE  /\ RemoveAt(s, i) \in Seq(S) /\ Len(RemoveAt(s, i)) = Len(s) - 1
           /\ \A j \in 1 .. Len(s) - 1 :
                 RemoveAt(s, i)[j] = IF j < i THEN s[j] ELSE s[j + 1]
<1> DEFINE n == Len(s)
           t == RemoveAt(s, i)
           before == SubSeq(s, 1, i - 1)
           after == SubSeq(s, i + 1, n)
<1>1. n \in Nat /\ DOMAIN s = 1 .. n /\ i \in 1 .. n /\ \A j \in 1 .. n : s[j] \in S
  OBVIOUS
<1>2. /\ before \in Seq(S) /\ Len(before) = i - 1
      /\ \A j \in 1 .. i - 1 : before[j] = s[j]
  BY <1>1
<1>3. /\ after \in Seq(S) /\ Len(after) = n - i
      /\ \A j \in 1 .. n - i : after[j] = s[i + j]
  <2>1. /\ after \in Seq(S) /\ Len(after) = IF i + 1 <= n THEN n - (i + 1) + 1 ELSE 0
        /\ \A j \in 1 .. n - (i + 1) + 1 : after[j] = s[(i + 1) + j - 1]
    BY <1>1, SubSeqProperties
  <2> HIDE DEF after, n
  <2>2. /\ n - (i + 1) + 1 = n - i /\ (i + 1 <= n \/ n - i = 0)
        /\ \A j \in 1 .. n - i : (i + 1) + j - 1 = i + j
    BY <1>1
  <2>3. Len(after) = n - i
    BY <1>1, <2>1, <2>2
  <2> QED
    BY <2>1, <2>2, <2>3
<1>4. t = before \o after
  BY DEF RemoveAt
<1> HIDE DEF before, after, t, n
<1>5. /\ t \in Seq(S) /\ Len(t) = n - 1
      /\ \A j \in 1 .. n - 1 : t[j] = IF j <= i - 1 THEN before[j] ELSE after[j - (i - 1)]
  <2>1. /\ t \in Seq(S) /\ Len(t) = Len(before) + Len(after)
        /\ \A j \in 1 .. Len(before) + Len(after) :
              t[j] = IF j <= Len(before) THEN before[j] ELSE after[j - Len(before)]
    BY <1>2, <1>3, <1>4, ConcatProperties
  <2>2. Len(before) + Len(after) = n - 1
    BY <1>1, <1>2, <1>3
  <2> QED
    BY <1>2, <2>1, <2>2
<1>6. ASSUME NEW j \in 1 .. n - 1
      PROVE  t[j] = IF j < i THEN s[j] ELSE s[j + 1]
  <2>1. CASE j < i
    BY <1>1, <1>2, <1>5, <2>1
  <2>2. CASE ~(j < i)
    <3>1. j - (i - 1) \in 1 .. n - i /\ i + (j - (i - 1)) = j + 1 /\ ~(j <= i - 1)
      BY <1>1, <2>2
    <3> QED
      BY <1>3, <1>5, <2>2, <3>1
  <2> QED
    BY <2>1, <2>2
<1> QED
  BY <1>5, <1>6 DEF n, t

\* A queue that somebody leaves, from wherever.
LEMMA OneLess ==
    ASSUME NEW S, NEW s \in Seq(S), IsInjective(s), NEW i \in DOMAIN s
    PROVE  /\ RemoveAt(s, i) \in Seq(S) /\ IsInjective(RemoveAt(s, i))
           /\ ToSet(RemoveAt(s, i)) = ToSet(s) \ {s[i]}
<1> DEFINE n == Len(s)
           t == RemoveAt(s, i)
<1>1. n \in Nat /\ DOMAIN s = 1 .. n /\ i \in 1 .. n /\ \A j \in 1 .. n : s[j] \in S
  OBVIOUS
<1>2. /\ t \in Seq(S) /\ Len(t) = n - 1
      /\ \A j \in 1 .. n - 1 : t[j] = IF j < i THEN s[j] ELSE s[j + 1]
  BY OneRemoved
<1>3. DOMAIN t = 1 .. n - 1
  BY <1>1, <1>2
<1> HIDE DEF t, n
<1>4. \A j \in 1 .. n - 1 : \/ j < i /\ j \in 1 .. n /\ t[j] = s[j]
                            \/ j + 1 > i /\ j + 1 \in 1 .. n /\ t[j] = s[j + 1]
  BY <1>1, <1>2
<1>5. IsInjective(t)
  <2>1. ASSUME NEW j \in 1 .. n - 1, NEW k \in 1 .. n - 1, t[j] = t[k]
        PROVE  j = k
    <3> DEFINE place(x) == IF x < i THEN x ELSE x + 1
    <3>1. \A x \in 1 .. n - 1 : place(x) \in 1 .. n /\ t[x] = s[place(x)]
      BY <1>1, <1>2
    <3>2. place(j) = place(k)
      <4> HIDE DEF place
      <4> QED
        BY <1>1, <2>1, <3>1 DEF IsInjective
    <3> QED
      BY <1>1, <3>2
  <2> QED
    BY <1>3, <2>1 DEF IsInjective
<1>6. ToSet(t) = ToSet(s) \ {s[i]}
  <2>1. ASSUME NEW j \in 1 .. n - 1 PROVE t[j] \in ToSet(s) \ {s[i]}
    <3>1. PICK k \in 1 .. n : k # i /\ t[j] = s[k]
      BY <1>1, <1>4
    <3> QED
      BY <1>1, <3>1 DEF ToSet, IsInjective
  <2>2. ASSUME NEW k \in 1 .. n, k # i PROVE s[k] \in ToSet(t)
    <3>1. CASE k < i
      <4>1. k \in 1 .. n - 1 /\ t[k] = s[k]
        BY <1>1, <1>2, <3>1
      <4> QED
        BY <1>3, <4>1 DEF ToSet
    <3>2. CASE k > i
      <4>1. k - 1 \in 1 .. n - 1 /\ t[k - 1] = s[k]
        <5>1. k - 1 \in 1 .. n - 1 /\ ~(k - 1 < i) /\ (k - 1) + 1 = k
          BY <1>1, <3>2
        <5> QED
          BY <1>2, <5>1
      <4> QED
        BY <1>3, <4>1 DEF ToSet
    <3> QED
      BY <1>1, <2>2, <3>1, <3>2
  <2>3. ToSet(t) \subseteq ToSet(s) \ {s[i]}
    BY <1>3, <2>1 DEF ToSet
  <2>4. ToSet(s) \ {s[i]} \subseteq ToSet(t)
    BY <1>1, <2>2 DEF ToSet
  <2> QED
    BY <2>3, <2>4
<1> QED
  BY <1>2, <1>5, <1>6 DEF t

\* Who asks comes into the queue.
LEMMA AskJoins ==
    ASSUME LockInv, NEW w \in Tasks, ~InQueue(w), Ask(w)
    PROVE  /\ queue' \in Seq(Tasks) /\ IsInjective(queue')
           /\ ToSet(queue') = ToSet(queue) \cup {w}
<1>1. queue \in Seq(Tasks) /\ IsInjective(queue) /\ w \notin ToSet(queue)
  BY DEF LockInv, QueueHoldsWhoWaits, InQueue
<1> QED
  BY <1>1, OneMore DEF Ask

\* Who leaves is in it no more.
LEMMA LeaveParts ==
    ASSUME LockInv, NEW w, Leave(w)
    PROVE  /\ queue' \in Seq(Tasks) /\ IsInjective(queue')
           /\ ToSet(queue') = ToSet(queue) \ {w}
<1>1. queue \in Seq(Tasks) /\ IsInjective(queue)
  BY DEF LockInv, QueueHoldsWhoWaits
<1>2. CASE InQueue(w)
  <2>1. PICK i \in DOMAIN queue : queue[i] = w /\ queue' = RemoveAt(queue, i)
    BY <1>2 DEF Leave
  <2> QED
    BY <1>1, <2>1, OneLess
<1>3. CASE ~InQueue(w)
  BY <1>1, <1>3 DEF Leave, InQueue
<1> QED
  BY <1>2, <1>3

\* What a step of a browser does to the lock.
LockMoves ==
    /\ queue' \in Seq(Tasks) /\ IsInjective(queue') /\ readers' \subseteq Browsers
    /\ MonitorWaits \in ToSet(queue') <=> MonitorWaits \in ToSet(queue)
    /\ Written => readers' \subseteq readers
    /\ \A x \in Browsers : WaitsRight(x)'

\* It leaves the lock to those who wait.
LEMMA BrowserMovesLock ==
    ASSUME LockInv, DoorInv, BrowserTypes, NEW b \in Browsers, BrowserStep(b), ~ServerGone
    PROVE  LockMoves
<1>1. /\ queue \in Seq(Tasks) /\ IsInjective(queue) /\ readers \subseteq Browsers
      /\ \A x \in Browsers : WaitsRight(x)
  BY DEF LockInv, QueueHoldsWhoWaits, WaitsRight
<1>2. /\ DOMAIN request = Browsers /\ DOMAIN inhand = Browsers /\ DOMAIN who = Browsers
  BY DEF BrowserTypes
<1>3. /\ \A w \in Visitors : ListPage(w) # Absent
      /\ \A c \in Coins : RowPage(c) # Absent /\ VisitPage(c) # Absent
  BY PagesDiffer
<1>4. CASE \/ \E w \in Visitors : AskForList(b, w)
           \/ \E c \in Coins : AskForRow(b, c) \/ Visit(b, c)
  <2>1. /\ request[b] = Absent /\ Ask(PageWaits(b)) /\ UNCHANGED <<readers, inhand, who>>
        /\ request'[b] # Absent /\ \A x \in Browsers \ {b} : request'[x] = request[x]
    <3>1. ASSUME NEW r, r # Absent, request' = [request EXCEPT ![b] = r]
          PROVE  request'[b] # Absent /\ \A x \in Browsers \ {b} : request'[x] = request[x]
      BY <1>2, <3>1
    <3>2. CASE \E w \in Visitors : AskForList(b, w)
      BY <1>3, <3>1, <3>2 DEF AskForList, channel
    <3>3. CASE \E c \in Coins : AskForRow(b, c) \/ Visit(b, c)
      BY <1>3, <3>1, <3>3 DEF AskForRow, Visit, channel
    <3> QED
      BY <1>4, <3>2, <3>3
  <2>2. b \notin readers /\ ~InQueue(PageWaits(b))
    BY <1>1, <2>1 DEF WaitsRight
  <2>3. /\ queue' \in Seq(Tasks) /\ IsInjective(queue')
        /\ ToSet(queue') = ToSet(queue) \cup {PageWaits(b)}
    BY <2>1, <2>2, TasksDiffer, AskJoins
  <2> QED
    BY <1>1, <2>1, <2>2, <2>3, TasksDiffer DEF LockMoves, WaitsRight, InQueue
<1>5. CASE GrantPage(b)
  <2>1. /\ InQueue(PageWaits(b)) /\ ~Written /\ Leave(PageWaits(b)) /\ readers' = readers \cup {b}
        /\ UNCHANGED <<request, inhand, who>>
    BY <1>1, <1>5 DEF GrantPage, Granted, InQueue, ToSet, channel, pages
  <2>2. /\ queue' \in Seq(Tasks) /\ IsInjective(queue')
        /\ ToSet(queue') = ToSet(queue) \ {PageWaits(b)}
    BY <2>1, LeaveParts
  <2> QED
    BY <1>1, <2>1, <2>2, TasksDiffer DEF LockMoves, WaitsRight, InQueue
<1>6. CASE \/ PageFails(b) \/ PagePanics(b) \/ \E c \in Coins : AnswerRow(b, c)
  <2>1. /\ b \in readers /\ Unlock(b) /\ UNCHANGED <<queue, inhand, who>>
    BY <1>6 DEF PageFails, PagePanics, AnswerRow, channel
  <2> QED
    BY <1>1, <1>2, <2>1 DEF LockMoves, WaitsRight, InQueue, Unlock
<1>7. ASSUME NEW w \in Visitors, AnswerList(b, w) PROVE LockMoves
  <2>1. /\ b \in readers /\ Unlock(b) /\ Leave(EventWaits(b))
        /\ inhand'[b] = Absent
        /\ \A x \in Browsers \ {b} : inhand'[x] = inhand[x] /\ who'[x] = who[x]
    BY <1>2, <1>7 DEF AnswerList, CloseStream
  <2>2. /\ queue' \in Seq(Tasks) /\ IsInjective(queue')
        /\ ToSet(queue') = ToSet(queue) \ {EventWaits(b)}
    BY <2>1, LeaveParts
  <2> QED
    BY <1>1, <1>2, <2>1, <2>2, TasksDiffer DEF LockMoves, WaitsRight, InQueue, Unlock
<1>8. CASE Connect(b)
  <2>1. UNCHANGED <<queue, readers, request, inhand, who>>
    BY <1>8 DEF Connect, locking, pages
  <2> QED
    BY <1>1, <2>1 DEF LockMoves, WaitsRight, InQueue
<1>9. CASE Take(b)
  <2>1. /\ inhand[b] = Absent /\ inhand'[b] # Absent /\ UNCHANGED <<readers, request, who>>
        /\ \A x \in Browsers \ {b} : inhand'[x] = inhand[x]
        /\ IF who[b] = Absent THEN UNCHANGED queue ELSE Ask(EventWaits(b))
    <3>1. PICK s : s = inbox[b]
      OBVIOUS
    <3>2. s \in Seq(MessageType) /\ s # << >> /\ inhand' = [inhand EXCEPT ![b] = Head(s)]
      BY <1>9, <3>1 DEF Take, BrowserTypes
    <3>3. Head(s) # Absent
      <4>1. Head(s) \in MessageType
        BY <3>2
      <4> QED
        BY <4>1, FeedAssumption
    <3> QED
      BY <1>2, <1>9, <3>2, <3>3 DEF Take, pages
  <2>2. CASE who[b] = Absent
    BY <1>1, <2>1, <2>2 DEF LockMoves, WaitsRight, InQueue
  <2>3. CASE who[b] # Absent
    <3>1. ~InQueue(EventWaits(b))
      BY <1>1, <2>1 DEF WaitsRight
    <3>2. /\ queue' \in Seq(Tasks) /\ IsInjective(queue')
          /\ ToSet(queue') = ToSet(queue) \cup {EventWaits(b)}
      BY <2>1, <2>3, <3>1, TasksDiffer, AskJoins
    <3> QED
      BY <1>1, <2>1, <2>3, <3>2, TasksDiffer DEF LockMoves, WaitsRight, InQueue
  <2> QED
    BY <2>2, <2>3
<1>10. CASE Deliver(b) \/ DeliveryPanics(b) \/ Lag(b)
  <2>1. /\ inhand'[b] = Absent /\ UNCHANGED <<readers, request, who>>
        /\ \A x \in Browsers \ {b} : inhand'[x] = inhand[x]
        /\ (UNCHANGED queue /\ who[b] = Absent) \/ Leave(EventWaits(b))
    BY <1>2, <1>10 DEF Deliver, DeliveryPanics, Lag, CloseStream
  <2>2. CASE UNCHANGED queue /\ who[b] = Absent
    BY <1>1, <2>1, <2>2 DEF LockMoves, WaitsRight, InQueue
  <2>3. CASE Leave(EventWaits(b))
    <3>1. /\ queue' \in Seq(Tasks) /\ IsInjective(queue')
          /\ ToSet(queue') = ToSet(queue) \ {EventWaits(b)}
      BY <2>3, LeaveParts
    <3> QED
      BY <1>1, <2>1, <3>1, TasksDiffer DEF LockMoves, WaitsRight, InQueue
  <2> QED
    BY <2>1, <2>2, <2>3
<1> QED
  BY <1>4, <1>5, <1>6, <1>7, <1>8, <1>9, <1>10, VisitEnds DEF BrowserStep, Serve, Stream

\* A monitor that waits goes on needing the lock until it has it.
LEMMA MonitorWaitsOn ==
    ASSUME BaseInv, NeedsLock, UNCHANGED feed,
           \/ Commit \/ TimePasses \/ FeedPublish \/ FeedMonitorSteps \/ FeedPanic
           \/ ConnectionCloses
    PROVE  NeedsLock'
<1>1. Len(KeyPrefixes) = 9 /\ page \in Nat /\ stream \in Seq(EventType)
      /\ unpublished \in Seq(EventType)
  BY DEF KeyPrefixes, BaseInv, MonitorInv, WebTypeOK
<1>2. CASE Commit \/ TimePasses \/ ConnectionCloses
  BY <1>2 DEF Commit, TimePasses, ConnectionCloses, NeedsLock, snapshot
<1>3. CASE FeedPublish
  <2>1. /\ at' = at /\ page' = page /\ unpublished # << >>
        /\ stream' = stream \/ stream' = Append(stream, Head(unpublished))
    BY <1>3 DEF FeedPublish, Publish, snapshot
  <2>2. stream # << >> => Append(stream, Head(unpublished)) # << >>
    BY <1>1, <2>1
  <2> QED
    BY <2>1, <2>2 DEF NeedsLock
<1>4. CASE FeedMonitorSteps \/ FeedPanic
  BY <1>1, <1>4 DEF FeedMonitorSteps, FeedPanic, ReadPage, Subscribe, Unsubscribed, QueryAnswers,
                    Apply, Panic, NeedsLock
<1> QED
  BY <1>2, <1>3, <1>4

\* Every step leaves the lock to those who wait.
LEMMA LockKept ==
    ASSUME BaseInv, DoorInv, BrowserTypes, LockInv, [FeedNext]_allVars
    PROVE  LockInv'
<1> DEFINE MonitorNeeds == InQueue(MonitorWaits) => serving /\ NeedsLock
           Exclusive == Written => readers = {}
<1>1. /\ queue \in Seq(Tasks) /\ IsInjective(queue) /\ readers \subseteq Browsers
      /\ MonitorNeeds /\ Exclusive /\ \A x \in Browsers : WaitsRight(x)
  BY DEF LockInv, QueueHoldsWhoWaits, WaitsRight
<1>2. ASSUME queue' \in Seq(Tasks), IsInjective(queue'), readers' \subseteq Browsers,
             MonitorNeeds', Exclusive', \A x \in Browsers : WaitsRight(x)'
      PROVE  LockInv'
  BY <1>2 DEF LockInv, QueueHoldsWhoWaits, WaitsRight, IsInjective
<1>3. ASSUME UNCHANGED <<readers, request, inhand, who>>,
             \A x \in Browsers : /\ InQueue(PageWaits(x))' <=> InQueue(PageWaits(x))
                                 /\ InQueue(EventWaits(x))' <=> InQueue(EventWaits(x))
      PROVE  \A x \in Browsers : WaitsRight(x)'
  BY <1>1, <1>3 DEF WaitsRight, InQueue
<1>4. CASE ServerGone
  <2>1. /\ queue' = << >> /\ readers' = {} /\ \A x \in Browsers : request'[x] = Absent
        /\ \A x \in Browsers : inhand'[x] = Absent
    BY <1>4 DEF ServerGone, NoBrowsers
  <2>2. << >> \in Seq(Tasks) /\ IsInjective(<< >>) /\ ToSet(<< >>) = {}
    BY DEF IsInjective, ToSet
  <2> QED
    BY <1>2, <2>1, <2>2 DEF WaitsRight, InQueue
<1>5. ASSUME NEW b \in Browsers, BrowserStep(b), ~ServerGone PROVE LockInv'
  <2>1. LockMoves
    BY <1>5, BrowserMovesLock
  <2>2. UNCHANGED vars /\ serving' = serving
    BY <1>5 DEF BrowserStep, AskForList, AskForRow, Visit, Serve, GrantPage, PageFails,
                PagePanics, AnswerList, AnswerRow, AnswerVisit, Connect, Stream, Take, Deliver,
                DeliveryPanics, Lag
  <2>3. at' = at /\ page' = page /\ stream' = stream
    BY <2>2 DEF vars, snapshot
  <2>4. MonitorNeeds' /\ Exclusive'
    BY <1>1, <2>1, <2>2, <2>3 DEF LockMoves, InQueue, NeedsLock, Written
  <2> QED
    BY <1>2, <2>1, <2>4 DEF LockMoves
<1>6. CASE AskToWrite
  <2>1. /\ serving /\ NeedsLock /\ ~InQueue(MonitorWaits) /\ Ask(MonitorWaits)
        /\ UNCHANGED <<at, page, stream, serving, readers, request, inhand, who>>
    BY <1>6 DEF AskToWrite, vars, snapshot, channel, pages
  <2>2. /\ queue' \in Seq(Tasks) /\ IsInjective(queue')
        /\ ToSet(queue') = ToSet(queue) \cup {MonitorWaits}
    BY <2>1, TasksDiffer, AskJoins
  <2>3. \A x \in Browsers : WaitsRight(x)'
    BY <1>3, <2>1, <2>2, TasksDiffer DEF InQueue
  <2>4. MonitorNeeds' /\ Exclusive'
    BY <1>1, <2>1 DEF NeedsLock, Written
  <2> QED
    BY <1>1, <1>2, <2>1, <2>2, <2>3, <2>4
<1>7. CASE FeedReceive \/ FeedInstall
  <2>1. /\ Leave(MonitorWaits) /\ UNCHANGED <<readers, request, inhand, who>>
    BY <1>7 DEF FeedReceive, FeedInstall, channel, pages
  <2>2. /\ queue' \in Seq(Tasks) /\ IsInjective(queue')
        /\ ToSet(queue') = ToSet(queue) \ {MonitorWaits}
    BY <2>1, LeaveParts
  <2>3. \A x \in Browsers : WaitsRight(x)'
    BY <1>3, <2>1, <2>2, TasksDiffer DEF InQueue
  <2>4. MonitorNeeds'
    BY <2>2 DEF InQueue
  <2>5. Exclusive'
    BY <1>1, <1>7, <2>1 DEF FeedReceive, FeedInstall, Granted, InstallSnapshot, Written
  <2> QED
    BY <1>1, <1>2, <2>1, <2>2, <2>3, <2>4, <2>5
<1>8. CASE FeedBroadcast
  <2>1. /\ at = "timestamp" /\ at' = "listen"
        /\ UNCHANGED <<queue, readers, request, inhand, who>>
    BY <1>8 DEF FeedBroadcast, Broadcast, locking
  <2>2. MonitorNeeds' /\ Exclusive'
    BY <1>1, <2>1 DEF NeedsLock, Written, InQueue
  <2> QED
    BY <1>1, <1>2, <1>3, <2>1, <2>2 DEF InQueue
<1>9. CASE UNCHANGED feed /\ (Commit \/ TimePasses \/ FeedPublish \/ FeedMonitorSteps
                              \/ FeedPanic \/ ConnectionCloses
                              \/ (StartOver /\ ~InQueue(MonitorWaits)))
  <2>1. UNCHANGED <<queue, readers, request, inhand, who, serving>>
    BY <1>9 DEF feed, locking, channel, pages
  <2>2. MonitorNeeds'
    <3>1. CASE InQueue(MonitorWaits)
      BY <1>1, <1>9, <2>1, <3>1, MonitorWaitsOn DEF InQueue
    <3> QED
      BY <2>1, <3>1 DEF InQueue
  <2>3. Exclusive'
    <3>1. Written' => Written
      BY <1>9 DEF Commit, TimePasses, FeedPublish, Publish, FeedMonitorSteps, ReadPage, Subscribe,
                  Unsubscribed, QueryAnswers, Apply, FeedPanic, Panic, ConnectionCloses,
                  StartOver, Restart, StartSnapshot, Written
    <3> QED
      BY <1>1, <2>1, <3>1
  <2> QED
    BY <1>1, <1>2, <1>3, <2>1, <2>2, <2>3 DEF InQueue
<1>10. CASE UNCHANGED allVars
  <2>1. UNCHANGED <<queue, readers, request, inhand, who, serving, at, page, stream>>
    BY <1>10 DEF allVars, vars, snapshot, feed, locking, channel, pages
  <2>2. MonitorNeeds' /\ Exclusive'
    BY <1>1, <2>1 DEF NeedsLock, Written, InQueue
  <2> QED
    BY <1>1, <1>2, <1>3, <2>1, <2>2 DEF InQueue
<1> HIDE DEF MonitorNeeds, Exclusive
<1> QED
  BY <1>4, <1>5, <1>6, <1>7, <1>8, <1>9, <1>10
     DEF FeedNext, FeedPublish, FeedMonitor, FeedFaults, FeedMonitorSteps, FeedPanic, BrowserStep

\* At the start nobody waits.
LEMMA LockAtStart ==
    ASSUME FeedInit
    PROVE  LockInv
<1>1. /\ queue = << >> /\ readers = {} /\ at = "snapshot"
      /\ \A x \in Browsers : request[x] = Absent /\ inhand[x] = Absent
  BY DEF FeedInit, WebInit
<1>2. << >> \in Seq(Tasks) /\ IsInjective(<< >>) /\ ToSet(<< >>) = {}
  BY DEF IsInjective, ToSet
<1> QED
  BY <1>1, <1>2 DEF LockInv, QueueHoldsWhoWaits, InQueue, Written

\* The queue of the lock holds those who wait for it, each once, whatever streams
\* end, pages fail and processes die while they wait; so whoever comes first is
\* there to take the lock, and no two hold it that must not.
THEOREM LockWaitsForNobodyGone == FeedSpec => []QueueHoldsWhoWaits
<1> DEFINE Inv == CopyInv /\ TablesInv /\ OnwardInv /\ LockInv
<1>1. FeedInit => Inv
  BY CopyAtStart, TablesAtStart, OnwardAtStart, LockAtStart DEF FeedInit
<1>2. Inv /\ [FeedNext]_allVars => Inv'
  BY StepsOfTheCopy, CopyKept, TablesKept, OnwardKept, LockKept DEF CopyInv, TablesInv, OnwardInv
<1>3. Inv => QueueHoldsWhoWaits
  BY DEF LockInv
<1> QED
  BY <1>1, <1>2, <1>3, PTL DEF FeedSpec
-----------------------------------------------------------------------------
(***************************************************************************)
(* What is unwrapped is there.                                             *)
(***************************************************************************)

\* Nothing has failed, and no transaction fell into the gap.
Calm == faults = 0 /\ ~gap

\* The entry of a listed coin, unless its creation is being worked on.
There(c) ==
    \/ cache.shitcoins[c] # Absent
    \/ at = "query" /\ event.kind = "ShitcoinCreated" /\ event.coin = c

\* A page is a list, the row of a coin there is, or what somebody asked for by its
\* address.
AsksRight(b) ==
    \/ request[b] = Absent
    \/ \E w \in Visitors : request[b] = ListPage(w)
    \/ \E c \in Coins : request[b] = VisitPage(c)
    \/ \E c \in Coins : request[b] = RowPage(c) /\ (Calm => cache.shitcoins[c] # Absent)

\* Without a failure the process that reads its storage is a new one.
CalmInv ==
    /\ faults = 0 => connected /\ (at = "snapshot" => ~serving /\ cache = EmptyState)
    /\ Calm => at # "dead" /\ \A c \in Elements(cache.indexes) : There(c)
    /\ \A b \in Browsers : AsksRight(b) /\ (Calm => \A m \in Pending(b) : m.meta.creator)

\* Without a failure nothing but a new process reads the storage again.
LEMMA StaysCalm ==
    ASSUME BaseInv, OrderInv, KnownInv, DoorInv, CalmInv, [FeedNext]_allVars, faults' = 0
    PROVE  /\ faults = 0 /\ connected' /\ (at' = "snapshot" => ~serving' /\ cache' = EmptyState)
           /\ ~gap' => at' # "dead"
           /\ Calm' => Calm \/ (ServerGone /\ Restart)
<1>1. ~Fault /\ faults \in Nat
  BY DEF Fault, BaseInv, MonitorInv, WebTypeOK
<1>2. faults = 0
  <2>1. faults' = faults
    BY <1>1, StepsOfTheCopy
       DEF WebNext, Commit, TimePasses, Publish, Monitor, ReadPage, InstallSnapshot, Subscribe,
           Unsubscribed, Receive, QueryAnswers, Apply, Broadcast, Panic, StartOver,
           ConnectionCloses, SnapshotFails, Aborts, vars
  <2> QED
    BY <2>1
<1>3. /\ connected /\ (at = "snapshot" => ~serving /\ cache = EmptyState)
      /\ ~gap => at # "dead"
  BY <1>2 DEF CalmInv, Calm
<1>4. CASE ServerGone /\ Restart
  BY <1>2, <1>4 DEF ServerGone, Restart, StartSnapshot
<1>5. CASE UNCHANGED <<at, cache, serving, connected>> /\ (gap => gap')
  BY <1>2, <1>3, <1>5 DEF Calm
<1>6. CASE at' \notin {"snapshot", "dead"} /\ UNCHANGED <<connected, gap>>
  BY <1>2, <1>3, <1>6 DEF Calm
<1>7. CASE (Commit \/ TimePasses) /\ UNCHANGED feed
  <2>1. UNCHANGED <<at, cache, serving, connected>>
    BY <1>7 DEF Commit, TimePasses, feed
  <2>2. gap => gap'
    <3>1. CASE Commit
      BY <3>1 DEF Commit, Emit, Unannounced
    <3>2. CASE TimePasses
      BY <3>2 DEF TimePasses
    <3> QED
      BY <1>7, <3>1, <3>2
  <2> QED
    BY <1>5, <2>1, <2>2
<1>8. CASE FeedPublish \/ AskToWrite
  BY <1>5, <1>8 DEF FeedPublish, Publish, AskToWrite, feed, vars
<1>9. CASE FeedReceive \/ FeedInstall \/ FeedBroadcast
  BY <1>6, <1>9 DEF FeedReceive, Receive, FeedInstall, InstallSnapshot, FeedBroadcast, Broadcast
<1>10. CASE FeedMonitorSteps
  <2>1. CASE ReadPage
    BY <1>5, <1>10, <2>1 DEF FeedMonitorSteps, ReadPage, feed
  <2>2. CASE Subscribe \/ QueryAnswers \/ Apply
    BY <1>6, <2>2 DEF Subscribe, QueryAnswers, Apply
  <2> QED
    BY <1>3, <1>10, <2>1, <2>2 DEF FeedMonitorSteps, Unsubscribed
<1>11. CASE FeedPanic
  <2>1. CASE PanicAborts
    BY <1>4, <1>11, <2>1 DEF FeedPanic, Panic
  <2>2. CASE ~PanicAborts
    <3>1. at = "query" /\ pending = {} /\ Panics /\ at' = "dead" /\ UNCHANGED <<connected, gap>>
      BY <1>11, <2>2 DEF FeedPanic, Panic
    <3>2. gap
      BY <3>1, NothingUnknown DEF KnownWithoutGap, EventsAreAboutKnownCoins
    <3> QED
      BY <1>2, <1>3, <3>1, <3>2 DEF Calm
  <2> QED
    BY <2>1, <2>2
<1>12. CASE FeedFaults
  BY <1>1, <1>12 DEF FeedFaults, StartOver, ConnectionCloses, SnapshotFails
<1>13. ASSUME NEW b \in Browsers, BrowserStep(b)
       PROVE  UNCHANGED <<at, cache, serving, connected, gap>> \/ (ServerGone /\ Restart)
  BY <1>13 DEF BrowserStep, AskForList, AskForRow, Visit, Serve, GrantPage, PageFails, PagePanics,
               AnswerList, AnswerRow, AnswerVisit, Connect, Stream, Take, Deliver, DeliveryPanics,
               Lag, Aborts, vars
<1>14. CASE \E b \in Browsers : BrowserStep(b)
  BY <1>4, <1>5, <1>13, <1>14
<1>15. CASE UNCHANGED allVars
  BY <1>5, <1>15 DEF allVars, vars, feed
<1> QED
  BY <1>7, <1>8, <1>9, <1>10, <1>11, <1>12, <1>14, <1>15 DEF FeedNext, FeedMonitor, BrowserStep

\* The copy that is read at its first snapshot and kept to its events has an
\* entry for every coin it lists.
LEMMA ListedStayThere ==
    ASSUME CopyInv, KnownInv, DoorInv, CalmInv, [FeedNext]_allVars, Calm'
    PROVE  \A c \in Elements(cache'.indexes) : There(c)'
<1>1. /\ faults' = 0 /\ ~gap' /\ at' # "dead" /\ (at' = "snapshot" => cache' = EmptyState)
      /\ Calm \/ (ServerGone /\ Restart)
  BY StaysCalm DEF Calm, CopyInv
<1>2. CASE at' = "snapshot"
  <2>1. cache'.indexes = << >>
    BY <1>1, <1>2 DEF EmptyState
  <2> QED
    BY <2>1, ElementsOfNone
<1>3. CASE at' # "snapshot"
  <2>1. Calm /\ [WebNext \/ Aborts]_vars /\ cache.indexes \in Seq(Coins)
    BY <1>1, <1>3, StepsOfTheCopy
       DEF Restart, StartSnapshot, CopyInv, BaseInv, MonitorInv, WebTypeOK, StateType
  <2>2. \A c \in Elements(cache.indexes) : There(c) /\ c \in Coins
    BY <2>1 DEF CalmInv, Elements
  <2>3. CASE InstallSnapshot
    <3>1. CopyInv' /\ at' = "subscribe" /\ ~gap'
      BY <1>1, <2>1, <2>3, CopyKept DEF InstallSnapshot
    <3>2. ASSUME NEW c \in Elements(cache'.indexes) PROVE There(c)'
      <4>1. c \in Coins /\ Planted(c)' /\ cache'.shitcoins[c] = OnChainMeta(c)'
        BY <3>1, <3>2 DEF CopyInv, BaseInv, MonitorInv, WebTypeOK, StateType, Elements, FollowInv,
                          CacheAgrees, ListInv, OnlyPlanted
      <4>2. OnChainMeta(c)' \in MetaType
        <5>1. /\ url'[c] \in Nat /\ deadline'[c] \in Nat /\ raised'[c] \in Nat
              /\ (phase'[c] = "launched") \in BOOLEAN
          BY <3>1, <4>1 DEF CopyInv, BaseInv, ChainInv
        <5> QED
          BY <4>1, <5>1 DEF OnChainMeta, Planted, MetaType
      <4> QED
        BY <4>1, <4>2, AbsentAssumption DEF There
    <3> QED
      BY <3>2
  <2>4. CASE Receive
    <3>1. /\ at = "listen" /\ at' = "query" /\ event'.coin \in Coins
          /\ cache'.shitcoins = cache.shitcoins
          /\ \/ cache'.indexes = cache.indexes
             \/ /\ event'.kind = "ShitcoinCreated"
                /\ cache'.indexes = Append(cache.indexes, event'.coin)
      BY <2>4, Receives DEF CopyInv, BaseInv, EventType
    <3>2. ASSUME NEW c \in Elements(cache'.indexes)
          PROVE  c \in Elements(cache.indexes) \/
                    (event'.kind = "ShitcoinCreated" /\ c = event'.coin)
      <4>1. CASE cache'.indexes = cache.indexes
        BY <3>2, <4>1
      <4>2. CASE cache'.indexes = Append(cache.indexes, event'.coin)
        BY <2>1, <3>1, <3>2, <4>2, ElementsOfAppend
      <4> QED
        BY <3>1, <4>1, <4>2
    <3>3. ASSUME NEW c \in Elements(cache.indexes) PROVE There(c)'
      <4>1. cache.shitcoins[c] # Absent
        BY <2>2, <3>1, <3>3 DEF There
      <4> QED
        BY <3>1, <4>1 DEF There
    <3> QED
      BY <3>1, <3>2, <3>3 DEF There
  <2>5. CASE Apply
    <3>1. /\ event.coin \in Coins /\ cache'.indexes = cache.indexes
          /\ cache'.shitcoins[event.coin] \in MetaType
          /\ \A x \in Coins \ {event.coin} : cache'.shitcoins[x] = cache.shitcoins[x]
      BY <2>5, Applies, AppliesToEntries DEF CopyInv, BaseInv
    <3> QED
      BY <2>2, <3>1, AbsentAssumption DEF There
  <2>6. CASE cache' = cache /\ (UNCHANGED <<at, event>> \/ at # "query")
    BY <2>2, <2>6 DEF There
  <2>7. \/ InstallSnapshot \/ Receive \/ Apply
        \/ cache' = cache /\ (UNCHANGED <<at, event>> \/ at # "query")
    <3>1. CASE Commit \/ TimePasses \/ Publish \/ QueryAnswers \/ ConnectionCloses \/ UNCHANGED vars
      BY <3>1 DEF Commit, TimePasses, Publish, QueryAnswers, ConnectionCloses, handling, vars
    <3>2. CASE ReadPage \/ Subscribe \/ Broadcast
      BY <3>2 DEF ReadPage, Subscribe, Broadcast
    <3>3. ~(Unsubscribed \/ Panic \/ StartOver \/ SnapshotFails \/ Aborts)
      BY <1>1, <1>3 DEF Unsubscribed, Panic, StartOver, SnapshotFails, Aborts, Restart,
                        StartSnapshot
    <3> QED
      BY <2>1, <3>1, <3>2, <3>3 DEF WebNext, Monitor
  <2> QED
    BY <2>3, <2>4, <2>5, <2>6, <2>7
<1> QED
  BY <1>2, <1>3

\* A page that is asked for is a list, the row of a coin that the server goes on to
\* know, or that of an address.
LEMMA AskedRight ==
    ASSUME CopyInv, KnownInv, TablesInv, OnwardInv, LockInv, CalmInv, [FeedNext]_allVars,
           NEW b \in Browsers
    PROVE  AsksRight(b)'
<1>1. AsksRight(b) /\ DOMAIN request = Browsers
  BY DEF CalmInv, TablesInv, BrowserTypes
<1>2. ASSUME Calm' PROVE Calm \/ (ServerGone /\ Restart)
  BY <1>2, StaysCalm DEF CopyInv, OnwardInv, Calm
<1>3. CASE ServerGone
  BY <1>3 DEF ServerGone, NoBrowsers, AsksRight
<1>4. CASE request'[b] = request[b] /\ ~ServerGone
  <2> SUFFICES ASSUME NEW c \in Coins, request[b] = RowPage(c), Calm'
               PROVE  cache'.shitcoins[c] # Absent
    BY <1>1, <1>4 DEF AsksRight
  <2>1. Calm /\ request[b] # Absent
    BY <1>2, <1>4, FeedAssumption DEF RowPage
  <2>2. serving
    <3>1. b \in readers \/ InQueue(PageWaits(b))
      BY <2>1 DEF LockInv, QueueHoldsWhoWaits
    <3>2. InQueue(PageWaits(b)) => queue # << >>
      BY DEF InQueue, ToSet
    <3> QED
      BY <3>1, <3>2 DEF OnwardInv, DoorInv
  <2>3. cache.shitcoins[c] # Absent
    <3>1. PICK d \in Coins : RowPage(d) = RowPage(c) /\ cache.shitcoins[d] # Absent
      <4>1. /\ ~\E w \in Visitors : RowPage(c) = ListPage(w)
            /\ ~\E d \in Coins : RowPage(c) = VisitPage(d)
        BY PagesDiffer
      <4> QED
        BY <1>1, <2>1, <4>1 DEF AsksRight
    <3>2. RowPage(d).coin = d /\ RowPage(c).coin = c
      BY DEF RowPage
    <3> QED
      BY <3>1, <3>2
  <2>4. CopyLives
    BY <1>4, <2>2, FourWays DEF OnwardInv
  <2> QED
    BY <2>3, <2>4, StepNotBackwards DEF CopyInv
<1>5. ASSUME NEW x \in Browsers, BrowserStep(x), ~ServerGone, request'[b] # request[b]
      PROVE  AsksRight(b)'
  <2>1. ASSUME NEW w \in Visitors, AskForList(x, w) PROVE AsksRight(b)'
    BY <1>1, <1>5, <2>1 DEF AskForList, AsksRight
  <2>2. ASSUME NEW c \in Coins, AskForRow(x, c) PROVE AsksRight(b)'
    <3>1. x = b /\ serving /\ table[b] # Absent /\ cache' = cache /\ request'[b] = RowPage(c)
      BY <1>1, <1>5, <2>2 DEF AskForRow, vars
    <3>2. PICK row \in Elements(table[b]) : row.coin = c
      BY <2>2, <3>1 DEF AskForRow, ToSet, Elements
    <3>3. MetaHeld(c, row.meta)
      BY <3>1, <3>2 DEF OnwardInv, ShownInv, RowsHeld, RowHeld
    <3> QED
      BY <3>1, <3>3 DEF MetaHeld, AsksRight
  <2>5. ASSUME NEW c \in Coins, Visit(x, c) PROVE AsksRight(b)'
    BY <1>1, <1>5, <2>5 DEF Visit, AsksRight
  <2>3. CASE \/ PageFails(x) \/ PagePanics(x) \/ \E w \in Visitors : AnswerList(x, w)
             \/ \E c \in Coins : AnswerRow(x, c)
    <3>1. Unlock(x)
      BY <1>5, <2>3 DEF PageFails, PagePanics, AnswerList, AnswerRow
    <3> QED
      BY <1>1, <1>5, <3>1 DEF Unlock, AsksRight
  <2>4. CASE GrantPage(x) \/ Connect(x) \/ Stream(x)
    BY <1>5, <2>4 DEF GrantPage, Connect, Stream, Take, Deliver, DeliveryPanics, Lag, pages
  <2> QED
    BY <1>5, <2>1, <2>2, <2>3, <2>4, <2>5, VisitEnds DEF BrowserStep, Serve
<1>6. \/ UNCHANGED request \/ ServerGone \/ \E x \in Browsers : BrowserStep(x)
  BY DEF FeedNext, FeedPublish, FeedMonitor, FeedFaults, AskToWrite, FeedReceive, FeedInstall,
         FeedBroadcast, FeedMonitorSteps, FeedPanic, BrowserStep, allVars, feed, pages
<1> QED
  BY <1>3, <1>4, <1>5, <1>6

\* What is newly pending is the event the monitor has just broadcast.
LEMMA NewlyPending ==
    ASSUME BrowserTypes, [FeedNext]_allVars, NEW b \in Browsers, NEW m \in Pending(b)'
    PROVE  m \in Pending(b) \/ (FeedBroadcast /\ m = Message)
<1>1. m # Absent /\ (m = inhand'[b] \/ m \in Elements(inbox'[b]))
  BY DEF Pending, Elements
<1>2. ASSUME m = inhand[b] \/ m \in Elements(inbox[b]) PROVE m \in Pending(b)
  BY <1>1, <1>2 DEF Pending
<1>3. PICK s : s = inbox[b]
  OBVIOUS
<1>4. s \in Seq(MessageType) /\ inbox[b] = s
  BY <1>3 DEF BrowserTypes
<1>5. CASE inbox'[b] = inbox[b] /\ (inhand'[b] = inhand[b] \/ inhand'[b] = Absent)
  BY <1>1, <1>2, <1>5
<1>6. CASE inbox'[b] = << >> /\ inhand'[b] = Absent
  BY <1>1, <1>6, ElementsOfNone
<1>7. CASE Take(b)
  <2>1. /\ s # << >> /\ inhand'[b] = Head(s) /\ inbox'[b] = Tail(s)
    BY <1>3, <1>7 DEF Take, BrowserTypes
  <2>2. Elements(s) = {Head(s)} \cup Elements(Tail(s))
    BY <1>4, <2>1, ElementsOfTail
  <2> QED
    BY <1>1, <1>2, <1>3, <2>1, <2>2
<1>8. CASE FeedBroadcast
  <2>1. PICK e : e = Message
    OBVIOUS
  <2>2. inhand'[b] = inhand[b]
    BY <1>8 DEF FeedBroadcast
  <2>3. ASSUME NEW q \in Seq(MessageType), NEW x, x \in Elements(Append(q, e))
        PROVE  x \in Elements(q) \/ x = e
    <3>1. /\ DOMAIN Append(q, e) = 1 .. Len(q) + 1 /\ DOMAIN q = 1 .. Len(q) /\ Len(q) \in Nat
          /\ Append(q, e)[Len(q) + 1] = e
          /\ \A i \in 1 .. Len(q) : Append(q, e)[i] = q[i]
      OBVIOUS
    <3>2. PICK i \in 1 .. Len(q) + 1 : x = Append(q, e)[i]
      BY <2>3, <3>1 DEF Elements
    <3> QED
      BY <3>1, <3>2 DEF Elements
  <2>4. CASE inbox'[b] = s
    BY <1>1, <1>2, <1>3, <2>2, <2>4
  <2>5. CASE inbox'[b] = Append(s, e)
    BY <1>1, <1>2, <1>3, <1>4, <1>8, <2>1, <2>2, <2>3, <2>5
  <2>6. CASE inbox'[b] = Append(Tail(s), e) /\ ~(Len(s) < Capacity)
    <3>1. s # << >>
      BY <2>6, FeedAssumption
    <3>2. Tail(s) \in Seq(MessageType) /\ Elements(Tail(s)) \subseteq Elements(s)
      BY <1>4, <3>1, ElementsOfTail
    <3> QED
      BY <1>1, <1>2, <1>3, <1>8, <2>1, <2>2, <2>3, <2>6, <3>2
  <2>7. \/ inbox'[b] = s \/ inbox'[b] = Append(s, e)
        \/ inbox'[b] = Append(Tail(s), e) /\ ~(Len(s) < Capacity)
    BY <1>3, <1>8, <2>1 DEF FeedBroadcast
  <2> QED
    BY <2>4, <2>5, <2>6, <2>7
<1>9. ASSUME NEW x \in Browsers, BrowserStep(x), ~ServerGone, x # b \/ ~Take(x)
      PROVE  \/ inbox'[b] = inbox[b] /\ (inhand'[b] = inhand[b] \/ inhand'[b] = Absent)
             \/ inbox'[b] = << >> /\ inhand'[b] = Absent
  <2>1. CASE UNCHANGED channel \/ Connect(x)
    BY <2>1 DEF channel, Connect
  <2>2. CASE CloseStream(x) \/ Take(x) \/ Deliver(x)
    BY <1>9, <2>2 DEF CloseStream, Take, Deliver, BrowserTypes
  <2>3. UNCHANGED channel \/ CloseStream(x) \/ Connect(x) \/ Take(x) \/ Deliver(x)
    BY <1>9 DEF BrowserStep, AskForList, AskForRow, Visit, Serve, GrantPage, PageFails,
                PagePanics, AnswerList, AnswerRow, AnswerVisit, Stream, DeliveryPanics, Lag
  <2> QED
    BY <2>1, <2>2, <2>3
<1>10. CASE ServerGone
  BY <1>6, <1>10 DEF ServerGone, NoBrowsers
<1>11. UNCHANGED channel \/ ServerGone \/ FeedBroadcast \/ \E x \in Browsers : BrowserStep(x)
  BY DEF FeedNext, FeedPublish, FeedMonitor, FeedFaults, AskToWrite, FeedReceive, FeedInstall,
         FeedMonitorSteps, FeedPanic, BrowserStep, allVars, feed
<1> QED
  BY <1>5, <1>6, <1>7, <1>8, <1>9, <1>10, <1>11 DEF channel

\* An entry the copy has was made by its creation, or by a whole snapshot.
LEMMA EntriesHaveCreators ==
    ASSUME BaseInv, FollowInv, CalmInv, Calm, at # "snapshot",
           NEW c \in Coins, cache.shitcoins[c] # Absent
    PROVE  cache.shitcoins[c].creator
<1>1. connected /\ ~gap /\ (at = "subscribe" \/ Subscribed)
  BY DEF CalmInv, Calm, BaseInv, MonitorInv, WebTypeOK, Subscribed
<1>2. CASE at = "subscribe"
  <2>1. cache.shitcoins[c] = OnChainMeta(c)
    BY <1>1, <1>2 DEF FollowInv, CacheAgrees
  <2> QED
    BY <2>1 DEF OnChainMeta
<1>3. CASE Subscribed
  <2>1. CoinCovered(c)
    BY <1>1, <1>3 DEF FollowInv, Covered
  <2> QED
    BY <2>1 DEF CoinCovered
<1> QED
  BY <1>1, <1>2, <1>3

\* The messages have a creator as well.
LEMMA MessagesHaveCreators ==
    ASSUME CopyInv, KnownInv, TablesInv, OnwardInv, CalmInv, [FeedNext]_allVars, Calm',
           NEW b \in Browsers, NEW m \in Pending(b)'
    PROVE  m.meta.creator
<1>1. Calm \/ ServerGone
  BY StaysCalm DEF CopyInv, OnwardInv, Calm
<1>2. CASE ServerGone
  <2>1. inbox'[b] = << >> /\ inhand'[b] = Absent
    BY <1>2 DEF ServerGone, NoBrowsers
  <2> QED
    BY <2>1, ElementsOfNone DEF Pending, Elements
<1>3. CASE Calm /\ m \in Pending(b)
  BY <1>3 DEF CalmInv
<1>4. CASE Calm /\ FeedBroadcast /\ m = Message
  <2>1. at = "timestamp" /\ event \in EventType /\ cache.shitcoins[event.coin] # Absent
    BY <1>4 DEF FeedBroadcast, Broadcast, TablesInv, MetaInv, CopyInv, BaseInv, MonitorInv,
                WebTypeOK
  <2>2. cache.shitcoins[event.coin].creator
    BY <1>4, <2>1, EntriesHaveCreators DEF CopyInv, EventType
  <2> QED
    BY <1>4, <2>2 DEF Message, Meta
<1> QED
  BY <1>1, <1>2, <1>3, <1>4, NewlyPending DEF TablesInv

\* Every step keeps the copy calm.
LEMMA CalmKept ==
    ASSUME CopyInv, KnownInv, TablesInv, OnwardInv, LockInv, CalmInv, [FeedNext]_allVars
    PROVE  CalmInv'
<1>1. DoorInv /\ BaseInv /\ OrderInv
  BY DEF OnwardInv, CopyInv
<1>2. /\ (faults = 0)' => connected' /\ (at' = "snapshot" => ~serving' /\ cache' = EmptyState)
      /\ Calm' => at' # "dead"
  BY <1>1, StaysCalm DEF Calm
<1>3. ASSUME Calm' PROVE (\A c \in Elements(cache.indexes) : There(c))'
  <2>1. Elements(cache'.indexes) = Elements(cache.indexes)'
    BY DEF Elements
  <2> QED
    BY <1>1, <1>3, <2>1, ListedStayThere
<1>4. ASSUME NEW b \in Browsers
      PROVE  AsksRight(b)' /\ (Calm' => (\A m \in Pending(b) : m.meta.creator)')
  BY <1>4, AskedRight, MessagesHaveCreators
<1> QED
  BY <1>2, <1>3, <1>4 DEF CalmInv

\* A page can be rendered, or is of a coin without an entry that somebody asked for
\* by its address.
RendersOrVisits(b) ==
    PageRenders(request[b]) \/
       (request[b].page = "visit" /\ cache.shitcoins[request[b].coin] = Absent)

\* What pages and events unwrap is there.
LEMMA NothingMissing ==
    ASSUME CopyInv, KnownInv, TablesInv, OnwardInv, LockInv, CalmInv
    PROVE  NothingPanics
<1> SUFFICES ASSUME Calm
             PROVE  /\ EventsAreAboutKnownCoins
                    /\ \A b \in readers : RendersOrVisits(b)
                    /\ \A b \in Browsers : inhand[b] # Absent => inhand[b].meta.creator
  BY DEF NothingPanics, RendersOrVisits, Calm
<1>1. EventsAreAboutKnownCoins
  BY NothingUnknown DEF KnownWithoutGap, Calm, CopyInv
<1>2. \A b \in Browsers : inhand[b] # Absent => inhand[b].meta.creator
  BY DEF CalmInv, Pending
<1>3. ASSUME NEW b \in readers PROVE RendersOrVisits(b)
  <2>1. b \in Browsers /\ serving /\ at \notin {"query", "snapshot"}
    BY <1>3 DEF LockInv, QueueHoldsWhoWaits, Written, OnwardInv, DoorInv, CalmInv, Calm
  <2>2. request[b] # Absent /\ AsksRight(b)
    BY <1>3, <2>1 DEF LockInv, QueueHoldsWhoWaits, CalmInv
  <2>3. \A c \in Coins : cache.shitcoins[c] # Absent => Renders(c)
    BY <2>1, EntriesHaveCreators DEF Renders, CopyInv
  <2>4. CASE \E w \in Visitors : request[b] = ListPage(w)
    <3>1. cache.indexes \in Seq(Coins)
      BY DEF CopyInv, BaseInv, MonitorInv, WebTypeOK, StateType
    <3>2. ASSUME NEW i \in DOMAIN cache.indexes PROVE Renders(cache.indexes[i])
      <4>1. cache.indexes[i] \in Coins /\ There(cache.indexes[i])
        BY <3>1 DEF CalmInv, Elements
      <4> QED
        BY <2>1, <2>3, <4>1 DEF There
    <3>3. request[b].page = "list"
      BY <2>4 DEF ListPage
    <3> QED
      BY <3>2, <3>3 DEF PageRenders, RendersOrVisits
  <2>5. ASSUME NEW c \in Coins, request[b] = RowPage(c), cache.shitcoins[c] # Absent
        PROVE  RendersOrVisits(b)
    <3>1. request[b].page = "row" /\ request[b].coin = c
      BY <2>5 DEF RowPage
    <3> QED
      BY <2>3, <2>5, <3>1 DEF PageRenders, RendersOrVisits
  <2>6. ASSUME NEW c \in Coins, request[b] = VisitPage(c)
        PROVE  RendersOrVisits(b)
    <3>1. request[b].page = "visit" /\ request[b].coin = c
      BY <2>6 DEF VisitPage
    <3> QED
      BY <2>3, <3>1 DEF PageRenders, RendersOrVisits
  <2> QED
    BY <2>2, <2>4, <2>5, <2>6 DEF AsksRight
<1> QED
  BY <1>1, <1>2, <1>3

\* At the start.
LEMMA CalmAtStart ==
    ASSUME FeedInit
    PROVE  KnownInv /\ CalmInv
<1>1. /\ at = "snapshot" /\ cache = EmptyState /\ ~serving /\ connected
      /\ \A b \in Browsers : request[b] = Absent /\ inhand[b] = Absent /\ inbox[b] = << >>
  BY DEF FeedInit, WebInit
<1>2. cache.indexes = << >>
  BY <1>1 DEF EmptyState
<1> QED
  BY <1>1, <1>2, ElementsOfNone DEF KnownInv, Subscribed, CalmInv, AsksRight, Pending

\* The server panics only at a visit to the address of a coin it has no entry of, or
\* after a message that fell into a gap or a failure: without them the handlers of
\* events, every list, every row that loads itself again and every event of a browser
\* find what they unwrap, for any number of browsers and visits, also for those that
\* still show the table of an earlier process.
THEOREM OnlyGapsPanic == FeedSpec => []NothingPanics
<1> DEFINE Inv == CopyInv /\ KnownInv /\ TablesInv /\ OnwardInv /\ LockInv /\ CalmInv
<1>1. FeedInit => Inv
  BY CopyAtStart, TablesAtStart, OnwardAtStart, LockAtStart, CalmAtStart DEF FeedInit
<1>2. Inv /\ [FeedNext]_allVars => Inv'
  <2> SUFFICES ASSUME Inv, [FeedNext]_allVars PROVE Inv'
    OBVIOUS
  <2>1. CopyInv' /\ KnownInv'
    BY StepsOfTheCopy, CopyKept, KnownKept DEF CopyInv
  <2>2. TablesInv' /\ OnwardInv'
    BY TablesKept, OnwardKept
  <2>3. LockInv'
    BY LockKept DEF CopyInv, TablesInv, OnwardInv
  <2>4. CalmInv'
    BY CalmKept
  <2> QED
    BY <2>1, <2>2, <2>3, <2>4
<1>3. Inv => NothingPanics
  BY NothingMissing
<1> HIDE DEF Inv
<1> QED
  BY <1>1, <1>2, <1>3, PTL DEF FeedSpec
-----------------------------------------------------------------------------
(***************************************************************************)
(* Whoever waits gets on.                                                  *)
(***************************************************************************)

\* Those a task waits for.
AheadOf(w) ==
    {v \in ToSet(queue) : \E i, j \in DOMAIN queue : i < j /\ queue[i] = v /\ queue[j] = w}

\* While a task waits, those ahead of it become fewer and nobody comes in between.
NobodyOvertakes ==
    [][\A w \in ToSet(queue) \cap ToSet(queue') : AheadOf(w)' \subseteq AheadOf(w)]_allVars

\* Who may have what it waits for: a page under the lock, whose node answers or
\* times out; the monitor under the lock, with a query to ask or its answers to
\* store; or the first in the queue, who is there to take the lock and use it.
SomebodyGetsOn ==
    \/ readers # {}
    \/ Written /\ (pending = {} \/ \E field \in pending : AskedBefore(field) \cap pending = {})
    \/ Granted(MonitorWaits) /\ NeedsLock
    \/ \E b \in Browsers :
          \/ Granted(PageWaits(b)) /\ request[b] # Absent
          \/ Granted(EventWaits(b)) /\ inhand[b] # Absent

\* A queue that keeps its order: one more at its end, or one less.
LEMMA OrderOfOneMore ==
    ASSUME queue \in Seq(Tasks), NEW v \in Tasks, ~InQueue(v), queue' = Append(queue, v),
           NEW w \in ToSet(queue)
    PROVE  AheadOf(w)' \subseteq AheadOf(w)
<1>1. /\ DOMAIN queue' = 1 .. Len(queue) + 1 /\ DOMAIN queue = 1 .. Len(queue) /\ Len(queue) \in Nat
      /\ queue'[Len(queue) + 1] = v /\ \A i \in 1 .. Len(queue) : queue'[i] = queue[i]
  OBVIOUS
<1>2. w # v
  BY DEF InQueue
<1>3. ASSUME NEW i \in DOMAIN queue', NEW j \in DOMAIN queue', i < j, queue'[j] = w
      PROVE  queue'[i] \in AheadOf(w)
  <2>1. j \in 1 .. Len(queue) /\ i \in 1 .. Len(queue)
    BY <1>1, <1>2, <1>3
  <2>2. queue'[i] = queue[i] /\ queue[j] = w /\ queue[i] \in ToSet(queue)
    BY <1>1, <1>3, <2>1 DEF ToSet
  <2> QED
    BY <1>1, <1>3, <2>1, <2>2 DEF AheadOf
<1> QED
  BY <1>3 DEF AheadOf

\* The same of a queue that one of those who wait has left.
LEMMA OrderOfOneLess ==
    ASSUME queue \in Seq(Tasks), NEW k \in DOMAIN queue, queue' = RemoveAt(queue, k), NEW w
    PROVE  AheadOf(w)' \subseteq AheadOf(w)
<1>1. DOMAIN queue = 1 .. Len(queue) /\ Len(queue) \in Nat
  OBVIOUS
<1> DEFINE place(x) == IF x < k THEN x ELSE x + 1
<1>2. /\ DOMAIN queue' = 1 .. Len(queue) - 1
      /\ \A x \in DOMAIN queue' : place(x) \in DOMAIN queue /\ queue'[x] = queue[place(x)]
  <2>1. /\ Len(queue') = Len(queue) - 1 /\ queue' \in Seq(Tasks)
        /\ \A x \in 1 .. Len(queue) - 1 : queue'[x] = IF x < k THEN queue[x] ELSE queue[x + 1]
    BY OneRemoved
  <2> QED
    BY <1>1, <2>1
<1>3. ASSUME NEW i \in DOMAIN queue', NEW j \in DOMAIN queue', i < j, queue'[j] = w
      PROVE  queue'[i] \in AheadOf(w)
  <2>1. place(i) < place(j)
    BY <1>1, <1>2, <1>3
  <2> HIDE DEF place
  <2>2. /\ queue'[i] = queue[place(i)] /\ queue[place(j)] = w
        /\ place(i) \in DOMAIN queue /\ place(j) \in DOMAIN queue
    BY <1>2, <1>3
  <2>3. queue'[i] \in ToSet(queue)
    BY <2>2 DEF ToSet
  <2> QED
    BY <2>1, <2>2, <2>3 DEF AheadOf
<1> QED
  BY <1>3 DEF AheadOf

\* What a step does to the queue.
LEMMA QueueSteps ==
    ASSUME LockInv, DoorInv, BrowserTypes, [FeedNext]_allVars
    PROVE  \/ queue' = queue \/ queue' = << >>
           \/ \E w \in Tasks : ~InQueue(w) /\ Ask(w)
           \/ \E w \in Tasks : Leave(w)
<1> DEFINE Moves == \/ queue' = queue \/ queue' = << >>
                    \/ \E w \in Tasks : ~InQueue(w) /\ Ask(w)
                    \/ \E w \in Tasks : Leave(w)
<1>1. CASE UNCHANGED feed \/ ServerGone \/ FeedBroadcast
  BY <1>1 DEF feed, locking, ServerGone, NoBrowsers, FeedBroadcast
<1>2. CASE AskToWrite \/ FeedReceive \/ FeedInstall
  BY <1>2, TasksDiffer DEF AskToWrite, FeedReceive, FeedInstall
<1>3. ASSUME NEW b \in Browsers, BrowserStep(b), ~ServerGone PROVE Moves
  <2>1. PageWaits(b) \in Tasks /\ EventWaits(b) \in Tasks
    BY TasksDiffer
  <2>2. /\ request[b] = Absent => ~InQueue(PageWaits(b))
        /\ inhand[b] = Absent => ~InQueue(EventWaits(b))
    BY DEF LockInv, QueueHoldsWhoWaits
  <2>3. CASE \/ \E w \in Visitors : AskForList(b, w)
             \/ \E c \in Coins : AskForRow(b, c) \/ Visit(b, c)
    BY <2>1, <2>2, <2>3 DEF AskForList, AskForRow, Visit
  <2>4. CASE GrantPage(b) \/ PageFails(b) \/ PagePanics(b) \/ Connect(b)
    BY <1>3, <2>1, <2>4 DEF GrantPage, PageFails, PagePanics, Connect, locking
  <2>5. CASE (\E w \in Visitors : AnswerList(b, w)) \/ (\E c \in Coins : AnswerRow(b, c))
    BY <2>1, <2>5 DEF AnswerList, AnswerRow, CloseStream
  <2>6. CASE Take(b)
    BY <2>1, <2>2, <2>6 DEF Take
  <2>7. CASE Deliver(b) \/ DeliveryPanics(b) \/ Lag(b)
    BY <1>3, <2>1, <2>7 DEF Deliver, DeliveryPanics, Lag, CloseStream
  <2> QED
    BY <1>3, <2>3, <2>4, <2>5, <2>6, <2>7, VisitEnds DEF BrowserStep, Serve, Stream
<1>4. CASE UNCHANGED allVars
  BY <1>1, <1>4 DEF allVars
<1> QED
  BY <1>1, <1>2, <1>3, <1>4
     DEF FeedNext, FeedPublish, FeedMonitor, FeedMonitorSteps, FeedPanic, FeedFaults, BrowserStep

\* Nobody gets ahead of one who waits.
LEMMA StaysBehindOnlyThose ==
    ASSUME LockInv, DoorInv, BrowserTypes, [FeedNext]_allVars,
           NEW w \in ToSet(queue) \cap ToSet(queue')
    PROVE  AheadOf(w)' \subseteq AheadOf(w)
<1>1. queue \in Seq(Tasks)
  BY DEF LockInv
<1>2. CASE queue' = queue
  BY <1>2 DEF AheadOf
<1>3. CASE queue' = << >>
  BY <1>3 DEF ToSet
<1>4. CASE \E v \in Tasks : ~InQueue(v) /\ Ask(v)
  BY <1>1, <1>4, OrderOfOneMore DEF Ask
<1>5. ASSUME NEW v \in Tasks, Leave(v) PROVE AheadOf(w)' \subseteq AheadOf(w)
  <2>1. CASE InQueue(v)
    <3>1. PICK k \in DOMAIN queue : queue' = RemoveAt(queue, k)
      BY <1>5, <2>1 DEF Leave
    <3> QED
      BY <1>1, <3>1, OrderOfOneLess
  <2>2. CASE ~InQueue(v)
    BY <1>2, <1>5, <2>2 DEF Leave
  <2> QED
    BY <2>1, <2>2
<1> QED
  BY <1>2, <1>3, <1>4, <1>5, QueueSteps

\* Of the queries that are left, one is not asked after another.
LEMMA SomeQueryNext ==
    ASSUME BaseInv, Written, pending # {}
    PROVE  \E field \in pending : AskedBefore(field) \cap pending = {}
<1>1. pending \subseteq Queries(event.kind) /\ event \in EventType
  BY DEF BaseInv, MonitorInv, WebTypeOK, Written
<1>2. pending \subseteq {"end", "raise", "launched", "url", "submission"}
  BY <1>1 DEF Queries, EventType, Kinds
<1>3. CASE pending \cap {"end", "raise", "launched"} # {}
  <2>1. PICK field \in pending : field \in {"end", "raise", "launched"}
    BY <1>3
  <2>2. AskedBefore(field) = {}
    BY <2>1 DEF AskedBefore
  <2> QED
    BY <2>1, <2>2
<1>4. CASE pending \cap {"end", "raise", "launched"} = {}
  <2>1. PICK field \in pending : field \in {"url", "submission"}
    BY <1>2, <1>4
  <2>2. AskedBefore(field) \subseteq {"end", "raise", "launched"}
    BY <2>1 DEF AskedBefore
  <2> QED
    BY <1>4, <2>1, <2>2
<1> QED
  BY <1>3, <1>4

\* The lock is never stuck.
LEMMA TheFirstGetsOn ==
    ASSUME BaseInv, LockInv, queue # << >>
    PROVE  SomebodyGetsOn
<1>1. PICK first : first = Head(queue)
  OBVIOUS
<1>2. first \in Tasks /\ first \in ToSet(queue)
  <2>1. queue \in Seq(Tasks)
    BY DEF LockInv
  <2>2. first = queue[1] /\ 1 \in DOMAIN queue /\ queue[1] \in Tasks
    BY <1>1, <2>1
  <2> QED
    BY <2>2 DEF ToSet
<1>3. CASE readers # {}
  BY <1>3 DEF SomebodyGetsOn
<1>4. CASE Written
  BY <1>4, SomeQueryNext DEF SomebodyGetsOn
<1>5. CASE readers = {} /\ ~Written
  <2>1. Granted(first)
    BY <1>1, <1>5 DEF Granted
  <2>2. CASE first = MonitorWaits
    BY <1>2, <2>1, <2>2 DEF SomebodyGetsOn, LockInv, QueueHoldsWhoWaits, InQueue
  <2>3. ASSUME NEW b \in Browsers, first = PageWaits(b) \/ first = EventWaits(b)
        PROVE  SomebodyGetsOn
    <3>1. /\ first = PageWaits(b) => request[b] # Absent
          /\ first = EventWaits(b) => inhand[b] # Absent
      BY <1>2, <2>3 DEF LockInv, QueueHoldsWhoWaits, InQueue
    <3> QED
      BY <2>1, <2>3, <3>1 DEF SomebodyGetsOn
  <2> QED
    BY <1>2, <2>2, <2>3 DEF Tasks
<1> QED
  BY <1>3, <1>4, <1>5

\* What the pages' liveness rests on: as long as somebody waits for the lock
\* somebody who has it, or is first for it, can go on; and whoever waits is
\* overtaken by nobody.
THEOREM LockNeverStuck == FeedSpec => [](queue # << >> => SomebodyGetsOn) /\ NobodyOvertakes
<1> DEFINE Inv == CopyInv /\ TablesInv /\ OnwardInv /\ LockInv
           Fair == \A w \in ToSet(queue) \cap ToSet(queue') : AheadOf(w)' \subseteq AheadOf(w)
<1>1. FeedInit => Inv
  BY CopyAtStart, TablesAtStart, OnwardAtStart, LockAtStart DEF FeedInit
<1>2. Inv /\ [FeedNext]_allVars => Inv'
  BY StepsOfTheCopy, CopyKept, TablesKept, OnwardKept, LockKept DEF CopyInv, TablesInv, OnwardInv
<1>3. Inv => (queue # << >> => SomebodyGetsOn)
  BY TheFirstGetsOn DEF CopyInv
<1>4. Inv /\ [FeedNext]_allVars => [Fair]_allVars
  BY StaysBehindOnlyThose DEF TablesInv, OnwardInv
<1> HIDE DEF Inv, Fair
<1>5. FeedSpec => [](queue # << >> => SomebodyGetsOn) /\ [][Fair]_allVars
  BY <1>1, <1>2, <1>3, <1>4, PTL DEF FeedSpec
<1> QED
  BY <1>5 DEF NobodyOvertakes, Fair
=============================================================================
