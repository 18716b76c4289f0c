-------------------------------- MODULE Feed --------------------------------
(***************************************************************************)
(* The pages of the web server and the browsers that show them, beside the *)
(* monitor of WebCache.  The monitor and the page handlers share one       *)
(* read-write lock, which tokio hands out in the order it was asked for; a *)
(* page handler keeps it while it asks the node for the time and, for a    *)
(* degen, the balance.  The events of the monitor reach the browsers by a  *)
(* broadcast channel that keeps the latest Capacity of them, and for a     *)
(* degen each event waits for the lock once more before it is rendered.    *)
(*                                                                         *)
(* A browser shows one table: it loads the list, subscribes to the events, *)
(* and a row loads itself again when its countdown is over.                *)
(***************************************************************************)
EXTENDS WebCache, SequencesExt

CONSTANTS
    Browsers,
    Visitors,       \* who looks at the site: degens, or Absent without a wallet
    MaxVisits,      \* bound: rows asked for by their address
    Capacity        \* 20 in the code, which tokio rounds up to 32

\* What the browsers are told.
MessageType ==
    [kind : Kinds, coin : Coins, degen : Degens \cup {Absent}, meta : {Absent} \cup MetaType]

\* What they show, a row for each coin.
RowType == [coin : Coins, meta : {Absent} \cup MetaType, degen : {Absent} \cup DegenType]

ASSUME FeedAssumption ==
    /\ Capacity \in Nat \ {0} /\ MaxVisits \in Nat /\ Visitors \subseteq Degens \cup {Absent}
    /\ Absent \notin MessageType /\ Absent \notin Seq(RowType)
    /\ Absent \notin [page : {"list"}, degen : Visitors]
    /\ Absent \notin [page : {"row", "visit"}, coin : Coins]

VARIABLES
    serving,        \* the first snapshot is there and pages are answered
    queue,          \* who waits for the lock, in the order of asking
    readers,        \* browsers whose page handler holds it
    visits,         \* rows asked for by their address so far
    request,        \* the page a browser has asked for
    who,            \* the degen of the list a browser shows, if any
    table,          \* the rows it shows, Absent before its first list
    subscribed,     \* it has a receiver of the broadcast channel
    inbox,          \* the events the channel keeps for it
    lagged,         \* events it had not received were overwritten
    inhand,         \* the event being turned into a row
    behind,         \* history: a change this table may not have been told of
    overtaken       \* history: a row was loaded again past waiting events

locking == <<queue, readers>>
channel == <<subscribed, inbox, lagged, inhand>>
pages == <<request, who, table, behind, overtaken>>
feed == <<serving, visits, locking, channel, pages>>
allVars == <<vars, feed>>

MonitorWaits == [task |-> "monitor"]
PageWaits(b) == [task |-> "page", browser |-> b]
EventWaits(b) == [task |-> "event", browser |-> b]

\* The monitor has the write lock from an event's arrival until its answers
\* are stored.
Written == at = "query"

\* Mutant: a lock that lets readers in past a waiting writer.
GrantedToReaders(w) ==
    /\ w \in ToSet(queue) /\ ~Written
    /\ w = MonitorWaits => readers = {}

\* Mutant: a lock that wakes up whoever came last.
GrantedToLast(w) ==
    /\ queue # << >> /\ Last(queue) = w /\ ~Written
    /\ w = MonitorWaits => readers = {}

\* Mutant: a monitor that lets go of the lock while it asks the node.
GrantedWhileWritten(w) ==
    /\ queue # << >> /\ Head(queue) = w
    /\ w = MonitorWaits => readers = {}

\* The first in the queue gets the lock, the writer when no reader has it.
Granted(w) ==
    /\ queue # << >> /\ Head(queue) = w /\ ~Written
    /\ w = MonitorWaits => readers = {}

Ask(w) == queue' = Append(queue, w)

InQueue(w) == w \in ToSet(queue)

Leave(w) ==
    IF InQueue(w) THEN \E i \in DOMAIN queue : queue[i] = w /\ queue' = RemoveAt(queue, i)
    ELSE UNCHANGED queue

NoBrowsers ==
    /\ queue' = << >> /\ readers' = {}
    /\ request' = [b \in Browsers |-> Absent]
    /\ subscribed' = [b \in Browsers |-> FALSE]
    /\ inbox' = [b \in Browsers |-> << >>]
    /\ lagged' = [b \in Browsers |-> FALSE]
    /\ inhand' = [b \in Browsers |-> Absent]

\* With the process every connection ends; what the browsers show stays.
ServerGone ==
    /\ serving' = FALSE
    /\ NoBrowsers
    /\ behind' = [b \in Browsers |-> TRUE]
    /\ UNCHANGED <<visits, who, table, overtaken>>
-----------------------------------------------------------------------------
(***************************************************************************)
(* The monitor and the lock.                                               *)
(***************************************************************************)

\* An event has arrived, or a snapshot is complete.
NeedsLock ==
    \/ at = "listen" /\ stream # << >>
    \/ at = "snapshot" /\ page > Len(KeyPrefixes)

AskToWrite ==
    /\ serving /\ NeedsLock /\ ~InQueue(MonitorWaits)
    /\ Ask(MonitorWaits)
    /\ UNCHANGED <<vars, serving, visits, readers, channel, pages>>

FeedReceive ==
    /\ Granted(MonitorWaits)
    /\ Receive
    /\ Leave(MonitorWaits)
    /\ UNCHANGED <<serving, visits, readers, channel, pages>>

\* The first snapshot is there before the lock is.
FeedInstall ==
    /\ serving => Granted(MonitorWaits)
    /\ InstallSnapshot
    /\ Leave(MonitorWaits)
    /\ serving' = TRUE
    /\ behind' = [b \in Browsers |-> TRUE]
    /\ UNCHANGED <<visits, readers, channel, request, who, table, overtaken>>

\* What the monitor tells the browsers: the coin as it was stored.
Message == [kind |-> event.kind, coin |-> event.coin, degen |-> event.degen, meta |-> Meta]

\* The channel keeps the latest events and marks the receivers who lost some.
FeedBroadcast ==
    /\ Broadcast
    /\ inbox' = [b \in Browsers |->
          IF ~subscribed[b] THEN inbox[b]
          ELSE IF Len(inbox[b]) < Capacity THEN Append(inbox[b], Message)
          ELSE Append(Tail(inbox[b]), Message)]
    /\ lagged' = [b \in Browsers |->
          lagged[b] \/ (subscribed[b] /\ Len(inbox[b]) = Capacity)]
    /\ behind' = [b \in Browsers |-> behind[b] \/ ~subscribed[b]]
    /\ UNCHANGED <<serving, visits, locking, subscribed, inhand, request, who, table, overtaken>>

\* These take no lock: they read the storage, talk to the node, or finish
\* under the lock the monitor has.
FeedMonitorSteps ==
    /\ ReadPage \/ Subscribe \/ Unsubscribed \/ QueryAnswers \/ Apply
    /\ UNCHANGED feed

FeedPanic ==
    /\ Panic
    /\ IF PanicAborts THEN ServerGone ELSE UNCHANGED feed

FeedMonitor ==
    \/ AskToWrite \/ FeedReceive \/ FeedInstall \/ FeedBroadcast
    \/ FeedMonitorSteps \/ FeedPanic

\* A monitor that waits for the lock waits for nothing else.
FeedFaults ==
    \/ StartOver /\ ~InQueue(MonitorWaits) /\ UNCHANGED feed
    \/ ConnectionCloses /\ UNCHANGED feed
    \/ SnapshotFails /\ ServerGone
-----------------------------------------------------------------------------
(***************************************************************************)
(* Pages.                                                                  *)
(***************************************************************************)
ListPage(w) == [page |-> "list", degen |-> w]

RowPage(c) == [page |-> "row", coin |-> c]

VisitPage(c) == [page |-> "visit", coin |-> c]

AskForList(b, w) ==
    /\ serving /\ request[b] = Absent
    /\ request' = [request EXCEPT ![b] = ListPage(w)]
    /\ Ask(PageWaits(b))
    /\ UNCHANGED <<vars, serving, visits, readers, channel, who, table, behind, overtaken>>

\* A countdown is over by the browser's clock, be it early or late, and the row
\* asks for itself.
AskForRow(b, c) ==
    /\ serving /\ request[b] = Absent
    /\ table[b] # Absent /\ \E row \in ToSet(table[b]) : row.coin = c
    /\ request' = [request EXCEPT ![b] = RowPage(c)]
    /\ Ask(PageWaits(b))
    /\ UNCHANGED <<vars, serving, visits, readers, channel, who, table, behind, overtaken>>

\* Anybody may ask for the row of any name, of a coin or not, by its address.
Visit(b, c) ==
    /\ serving /\ request[b] = Absent
    /\ visits < MaxVisits /\ visits' = visits + 1
    /\ request' = [request EXCEPT ![b] = VisitPage(c)]
    /\ Ask(PageWaits(b))
    /\ UNCHANGED <<vars, serving, readers, channel, who, table, behind, overtaken>>

GrantPage(b) ==
    /\ Granted(PageWaits(b))
    /\ readers' = readers \cup {b}
    /\ Leave(PageWaits(b))
    /\ UNCHANGED <<vars, serving, visits, channel, pages>>

\* A row of the table: the coin, and for a degen what it has in it.
Row(c, meta, w) ==
    [coin |-> c, meta |-> meta,
     degen |-> IF w = Absent THEN Absent ELSE Or(cache.degens[c][w], DefaultDegen)]

CachedRow(c, w) == Row(c, cache.shitcoins[c], w)

\* The newest coin comes first.
List(w) ==
    Reverse([i \in DOMAIN cache.indexes |-> CachedRow(cache.indexes[i], w)])

\* Rendering unwraps the entry of a coin and the end of its creator.
Renders(c) == cache.shitcoins[c] # Absent /\ cache.shitcoins[c].creator

PageRenders(r) ==
    IF r.page = "list" THEN \A i \in DOMAIN cache.indexes : Renders(cache.indexes[i])
    ELSE Renders(r.coin)

Unlock(b) ==
    /\ readers' = readers \ {b}
    /\ request' = [request EXCEPT ![b] = Absent]

\* Mutant: the stream of the list before goes on under the new list.
KeepStream(b) == UNCHANGED <<channel, queue>>

\* Mutant: the event of a stream that has ended goes on waiting for the lock.
AbandonStream(b) ==
    /\ subscribed' = [subscribed EXCEPT ![b] = FALSE]
    /\ inbox' = [inbox EXCEPT ![b] = << >>]
    /\ lagged' = [lagged EXCEPT ![b] = FALSE]
    /\ inhand' = [inhand EXCEPT ![b] = Absent]
    /\ UNCHANGED queue

\* The stream belongs to the element that is swapped: it ends with it, and its
\* event no longer waits.
CloseStream(b) ==
    /\ subscribed' = [subscribed EXCEPT ![b] = FALSE]
    /\ inbox' = [inbox EXCEPT ![b] = << >>]
    /\ lagged' = [lagged EXCEPT ![b] = FALSE]
    /\ inhand' = [inhand EXCEPT ![b] = Absent]
    /\ Leave(EventWaits(b))

AnswerList(b, w) ==
    /\ b \in readers /\ request[b] = ListPage(w) /\ PageRenders(ListPage(w))
    /\ Unlock(b)
    /\ who' = [who EXCEPT ![b] = w]
    /\ table' = [table EXCEPT ![b] = List(w)]
    /\ behind' = [behind EXCEPT ![b] = FALSE]
    /\ overtaken' = [overtaken EXCEPT ![b] = FALSE]
    /\ CloseStream(b)
    /\ UNCHANGED <<vars, serving, visits>>

\* The answer replaces the row that asked for it, or nothing when an event
\* has replaced that row in the meantime.
AnswerRow(b, c) ==
    /\ b \in readers /\ request[b] = RowPage(c) /\ PageRenders(RowPage(c))
    /\ Unlock(b)
    /\ \/ UNCHANGED <<table, overtaken>>
       \/ \E i \in DOMAIN table[b] :
             /\ table[b][i].coin = c
             /\ table' = [table EXCEPT ![b][i] = CachedRow(c, who[b])]
             /\ overtaken' = [overtaken EXCEPT ![b] =
                                @ \/ inbox[b] # << >> \/ inhand[b] # Absent]
    /\ UNCHANGED <<vars, serving, visits, queue, channel, who, behind>>

\* What comes of an address is a page of its own and replaces nothing.
AnswerVisit(b, c) ==
    /\ b \in readers /\ request[b] = VisitPage(c) /\ PageRenders(VisitPage(c))
    /\ Unlock(b)
    /\ UNCHANGED <<vars, serving, visits, queue, channel, who, table, behind, overtaken>>

\* The node does not answer in time: the browser keeps what it shows.
PageFails(b) ==
    /\ b \in readers
    /\ Unlock(b)
    /\ UNCHANGED <<vars, serving, visits, queue, channel, who, table, behind, overtaken>>

\* A panic ends a release build, and in any other only the request.
PagePanics(b) ==
    /\ b \in readers /\ ~PageRenders(request[b])
    /\ IF PanicAborts
       THEN Aborts /\ ServerGone
       ELSE /\ Unlock(b)
            /\ UNCHANGED <<vars, serving, visits, queue, channel, who, table, behind, overtaken>>

Serve(b) ==
    \/ GrantPage(b) \/ PageFails(b) \/ PagePanics(b)
    \/ \E w \in Visitors : AnswerList(b, w)
    \/ \E c \in Coins : AnswerRow(b, c) \/ AnswerVisit(b, c)
-----------------------------------------------------------------------------
(***************************************************************************)
(* Events.                                                                 *)
(***************************************************************************)

\* The list has been shown and its sse-connect is followed.
Connect(b) ==
    /\ serving /\ table[b] # Absent /\ ~subscribed[b]
    /\ subscribed' = [subscribed EXCEPT ![b] = TRUE]
    /\ UNCHANGED <<vars, serving, visits, locking, inbox, lagged, inhand, pages>>

Take(b) ==
    /\ subscribed[b] /\ inhand[b] = Absent /\ inbox[b] # << >> /\ ~lagged[b]
    /\ inhand' = [inhand EXCEPT ![b] = Head(inbox[b])]
    /\ inbox' = [inbox EXCEPT ![b] = Tail(@)]
    /\ IF who[b] = Absent THEN UNCHANGED queue ELSE Ask(EventWaits(b))
    /\ UNCHANGED <<vars, serving, visits, readers, subscribed, lagged, pages>>

\* Mutant: whatever another degen did is not for this page.
SkipsOthers(e, w) == e.degen # Absent /\ e.degen # w

\* A claim changes only the row of the claimant.
Skips(e, w) == e.kind = "ShitcoinClaimed" /\ e.degen # w

\* What the browser does with an event: a created coin is a new first row,
\* everything else replaces the rows of its coin, when there are any.
Swapped(rows, e, w) ==
    LET row == Row(e.coin, e.meta, w)
    IN  IF Skips(e, w) THEN rows
        ELSE IF e.kind = "ShitcoinCreated" THEN <<row>> \o rows
        ELSE [i \in DOMAIN rows |-> IF rows[i].coin = e.coin THEN row ELSE rows[i]]

\* The coin is as it was when the event was applied, the degen as it is now.
Deliver(b) ==
    /\ inhand[b] # Absent
    /\ IF who[b] = Absent THEN UNCHANGED queue
       ELSE Granted(EventWaits(b)) /\ Leave(EventWaits(b))
    /\ Skips(inhand[b], who[b]) \/ inhand[b].meta.creator
    /\ table' = [table EXCEPT ![b] = Swapped(@, inhand[b], who[b])]
    /\ inhand' = [inhand EXCEPT ![b] = Absent]
    /\ UNCHANGED <<vars, serving, visits, readers, subscribed, inbox, lagged, request, who, behind,
                   overtaken>>

\* The coin came from a torn snapshot and has no creator to render.
DeliveryPanics(b) ==
    /\ inhand[b] # Absent
    /\ who[b] # Absent => Granted(EventWaits(b))
    /\ ~Skips(inhand[b], who[b]) /\ ~inhand[b].meta.creator
    /\ IF PanicAborts
       THEN Aborts /\ ServerGone
       ELSE /\ CloseStream(b)
            /\ behind' = [behind EXCEPT ![b] = TRUE]
            /\ UNCHANGED <<vars, serving, visits, readers, request, who, table, overtaken>>

\* Mutant: the receiver goes on with the oldest event the channel still has.
SkipLost(b) ==
    /\ lagged[b] /\ inhand[b] = Absent
    /\ lagged' = [lagged EXCEPT ![b] = FALSE]
    /\ UNCHANGED <<vars, serving, visits, locking, subscribed, inbox, inhand, pages>>

\* The receiver reports the events it lost as an error, which ends the stream;
\* the browser connects again and is not told what it missed.
Lag(b) ==
    /\ lagged[b] /\ inhand[b] = Absent
    /\ CloseStream(b)
    /\ behind' = [behind EXCEPT ![b] = TRUE]
    /\ UNCHANGED <<vars, serving, visits, readers, request, who, table, overtaken>>

Stream(b) == Take(b) \/ Deliver(b) \/ DeliveryPanics(b) \/ Lag(b)
-----------------------------------------------------------------------------
FeedInit ==
    /\ WebInit
    /\ serving = FALSE /\ visits = 0
    /\ queue = << >> /\ readers = {}
    /\ request = [b \in Browsers |-> Absent]
    /\ who = [b \in Browsers |-> Absent]
    /\ table = [b \in Browsers |-> Absent]
    /\ subscribed = [b \in Browsers |-> FALSE]
    /\ inbox = [b \in Browsers |-> << >>]
    /\ lagged = [b \in Browsers |-> FALSE]
    /\ inhand = [b \in Browsers |-> Absent]
    /\ behind = [b \in Browsers |-> TRUE]
    /\ overtaken = [b \in Browsers |-> FALSE]

FeedPublish == Publish /\ UNCHANGED feed

FeedNext ==
    \/ (Commit \/ TimePasses) /\ UNCHANGED feed
    \/ FeedPublish
    \/ FeedMonitor
    \/ FeedFaults
    \/ \E b \in Browsers :
          \/ \E w \in Visitors : AskForList(b, w)
          \/ \E c \in Coins : AskForRow(b, c) \/ Visit(b, c)
          \/ Serve(b) \/ Connect(b) \/ Stream(b)

FeedSpec == FeedInit /\ [][FeedNext]_allVars

\* As in WebCache; and what a page or an event waits for is the lock, which is
\* granted in turn, and the node, which answers or times out.
FairFeedSpec ==
    /\ FeedSpec
    /\ WF_allVars(FeedMonitor) /\ WF_allVars(FeedPublish)
    /\ \A b \in Browsers : WF_allVars(Serve(b)) /\ WF_allVars(Stream(b))
-----------------------------------------------------------------------------
(***************************************************************************)
(* Properties.                                                             *)
(***************************************************************************)

\* A browser has worked off the events of the list it shows, and was told of
\* every change since that list was read.
CaughtUp(b) ==
    subscribed[b] /\ inbox[b] = << >> /\ inhand[b] = Absent /\ ~behind[b]

\* Such a browser shows exactly what a list loaded now would show, although
\* each row was put together from the coin at one moment and the degen at
\* another, rows were loaded again in between and events overwritten.
TablesAgree ==
    (Drained /\ ~gap) => \A b \in Browsers : CaughtUp(b) => ToSet(table[b]) = ToSet(List(who[b]))

RowGoesOn(old, new) ==
    /\ old.meta.end <= new.meta.end /\ old.meta.raise <= new.meta.raise
    /\ old.meta.url <= new.meta.url /\ (old.meta.launched => new.meta.launched)
    /\ (old.degen # Absent /\ new.degen # Absent) =>
          /\ old.degen.submission <= new.degen.submission
          /\ old.degen.claimed => new.degen.claimed

\* An event never takes a row back to an earlier state of its coin, unless the
\* row was loaded again while older events were still waiting.
EventsMoveRowsOn ==
    [][\A b \in Browsers :
          (inhand[b] # Absent /\ inhand'[b] = Absent /\ subscribed'[b] /\ ~overtaken[b]) =>
              LET added == Len(table'[b]) - Len(table[b])
              IN  \A i \in DOMAIN table[b] : RowGoesOn(table[b][i], table'[b][i + added])
      ]_allVars

\* Nobody waits behind a task that is gone: the lock's queue holds those who wait,
\* each once, a page has the lock or waits for it, and readers and the monitor keep
\* each other out, through streams that end while their event waits, pages that
\* panic and restarts.
QueueHoldsWhoWaits ==
    /\ IsInjective(queue)
    /\ Written => readers = {}
    /\ InQueue(MonitorWaits) => serving /\ NeedsLock
    /\ \A b \in Browsers :
          /\ request[b] # Absent <=> (b \in readers \/ InQueue(PageWaits(b)))
          /\ ~(b \in readers /\ InQueue(PageWaits(b)))
          /\ (inhand[b] # Absent /\ who[b] # Absent) <=> InQueue(EventWaits(b))

\* As long as nothing has failed and every message was told of by the snapshot or
\* an event, one thing makes an unwrap of the server fail: a visit to the address
\* of a coin the copy has no entry of.  The handlers of events find their entries,
\* the list and the rows that load themselves again can be rendered, also for a
\* browser whose table is older than the process, and so can every event held.
NothingPanics ==
    (~gap /\ faults = 0) =>
        /\ EventsAreAboutKnownCoins
        /\ \A b \in readers : PageRenders(request[b]) \/
              (request[b].page = "visit" /\ cache.shitcoins[request[b].coin] = Absent)
        /\ \A b \in Browsers : inhand[b] # Absent =>
              Skips(inhand[b], who[b]) \/ inhand[b].meta.creator

\* No page is kept waiting for ever, not by the monitor and not by the events
\* of the degens.
PagesAnswered == \A b \in Browsers : (request[b] # Absent) ~> (request[b] = Absent)
=============================================================================
