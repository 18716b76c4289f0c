------------------------------ MODULE WebCache ------------------------------
(***************************************************************************)
(* The web server's copy of the contract state and the task that keeps it  *)
(* up to date: read the whole storage page by page, subscribe to the       *)
(* contract's events, and for every event query what it may have changed.  *)
(* Any failure starts over.  The contract is PresaleLedger, which Garden   *)
(* implements; each of its transactions commits first and has its event    *)
(* published a little later, to whoever has subscribed by then.  A         *)
(* transaction may hold several messages, its event tells of the first.    *)
(*                                                                         *)
(* Coins are those whose ticker has no colon.  A snapshot takes the keys   *)
(* of the others for another coin's: StorageKeys shows what comes of it,   *)
(* and nothing here is claimed of a garden that has such a coin.           *)
(*                                                                         *)
(* Name, ticker and supply are written once, with the creator, and are     *)
(* left out; a url is the number of times the creator has set it.          *)
(***************************************************************************)
EXTENDS PresaleLedger, Sequences, FiniteSetsExt

CONSTANTS
    Absent,         \* no entry in a map
    MaxRaise,       \* bound: contributions stop there
    MaxUrls,        \* bound: how often the creator sets the url of a coin
    MaxFaults,      \* bound: queries and connections that fail
    MaxBacklog,     \* bound: events committed and not yet handled
    PageEnds,       \* which prefixes end a page of the storage, besides the last
    PanicAborts     \* release builds abort, others only lose the task

ASSUME WebAssumption ==
    MaxRaise \in Nat /\ MaxUrls \in Nat /\ MaxFaults \in Nat /\ MaxBacklog \in Nat
    /\ PageEnds \subseteq Nat /\ PanicAborts \in BOOLEAN

MetaType == [creator : BOOLEAN, url : Nat, end : Nat, raise : Nat, launched : BOOLEAN]

DegenType == [submission : Nat, claimed : BOOLEAN]

Kinds == {"ShitcoinCreated", "ShitcoinUrlSet", "PresaleEntered", "PresaleExtended",
          "ShitcoinLaunched", "ShitcoinClaimed"}

EventType == [kind : Kinds, coin : Coins, degen : Degens \cup {Absent}]

ASSUME AbsentAssumption ==
    Absent \notin MetaType /\ Absent \notin DegenType /\ Absent \notin EventType

VARIABLES
    url,            \* how often the creator of a coin has set its url
    listed,         \* the contract's SHITCOIN_DENOM keys, in index order
    unpublished,    \* events of committed transactions, not published yet
    stream,         \* events the subscription holds for the monitor
    connected,      \* the one connection of the process to the node's events
    at,             \* what the monitor is doing
    page,           \* the first prefix the snapshot has not read yet
    draft,          \* the snapshot so far
    event, pending, answers,    \* the event in hand, queries left and done
    cache,          \* the shared state
    faults,
    gap             \* history: a message that neither the last snapshot nor an event is
                    \* sure to tell of

chain == <<ledger, url, listed, unpublished>>
handling == <<event, pending, answers>>
snapshot == <<page, draft>>
vars == <<chain, stream, connected, at, snapshot, handling, cache, faults, gap>>
-----------------------------------------------------------------------------
\* ShitcoinMeta::default() and DegenMeta::default().
DefaultMeta == [creator |-> FALSE, url |-> 0, end |-> 0, raise |-> 0, launched |-> FALSE]

DefaultDegen == [submission |-> 0, claimed |-> FALSE]

Or(entry, default) == IF entry = Absent THEN default ELSE entry

EmptyState ==
    [indexes |-> << >>, shitcoins |-> [c \in Coins |-> Absent],
     degens |-> [c \in Coins |-> [g \in Degens |-> Absent]]]

Planted(c) == phase[c] # "none"

\* The key prefixes in the order the storage iterates them; name, supply and
\* ticker only make an entry exist, and the name does so first.
KeyPrefixes == <<"PRESALE_CLAIMED", "PRESALE_END", "PRESALE_RAISE", "PRESALE_SUBMISSION",
              "SHITCOIN_CREATOR", "SHITCOIN_DENOM", "SHITCOIN_LAUNCHED", "SHITCOIN_NAME",
              "SHITCOIN_URL">>

\* The prefixes of the keys that make an entry for a coin.
CoinPrefixes ==
    {"PRESALE_END", "PRESALE_RAISE", "SHITCOIN_CREATOR", "SHITCOIN_LAUNCHED", "SHITCOIN_NAME",
     "SHITCOIN_URL"}

\* Those of the prefixes under which the storage has a key of the coin.
KeysUnder(prefixes, c) ==
    {p \in prefixes \cap CoinPrefixes :
        /\ Planted(c)
        /\ p = "SHITCOIN_LAUNCHED" => phase[c] = "launched"
        /\ p = "SHITCOIN_URL" => url[c] > 0}

\* Mutant: an entry made anew for every page.
FreshEntry(entry) == DefaultMeta

\* entry(..).or_default(): the entry when there is one.
OrDefault(entry) == Or(entry, DefaultMeta)

\* add_model_to_state for every key of one coin, or of one degen, under the
\* prefixes: the entry is made with defaults when it is the first key seen.
ShitcoinKeys(prefixes, c, entry) ==
    LET keys == KeysUnder(prefixes, c)
        meta == OrDefault(entry)
    IN  IF keys = {} THEN entry
        ELSE [creator |-> meta.creator \/ "SHITCOIN_CREATOR" \in keys,
              url |-> IF "SHITCOIN_URL" \in keys THEN url[c] ELSE meta.url,
              end |-> IF "PRESALE_END" \in keys THEN deadline[c] ELSE meta.end,
              raise |-> IF "PRESALE_RAISE" \in keys THEN raised[c] ELSE meta.raise,
              launched |-> meta.launched \/ "SHITCOIN_LAUNCHED" \in keys]

\* Mutant: the arm for PRESALE_CLAIMED forgotten.
SubmissionKeys(prefixes, c, g, entry) ==
    IF "PRESALE_SUBMISSION" \in prefixes /\ contributed[c][g] > 0
    THEN [Or(entry, DefaultDegen) EXCEPT !.submission = contributed[c][g]] ELSE entry

\* Mutant: the arm for PRESALE_SUBMISSION forgotten.
ClaimedKeys(prefixes, c, g, entry) ==
    IF "PRESALE_CLAIMED" \in prefixes /\ g \in claimed[c]
    THEN [Or(entry, DefaultDegen) EXCEPT !.claimed = TRUE] ELSE entry

DegenKeys(prefixes, c, g, entry) ==
    LET degen == Or(entry, DefaultDegen)
        submitted == "PRESALE_SUBMISSION" \in prefixes /\ contributed[c][g] > 0
        claims == "PRESALE_CLAIMED" \in prefixes /\ g \in claimed[c]
    IN  IF ~submitted /\ ~claims THEN entry
        ELSE [submission |-> IF submitted THEN contributed[c][g] ELSE degen.submission,
              claimed |-> degen.claimed \/ claims]

AddKeys(state, prefixes) ==
    [indexes |-> IF "SHITCOIN_DENOM" \in prefixes THEN listed ELSE state.indexes,
     shitcoins |-> [c \in Coins |-> ShitcoinKeys(prefixes, c, state.shitcoins[c])],
     degens |-> [c \in Coins |-> [g \in Degens |->
                    DegenKeys(prefixes, c, g, state.degens[c][g])]]]
-----------------------------------------------------------------------------
(***************************************************************************)
(* The chain.                                                              *)
(***************************************************************************)
SetUrl(c) ==
    /\ Planted(c) /\ url[c] < MaxUrls
    /\ url' = [url EXCEPT ![c] = @ + 1]
    /\ UNCHANGED ledger

\* A message the contract executes, and the event that would tell of it.
Execute(e) ==
    \/ /\ e.kind = "ShitcoinCreated" /\ e.degen = Absent
       /\ \E t \in Deadlines : Plant(e.coin, t)
       /\ listed' = Append(listed, e.coin)
       /\ UNCHANGED url
    \/ /\ e.kind = "ShitcoinUrlSet" /\ e.degen = Absent
       /\ SetUrl(e.coin)
       /\ UNCHANGED listed
    \/ /\ UNCHANGED <<url, listed>>
       /\ \/ /\ e.kind = "PresaleEntered" /\ e.degen \in Degens
             /\ \E n \in Amounts :
                   raised[e.coin] + n <= MaxRaise /\ Contribute(e.coin, e.degen, n)
          \/ /\ e.kind = "PresaleExtended" /\ e.degen = Absent
             /\ \E t \in Deadlines : Reopen(e.coin, t)
          \/ e.kind = "ShitcoinLaunched" /\ e.degen = Absent /\ Launch(e.coin)
          \/ /\ e.kind = "ShitcoinClaimed" /\ e.degen \in Degens
             /\ Claim(e.coin, e.degen)

\* The node tells of a transaction by one event, and what the server makes of it
\* is the first message: .first() of its kinds, denoms and degens.
Emit(e) ==
    /\ Len(unpublished) + Len(stream) < MaxBacklog
    /\ unpublished' = Append(unpublished, e)
    /\ gap' = (gap \/ at = "subscribe" \/ (at = "snapshot" /\ page > 1))

\* A later message of a transaction whose event is still to come.  None tells of
\* it: only a snapshot that has not read anything yet is sure to see it.
Unannounced ==
    /\ unpublished # << >>
    /\ UNCHANGED unpublished
    /\ gap' = (gap \/ ~(at = "snapshot" /\ page = 1))

\* The messages of a transaction are taken one after the other.
Commit ==
    /\ \E e \in EventType : Execute(e) /\ (Emit(e) \/ Unannounced)
    /\ UNCHANGED <<stream, connected, at, snapshot, handling, cache, faults>>

TimePasses ==
    /\ \E c \in Coins : Close({c})
    /\ UNCHANGED <<url, listed, unpublished, stream, connected, at, snapshot, handling,
                   cache, faults, gap>>

Subscribed == at \in {"listen", "query", "timestamp"}

Publish ==
    /\ unpublished # << >>
    /\ unpublished' = Tail(unpublished)
    /\ stream' = IF Subscribed /\ connected THEN Append(stream, Head(unpublished)) ELSE stream
    /\ UNCHANGED <<ledger, url, listed, connected, at, snapshot, handling, cache, faults, gap>>
-----------------------------------------------------------------------------
(***************************************************************************)
(* The monitor.                                                            *)
(***************************************************************************)

\* Mutant: no loop around the monitor.
GiveUp ==
    /\ at' = "dead"
    /\ page' = 1 /\ draft' = EmptyState /\ stream' = << >> /\ gap' = FALSE
    /\ event' = Absent /\ pending' = {} /\ answers' = << >>

\* Mutant: the event in hand survives the failure.
StartSnapshotKeepingEvent ==
    /\ at' = "snapshot"
    /\ page' = 1 /\ draft' = EmptyState /\ stream' = << >> /\ gap' = FALSE
    /\ UNCHANGED handling

\* Leave what is being done, and the subscription with it, and read the
\* whole storage again.
StartSnapshot ==
    /\ at' = "snapshot"
    /\ page' = 1 /\ draft' = EmptyState
    /\ stream' = << >>
    /\ gap' = FALSE
    /\ event' = Absent /\ pending' = {} /\ answers' = << >>

\* The prefixes from `page` up to the end of a page of the response.
PageEnd == Min({e \in PageEnds \cup {Len(KeyPrefixes)} : e >= page})

\* A page is read at one block, the next one maybe at a later one.
ReadPage ==
    /\ at = "snapshot" /\ page <= Len(KeyPrefixes)
    /\ draft' = AddKeys(draft, {KeyPrefixes[i] : i \in page .. PageEnd})
    /\ page' = PageEnd + 1
    /\ UNCHANGED <<chain, stream, connected, at, handling, cache, faults, gap>>

InstallSnapshot ==
    /\ at = "snapshot" /\ page > Len(KeyPrefixes)
    /\ cache' = draft
    /\ at' = "subscribe"
    /\ page' = 1 /\ draft' = EmptyState
    /\ UNCHANGED <<chain, stream, connected, handling, faults, gap>>

Subscribe ==
    /\ at = "subscribe" /\ connected
    /\ at' = "listen"
    /\ UNCHANGED <<chain, stream, connected, snapshot, handling, cache, faults, gap>>

\* Without the connection subscribing fails, and a subscription made before
\* ends once what it holds is handled: the storage is read again instead.
Unsubscribed ==
    /\ ~connected
    /\ at = "subscribe" \/ (at = "listen" /\ stream = << >>)
    /\ StartSnapshot
    /\ UNCHANGED <<chain, connected, cache, faults>>

\* What the handler of an event asks the node before it touches the coin.
Queries(kind) ==
    CASE kind = "ShitcoinCreated" -> {"end", "raise", "launched", "url"}
      [] kind = "PresaleEntered" -> {"raise", "submission"}
      [] kind = "PresaleExtended" -> {"end"}
      [] kind = "ShitcoinUrlSet" -> {"url"}
      [] OTHER -> {}

\* Mutant: the index of the last coin taken for the next one.
OverwriteLastIndex(indexes, c) ==
    IF indexes = << >> THEN <<c>> ELSE [indexes EXCEPT ![Len(indexes)] = c]

\* The next index is the number of indexes there are.
AddIndex(indexes, c) == Append(indexes, c)

\* Takes the write lock.  A created coin gets its index before its metadata
\* is known.
Receive ==
    LET e == Head(stream)
    IN  /\ at = "listen" /\ stream # << >>
        /\ stream' = Tail(stream)
        /\ at' = "query"
        /\ event' = e /\ pending' = Queries(e.kind) /\ answers' = << >>
        /\ cache' = IF e.kind = "ShitcoinCreated"
                    THEN [cache EXCEPT !.indexes = AddIndex(@, e.coin)] ELSE cache
        /\ UNCHANGED <<chain, connected, snapshot, faults, gap>>

OnChain(field) ==
    CASE field = "end" -> deadline[event.coin]
      [] field = "raise" -> raised[event.coin]
      [] field = "launched" -> phase[event.coin] = "launched"
      [] field = "url" -> url[event.coin]
      [] field = "submission" -> contributed[event.coin][event.degen]

\* What has to be answered before a field is asked for: the submission of an
\* entry comes after the raise, and the metadata of a created coin is queried
\* in two batches, the url in the second.
AskedBefore(field) ==
    CASE field = "submission" -> {"raise"}
      [] field = "url" -> {"end", "raise", "launched"}
      [] OTHER -> {}

\* The queries of a batch run concurrently; each sees the block of its own.
QueryAnswers ==
    /\ at = "query"
    /\ \E field \in pending :
          /\ AskedBefore(field) \cap pending = {}
          /\ answers' = [f \in DOMAIN answers \cup {field} |->
                            IF f = field THEN OnChain(field) ELSE answers[f]]
          /\ pending' = pending \ {field}
    /\ UNCHANGED <<chain, stream, connected, at, snapshot, event, cache, faults, gap>>

Meta == cache.shitcoins[event.coin]

Degen == cache.degens[event.coin][event.degen]

\* get_mut(..).unwrap() of an entry the maps do not have.
Panics ==
    CASE event.kind = "ShitcoinCreated" -> FALSE
      [] event.kind = "ShitcoinClaimed" -> Degen = Absent \/ Meta = Absent
      [] OTHER -> Meta = Absent

\* Mutant: the answer taken for what the event added.
Accumulated(old, answer) == old + answer

\* The figure to store: the node's answer, which may already be past the event.
Stored(old, answer) == answer

\* The entry of a created coin.
CreatedMeta ==
    [creator |-> TRUE, url |-> answers["url"], end |-> answers["end"],
     raise |-> answers["raise"], launched |-> answers["launched"]]

\* The shared state once the answers are in.
Applied ==
    LET coin(meta) == [cache EXCEPT !.shitcoins[event.coin] = meta]
        k == event.kind
    IN  CASE k = "ShitcoinCreated" -> coin(CreatedMeta)
          [] k = "PresaleEntered" ->
                [coin([Meta EXCEPT !.raise = Stored(@, answers["raise"])]) EXCEPT
                    !.degens[event.coin][event.degen] =
                        [Or(Degen, DefaultDegen) EXCEPT
                            !.submission = Stored(@, answers["submission"])]]
          [] k = "PresaleExtended" -> coin([Meta EXCEPT !.end = answers["end"]])
          [] k = "ShitcoinUrlSet" -> coin([Meta EXCEPT !.url = answers["url"]])
          [] k = "ShitcoinLaunched" -> coin([Meta EXCEPT !.launched = TRUE])
          [] k = "ShitcoinClaimed" ->
                [cache EXCEPT !.degens[event.coin][event.degen].claimed = TRUE]

\* Stores the answers and releases the lock.
Apply ==
    /\ at = "query" /\ pending = {} /\ ~Panics
    /\ cache' = Applied
    /\ at' = "timestamp"
    /\ UNCHANGED <<chain, stream, connected, snapshot, handling, faults, gap>>

\* The block time is known and the event is broadcast.
Broadcast ==
    /\ at = "timestamp"
    /\ at' = "listen"
    /\ event' = Absent /\ pending' = {} /\ answers' = << >>
    /\ UNCHANGED <<chain, stream, connected, snapshot, cache, faults, gap>>
-----------------------------------------------------------------------------
(***************************************************************************)
(* What goes wrong.                                                        *)
(***************************************************************************)
Fault == faults < MaxFaults /\ faults' = faults + 1

\* A query or the subscription fails, or the node ends the subscription: `?`
\* drops the lock with whatever was written under it, and the loop starts over.
StartOver ==
    /\ Fault
    /\ \/ at \in {"listen", "subscribe", "timestamp"}
       \/ at = "query" /\ pending # {}
    /\ StartSnapshot
    /\ UNCHANGED <<chain, connected, cache>>

\* The websocket driver ends.  It is spawned once, so only a new process has
\* a connection again.
ConnectionCloses ==
    /\ connected /\ connected' = FALSE
    /\ Fault
    /\ UNCHANGED <<chain, stream, at, snapshot, handling, cache, gap>>

\* The process is gone and with it the shared state and the connection; the
\* platform starts it again with a fresh snapshot.
Restart == cache' = EmptyState /\ connected' = TRUE /\ StartSnapshot

\* A page that panics ends a release build whatever the monitor is doing; there
\* are pages in Feed.
Aborts == Restart /\ UNCHANGED <<chain, faults>>

\* exit(1), or the `?` of server() before there is anything to serve.
SnapshotFails ==
    /\ at = "snapshot" /\ page <= Len(KeyPrefixes)
    /\ Fault
    /\ Restart
    /\ UNCHANGED chain

Panic ==
    /\ at = "query" /\ pending = {} /\ Panics
    /\ \/ PanicAborts /\ Restart
       \/ /\ ~PanicAborts
          /\ at' = "dead" /\ stream' = << >>
          /\ event' = Absent /\ pending' = {} /\ answers' = << >>
          /\ UNCHANGED <<connected, snapshot, cache, gap>>
    /\ UNCHANGED <<chain, faults>>
-----------------------------------------------------------------------------
WebInit ==
    /\ Init
    /\ url = [c \in Coins |-> 0]
    /\ listed = << >> /\ unpublished = << >> /\ stream = << >>
    /\ connected = TRUE
    /\ at = "snapshot" /\ page = 1 /\ draft = EmptyState
    /\ event = Absent /\ pending = {} /\ answers = << >>
    /\ cache = EmptyState
    /\ faults = 0 /\ gap = FALSE

Monitor ==
    \/ ReadPage \/ InstallSnapshot \/ Subscribe \/ Unsubscribed \/ Receive \/ QueryAnswers
    \/ Apply \/ Broadcast \/ Panic

WebNext ==
    \/ Commit \/ TimePasses \/ Publish
    \/ Monitor
    \/ StartOver \/ ConnectionCloses \/ SnapshotFails

WebSpec == WebInit /\ [][WebNext]_vars

\* Every request of the monitor is answered or times out after five seconds
\* (the client's timeout), and the node publishes what it has committed.
FairWebSpec == WebSpec /\ WF_vars(Monitor) /\ WF_vars(Publish)
-----------------------------------------------------------------------------
(***************************************************************************)
(* Properties.                                                             *)
(***************************************************************************)
StateType ==
    [indexes : Seq(Coins),
     shitcoins : [Coins -> {Absent} \cup MetaType],
     degens : [Coins -> [Degens -> {Absent} \cup DegenType]]]

\* The monitor is in one of its states, a query is only left or answered
\* while an event is in hand, and the maps hold entries of their types.
WebTypeOK ==
    /\ cache \in StateType /\ draft \in StateType
    /\ at \in {"snapshot", "subscribe", "listen", "query", "timestamp", "dead"}
    /\ page \in 1 .. Len(KeyPrefixes) + 1
    /\ (event = Absent) = (at \notin {"query", "timestamp"})
    /\ at = "query" => pending \cap DOMAIN answers = {}
    /\ faults \in 0 .. MaxFaults /\ connected \in BOOLEAN

\* The site never shows what has not happened: no raise, submission, launch,
\* claim, deadline or url that the contract does not have yet.
NeverAhead ==
    \A c \in Coins :
        /\ LET meta == Or(cache.shitcoins[c], DefaultMeta)
           IN  /\ meta.end <= deadline[c] /\ meta.raise <= raised[c] /\ meta.url <= url[c]
               /\ meta.launched => phase[c] = "launched"
        /\ \A g \in Degens :
              LET degen == Or(cache.degens[c][g], DefaultDegen)
              IN  degen.submission <= contributed[c][g] /\ (degen.claimed => g \in claimed[c])

OnChainMeta(c) ==
    IF Planted(c) THEN [creator |-> TRUE, url |-> url[c], end |-> deadline[c],
                        raise |-> raised[c], launched |-> phase[c] = "launched"]
    ELSE Absent

CacheAgrees ==
    \A c \in Coins :
        /\ cache.shitcoins[c] = OnChainMeta(c)
        /\ \A g \in Degens : Or(cache.degens[c][g], DefaultDegen) =
              [submission |-> contributed[c][g], claimed |-> g \in claimed[c]]

Drained == connected /\ at = "listen" /\ stream = << >> /\ unpublished = << >>

\* When no message fell between the first page of the snapshot and the
\* subscription, or behind another in its transaction, the connected monitor that
\* has worked off its events has every coin and degen as the contract has them,
\* torn queries, failed queries and events the snapshot had already seen
\* notwithstanding.
DrainedAgrees == (Drained /\ ~gap) => CacheAgrees

FirstIndex(s, c) == CHOOSE i \in DOMAIN s : s[i] = c /\ \A j \in 1 .. i - 1 : s[j] # c

\* Under the same condition the site lists every coin, by first appearance in
\* the order of creation.  (It may list one twice: the snapshot and a late
\* event both bring it.)
ListsCoinsInOrder ==
    (Drained /\ ~gap) =>
        LET shown == {cache.indexes[i] : i \in DOMAIN cache.indexes}
        IN  /\ shown = {c \in Coins : Planted(c)}
            /\ \A i, j \in DOMAIN listed : i < j =>
                  FirstIndex(cache.indexes, listed[i]) < FirstIndex(cache.indexes, listed[j])

\* As long as the process lives, what the site shows of a coin or a degen never
\* goes back: not when a late event is handled, not when the storage is read anew.
NeverBackwards ==
    [][cache' # EmptyState => \A c \in Coins :
          /\ cache.shitcoins[c] # Absent =>
                LET old == cache.shitcoins[c]
                    new == cache'.shitcoins[c]
                IN  /\ new # Absent
                    /\ old.end <= new.end /\ old.raise <= new.raise /\ old.url <= new.url
                    /\ old.launched => new.launched
          /\ \A g \in Degens :
                LET old == Or(cache.degens[c][g], DefaultDegen)
                    new == Or(cache'.degens[c][g], DefaultDegen)
                IN  old.submission <= new.submission /\ (old.claimed => new.claimed)]_vars

\* When the contract comes to rest the monitor gets back to listening with
\* nothing left to handle, or, with its connection gone for good, keeps reading
\* the storage and so still shows what the contract has.
Settles == <>[](IF connected THEN Drained ELSE CacheAgrees)

\* events.rs, "release lock now shared state is updated", and the unwrap of
\* get_shitcoin: whoever gets the read lock finds an entry for every index.
IndexedCoinsHaveEntries ==
    at # "query" => \A i \in DOMAIN cache.indexes : cache.shitcoins[cache.indexes[i]] # Absent

\* The unwraps of monitor_contract_events: an event is about entries the maps
\* have.
EventsAreAboutKnownCoins == (at = "query" /\ pending = {}) => ~Panics

\* Only a message that no snapshot and no event told of makes an event's coin
\* unknown: without one the handlers find every entry they unwrap, after failures,
\* restarts and with the last events of a connection that has closed.
KnownWithoutGap == ~gap => EventsAreAboutKnownCoins
=============================================================================
