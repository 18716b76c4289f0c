--------------------------- MODULE WebCacheProofs ---------------------------
(***************************************************************************)
(* Theorems about the server's copy of the contract state, for any number  *)
(* of coins and degens, any cut of the storage into pages, any number of   *)
(* failures and any delay of the events.                                   *)
(***************************************************************************)
EXTENDS WebCache, WellFoundedInduction, TLAPS

Elements(s) == {s[i] : i \in DOMAIN s}
-----------------------------------------------------------------------------
(***************************************************************************)
(* The chain.                                                              *)
(***************************************************************************)

Launched(c) == phase[c] = "launched"

\* The keys of the contract hold values of their kind, and those of a coin are
\* nothing before it is created.
ChainInv ==
    /\ phase \in [Coins -> {"none", "open", "closed", "launched"}]
    /\ deadline \in [Coins -> Nat] /\ raised \in [Coins -> Nat] /\ url \in [Coins -> Nat]
    /\ contributed \in [Coins -> [Degens -> Nat]]
    /\ claimed \in [Coins -> SUBSET Degens]
    /\ listed \in Seq(Coins)
    /\ \A c \in Coins : \A g \in claimed[c] : contributed[c][g] # 0
    /\ \A c \in Coins : ~Planted(c) =>
          /\ deadline[c] = 0 /\ raised[c] = 0 /\ url[c] = 0 /\ claimed[c] = {}
          /\ \A g \in Degens : contributed[c][g] = 0

\* What an event says has happened.
Happened(e) ==
    /\ e \in EventType /\ Planted(e.coin)
    /\ e.kind \in {"ShitcoinLaunched", "ShitcoinClaimed"} => Launched(e.coin)
    /\ e.kind \in {"PresaleEntered", "ShitcoinClaimed"} => e.degen \in Degens
    /\ e.kind = "ShitcoinClaimed" => e.degen \in claimed[e.coin]

EndKinds == {"ShitcoinCreated", "PresaleExtended"}
RaiseKinds == {"ShitcoinCreated", "PresaleEntered"}
UrlKinds == {"ShitcoinCreated", "ShitcoinUrlSet"}
LaunchKinds == {"ShitcoinCreated", "ShitcoinLaunched"}

\* Nothing of the contract is taken back.
Grows ==
    \A c \in Coins :
        /\ deadline[c] <= deadline'[c] /\ raised[c] <= raised'[c] /\ url[c] <= url'[c]
        /\ Launched(c) => Launched(c)'
        /\ Planted(c) => Planted(c)'
        /\ claimed[c] \subseteq claimed'[c]
        /\ \A g \in Degens : contributed[c][g] <= contributed'[c][g]

\* What changes is what the event e is about.
ChangesOnly(e) ==
    \A c \in Coins :
        /\ deadline'[c] = deadline[c] \/ (e.coin = c /\ e.kind \in EndKinds)
        /\ raised'[c] = raised[c] \/ (e.coin = c /\ e.kind \in RaiseKinds)
        /\ url'[c] = url[c] \/ (e.coin = c /\ e.kind \in UrlKinds)
        /\ (Launched(c)' <=> Launched(c)) \/ (e.coin = c /\ e.kind \in LaunchKinds)
        /\ (Planted(c)' <=> Planted(c)) \/ (e.coin = c /\ e.kind = "ShitcoinCreated")
        /\ \A g \in Degens :
              /\ \/ contributed'[c][g] = contributed[c][g]
                 \/ e.coin = c /\ e.degen = g /\ e.kind = "PresaleEntered"
              /\ \/ g \in claimed'[c] <=> g \in claimed[c]
                 \/ e.coin = c /\ e.degen = g /\ e.kind = "ShitcoinClaimed"

\* Nothing a copy of the state holds has changed.
ChangesNothing ==
    \A c \in Coins :
        /\ deadline'[c] = deadline[c] /\ raised'[c] = raised[c] /\ url'[c] = url[c]
        /\ (Launched(c)' <=> Launched(c)) /\ (Planted(c)' <=> Planted(c))
        /\ contributed'[c] = contributed[c] /\ claimed'[c] = claimed[c]
-----------------------------------------------------------------------------
(***************************************************************************)
(* The monitor.                                                            *)
(***************************************************************************)

Coming == Elements(stream) \cup Elements(unpublished)

Fields == {"end", "raise", "launched", "url", "submission"}

\* The types of the monitor's state, and events that have happened.
MonitorInv ==
    /\ WebTypeOK
    /\ unpublished \in Seq(EventType) /\ stream \in Seq(EventType)
    /\ event \in EventType \cup {Absent}
    /\ \A e \in Coming : Happened(e)
    /\ event # Absent => Happened(event)
    /\ at = "query" => /\ pending \cup DOMAIN answers = Queries(event.kind)
                       /\ \A f \in DOMAIN answers :
                             answers[f] \in IF f = "launched" THEN BOOLEAN ELSE Nat

\* An entry that is not ahead of the contract.
MetaNotAhead(c, meta) ==
    /\ Planted(c)
    /\ meta.end <= deadline[c] /\ meta.raise <= raised[c] /\ meta.url <= url[c]
    /\ meta.launched => Launched(c)

DegenNotAhead(c, g, degen) ==
    degen.submission <= contributed[c][g] /\ (degen.claimed => g \in claimed[c])

\* A copy of the state that is not.
NotAhead(state) ==
    \A c \in Coins :
        /\ state.shitcoins[c] # Absent => MetaNotAhead(c, state.shitcoins[c])
        /\ \A g \in Degens :
              state.degens[c][g] # Absent => DegenNotAhead(c, g, state.degens[c][g])

AnswersNotAhead ==
    at = "query" => \A f \in DOMAIN answers :
        IF f = "launched" THEN answers[f] => Launched(event.coin)
        ELSE answers[f] <= OnChain(f)

AheadInv == NotAhead(cache) /\ NotAhead(draft) /\ AnswersNotAhead

\* An event is on its way, or in hand and not stored yet.
Announced(kinds, c) == \E e \in Coming : e.kind \in kinds /\ e.coin = c

InHand(kinds, c) == at = "query" /\ event.kind \in kinds /\ event.coin = c

Told(kinds, c) == Announced(kinds, c) \/ InHand(kinds, c)

AnnouncedOf(kind, c, g) == \E e \in Coming : e.kind = kind /\ e.coin = c /\ e.degen = g

ToldOf(kind, c, g) ==
    AnnouncedOf(kind, c, g) \/ (InHand({kind}, c) /\ event.degen = g)

\* Each field of the copy is the contract's, or an event is still to set it.
CoinCovered(c) ==
    LET meta == cache.shitcoins[c]
    IN  IF meta = Absent THEN Planted(c) => Told({"ShitcoinCreated"}, c)
        ELSE /\ meta.creator
             /\ meta.end = deadline[c] \/ Told(EndKinds, c)
             /\ meta.raise = raised[c] \/ Told(RaiseKinds, c)
             /\ meta.url = url[c] \/ Told(UrlKinds, c)
             /\ (meta.launched <=> Launched(c)) \/ Told(LaunchKinds, c)

DegenCovered(c, g) ==
    LET degen == Or(cache.degens[c][g], DefaultDegen)
    IN  /\ degen.submission = contributed[c][g] \/ ToldOf("PresaleEntered", c, g)
        /\ (degen.claimed <=> g \in claimed[c]) \/ ToldOf("ShitcoinClaimed", c, g)

\* An answer is still the contract's, or an event that corrects it is coming.
AnswerCovered(f) ==
    CASE f = "end" -> answers[f] = deadline[event.coin] \/ Announced(EndKinds, event.coin)
      [] f = "raise" -> answers[f] = raised[event.coin] \/ Announced(RaiseKinds, event.coin)
      [] f = "url" -> answers[f] = url[event.coin] \/ Announced(UrlKinds, event.coin)
      [] f = "launched" -> \/ answers[f] <=> Launched(event.coin)
                           \/ Announced(LaunchKinds, event.coin)
      [] f = "submission" -> \/ answers[f] = contributed[event.coin][event.degen]
                             \/ AnnouncedOf("PresaleEntered", event.coin, event.degen)

Covered == \A c \in Coins : CoinCovered(c) /\ \A g \in Degens : DegenCovered(c, g)

AnswersCovered == at = "query" => \A f \in DOMAIN answers : AnswerCovered(f)

\* The prefixes of the pages that have been read.
Before(n) == {KeyPrefixes[i] : i \in 1 .. n - 1}

\* As long as no message fell into a gap, the copy follows the contract:
\* read page by page it is what the storage holds, and from the subscription on
\* every difference is announced.
FollowInv ==
    /\ at = "snapshot" /\ ~gap => draft = AddKeys(EmptyState, Before(page))
    /\ at = "subscribe" /\ ~gap => CacheAgrees
    /\ Subscribed /\ connected /\ ~gap => Covered /\ AnswersCovered

\* What a snapshot has read so far is not behind an earlier entry of a coin, or
\* of a degen.
DraftHas(c, old) ==
    LET new == draft.shitcoins[c]
    IN  /\ "PRESALE_END" \in Before(page) => new # Absent /\ old.end <= new.end
        /\ "PRESALE_RAISE" \in Before(page) => new # Absent /\ old.raise <= new.raise
        /\ "SHITCOIN_URL" \in Before(page) => new # Absent /\ old.url <= new.url
        /\ "SHITCOIN_LAUNCHED" \in Before(page) =>
              new # Absent /\ (old.launched => new.launched)

DraftHasDegen(c, g, old) ==
    LET new == Or(draft.degens[c][g], DefaultDegen)
    IN  /\ "PRESALE_SUBMISSION" \in Before(page) => old.submission <= new.submission
        /\ "PRESALE_CLAIMED" \in Before(page) => (old.claimed => new.claimed)

CachedDegen(c, g) == Or(cache.degens[c][g], DefaultDegen)

\* What the copy has, the next one has as well: an answer, or the part of a
\* snapshot that has been read, is not behind what it will replace.
AnswersNotBehind ==
    at = "query" =>
        /\ cache.shitcoins[event.coin] # Absent =>
              LET meta == cache.shitcoins[event.coin]
              IN  /\ "end" \in DOMAIN answers => meta.end <= answers["end"]
                  /\ "raise" \in DOMAIN answers => meta.raise <= answers["raise"]
                  /\ "url" \in DOMAIN answers => meta.url <= answers["url"]
                  /\ ("launched" \in DOMAIN answers /\ meta.launched) => answers["launched"]
        /\ "submission" \in DOMAIN answers =>
              CachedDegen(event.coin, event.degen).submission <= answers["submission"]

DraftNotBehind ==
    at = "snapshot" => \A c \in Coins :
        /\ cache.shitcoins[c] # Absent => DraftHas(c, cache.shitcoins[c])
        /\ \A g \in Degens : DraftHasDegen(c, g, CachedDegen(c, g))

NotBehind == AnswersNotBehind /\ DraftNotBehind
-----------------------------------------------------------------------------
(***************************************************************************)
(* Sequences of events.                                                    *)
(***************************************************************************)

\* What is in a sequence after an event is added, or the first one taken off.
LEMMA ElementsOfAppend ==
    ASSUME NEW S, NEW s \in Seq(S), NEW e \in S
    PROVE  Append(s, e) \in Seq(S) /\ Elements(Append(s, e)) = Elements(s) \cup {e}
<1>1. /\ Append(s, e) \in Seq(S) /\ DOMAIN Append(s, e) = 1 .. Len(s) + 1
      /\ DOMAIN s = 1 .. Len(s) /\ Len(s) \in Nat
      /\ Append(s, e)[Len(s) + 1] = e
      /\ \A i \in 1 .. Len(s) : Append(s, e)[i] = s[i]
  OBVIOUS
<1>2. DOMAIN Append(s, e) = DOMAIN s \cup {Len(s) + 1}
  BY <1>1
<1> QED
  BY <1>1, <1>2 DEF Elements

\* The first and the others.
LEMMA ElementsOfTail ==
    ASSUME NEW S, NEW s \in Seq(S), s # << >>
    PROVE  /\ Head(s) \in S /\ Tail(s) \in Seq(S)
           /\ Elements(s) = {Head(s)} \cup Elements(Tail(s))
<1>1. /\ Head(s) \in S /\ Tail(s) \in Seq(S) /\ Head(s) = s[1]
      /\ Len(s) \in Nat /\ Len(s) >= 1
      /\ DOMAIN s = 1 .. Len(s) /\ DOMAIN Tail(s) = 1 .. Len(s) - 1
      /\ \A i \in 1 .. Len(s) - 1 : Tail(s)[i] = s[i + 1]
  OBVIOUS
<1>2. Elements(s) \subseteq {Head(s)} \cup Elements(Tail(s))
  <2> SUFFICES ASSUME NEW i \in DOMAIN s, i # 1
               PROVE  s[i] \in Elements(Tail(s))
    BY <1>1 DEF Elements
  <2>1. i - 1 \in DOMAIN Tail(s) /\ Tail(s)[i - 1] = s[i]
    BY <1>1
  <2> QED
    BY <2>1 DEF Elements
<1>3. {Head(s)} \cup Elements(Tail(s)) \subseteq Elements(s)
  <2>1. Head(s) \in Elements(s)
    BY <1>1 DEF Elements
  <2>2. ASSUME NEW i \in DOMAIN Tail(s) PROVE Tail(s)[i] \in Elements(s)
    <3>1. i + 1 \in DOMAIN s /\ Tail(s)[i] = s[i + 1]
      BY <1>1
    <3> QED
      BY <3>1 DEF Elements
  <2> QED
    BY <2>1, <2>2 DEF Elements
<1> QED
  BY <1>1, <1>2, <1>3

\* A sequence without elements.
LEMMA ElementsOfNone == Elements(<< >>) = {}
BY DEF Elements
-----------------------------------------------------------------------------
(***************************************************************************)
(* What a message does to the contract.                                    *)
(***************************************************************************)

\* What executing a message does, whether an event tells of it or not.
MessageDoes(e) ==
    /\ e \in EventType
    /\ Happened(e)' /\ ChangesOnly(e) /\ Grows /\ ChainInv'
    /\ e.kind = "PresaleEntered" => ~Launched(e.coin)

TransactionDoes(e) == MessageDoes(e) /\ unpublished' = Append(unpublished, e)

\* A coin is created.
LEMMA PlantDoes ==
    ASSUME ChainInv, NEW e \in EventType, NEW c \in Coins, e.coin = c,
           e.kind = "ShitcoinCreated", NEW t \in Deadlines, Plant(c, t),
           listed' = Append(listed, c), url' = url
    PROVE  MessageDoes(e)
<1>1. /\ e \in EventType /\ e.kind = "ShitcoinCreated" /\ e.coin = c
  OBVIOUS
<1>2. /\ phase' = [phase EXCEPT ![c] = "open"] /\ deadline' = [deadline EXCEPT ![c] = t]
      /\ UNCHANGED <<raised, contributed, claimed, url>>
      /\ phase[c] = "none" /\ ~Planted(c) /\ t \in Nat /\ deadline[c] = 0
  BY LedgerAssumption DEF Plant, OpensUntil, Enters, Planted, ChainInv
<1>3. /\ phase' \in [Coins -> {"none", "open", "closed", "launched"}]
      /\ deadline' \in [Coins -> Nat] /\ listed' \in Seq(Coins)
      /\ phase'[c] = "open" /\ deadline'[c] = t
      /\ \A x \in Coins \ {c} : phase'[x] = phase[x] /\ deadline'[x] = deadline[x]
  BY <1>2 DEF ChainInv
<1>4. /\ Planted(c)' /\ ~Launched(c) /\ ~Launched(c)'
      /\ \A x \in Coins \ {c} : (Planted(x)' <=> Planted(x)) /\ (Launched(x)' <=> Launched(x))
  BY <1>2, <1>3 DEF Planted, Launched
<1>5. ChainInv'
  BY <1>2, <1>3, <1>4 DEF ChainInv
<1>6. Grows
  BY <1>2, <1>3, <1>4 DEF ChainInv, Grows
<1>7. ChangesOnly(e)
  BY <1>1, <1>2, <1>3, <1>4 DEF ChainInv, ChangesOnly, EndKinds, RaiseKinds, UrlKinds, LaunchKinds
<1>8. Happened(e)'
  BY <1>1, <1>4 DEF Happened
<1> QED
  BY <1>1, <1>5, <1>6, <1>7, <1>8 DEF MessageDoes

\* A degen contributes.
LEMMA ContributeDoes ==
    ASSUME ChainInv, NEW e \in EventType, NEW c \in Coins, e.coin = c,
           NEW g \in Degens, e.degen = g, e.kind = "PresaleEntered",
           NEW n \in Amounts, Contribute(c, g, n),
           UNCHANGED <<url, listed>>
    PROVE  MessageDoes(e)
<1>1. e \in EventType /\ e.kind = "PresaleEntered" /\ e.coin = c /\ e.degen = g
  OBVIOUS
<1>2. /\ raised' = [raised EXCEPT ![c] = @ + n]
      /\ contributed' = [contributed EXCEPT ![c][g] = @ + n]
      /\ UNCHANGED <<phase, deadline, claimed, url, listed>>
      /\ phase[c] = "open" /\ Planted(c) /\ n \in Nat
  BY LedgerAssumption DEF Contribute, Planted
<1>3. /\ raised' \in [Coins -> Nat] /\ raised[c] <= raised'[c]
      /\ \A x \in Coins \ {c} : raised'[x] = raised[x]
  BY <1>2 DEF ChainInv
<1>4. /\ contributed' \in [Coins -> [Degens -> Nat]]
      /\ contributed[c][g] <= contributed'[c][g]
      /\ \A x \in Coins, h \in Degens :
            contributed'[x][h] = contributed[x][h] \/ (x = c /\ h = g)
      /\ \A x \in Coins, h \in Degens : contributed[x][h] \in Nat
  BY <1>2 DEF ChainInv
<1>5. \A x \in Coins : (Planted(x)' <=> Planted(x)) /\ (Launched(x)' <=> Launched(x))
  BY <1>2 DEF Planted, Launched
<1>6. ChainInv'
  BY <1>2, <1>3, <1>4, <1>5 DEF ChainInv
<1>7. Grows
  <2>1. ASSUME NEW x \in Coins PROVE raised[x] <= raised'[x]
    <3>1. raised[x] \in Nat
      BY DEF ChainInv
    <3> QED
      BY <1>3, <3>1
  <2>2. \A x \in Coins, h \in Degens : contributed[x][h] <= contributed'[x][h]
    BY <1>4
  <2> QED
    BY <1>2, <1>5, <2>1, <2>2 DEF ChainInv, Grows
<1>8. ChangesOnly(e)
  BY <1>1, <1>2, <1>3, <1>4, <1>5 DEF ChangesOnly, EndKinds, RaiseKinds, UrlKinds, LaunchKinds
<1>9. Happened(e)'
  BY <1>1, <1>2, <1>5 DEF Happened
<1>10. ~Launched(e.coin)
  BY <1>1, <1>2 DEF Launched
<1> QED
  BY <1>1, <1>6, <1>7, <1>8, <1>9, <1>10 DEF MessageDoes

\* A presale opens again.
LEMMA ReopenDoes ==
    ASSUME ChainInv, NEW e \in EventType, NEW c \in Coins, e.coin = c,
           e.kind = "PresaleExtended", NEW t \in Deadlines, Reopen(c, t),
           UNCHANGED <<url, listed>>
    PROVE  MessageDoes(e)
<1>1. e \in EventType /\ e.kind = "PresaleExtended" /\ e.coin = c
  OBVIOUS
<1>2. /\ phase' = [phase EXCEPT ![c] = "open"] /\ deadline' = [deadline EXCEPT ![c] = t]
      /\ UNCHANGED <<raised, contributed, claimed, url, listed>>
      /\ phase[c] = "closed" /\ Planted(c) /\ t \in Nat /\ deadline[c] < t
  BY LedgerAssumption DEF Reopen, OpensUntil, Enters, Planted
<1>3. /\ phase' \in [Coins -> {"none", "open", "closed", "launched"}]
      /\ deadline' \in [Coins -> Nat]
      /\ phase'[c] = "open" /\ deadline'[c] = t
      /\ \A x \in Coins \ {c} : phase'[x] = phase[x] /\ deadline'[x] = deadline[x]
  BY <1>2 DEF ChainInv
<1>4. \A x \in Coins : (Planted(x)' <=> Planted(x)) /\ (Launched(x)' <=> Launched(x))
  BY <1>2, <1>3 DEF Planted, Launched
<1>5. ChainInv'
  BY <1>2, <1>3, <1>4 DEF ChainInv
<1>6. Grows
  BY <1>2, <1>3, <1>4 DEF ChainInv, Grows
<1>7. ChangesOnly(e)
  BY <1>1, <1>2, <1>3, <1>4 DEF ChainInv, ChangesOnly, EndKinds, RaiseKinds, UrlKinds, LaunchKinds
<1>8. Happened(e)'
  BY <1>1, <1>2, <1>4 DEF Happened
<1> QED
  BY <1>1, <1>5, <1>6, <1>7, <1>8 DEF MessageDoes

\* A coin is launched.
LEMMA LaunchDoes ==
    ASSUME ChainInv, NEW e \in EventType, NEW c \in Coins, e.coin = c, Launch(c),
           e.kind = "ShitcoinLaunched",
           UNCHANGED <<url, listed>>
    PROVE  MessageDoes(e)
<1>1. e \in EventType /\ e.kind = "ShitcoinLaunched" /\ e.coin = c
  OBVIOUS
<1>2. /\ phase' = [phase EXCEPT ![c] = "launched"]
      /\ UNCHANGED <<deadline, raised, contributed, claimed, url, listed>>
      /\ phase[c] = "closed" /\ Planted(c)
  BY DEF Launch, Enters, Planted
<1>3. /\ phase' \in [Coins -> {"none", "open", "closed", "launched"}]
      /\ phase'[c] = "launched"
      /\ \A x \in Coins \ {c} : phase'[x] = phase[x]
  BY <1>2 DEF ChainInv
<1>4. /\ Launched(c)' /\ Planted(c)'
      /\ \A x \in Coins \ {c} : (Planted(x)' <=> Planted(x)) /\ (Launched(x)' <=> Launched(x))
  BY <1>2, <1>3 DEF Planted, Launched
<1>5. ChainInv'
  BY <1>2, <1>3, <1>4 DEF ChainInv
<1>6. Grows
  BY <1>2, <1>3, <1>4 DEF ChainInv, Grows
<1>7. ChangesOnly(e)
  BY <1>1, <1>2, <1>3, <1>4 DEF ChainInv, ChangesOnly, EndKinds, RaiseKinds, UrlKinds, LaunchKinds
<1>8. Happened(e)'
  BY <1>1, <1>4 DEF Happened
<1> QED
  BY <1>1, <1>5, <1>6, <1>7, <1>8 DEF MessageDoes

\* A degen claims.
LEMMA ClaimDoes ==
    ASSUME ChainInv, NEW e \in EventType, NEW c \in Coins, e.coin = c,
           NEW g \in Degens, e.degen = g, e.kind = "ShitcoinClaimed", Claim(c, g),
           UNCHANGED <<url, listed>>
    PROVE  MessageDoes(e)
<1>1. e \in EventType /\ e.kind = "ShitcoinClaimed" /\ e.coin = c /\ e.degen = g
  OBVIOUS
<1>2. /\ claimed' = [claimed EXCEPT ![c] = @ \cup {g}]
      /\ UNCHANGED <<phase, deadline, raised, contributed, url, listed>>
      /\ phase[c] = "launched" /\ Planted(c) /\ contributed[c][g] # 0
  BY DEF Claim, Planted, ChainInv
<1>3. /\ claimed' \in [Coins -> SUBSET Degens]
      /\ claimed'[c] = claimed[c] \cup {g}
      /\ \A x \in Coins \ {c} : claimed'[x] = claimed[x]
  BY <1>2 DEF ChainInv
<1>4. \A x \in Coins : (Planted(x)' <=> Planted(x)) /\ (Launched(x)' <=> Launched(x))
  BY <1>2 DEF Planted, Launched
<1>5. ChainInv'
  BY <1>2, <1>3, <1>4 DEF ChainInv
<1>6. Grows
  BY <1>2, <1>3, <1>4 DEF ChainInv, Grows
<1>7. ChangesOnly(e)
  BY <1>1, <1>2, <1>3, <1>4 DEF ChangesOnly
<1>8. Happened(e)'
  BY <1>1, <1>2, <1>3, <1>4 DEF Happened, Launched
<1> QED
  BY <1>1, <1>5, <1>6, <1>7, <1>8 DEF MessageDoes

\* A creator sets the url of a coin.
LEMMA SetUrlDoes ==
    ASSUME ChainInv, NEW e \in EventType, NEW c \in Coins, e.coin = c, SetUrl(c),
           e.kind = "ShitcoinUrlSet",
           listed' = listed
    PROVE  MessageDoes(e)
<1>1. e \in EventType /\ e.kind = "ShitcoinUrlSet" /\ e.coin = c
  OBVIOUS
<1>2. /\ url' = [url EXCEPT ![c] = @ + 1]
      /\ UNCHANGED <<phase, deadline, raised, contributed, claimed, listed>>
      /\ Planted(c)
  BY DEF SetUrl, ledger
<1>3. /\ url' \in [Coins -> Nat] /\ url'[c] = url[c] + 1
      /\ \A x \in Coins \ {c} : url'[x] = url[x]
  BY <1>2 DEF ChainInv
<1>4. \A x \in Coins : (Planted(x)' <=> Planted(x)) /\ (Launched(x)' <=> Launched(x))
  BY <1>2 DEF Planted, Launched
<1>5. ChainInv'
  BY <1>2, <1>3, <1>4 DEF ChainInv
<1>6. Grows
  BY <1>2, <1>3, <1>4 DEF ChainInv, Grows
<1>7. ChangesOnly(e)
  BY <1>1, <1>2, <1>3, <1>4 DEF ChangesOnly, EndKinds, RaiseKinds, UrlKinds, LaunchKinds
<1>8. Happened(e)'
  BY <1>1, <1>2, <1>4 DEF Happened
<1> QED
  BY <1>1, <1>5, <1>6, <1>7, <1>8 DEF MessageDoes

\* Only creating a coin lists one, which was not there.
CoinListed(e) ==
    IF e.kind = "ShitcoinCreated"
    THEN ~Planted(e.coin) /\ listed' = Append(listed, e.coin) ELSE listed' = listed

\* What the message that is committed does, to the contract and to the list: an
\* event of it is appended, or none tells of it.
LEMMA CommitDoes ==
    ASSUME ChainInv, Commit
    PROVE  \E e : MessageDoes(e) /\ CoinListed(e) /\ (Emit(e) \/ Unannounced)
<1>1. PICK e \in EventType : Execute(e) /\ (Emit(e) \/ Unannounced)
  BY DEF Commit
<1>2. e.coin \in Coins
  BY DEF EventType
<1>3. MessageDoes(e)
  BY <1>1, <1>2, PlantDoes, ContributeDoes, ReopenDoes, LaunchDoes, ClaimDoes, SetUrlDoes
     DEF Execute
<1>4. CoinListed(e)
  BY <1>1, <1>2 DEF Execute, CoinListed, Plant, Enters, Planted
<1> QED
  BY <1>1, <1>3, <1>4

\* The end of a presale changes nothing of what the server keeps.
LEMMA Closes ==
    ASSUME ChainInv, TimePasses
    PROVE  ChainInv' /\ Grows /\ ChangesNothing
<1>1. PICK c \in Coins : Close({c})
  BY DEF TimePasses
<1>2. /\ phase' = [x \in Coins |-> IF x \in {c} THEN "closed" ELSE phase[x]]
      /\ phase[c] = "open"
      /\ UNCHANGED <<deadline, raised, contributed, claimed, url, listed>>
  BY <1>1 DEF Close, TimePasses
<1>3. /\ phase' \in [Coins -> {"none", "open", "closed", "launched"}]
      /\ \A x \in Coins : (Planted(x)' <=> Planted(x)) /\ (Launched(x)' <=> Launched(x))
  BY <1>2 DEF ChainInv, Planted, Launched
<1> QED
  BY <1>2, <1>3 DEF ChainInv, Grows, ChangesNothing

\* What is unchanged has not shrunk.
LEMMA NothingShrinks ==
    ASSUME ChainInv, UNCHANGED <<ledger, url, listed>>
    PROVE  ChainInv' /\ Grows /\ ChangesNothing
<1>1. UNCHANGED <<phase, deadline, raised, contributed, claimed, url, listed>>
  BY DEF ledger
<1>2. \A x \in Coins : (Planted(x)' <=> Planted(x)) /\ (Launched(x)' <=> Launched(x))
  BY <1>1 DEF Planted, Launched
<1> QED
  BY <1>1, <1>2 DEF ChainInv, Grows, ChangesNothing

\* What has happened stays.
LEMMA HappenedStays ==
    ASSUME Grows, NEW e, Happened(e)
    PROVE  Happened(e)'
BY DEF Grows, Happened, EventType

\* So does what the event in hand says.
LEMMA EventStays ==
    ASSUME Grows, event' = event, Happened(event)
    PROVE  Happened(event)'
BY DEF Grows, Happened, EventType
-----------------------------------------------------------------------------
(***************************************************************************)
(* The pieces of the monitor's state.                                      *)
(***************************************************************************)

\* A page ends at or after its first prefix, and with the last one at latest.
LEMMA PageEndInRange ==
    ASSUME page \in 1 .. 9
    PROVE  PageEnd \in page .. 9 /\ Len(KeyPrefixes) = 9
<1>1. Len(KeyPrefixes) = 9
  BY DEF KeyPrefixes
<1> DEFINE T == {e \in PageEnds \cup {9} : e >= page}
<1>2. T \subseteq Nat /\ 9 \in T
  <2>1. PageEnds \subseteq Nat
    BY WebAssumption
  <2>2. 9 >= page
    OBVIOUS
  <2>3. T \subseteq PageEnds \cup {9}
    OBVIOUS
  <2>4. 9 \in T
    BY <2>2
  <2> HIDE DEF T
  <2> QED
    BY <2>1, <2>3, <2>4
<1>3. PICK x \in T : \A y \in T : ~(<<y, x>> \in OpToRel(<, Nat))
  BY <1>2, NatLessThanWellFounded, WFMin
<1>4. ASSUME NEW y \in T PROVE x <= y
  <2> HIDE DEF T
  <2>1. x \in Nat /\ y \in Nat
    BY <1>2
  <2>2. ~(<<y, x>> \in OpToRel(<, Nat))
    BY <1>3
  <2>3. ~(y < x)
    BY <2>1, <2>2 DEF OpToRel
  <2> QED
    BY <2>1, <2>3
<1>5. PageEnd = CHOOSE y \in T : \A z \in T : y <= z
  BY <1>1 DEF PageEnd, Min
<1>6. PageEnd \in T /\ \A y \in T : PageEnd <= y
  <2> HIDE DEF T
  <2> QED
    BY <1>4, <1>5
<1>7. 9 \in T /\ \A y \in T : y \in Nat /\ y >= page
  BY <1>2
<1> QED
  BY <1>1, <1>6, <1>7

\* The entry of a coin keeps its type whatever keys are added to it.
LEMMA ShitcoinKeysType ==
    ASSUME ChainInv, NEW prefixes, NEW c \in Coins, NEW entry \in {Absent} \cup MetaType
    PROVE  ShitcoinKeys(prefixes, c, entry) \in {Absent} \cup MetaType
<1>1. OrDefault(entry) \in MetaType
  BY DEF OrDefault, Or, DefaultMeta, MetaType
<1>2. url[c] \in Nat /\ deadline[c] \in Nat /\ raised[c] \in Nat
  BY DEF ChainInv
<1> QED
  BY <1>1, <1>2 DEF ShitcoinKeys, MetaType

\* So does the entry of a degen.
LEMMA DegenKeysType ==
    ASSUME ChainInv, NEW prefixes, NEW c \in Coins, NEW g \in Degens,
           NEW entry \in {Absent} \cup DegenType
    PROVE  DegenKeys(prefixes, c, g, entry) \in {Absent} \cup DegenType
<1>1. Or(entry, DefaultDegen) \in DegenType
  BY DEF Or, DefaultDegen, DegenType
<1>2. contributed[c][g] \in Nat
  BY DEF ChainInv
<1> QED
  BY <1>1, <1>2 DEF DegenKeys, DegenType

\* And the whole state.
LEMMA AddKeysType ==
    ASSUME ChainInv, NEW state \in StateType, NEW prefixes
    PROVE  AddKeys(state, prefixes) \in StateType
<1>1. /\ state.indexes \in Seq(Coins) /\ listed \in Seq(Coins)
      /\ \A c \in Coins : state.shitcoins[c] \in {Absent} \cup MetaType
      /\ \A c \in Coins, g \in Degens : state.degens[c][g] \in {Absent} \cup DegenType
  BY DEF StateType, ChainInv
<1>2. \A c \in Coins :
         ShitcoinKeys(prefixes, c, state.shitcoins[c]) \in {Absent} \cup MetaType
  BY <1>1, ShitcoinKeysType
<1>3. \A c \in Coins, g \in Degens :
         DegenKeys(prefixes, c, g, state.degens[c][g]) \in {Absent} \cup DegenType
  BY <1>1, DegenKeysType
<1> QED
  BY <1>1, <1>2, <1>3 DEF AddKeys, StateType

\* The state of a server that knows nothing.
LEMMA EmptyStateType ==
    /\ EmptyState \in StateType
    /\ \A c \in Coins : EmptyState.shitcoins[c] = Absent
    /\ \A c \in Coins, g \in Degens : EmptyState.degens[c][g] = Absent
BY DEF EmptyState, StateType

\* What the contract answers to the queries of the event in hand.
LEMMA OnChainType ==
    ASSUME ChainInv, Happened(event), NEW f \in Queries(event.kind)
    PROVE  f \in Fields /\ OnChain(f) \in IF f = "launched" THEN BOOLEAN ELSE Nat
<1>1. /\ event.coin \in Coins /\ event.kind \in Kinds
      /\ event.kind = "PresaleEntered" => event.degen \in Degens
  BY DEF Happened, EventType
<1>2. f \in Fields /\ (f = "submission" => event.kind = "PresaleEntered")
  BY <1>1 DEF Queries, Kinds, Fields
<1>3. CASE f = "submission" /\ f \notin {"end", "raise", "url", "launched"}
  BY <1>1, <1>2, <1>3 DEF OnChain, ChainInv
<1>4. CASE f \in {"end", "raise", "url", "launched"}
  <2>1. CASE f = "end"
    BY <1>1, <1>2, <2>1 DEF OnChain, ChainInv
  <2>2. CASE f = "raise"
    BY <1>1, <1>2, <2>2 DEF OnChain, ChainInv
  <2>3. CASE f = "url"
    BY <1>1, <1>2, <2>3 DEF OnChain, ChainInv
  <2>4. CASE f = "launched"
    BY <1>1, <1>2, <2>4 DEF OnChain, ChainInv
  <2> QED
    BY <1>4, <2>1, <2>2, <2>3, <2>4
<1>5. f = "submission" => f \notin {"end", "raise", "url", "launched"}
  OBVIOUS
<1> QED
  BY <1>2, <1>3, <1>4, <1>5 DEF Fields
-----------------------------------------------------------------------------
(***************************************************************************)
(* The monitor keeps its types, and handles only what has happened.        *)
(***************************************************************************)

\* A message adds an event of what it did, or no event.
LEMMA CommitKeepsMonitor ==
    ASSUME MonitorInv, NEW e, MessageDoes(e), Emit(e) \/ Unannounced, Commit
    PROVE  MonitorInv'
<1>1. /\ e \in EventType /\ Happened(e)' /\ Grows
      /\ unpublished \in Seq(EventType)
      /\ unpublished' = Append(unpublished, e) \/ unpublished' = unpublished
      /\ UNCHANGED <<stream, connected, at, page, draft, event, pending, answers, cache, faults>>
  BY DEF MessageDoes, Emit, Unannounced, MonitorInv, Commit, snapshot, handling
<1>2. /\ unpublished' \in Seq(EventType)
      /\ Elements(unpublished') \subseteq Elements(unpublished) \cup {e}
  <2>1. CASE unpublished' = Append(unpublished, e)
    BY <1>1, <2>1, ElementsOfAppend
  <2>2. CASE unpublished' = unpublished
    BY <1>1, <2>2
  <2> QED
    BY <1>1, <2>1, <2>2
<1>3. Coming' \subseteq Coming \cup {e}
  BY <1>1, <1>2 DEF Coming
<1>4. \A x \in Coming' : Happened(x)'
  BY <1>1, <1>3, HappenedStays DEF MonitorInv
<1>5. event # Absent => Happened(event)'
  BY <1>1, EventStays DEF MonitorInv
<1>7. WebTypeOK'
  BY <1>1 DEF MonitorInv, WebTypeOK
<1> QED
  BY <1>1, <1>2, <1>4, <1>5, <1>7 DEF MonitorInv

\* Time passes.
LEMMA TimeKeepsMonitor ==
    ASSUME MonitorInv, Grows, TimePasses
    PROVE  MonitorInv'
<1>1. UNCHANGED <<unpublished, stream, connected, at, page, draft, event, pending, answers,
                  cache, faults>>
  BY DEF TimePasses, snapshot, handling
<1>2. Coming' = Coming
  BY <1>1 DEF Coming
<1>3. \A x \in Coming' : Happened(x)'
  BY <1>2, HappenedStays DEF MonitorInv
<1>4. event # Absent => Happened(event)'
  BY <1>1, EventStays DEF MonitorInv
<1>6. WebTypeOK'
  BY <1>1 DEF MonitorInv, WebTypeOK
<1> QED
  BY <1>1, <1>3, <1>4, <1>6 DEF MonitorInv

\* What publishing does to the events that are coming.
LEMMA Publishes ==
    ASSUME MonitorInv, Publish
    PROVE  /\ unpublished' \in Seq(EventType) /\ stream' \in Seq(EventType)
           /\ Coming' \subseteq Coming
           /\ (Subscribed /\ connected) => Coming' = Coming
           /\ Head(unpublished) \in EventType
<1>1. /\ unpublished \in Seq(EventType) /\ stream \in Seq(EventType) /\ unpublished # << >>
      /\ unpublished' = Tail(unpublished)
      /\ stream' = IF Subscribed /\ connected THEN Append(stream, Head(unpublished)) ELSE stream
  BY DEF Publish, MonitorInv
<1>2. /\ Head(unpublished) \in EventType /\ unpublished' \in Seq(EventType)
      /\ Elements(unpublished) = {Head(unpublished)} \cup Elements(unpublished')
  BY <1>1, ElementsOfTail
<1>3. CASE Subscribed /\ connected
  <2>1. /\ stream' \in Seq(EventType)
        /\ Elements(stream') = Elements(stream) \cup {Head(unpublished)}
    BY <1>1, <1>2, <1>3, ElementsOfAppend
  <2> QED
    BY <1>2, <2>1 DEF Coming
<1>4. CASE ~(Subscribed /\ connected)
  BY <1>1, <1>2, <1>4 DEF Coming
<1> QED
  BY <1>2, <1>3, <1>4

\* An event is published.
LEMMA PublishKeepsMonitor ==
    ASSUME ChainInv, MonitorInv, Publish
    PROVE  MonitorInv'
<1>1. /\ UNCHANGED <<connected, at, page, draft, event, pending, answers, cache, faults>>
      /\ UNCHANGED <<ledger, url, listed>>
  BY DEF Publish, snapshot, handling
<1>2. /\ unpublished' \in Seq(EventType) /\ stream' \in Seq(EventType)
      /\ Coming' \subseteq Coming
  BY Publishes
<1>3. Grows
  BY <1>1, NothingShrinks
<1>4. \A x \in Coming' : Happened(x)'
  BY <1>2, <1>3, HappenedStays DEF MonitorInv
<1>5. event # Absent => Happened(event)'
  BY <1>1, <1>3, EventStays DEF MonitorInv
<1>7. WebTypeOK'
  BY <1>1 DEF MonitorInv, WebTypeOK
<1> QED
  BY <1>1, <1>2, <1>4, <1>5, <1>7 DEF MonitorInv

\* Whatever leads back to the snapshot.
LEMMA StartsAgain ==
    ASSUME MonitorInv, Grows, StartSnapshot, unpublished' = unpublished,
           cache' \in StateType, faults' \in 0 .. MaxFaults, connected' \in BOOLEAN
    PROVE  MonitorInv'
<1>1. /\ at' = "snapshot" /\ page' = 1 /\ draft' = EmptyState /\ stream' = << >>
      /\ event' = Absent /\ pending' = {} /\ answers' = << >>
  BY DEF StartSnapshot
<1>2. Coming' \subseteq Coming
  BY <1>1, ElementsOfNone DEF Coming
<1>3. \A x \in Coming' : Happened(x)'
  BY <1>2, HappenedStays DEF MonitorInv
<1>4. Len(KeyPrefixes) = 9
  BY DEF KeyPrefixes
<1>5. draft' \in StateType
  BY <1>1, EmptyStateType
<1>6. WebTypeOK'
  BY <1>1, <1>4, <1>5 DEF WebTypeOK
<1>7. unpublished' \in Seq(EventType) /\ stream' \in Seq(EventType)
  BY <1>1 DEF MonitorInv
<1> QED
  BY <1>1, <1>3, <1>6, <1>7 DEF MonitorInv

\* The contract does not move in a step of the monitor.
LEMMA MonitorStepShrinksNothing ==
    ASSUME ChainInv, UNCHANGED chain
    PROVE  Grows /\ ChainInv' /\ ChangesNothing /\ unpublished' = unpublished
BY NothingShrinks DEF chain

\* A page is read.
LEMMA ReadPageKeepsMonitor ==
    ASSUME ChainInv, MonitorInv, ReadPage
    PROVE  MonitorInv' /\ PageEnd \in page .. 9
<1>1. /\ at = "snapshot" /\ page \in 1 .. 10 /\ page <= 9 /\ draft \in StateType
      /\ page' = PageEnd + 1
      /\ UNCHANGED <<stream, connected, at, event, pending, answers, cache, faults>>
      /\ UNCHANGED chain
  <2>1. Len(KeyPrefixes) = 9
    BY DEF KeyPrefixes
  <2> QED
    BY <2>1 DEF ReadPage, MonitorInv, WebTypeOK, handling
<1>2. PageEnd \in page .. 9 /\ Len(KeyPrefixes) = 9
  BY <1>1, PageEndInRange
<1>3. Grows /\ unpublished' = unpublished
  BY <1>1, MonitorStepShrinksNothing
<1>4. draft' \in StateType
  BY <1>1, AddKeysType DEF ReadPage
<1>5. page' \in 1 .. Len(KeyPrefixes) + 1
  BY <1>1, <1>2
<1>6. WebTypeOK'
  BY <1>1, <1>4, <1>5 DEF MonitorInv, WebTypeOK
<1>7. Coming' = Coming
  BY <1>1, <1>3 DEF Coming
<1>8. \A x \in Coming' : Happened(x)'
  BY <1>3, <1>7, HappenedStays DEF MonitorInv
<1>9. event' = Absent
  BY <1>1 DEF MonitorInv, WebTypeOK
<1> QED
  BY <1>1, <1>2, <1>3, <1>6, <1>8, <1>9 DEF MonitorInv

\* The snapshot is put in place.
LEMMA InstallKeepsMonitor ==
    ASSUME ChainInv, MonitorInv, InstallSnapshot
    PROVE  MonitorInv'
<1>1. /\ at = "snapshot" /\ at' = "subscribe" /\ cache' = draft /\ page' = 1
      /\ draft' = EmptyState /\ UNCHANGED chain
      /\ UNCHANGED <<stream, connected, event, pending, answers, faults>>
  BY DEF InstallSnapshot, handling
<1>2. Grows /\ unpublished' = unpublished
  BY <1>1, MonitorStepShrinksNothing
<1>3. Len(KeyPrefixes) = 9
  BY DEF KeyPrefixes
<1>4. draft' \in StateType
  BY <1>1, EmptyStateType
<1>5. WebTypeOK'
  BY <1>1, <1>3, <1>4 DEF MonitorInv, WebTypeOK
<1>6. Coming' = Coming
  BY <1>1, <1>2 DEF Coming
<1>7. \A x \in Coming' : Happened(x)'
  BY <1>2, <1>6, HappenedStays DEF MonitorInv
<1>8. event' = Absent
  BY <1>1 DEF MonitorInv, WebTypeOK
<1> QED
  BY <1>1, <1>2, <1>5, <1>7, <1>8 DEF MonitorInv

\* The monitor subscribes.
LEMMA SubscribeKeepsMonitor ==
    ASSUME ChainInv, MonitorInv, Subscribe
    PROVE  MonitorInv'
<1>1. /\ at = "subscribe" /\ at' = "listen" /\ UNCHANGED chain
      /\ UNCHANGED <<stream, connected, page, draft, event, pending, answers, cache, faults>>
  BY DEF Subscribe, handling, snapshot
<1>2. Grows /\ unpublished' = unpublished
  BY <1>1, MonitorStepShrinksNothing
<1>3. WebTypeOK'
  BY <1>1 DEF MonitorInv, WebTypeOK
<1>4. Coming' = Coming
  BY <1>1, <1>2 DEF Coming
<1>5. \A x \in Coming' : Happened(x)'
  BY <1>2, <1>4, HappenedStays DEF MonitorInv
<1>6. event' = Absent
  BY <1>1 DEF MonitorInv, WebTypeOK
<1> QED
  BY <1>1, <1>2, <1>3, <1>5, <1>6 DEF MonitorInv

\* The state with one more index.
LEMMA IndexAdded ==
    ASSUME NEW state \in StateType, NEW c \in Coins
    PROVE  LET s == [state EXCEPT !.indexes = AddIndex(@, c)]
           IN  /\ s.shitcoins = state.shitcoins /\ s.degens = state.degens /\ s \in StateType
               /\ s.indexes = Append(state.indexes, c)
<1> DEFINE s == [state EXCEPT !.indexes = AddIndex(@, c)]
<1>1. state.indexes \in Seq(Coins)
  BY DEF StateType
<1>2. AddIndex(state.indexes, c) \in Seq(Coins)
  BY <1>1 DEF AddIndex
<1>3. s = [indexes |-> AddIndex(state.indexes, c), shitcoins |-> state.shitcoins,
           degens |-> state.degens]
  BY DEF StateType
<1> QED
  BY <1>2, <1>3 DEF StateType, AddIndex

\* The monitor takes the next event.
LEMMA Receives ==
    ASSUME ChainInv, MonitorInv, Receive
    PROVE  /\ at = "listen" /\ at' = "query" /\ event' \in EventType /\ Happened(event')
           /\ Coming = Coming' \cup {event'}
           /\ stream' \in Seq(EventType)
           /\ pending' = Queries(event'.kind) /\ answers' = << >>
           /\ cache'.shitcoins = cache.shitcoins /\ cache'.degens = cache.degens
           /\ cache' \in StateType
           /\ cache'.indexes = IF event'.kind = "ShitcoinCreated"
                               THEN Append(cache.indexes, event'.coin) ELSE cache.indexes
           /\ UNCHANGED chain /\ UNCHANGED <<connected, page, draft, faults, gap>>
<1>1. /\ at = "listen" /\ stream # << >> /\ stream \in Seq(EventType)
      /\ at' = "query" /\ event' = Head(stream) /\ stream' = Tail(stream)
      /\ pending' = Queries(event'.kind) /\ answers' = << >>
      /\ UNCHANGED chain /\ UNCHANGED <<connected, page, draft, faults, gap>>
      /\ cache' = IF event'.kind = "ShitcoinCreated"
                  THEN [cache EXCEPT !.indexes = AddIndex(@, event'.coin)] ELSE cache
      /\ cache \in StateType
  BY DEF Receive, MonitorInv, WebTypeOK, snapshot
<1>2. /\ Head(stream) \in EventType /\ stream' \in Seq(EventType)
      /\ Elements(stream) = {Head(stream)} \cup Elements(stream')
  BY <1>1, ElementsOfTail
<1>3. unpublished' = unpublished
  BY <1>1 DEF chain
<1>4. Coming = Coming' \cup {Head(stream)}
  BY <1>2, <1>3 DEF Coming
<1>5. Happened(Head(stream))
  BY <1>4 DEF MonitorInv
<1>6. Happened(event')
  BY <1>1, <1>5
<1>7. event'.coin \in Coins
  BY <1>1, <1>2 DEF EventType
<1>8. /\ cache'.shitcoins = cache.shitcoins /\ cache'.degens = cache.degens
      /\ cache' \in StateType
      /\ cache'.indexes = IF event'.kind = "ShitcoinCreated"
                          THEN Append(cache.indexes, event'.coin) ELSE cache.indexes
  <2>1. CASE event'.kind = "ShitcoinCreated"
    <3>1. cache' = [cache EXCEPT !.indexes = AddIndex(@, event'.coin)]
      BY <1>1, <2>1
    <3> QED
      BY <1>1, <1>7, <2>1, <3>1, IndexAdded
  <2>2. CASE event'.kind # "ShitcoinCreated"
    BY <1>1, <2>2
  <2> QED
    BY <2>1, <2>2
<1> QED
  BY <1>1, <1>2, <1>4, <1>6, <1>8

\* Receiving keeps the types.
LEMMA ReceiveKeepsMonitor ==
    ASSUME ChainInv, MonitorInv, Receive
    PROVE  MonitorInv'
<1>1. /\ at' = "query" /\ event' \in EventType /\ Happened(event') /\ Coming' \subseteq Coming
      /\ stream' \in Seq(EventType)
      /\ pending' = Queries(event'.kind) /\ answers' = << >> /\ cache' \in StateType
      /\ UNCHANGED chain /\ UNCHANGED <<connected, page, draft, faults>>
  BY Receives
<1>2. Grows /\ unpublished' = unpublished
  BY <1>1, MonitorStepShrinksNothing
<1>3. \A x \in Coming' : Happened(x)'
  BY <1>1, <1>2, HappenedStays DEF MonitorInv
<1>4. Happened(event)'
  BY <1>1, <1>3 DEF Happened, Planted, Launched, chain, ledger
<1>5. event' # Absent
  BY <1>1, AbsentAssumption
<1>6. DOMAIN answers' = {}
  BY <1>1
<1>7. WebTypeOK'
  BY <1>1, <1>5, <1>6 DEF MonitorInv, WebTypeOK
<1> QED
  BY <1>1, <1>2, <1>3, <1>4, <1>6, <1>7 DEF MonitorInv

\* A query answers with what the contract has at the moment.
LEMMA Answers ==
    ASSUME ChainInv, MonitorInv, QueryAnswers
    PROVE  /\ at = "query" /\ at' = "query" /\ event \in EventType /\ Happened(event)
           /\ \E field \in pending :
                 /\ field \in Queries(event.kind) /\ field \notin DOMAIN answers
                 /\ DOMAIN answers' = DOMAIN answers \cup {field}
                 /\ answers'[field] = OnChain(field)
                 /\ \A f \in DOMAIN answers : f # field /\ answers'[f] = answers[f]
                 /\ pending' = pending \ {field}
           /\ UNCHANGED chain
           /\ UNCHANGED <<stream, connected, page, draft, event, cache, faults, gap>>
<1>1. /\ at = "query" /\ at' = "query" /\ UNCHANGED chain
      /\ UNCHANGED <<stream, connected, page, draft, event, cache, faults, gap>>
  BY DEF QueryAnswers, snapshot
<1>2. /\ pending \cap DOMAIN answers = {} /\ pending \cup DOMAIN answers = Queries(event.kind)
      /\ event # Absent /\ event \in EventType /\ Happened(event)
  BY <1>1 DEF MonitorInv, WebTypeOK
<1>3. PICK field \in pending :
         /\ answers' = [f \in DOMAIN answers \cup {field} |->
                           IF f = field THEN OnChain(field) ELSE answers[f]]
         /\ pending' = pending \ {field}
  BY DEF QueryAnswers
<1>4. field \in Queries(event.kind) /\ field \notin DOMAIN answers
  BY <1>2
<1>5. /\ DOMAIN answers' = DOMAIN answers \cup {field}
      /\ answers'[field] = OnChain(field)
      /\ \A f \in DOMAIN answers : f # field /\ answers'[f] = answers[f]
  BY <1>3, <1>4
<1> QED
  BY <1>1, <1>2, <1>3, <1>4, <1>5

\* Answers keep the types.
LEMMA AnswerKeepsMonitor ==
    ASSUME ChainInv, MonitorInv, QueryAnswers
    PROVE  MonitorInv'
<1>1. /\ at = "query" /\ at' = "query" /\ event \in EventType /\ Happened(event)
      /\ UNCHANGED chain
      /\ UNCHANGED <<stream, connected, page, draft, event, cache, faults>>
  BY Answers
<1>2. PICK field \in pending :
         /\ field \in Queries(event.kind) /\ field \notin DOMAIN answers
         /\ DOMAIN answers' = DOMAIN answers \cup {field}
         /\ answers'[field] = OnChain(field)
         /\ \A f \in DOMAIN answers : f # field /\ answers'[f] = answers[f]
         /\ pending' = pending \ {field}
  BY Answers
<1>3. /\ pending \cap DOMAIN answers = {} /\ pending \cup DOMAIN answers = Queries(event.kind)
      /\ \A f \in DOMAIN answers : answers[f] \in IF f = "launched" THEN BOOLEAN ELSE Nat
  BY <1>1 DEF MonitorInv, WebTypeOK
<1>4. OnChain(field) \in IF field = "launched" THEN BOOLEAN ELSE Nat
  BY <1>1, <1>2, OnChainType
<1>5. Grows /\ unpublished' = unpublished
  BY <1>1, MonitorStepShrinksNothing
<1>6. Coming' = Coming
  BY <1>1, <1>5 DEF Coming
<1>7. \A x \in Coming' : Happened(x)'
  BY <1>5, <1>6, HappenedStays DEF MonitorInv
<1>8. Happened(event)'
  BY <1>1, <1>5, EventStays
<1>9. /\ pending' \cap DOMAIN answers' = {}
      /\ pending' \cup DOMAIN answers' = Queries(event'.kind)
  <2> DEFINE asked == Queries(event.kind)
             left == pending
             done == DOMAIN answers
  <2>1. left \cup done = asked /\ left \cap done = {} /\ field \in left
    BY <1>3
  <2> HIDE DEF asked, left, done
  <2>2. (left \ {field}) \cup (done \cup {field}) = asked
        /\ (left \ {field}) \cap (done \cup {field}) = {}
    BY <2>1
  <2> USE DEF asked, left, done
  <2> QED
    BY <1>1, <1>2, <2>2
<1>10. \A f \in DOMAIN answers' : answers'[f] \in IF f = "launched" THEN BOOLEAN ELSE Nat
  BY <1>2, <1>3, <1>4
<1>11. WebTypeOK'
  BY <1>1, <1>9 DEF MonitorInv, WebTypeOK
<1> QED
  BY <1>1, <1>5, <1>7, <1>8, <1>9, <1>10, <1>11 DEF MonitorInv

\* The state with another entry for a coin.
LEMMA EntrySet ==
    ASSUME NEW state \in StateType, NEW c \in Coins, NEW meta \in MetaType
    PROVE  LET s == [state EXCEPT !.shitcoins[c] = meta]
           IN  /\ s \in StateType /\ s.shitcoins[c] = meta
               /\ \A x \in Coins \ {c} : s.shitcoins[x] = state.shitcoins[x]
               /\ s.degens = state.degens /\ s.indexes = state.indexes
<1> DEFINE s == [state EXCEPT !.shitcoins[c] = meta]
           coins == [state.shitcoins EXCEPT ![c] = meta]
<1>1. s = [indexes |-> state.indexes, shitcoins |-> coins, degens |-> state.degens]
  <2>1. s = [state EXCEPT !.shitcoins = coins]
    BY Zenon
  <2> HIDE DEF coins, s
  <2> QED
    BY <2>1 DEF StateType
<1>2. /\ coins \in [Coins -> {Absent} \cup MetaType] /\ coins[c] = meta
      /\ \A x \in Coins \ {c} : coins[x] = state.shitcoins[x]
  BY DEF StateType
<1> HIDE DEF coins
<1> QED
  BY <1>1, <1>2 DEF StateType

\* The state with another entry for a degen.
LEMMA DegenSet ==
    ASSUME NEW state \in StateType, NEW c \in Coins, NEW g \in Degens, NEW degen \in DegenType
    PROVE  LET s == [state EXCEPT !.degens[c][g] = degen]
           IN  /\ s \in StateType /\ s.degens[c][g] = degen
               /\ \A x \in Coins, h \in Degens :
                     (x # c \/ h # g) => s.degens[x][h] = state.degens[x][h]
               /\ s.shitcoins = state.shitcoins /\ s.indexes = state.indexes
<1> DEFINE s == [state EXCEPT !.degens[c][g] = degen]
           degens == [state.degens EXCEPT ![c][g] = degen]
<1>1. s = [indexes |-> state.indexes, shitcoins |-> state.shitcoins, degens |-> degens]
  <2>1. s = [state EXCEPT !.degens = degens]
    BY Zenon
  <2> HIDE DEF degens, s
  <2> QED
    BY <2>1 DEF StateType
<1>2. /\ degens \in [Coins -> [Degens -> {Absent} \cup DegenType]] /\ degens[c][g] = degen
      /\ \A x \in Coins, h \in Degens :
            (x # c \/ h # g) => degens[x][h] = state.degens[x][h]
  BY DEF StateType
<1> HIDE DEF degens
<1> QED
  BY <1>1, <1>2 DEF StateType

\* The answers are in and the entries are there.
LEMMA AppliesToEntries ==
    ASSUME ChainInv, MonitorInv, Apply
    PROVE  /\ at = "query" /\ at' = "timestamp" /\ event \in EventType /\ Happened(event)
           /\ DOMAIN answers = Queries(event.kind) /\ event.coin \in Coins
           /\ \A f \in DOMAIN answers : answers[f] \in IF f = "launched" THEN BOOLEAN ELSE Nat
           /\ event.kind # "ShitcoinCreated" => Meta \in MetaType
           /\ event.kind \in {"PresaleEntered", "ShitcoinClaimed"} =>
                 event.degen \in Degens /\ Degen \in {Absent} \cup DegenType
           /\ event.kind = "ShitcoinClaimed" => Degen \in DegenType
           /\ cache \in StateType /\ cache' = Applied
           /\ UNCHANGED chain
           /\ UNCHANGED <<stream, connected, page, draft, event, pending, answers, faults, gap>>
<1>1. /\ at = "query" /\ at' = "timestamp" /\ pending = {} /\ ~Panics /\ cache' = Applied
      /\ UNCHANGED chain
      /\ UNCHANGED <<stream, connected, page, draft, event, pending, answers, faults, gap>>
  BY DEF Apply, handling, snapshot
<1>2. /\ event \in EventType /\ Happened(event) /\ cache \in StateType
      /\ pending \cup DOMAIN answers = Queries(event.kind)
      /\ \A f \in DOMAIN answers : answers[f] \in IF f = "launched" THEN BOOLEAN ELSE Nat
  BY <1>1 DEF MonitorInv, WebTypeOK
<1>3. DOMAIN answers = Queries(event.kind)
  BY <1>1, <1>2
<1>4. /\ event.coin \in Coins
      /\ event.kind \in {"PresaleEntered", "ShitcoinClaimed"} => event.degen \in Degens
  BY <1>2 DEF Happened, EventType
<1>5. Meta \in {Absent} \cup MetaType
  BY <1>2, <1>4 DEF Meta, StateType
<1>6. event.kind \in {"PresaleEntered", "ShitcoinClaimed"} =>
          Degen \in {Absent} \cup DegenType
  BY <1>2, <1>4 DEF Degen, StateType
<1>7. /\ event.kind # "ShitcoinCreated" => Meta # Absent
      /\ event.kind = "ShitcoinClaimed" => Degen # Absent
  BY <1>1 DEF Panics
<1> QED
  BY <1>1, <1>2, <1>3, <1>4, <1>5, <1>6, <1>7

\* What storing the answers changes: the entry of the coin, field by field,
\* and that of the degen.
LEMMA Applies ==
    ASSUME ChainInv, MonitorInv, Apply
    PROVE  LET c == event.coin
               g == event.degen
               k == event.kind
               new == cache'.shitcoins[c]
           IN  /\ cache' \in StateType /\ new \in MetaType
               /\ cache'.indexes = cache.indexes
               /\ \A x \in Coins \ {c} : cache'.shitcoins[x] = cache.shitcoins[x]
               /\ k = "ShitcoinCreated" =>
                     new = CreatedMeta
               /\ k # "ShitcoinCreated" =>
                     /\ Meta \in MetaType
                     /\ new.creator = Meta.creator
                     /\ new.end = IF k = "PresaleExtended" THEN answers["end"] ELSE Meta.end
                     /\ new.raise = IF k = "PresaleEntered" THEN answers["raise"] ELSE Meta.raise
                     /\ new.url = IF k = "ShitcoinUrlSet" THEN answers["url"] ELSE Meta.url
                     /\ new.launched = IF k = "ShitcoinLaunched" THEN TRUE ELSE Meta.launched
               /\ \A x \in Coins, h \in Degens :
                     (x # c \/ h # g \/ k \notin {"PresaleEntered", "ShitcoinClaimed"}) =>
                         cache'.degens[x][h] = cache.degens[x][h]
               /\ k = "PresaleEntered" => cache'.degens[c][g] =
                     [submission |-> answers["submission"],
                      claimed |-> Or(Degen, DefaultDegen).claimed]
               /\ k = "ShitcoinClaimed" => Degen # Absent /\ cache'.degens[c][g] =
                     [submission |-> Degen.submission, claimed |-> TRUE]
<1> DEFINE c == event.coin
           g == event.degen
           k == event.kind
<1>1. /\ event \in EventType /\ cache \in StateType /\ c \in Coins /\ cache' = Applied
      /\ DOMAIN answers = Queries(k) /\ k \in Kinds
      /\ \A f \in DOMAIN answers : answers[f] \in IF f = "launched" THEN BOOLEAN ELSE Nat
  BY AppliesToEntries DEF EventType
<1>2. k # "ShitcoinCreated" => Meta \in MetaType
  BY AppliesToEntries
<1>3. CASE k = "ShitcoinCreated"
  <2>1. DOMAIN answers = {"end", "raise", "launched", "url"}
    BY <1>1, <1>3 DEF Queries
  <2>2. CreatedMeta \in MetaType
    BY <1>1, <2>1 DEF CreatedMeta, MetaType
  <2>3. cache' = [cache EXCEPT !.shitcoins[event.coin] = CreatedMeta]
    BY <1>1, <1>3 DEF Applied
  <2> QED
    BY <1>1, <1>3, <2>2, <2>3, EntrySet
<1>4. CASE k = "PresaleExtended"
  <2> DEFINE meta == [Meta EXCEPT !.end = answers["end"]]
  <2>1. answers["end"] \in Nat
    BY <1>1, <1>4 DEF Queries
  <2>2. /\ meta \in MetaType /\ meta.creator = Meta.creator /\ meta.end = answers["end"]
        /\ meta.raise = Meta.raise /\ meta.url = Meta.url /\ meta.launched = Meta.launched
    BY <1>2, <1>4, <2>1 DEF MetaType
  <2>3. cache' = [cache EXCEPT !.shitcoins[event.coin] = meta]
    BY <1>1, <1>4 DEF Applied
  <2> HIDE DEF meta
  <2> QED
    BY <1>1, <1>2, <1>4, <2>2, <2>3, EntrySet
<1>5. CASE k = "ShitcoinUrlSet"
  <2> DEFINE meta == [Meta EXCEPT !.url = answers["url"]]
  <2>1. answers["url"] \in Nat
    BY <1>1, <1>5 DEF Queries
  <2>2. /\ meta \in MetaType /\ meta.creator = Meta.creator /\ meta.url = answers["url"]
        /\ meta.raise = Meta.raise /\ meta.end = Meta.end /\ meta.launched = Meta.launched
    BY <1>2, <1>5, <2>1 DEF MetaType
  <2>3. cache' = [cache EXCEPT !.shitcoins[event.coin] = meta]
    BY <1>1, <1>5 DEF Applied
  <2> HIDE DEF meta
  <2> QED
    BY <1>1, <1>2, <1>5, <2>2, <2>3, EntrySet
<1>6. CASE k = "ShitcoinLaunched"
  <2> DEFINE meta == [Meta EXCEPT !.launched = TRUE]
  <2>2. /\ meta \in MetaType /\ meta.creator = Meta.creator /\ meta.url = Meta.url
        /\ meta.raise = Meta.raise /\ meta.end = Meta.end /\ meta.launched = TRUE
    BY <1>2, <1>6 DEF MetaType
  <2>3. cache' = [cache EXCEPT !.shitcoins[event.coin] = meta]
    BY <1>1, <1>6 DEF Applied
  <2> HIDE DEF meta
  <2>4. /\ cache' \in StateType /\ cache'.shitcoins[c] = meta
        /\ \A x \in Coins \ {c} : cache'.shitcoins[x] = cache.shitcoins[x]
        /\ cache'.degens = cache.degens /\ cache'.indexes = cache.indexes
    BY <1>1, <2>2, <2>3, EntrySet
  <2> QED
    BY <1>2, <1>6, <2>2, <2>4
<1>7. CASE k = "PresaleEntered"
  <2> DEFINE meta == [Meta EXCEPT !.raise = answers["raise"]]
             degen == [submission |-> answers["submission"],
                       claimed |-> Or(Degen, DefaultDegen).claimed]
             half == [cache EXCEPT !.shitcoins[c] = meta]
  <2>1. answers["raise"] \in Nat /\ answers["submission"] \in Nat
    BY <1>1, <1>7 DEF Queries
  <2>2. /\ meta \in MetaType /\ meta.creator = Meta.creator /\ meta.url = Meta.url
        /\ meta.end = Meta.end /\ meta.launched = Meta.launched
        /\ meta.raise = answers["raise"]
    BY <1>2, <1>7, <2>1 DEF MetaType
  <2>3. g \in Degens /\ Or(Degen, DefaultDegen) \in DegenType
    BY <1>7, AppliesToEntries DEF Or, DefaultDegen, DegenType
  <2>4. degen \in DegenType
    BY <2>1, <2>3 DEF DegenType
  <2>5. [Or(Degen, DefaultDegen) EXCEPT !.submission = answers["submission"]] = degen
    BY <2>3 DEF DegenType
  <2>6. cache' = [half EXCEPT !.degens[c][g] =
                     [Or(Degen, DefaultDegen) EXCEPT !.submission = answers["submission"]]]
    BY <1>1, <1>7 DEF Applied, Stored
  <2>7. cache' = [half EXCEPT !.degens[c][g] = degen]
    BY <2>5, <2>6
  <2>8. /\ half \in StateType /\ half.shitcoins[c] = meta /\ half.degens = cache.degens
        /\ half.indexes = cache.indexes
        /\ \A x \in Coins \ {c} : half.shitcoins[x] = cache.shitcoins[x]
    BY <1>1, <2>2, EntrySet
  <2> HIDE DEF meta, half
  <2>9. /\ cache' \in StateType /\ cache'.degens[c][g] = degen
        /\ \A x \in Coins, h \in Degens :
              (x # c \/ h # g) => cache'.degens[x][h] = half.degens[x][h]
        /\ cache'.shitcoins = half.shitcoins /\ cache'.indexes = half.indexes
    BY <1>1, <2>3, <2>4, <2>7, <2>8, DegenSet
  <2> HIDE DEF degen
  <2>10. degen = [submission |-> answers["submission"],
                  claimed |-> Or(Degen, DefaultDegen).claimed]
    BY DEF degen
  <2> QED
    BY <1>1, <1>2, <1>7, <2>2, <2>8, <2>9, <2>10
<1>8. CASE k = "ShitcoinClaimed"
  <2> DEFINE degen == [submission |-> Degen.submission, claimed |-> TRUE]
  <2>1. g \in Degens /\ Degen \in DegenType /\ Degen # Absent
    BY <1>8, AppliesToEntries, AbsentAssumption
  <2>2. degen \in DegenType
    BY <2>1 DEF DegenType
  <2>3. [Degen EXCEPT !.claimed = TRUE] = degen
    <3> DEFINE new == [Degen EXCEPT !.claimed = TRUE]
    <3>1. new \in DegenType /\ new.claimed = TRUE /\ new.submission = Degen.submission
      BY <2>1 DEF DegenType
    <3> HIDE DEF new
    <3>2. new = degen
      BY <3>1 DEF DegenType
    <3> QED
      BY <3>2 DEF new
  <2>4. cache' = [cache EXCEPT !.degens[c][g] = [Degen EXCEPT !.claimed = TRUE]]
    BY <1>1, <1>8, <2>1 DEF Applied, Degen, StateType
  <2>5. cache' = [cache EXCEPT !.degens[c][g] = degen]
    BY <2>3, <2>4
  <2> HIDE DEF degen
  <2>6. /\ cache' \in StateType /\ cache'.degens[c][g] = degen
        /\ \A x \in Coins, h \in Degens :
              (x # c \/ h # g) => cache'.degens[x][h] = cache.degens[x][h]
        /\ cache'.shitcoins = cache.shitcoins /\ cache'.indexes = cache.indexes
    BY <1>1, <2>1, <2>2, <2>5, DegenSet
  <2>7. degen = [submission |-> Degen.submission, claimed |-> TRUE]
    BY DEF degen
  <2>8. cache'.shitcoins[c] = Meta
    BY <2>6 DEF Meta
  <2> QED
    BY <1>2, <1>8, <2>1, <2>6, <2>7, <2>8
<1>9. \/ k = "ShitcoinCreated" \/ k = "PresaleExtended" \/ k = "ShitcoinUrlSet"
      \/ k = "ShitcoinLaunched" \/ k = "PresaleEntered" \/ k = "ShitcoinClaimed"
  BY <1>1 DEF Kinds
<1> QED
  BY <1>3, <1>4, <1>5, <1>6, <1>7, <1>8, <1>9

\* Storing the answers keeps the types.
LEMMA ApplyKeepsMonitor ==
    ASSUME ChainInv, MonitorInv, Apply
    PROVE  MonitorInv'
<1>1. /\ at = "query" /\ at' = "timestamp" /\ event \in EventType /\ Happened(event)
      /\ UNCHANGED chain
      /\ UNCHANGED <<stream, connected, page, draft, event, pending, answers, faults>>
  BY AppliesToEntries
<1>2. cache' \in StateType
  BY Applies
<1>3. Grows /\ unpublished' = unpublished
  BY <1>1, MonitorStepShrinksNothing
<1>4. Coming' = Coming
  BY <1>1, <1>3 DEF Coming
<1>5. \A x \in Coming' : Happened(x)'
  BY <1>3, <1>4, HappenedStays DEF MonitorInv
<1>6. Happened(event)'
  BY <1>1, <1>3, EventStays
<1>7. WebTypeOK'
  BY <1>1, <1>2 DEF MonitorInv, WebTypeOK
<1> QED
  BY <1>1, <1>3, <1>5, <1>6, <1>7 DEF MonitorInv

\* The event is broadcast.
LEMMA BroadcastKeepsMonitor ==
    ASSUME ChainInv, MonitorInv, Broadcast
    PROVE  MonitorInv'
<1>1. /\ at = "timestamp" /\ at' = "listen" /\ event' = Absent /\ pending' = {}
      /\ answers' = << >> /\ UNCHANGED chain
      /\ UNCHANGED <<stream, connected, page, draft, cache, faults>>
  BY DEF Broadcast, snapshot
<1>2. Grows /\ unpublished' = unpublished
  BY <1>1, MonitorStepShrinksNothing
<1>3. Coming' = Coming
  BY <1>1, <1>2 DEF Coming
<1>4. \A x \in Coming' : Happened(x)'
  BY <1>2, <1>3, HappenedStays DEF MonitorInv
<1>5. WebTypeOK'
  BY <1>1 DEF MonitorInv, WebTypeOK
<1> QED
  BY <1>1, <1>2, <1>4, <1>5 DEF MonitorInv

\* The subscription is gone.
LEMMA UnsubscribedKeepsMonitor ==
    ASSUME ChainInv, MonitorInv, Unsubscribed
    PROVE  MonitorInv'
<1>1. StartSnapshot /\ UNCHANGED chain /\ UNCHANGED <<connected, cache, faults>>
  BY DEF Unsubscribed
<1>2. Grows /\ unpublished' = unpublished
  BY <1>1, MonitorStepShrinksNothing
<1>3. cache' \in StateType /\ faults' \in 0 .. MaxFaults /\ connected' \in BOOLEAN
  BY <1>1 DEF MonitorInv, WebTypeOK
<1> QED
  BY <1>1, <1>2, <1>3, StartsAgain

\* A fault is one more.
LEMMA FaultCounts ==
    ASSUME MonitorInv, Fault
    PROVE  faults' \in 0 .. MaxFaults
<1>1. MaxFaults \in Nat
  BY WebAssumption
<1>2. faults \in 0 .. MaxFaults /\ faults < MaxFaults /\ faults' = faults + 1
  BY DEF Fault, MonitorInv, WebTypeOK
<1> QED
  BY <1>1, <1>2

\* A failure makes the monitor start over.
LEMMA StartOverKeepsMonitor ==
    ASSUME ChainInv, MonitorInv, StartOver
    PROVE  MonitorInv'
<1>1. StartSnapshot /\ Fault /\ UNCHANGED chain /\ UNCHANGED <<connected, cache>>
  BY DEF StartOver
<1>2. Grows /\ unpublished' = unpublished
  BY <1>1, MonitorStepShrinksNothing
<1>3. faults' \in 0 .. MaxFaults
  BY <1>1, FaultCounts
<1>4. cache' \in StateType /\ connected' \in BOOLEAN
  BY <1>1 DEF MonitorInv, WebTypeOK
<1> QED
  BY <1>1, <1>2, <1>3, <1>4, StartsAgain

\* The process is started again.
LEMMA SnapshotFailsKeepsMonitor ==
    ASSUME ChainInv, MonitorInv, SnapshotFails
    PROVE  MonitorInv'
<1>1. /\ StartSnapshot /\ Fault /\ UNCHANGED chain
      /\ cache' = EmptyState /\ connected' = TRUE
  BY DEF SnapshotFails, Restart
<1>2. Grows /\ unpublished' = unpublished
  BY <1>1, MonitorStepShrinksNothing
<1>3. faults' \in 0 .. MaxFaults
  BY <1>1, FaultCounts
<1>4. cache' \in StateType
  BY <1>1, EmptyStateType
<1> QED
  BY <1>1, <1>2, <1>3, <1>4, StartsAgain

\* The connection is lost.
LEMMA ClosingKeepsMonitor ==
    ASSUME ChainInv, MonitorInv, ConnectionCloses
    PROVE  MonitorInv'
<1>1. /\ Fault /\ connected' = FALSE /\ UNCHANGED chain
      /\ UNCHANGED <<stream, at, page, draft, event, pending, answers, cache>>
  BY DEF ConnectionCloses, snapshot, handling
<1>2. Grows /\ unpublished' = unpublished
  BY <1>1, MonitorStepShrinksNothing
<1>3. Coming' = Coming
  BY <1>1, <1>2 DEF Coming
<1>4. \A x \in Coming' : Happened(x)'
  BY <1>2, <1>3, HappenedStays DEF MonitorInv
<1>5. event # Absent => Happened(event)'
  BY <1>1, <1>2, EventStays DEF MonitorInv
<1>6. faults' \in 0 .. MaxFaults
  BY <1>1, FaultCounts
<1>7. WebTypeOK'
  BY <1>1, <1>6 DEF MonitorInv, WebTypeOK
<1> QED
  BY <1>1, <1>2, <1>4, <1>5, <1>7 DEF MonitorInv

\* A panic ends the process or the task.
LEMMA PanicKeepsMonitor ==
    ASSUME ChainInv, MonitorInv, Panic
    PROVE  MonitorInv'
<1>1. UNCHANGED chain /\ faults' = faults
  BY DEF Panic
<1>2. Grows /\ unpublished' = unpublished
  BY <1>1, MonitorStepShrinksNothing
<1>3. CASE Restart
  <2>1. StartSnapshot /\ cache' = EmptyState /\ connected' = TRUE
    BY <1>3 DEF Restart
  <2>2. cache' \in StateType /\ faults' \in 0 .. MaxFaults
    BY <1>1, <2>1, EmptyStateType DEF MonitorInv, WebTypeOK
  <2> QED
    BY <1>2, <2>1, <2>2, StartsAgain
<1>4. CASE ~Restart
  <2>1. /\ at' = "dead" /\ stream' = << >> /\ event' = Absent /\ pending' = {}
        /\ answers' = << >>
        /\ UNCHANGED <<connected, page, draft, cache>>
    BY <1>4 DEF Panic, snapshot
  <2>2. Coming' \subseteq Coming
    BY <1>2, <2>1, ElementsOfNone DEF Coming
  <2>3. \A x \in Coming' : Happened(x)'
    BY <1>2, <2>2, HappenedStays DEF MonitorInv
  <2>4. WebTypeOK'
    BY <1>1, <2>1 DEF MonitorInv, WebTypeOK
  <2> QED
    BY <1>2, <2>1, <2>3, <2>4 DEF MonitorInv
<1> QED
  BY <1>3, <1>4

BaseInv == ChainInv /\ MonitorInv

\* At the start.
LEMMA BaseAtStart ==
    ASSUME WebInit
    PROVE  BaseInv
<1>1. ChainInv
  BY DEF WebInit, Init, ChainInv, Planted
<1>2. draft \in StateType /\ cache \in StateType
  BY EmptyStateType DEF WebInit
<1>3. Len(KeyPrefixes) = 9
  BY DEF KeyPrefixes
<1>4. /\ at = "snapshot" /\ page = 1 /\ event = Absent /\ pending = {} /\ answers = << >>
      /\ faults = 0 /\ connected = TRUE /\ unpublished = << >> /\ stream = << >>
  BY DEF WebInit
<1>5. WebTypeOK
  BY <1>2, <1>3, <1>4, WebAssumption DEF WebTypeOK
<1>6. Coming = {}
  BY <1>4, ElementsOfNone DEF Coming
<1> QED
  BY <1>1, <1>4, <1>5, <1>6 DEF MonitorInv, BaseInv

\* And after every step.
LEMMA BaseKept ==
    ASSUME BaseInv, [WebNext]_vars
    PROVE  BaseInv' /\ Grows
<1> USE DEF BaseInv
<1>1. CASE Commit
  <2>1. PICK e : MessageDoes(e) /\ (Emit(e) \/ Unannounced)
    BY <1>1, CommitDoes
  <2> QED
    BY <1>1, <2>1, CommitKeepsMonitor DEF MessageDoes
<1>2. CASE TimePasses
  BY <1>2, Closes, TimeKeepsMonitor
<1>3. CASE Publish
  <2>1. UNCHANGED <<ledger, url, listed>>
    BY <1>3 DEF Publish
  <2> QED
    BY <1>3, <2>1, NothingShrinks, PublishKeepsMonitor
<1>4. CASE ~(Commit \/ TimePasses \/ Publish) /\ WebNext
  <2>1. UNCHANGED chain
    BY <1>4 DEF WebNext, Monitor, ReadPage, InstallSnapshot, Subscribe, Unsubscribed, Receive,
                QueryAnswers, Apply, Broadcast, Panic, StartOver, ConnectionCloses, SnapshotFails
  <2>2. Grows /\ ChainInv'
    BY <2>1, MonitorStepShrinksNothing
  <2>3. MonitorInv'
    BY <1>4, ReadPageKeepsMonitor, InstallKeepsMonitor, SubscribeKeepsMonitor,
       UnsubscribedKeepsMonitor, ReceiveKeepsMonitor, AnswerKeepsMonitor, ApplyKeepsMonitor,
       BroadcastKeepsMonitor, PanicKeepsMonitor, StartOverKeepsMonitor, ClosingKeepsMonitor,
       SnapshotFailsKeepsMonitor
       DEF WebNext, Monitor
  <2> QED
    BY <2>2, <2>3
<1>5. CASE UNCHANGED vars
  <2>1. /\ UNCHANGED <<ledger, url, listed, unpublished>>
        /\ UNCHANGED <<stream, connected, at, page, draft, event, pending, answers, cache,
                       faults, gap>>
    BY <1>5 DEF vars, chain, snapshot, handling
  <2>2. Grows /\ ChainInv'
    BY <2>1, NothingShrinks
  <2>3. \A x \in Coming' : Happened(x)'
    BY <2>1, <2>2, HappenedStays DEF MonitorInv, Coming
  <2>4. event # Absent => Happened(event)'
    BY <2>1, <2>2, EventStays DEF MonitorInv
  <2>5. WebTypeOK'
    BY <2>1 DEF MonitorInv, WebTypeOK
  <2> QED
    BY <2>1, <2>2, <2>3, <2>4, <2>5 DEF MonitorInv
<1> QED
  BY <1>1, <1>2, <1>3, <1>4, <1>5 DEF WebNext

\* The monitor's state has its types and the maps hold entries of theirs,
\* whatever the order of the answers, the pages and the failures.
THEOREM MonitorKeepsItsTypes == WebSpec => []WebTypeOK
<1>1. WebInit => BaseInv
  BY BaseAtStart
<1>2. BaseInv /\ [WebNext]_vars => BaseInv'
  BY BaseKept
<1>3. BaseInv => WebTypeOK
  BY DEF BaseInv, MonitorInv
<1> QED
  BY <1>1, <1>2, <1>3, PTL DEF WebSpec
-----------------------------------------------------------------------------
(***************************************************************************)
(* The copy is never ahead of the contract.                                *)
(***************************************************************************)

\* An entry stays behind when the contract moves on.
LEMMA MetaStaysBehind ==
    ASSUME ChainInv, ChainInv', Grows, NEW c \in Coins, NEW meta \in MetaType,
           MetaNotAhead(c, meta)
    PROVE  MetaNotAhead(c, meta)'
<1>1. /\ deadline[c] \in Nat /\ raised[c] \in Nat /\ url[c] \in Nat
      /\ deadline'[c] \in Nat /\ raised'[c] \in Nat /\ url'[c] \in Nat
  BY DEF ChainInv
<1>2. meta.end \in Nat /\ meta.raise \in Nat /\ meta.url \in Nat
  BY DEF MetaType
<1>3. /\ deadline[c] <= deadline'[c] /\ raised[c] <= raised'[c] /\ url[c] <= url'[c]
      /\ (Launched(c) => Launched(c)') /\ (Planted(c) => Planted(c)')
  BY DEF Grows
<1> QED
  BY <1>1, <1>2, <1>3 DEF MetaNotAhead

\* So does that of a degen.
LEMMA DegenStaysBehind ==
    ASSUME ChainInv, ChainInv', Grows, NEW c \in Coins, NEW g \in Degens,
           NEW degen \in DegenType, DegenNotAhead(c, g, degen)
    PROVE  DegenNotAhead(c, g, degen)'
<1>1. contributed[c][g] \in Nat /\ contributed'[c][g] \in Nat
  BY DEF ChainInv
<1>2. degen.submission \in Nat
  BY DEF DegenType
<1>3. contributed[c][g] <= contributed'[c][g] /\ claimed[c] \subseteq claimed'[c]
  BY DEF Grows
<1> QED
  BY <1>1, <1>2, <1>3 DEF DegenNotAhead

\* And a whole copy.
LEMMA CopyStaysBehind ==
    ASSUME ChainInv, ChainInv', Grows, NEW state \in StateType, NotAhead(state)
    PROVE  NotAhead(state)'
<1>1. /\ \A c \in Coins : state.shitcoins[c] \in {Absent} \cup MetaType
      /\ \A c \in Coins, g \in Degens : state.degens[c][g] \in {Absent} \cup DegenType
  BY DEF StateType
<1>2. ASSUME NEW c \in Coins, state.shitcoins[c] # Absent
      PROVE  MetaNotAhead(c, state.shitcoins[c])'
  BY <1>1, <1>2, MetaStaysBehind DEF NotAhead
<1>3. ASSUME NEW c \in Coins, NEW g \in Degens, state.degens[c][g] # Absent
      PROVE  DegenNotAhead(c, g, state.degens[c][g])'
  BY <1>1, <1>3, DegenStaysBehind DEF NotAhead
<1> QED
  BY <1>2, <1>3 DEF NotAhead

\* Keys read from the storage do not put it ahead.
LEMMA KeysNotAhead ==
    ASSUME ChainInv, NEW state \in StateType, NotAhead(state), NEW prefixes
    PROVE  NotAhead(AddKeys(state, prefixes))
<1> DEFINE read == AddKeys(state, prefixes)
<1>1. ASSUME NEW c \in Coins, read.shitcoins[c] # Absent
      PROVE  MetaNotAhead(c, read.shitcoins[c])
  <2> DEFINE entry == state.shitcoins[c]
             keys == KeysUnder(prefixes, c)
             meta == OrDefault(entry)
  <2>1. read.shitcoins[c] = ShitcoinKeys(prefixes, c, entry)
    BY DEF AddKeys
  <2>2. CASE keys = {}
    BY <1>1, <2>1, <2>2 DEF ShitcoinKeys, NotAhead
  <2>3. CASE keys # {}
    <3>1. Planted(c) /\ ("SHITCOIN_LAUNCHED" \in keys => Launched(c))
      BY <2>3 DEF KeysUnder, Launched
    <3>2. deadline[c] \in Nat /\ raised[c] \in Nat /\ url[c] \in Nat
      BY DEF ChainInv
    <3>3. /\ meta.end <= deadline[c] /\ meta.raise <= raised[c] /\ meta.url <= url[c]
          /\ meta.launched => Launched(c)
      <4>1. CASE entry = Absent
        BY <4>1, <3>2 DEF OrDefault, Or, DefaultMeta
      <4>2. CASE entry # Absent
        BY <4>2 DEF OrDefault, Or, NotAhead, MetaNotAhead
      <4> QED
        BY <4>1, <4>2
    <3>4. read.shitcoins[c] =
             [creator |-> meta.creator \/ "SHITCOIN_CREATOR" \in keys,
              url |-> IF "SHITCOIN_URL" \in keys THEN url[c] ELSE meta.url,
              end |-> IF "PRESALE_END" \in keys THEN deadline[c] ELSE meta.end,
              raise |-> IF "PRESALE_RAISE" \in keys THEN raised[c] ELSE meta.raise,
              launched |-> meta.launched \/ "SHITCOIN_LAUNCHED" \in keys]
      BY <2>1, <2>3 DEF ShitcoinKeys
    <3> DEFINE new == read.shitcoins[c]
    <3> HIDE DEF meta, keys, read
    <3>5. /\ new.url = IF "SHITCOIN_URL" \in keys THEN url[c] ELSE meta.url
          /\ new.end = IF "PRESALE_END" \in keys THEN deadline[c] ELSE meta.end
          /\ new.raise = IF "PRESALE_RAISE" \in keys THEN raised[c] ELSE meta.raise
          /\ new.launched = (meta.launched \/ "SHITCOIN_LAUNCHED" \in keys)
      BY <3>4
    <3> HIDE DEF new
    <3>6. MetaNotAhead(c, new)
      <4>1. new.end <= deadline[c] /\ new.raise <= raised[c] /\ new.url <= url[c]
        BY <3>2, <3>3, <3>5
      <4>2. new.launched => Launched(c)
        BY <3>1, <3>3, <3>5
      <4> QED
        BY <3>1, <4>1, <4>2 DEF MetaNotAhead
    <3> QED
      BY <3>6 DEF new
  <2> QED
    BY <2>2, <2>3
<1>2. ASSUME NEW c \in Coins, NEW g \in Degens, read.degens[c][g] # Absent
      PROVE  DegenNotAhead(c, g, read.degens[c][g])
  <2> DEFINE entry == state.degens[c][g]
             degen == Or(entry, DefaultDegen)
             submitted == "PRESALE_SUBMISSION" \in prefixes /\ contributed[c][g] > 0
             claims == "PRESALE_CLAIMED" \in prefixes /\ g \in claimed[c]
  <2>1. read.degens[c][g] = DegenKeys(prefixes, c, g, entry)
    BY DEF AddKeys
  <2>2. CASE ~submitted /\ ~claims
    BY <1>2, <2>1, <2>2 DEF DegenKeys, NotAhead
  <2>3. CASE submitted \/ claims
    <3>1. contributed[c][g] \in Nat
      BY DEF ChainInv
    <3>2. degen.submission <= contributed[c][g] /\ (degen.claimed => g \in claimed[c])
      <4>1. CASE entry = Absent
        BY <4>1, <3>1 DEF Or, DefaultDegen
      <4>2. CASE entry # Absent
        BY <4>2 DEF Or, NotAhead, DegenNotAhead
      <4> QED
        BY <4>1, <4>2
    <3>3. read.degens[c][g] =
             [submission |-> IF submitted THEN contributed[c][g] ELSE degen.submission,
              claimed |-> degen.claimed \/ claims]
      BY <2>1, <2>3 DEF DegenKeys
    <3>4. claims => g \in claimed[c]
      OBVIOUS
    <3> DEFINE new == read.degens[c][g]
    <3> HIDE DEF degen, submitted, claims, read
    <3>5. /\ new.submission = IF submitted THEN contributed[c][g] ELSE degen.submission
          /\ new.claimed = (degen.claimed \/ claims)
      BY <3>3
    <3> HIDE DEF new
    <3>6. DegenNotAhead(c, g, new)
      <4>1. new.submission <= contributed[c][g]
        BY <3>1, <3>2, <3>5
      <4>2. new.claimed => g \in claimed[c]
        BY <3>2, <3>4, <3>5
      <4> QED
        BY <4>1, <4>2 DEF DegenNotAhead
    <3> QED
      BY <3>6 DEF new
  <2> QED
    BY <2>2, <2>3
<1> HIDE DEF read
<1>3. NotAhead(read)
  BY <1>1, <1>2 DEF NotAhead
<1> QED
  BY <1>3 DEF read

\* What the contract has of a field does not shrink.
LEMMA OnChainGrows ==
    ASSUME ChainInv, Grows, Happened(event), event' = event,
           NEW f \in Queries(event.kind), f # "launched"
    PROVE  OnChain(f) <= OnChain(f)'
<1>1. /\ event.coin \in Coins /\ event.kind \in Kinds
      /\ event.kind = "PresaleEntered" => event.degen \in Degens
  BY DEF Happened, EventType
<1>2. f \in {"end", "raise", "url", "submission"}
      /\ (f = "submission" => event.kind = "PresaleEntered")
  BY <1>1 DEF Queries, Kinds
<1>3. CASE f = "end"
  BY <1>1, <1>3 DEF OnChain, Grows
<1>4. CASE f = "raise"
  BY <1>1, <1>4 DEF OnChain, Grows
<1>5. CASE f = "url"
  BY <1>1, <1>5 DEF OnChain, Grows
<1>6. CASE f = "submission"
  BY <1>1, <1>2, <1>6 DEF OnChain, Grows
<1> QED
  BY <1>2, <1>3, <1>4, <1>5, <1>6

\* Answers stay behind.
LEMMA AnswersStayBehind ==
    ASSUME BaseInv, BaseInv', Grows, AnswersNotAhead,
           at' = at, event' = event, answers' = answers
    PROVE  AnswersNotAhead'
<1> SUFFICES ASSUME at = "query", NEW f \in DOMAIN answers
             PROVE  IF f = "launched" THEN answers[f] => Launched(event.coin)'
                    ELSE answers[f] <= OnChain(f)'
  BY DEF AnswersNotAhead, Launched
<1>1. /\ Happened(event) /\ f \in Queries(event.kind) /\ event.coin \in Coins
      /\ answers[f] \in IF f = "launched" THEN BOOLEAN ELSE Nat
  BY DEF BaseInv, MonitorInv, WebTypeOK, Happened, EventType
<1>2. CASE f = "launched"
  <2>1. answers[f] => Launched(event.coin)
    BY <1>2 DEF AnswersNotAhead
  <2>2. Launched(event.coin) => Launched(event.coin)'
    BY <1>1 DEF Grows, Launched
  <2> QED
    BY <1>2, <2>1, <2>2
<1>3. CASE f # "launched"
  <2>1. answers[f] <= OnChain(f)
    BY <1>3 DEF AnswersNotAhead
  <2>2. OnChain(f) <= OnChain(f)'
    BY <1>1, <1>3, OnChainGrows DEF BaseInv
  <2>3. OnChain(f) \in Nat
    BY <1>1, <1>3, OnChainType DEF BaseInv
  <2>4. Happened(event)' /\ f \in Queries(event'.kind)
    BY <1>1, EventStays
  <2>5. OnChain(f)' \in Nat
    <3>1. event'.coin \in Coins /\ f \in {"end", "raise", "url", "submission"}
          /\ (f = "submission" => event'.degen \in Degens)
      BY <1>1, <1>3, <2>4 DEF Queries, Kinds, Happened, EventType
    <3> QED
      BY <3>1 DEF OnChain, BaseInv, ChainInv
  <2> QED
    BY <1>1, <1>3, <2>1, <2>2, <2>3, <2>5
<1> QED
  BY <1>2, <1>3

\* The shared state stays behind when nothing is written to its maps.
LEMMA CacheStaysBehind ==
    ASSUME BaseInv, BaseInv', Grows, NotAhead(cache),
           cache'.shitcoins = cache.shitcoins, cache'.degens = cache.degens
    PROVE  NotAhead(cache)'
<1>1. PICK state : state = cache
  OBVIOUS
<1>2. state \in StateType /\ NotAhead(state)
  BY <1>1 DEF BaseInv, MonitorInv, WebTypeOK, NotAhead
<1>3. NotAhead(state)'
  BY <1>2, CopyStaysBehind DEF BaseInv
<1> QED
  BY <1>1, <1>3 DEF NotAhead

\* So does the part of the snapshot that has been read.
LEMMA DraftStaysBehind ==
    ASSUME BaseInv, BaseInv', Grows, NotAhead(draft), draft' = draft
    PROVE  NotAhead(draft)'
<1>1. PICK state : state = draft
  OBVIOUS
<1>2. state \in StateType /\ NotAhead(state)
  BY <1>1 DEF BaseInv, MonitorInv, WebTypeOK, NotAhead
<1>3. NotAhead(state)'
  BY <1>2, CopyStaysBehind DEF BaseInv
<1> QED
  BY <1>1, <1>3 DEF NotAhead

\* A server that knows nothing is not ahead.
LEMMA NothingIsAhead ==
    /\ NotAhead(EmptyState)
    /\ cache' = EmptyState => NotAhead(cache)'
    /\ draft' = EmptyState => NotAhead(draft)'
BY EmptyStateType DEF NotAhead

\* A step back to the snapshot.
LEMMA StartingAgainNotAhead ==
    ASSUME BaseInv, BaseInv', Grows, AheadInv, StartSnapshot,
           cache' = cache \/ cache' = EmptyState
    PROVE  AheadInv'
<1>1. draft' = EmptyState /\ at' = "snapshot"
  BY DEF StartSnapshot
<1>2. NotAhead(cache)'
  BY CacheStaysBehind, NothingIsAhead DEF AheadInv
<1>3. NotAhead(draft)'
  BY <1>1, NothingIsAhead
<1>4. AnswersNotAhead'
  BY <1>1 DEF AnswersNotAhead
<1> QED
  BY <1>2, <1>3, <1>4 DEF AheadInv

\* Answers read now.
LEMMA AnswerNotAhead ==
    ASSUME BaseInv, BaseInv', AheadInv, QueryAnswers
    PROVE  AnswersNotAhead'
<1>1. /\ at = "query" /\ at' = "query" /\ Happened(event) /\ UNCHANGED chain /\ event' = event
  BY Answers DEF BaseInv
<1>2. PICK field \in pending :
         /\ field \in Queries(event.kind)
         /\ DOMAIN answers' = DOMAIN answers \cup {field}
         /\ answers'[field] = OnChain(field)
         /\ \A f \in DOMAIN answers : f # field /\ answers'[f] = answers[f]
  BY Answers DEF BaseInv
<1>3. UNCHANGED <<phase, deadline, raised, contributed, claimed, url>>
  BY <1>1 DEF chain, ledger
<1>4. \A f : OnChain(f)' = OnChain(f)
  BY <1>1, <1>3 DEF OnChain
<1>5. Launched(event.coin)' <=> Launched(event.coin)
  BY <1>1, <1>3 DEF Launched
<1>6. OnChain("launched") <=> Launched(event.coin)
  BY DEF OnChain, Launched
<1>7. OnChain(field) \in IF field = "launched" THEN BOOLEAN ELSE Nat
  BY <1>1, <1>2, OnChainType DEF BaseInv
<1> SUFFICES ASSUME NEW f \in DOMAIN answers'
             PROVE  IF f = "launched" THEN answers'[f] => Launched(event.coin)
                    ELSE answers'[f] <= OnChain(f)
  BY <1>4, <1>5 DEF AnswersNotAhead
<1>8. CASE f = field
  BY <1>2, <1>6, <1>7, <1>8
<1>9. CASE f \in DOMAIN answers
  <2>1. IF f = "launched" THEN answers[f] => Launched(event.coin) ELSE answers[f] <= OnChain(f)
    BY <1>1, <1>9 DEF AheadInv, AnswersNotAhead
  <2>2. answers'[f] = answers[f]
    BY <1>2, <1>9
  <2> QED
    BY <2>1, <2>2
<1> QED
  BY <1>2, <1>8, <1>9

\* What is stored is what was answered.
LEMMA ApplyNotAhead ==
    ASSUME BaseInv, BaseInv', AheadInv, Apply
    PROVE  NotAhead(cache)'
<1> DEFINE c == event.coin
           g == event.degen
           k == event.kind
           new == cache'.shitcoins[c]
<1>1. /\ at = "query" /\ Happened(event) /\ c \in Coins /\ DOMAIN answers = Queries(k)
      /\ k \in Kinds /\ UNCHANGED chain /\ cache \in StateType
      /\ k \in {"PresaleEntered", "ShitcoinClaimed"} => g \in Degens
  BY AppliesToEntries DEF BaseInv, EventType
<1>2. UNCHANGED <<phase, deadline, raised, contributed, claimed, url>>
  BY <1>1 DEF chain, ledger
<1>3. \A f \in Queries(k) :
         IF f = "launched" THEN answers[f] => Launched(c) ELSE answers[f] <= OnChain(f)
  BY <1>1 DEF AheadInv, AnswersNotAhead
<1>4. MetaNotAhead(c, new)
  <2>1. CASE k = "ShitcoinCreated"
    <3>1. new = CreatedMeta
      BY <2>1, Applies DEF BaseInv
    <3>2. {"end", "raise", "launched", "url"} = Queries(k)
      BY <2>1 DEF Queries
    <3>3. /\ answers["end"] <= deadline[c] /\ answers["raise"] <= raised[c]
          /\ answers["url"] <= url[c] /\ (answers["launched"] => Launched(c))
      BY <1>3, <3>2 DEF OnChain
    <3>4. Planted(c)
      BY <1>1 DEF Happened
    <3> QED
      BY <3>1, <3>3, <3>4 DEF CreatedMeta, MetaNotAhead
  <2>2. CASE k # "ShitcoinCreated"
    <3>1. /\ Meta \in MetaType
          /\ new.end = IF k = "PresaleExtended" THEN answers["end"] ELSE Meta.end
          /\ new.raise = IF k = "PresaleEntered" THEN answers["raise"] ELSE Meta.raise
          /\ new.url = IF k = "ShitcoinUrlSet" THEN answers["url"] ELSE Meta.url
          /\ new.launched = IF k = "ShitcoinLaunched" THEN TRUE ELSE Meta.launched
      BY <2>2, Applies DEF BaseInv
    <3>2. MetaNotAhead(c, Meta)
      <4>1. Meta # Absent
        BY <3>1, AbsentAssumption
      <4> QED
        BY <1>1, <4>1 DEF AheadInv, NotAhead, Meta
    <3>3. k = "PresaleExtended" => answers["end"] <= deadline[c]
      BY <1>3 DEF Queries, OnChain
    <3>4. k = "PresaleEntered" => answers["raise"] <= raised[c]
      BY <1>3 DEF Queries, OnChain
    <3>5. k = "ShitcoinUrlSet" => answers["url"] <= url[c]
      BY <1>3 DEF Queries, OnChain
    <3>6. k = "ShitcoinLaunched" => Launched(c)
      BY <1>1 DEF Happened
    <3> HIDE DEF new
    <3> QED
      BY <3>1, <3>2, <3>3, <3>4, <3>5, <3>6 DEF MetaNotAhead
  <2> QED
    BY <2>1, <2>2
<1>5. ASSUME NEW x \in Coins, cache'.shitcoins[x] # Absent
      PROVE  MetaNotAhead(x, cache'.shitcoins[x])
  <2>1. CASE x = c
    BY <1>4, <2>1
  <2>2. CASE x # c
    <3>1. cache'.shitcoins[x] = cache.shitcoins[x]
      BY <2>2, Applies DEF BaseInv
    <3> QED
      BY <1>5, <3>1 DEF AheadInv, NotAhead
  <2> QED
    BY <2>1, <2>2
<1>6. ASSUME NEW x \in Coins, NEW h \in Degens, cache'.degens[x][h] # Absent
      PROVE  DegenNotAhead(x, h, cache'.degens[x][h])
  <2>1. CASE x # c \/ h # g \/ k \notin {"PresaleEntered", "ShitcoinClaimed"}
    <3>1. cache'.degens[x][h] = cache.degens[x][h]
      BY <2>1, Applies DEF BaseInv
    <3> QED
      BY <1>6, <3>1 DEF AheadInv, NotAhead
  <2>2. CASE x = c /\ h = g /\ k = "PresaleEntered"
    <3>1. cache'.degens[c][g] = [submission |-> answers["submission"],
                                 claimed |-> Or(Degen, DefaultDegen).claimed]
      BY <2>2, Applies DEF BaseInv
    <3>2. answers["submission"] <= contributed[c][g]
      BY <1>3, <2>2 DEF Queries, OnChain
    <3>3. Or(Degen, DefaultDegen).claimed => g \in claimed[c]
      <4>1. CASE Degen = Absent
        BY <4>1 DEF Or, DefaultDegen
      <4>2. CASE Degen # Absent
        BY <1>1, <2>2, <4>2 DEF Or, AheadInv, NotAhead, DegenNotAhead, Degen
      <4> QED
        BY <4>1, <4>2
    <3> QED
      BY <2>2, <3>1, <3>2, <3>3 DEF DegenNotAhead
  <2>3. CASE x = c /\ h = g /\ k = "ShitcoinClaimed"
    <3>1. /\ Degen # Absent
          /\ cache'.degens[c][g] = [submission |-> Degen.submission, claimed |-> TRUE]
      BY <2>3, Applies DEF BaseInv
    <3>2. Degen.submission <= contributed[c][g]
      BY <1>1, <2>3, <3>1 DEF AheadInv, NotAhead, DegenNotAhead, Degen
    <3>3. g \in claimed[c]
      BY <1>1, <2>3 DEF Happened
    <3> QED
      BY <2>3, <3>1, <3>2, <3>3 DEF DegenNotAhead
  <2> QED
    BY <2>1, <2>2, <2>3
<1> QED
  BY <1>2, <1>5, <1>6 DEF NotAhead, MetaNotAhead, DegenNotAhead, Planted, Launched

\* No step puts the copy ahead.
LEMMA AheadKept ==
    ASSUME BaseInv, AheadInv, [WebNext]_vars
    PROVE  AheadInv'
<1>1. BaseInv' /\ Grows
  BY BaseKept
<1>2. CASE \/ Commit \/ TimePasses \/ Publish \/ ConnectionCloses \/ UNCHANGED vars
  <2>1. UNCHANGED <<at, page, draft, event, pending, answers, cache>>
    BY <1>2 DEF Commit, TimePasses, Publish, ConnectionCloses, vars, snapshot, handling
  <2>2. NotAhead(cache)' /\ NotAhead(draft)' /\ AnswersNotAhead'
    BY <1>1, <2>1, CacheStaysBehind, DraftStaysBehind, AnswersStayBehind DEF AheadInv
  <2> QED
    BY <2>2 DEF AheadInv
<1>3. CASE ReadPage
  <2>1. /\ at = "snapshot" /\ UNCHANGED chain /\ UNCHANGED <<at, event, answers, cache>>
    BY <1>3 DEF ReadPage, handling
  <2>2. UNCHANGED <<phase, deadline, raised, contributed, claimed, url>>
    BY <2>1 DEF chain, ledger
  <2>3. PICK prefixes : draft' = AddKeys(draft, prefixes)
    BY <1>3 DEF ReadPage
  <2>4. NotAhead(AddKeys(draft, prefixes))
    BY KeysNotAhead DEF AheadInv, BaseInv, MonitorInv, WebTypeOK
  <2>5. NotAhead(draft)'
    BY <2>2, <2>3, <2>4 DEF NotAhead, MetaNotAhead, DegenNotAhead, Planted, Launched
  <2>6. NotAhead(cache)' /\ AnswersNotAhead'
    BY <1>1, <2>1, CacheStaysBehind, AnswersStayBehind DEF AheadInv
  <2> QED
    BY <2>5, <2>6 DEF AheadInv
<1>4. CASE InstallSnapshot
  <2>1. /\ at' = "subscribe" /\ cache' = draft /\ draft' = EmptyState /\ UNCHANGED chain
    BY <1>4 DEF InstallSnapshot
  <2>2. UNCHANGED <<phase, deadline, raised, contributed, claimed, url>>
    BY <2>1 DEF chain, ledger
  <2>3. NotAhead(cache)'
    BY <2>1, <2>2 DEF AheadInv, NotAhead, MetaNotAhead, DegenNotAhead, Planted, Launched
  <2>4. NotAhead(draft)' /\ AnswersNotAhead'
    BY <2>1, NothingIsAhead DEF AnswersNotAhead
  <2> QED
    BY <2>3, <2>4 DEF AheadInv
<1>5. CASE Subscribe \/ Broadcast
  <2>1. at' = "listen" /\ UNCHANGED <<draft, cache>>
    BY <1>5 DEF Subscribe, Broadcast, snapshot
  <2>2. NotAhead(cache)' /\ NotAhead(draft)'
    BY <1>1, <2>1, CacheStaysBehind, DraftStaysBehind DEF AheadInv
  <2> QED
    BY <2>1, <2>2 DEF AheadInv, AnswersNotAhead
<1>6. CASE Unsubscribed \/ StartOver \/ SnapshotFails
  <2>1. StartSnapshot /\ (cache' = cache \/ cache' = EmptyState)
    BY <1>6 DEF Unsubscribed, StartOver, SnapshotFails, Restart
  <2> QED
    BY <1>1, <2>1, StartingAgainNotAhead
<1>7. CASE Receive
  <2>1. /\ cache'.shitcoins = cache.shitcoins /\ cache'.degens = cache.degens
        /\ answers' = << >> /\ draft' = draft
    BY <1>7, Receives DEF BaseInv
  <2>2. NotAhead(cache)' /\ NotAhead(draft)'
    BY <1>1, <2>1, CacheStaysBehind, DraftStaysBehind DEF AheadInv
  <2>3. DOMAIN answers' = {}
    BY <2>1
  <2> QED
    BY <2>2, <2>3 DEF AheadInv, AnswersNotAhead
<1>8. CASE QueryAnswers
  <2>1. UNCHANGED <<draft, cache>>
    BY <1>8 DEF QueryAnswers, snapshot
  <2>2. NotAhead(cache)' /\ NotAhead(draft)'
    BY <1>1, <2>1, CacheStaysBehind, DraftStaysBehind DEF AheadInv
  <2>3. AnswersNotAhead'
    BY <1>1, <1>8, AnswerNotAhead
  <2> QED
    BY <2>2, <2>3 DEF AheadInv
<1>9. CASE Apply
  <2>1. draft' = draft /\ at' = "timestamp"
    BY <1>9 DEF Apply, snapshot
  <2>2. NotAhead(cache)'
    BY <1>1, <1>9, ApplyNotAhead
  <2>3. NotAhead(draft)'
    BY <1>1, <2>1, DraftStaysBehind DEF AheadInv
  <2> QED
    BY <2>1, <2>2, <2>3 DEF AheadInv, AnswersNotAhead
<1>10. CASE Panic
  <2>1. CASE Restart
    <3>1. StartSnapshot /\ cache' = EmptyState
      BY <2>1 DEF Restart
    <3> QED
      BY <1>1, <3>1, StartingAgainNotAhead
  <2>2. CASE ~Restart
    <3>1. at' = "dead" /\ UNCHANGED <<draft, cache>>
      BY <1>10, <2>2 DEF Panic, snapshot
    <3>2. NotAhead(cache)' /\ NotAhead(draft)'
      BY <1>1, <3>1, CacheStaysBehind, DraftStaysBehind DEF AheadInv
    <3> QED
      BY <3>1, <3>2 DEF AheadInv, AnswersNotAhead
  <2> QED
    BY <2>1, <2>2
<1> QED
  BY <1>2, <1>3, <1>4, <1>5, <1>6, <1>7, <1>8, <1>9, <1>10 DEF WebNext, Monitor

\* A copy that is not ahead shows nothing that has not happened.
LEMMA NotAheadIsNeverAhead ==
    ASSUME BaseInv, AheadInv
    PROVE  NeverAhead
<1>1. ASSUME NEW c \in Coins
      PROVE  LET meta == Or(cache.shitcoins[c], DefaultMeta)
             IN  /\ meta.end <= deadline[c] /\ meta.raise <= raised[c] /\ meta.url <= url[c]
                 /\ meta.launched => phase[c] = "launched"
  <2>1. deadline[c] \in Nat /\ raised[c] \in Nat /\ url[c] \in Nat
    BY DEF BaseInv, ChainInv
  <2>2. CASE cache.shitcoins[c] = Absent
    BY <2>1, <2>2 DEF Or, DefaultMeta
  <2>3. CASE cache.shitcoins[c] # Absent
    BY <2>3 DEF Or, AheadInv, NotAhead, MetaNotAhead, Launched
  <2> QED
    BY <2>2, <2>3
<1>2. ASSUME NEW c \in Coins, NEW g \in Degens
      PROVE  LET degen == Or(cache.degens[c][g], DefaultDegen)
             IN  degen.submission <= contributed[c][g] /\ (degen.claimed => g \in claimed[c])
  <2>1. contributed[c][g] \in Nat
    BY DEF BaseInv, ChainInv
  <2>2. CASE cache.degens[c][g] = Absent
    BY <2>1, <2>2 DEF Or, DefaultDegen
  <2>3. CASE cache.degens[c][g] # Absent
    BY <2>3 DEF Or, AheadInv, NotAhead, DegenNotAhead
  <2> QED
    BY <2>2, <2>3
<1> QED
  BY <1>1, <1>2 DEF NeverAhead

\* At the start nothing is shown.
LEMMA AheadAtStart == WebInit => AheadInv
<1> SUFFICES ASSUME WebInit PROVE AheadInv
  OBVIOUS
<1>1. NotAhead(cache) /\ NotAhead(draft) /\ at = "snapshot"
  BY NothingIsAhead DEF WebInit
<1> QED
  BY <1>1 DEF AheadInv, AnswersNotAhead

\* The site shows no raise, submission, launch, claim, deadline or url that the
\* contract does not have yet, whenever the queries answer.
THEOREM SiteNeverAhead == WebSpec => []NeverAhead
<1>1. WebInit => BaseInv /\ AheadInv
  BY BaseAtStart, AheadAtStart
<1>2. BaseInv /\ AheadInv /\ [WebNext]_vars => BaseInv' /\ AheadInv'
  BY BaseKept, AheadKept
<1>3. BaseInv /\ AheadInv => NeverAhead
  BY NotAheadIsNeverAhead
<1> QED
  BY <1>1, <1>2, <1>3, PTL DEF WebSpec
-----------------------------------------------------------------------------
(***************************************************************************)
(* What the site shows of a coin does not go back.                         *)
(***************************************************************************)

\* Which prefixes come before a page.
LEMMA BeforePage ==
    ASSUME NEW n \in 1 .. 10
    PROVE  /\ "PRESALE_CLAIMED" \in Before(n) <=> n > 1
           /\ "PRESALE_END" \in Before(n) <=> n > 2
           /\ "PRESALE_RAISE" \in Before(n) <=> n > 3
           /\ "PRESALE_SUBMISSION" \in Before(n) <=> n > 4
           /\ "SHITCOIN_CREATOR" \in Before(n) <=> n > 5
           /\ "SHITCOIN_DENOM" \in Before(n) <=> n > 6
           /\ "SHITCOIN_LAUNCHED" \in Before(n) <=> n > 7
           /\ "SHITCOIN_NAME" \in Before(n) <=> n > 8
           /\ "SHITCOIN_URL" \in Before(n) <=> n > 9
<1>1. /\ KeyPrefixes[1] = "PRESALE_CLAIMED" /\ KeyPrefixes[2] = "PRESALE_END"
      /\ KeyPrefixes[3] = "PRESALE_RAISE" /\ KeyPrefixes[4] = "PRESALE_SUBMISSION"
      /\ KeyPrefixes[5] = "SHITCOIN_CREATOR" /\ KeyPrefixes[6] = "SHITCOIN_DENOM"
      /\ KeyPrefixes[7] = "SHITCOIN_LAUNCHED" /\ KeyPrefixes[8] = "SHITCOIN_NAME"
      /\ KeyPrefixes[9] = "SHITCOIN_URL"
  BY DEF KeyPrefixes
<1>2. \A i \in 1 .. 9 : KeyPrefixes[i] \in Before(n) <=> n > i
  <2>1. \A i, j \in 1 .. 9 : KeyPrefixes[i] = KeyPrefixes[j] => i = j
    BY <1>1
  <2> QED
    BY <2>1 DEF Before
<1> QED
  BY <1>1, <1>2

\* What has been read once a page is read.
LEMMA BeforeNextPage ==
    ASSUME NEW m \in 1 .. 9, NEW n \in m .. 9
    PROVE  Before(n + 1) = Before(m) \cup {KeyPrefixes[i] : i \in m .. n}
<1>1. 1 .. (n + 1) - 1 = (1 .. m - 1) \cup (m .. n)
  OBVIOUS
<1> QED
  BY <1>1 DEF Before

\* The step of reading a page.
LEMMA ReadsPage ==
    ASSUME BaseInv, ReadPage
    PROVE  /\ at = "snapshot" /\ page \in 1 .. 9 /\ PageEnd \in page .. 9
           /\ page' = PageEnd + 1 /\ draft \in StateType
           /\ draft' = AddKeys(draft, {KeyPrefixes[i] : i \in page .. PageEnd})
           /\ Before(page') = Before(page) \cup {KeyPrefixes[i] : i \in page .. PageEnd}
           /\ UNCHANGED chain
           /\ UNCHANGED <<stream, connected, at, event, pending, answers, cache, faults, gap>>
<1>1. Len(KeyPrefixes) = 9
  BY DEF KeyPrefixes
<1>2. /\ at = "snapshot" /\ page \in 1 .. 9 /\ page' = PageEnd + 1 /\ draft \in StateType
      /\ draft' = AddKeys(draft, {KeyPrefixes[i] : i \in page .. PageEnd})
      /\ UNCHANGED chain
      /\ UNCHANGED <<stream, connected, at, event, pending, answers, cache, faults, gap>>
  BY <1>1 DEF ReadPage, BaseInv, MonitorInv, WebTypeOK, handling
<1>3. PageEnd \in page .. 9
  BY <1>2, PageEndInRange
<1>4. Before(PageEnd + 1) = Before(page) \cup {KeyPrefixes[i] : i \in page .. PageEnd}
  BY <1>2, <1>3, BeforeNextPage
<1>5. Before(page') = Before(PageEnd + 1)
  BY <1>2
<1> QED
  BY <1>2, <1>3, <1>4, <1>5

\* The fields of an entry after keys were added to it.
LEMMA KeysInEntry ==
    ASSUME ChainInv, NEW prefixes, NEW c \in Coins, Planted(c),
           NEW entry \in {Absent} \cup MetaType
    PROVE  LET new == ShitcoinKeys(prefixes, c, entry)
           IN  /\ entry # Absent => new \in MetaType
               /\ prefixes \cap {"PRESALE_END", "PRESALE_RAISE", "SHITCOIN_CREATOR",
                                 "SHITCOIN_NAME"} # {} => new \in MetaType
               /\ new \in MetaType =>
                     /\ new.end = IF "PRESALE_END" \in prefixes THEN deadline[c]
                                  ELSE OrDefault(entry).end
                     /\ new.raise = IF "PRESALE_RAISE" \in prefixes THEN raised[c]
                                    ELSE OrDefault(entry).raise
                     /\ new.url = IF "SHITCOIN_URL" \in prefixes /\ url[c] > 0 THEN url[c]
                                  ELSE OrDefault(entry).url
                     /\ new.launched <=> \/ OrDefault(entry).launched
                                         \/ "SHITCOIN_LAUNCHED" \in prefixes /\ Launched(c)
                     /\ new.creator <=> \/ OrDefault(entry).creator
                                        \/ "SHITCOIN_CREATOR" \in prefixes
               /\ (new = Absent) <=> (entry = Absent /\ KeysUnder(prefixes, c) = {})
<1> DEFINE new == ShitcoinKeys(prefixes, c, entry)
           keys == KeysUnder(prefixes, c)
           meta == OrDefault(entry)
<1>1. /\ "PRESALE_END" \in keys <=> "PRESALE_END" \in prefixes
      /\ "PRESALE_RAISE" \in keys <=> "PRESALE_RAISE" \in prefixes
      /\ "SHITCOIN_CREATOR" \in keys <=> "SHITCOIN_CREATOR" \in prefixes
      /\ "SHITCOIN_NAME" \in keys <=> "SHITCOIN_NAME" \in prefixes
      /\ "SHITCOIN_LAUNCHED" \in keys <=> "SHITCOIN_LAUNCHED" \in prefixes /\ Launched(c)
      /\ "SHITCOIN_URL" \in keys <=> "SHITCOIN_URL" \in prefixes /\ url[c] > 0
  BY DEF KeysUnder, CoinPrefixes, Launched
<1>2. meta \in MetaType /\ (entry # Absent => entry \in MetaType /\ meta = entry)
  BY DEF OrDefault, Or, DefaultMeta, MetaType
<1>3. new \in {Absent} \cup MetaType
  BY ShitcoinKeysType
<1>4. Absent \notin MetaType
  BY AbsentAssumption
<1>5. CASE keys = {}
  <2>1. new = entry
    BY <1>5 DEF ShitcoinKeys
  <2> HIDE DEF new, keys, meta
  <2>2. \A p \in {"PRESALE_END", "PRESALE_RAISE", "SHITCOIN_CREATOR", "SHITCOIN_NAME"} :
           p \notin prefixes
    BY <1>1, <1>5
  <2>3. /\ ~("SHITCOIN_LAUNCHED" \in prefixes /\ Launched(c))
        /\ ~("SHITCOIN_URL" \in prefixes /\ url[c] > 0)
    BY <1>1, <1>5
  <2> USE DEF meta
  <2>4. /\ entry # Absent => new \in MetaType
        /\ prefixes \cap {"PRESALE_END", "PRESALE_RAISE", "SHITCOIN_CREATOR",
                          "SHITCOIN_NAME"} = {}
        /\ new \in MetaType => new = OrDefault(entry)
        /\ (new = Absent) <=> (entry = Absent)
    BY <1>2, <1>4, <2>1, <2>2
  <2>5. keys = {} /\ keys = KeysUnder(prefixes, c) /\ new = ShitcoinKeys(prefixes, c, entry)
    BY <1>5 DEF keys, new
  <2> QED
    BY <2>2, <2>3, <2>4, <2>5
<1>6. CASE keys # {}
  <2>1. new = [creator |-> meta.creator \/ "SHITCOIN_CREATOR" \in keys,
               url |-> IF "SHITCOIN_URL" \in keys THEN url[c] ELSE meta.url,
               end |-> IF "PRESALE_END" \in keys THEN deadline[c] ELSE meta.end,
               raise |-> IF "PRESALE_RAISE" \in keys THEN raised[c] ELSE meta.raise,
               launched |-> meta.launched \/ "SHITCOIN_LAUNCHED" \in keys]
    BY <1>6 DEF ShitcoinKeys
  <2>2. new \in MetaType
    <3>1. url[c] \in Nat /\ deadline[c] \in Nat /\ raised[c] \in Nat
      BY DEF ChainInv
    <3> HIDE DEF new, keys, meta
    <3> QED
      BY <1>2, <2>1, <3>1 DEF MetaType
  <2> HIDE DEF new, keys, meta
  <2>3. /\ new.end = IF "PRESALE_END" \in prefixes THEN deadline[c] ELSE meta.end
        /\ new.raise = IF "PRESALE_RAISE" \in prefixes THEN raised[c] ELSE meta.raise
    BY <1>1, <2>1
  <2>4. new.url = IF "SHITCOIN_URL" \in prefixes /\ url[c] > 0 THEN url[c] ELSE meta.url
    BY <1>1, <2>1
  <2>5. /\ new.launched <=> (meta.launched \/ ("SHITCOIN_LAUNCHED" \in prefixes /\ Launched(c)))
        /\ new.creator <=> (meta.creator \/ "SHITCOIN_CREATOR" \in prefixes)
    BY <1>1, <2>1
  <2>6. /\ keys # {} /\ new # Absent /\ keys = KeysUnder(prefixes, c)
        /\ new = ShitcoinKeys(prefixes, c, entry) /\ meta = OrDefault(entry)
    BY <1>4, <1>6, <2>2 DEF keys, new, meta
  <2> QED
    BY <2>2, <2>3, <2>4, <2>5, <2>6
<1> QED
  BY <1>5, <1>6

\* Reading a page leaves the snapshot not behind any entry that is not ahead of
\* the contract.
LEMMA PageHas ==
    ASSUME BaseInv, ReadPage, NEW c \in Coins, NEW old \in MetaType, MetaNotAhead(c, old),
           DraftHas(c, old)
    PROVE  DraftHas(c, old)'
<1> DEFINE prefixes == {KeyPrefixes[i] : i \in page .. PageEnd}
<1>1. /\ at = "snapshot" /\ page \in 1 .. 9 /\ PageEnd \in page .. 9 /\ page' = PageEnd + 1
      /\ draft' = AddKeys(draft, prefixes)
      /\ Before(page') = Before(page) \cup prefixes
      /\ draft \in StateType
  BY ReadsPage
<1> HIDE DEF prefixes
<1> DEFINE entry == draft.shitcoins[c]
           new == draft'.shitcoins[c]
           meta == OrDefault(entry)
<1>2. new = ShitcoinKeys(prefixes, c, entry)
  BY <1>1 DEF AddKeys
<1>3. /\ Planted(c) /\ old.end <= deadline[c] /\ old.raise <= raised[c] /\ old.url <= url[c]
      /\ old.launched => Launched(c)
  BY DEF MetaNotAhead
<1>4. entry \in {Absent} \cup MetaType
  BY <1>1 DEF BaseInv, MonitorInv, WebTypeOK, StateType
<1>5. /\ meta \in MetaType /\ (entry # Absent => meta = entry)
  BY <1>4 DEF OrDefault, Or, DefaultMeta, MetaType
<1>6. /\ "PRESALE_END" \in Before(page) => entry # Absent /\ old.end <= entry.end
      /\ "PRESALE_RAISE" \in Before(page) => entry # Absent /\ old.raise <= entry.raise
      /\ "SHITCOIN_URL" \in Before(page) => entry # Absent /\ old.url <= entry.url
      /\ "SHITCOIN_LAUNCHED" \in Before(page) =>
            entry # Absent /\ (old.launched => entry.launched)
  BY DEF DraftHas
<1>7. /\ entry # Absent => new \in MetaType
      /\ "PRESALE_END" \in prefixes => new \in MetaType
      /\ new \in MetaType =>
            /\ new.end = IF "PRESALE_END" \in prefixes THEN deadline[c] ELSE meta.end
            /\ new.raise = IF "PRESALE_RAISE" \in prefixes THEN raised[c] ELSE meta.raise
            /\ new.url = IF "SHITCOIN_URL" \in prefixes /\ url[c] > 0 THEN url[c] ELSE meta.url
            /\ new.launched <=> \/ meta.launched
                                \/ "SHITCOIN_LAUNCHED" \in prefixes /\ Launched(c)
  <2>1. "PRESALE_END" \in prefixes =>
           prefixes \cap {"PRESALE_END", "PRESALE_RAISE", "SHITCOIN_CREATOR",
                          "SHITCOIN_NAME"} # {}
    OBVIOUS
  <2>2. ChainInv
    BY DEF BaseInv
  <2> HIDE DEF entry, new
  <2> QED
    BY <1>2, <1>3, <1>4, <2>1, <2>2, KeysInEntry
<1>8. Absent \notin MetaType
  BY AbsentAssumption
<1>9. \* The deadline is read before the others.
      \A p \in {"PRESALE_RAISE", "SHITCOIN_URL", "SHITCOIN_LAUNCHED"} :
          p \in Before(page') => "PRESALE_END" \in Before(page')
  <2>1. page' \in 1 .. 10
    BY <1>1
  <2> QED
    BY <2>1, BeforePage
<1>10. url[c] \in Nat
  BY DEF BaseInv, ChainInv
<1> HIDE DEF entry, new, meta
<1>11. "PRESALE_END" \in Before(page') => new \in MetaType /\ new # Absent
  BY <1>1, <1>6, <1>7, <1>8
<1>12. "PRESALE_END" \in Before(page') => old.end <= new.end
  BY <1>1, <1>3, <1>5, <1>6, <1>7, <1>11
<1>13. "PRESALE_RAISE" \in Before(page') => old.raise <= new.raise
  BY <1>1, <1>3, <1>5, <1>6, <1>7, <1>9, <1>11
<1>14. "SHITCOIN_URL" \in Before(page') => old.url <= new.url
  <2>1. old.url \in Nat /\ meta.url \in Nat
    BY <1>4, <1>5 DEF MetaType
  <2> QED
    BY <1>1, <1>3, <1>5, <1>6, <1>7, <1>9, <1>10, <1>11, <2>1
<1>15. "SHITCOIN_LAUNCHED" \in Before(page') => (old.launched => new.launched)
  BY <1>1, <1>3, <1>5, <1>6, <1>7, <1>9, <1>11
<1>16. new = draft'.shitcoins[c] /\ Before(page') = Before(page)'
  BY DEF new, Before
<1> QED
  BY <1>9, <1>11, <1>12, <1>13, <1>14, <1>15, <1>16 DEF DraftHas

\* The fields of a degen after keys were added to it.
LEMMA KeysInDegen ==
    ASSUME ChainInv, NEW prefixes, NEW c \in Coins, NEW g \in Degens,
           NEW entry \in {Absent} \cup DegenType
    PROVE  LET old == Or(entry, DefaultDegen)
               new == Or(DegenKeys(prefixes, c, g, entry), DefaultDegen)
           IN  /\ old \in DegenType /\ new \in DegenType
               /\ new.submission = IF "PRESALE_SUBMISSION" \in prefixes /\ contributed[c][g] > 0
                                   THEN contributed[c][g] ELSE old.submission
               /\ new.claimed <=> \/ old.claimed
                                  \/ "PRESALE_CLAIMED" \in prefixes /\ g \in claimed[c]
<1> DEFINE old == Or(entry, DefaultDegen)
           added == DegenKeys(prefixes, c, g, entry)
           new == Or(added, DefaultDegen)
           submitted == "PRESALE_SUBMISSION" \in prefixes /\ contributed[c][g] > 0
           claims == "PRESALE_CLAIMED" \in prefixes /\ g \in claimed[c]
<1>1. old \in DegenType /\ contributed[c][g] \in Nat
  BY DEF Or, DefaultDegen, DegenType, ChainInv
<1>2. CASE ~submitted /\ ~claims
  BY <1>1, <1>2 DEF DegenKeys
<1>3. CASE submitted \/ claims
  <2>1. added = [submission |-> IF submitted THEN contributed[c][g] ELSE old.submission,
                 claimed |-> old.claimed \/ claims]
    BY <1>3 DEF DegenKeys
  <2> HIDE DEF old, added, submitted, claims
  <2>2. added \in DegenType
    BY <1>1, <2>1 DEF DegenType
  <2>3. new = added
    BY <2>2, AbsentAssumption DEF Or
  <2> HIDE DEF new
  <2>4. /\ old \in DegenType /\ new \in DegenType
        /\ new.submission = IF submitted THEN contributed[c][g] ELSE old.submission
        /\ new.claimed <=> old.claimed \/ claims
    BY <1>1, <2>1, <2>2, <2>3
  <2> QED
    BY <2>4 DEF old, new, added, submitted, claims
<1> QED
  BY <1>2, <1>3

\* The same of what is kept of a degen.
LEMMA PageHasDegen ==
    ASSUME BaseInv, ReadPage, NEW c \in Coins, NEW g \in Degens, NEW old \in DegenType,
           DegenNotAhead(c, g, old), DraftHasDegen(c, g, old)
    PROVE  DraftHasDegen(c, g, old)'
<1> DEFINE prefixes == {KeyPrefixes[i] : i \in page .. PageEnd}
           entry == draft.degens[c][g]
           half == Or(entry, DefaultDegen)
           new == Or(draft'.degens[c][g], DefaultDegen)
<1>1. /\ draft' = AddKeys(draft, prefixes)
      /\ Before(page') = Before(page) \cup prefixes
      /\ draft \in StateType
  BY ReadsPage
<1> HIDE DEF prefixes
<1>2. entry \in {Absent} \cup DegenType /\ draft'.degens[c][g] = DegenKeys(prefixes, c, g, entry)
  BY <1>1 DEF AddKeys, StateType
<1>3. ChainInv /\ contributed[c][g] \in Nat
  BY DEF BaseInv, ChainInv
<1> HIDE DEF entry
<1>4. /\ half \in DegenType /\ new \in DegenType
      /\ new.submission = IF "PRESALE_SUBMISSION" \in prefixes /\ contributed[c][g] > 0
                          THEN contributed[c][g] ELSE half.submission
      /\ new.claimed <=> half.claimed \/ ("PRESALE_CLAIMED" \in prefixes /\ g \in claimed[c])
  BY <1>2, <1>3, KeysInDegen
<1>5. /\ "PRESALE_SUBMISSION" \in Before(page) => old.submission <= half.submission
      /\ "PRESALE_CLAIMED" \in Before(page) => (old.claimed => half.claimed)
  BY DEF DraftHasDegen, entry
<1>6. old.submission <= contributed[c][g] /\ (old.claimed => g \in claimed[c])
  BY DEF DegenNotAhead
<1> HIDE DEF half, new
<1>7. "PRESALE_SUBMISSION" \in Before(page') => old.submission <= new.submission
  <2>1. old.submission \in Nat /\ half.submission \in Nat
    BY <1>4 DEF DegenType
  <2> QED
    BY <1>1, <1>3, <1>4, <1>5, <1>6, <2>1
<1>8. "PRESALE_CLAIMED" \in Before(page') => (old.claimed => new.claimed)
  BY <1>1, <1>4, <1>5, <1>6
<1>9. Before(page') = Before(page)'
  BY DEF Before
<1> QED
  BY <1>7, <1>8, <1>9 DEF DraftHasDegen, new

\* A cached degen, and that it is not ahead.
LEMMA CachedDegenBounds ==
    ASSUME BaseInv, AheadInv, NEW c \in Coins, NEW g \in Degens
    PROVE  CachedDegen(c, g) \in DegenType /\ DegenNotAhead(c, g, CachedDegen(c, g))
<1>1. /\ cache.degens[c][g] \in {Absent} \cup DegenType
      /\ contributed[c][g] \in Nat
  BY DEF BaseInv, ChainInv, MonitorInv, WebTypeOK, StateType
<1>2. cache.degens[c][g] # Absent => DegenNotAhead(c, g, cache.degens[c][g])
  BY DEF AheadInv, NotAhead
<1>3. DefaultDegen \in DegenType /\ DegenNotAhead(c, g, DefaultDegen)
  BY <1>1 DEF DefaultDegen, DegenType, DegenNotAhead
<1> QED
  BY <1>1, <1>2, <1>3 DEF CachedDegen, Or

\* A page that is read is not behind what the site shows.
LEMMA PageNotBehind ==
    ASSUME BaseInv, AheadInv, NotBehind, ReadPage
    PROVE  DraftNotBehind'
<1>1. at = "snapshot" /\ cache' = cache
  BY ReadsPage
<1>2. ASSUME NEW c \in Coins, cache.shitcoins[c] # Absent
      PROVE  DraftHas(c, cache.shitcoins[c])'
  <2>1. PICK old : old = cache.shitcoins[c]
    OBVIOUS
  <2>2. old \in MetaType /\ MetaNotAhead(c, old) /\ DraftHas(c, old)
    BY <1>1, <1>2, <2>1
       DEF BaseInv, MonitorInv, WebTypeOK, StateType, AheadInv, NotAhead, NotBehind,
           DraftNotBehind
  <2>3. DraftHas(c, old)'
    BY <2>2, PageHas
  <2> QED
    BY <1>1, <2>1, <2>3
<1>3. ASSUME NEW c \in Coins, NEW g \in Degens
      PROVE  DraftHasDegen(c, g, CachedDegen(c, g))'
  <2>1. PICK old : old = CachedDegen(c, g)
    OBVIOUS
  <2>2. old \in DegenType /\ DegenNotAhead(c, g, old) /\ DraftHasDegen(c, g, old)
    BY <1>1, <2>1, CachedDegenBounds DEF NotBehind, DraftNotBehind
  <2>3. DraftHasDegen(c, g, old)'
    BY <2>2, PageHasDegen
  <2>4. CachedDegen(c, g)' = old
    BY <1>1, <2>1 DEF CachedDegen
  <2> QED
    BY <2>3, <2>4
<1> QED
  BY <1>1, <1>2, <1>3 DEF DraftNotBehind

\* An answer is not behind what the site shows.
LEMMA AnswerNotBehind ==
    ASSUME BaseInv, AheadInv, NotBehind, QueryAnswers
    PROVE  AnswersNotBehind'
<1>1. /\ at = "query" /\ event' = event /\ cache' = cache /\ Happened(event)
      /\ pending \subseteq Queries(event.kind)
  BY Answers DEF BaseInv, MonitorInv
<1>2. PICK field \in pending :
         /\ DOMAIN answers' = DOMAIN answers \cup {field}
         /\ answers'[field] = OnChain(field)
         /\ \A f \in DOMAIN answers : f # field /\ answers'[f] = answers[f]
  BY Answers DEF BaseInv
<1> DEFINE c == event.coin
           g == event.degen
           meta == cache.shitcoins[c]
           degen == CachedDegen(c, g)
<1>3. c \in Coins
  BY <1>1 DEF Happened, EventType
<1>4. ASSUME meta # Absent
      PROVE  /\ "end" \in DOMAIN answers' => meta.end <= answers'["end"]
             /\ "raise" \in DOMAIN answers' => meta.raise <= answers'["raise"]
             /\ "url" \in DOMAIN answers' => meta.url <= answers'["url"]
             /\ ("launched" \in DOMAIN answers' /\ meta.launched) => answers'["launched"]
  <2>1. /\ meta.end <= deadline[c] /\ meta.raise <= raised[c] /\ meta.url <= url[c]
        /\ meta.launched => Launched(c)
    BY <1>3, <1>4 DEF AheadInv, NotAhead, MetaNotAhead
  <2>2. /\ "end" \in DOMAIN answers => meta.end <= answers["end"]
        /\ "raise" \in DOMAIN answers => meta.raise <= answers["raise"]
        /\ "url" \in DOMAIN answers => meta.url <= answers["url"]
        /\ ("launched" \in DOMAIN answers /\ meta.launched) => answers["launched"]
    BY <1>1, <1>4 DEF NotBehind, AnswersNotBehind
  <2>3. /\ OnChain("end") = deadline[c] /\ OnChain("raise") = raised[c]
        /\ OnChain("url") = url[c] /\ OnChain("launched") = Launched(c)
    BY DEF OnChain, Launched
  <2> HIDE DEF c, meta
  <2>4. "end" \in DOMAIN answers' => meta.end <= answers'["end"]
    BY <1>2, <2>1, <2>2, <2>3
  <2>5. "raise" \in DOMAIN answers' => meta.raise <= answers'["raise"]
    BY <1>2, <2>1, <2>2, <2>3
  <2>6. "url" \in DOMAIN answers' => meta.url <= answers'["url"]
    BY <1>2, <2>1, <2>2, <2>3
  <2>7. ("launched" \in DOMAIN answers' /\ meta.launched) => answers'["launched"]
    BY <1>2, <2>1, <2>2, <2>3
  <2> QED
    BY <2>4, <2>5, <2>6, <2>7
<1>5. ASSUME "submission" \in DOMAIN answers'
      PROVE  degen.submission <= answers'["submission"]
  <2>1. CASE field = "submission"
    <3>1. event.kind = "PresaleEntered"
      BY <1>1, <2>1 DEF Queries, Happened, EventType, Kinds
    <3>2. g \in Degens
      BY <1>1, <3>1 DEF Happened
    <3>3. degen.submission <= contributed[c][g]
      BY <1>3, <3>2, CachedDegenBounds DEF DegenNotAhead
    <3>4. answers'["submission"] = contributed[c][g]
      BY <1>2, <2>1 DEF OnChain
    <3> QED
      BY <3>3, <3>4
  <2>2. CASE field # "submission"
    <3>1. "submission" \in DOMAIN answers /\ answers'["submission"] = answers["submission"]
      BY <1>2, <1>5, <2>2
    <3> QED
      BY <1>1, <3>1 DEF NotBehind, AnswersNotBehind
  <2> QED
    BY <2>1, <2>2
<1> QED
  BY <1>1, <1>4, <1>5 DEF AnswersNotBehind, CachedDegen

\* A snapshot begins with nothing read.
LEMMA StartingNotBehind ==
    ASSUME StartSnapshot
    PROVE  NotBehind'
<1>1. at' = "snapshot" /\ page' = 1
  BY DEF StartSnapshot
<1>2. Before(page') = {}
  BY <1>1 DEF Before
<1>3. Before(page)' = {}
  BY <1>2 DEF Before
<1> QED
  BY <1>1, <1>3 DEF NotBehind, AnswersNotBehind, DraftNotBehind, DraftHas, DraftHasDegen

\* No step lets what is to come fall behind.
LEMMA NotBehindKept ==
    ASSUME BaseInv, AheadInv, NotBehind, [WebNext]_vars
    PROVE  NotBehind'
<1>1. CASE \/ Commit \/ TimePasses \/ Publish \/ ConnectionCloses \/ UNCHANGED vars
  <2>1. UNCHANGED <<at, page, draft, event, pending, answers, cache>>
    BY <1>1 DEF Commit, TimePasses, Publish, ConnectionCloses, vars, snapshot, handling
  <2> QED
    BY <2>1 DEF NotBehind, AnswersNotBehind, DraftNotBehind, DraftHas, DraftHasDegen,
                CachedDegen, Before
<1>2. CASE ReadPage
  <2>1. at' = "snapshot"
    BY <1>2 DEF ReadPage
  <2> QED
    BY <1>2, <2>1, PageNotBehind DEF NotBehind, AnswersNotBehind
<1>3. CASE Receive
  <2>1. at' = "query" /\ answers' = << >>
    BY <1>3 DEF Receive
  <2>2. DOMAIN answers' = {}
    BY <2>1
  <2> QED
    BY <2>1, <2>2 DEF NotBehind, AnswersNotBehind, DraftNotBehind
<1>4. CASE QueryAnswers
  <2>1. at' = "query"
    BY <1>4 DEF QueryAnswers
  <2> QED
    BY <1>4, <2>1, AnswerNotBehind DEF NotBehind, DraftNotBehind
<1>5. CASE Unsubscribed \/ StartOver \/ SnapshotFails \/ (Panic /\ Restart)
  <2>1. StartSnapshot
    BY <1>5 DEF Unsubscribed, StartOver, SnapshotFails, Restart
  <2> QED
    BY <2>1, StartingNotBehind
<1>6. CASE InstallSnapshot \/ Subscribe \/ Apply \/ Broadcast \/ (Panic /\ ~Restart)
  <2>1. at' \in {"subscribe", "listen", "timestamp", "dead"}
    BY <1>6 DEF InstallSnapshot, Subscribe, Apply, Broadcast, Panic
  <2> QED
    BY <2>1 DEF NotBehind, AnswersNotBehind, DraftNotBehind
<1> QED
  BY <1>1, <1>2, <1>3, <1>4, <1>5, <1>6 DEF WebNext, Monitor

\* The steps that do not end the process.
CopyLives == cache' = cache \/ InstallSnapshot \/ Receive \/ Apply

\* What such a step does to the entry of a coin.
LEMMA StepNotBackwards ==
    ASSUME BaseInv, AheadInv, NotBehind, CopyLives,
           NEW c \in Coins, cache.shitcoins[c] # Absent
    PROVE  LET old == cache.shitcoins[c]
               new == cache'.shitcoins[c]
           IN  /\ new # Absent
               /\ old.end <= new.end /\ old.raise <= new.raise /\ old.url <= new.url
               /\ old.launched => new.launched
<1> DEFINE old == cache.shitcoins[c]
           new == cache'.shitcoins[c]
<1>1. old \in MetaType
  BY DEF BaseInv, MonitorInv, WebTypeOK, StateType
<1>2. old.end <= old.end /\ old.raise <= old.raise /\ old.url <= old.url
  BY <1>1 DEF MetaType
<1>3. CASE new = old
  BY <1>2, <1>3
<1>4. CASE InstallSnapshot
  <2>1. Len(KeyPrefixes) = 9
    BY DEF KeyPrefixes
  <2>2. at = "snapshot" /\ page > 9 /\ page \in 1 .. 10 /\ cache' = draft
    BY <1>4, <2>1 DEF InstallSnapshot, BaseInv, MonitorInv, WebTypeOK
  <2>3. /\ "PRESALE_END" \in Before(page) /\ "PRESALE_RAISE" \in Before(page)
        /\ "SHITCOIN_URL" \in Before(page) /\ "SHITCOIN_LAUNCHED" \in Before(page)
    BY <2>2, BeforePage
  <2> QED
    BY <2>2, <2>3 DEF NotBehind, DraftNotBehind, DraftHas
<1>5. CASE Apply
  <2> DEFINE k == event.kind
  <2>1. /\ at = "query" /\ k \in Kinds /\ DOMAIN answers = Queries(k)
    BY <1>5, AppliesToEntries DEF BaseInv, EventType
  <2>2. CASE c # event.coin
    <3>1. new = old
      BY <1>5, <2>2, Applies DEF BaseInv
    <3> QED
      BY <1>3, <3>1
  <2>3. CASE c = event.coin
    <3>1. /\ "end" \in Queries(k) => old.end <= answers["end"]
          /\ "raise" \in Queries(k) => old.raise <= answers["raise"]
          /\ "url" \in Queries(k) => old.url <= answers["url"]
          /\ ("launched" \in Queries(k) /\ old.launched) => answers["launched"]
      BY <2>1, <2>3 DEF NotBehind, AnswersNotBehind
    <3>2. old = Meta
      BY <2>3 DEF Meta
    <3>3. new \in MetaType /\ new # Absent
      BY <1>5, <2>3, Applies, AbsentAssumption DEF BaseInv
    <3>4. CASE k = "ShitcoinCreated"
      <4>1. new = CreatedMeta
        BY <1>5, <2>3, <3>4, Applies DEF BaseInv
      <4>2. {"end", "raise", "launched", "url"} = Queries(k)
        BY <3>4 DEF Queries
      <4> HIDE DEF old, new, k
      <4>3. /\ new.end = answers["end"] /\ new.raise = answers["raise"]
            /\ new.url = answers["url"] /\ new.launched = answers["launched"]
        BY <4>1 DEF CreatedMeta
      <4>4. /\ old.end <= new.end /\ old.raise <= new.raise /\ old.url <= new.url
            /\ old.launched => new.launched
        BY <3>1, <4>2, <4>3
      <4>5. new = cache'.shitcoins[c] /\ old = cache.shitcoins[c]
        BY DEF new, old
      <4> QED
        BY <3>3, <4>4, <4>5
    <3>5. CASE k # "ShitcoinCreated"
      <4>1. /\ new.end = IF k = "PresaleExtended" THEN answers["end"] ELSE old.end
            /\ new.raise = IF k = "PresaleEntered" THEN answers["raise"] ELSE old.raise
            /\ new.url = IF k = "ShitcoinUrlSet" THEN answers["url"] ELSE old.url
            /\ new.launched = IF k = "ShitcoinLaunched" THEN TRUE ELSE old.launched
        BY <1>5, <2>3, <3>2, <3>5, Applies DEF BaseInv
      <4>2. /\ k = "PresaleExtended" => "end" \in Queries(k)
            /\ k = "PresaleEntered" => "raise" \in Queries(k)
            /\ k = "ShitcoinUrlSet" => "url" \in Queries(k)
        BY DEF Queries
      <4> HIDE DEF old, new, k
      <4>3. /\ old.end <= new.end /\ old.raise <= new.raise /\ old.url <= new.url
            /\ old.launched => new.launched
        BY <1>2, <3>1, <4>1, <4>2
      <4>4. new = cache'.shitcoins[c] /\ old = cache.shitcoins[c]
        BY DEF new, old
      <4> QED
        BY <3>3, <4>3, <4>4
    <3> QED
      BY <3>4, <3>5
  <2> QED
    BY <2>2, <2>3
<1>6. CASE Receive
  <2>1. new = old
    BY <1>6, Receives DEF BaseInv
  <2> QED
    BY <1>3, <2>1
<1> QED
  BY <1>3, <1>4, <1>5, <1>6 DEF CopyLives

\* And to what is kept of a degen.
LEMMA DegenNotBackwards ==
    ASSUME BaseInv, AheadInv, NotBehind, CopyLives, NEW c \in Coins, NEW g \in Degens
    PROVE  LET old == CachedDegen(c, g)
               new == Or(cache'.degens[c][g], DefaultDegen)
           IN  old.submission <= new.submission /\ (old.claimed => new.claimed)
<1> DEFINE old == CachedDegen(c, g)
           new == Or(cache'.degens[c][g], DefaultDegen)
<1>1. old \in DegenType
  BY CachedDegenBounds
<1>2. CASE new = old
  <2>1. old.submission <= old.submission
    BY <1>1 DEF DegenType
  <2> QED
    BY <1>2, <2>1
<1>3. CASE cache'.degens[c][g] = cache.degens[c][g]
  BY <1>2, <1>3 DEF CachedDegen
<1>4. CASE InstallSnapshot
  <2>1. Len(KeyPrefixes) = 9
    BY DEF KeyPrefixes
  <2>2. at = "snapshot" /\ page > 9 /\ page \in 1 .. 10 /\ cache' = draft
    BY <1>4, <2>1 DEF InstallSnapshot, BaseInv, MonitorInv, WebTypeOK
  <2>3. "PRESALE_SUBMISSION" \in Before(page) /\ "PRESALE_CLAIMED" \in Before(page)
    BY <2>2, BeforePage
  <2> QED
    BY <2>2, <2>3 DEF NotBehind, DraftNotBehind, DraftHasDegen
<1>5. CASE Apply
  <2>1. /\ at = "query" /\ DOMAIN answers = Queries(event.kind) /\ event.coin \in Coins
        /\ event.kind \in {"PresaleEntered", "ShitcoinClaimed"} => event.degen \in Degens
    BY <1>5, AppliesToEntries DEF BaseInv
  <2>2. CASE \/ c # event.coin \/ g # event.degen
             \/ event.kind \notin {"PresaleEntered", "ShitcoinClaimed"}
    <3>1. cache'.degens[c][g] = cache.degens[c][g]
      BY <1>5, <2>2, Applies DEF BaseInv
    <3> QED
      BY <1>3, <3>1
  <2>3. CASE c = event.coin /\ g = event.degen /\ event.kind = "PresaleEntered"
    <3>1. cache'.degens[c][g] = [submission |-> answers["submission"], claimed |-> old.claimed]
      BY <1>5, <2>3, Applies DEF BaseInv, CachedDegen, Degen
    <3>2. cache'.degens[c][g] # Absent
      <4>1. answers["submission"] \in Nat
        BY <1>5, <2>1, <2>3, AppliesToEntries DEF BaseInv, Queries
      <4>2. cache'.degens[c][g] \in DegenType
        BY <1>1, <3>1, <4>1 DEF DegenType
      <4> QED
        BY <4>2, AbsentAssumption
    <3>3. "submission" \in DOMAIN answers
      BY <2>1, <2>3 DEF Queries
    <3>4. old.submission <= answers["submission"]
      BY <2>1, <2>3, <3>3 DEF NotBehind, AnswersNotBehind
    <3>5. new = [submission |-> answers["submission"], claimed |-> old.claimed]
      BY <3>1, <3>2 DEF Or
    <3> HIDE DEF old, new
    <3>6. old.submission <= new.submission /\ (old.claimed => new.claimed)
      BY <3>4, <3>5
    <3> QED
      BY <3>6 DEF old, new
  <2>4. CASE c = event.coin /\ g = event.degen /\ event.kind = "ShitcoinClaimed"
    <3>1. /\ Degen # Absent
          /\ cache'.degens[c][g] = [submission |-> Degen.submission, claimed |-> TRUE]
      BY <1>5, <2>4, Applies DEF BaseInv
    <3>2. old = Degen
      BY <2>4, <3>1 DEF CachedDegen, Degen, Or
    <3>3. cache'.degens[c][g] \in DegenType
      BY <1>1, <3>1, <3>2 DEF DegenType
    <3>4. new = [submission |-> old.submission, claimed |-> TRUE]
      BY <3>1, <3>2, <3>3, AbsentAssumption DEF Or
    <3> HIDE DEF old, new
    <3>5. old.submission <= new.submission /\ (old.claimed => new.claimed)
      BY <1>1, <3>4 DEF DegenType
    <3> QED
      BY <3>5 DEF old, new
  <2> QED
    BY <2>2, <2>3, <2>4
<1>6. CASE Receive
  <2>1. cache'.degens = cache.degens
    BY <1>6, Receives DEF BaseInv
  <2> QED
    BY <1>3, <2>1
<1> QED
  BY <1>3, <1>4, <1>5, <1>6 DEF CopyLives

\* As long as the process lives, what the site shows of a coin or a degen never
\* goes back: not when a late event is handled, not when the storage is read anew.
THEOREM SiteNeverBackwards == WebSpec => NeverBackwards
<1> DEFINE Inv == BaseInv /\ AheadInv /\ NotBehind
           Forward == cache' # EmptyState => \A c \in Coins :
              /\ cache.shitcoins[c] # Absent =>
                    LET old == cache.shitcoins[c]
                        new == cache'.shitcoins[c]
                    IN  /\ new # Absent
                        /\ old.end <= new.end /\ old.raise <= new.raise /\ old.url <= new.url
                        /\ old.launched => new.launched
              /\ \A g \in Degens :
                    LET old == Or(cache.degens[c][g], DefaultDegen)
                        new == Or(cache'.degens[c][g], DefaultDegen)
                    IN  old.submission <= new.submission /\ (old.claimed => new.claimed)
<1>1. WebInit => Inv
  <2> SUFFICES ASSUME WebInit PROVE Inv
    OBVIOUS
  <2>1. NotAhead(cache) /\ NotAhead(draft) /\ at = "snapshot" /\ page = 1
    BY NothingIsAhead DEF WebInit
  <2>2. Before(page) = {}
    BY <2>1 DEF Before
  <2> QED
    BY <2>1, <2>2, BaseAtStart
       DEF AheadInv, AnswersNotAhead, NotBehind, AnswersNotBehind, DraftNotBehind, DraftHas,
           DraftHasDegen
<1>2. Inv /\ [WebNext]_vars => Inv'
  BY BaseKept, AheadKept, NotBehindKept
<1>3. Inv /\ [WebNext]_vars => Forward
  <2> SUFFICES ASSUME Inv, [WebNext]_vars, cache' # EmptyState PROVE Forward
    OBVIOUS
  <2>1. CopyLives
    BY DEF CopyLives, WebNext, Commit, TimePasses, Publish, Monitor, ReadPage, Subscribe,
           Unsubscribed, QueryAnswers, Broadcast, Panic, StartOver, ConnectionCloses,
           SnapshotFails, Restart, vars
  <2> QED
    BY <2>1, StepNotBackwards, DegenNotBackwards DEF CachedDegen
<1>4. Inv /\ [WebNext]_vars => [Forward]_vars
  BY <1>3
<1> QED
  BY <1>1, <1>2, <1>4, PTL DEF WebSpec, NeverBackwards
-----------------------------------------------------------------------------
(***************************************************************************)
(* A snapshot whose pages nothing came between is the storage.             *)
(***************************************************************************)

\* Reading nothing changes nothing.
LEMMA NothingRead ==
    AddKeys(EmptyState, {}) = EmptyState /\ AddKeys(EmptyState, {})' = EmptyState
<1>1. \A c \in Coins :
         ShitcoinKeys({}, c, Absent) = Absent /\ ShitcoinKeys({}, c, Absent)' = Absent
  BY DEF ShitcoinKeys, KeysUnder
<1>2. \A c \in Coins, g \in Degens :
         DegenKeys({}, c, g, Absent) = Absent /\ DegenKeys({}, c, g, Absent)' = Absent
  BY DEF DegenKeys
<1> QED
  BY <1>1, <1>2 DEF AddKeys, EmptyState

\* Reading the keys of a coin under some prefixes and then under others is
\* reading them under both.
LEMMA CoinReadTwice ==
    ASSUME ChainInv, NEW P, NEW Q, NEW c \in Coins, NEW entry \in {Absent} \cup MetaType
    PROVE  ShitcoinKeys(Q, c, ShitcoinKeys(P, c, entry)) = ShitcoinKeys(P \cup Q, c, entry)
<1> DEFINE first == KeysUnder(P, c)
           second == KeysUnder(Q, c)
           both == KeysUnder(P \cup Q, c)
           half == ShitcoinKeys(P, c, entry)
           meta == OrDefault(entry)
<1>1. both = first \cup second
  BY DEF KeysUnder
<1>2. meta \in MetaType
  BY DEF OrDefault, Or, DefaultMeta, MetaType
<1>3. CASE second = {}
  <2>1. ShitcoinKeys(Q, c, half) = half
    BY <1>3 DEF ShitcoinKeys
  <2>2. both = first
    BY <1>1, <1>3
  <2>3. ShitcoinKeys(P \cup Q, c, entry) = half
    BY <2>2 DEF ShitcoinKeys
  <2> QED
    BY <2>1, <2>3
<1>4. CASE first = {}
  <2>1. half = entry
    BY <1>4 DEF ShitcoinKeys
  <2>2. both = second
    BY <1>1, <1>4
  <2>3. ShitcoinKeys(P \cup Q, c, entry) = ShitcoinKeys(Q, c, entry)
    BY <2>2 DEF ShitcoinKeys
  <2> QED
    BY <2>1, <2>3
<1>5. CASE first # {} /\ second # {}
  <2>1. half = [creator |-> meta.creator \/ "SHITCOIN_CREATOR" \in first,
                url |-> IF "SHITCOIN_URL" \in first THEN url[c] ELSE meta.url,
                end |-> IF "PRESALE_END" \in first THEN deadline[c] ELSE meta.end,
                raise |-> IF "PRESALE_RAISE" \in first THEN raised[c] ELSE meta.raise,
                launched |-> meta.launched \/ "SHITCOIN_LAUNCHED" \in first]
    BY <1>5 DEF ShitcoinKeys
  <2>2. half \in MetaType
    <3>1. url[c] \in Nat /\ deadline[c] \in Nat /\ raised[c] \in Nat
      BY DEF ChainInv
    <3> HIDE DEF half, first, meta
    <3> QED
      BY <1>2, <2>1, <3>1 DEF MetaType
  <2>3. OrDefault(half) = half
    BY <2>2, AbsentAssumption DEF OrDefault, Or
  <2>4. ShitcoinKeys(Q, c, half) =
               [creator |-> half.creator \/ "SHITCOIN_CREATOR" \in second,
                url |-> IF "SHITCOIN_URL" \in second THEN url[c] ELSE half.url,
                end |-> IF "PRESALE_END" \in second THEN deadline[c] ELSE half.end,
                raise |-> IF "PRESALE_RAISE" \in second THEN raised[c] ELSE half.raise,
                launched |-> half.launched \/ "SHITCOIN_LAUNCHED" \in second]
    <3> HIDE DEF half
    <3> QED
      BY <1>5, <2>3 DEF ShitcoinKeys
  <2>5. both # {}
    BY <1>1, <1>5
  <2>6. ShitcoinKeys(P \cup Q, c, entry) =
               [creator |-> meta.creator \/ "SHITCOIN_CREATOR" \in both,
                url |-> IF "SHITCOIN_URL" \in both THEN url[c] ELSE meta.url,
                end |-> IF "PRESALE_END" \in both THEN deadline[c] ELSE meta.end,
                raise |-> IF "PRESALE_RAISE" \in both THEN raised[c] ELSE meta.raise,
                launched |-> meta.launched \/ "SHITCOIN_LAUNCHED" \in both]
    BY <2>5 DEF ShitcoinKeys
  <2> HIDE DEF first, second, both, half, meta
  <2>7. /\ half.creator = (meta.creator \/ "SHITCOIN_CREATOR" \in first)
        /\ half.launched = (meta.launched \/ "SHITCOIN_LAUNCHED" \in first)
        /\ half.url = IF "SHITCOIN_URL" \in first THEN url[c] ELSE meta.url
        /\ half.end = IF "PRESALE_END" \in first THEN deadline[c] ELSE meta.end
        /\ half.raise = IF "PRESALE_RAISE" \in first THEN raised[c] ELSE meta.raise
    BY <2>1
  <2>8. (half.creator \/ "SHITCOIN_CREATOR" \in second)
           = (meta.creator \/ "SHITCOIN_CREATOR" \in both)
    BY <1>1, <2>7
  <2>9. (half.launched \/ "SHITCOIN_LAUNCHED" \in second)
           = (meta.launched \/ "SHITCOIN_LAUNCHED" \in both)
    BY <1>1, <2>7
  <2>10. /\ (IF "SHITCOIN_URL" \in second THEN url[c] ELSE half.url)
              = IF "SHITCOIN_URL" \in both THEN url[c] ELSE meta.url
         /\ (IF "PRESALE_END" \in second THEN deadline[c] ELSE half.end)
              = IF "PRESALE_END" \in both THEN deadline[c] ELSE meta.end
         /\ (IF "PRESALE_RAISE" \in second THEN raised[c] ELSE half.raise)
              = IF "PRESALE_RAISE" \in both THEN raised[c] ELSE meta.raise
    BY <1>1, <2>7
  <2>11. ShitcoinKeys(Q, c, half) = ShitcoinKeys(P \cup Q, c, entry)
    BY <2>4, <2>6, <2>8, <2>9, <2>10, Zenon
  <2> QED
    BY <2>11 DEF half
<1> QED
  BY <1>3, <1>4, <1>5

\* The same for the keys of a degen.
LEMMA DegenReadTwice ==
    ASSUME ChainInv, NEW P, NEW Q, NEW c \in Coins, NEW g \in Degens,
           NEW entry \in {Absent} \cup DegenType
    PROVE  DegenKeys(Q, c, g, DegenKeys(P, c, g, entry)) = DegenKeys(P \cup Q, c, g, entry)
<1> DEFINE submitted(prefixes) == "PRESALE_SUBMISSION" \in prefixes /\ contributed[c][g] > 0
           claims(prefixes) == "PRESALE_CLAIMED" \in prefixes /\ g \in claimed[c]
           half == DegenKeys(P, c, g, entry)
           degen == Or(entry, DefaultDegen)
<1>1. degen \in DegenType
  BY DEF Or, DefaultDegen, DegenType
<1>2. /\ submitted(P \cup Q) <=> (submitted(P) \/ submitted(Q))
      /\ claims(P \cup Q) <=> (claims(P) \/ claims(Q))
  OBVIOUS
<1>3. CASE ~submitted(Q) /\ ~claims(Q)
  BY <1>2, <1>3 DEF DegenKeys
<1>4. CASE ~submitted(P) /\ ~claims(P)
  BY <1>2, <1>4 DEF DegenKeys
<1>5. CASE (submitted(P) \/ claims(P)) /\ (submitted(Q) \/ claims(Q))
  <2>1. half = [submission |-> IF submitted(P) THEN contributed[c][g] ELSE degen.submission,
                claimed |-> degen.claimed \/ claims(P)]
    BY <1>5 DEF DegenKeys
  <2>2. half \in DegenType
    <3>1. contributed[c][g] \in Nat
      BY DEF ChainInv
    <3> HIDE DEF half, degen, submitted, claims
    <3> QED
      BY <1>1, <2>1, <3>1 DEF DegenType
  <2>3. Or(half, DefaultDegen) = half
    BY <2>2, AbsentAssumption DEF Or
  <2>4. DegenKeys(Q, c, g, half) =
           [submission |-> IF submitted(Q) THEN contributed[c][g] ELSE half.submission,
            claimed |-> half.claimed \/ claims(Q)]
    <3> HIDE DEF half
    <3> QED
      BY <1>5, <2>3 DEF DegenKeys
  <2>5. DegenKeys(P \cup Q, c, g, entry) =
           [submission |-> IF submitted(P \cup Q) THEN contributed[c][g] ELSE degen.submission,
            claimed |-> degen.claimed \/ claims(P \cup Q)]
    BY <1>2, <1>5 DEF DegenKeys
  <2> HIDE DEF half, degen, submitted, claims
  <2>6. /\ half.submission = IF submitted(P) THEN contributed[c][g] ELSE degen.submission
        /\ half.claimed = (degen.claimed \/ claims(P))
    BY <2>1
  <2>7. (half.claimed \/ claims(Q)) = (degen.claimed \/ claims(P \cup Q))
    BY <1>2, <2>6
  <2>8. (IF submitted(Q) THEN contributed[c][g] ELSE half.submission)
           = IF submitted(P \cup Q) THEN contributed[c][g] ELSE degen.submission
    BY <1>2, <2>6
  <2>9. DegenKeys(Q, c, g, half) = DegenKeys(P \cup Q, c, g, entry)
    BY <2>4, <2>5, <2>7, <2>8
  <2> QED
    BY <2>9 DEF half
<1> QED
  BY <1>3, <1>4, <1>5

\* And for the whole storage.
LEMMA ReadTwice ==
    ASSUME ChainInv, NEW state \in StateType, NEW P, NEW Q
    PROVE  AddKeys(AddKeys(state, P), Q) = AddKeys(state, P \cup Q)
<1> DEFINE half == AddKeys(state, P)
<1>1. /\ \A c \in Coins : state.shitcoins[c] \in {Absent} \cup MetaType
      /\ \A c \in Coins, g \in Degens : state.degens[c][g] \in {Absent} \cup DegenType
  BY DEF StateType
<1>2. \A c \in Coins : ShitcoinKeys(Q, c, half.shitcoins[c])
                         = ShitcoinKeys(P \cup Q, c, state.shitcoins[c])
  <2>1. \A c \in Coins : half.shitcoins[c] = ShitcoinKeys(P, c, state.shitcoins[c])
    BY DEF AddKeys
  <2>2. ASSUME NEW c \in Coins
        PROVE  ShitcoinKeys(Q, c, half.shitcoins[c])
                  = ShitcoinKeys(P \cup Q, c, state.shitcoins[c])
    <3>1. ShitcoinKeys(Q, c, ShitcoinKeys(P, c, state.shitcoins[c]))
            = ShitcoinKeys(P \cup Q, c, state.shitcoins[c])
      BY <1>1, CoinReadTwice
    <3>2. half.shitcoins[c] = ShitcoinKeys(P, c, state.shitcoins[c])
      BY <2>1
    <3> HIDE DEF half
    <3> QED
      BY <3>1, <3>2, Zenon
  <2> HIDE DEF half
  <2> QED
    BY <2>2
<1>3. \A c \in Coins, g \in Degens : DegenKeys(Q, c, g, half.degens[c][g])
                                       = DegenKeys(P \cup Q, c, g, state.degens[c][g])
  <2>1. \A c \in Coins, g \in Degens :
           half.degens[c][g] = DegenKeys(P, c, g, state.degens[c][g])
    BY DEF AddKeys
  <2>2. ASSUME NEW c \in Coins, NEW g \in Degens
        PROVE  DegenKeys(Q, c, g, half.degens[c][g])
                  = DegenKeys(P \cup Q, c, g, state.degens[c][g])
    <3>1. DegenKeys(Q, c, g, DegenKeys(P, c, g, state.degens[c][g]))
            = DegenKeys(P \cup Q, c, g, state.degens[c][g])
      BY <1>1, DegenReadTwice
    <3>2. half.degens[c][g] = DegenKeys(P, c, g, state.degens[c][g])
      BY <2>1
    <3> HIDE DEF half
    <3> QED
      BY <3>1, <3>2, Zenon
  <2> HIDE DEF half
  <2> QED
    BY <2>2
<1>4. (IF "SHITCOIN_DENOM" \in Q THEN listed ELSE half.indexes)
         = IF "SHITCOIN_DENOM" \in P \cup Q THEN listed ELSE state.indexes
  BY DEF AddKeys
<1> HIDE DEF half
<1>5. AddKeys(half, Q) = AddKeys(state, P \cup Q)
  BY <1>2, <1>3, <1>4 DEF AddKeys
<1> QED
  BY <1>5 DEF half

\* What has been read under all the prefixes is what the contract has.
LEMMA AllRead ==
    ASSUME ChainInv, NEW c \in Coins
    PROVE  LET read == AddKeys(EmptyState, Before(10))
           IN  /\ read.shitcoins[c] = OnChainMeta(c)
               /\ \A g \in Degens : Or(read.degens[c][g], DefaultDegen)
                     = [submission |-> contributed[c][g], claimed |-> g \in claimed[c]]
<1> DEFINE read == AddKeys(EmptyState, Before(10))
           new == ShitcoinKeys(Before(10), c, Absent)
<1>1. /\ "PRESALE_CLAIMED" \in Before(10) /\ "PRESALE_END" \in Before(10)
      /\ "PRESALE_RAISE" \in Before(10) /\ "PRESALE_SUBMISSION" \in Before(10)
      /\ "SHITCOIN_CREATOR" \in Before(10) /\ "SHITCOIN_LAUNCHED" \in Before(10)
      /\ "SHITCOIN_URL" \in Before(10)
  BY BeforePage
<1>2. read.shitcoins[c] = new
  BY EmptyStateType DEF AddKeys
<1>3. ~Planted(c) => new = Absent
  <2>1. ~Planted(c) => KeysUnder(Before(10), c) = {}
    BY DEF KeysUnder
  <2> QED
    BY <2>1 DEF ShitcoinKeys
<1>4. ASSUME Planted(c) PROVE new = OnChainMeta(c)
  <2> DEFINE keys == KeysUnder(Before(10), c)
  <2>1. /\ "PRESALE_END" \in keys /\ "PRESALE_RAISE" \in keys /\ "SHITCOIN_CREATOR" \in keys
        /\ ("SHITCOIN_LAUNCHED" \in keys) = Launched(c)
        /\ "SHITCOIN_URL" \in keys <=> url[c] > 0
    BY <1>1, <1>4 DEF KeysUnder, CoinPrefixes, Launched
  <2>2. OrDefault(Absent) = DefaultMeta
    BY DEF OrDefault, Or
  <2>3. new = [creator |-> FALSE \/ "SHITCOIN_CREATOR" \in keys,
               url |-> IF "SHITCOIN_URL" \in keys THEN url[c] ELSE 0,
               end |-> IF "PRESALE_END" \in keys THEN deadline[c] ELSE 0,
               raise |-> IF "PRESALE_RAISE" \in keys THEN raised[c] ELSE 0,
               launched |-> FALSE \/ "SHITCOIN_LAUNCHED" \in keys]
    BY <2>1, <2>2 DEF ShitcoinKeys, DefaultMeta
  <2>4. url[c] \in Nat
    BY DEF ChainInv
  <2> HIDE DEF keys, new
  <2>5. /\ (FALSE \/ "SHITCOIN_CREATOR" \in keys) = TRUE
        /\ (IF "SHITCOIN_URL" \in keys THEN url[c] ELSE 0) = url[c]
        /\ (IF "PRESALE_END" \in keys THEN deadline[c] ELSE 0) = deadline[c]
        /\ (IF "PRESALE_RAISE" \in keys THEN raised[c] ELSE 0) = raised[c]
        /\ (FALSE \/ "SHITCOIN_LAUNCHED" \in keys) = Launched(c)
    BY <2>1, <2>4
  <2>6. new = [creator |-> TRUE, url |-> url[c], end |-> deadline[c], raise |-> raised[c],
               launched |-> Launched(c)]
    BY <2>3, <2>5, Zenon
  <2> QED
    BY <1>4, <2>6 DEF OnChainMeta, Launched
<1>5. ASSUME NEW g \in Degens
      PROVE  Or(read.degens[c][g], DefaultDegen)
               = [submission |-> contributed[c][g], claimed |-> g \in claimed[c]]
  <2>1. read.degens[c][g] = DegenKeys(Before(10), c, g, Absent)
    BY EmptyStateType DEF AddKeys
  <2>2. contributed[c][g] \in Nat
    BY DEF ChainInv
  <2>3. CASE contributed[c][g] = 0 /\ g \notin claimed[c]
    <3>1. read.degens[c][g] = Absent
      BY <2>1, <2>3 DEF DegenKeys
    <3>2. (g \in claimed[c]) = FALSE
      BY <2>3
    <3> HIDE DEF read
    <3> QED
      BY <2>3, <3>1, <3>2 DEF Or, DefaultDegen
  <2>4. CASE contributed[c][g] > 0 \/ g \in claimed[c]
    <3> DEFINE degen == [submission |-> contributed[c][g], claimed |-> g \in claimed[c]]
    <3>1. /\ Or(Absent, DefaultDegen).submission = 0
          /\ Or(Absent, DefaultDegen).claimed = FALSE
      BY DEF Or, DefaultDegen
    <3>2. read.degens[c][g] =
             [submission |-> IF contributed[c][g] > 0 THEN contributed[c][g] ELSE 0,
              claimed |-> FALSE \/ g \in claimed[c]]
      BY <1>1, <2>1, <2>4, <3>1 DEF DegenKeys
    <3>3. read.degens[c][g] = degen
      BY <2>2, <3>2
    <3>4. degen \in DegenType
      BY <2>2 DEF DegenType
    <3> HIDE DEF degen
    <3>5. Or(read.degens[c][g], DefaultDegen) = degen
      BY <3>3, <3>4, AbsentAssumption DEF Or
    <3> QED
      BY <3>5 DEF degen
  <2> QED
    BY <2>2, <2>3, <2>4
<1>6. read.shitcoins[c] = OnChainMeta(c)
  BY <1>2, <1>3, <1>4 DEF OnChainMeta
<1> QED
  BY <1>5, <1>6
-----------------------------------------------------------------------------
(***************************************************************************)
(* From the subscription on, every difference is announced.                *)
(***************************************************************************)

\* What changes in a step is announced after it.
ChangesAnnounced ==
    \A c \in Coins :
        /\ deadline'[c] = deadline[c] \/ Announced(EndKinds, c)'
        /\ raised'[c] = raised[c] \/ Announced(RaiseKinds, c)'
        /\ url'[c] = url[c] \/ Announced(UrlKinds, c)'
        /\ (Launched(c)' <=> Launched(c)) \/ Announced(LaunchKinds, c)'
        /\ (Planted(c)' <=> Planted(c)) \/ Announced({"ShitcoinCreated"}, c)'
        /\ \A g \in Degens :
              /\ contributed'[c][g] = contributed[c][g] \/ AnnouncedOf("PresaleEntered", c, g)'
              /\ \/ g \in claimed'[c] <=> g \in claimed[c]
                 \/ AnnouncedOf("ShitcoinClaimed", c, g)'

\* What was announced, or in hand, still is.
StillTold ==
    /\ \A kinds, c : Told(kinds, c) => Told(kinds, c)'
    /\ \A kind, c, g : ToldOf(kind, c, g) => ToldOf(kind, c, g)'

StillAnnounced ==
    /\ \A kinds, c : Announced(kinds, c) => Announced(kinds, c)'
    /\ \A kind, c, g : AnnouncedOf(kind, c, g) => AnnouncedOf(kind, c, g)'

\* More events that are coming announce what fewer did.
LEMMA MoreIsAnnounced ==
    ASSUME Coming \subseteq Coming'
    PROVE  StillAnnounced
BY DEF StillAnnounced, Announced, AnnouncedOf

\* When the event in hand stays there, nothing is forgotten.
LEMMA MoreIsTold ==
    ASSUME Coming \subseteq Coming', at = "query" => at' = "query", event' = event
    PROVE  StillTold
<1>1. StillAnnounced
  BY MoreIsAnnounced
<1>2. \A kinds, c : InHand(kinds, c) => InHand(kinds, c)'
  BY DEF InHand
<1> QED
  BY <1>1, <1>2 DEF StillTold, StillAnnounced, Told, ToldOf

\* What is announced is told.
LEMMA AnnouncedIsTold ==
    /\ \A kinds, c : Announced(kinds, c)' => Told(kinds, c)'
    /\ \A kind, c, g : AnnouncedOf(kind, c, g)' => ToldOf(kind, c, g)'
BY DEF Told, ToldOf

\* A message is announced by its event.
LEMMA CommitAnnounces ==
    ASSUME MonitorInv, NEW e, TransactionDoes(e), stream' = stream
    PROVE  ChangesAnnounced /\ Coming \subseteq Coming'
<1>1. e \in EventType /\ unpublished' = Append(unpublished, e) /\ ChangesOnly(e)
  BY DEF TransactionDoes, MessageDoes
<1>2. Elements(unpublished') = Elements(unpublished) \cup {e}
  BY <1>1, ElementsOfAppend DEF MonitorInv
<1>3. e \in Coming' /\ Coming \subseteq Coming'
  BY <1>2 DEF Coming
<1>4. /\ \A kinds, c : (e.coin = c /\ e.kind \in kinds) => Announced(kinds, c)'
      /\ \A kind, c, g : (e.coin = c /\ e.degen = g /\ e.kind = kind) => AnnouncedOf(kind, c, g)'
  BY <1>3 DEF Announced, AnnouncedOf
<1> QED
  BY <1>1, <1>3, <1>4 DEF ChangesOnly, ChangesAnnounced

\* Where nothing changes there is nothing to announce.
LEMMA NothingToAnnounce ==
    ASSUME ChangesNothing
    PROVE  ChangesAnnounced
BY DEF ChangesNothing, ChangesAnnounced

\* A step that writes nothing to the maps, forgets nothing and announces what
\* it changes.
LEMMA CoverageStays ==
    ASSUME Covered, StillTold, ChangesAnnounced,
           cache'.shitcoins = cache.shitcoins, cache'.degens = cache.degens
    PROVE  Covered'
<1>1. ASSUME NEW c \in Coins
      PROVE  CoinCovered(c)'
  <2> DEFINE meta == cache.shitcoins[c]
  <2>1. \A kinds : Told(kinds, c) \/ Announced(kinds, c)' => Told(kinds, c)'
    BY AnnouncedIsTold DEF StillTold
  <2>2. cache'.shitcoins[c] = meta
    OBVIOUS
  <2>3. CASE meta = Absent
    <3>1. Planted(c) => Told({"ShitcoinCreated"}, c)
      BY <2>3 DEF Covered, CoinCovered
    <3>2. (Planted(c)' <=> Planted(c)) \/ Announced({"ShitcoinCreated"}, c)'
      BY DEF ChangesAnnounced
    <3>3. Planted(c)' => Told({"ShitcoinCreated"}, c)'
      BY <2>1, <3>1, <3>2
    <3> QED
      BY <2>2, <2>3, <3>3 DEF CoinCovered
  <2>4. CASE meta # Absent
    <3>1. /\ meta.creator
          /\ meta.end = deadline[c] \/ Told(EndKinds, c)
          /\ meta.raise = raised[c] \/ Told(RaiseKinds, c)
          /\ meta.url = url[c] \/ Told(UrlKinds, c)
          /\ (meta.launched <=> Launched(c)) \/ Told(LaunchKinds, c)
      BY <2>4 DEF Covered, CoinCovered
    <3>2. /\ deadline'[c] = deadline[c] \/ Announced(EndKinds, c)'
          /\ raised'[c] = raised[c] \/ Announced(RaiseKinds, c)'
          /\ url'[c] = url[c] \/ Announced(UrlKinds, c)'
          /\ (Launched(c)' <=> Launched(c)) \/ Announced(LaunchKinds, c)'
      BY DEF ChangesAnnounced
    <3>3. /\ meta.end = deadline'[c] \/ Told(EndKinds, c)'
          /\ meta.raise = raised'[c] \/ Told(RaiseKinds, c)'
          /\ meta.url = url'[c] \/ Told(UrlKinds, c)'
      BY <2>1, <3>1, <3>2
    <3>4. (meta.launched <=> Launched(c)') \/ Told(LaunchKinds, c)'
      BY <2>1, <3>1, <3>2
    <3> QED
      BY <2>2, <2>4, <3>1, <3>3, <3>4 DEF CoinCovered
  <2> QED
    BY <2>3, <2>4
<1>2. ASSUME NEW c \in Coins, NEW g \in Degens
      PROVE  DegenCovered(c, g)'
  <2> DEFINE degen == Or(cache.degens[c][g], DefaultDegen)
  <2>1. \A kind : ToldOf(kind, c, g) \/ AnnouncedOf(kind, c, g)' => ToldOf(kind, c, g)'
    BY AnnouncedIsTold DEF StillTold
  <2>2. Or(cache'.degens[c][g], DefaultDegen) = degen
    OBVIOUS
  <2>3. /\ degen.submission = contributed[c][g] \/ ToldOf("PresaleEntered", c, g)
        /\ (degen.claimed <=> g \in claimed[c]) \/ ToldOf("ShitcoinClaimed", c, g)
    BY DEF Covered, DegenCovered
  <2>4. /\ contributed'[c][g] = contributed[c][g] \/ AnnouncedOf("PresaleEntered", c, g)'
        /\ (g \in claimed'[c] <=> g \in claimed[c]) \/ AnnouncedOf("ShitcoinClaimed", c, g)'
    BY DEF ChangesAnnounced
  <2> HIDE DEF degen
  <2>5. degen.submission = contributed'[c][g] \/ ToldOf("PresaleEntered", c, g)'
    BY <2>1, <2>3, <2>4
  <2>6. (degen.claimed <=> g \in claimed'[c]) \/ ToldOf("ShitcoinClaimed", c, g)'
    BY <2>1, <2>3, <2>4
  <2> QED
    BY <2>2, <2>5, <2>6 DEF DegenCovered
<1> QED
  BY <1>1, <1>2 DEF Covered

\* The answers that are in stay good, or are corrected.
LEMMA AnswersStayCovered ==
    ASSUME BaseInv, AnswersCovered, StillAnnounced, ChangesAnnounced,
           at' = at, event' = event, answers' = answers
    PROVE  AnswersCovered'
<1> SUFFICES ASSUME at = "query", NEW f \in DOMAIN answers
             PROVE  AnswerCovered(f)'
  BY DEF AnswersCovered
<1> DEFINE c == event.coin
           g == event.degen
<1>1. /\ AnswerCovered(f) /\ Happened(event) /\ f \in Queries(event.kind) /\ c \in Coins
  BY DEF AnswersCovered, BaseInv, MonitorInv, WebTypeOK, Happened, EventType
<1>2. \A kinds : Announced(kinds, c) => Announced(kinds, c)'
  BY DEF StillAnnounced
<1>3. /\ deadline'[c] = deadline[c] \/ Announced(EndKinds, c)'
      /\ raised'[c] = raised[c] \/ Announced(RaiseKinds, c)'
      /\ url'[c] = url[c] \/ Announced(UrlKinds, c)'
      /\ (Launched(c)' <=> Launched(c)) \/ Announced(LaunchKinds, c)'
  BY <1>1 DEF ChangesAnnounced
<1>4. f \in Fields
  BY <1>1, OnChainType DEF BaseInv
<1>5. CASE f = "end"
  <2>1. answers[f] = deadline[c] \/ Announced(EndKinds, c)
    BY <1>1, <1>5 DEF AnswerCovered
  <2>2. answers[f] = deadline'[c] \/ Announced(EndKinds, c)'
    BY <1>2, <1>3, <2>1
  <2> QED
    BY <1>5, <2>2 DEF AnswerCovered, Announced
<1>6. CASE f = "raise"
  <2>1. answers[f] = raised[c] \/ Announced(RaiseKinds, c)
    BY <1>1, <1>6 DEF AnswerCovered
  <2>2. answers[f] = raised'[c] \/ Announced(RaiseKinds, c)'
    BY <1>2, <1>3, <2>1
  <2> QED
    BY <1>6, <2>2 DEF AnswerCovered, Announced
<1>7. CASE f = "url"
  <2>1. answers[f] = url[c] \/ Announced(UrlKinds, c)
    BY <1>1, <1>7 DEF AnswerCovered
  <2>2. answers[f] = url'[c] \/ Announced(UrlKinds, c)'
    BY <1>2, <1>3, <2>1
  <2> QED
    BY <1>7, <2>2 DEF AnswerCovered, Announced
<1>8. CASE f = "launched"
  <2>1. (answers[f] <=> Launched(c)) \/ Announced(LaunchKinds, c)
    BY <1>1, <1>8 DEF AnswerCovered
  <2>2. (answers[f] <=> Launched(c)') \/ Announced(LaunchKinds, c)'
    BY <1>2, <1>3, <2>1
  <2> QED
    BY <1>8, <2>2 DEF AnswerCovered, Announced, Launched
<1>9. CASE f = "submission"
  <2>1. answers[f] = contributed[c][g] \/ AnnouncedOf("PresaleEntered", c, g)
    BY <1>1, <1>9 DEF AnswerCovered
  <2>2. g \in Degens
    BY <1>1, <1>9 DEF Queries, Happened, EventType, Kinds
  <2>3. contributed'[c][g] = contributed[c][g] \/ AnnouncedOf("PresaleEntered", c, g)'
    BY <1>1, <2>2 DEF ChangesAnnounced
  <2>4. answers[f] = contributed'[c][g] \/ AnnouncedOf("PresaleEntered", c, g)'
    BY <2>1, <2>3 DEF StillAnnounced
  <2> QED
    BY <1>9, <2>4 DEF AnswerCovered, AnnouncedOf
<1> QED
  BY <1>4, <1>5, <1>6, <1>7, <1>8, <1>9 DEF Fields

\* The event that is taken is in hand.
LEMMA ReceiveForgetsNothing ==
    ASSUME BaseInv, Receive
    PROVE  StillTold
<1>1. /\ at = "listen" /\ at' = "query" /\ Coming = Coming' \cup {event'}
  BY Receives DEF BaseInv
<1>2. ASSUME NEW kinds, NEW c, Told(kinds, c)
      PROVE  Told(kinds, c)'
  <2>1. PICK e \in Coming : e.kind \in kinds /\ e.coin = c
    BY <1>1, <1>2 DEF Told, InHand, Announced
  <2> QED
    BY <1>1, <2>1 DEF Told, InHand, Announced
<1>3. ASSUME NEW kind, NEW c, NEW g, ToldOf(kind, c, g)
      PROVE  ToldOf(kind, c, g)'
  <2>1. PICK e \in Coming : e.kind = kind /\ e.coin = c /\ e.degen = g
    BY <1>1, <1>3 DEF ToldOf, InHand, AnnouncedOf
  <2> QED
    BY <1>1, <2>1 DEF ToldOf, InHand, AnnouncedOf
<1> QED
  BY <1>2, <1>3 DEF StillTold

\* A new answer is the contract's.
LEMMA AnswerIsCovered ==
    ASSUME BaseInv, AnswersCovered, QueryAnswers
    PROVE  AnswersCovered'
<1>1. /\ at = "query" /\ event' = event /\ UNCHANGED chain /\ stream' = stream
      /\ Happened(event)
  BY Answers DEF BaseInv
<1>2. PICK field \in pending :
         /\ field \in Queries(event.kind)
         /\ DOMAIN answers' = DOMAIN answers \cup {field}
         /\ answers'[field] = OnChain(field)
         /\ \A f \in DOMAIN answers : f # field /\ answers'[f] = answers[f]
  BY Answers DEF BaseInv
<1>3. /\ UNCHANGED <<phase, deadline, raised, contributed, claimed, url>>
      /\ Coming' = Coming
  BY <1>1 DEF chain, ledger, Coming
<1>4. field \in Fields
  BY <1>1, <1>2, OnChainType DEF BaseInv
<1>5. AnswerCovered(field)'
  BY <1>1, <1>2, <1>3, <1>4 DEF AnswerCovered, OnChain, Fields, Launched
<1>6. ASSUME NEW f \in DOMAIN answers
      PROVE  AnswerCovered(f)'
  <2>1. AnswerCovered(f) /\ answers'[f] = answers[f]
    BY <1>1, <1>2, <1>6 DEF AnswersCovered
  <2>2. f \in Fields
    BY <1>1, OnChainType DEF BaseInv, MonitorInv, WebTypeOK
  <2> QED
    BY <1>1, <1>3, <2>1, <2>2 DEF AnswerCovered, Announced, AnnouncedOf, Launched, Fields
<1> QED
  BY <1>2, <1>5, <1>6 DEF AnswersCovered

\* Once the answers to the event in hand are stored, what it announced is in
\* the copy, or another event is coming.
LEMMA ApplyCoversCoins ==
    ASSUME BaseInv, Covered, AnswersCovered, Apply, NEW x \in Coins
    PROVE  CoinCovered(x)'
<1> DEFINE c == event.coin
           k == event.kind
           new == cache'.shitcoins[x]
<1>1. /\ at = "query" /\ at' = "timestamp" /\ Happened(event) /\ c \in Coins /\ k \in Kinds
      /\ DOMAIN answers = Queries(k) /\ UNCHANGED chain /\ stream' = stream
  BY AppliesToEntries DEF BaseInv, EventType
<1>2. /\ UNCHANGED <<phase, deadline, raised, url>> /\ Coming' = Coming
  BY <1>1 DEF chain, ledger, Coming
<1>3. \A kinds : /\ Told(kinds, x)' <=> Announced(kinds, x)
                 /\ Told(kinds, x) => Announced(kinds, x) \/ (x = c /\ k \in kinds)
  BY <1>1, <1>2 DEF Told, InHand, Announced
<1>4. CASE x # c
  <2>1. new = cache.shitcoins[x]
    BY <1>4, Applies DEF BaseInv
  <2>2. \A kinds : Told(kinds, x) => Told(kinds, x)'
    BY <1>3, <1>4
  <2>3. CoinCovered(x)
    BY DEF Covered
  <2> QED
    BY <1>2, <2>1, <2>2, <2>3 DEF CoinCovered, Planted, Launched
<1>5. CASE x = c
  <2>1. new \in MetaType /\ new # Absent
    BY <1>5, Applies, AbsentAssumption DEF BaseInv
  <2>2. \A f \in Queries(k) : AnswerCovered(f)
    BY <1>1 DEF AnswersCovered
  <2>3. CASE k = "ShitcoinCreated"
    <3>1. new = CreatedMeta
      BY <1>5, <2>3, Applies DEF BaseInv
    <3>2. {"end", "raise", "launched", "url"} = Queries(k)
      BY <2>3 DEF Queries
    <3>3. /\ answers["end"] = deadline[c] \/ Announced(EndKinds, c)
          /\ answers["raise"] = raised[c] \/ Announced(RaiseKinds, c)
          /\ answers["url"] = url[c] \/ Announced(UrlKinds, c)
          /\ (answers["launched"] <=> Launched(c)) \/ Announced(LaunchKinds, c)
      BY <2>2, <3>2 DEF AnswerCovered
    <3>4. /\ new.creator = TRUE /\ new.end = answers["end"] /\ new.raise = answers["raise"]
          /\ new.url = answers["url"] /\ new.launched = answers["launched"]
      BY <3>1 DEF CreatedMeta
    <3> QED
      BY <1>2, <1>3, <1>5, <2>1, <3>3, <3>4 DEF CoinCovered, Launched
  <2>4. CASE k # "ShitcoinCreated"
    <3>1. /\ Meta \in MetaType
          /\ new.creator = Meta.creator
          /\ new.end = IF k = "PresaleExtended" THEN answers["end"] ELSE Meta.end
          /\ new.raise = IF k = "PresaleEntered" THEN answers["raise"] ELSE Meta.raise
          /\ new.url = IF k = "ShitcoinUrlSet" THEN answers["url"] ELSE Meta.url
          /\ new.launched = IF k = "ShitcoinLaunched" THEN TRUE ELSE Meta.launched
      BY <1>5, <2>4, Applies DEF BaseInv
    <3>2. Meta # Absent /\ Meta = cache.shitcoins[x]
      BY <1>5, <3>1, AbsentAssumption DEF Meta
    <3>3. /\ Meta.creator
          /\ Meta.end = deadline[c] \/ Announced(EndKinds, c) \/ k \in EndKinds
          /\ Meta.raise = raised[c] \/ Announced(RaiseKinds, c) \/ k \in RaiseKinds
          /\ Meta.url = url[c] \/ Announced(UrlKinds, c) \/ k \in UrlKinds
          /\ \/ Meta.launched <=> Launched(c)
             \/ Announced(LaunchKinds, c) \/ k \in LaunchKinds
      BY <1>3, <1>5, <3>2 DEF Covered, CoinCovered
    <3>4. /\ k \in EndKinds <=> k = "PresaleExtended"
          /\ k \in RaiseKinds <=> k = "PresaleEntered"
          /\ k \in UrlKinds <=> k = "ShitcoinUrlSet"
          /\ k \in LaunchKinds <=> k = "ShitcoinLaunched"
      BY <2>4 DEF EndKinds, RaiseKinds, UrlKinds, LaunchKinds
    <3>5. /\ k = "PresaleExtended" => answers["end"] = deadline[c] \/ Announced(EndKinds, c)
          /\ k = "PresaleEntered" => answers["raise"] = raised[c] \/ Announced(RaiseKinds, c)
          /\ k = "ShitcoinUrlSet" => answers["url"] = url[c] \/ Announced(UrlKinds, c)
          /\ k = "ShitcoinLaunched" => Launched(c)
      BY <1>1, <2>2 DEF Queries, AnswerCovered, Happened
    <3> HIDE DEF new, k
    <3>6. new.end = deadline[c] \/ Announced(EndKinds, c)
      BY <3>1, <3>3, <3>4, <3>5
    <3>7. new.raise = raised[c] \/ Announced(RaiseKinds, c)
      BY <3>1, <3>3, <3>4, <3>5
    <3>8. new.url = url[c] \/ Announced(UrlKinds, c)
      BY <3>1, <3>3, <3>4, <3>5
    <3>9. (new.launched <=> Launched(c)) \/ Announced(LaunchKinds, c)
      BY <3>1, <3>3, <3>4, <3>5
    <3>10. new = cache'.shitcoins[x] /\ new.creator
      BY <3>1, <3>3 DEF new
    <3> QED
      BY <1>2, <1>3, <1>5, <2>1, <3>6, <3>7, <3>8, <3>9, <3>10 DEF CoinCovered, Launched
  <2> QED
    BY <2>3, <2>4
<1> QED
  BY <1>4, <1>5

\* The same for what the copy has of a degen.
LEMMA ApplyCoversDegens ==
    ASSUME BaseInv, Covered, AnswersCovered, Apply, NEW x \in Coins, NEW h \in Degens
    PROVE  DegenCovered(x, h)'
<1> DEFINE c == event.coin
           g == event.degen
           k == event.kind
           old == Or(cache.degens[x][h], DefaultDegen)
           new == Or(cache'.degens[x][h], DefaultDegen)
<1>1. /\ at = "query" /\ at' = "timestamp" /\ Happened(event) /\ c \in Coins /\ k \in Kinds
      /\ DOMAIN answers = Queries(k) /\ UNCHANGED chain /\ stream' = stream
  BY AppliesToEntries DEF BaseInv, EventType
<1>2. UNCHANGED <<contributed, claimed>> /\ Coming' = Coming
  BY <1>1 DEF chain, ledger, Coming
<1>3. \A kind : /\ ToldOf(kind, x, h)' <=> AnnouncedOf(kind, x, h)
                /\ ToldOf(kind, x, h) =>
                      AnnouncedOf(kind, x, h) \/ (x = c /\ h = g /\ k = kind)
  BY <1>1, <1>2 DEF ToldOf, InHand, AnnouncedOf
<1>4. /\ \/ old.submission = contributed[x][h]
         \/ AnnouncedOf("PresaleEntered", x, h) \/ (x = c /\ h = g /\ k = "PresaleEntered")
      /\ \/ old.claimed <=> h \in claimed[x]
         \/ AnnouncedOf("ShitcoinClaimed", x, h) \/ (x = c /\ h = g /\ k = "ShitcoinClaimed")
  BY <1>3 DEF Covered, DegenCovered
<1>5. /\ new.submission = contributed[x][h] \/ AnnouncedOf("PresaleEntered", x, h)
      /\ (new.claimed <=> h \in claimed[x]) \/ AnnouncedOf("ShitcoinClaimed", x, h)
  <2>1. CASE x # c \/ h # g \/ k \notin {"PresaleEntered", "ShitcoinClaimed"}
    <3>1. cache'.degens[x][h] = cache.degens[x][h]
      BY <2>1, Applies DEF BaseInv
    <3>2. new = old
      BY <3>1
    <3> HIDE DEF new, old
    <3> QED
      BY <1>4, <2>1, <3>2
  <2>2. CASE x = c /\ h = g /\ k = "PresaleEntered"
    <3>1. cache'.degens[x][h] = [submission |-> answers["submission"], claimed |-> old.claimed]
      BY <2>2, Applies DEF BaseInv, Degen
    <3>2. cache'.degens[x][h] # Absent
      <4>1. cache'.degens[x][h] \in {Absent} \cup DegenType
        BY Applies DEF BaseInv, StateType
      <4>2. old \in DegenType
        BY DEF BaseInv, MonitorInv, WebTypeOK, StateType, Or, DefaultDegen, DegenType
      <4>3. answers["submission"] \in Nat
        BY <2>2, AppliesToEntries DEF BaseInv, Queries
      <4> HIDE DEF old
      <4>4. cache'.degens[x][h] \in DegenType
        BY <3>1, <4>2, <4>3 DEF DegenType
      <4> QED
        BY <4>4, AbsentAssumption
    <3>3. new.submission = answers["submission"] /\ new.claimed = old.claimed
      BY <3>1, <3>2 DEF Or
    <3>4. AnswerCovered("submission")
      BY <1>1, <2>2 DEF AnswersCovered, Queries
    <3>5. answers["submission"] = contributed[x][h] \/ AnnouncedOf("PresaleEntered", x, h)
      BY <2>2, <3>4 DEF AnswerCovered
    <3> HIDE DEF new, old
    <3> QED
      BY <1>4, <2>2, <3>3, <3>5
  <2>3. CASE x = c /\ h = g /\ k = "ShitcoinClaimed"
    <3>1. /\ cache.degens[x][h] # Absent
          /\ cache'.degens[x][h] = [submission |-> cache.degens[x][h].submission, claimed |-> TRUE]
      BY <2>3, Applies DEF BaseInv, Degen
    <3>2. cache'.degens[x][h] # Absent
      <4>1. cache.degens[x][h] \in DegenType
        BY <3>1 DEF BaseInv, MonitorInv, WebTypeOK, StateType
      <4>2. cache'.degens[x][h] \in DegenType
        BY <3>1, <4>1 DEF DegenType
      <4> QED
        BY <4>2, AbsentAssumption
    <3>3. new.submission = old.submission /\ new.claimed = TRUE
      BY <3>1, <3>2 DEF Or
    <3>4. h \in claimed[x]
      BY <1>1, <2>3 DEF Happened
    <3> HIDE DEF new, old
    <3> QED
      BY <1>4, <2>3, <3>3, <3>4
  <2> QED
    BY <2>1, <2>2, <2>3
<1> HIDE DEF new
<1>6. new = Or(cache'.degens[x][h], DefaultDegen)
  BY DEF new
<1> QED
  BY <1>2, <1>3, <1>5, <1>6 DEF DegenCovered

\* What a snapshot reads does not change with what changes nothing.
LEMMA ReadingUnmoved ==
    ASSUME ChangesNothing, listed' = listed, NEW P
    PROVE  AddKeys(EmptyState, P)' = AddKeys(EmptyState, P)
<1>1. ASSUME NEW c \in Coins
      PROVE  ShitcoinKeys(P, c, Absent)' = ShitcoinKeys(P, c, Absent)
  <2>1. /\ Planted(c)' <=> Planted(c)
        /\ (phase[c] = "launched")' <=> (phase[c] = "launched")
        /\ url'[c] = url[c] /\ deadline'[c] = deadline[c] /\ raised'[c] = raised[c]
    BY DEF ChangesNothing, Launched
  <2>2. KeysUnder(P, c)' = KeysUnder(P, c)
    BY <2>1 DEF KeysUnder
  <2> QED
    BY <2>1, <2>2 DEF ShitcoinKeys
<1>2. ASSUME NEW c \in Coins, NEW g \in Degens
      PROVE  DegenKeys(P, c, g, Absent)' = DegenKeys(P, c, g, Absent)
  BY DEF ChangesNothing, DegenKeys
<1> QED
  BY <1>1, <1>2 DEF AddKeys, EmptyState

\* The snapshot, or what was installed, is still what the contract has when
\* nothing changes.
LEMMA AgreementUnmoved ==
    ASSUME FollowInv, ChangesNothing, UNCHANGED <<listed, at, page, draft, cache, gap>>
    PROVE  /\ at' = "snapshot" /\ ~gap' => (draft = AddKeys(EmptyState, Before(page)))'
           /\ at' = "subscribe" /\ ~gap' => CacheAgrees'
<1>1. ASSUME at = "snapshot", ~gap
      PROVE  (draft = AddKeys(EmptyState, Before(page)))'
  <2>1. PICK P : P = Before(page)
    OBVIOUS
  <2>2. draft = AddKeys(EmptyState, P)
    BY <1>1, <2>1 DEF FollowInv
  <2>3. AddKeys(EmptyState, P)' = AddKeys(EmptyState, P)
    BY ReadingUnmoved
  <2>4. Before(page)' = P
    BY <2>1 DEF Before
  <2>5. AddKeys(EmptyState, Before(page))' = AddKeys(EmptyState, P)'
    BY <2>4 DEF AddKeys, ShitcoinKeys, KeysUnder, DegenKeys
  <2> QED
    BY <2>2, <2>3, <2>5
<1>2. ASSUME at = "subscribe", ~gap
      PROVE  CacheAgrees'
  <2>1. CacheAgrees
    BY <1>2 DEF FollowInv
  <2>2. \A c \in Coins :
           /\ (Planted(c)' <=> Planted(c)) /\ url'[c] = url[c] /\ deadline'[c] = deadline[c]
           /\ raised'[c] = raised[c]
           /\ (phase[c] = "launched")' = (phase[c] = "launched")
           /\ contributed'[c] = contributed[c] /\ claimed'[c] = claimed[c]
    BY DEF ChangesNothing, Launched
  <2>3. \A c \in Coins : OnChainMeta(c)' = OnChainMeta(c)
    BY <2>2 DEF OnChainMeta
  <2> QED
    BY <2>1, <2>2, <2>3 DEF CacheAgrees
<1> QED
  BY <1>1, <1>2

\* A snapshot begins.
LEMMA StartingFollows ==
    ASSUME StartSnapshot
    PROVE  FollowInv'
<1>1. at' = "snapshot" /\ page' = 1 /\ draft' = EmptyState
  BY DEF StartSnapshot
<1>2. Before(page)' = {}
  BY <1>1 DEF Before
<1>3. AddKeys(EmptyState, Before(page))' = AddKeys(EmptyState, {})'
  BY <1>2 DEF AddKeys, ShitcoinKeys, KeysUnder, DegenKeys
<1>4. AddKeys(EmptyState, {})' = EmptyState
  BY NothingRead
<1> QED
  BY <1>1, <1>3, <1>4 DEF FollowInv, Subscribed

\* What a committed message is to the copy: the snapshot has not begun, it falls
\* into a gap, or an event announces it.
LEMMA CommitFallsInGap ==
    ASSUME NEW e, MessageDoes(e), Emit(e) \/ Unannounced
    PROVE  /\ gap => gap'
           /\ ~gap' => at # "subscribe" /\ (at = "snapshot" => ~(page > 1))
           /\ (Subscribed /\ ~gap') => TransactionDoes(e)
<1>1. Subscribed => at # "subscribe" /\ at # "snapshot"
  BY DEF Subscribed
<1>2. CASE Emit(e)
  <2>1. unpublished' = Append(unpublished, e)
    BY <1>2 DEF Emit
  <2>2. gap' = (gap \/ at = "subscribe" \/ (at = "snapshot" /\ page > 1))
    BY <1>2 DEF Emit
  <2>3. TransactionDoes(e)
    BY <2>1 DEF TransactionDoes
  <2> QED
    BY <2>2, <2>3, Zenon
<1>3. CASE Unannounced
  <2>1. gap' = (gap \/ ~(at = "snapshot" /\ page = 1))
    BY <1>3 DEF Unannounced
  <2>2. page = 1 => ~(page > 1)
    OBVIOUS
  <2>3. at = "snapshot" => at # "subscribe"
    OBVIOUS
  <2> QED
    BY <1>1, <2>1, <2>2, <2>3, Zenon
<1> QED
  BY <1>2, <1>3, Zenon

\* A message: into a gap, or announced.
LEMMA CommitFollows ==
    ASSUME BaseInv, FollowInv, Commit
    PROVE  FollowInv'
<1>1. PICK e : MessageDoes(e) /\ (Emit(e) \/ Unannounced)
  BY CommitDoes DEF BaseInv
<1>2. /\ UNCHANGED <<stream, connected, at, page, draft, event, answers, cache>>
      /\ gap => gap'
      /\ ~gap' => at # "subscribe" /\ (at = "snapshot" => ~(page > 1))
      /\ (Subscribed /\ ~gap') => TransactionDoes(e)
  BY <1>1, CommitFallsInGap DEF Commit, snapshot, handling
<1>3. ASSUME at = "snapshot", ~gap'
      PROVE  (draft = AddKeys(EmptyState, Before(page)))'
  <2>1. page = 1 /\ ~gap
    <3>1. Len(KeyPrefixes) = 9
      BY DEF KeyPrefixes
    <3>2. page \in 1 .. 10
      BY <3>1 DEF BaseInv, MonitorInv, WebTypeOK
    <3>3. ~(page > 1) /\ ~gap
      BY <1>2, <1>3
    <3> QED
      BY <3>2, <3>3
  <2>2. Before(page) = {} /\ Before(page)' = {}
    BY <1>2, <2>1 DEF Before
  <2>3. draft = AddKeys(EmptyState, {})
    BY <1>3, <2>1, <2>2 DEF FollowInv
  <2>4. AddKeys(EmptyState, Before(page))' = AddKeys(EmptyState, {})'
    BY <2>2 DEF AddKeys, ShitcoinKeys, KeysUnder, DegenKeys
  <2> QED
    BY <1>2, <2>3, <2>4, NothingRead
<1>4. ASSUME Subscribed, connected, ~gap'
      PROVE  Covered' /\ AnswersCovered'
  <2>1. Covered /\ AnswersCovered
    BY <1>2, <1>4 DEF FollowInv
  <2>2. ChangesAnnounced /\ Coming \subseteq Coming'
    BY <1>2, <1>4, CommitAnnounces DEF BaseInv
  <2>3. StillTold /\ StillAnnounced
    BY <1>2, <2>2, MoreIsTold, MoreIsAnnounced
  <2> QED
    BY <1>2, <2>1, <2>2, <2>3, CoverageStays, AnswersStayCovered
<1> QED
  BY <1>2, <1>3, <1>4 DEF FollowInv, Subscribed

\* A step that is not the monitor's and changes nothing of the contract.
LEMMA UnmovedFollows ==
    ASSUME BaseInv, FollowInv, ChangesNothing,
           UNCHANGED <<listed, connected, at, page, draft, event, answers, cache, gap>>,
           (Subscribed /\ connected) => Coming' = Coming
    PROVE  FollowInv'
<1>1. /\ at' = "snapshot" /\ ~gap' => (draft = AddKeys(EmptyState, Before(page)))'
      /\ at' = "subscribe" /\ ~gap' => CacheAgrees'
  BY AgreementUnmoved
<1>2. ASSUME Subscribed, connected, ~gap
      PROVE  Covered' /\ AnswersCovered'
  <2>1. Covered /\ AnswersCovered
    BY <1>2 DEF FollowInv
  <2>2. ChangesAnnounced /\ StillTold /\ StillAnnounced
    BY <1>2, NothingToAnnounce, MoreIsTold, MoreIsAnnounced
  <2> QED
    BY <2>1, <2>2, CoverageStays, AnswersStayCovered
<1> QED
  BY <1>1, <1>2 DEF FollowInv, Subscribed

\* A page is added to what was read.
LEMMA ReadPageFollows ==
    ASSUME BaseInv, FollowInv, ReadPage
    PROVE  FollowInv'
<1> DEFINE prefixes == {KeyPrefixes[i] : i \in page .. PageEnd}
<1>1. /\ at = "snapshot" /\ draft' = AddKeys(draft, prefixes)
      /\ Before(page') = Before(page) \cup prefixes
      /\ UNCHANGED chain /\ UNCHANGED <<at, gap>>
  BY ReadsPage
<1> HIDE DEF prefixes
<1>2. ChangesNothing /\ listed' = listed
  BY <1>1, MonitorStepShrinksNothing DEF BaseInv, chain
<1> SUFFICES ASSUME ~gap PROVE (draft = AddKeys(EmptyState, Before(page)))'
  BY <1>1 DEF FollowInv, Subscribed
<1>3. draft = AddKeys(EmptyState, Before(page))
  BY <1>1 DEF FollowInv
<1>4. AddKeys(AddKeys(EmptyState, Before(page)), prefixes)
         = AddKeys(EmptyState, Before(page) \cup prefixes)
  BY ReadTwice, EmptyStateType DEF BaseInv
<1>5. PICK P : P = Before(page')
  OBVIOUS
<1>6. draft' = AddKeys(EmptyState, P)
  BY <1>1, <1>3, <1>4, <1>5
<1>7. AddKeys(EmptyState, P)' = AddKeys(EmptyState, P)
  BY <1>2, ReadingUnmoved
<1>8. Before(page)' = P
  BY <1>5 DEF Before
<1>9. AddKeys(EmptyState, Before(page))' = AddKeys(EmptyState, P)'
  BY <1>8 DEF AddKeys, ShitcoinKeys, KeysUnder, DegenKeys
<1> QED
  BY <1>6, <1>7, <1>9

\* A snapshot that is complete agrees with the contract.
LEMMA InstallFollows ==
    ASSUME BaseInv, FollowInv, InstallSnapshot
    PROVE  FollowInv'
<1>1. Len(KeyPrefixes) = 9
  BY DEF KeyPrefixes
<1>2. /\ at = "snapshot" /\ page = 10 /\ at' = "subscribe" /\ cache' = draft
      /\ UNCHANGED chain /\ gap' = gap
  BY <1>1 DEF InstallSnapshot, BaseInv, MonitorInv, WebTypeOK
<1>3. UNCHANGED <<phase, deadline, raised, contributed, claimed, url>>
  BY <1>2 DEF chain, ledger
<1> SUFFICES ASSUME ~gap PROVE CacheAgrees'
  BY <1>2 DEF FollowInv, Subscribed
<1>4. draft = AddKeys(EmptyState, Before(10))
  BY <1>2 DEF FollowInv
<1>5. ASSUME NEW c \in Coins
      PROVE  /\ cache'.shitcoins[c] = OnChainMeta(c)
             /\ \A g \in Degens : Or(cache'.degens[c][g], DefaultDegen)
                   = [submission |-> contributed[c][g], claimed |-> g \in claimed[c]]
  <2>1. /\ draft.shitcoins[c] = OnChainMeta(c)
        /\ \A g \in Degens : Or(draft.degens[c][g], DefaultDegen)
              = [submission |-> contributed[c][g], claimed |-> g \in claimed[c]]
    BY <1>4, AllRead DEF BaseInv
  <2> QED
    BY <1>2, <2>1
<1>6. \A c \in Coins : OnChainMeta(c)' = OnChainMeta(c)
  BY <1>3 DEF OnChainMeta, Planted
<1> QED
  BY <1>3, <1>5, <1>6 DEF CacheAgrees

\* What agrees needs no event.
LEMMA SubscribeFollows ==
    ASSUME BaseInv, FollowInv, Subscribe
    PROVE  FollowInv'
<1>1. /\ at = "subscribe" /\ at' = "listen" /\ UNCHANGED chain
      /\ UNCHANGED <<connected, cache, gap>>
  BY DEF Subscribe
<1>2. UNCHANGED <<phase, deadline, raised, contributed, claimed, url>>
  BY <1>1 DEF chain, ledger
<1> SUFFICES ASSUME ~gap PROVE Covered' /\ AnswersCovered'
  BY <1>1 DEF FollowInv, Subscribed
<1>3. CacheAgrees
  BY <1>1 DEF FollowInv
<1>4. ASSUME NEW c \in Coins
      PROVE  CoinCovered(c)'
  <2>1. cache'.shitcoins[c] = OnChainMeta(c)
    BY <1>1, <1>3 DEF CacheAgrees
  <2>2. CASE Planted(c)
    <3>1. cache'.shitcoins[c] = [creator |-> TRUE, url |-> url[c], end |-> deadline[c],
                                 raise |-> raised[c], launched |-> Launched(c)]
      BY <2>1, <2>2 DEF OnChainMeta, Launched
    <3>2. cache'.shitcoins[c] # Absent
      <4>1. /\ url[c] \in Nat /\ deadline[c] \in Nat /\ raised[c] \in Nat
            /\ Launched(c) \in BOOLEAN
        BY DEF BaseInv, ChainInv, Launched
      <4>2. cache'.shitcoins[c] \in MetaType
        BY <3>1, <4>1 DEF MetaType
      <4> QED
        BY <4>2, AbsentAssumption
    <3>3. /\ cache'.shitcoins[c].creator = TRUE /\ cache'.shitcoins[c].url = url[c]
          /\ cache'.shitcoins[c].end = deadline[c] /\ cache'.shitcoins[c].raise = raised[c]
          /\ cache'.shitcoins[c].launched = Launched(c)
      BY <3>1
    <3> QED
      BY <1>2, <3>2, <3>3 DEF CoinCovered, Launched
  <2>3. CASE ~Planted(c)
    <3>1. cache'.shitcoins[c] = Absent /\ ~Planted(c)'
      BY <1>2, <2>1, <2>3 DEF OnChainMeta, Planted
    <3> QED
      BY <3>1 DEF CoinCovered
  <2> QED
    BY <2>2, <2>3
<1>5. ASSUME NEW c \in Coins, NEW g \in Degens
      PROVE  DegenCovered(c, g)'
  <2>1. Or(cache'.degens[c][g], DefaultDegen)
          = [submission |-> contributed[c][g], claimed |-> g \in claimed[c]]
    BY <1>1, <1>3 DEF CacheAgrees
  <2> DEFINE degen == Or(cache.degens[c][g], DefaultDegen)'
  <2>2. degen = Or(cache'.degens[c][g], DefaultDegen)
    BY DEF Or, DefaultDegen
  <2> HIDE DEF degen
  <2>3. degen = [submission |-> contributed[c][g], claimed |-> g \in claimed[c]]
    BY <2>1, <2>2
  <2>4. degen.submission = contributed[c][g] /\ degen.claimed = (g \in claimed[c])
    BY <2>3
  <2>5. degen.submission = contributed'[c][g] /\ (degen.claimed <=> g \in claimed'[c])
    BY <1>2, <2>4
  <2> USE DEF degen
  <2> QED
    BY <2>5 DEF DegenCovered
<1> QED
  BY <1>1, <1>4, <1>5 DEF Covered, AnswersCovered

\* An event goes from the stream into the monitor's hands.
LEMMA ReceiveFollows ==
    ASSUME BaseInv, FollowInv, Receive
    PROVE  FollowInv'
<1>1. /\ at = "listen" /\ at' = "query" /\ answers' = << >>
      /\ cache'.shitcoins = cache.shitcoins /\ cache'.degens = cache.degens
      /\ UNCHANGED chain /\ UNCHANGED <<connected, gap>>
  BY Receives DEF BaseInv
<1> SUFFICES ASSUME connected, ~gap PROVE Covered' /\ AnswersCovered'
  BY <1>1 DEF FollowInv, Subscribed
<1>2. Covered
  BY <1>1 DEF FollowInv, Subscribed
<1>3. ChangesAnnounced
  BY <1>1, MonitorStepShrinksNothing, NothingToAnnounce DEF BaseInv
<1>4. StillTold
  BY ReceiveForgetsNothing
<1>5. Covered'
  BY <1>1, <1>2, <1>3, <1>4, CoverageStays
<1>6. DOMAIN answers' = {}
  BY <1>1
<1> QED
  BY <1>5, <1>6 DEF AnswersCovered

\* The node answers a query.
LEMMA AnswerFollows ==
    ASSUME BaseInv, FollowInv, QueryAnswers
    PROVE  FollowInv'
<1>1. /\ at = "query" /\ at' = "query" /\ event' = event /\ cache' = cache /\ stream' = stream
      /\ UNCHANGED chain /\ UNCHANGED <<connected, gap>>
  BY Answers DEF BaseInv
<1> SUFFICES ASSUME connected, ~gap PROVE Covered' /\ AnswersCovered'
  BY <1>1 DEF FollowInv, Subscribed
<1>2. Covered /\ AnswersCovered
  BY <1>1 DEF FollowInv, Subscribed
<1>3. ChangesAnnounced
  BY <1>1, MonitorStepShrinksNothing, NothingToAnnounce DEF BaseInv
<1>4. Coming' = Coming
  BY <1>1 DEF chain, Coming
<1>5. StillTold
  BY <1>1, <1>4, MoreIsTold
<1>6. Covered'
  BY <1>1, <1>2, <1>3, <1>5, CoverageStays
<1>7. AnswersCovered'
  BY <1>2, AnswerIsCovered
<1> QED
  BY <1>6, <1>7

\* The answers are stored.
LEMMA ApplyFollows ==
    ASSUME BaseInv, FollowInv, Apply
    PROVE  FollowInv'
<1>1. at = "query" /\ at' = "timestamp" /\ UNCHANGED <<connected, gap>>
  BY DEF Apply
<1> SUFFICES ASSUME connected, ~gap PROVE Covered' /\ AnswersCovered'
  BY <1>1 DEF FollowInv, Subscribed
<1>2. Covered /\ AnswersCovered
  BY <1>1 DEF FollowInv, Subscribed
<1>3. \A c \in Coins : CoinCovered(c)'
  BY <1>2, ApplyCoversCoins
<1>4. \A c \in Coins, g \in Degens : DegenCovered(c, g)'
  BY <1>2, ApplyCoversDegens
<1> QED
  BY <1>1, <1>3, <1>4 DEF Covered, AnswersCovered

\* The stored event is broadcast.
LEMMA BroadcastFollows ==
    ASSUME BaseInv, FollowInv, Broadcast
    PROVE  FollowInv'
<1>1. /\ at = "timestamp" /\ at' = "listen" /\ cache' = cache /\ stream' = stream
      /\ UNCHANGED chain /\ UNCHANGED <<connected, gap>>
  BY DEF Broadcast
<1> SUFFICES ASSUME connected, ~gap PROVE Covered' /\ AnswersCovered'
  BY <1>1 DEF FollowInv, Subscribed
<1>2. Covered
  BY <1>1 DEF FollowInv, Subscribed
<1>3. ChangesAnnounced
  BY <1>1, MonitorStepShrinksNothing, NothingToAnnounce DEF BaseInv
<1>4. Coming' = Coming
  BY <1>1 DEF chain, Coming
<1>5. StillTold
  BY <1>1, <1>4 DEF StillTold, Told, ToldOf, InHand, Announced, AnnouncedOf
<1>6. Covered'
  BY <1>1, <1>2, <1>3, <1>5, CoverageStays
<1> QED
  BY <1>1, <1>6 DEF AnswersCovered

\* What the chain does without a message.
LEMMA ChainFollows ==
    ASSUME BaseInv, FollowInv, TimePasses \/ Publish \/ UNCHANGED vars
    PROVE  FollowInv'
<1>1. UNCHANGED <<listed, connected, at, page, draft, event, answers, cache, gap>>
  BY DEF TimePasses, Publish, vars, chain, snapshot, handling
<1>2. ChangesNothing
  <2>1. CASE TimePasses
    BY <2>1, Closes DEF BaseInv
  <2>2. CASE Publish
    BY <2>2, NothingShrinks DEF BaseInv, Publish
  <2>3. CASE UNCHANGED vars
    BY <2>3, NothingShrinks DEF BaseInv, vars, chain
  <2> QED
    BY <2>1, <2>2, <2>3
<1>3. (Subscribed /\ connected) => Coming' = Coming
  <2>1. CASE TimePasses
    BY <2>1 DEF TimePasses, Coming
  <2>2. CASE Publish
    BY <2>2, Publishes DEF BaseInv
  <2>3. CASE UNCHANGED vars
    BY <2>3 DEF vars, chain, Coming
  <2> QED
    BY <2>1, <2>2, <2>3
<1> QED
  BY <1>1, <1>2, <1>3, UnmovedFollows

\* Without the connection nothing is promised but the snapshot.
LEMMA ClosingFollows ==
    ASSUME BaseInv, FollowInv, ConnectionCloses
    PROVE  FollowInv'
<1>1. /\ connected' = FALSE /\ UNCHANGED chain
      /\ UNCHANGED <<at, page, draft, cache, gap>>
  BY DEF ConnectionCloses, snapshot
<1>2. ChangesNothing /\ listed' = listed
  BY <1>1, MonitorStepShrinksNothing DEF BaseInv, chain
<1>3. /\ at' = "snapshot" /\ ~gap' => (draft = AddKeys(EmptyState, Before(page)))'
      /\ at' = "subscribe" /\ ~gap' => CacheAgrees'
  BY <1>1, <1>2, AgreementUnmoved
<1> QED
  BY <1>1, <1>3 DEF FollowInv

\* Every step follows the contract.
LEMMA FollowKept ==
    ASSUME BaseInv, FollowInv, [WebNext]_vars
    PROVE  FollowInv'
<1>1. CASE Unsubscribed \/ StartOver \/ SnapshotFails \/ (Panic /\ Restart)
  <2>1. StartSnapshot
    BY <1>1 DEF Unsubscribed, StartOver, SnapshotFails, Restart
  <2> QED
    BY <2>1, StartingFollows
<1>2. CASE Panic /\ ~Restart
  <2>1. at' = "dead"
    BY <1>2 DEF Panic
  <2> QED
    BY <2>1 DEF FollowInv, Subscribed
<1> QED
  BY <1>1, <1>2, CommitFollows, ChainFollows, ReadPageFollows, InstallFollows, SubscribeFollows,
     ReceiveFollows, AnswerFollows, ApplyFollows, BroadcastFollows, ClosingFollows
     DEF WebNext, Monitor

\* At the start nothing has been read.
LEMMA FollowAtStart == WebInit => FollowInv
<1> SUFFICES ASSUME WebInit PROVE FollowInv
  OBVIOUS
<1>1. at = "snapshot" /\ page = 1 /\ draft = EmptyState
  BY DEF WebInit
<1>2. Before(page) = {}
  BY <1>1 DEF Before
<1>3. AddKeys(EmptyState, Before(page)) = EmptyState
  BY <1>2, NothingRead
<1> QED
  BY <1>1, <1>3 DEF FollowInv, Subscribed

\* When no event is left every field is the contract's.
LEMMA NothingLeftToTell ==
    ASSUME BaseInv, AheadInv, FollowInv
    PROVE  DrainedAgrees
<1> SUFFICES ASSUME Drained, ~gap
             PROVE  CacheAgrees
  BY DEF DrainedAgrees
<1>1. /\ at = "listen" /\ connected /\ stream = << >> /\ unpublished = << >>
  BY DEF Drained
<1>2. Coming = {}
  BY <1>1, ElementsOfNone DEF Coming
<1>3. /\ \A kinds, c : ~Told(kinds, c)
      /\ \A kind, c, g : ~ToldOf(kind, c, g)
  BY <1>1, <1>2 DEF Told, ToldOf, InHand, Announced, AnnouncedOf
<1>4. Covered
  BY <1>1 DEF FollowInv, Subscribed
<1>5. ASSUME NEW c \in Coins
      PROVE  cache.shitcoins[c] = OnChainMeta(c)
  <2> DEFINE meta == cache.shitcoins[c]
  <2>1. CoinCovered(c) /\ meta \in {Absent} \cup MetaType
    BY <1>4 DEF Covered, BaseInv, MonitorInv, WebTypeOK, StateType
  <2>2. CASE meta = Absent
    <3>1. ~Planted(c)
      BY <1>3, <2>1, <2>2 DEF CoinCovered
    <3> QED
      BY <2>2, <3>1 DEF OnChainMeta
  <2>3. CASE meta # Absent
    <3>1. /\ meta.creator /\ meta.end = deadline[c] /\ meta.raise = raised[c]
          /\ meta.url = url[c] /\ (meta.launched <=> Launched(c))
      BY <1>3, <2>1, <2>3 DEF CoinCovered
    <3>2. meta \in MetaType
      BY <2>1, <2>3
    <3>3. Planted(c)
      BY <2>3 DEF AheadInv, NotAhead, MetaNotAhead
    <3> HIDE DEF meta
    <3>4. meta = [creator |-> TRUE, url |-> url[c], end |-> deadline[c],
                  raise |-> raised[c], launched |-> phase[c] = "launched"]
      BY <3>1, <3>2 DEF MetaType, Launched
    <3>5. meta = OnChainMeta(c)
      BY <3>3, <3>4 DEF OnChainMeta
    <3> QED
      BY <3>5 DEF meta
  <2> QED
    BY <2>2, <2>3
<1>6. ASSUME NEW c \in Coins, NEW g \in Degens
      PROVE  Or(cache.degens[c][g], DefaultDegen)
                = [submission |-> contributed[c][g], claimed |-> g \in claimed[c]]
  <2> DEFINE degen == Or(cache.degens[c][g], DefaultDegen)
  <2>1. DegenCovered(c, g)
    BY <1>4 DEF Covered
  <2>2. degen.submission = contributed[c][g] /\ (degen.claimed <=> g \in claimed[c])
    BY <1>3, <2>1 DEF DegenCovered
  <2>3. degen \in DegenType
    BY DEF BaseInv, MonitorInv, WebTypeOK, StateType, Or, DefaultDegen, DegenType
  <2> HIDE DEF degen
  <2>4. degen = [submission |-> contributed[c][g], claimed |-> g \in claimed[c]]
    BY <2>2, <2>3 DEF DegenType
  <2> QED
    BY <2>4 DEF degen
<1> QED
  BY <1>5, <1>6 DEF CacheAgrees

\* When no message was committed between the first page of the snapshot and the
\* subscription, and since then none that its transaction's event says nothing of,
\* the connected monitor that has worked off its events has every coin and degen as
\* the contract has them.
THEOREM DrainedSiteAgrees == WebSpec => []DrainedAgrees
<1> DEFINE Inv == BaseInv /\ AheadInv /\ FollowInv
<1>1. WebInit => Inv
  BY BaseAtStart, AheadAtStart, FollowAtStart
<1>2. Inv /\ [WebNext]_vars => Inv'
  BY BaseKept, AheadKept, FollowKept
<1>3. Inv => DrainedAgrees
  BY NothingLeftToTell
<1> HIDE DEF Inv
<1> QED
  BY <1>1, <1>2, <1>3, PTL DEF WebSpec
-----------------------------------------------------------------------------
(***************************************************************************)
(* The order of creation.                                                  *)
(***************************************************************************)

\* The contract's index list has every created coin once.
ListedInv ==
    /\ Elements(listed) = {c \in Coins : Planted(c)}
    /\ \A i, j \in DOMAIN listed : listed[i] = listed[j] => i = j

ListedBefore(c, d) ==
    \E i, j \in DOMAIN listed : i < j /\ listed[i] = c /\ listed[j] = d

\* What comes before the event of a creation is about coins created earlier, and
\* what comes before a contribution is no launch of that coin and no claim.
Precedes(e, f) ==
    /\ f.kind = "ShitcoinCreated" => e.coin # f.coin /\ ListedBefore(e.coin, f.coin)
    /\ (f.kind = "PresaleEntered" /\ e.coin = f.coin) =>
          e.kind \notin {"ShitcoinLaunched", "ShitcoinClaimed"}

\* The events come in the order of the messages they tell of.
InOrder(s) == \A i, j \in DOMAIN s : i < j => Precedes(s[i], s[j])

OrderInv ==
    /\ ListedInv
    /\ InOrder(stream) /\ InOrder(unpublished)
    /\ \A e \in Elements(stream), f \in Elements(unpublished) : Precedes(e, f)
    /\ event # Absent => \A f \in Coming : Precedes(event, f)

OnlyPlanted(indexes) == \A c \in Elements(indexes) : Planted(c)

\* Each place a coin has in the list is after one of every coin created before.
Follows(indexes) ==
    \A i, j \in DOMAIN listed : i < j =>
        \A q \in DOMAIN indexes : indexes[q] = listed[j] =>
            \E p \in DOMAIN indexes : p < q /\ indexes[p] = listed[i]

\* The server's list has no coin the contract lacks; without a gap it begins as
\* the contract's, and every coin it lacks is announced, in order.
ListInv ==
    /\ OnlyPlanted(cache.indexes) /\ OnlyPlanted(draft.indexes)
    /\ at = "subscribe" /\ ~gap => cache.indexes = listed
    /\ Subscribed /\ connected /\ ~gap =>
          /\ \A c \in Coins : Planted(c) =>
                c \in Elements(cache.indexes) \/ Announced({"ShitcoinCreated"}, c)
          /\ Follows(cache.indexes)


\* A pair in order stays in order as the contract lists more coins.
LEMMA PrecedesStays ==
    ASSUME listed \in Seq(Coins),
           listed' = listed \/ \E c \in Coins : listed' = Append(listed, c),
           NEW e, NEW f, Precedes(e, f)
    PROVE  Precedes(e, f)'
<1> SUFFICES ASSUME f.kind = "ShitcoinCreated"
             PROVE  e.coin # f.coin /\ ListedBefore(e.coin, f.coin)'
  BY DEF Precedes
<1>1. PICK i \in DOMAIN listed, j \in DOMAIN listed :
         i < j /\ listed[i] = e.coin /\ listed[j] = f.coin
  BY DEF Precedes, ListedBefore
<1>2. /\ i \in DOMAIN listed' /\ j \in DOMAIN listed'
      /\ listed'[i] = listed[i] /\ listed'[j] = listed[j]
  <2>1. CASE listed' = listed
    BY <2>1
  <2>2. ASSUME NEW c \in Coins, listed' = Append(listed, c)
        PROVE  /\ i \in DOMAIN listed' /\ j \in DOMAIN listed'
               /\ listed'[i] = listed[i] /\ listed'[j] = listed[j]
    BY <2>2
  <2> QED
    BY <2>1, <2>2
<1> QED
  BY <1>1, <1>2 DEF Precedes, ListedBefore

\* A list in order with one more event that all of it precedes.
LEMMA InOrderAppend ==
    ASSUME NEW S, NEW s \in Seq(S), NEW e \in S, InOrder(s),
           \A x \in Elements(s) : Precedes(x, e)
    PROVE  InOrder(Append(s, e))
<1>1. /\ DOMAIN Append(s, e) = 1 .. Len(s) + 1 /\ DOMAIN s = 1 .. Len(s) /\ Len(s) \in Nat
      /\ Append(s, e)[Len(s) + 1] = e
      /\ \A i \in 1 .. Len(s) : Append(s, e)[i] = s[i]
  OBVIOUS
<1> DEFINE t == Append(s, e)
           n == Len(s)
<1> HIDE DEF t, n
<1> SUFFICES ASSUME NEW i \in DOMAIN t, NEW j \in DOMAIN t, i < j
             PROVE  Precedes(t[i], t[j])
  BY DEF InOrder, t
<1>2. i \in 1 .. n /\ t[i] = s[i] /\ i \in DOMAIN s
  BY <1>1 DEF t, n
<1>3. CASE j = n + 1
  <2>1. t[j] = e /\ s[i] \in Elements(s)
    BY <1>1, <1>2, <1>3 DEF t, n, Elements
  <2> QED
    BY <1>2, <2>1
<1>4. CASE j # n + 1
  <2>1. j \in DOMAIN s /\ t[j] = s[j]
    BY <1>1, <1>4 DEF t, n
  <2> QED
    BY <1>2, <2>1 DEF InOrder
<1> QED
  BY <1>3, <1>4

\* A list in order without its first event, which precedes all of it.
LEMMA InOrderTail ==
    ASSUME NEW S, NEW s \in Seq(S), s # << >>, InOrder(s)
    PROVE  InOrder(Tail(s)) /\ \A x \in Elements(Tail(s)) : Precedes(Head(s), x)
<1>1. /\ Head(s) = s[1] /\ Len(s) \in Nat /\ Len(s) >= 1
      /\ DOMAIN s = 1 .. Len(s) /\ DOMAIN Tail(s) = 1 .. Len(s) - 1
      /\ \A i \in 1 .. Len(s) - 1 : Tail(s)[i] = s[i + 1]
  OBVIOUS
<1> DEFINE t == Tail(s)
<1> HIDE DEF t
<1>2. \A i \in DOMAIN t : t[i] = s[i + 1] /\ i + 1 \in DOMAIN s /\ 1 < i + 1 /\ i \in Nat
  BY <1>1 DEF t
<1>3. InOrder(t)
  <2> SUFFICES ASSUME NEW i \in DOMAIN t, NEW j \in DOMAIN t, i < j
               PROVE  Precedes(t[i], t[j])
    BY DEF InOrder
  <2>1. i + 1 < j + 1
    BY <1>2
  <2> QED
    BY <1>2, <2>1 DEF InOrder
<1>4. ASSUME NEW i \in DOMAIN t PROVE Precedes(Head(s), t[i])
  BY <1>1, <1>2 DEF InOrder
<1> QED
  BY <1>3, <1>4 DEF t, Elements

\* The list and the events after a message, whether its event is appended or none
\* tells of it.
LEMMA CommitInOrder ==
    ASSUME BaseInv, OrderInv, Commit
    PROVE  OrderInv'
<1>1. PICK e : MessageDoes(e) /\ CoinListed(e) /\ (Emit(e) \/ Unannounced)
  BY CommitDoes DEF BaseInv
<1>2. /\ e \in EventType /\ e.coin \in Coins
      /\ unpublished' = Append(unpublished, e) \/ unpublished' = unpublished
      /\ Happened(e)' /\ ChangesOnly(e) /\ Grows
      /\ UNCHANGED <<stream, event>>
      /\ listed \in Seq(Coins) /\ unpublished \in Seq(EventType)
  BY <1>1 DEF MessageDoes, Emit, Unannounced, Commit, handling, BaseInv, ChainInv, MonitorInv,
     EventType
<1>3. listed' = listed \/ \E c \in Coins : listed' = Append(listed, c)
  BY <1>1, <1>2 DEF CoinListed
<1>4. \A x, y : Precedes(x, y) => Precedes(x, y)'
  BY <1>2, <1>3, PrecedesStays
<1>5. \A c \in Coins : Planted(c)' <=> Planted(c) \/ (c = e.coin /\ e.kind = "ShitcoinCreated")
  BY <1>2 DEF ChangesOnly, Grows, Happened
<1>6. ListedInv'
  <2>1. CASE e.kind # "ShitcoinCreated"
    <3>1. listed' = listed /\ \A c \in Coins : Planted(c)' <=> Planted(c)
      BY <1>1, <1>5, <2>1 DEF CoinListed
    <3> QED
      BY <3>1 DEF ListedInv, OrderInv
  <2>2. CASE e.kind = "ShitcoinCreated"
    <3> DEFINE n == Len(listed)
    <3>1. listed' = Append(listed, e.coin) /\ ~Planted(e.coin)
      BY <1>1, <2>2 DEF CoinListed
    <3>2. /\ DOMAIN listed' = 1 .. n + 1 /\ DOMAIN listed = 1 .. n /\ n \in Nat
          /\ listed'[n + 1] = e.coin /\ \A i \in 1 .. n : listed'[i] = listed[i]
      BY <1>2, <3>1
    <3>3. Elements(listed') = Elements(listed) \cup {e.coin}
      BY <1>2, <3>1, ElementsOfAppend
    <3>4. Elements(listed) = {c \in Coins : Planted(c)}
      BY DEF OrderInv, ListedInv
    <3>5. \A c \in Coins : Planted(c)' <=> Planted(c) \/ c = e.coin
      BY <1>5, <2>2
    <3>6. (Elements(listed) = {c \in Coins : Planted(c)})'
      BY <1>2, <3>3, <3>4, <3>5
    <3>7. \A i \in 1 .. n : listed[i] # e.coin
      BY <3>1, <3>2, <3>4 DEF Elements
    <3> HIDE DEF n
    <3>8. ASSUME NEW i \in DOMAIN listed', NEW j \in DOMAIN listed', listed'[i] = listed'[j]
          PROVE  i = j
      <4>1. CASE i \in 1 .. n /\ j \in 1 .. n
        BY <3>2, <3>8, <4>1 DEF OrderInv, ListedInv
      <4>2. CASE ~(i \in 1 .. n /\ j \in 1 .. n)
        BY <3>2, <3>7, <3>8, <4>2
      <4> QED
        BY <4>1, <4>2
    <3> QED
      BY <3>6, <3>8 DEF ListedInv
  <2> QED
    BY <2>1, <2>2
<1>7. ASSUME NEW x, Happened(x) PROVE Precedes(x, e)'
  <2>1. CASE e.kind # "ShitcoinCreated"
    BY <1>1, <1>7, <2>1 DEF Precedes, MessageDoes, Happened
  <2>2. CASE e.kind = "ShitcoinCreated"
    <3>1. listed' = Append(listed, e.coin) /\ ~Planted(e.coin)
      BY <1>1, <2>2 DEF CoinListed
    <3>2. Planted(x.coin) /\ x.coin \in Coins
      BY <1>7 DEF Happened, EventType
    <3>3. x.coin \in Elements(listed)
      BY <3>2 DEF OrderInv, ListedInv
    <3>4. PICK i \in DOMAIN listed : listed[i] = x.coin
      BY <3>3 DEF Elements
    <3>5. /\ i \in DOMAIN listed' /\ Len(listed) + 1 \in DOMAIN listed' /\ i < Len(listed) + 1
          /\ listed'[i] = x.coin /\ listed'[Len(listed) + 1] = e.coin
      BY <1>2, <3>1, <3>4
    <3>6. ListedBefore(x.coin, e.coin)'
      BY <3>5 DEF ListedBefore
    <3> QED
      BY <2>2, <3>1, <3>2, <3>6 DEF Precedes
  <2> QED
    BY <2>1, <2>2
<1>8. /\ Elements(unpublished') \subseteq Elements(unpublished) \cup {e}
      /\ Coming' \subseteq Coming \cup {e}
  <2>1. CASE unpublished' = Append(unpublished, e)
    BY <1>2, <2>1, ElementsOfAppend DEF Coming
  <2>2. CASE unpublished' = unpublished
    BY <1>2, <2>2 DEF Coming
  <2> QED
    BY <1>2, <2>1, <2>2
<1>9. \A x \in Coming : Happened(x)
  BY DEF BaseInv, MonitorInv
<1>10. InOrder(unpublished)'
  <2>1. CASE unpublished' = Append(unpublished, e)
    <3> DEFINE n == Len(unpublished)
    <3>1. /\ DOMAIN unpublished' = 1 .. n + 1 /\ DOMAIN unpublished = 1 .. n /\ n \in Nat
          /\ unpublished'[n + 1] = e /\ \A i \in 1 .. n : unpublished'[i] = unpublished[i]
      BY <1>2, <2>1
    <3> HIDE DEF n
    <3> SUFFICES ASSUME NEW i \in DOMAIN unpublished', NEW j \in DOMAIN unpublished', i < j
                 PROVE  Precedes(unpublished[i], unpublished[j])'
      BY DEF InOrder
    <3>2. i \in 1 .. n /\ unpublished[i] \in Elements(unpublished)
      BY <3>1 DEF Elements
    <3>3. CASE j = n + 1
      <4>1. Happened(unpublished[i])
        BY <1>9, <3>2 DEF Coming
      <4>2. unpublished'[i] = unpublished[i] /\ unpublished'[j] = e
        BY <3>1, <3>2, <3>3
      <4>3. Precedes(unpublished[i], e)'
        BY <1>7, <4>1, <4>2 DEF Precedes
      <4> QED
        BY <4>2, <4>3 DEF Precedes
    <3>4. CASE j # n + 1
      <4>1. j \in 1 .. n
        BY <3>1, <3>4
      <4>2. Precedes(unpublished[i], unpublished[j])
        BY <3>1, <3>2, <4>1 DEF OrderInv, InOrder
      <4>3. unpublished'[i] = unpublished[i] /\ unpublished'[j] = unpublished[j]
        BY <3>1, <3>2, <4>1
      <4> QED
        BY <1>4, <4>2, <4>3 DEF Precedes
    <3> QED
      BY <3>3, <3>4
  <2>2. CASE unpublished' = unpublished
    <3> SUFFICES ASSUME NEW i \in DOMAIN unpublished, NEW j \in DOMAIN unpublished, i < j
                 PROVE  Precedes(unpublished[i], unpublished[j])'
      BY <2>2 DEF InOrder
    <3>1. Precedes(unpublished[i], unpublished[j])
      BY DEF OrderInv, InOrder
    <3> QED
      BY <1>4, <2>2, <3>1 DEF Precedes
  <2> QED
    BY <1>2, <2>1, <2>2
<1>11. InOrder(stream)'
  <2> SUFFICES ASSUME NEW i \in DOMAIN stream, NEW j \in DOMAIN stream, i < j
               PROVE  Precedes(stream[i], stream[j])'
    BY <1>2 DEF InOrder
  <2>1. Precedes(stream[i], stream[j])
    BY DEF OrderInv, InOrder
  <2> QED
    BY <1>2, <1>4, <2>1 DEF Precedes
<1>12. (\A x \in Elements(stream), y \in Elements(unpublished) : Precedes(x, y))'
  <2>1. Elements(stream)' = Elements(stream)
    BY <1>2 DEF Elements
  <2> SUFFICES ASSUME NEW x \in Elements(stream), NEW y \in Elements(unpublished)'
               PROVE  Precedes(x, y)'
    BY <2>1
  <2>2. CASE y = e
    <3>1. Happened(x)
      BY <1>9 DEF Coming
    <3> QED
      BY <1>7, <2>2, <3>1
  <2>3. CASE y # e
    <3>1. y \in Elements(unpublished)
      BY <1>8, <2>3 DEF Elements
    <3>2. Precedes(x, y)
      BY <3>1 DEF OrderInv
    <3> QED
      BY <1>4, <3>2
  <2> QED
    BY <2>2, <2>3
<1>13. (event # Absent => \A y \in Coming : Precedes(event, y))'
  <2> SUFFICES ASSUME event # Absent, NEW y \in Coming'
               PROVE  Precedes(event, y)'
    BY <1>2
  <2>1. CASE y = e
    <3>1. Happened(event) /\ event' = event
      BY <1>2 DEF BaseInv, MonitorInv
    <3> QED
      BY <1>7, <2>1, <3>1 DEF Precedes
  <2>2. CASE y # e
    <3>1. y \in Coming /\ event' = event
      BY <1>2, <1>8, <2>2
    <3>2. Precedes(event, y)
      BY <3>1 DEF OrderInv
    <3> QED
      BY <1>4, <3>1, <3>2 DEF Precedes
  <2> QED
    BY <2>1, <2>2
<1> QED
  BY <1>6, <1>10, <1>11, <1>12, <1>13 DEF OrderInv

\* A step that lists nothing keeps the list and every pair in order.
LEMMA ListUnmoved ==
    ASSUME OrderInv, ChangesNothing, listed' = listed
    PROVE  ListedInv' /\ \A e, f : Precedes(e, f)' <=> Precedes(e, f)
<1>1. Elements(listed)' = Elements(listed)
  BY DEF Elements
<1>2. {c \in Coins : Planted(c)}' = {c \in Coins : Planted(c)}
  BY DEF ChangesNothing
<1> QED
  BY <1>1, <1>2 DEF OrderInv, ListedInv, Precedes, ListedBefore

\* Steps that at most forget events.
LEMMA ForgettingInOrder ==
    ASSUME OrderInv, ChangesNothing, UNCHANGED <<listed, unpublished>>,
           stream' = stream \/ stream' = << >>, event' = event \/ event' = Absent
    PROVE  OrderInv'
<1>1. ListedInv' /\ \A e, f : Precedes(e, f)' <=> Precedes(e, f)
  BY ListUnmoved
<1>2. Elements(stream)' \subseteq Elements(stream)
  BY ElementsOfNone DEF Elements
<1>3. Elements(unpublished)' = Elements(unpublished)
  BY DEF Elements
<1>4. InOrder(unpublished)'
  <2> SUFFICES ASSUME NEW i \in DOMAIN unpublished, NEW j \in DOMAIN unpublished, i < j
               PROVE  Precedes(unpublished[i], unpublished[j])'
    BY DEF InOrder
  <2>1. Precedes(unpublished[i], unpublished[j])
    BY DEF OrderInv, InOrder
  <2> QED
    BY <2>1 DEF Precedes, ListedBefore
<1>5. InOrder(stream)'
  <2> SUFFICES ASSUME NEW i \in DOMAIN stream', NEW j \in DOMAIN stream', i < j
               PROVE  Precedes(stream[i], stream[j])'
    BY DEF InOrder
  <2>1. stream' = stream
    OBVIOUS
  <2>2. Precedes(stream[i], stream[j])
    BY <2>1 DEF OrderInv, InOrder
  <2> QED
    BY <2>1, <2>2 DEF Precedes, ListedBefore
<1>6. (\A e \in Elements(stream), f \in Elements(unpublished) : Precedes(e, f))'
  BY <1>1, <1>2, <1>3 DEF OrderInv
<1>7. ASSUME event' # Absent, NEW f \in Coming' PROVE Precedes(event, f)'
  <2>1. event' = event /\ f \in Coming
    BY <1>2, <1>3, <1>7 DEF Coming
  <2>2. Precedes(event, f)
    BY <1>7, <2>1 DEF OrderInv
  <2> QED
    BY <2>1, <2>2 DEF Precedes, ListedBefore
<1> QED
  BY <1>1, <1>4, <1>5, <1>6, <1>7 DEF OrderInv

\* Publishing takes the first event and puts it behind those of the stream.
LEMMA PublishInOrder ==
    ASSUME BaseInv, OrderInv, Publish
    PROVE  OrderInv'
<1> DEFINE first == Head(unpublished)
           rest == Tail(unpublished)
<1>1. /\ unpublished # << >> /\ unpublished' = rest
      /\ stream' = IF Subscribed /\ connected THEN Append(stream, first) ELSE stream
      /\ UNCHANGED <<ledger, url, listed, event>>
      /\ unpublished \in Seq(EventType) /\ stream \in Seq(EventType)
  BY DEF Publish, BaseInv, MonitorInv, handling
<1>2. ChangesNothing
  BY <1>1, NothingShrinks DEF BaseInv
<1>3. ListedInv' /\ \A e, f : Precedes(e, f)' <=> Precedes(e, f)
  BY <1>1, <1>2, ListUnmoved
<1>4. /\ first \in EventType /\ rest \in Seq(EventType)
      /\ Elements(unpublished) = {first} \cup Elements(rest)
  BY <1>1, ElementsOfTail
<1>5. InOrder(rest) /\ \A x \in Elements(rest) : Precedes(first, x)
  BY <1>1, InOrderTail DEF OrderInv
<1>6. /\ InOrder(stream) /\ InOrder(stream')
      /\ \A x \in Elements(stream'), y \in Elements(rest) : Precedes(x, y)
  <2>1. CASE Subscribed /\ connected
    <3>1. \A x \in Elements(stream) : Precedes(x, first)
      BY <1>4 DEF OrderInv
    <3>2. InOrder(stream') /\ Elements(stream') = Elements(stream) \cup {first}
      BY <1>1, <1>4, <2>1, <3>1, InOrderAppend, ElementsOfAppend DEF OrderInv
    <3> QED
      BY <1>4, <1>5, <3>2 DEF OrderInv
  <2>2. CASE ~(Subscribed /\ connected)
    BY <1>1, <1>4, <2>2 DEF OrderInv
  <2> QED
    BY <2>1, <2>2
<1>7. Coming' \subseteq Coming
  BY Publishes DEF BaseInv
<1> HIDE DEF rest, first
<1>8. InOrder(unpublished)' /\ InOrder(stream)'
  BY <1>1, <1>3, <1>5, <1>6 DEF InOrder, Precedes, ListedBefore
<1>9. (\A x \in Elements(stream), y \in Elements(unpublished) : Precedes(x, y))'
  BY <1>1, <1>3, <1>6 DEF Elements
<1>10. (event # Absent => \A y \in Coming : Precedes(event, y))'
  BY <1>1, <1>3, <1>7 DEF OrderInv, Precedes, ListedBefore
<1> QED
  BY <1>3, <1>8, <1>9, <1>10 DEF OrderInv

\* The event the monitor takes precedes the others.
LEMMA ReceiveInOrder ==
    ASSUME BaseInv, OrderInv, Receive
    PROVE  OrderInv'
<1> DEFINE rest == Tail(stream)
<1>1. /\ stream # << >> /\ stream' = rest /\ event' = Head(stream)
      /\ UNCHANGED <<ledger, url, listed, unpublished>>
      /\ unpublished \in Seq(EventType) /\ stream \in Seq(EventType)
  BY DEF Receive, BaseInv, MonitorInv, chain
<1>2. ChangesNothing
  BY <1>1, NothingShrinks DEF BaseInv
<1>3. ListedInv' /\ \A e, f : Precedes(e, f)' <=> Precedes(e, f)
  BY <1>1, <1>2, ListUnmoved
<1>4. /\ Head(stream) \in EventType /\ rest \in Seq(EventType)
      /\ Elements(stream) = {Head(stream)} \cup Elements(rest)
  BY <1>1, ElementsOfTail
<1>5. InOrder(rest) /\ \A x \in Elements(rest) : Precedes(Head(stream), x)
  BY <1>1, InOrderTail DEF OrderInv
<1> HIDE DEF rest
<1>6. InOrder(unpublished)' /\ InOrder(stream)'
  BY <1>1, <1>3, <1>5 DEF OrderInv, InOrder, Precedes, ListedBefore
<1>7. (\A x \in Elements(stream), y \in Elements(unpublished) : Precedes(x, y))'
  <2>1. Elements(stream)' = Elements(rest) /\ Elements(unpublished)' = Elements(unpublished)
    BY <1>1 DEF Elements
  <2>2. \A x \in Elements(rest), y \in Elements(unpublished) : Precedes(x, y)
    BY <1>4 DEF OrderInv
  <2> QED
    BY <1>3, <2>1, <2>2
<1>8. ASSUME NEW y \in Coming' PROVE Precedes(event, y)'
  <2>1. y \in Elements(rest) \/ y \in Elements(unpublished)
    BY <1>1, <1>8 DEF Coming, Elements
  <2>2. Precedes(Head(stream), y)
    BY <1>4, <1>5, <2>1 DEF OrderInv
  <2>3. Precedes(event', y)
    BY <1>1, <2>2
  <2> QED
    BY <1>1, <2>3 DEF Precedes, ListedBefore
<1> QED
  BY <1>3, <1>6, <1>7, <1>8 DEF OrderInv

\* Every step keeps the order; so does a page that ends the process.
LEMMA OrderKept ==
    ASSUME BaseInv, OrderInv, [WebNext \/ Aborts]_vars
    PROVE  OrderInv'
<1>1. CASE ~(Commit \/ TimePasses \/ Publish \/ Receive)
  <2>0. UNCHANGED chain
    BY <1>1 DEF WebNext, Monitor, ReadPage, InstallSnapshot,
                Subscribe, Unsubscribed, QueryAnswers, Apply, Broadcast, Panic, StartOver,
                ConnectionCloses, SnapshotFails, Aborts, vars
  <2>1. ChangesNothing /\ UNCHANGED <<listed, unpublished>>
    BY <2>0, MonitorStepShrinksNothing DEF BaseInv, chain
  <2>2. stream' = stream \/ stream' = << >>
    BY <1>1 DEF WebNext, Monitor, ReadPage, InstallSnapshot,
                Subscribe, Unsubscribed, QueryAnswers, Apply, Broadcast, Panic, StartOver,
                ConnectionCloses, SnapshotFails, Restart, StartSnapshot, Aborts, vars
  <2>3. event' = event \/ event' = Absent
    BY <1>1 DEF WebNext, Monitor, ReadPage, InstallSnapshot,
                Subscribe, Unsubscribed, QueryAnswers, Apply, Broadcast, Panic, StartOver,
                ConnectionCloses, SnapshotFails, Restart, StartSnapshot, Aborts, vars,
                handling
  <2> QED
    BY <2>1, <2>2, <2>3, ForgettingInOrder
<1>2. CASE TimePasses
  <2>1. ChangesNothing
    BY <1>2, Closes DEF BaseInv
  <2>2. UNCHANGED <<listed, unpublished, stream, event>>
    BY <1>2 DEF TimePasses, handling
  <2> QED
    BY <2>1, <2>2, ForgettingInOrder
<1> QED
  BY <1>1, <1>2, CommitInOrder, PublishInOrder, ReceiveInOrder

\* A list of planted coins keeps being one.
LEMMA PlantedStays ==
    ASSUME Grows, NEW s \in Seq(Coins), OnlyPlanted(s)
    PROVE  \A c \in Elements(s) : Planted(c)'
<1>1. \A c \in Elements(s) : c \in Coins
  BY DEF Elements
<1> QED
  BY <1>1 DEF OnlyPlanted, Grows

\* Steps that leave the contract's list and the server's, and forget no event
\* the monitor still follows.
LEMMA IndexesUnmoved ==
    ASSUME BaseInv, ListInv, ChangesNothing, listed' = listed,
           cache'.indexes = cache.indexes, draft'.indexes = draft.indexes,
           (at = "subscribe" /\ ~gap)' => at = "subscribe" /\ ~gap,
           (Subscribed /\ connected /\ ~gap)' =>
               Subscribed /\ connected /\ ~gap /\ Coming \subseteq Coming'
    PROVE  ListInv'
<1>1. cache.indexes \in Seq(Coins) /\ draft.indexes \in Seq(Coins)
  BY DEF BaseInv, MonitorInv, WebTypeOK, StateType
<1>2. \A c \in Coins : Planted(c)' <=> Planted(c)
  BY DEF ChangesNothing
<1>3. (OnlyPlanted(cache.indexes) /\ OnlyPlanted(draft.indexes))'
  BY <1>1, <1>2 DEF ListInv, OnlyPlanted, Elements
<1>4. (at = "subscribe" /\ ~gap)' => (cache.indexes = listed)'
  BY DEF ListInv
<1>5. ASSUME (Subscribed /\ connected /\ ~gap)'
      PROVE  /\ (\A c \in Coins : Planted(c) =>
                   c \in Elements(cache.indexes) \/ Announced({"ShitcoinCreated"}, c))'
             /\ Follows(cache.indexes)'
  <2>1. /\ \A c \in Coins : Planted(c) =>
              c \in Elements(cache.indexes) \/ Announced({"ShitcoinCreated"}, c)
        /\ Follows(cache.indexes) /\ StillAnnounced
    BY <1>5, MoreIsAnnounced DEF ListInv
  <2>2. Elements(cache.indexes)' = Elements(cache.indexes)
    BY DEF Elements
  <2>3. Follows(cache.indexes)'
    BY <2>1 DEF Follows
  <2> QED
    BY <1>2, <2>1, <2>2, <2>3 DEF StillAnnounced
<1> QED
  BY <1>3, <1>4, <1>5 DEF ListInv

\* A snapshot that starts anew has nothing, and neither has a new process.
LEMMA StartingLists ==
    ASSUME BaseInv, ListInv, UNCHANGED chain, StartSnapshot,
           cache' = cache \/ cache' = EmptyState
    PROVE  ListInv'
<1>1. at' = "snapshot" /\ draft' = EmptyState
  BY DEF StartSnapshot
<1>2. EmptyState.indexes = << >>
  BY DEF EmptyState
<1>3. \A s : OnlyPlanted(s) => OnlyPlanted(s)'
  BY DEF OnlyPlanted, Planted, chain, ledger
<1>4. OnlyPlanted(<< >>)'
  BY ElementsOfNone DEF OnlyPlanted
<1>5. OnlyPlanted(draft.indexes)'
  BY <1>1, <1>2, <1>4 DEF OnlyPlanted, Elements
<1>6. OnlyPlanted(cache.indexes)'
  BY <1>2, <1>4 DEF ListInv, OnlyPlanted, Elements, Planted, chain, ledger
<1> QED
  BY <1>1, <1>5, <1>6 DEF ListInv, Subscribed

\* The pages have the contract's list or what was read before.
LEMMA ReadPageLists ==
    ASSUME BaseInv, OrderInv, ListInv, ReadPage
    PROVE  ListInv'
<1>1. /\ at = "snapshot" /\ UNCHANGED <<at, cache>> /\ UNCHANGED chain
      /\ draft' = AddKeys(draft, {KeyPrefixes[i] : i \in page .. PageEnd})
  BY ReadsPage
<1>2. draft'.indexes = listed \/ draft'.indexes = draft.indexes
  BY <1>1 DEF AddKeys
<1>3. OnlyPlanted(listed)
  BY DEF OrderInv, ListedInv, OnlyPlanted
<1>4. OnlyPlanted(draft.indexes)'
  BY <1>1, <1>2, <1>3 DEF ListInv, OnlyPlanted, Elements, Planted, chain, ledger
<1>5. OnlyPlanted(cache.indexes)'
  BY <1>1 DEF ListInv, OnlyPlanted, Elements, Planted, chain, ledger
<1> QED
  BY <1>1, <1>4, <1>5 DEF ListInv, Subscribed

\* A snapshot without a gap has the contract's list.
LEMMA InstallLists ==
    ASSUME BaseInv, FollowInv, ListInv, InstallSnapshot
    PROVE  ListInv'
<1>1. Len(KeyPrefixes) = 9
  BY DEF KeyPrefixes
<1>2. /\ at = "snapshot" /\ page = 10 /\ at' = "subscribe" /\ cache' = draft
      /\ draft' = EmptyState /\ UNCHANGED chain /\ gap' = gap
  BY <1>1 DEF InstallSnapshot, BaseInv, MonitorInv, WebTypeOK
<1>3. ASSUME ~gap PROVE draft.indexes = listed
  <2>1. draft = AddKeys(EmptyState, Before(10)) /\ 10 \in 1 .. 10
    BY <1>2, <1>3 DEF FollowInv
  <2>2. "SHITCOIN_DENOM" \in Before(10)
    BY BeforePage
  <2> QED
    BY <2>1, <2>2 DEF AddKeys
<1>4. EmptyState.indexes = << >>
  BY DEF EmptyState
<1>5. OnlyPlanted(draft.indexes)'
  BY <1>2, <1>4, ElementsOfNone DEF OnlyPlanted
<1>6. OnlyPlanted(cache.indexes)'
  BY <1>2 DEF ListInv, OnlyPlanted, Elements, Planted, chain, ledger
<1> QED
  BY <1>2, <1>3, <1>5, <1>6 DEF ListInv, Subscribed, chain

\* The contract's list is in order.
LEMMA SubscribeLists ==
    ASSUME BaseInv, OrderInv, ListInv, Subscribe
    PROVE  ListInv'
<1>1. /\ at = "subscribe" /\ at' = "listen" /\ UNCHANGED chain
      /\ UNCHANGED <<connected, draft, cache, gap>>
  BY DEF Subscribe, snapshot
<1>2. (OnlyPlanted(cache.indexes) /\ OnlyPlanted(draft.indexes))'
  BY <1>1 DEF ListInv, OnlyPlanted, Elements, Planted, chain, ledger
<1>3. ASSUME ~gap
      PROVE  /\ (\A c \in Coins : Planted(c) => c \in Elements(cache.indexes))'
             /\ Follows(cache.indexes)'
  <2>1. cache'.indexes = listed /\ listed' = listed
    BY <1>1, <1>3 DEF ListInv, chain
  <2>2. \A c \in Coins : Planted(c)' => c \in Elements(listed)
    BY <1>1 DEF OrderInv, ListedInv, Planted, chain, ledger
  <2>3. Elements(cache.indexes)' = Elements(listed)
    BY <2>1 DEF Elements
  <2>4. \A i, j \in DOMAIN listed : listed[i] = listed[j] => i = j
    BY DEF OrderInv, ListedInv
  <2>5. Follows(listed)
    BY <2>4 DEF Follows
  <2>6. Follows(cache.indexes)'
    BY <2>1, <2>5 DEF Follows
  <2> QED
    BY <2>2, <2>3, <2>6
<1> QED
  BY <1>1, <1>2, <1>3 DEF ListInv

\* A coin that was announced as created still is, or the monitor now has it in
\* hand and in its list.
LEMMA ReceiveLists ==
    ASSUME BaseInv, OrderInv, ListInv, Receive
    PROVE  ListInv'
<1> DEFINE e == event'
           old == cache.indexes
           new == cache'.indexes
<1>1. /\ at = "listen" /\ at' = "query" /\ e \in EventType /\ Happened(e)
      /\ Coming = Coming' \cup {e} /\ cache \in StateType
      /\ new = IF e.kind = "ShitcoinCreated" THEN Append(old, e.coin) ELSE old
      /\ UNCHANGED chain /\ UNCHANGED <<connected, draft, gap>>
  BY Receives DEF BaseInv, MonitorInv, WebTypeOK
<1>2. old \in Seq(Coins) /\ e.coin \in Coins /\ Planted(e.coin)
  BY <1>1 DEF StateType, EventType, Happened
<1>3. \A c \in Coins : Planted(c)' <=> Planted(c)
  BY <1>1 DEF Planted, chain, ledger
<1>4. listed' = listed
  BY <1>1 DEF chain
<1>5. ASSUME NEW f \in Coming' PROVE Precedes(event, f)'
  <2>1. OrderInv' /\ event' # Absent
    BY <1>1, ReceiveInOrder, AbsentAssumption
  <2> QED
    BY <2>1 DEF OrderInv
<1>6. \A f \in Coming' : Precedes(event', f)
  BY <1>4, <1>5 DEF Precedes, ListedBefore
<1>7. /\ DOMAIN old = 1 .. Len(old) /\ Len(old) \in Nat
      /\ e.kind = "ShitcoinCreated" =>
            /\ DOMAIN new = 1 .. Len(old) + 1 /\ new[Len(old) + 1] = e.coin
            /\ \A q \in 1 .. Len(old) : new[q] = old[q]
            /\ Elements(new) = Elements(old) \cup {e.coin}
  BY <1>1, <1>2, ElementsOfAppend
<1>8. \A c \in Elements(new) : Planted(c)'
  <2>1. \A c \in Elements(old) : c \in Coins /\ Planted(c)
    BY <1>2 DEF ListInv, OnlyPlanted, Elements
  <2>2. Elements(new) \subseteq Elements(old) \cup {e.coin}
    BY <1>1, <1>7
  <2> QED
    BY <1>2, <1>3, <2>1, <2>2
<1>9. OnlyPlanted(cache.indexes)'
  BY <1>8 DEF OnlyPlanted, Elements
<1>10. OnlyPlanted(draft.indexes)'
  BY <1>1 DEF ListInv, OnlyPlanted, Elements, Planted, chain, ledger
<1> HIDE DEF e, old, new
<1>11. ASSUME connected, ~gap
       PROVE  /\ \A c \in Coins : Planted(c) =>
                    c \in Elements(new) \/ Announced({"ShitcoinCreated"}, c)'
              /\ Follows(new)
  <2>1. /\ \A c \in Coins : Planted(c) =>
              c \in Elements(old) \/ Announced({"ShitcoinCreated"}, c)
        /\ Follows(old)
    BY <1>1, <1>11 DEF ListInv, Subscribed, old
  <2>2. ASSUME NEW c \in Coins, Planted(c), c \notin Elements(old)
        PROVE  \E f \in Coming : f.kind = "ShitcoinCreated" /\ f.coin = c
    BY <2>1, <2>2 DEF Announced
  <2>3. CASE e.kind # "ShitcoinCreated"
    <3>1. new = old
      BY <1>1, <2>3
    <3>2. ASSUME NEW c \in Coins, Planted(c), c \notin Elements(old)
          PROVE  Announced({"ShitcoinCreated"}, c)'
      BY <1>1, <2>2, <2>3, <3>2 DEF Announced
    <3> QED
      BY <2>1, <3>1, <3>2
  <2>4. CASE e.kind = "ShitcoinCreated"
    <3>1. ASSUME NEW c \in Coins, Planted(c), c \notin Elements(new)
          PROVE  Announced({"ShitcoinCreated"}, c)'
      <4>1. c \notin Elements(old) /\ c # e.coin
        BY <1>7, <2>4, <3>1
      <4>2. PICK f \in Coming : f.kind = "ShitcoinCreated" /\ f.coin = c
        BY <2>2, <3>1, <4>1
      <4>3. f \in Coming'
        BY <1>1, <4>1, <4>2
      <4> QED
        BY <4>2, <4>3 DEF Announced
    <3>2. ASSUME NEW i \in DOMAIN listed, NEW j \in DOMAIN listed, i < j,
                 listed[j] = e.coin
          PROVE  listed[i] \in Elements(old)
      <4> DEFINE c == listed[i]
      <4>1. /\ \A x, y \in DOMAIN listed : listed[x] = listed[y] => x = y
            /\ c \in Coins /\ Planted(c) /\ i \in Nat /\ j \in Nat
        <5>1. listed \in Seq(Coins)
          BY DEF BaseInv, ChainInv
        <5>2. c \in Elements(listed) /\ i \in Nat /\ j \in Nat
          BY <5>1 DEF Elements
        <5> QED
          BY <5>1, <5>2 DEF OrderInv, ListedInv
      <4> HIDE DEF c
      <4> SUFFICES ASSUME c \notin Elements(old) PROVE FALSE
        BY DEF c
      <4>2. PICK f \in Coming : f.kind = "ShitcoinCreated" /\ f.coin = c
        BY <2>2, <4>1
      <4>3. c # e.coin
        BY <3>2, <4>1 DEF c
      <4>4. f \in Coming'
        BY <1>1, <4>2, <4>3
      <4>5. ListedBefore(e.coin, c)
        BY <1>6, <4>2, <4>4 DEF Precedes, e
      <4>6. PICK x \in DOMAIN listed, y \in DOMAIN listed :
               x < y /\ listed[x] = e.coin /\ listed[y] = c
        BY <4>5 DEF ListedBefore
      <4>7. x = j /\ y = i
        BY <3>2, <4>1, <4>6 DEF c
      <4> QED
        BY <3>2, <4>1, <4>6, <4>7
    <3>3. Follows(new)
      <4> SUFFICES ASSUME NEW i \in DOMAIN listed, NEW j \in DOMAIN listed, i < j,
                          NEW q \in DOMAIN new, new[q] = listed[j]
                   PROVE  \E p \in DOMAIN new : p < q /\ new[p] = listed[i]
        BY DEF Follows
      <4>1. CASE q = Len(old) + 1
        <5>1. listed[i] \in Elements(old)
          BY <1>7, <2>4, <3>2, <4>1
        <5>2. PICK p \in DOMAIN old : old[p] = listed[i]
          BY <5>1 DEF Elements
        <5> QED
          BY <1>7, <2>4, <4>1, <5>2
      <4>2. CASE q # Len(old) + 1
        <5>1. q \in DOMAIN old /\ old[q] = listed[j]
          BY <1>7, <2>4, <4>2
        <5>2. PICK p \in DOMAIN old : p < q /\ old[p] = listed[i]
          BY <2>1, <5>1 DEF Follows
        <5> QED
          BY <1>7, <2>4, <5>2
      <4> QED
        BY <4>1, <4>2
    <3> QED
      BY <3>1, <3>3
  <2> QED
    BY <2>3, <2>4
<1>12. ASSUME connected, ~gap
       PROVE  /\ (\A c \in Coins : Planted(c) =>
                     c \in Elements(cache.indexes) \/ Announced({"ShitcoinCreated"}, c))'
              /\ Follows(cache.indexes)'
  <2>1. Elements(cache.indexes)' = Elements(new)
    BY DEF Elements, new
  <2>2. Follows(cache.indexes)' <=> Follows(new)
    BY <1>4 DEF Follows, new
  <2> QED
    BY <1>3, <1>11, <1>12, <2>1, <2>2
<1> QED
  BY <1>1, <1>9, <1>10, <1>12 DEF ListInv

\* A new coin comes last, and without a gap its event is on its way.
LEMMA CommitListed ==
    ASSUME BaseInv, OrderInv, ListInv, Commit
    PROVE  ListInv'
<1>1. PICK e : MessageDoes(e) /\ CoinListed(e) /\ (Emit(e) \/ Unannounced)
  BY CommitDoes DEF BaseInv
<1>2. /\ e \in EventType /\ e.coin \in Coins
      /\ ChangesOnly(e) /\ Grows /\ Happened(e)'
      /\ UNCHANGED <<stream, at, connected, cache, draft>>
      /\ gap => gap'
      /\ ~gap' => at # "subscribe"
      /\ (Subscribed /\ ~gap') => unpublished' = Append(unpublished, e)
      /\ listed \in Seq(Coins)
  BY <1>1, CommitFallsInGap
     DEF MessageDoes, TransactionDoes, Commit, snapshot, BaseInv, ChainInv, EventType
<1>3. (Subscribed /\ ~gap') => Coming \subseteq Coming' /\ e \in Coming'
  <2> SUFFICES ASSUME unpublished' = Append(unpublished, e)
               PROVE  Coming \subseteq Coming' /\ e \in Coming'
    BY <1>2
  <2>1. Elements(unpublished') = Elements(unpublished) \cup {e}
    BY <1>2, ElementsOfAppend DEF BaseInv, MonitorInv
  <2> QED
    BY <1>2, <2>1 DEF Coming
<1>4. cache.indexes \in Seq(Coins) /\ draft.indexes \in Seq(Coins)
  BY DEF BaseInv, MonitorInv, WebTypeOK, StateType
<1>5. (OnlyPlanted(cache.indexes) /\ OnlyPlanted(draft.indexes))'
  BY <1>2, <1>4, PlantedStays DEF ListInv, OnlyPlanted, Elements
<1>6. \A c \in Coins : Planted(c)' => Planted(c) \/ (c = e.coin /\ e.kind = "ShitcoinCreated")
  BY <1>2 DEF ChangesOnly
<1>7. ASSUME Subscribed, connected, ~gap'
      PROVE  /\ (\A c \in Coins : Planted(c) =>
                    c \in Elements(cache.indexes) \/ Announced({"ShitcoinCreated"}, c))'
             /\ Follows(cache.indexes)'
  <2>1. /\ \A c \in Coins : Planted(c) =>
              c \in Elements(cache.indexes) \/ Announced({"ShitcoinCreated"}, c)
        /\ Follows(cache.indexes)
    BY <1>2, <1>7 DEF ListInv
  <2>2. Elements(cache.indexes)' = Elements(cache.indexes)
    BY <1>2 DEF Elements
  <2>3. ASSUME NEW c \in Coins, Planted(c)'
        PROVE  c \in Elements(cache.indexes) \/ Announced({"ShitcoinCreated"}, c)'
    BY <1>3, <1>6, <1>7, <2>1, <2>3 DEF Announced
  <2>4. Follows(cache.indexes)'
    <3>1. CASE listed' = listed
      BY <1>2, <2>1, <3>1 DEF Follows
    <3>2. CASE listed' = Append(listed, e.coin) /\ ~Planted(e.coin)
      <4>1. /\ DOMAIN listed' = 1 .. Len(listed) + 1 /\ DOMAIN listed = 1 .. Len(listed)
            /\ Len(listed) \in Nat /\ listed'[Len(listed) + 1] = e.coin
            /\ \A i \in 1 .. Len(listed) : listed'[i] = listed[i]
        BY <1>2, <3>2
      <4>2. e.coin \notin Elements(cache.indexes)
        BY <3>2 DEF ListInv, OnlyPlanted
      <4> SUFFICES ASSUME NEW i \in DOMAIN listed', NEW j \in DOMAIN listed', i < j,
                          NEW q \in DOMAIN cache.indexes, cache.indexes[q] = listed'[j]
                   PROVE  \E p \in DOMAIN cache.indexes :
                              p < q /\ cache.indexes[p] = listed'[i]
        BY <1>2 DEF Follows
      <4>3. j # Len(listed) + 1
        BY <4>1, <4>2 DEF Elements
      <4>4. /\ i \in DOMAIN listed /\ j \in DOMAIN listed
            /\ listed'[i] = listed[i] /\ listed'[j] = listed[j]
        BY <4>1, <4>3
      <4> QED
        BY <2>1, <4>4 DEF Follows
    <3> QED
      BY <1>1, <3>1, <3>2 DEF CoinListed
  <2> QED
    BY <2>2, <2>3, <2>4
<1> QED
  BY <1>2, <1>5, <1>7 DEF ListInv, Subscribed

\* Every step keeps the list; so does a page that ends the process.
LEMMA ListKept ==
    ASSUME BaseInv, OrderInv, FollowInv, ListInv, [WebNext \/ Aborts]_vars
    PROVE  ListInv'
<1>1. CASE Unsubscribed \/ StartOver \/ SnapshotFails \/ (Panic /\ Restart) \/ Aborts
  <2>1. StartSnapshot /\ UNCHANGED chain /\ (cache' = cache \/ cache' = EmptyState)
    BY <1>1 DEF Unsubscribed, StartOver, SnapshotFails, Panic, Restart, Aborts
  <2> QED
    BY <2>1, StartingLists
<1>2. CASE \/ QueryAnswers \/ Apply \/ Broadcast \/ ConnectionCloses \/ (Panic /\ ~Restart)
           \/ UNCHANGED vars
  <2>1. UNCHANGED chain /\ UNCHANGED <<draft, gap>>
    BY <1>2, AppliesToEntries DEF BaseInv, QueryAnswers, Broadcast, ConnectionCloses, Panic,
       snapshot, vars
  <2>2. ChangesNothing /\ listed' = listed
    BY <2>1, MonitorStepShrinksNothing DEF BaseInv, chain
  <2>3. cache'.indexes = cache.indexes
    <3>1. CASE Apply
      BY <3>1, Applies DEF BaseInv
    <3>2. CASE ~Apply
      BY <1>2, <3>2 DEF QueryAnswers, Broadcast, ConnectionCloses, Panic, vars
    <3> QED
      BY <3>1, <3>2
  <2>4. (at = "subscribe")' => at = "subscribe"
    BY <1>2 DEF QueryAnswers, Apply, Broadcast, ConnectionCloses, Panic, vars
  <2>5. (Subscribed /\ connected)' => /\ Subscribed /\ connected
                                      /\ UNCHANGED <<stream, unpublished>>
    BY <1>2, <2>1 DEF QueryAnswers, Apply, Broadcast, ConnectionCloses, Panic, vars, Subscribed,
       chain
  <2>6. (Subscribed /\ connected)' => Coming' = Coming
    BY <2>5 DEF Coming
  <2> QED
    BY <2>1, <2>2, <2>3, <2>4, <2>5, <2>6, IndexesUnmoved
<1>3. CASE TimePasses \/ Publish
  <2>1. UNCHANGED <<at, connected, gap, cache, draft, listed>>
    BY <1>3 DEF TimePasses, Publish, snapshot
  <2>2. ChangesNothing
    BY <1>3, Closes, NothingShrinks DEF BaseInv, Publish
  <2>3. (Subscribed /\ connected) => Coming' = Coming
    <3>1. CASE TimePasses
      BY <3>1 DEF TimePasses, Coming
    <3>2. CASE Publish
      BY <3>2, Publishes DEF BaseInv
    <3> QED
      BY <1>3, <3>1, <3>2
  <2> QED
    BY <2>1, <2>2, <2>3, IndexesUnmoved DEF Subscribed
<1> QED
  BY <1>1, <1>2, <1>3, CommitListed, ReadPageLists, InstallLists, SubscribeLists, ReceiveLists
     DEF WebNext, Monitor

\* At the start both lists are empty.
LEMMA ListAtStart == WebInit => OrderInv /\ ListInv
<1> SUFFICES ASSUME WebInit PROVE OrderInv /\ ListInv
  OBVIOUS
<1>1. /\ listed = << >> /\ stream = << >> /\ unpublished = << >> /\ event = Absent
      /\ cache = EmptyState /\ draft = EmptyState /\ at = "snapshot"
      /\ \A c \in Coins : ~Planted(c)
  BY DEF WebInit, Init, Planted
<1>2. EmptyState.indexes = << >>
  BY DEF EmptyState
<1>3. ListedInv
  BY <1>1, ElementsOfNone DEF ListedInv
<1>4. OrderInv
  BY <1>1, <1>3, ElementsOfNone DEF OrderInv, InOrder
<1>5. ListInv
  BY <1>1, <1>2, ElementsOfNone DEF ListInv, OnlyPlanted, Subscribed
<1> QED
  BY <1>4, <1>5

\* The first place an element has in a sequence.
LEMMA FirstPlace ==
    ASSUME NEW S, NEW s \in Seq(S), NEW c \in Elements(s)
    PROVE  /\ FirstIndex(s, c) \in DOMAIN s /\ s[FirstIndex(s, c)] = c
           /\ \A q \in DOMAIN s : s[q] = c => FirstIndex(s, c) <= q
<1> DEFINE P == {i \in DOMAIN s : s[i] = c}
<1>1. P # {} /\ P \subseteq Nat /\ DOMAIN s = 1 .. Len(s) /\ Len(s) \in Nat
  BY DEF Elements
<1>2. IsWellFoundedOn(OpToRel(<, Nat), Nat)
  BY NatLessThanWellFounded
<1>3. PICK least \in P : \A i \in P : ~(<<i, least>> \in OpToRel(<, Nat))
  BY <1>1, <1>2, WFMin
<1>4. ASSUME NEW i \in P PROVE least <= i
  <2> HIDE DEF P
  <2>1. i \in Nat /\ least \in Nat
    BY <1>1
  <2>2. ~(<<i, least>> \in OpToRel(<, Nat))
    BY <1>3
  <2>3. ~(i < least)
    BY <2>1, <2>2 DEF OpToRel
  <2> QED
    BY <2>1, <2>3
<1>5. s[least] = c /\ least \in DOMAIN s /\ \A j \in 1 .. least - 1 : s[j] # c
  <2>1. least \in 1 .. Len(s) /\ Len(s) \in Nat /\ s[least] = c
    BY <1>1
  <2>2. \A j \in 1 .. Len(s) : s[j] = c => least <= j
    BY <1>1, <1>4
  <2> HIDE DEF P
  <2> QED
    BY <1>1, <2>1, <2>2
<1> DEFINE first == FirstIndex(s, c)
<1>6. first \in DOMAIN s /\ s[first] = c /\ \A j \in 1 .. first - 1 : s[j] # c
  BY <1>5 DEF FirstIndex
<1> HIDE DEF first, P
<1>7. ASSUME NEW q \in DOMAIN s, s[q] = c PROVE first <= q
  BY <1>1, <1>6, <1>7
<1> QED
  BY <1>6, <1>7 DEF first

\* With nothing left to handle the list is complete and in order.
LEMMA NothingLeftToList ==
    ASSUME BaseInv, OrderInv, ListInv
    PROVE  ListsCoinsInOrder
<1> SUFFICES ASSUME Drained, ~gap
             PROVE  /\ Elements(cache.indexes) = {c \in Coins : Planted(c)}
                    /\ \A i, j \in DOMAIN listed : i < j =>
                          FirstIndex(cache.indexes, listed[i])
                              < FirstIndex(cache.indexes, listed[j])
  BY DEF ListsCoinsInOrder, Elements
<1>1. /\ at = "listen" /\ connected /\ stream = << >> /\ unpublished = << >>
  BY DEF Drained
<1>2. Coming = {}
  BY <1>1, ElementsOfNone DEF Coming
<1>3. cache.indexes \in Seq(Coins) /\ listed \in Seq(Coins)
  BY DEF BaseInv, ChainInv, MonitorInv, WebTypeOK, StateType
<1>4. /\ OnlyPlanted(cache.indexes)
      /\ \A c \in Coins : Planted(c) => c \in Elements(cache.indexes)
      /\ Follows(cache.indexes)
  BY <1>1, <1>2 DEF ListInv, Subscribed, Announced
<1>5. Elements(cache.indexes) = {c \in Coins : Planted(c)}
  BY <1>3, <1>4 DEF OnlyPlanted, Elements
<1>6. ASSUME NEW i \in DOMAIN listed, NEW j \in DOMAIN listed, i < j
      PROVE  FirstIndex(cache.indexes, listed[i]) < FirstIndex(cache.indexes, listed[j])
  <2> DEFINE s == cache.indexes
             p == FirstIndex(s, listed[i])
             q == FirstIndex(s, listed[j])
  <2>1. listed[i] \in Elements(s) /\ listed[j] \in Elements(s)
    BY <1>5 DEF OrderInv, ListedInv, Elements
  <2>2. q \in DOMAIN s /\ s[q] = listed[j]
    BY <1>3, <2>1, FirstPlace
  <2>3. /\ p \in DOMAIN s /\ \A x \in DOMAIN s : s[x] = listed[i] => p <= x
    BY <1>3, <2>1, FirstPlace
  <2>4. DOMAIN s \subseteq Nat
    BY <1>3
  <2> HIDE DEF p, q
  <2>5. PICK x \in DOMAIN s : x < q /\ s[x] = listed[i]
    BY <1>4, <1>6, <2>2 DEF Follows
  <2>6. p < q
    BY <2>2, <2>3, <2>4, <2>5
  <2> QED
    BY <2>6 DEF p, q
<1> QED
  BY <1>5, <1>6

\* When no message was committed between the first page of the snapshot and the
\* subscription, and since then none that its transaction's event says nothing of,
\* the connected monitor that has worked off its events lists every coin of the
\* contract, by first appearance in the order of creation.
THEOREM DrainedSiteListsInOrder == WebSpec => []ListsCoinsInOrder
<1> DEFINE Inv == BaseInv /\ FollowInv /\ OrderInv /\ ListInv
<1>1. WebInit => Inv
  BY BaseAtStart, FollowAtStart, ListAtStart
<1>2. Inv /\ [WebNext]_vars => Inv'
  BY BaseKept, FollowKept, OrderKept, ListKept
<1>3. Inv => ListsCoinsInOrder
  BY NothingLeftToList
<1> HIDE DEF Inv
<1> QED
  BY <1>1, <1>2, <1>3, PTL DEF WebSpec
-----------------------------------------------------------------------------
(***************************************************************************)
(* No event is about an entry that is not there.                           *)
(***************************************************************************)

\* The events the monitor has, but for the one it has stored.
Received == Elements(stream) \cup {e \in {event} : at = "query"}

\* The entries an event is about are there, or an event that makes them is.
Known(e) ==
    /\ \/ cache.shitcoins[e.coin] # Absent
       \/ \E f \in Received : f.kind = "ShitcoinCreated" /\ f.coin = e.coin
    /\ e.kind = "ShitcoinClaimed" =>
          \/ cache.degens[e.coin][e.degen] # Absent
          \/ \E f \in Received : f.kind = "PresaleEntered" /\ f.coin = e.coin /\ f.degen = e.degen

KnownInv == Subscribed /\ ~gap => \A e \in Received : Known(e)

\* Steps that bring no event and store none.
LEMMA KnownUnmoved ==
    ASSUME KnownInv, (Subscribed /\ ~gap)' => Subscribed /\ ~gap, Received' = Received,
           cache'.shitcoins = cache.shitcoins, cache'.degens = cache.degens
    PROVE  KnownInv'
<1> SUFFICES ASSUME (Subscribed /\ ~gap)', NEW e \in Received
             PROVE  Known(e)'
  BY DEF KnownInv
<1>1. Known(e)
  BY DEF KnownInv
<1> QED
  BY <1>1 DEF Known

\* An event is published: the entry it is about is missing only when an event
\* that makes it is coming, which can not be after this one.
LEMMA PublishKnows ==
    ASSUME BaseInv, FollowInv, OrderInv, KnownInv, Publish
    PROVE  KnownInv'
<1> DEFINE first == Head(unpublished)
<1>1. /\ unpublished # << >> /\ unpublished \in Seq(EventType) /\ stream \in Seq(EventType)
      /\ stream' = IF Subscribed /\ connected THEN Append(stream, first) ELSE stream
      /\ UNCHANGED <<at, event, cache, gap>>
  BY DEF Publish, BaseInv, MonitorInv, handling
<1>2. first \in EventType /\ Elements(unpublished) = {first} \cup Elements(Tail(unpublished))
  BY <1>1, ElementsOfTail
<1>3. \A x \in Elements(Tail(unpublished)) : Precedes(first, x)
  BY <1>1, InOrderTail DEF OrderInv
<1> HIDE DEF first
<1>4. CASE ~(Subscribed /\ connected)
  <2>1. Received' = Received
    BY <1>1, <1>4 DEF Received, Elements
  <2> QED
    BY <1>1, <2>1, KnownUnmoved DEF Subscribed
<1>5. CASE Subscribed /\ connected
  <2>1. Received' = Received \cup {first}
    <3>1. Elements(stream') = Elements(stream) \cup {first}
      BY <1>1, <1>2, <1>5, ElementsOfAppend
    <3> QED
      BY <1>1, <3>1 DEF Received, Elements
  <2> SUFFICES ASSUME ~gap, NEW e \in Received'
               PROVE  Known(e)'
    BY <1>1 DEF KnownInv
  <2>2. CASE e \in Received
    <3>1. Known(e)
      BY <1>5, <2>2 DEF KnownInv
    <3> QED
      BY <1>1, <2>1, <3>1 DEF Known
  <2>3. CASE e = first
    <3>1. /\ first \in Coming /\ Happened(first) /\ first.coin \in Coins /\ Covered
      BY <1>2, <1>5 DEF Coming, BaseInv, MonitorInv, FollowInv, EventType
    <3>2. ASSUME NEW f \in Coming \cup {x \in {event} : at = "query"}, ~Precedes(first, f)
          PROVE  f \in Received'
      BY <1>2, <1>3, <2>1, <3>2 DEF Coming, Received
    <3>3. \/ cache.shitcoins[e.coin] # Absent
          \/ \E f \in Received' : f.kind = "ShitcoinCreated" /\ f.coin = e.coin
      <4> SUFFICES ASSUME cache.shitcoins[e.coin] = Absent
                   PROVE  \E f \in Received' : f.kind = "ShitcoinCreated" /\ f.coin = e.coin
        OBVIOUS
      <4>1. Told({"ShitcoinCreated"}, e.coin)
        BY <2>3, <3>1 DEF Covered, CoinCovered, Happened
      <4>2. PICK f \in Coming \cup {x \in {event} : at = "query"} :
               f.kind = "ShitcoinCreated" /\ f.coin = e.coin
        BY <4>1 DEF Told, Announced, InHand
      <4>3. ~Precedes(first, f)
        BY <2>3, <4>2 DEF Precedes
      <4> QED
        BY <3>2, <4>2, <4>3
    <3>4. ASSUME e.kind = "ShitcoinClaimed"
          PROVE  \/ cache.degens[e.coin][e.degen] # Absent
                 \/ \E f \in Received' : /\ f.kind = "PresaleEntered"
                                         /\ f.coin = e.coin /\ f.degen = e.degen
      <4> SUFFICES ASSUME cache.degens[e.coin][e.degen] = Absent
                   PROVE  \E f \in Received' : /\ f.kind = "PresaleEntered"
                                               /\ f.coin = e.coin /\ f.degen = e.degen
        OBVIOUS
      <4>1. e.degen \in Degens /\ e.degen \in claimed[e.coin] /\ e.coin \in Coins
        BY <2>3, <3>1, <3>4 DEF Happened
      <4>2. contributed[e.coin][e.degen] # 0
        BY <4>1 DEF BaseInv, ChainInv
      <4>3. ToldOf("PresaleEntered", e.coin, e.degen)
        BY <3>1, <4>1, <4>2 DEF Covered, DegenCovered, Or, DefaultDegen
      <4>4. PICK f \in Coming \cup {x \in {event} : at = "query"} :
               f.kind = "PresaleEntered" /\ f.coin = e.coin /\ f.degen = e.degen
        BY <4>3 DEF ToldOf, AnnouncedOf, InHand
      <4>5. ~Precedes(first, f)
        BY <2>3, <3>4, <4>4 DEF Precedes
      <4> QED
        BY <3>2, <4>4, <4>5
    <3> QED
      BY <1>1, <3>3, <3>4 DEF Known
  <2> QED
    BY <2>1, <2>2, <2>3
<1> QED
  BY <1>4, <1>5

\* At the subscription the copy is the contract's.
LEMMA SubscribeKnows ==
    ASSUME BaseInv, FollowInv, KnownInv, Subscribe
    PROVE  KnownInv'
<1>1. /\ at = "subscribe" /\ at' = "listen" /\ UNCHANGED <<stream, cache, gap>>
      /\ stream \in Seq(EventType)
  BY DEF Subscribe, BaseInv, MonitorInv
<1> SUFFICES ASSUME ~gap, NEW e \in Elements(stream)
             PROVE  Known(e)'
  BY <1>1 DEF KnownInv, Received, Elements
<1>2. CacheAgrees
  BY <1>1 DEF FollowInv
<1>3. Happened(e) /\ e.coin \in Coins
  BY DEF BaseInv, MonitorInv, Coming, Happened, EventType
<1>4. cache.shitcoins[e.coin] # Absent
  <2>1. /\ url[e.coin] \in Nat /\ deadline[e.coin] \in Nat /\ raised[e.coin] \in Nat
        /\ (phase[e.coin] = "launched") \in BOOLEAN
    BY <1>3 DEF BaseInv, ChainInv
  <2>2. OnChainMeta(e.coin) \in MetaType
    BY <1>3, <2>1 DEF OnChainMeta, Happened, MetaType
  <2> QED
    BY <1>2, <1>3, <2>2, AbsentAssumption DEF CacheAgrees
<1>5. ASSUME e.kind = "ShitcoinClaimed"
      PROVE  cache.degens[e.coin][e.degen] # Absent
  <2>1. e.degen \in Degens /\ e.degen \in claimed[e.coin]
    BY <1>3, <1>5 DEF Happened
  <2>2. contributed[e.coin][e.degen] # 0
    BY <1>3, <2>1 DEF BaseInv, ChainInv
  <2>3. Or(cache.degens[e.coin][e.degen], DefaultDegen)
           = [submission |-> contributed[e.coin][e.degen], claimed |-> e.degen \in claimed[e.coin]]
    BY <1>2, <1>3, <2>1 DEF CacheAgrees
  <2>4. Or(cache.degens[e.coin][e.degen], DefaultDegen).submission # 0
    BY <2>2, <2>3
  <2>5. DefaultDegen.submission = 0
    BY DEF DefaultDegen
  <2> QED
    BY <2>4, <2>5 DEF Or
<1> QED
  BY <1>1, <1>4, <1>5 DEF Known

\* An event goes from the stream into the monitor's hands.
LEMMA ReceiveKnows ==
    ASSUME BaseInv, KnownInv, Receive
    PROVE  KnownInv'
<1>1. /\ at = "listen" /\ at' = "query" /\ stream # << >> /\ stream \in Seq(EventType)
      /\ stream' = Tail(stream) /\ event' = Head(stream)
      /\ cache'.shitcoins = cache.shitcoins /\ cache'.degens = cache.degens
      /\ UNCHANGED <<connected, gap>>
  BY Receives DEF Receive, BaseInv, MonitorInv
<1>2. Elements(stream) = {Head(stream)} \cup Elements(Tail(stream))
  BY <1>1, ElementsOfTail
<1>3. Received' = Received
  BY <1>1, <1>2 DEF Received, Elements
<1> QED
  BY <1>1, <1>3, KnownUnmoved DEF Subscribed

\* The event that is stored leaves the entries it makes.
LEMMA ApplyKnows ==
    ASSUME BaseInv, KnownInv, Apply
    PROVE  KnownInv'
<1> DEFINE c == event.coin
           g == event.degen
           k == event.kind
<1>1. /\ at = "query" /\ at' = "timestamp" /\ event \in EventType /\ Happened(event)
      /\ UNCHANGED chain /\ UNCHANGED <<stream, event, gap>>
      /\ cache \in StateType /\ cache' \in StateType /\ c \in Coins
      /\ DOMAIN answers = Queries(k)
  BY Applies, AppliesToEntries DEF Apply, BaseInv, MonitorInv, WebTypeOK, handling, EventType
<1>2. /\ cache'.shitcoins[c] \in MetaType
      /\ \A x \in Coins \ {c} : cache'.shitcoins[x] = cache.shitcoins[x]
      /\ \A x \in Coins, h \in Degens :
            (x # c \/ h # g \/ k \notin {"PresaleEntered", "ShitcoinClaimed"}) =>
                cache'.degens[x][h] = cache.degens[x][h]
      /\ k = "PresaleEntered" => cache'.degens[c][g] =
            [submission |-> answers["submission"], claimed |-> Or(Degen, DefaultDegen).claimed]
      /\ k = "ShitcoinClaimed" => Degen # Absent /\ cache'.degens[c][g] =
            [submission |-> Degen.submission, claimed |-> TRUE]
  BY Applies DEF BaseInv
<1>3. \A x \in Coins : cache'.shitcoins[x] # Absent \/ cache'.shitcoins[x] = cache.shitcoins[x]
  BY <1>2, AbsentAssumption
<1>4. k \in {"PresaleEntered", "ShitcoinClaimed"} =>
         g \in Degens /\ cache'.degens[c][g] \in DegenType
  <2>0. /\ k \in {"PresaleEntered", "ShitcoinClaimed"} =>
              g \in Degens /\ Degen \in {Absent} \cup DegenType
        /\ \A f \in DOMAIN answers : answers[f] \in IF f = "launched" THEN BOOLEAN ELSE Nat
    BY AppliesToEntries DEF BaseInv
  <2>1. ASSUME k = "PresaleEntered" PROVE g \in Degens /\ cache'.degens[c][g] \in DegenType
    <3>1. answers["submission"] \in Nat
      BY <1>1, <2>0, <2>1 DEF Queries
    <3>2. Or(Degen, DefaultDegen).claimed \in BOOLEAN
      BY <2>0, <2>1 DEF Or, DefaultDegen, DegenType
    <3> QED
      BY <1>2, <2>0, <2>1, <3>1, <3>2 DEF DegenType
  <2>2. ASSUME k = "ShitcoinClaimed" PROVE g \in Degens /\ cache'.degens[c][g] \in DegenType
    <3> HIDE DEF g, k, c
    <3>1. Degen \in DegenType /\ Degen.submission \in Nat
      BY <1>2, <2>0, <2>2 DEF DegenType
    <3>2. g \in Degens
      BY <2>0, <2>2
    <3>3. cache'.degens[c][g] = [submission |-> Degen.submission, claimed |-> TRUE]
      BY <1>2, <2>2
    <3> QED
      BY <3>1, <3>2, <3>3 DEF DegenType
  <2> QED
    BY <2>1, <2>2
<1>5. \A x \in Coins, h \in Degens :
         cache'.degens[x][h] # Absent \/ cache'.degens[x][h] = cache.degens[x][h]
  BY <1>2, <1>4, AbsentAssumption
<1> SUFFICES ASSUME ~gap, NEW e \in Elements(stream)
             PROVE  Known(e)'
  BY <1>1 DEF KnownInv, Received, Elements
<1>6. Known(e) /\ Received = Elements(stream) \cup {event} /\ Received' = Elements(stream)
  BY <1>1 DEF KnownInv, Received, Subscribed, Elements
<1>7. e.coin \in Coins /\ (e.kind = "ShitcoinClaimed" => e.degen \in Degens)
  BY DEF BaseInv, MonitorInv, Coming, Happened, EventType
<1>8. \/ cache'.shitcoins[e.coin] # Absent
      \/ \E f \in Received' : f.kind = "ShitcoinCreated" /\ f.coin = e.coin
  BY <1>2, <1>3, <1>6, <1>7, AbsentAssumption DEF Known
<1>9. ASSUME e.kind = "ShitcoinClaimed"
      PROVE  \/ cache'.degens[e.coin][e.degen] # Absent
             \/ \E f \in Received' : /\ f.kind = "PresaleEntered"
                                     /\ f.coin = e.coin /\ f.degen = e.degen
  BY <1>4, <1>5, <1>6, <1>7, <1>9, AbsentAssumption DEF Known
<1> QED
  BY <1>1, <1>8, <1>9 DEF Known

\* Every step keeps it; so does a page that ends the process.
LEMMA KnownKept ==
    ASSUME BaseInv, FollowInv, OrderInv, KnownInv, [WebNext \/ Aborts]_vars
    PROVE  KnownInv'
<1>1. CASE at' \in {"snapshot", "subscribe", "dead"}
  BY <1>1 DEF KnownInv, Subscribed
<1>2. CASE Commit \/ TimePasses \/ QueryAnswers \/ ConnectionCloses \/ UNCHANGED vars
  <2>1. UNCHANGED <<stream, at, event, cache>>
    BY <1>2 DEF Commit, TimePasses, QueryAnswers, ConnectionCloses, vars, handling
  <2>2. gap => gap'
    <3>1. CASE Commit
      BY <3>1 DEF Commit, Emit, Unannounced
    <3>2. CASE ~Commit
      BY <1>2, <3>2 DEF TimePasses, QueryAnswers, ConnectionCloses, vars
    <3> QED
      BY <3>1, <3>2
  <2>3. Received' = Received
    BY <2>1 DEF Received, Elements
  <2> QED
    BY <2>1, <2>2, <2>3, KnownUnmoved DEF Subscribed
<1>3. CASE Broadcast
  <2>1. UNCHANGED <<stream, cache, gap>> /\ at = "timestamp" /\ at' = "listen"
    BY <1>3 DEF Broadcast
  <2>2. Received' = Received
    BY <2>1 DEF Received, Elements
  <2> QED
    BY <2>1, <2>2, KnownUnmoved DEF Subscribed
<1>4. CASE \/ ReadPage \/ InstallSnapshot \/ Unsubscribed \/ StartOver \/ SnapshotFails \/ Panic
           \/ Aborts
  <2>1. at' \in {"snapshot", "subscribe", "dead"}
    BY <1>4 DEF ReadPage, InstallSnapshot, Unsubscribed, StartOver, SnapshotFails, Panic, Aborts,
       Restart, StartSnapshot
  <2> QED
    BY <1>1, <2>1
<1> QED
  BY <1>2, <1>3, <1>4, PublishKnows, SubscribeKnows, ReceiveKnows, ApplyKnows DEF WebNext, Monitor

\* What the event in hand needs can not come after it.
LEMMA NothingUnknown ==
    ASSUME BaseInv, OrderInv, KnownInv
    PROVE  KnownWithoutGap
<1> SUFFICES ASSUME ~gap, at = "query"
             PROVE  ~Panics
  BY DEF KnownWithoutGap, EventsAreAboutKnownCoins
<1>1. event \in Received /\ Known(event) /\ event \in EventType /\ Happened(event)
  BY DEF KnownInv, Subscribed, Received, BaseInv, MonitorInv, WebTypeOK
<1>2. ASSUME NEW f \in Received, f # event PROVE Precedes(event, f)
  BY <1>1, <1>2, AbsentAssumption DEF OrderInv, Received, Coming
<1>3. event.kind # "ShitcoinCreated" => Meta # Absent
  BY <1>1, <1>2 DEF Known, Precedes, Meta
<1>4. event.kind = "ShitcoinClaimed" => Degen # Absent
  BY <1>1, <1>2 DEF Known, Precedes, Degen
<1> QED
  BY <1>3, <1>4 DEF Panics

\* The monitor's handlers find every entry they unwrap unless a message was
\* committed between the first page of a snapshot and the subscription, or an event
\* was left out: its transaction's event told of another message.
THEOREM HandlersFindEntries == WebSpec => []KnownWithoutGap
<1> DEFINE Inv == BaseInv /\ FollowInv /\ OrderInv /\ KnownInv
<1>1. WebInit => Inv
  BY BaseAtStart, FollowAtStart, ListAtStart DEF KnownInv, WebInit, Subscribed
<1>2. Inv /\ [WebNext]_vars => Inv'
  BY BaseKept, FollowKept, OrderKept, KnownKept
<1>3. Inv => KnownWithoutGap
  BY NothingUnknown
<1> HIDE DEF Inv
<1> QED
  BY <1>1, <1>2, <1>3, PTL DEF WebSpec
=============================================================================
