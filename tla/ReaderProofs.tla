---------------------------- MODULE ReaderProofs ----------------------------
(***************************************************************************)
(* Theorems about those who read the contract: a page of the query, for    *)
(* every list, page and limit; the row of the site, at every moment of     *)
(* every presale; and the keys of the storage, whatever is in the names,   *)
(* with the two ways the server reads them.                                *)
(***************************************************************************)
EXTENDS Paging, View, StorageKeys, GardenFundsProofs, SequenceTheorems

\* The community modules' least and greatest of two numbers.
LEMMA MinMaxOfTwo ==
    ASSUME NEW a \in Nat, NEW b \in Nat
    PROVE  /\ Min({a, b}) = IF a <= b THEN a ELSE b
           /\ Max({a, b}) = IF a >= b THEN a ELSE b
BY DEF Min, Max

\* Turning a page by whole pages: where one ends the next starts.
LEMMA NextPage ==
    ASSUME NEW n \in Nat, NEW size \in Nat
    PROVE  /\ n * size \in Nat /\ (n + 1) * size = n * size + size
           /\ n > 0 => n * size >= size
<1>1. n * size \in Nat /\ (n + 1) * size = n * size + size
  OBVIOUS
<1>2. ASSUME n > 0 PROVE n * size >= size
  <2>1. (n - 1) * size \in Nat /\ n * size = (n - 1) * size + size
    BY <1>2
  <2> QED
    BY <2>1
<1> QED
  BY <1>1, <1>2

\* Where a page of a list of n coins starts and ends, and when all of its indices
\* have a coin: exactly when it ends within the list, and then it goes on to the
\* list's end.
LEMMA PageOfList ==
    ASSUME NEW page \in Nat \cup {None}, NEW limit \in Nat \cup {None}, NEW n \in Nat
    PROVE  /\ PageLimit(limit, n) \in Nat
           /\ PageLimit(limit, n) = IF Asked(limit) <= n THEN Asked(limit) ELSE n
           /\ Start(page, limit, n) \in Nat
           /\ (\A i \in Indices(page, limit, n) : i < n)
                 <=> Start(page, limit, n) + PageLimit(limit, n) <= n
           /\ Start(page, limit, n) + PageLimit(limit, n) <= n
                 => Indices(page, limit, n) = Start(page, limit, n) .. n - 1
<1> DEFINE size == Asked(limit)
           number == PageNumber(page)
           count == PageLimit(limit, n)
           start == Start(page, limit, n)
<1>1. number \in Nat /\ size \in Nat
  BY DEF PageNumber, Asked, DEFAULT_LIMIT
<1>2. count = IF size <= n THEN size ELSE n
  BY <1>1, MinMaxOfTwo DEF PageLimit
<1>3. count \in Nat /\ start = number * count
  BY <1>1, <1>2 DEF Start
<1> HIDE DEF size, number, count
<1>4. start \in Nat /\ (count = 0 => start = 0)
  BY <1>1, <1>3, NextPage
<1> HIDE DEF start
<1>5. End(page, limit, n) = IF n >= start + count THEN n ELSE start + count
  <2>1. End(page, limit, n) = Max({n, start + count})
    BY DEF End, start, count
  <2>2. start + count \in Nat
    BY <1>3, <1>4
  <2> QED
    BY <2>1, <2>2, MinMaxOfTwo
<1>6. Indices(page, limit, n) = start .. End(page, limit, n) - 1
  BY DEF Indices, start
<1>7. CASE start + count <= n
  <2>1. End(page, limit, n) = n
    BY <1>3, <1>4, <1>5, <1>7
  <2>2. /\ \A i \in Indices(page, limit, n) : i < n
        /\ Indices(page, limit, n) = start .. n - 1
    BY <1>4, <1>6, <2>1
  <2> QED
    BY <1>2, <1>3, <1>4, <1>7, <2>2 DEF start, count, size
<1>8. CASE ~(start + count <= n)
  <2>1. count > 0 /\ End(page, limit, n) = start + count
    BY <1>3, <1>4, <1>5, <1>8
  <2>2. start + count - 1 \in Indices(page, limit, n) /\ ~(start + count - 1 < n)
    BY <1>3, <1>4, <1>6, <1>8, <2>1
  <2> QED
    BY <1>2, <1>3, <1>4, <1>8, <2>2 DEF start, count, size
<1> QED
  BY <1>7, <1>8

\* An answered first page shows every coin, and an answered page together with
\* the next one, answered later, every coin from where it starts.
THEOREM PagesMeetEverywhere == Spec => []PagesMeet
<1>1. ASSUME TypeOK, NEW limit \in Limits, NEW page \in {None, 0},
             Answers(page, limit, total), NEW i \in 1 .. total
      PROVE  ShitcoinMetadata(shitcoin_denom[i]) \in Listed(page, limit)
  <2>1. total \in Nat /\ limit \in Nat \cup {None}
    BY <1>1, PagingAssumption DEF TypeOK, total
  <2>2. PageLimit(limit, total) \in Nat
    BY <2>1, PageOfList
  <2>3. Start(page, limit, total) = 0
    BY <2>2 DEF Start, PageNumber
  <2>4. Indices(page, limit, total) = 0 .. total - 1
    <3>1. page \in Nat \cup {None}
      OBVIOUS
    <3>2. \A j \in Indices(page, limit, total) : j < total
      BY <1>1 DEF Answers
    <3> QED
      BY <2>1, <2>3, <3>1, <3>2, PageOfList
  <2>5. i - 1 \in Indices(page, limit, total) /\ (i - 1) + 1 = i
    BY <2>1, <2>4
  <2> QED
    BY <2>5 DEF Listed
<1>2. ASSUME TypeOK, NEW limit \in Limits, NEW page \in Pages \ {None},
             NEW earlier \in 0 .. total,
             Asked(limit) <= earlier, Answers(page, limit, earlier),
             Answers(page + 1, limit, total)
      PROVE  Start(page, limit, earlier) .. total - 1 \subseteq
                 Indices(page, limit, earlier) \cup Indices(page + 1, limit, total)
  <2> DEFINE size == Asked(limit)
             first == Start(page, limit, earlier)
             next == Start(page + 1, limit, total)
  <2>1. /\ total \in Nat /\ earlier \in Nat /\ earlier <= total
        /\ page \in Nat /\ page # None /\ page + 1 \in Nat
        /\ limit \in Nat \cup {None} /\ size \in Nat
    BY <1>2, PagingAssumption DEF TypeOK, total, Asked, DEFAULT_LIMIT
  <2>2. /\ PageLimit(limit, earlier) = size
        /\ first \in Nat /\ first + size <= earlier
        /\ Indices(page, limit, earlier) = first .. earlier - 1
    <3>1. \A j \in Indices(page, limit, earlier) : j < earlier
      BY <1>2 DEF Answers
    <3> HIDE DEF total
    <3> QED
      BY <1>2, <2>1, <3>1, PageOfList
  <2>3. /\ PageLimit(limit, total) = size
        /\ next \in Nat /\ Indices(page + 1, limit, total) = next .. total - 1
    <3>1. \A j \in Indices(page + 1, limit, total) : j < total
      BY <1>2 DEF Answers
    <3> DEFINE turned == page + 1
    <3>2. turned \in Nat \cup {None} /\ total \in Nat /\ size <= total
      BY <1>2, <2>1
    <3>3. \A j \in Indices(turned, limit, total) : j < total
      BY <3>1
    <3> HIDE DEF turned, total
    <3>4. /\ PageLimit(limit, total) = size
          /\ Start(turned, limit, total) \in Nat
          /\ Indices(turned, limit, total) = Start(turned, limit, total) .. total - 1
      BY <2>1, <3>2, <3>3, PageOfList
    <3> QED
      BY <3>4 DEF turned
  <2>4. next = first + size
    <3>1. page + 1 # None
      BY <2>1, PagingAssumption
    <3>2. first = page * size /\ next = (page + 1) * size
      BY <2>1, <2>2, <2>3, <3>1 DEF Start, PageNumber
    <3> HIDE DEF first, next, size
    <3> QED
      BY <2>1, <3>2, NextPage
  <2> HIDE DEF first, next, size
  <2> QED
    BY <2>1, <2>2, <2>3, <2>4 DEF first, next
<1>3. TypeOK => PagesMeet
  BY <1>1, <1>2 DEF PagesMeet
<1> QED
  BY <1>3, TypeCorrect, PTL

\* The query panics exactly for the pages that end behind the list: what
\* expect("valid index") takes for granted holds of a page when all of it lies
\* within the list, and of no other.
THEOREM AnsweredPages ==
    Spec => [](\A page \in Pages, limit \in Limits :
                   (\A i \in Indices(page, limit, total) : i < total)
                       <=> Start(page, limit, total) + PageLimit(limit, total) <= total)
<1>1. TypeOK => \A page \in Pages, limit \in Limits :
                   (\A i \in Indices(page, limit, total) : i < total)
                       <=> Start(page, limit, total) + PageLimit(limit, total) <= total
  <2>1. TypeOK => total \in Nat
    BY DEF TypeOK, total
  <2>2. Pages \subseteq Nat \cup {None} /\ Limits \subseteq Nat \cup {None}
    BY PagingAssumption
  <2> HIDE DEF total
  <2> QED
    BY <2>1, <2>2, PageOfList
<1> QED
  BY <1>1, TypeCorrect, PTL
-----------------------------------------------------------------------------
\* What the conditions of the buttons come to: the five are one of a list.
LEMMA OffersByPhase ==
    ASSUME Inductive, ~DexAcceptsEmptySide, NEW d \in Denoms, NEW g \in Users, Created(d)
    PROVE  Offers(Row(d, g)) =
              IF shitcoin_launched[d]
              THEN IF presale_submission[d][g] # 0 /\ ~presale_claimed[d][g]
                   THEN {"claim"} ELSE {"trade"}
              ELSE IF ~Ended(d) THEN {"enter"}
                   ELSE IF presale_raise[d] = 0 THEN {"extend"} ELSE {"launch"}
<1> DEFINE row == Row(d, g)
<1>1. /\ TypeOK /\ g # None
      /\ shitcoin_launched[d] => Ended(d)
      /\ shitcoin_launched[d] \in BOOLEAN /\ presale_claimed[d][g] \in BOOLEAN
      /\ now \in Nat /\ presale_end[d] \in Nat
  BY NamesAssumption DEF Inductive, TypeOK, PairsFollowLaunch
<1>2. /\ row.launched = shitcoin_launched[d] /\ row.raise = presale_raise[d]
      /\ row.viewer = g /\ row.submission = presale_submission[d][g]
      /\ row.claimed = presale_claimed[d][g]
      /\ row.ended <=> Ended(d)
  <2>1. SaturatingSub(presale_end[d], now) = 0 <=> Ended(d)
    BY <1>1 DEF SaturatingSub, Ended
  <2>2. /\ row.launched = shitcoin_launched[d] /\ row.raise = presale_raise[d]
        /\ row.viewer = g
        /\ row.submission = IF g = None THEN 0 ELSE presale_submission[d][g]
        /\ row.claimed = (g # None /\ presale_claimed[d][g])
        /\ row.ended = (SaturatingSub(presale_end[d], now) = 0)
    BY DEF Row
  <2>3. row.claimed = presale_claimed[d][g]
    BY <1>1, <2>2, Zenon
  <2> QED
    BY <1>1, <2>1, <2>2, <2>3
<1> HIDE DEF row
<1>3. Offers(row) =
         {o \in {"claim"} : ClaimOffered(row)}
         \cup {o \in {"launch"} : LaunchOffered(row)}
         \cup {o \in {"extend"} : ~row.launched /\ row.ended /\ row.raise = 0}
         \cup {o \in {"enter"} : ~row.ended}
         \cup {o \in {"trade"} : row.launched /\ (row.claimed \/ row.submission = 0)}
  BY <1>1, <1>2 DEF Offers
<1>4. /\ ClaimOffered(row) <=> /\ shitcoin_launched[d] /\ ~presale_claimed[d][g]
                              /\ presale_submission[d][g] # 0
      /\ LaunchOffered(row) <=> ~shitcoin_launched[d] /\ Ended(d) /\ presale_raise[d] # 0
  BY <1>2 DEF ClaimOffered, LaunchOffered
<1>5. CASE shitcoin_launched[d]
  <2>1. /\ {o \in {"launch"} : LaunchOffered(row)} = {}
        /\ {o \in {"extend"} : ~row.launched /\ row.ended /\ row.raise = 0} = {}
        /\ {o \in {"enter"} : ~row.ended} = {}
    BY <1>1, <1>2, <1>4, <1>5
  <2>2. CASE presale_submission[d][g] # 0 /\ ~presale_claimed[d][g]
    <3>1. /\ {o \in {"claim"} : ClaimOffered(row)} = {"claim"}
          /\ {o \in {"trade"} : row.launched /\ (row.claimed \/ row.submission = 0)} = {}
      BY <1>2, <1>4, <1>5, <2>2
    <3> QED
      BY <1>3, <1>5, <2>1, <2>2, <3>1 DEF row
  <2>3. CASE ~(presale_submission[d][g] # 0 /\ ~presale_claimed[d][g])
    <3>1. /\ {o \in {"claim"} : ClaimOffered(row)} = {}
          /\ {o \in {"trade"} : row.launched /\ (row.claimed \/ row.submission = 0)} = {"trade"}
      BY <1>2, <1>4, <1>5, <2>3
    <3> QED
      BY <1>3, <1>5, <2>1, <2>3, <3>1 DEF row
  <2> QED
    BY <2>2, <2>3
<1>6. CASE ~shitcoin_launched[d]
  <2>1. /\ {o \in {"claim"} : ClaimOffered(row)} = {}
        /\ {o \in {"trade"} : row.launched /\ (row.claimed \/ row.submission = 0)} = {}
    BY <1>2, <1>4, <1>6
  <2>2. /\ {o \in {"launch"} : LaunchOffered(row)} =
               IF Ended(d) /\ presale_raise[d] # 0 THEN {"launch"} ELSE {}
        /\ {o \in {"extend"} : ~row.launched /\ row.ended /\ row.raise = 0} =
               IF Ended(d) /\ presale_raise[d] = 0 THEN {"extend"} ELSE {}
        /\ {o \in {"enter"} : ~row.ended} = IF Ended(d) THEN {} ELSE {"enter"}
    BY <1>2, <1>4, <1>6
  <2> QED
    BY <1>3, <1>6, <2>1, <2>2 DEF row
<1> QED
  BY <1>5, <1>6

\* A degen is offered exactly one thing to do with a coin, as long as the dex
\* refuses to be launched on with an empty raise.
THEOREM OneButtonOffered ==
    ASSUME ~DexAcceptsEmptySide
    PROVE  Spec => []OneButton
<1>1. Inductive => OneButton
  <2> SUFFICES ASSUME Inductive, NEW d \in Denoms, NEW g \in Users, Created(d)
               PROVE  Cardinality(Offers(Row(d, g))) = 1
    BY DEF OneButton
  <2>1. \E o : Offers(Row(d, g)) = {o}
    BY OffersByPhase
  <2> QED
    BY <2>1, FS_Singleton
<1> QED
  BY <1>1, InductiveHolds, PTL

\* What is offered to a degen passes the checks of the handler and of the chain
\* behind it, and what would pass them is offered.  It is OffersMatchContract
\* without ENABLED: CanLaunch, Extendable and CanClaim are the guards of the
\* three actions, and an extension also needs room for the new end.
OffersPassChecks ==
    \A d \in Denoms : Created(d) => \A g \in Users :
        LET offers == Offers(Row(d, g))
        IN  /\ "launch" \in offers <=> CanLaunch(bank, d)
            /\ "extend" \in offers <=> Extendable(d)
            /\ ("claim" \in offers /\ Share(d, g) > 0) <=> CanClaim(bank, g, d)
            /\ "enter" \in offers <=> ~Ended(d)

\* Each button of a row leads to a transaction the contract accepts, and is there
\* whenever it would: the conditions of the template, which look at the row, and
\* the guards of the handlers, which look at the balances of the one account and
\* at the dex, come to the same for any number of coins and degens.
THEOREM OffersAccepted ==
    ASSUME ~DexAcceptsEmptySide, ~BankAcceptsZero, Micro % 2 = 0
    PROVE  Spec => []OffersPassChecks
<1>1. Inductive /\ EscrowBacksPresales /\ CoinsBacked /\ WholeSupplies => OffersPassChecks
  <2> SUFFICES ASSUME Inductive, EscrowBacksPresales, CoinsBacked, WholeSupplies,
                      NEW d \in Denoms, Created(d), NEW g \in Users
               PROVE  LET offers == Offers(Row(d, g))
                      IN  /\ "launch" \in offers <=> CanLaunch(bank, d)
                          /\ "extend" \in offers <=> Extendable(d)
                          /\ ("claim" \in offers /\ Share(d, g) > 0) <=> CanClaim(bank, g, d)
                          /\ "enter" \in offers <=> ~Ended(d)
    BY DEF OffersPassChecks
  <2> DEFINE offers == Offers(Row(d, g))
  <2>1. offers = IF shitcoin_launched[d]
                 THEN IF presale_submission[d][g] # 0 /\ ~presale_claimed[d][g]
                      THEN {"claim"} ELSE {"trade"}
                 ELSE IF ~Ended(d) THEN {"enter"}
                      ELSE IF presale_raise[d] = 0 THEN {"extend"} ELSE {"launch"}
    BY OffersByPhase
  <2> HIDE DEF offers
  <2>2. /\ TypeOK
        /\ shitcoin_launched[d] => Ended(d) /\ presale_raise[d] > 0
        /\ presale_raise[d] \in Nat /\ presale_submission[d][g] \in Nat
    BY AmountsAssumption DEF Inductive, PairsFollowLaunch, TypeOK
  <2>3. "launch" \in offers <=> CanLaunch(bank, d)
    <3>1. CanLaunch(bank, d) => Ended(d) /\ ~shitcoin_launched[d] /\ presale_raise[d] > 0
      BY DEF CanLaunch, CanProvide
    <3>2. "launch" \in offers => Ended(d) /\ ~shitcoin_launched[d] /\ presale_raise[d] > 0
      BY <2>1, <2>2
    <3>3. Ended(d) /\ ~shitcoin_launched[d] /\ presale_raise[d] > 0 => "launch" \in offers
      BY <2>1, <2>2
    <3> QED
      BY <3>1, <3>2, <3>3, LaunchAccepted
  <2>4. "extend" \in offers <=> Extendable(d)
    BY <2>1, <2>2 DEF Extendable
  <2>5. ("claim" \in offers /\ Share(d, g) > 0) <=> CanClaim(bank, g, d)
    <3>1. CanClaim(bank, g, d) => /\ shitcoin_launched[d] /\ ~presale_claimed[d][g]
                            /\ presale_submission[d][g] > 0 /\ Share(d, g) > 0
      BY DEF CanClaim, CanSend
    <3>2. "claim" \in offers <=> /\ shitcoin_launched[d] /\ ~presale_claimed[d][g]
                                 /\ presale_submission[d][g] > 0
      BY <2>1, <2>2
    <3> QED
      BY <3>1, <3>2, ClaimAccepted
  <2>6. "enter" \in offers <=> ~Ended(d)
    BY <2>1, <2>2
  <2> QED
    BY <2>3, <2>4, <2>5, <2>6 DEF offers
<1> QED
  BY <1>1, InductiveHolds, EscrowHolds, CoinsHold, CoinsStayConserved, PTL
-----------------------------------------------------------------------------
\* A quotient is where its multiple of the divisor is, up to one divisor.
LEMMA QuotientBounds ==
    ASSUME NEW n \in Nat, NEW d \in Nat \ {0}
    PROVE  /\ n \div d \in Nat
           /\ d * (n \div d) <= n /\ n < d * (n \div d) + d
OBVIOUS

\* The nearest whole number to the share by the supply is the share by half the
\* supply, truncated, or the number above it.
LEMMA RoundedShare ==
    ASSUME NEW supply \in Nat, NEW raise \in Nat \ {0}, NEW submission \in 0 .. raise
    PROVE  (2 * submission * supply + 2 * raise) \div (2 * (2 * raise))
                - Claimable(Half(supply), submission, raise) \in {0, 1}
<1> DEFINE half == supply \div 2
           odd == supply - 2 * half
           product == half * submission
           share == product \div raise
           shown == 2 * submission * supply + 2 * raise
           quotient == shown \div (4 * raise)
<1>1. half \in Nat /\ odd \in {0, 1} /\ supply = 2 * half + odd
  OBVIOUS
<1> HIDE DEF half, odd
<1>2. product \in Nat
  BY <1>1
<1>3. shown = 4 * product + 2 * (odd * submission) + 2 * raise
  <2>1. 2 * submission * supply = 4 * product + 2 * (odd * submission)
    BY <1>1
  <2> QED
    BY <2>1
<1>4. odd * submission \in 0 .. raise
  <2>1. CASE odd = 0
    BY <2>1
  <2>2. CASE odd = 1
    BY <2>2
  <2> QED
    BY <1>1, <2>1, <2>2
<1> HIDE DEF shown
<1>5. shown \in Nat /\ 4 * product <= shown /\ shown <= 4 * product + 4 * raise
  <2> HIDE DEF product
  <2> DEFINE extra == odd * submission
  <2>1. extra \in 0 .. raise /\ shown = 4 * product + 2 * extra + 2 * raise
    BY <1>3, <1>4
  <2> HIDE DEF extra
  <2> QED
    BY <1>2, <2>1
<1> HIDE DEF product
<1>6. share \in Nat /\ raise * share <= product /\ product < raise * share + raise
  BY <1>2, QuotientBounds
<1>7. /\ quotient \in Nat
      /\ (4 * raise) * quotient <= shown /\ shown < (4 * raise) * quotient + 4 * raise
  <2> DEFINE divisor == 4 * raise
  <2>1. divisor \in Nat \ {0} /\ shown \in Nat
    BY <1>5
  <2> HIDE DEF divisor
  <2>2. /\ shown \div divisor \in Nat
        /\ divisor * (shown \div divisor) <= shown
        /\ shown < divisor * (shown \div divisor) + divisor
    BY <2>1, QuotientBounds, Zenon
  <2> QED
    BY <2>2 DEF divisor
<1> HIDE DEF share, quotient
<1> DEFINE rs == raise * share
           rq == raise * quotient
<1>8. rs \in Nat /\ rq \in Nat /\ (4 * raise) * quotient = 4 * rq
  BY <1>6, <1>7
<1>9. rs < rq + raise /\ rq < rs + 2 * raise
  <2>1. /\ 4 * rq <= shown /\ shown < 4 * rq + 4 * raise
        /\ rs <= product /\ product < rs + raise
    BY <1>6, <1>7, <1>8
  <2> HIDE DEF rs, rq
  <2> QED
    BY <1>2, <1>5, <1>8, <2>1
<1>10. share <= quotient
  <2> SUFFICES ASSUME share >= quotient + 1 PROVE FALSE
    BY <1>6, <1>7
  <2>1. raise * share >= raise * (quotient + 1)
    BY <1>6, <1>7
  <2>2. raise * (quotient + 1) = rq + raise
    BY <1>7
  <2> QED
    BY <1>8, <1>9, <2>1, <2>2
<1>11. quotient <= share + 1
  <2> SUFFICES ASSUME quotient >= share + 2 PROVE FALSE
    BY <1>6, <1>7
  <2>1. raise * quotient >= raise * (share + 2)
    BY <1>6, <1>7
  <2>2. raise * (share + 2) = rs + 2 * raise
    BY <1>6
  <2> QED
    BY <1>8, <1>9, <2>1, <2>2
<1>12. quotient - share \in {0, 1}
  BY <1>6, <1>7, <1>10, <1>11
<1>13. 2 * (2 * raise) = 4 * raise
  OBVIOUS
<1> QED
  BY <1>12, <1>13 DEF quotient, share, product, half, shown, Claimable, Half

\* The amount the site prints as claimable is what a claim pays or one unit
\* more, for every supply, raise and submission.
THEOREM ShownShares ==
    ASSUME ~DexAcceptsEmptySide
    PROVE  Spec => []ShownShareIsOwed
<1>1. Inductive => ShownShareIsOwed
  <2> SUFFICES ASSUME Inductive, NEW d \in Denoms, NEW g \in Users, shitcoin_launched[d]
               PROVE  ShownClaimable(Row(d, g)) - Share(d, g) \in {0, 1}
    BY DEF ShownShareIsOwed
  <2> DEFINE supply == shitcoin_supply[d]
             raise == presale_raise[d]
             submission == presale_submission[d][g]
             row == Row(d, g)
  <2>1. /\ TypeOK /\ NothingBeforeCreate /\ PairsFollowLaunch /\ SubmissionsInRaise
    BY DEF Inductive
  <2>2. raise > 0
    BY <2>1 DEF NothingBeforeCreate, PairsFollowLaunch
  <2>3. raise \in Nat /\ supply \in Nat /\ submission \in Nat
    BY <2>1, AmountsAssumption DEF TypeOK
  <2>4. submission \in 0 .. raise
    BY <2>1, <2>3 DEF SubmissionsInRaise
  <2>5. row.raise = raise /\ row.supply = supply /\ row.submission = submission
    BY NamesAssumption DEF Row
  <2>6. Share(d, g) = Claimable(Half(supply), submission, raise)
    BY DEF Share
  <2> HIDE DEF raise, supply, submission, row
  <2>7. PercentOfSupply(row) = [numerator |-> submission, denominator |-> 2 * raise]
    BY <2>2, <2>3, <2>5 DEF PercentOfSupply
  <2>8. ShownClaimable(row) =
           (2 * submission * supply + 2 * raise) \div (2 * (2 * raise))
    BY <2>5, <2>7 DEF ShownClaimable
  <2> QED
    BY <2>2, <2>3, <2>4, <2>6, <2>8, RoundedShare DEF row
<1> QED
  BY <1>1, InductiveHolds, PTL
-----------------------------------------------------------------------------
(***************************************************************************)
(* The keys of the storage.                                                *)
(***************************************************************************)

\* What kind of key a cell has.
Prefix(c) == c[1][1]

ConfigPrefixes ==
    {"PLATFORM_FEE_RECIPIENT", "CREATE_FEE_DENOM", "CREATE_FEE", "PRESALE_DENOM",
     "PRESALE_LENGTH", "PRESALE_FEE_RATE"}

DegenPrefixes == {"PRESALE_SUBMISSION", "PRESALE_CLAIMED"}

CoinKinds ==
    {"PRESALE_END", "PRESALE_RAISE", "SHITCOIN_CREATOR", "SHITCOIN_TICKER", "SHITCOIN_SUPPLY",
     "SHITCOIN_LAUNCHED", "SHITCOIN_URL"}

\* What keys are made of: strings, and so the kinds, which the provers do not
\* know to be strings.
Texts == STRING

Part == Texts \cup CoinKinds \cup DegenPrefixes

\* The kinds of keys there are of a coin and of a degen in it.
KeysOfCoin(d) ==
    {"PRESALE_END", "PRESALE_RAISE", "SHITCOIN_CREATOR", "SHITCOIN_TICKER", "SHITCOIN_SUPPLY"}
    \cup {p \in {"SHITCOIN_LAUNCHED"} : shitcoin_launched[d]}
    \cup {p \in {"SHITCOIN_URL"} : shitcoin_url[d] # None}

KeysOfDegen(d, g) ==
    {p \in {"PRESALE_SUBMISSION"} : presale_submission[d][g] > 0}
    \cup {p \in {"PRESALE_CLAIMED"} : presale_claimed[d][g]}

\* The values under them.
CoinValue(p, d) ==
    CASE p = "PRESALE_END" -> U64(presale_end[d])
      [] p = "PRESALE_RAISE" -> U128(presale_raise[d])
      [] p = "SHITCOIN_CREATOR" -> Text(shitcoin_creator[d])
      [] p = "SHITCOIN_TICKER" -> Text(shitcoin_ticker[d])
      [] p = "SHITCOIN_SUPPLY" -> U128(shitcoin_supply[d])
      [] p = "SHITCOIN_LAUNCHED" -> Bool(TRUE)
      [] p = "SHITCOIN_URL" -> Text(shitcoin_url[d])

DegenValue(p, d, g) ==
    IF p = "PRESALE_SUBMISSION" THEN U128(presale_submission[d][g]) ELSE Bool(TRUE)

\* The names are not empty, and that of a degen is one part.
LEMMA NameTypes ==
    /\ \A x \in Named : /\ NameOf[x] \in Seq(Part) /\ Len(NameOf[x]) \in Nat
                        /\ Len(NameOf[x]) >= 1 /\ DOMAIN NameOf[x] = 1 .. Len(NameOf[x])
    /\ \A g \in Users : Len(NameOf[g]) = 1
<1>1. ASSUME NEW s \in Seq(Texts), s # << >>
      PROVE  s \in Seq(Part) /\ Len(s) \in Nat /\ Len(s) >= 1 /\ DOMAIN s = 1 .. Len(s)
  <2>1. /\ Len(s) \in Nat /\ Len(s) >= 1 /\ DOMAIN s = 1 .. Len(s)
        /\ \A i \in 1 .. Len(s) : s[i] \in Texts
    BY <1>1
  <2>2. \A i \in 1 .. Len(s) : s[i] \in Part
    BY <2>1 DEF Part
  <2>3. s \in [1 .. Len(s) -> Part]
    BY <2>1, <2>2
  <2> QED
    BY <2>1, <2>3
<1>2. /\ \A x \in Named : NameOf[x] \in Seq(Texts) /\ NameOf[x] # << >>
      /\ \A g \in Users : Len(NameOf[g]) = 1
  BY NameAssumption, Zenon DEF Texts
<1> QED
  BY <1>1, <1>2

\* Names with the same parts are the same.
LEMMA SameName ==
    ASSUME NEW x \in Named, NEW y \in Named, Len(NameOf[x]) = Len(NameOf[y]),
           \A i \in 1 .. Len(NameOf[x]) : NameOf[x][i] = NameOf[y][i]
    PROVE  x = y
<1>1. ASSUME NEW s \in Seq(Part), NEW t \in Seq(Part), Len(s) = Len(t),
             \A i \in 1 .. Len(s) : s[i] = t[i]
      PROVE  s = t
  BY <1>1
<1>2. NameOf[x] = NameOf[y]
  BY <1>1, NameTypes
<1> QED
  BY <1>2, NameAssumption

\* A part before the others.
LEMMA PartBefore ==
    ASSUME NEW S, NEW p \in S, NEW s \in Seq(S), Len(s) >= 1
    PROVE  /\ <<p>> \o s \in Seq(S) /\ Len(<<p>> \o s) = Len(s) + 1
           /\ (<<p>> \o s)[1] = p /\ (<<p>> \o s)[2] = s[1]
           /\ \A i \in 1 .. Len(s) : (<<p>> \o s)[i + 1] = s[i]
<1>1. PICK k : k = <<p>> \o s
  OBVIOUS
<1>2. <<p>> \in Seq(S) /\ Len(<<p>>) = 1 /\ <<p>>[1] = p /\ Len(s) \in Nat
  OBVIOUS
<1>3. /\ k \in Seq(S) /\ Len(k) = 1 + Len(s)
      /\ \A i \in 1 .. 1 + Len(s) : k[i] = IF i <= 1 THEN p ELSE s[i - 1]
  BY <1>1, <1>2, ConcatProperties
<1>4. ASSUME NEW i \in 1 .. Len(s)
      PROVE  k[i + 1] = s[i]
  <2>1. i + 1 \in 1 .. 1 + Len(s) /\ ~(i + 1 <= 1) /\ (i + 1) - 1 = i
    BY <1>2
  <2> QED
    BY <1>3, <2>1
<1>5. k[1] = p /\ k[2] = s[1]
  <2>1. 1 \in 1 .. 1 + Len(s) /\ 1 \in 1 .. Len(s) /\ 1 + 1 = 2
    BY <1>2
  <2> QED
    BY <1>3, <1>4, <2>1
<1>6. Len(k) = Len(s) + 1
  BY <1>2, <1>3
<1> QED
  BY <1>1, <1>3, <1>4, <1>5, <1>6

\* A part after the others.
LEMMA PartAfter ==
    ASSUME NEW S, NEW s \in Seq(S), NEW t \in Seq(S), Len(t) = 1
    PROVE  /\ s \o t \in Seq(S) /\ Len(s \o t) = Len(s) + 1
           /\ (s \o t)[Len(s) + 1] = t[1]
           /\ \A i \in 1 .. Len(s) : (s \o t)[i] = s[i]
<1>1. PICK k : k = s \o t
  OBVIOUS
<1>2. /\ k \in Seq(S) /\ Len(k) = Len(s) + 1 /\ Len(s) \in Nat
      /\ \A i \in 1 .. Len(s) + 1 : k[i] = IF i <= Len(s) THEN s[i] ELSE t[i - Len(s)]
  <2>1. /\ s \o t \in Seq(S) /\ Len(s \o t) = Len(s) + Len(t)
        /\ \A i \in 1 .. Len(s) + Len(t) : (s \o t)[i] =
              IF i <= Len(s) THEN s[i] ELSE t[i - Len(s)]
    BY ConcatProperties, Zenon
  <2>2. Len(s) \in Nat /\ Len(s) + Len(t) = Len(s) + 1
    OBVIOUS
  <2> QED
    BY <1>1, <2>1, <2>2
<1>3. k[Len(s) + 1] = t[1]
  <2>1. /\ Len(s) + 1 \in 1 .. Len(s) + 1 /\ ~(Len(s) + 1 <= Len(s))
        /\ (Len(s) + 1) - Len(s) = 1
    BY <1>2
  <2> QED
    BY <1>2, <2>1
<1> QED
  BY <1>1, <1>2, <1>3

\* The parts of a coin's key.
LEMMA CoinKeyParts ==
    ASSUME NEW d \in Denoms, NEW p \in Part
    PROVE  /\ CoinKey(p, d) \in Seq(Part) /\ Len(CoinKey(p, d)) = Len(NameOf[d]) + 1
           /\ CoinKey(p, d)[1] = p /\ CoinKey(p, d)[2] = NameOf[d][1]
           /\ \A i \in 1 .. Len(NameOf[d]) : CoinKey(p, d)[i + 1] = NameOf[d][i]
<1>1. NameOf[d] \in Seq(Part) /\ Len(NameOf[d]) >= 1
  BY NameTypes DEF Named
<1>2. /\ <<p>> \o NameOf[d] \in Seq(Part) /\ Len(<<p>> \o NameOf[d]) = Len(NameOf[d]) + 1
      /\ (<<p>> \o NameOf[d])[1] = p /\ (<<p>> \o NameOf[d])[2] = NameOf[d][1]
      /\ \A i \in 1 .. Len(NameOf[d]) : (<<p>> \o NameOf[d])[i + 1] = NameOf[d][i]
  BY <1>1, PartBefore
<1> QED
  BY <1>2, Zenon DEF CoinKey

\* Keys with the same parts after the first are of the same name.
LEMMA SameParts ==
    ASSUME NEW d \in Denoms, NEW e \in Denoms, NEW k,
           \A i \in 1 .. Len(NameOf[d]) : k[i + 1] = NameOf[d][i],
           \A i \in 1 .. Len(NameOf[e]) : k[i + 1] = NameOf[e][i],
           Len(NameOf[d]) = Len(NameOf[e])
    PROVE  d = e
<1>1. \A i \in 1 .. Len(NameOf[d]) : NameOf[d][i] = NameOf[e][i]
  OBVIOUS
<1>2. d \in Named /\ e \in Named
  BY DEF Named
<1> QED
  BY <1>1, <1>2, SameName

\* No two coins have one.
LEMMA CoinKeysApart ==
    ASSUME NEW d \in Denoms, NEW e \in Denoms, NEW p \in Part, NEW q \in Part,
           CoinKey(p, d) = CoinKey(q, e)
    PROVE  p = q /\ d = e
<1>1. PICK k : k = CoinKey(p, d)
  OBVIOUS
<1>2. Len(NameOf[d]) \in Nat /\ Len(NameOf[e]) \in Nat
  BY NameTypes DEF Named
<1>3. /\ Len(k) = Len(NameOf[d]) + 1 /\ k[1] = p
      /\ \A i \in 1 .. Len(NameOf[d]) : k[i + 1] = NameOf[d][i]
  BY <1>1, CoinKeyParts
<1>4. k = CoinKey(q, e)
  BY <1>1
<1>5. /\ Len(k) = Len(NameOf[e]) + 1 /\ k[1] = q
      /\ \A i \in 1 .. Len(NameOf[e]) : k[i + 1] = NameOf[e][i]
  BY <1>4, CoinKeyParts
<1>6. Len(NameOf[d]) = Len(NameOf[e]) /\ p = q
  BY <1>2, <1>3, <1>5
<1>7. d = e
  BY <1>3, <1>5, <1>6, SameParts
<1> QED
  BY <1>6, <1>7

\* The parts of a degen's key.
LEMMA DegenKeyParts ==
    ASSUME NEW d \in Denoms, NEW g \in Users, NEW p \in Part
    PROVE  /\ Len(DegenKey(p, d, g)) = Len(NameOf[d]) + 2
           /\ DegenKey(p, d, g)[1] = p /\ DegenKey(p, d, g)[2] = NameOf[d][1]
           /\ \A i \in 1 .. Len(NameOf[d]) : DegenKey(p, d, g)[i + 1] = NameOf[d][i]
           /\ DegenKey(p, d, g)[Len(NameOf[d]) + 2] = NameOf[g][1]
<1>1. /\ NameOf[d] \in Seq(Part) /\ Len(NameOf[d]) \in Nat /\ Len(NameOf[d]) >= 1
      /\ NameOf[g] \in Seq(Part) /\ Len(NameOf[g]) = 1
  BY NameTypes DEF Named
<1>2. PICK n : n = Len(NameOf[d])
  OBVIOUS
<1>3. PICK r : r = CoinKey(p, d)
  OBVIOUS
<1>4. /\ r \in Seq(Part) /\ Len(r) = n + 1 /\ r[1] = p /\ r[2] = NameOf[d][1]
      /\ \A i \in 1 .. n : r[i + 1] = NameOf[d][i]
  BY <1>2, <1>3, CoinKeyParts
<1>5. PICK k : k = r \o NameOf[g]
  OBVIOUS
<1>6. /\ Len(k) = (n + 1) + 1 /\ k[(n + 1) + 1] = NameOf[g][1]
      /\ \A i \in 1 .. n + 1 : k[i] = r[i]
  <2>1. r \in Seq(Part) /\ NameOf[g] \in Seq(Part) /\ Len(NameOf[g]) = 1
    BY <1>1, <1>4
  <2>2. /\ Len(r \o NameOf[g]) = Len(r) + 1 /\ (r \o NameOf[g])[Len(r) + 1] = NameOf[g][1]
        /\ \A i \in 1 .. Len(r) : (r \o NameOf[g])[i] = r[i]
    BY <2>1, PartAfter
  <2> QED
    BY <1>4, <1>5, <2>2
<1>7. n \in Nat /\ n >= 1 /\ (n + 1) + 1 = n + 2 /\ 1 \in 1 .. n + 1 /\ 2 \in 1 .. n + 1
      /\ \A i \in 1 .. n : i + 1 \in 1 .. n + 1
  BY <1>1, <1>2
<1>8. /\ Len(k) = n + 2 /\ k[n + 2] = NameOf[g][1] /\ k[1] = p /\ k[2] = NameOf[d][1]
      /\ \A i \in 1 .. n : k[i + 1] = NameOf[d][i]
  BY <1>4, <1>6, <1>7
<1>9. DegenKey(p, d, g) = k
  BY <1>3, <1>5 DEF DegenKey, CoinKey
<1> QED
  BY <1>2, <1>8, <1>9

\* No two degens of a coin, or degens of two coins, have one.
LEMMA DegenKeysApart ==
    ASSUME NEW d \in Denoms, NEW e \in Denoms, NEW g \in Users, NEW h \in Users,
           NEW p \in Part, NEW q \in Part, DegenKey(p, d, g) = DegenKey(q, e, h)
    PROVE  p = q /\ d = e /\ g = h
<1>1. PICK k : k = DegenKey(p, d, g)
  OBVIOUS
<1>2. Len(NameOf[d]) \in Nat /\ Len(NameOf[e]) \in Nat
  BY NameTypes DEF Named
<1>3. /\ Len(k) = Len(NameOf[d]) + 2 /\ k[1] = p /\ k[Len(NameOf[d]) + 2] = NameOf[g][1]
      /\ \A i \in 1 .. Len(NameOf[d]) : k[i + 1] = NameOf[d][i]
  <2>1. /\ Len(DegenKey(p, d, g)) = Len(NameOf[d]) + 2 /\ DegenKey(p, d, g)[1] = p
        /\ DegenKey(p, d, g)[Len(NameOf[d]) + 2] = NameOf[g][1]
        /\ \A i \in 1 .. Len(NameOf[d]) : DegenKey(p, d, g)[i + 1] = NameOf[d][i]
    BY DegenKeyParts
  <2> QED
    BY <1>1, <2>1
<1>4. k = DegenKey(q, e, h)
  BY <1>1
<1>5. /\ Len(k) = Len(NameOf[e]) + 2 /\ k[1] = q /\ k[Len(NameOf[e]) + 2] = NameOf[h][1]
      /\ \A i \in 1 .. Len(NameOf[e]) : k[i + 1] = NameOf[e][i]
  <2>1. /\ Len(DegenKey(q, e, h)) = Len(NameOf[e]) + 2 /\ DegenKey(q, e, h)[1] = q
        /\ DegenKey(q, e, h)[Len(NameOf[e]) + 2] = NameOf[h][1]
        /\ \A i \in 1 .. Len(NameOf[e]) : DegenKey(q, e, h)[i + 1] = NameOf[e][i]
    BY DegenKeyParts
  <2> QED
    BY <1>4, <2>1
<1>6. Len(NameOf[d]) = Len(NameOf[e]) /\ p = q
  BY <1>2, <1>3, <1>5
<1>7. d = e
  BY <1>3, <1>5, <1>6, SameParts
<1>8. g = h
  <2>1. NameOf[g][1] = NameOf[h][1]
    BY <1>3, <1>5, <1>6
  <2>2. g \in Named /\ h \in Named /\ Len(NameOf[g]) = 1 /\ Len(NameOf[h]) = 1
    BY NameTypes DEF Named
  <2>3. \A i \in 1 .. Len(NameOf[g]) : NameOf[g][i] = NameOf[h][i]
    BY <2>1, <2>2
  <2> QED
    BY <2>2, <2>3, SameName
<1> QED
  BY <1>6, <1>7, <1>8

\* What is stored of a coin, kind by kind.
LEMMA CoinCellForms ==
    ASSUME NEW d \in Denoms, TypeOK
    PROVE  CoinCells(d) = {<<CoinKey(p, d), CoinValue(p, d)>> : p \in KeysOfCoin(d)}
<1>1. shitcoin_launched[d] \in BOOLEAN
  BY DEF TypeOK
<1>2. {<<CoinKey("SHITCOIN_LAUNCHED", d), Bool(b)>> : b \in {shitcoin_launched[d]} \ {FALSE}}
      = {<<CoinKey(p, d), CoinValue(p, d)>> :
             p \in {q \in {"SHITCOIN_LAUNCHED"} : shitcoin_launched[d]}}
  BY <1>1 DEF CoinValue
<1>3. {<<CoinKey("SHITCOIN_URL", d), Text(u)>> : u \in {shitcoin_url[d]} \ {None}}
      = {<<CoinKey(p, d), CoinValue(p, d)>> :
             p \in {q \in {"SHITCOIN_URL"} : shitcoin_url[d] # None}}
  BY DEF CoinValue
<1>4. {<<CoinKey("PRESALE_END", d), U64(presale_end[d])>>,
       <<CoinKey("PRESALE_RAISE", d), U128(presale_raise[d])>>,
       <<CoinKey("SHITCOIN_CREATOR", d), Text(shitcoin_creator[d])>>,
       <<CoinKey("SHITCOIN_TICKER", d), Text(shitcoin_ticker[d])>>,
       <<CoinKey("SHITCOIN_SUPPLY", d), U128(shitcoin_supply[d])>>}
      = {<<CoinKey(p, d), CoinValue(p, d)>> :
            p \in {"PRESALE_END", "PRESALE_RAISE", "SHITCOIN_CREATOR", "SHITCOIN_TICKER",
                   "SHITCOIN_SUPPLY"}}
  BY DEF CoinValue
<1> QED
  BY <1>2, <1>3, <1>4 DEF CoinCells, KeysOfCoin

\* And of its degens.
LEMMA DegenCellForms ==
    ASSUME NEW d \in Denoms, NEW c
    PROVE  c \in DegenCells(d) <=>
              \E g \in Users : \E p \in KeysOfDegen(d, g) :
                  c = <<DegenKey(p, d, g), DegenValue(p, d, g)>>
BY DEF DegenCells, KeysOfDegen, DegenValue

\* Whatever is stored is one of these, told apart by the kind of its key.
LEMMA StoredCells ==
    ASSUME TypeOK, NEW c
    PROVE  c \in Storage <=>
              \/ c \in ConfigCells
              \/ \E n \in {Len(shitcoin_denom)} \ {0} : c = <<<<"SHITCOIN_COUNT">>, U64(n)>>
              \/ \E i \in DOMAIN shitcoin_denom :
                    c = <<IndexKey(i - 1), Text(NameOf[shitcoin_denom[i]])>>
              \/ \E d \in Denoms : Created(d) /\ \E p \in KeysOfCoin(d) :
                    c = <<CoinKey(p, d), CoinValue(p, d)>>
              \/ \E d \in Denoms : Created(d) /\ \E g \in Users : \E p \in KeysOfDegen(d, g) :
                    c = <<DegenKey(p, d, g), DegenValue(p, d, g)>>
<1>1. \A d \in Denoms : c \in CoinCells(d) <=>
          \E p \in KeysOfCoin(d) : c = <<CoinKey(p, d), CoinValue(p, d)>>
  <2>1. ASSUME NEW d \in Denoms
        PROVE  CoinCells(d) = {<<CoinKey(p, d), CoinValue(p, d)>> : p \in KeysOfCoin(d)}
    BY CoinCellForms
  <2> QED
    BY <2>1
<1>2. \A d \in Denoms : c \in DegenCells(d) <=>
          \E g \in Users : \E p \in KeysOfDegen(d, g) :
              c = <<DegenKey(p, d, g), DegenValue(p, d, g)>>
  BY DegenCellForms
<1>3. c \in Storage <=> \/ c \in ConfigCells \/ c \in IndexCells
                        \/ \E d \in Denoms :
                              Created(d) /\ (c \in CoinCells(d) \/ c \in DegenCells(d))
  BY DEF Storage
<1>4. c \in IndexCells <=>
          \/ \E i \in DOMAIN shitcoin_denom :
                c = <<IndexKey(i - 1), Text(NameOf[shitcoin_denom[i]])>>
          \/ \E n \in {Len(shitcoin_denom)} \ {0} : c = <<<<"SHITCOIN_COUNT">>, U64(n)>>
  BY DEF IndexCells
<1> QED
  BY <1>1, <1>2, <1>3, <1>4

\* Each of these kinds is a part.
LEMMA KindsOfKeys ==
    /\ \A p \in CoinKinds \cup DegenPrefixes : p \in Part
    /\ \A d : KeysOfCoin(d) \subseteq CoinKinds
    /\ \A d, g : KeysOfDegen(d, g) \subseteq DegenPrefixes
<1>1. \A p \in CoinKinds \cup DegenPrefixes : p \in Part
  BY DEF Part
<1>2. \A d : KeysOfCoin(d) \subseteq CoinKinds
  BY DEF CoinKinds, KeysOfCoin
<1>3. \A d, g : KeysOfDegen(d, g) \subseteq DegenPrefixes
  BY DEF DegenPrefixes, KeysOfDegen
<1> QED
  BY <1>1, <1>2, <1>3

\* A cell of each kind.
LEMMA CellOfKind ==
    ASSUME TypeOK, NEW c \in Storage
    PROVE  /\ Prefix(c) \in ConfigPrefixes \cup {"SHITCOIN_COUNT", "SHITCOIN_DENOM"}
                            \cup CoinKinds \cup DegenPrefixes
           /\ Prefix(c) \in ConfigPrefixes => c \in ConfigCells
           /\ Prefix(c) = "SHITCOIN_COUNT" =>
                 c = <<<<"SHITCOIN_COUNT">>, U64(Len(shitcoin_denom))>>
           /\ Prefix(c) = "SHITCOIN_DENOM" =>
                 \E i \in DOMAIN shitcoin_denom :
                     c = <<IndexKey(i - 1), Text(NameOf[shitcoin_denom[i]])>>
           /\ Prefix(c) \in CoinKinds =>
                 \E d \in Denoms :
                     /\ Created(d) /\ Prefix(c) \in KeysOfCoin(d)
                     /\ c = <<CoinKey(Prefix(c), d), CoinValue(Prefix(c), d)>>
           /\ Prefix(c) \in DegenPrefixes =>
                 \E d \in Denoms, g \in Users :
                     /\ Created(d) /\ Prefix(c) \in KeysOfDegen(d, g)
                     /\ c = <<DegenKey(Prefix(c), d, g), DegenValue(Prefix(c), d, g)>>
<1>1. CASE c \in ConfigCells
  <2>1. Prefix(c) \in ConfigPrefixes
    BY <1>1 DEF ConfigCells, Prefix, ConfigPrefixes
  <2> QED
    BY <1>1, <2>1 DEF ConfigPrefixes, CoinKinds, DegenPrefixes
<1>2. CASE \E n \in {Len(shitcoin_denom)} \ {0} : c = <<<<"SHITCOIN_COUNT">>, U64(n)>>
  <2>1. Prefix(c) = "SHITCOIN_COUNT" /\ c = <<<<"SHITCOIN_COUNT">>, U64(Len(shitcoin_denom))>>
    BY <1>2 DEF Prefix
  <2> QED
    BY <2>1 DEF ConfigPrefixes, CoinKinds, DegenPrefixes
<1>3. CASE \E i \in DOMAIN shitcoin_denom :
              c = <<IndexKey(i - 1), Text(NameOf[shitcoin_denom[i]])>>
  <2>1. Prefix(c) = "SHITCOIN_DENOM"
    BY <1>3 DEF Prefix, IndexKey
  <2> QED
    BY <1>3, <2>1 DEF ConfigPrefixes, CoinKinds, DegenPrefixes
<1>4. ASSUME NEW d \in Denoms, Created(d), NEW p \in KeysOfCoin(d),
             c = <<CoinKey(p, d), CoinValue(p, d)>>
      PROVE  Prefix(c) = p /\ p \in CoinKinds
  <2>1. p \in CoinKinds /\ p \in Part
    BY KindsOfKeys
  <2>2. CoinKey(p, d)[1] = p
    BY <2>1, CoinKeyParts
  <2> QED
    BY <1>4, <2>1, <2>2 DEF Prefix
<1>5. ASSUME NEW d \in Denoms, Created(d), NEW g \in Users, NEW p \in KeysOfDegen(d, g),
             c = <<DegenKey(p, d, g), DegenValue(p, d, g)>>
      PROVE  Prefix(c) = p /\ p \in DegenPrefixes
  <2>1. p \in DegenPrefixes /\ p \in Part
    BY KindsOfKeys
  <2>2. DegenKey(p, d, g)[1] = p
    BY <2>1, DegenKeyParts
  <2> QED
    BY <1>5, <2>1, <2>2 DEF Prefix
<1>6. CASE \E d \in Denoms : Created(d) /\ \E p \in KeysOfCoin(d) :
                 c = <<CoinKey(p, d), CoinValue(p, d)>>
  BY <1>4, <1>6 DEF ConfigPrefixes, CoinKinds, DegenPrefixes
<1>7. CASE \E d \in Denoms : Created(d) /\ \E g \in Users : \E p \in KeysOfDegen(d, g) :
                 c = <<DegenKey(p, d, g), DegenValue(p, d, g)>>
  BY <1>5, <1>7 DEF ConfigPrefixes, CoinKinds, DegenPrefixes
<1> QED
  BY <1>1, <1>2, <1>3, <1>6, <1>7, StoredCells

\* The list is no longer than there are coins, so that its indexes have digits
\* of their own.
LEMMA IndexesInRange ==
    ASSUME TypeOK, ListedOnce
    PROVE  /\ Len(shitcoin_denom) \in Nat /\ Cardinality(Denoms) \in Nat
           /\ Len(shitcoin_denom) <= Cardinality(Denoms)
           /\ DOMAIN shitcoin_denom = 1 .. Len(shitcoin_denom)
<1> DEFINE n == Len(shitcoin_denom)
           coins == {shitcoin_denom[i] : i \in 1 .. n}
<1>1. /\ n \in Nat /\ DOMAIN shitcoin_denom = 1 .. n /\ shitcoin_denom \in [1 .. n -> Denoms]
  BY DEF TypeOK
<1>2. IsFiniteSet(Denoms) /\ Cardinality(Denoms) \in Nat
  BY FiniteAssumption, FS_CardinalityType
<1>3. shitcoin_denom \in Injection(1 .. n, Denoms)
  BY <1>1 DEF ListedOnce, Injection, IsInjective
<1>4. IsFiniteSet(1 .. n) /\ Cardinality(1 .. n) = n
  BY <1>1, FS_Interval
<1> QED
  BY <1>1, <1>2, <1>3, <1>4, FS_Injection

\* No two things the contract stores share a key, colons or not: no coin or
\* degen writes over what another one has stored.
LEMMA NoSharedKey ==
    ASSUME TypeOK, ListedOnce, NEW c1 \in Storage, NEW c2 \in Storage, c1[1] = c2[1]
    PROVE  c1 = c2
<1> DEFINE p == Prefix(c1)
<1>1. Prefix(c2) = p
  BY DEF Prefix
<1>2. CASE p \in ConfigPrefixes
  <2>1. c1 \in ConfigCells /\ c2 \in ConfigCells
    BY <1>1, <1>2, CellOfKind
  <2> QED
    BY <2>1 DEF ConfigCells
<1>3. CASE p = "SHITCOIN_COUNT"
  BY <1>1, <1>3, CellOfKind
<1>4. CASE p = "SHITCOIN_DENOM"
  <2>1. PICK i \in DOMAIN shitcoin_denom :
            c1 = <<IndexKey(i - 1), Text(NameOf[shitcoin_denom[i]])>>
    BY <1>4, CellOfKind
  <2>2. PICK j \in DOMAIN shitcoin_denom :
            c2 = <<IndexKey(j - 1), Text(NameOf[shitcoin_denom[j]])>>
    BY <1>1, <1>4, CellOfKind
  <2>3. DigitsOf[i - 1] = DigitsOf[j - 1]
    BY <2>1, <2>2 DEF IndexKey
  <2>4. i - 1 \in 0 .. Cardinality(Denoms) /\ j - 1 \in 0 .. Cardinality(Denoms)
    BY IndexesInRange
  <2>5. i - 1 = j - 1
    BY <2>3, <2>4, DigitsAssumption
  <2>6. i = j
    BY <2>5, IndexesInRange
  <2> QED
    BY <2>1, <2>2, <2>6
<1>5. CASE p \in CoinKinds
  <2>1. PICK d \in Denoms : c1 = <<CoinKey(p, d), CoinValue(p, d)>>
    BY <1>5, CellOfKind
  <2>2. PICK e \in Denoms : c2 = <<CoinKey(p, e), CoinValue(p, e)>>
    BY <1>1, <1>5, CellOfKind
  <2>3. p \in Part
    BY <1>5, KindsOfKeys
  <2>4. CoinKey(p, d) = CoinKey(p, e)
    BY <2>1, <2>2
  <2> HIDE DEF p
  <2>5. d = e
    BY <2>3, <2>4, CoinKeysApart
  <2> QED
    BY <2>1, <2>2, <2>5
<1>6. CASE p \in DegenPrefixes
  <2>1. PICK d \in Denoms, g \in Users : c1 = <<DegenKey(p, d, g), DegenValue(p, d, g)>>
    BY <1>6, CellOfKind
  <2>2. PICK e \in Denoms, h \in Users : c2 = <<DegenKey(p, e, h), DegenValue(p, e, h)>>
    BY <1>1, <1>6, CellOfKind
  <2>3. p \in Part
    BY <1>6, KindsOfKeys
  <2>4. DegenKey(p, d, g) = DegenKey(p, e, h)
    BY <2>1, <2>2
  <2> HIDE DEF p
  <2>5. d = e /\ g = h
    BY <2>3, <2>4, DegenKeysApart
  <2> QED
    BY <2>1, <2>2, <2>5
<1> QED
  BY <1>2, <1>3, <1>4, <1>5, <1>6, CellOfKind

\* No coin or degen writes over what another one has stored, whatever colons
\* are in their names.
THEOREM NoKeyShared == Spec => []KeysApart
<1>1. Inductive => TypeOK /\ ListedOnce
  BY DEF Inductive
<1>2. TypeOK /\ ListedOnce => KeysApart
  BY NoSharedKey DEF KeysApart
<1> QED
  BY <1>1, <1>2, InductiveHolds, PTL

\* Reading a cell that is there, and one that is not.
LEMMA ReadCell ==
    /\ \A type, v, default : Read({<<type, v>>}, type, default) = v
    /\ \A type, default : Read({}, type, default) = default
<1>1. ASSUME NEW type, NEW v, NEW default
      PROVE  Read({<<type, v>>}, type, default) = v
  <2>1. PICK c : c = <<type, v>>
    OBVIOUS
  <2>2. c[1] = type /\ c[2] = v
    BY <2>1
  <2>3. {c} # {} /\ (CHOOSE x \in {c} : TRUE) = c
    OBVIOUS
  <2>4. Read({c}, type, default) = c[2]
    BY <2>2, <2>3, Zenon DEF Read
  <2> QED
    BY <2>1, <2>2, <2>4, Zenon
<1>2. ASSUME NEW type, NEW default
      PROVE  Read({}, type, default) = default
  BY Zenon DEF Read
<1> QED
  BY <1>1, <1>2, Zenon

\* A key holds the value that was stored under it.
LEMMA AtStored ==
    ASSUME TypeOK, ListedOnce, NEW k, NEW v, <<k, v>> \in Storage
    PROVE  At(Storage, k) = {v}
<1>1. \A c \in Storage : c[1] = k => c = <<k, v>>
  <2>1. ASSUME NEW c \in Storage, c[1] = k PROVE c = <<k, v>>
    <3>1. PICK o : o = <<k, v>>
      OBVIOUS
    <3>2. o \in Storage /\ o[1] = k
      BY <3>1
    <3>3. c = o
      BY <2>1, <3>2, NoSharedKey
    <3> QED
      BY <3>1, <3>3
  <2> QED
    BY <2>1
<1>2. \A c : c = <<k, v>> => c[1] = k /\ c[2] = v
  OBVIOUS
<1>3. {c \in Storage : c[1] = k} = {<<k, v>>}
  <2> HIDE DEF Storage
  <2> QED
    BY <1>1, <1>2
<1>4. At(Storage, k) = {c[2] : c \in {<<k, v>>}}
  BY <1>3, Zenon DEF At
<1> QED
  BY <1>2, <1>4

\* The key of a coin holds what the coin has stored, and nothing when it has
\* stored nothing.
LEMMA AtCoinKey ==
    ASSUME TypeOK, ListedOnce, NEW d \in Denoms, Created(d), NEW p \in CoinKinds
    PROVE  At(Storage, CoinKey(p, d)) =
              IF p \in KeysOfCoin(d) THEN {CoinValue(p, d)} ELSE {}
<1>1. CASE p \in KeysOfCoin(d)
  <2>1. PICK c : c = <<CoinKey(p, d), CoinValue(p, d)>>
    OBVIOUS
  <2>2. c \in Storage
    BY <1>1, <2>1, StoredCells
  <2>3. <<CoinKey(p, d), CoinValue(p, d)>> \in Storage
    BY <2>1, <2>2
  <2> QED
    BY <1>1, <2>3, AtStored
<1>2. CASE p \notin KeysOfCoin(d)
  <2>1. ASSUME NEW c \in Storage, c[1] = CoinKey(p, d) PROVE FALSE
    <3>1. p \in Part
      BY KindsOfKeys
    <3>2. Prefix(c) = p
      BY <2>1, <3>1, CoinKeyParts DEF Prefix
    <3>3. PICK e \in Denoms : p \in KeysOfCoin(e) /\ c = <<CoinKey(p, e), CoinValue(p, e)>>
      BY <3>2, CellOfKind
    <3>4. CoinKey(p, d) = CoinKey(p, e)
      BY <2>1, <3>3
    <3>5. d = e
      BY <3>1, <3>4, CoinKeysApart
    <3> QED
      BY <1>2, <3>3, <3>5
  <2> QED
    BY <1>2, <2>1 DEF At
<1> QED
  BY <1>1, <1>2

\* And so does the key of a degen.
LEMMA AtDegenKey ==
    ASSUME TypeOK, ListedOnce, NEW d \in Denoms, Created(d), NEW g \in Users,
           NEW p \in DegenPrefixes
    PROVE  At(Storage, DegenKey(p, d, g)) =
              IF p \in KeysOfDegen(d, g) THEN {DegenValue(p, d, g)} ELSE {}
<1>1. CASE p \in KeysOfDegen(d, g)
  <2>1. PICK c : c = <<DegenKey(p, d, g), DegenValue(p, d, g)>>
    OBVIOUS
  <2>2. c \in Storage
    BY <1>1, <2>1, StoredCells
  <2>3. <<DegenKey(p, d, g), DegenValue(p, d, g)>> \in Storage
    BY <2>1, <2>2
  <2> QED
    BY <1>1, <2>3, AtStored
<1>2. CASE p \notin KeysOfDegen(d, g)
  <2>1. ASSUME NEW c \in Storage, c[1] = DegenKey(p, d, g) PROVE FALSE
    <3>1. p \in Part
      BY KindsOfKeys
    <3>2. Prefix(c) = p
      BY <2>1, <3>1, DegenKeyParts DEF Prefix
    <3>3. PICK e \in Denoms, h \in Users :
              p \in KeysOfDegen(e, h) /\ c = <<DegenKey(p, e, h), DegenValue(p, e, h)>>
      BY <3>2, CellOfKind
    <3>4. DegenKey(p, d, g) = DegenKey(p, e, h)
      BY <2>1, <3>3
    <3>5. d = e /\ g = h
      BY <3>1, <3>4, DegenKeysApart
    <3> QED
      BY <1>2, <3>3, <3>5
  <2> QED
    BY <1>2, <2>1 DEF At
<1> QED
  BY <1>1, <1>2

\* The values that reading a coin, or a degen, leads to.
CoinRecord(d) ==
    [creator |-> shitcoin_creator[d], ticker |-> shitcoin_ticker[d],
     url |-> shitcoin_url[d], presale_end |-> presale_end[d],
     presale_raise |-> presale_raise[d], supply |-> shitcoin_supply[d],
     launched |-> shitcoin_launched[d]]

DegenRecord(d, g) ==
    [submission |-> presale_submission[d][g], claimed |-> presale_claimed[d][g]]

\* What there is of a kind, read with the type the contract writes it in.
LEMMA ReadKinds ==
    ASSUME TypeOK, NEW d \in Denoms, NEW values,
           \A p \in CoinKinds :
               values[p] = IF p \in KeysOfCoin(d) THEN {CoinValue(p, d)} ELSE {}
    PROVE  /\ Read(values["SHITCOIN_CREATOR"], "text", None) = shitcoin_creator[d]
           /\ Read(values["SHITCOIN_TICKER"], "text", None) = shitcoin_ticker[d]
           /\ Read(values["SHITCOIN_URL"], "text", None) = shitcoin_url[d]
           /\ \A n : Read(values["PRESALE_END"], "u64", n) = presale_end[d]
           /\ \A n : Read(values["PRESALE_RAISE"], "u128", n) = presale_raise[d]
           /\ \A n : Read(values["SHITCOIN_SUPPLY"], "u128", n) = shitcoin_supply[d]
           /\ Read(values["SHITCOIN_LAUNCHED"], "bool", FALSE) = shitcoin_launched[d]
<1>1. /\ values["SHITCOIN_CREATOR"] = {<<"text", shitcoin_creator[d]>>}
      /\ values["SHITCOIN_TICKER"] = {<<"text", shitcoin_ticker[d]>>}
      /\ values["PRESALE_END"] = {<<"u64", presale_end[d]>>}
      /\ values["PRESALE_RAISE"] = {<<"u128", presale_raise[d]>>}
      /\ values["SHITCOIN_SUPPLY"] = {<<"u128", shitcoin_supply[d]>>}
  BY DEF CoinKinds, KeysOfCoin, CoinValue, Text, U64, U128
<1>2. values["SHITCOIN_URL"] =
          IF shitcoin_url[d] # None THEN {<<"text", shitcoin_url[d]>>} ELSE {}
  BY DEF CoinKinds, KeysOfCoin, CoinValue, Text
<1>3. values["SHITCOIN_LAUNCHED"] =
          IF shitcoin_launched[d] THEN {<<"bool", TRUE>>} ELSE {}
  BY DEF CoinKinds, KeysOfCoin, CoinValue, Bool
<1>4. shitcoin_launched[d] \in BOOLEAN
  BY DEF TypeOK
<1>5. Read(values["SHITCOIN_LAUNCHED"], "bool", FALSE) = shitcoin_launched[d]
  <2>1. /\ Read({<<"bool", TRUE>>}, "bool", FALSE) = TRUE
        /\ Read({}, "bool", FALSE) = FALSE
    BY ReadCell, Zenon
  <2>2. CASE shitcoin_launched[d] = TRUE
    <3>1. values["SHITCOIN_LAUNCHED"] = {<<"bool", TRUE>>}
      BY <1>3, <2>2
    <3> QED
      BY <2>1, <2>2, <3>1, Zenon
  <2>3. CASE shitcoin_launched[d] = FALSE
    <3>1. values["SHITCOIN_LAUNCHED"] = {}
      BY <1>3, <2>3
    <3> QED
      BY <2>1, <2>3, <3>1, Zenon
  <2> QED
    BY <1>4, <2>2, <2>3
<1>6. Read(values["SHITCOIN_URL"], "text", None) = shitcoin_url[d]
  <2>1. \A x : Read({<<"text", x>>}, "text", None) = x
    BY ReadCell, Zenon
  <2>2. Read({}, "text", None) = None
    BY ReadCell, Zenon
  <2> QED
    BY <1>2, <2>1, <2>2, Zenon
<1>7. /\ Read({<<"text", shitcoin_creator[d]>>}, "text", None) = shitcoin_creator[d]
      /\ Read({<<"text", shitcoin_ticker[d]>>}, "text", None) = shitcoin_ticker[d]
      /\ \A n : Read({<<"u64", presale_end[d]>>}, "u64", n) = presale_end[d]
      /\ \A n : Read({<<"u128", presale_raise[d]>>}, "u128", n) = presale_raise[d]
      /\ \A n : Read({<<"u128", shitcoin_supply[d]>>}, "u128", n) = shitcoin_supply[d]
  <2>1. \A x : Read({<<"text", x>>}, "text", None) = x
    BY ReadCell, Zenon
  <2>2. \A x, n : Read({<<"u64", x>>}, "u64", n) = x
    BY ReadCell, Zenon
  <2>3. \A x, n : Read({<<"u128", x>>}, "u128", n) = x
    BY ReadCell, Zenon
  <2>4. \A n : Read({<<"u64", presale_end[d]>>}, "u64", n) = presale_end[d]
    BY <2>2, Zenon
  <2>5. \A n : Read({<<"u128", presale_raise[d]>>}, "u128", n) = presale_raise[d]
    BY <2>3, Zenon
  <2>6. \A n : Read({<<"u128", shitcoin_supply[d]>>}, "u128", n) = shitcoin_supply[d]
    BY <2>3, Zenon
  <2> QED
    BY <2>1, <2>4, <2>5, <2>6, Zenon
<1>8. /\ Read(values["SHITCOIN_CREATOR"], "text", None) = shitcoin_creator[d]
      /\ Read(values["SHITCOIN_TICKER"], "text", None) = shitcoin_ticker[d]
      /\ \A n : Read(values["PRESALE_END"], "u64", n) = presale_end[d]
      /\ \A n : Read(values["PRESALE_RAISE"], "u128", n) = presale_raise[d]
      /\ \A n : Read(values["SHITCOIN_SUPPLY"], "u128", n) = shitcoin_supply[d]
  BY <1>1, <1>7, Zenon
<1> QED
  BY <1>5, <1>6, <1>8

\* And so for a degen.
LEMMA ReadDegenKinds ==
    ASSUME TypeOK, NEW d \in Denoms, NEW g \in Users, NEW values,
           \A p \in DegenPrefixes :
               values[p] = IF p \in KeysOfDegen(d, g) THEN {DegenValue(p, d, g)} ELSE {}
    PROVE  /\ Read(values["PRESALE_SUBMISSION"], "u128", 0) = presale_submission[d][g]
           /\ Read(values["PRESALE_CLAIMED"], "bool", FALSE) = presale_claimed[d][g]
<1>1. presale_submission[d][g] \in Nat /\ presale_claimed[d][g] \in BOOLEAN
  BY DEF TypeOK
<1>2. values["PRESALE_SUBMISSION"] =
          IF presale_submission[d][g] > 0 THEN {<<"u128", presale_submission[d][g]>>} ELSE {}
  BY DEF DegenPrefixes, KeysOfDegen, DegenValue, U128
<1>3. values["PRESALE_CLAIMED"] =
          IF presale_claimed[d][g] THEN {<<"bool", TRUE>>} ELSE {}
  BY DEF DegenPrefixes, KeysOfDegen, DegenValue, Bool
<1>4. Read(values["PRESALE_SUBMISSION"], "u128", 0) = presale_submission[d][g]
  <2>1. /\ \A v : Read({<<"u128", v>>}, "u128", 0) = v
        /\ Read({}, "u128", 0) = 0
    BY ReadCell, Zenon
  <2>2. CASE presale_submission[d][g] > 0
    <3>1. values["PRESALE_SUBMISSION"] = {<<"u128", presale_submission[d][g]>>}
      BY <1>2, <2>2
    <3> QED
      BY <2>1, <3>1, Zenon
  <2>3. CASE presale_submission[d][g] = 0
    <3>1. values["PRESALE_SUBMISSION"] = {}
      BY <1>2, <2>3
    <3> QED
      BY <2>1, <2>3, <3>1, Zenon
  <2> QED
    BY <1>1, <2>2, <2>3
<1>5. Read(values["PRESALE_CLAIMED"], "bool", FALSE) = presale_claimed[d][g]
  <2>1. /\ Read({<<"bool", TRUE>>}, "bool", FALSE) = TRUE
        /\ Read({}, "bool", FALSE) = FALSE
    BY ReadCell, Zenon
  <2>2. CASE presale_claimed[d][g] = TRUE
    <3>1. values["PRESALE_CLAIMED"] = {<<"bool", TRUE>>}
      BY <1>3, <2>2
    <3> QED
      BY <2>1, <2>2, <3>1, Zenon
  <2>3. CASE presale_claimed[d][g] = FALSE
    <3>1. values["PRESALE_CLAIMED"] = {}
      BY <1>3, <2>3
    <3> QED
      BY <2>1, <2>3, <3>1, Zenon
  <2> QED
    BY <1>1, <2>2, <2>3
<1> QED
  BY <1>4, <1>5

\* The queries of the events lead to what the contract works with.
LEMMA QueriesRead ==
    ASSUME TypeOK, ListedOnce, NEW d \in Denoms, Created(d)
    PROVE  /\ QueriedShitcoin(Storage, d) = CoinRecord(d)
           /\ \A g \in Users : QueriedDegen(Storage, d, g) = DegenRecord(d, g)
<1>1. QueriedShitcoin(Storage, d) = CoinRecord(d)
  <2>1. PICK values : values = [p \in CoinKinds |-> At(Storage, CoinKey(p, d))]
    OBVIOUS
  <2>2. \A p \in CoinKinds : values[p] = IF p \in KeysOfCoin(d) THEN {CoinValue(p, d)} ELSE {}
    BY <2>1, AtCoinKey
  <2>3. /\ Read(values["SHITCOIN_CREATOR"], "text", None) = shitcoin_creator[d]
        /\ Read(values["SHITCOIN_TICKER"], "text", None) = shitcoin_ticker[d]
        /\ Read(values["SHITCOIN_URL"], "text", None) = shitcoin_url[d]
        /\ \A n : Read(values["PRESALE_END"], "u64", n) = presale_end[d]
        /\ \A n : Read(values["PRESALE_RAISE"], "u128", n) = presale_raise[d]
        /\ \A n : Read(values["SHITCOIN_SUPPLY"], "u128", n) = shitcoin_supply[d]
        /\ Read(values["SHITCOIN_LAUNCHED"], "bool", FALSE) = shitcoin_launched[d]
    BY <2>2, ReadKinds
  <2>4. \A p \in CoinKinds : At(Storage, CoinKey(p, d)) = values[p]
    BY <2>1
  <2> HIDE DEF Storage
  <2> QED
    BY <2>3, <2>4 DEF QueriedShitcoin, CoinRecord, CoinKinds
<1>2. ASSUME NEW g \in Users
      PROVE  QueriedDegen(Storage, d, g) = DegenRecord(d, g)
  <2>1. PICK values : values = [p \in DegenPrefixes |-> At(Storage, DegenKey(p, d, g))]
    OBVIOUS
  <2>2. \A p \in DegenPrefixes :
            values[p] = IF p \in KeysOfDegen(d, g) THEN {DegenValue(p, d, g)} ELSE {}
    BY <2>1, AtDegenKey
  <2>3. /\ Read(values["PRESALE_SUBMISSION"], "u128", 0) = presale_submission[d][g]
        /\ Read(values["PRESALE_CLAIMED"], "bool", FALSE) = presale_claimed[d][g]
    BY <2>2, ReadDegenKinds
  <2>4. \A p \in DegenPrefixes : At(Storage, RawDegenKey(p, d, g)) = values[p]
    BY <2>1 DEF RawDegenKey, DegenKey
  <2> QED
    BY <2>3, <2>4 DEF QueriedDegen, DegenRecord, DegenPrefixes
<1> QED
  BY <1>1, <1>2

\* What the event handlers of the server query is what the contract works
\* with, whatever colons are in the names.
THEOREM QueriesReadTheState == Spec => []QueriesAgree
<1>1. Inductive => TypeOK /\ ListedOnce
  BY DEF Inductive
<1>2. TypeOK /\ ListedOnce => QueriesAgree
  BY QueriesRead DEF QueriesAgree, CoinRecord, DegenRecord
<1> QED
  BY <1>1, <1>2, InductiveHolds, PTL

\* The coins listed in a decoded snapshot are the contract's, in its order.
LEMMA IndexesDecode ==
    ASSUME TypeOK, ListedOnce, NEW i \in DOMAIN DecodedIndexes(Storage)
    PROVE  /\ i + 1 \in DOMAIN shitcoin_denom
           /\ DecodedIndexes(Storage)[i] = NameOf[shitcoin_denom[i + 1]]
<1> DEFINE listed == {n \in 0 .. Len(shitcoin_denom) : At(Storage, IndexKey(n)) # {}}
<1>1. DecodedIndexes(Storage) =
          [n \in listed |-> Read(At(Storage, IndexKey(n)), "text", None)]
  BY DEF DecodedIndexes
<1>2. /\ i \in 0 .. Len(shitcoin_denom) /\ At(Storage, IndexKey(i)) # {}
      /\ DecodedIndexes(Storage)[i] = Read(At(Storage, IndexKey(i)), "text", None)
  <2> HIDE DEF Storage
  <2> QED
    BY <1>1
<1>3. PICK c \in Storage : c[1] = IndexKey(i)
  <2> HIDE DEF Storage
  <2> QED
    BY <1>2 DEF At
<1>4. PICK j \in DOMAIN shitcoin_denom :
          c = <<IndexKey(j - 1), Text(NameOf[shitcoin_denom[j]])>>
  <2>1. Prefix(c) = "SHITCOIN_DENOM"
    BY <1>3 DEF Prefix, IndexKey
  <2> QED
    BY <2>1, CellOfKind
<1>5. j - 1 = i /\ j = i + 1
  <2>1. DigitsOf[j - 1] = DigitsOf[i]
    BY <1>3, <1>4 DEF IndexKey
  <2>2. j - 1 \in 0 .. Cardinality(Denoms) /\ i \in 0 .. Cardinality(Denoms)
    BY <1>2, IndexesInRange
  <2>3. j - 1 = i
    BY <2>1, <2>2, DigitsAssumption
  <2> QED
    BY <2>2, <2>3, IndexesInRange
<1>6. At(Storage, IndexKey(i)) = {Text(NameOf[shitcoin_denom[i + 1]])}
  <2>1. <<IndexKey(i), Text(NameOf[shitcoin_denom[i + 1]])>> \in Storage
    BY <1>4, <1>5
  <2> QED
    BY <2>1, AtStored
<1>7. Read({Text(NameOf[shitcoin_denom[i + 1]])}, "text", None) = NameOf[shitcoin_denom[i + 1]]
  BY ReadCell, Zenon DEF Text
<1> QED
  BY <1>2, <1>4, <1>5, <1>6, <1>7, Zenon

\* Of one cell, and of none, the last.
LEMMA LastOfFew ==
    /\ \A k, v : Len(k) \in Nat => LastOf({<<k, v>>}) = {v}
    /\ LastOf({}) = {}
<1>1. ASSUME NEW k, NEW v, Len(k) \in Nat
      PROVE  LastOf({<<k, v>>}) = {v}
  <2>1. PICK c : c = <<k, v>>
    OBVIOUS
  <2>2. Len(c[1]) <= Len(c[1]) /\ c[2] = v
    BY <1>1, <2>1
  <2>3. LastOf({c}) = {c[2]}
    BY <2>2 DEF LastOf
  <2> QED
    BY <2>1, <2>2, <2>3, Zenon
<1> QED
  BY <1>1 DEF LastOf

\* A coin with a plain name has its cells to itself: what decodes to its name
\* is what it has stored.
LEMMA PlainCells ==
    ASSUME TypeOK, NEW d \in Denoms, Created(d), PlainName(d), NEW p \in CoinKinds
    PROVE  CellsOf(Storage, {p}, NameOf[d][1]) =
              IF p \in KeysOfCoin(d) THEN {<<CoinKey(p, d), CoinValue(p, d)>>} ELSE {}
<1>1. p \in Part
  BY KindsOfKeys
<1>2. PICK own : own = <<CoinKey(p, d), CoinValue(p, d)>>
  OBVIOUS
<1>3. ASSUME NEW c \in Storage, Prefix(c) = p, DenomPart(c[1]) = NameOf[d][1]
      PROVE  p \in KeysOfCoin(d) /\ c = own
  <2>1. PICK e \in Denoms : /\ Created(e) /\ p \in KeysOfCoin(e)
                            /\ c = <<CoinKey(p, e), CoinValue(p, e)>>
    BY <1>3, CellOfKind
  <2>2. CoinKey(p, e)[2] = NameOf[e][1]
    BY <1>1, CoinKeyParts
  <2>3. NameOf[e][1] = NameOf[d][1]
    BY <1>3, <2>1, <2>2 DEF DenomPart
  <2>4. e = d
    BY <2>1, <2>3 DEF PlainName
  <2> QED
    BY <1>2, <2>1, <2>4
<1>4. ASSUME p \in KeysOfCoin(d)
      PROVE  own \in Storage /\ Prefix(own) = p /\ DenomPart(own[1]) = NameOf[d][1]
  <2>1. own \in Storage
    BY <1>2, <1>4, StoredCells
  <2>2. CoinKey(p, d)[1] = p /\ CoinKey(p, d)[2] = NameOf[d][1]
    BY <1>1, CoinKeyParts
  <2> QED
    BY <1>2, <2>1, <2>2 DEF Prefix, DenomPart
<1>5. CellsOf(Storage, {p}, NameOf[d][1]) = IF p \in KeysOfCoin(d) THEN {own} ELSE {}
  <2> HIDE DEF Storage
  <2> QED
    BY <1>3, <1>4 DEF CellsOf, Prefix
<1> QED
  BY <1>2, <1>5

\* And so have its degens.
LEMMA PlainDegenCells ==
    ASSUME TypeOK, NEW d \in Denoms, Created(d), PlainName(d), NEW g \in Users,
           NEW p \in DegenPrefixes
    PROVE  {c \in CellsOf(Storage, {p}, NameOf[d][1]) : DegenPart(c[1]) = NameOf[g][1]} =
              IF p \in KeysOfDegen(d, g) THEN {<<DegenKey(p, d, g), DegenValue(p, d, g)>>}
                                         ELSE {}
<1>1. p \in Part
  BY KindsOfKeys
<1>2. PICK own : own = <<DegenKey(p, d, g), DegenValue(p, d, g)>>
  OBVIOUS
<1>3. ASSUME NEW h \in Users
      PROVE  DegenKey(p, d, h)[3] = NameOf[h][1]
  <2>1. Len(NameOf[d]) + 2 = 3
    BY DEF PlainName
  <2> QED
    BY <1>1, <2>1, DegenKeyParts
<1>4. ASSUME NEW c \in Storage, Prefix(c) = p, DenomPart(c[1]) = NameOf[d][1],
             DegenPart(c[1]) = NameOf[g][1]
      PROVE  p \in KeysOfDegen(d, g) /\ c = own
  <2>1. PICK e \in Denoms, h \in Users :
            /\ Created(e) /\ p \in KeysOfDegen(e, h)
            /\ c = <<DegenKey(p, e, h), DegenValue(p, e, h)>>
    BY <1>4, CellOfKind
  <2>2. DegenKey(p, e, h)[2] = NameOf[e][1]
    BY <1>1, DegenKeyParts
  <2>3. NameOf[e][1] = NameOf[d][1]
    BY <1>4, <2>1, <2>2 DEF DenomPart
  <2>4. e = d
    BY <2>1, <2>3 DEF PlainName
  <2>5. NameOf[h][1] = NameOf[g][1]
    BY <1>3, <1>4, <2>1, <2>4 DEF DegenPart
  <2>6. h = g
    <3>1. g \in Named /\ h \in Named /\ Len(NameOf[g]) = 1 /\ Len(NameOf[h]) = 1
      BY NameTypes DEF Named
    <3>2. \A i \in 1 .. Len(NameOf[h]) : NameOf[h][i] = NameOf[g][i]
      BY <2>5, <3>1
    <3> QED
      BY <3>1, <3>2, SameName
  <2> QED
    BY <1>2, <2>1, <2>4, <2>6
<1>5. ASSUME p \in KeysOfDegen(d, g)
      PROVE  /\ own \in Storage /\ Prefix(own) = p /\ DenomPart(own[1]) = NameOf[d][1]
             /\ DegenPart(own[1]) = NameOf[g][1]
  <2>1. own \in Storage
    BY <1>2, <1>5, StoredCells
  <2>2. DegenKey(p, d, g)[1] = p /\ DegenKey(p, d, g)[2] = NameOf[d][1]
    BY <1>1, DegenKeyParts
  <2> QED
    BY <1>2, <1>3, <2>1, <2>2 DEF Prefix, DenomPart, DegenPart
<1>6. {c \in CellsOf(Storage, {p}, NameOf[d][1]) : DegenPart(c[1]) = NameOf[g][1]} =
          IF p \in KeysOfDegen(d, g) THEN {own} ELSE {}
  <2> HIDE DEF Storage
  <2> QED
    BY <1>4, <1>5 DEF CellsOf, Prefix
<1> QED
  BY <1>2, <1>6

\* A snapshot decodes to what a coin with a plain name has stored.
LEMMA PlainCoinDecodes ==
    ASSUME TypeOK, NEW d \in Denoms, Created(d), PlainName(d)
    PROVE  HasEntry(Storage, d) /\ DecodedShitcoin(Storage, d) = CoinRecord(d)
<1>1. PICK cells : cells = [p \in CoinKinds |-> CellsOf(Storage, {p}, NameOf[d][1])]
  OBVIOUS
<1>2. PICK values : values = [p \in CoinKinds |-> LastOf(cells[p])]
  OBVIOUS
<1>3. ASSUME NEW p \in CoinKinds
      PROVE  values[p] = IF p \in KeysOfCoin(d) THEN {CoinValue(p, d)} ELSE {}
  <2>1. cells[p] = IF p \in KeysOfCoin(d) THEN {<<CoinKey(p, d), CoinValue(p, d)>>} ELSE {}
    BY <1>1, PlainCells
  <2>2. Len(CoinKey(p, d)) \in Nat
    <3>1. p \in Part /\ Len(NameOf[d]) \in Nat
      BY KindsOfKeys, NameTypes DEF Named
    <3> QED
      BY <3>1, CoinKeyParts
  <2>3. LastOf({<<CoinKey(p, d), CoinValue(p, d)>>}) = {CoinValue(p, d)} /\ LastOf({}) = {}
    BY <2>2, LastOfFew
  <2> QED
    BY <1>2, <2>1, <2>3, Zenon
<1>4. /\ Read(values["SHITCOIN_CREATOR"], "text", None) = shitcoin_creator[d]
      /\ Read(values["SHITCOIN_TICKER"], "text", None) = shitcoin_ticker[d]
      /\ Read(values["SHITCOIN_URL"], "text", None) = shitcoin_url[d]
      /\ \A n : Read(values["PRESALE_END"], "u64", n) = presale_end[d]
      /\ \A n : Read(values["PRESALE_RAISE"], "u128", n) = presale_raise[d]
      /\ \A n : Read(values["SHITCOIN_SUPPLY"], "u128", n) = shitcoin_supply[d]
      /\ Read(values["SHITCOIN_LAUNCHED"], "bool", FALSE) = shitcoin_launched[d]
  BY <1>3, ReadKinds
<1>5. \A p \in CoinKinds : LastOf(CellsOf(Storage, {p}, NameOf[d][1])) = values[p]
  BY <1>1, <1>2, Zenon
<1>6. DecodedShitcoin(Storage, d) = CoinRecord(d)
  <2> HIDE DEF Storage
  <2> QED
    BY <1>4, <1>5 DEF DecodedShitcoin, CoinRecord, CoinKinds
<1>7. HasEntry(Storage, d)
  <2>1. "PRESALE_END" \in CoinKinds /\ "PRESALE_END" \in KeysOfCoin(d)
    BY DEF CoinKinds, KeysOfCoin
  <2>2. CellsOf(Storage, {"PRESALE_END"}, NameOf[d][1]) # {}
    BY <2>1, PlainCells
  <2>3. CellsOf(Storage, ShitcoinPrefixes, NameOf[d][1]) # {}
    <3> HIDE DEF Storage
    <3> QED
      BY <2>2 DEF CellsOf, ShitcoinPrefixes
  <2> QED
    BY <2>3 DEF HasEntry, PlainName
<1> QED
  BY <1>6, <1>7

LEMMA PlainDegenDecodes ==
    ASSUME TypeOK, NEW d \in Denoms, Created(d), PlainName(d), NEW g \in Users
    PROVE  DecodedDegen(Storage, d, g) = DegenRecord(d, g)
<1>1. PICK cells : cells = [p \in DegenPrefixes |->
          {c \in CellsOf(Storage, {p}, NameOf[d][1]) : DegenPart(c[1]) = NameOf[g][1]}]
  OBVIOUS
<1>2. PICK values : values = [p \in DegenPrefixes |-> LastOf(cells[p])]
  OBVIOUS
<1>3. ASSUME NEW p \in DegenPrefixes
      PROVE  values[p] = IF p \in KeysOfDegen(d, g) THEN {DegenValue(p, d, g)} ELSE {}
  <2>1. cells[p] =
            IF p \in KeysOfDegen(d, g) THEN {<<DegenKey(p, d, g), DegenValue(p, d, g)>>} ELSE {}
    BY <1>1, PlainDegenCells
  <2>2. Len(DegenKey(p, d, g)) \in Nat
    <3>1. p \in Part /\ Len(NameOf[d]) \in Nat
      BY KindsOfKeys, NameTypes DEF Named
    <3> QED
      BY <3>1, DegenKeyParts
  <2>3. /\ LastOf({<<DegenKey(p, d, g), DegenValue(p, d, g)>>}) = {DegenValue(p, d, g)}
        /\ LastOf({}) = {}
    BY <2>2, LastOfFew
  <2> QED
    BY <1>2, <2>1, <2>3, Zenon
<1>4. /\ Read(values["PRESALE_SUBMISSION"], "u128", 0) = presale_submission[d][g]
      /\ Read(values["PRESALE_CLAIMED"], "bool", FALSE) = presale_claimed[d][g]
  BY <1>3, ReadDegenKinds
<1>5. \A p \in DegenPrefixes :
          LastOf({c \in CellsOf(Storage, {p}, NameOf[d][1]) : DegenPart(c[1]) = NameOf[g][1]})
          = values[p]
  BY <1>1, <1>2, Zenon
<1> QED
  <2> HIDE DEF Storage
  <2> QED
    BY <1>4, <1>5 DEF DecodedDegen, DegenRecord, DegenPrefixes

\* The snapshot the server takes at its start agrees with the queries it makes
\* at an event: for every coin with a plain name, whatever colons the names of
\* other coins have, both lead to the same entry.
THEOREM SnapshotDecodes == Spec => []SnapshotAgrees
<1>1. Inductive => TypeOK /\ ListedOnce
  BY DEF Inductive
<1>2. ASSUME TypeOK, ListedOnce
      PROVE  SnapshotAgrees
  <2>1. \A i \in DOMAIN DecodedIndexes(Storage) :
            DecodedIndexes(Storage)[i] = NameOf[shitcoin_denom[i + 1]]
    BY <1>2, IndexesDecode
  <2>2. ASSUME NEW d \in Denoms, Created(d), PlainName(d)
        PROVE  /\ HasEntry(Storage, d)
               /\ DecodedShitcoin(Storage, d) = QueriedShitcoin(Storage, d)
               /\ \A g \in Users : DecodedDegen(Storage, d, g) = QueriedDegen(Storage, d, g)
    BY <1>2, <2>2, QueriesRead, PlainCoinDecodes, PlainDegenDecodes
  <2> QED
    BY <2>1, <2>2, Zenon DEF SnapshotAgrees
<1> QED
  BY <1>1, <1>2, InductiveHolds, PTL

\* A coin without a colon in its name has an entry, whosever the names are that
\* begin with it.
LEMMA PlainHasEntry ==
    ASSUME TypeOK, NEW d \in Denoms, Created(d), Len(NameOf[d]) = 1
    PROVE  HasEntry(Storage, d)
<1>1. PICK own : own = <<CoinKey("PRESALE_END", d), CoinValue("PRESALE_END", d)>>
  OBVIOUS
<1>2. "PRESALE_END" \in CoinKinds /\ "PRESALE_END" \in KeysOfCoin(d) /\ "PRESALE_END" \in Part
  BY KindsOfKeys DEF CoinKinds, KeysOfCoin
<1>3. own \in Storage
  BY <1>1, <1>2, StoredCells
<1>4. own[1][1] = "PRESALE_END" /\ DenomPart(own[1]) = NameOf[d][1]
  BY <1>1, <1>2, CoinKeyParts DEF DenomPart
<1> HIDE DEF Storage
<1>5. own \in CellsOf(Storage, ShitcoinPrefixes, NameOf[d][1])
  BY <1>3, <1>4 DEF CellsOf, ShitcoinPrefixes
<1> QED
  BY <1>5 DEF HasEntry

\* Every listed coin has an index to decode.
LEMMA ListedHaveIndexes ==
    ASSUME TypeOK, ListedOnce, NEW j \in DOMAIN shitcoin_denom
    PROVE  j - 1 \in DOMAIN DecodedIndexes(Storage)
<1>1. j - 1 \in 0 .. Len(shitcoin_denom)
  BY IndexesInRange
<1>2. <<IndexKey(j - 1), Text(NameOf[shitcoin_denom[j]])>> \in Storage
  BY StoredCells
<1>3. At(Storage, IndexKey(j - 1)) # {}
  BY <1>2, AtStored
<1> HIDE DEF Storage
<1> QED
  BY <1>1, <1>3 DEF DecodedIndexes

\* The list page can be rendered from a decoded snapshot exactly as long as no
\* coin has a colon in its name: one is enough to break it for everyone, and
\* nothing else does.
THEOREM ColonsBreakTheList ==
    Spec => [](ListedCoinsDecode <=> \A d \in Denoms : Created(d) => Len(NameOf[d]) = 1)
<1>1. Inductive => TypeOK /\ ListedOnce
  BY DEF Inductive
<1>2. ASSUME TypeOK, ListedOnce, \A d \in Denoms : Created(d) => Len(NameOf[d]) = 1
      PROVE  ListedCoinsDecode
  <2>1. ASSUME NEW i \in DOMAIN DecodedIndexes(Storage)
        PROVE  \E d \in Denoms : NameOf[d] = DecodedIndexes(Storage)[i] /\ HasEntry(Storage, d)
    <3>1. PICK d : d = shitcoin_denom[i + 1]
      OBVIOUS
    <3>2. /\ i + 1 \in DOMAIN shitcoin_denom /\ DecodedIndexes(Storage)[i] = NameOf[d]
      BY <1>2, <2>1, <3>1, IndexesDecode
    <3>3. d \in Denoms /\ Created(d)
      BY <1>2, <3>1, <3>2 DEF ListedOnce
    <3>4. HasEntry(Storage, d)
      BY <1>2, <3>3, PlainHasEntry
    <3> QED
      BY <3>2, <3>3, <3>4
  <2> QED
    BY <2>1, Zenon DEF ListedCoinsDecode
<1>3. ASSUME TypeOK, ListedOnce, ListedCoinsDecode, NEW d \in Denoms, Created(d)
      PROVE  Len(NameOf[d]) = 1
  <2>1. PICK j \in DOMAIN shitcoin_denom : shitcoin_denom[j] = d
    BY <1>3 DEF ListedOnce
  <2>2. j - 1 \in DOMAIN DecodedIndexes(Storage)
    BY <1>3, ListedHaveIndexes
  <2>3. PICK e \in Denoms : NameOf[e] = DecodedIndexes(Storage)[j - 1] /\ HasEntry(Storage, e)
    BY <1>3, <2>2, Zenon DEF ListedCoinsDecode
  <2>4. DecodedIndexes(Storage)[j - 1] = NameOf[d]
    <3>1. DecodedIndexes(Storage)[j - 1] = NameOf[shitcoin_denom[(j - 1) + 1]]
      BY <1>3, <2>2, IndexesDecode
    <3>2. (j - 1) + 1 = j
      BY <1>3, IndexesInRange
    <3> QED
      BY <2>1, <3>1, <3>2
  <2> QED
    BY <2>3, <2>4 DEF HasEntry
<1>4. Inductive => (ListedCoinsDecode <=> \A d \in Denoms : Created(d) => Len(NameOf[d]) = 1)
  BY <1>1, <1>2, <1>3
<1> QED
  BY <1>4, InductiveHolds, PTL
-----------------------------------------------------------------------------
(***************************************************************************)
(* The countdown of a row.                                                 *)
(***************************************************************************)

\* No presale ends later than one that is created or extended now.
EndsAreNear == \A d \in Denoms : presale_end[d] <= now + config.presale_length

LEMMA EndsStayNear ==
    ASSUME TypeOK, EndsAreNear, [Next]_vars
    PROVE  EndsAreNear'
<1>1. /\ now \in Nat /\ config.presale_length \in Nat
      /\ DOMAIN presale_end = Denoms /\ \A d \in Denoms : presale_end[d] \in Nat
  BY AmountsAssumption DEF TypeOK, ConfigType
<1>2. CASE UNCHANGED <<config, now, presale_end>>
  BY <1>2 DEF EndsAreNear
<1>3. CASE /\ UNCHANGED <<config, now>>
           /\ \E d \in Denoms :
                 presale_end' = [presale_end EXCEPT ![d] = now + config.presale_length]
  BY <1>1, <1>3 DEF EndsAreNear
<1>4. CASE Tick
  BY <1>1, <1>4 DEF Tick, saleVars, EndsAreNear
<1>5. ASSUME NEW u \in Users, NEW t \in Tickers, NEW s \in Supplies, NEW f \in Funds,
             CreateShitcoin(u, t, s, f)
      PROVE  EndsAreNear'
  <2>1. DenomOf[t] \in Denoms
    BY NamesAssumption
  <2> QED
    BY <1>3, <1>5, <2>1 DEF CreateShitcoin
<1>6. CASE \E u \in Users, d \in Denoms, x \in Attachments : ExtendPresale(u, d, x)
  BY <1>3, <1>6 DEF ExtendPresale
<1>7. CASE \/ \E u \in Users, d \in Denoms, f \in Funds : EnterPresale(u, d, f)
           \/ \E u \in Users, d \in Denoms, x \in Attachments : LaunchShitcoin(u, d, x)
           \/ \E u \in Users, d \in Denoms, x \in Attachments : ClaimShitcoin(u, d, x)
           \/ \E u \in Users, d \in Denoms, x \in Attachments, url \in Urls :
                 SetShitcoinUrl(u, d, url, x)
           \/ UNCHANGED vars
  BY <1>2, <1>7 DEF EnterPresale, LaunchShitcoin, ClaimShitcoin, SetShitcoinUrl, saleVars, vars
<1> QED
  BY <1>4, <1>5, <1>6, <1>7 DEF Next

\* Counted from the latest block, no open presale has more left than a presale
\* lasts, for whomever it is shown to; and as lists without a wallet are counted
\* from 1970, "All presales last 24 hours" is true of them only as long as every
\* open presale ends within one length of that year's first second.
THEOREM CountdownsFromTheLatestBlock ==
    Spec => [](/\ \A d \in Denoms, g \in Viewers : (Created(d) /\ ~Row(d, g).ended) =>
                     SecondsRemaining(Row(d, g), now) <= config.presale_length
               /\ CountdownsWithinLength <=>
                     \A d \in Denoms : (Created(d) /\ ~Ended(d)) =>
                         presale_end[d] <= config.presale_length)
<1> DEFINE Inv == TypeOK /\ EndsAreNear
           Counts ==
               /\ \A d \in Denoms, g \in Viewers : (Created(d) /\ ~Row(d, g).ended) =>
                     SecondsRemaining(Row(d, g), now) <= config.presale_length
               /\ CountdownsWithinLength <=>
                     \A d \in Denoms : (Created(d) /\ ~Ended(d)) =>
                         presale_end[d] <= config.presale_length
<1>1. Init => EndsAreNear
  <2> SUFFICES ASSUME Init PROVE EndsAreNear
    OBVIOUS
  <2>1. TypeOK /\ now = 0 /\ \A d \in Denoms : presale_end[d] = 0
    BY TypeInit DEF Init
  <2>2. config.presale_length \in Nat
    BY <2>1, AmountsAssumption DEF TypeOK, ConfigType
  <2> QED
    BY <2>1, <2>2 DEF EndsAreNear
<1>2. TypeOK /\ EndsAreNear /\ [Next]_vars => EndsAreNear'
  BY EndsStayNear
<1>3. Inv => Counts
  <2> SUFFICES ASSUME TypeOK, EndsAreNear PROVE Counts
    OBVIOUS
  <2>1. /\ now \in Nat /\ config.presale_length \in Nat
        /\ \A d \in Denoms : presale_end[d] \in Nat
    BY AmountsAssumption DEF TypeOK, ConfigType
  <2>2. ASSUME NEW d \in Denoms, NEW g \in Viewers
        PROVE  /\ Row(d, g).end = presale_end[d] /\ (Row(d, g).ended <=> Ended(d))
               /\ ~Ended(d) => SecondsRemaining(Row(d, g), now) = presale_end[d] - now
               /\ SecondsRemaining(Row(d, g), 0) = presale_end[d]
    <3>1. Row(d, g).end = presale_end[d]
      BY DEF Row
    <3>2. Row(d, g).ended <=> SaturatingSub(presale_end[d], now) = 0
      BY DEF Row
    <3>3. now \in Nat /\ presale_end[d] \in Nat
      BY <2>1
    <3>4. (SaturatingSub(presale_end[d], now) = 0) <=> Ended(d)
      BY <3>3 DEF SaturatingSub, Ended
    <3> QED
      BY <3>1, <3>2, <3>3, <3>4 DEF SecondsRemaining, SaturatingSub, Ended
  <2>3. ASSUME NEW d \in Denoms, ~Ended(d)
        PROVE  presale_end[d] - now <= config.presale_length
    BY <2>1 DEF EndsAreNear
  <2>4. \A d \in Denoms, g \in Viewers : (Created(d) /\ ~Row(d, g).ended) =>
           SecondsRemaining(Row(d, g), now) <= config.presale_length
    BY <2>2, <2>3
  <2>5. None \in Viewers
    BY DEF Viewers
  <2>6. CountdownsWithinLength =>
           \A d \in Denoms : (Created(d) /\ ~Ended(d)) => presale_end[d] <= config.presale_length
    BY <2>2, <2>5 DEF CountdownsWithinLength, ListTime
  <2>7. (\A d \in Denoms : (Created(d) /\ ~Ended(d)) => presale_end[d] <= config.presale_length)
           => CountdownsWithinLength
    BY <2>2, <2>4 DEF CountdownsWithinLength, ListTime
  <2> QED
    BY <2>4, <2>6, <2>7
<1> HIDE DEF Counts
<1>4. Spec => []EndsAreNear
  BY <1>1, <1>2, TypeCorrect, PTL DEF Spec
<1>5. Spec => []Counts
  BY <1>3, <1>4, TypeCorrect, PTL
<1> QED
  BY <1>5 DEF Counts
=============================================================================
