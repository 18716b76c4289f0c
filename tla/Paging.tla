------------------------------- MODULE Paging -------------------------------
(***************************************************************************)
(* The contract's queries: the metadata of a coin or of a degen, and one   *)
(* page of the list of coins.  A query reads the storage of one block and  *)
(* changes nothing, so it is a set of operators over the state of Garden.  *)
(* Indices start at 0, as in the code.                                     *)
(***************************************************************************)
EXTENDS Garden

CONSTANTS Pages, Limits     \* what a client may ask for, None included

ASSUME PagingAssumption ==
    /\ Pages \subseteq Nat \cup {None} /\ Limits \subseteq Nat \cup {None}
    /\ None \notin Nat

\* Every key of a coin but its name, and whether its presale is over by now.
ShitcoinMetadata(d) ==
    [denom |-> d, creator |-> shitcoin_creator[d], ticker |-> shitcoin_ticker[d],
     url |-> shitcoin_url[d], presale_end |-> presale_end[d],
     presale_raise |-> presale_raise[d], supply |-> shitcoin_supply[d],
     launched |-> shitcoin_launched[d], ended |-> Ended(d)]

\* Nothing when the degen has not entered.
DegenMetadata(d, g) ==
    [presale_submission |-> presale_submission[d][g],
     shitcoins_claimed |-> presale_claimed[d][g]]

DEFAULT_LIMIT == 10

total == Len(shitcoin_denom)

\* Mutant: pages counted from one.
PageFromOne(page) == IF page = None THEN 0 ELSE page + 1

PageNumber(page) == IF page = None THEN 0 ELSE page

Asked(limit) == IF limit = None THEN DEFAULT_LIMIT ELSE limit

\* What a page of a list of n coins comes to: the limit is cut down to the
\* length of the list before it is worked out where the page starts.
PageLimit(limit, n) == Min({Asked(limit), n})

Start(page, limit, n) == PageNumber(page) * PageLimit(limit, n)

\* The larger of the two, where the end of a slice would be the smaller.
End(page, limit, n) == Max({n, Start(page, limit, n) + PageLimit(limit, n)})

Indices(page, limit, n) == Start(page, limit, n) .. End(page, limit, n) - 1

\* The query panics when an index has no denom, or a product or sum no room.
Answers(page, limit, n) ==
    /\ FitsU64(End(page, limit, n) + 1)
    /\ \A i \in Indices(page, limit, n) : i < n

Listed(page, limit) ==
    {ShitcoinMetadata(shitcoin_denom[i + 1]) : i \in Indices(page, limit, total)}

\* What a client may rely on.  An answered first page lists every coin, at any
\* limit.  And of one that is answered a page while the list had some earlier
\* length, and the next page now, the two pages show every coin from the start of
\* the first to the end of today's list: none created in between is passed over,
\* as long as the list was no shorter than the limit.  (A shorter list cuts the
\* limit down, and the next page of a longer list starts further on.)  Nothing is
\* promised of a page that is not answered: see IndicesAreValid.
PagesMeet ==
    \A limit \in Limits :
        /\ \A page \in {None, 0} : Answers(page, limit, total) =>
               {ShitcoinMetadata(shitcoin_denom[i]) : i \in 1 .. total} \subseteq Listed(page, limit)
        /\ \A page \in Pages \ {None}, earlier \in 0 .. total :
               /\ Asked(limit) <= earlier
               /\ Answers(page, limit, earlier)
               /\ Answers(page + 1, limit, total)
               => Start(page, limit, earlier) .. total - 1 \subseteq
                      Indices(page, limit, earlier) \cup Indices(page + 1, limit, total)

\* expect("valid index"): every index the query computes has a denom.
IndicesAreValid ==
    \A page \in Pages, limit \in Limits : \A i \in Indices(page, limit, total) : i < total
=============================================================================
