-------------------------------- MODULE View --------------------------------
(***************************************************************************)
(* What the site shows of a coin: the row that view.rs prepares and that   *)
(* presale.html lays out, for a degen with a wallet and for a visitor      *)
(* without one (None).  The server's copy of the contract state is taken   *)
(* as up to date here, and the latest block as the time; WebCache and Feed *)
(* are about the copy.                                                     *)
(***************************************************************************)
EXTENDS Garden

Viewers == Users \cup {None}

SaturatingSub(a, b) == IF a >= b THEN a - b ELSE 0

\* get_shitcoin at the time of the latest block.
Row(d, g) ==
    [launched |-> shitcoin_launched[d],
     ended |-> SaturatingSub(presale_end[d], now) = 0,
     end |-> presale_end[d], raise |-> presale_raise[d], supply |-> shitcoin_supply[d],
     viewer |-> g,
     submission |-> IF g = None THEN 0 ELSE presale_submission[d][g],
     claimed |-> g # None /\ presale_claimed[d][g]]

\* Mutant: the share of the presale taken for the share of the supply.
PercentOfPresale(row) ==
    IF row.raise = 0 THEN [numerator |-> 0, denominator |-> 1]
    ELSE [numerator |-> row.submission, denominator |-> row.raise]

\* percent_of_supply, as the exact fraction the decimals stand for: half of
\* what percent_of_presale is, and nothing of an empty presale.
PercentOfSupply(row) ==
    IF row.raise = 0 THEN [numerator |-> 0, denominator |-> 1]
    ELSE [numerator |-> row.submission, denominator |-> 2 * row.raise]

\* claimable_amount as it is printed: rounded to the nearest whole unit.
ShownClaimable(row) ==
    LET p == PercentOfSupply(row)
    IN  (2 * p.numerator * row.supply + p.denominator) \div (2 * p.denominator)

\* The block time a list is rendered with, which the one without a degen
\* leaves at its default.
ListTime(g) == IF g = None THEN 0 ELSE now

SecondsRemaining(row, last_block_time) == SaturatingSub(row.end, last_block_time)

\* Mutant: launching offered as soon as there is something to launch.
LaunchOfferedEarly(row) == ~row.launched /\ row.raise # 0

LaunchOffered(row) == ~row.launched /\ row.ended /\ row.raise # 0

\* Mutant: the look at the claim forgotten.
ClaimOfferedAgain(row) == row.launched /\ row.submission # 0

ClaimOffered(row) == row.launched /\ ~row.claimed /\ row.submission # 0

\* The buttons of a row.  Without a wallet there is only the dex.
Offers(row) ==
    IF row.viewer = None THEN {o \in {"trade"} : row.launched}
    ELSE {o \in {"claim"} : ClaimOffered(row)}
         \cup {o \in {"launch"} : LaunchOffered(row)}
         \cup {o \in {"extend"} : ~row.launched /\ row.ended /\ row.raise = 0}
         \cup {o \in {"enter"} : ~row.ended}
         \cup {o \in {"trade"} : row.launched /\ (row.claimed \/ row.submission = 0)}
-----------------------------------------------------------------------------
(***************************************************************************)
(* Properties.                                                             *)
(***************************************************************************)

\* The buttons for these three send their message without funds.
NoFunds == [denom |-> config.presale_denom, amount |-> 0]

\* The conditions of the buttons are written one by one, yet at every moment
\* of every presale exactly one of them holds for a degen.
OneButton ==
    \A d \in Denoms, g \in Users : Created(d) => Cardinality(Offers(Row(d, g))) = 1

\* The site offers what the contract would accept: launching, extending
\* unless the new end has no room, and claiming when there is a unit to
\* claim; and whoever can enter a presale is offered to.
OffersMatchContract ==
    \A d \in Denoms : Created(d) => \A g \in Users :
        LET offers == Offers(Row(d, g))
        IN  /\ "launch" \in offers <=> ENABLED LaunchShitcoin(g, d, NoFunds)
            /\ ("extend" \in offers /\ FitsU64(now + config.presale_length))
                   <=> ENABLED ExtendPresale(g, d, NoFunds)
            /\ ("claim" \in offers /\ Share(d, g) > 0)
                   <=> ENABLED ClaimShitcoin(g, d, NoFunds)
            /\ (\E f \in Funds : ENABLED EnterPresale(g, d, f)) => "enter" \in offers

\* The amount a row shows as claimable is worked out from decimals by another
\* formula than the contract's; from the launch on it is the amount the
\* contract pays, or the next unit above what it truncates.
ShownShareIsOwed ==
    \A d \in Denoms, g \in Users : shitcoin_launched[d] =>
        ShownClaimable(Row(d, g)) - Share(d, g) \in {0, 1}

\* "All presales last 24 hours": no open presale of a list counts down more
\* seconds than a presale lasts.
CountdownsWithinLength ==
    \A d \in Denoms, g \in Viewers : (Created(d) /\ ~Row(d, g).ended) =>
        SecondsRemaining(Row(d, g), ListTime(g)) <= config.presale_length
=============================================================================
