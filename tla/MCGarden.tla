------------------------------ MODULE MCGarden ------------------------------
(***************************************************************************)
(* Small instances of Garden for TLC.                                      *)
(***************************************************************************)
EXTENDS Garden, TLC

CONSTANTS u1, u2, d1, d2, tDOGE, tdoge, tPEPE, atom, ntrn

\* Two tickers differ only in case, so they name the same denom.
MCTickers == {tDOGE, tdoge, tPEPE}
MCDenomOf == tDOGE :> d1 @@ tdoge :> d1 @@ tPEPE :> d2

Msg(fee_denom, fee, length, rate) ==
    [fee_recipient |-> u1, create_fee_denom |-> fee_denom, create_fee |-> fee,
     presale_denom |-> atom, presale_length |-> length, presale_fee_rate |-> rate]

\* The last two messages are refused by instantiate, and the one before them
\* is accepted although nobody can enter a presale without a fee.
MCMsgs == {Msg(ntrn, 1, 2, 50), Msg(atom, 200, 1, 99), Msg(atom, 200, 1, 0),
           Msg(ntrn, 1, 0, 50), Msg(ntrn, 1, 1, 100)}

MCWallets ==
    u1 :> (atom :> 1200 @@ ntrn :> 1) @@ u2 :> (atom :> 600 @@ ntrn :> 1)
=============================================================================
