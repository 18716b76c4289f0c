------------------------------ MODULE MCPaging ------------------------------
(***************************************************************************)
(* A garden of three coins nobody enters, paged through in every way.      *)
(***************************************************************************)
EXTENDS Paging, TLC

CONSTANTS u1, d1, d2, d3, t1, t2, t3, atom

MCDenomOf == t1 :> d1 @@ t2 :> d2 @@ t3 :> d3

MCMsgs == {[fee_recipient |-> u1, create_fee_denom |-> atom, create_fee |-> 1,
            presale_denom |-> atom, presale_length |-> 1, presale_fee_rate |-> 50]}

MCWallets == u1 :> (atom :> 1)
=============================================================================
