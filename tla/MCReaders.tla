------------------------------ MODULE MCReaders ------------------------------
(***************************************************************************)
(* Small instances of the contract for those who read it: its queries, the *)
(* web server and the people the site shows it to.                         *)
(***************************************************************************)
EXTENDS Paging, StorageKeys, View, TLC

CONSTANTS u1, u2, d1, d2, tDOGE, tPEPE, atom, ntrn, one

MCDenomOf == tDOGE :> d1 @@ tPEPE :> d2

MCMsgs ==
    {[fee_recipient |-> u1, create_fee_denom |-> atom, create_fee |-> 200,
      presale_denom |-> atom, presale_length |-> 1, presale_fee_rate |-> 50]}

\* Shares that truncate to nothing and amounts that do not fit: coins of ten
\* units, raises above a thousand, and a 128 bit integer cut down to 60000.
MCWallets ==
    u1 :> (atom :> 1300 @@ ntrn :> 0) @@ u2 :> (atom :> 1400 @@ ntrn :> 0)

\* The ticker of one coin has a colon.
MCNameOf ==
    d1 :> <<"doge">> @@ d2 :> <<"pepe", "v2">> @@ u1 :> <<"neutron1">> @@ u2 :> <<"neutron2">>

MCDigitsOf == [i \in 0 .. 2 |-> ToString(i)]

=============================================================================
