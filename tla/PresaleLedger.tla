---------------------------- MODULE PresaleLedger ----------------------------
(***************************************************************************)
(* What the garden promises about its presales, without clocks, balances,  *)
(* fees, chains or storage keys: every coin moves through the phases       *)
(*                                                                         *)
(*      none -> open <-> closed -> launched                                *)
(*                                                                         *)
(* degens contribute only while it is open, it opens again only if nobody  *)
(* contributed and then for a later deadline, it launches once and only    *)
(* with something to launch with, and after that each degen who            *)
(* contributed claims at most once.                                        *)
(***************************************************************************)
EXTENDS Naturals

CONSTANTS Coins, Degens, Amounts, Deadlines

ASSUME LedgerAssumption == Amounts \subseteq Nat /\ Deadlines \subseteq Nat

VARIABLES phase, deadline, raised, contributed, claimed

ledger == <<phase, deadline, raised, contributed, claimed>>

Init ==
    /\ phase = [c \in Coins |-> "none"]
    /\ deadline = [c \in Coins |-> 0]
    /\ raised = [c \in Coins |-> 0]
    /\ contributed = [c \in Coins |-> [g \in Degens |-> 0]]
    /\ claimed = [c \in Coins |-> {}]

Enters(c, p) == phase' = [phase EXCEPT ![c] = p]

OpensUntil(c, t) == Enters(c, "open") /\ deadline' = [deadline EXCEPT ![c] = t]

Plant(c, t) ==
    /\ phase[c] = "none"
    /\ OpensUntil(c, t)
    /\ UNCHANGED <<raised, contributed, claimed>>

Contribute(c, g, n) ==
    /\ phase[c] = "open"
    /\ raised' = [raised EXCEPT ![c] = @ + n]
    /\ contributed' = [contributed EXCEPT ![c][g] = @ + n]
    /\ UNCHANGED <<phase, deadline, claimed>>

\* Time closes all the presales that are due together.
Close(due) ==
    /\ \A c \in due : phase[c] = "open"
    /\ phase' = [c \in Coins |-> IF c \in due THEN "closed" ELSE phase[c]]
    /\ UNCHANGED <<deadline, raised, contributed, claimed>>

Reopen(c, t) ==
    /\ phase[c] = "closed" /\ raised[c] = 0 /\ deadline[c] < t
    /\ OpensUntil(c, t)
    /\ UNCHANGED <<raised, contributed, claimed>>

Launch(c) ==
    /\ phase[c] = "closed" /\ raised[c] > 0
    /\ Enters(c, "launched")
    /\ UNCHANGED <<deadline, raised, contributed, claimed>>

Claim(c, g) ==
    /\ phase[c] = "launched" /\ contributed[c][g] > 0 /\ g \notin claimed[c]
    /\ claimed' = [claimed EXCEPT ![c] = @ \cup {g}]
    /\ UNCHANGED <<phase, deadline, raised, contributed>>

Next ==
    \/ \E c \in Coins, t \in Deadlines : Plant(c, t) \/ Reopen(c, t)
    \/ \E c \in Coins : Launch(c)
    \/ \E c \in Coins, g \in Degens, n \in Amounts : Contribute(c, g, n)
    \/ \E c \in Coins, g \in Degens : Claim(c, g)
    \/ \E due \in SUBSET Coins : Close(due)

Spec == Init /\ [][Next]_ledger
=============================================================================
