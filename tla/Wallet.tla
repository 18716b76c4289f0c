------------------------------- MODULE Wallet -------------------------------
(***************************************************************************)
(* The page in the browser, script.js: it connects to the Keplr extension, *)
(* appends the degen's address to every request of the page by a listener, *)
(* and sends the transactions of the buttons.  The script runs to the next *)
(* await without interruption; what Keplr and the chain answer meanwhile,  *)
(* and what the user clicks, comes in any order.                           *)
(***************************************************************************)
EXTENDS Naturals, Sequences, FiniteSets

CONSTANTS
    KeplrAccounts,
    NoAccount,          \* wallet is null
    Refusal,            \* no accounts but an error: Keplr is locked, or the user refuses
    Coins,
    MaxConnects,        \* bound: connects in one life of the page
    MaxDisconnects,     \* bound: disconnects at their await
    MaxSwitches,        \* bound: changes of the key in Keplr
    MaxCalls            \* bound: transactions of one kind and coin in flight

ASSUME WalletAssumption ==
    /\ NoAccount \notin KeplrAccounts /\ Refusal \notin KeplrAccounts \cup {NoAccount}
    /\ MaxConnects \in Nat /\ MaxDisconnects \in Nat
    /\ MaxSwitches \in Nat /\ MaxCalls \in Nat

VARIABLES
    selected,           \* the key selected in Keplr
    switches,           \* how often another one was
    remembered,         \* 'keplr-connected' in the local storage
    connected, account, \* of the wallet store
    modifier,           \* presaleGetModifier: the listener made last, 0 for none
    listeners,          \* those that document.body has
    connects,           \* the calls of connectKeplr, each at its await
    changes,            \* the runs of onKeyStoreChange awaiting the accounts
    disabling,          \* the calls of disconnectKeplr at their await
    working, spinning,  \* of the ops store
    calls,              \* transactions that have no answer
    overlapped,         \* history: two connects ran at the same time
    missed,             \* history: the key changed and a call in flight was older
    refused             \* history: the handler of the latest change was refused

keplr == <<selected, switches>>
store == <<connected, account, modifier, listeners, remembered>>
awaiting == <<connects, changes, disabling>>
ops == <<working, spinning, calls>>
history == <<overlapped, missed, refused>>
vars == <<keplr, store, awaiting, ops, history>>

\* Of the six operations claiming stands for those whose button is disabled
\* while another is working; the forms of entering and of the url stay open.
Operations == {"claim", "enter", "url"}

Transactions == Operations \X Coins

\* A run of the script that has ended, in an error or not.
Over == [step |-> "over"]

Running(c) == c.step # "over"
-----------------------------------------------------------------------------
\* init() of a page just loaded: what an earlier page stored connects at once.
Loaded ==
    /\ connected' = FALSE /\ account' = NoAccount
    /\ modifier' = 0 /\ listeners' = {}
    /\ connects' = IF remembered THEN <<[step |-> "enable"]>> ELSE << >>
    /\ changes' = << >> /\ disabling' = 0
    /\ working' = FALSE
    /\ spinning' = [t \in Transactions |-> FALSE]
    /\ calls' = [t \in Transactions |-> 0]
    /\ overlapped' = FALSE /\ missed' = FALSE /\ refused' = FALSE

LoadPage == Loaded /\ UNCHANGED <<keplr, remembered>>

\* The button is there until the wallet is connected.
ClickConnect ==
    /\ ~connected /\ Len(connects) < MaxConnects
    /\ connects' = Append(connects, [step |-> "enable"])
    /\ overlapped' = (overlapped \/ \E i \in DOMAIN connects : Running(connects[i]))
    /\ UNCHANGED <<keplr, store, changes, disabling, ops, missed, refused>>

\* The user lets the page in and the accounts are known; what is left is the
\* connection to the node.
AccountsKnown(i) ==
    /\ connects[i].step = "enable"
    /\ connects' = [connects EXCEPT ![i] = [step |-> "client", account |-> selected]]
    /\ UNCHANGED <<keplr, store, changes, disabling, ops, history>>

\* Any await may fail, and then nothing of the store has changed.
ConnectFails(i) ==
    /\ Running(connects[i])
    /\ connects' = [connects EXCEPT ![i] = Over]
    /\ UNCHANGED <<keplr, store, changes, disabling, ops, history>>

Connected(i) ==
    /\ connects[i].step = "client"
    /\ connects' = [connects EXCEPT ![i] = Over]
    /\ connected' = TRUE /\ account' = connects[i].account
    /\ modifier' = i
    /\ listeners' = listeners \cup {i}
    /\ remembered' = TRUE
    /\ refused' = (refused /\ changes # << >>)
    /\ UNCHANGED <<keplr, changes, disabling, ops, overlapped, missed>>

\* The button is there while the wallet is connected, also to click it again.
ClickDisconnect ==
    /\ connected /\ disabling < MaxDisconnects
    /\ disabling' = disabling + 1
    /\ UNCHANGED <<keplr, store, connects, changes, ops, history>>

\* Mutant: the listener is made anew for removing it, and is another one.
RemoveNothing == UNCHANGED listeners

RemoveListener == listeners' = listeners \ {modifier}

Disconnected ==
    /\ disabling > 0 /\ disabling' = disabling - 1
    /\ RemoveListener
    /\ connected' = FALSE /\ account' = NoAccount /\ remembered' = FALSE
    /\ UNCHANGED <<keplr, modifier, connects, changes, ops, history>>

DisconnectFails ==
    /\ disabling > 0 /\ disabling' = disabling - 1
    /\ UNCHANGED <<keplr, store, connects, changes, ops, history>>

\* Mutant: the handler of the event not installed.
Ignored == UNCHANGED changes

\* onKeyStoreChange does nothing before the wallet is connected.
Noticed == changes' = IF connected THEN Append(changes, NoAccount) ELSE changes

SwitchKey(a) ==
    /\ a # selected /\ switches < MaxSwitches
    /\ selected' = a /\ switches' = switches + 1
    /\ Noticed
    /\ missed' = (missed \/ (~connected /\ changes # << >>)
                         \/ \E i \in DOMAIN connects : connects[i].step = "client")
    /\ refused' = (refused /\ ~connected)
    /\ UNCHANGED <<store, connects, disabling, ops, overlapped>>

\* Keplr answers in the order it is asked, with the accounts or with an error.
AnswerAccounts ==
    /\ \E i \in DOMAIN changes, answer \in {selected, Refusal} :
          /\ changes[i] = NoAccount /\ \A j \in 1 .. i - 1 : changes[j] # NoAccount
          /\ changes' = [changes EXCEPT ![i] = answer]
          /\ refused' = (refused \/ (answer = Refusal /\ i = Len(changes)))
    /\ UNCHANGED <<keplr, store, connects, disabling, ops, overlapped, missed>>

\* The accounts may be refused, or the wallet have gone during the await: the
\* handler ends in an error, and the page goes on as before.
KeyStoreChanged ==
    /\ changes # << >> /\ Head(changes) # NoAccount
    /\ changes' = Tail(changes)
    /\ account' = IF account = NoAccount \/ Head(changes) = Refusal THEN account
                  ELSE Head(changes)
    /\ UNCHANGED <<keplr, connected, modifier, listeners, remembered, connects, disabling,
                   ops, history>>
-----------------------------------------------------------------------------
Enabled(t) == t[1] = "claim" => ~working

\* The transaction is sent before the flags are set, so that without a wallet
\* the error leaves them alone.  Setting a url has no spinner.
Call(t) ==
    /\ account # NoAccount /\ Enabled(t) /\ calls[t] < MaxCalls
    /\ calls' = [calls EXCEPT ![t] = @ + 1]
    /\ working' = TRUE
    /\ spinning' = [spinning EXCEPT ![t] = t[1] # "url"]
    /\ UNCHANGED <<keplr, store, awaiting, history>>

\* Mutant: the flags reset only when the transaction succeeds.
AnsweredWell(t) ==
    \/ UNCHANGED <<working, spinning>>
    \/ working' = FALSE /\ spinning' = [spinning EXCEPT ![t] = FALSE]

\* finally: whether the transaction succeeded or not.
Finally(t) == working' = FALSE /\ spinning' = [spinning EXCEPT ![t] = FALSE]

Answered(t) ==
    /\ calls[t] > 0
    /\ calls' = [calls EXCEPT ![t] = @ - 1]
    /\ Finally(t)
    /\ UNCHANGED <<keplr, store, awaiting, history>>
-----------------------------------------------------------------------------
Init ==
    /\ selected \in KeplrAccounts /\ switches = 0
    /\ remembered = FALSE
    /\ connected = FALSE /\ account = NoAccount
    /\ modifier = 0 /\ listeners = {}
    /\ connects = << >> /\ changes = << >> /\ disabling = 0
    /\ working = FALSE
    /\ spinning = [t \in Transactions |-> FALSE]
    /\ calls = [t \in Transactions |-> 0]
    /\ overlapped = FALSE /\ missed = FALSE /\ refused = FALSE

Next ==
    \/ LoadPage \/ ClickConnect \/ ClickDisconnect \/ Disconnected \/ DisconnectFails
    \/ \E i \in DOMAIN connects : AccountsKnown(i) \/ ConnectFails(i) \/ Connected(i)
    \/ \E a \in KeplrAccounts : SwitchKey(a)
    \/ AnswerAccounts \/ KeyStoreChanged
    \/ \E t \in Transactions : Call(t) \/ Answered(t)

Spec == Init /\ [][Next]_vars
-----------------------------------------------------------------------------
(***************************************************************************)
(* Properties.                                                             *)
(***************************************************************************)

\* What the listeners append to the path of a request, one after another; one
\* without a wallet fails and appends nothing.
Appended ==
    IF account = NoAccount THEN << >>
    ELSE [i \in 1 .. Cardinality(listeners) |-> account]

\* Every request of the page names the wallet's account once, and none when no
\* wallet is connected, through connects, disconnects, reloads and refusals in
\* any order; only connects that ran at the same time leave a listener behind.
PathNamesTheWallet ==
    ~overlapped => Appended = IF connected THEN <<account>> ELSE << >>

\* When every change of the key has been worked off, a connected page is that
\* of the selected account, unless the key changed unnoticed while a connect,
\* or the handler of an earlier change, already had the accounts it goes on
\* with, or Keplr refused the accounts to the handler of the latest change, which
\* leaves the page with the account it had.  A refusal to an earlier handler does
\* no harm.
WalletFollowsKeplr ==
    (connected /\ changes = << >> /\ ~missed /\ ~refused) => account = selected

\* The page never stays disabled and nothing spins for good: each flag stands
\* for a transaction without an answer.
FlagsStandForCalls ==
    /\ working => \E t \in Transactions : calls[t] > 0
    /\ \A t \in Transactions : spinning[t] => calls[t] > 0
=============================================================================
