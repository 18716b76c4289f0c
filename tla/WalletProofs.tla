---------------------------- MODULE WalletProofs ----------------------------
(***************************************************************************)
(* Theorems about the page in the browser for every number of connects,    *)
(* key changes, coins and overlapping transactions.                        *)
(***************************************************************************)
EXTENDS Wallet, FiniteSetTheorems, SequenceTheorems, TLAPS

\* The spinners and the calls are one per transaction.
FlagTypeOK ==
    /\ spinning \in [Transactions -> BOOLEAN]
    /\ calls \in [Transactions -> Nat]

ConnectSteps ==
    {Over, [step |-> "enable"]} \cup [step : {"client"}, account : KeplrAccounts]

\* The connects are at one of their awaits, and know accounts of Keplr.
ConnectTypeOK ==
    /\ selected \in KeplrAccounts
    /\ connected \in BOOLEAN
    /\ connects \in Seq(ConnectSteps)

\* The two halves of the store agree.
AccountWhileConnected == account = NoAccount <=> ~connected

\* Where no two connects overlapped at most one is running, and only while the
\* page is not connected; its one listener is the one it can remove.
OneListener ==
    ~overlapped =>
        /\ \A i \in DOMAIN connects : Running(connects[i]) =>
              /\ ~connected
              /\ \A j \in DOMAIN connects : Running(connects[j]) => i = j
        /\ listeners = IF connected THEN {modifier} ELSE {}

FlagInv == FlagTypeOK /\ FlagsStandForCalls

PageInv == ConnectTypeOK /\ AccountWhileConnected /\ OneListener
-----------------------------------------------------------------------------
\* A page just opened has no spinner and no call.
LEMMA FlagInit == Init => FlagInv
<1> SUFFICES ASSUME Init PROVE FlagInv
  OBVIOUS
<1>1. /\ working = FALSE /\ spinning = [t \in Transactions |-> FALSE]
      /\ calls = [t \in Transactions |-> 0]
  BY DEF Init
<1> HIDE DEF Init
<1> QED
  BY <1>1 DEF FlagInv, FlagTypeOK, FlagsStandForCalls

\* A call sets its flags with its count, and every answer resets them.
LEMMA FlagStep ==
    ASSUME FlagInv, [Next]_vars
    PROVE  FlagInv'
<1> USE DEF FlagInv, FlagTypeOK, FlagsStandForCalls
<1>1. CASE UNCHANGED ops
  BY <1>1 DEF ops
<1>2. CASE LoadPage
  <2>1. /\ working' = FALSE /\ spinning' = [t \in Transactions |-> FALSE]
        /\ calls' = [t \in Transactions |-> 0]
    BY <1>2 DEF LoadPage, Loaded
  <2> QED
    BY <2>1
<1>3. ASSUME NEW t \in Transactions, Call(t) PROVE FlagInv'
  <2>1. /\ calls' = [calls EXCEPT ![t] = @ + 1] /\ working' = TRUE
        /\ spinning' = [spinning EXCEPT ![t] = t[1] # "url"]
    BY <1>3 DEF Call
  <2>2. calls' \in [Transactions -> Nat] /\ calls'[t] > 0
    BY <2>1
  <2>3. \A u \in Transactions : calls[u] > 0 => calls'[u] > 0
    BY <2>1
  <2>4. spinning' \in [Transactions -> BOOLEAN]
    BY <2>1
  <2>5. \A u \in Transactions \ {t} : spinning'[u] = spinning[u]
    BY <2>1
  <2> QED
    BY <2>2, <2>3, <2>4, <2>5
<1>4. ASSUME NEW t \in Transactions, Answered(t) PROVE FlagInv'
  <2>1. /\ calls[t] > 0 /\ calls' = [calls EXCEPT ![t] = @ - 1] /\ working' = FALSE
        /\ spinning' = [spinning EXCEPT ![t] = FALSE]
    BY <1>4 DEF Answered, Finally
  <2>2. calls' \in [Transactions -> Nat]
    BY <2>1
  <2>3. \A u \in Transactions \ {t} : calls'[u] = calls[u] /\ spinning'[u] = spinning[u]
    BY <2>1
  <2>4. spinning' \in [Transactions -> BOOLEAN] /\ spinning'[t] = FALSE
    BY <2>1
  <2> QED
    BY <2>1, <2>2, <2>3, <2>4
<1>5. [Next]_vars => \/ UNCHANGED ops \/ LoadPage
                     \/ \E t \in Transactions : Call(t) \/ Answered(t)
  BY DEF Next, vars, ops, ClickConnect, ClickDisconnect, Disconnected, DisconnectFails,
         AccountsKnown, ConnectFails, Connected, SwitchKey, AnswerAccounts, KeyStoreChanged
<1> QED
  BY <1>1, <1>2, <1>3, <1>4, <1>5

\* The page never stays disabled and no spinner turns for good: each flag that
\* script.js sets stands for a transaction without an answer.
THEOREM FlagsAreCalls == Spec => []FlagsStandForCalls
<1>1. FlagInv => FlagsStandForCalls
  BY DEF FlagInv
<1> QED
  BY FlagInit, FlagStep, <1>1, PTL DEF Spec
-----------------------------------------------------------------------------
\* A page just opened has no listener and no connect.
LEMMA PageInit == Init => PageInv
<1> SUFFICES ASSUME Init PROVE PageInv
  OBVIOUS
<1>1. /\ selected \in KeplrAccounts /\ connected = FALSE /\ account = NoAccount
      /\ listeners = {} /\ connects = << >>
  BY DEF Init
<1> HIDE DEF Init
<1>2. connects \in Seq(ConnectSteps) /\ DOMAIN connects = {}
  BY <1>1
<1> QED
  BY <1>1, <1>2 DEF PageInv, ConnectTypeOK, AccountWhileConnected, OneListener

\* The steps a connect can be at, and which of them count as running.
LEMMA ConnectStepFacts ==
    /\ Over \in ConnectSteps /\ ~Running(Over)
    /\ [step |-> "enable"] \in ConnectSteps /\ Running([step |-> "enable"])
    /\ \A a \in KeplrAccounts : /\ [step |-> "client", account |-> a] \in ConnectSteps
                                /\ Running([step |-> "client", account |-> a])
    /\ \A c \in ConnectSteps :
          /\ c.step = "enable" \/ c.step = "client" => Running(c)
          /\ c.step = "client" => c.account \in KeplrAccounts
BY DEF ConnectSteps, Over, Running

\* One connect that moves from await to await, or ends, leaves the others.
LEMMA OneConnectMoves ==
    ASSUME ConnectTypeOK, NEW i \in DOMAIN connects, NEW c \in ConnectSteps,
           connects' = [connects EXCEPT ![i] = c]
    PROVE  /\ connects' \in Seq(ConnectSteps)
           /\ DOMAIN connects' = DOMAIN connects
           /\ connects'[i] = c
           /\ \A j \in DOMAIN connects \ {i} : connects'[j] = connects[j]
BY DEF ConnectTypeOK

\* The store, and the connects that might change it next, stay in step through
\* connects, refusals, reloads, disconnects and changes of the key.
LEMMA PageStep ==
    ASSUME PageInv, [Next]_vars
    PROVE  PageInv'
<1> USE DEF PageInv, AccountWhileConnected
<1> USE WalletAssumption DEF WalletAssumption
<1>0. ConnectTypeOK
  OBVIOUS
<1>1. CASE UNCHANGED <<selected, connected, account, modifier, listeners, connects,
                       overlapped>>
  BY <1>1 DEF ConnectTypeOK, OneListener
<1>2. CASE LoadPage
  <2>1. /\ connected' = FALSE /\ account' = NoAccount /\ listeners' = {}
        /\ selected' = selected
        /\ connects' = IF remembered THEN <<[step |-> "enable"]>> ELSE << >>
    BY <1>2 DEF LoadPage, Loaded, keplr
  <2>2. connects' \in Seq(ConnectSteps)
    BY <2>1, ConnectStepFacts
  <2>3. \A i, j \in DOMAIN connects' : i = j
    BY <2>1
  <2> QED
    BY <2>1, <2>2, <2>3, <1>0 DEF ConnectTypeOK, OneListener
<1>3. CASE ClickConnect
  <2>1. /\ ~connected /\ connects' = Append(connects, [step |-> "enable"])
        /\ overlapped' = (overlapped \/ \E i \in DOMAIN connects : Running(connects[i]))
        /\ UNCHANGED <<selected, connected, account, modifier, listeners>>
    BY <1>3 DEF ClickConnect, keplr, store
  <2>2. /\ connects' \in Seq(ConnectSteps)
        /\ DOMAIN connects' = DOMAIN connects \cup {Len(connects) + 1}
        /\ \A i \in DOMAIN connects : connects'[i] = connects[i]
    BY <2>1, <1>0, ConnectStepFacts DEF ConnectTypeOK
  <2> HIDE DEF AccountWhileConnected
  <2>3. OneListener'
    <3> SUFFICES ASSUME ~overlapped'
                 PROVE  /\ \A i \in DOMAIN connects' : Running(connects'[i]) =>
                              /\ ~connected'
                              /\ \A j \in DOMAIN connects' : Running(connects'[j]) => i = j
                        /\ listeners' = IF connected' THEN {modifier'} ELSE {}
      BY DEF OneListener
    <3>1. ~overlapped /\ \A i \in DOMAIN connects : ~Running(connects[i])
      BY <2>1
    <3>2. \A i \in DOMAIN connects' : Running(connects'[i]) => i = Len(connects) + 1
      BY <2>2, <3>1
    <3> QED
      BY <2>1, <3>1, <3>2 DEF OneListener
  <2> QED
    BY <2>1, <2>2, <2>3, <1>0 DEF ConnectTypeOK, AccountWhileConnected
<1>4. ASSUME NEW i \in DOMAIN connects, AccountsKnown(i) \/ ConnectFails(i)
      PROVE  PageInv'
  <2>1. PICK c \in ConnectSteps : connects' = [connects EXCEPT ![i] = c]
    BY <1>4, <1>0, ConnectStepFacts DEF AccountsKnown, ConnectFails, ConnectTypeOK
  <2>2. UNCHANGED <<selected, connected, account, modifier, listeners, overlapped>>
    BY <1>4 DEF AccountsKnown, ConnectFails, keplr, store, history
  <2>3. Running(connects[i])
    BY <1>4, <1>0, ConnectStepFacts DEF AccountsKnown, ConnectFails, ConnectTypeOK
  <2>4. /\ connects' \in Seq(ConnectSteps)
        /\ DOMAIN connects' = DOMAIN connects
        /\ \A j \in DOMAIN connects : Running(connects'[j]) => Running(connects[j])
    BY <2>1, <2>3, <1>0, OneConnectMoves
  <2>5. OneListener'
    BY <2>2, <2>4 DEF OneListener
  <2> QED
    BY <2>2, <2>4, <2>5, <1>0 DEF ConnectTypeOK
<1>5. ASSUME NEW i \in DOMAIN connects, Connected(i) PROVE PageInv'
  <2>1. /\ connects[i].step = "client" /\ connects' = [connects EXCEPT ![i] = Over]
        /\ connected' = TRUE /\ account' = connects[i].account /\ modifier' = i
        /\ listeners' = listeners \cup {i}
        /\ selected' = selected /\ overlapped' = overlapped
    BY <1>5 DEF Connected, keplr, history
  <2>2. Running(connects[i]) /\ connects[i].account \in KeplrAccounts
    BY <2>1, <1>0, ConnectStepFacts DEF ConnectTypeOK
  <2>3. /\ connects' \in Seq(ConnectSteps)
        /\ DOMAIN connects' = DOMAIN connects
        /\ \A j \in DOMAIN connects : Running(connects'[j]) => Running(connects[j]) /\ j # i
    BY <2>1, <1>0, OneConnectMoves, ConnectStepFacts
  <2>4. OneListener'
    BY <2>1, <2>2, <2>3 DEF OneListener
  <2>5. AccountWhileConnected'
    BY <2>1, <2>2
  <2> QED
    BY <2>1, <2>3, <2>4, <2>5, <1>0 DEF ConnectTypeOK
<1>6. CASE Disconnected
  <2>1. /\ connected' = FALSE /\ account' = NoAccount
        /\ listeners' = listeners \ {modifier}
        /\ UNCHANGED <<selected, connects, overlapped>>
    BY <1>6 DEF Disconnected, RemoveListener, keplr, history
  <2> QED
    BY <2>1, <1>0 DEF ConnectTypeOK, OneListener
<1>7. ASSUME NEW a \in KeplrAccounts, SwitchKey(a) PROVE PageInv'
  BY <1>7, <1>0 DEF SwitchKey, store, ConnectTypeOK, OneListener
<1>8. CASE KeyStoreChanged
  <2>1. /\ Head(changes) # NoAccount
        /\ account' = IF account = NoAccount \/ Head(changes) = Refusal THEN account
                      ELSE Head(changes)
        /\ UNCHANGED <<selected, connected, modifier, listeners, connects, overlapped>>
    BY <1>8 DEF KeyStoreChanged, keplr, history
  <2> QED
    BY <2>1, <1>0 DEF ConnectTypeOK, OneListener
<1>9. [Next]_vars =>
        \/ UNCHANGED <<selected, connected, account, modifier, listeners, connects, overlapped>>
        \/ LoadPage \/ ClickConnect \/ Disconnected \/ KeyStoreChanged
        \/ \E i \in DOMAIN connects : AccountsKnown(i) \/ ConnectFails(i) \/ Connected(i)
        \/ \E a \in KeplrAccounts : SwitchKey(a)
  BY DEF Next, vars, keplr, store, awaiting, history, ClickDisconnect, DisconnectFails,
         AnswerAccounts, Call, Answered
<1> QED
  BY <1>1, <1>2, <1>3, <1>4, <1>5, <1>6, <1>7, <1>8, <1>9

\* Every request of a page names the connected account once, and no account
\* when none is connected, unless two of its connects ran at the same time.
THEOREM PathsNameTheWallet == Spec => []PathNamesTheWallet
<1>1. PageInv => PathNamesTheWallet
  <2> SUFFICES ASSUME PageInv, ~overlapped
               PROVE  Appended = IF connected THEN <<account>> ELSE << >>
    BY DEF PathNamesTheWallet
  <2>1. CASE connected
    <3>1. listeners = {modifier} /\ account # NoAccount
      BY <2>1 DEF PageInv, OneListener, AccountWhileConnected
    <3>2. Cardinality(listeners) = 1
      BY <3>1, FS_Singleton
    <3>3. Appended = [i \in 1 .. 1 |-> account]
      BY <3>1, <3>2 DEF Appended
    <3>4. <<account>> = [i \in 1 .. 1 |-> account]
      OBVIOUS
    <3> QED
      BY <2>1, <3>3, <3>4
  <2>2. CASE ~connected
    BY <2>2 DEF PageInv, AccountWhileConnected, Appended
  <2> QED
    BY <2>1, <2>2
<1> QED
  BY PageInit, PageStep, <1>1, PTL DEF Spec
-----------------------------------------------------------------------------
\* Handlers of the key's changes have yet to ask, know the accounts, or were refused.
HandlerSteps == KeplrAccounts \cup {NoAccount, Refusal}

\* While no change of the key went unnoticed: a connect that has its accounts
\* has the selected one, the last handler still pending has it, has yet to ask for
\* it or was refused, and with none pending a connected page has it unless the
\* latest was refused.
Following ==
    /\ changes \in Seq(HandlerSteps)
    /\ (changes # << >> /\ changes[Len(changes)] = Refusal) => refused
    /\ ~missed =>
          /\ \A i \in DOMAIN connects :
                connects[i].step = "client" => connects[i].account = selected
          /\ changes # << >> => changes[Len(changes)] \in {NoAccount, Refusal, selected}
          /\ (changes = << >> /\ connected /\ ~refused) => account = selected

FollowingInv == PageInv /\ Following

\* A page just opened has nothing pending.
LEMMA FollowingInit == Init => FollowingInv
<1> SUFFICES ASSUME Init PROVE Following
  BY PageInit DEF FollowingInv
<1>1. connects = << >> /\ changes = << >> /\ connected = FALSE
  BY DEF Init
<1> HIDE DEF Init
<1>2. DOMAIN connects = {} /\ changes \in Seq(HandlerSteps)
  BY <1>1
<1> QED
  BY <1>1, <1>2 DEF Following

\* The steps of the script that change neither the wallet nor a handler of a
\* change, and let no connect get accounts it did not have.
LEMMA FollowingKept ==
    ASSUME FollowingInv,
           UNCHANGED <<selected, connected, account, changes, missed, refused>>,
           \A i \in DOMAIN connects' : connects'[i].step = "client" =>
              i \in DOMAIN connects /\ connects'[i] = connects[i]
    PROVE  Following'
BY DEF FollowingInv, Following

\* The handlers of the key's changes and the connects take their accounts in
\* an order that leaves the page at the selected one.
LEMMA FollowingStep ==
    ASSUME FollowingInv, [Next]_vars
    PROVE  Following'
<1>0. /\ Following /\ AccountWhileConnected /\ ConnectTypeOK
      /\ NoAccount \notin KeplrAccounts /\ Refusal \notin KeplrAccounts \cup {NoAccount}
      /\ selected \in KeplrAccounts
  BY WalletAssumption DEF FollowingInv, PageInv, ConnectTypeOK
<1>1. CASE UNCHANGED <<selected, connects, connected, account, changes, missed, refused>>
  BY <1>0, <1>1 DEF Following
<1>2. CASE LoadPage
  <2>1. /\ connected' = FALSE /\ changes' = << >>
        /\ connects' = IF remembered THEN <<[step |-> "enable"]>> ELSE << >>
    BY <1>2 DEF LoadPage, Loaded
  <2>2. \A i \in DOMAIN connects' : connects'[i].step # "client"
    BY <2>1
  <2> QED
    BY <2>1, <2>2 DEF Following
<1>3. CASE ClickConnect
  <2>1. /\ connects' = Append(connects, [step |-> "enable"])
        /\ UNCHANGED <<selected, connected, account, changes, missed, refused>>
    BY <1>3 DEF ClickConnect, keplr, store
  <2>2. \A i \in DOMAIN connects' : connects'[i].step = "client" =>
           i \in DOMAIN connects /\ connects'[i] = connects[i]
    BY <2>1, <1>0 DEF ConnectTypeOK
  <2> QED
    BY <2>1, <2>2, FollowingKept
<1>4. ASSUME NEW i \in DOMAIN connects, AccountsKnown(i) PROVE Following'
  <2>1. /\ connects' = [connects EXCEPT ![i] = [step |-> "client", account |-> selected]]
        /\ UNCHANGED <<selected, connected, account, changes, missed, refused>>
    BY <1>4 DEF AccountsKnown, keplr, store, history
  <2>2. \A j \in DOMAIN connects' : connects'[j].step = "client" =>
           j \in DOMAIN connects /\ (j = i \/ connects'[j] = connects[j])
    BY <2>1, <1>0 DEF ConnectTypeOK
  <2>3. connects'[i].account = selected
    BY <2>1, <1>0 DEF ConnectTypeOK
  <2> QED
    BY <2>1, <2>2, <2>3, <1>0 DEF Following
<1>5. ASSUME NEW i \in DOMAIN connects, ConnectFails(i) PROVE Following'
  <2>1. /\ connects' = [connects EXCEPT ![i] = Over]
        /\ UNCHANGED <<selected, connected, account, changes, missed, refused>>
    BY <1>5 DEF ConnectFails, keplr, store, history
  <2>2. \A j \in DOMAIN connects' : connects'[j].step = "client" =>
           j \in DOMAIN connects /\ connects'[j] = connects[j]
    BY <2>1, <1>0 DEF ConnectTypeOK, Over
  <2> QED
    BY <2>1, <2>2, FollowingKept
<1>6. ASSUME NEW i \in DOMAIN connects, Connected(i) PROVE Following'
  <2>1. /\ connects[i].step = "client" /\ connects' = [connects EXCEPT ![i] = Over]
        /\ account' = connects[i].account /\ refused' = (refused /\ changes # << >>)
        /\ UNCHANGED <<selected, changes, missed>>
    BY <1>6 DEF Connected, keplr
  <2>2. \A j \in DOMAIN connects' : connects'[j].step = "client" =>
           j \in DOMAIN connects /\ connects'[j] = connects[j]
    BY <2>1, <1>0 DEF ConnectTypeOK, Over
  <2> QED
    BY <2>1, <2>2, <1>0 DEF Following
<1>7. CASE Disconnected
  <2>1. connected' = FALSE /\ UNCHANGED <<selected, connects, changes, missed, refused>>
    BY <1>7 DEF Disconnected, keplr, history
  <2> QED
    BY <2>1, <1>0 DEF Following
<1>8. ASSUME NEW a \in KeplrAccounts, SwitchKey(a) PROVE Following'
  <2>1. /\ selected' = a
        /\ changes' = IF connected THEN Append(changes, NoAccount) ELSE changes
        /\ missed' = (missed \/ (~connected /\ changes # << >>)
                             \/ \E i \in DOMAIN connects : connects[i].step = "client")
        /\ refused' = (refused /\ ~connected)
        /\ UNCHANGED <<connected, account, connects>>
    BY <1>8 DEF SwitchKey, Noticed, store
  <2>2. changes' \in Seq(HandlerSteps)
    BY <2>1, <1>0 DEF Following, HandlerSteps
  <2>3. CASE connected
    <3>1. changes' # << >> /\ changes'[Len(changes')] = NoAccount
      BY <2>1, <2>3, <1>0 DEF Following
    <3>2. connected' /\ \A i \in DOMAIN connects' : ~missed' => connects'[i].step # "client"
      BY <2>1, <2>3
    <3> QED
      BY <2>2, <3>1, <3>2, <1>0 DEF Following
  <2>4. CASE ~connected
    <3>1. /\ ~connected' /\ (refused => refused') /\ changes' = changes
          /\ ~missed' => changes = << >>
          /\ \A i \in DOMAIN connects' : ~missed' => connects'[i].step # "client"
      BY <2>1, <2>4
    <3> QED
      BY <2>2, <3>1, <1>0 DEF Following
  <2> QED
    BY <2>3, <2>4
<1>9. CASE AnswerAccounts
  <2>1. PICK i \in DOMAIN changes, answer \in {selected, Refusal} :
           /\ changes[i] = NoAccount /\ changes' = [changes EXCEPT ![i] = answer]
           /\ refused' = (refused \/ (answer = Refusal /\ i = Len(changes)))
    BY <1>9 DEF AnswerAccounts
  <2>2. UNCHANGED <<selected, connected, account, connects, missed>>
    BY <1>9 DEF AnswerAccounts, keplr, store
  <2>3. answer \in HandlerSteps /\ changes \in Seq(HandlerSteps)
    BY <1>0 DEF Following, HandlerSteps
  <2>4. /\ changes' \in Seq(HandlerSteps) /\ Len(changes') = Len(changes)
        /\ changes # << >> /\ changes' # << >> /\ Len(changes) \in DOMAIN changes
        /\ changes'[i] = answer /\ \A j \in DOMAIN changes \ {i} : changes'[j] = changes[j]
    BY <2>1, <2>3
  <2>5. changes'[Len(changes')] = Refusal => refused'
    <3>1. CASE i = Len(changes)
      BY <2>1, <2>4, <3>1
    <3>2. CASE i # Len(changes)
      BY <2>1, <2>4, <3>2, <1>0 DEF Following
    <3> QED
      BY <3>1, <3>2
  <2>6. ~missed => changes'[Len(changes')] \in {NoAccount, Refusal, selected}
    BY <2>4, <1>0 DEF Following
  <2> QED
    BY <2>2, <2>4, <2>5, <2>6, <1>0 DEF Following
<1>10. CASE KeyStoreChanged
  <2>1. /\ changes # << >> /\ Head(changes) # NoAccount /\ changes' = Tail(changes)
        /\ account' = IF account = NoAccount \/ Head(changes) = Refusal THEN account
                      ELSE Head(changes)
        /\ UNCHANGED <<selected, connected, connects, missed, refused>>
    BY <1>10 DEF KeyStoreChanged, keplr, history
  <2>2. /\ changes' \in Seq(HandlerSteps)
        /\ changes' = << >> => changes[Len(changes)] = Head(changes)
        /\ changes' # << >> => changes'[Len(changes')] = changes[Len(changes)]
    <3> DEFINE A == HandlerSteps
    <3> HIDE DEF A
    <3>1. changes \in Seq(A) /\ changes # << >>
      BY <2>1, <1>0 DEF Following, A
    <3>2. /\ Len(changes) \in Nat /\ Len(changes) > 0
          /\ Tail(changes) \in Seq(A) /\ Len(Tail(changes)) = Len(changes) - 1
      BY <3>1
    <3>3. \A i \in 1 .. Len(changes) - 1 : Tail(changes)[i] = changes[i + 1]
      BY <3>1
    <3>4. Head(changes) = changes[1]
      BY <3>1
    <3>5. changes' = << >> <=> Len(changes) = 1
      <4> DEFINE T == Tail(changes)
      <4>1. T \in Seq(A) /\ Len(T) = Len(changes) - 1
        BY <3>2
      <4>2. changes' = T
        BY <2>1
      <4> HIDE DEF T
      <4>3. T = << >> <=> Len(T) = 0
        BY <4>1, EmptySeq
      <4> QED
        BY <3>2, <4>1, <4>2, <4>3
    <3>6. changes' # << >> => changes'[Len(changes')] = changes[Len(changes)]
      BY <2>1, <3>2, <3>3, <3>5
    <3> QED
      BY <2>1, <3>2, <3>4, <3>5, <3>6 DEF A
  <2>3. (connected /\ changes' = << >> /\ ~missed /\ ~refused) => account' = selected
    BY <2>1, <2>2, <1>0 DEF Following, AccountWhileConnected
  <2> QED
    BY <2>1, <2>2, <2>3, <1>0 DEF Following
<1>11. [Next]_vars =>
        \/ UNCHANGED <<selected, connects, connected, account, changes, missed, refused>>
        \/ LoadPage \/ ClickConnect \/ Disconnected \/ KeyStoreChanged \/ AnswerAccounts
        \/ \E i \in DOMAIN connects : AccountsKnown(i) \/ ConnectFails(i) \/ Connected(i)
        \/ \E a \in KeplrAccounts : SwitchKey(a)
  BY DEF Next, vars, keplr, store, awaiting, history, ClickDisconnect, DisconnectFails,
         Call, Answered
<1> QED
  BY <1>1, <1>2, <1>3, <1>4, <1>5, <1>6, <1>7, <1>8, <1>9, <1>10, <1>11

\* A connected page whose handlers of key changes have all run is that of the
\* account selected in Keplr, unless a change went unnoticed or the handler of the
\* latest was refused the accounts: the order in which script.js awaits the accounts
\* loses no other, and a refusal to an earlier handler does no harm.
THEOREM WalletFollows == Spec => []WalletFollowsKeplr
<1>1. Init => FollowingInv
  BY FollowingInit
<1>2. FollowingInv /\ [Next]_vars => FollowingInv'
  BY PageStep, FollowingStep DEF FollowingInv
<1>3. FollowingInv => WalletFollowsKeplr
  BY DEF FollowingInv, Following, WalletFollowsKeplr
<1> QED
  BY <1>1, <1>2, <1>3, PTL DEF Spec
=============================================================================
