---------------------------- MODULE StorageKeys ----------------------------
(***************************************************************************)
(* The contract's storage as keys and bytes, and the two ways the web      *)
(* server reads it: one key at a time, composed as the contract composes   *)
(* it, and all of it at once, by taking the keys apart again.              *)
(*                                                                         *)
(* A string is the sequence of its parts between colons.  Joining strings  *)
(* with a colon then is concatenation, and splitting one at every colon is *)
(* looking at its parts one by one.  Nothing keeps a ticker, and with it a *)
(* denom, from having colons; an address has none.                         *)
(***************************************************************************)
EXTENDS Garden

CONSTANTS
    NameOf,         \* the string of a denom or an address
    DigitsOf        \* the decimal digits of an index

Named == Denoms \cup Users

IsFirstPartOf(s, t) == Len(s) < Len(t) /\ SubSeq(t, 1, Len(s)) = s

\* The storage iterates in byte order, where a string comes before the longer
\* ones that begin with it; other names with equal first parts are left out.
ASSUME NameAssumption ==
    /\ \A x \in Named : NameOf[x] \in Seq(STRING) /\ NameOf[x] # << >>
    /\ \A x, y \in Named : NameOf[x] = NameOf[y] => x = y
    /\ \A g \in Users : Len(NameOf[g]) = 1
    /\ \A x, y \in Denoms : NameOf[x][1] = NameOf[y][1] =>
          x = y \/ IsFirstPartOf(NameOf[x], NameOf[y]) \/ IsFirstPartOf(NameOf[y], NameOf[x])

\* to_string() of the indexes the list can have.
ASSUME DigitsAssumption ==
    /\ DigitsOf \in [0 .. Cardinality(Denoms) -> STRING]
    /\ \A i, j \in 0 .. Cardinality(Denoms) : DigitsOf[i] = DigitsOf[j] => i = j

\* compose_key for the keys of a coin.
CoinKey(prefix, d) == <<prefix>> \o NameOf[d]

\* Mutant: the denom left out, as if a degen were in one presale only.
DegenKeyOfNoCoin(prefix, d, g) == <<prefix>> \o NameOf[g]

\* compose_key for the keys of a degen of a coin.
DegenKey(prefix, d, g) == <<prefix>> \o NameOf[d] \o NameOf[g]

IndexKey(i) == <<"SHITCOIN_DENOM", DigitsOf[i]>>

\* Values are little endian bytes of their width, one byte, or text.
U32(n) == <<"u32", n>>
U64(n) == <<"u64", n>>
U128(n) == <<"u128", n>>
Bool(b) == <<"bool", b>>
Text(s) == <<"text", s>>

ConfigCells ==
    {<<<<"PLATFORM_FEE_RECIPIENT">>, Text(config.fee_recipient)>>,
     <<<<"CREATE_FEE_DENOM">>, Text(config.create_fee_denom)>>,
     <<<<"CREATE_FEE">>, U128(config.create_fee)>>,
     <<<<"PRESALE_DENOM">>, Text(config.presale_denom)>>,
     <<<<"PRESALE_LENGTH">>, U64(config.presale_length)>>,
     <<<<"PRESALE_FEE_RATE">>, U32(config.presale_fee_rate)>>}

\* The index of a coin, whose value is the whole denom, and their number.
IndexCells ==
    {<<IndexKey(i - 1), Text(NameOf[shitcoin_denom[i]])>> : i \in DOMAIN shitcoin_denom}
    \cup {<<<<"SHITCOIN_COUNT">>, U64(n)>> : n \in {Len(shitcoin_denom)} \ {0}}

\* What is written of a coin.  A launch, a url, a submission and a claim have
\* no key before they happen.
CoinCells(d) ==
    {<<CoinKey("PRESALE_END", d), U64(presale_end[d])>>,
     <<CoinKey("PRESALE_RAISE", d), U128(presale_raise[d])>>,
     <<CoinKey("SHITCOIN_CREATOR", d), Text(shitcoin_creator[d])>>,
     <<CoinKey("SHITCOIN_TICKER", d), Text(shitcoin_ticker[d])>>,
     <<CoinKey("SHITCOIN_SUPPLY", d), U128(shitcoin_supply[d])>>}
    \cup {<<CoinKey("SHITCOIN_LAUNCHED", d), Bool(b)>> : b \in {shitcoin_launched[d]} \ {FALSE}}
    \cup {<<CoinKey("SHITCOIN_URL", d), Text(u)>> : u \in {shitcoin_url[d]} \ {None}}

DegenCells(d) ==
    {<<DegenKey("PRESALE_SUBMISSION", d, g), U128(presale_submission[d][g])>> :
        g \in {u \in Users : presale_submission[d][u] > 0}}
    \cup {<<DegenKey("PRESALE_CLAIMED", d, g), Bool(TRUE)>> :
            g \in {u \in Users : presale_claimed[d][u]}}

Storage ==
    ConfigCells \cup IndexCells
    \cup UNION {CoinCells(d) \cup DegenCells(d) : d \in {k \in Denoms : Created(k)}}
-----------------------------------------------------------------------------
(***************************************************************************)
(* Reading.                                                                *)
(***************************************************************************)

\* The number or text in one of the values, the default when there is none;
\* None where the code panics.
Read(values, type, default) ==
    IF values = {} THEN default
    ELSE LET v == CHOOSE v \in values : TRUE
         IN  IF v[1] = type THEN v[2] ELSE None

At(cells, key) == {cell[2] : cell \in {c \in cells : c[1] = key}}

\* query_shitcoin_metadata: no bytes are an empty text, FALSE, and no number.
QueriedShitcoin(cells, d) ==
    LET raw(prefix, type, default) == Read(At(cells, CoinKey(prefix, d)), type, default)
    IN  [creator |-> raw("SHITCOIN_CREATOR", "text", None),
         ticker |-> raw("SHITCOIN_TICKER", "text", None),
         url |-> raw("SHITCOIN_URL", "text", None),
         presale_end |-> raw("PRESALE_END", "u64", None),
         presale_raise |-> raw("PRESALE_RAISE", "u128", None),
         supply |-> raw("SHITCOIN_SUPPLY", "u128", None),
         launched |-> raw("SHITCOIN_LAUNCHED", "bool", FALSE)]

\* Mutant: the parts of the key in another order than the contract's.
RawDegenFirst(prefix, d, g) == <<prefix>> \o NameOf[g] \o NameOf[d]

RawDegenKey(prefix, d, g) == <<prefix>> \o NameOf[d] \o NameOf[g]

\* query_degen_metadata: a degen without a submission has submitted nothing.
QueriedDegen(cells, d, g) ==
    [submission |-> Read(At(cells, RawDegenKey("PRESALE_SUBMISSION", d, g)), "u128", 0),
     claimed |-> Read(At(cells, RawDegenKey("PRESALE_CLAIMED", d, g)), "bool", FALSE)]

\* Mutant: the key's last part taken for the denom.
LastPart(key) == key[Len(key)]

\* add_model_to_state takes the second part of a key for the denom, whatever
\* follows it, and of a degen's key the third for the degen.
DenomPart(key) == key[2]

DegenPart(key) == key[3]

\* Of several keys that decode alike the last in byte order is kept.
LastOf(hits) ==
    {cell[2] : cell \in {c \in hits : \A o \in hits : Len(o[1]) <= Len(c[1])}}

CellsOf(cells, prefixes, denom) ==
    {c \in cells : c[1][1] \in prefixes /\ DenomPart(c[1]) = denom}

ShitcoinPrefixes ==
    {"PRESALE_END", "PRESALE_RAISE", "SHITCOIN_CREATOR", "SHITCOIN_TICKER",
     "SHITCOIN_URL", "SHITCOIN_SUPPLY", "SHITCOIN_LAUNCHED"}

\* A lookup in the decoded maps is by the whole denom.
HasEntry(cells, d) == Len(NameOf[d]) = 1 /\ CellsOf(cells, ShitcoinPrefixes, NameOf[d][1]) # {}

DecodedShitcoin(cells, d) ==
    LET decoded(prefix, type, default) ==
            Read(LastOf(CellsOf(cells, {prefix}, NameOf[d][1])), type, default)
    IN  [creator |-> decoded("SHITCOIN_CREATOR", "text", None),
         ticker |-> decoded("SHITCOIN_TICKER", "text", None),
         url |-> decoded("SHITCOIN_URL", "text", None),
         presale_end |-> decoded("PRESALE_END", "u64", 0),
         presale_raise |-> decoded("PRESALE_RAISE", "u128", 0),
         supply |-> decoded("SHITCOIN_SUPPLY", "u128", 0),
         launched |-> decoded("SHITCOIN_LAUNCHED", "bool", FALSE)]

DecodedDegen(cells, d, g) ==
    LET hits(prefix) ==
            {c \in CellsOf(cells, {prefix}, NameOf[d][1]) : DegenPart(c[1]) = NameOf[g][1]}
    IN  [submission |-> Read(LastOf(hits("PRESALE_SUBMISSION")), "u128", 0),
         claimed |-> Read(LastOf(hits("PRESALE_CLAIMED")), "bool", FALSE)]

\* The listed denoms, which are decoded from the values of the index keys.
DecodedIndexes(cells) ==
    [i \in {n \in 0 .. Len(shitcoin_denom) : At(cells, IndexKey(n)) # {}} |->
        Read(At(cells, IndexKey(i)), "text", None)]
-----------------------------------------------------------------------------
(***************************************************************************)
(* Properties.                                                             *)
(***************************************************************************)

\* No two things the contract stores share a key, colons or not: no coin or
\* degen writes over what another one has stored.
KeysApart ==
    LET cells == Storage
    IN  \A c1, c2 \in cells : c1[1] = c2[1] => c1 = c2

\* What the event handlers of the server query is what the contract works
\* with, type by type, for every coin and every degen.
QueriesAgree ==
    LET cells == Storage
    IN  \A d \in Denoms : Created(d) =>
          /\ QueriedShitcoin(cells, d) =
                [creator |-> shitcoin_creator[d], ticker |-> shitcoin_ticker[d],
                 url |-> shitcoin_url[d], presale_end |-> presale_end[d],
                 presale_raise |-> presale_raise[d], supply |-> shitcoin_supply[d],
                 launched |-> shitcoin_launched[d]]
          /\ \A g \in Users : QueriedDegen(cells, d, g) =
                [submission |-> presale_submission[d][g], claimed |-> presale_claimed[d][g]]

\* A name without a colon that begins no other name.
PlainName(d) ==
    /\ Len(NameOf[d]) = 1
    /\ \A k \in Denoms \ {d} : Created(k) => NameOf[k][1] # NameOf[d][1]

\* The two ways of reading lead to the same state: for a coin with a plain
\* name the decoded snapshot holds what the queries of an event would store,
\* whatever colons the names of other coins have.
SnapshotAgrees ==
    LET cells == Storage
        indexes == DecodedIndexes(cells)
    IN  /\ \A i \in DOMAIN indexes : indexes[i] = NameOf[shitcoin_denom[i + 1]]
        /\ \A d \in Denoms : (Created(d) /\ PlainName(d)) =>
              /\ HasEntry(cells, d)
              /\ DecodedShitcoin(cells, d) = QueriedShitcoin(cells, d)
              /\ \A g \in Users : DecodedDegen(cells, d, g) = QueriedDegen(cells, d, g)

\* `state.shitcoins.get(&denom).cloned().unwrap()`: every coin of a decoded
\* snapshot's index has an entry in it.
ListedCoinsDecode ==
    LET cells == Storage
        indexes == DecodedIndexes(cells)
    IN  \A i \in DOMAIN indexes : \E d \in Denoms :
            NameOf[d] = indexes[i] /\ HasEntry(cells, d)
=============================================================================
