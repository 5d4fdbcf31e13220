---------------------------- MODULE InboxProofs ----------------------------
(***************************************************************************)
(* Theorems about the inbox, for every set of lines, accounts and          *)
(* handlers and every bound: the tables keep their shape (TypeOK),         *)
(* nobody's entry but its own is ever deleted by it (ForeignSurvives), a   *)
(* line is booked once (BookedOnce), and what is in the inbox is not in    *)
(* the books (InboxIsUnbooked).                                            *)
(*                                                                         *)
(* None is inductive: all depend on what a handler has in hand between     *)
(* two of its statements.  A line is tied to the payment or the transfer   *)
(* that its handler found earlier, and undo deletes the entry it read      *)
(* earlier.  The invariant IInv therefore says, beside the types (Typed):  *)
(*   - OneLine, OneKey: the two unique indexes;                            *)
(*   - Own: an entry a line has without adopting it was made of a line;    *)
(*   - Hands: the lines of a handler are of different accounts, and what   *)
(*     it found, made or will delete exists and is of the right kind.      *)
(* Transactions are never removed and never change their kind, their       *)
(* lines or their fingerprint (Grows), so what a handler knows of one      *)
(* stays true whatever the others do.                                      *)
(*                                                                         *)
(* A step either puts no line to a transaction (Loosens), or puts lines of *)
(* different accounts to one that no other line of these accounts has      *)
(* (Ties): two lemmas carry OneLine and Own over every action.  The last   *)
(* two properties need a second invariant, BookInv, stated where it is     *)
(* proved.                                                                 *)
(***************************************************************************)
EXTENDS Inbox, FiniteSetTheorems, TLAPS

Kinds == {"OTHER", "ORDER_PAYMENT", "ORDER_FEE", "TRANSFER"}
Places == {AccountOf[l] : l \in Lines} \cup {OtherAccount, Nowhere}
Keys == {NoKey} \cup {<<ContentOf[l], k>> : l \in Lines, k \in 1..MaxOccurrence}
TxType == [kind : Kinds, for : SUBSET Lines, from : Places, to : Places,
           amount : Nat, key : Keys, live : BOOLEAN]

Stages == {"adopt", "pay", "fee", "search", "link", "confirm", "backoff", "transfer", "tie", "dismiss", "unlink", "unbook"}
KnownType == UNION {[ls -> RowType] : ls \in SUBSET Lines}
JobType == [at : Stages, known : KnownType, n : 0..MaxTxs]

\* The rows have their types, and links point at transactions.
Typed ==
  /\ line \in [Lines -> RowType]
  /\ txs \in Seq(TxType) /\ Len(txs) <= MaxTxs
  /\ job \in [Handlers -> {Idle} \cup JobType]
  /\ astray \subseteq Lines
  /\ \A l \in Lines : line[l].tx \in DOMAIN txs \cup {0}

\* No transaction has two lines of one account, no two live ones a fingerprint.
OneLine ==
  \A k, l \in Lines : k # l /\ line[k].tx # 0 /\ AccountOf[k] = AccountOf[l] => line[k].tx # line[l].tx
OneKey == \A n, m \in Live : n # m /\ txs[n].key = txs[m].key => txs[n].key = NoKey

\* An entry a line has and did not adopt was made of a line.
Own ==
  \A l \in Lines : line[l].tx # 0 /\ ~line[l].adopted /\ txs[line[l].tx].kind = "OTHER" => txs[line[l].tx].for # {}

\* What a handler has in hand: lines of different accounts, the payment it
\* found, the transfer it made, an entry of the inbox that it will delete.
\* An entry to adopt only has to exist.
InHand(j, ts) ==
  /\ \A k, l \in DOMAIN j.known : k # l => AccountOf[k] # AccountOf[l]
  /\ j.at \in {"adopt", "link", "tie", "unbook"} => j.n \in DOMAIN ts
  /\ j.at = "link" => ts[j.n].kind = "ORDER_PAYMENT"
  /\ j.at = "tie" => ts[j.n].kind = "TRANSFER"
  /\ j.at = "unbook" => ts[j.n].for # {}
Hands == \A h \in Handlers : job[h] # Idle => InHand(job[h], txs)

IInv == Typed /\ OneLine /\ OneKey /\ Own /\ Hands

-----------------------------------------------------------------------------
\* What no step does to a transaction that exists: it is not another one.
Grows ==
  /\ txs' \in Seq(TxType) /\ Len(txs') <= MaxTxs
  /\ DOMAIN txs \subseteq DOMAIN txs'
  /\ \A n \in DOMAIN txs : /\ txs'[n].kind = txs[n].kind /\ txs'[n].for = txs[n].for /\ txs'[n].key = txs[n].key
                           /\ txs'[n].from = txs[n].from /\ (txs'[n].live => txs[n].live)

LEMMA Domain == ASSUME NEW s \in Seq(TxType) PROVE DOMAIN s = 1..Len(s) /\ Len(s) \in Nat /\ \A n \in DOMAIN s : s[n] \in TxType
  OBVIOUS

LEMMA Killed ==
  ASSUME NEW t \in TxType
  PROVE  LET u == [t EXCEPT !.live = FALSE]
         IN /\ u \in TxType /\ u.kind = t.kind /\ u.for = t.for /\ u.key = t.key /\ u.from = t.from /\ ~u.live
  BY DEF TxType

LEMMA AppendOne ==
  ASSUME Typed, NEW t \in TxType, Len(txs) + 1 <= MaxTxs, txs' = Append(txs, t)
  PROVE  /\ Grows /\ DOMAIN txs' = DOMAIN txs \cup {Len(txs) + 1} /\ Len(txs) + 1 \notin DOMAIN txs
         /\ txs'[Len(txs) + 1] = t /\ \A n \in DOMAIN txs : txs'[n] = txs[n]
  BY DEF Typed, Grows

LEMMA AppendTwo ==
  ASSUME Typed, NEW t \in TxType, NEW u \in TxType, Len(txs) + 2 <= MaxTxs, txs' = txs \o <<t, u>>
  PROVE  /\ Grows /\ DOMAIN txs' = DOMAIN txs \cup {Len(txs) + 1, Len(txs) + 2}
         /\ Len(txs) + 1 \notin DOMAIN txs /\ Len(txs) + 2 \notin DOMAIN txs
         /\ txs'[Len(txs) + 1] = t /\ txs'[Len(txs) + 2] = u /\ \A n \in DOMAIN txs : txs'[n] = txs[n]
<1>1. /\ txs' \in Seq(TxType) /\ Len(txs') <= MaxTxs /\ DOMAIN txs' = DOMAIN txs \cup {Len(txs) + 1, Len(txs) + 2}
      /\ Len(txs) + 1 \notin DOMAIN txs /\ Len(txs) + 2 \notin DOMAIN txs
      /\ txs'[Len(txs) + 1] = t /\ txs'[Len(txs) + 2] = u /\ \A n \in DOMAIN txs : txs'[n] = txs[n]
  BY DEF Typed
<1> QED
  BY <1>1, Zenon DEF Grows

LEMMA Deletion ==
  ASSUME Typed, NEW n \in DOMAIN txs, txs' = Deleted(n)
  PROVE  /\ Grows /\ DOMAIN txs' = DOMAIN txs /\ \A m \in DOMAIN txs \ {n} : txs'[m] = txs[m]
<1>1. txs[n] \in TxType /\ DOMAIN txs = 1..Len(txs)
  BY Domain DEF Typed
<1>2. txs'[n] = [txs[n] EXCEPT !.live = FALSE] /\ DOMAIN txs' = DOMAIN txs /\ \A m \in DOMAIN txs \ {n} : txs'[m] = txs[m]
  BY DEF Deleted
<1>3. txs'[n] \in TxType
  BY <1>1, <1>2, Killed
<1>4. txs' \in Seq(TxType) /\ Len(txs') = Len(txs)
  BY <1>1, <1>2, <1>3 DEF Typed, Deleted
<1>5. /\ txs'[n].kind = txs[n].kind /\ txs'[n].for = txs[n].for /\ txs'[n].key = txs[n].key
      /\ txs'[n].from = txs[n].from /\ ~txs'[n].live
  BY <1>1, <1>2, Killed
<1>6. Len(txs') <= MaxTxs
  BY <1>4 DEF Typed
<1> QED
  BY <1>2, <1>4, <1>5, <1>6, Zenon DEF Grows

-----------------------------------------------------------------------------
\* The steps that put no line to a transaction.
Loosens ==
  /\ line' \in [Lines -> RowType]
  /\ \A l \in Lines : /\ line'[l].tx \in {line[l].tx, 0}
                      /\ line'[l].tx # 0 => line'[l].adopted = line[l].adopted

LEMMA Loosened ==
  ASSUME Typed, OneLine, Own, Grows, Loosens
  PROVE  (\A l \in Lines : line'[l].tx \in DOMAIN txs' \cup {0}) /\ OneLine' /\ Own'
<1>1. \A l \in Lines : line'[l].tx \in DOMAIN txs' \cup {0}
  BY DEF Typed, Grows, Loosens
<1>2. OneLine'
  BY DEF OneLine, Loosens
<1>3. Own'
  BY DEF Typed, Own, Grows, Loosens
<1> QED
  BY <1>1, <1>2, <1>3

\* The steps that put the lines ls to transaction n, or to none.
Ties(ls, n) ==
  /\ line' \in [Lines -> RowType]
  /\ ls \subseteq Lines /\ n \in DOMAIN txs' /\ n # 0
  /\ \A l \in Lines \ ls : line'[l] = line[l]
  /\ \A l \in ls : line'[l].tx \in {n, 0}
  /\ \A k, l \in ls : k # l => AccountOf[k] # AccountOf[l]
  /\ \A l \in ls, k \in Lines \ ls : line[k].tx = n => AccountOf[k] # AccountOf[l]
  /\ \A l \in ls : line'[l].adopted \/ (txs'[n].kind = "OTHER" => txs'[n].for # {})

LEMMA Tied ==
  ASSUME Typed, OneLine, Own, Grows, NEW ls, NEW n, Ties(ls, n)
  PROVE  (\A l \in Lines : line'[l].tx \in DOMAIN txs' \cup {0}) /\ OneLine' /\ Own'
<1>1. \A l \in Lines : line'[l].tx \in DOMAIN txs' \cup {0}
  BY DEF Typed, Grows, Ties
<1>2. OneLine'
  BY DEF OneLine, Ties
<1>3. ASSUME NEW l \in Lines, line'[l].tx # 0, ~line'[l].adopted, txs'[line'[l].tx].kind = "OTHER"
      PROVE  txs'[line'[l].tx].for # {}
  <2>1. CASE l \in ls
    <3>1. line'[l].tx = n
      BY <1>3, <2>1 DEF Ties
    <3> QED
      BY <1>3, <2>1, <3>1, Zenon DEF Ties
  <2>2. CASE l \notin ls
    <3>1. line'[l] = line[l]
      BY <2>2 DEF Ties
    <3>2. line[l].tx \in DOMAIN txs
      BY <1>3, <3>1 DEF Typed
    <3>3. txs'[line[l].tx].kind = txs[line[l].tx].kind /\ txs'[line[l].tx].for = txs[line[l].tx].for
      BY <3>2, Zenon DEF Grows
    <3> QED
      BY <1>3, <3>1, <3>3, Zenon DEF Own
  <2> QED
    BY <2>1, <2>2
<1> QED
  BY <1>1, <1>2, <1>3, Zenon DEF Own

LEMMA KeysKept ==
  ASSUME OneKey, Grows,
         \A n \in DOMAIN txs' \ DOMAIN txs :
            \/ txs'[n].key = NoKey
            \/ \A m \in DOMAIN txs' \ {n} : txs'[m].live => txs'[m].key # txs'[n].key
  PROVE  OneKey'
  BY DEF OneKey, Grows, Live

LEMMA Busy ==
  ASSUME Typed, Hands, NEW h \in Handlers, job[h].at # "idle"
  PROVE  /\ job[h] \in JobType /\ InHand(job[h], txs) /\ LinesOf(h) \subseteq Lines
         /\ job[h].known \in KnownType /\ job[h].n \in 0..MaxTxs
<1>1. Idle.at = "idle"
  BY DEF Idle
<1>2. job[h] \in JobType /\ job[h] # Idle
  BY <1>1 DEF Typed
<1>3. job[h].known \in KnownType /\ job[h].n \in 0..MaxTxs
  BY <1>2 DEF JobType
<1>4. LinesOf(h) \subseteq Lines
  BY <1>3 DEF KnownType, LinesOf
<1> QED
  BY <1>2, <1>3, <1>4 DEF Hands

LEMMA InHandKept ==
  ASSUME Grows, NEW j, InHand(j, txs)
  PROVE  InHand(j, txs')
  BY DEF InHand, Grows

LEMMA HandsKept ==
  ASSUME Typed, Hands, Grows, UNCHANGED job
  PROVE  job' \in [Handlers -> {Idle} \cup JobType] /\ Hands'
  BY InHandKept DEF Hands, Typed

LEMMA HandsStep ==
  ASSUME Typed, Hands, Grows, NEW h \in Handlers, NEW j,
         j = Idle \/ (j \in JobType /\ InHand(j, txs')), job' = [job EXCEPT ![h] = j]
  PROVE  job' \in [Handlers -> {Idle} \cup JobType] /\ Hands'
<1>1. job' \in [Handlers -> {Idle} \cup JobType]
  BY DEF Typed
<1>2. Hands'
  BY InHandKept DEF Hands, Typed
<1> QED
  BY <1>1, <1>2

-----------------------------------------------------------------------------
\* What the updates of a row do to its type, its link and who made it.
LEMMA RowFacts ==
  ASSUME NEW row \in RowType
  PROVE  /\ ToInbox(row) \in RowType /\ ToInbox(row).tx = row.tx /\ ToInbox(row).adopted = row.adopted
         /\ Resolved(row) \in RowType /\ Resolved(row).tx = row.tx /\ Resolved(row).adopted = row.adopted
         /\ Dismissed(row) \in RowType /\ Dismissed(row).tx = row.tx /\ Dismissed(row).adopted = row.adopted
  BY DEF RowType, ToInbox, Resolved, Dismissed, Statuses

LEMMA FreedFacts ==
  ASSUME NEW row \in RowType, MaxTxs \in Nat
  PROVE  /\ Freed(row) \in RowType /\ Freed(row).tx = 0
         /\ [row EXCEPT !.status = "NEW", !.tx = 0] \in RowType
         /\ [row EXCEPT !.status = "NEW", !.tx = 0].tx = 0
         /\ [row EXCEPT !.status = "NEW", !.tx = 0, !.transfer = 0] \in RowType
         /\ [row EXCEPT !.status = "NEW", !.tx = 0, !.transfer = 0].tx = 0
<1>1. 0 \in 0..MaxTxs /\ "NEW" \in Statuses
  BY DEF Statuses
<1>2. Freed(row) \in RowType
  BY <1>1 DEF RowType, Freed
<1>3. Freed(row).tx = 0
  BY <1>1 DEF RowType, Freed
<1>4. /\ [row EXCEPT !.status = "NEW", !.tx = 0] \in RowType
      /\ [row EXCEPT !.status = "NEW", !.tx = 0].tx = 0
  BY <1>1 DEF RowType
<1>5. /\ [row EXCEPT !.status = "NEW", !.tx = 0, !.transfer = 0] \in RowType
      /\ [row EXCEPT !.status = "NEW", !.tx = 0, !.transfer = 0].tx = 0
  BY <1>1 DEF RowType
<1> QED
  BY <1>2, <1>3, <1>4, <1>5

LEMMA LinkFacts ==
  ASSUME NEW row \in RowType, NEW n \in 0..MaxTxs, NEW s \in Statuses
  PROVE  [row EXCEPT !.status = s, !.tx = n] \in RowType /\ [row EXCEPT !.status = s, !.tx = n].tx = n
  BY DEF RowType

LEMMA TieFacts ==
  ASSUME NEW row \in RowType, NEW n \in 0..MaxTxs
  PROVE  [row EXCEPT !.tx = n] \in RowType /\ [row EXCEPT !.tx = n].tx = n
  BY DEF RowType

LEMMA LegFacts ==
  ASSUME NEW row \in RowType, NEW n \in 0..MaxTxs, NEW m \in 0..MaxTxs
  PROVE  [row EXCEPT !.tx = n, !.transfer = m] \in RowType /\ [row EXCEPT !.tx = n, !.transfer = m].tx = n
  BY DEF RowType

LEMMA AdoptFacts ==
  ASSUME NEW row \in RowType, NEW n \in 0..MaxTxs, NEW s \in Statuses
  PROVE  /\ [row EXCEPT !.status = s, !.tx = n, !.adopted = TRUE] \in RowType
         /\ [row EXCEPT !.status = s, !.tx = n, !.adopted = TRUE].tx = n
  BY DEF RowType

LEMMA AdoptedFacts ==
  ASSUME NEW row \in RowType, NEW n, NEW s
  PROVE  [row EXCEPT !.status = s, !.tx = n, !.adopted = TRUE].adopted
  BY Zenon DEF RowType

-----------------------------------------------------------------------------
\* What a step must do to keep the invariant: to the links, and to the rest.
Loose(row) == {row, ToInbox(row), Resolved(row), Dismissed(row), Freed(row),
               [row EXCEPT !.status = "NEW", !.tx = 0],
               [row EXCEPT !.status = "NEW", !.tx = 0, !.transfer = 0]}

LEMMA Loosening ==
  ASSUME Typed, line' = [l \in Lines |-> line'[l]], \A l \in Lines : line'[l] \in Loose(line[l])
  PROVE  Loosens
<1>1. ASSUME NEW l \in Lines
      PROVE  /\ line'[l] \in RowType /\ line'[l].tx \in {line[l].tx, 0}
             /\ line'[l].tx # 0 => line'[l].adopted = line[l].adopted
  <2>1. line[l] \in RowType
    BY DEF Typed
  <2>2. MaxTxs \in Nat
    BY InboxAssumption
  <2>3. PICK row : row = line[l] /\ row \in RowType
    BY <2>1
  <2>4. line'[l] \in Loose(row)
    BY <2>3
  <2>5. CASE line'[l] \in {row, ToInbox(row), Resolved(row), Dismissed(row)}
    BY ONLY <2>3, <2>5, RowFacts, Zenon
  <2>6. CASE line'[l] \in {Freed(row), [row EXCEPT !.status = "NEW", !.tx = 0],
                           [row EXCEPT !.status = "NEW", !.tx = 0, !.transfer = 0]}
    BY ONLY <2>2, <2>3, <2>6, FreedFacts, Zenon
  <2> QED
    BY ONLY <2>4, <2>5, <2>6, Zenon DEF Loose
<1> QED
  BY <1>1 DEF Loosens

LEMMA Still ==
  ASSUME Typed, UNCHANGED txs
  PROVE  Grows
  BY DEF Typed, Grows

NewKeys == \A n \in DOMAIN txs' \ DOMAIN txs :
             \/ txs'[n].key = NoKey
             \/ \A m \in DOMAIN txs' \ {n} : txs'[m].live => txs'[m].key # txs'[n].key
Rest == /\ Grows /\ NewKeys /\ astray' \subseteq Lines
        /\ job' \in [Handlers -> {Idle} \cup JobType] /\ Hands'

LEMMA ByLoosening ==
  ASSUME IInv, Rest, Loosens
  PROVE  IInv'
<1>1. (\A l \in Lines : line'[l].tx \in DOMAIN txs' \cup {0}) /\ OneLine' /\ Own'
  BY Loosened DEF IInv, Rest
<1>2. OneKey'
  BY KeysKept DEF IInv, Rest, NewKeys
<1>3. Typed'
  BY <1>1 DEF Typed, Rest, Grows, Loosens
<1> QED
  BY <1>1, <1>2, <1>3 DEF IInv, Rest

LEMMA ByTying ==
  ASSUME IInv, Rest, NEW ls, NEW n, Ties(ls, n)
  PROVE  IInv'
<1>1. (\A l \in Lines : line'[l].tx \in DOMAIN txs' \cup {0}) /\ OneLine' /\ Own'
  BY Tied DEF IInv, Rest
<1>2. OneKey'
  BY KeysKept DEF IInv, Rest, NewKeys
<1>3. Typed'
  BY <1>1 DEF Typed, Rest, Grows, Ties
<1> QED
  BY <1>1, <1>2, <1>3 DEF IInv, Rest

LEMMA ByStill ==
  ASSUME Typed, UNCHANGED txs
  PROVE  Grows /\ NewKeys
  BY Still DEF NewKeys

-----------------------------------------------------------------------------
\* Arrival, and the handlers that are one transaction.
LEMMA StepIngestNew ==
  ASSUME IInv, NEW l \in Lines, IngestNew(l)
  PROVE  IInv'
<1>1. Loosens
  BY Loosening DEF IInv, IngestNew, With, Loose
<1>2. Rest
  BY ByStill, HandsKept DEF IInv, Rest, IngestNew, Typed
<1> QED
  BY <1>1, <1>2, ByLoosening

LEMMA StepUndismiss ==
  ASSUME IInv, NEW l \in Lines, Undismiss(l)
  PROVE  IInv'
<1>1. Loosens
  BY Loosening DEF IInv, Undismiss, With, Loose
<1>2. Rest
  BY ByStill, HandsKept DEF IInv, Rest, Undismiss, Typed
<1> QED
  BY <1>1, <1>2, ByLoosening

\* The transactions the inbox makes are transactions.
LEMMA EntryType ==
  ASSUME NEW l \in Lines, NEW for \in SUBSET Lines, NEW key \in Keys
  PROVE  Entry(l, for, key) \in TxType /\ Entry(l, for, key).key = key /\ Entry(l, for, key).for = for
  BY DEF Entry, Tx, TxType, Kinds, Places, Source, Target

LEMMA PaymentType ==
  ASSUME NEW l \in Lines, NEW for \in SUBSET Lines, NEW amount \in Nat
  PROVE  /\ Payment(l, for, amount) \in TxType /\ Payment(l, for, amount).key = NoKey
         /\ Payment(l, for, amount).kind = "ORDER_PAYMENT"
  BY DEF Payment, Tx, TxType, Kinds, Places, Keys

LEMMA FeeType ==
  ASSUME NEW l \in Lines, NEW kind \in Kinds
  PROVE  Fee(l, kind) \in TxType /\ Fee(l, kind).key = NoKey
  BY DEF Fee, Tx, TxType, Places, Keys

\* A transaction made for line l, and l put to it.
LEMMA StepBook ==
  ASSUME IInv, NEW l \in Lines, NEW status \in Statuses, NEW key \in Keys, Book(l, status, key)
  PROVE  IInv'
<1> DEFINE n == Len(txs) + 1
           t == Entry(l, {l}, key)
<1>1. t \in TxType /\ t.key = key /\ t.for = {l}
  BY EntryType
<1>2. /\ Grows /\ DOMAIN txs' = DOMAIN txs \cup {n} /\ n \notin DOMAIN txs
      /\ txs'[n] = t /\ \A m \in DOMAIN txs : txs'[m] = txs[m]
  BY <1>1, AppendOne DEF IInv, Book, Room
<1>3. NewKeys
  <2>1. key # NoKey => \A m \in DOMAIN txs : txs[m].live => txs[m].key # key
    BY DEF Book, Clash, Live
  <2>2. DOMAIN txs' \ DOMAIN txs = {n} /\ DOMAIN txs' \ {n} = DOMAIN txs /\ txs'[n].key = key
    BY <1>1, <1>2
  <2> QED
    BY <1>2, <2>1, <2>2, Zenon DEF NewKeys
<1>4. n \in 0..MaxTxs /\ n # 0 /\ line[l] \in RowType
  BY Domain, InboxAssumption DEF IInv, Typed, Book, Room
<1>5. line'[l] = [line[l] EXCEPT !.status = status, !.tx = n]
  BY DEF Book, With
<1>6. line'[l] \in RowType /\ line'[l].tx = n
  <2>1. \A row \in RowType, k \in 0..MaxTxs, s \in Statuses :
          [row EXCEPT !.status = s, !.tx = k] \in RowType /\ [row EXCEPT !.status = s, !.tx = k].tx = k
    BY LinkFacts
  <2>2. [line[l] EXCEPT !.status = status, !.tx = n] \in RowType /\ [line[l] EXCEPT !.status = status, !.tx = n].tx = n
    BY <1>4, <2>1
  <2> QED
    BY <1>5, <2>2
<1>7. \A k \in Lines \ {l} : line'[k] = line[k]
  BY DEF Book, With
<1>8. line' \in [Lines -> RowType]
  BY <1>6, <1>7 DEF IInv, Typed, Book, With
<1>9. \A k \in Lines : line[k].tx # n
  BY <1>2, <1>4 DEF IInv, Typed
<1>10. Ties({l}, n)
  BY <1>1, <1>2, <1>4, <1>6, <1>7, <1>8, <1>9 DEF Ties
<1>11. Rest
  BY <1>2, <1>3, HandsKept DEF IInv, Rest, Book, Typed
<1> QED
  BY <1>10, <1>11, ByTying

LEMMA FingerprintKey ==
  ASSUME NEW l \in Lines, NEW key \in Fingerprints(l)
  PROVE  key \in Keys
  BY DEF Fingerprints, Keys

LEMMA StepEnterByHand ==
  ASSUME IInv, NEW l \in Lines, EnterByHand(l)
  PROVE  IInv'
<1>1. PICK t \in TxType : txs' = Append(txs, t) /\ t.key = NoKey
  <2>1. Entry(l, {}, NoKey) \in TxType /\ Entry(l, {}, NoKey).key = NoKey
    BY EntryType DEF Keys
  <2>2. Payment(l, {}, 1) \in TxType /\ Payment(l, {}, 1).key = NoKey
    BY PaymentType
  <2> QED
    BY <2>1, <2>2 DEF EnterByHand
<1>2. Grows /\ NewKeys
  BY <1>1, AppendOne DEF IInv, EnterByHand, Room, NewKeys
<1>3. Loosens
  BY DEF IInv, Typed, EnterByHand, Loosens
<1>4. Rest
  BY <1>2, HandsKept DEF IInv, Rest, EnterByHand, Typed
<1> QED
  BY <1>3, <1>4, ByLoosening

LEMMA StepAtomic ==
  ASSUME IInv, NEW l \in Lines, Atomic(l)
  PROVE  IInv'
<1>1. CASE IngestNew(l)
  BY <1>1, StepIngestNew
<1>2. CASE IngestPosted(l)
  BY <1>2, StepBook, FingerprintKey DEF IngestPosted, Statuses
<1>3. CASE Categorize(l)
  BY <1>3, StepBook, FingerprintKey DEF Categorize, Statuses
<1>4. CASE PostByRule(l)
  BY <1>4, StepBook DEF PostByRule, Statuses, Keys
<1>5. CASE Undismiss(l)
  BY <1>5, StepUndismiss
<1>6. CASE EnterByHand(l)
  BY <1>6, StepEnterByHand
<1> QED
  BY <1>1, <1>2, <1>3, <1>4, <1>5, <1>6 DEF Atomic

-----------------------------------------------------------------------------
\* The statements of handlers: what a handler keeps in hand, and the lines.
LEMMA JobFacts ==
  ASSUME NEW at \in Stages, NEW known \in KnownType, NEW n \in 0..MaxTxs
  PROVE  /\ Job(at, known, n) \in JobType
         /\ Job(at, known, n).at = at /\ Job(at, known, n).known = known /\ Job(at, known, n).n = n
  BY DEF Job, JobType

LEMMA KnownFacts ==
  ASSUME NEW ls \in SUBSET Lines, NEW f \in [ls -> RowType]
  PROVE  f \in KnownType /\ DOMAIN f = ls
  BY DEF KnownType

LEMMA Finished ==
  ASSUME IInv, NEW h \in Handlers, Finish(h), Grows
  PROVE  job' \in [Handlers -> {Idle} \cup JobType] /\ Hands'
  BY HandsStep DEF IInv, Finish

\* A handler takes lines of different accounts and rows of theirs.
LEMMA Begun ==
  ASSUME IInv, NEW h \in Handlers, NEW ls \in SUBSET Lines, NEW f \in [ls -> RowType], NEW at \in Stages,
         NEW n \in 0..MaxTxs, Grows,
         at \notin {"link", "tie"}, at \in {"adopt", "unbook"} => n \in DOMAIN txs',
         at = "unbook" => txs'[n].for # {},
         \A k, l \in ls : k # l => AccountOf[k] # AccountOf[l],
         job' = [job EXCEPT ![h] = Job(at, f, n)]
  PROVE  job' \in [Handlers -> {Idle} \cup JobType] /\ Hands'
<1>1. f \in KnownType /\ DOMAIN f = ls
  BY KnownFacts
<1>2. /\ Job(at, f, n) \in JobType
      /\ Job(at, f, n).at = at /\ Job(at, f, n).known = f /\ Job(at, f, n).n = n
  BY <1>1, JobFacts
<1>3. InHand(Job(at, f, n), txs')
  BY <1>1, <1>2 DEF InHand, Stages
<1> QED
  BY <1>2, <1>3, HandsStep DEF IInv

\* A handler goes to its next statement with what it knows.
LEMMA Gone ==
  ASSUME IInv, NEW h \in Handlers, job[h].at # "idle", NEW at \in Stages, NEW n \in 0..MaxTxs, Grows,
         at \in {"adopt", "link", "tie", "unbook"} => n \in DOMAIN txs',
         at = "link" => txs'[n].kind = "ORDER_PAYMENT", at = "tie" => txs'[n].kind = "TRANSFER",
         at = "unbook" => txs'[n].for # {},
         Goto(h, at, n)
  PROVE  job' \in [Handlers -> {Idle} \cup JobType] /\ Hands'
<1>1. job[h].known \in KnownType /\ InHand(job[h], txs)
  BY Busy DEF IInv
<1>2. /\ Job(at, job[h].known, n) \in JobType
      /\ Job(at, job[h].known, n).at = at /\ Job(at, job[h].known, n).known = job[h].known
      /\ Job(at, job[h].known, n).n = n
  BY <1>1, JobFacts
<1>3. InHand(Job(at, job[h].known, n), txs')
  BY <1>1, <1>2 DEF InHand
<1>4. job' = [job EXCEPT ![h] = Job(at, job[h].known, n)]
  BY DEF Goto
<1> QED
  BY <1>2, <1>3, <1>4, HandsStep DEF IInv

LEMMA StepClaim ==
  ASSUME IInv, NEW h \in Handlers, NEW l \in Lines, NEW at \in {"pay", "transfer"}, Claim(h, {l}, at)
  PROVE  IInv'
<1>1. Loosens
  BY Loosening DEF IInv, Claim, With, Loose
<1>2. Grows /\ NewKeys /\ astray' \subseteq Lines
  BY ByStill DEF IInv, Claim, Typed
<1>3. [k \in {l} |-> Resolved(line[k])] \in [{l} -> RowType]
  BY RowFacts DEF IInv, Typed
<1>4. job' \in [Handlers -> {Idle} \cup JobType] /\ Hands'
  <2>1. at \in Stages /\ 0 \in 0..MaxTxs
    BY InboxAssumption DEF Stages
  <2> QED
    BY <1>2, <1>3, <2>1, Begun DEF Claim
<1> QED
  BY <1>1, <1>2, <1>4, ByLoosening DEF Rest

LEMMA RowsType ==
  ASSUME Typed, NEW ls \in SUBSET Lines
  PROVE  Rows(ls) \in [ls -> RowType]
  BY DEF Typed, Rows

LEMMA StepBeginConfirm ==
  ASSUME IInv, NEW h \in Handlers, NEW o \in Lines, NEW i \in Lines, BeginConfirm(h, {o, i})
  PROVE  IInv'
<1>1. Loosens
  BY DEF IInv, Typed, BeginConfirm, Loosens
<1>2. Grows /\ NewKeys /\ astray' \subseteq Lines
  BY ByStill DEF IInv, BeginConfirm, Typed
<1>3. \A k, l \in {o, i} : k # l => AccountOf[k] # AccountOf[l]
  BY DEF BeginConfirm, IsPair
<1>4. job' \in [Handlers -> {Idle} \cup JobType] /\ Hands'
  <2>1. "confirm" \in Stages /\ 0 \in 0..MaxTxs /\ Rows({o, i}) \in [{o, i} -> RowType]
    BY InboxAssumption, RowsType DEF Stages, IInv
  <2> QED
    BY <1>2, <1>3, <2>1, Begun DEF BeginConfirm
<1> QED
  BY <1>1, <1>2, <1>4, ByLoosening DEF Rest

LEMMA StepBeginDismiss ==
  ASSUME IInv, NEW h \in Handlers, NEW l \in Lines, BeginDismiss(h, l)
  PROVE  IInv'
<1>1. Loosens
  BY DEF IInv, Typed, BeginDismiss, Loosens
<1>2. Grows /\ NewKeys /\ astray' \subseteq Lines
  BY ByStill DEF IInv, BeginDismiss, Typed
<1>3. job' \in [Handlers -> {Idle} \cup JobType] /\ Hands'
  <2> DEFINE at == "dismiss"
             n == 0
  <2>1. at \in Stages \ {"adopt", "link", "tie", "unbook"} /\ n \in 0..MaxTxs /\ Rows({l}) \in [{l} -> RowType]
    BY InboxAssumption, RowsType DEF Stages, IInv
  <2>2. job' = [job EXCEPT ![h] = Job(at, Rows({l}), n)]
    BY DEF BeginDismiss
  <2> HIDE DEF at, n
  <2>3. PICK ls \in SUBSET Lines : \E f \in [ls -> RowType] :
          ls = {l} /\ job' = [job EXCEPT ![h] = Job(at, f, n)]
    BY <2>1, <2>2
  <2>4. \A j, k \in ls : j # k => AccountOf[j] # AccountOf[k]
    BY <2>3
  <2> QED
    BY <1>2, <2>1, <2>3, <2>4, Begun
<1> QED
  BY <1>1, <1>2, <1>3, ByLoosening DEF Rest

LEMMA StepBeginAdopt ==
  ASSUME IInv, NEW h \in Handlers, NEW l \in Lines, NEW n \in DOMAIN txs, BeginAdopt(h, l, n)
  PROVE  IInv'
<1>1. Loosens
  BY DEF IInv, Typed, BeginAdopt, Loosens
<1>2. Grows /\ NewKeys /\ astray' \subseteq Lines
  BY ByStill DEF IInv, BeginAdopt, Typed
<1>3. job' \in [Handlers -> {Idle} \cup JobType] /\ Hands'
  <2> DEFINE at == "adopt"
  <2>1. at \in Stages \ {"link", "tie", "unbook"} /\ Rows({l}) \in [{l} -> RowType]
    BY RowsType DEF Stages, IInv
  <2>2. job' = [job EXCEPT ![h] = Job(at, Rows({l}), n)] /\ txs' = txs
    BY DEF BeginAdopt
  <2>3. n \in DOMAIN txs' /\ n \in 0..MaxTxs
    BY <2>2, Domain, InboxAssumption DEF IInv, Typed
  <2> HIDE DEF at
  <2>4. PICK ls \in SUBSET Lines : \E f \in [ls -> RowType] :
          ls = {l} /\ job' = [job EXCEPT ![h] = Job(at, f, n)]
    BY <2>1, <2>2
  <2>5. \A j, k \in ls : j # k => AccountOf[j] # AccountOf[k]
    BY <2>4
  <2> QED
    BY <1>2, <2>1, <2>3, <2>4, <2>5, Begun
<1> QED
  BY <1>1, <1>2, <1>3, ByLoosening DEF Rest

\* What undo will delete is an entry that the line has and did not adopt.
LEMMA StepBeginUndo ==
  ASSUME IInv, NEW h \in Handlers, NEW l \in Lines, BeginUndo(h, l)
  PROVE  IInv'
<1> DEFINE at == IF OnlyTheLink(line[l]) THEN "unlink" ELSE "unbook"
           n == line[l].tx
<1>1. Loosens
  BY DEF IInv, Typed, BeginUndo, Loosens
<1>2. Grows /\ NewKeys /\ astray' \subseteq Lines
  BY ByStill DEF IInv, BeginUndo, Typed
<1>3. n \in DOMAIN txs /\ n # 0 /\ n \in 0..MaxTxs
  BY Domain, InboxAssumption DEF IInv, Typed, BeginUndo
<1>4. at = "unbook" => txs[n].for # {}
  <2>1. SUFFICES ASSUME ~OnlyTheLink(line[l]) PROVE txs[n].for # {}
    OBVIOUS
  <2>2. txs[n].kind = "OTHER"
    BY <2>1, Zenon DEF BeginUndo
  <2>3. ~line[l].adopted
    BY <2>1, Zenon DEF OnlyTheLink
  <2> QED
    BY <1>3, <2>2, <2>3, Zenon DEF IInv, Own
<1>5. job' \in [Handlers -> {Idle} \cup JobType] /\ Hands'
  <2>1. at \in Stages \ {"adopt", "link", "tie"} /\ Rows({l}) \in [{l} -> RowType]
    BY RowsType DEF Stages, IInv
  <2>2. job' = [job EXCEPT ![h] = Job(at, Rows({l}), n)] /\ txs' = txs
    BY DEF BeginUndo
  <2>4. at = "unbook" => n \in DOMAIN txs' /\ txs'[n].for # {}
    BY <1>3, <1>4, <2>2
  <2> HIDE DEF at, n
  <2>5. PICK ls \in SUBSET Lines : \E f \in [ls -> RowType] :
          ls = {l} /\ job' = [job EXCEPT ![h] = Job(at, f, n)]
    BY <2>1, <2>2
  <2>6. \A j, k \in ls : j # k => AccountOf[j] # AccountOf[k]
    BY <2>5
  <2> QED
    BY <1>2, <1>3, <2>1, <2>4, <2>5, <2>6, Begun
<1> QED
  BY <1>1, <1>2, <1>5, ByLoosening DEF Rest

LEMMA StepStart ==
  ASSUME IInv, NEW h \in Handlers, Start(h)
  PROVE  IInv'
<1>1. CASE \E l \in Incoming : Claim(h, {l}, "pay")
  BY <1>1, StepClaim, InboxAssumption
<1>2. CASE \E l \in Lines : Claim(h, {l}, "transfer")
  BY <1>2, StepClaim
<1>3. CASE \E o, i \in Lines : BeginConfirm(h, {o, i})
  BY <1>3, StepBeginConfirm
<1>4. CASE \E l \in Lines : BeginDismiss(h, l)
  BY <1>4, StepBeginDismiss
<1>5. CASE \E l \in Lines : BeginUndo(h, l)
  BY <1>5, StepBeginUndo
<1>6. CASE \E l \in Lines, n \in DOMAIN txs : BeginAdopt(h, l, n)
  BY <1>6, StepBeginAdopt
<1> QED
  BY <1>1, <1>2, <1>3, <1>4, <1>5, <1>6 DEF Start

\* Handlers that end: their lines go back to the inbox, or are dismissed.
LEMMA StepRefused ==
  ASSUME IInv, NEW h \in Handlers, Refused(h)
  PROVE  IInv'
<1>1. Loosens
  BY Loosening DEF IInv, Refused, Write, With, Loose
<1>2. Grows /\ NewKeys
  BY ByStill DEF IInv, Refused
<1>3. astray' \subseteq Lines
  BY Busy DEF IInv, Typed, Refused, Write, At
<1>4. job' \in [Handlers -> {Idle} \cup JobType] /\ Hands'
  BY <1>2, Finished DEF Refused
<1> QED
  BY <1>1, <1>2, <1>3, <1>4, ByLoosening DEF Rest

LEMMA StepBackOff ==
  ASSUME IInv, NEW h \in Handlers, BackOff(h)
  PROVE  IInv'
<1>1. Loosens
  BY Loosening DEF IInv, BackOff, Write, With, Loose
<1>2. Grows /\ NewKeys
  BY ByStill DEF IInv, BackOff
<1>3. astray' \subseteq Lines
  BY Busy DEF IInv, Typed, BackOff, Write, At
<1>4. job' \in [Handlers -> {Idle} \cup JobType] /\ Hands'
  BY <1>2, Finished DEF BackOff
<1> QED
  BY <1>1, <1>2, <1>3, <1>4, ByLoosening DEF Rest

LEMMA StepReleaseAlive ==
  ASSUME IInv, NEW h \in Handlers, ReleaseAlive(h)
  PROVE  IInv'
<1>1. Loosens
  BY Loosening DEF IInv, ReleaseAlive, Write, With, Loose
<1>2. Grows /\ NewKeys
  BY ByStill DEF IInv, ReleaseAlive
<1>3. astray' \subseteq Lines
  BY Busy DEF IInv, Typed, ReleaseAlive, Write, At
<1>4. job' \in [Handlers -> {Idle} \cup JobType] /\ Hands'
  BY <1>2, Finished DEF ReleaseAlive
<1> QED
  BY <1>1, <1>2, <1>3, <1>4, ByLoosening DEF Rest

LEMMA StepDismiss ==
  ASSUME IInv, NEW h \in Handlers, Dismiss(h)
  PROVE  IInv'
<1>1. Loosens
  BY Loosening DEF IInv, Dismiss, Write, With, Loose
<1>2. Grows /\ NewKeys
  BY ByStill DEF IInv, Dismiss
<1>3. astray' \subseteq Lines
  BY Busy DEF IInv, Typed, Dismiss, Write, At
<1>4. job' \in [Handlers -> {Idle} \cup JobType] /\ Hands'
  BY <1>2, Finished DEF Dismiss
<1> QED
  BY <1>1, <1>2, <1>3, <1>4, ByLoosening DEF Rest

LEMMA StepUnlink ==
  ASSUME IInv, NEW h \in Handlers, Unlink(h)
  PROVE  IInv'
<1>1. Loosens
  BY Loosening DEF IInv, Unlink, Write, With, Loose
<1>2. Grows /\ NewKeys
  BY ByStill DEF IInv, Unlink
<1>3. astray' \subseteq Lines
  BY Busy DEF IInv, Typed, Unlink, Write, At
<1>4. job' \in [Handlers -> {Idle} \cup JobType] /\ Hands'
  BY <1>2, Finished DEF Unlink
<1> QED
  BY <1>1, <1>2, <1>3, <1>4, ByLoosening DEF Rest

LEMMA StepUnbook ==
  ASSUME IInv, NEW h \in Handlers, Unbook(h)
  PROVE  IInv'
<1>1. Loosens
  BY Loosening DEF IInv, Unbook, Write, With, Loose
<1>2. job[h].n \in DOMAIN txs /\ LinesOf(h) \subseteq Lines
  BY Busy DEF IInv, InHand, Unbook, At
<1>3. Grows /\ NewKeys
  BY <1>2, Deletion DEF IInv, Unbook, NewKeys
<1>4. astray' \subseteq Lines
  BY <1>2 DEF IInv, Typed, Unbook, Write
<1>5. job' \in [Handlers -> {Idle} \cup JobType] /\ Hands'
  BY <1>3, Finished DEF Unbook
<1> QED
  BY <1>1, <1>3, <1>4, <1>5, ByLoosening DEF Rest

LEMMA StepCrash ==
  ASSUME IInv, NEW h \in Handlers, Crash(h)
  PROVE  IInv'
<1>1. Loosens
  BY DEF IInv, Typed, Crash, Loosens
<1>2. Grows /\ NewKeys /\ astray' \subseteq Lines
  BY ByStill DEF IInv, Crash, Typed
<1>3. job' \in [Handlers -> {Idle} \cup JobType] /\ Hands'
  BY <1>2, Finished DEF Crash
<1> QED
  BY <1>1, <1>2, <1>3, ByLoosening DEF Rest

LEMMA StepConfirmClaim ==
  ASSUME IInv, NEW h \in Handlers, ConfirmClaim(h)
  PROVE  IInv'
<1> DEFINE ls == LinesOf(h)
           won == {l \in ls : IsNew(l)}
           at == IF won = ls THEN "transfer" ELSE "backoff"
           f == [l \in ls |-> IF l \in won THEN Resolved(line[l]) ELSE job[h].known[l]]
           n == 0
<1>1. Loosens
  BY Loosening DEF IInv, ConfirmClaim, With, Loose
<1>2. Grows /\ NewKeys /\ astray' \subseteq Lines
  BY ByStill DEF IInv, ConfirmClaim, Typed
<1>3. ls \subseteq Lines /\ InHand(job[h], txs) /\ job[h].known \in [ls -> RowType]
  <2>1. ls \subseteq Lines /\ InHand(job[h], txs) /\ job[h].known \in KnownType
    BY Busy DEF IInv, ConfirmClaim, At
  <2> QED
    BY <2>1 DEF KnownType, LinesOf
<1>4. f \in [ls -> RowType]
  <2>1. \A l \in ls : Resolved(line[l]) \in RowType /\ job[h].known[l] \in RowType
    BY <1>3, RowFacts DEF IInv, Typed
  <2> QED
    BY <2>1
<1>5. \A j, k \in ls : j # k => AccountOf[j] # AccountOf[k]
  BY <1>3 DEF InHand, LinesOf
<1>6. at \in Stages \ {"adopt", "link", "tie", "unbook"} /\ n \in 0..MaxTxs
  BY InboxAssumption DEF Stages
<1>7. job' = [job EXCEPT ![h] = Job(at, f, n)]
  <2>1. job' = [job EXCEPT ![h] = Job(at, [l \in LinesOf(h) |-> IF l \in won THEN Resolved(line[l]) ELSE @.known[l]], 0)]
    BY DEF ConfirmClaim
  <2> QED
    BY <2>1 DEF IInv, Typed
<1>8. job' \in [Handlers -> {Idle} \cup JobType] /\ Hands'
  <2> HIDE DEF ls, f, at, n
  <2>1. PICK lines \in SUBSET Lines : lines = ls
    BY <1>3
  <2>2. PICK known \in [lines -> RowType] : job' = [job EXCEPT ![h] = Job(at, known, n)]
    BY <1>4, <1>7, <2>1
  <2> QED
    BY <1>2, <1>5, <1>6, <2>1, <2>2, Begun
<1> QED
  BY <1>1, <1>2, <1>8, ByLoosening DEF Rest

\* Handlers that make transactions and go on.
LEMMA StepAttachPay ==
  ASSUME IInv, NEW h \in Handlers, AttachPay(h)
  PROVE  IInv'
<1>1. Loosens
  BY DEF IInv, Typed, AttachPay, Loosens
<1>2. job[h].at # "idle" /\ LinesOf(h) \subseteq Lines
  BY Busy DEF IInv, AttachPay, At
<1>3. PICK t \in TxType : txs' = Append(txs, t) /\ t.key = NoKey
  BY <1>2, PaymentType DEF AttachPay
<1>4. Grows /\ NewKeys
  <2> DEFINE n == Len(txs) + 1
  <2>1. Grows /\ DOMAIN txs' = DOMAIN txs \cup {n} /\ txs'[n] = t
    BY <1>3, AppendOne DEF IInv, AttachPay, Room
  <2> HIDE DEF n
  <2> QED
    BY <1>3, <2>1 DEF NewKeys
<1>5. PICK at \in {"fee", "search"} : Goto(h, at, Len(txs) + 1)
  BY DEF AttachPay
<1>6. Len(txs) + 1 \in 0..MaxTxs /\ at \in Stages
  BY Domain, InboxAssumption DEF IInv, Typed, AttachPay, Room, Stages
<1>7. job' \in [Handlers -> {Idle} \cup JobType] /\ Hands'
  BY <1>2, <1>4, <1>5, <1>6, Gone
<1>8. astray' \subseteq Lines
  BY DEF IInv, Typed, AttachPay
<1> QED
  BY <1>1, <1>4, <1>7, <1>8, ByLoosening DEF Rest

LEMMA StepAttachInstallment ==
  ASSUME IInv, NEW h \in Handlers, AttachInstallment(h)
  PROVE  IInv'
<1>1. Loosens
  BY DEF IInv, Typed, AttachInstallment, Loosens
<1>2. job[h].at # "idle" /\ LinesOf(h) \subseteq Lines
  BY Busy DEF IInv, AttachInstallment, At
<1>3. PICK l \in LinesOf(h) : txs' = txs \o <<Payment(l, {l}, 2), Fee(l, "ORDER_FEE")>>
  BY DEF AttachInstallment
<1>4. PICK t \in TxType, u \in TxType : txs' = txs \o <<t, u>> /\ t.key = NoKey /\ u.key = NoKey
  BY <1>2, <1>3, PaymentType, FeeType DEF Kinds
<1>5. Grows /\ NewKeys
  <2> DEFINE n == Len(txs) + 1
             m == Len(txs) + 2
  <2>1. Grows /\ DOMAIN txs' = DOMAIN txs \cup {n, m} /\ txs'[n] = t /\ txs'[m] = u
    BY <1>4, AppendTwo DEF IInv, AttachInstallment, Room
  <2> HIDE DEF n, m
  <2> QED
    BY <1>4, <2>1 DEF NewKeys
<1>6. Len(txs) + 1 \in 0..MaxTxs /\ "search" \in Stages
  BY Domain, InboxAssumption DEF IInv, Typed, AttachInstallment, Room, Stages
<1>7. job' \in [Handlers -> {Idle} \cup JobType] /\ Hands'
  BY <1>2, <1>5, <1>6, Gone DEF AttachInstallment
<1>8. astray' \subseteq Lines
  BY DEF IInv, Typed, AttachInstallment
<1> QED
  BY <1>1, <1>5, <1>7, <1>8, ByLoosening DEF Rest

LEMMA StepAttachFee ==
  ASSUME IInv, NEW h \in Handlers, AttachFee(h)
  PROVE  IInv'
<1>1. Loosens
  BY DEF IInv, Typed, AttachFee, Loosens
<1>2. job[h].at # "idle" /\ LinesOf(h) \subseteq Lines /\ job[h].n \in 0..MaxTxs
  BY Busy DEF IInv, AttachFee, At
<1>3. PICK t \in TxType : txs' = Append(txs, t) /\ t.key = NoKey
  BY <1>2, FeeType DEF AttachFee, Kinds
<1>4. Grows /\ NewKeys
  BY <1>3, AppendOne DEF IInv, AttachFee, Room, NewKeys
<1>5. job' \in [Handlers -> {Idle} \cup JobType] /\ Hands'
  <2>1. "search" \in Stages
    BY DEF Stages
  <2> QED
    BY <1>2, <1>4, <2>1, Gone DEF AttachFee
<1>6. astray' \subseteq Lines
  BY DEF IInv, Typed, AttachFee
<1> QED
  BY <1>1, <1>4, <1>5, <1>6, ByLoosening DEF Rest

LEMMA StepAttachSearch ==
  ASSUME IInv, NEW h \in Handlers, AttachSearch(h)
  PROVE  IInv'
<1>1. Loosens
  BY DEF IInv, Typed, AttachSearch, Loosens
<1>2. Grows /\ NewKeys /\ astray' \subseteq Lines
  BY ByStill DEF IInv, AttachSearch, Typed
<1>3. job' \in [Handlers -> {Idle} \cup JobType] /\ Hands'
  <2>1. CASE Finish(h)
    BY <1>2, <2>1, Finished
  <2>2. CASE \E n \in Live : txs[n].kind = "ORDER_PAYMENT" /\ Goto(h, "link", n)
    <3>1. PICK n \in Live : txs[n].kind = "ORDER_PAYMENT" /\ Goto(h, "link", n)
      BY <2>2
    <3>2. n \in DOMAIN txs' /\ n \in 0..MaxTxs /\ txs'[n].kind = "ORDER_PAYMENT" /\ "link" \in Stages
      BY <3>1, Domain, InboxAssumption DEF Live, IInv, Typed, Stages, AttachSearch
    <3>3. job[h].at # "idle"
      BY DEF AttachSearch, At
    <3> QED
      BY <1>2, <3>1, <3>2, <3>3, Gone
  <2> QED
    BY <2>1, <2>2 DEF AttachSearch
<1> QED
  BY <1>1, <1>2, <1>3, ByLoosening DEF Rest

LEMMA StepMakeTransfer ==
  ASSUME IInv, NEW h \in Handlers, MakeTransfer(h)
  PROVE  IInv'
<1> DEFINE n == Len(txs) + 1
<1>1. Loosens
  BY DEF IInv, Typed, MakeTransfer, Loosens
<1>2. job[h].at # "idle" /\ LinesOf(h) \subseteq Lines
  BY Busy DEF IInv, MakeTransfer, At
<1>3. PICK t \in TxType : txs' = Append(txs, t) /\ t.key = NoKey /\ t.kind = "TRANSFER"
  <2> DEFINE account(ls) == IF ls = {} THEN OtherAccount ELSE AccountOf[CHOOSE l \in ls : TRUE]
  <2>1. ASSUME NEW ls \in SUBSET Lines
        PROVE  account(ls) \in Places
    BY DEF Places
  <2>2. PICK from \in Places, to \in Places : txs' = Append(txs, Tx("TRANSFER", LinesOf(h), from, to, 1, NoKey))
    <3>1. LinesOf(h) \ Incoming \in SUBSET Lines /\ LinesOf(h) \cap Incoming \in SUBSET Lines
      BY <1>2
    <3>2. txs' = Append(txs, Tx("TRANSFER", LinesOf(h), account(LinesOf(h) \ Incoming), account(LinesOf(h) \cap Incoming), 1, NoKey))
      BY DEF MakeTransfer
    <3> HIDE DEF account
    <3> QED
      BY <2>1, <3>1, <3>2
  <2>3. Tx("TRANSFER", LinesOf(h), from, to, 1, NoKey) \in TxType
    BY <1>2, <2>2 DEF Tx, TxType, Kinds, Keys
  <2> QED
    BY <2>2, <2>3 DEF Tx
<1>4. /\ Grows /\ NewKeys /\ n \in DOMAIN txs' /\ txs'[n].kind = "TRANSFER"
  BY <1>3, AppendOne DEF IInv, MakeTransfer, Room, NewKeys
<1>5. n \in 0..MaxTxs /\ "tie" \in Stages
  BY Domain, InboxAssumption DEF IInv, Typed, MakeTransfer, Room, Stages
<1>6. job' \in [Handlers -> {Idle} \cup JobType] /\ Hands'
  <2>1. Goto(h, "tie", n)
    BY DEF MakeTransfer
  <2> HIDE DEF n
  <2> QED
    BY <1>2, <1>4, <1>5, <2>1, Gone
<1>7. astray' \subseteq Lines
  BY DEF IInv, Typed, MakeTransfer
<1> QED
  BY <1>1, <1>4, <1>6, <1>7, ByLoosening DEF Rest

\* The link of attachOrder, and the links to the legs of a transfer.
LEMMA StepAttachLink ==
  ASSUME IInv, NEW h \in Handlers, AttachLink(h)
  PROVE  IInv'
<1> DEFINE n == job[h].n
           tied == {l \in LinesOf(h) : \A k \in Lines \ {l} : line[k].tx # n}
<1>1. /\ job[h].at = "link" /\ job[h].at # "idle"
      /\ LinesOf(h) \subseteq Lines /\ n \in 0..MaxTxs /\ InHand(job[h], txs)
  BY Busy DEF IInv, AttachLink, At
<1>2. n \in DOMAIN txs /\ txs[n].kind = "ORDER_PAYMENT" /\ n # 0 /\ txs[n].for \subseteq Lines
  <2>1. n \in DOMAIN txs /\ txs[n].kind = "ORDER_PAYMENT"
    BY <1>1 DEF InHand
  <2>2. txs[n] \in TxType /\ n # 0
    BY <2>1, Domain DEF IInv, Typed
  <2>3. txs[n].for \subseteq Lines
    BY <2>2 DEF TxType
  <2> QED
    BY <2>1, <2>2, <2>3
<1>3. txs' = txs /\ Grows /\ NewKeys
  BY ByStill DEF IInv, AttachLink
<1>4. tied \subseteq Lines /\ \A k, l \in tied : k # l => AccountOf[k] # AccountOf[l]
  BY <1>1 DEF InHand, LinesOf
<1>5. \A l \in tied, k \in Lines \ tied : line[k].tx # n
  BY <1>4
<1>6. /\ \A l \in Lines \ tied : line'[l] = line[l]
      /\ \A l \in tied : line'[l] = [line[l] EXCEPT !.tx = n]
  BY <1>4 DEF AttachLink, With
<1>7. \A l \in tied : line'[l] \in RowType /\ line'[l].tx = n
  <2>1. \A row \in RowType, k \in 0..MaxTxs : [row EXCEPT !.tx = k] \in RowType /\ [row EXCEPT !.tx = k].tx = k
    BY TieFacts
  <2>2. \A l \in tied : [line[l] EXCEPT !.tx = n] \in RowType /\ [line[l] EXCEPT !.tx = n].tx = n
    BY <1>1, <1>4, <2>1 DEF IInv, Typed
  <2> QED
    BY <1>6, <2>2
<1>8. line' \in [Lines -> RowType]
  <2>1. \A l \in Lines : line'[l] \in RowType
    BY <1>6, <1>7 DEF IInv, Typed
  <2>2. line' = [l \in Lines |-> line'[l]]
    BY DEF AttachLink, With
  <2> QED
    BY <2>1, <2>2
<1>9. \A l \in tied : line'[l].adopted \/ (txs'[n].kind = "OTHER" => txs'[n].for # {})
  BY <1>2, <1>3
<1>10. astray' \subseteq Lines
  BY <1>1, <1>2 DEF IInv, Typed, AttachLink
<1>11. job' \in [Handlers -> {Idle} \cup JobType] /\ Hands'
  BY <1>3, Finished DEF AttachLink
<1> HIDE DEF n, tied
<1>12. Ties(tied, n)
  BY <1>2, <1>3, <1>4, <1>5, <1>6, <1>7, <1>8, <1>9 DEF Ties
<1> QED
  BY <1>3, <1>10, <1>11, <1>12, ByTying DEF Rest

LEMMA StepTieLines ==
  ASSUME IInv, NEW h \in Handlers, TieLines(h)
  PROVE  IInv'
<1> DEFINE n == job[h].n
           ls == LinesOf(h)
<1>1. /\ job[h].at = "tie" /\ job[h].at # "idle"
      /\ ls \subseteq Lines /\ n \in 0..MaxTxs /\ InHand(job[h], txs)
  BY Busy DEF IInv, TieLines, At
<1>2. n \in DOMAIN txs /\ txs[n].kind = "TRANSFER" /\ n # 0
  <2>1. n \in DOMAIN txs /\ txs[n].kind = "TRANSFER"
    BY <1>1 DEF InHand
  <2> QED
    BY <2>1, Domain DEF IInv, Typed
<1>3. txs' = txs /\ Grows /\ NewKeys
  BY ByStill DEF IInv, TieLines
<1>4. \A k, l \in ls : k # l => AccountOf[k] # AccountOf[l]
  BY <1>1 DEF InHand, LinesOf
<1>5. \A l \in ls, k \in Lines \ ls : line[k].tx = n => AccountOf[k] # AccountOf[l]
  BY DEF TieLines
<1>6. PICK leg \in {n, 0} :
        /\ line' = [l \in Lines |-> IF l \in ls THEN [line[l] EXCEPT !.tx = leg, !.transfer = n] ELSE line[l]]
        /\ astray' = astray \cup {l \in ls : line[l] # job[h].known[l]}
  BY DEF TieLines, Write, With
<1>7. /\ \A l \in Lines \ ls : line'[l] = line[l]
      /\ \A l \in ls : line'[l] = [line[l] EXCEPT !.tx = leg, !.transfer = n]
      /\ line' = [l \in Lines |-> line'[l]]
  BY <1>1, <1>6
<1>8. \A l \in ls : line'[l] \in RowType /\ line'[l].tx \in {n, 0}
  <2>1. \A row \in RowType, k \in 0..MaxTxs, m \in 0..MaxTxs :
          [row EXCEPT !.tx = k, !.transfer = m] \in RowType /\ [row EXCEPT !.tx = k, !.transfer = m].tx = k
    BY LegFacts
  <2>2. leg \in 0..MaxTxs
    <3>1. 0 \in 0..MaxTxs
      BY InboxAssumption
    <3>2. leg = n \/ leg = 0
      BY <1>6
    <3> HIDE DEF n
    <3> QED
      BY <1>1, <3>1, <3>2
  <2>3. n \in 0..MaxTxs /\ \A l \in ls : line[l] \in RowType
    BY <1>1 DEF IInv, Typed
  <2> HIDE DEF n, ls
  <2>4. \A l \in ls : /\ [line[l] EXCEPT !.tx = leg, !.transfer = n] \in RowType
                      /\ [line[l] EXCEPT !.tx = leg, !.transfer = n].tx = leg
    BY <2>1, <2>2, <2>3
  <2> QED
    BY <1>6, <1>7, <2>4
<1>9. line' \in [Lines -> RowType]
  <2>1. \A l \in Lines : line'[l] \in RowType
    BY <1>7, <1>8 DEF IInv, Typed
  <2> QED
    BY <1>7, <2>1
<1>10. astray' \subseteq Lines
  BY <1>1, <1>6 DEF IInv, Typed
<1>11. job' \in [Handlers -> {Idle} \cup JobType] /\ Hands'
  BY <1>3, Finished DEF TieLines
<1> HIDE DEF n, ls
<1>12. Ties(ls, n)
  BY <1>1, <1>2, <1>3, <1>4, <1>5, <1>7, <1>8, <1>9 DEF Ties
<1> QED
  BY <1>3, <1>10, <1>11, <1>12, ByTying DEF Rest

\* The link to an entry found earlier, if no line has it and the line is new.
LEMMA StepAdopt ==
  ASSUME IInv, NEW h \in Handlers, Adopt(h)
  PROVE  IInv'
<1> DEFINE n == job[h].n
           free == {l \in LinesOf(h) : IsAbsent(l) /\ ~Linked(n, l)}
<1>1. /\ job[h].at = "adopt" /\ job[h].at # "idle"
      /\ LinesOf(h) \subseteq Lines /\ n \in 0..MaxTxs /\ InHand(job[h], txs)
  BY Busy DEF IInv, Adopt, At
<1>2. n \in DOMAIN txs /\ n # 0
  <2>1. n \in DOMAIN txs
    BY <1>1 DEF InHand
  <2> QED
    BY <2>1, Domain DEF IInv, Typed
<1>3. txs' = txs /\ Grows /\ NewKeys
  BY ByStill DEF IInv, Adopt
<1>4. free \subseteq Lines /\ \A k, l \in free : k # l => AccountOf[k] # AccountOf[l]
  BY <1>1 DEF InHand, LinesOf
<1>5. \A l \in free, k \in Lines \ free : line[k].tx = n => AccountOf[k] # AccountOf[l]
  BY DEF Linked
<1>6. /\ \A l \in Lines \ free : line'[l] = line[l]
      /\ \A l \in free : line'[l] = [line[l] EXCEPT !.status = "RESOLVED", !.tx = n, !.adopted = TRUE]
      /\ line' = [l \in Lines |-> line'[l]]
  BY <1>4 DEF Adopt, With, AdoptedRow
<1>7. \A l \in free : line'[l] \in RowType /\ line'[l].tx = n
  <2>1. \A row \in RowType, k \in 0..MaxTxs, s \in Statuses :
          /\ [row EXCEPT !.status = s, !.tx = k, !.adopted = TRUE] \in RowType
          /\ [row EXCEPT !.status = s, !.tx = k, !.adopted = TRUE].tx = k
    BY AdoptFacts
  <2>2. "RESOLVED" \in Statuses /\ n \in 0..MaxTxs /\ \A l \in free : line[l] \in RowType
    BY <1>1, <1>4 DEF Statuses, IInv, Typed
  <2> HIDE DEF n, free
  <2>3. \A l \in free : /\ [line[l] EXCEPT !.status = "RESOLVED", !.tx = n, !.adopted = TRUE] \in RowType
                        /\ [line[l] EXCEPT !.status = "RESOLVED", !.tx = n, !.adopted = TRUE].tx = n
    BY <2>1, <2>2
  <2> QED
    BY <1>6, <2>3
<1>8. \A l \in free : line'[l].adopted
  <2>1. \A l \in free : line[l] \in RowType
    BY <1>4 DEF IInv, Typed
  <2>2. \A row \in RowType : \A k, s : [row EXCEPT !.status = s, !.tx = k, !.adopted = TRUE].adopted
    BY AdoptedFacts, Zenon
  <2> HIDE DEF n, free
  <2>3. ASSUME NEW l \in free
        PROVE  line'[l].adopted
    <3>1. line'[l] = [line[l] EXCEPT !.status = "RESOLVED", !.tx = n, !.adopted = TRUE]
      BY <1>6
    <3>2. [line[l] EXCEPT !.status = "RESOLVED", !.tx = n, !.adopted = TRUE].adopted
      BY <2>1, <2>2, Zenon
    <3> QED
      BY <3>1, <3>2, Zenon
  <2> QED
    BY <2>3
<1>9. line' \in [Lines -> RowType]
  <2>1. \A l \in Lines : line'[l] \in RowType
    BY <1>6, <1>7 DEF IInv, Typed
  <2> QED
    BY <1>6, <2>1
<1>10. astray' \subseteq Lines
  BY DEF IInv, Typed, Adopt
<1>11. job' \in [Handlers -> {Idle} \cup JobType] /\ Hands'
  BY <1>3, Finished DEF Adopt
<1> HIDE DEF n, free
<1>12. Ties(free, n)
  <2>1. n \in DOMAIN txs'
    BY <1>2, <1>3
  <2>2. \A l \in free : line'[l].tx \in {n, 0}
    BY <1>7
  <2> QED
    BY <1>2, <1>4, <1>5, <1>6, <1>8, <1>9, <2>1, <2>2, Zenon DEF Ties
<1> QED
  BY <1>3, <1>10, <1>11, <1>12, ByTying DEF Rest

LEMMA StepContinue ==
  ASSUME IInv, NEW h \in Handlers, Continue(h)
  PROVE  IInv'
  BY StepAdopt, StepRefused, StepAttachPay, StepAttachInstallment, StepAttachFee, StepAttachSearch, StepAttachLink,
     StepConfirmClaim, StepBackOff, StepMakeTransfer, StepTieLines, StepReleaseAlive, StepDismiss,
     StepUnlink, StepUnbook, StepCrash, Zenon DEF Continue

-----------------------------------------------------------------------------
\* Deletions from elsewhere.
LEMMA StepDeletePayment ==
  ASSUME IInv, NEW n \in DOMAIN txs, DeletePayment(n)
  PROVE  IInv'
<1>1. Loosens
  BY Loosening DEF IInv, DeletePayment, With, Loose
<1>2. Grows /\ NewKeys
  BY Deletion DEF IInv, DeletePayment, NewKeys
<1>3. Rest
  BY <1>2, HandsKept DEF IInv, Rest, DeletePayment, Typed
<1> QED
  BY <1>1, <1>3, ByLoosening

LEMMA StepDeleteTransfer ==
  ASSUME IInv, NEW n \in DOMAIN txs, DeleteTransfer(n)
  PROVE  IInv'
<1>1. Loosens
  BY Loosening DEF IInv, DeleteTransfer, With, Loose
<1>2. Grows /\ NewKeys
  BY Deletion DEF IInv, DeleteTransfer, NewKeys
<1>3. Rest
  BY <1>2, HandsKept DEF IInv, Rest, DeleteTransfer, Typed
<1> QED
  BY <1>1, <1>3, ByLoosening

LEMMA StepDeleteEntry ==
  ASSUME IInv, NEW n \in DOMAIN txs, DeleteEntry(n)
  PROVE  IInv'
<1>1. Loosens
  BY DEF IInv, Typed, DeleteEntry, Loosens
<1>2. Grows /\ NewKeys
  BY Deletion DEF IInv, DeleteEntry, NewKeys
<1>3. Rest
  BY <1>2, HandsKept DEF IInv, Rest, DeleteEntry, Typed
<1> QED
  BY <1>1, <1>3, ByLoosening

LEMMA StepStutter ==
  ASSUME IInv, UNCHANGED vars
  PROVE  IInv'
<1>1. Loosens
  BY DEF IInv, Typed, vars, Loosens
<1>2. Rest
  BY ByStill, HandsKept DEF IInv, Rest, vars, Typed
<1> QED
  BY <1>1, <1>2, ByLoosening

-----------------------------------------------------------------------------
LEMMA InitIInv ==
  ASSUME Init
  PROVE  IInv
<1>1. Typed
  BY InboxAssumption DEF Init, Typed, Absent, RowType, Statuses
<1>2. OneLine /\ OneKey /\ Own /\ Hands
  BY DEF Init, OneLine, OneKey, Own, Hands, Absent, Live
<1> QED
  BY <1>1, <1>2 DEF IInv

LEMMA NextIInv ==
  ASSUME IInv, [Next]_vars
  PROVE  IInv'
<1>1. CASE \E l \in Lines : Atomic(l)
  BY <1>1, StepAtomic
<1>2. CASE \E h \in Handlers : Start(h) \/ Continue(h)
  BY <1>2, StepStart, StepContinue
<1>3. CASE \E n \in DOMAIN txs : DeletePayment(n) \/ DeleteTransfer(n) \/ DeleteEntry(n)
  BY <1>3, StepDeletePayment, StepDeleteTransfer, StepDeleteEntry
<1>4. CASE UNCHANGED vars
  BY <1>4, StepStutter
<1> QED
  BY <1>1, <1>2, <1>3, <1>4 DEF Next

LEMMA IInvTypeOK ==
  ASSUME IInv
  PROVE  TypeOK
  BY DEF IInv, Typed, OneLine, OneKey, TypeOK

\* The only step of a handler that deletes is the last of undo.
LEMMA OwnDeletion ==
  ASSUME IInv, Next, NEW n \in DOMAIN txs, txs[n].for = {}, txs[n].live, job' # job
  PROVE  txs'[n].live
<1>1. CASE \E h \in Handlers : Unbook(h)
  <2>1. PICK h \in Handlers : Unbook(h)
    BY <1>1
  <2>2. job[h].n \in DOMAIN txs /\ txs[job[h].n].for # {}
    BY <2>1, Busy DEF IInv, InHand, Unbook, At
  <2>3. \A m \in DOMAIN txs \ {job[h].n} : txs'[m] = txs[m]
    BY <2>1, <2>2, Deletion DEF IInv, Unbook
  <2> QED
    BY <2>2, <2>3
<1>2. CASE \A m \in DOMAIN txs : txs'[m] = txs[m]
  BY <1>2
<1>3. CASE \E h \in Handlers : Start(h)
  BY <1>2, <1>3 DEF Start, Claim, BeginAdopt, BeginConfirm, BeginDismiss, BeginUndo
<1>4. ASSUME NEW h \in Handlers, Continue(h), ~Unbook(h)
      PROVE  \A m \in DOMAIN txs : txs'[m] = txs[m]
  <2>1. (\E t : txs' = Append(txs, t)) \/ (\E t, u : txs' = txs \o <<t, u>>) \/ txs' = txs
    BY <1>4, Zenon DEF Continue, Adopt, Refused, AttachPay, AttachInstallment, AttachFee, AttachSearch, AttachLink,
       ConfirmClaim, BackOff, MakeTransfer, TieLines, ReleaseAlive, Dismiss, Unlink, Crash
  <2>2. txs \in Seq(TxType)
    BY DEF IInv, Typed
  <2>3. CASE \E t : txs' = Append(txs, t)
    BY <2>2, <2>3
  <2>4. CASE \E t, u : txs' = txs \o <<t, u>>
    BY <2>2, <2>4
  <2>5. CASE txs' = txs
    BY <2>5
  <2> QED
    BY <2>1, <2>3, <2>4, <2>5
<1>5. job' = job \/ \E h \in Handlers : Start(h) \/ Continue(h)
  BY DEF Next, Atomic, IngestNew, IngestPosted, Categorize, PostByRule, Undismiss, EnterByHand, Book,
     DeletePayment, DeleteTransfer, DeleteEntry
<1> QED
  BY <1>1, <1>2, <1>3, <1>4, <1>5

(***************************************************************************)
(* Whatever the lines, the handlers and the order of their statements, the *)
(* tables keep their shape: a link points at a transaction, no two lines   *)
(* of an account have one transaction (transactionId is unique), and no    *)
(* two live transactions share a fingerprint (inbox.service.ts, the        *)
(* deletions of planned, order and transfer services).                     *)
(***************************************************************************)
THEOREM TablesKeepShape == Spec => []TypeOK
<1>1. Init => IInv
  BY InitIInv
<1>2. IInv /\ [Next]_vars => IInv'
  BY NextIInv
<1>3. IInv => TypeOK
  BY IInvTypeOK
<1> QED
  BY <1>1, <1>2, <1>3, PTL DEF Spec

(***************************************************************************)
(* A handler of the inbox never deletes an entry that was not made of a    *)
(* statement line: undo deletes only what its line has and did not adopt,  *)
(* and such an entry was made of a line (inbox.service.ts, undo).          *)
(***************************************************************************)
THEOREM ForeignEntriesSurvive == Spec => ForeignSurvives
<1>1. Init => IInv
  BY InitIInv
<1>2. IInv /\ [Next]_vars => IInv'
  BY NextIInv
<1>3. IInv /\ [Next]_vars =>
        [\A n \in DOMAIN txs : txs[n].for = {} /\ txs[n].live /\ job' # job => txs'[n].live]_vars
  BY OwnDeletion
<1> QED
  BY <1>1, <1>2, <1>3, PTL DEF Spec, ForeignSurvives

-----------------------------------------------------------------------------
(***************************************************************************)
(* Nothing is booked twice (BookedOnce), and what lies in the inbox is not *)
(* in the books (InboxIsUnbooked).  Between its statements a handler       *)
(* relies on a line it has claimed being left alone, and on the money it   *)
(* has made for the line being the only one.  BookInv says of the lines    *)
(* that are not astray:                                                    *)
(*   - RowsOk: a line without a transaction has no money unless a handler  *)
(*     claimed it; one with a transaction has no other money, and no money *)
(*     at all when it adopted the entry of somebody else; and a transfer   *)
(*     that is live is the transaction of its lines;                       *)
(*   - Claims: what a handler claimed is still as it left it, and its      *)
(*     money is what the handler has made so far;                          *)
(*   - OneHolder: no line is claimed by two;                               *)
(* and of every handler and transaction:                                   *)
(*   - Reads: what it believes in is what its first statement let pass;    *)
(*   - Incomes: a payment comes from outside, so it is nobody's fee.       *)
(***************************************************************************)
\* The stages at which a handler has lines of its own: their rows are RESOLVED to it.
Claiming == {"pay", "fee", "search", "link", "transfer", "tie", "backoff"}
Holds(h, l) == job[h].at \in Claiming /\ l \in LinesOf(h) /\ job[h].known[l].status = "RESOLVED"

\* What the fields of a line say of each other and of its money.
RowOk(l) ==
  /\ line[l].status \in {"absent", "NEW", "DISMISSED"} => line[l].tx = 0 /\ Bookings(l) = {}
  /\ line[l].status = "absent" => line[l].transfer = 0
  /\ line[l].adopted => line[l].tx # 0 /\ line[l].transfer = 0 /\ Bookings(l) = {}
  /\ line[l].transfer \in DOMAIN txs \cup {0}
  /\ line[l].transfer \in Live => line[l].tx = line[l].transfer
  /\ line[l].tx # 0 => Bookings(l) \subseteq {line[l].tx}
  /\ \E m \in Nat : Bookings(l) \subseteq {m}
RowsOk == \A l \in Lines \ astray : RowOk(l)

\* What a handler knows of a line it has claimed.
Kept(h, l) ==
  /\ line[l] = job[h].known[l] /\ line[l].tx = 0
  /\ job[h].at \in {"pay", "transfer", "backoff"} => Bookings(l) = {}
  /\ job[h].at \in {"fee", "search", "tie"} => Bookings(l) \subseteq {job[h].n}
  /\ job[h].at = "link" => (txs[job[h].n].for = {l} => Bookings(l) \subseteq {job[h].n})
Claims == \A h \in Handlers, l \in Lines \ astray : Holds(h, l) => Kept(h, l)
OneHolder == \A h, g \in Handlers, l \in Lines \ astray : Holds(h, l) /\ Holds(g, l) => h = g

\* What the rows that a handler believes in were when it read or claimed them.
Read(j, ts) ==
  /\ j.at \in {"pay", "fee", "search", "link"} => \E l \in Incoming : DOMAIN j.known = {l}
  /\ j.at \in {"pay", "fee", "search", "link", "transfer", "tie"} => \A l \in DOMAIN j.known : j.known[l].status = "RESOLVED"
  /\ j.at \in {"confirm", "dismiss"} => \A l \in DOMAIN j.known : j.known[l].status = "NEW"
  /\ j.at = "backoff" => \A l \in DOMAIN j.known : j.known[l].status \in {"NEW", "RESOLVED"}
  /\ j.at \in {"unlink", "unbook"} => j.n \in DOMAIN ts /\ \A l \in DOMAIN j.known : j.known[l].tx = j.n
  /\ j.at = "unlink" => \A l \in DOMAIN j.known : j.known[l].adopted \/ ~ts[j.n].live
  /\ j.at = "unbook" => \A l \in DOMAIN j.known : ~j.known[l].adopted
Reads == \A h \in Handlers : job[h] # Idle => Read(job[h], txs)

Incomes == \A n \in DOMAIN txs : txs[n].kind = "ORDER_PAYMENT" => txs[n].from = Nowhere

BookInv == RowsOk /\ Claims /\ OneHolder /\ Reads /\ Incomes

-----------------------------------------------------------------------------
\* The money that a step makes for line l; a step that makes none and leaves the line is quiet.
Fresh(l) == {n \in DOMAIN txs' \ DOMAIN txs : l \in txs'[n].for /\ ~IsFee(txs'[n])}

LEMMA NewBookings ==
  ASSUME Grows, NEW l
  PROVE  Bookings(l)' \subseteq Bookings(l) \cup Fresh(l)
<1> SUFFICES ASSUME NEW n \in Bookings(l)', n \in DOMAIN txs PROVE n \in Bookings(l)
  BY DEF Bookings, Fresh, Live
<1>1. txs'[n].live /\ l \in txs'[n].for /\ ~IsFee(txs'[n])
  BY DEF Bookings, Live
<1>2. txs[n].live /\ txs'[n].for = txs[n].for /\ txs'[n].from = txs[n].from
  BY <1>1, Zenon DEF Grows
<1>3. ~IsFee(txs[n])
  BY <1>1, <1>2 DEF IsFee
<1> QED
  BY <1>1, <1>2, <1>3 DEF Bookings, Live

Quiet(l) == line'[l] = line[l] /\ Fresh(l) = {}

LEMMA DeadStays ==
  ASSUME Grows, NEW n \in DOMAIN txs
  PROVE  n \in Live' => n \in Live
  BY DEF Grows, Live

LEMMA QuietRow ==
  ASSUME Typed, Grows, NEW l \in Lines, RowOk(l), Quiet(l)
  PROVE  RowOk(l)'
<1>1. line'[l] = line[l] /\ Bookings(l)' \subseteq Bookings(l)
  BY NewBookings DEF Quiet
<1>2. DOMAIN txs \subseteq DOMAIN txs'
  BY DEF Grows
<1>3. line[l].transfer \in Live' => line[l].transfer \in Live
  <2>1. 0 \notin DOMAIN txs'
    BY DEF Grows
  <2> QED
    BY <2>1, DeadStays DEF RowOk, Live
<1> QED
  BY <1>1, <1>2, <1>3 DEF RowOk

LEMMA QuietKept ==
  ASSUME Typed, Hands, Grows, NEW h \in Handlers, NEW l \in Lines, job[h].at # "idle", Kept(h, l), Quiet(l), job'[h] = job[h]
  PROVE  Kept(h, l)'
<1>1. line'[l] = line[l] /\ Bookings(l)' \subseteq Bookings(l)
  BY NewBookings DEF Quiet
<1>2. job[h].at = "link" => txs'[job[h].n].for = txs[job[h].n].for
  BY Busy DEF InHand, Grows
<1> QED
  BY <1>1, <1>2 DEF Kept

LEMMA ReadStays ==
  ASSUME Grows, NEW j, Read(j, txs)
  PROVE  Read(j, txs')
  BY DEF Read, Grows

\* Nobody has claimed a line that is in the inbox, or booked.
LEMMA NotHeld ==
  ASSUME BookInv, NEW l \in Lines \ astray, line[l].status # "RESOLVED" \/ line[l].tx # 0
  PROVE  \A g \in Handlers : ~Holds(g, l)
  BY DEF BookInv, Claims, Kept, Holds

\* A step of the handlers H writes the lines T: those must come out right and be claimed by
\* no other handler; for the rest of the lines and handlers nothing changes.
LEMMA Stepped ==
  ASSUME Typed, Hands, BookInv, Grows, astray \subseteq astray', NEW T, NEW H \in SUBSET Handlers,
         \A g, h \in H : g = h,
         \A n \in DOMAIN txs' \ DOMAIN txs : txs'[n].kind = "ORDER_PAYMENT" => txs'[n].from = Nowhere,
         \A l \in Lines \ astray' : l \notin T => Quiet(l),
         \A l \in Lines \ astray' : l \in T => RowOk(l)' /\ \A g \in Handlers \ H : ~Holds(g, l),
         \A g \in Handlers \ H : job'[g] = job[g],
         \A h \in H : job'[h] = Idle \/ Read(job'[h], txs'),
         \A h \in H, l \in Lines \ astray' : Holds(h, l)' => Kept(h, l)' /\ \A g \in Handlers \ H : ~Holds(g, l)
  PROVE  BookInv'
<1>1. RowsOk'
  BY QuietRow DEF BookInv, RowsOk
<1>2. \A g \in Handlers \ H, l \in Lines : Holds(g, l)' <=> Holds(g, l)
  BY DEF Holds, LinesOf
<1>3. Claims'
  <2> SUFFICES ASSUME NEW g \in Handlers, NEW l \in Lines \ astray', Holds(g, l)'
               PROVE  Kept(g, l)'
    BY DEF Claims
  <2>1. CASE g \in H
    BY <2>1
  <2>2. CASE g \notin H
    <3>1. Holds(g, l) /\ Kept(g, l) /\ job[g].at # "idle"
      <4>1. Holds(g, l)
        BY <1>2, <2>2
      <4> QED
        BY <4>1 DEF BookInv, Claims, Holds, Claiming
    <3>2. Quiet(l)
      BY <2>2, <3>1
    <3> QED
      BY <2>2, <3>1, <3>2, QuietKept
  <2> QED
    BY <2>1, <2>2
<1>4. OneHolder'
  <2> SUFFICES ASSUME NEW g \in Handlers, NEW h \in Handlers, NEW l \in Lines \ astray', Holds(g, l)', Holds(h, l)'
               PROVE  g = h
    BY DEF OneHolder
  <2>1. CASE g \in H /\ h \in H
    BY <2>1
  <2>2. CASE g \in H /\ h \notin H
    BY <1>2, <2>2
  <2>3. CASE g \notin H /\ h \in H
    BY <1>2, <2>3
  <2>4. CASE g \notin H /\ h \notin H
    BY <1>2, <2>4 DEF BookInv, OneHolder
  <2> QED
    BY <2>1, <2>2, <2>3, <2>4
<1>5. Reads'
  BY ReadStays DEF BookInv, Reads
<1>6. Incomes'
  BY DEF BookInv, Incomes, Grows
<1> QED
  BY <1>1, <1>3, <1>4, <1>5, <1>6 DEF BookInv

\* No handler is at work.
LEMMA ByNobody ==
  ASSUME Typed, Hands, BookInv, Grows, astray \subseteq astray', NEW T, UNCHANGED job,
         \A n \in DOMAIN txs' \ DOMAIN txs : txs'[n].kind = "ORDER_PAYMENT" => txs'[n].from = Nowhere,
         \A l \in Lines \ astray' : l \notin T => Quiet(l),
         \A l \in Lines \ astray' : l \in T => RowOk(l)' /\ \A g \in Handlers : ~Holds(g, l)
  PROVE  BookInv'
<1>1. PICK H \in SUBSET Handlers : H = {}
  OBVIOUS
<1> QED
  BY <1>1, Stepped

\* Handler h is at work, and has claimed the lines afterwards that it had claimed, or nobody.
LEMMA ByHandler ==
  ASSUME Typed, Hands, BookInv, Grows, astray \subseteq astray', NEW T, NEW h \in Handlers,
         \A n \in DOMAIN txs' \ DOMAIN txs : txs'[n].kind = "ORDER_PAYMENT" => txs'[n].from = Nowhere,
         \A l \in Lines \ astray' : l \notin T => Quiet(l),
         \A l \in Lines \ astray' : l \in T => RowOk(l)' /\ \A g \in Handlers \ {h} : ~Holds(g, l),
         \A g \in Handlers \ {h} : job'[g] = job[g],
         job'[h] = Idle \/ Read(job'[h], txs'),
         \A l \in Lines \ astray' : Holds(h, l)' => Kept(h, l)' /\ \A g \in Handlers \ {h} : ~Holds(g, l)
  PROVE  BookInv'
<1>1. PICK H \in SUBSET Handlers : H = {h}
  OBVIOUS
<1> QED
  BY <1>1, Stepped

\* What becomes of the money of a line when a step makes or deletes one transaction, or none.
LEMMA NothingMade ==
  ASSUME Typed, UNCHANGED txs
  PROVE  Grows /\ DOMAIN txs' \ DOMAIN txs = {} /\ \A l : Fresh(l) = {} /\ Bookings(l)' \subseteq Bookings(l)
  BY ByStill, NewBookings DEF Fresh

LEMMA OneDeleted ==
  ASSUME Typed, NEW n \in DOMAIN txs, txs' = Deleted(n)
  PROVE  /\ Grows /\ DOMAIN txs' \ DOMAIN txs = {} /\ ~txs'[n].live
         /\ \A l : /\ Fresh(l) = {} /\ Bookings(l)' \subseteq Bookings(l)
                   /\ Bookings(l) \subseteq {n} => Bookings(l)' = {}
<1>1. Grows /\ DOMAIN txs' = DOMAIN txs
  BY Deletion
<1>2. ~txs'[n].live
  <2>1. txs'[n] = [txs[n] EXCEPT !.live = FALSE] /\ txs[n] \in TxType
    BY Domain DEF Deleted, Typed
  <2> QED
    BY <2>1, Killed
<1>3. \A l : Fresh(l) = {} /\ Bookings(l)' \subseteq Bookings(l)
  BY <1>1, NewBookings DEF Fresh
<1>4. \A l : n \notin Bookings(l)'
  BY <1>2 DEF Bookings, Live
<1> QED
  BY <1>1, <1>2, <1>3, <1>4

LEMMA OneMade ==
  ASSUME Typed, NEW t \in TxType, Len(txs) + 1 <= MaxTxs, txs' = Append(txs, t)
  PROVE  /\ Grows /\ DOMAIN txs' \ DOMAIN txs = {Len(txs) + 1} /\ txs'[Len(txs) + 1] = t /\ Len(txs) + 1 \in Nat \ {0}
         /\ Len(txs) + 1 \in DOMAIN txs'
         /\ \A l : /\ l \notin t.for \/ IsFee(t) => Fresh(l) = {}
                   /\ Bookings(l)' \subseteq Bookings(l) \cup {Len(txs) + 1}
<1> DEFINE n == Len(txs) + 1
<1>1. Grows /\ DOMAIN txs' = DOMAIN txs \cup {n} /\ n \notin DOMAIN txs /\ txs'[n] = t
  BY AppendOne
<1>2. n \in Nat \ {0}
  BY Domain DEF Typed
<1> HIDE DEF n
<1>3. \A l : Fresh(l) \subseteq {n} /\ (l \notin t.for \/ IsFee(t) => Fresh(l) = {})
  BY <1>1 DEF Fresh
<1>4. \A l : Bookings(l)' \subseteq Bookings(l) \cup {n}
  BY <1>1, <1>3, NewBookings
<1> QED
  BY <1>1, <1>2, <1>3, <1>4 DEF n

\* What the updates do to a row.
LEMMA UpdatedRows ==
  ASSUME NEW row \in RowType
  PROVE  /\ ToInbox(row).status = "NEW" /\ ToInbox(row).tx = row.tx
         /\ (ToInbox(row).adopted <=> row.adopted) /\ ToInbox(row).transfer = row.transfer
         /\ Resolved(row).status = "RESOLVED" /\ Resolved(row).tx = row.tx
         /\ (Resolved(row).adopted <=> row.adopted) /\ Resolved(row).transfer = row.transfer
         /\ Dismissed(row).status = "DISMISSED" /\ Dismissed(row).tx = row.tx
         /\ (Dismissed(row).adopted <=> row.adopted) /\ Dismissed(row).transfer = row.transfer
         /\ Freed(row).status = "NEW" /\ Freed(row).tx = 0 /\ ~Freed(row).adopted /\ Freed(row).transfer = row.transfer
  BY DEF RowType, ToInbox, Resolved, Dismissed, Freed

LEMMA LinkedRow ==
  ASSUME NEW row \in RowType, NEW n, NEW s
  PROVE  LET r == [row EXCEPT !.status = s, !.tx = n]
         IN r.status = s /\ r.tx = n /\ (r.adopted <=> row.adopted) /\ r.transfer = row.transfer
  BY DEF RowType

LEMMA UntiedRow ==
  ASSUME NEW row \in RowType
  PROVE  LET r == [row EXCEPT !.status = "NEW", !.tx = 0, !.transfer = 0]
         IN r.status = "NEW" /\ r.tx = 0 /\ (r.adopted <=> row.adopted) /\ r.transfer = 0
  BY DEF RowType

\* A line that is back in the inbox, or dismissed, is not booked.
LEMMA RowReturned ==
  ASSUME Typed, Grows, NEW l \in Lines, RowOk(l), Bookings(l)' = {},
         line'[l].status \in {"NEW", "DISMISSED"}, line'[l].tx = 0, ~line'[l].adopted,
         line'[l].transfer = 0 \/ (line'[l].transfer = line[l].transfer /\ line[l].transfer \notin Live')
  PROVE  RowOk(l)'
<1>1. 0 \notin Live' /\ DOMAIN txs \subseteq DOMAIN txs'
  BY DEF Grows, Live
<1> QED
  BY <1>1 DEF RowOk

LEMMA OnceIngestNew == ASSUME IInv, BookInv, NEW l \in Lines, IngestNew(l) PROVE BookInv'
<1>1. Grows /\ DOMAIN txs' \ DOMAIN txs = {} /\ \A k : Fresh(k) = {} /\ Bookings(k)' \subseteq Bookings(k)
  BY NothingMade DEF IInv, IngestNew
<1>2. /\ \A k \in Lines : line'[k] = IF k \in {l} THEN ToInbox(line[k]) ELSE line[k]
      /\ UNCHANGED <<job, astray>> /\ line[l].status = "absent"
  BY DEF IngestNew, With, IsAbsent
<1>3. ASSUME NEW k \in Lines \ astray', k \in {l}
      PROVE  RowOk(k)' /\ \A g \in Handlers : ~Holds(g, k)
  <2>1. RowOk(k) /\ line[k].status = "absent" /\ line'[k] = ToInbox(line[k]) /\ line[k] \in RowType
    BY <1>2, <1>3 DEF IInv, Typed, BookInv, RowsOk
  <2>2. line'[k].status = "NEW" /\ line'[k].tx = 0 /\ ~line'[k].adopted /\ line'[k].transfer = 0 /\ Bookings(k)' = {}
    BY <1>1, <2>1, UpdatedRows DEF RowOk
  <2> QED
    BY <1>1, <1>2, <2>1, <2>2, RowReturned, NotHeld DEF IInv
<1>4. \A k \in Lines \ astray' : k \notin {l} => Quiet(k)
  BY <1>1, <1>2 DEF Quiet
<1> QED
  BY <1>1, <1>2, <1>3, <1>4, ByNobody DEF IInv

LEMMA OnceUndismiss == ASSUME IInv, BookInv, NEW l \in Lines, Undismiss(l) PROVE BookInv'
<1>1. Grows /\ DOMAIN txs' \ DOMAIN txs = {} /\ \A k : Fresh(k) = {} /\ Bookings(k)' \subseteq Bookings(k)
  BY NothingMade DEF IInv, Undismiss
<1>2. /\ \A k \in Lines : line'[k] = IF k \in {l} THEN ToInbox(line[k]) ELSE line[k]
      /\ UNCHANGED <<job, astray>> /\ line[l].status = "DISMISSED"
  BY DEF Undismiss, With
<1>3. ASSUME NEW k \in Lines \ astray', k \in {l}
      PROVE  RowOk(k)' /\ \A g \in Handlers : ~Holds(g, k)
  <2>1. RowOk(k) /\ line[k].status = "DISMISSED" /\ line'[k] = ToInbox(line[k]) /\ line[k] \in RowType
    BY <1>2, <1>3 DEF IInv, Typed, BookInv, RowsOk
  <2>2. /\ line'[k].status = "NEW" /\ line'[k].tx = 0 /\ ~line'[k].adopted /\ Bookings(k)' = {}
        /\ line'[k].transfer = line[k].transfer
    BY <1>1, <2>1, UpdatedRows DEF RowOk
  <2>3. line[k].transfer = 0 \/ line[k].transfer \notin Live'
    BY <1>1, <2>1, DeadStays DEF RowOk
  <2> QED
    BY <1>1, <1>2, <2>1, <2>2, <2>3, RowReturned, NotHeld DEF IInv
<1>4. \A k \in Lines \ astray' : k \notin {l} => Quiet(k)
  BY <1>1, <1>2 DEF Quiet
<1> QED
  BY <1>1, <1>2, <1>3, <1>4, ByNobody DEF IInv

\* A line whose money has just been booked, and that has the transaction.
LEMMA RowBooked ==
  ASSUME Typed, Grows, NEW l \in Lines, RowOk(l), NEW n \in DOMAIN txs', n # 0, n \in Nat,
         Bookings(l)' \subseteq {n}, line'[l].tx = n, ~line'[l].adopted, line'[l].status \notin {"absent", "NEW", "DISMISSED"},
         line'[l].transfer = line[l].transfer, line[l].transfer \notin Live'
  PROVE  RowOk(l)'
<1>1. DOMAIN txs \subseteq DOMAIN txs'
  BY DEF Grows
<1> QED
  BY <1>1 DEF RowOk

\* A transfer that is no transaction of the line is not live.
LEMMA NoLiveTransfer ==
  ASSUME Grows, NEW l \in Lines, RowOk(l), line[l].tx = 0
  PROVE  line[l].transfer \notin Live' /\ line[l].transfer \notin Live
<1>1. 0 \notin Live' /\ 0 \notin DOMAIN txs
  BY DEF Live, Grows
<1> QED
  BY <1>1, DeadStays DEF RowOk, Live

LEMMA OnceBook ==
  ASSUME IInv, BookInv, NEW l \in Lines, NEW status \in {"RESOLVED", "AUTO_POSTED"}, NEW key \in Keys,
         line[l].status \in {"absent", "NEW"}, Book(l, status, key)
  PROVE  BookInv'
<1>1. PICK t \in TxType : txs' = Append(txs, t) /\ t.for = {l} /\ t.kind = "OTHER"
  <2>1. Entry(l, {l}, key) \in TxType /\ Entry(l, {l}, key).for = {l} /\ Entry(l, {l}, key).kind = "OTHER"
    BY EntryType DEF Entry, Tx
  <2> QED
    BY <2>1 DEF Book
<1>2. PICK n \in Nat \ {0} : n = Len(txs) + 1
  BY Domain DEF IInv, Typed
<1>3. /\ Grows /\ DOMAIN txs' \ DOMAIN txs = {n} /\ txs'[n] = t /\ n \in DOMAIN txs'
      /\ \A k : (k \notin t.for => Fresh(k) = {}) /\ Bookings(k)' \subseteq Bookings(k) \cup {n}
  BY <1>1, <1>2, OneMade DEF IInv, Book, Room
<1>4. /\ \A k \in Lines : line'[k] = IF k \in {l} THEN [line[k] EXCEPT !.status = status, !.tx = n] ELSE line[k]
      /\ UNCHANGED <<job, astray>>
  BY <1>2 DEF Book, With
<1>5. ASSUME NEW k \in Lines \ astray', k \in {l}
      PROVE  RowOk(k)' /\ \A g \in Handlers : ~Holds(g, k)
  <2>1. /\ RowOk(k) /\ line[k].status \in {"absent", "NEW"} /\ line[k] \in RowType
        /\ line'[k] = [line[k] EXCEPT !.status = status, !.tx = n]
    BY <1>4, <1>5 DEF IInv, Typed, BookInv, RowsOk
  <2>2. line'[k].status = status /\ line'[k].tx = n /\ (line'[k].adopted <=> line[k].adopted) /\ line'[k].transfer = line[k].transfer
    BY <2>1, LinkedRow
  <2>3. line[k].tx = 0 /\ Bookings(k) = {} /\ ~line[k].adopted
    BY <2>1 DEF RowOk
  <2>4. Bookings(k)' \subseteq {n} /\ line[k].transfer \notin Live'
    BY <1>3, <2>1, <2>3, NoLiveTransfer
  <2>5. RowOk(k)'
    BY <1>3, <2>1, <2>2, <2>3, <2>4, RowBooked DEF IInv
  <2>6. \A g \in Handlers : ~Holds(g, k)
    BY <1>4, <2>1, NotHeld
  <2> QED
    BY <2>5, <2>6
<1>6. \A k \in Lines \ astray' : k \notin {l} => Quiet(k)
  BY <1>1, <1>3, <1>4 DEF Quiet
<1> QED
  BY <1>1, <1>3, <1>4, <1>5, <1>6, ByNobody DEF IInv

LEMMA OnceEnterByHand == ASSUME IInv, BookInv, NEW l \in Lines, EnterByHand(l) PROVE BookInv'
<1>1. PICK t \in TxType : txs' = Append(txs, t) /\ t.for = {} /\ (t.kind = "ORDER_PAYMENT" => t.from = Nowhere)
  <2>1. Entry(l, {}, NoKey) \in TxType /\ Entry(l, {}, NoKey).for = {} /\ Entry(l, {}, NoKey).kind = "OTHER"
    BY EntryType DEF Entry, Tx, Keys
  <2>2. Payment(l, {}, 1) \in TxType /\ Payment(l, {}, 1).for = {} /\ Payment(l, {}, 1).from = Nowhere
    BY PaymentType DEF Payment, Tx
  <2> QED
    BY <2>1, <2>2 DEF EnterByHand
<1>2. /\ Grows /\ DOMAIN txs' \ DOMAIN txs = {Len(txs) + 1} /\ txs'[Len(txs) + 1] = t
      /\ \A k : Fresh(k) = {}
  BY <1>1, OneMade DEF IInv, EnterByHand, Room
<1>3. UNCHANGED <<line, job, astray>>
  BY DEF EnterByHand
<1>4. \A k \in Lines \ astray' : k \notin {} => Quiet(k)
  BY <1>2, <1>3 DEF Quiet
<1> QED
  BY <1>1, <1>2, <1>3, <1>4, ByNobody DEF IInv

LEMMA OnceAtomic == ASSUME IInv, BookInv, NEW l \in Lines, Atomic(l) PROVE BookInv'
<1>1. CASE IngestPosted(l)
  BY <1>1, OnceBook, FingerprintKey DEF IngestPosted, IsAbsent
<1>2. CASE Categorize(l)
  BY <1>2, OnceBook, FingerprintKey DEF Categorize, IsNew
<1>3. CASE PostByRule(l)
  BY <1>3, OnceBook DEF PostByRule, Keys, IsNew
<1> QED
  BY <1>1, <1>2, <1>3, OnceIngestNew, OnceUndismiss, OnceEnterByHand DEF Atomic

-----------------------------------------------------------------------------
\* Deletions from elsewhere.
LEMMA OnceDeletePayment == ASSUME IInv, BookInv, NEW n \in DOMAIN txs, DeletePayment(n) PROVE BookInv'
<1>1. /\ Grows /\ DOMAIN txs' \ DOMAIN txs = {} /\ ~txs'[n].live /\ n # 0
      /\ \A l : /\ Fresh(l) = {} /\ Bookings(l)' \subseteq Bookings(l)
                /\ Bookings(l) \subseteq {n} => Bookings(l)' = {}
  BY OneDeleted, Domain DEF IInv, Typed, DeletePayment
<1> DEFINE T == {l \in Lines : line[l].tx = n}
<1>2. /\ \A k \in Lines : line'[k] = IF k \in T THEN Freed(line[k]) ELSE line[k]
      /\ UNCHANGED <<job, astray>>
  BY DEF DeletePayment, With
<1>3. ASSUME NEW k \in Lines \ astray', k \in T
      PROVE  RowOk(k)' /\ \A g \in Handlers : ~Holds(g, k)
  <2>1. RowOk(k) /\ line[k].tx = n /\ line'[k] = Freed(line[k]) /\ line[k] \in RowType
    BY <1>2, <1>3 DEF IInv, Typed, BookInv, RowsOk
  <2>2. /\ line'[k].status = "NEW" /\ line'[k].tx = 0 /\ ~line'[k].adopted /\ line'[k].transfer = line[k].transfer
    BY <2>1, UpdatedRows
  <2>3. Bookings(k)' = {}
    BY <1>1, <2>1 DEF RowOk
  <2>4. n \notin Live' /\ 0 \notin Live'
    BY <1>1 DEF Live, Grows
  <2>5. line[k].transfer \notin Live'
    BY <1>1, <2>1, <2>4, DeadStays DEF RowOk
  <2>6. \A g \in Handlers : ~Holds(g, k)
    BY <1>1, <1>2, <2>1, NotHeld
  <2> QED
    BY <1>1, <2>1, <2>2, <2>3, <2>5, <2>6, RowReturned DEF IInv
<1>4. \A k \in Lines \ astray' : k \notin T => Quiet(k)
  BY <1>1, <1>2 DEF Quiet
<1> HIDE DEF T
<1> QED
  BY <1>1, <1>2, <1>3, <1>4, ByNobody DEF IInv

LEMMA OnceDeleteTransfer == ASSUME IInv, BookInv, NEW n \in DOMAIN txs, DeleteTransfer(n) PROVE BookInv'
<1>1. /\ Grows /\ DOMAIN txs' \ DOMAIN txs = {} /\ ~txs'[n].live /\ n # 0 /\ n \in Live
      /\ \A l : /\ Fresh(l) = {} /\ Bookings(l)' \subseteq Bookings(l)
                /\ Bookings(l) \subseteq {n} => Bookings(l)' = {}
  BY OneDeleted, Domain DEF IInv, Typed, DeleteTransfer
<1> DEFINE T == {l \in Lines : line[l].transfer = n}
<1>2. /\ \A k \in Lines : line'[k] = IF k \in T THEN [line[k] EXCEPT !.status = "NEW", !.tx = 0, !.transfer = 0] ELSE line[k]
      /\ UNCHANGED <<job, astray>>
  BY DEF DeleteTransfer, With
<1>3. ASSUME NEW k \in Lines \ astray', k \in T
      PROVE  RowOk(k)' /\ \A g \in Handlers : ~Holds(g, k)
  <2>1. /\ RowOk(k) /\ line[k].transfer = n /\ line[k] \in RowType
        /\ line'[k] = [line[k] EXCEPT !.status = "NEW", !.tx = 0, !.transfer = 0]
    BY <1>2, <1>3 DEF IInv, Typed, BookInv, RowsOk
  <2>2. line'[k].status = "NEW" /\ line'[k].tx = 0 /\ (line'[k].adopted <=> line[k].adopted) /\ line'[k].transfer = 0
    BY <2>1, UntiedRow
  <2>3. line[k].tx = n /\ ~line[k].adopted /\ Bookings(k) \subseteq {n}
    BY <1>1, <2>1 DEF RowOk
  <2>4. Bookings(k)' = {}
    BY <1>1, <2>3
  <2>5. \A g \in Handlers : ~Holds(g, k)
    BY <1>1, <1>2, <2>3, NotHeld
  <2> QED
    BY <1>1, <2>1, <2>2, <2>3, <2>4, <2>5, RowReturned DEF IInv
<1>4. \A k \in Lines \ astray' : k \notin T => Quiet(k)
  BY <1>1, <1>2 DEF Quiet
<1> HIDE DEF T
<1> QED
  BY <1>1, <1>2, <1>3, <1>4, ByNobody DEF IInv

LEMMA OnceDeleteEntry == ASSUME IInv, BookInv, NEW n \in DOMAIN txs, DeleteEntry(n) PROVE BookInv'
<1>1. Grows /\ DOMAIN txs' \ DOMAIN txs = {} /\ \A l : Fresh(l) = {}
  BY OneDeleted DEF IInv, DeleteEntry
<1>2. UNCHANGED <<line, job, astray>>
  BY DEF DeleteEntry
<1>3. \A k \in Lines \ astray' : k \notin {} => Quiet(k)
  BY <1>1, <1>2 DEF Quiet
<1> QED
  BY <1>1, <1>2, <1>3, ByNobody DEF IInv

LEMMA OnceStutter == ASSUME IInv, BookInv, UNCHANGED vars PROVE BookInv'
<1>1. Grows /\ DOMAIN txs' \ DOMAIN txs = {} /\ \A l : Fresh(l) = {}
  BY NothingMade DEF IInv, vars
<1>2. UNCHANGED <<line, job, astray>>
  BY DEF vars
<1>3. \A k \in Lines \ astray' : k \notin {} => Quiet(k)
  BY <1>1, <1>2 DEF Quiet
<1> QED
  BY <1>1, <1>2, <1>3, ByNobody DEF IInv

-----------------------------------------------------------------------------
\* Handlers that read, claim and die.
LEMMA Turned ==
  ASSUME Typed, NEW h \in Handlers, NEW j, job' = [job EXCEPT ![h] = j]
  PROVE  job'[h] = j /\ \A g \in Handlers \ {h} : job'[g] = job[g]
  BY DEF Typed

\* A handler reads, and nothing else happens.
LEMMA OnceReading ==
  ASSUME IInv, BookInv, NEW h \in Handlers, NEW j, job' = [job EXCEPT ![h] = j], j.at \notin Claiming,
         j = Idle \/ Read(j, txs'), UNCHANGED <<line, txs, astray>>
  PROVE  BookInv'
<1>1. Grows /\ DOMAIN txs' \ DOMAIN txs = {} /\ \A l : Fresh(l) = {}
  BY NothingMade DEF IInv
<1>2. job'[h] = j /\ \A g \in Handlers \ {h} : job'[g] = job[g]
  BY Turned DEF IInv
<1>3. \A k \in Lines \ astray' : k \notin {} => Quiet(k)
  BY <1>1 DEF Quiet
<1>4. \A l : ~Holds(h, l)'
  BY <1>2 DEF Holds
<1> QED
  BY <1>1, <1>2, <1>3, <1>4, ByHandler DEF IInv

LEMMA JobFields ==
  ASSUME NEW at, NEW known, NEW n
  PROVE  Job(at, known, n).at = at /\ Job(at, known, n).known = known /\ Job(at, known, n).n = n
  BY DEF Job

LEMMA RowsRead ==
  ASSUME NEW ls
  PROVE  DOMAIN Rows(ls) = ls /\ \A l \in ls : Rows(ls)[l] = line[l]
  BY DEF Rows

LEMMA OnceBeginAdopt == ASSUME IInv, BookInv, NEW h \in Handlers, NEW l \in Lines, NEW n \in DOMAIN txs, BeginAdopt(h, l, n) PROVE BookInv'
<1>1. PICK j : j = Job("adopt", Rows({l}), n)
  OBVIOUS
<1>2. j.at = "adopt"
  BY <1>1, JobFields
<1>3. Read(j, txs') /\ j.at \notin Claiming
  BY <1>2 DEF Read, Claiming
<1> QED
  BY <1>1, <1>3, OnceReading DEF BeginAdopt

LEMMA OnceBeginConfirm == ASSUME IInv, BookInv, NEW h \in Handlers, NEW ls, BeginConfirm(h, ls) PROVE BookInv'
<1>1. PICK j : j = Job("confirm", Rows(ls), 0)
  OBVIOUS
<1>2. j.at = "confirm" /\ DOMAIN j.known = ls /\ \A l \in ls : j.known[l] = line[l]
  BY <1>1, JobFields, RowsRead
<1>3. Read(j, txs') /\ j.at \notin Claiming
  BY <1>2 DEF Read, Claiming, BeginConfirm, IsNew
<1> QED
  BY <1>1, <1>3, OnceReading DEF BeginConfirm

LEMMA OnceBeginDismiss == ASSUME IInv, BookInv, NEW h \in Handlers, NEW l \in Lines, BeginDismiss(h, l) PROVE BookInv'
<1>1. PICK j : j = Job("dismiss", Rows({l}), 0)
  OBVIOUS
<1>2. j.at = "dismiss" /\ DOMAIN j.known = {l} /\ j.known[l] = line[l]
  BY <1>1, JobFields, RowsRead
<1>3. Read(j, txs') /\ j.at \notin Claiming
  BY <1>2 DEF Read, Claiming, BeginDismiss, IsNew
<1> QED
  BY <1>1, <1>3, OnceReading DEF BeginDismiss

LEMMA OnceBeginUndo == ASSUME IInv, BookInv, NEW h \in Handlers, NEW l \in Lines, BeginUndo(h, l) PROVE BookInv'
<1>1. PICK j : j = Job(IF OnlyTheLink(line[l]) THEN "unlink" ELSE "unbook", Rows({l}), line[l].tx)
  OBVIOUS
<1>2. /\ j.at = IF OnlyTheLink(line[l]) THEN "unlink" ELSE "unbook"
      /\ DOMAIN j.known = {l} /\ j.known[l] = line[l] /\ j.n = line[l].tx
  BY <1>1, JobFields, RowsRead
<1>3. j.n \in DOMAIN txs' /\ txs' = txs
  BY <1>2 DEF BeginUndo, IInv, Typed
<1>4. CASE OnlyTheLink(line[l])
  <2>1. j.at = "unlink" /\ (line[l].adopted \/ ~txs'[j.n].live)
    BY <1>2, <1>3, <1>4, Zenon DEF OnlyTheLink
  <2>2. Read(j, txs') /\ j.at \notin Claiming
    BY <1>2, <1>3, <2>1 DEF Read, Claiming
  <2> QED
    BY <1>1, <2>2, OnceReading DEF BeginUndo
<1>5. CASE ~OnlyTheLink(line[l])
  <2>1. j.at = "unbook" /\ ~line[l].adopted
    BY <1>2, <1>5, Zenon DEF OnlyTheLink
  <2>2. Read(j, txs') /\ j.at \notin Claiming
    BY <1>2, <1>3, <2>1 DEF Read, Claiming
  <2> QED
    BY <1>1, <2>2, OnceReading DEF BeginUndo
<1> QED
  BY <1>4, <1>5

LEMMA IdleHoldsNothing == Idle.at \notin Claiming /\ Idle.at = "idle"
  BY DEF Idle, Claiming

LEMMA OnceCrash == ASSUME IInv, BookInv, NEW h \in Handlers, Crash(h) PROVE BookInv'
  BY OnceReading, IdleHoldsNothing DEF Crash, Finish

LEMMA OnceClaim ==
  ASSUME IInv, BookInv, NEW h \in Handlers, NEW l \in Lines, NEW at \in {"pay", "transfer"}, at = "pay" => l \in Incoming,
         Claim(h, {l}, at)
  PROVE  BookInv'
<1>1. Grows /\ DOMAIN txs' \ DOMAIN txs = {} /\ \A k : Fresh(k) = {} /\ Bookings(k)' \subseteq Bookings(k)
  BY NothingMade DEF IInv, Claim
<1>2. /\ \A k \in Lines : line'[k] = IF k \in {l} THEN Resolved(line[k]) ELSE line[k]
      /\ UNCHANGED astray /\ line[l].status = "NEW"
  BY DEF Claim, With, IsNew
<1>3. PICK j : j = Job(at, [k \in {l} |-> Resolved(line[k])], 0)
  OBVIOUS
<1>4. j.at = at /\ DOMAIN j.known = {l} /\ j.known[l] = Resolved(line[l]) /\ j.n = 0
  BY <1>3, JobFields
<1>5. job'[h] = j /\ \A g \in Handlers \ {h} : job'[g] = job[g]
  BY <1>3, Turned DEF IInv, Claim
<1>6. Resolved(line[l]).status = "RESOLVED"
  BY UpdatedRows DEF IInv, Typed
<1>7. Read(j, txs')
  BY <1>4, <1>6 DEF Read
<1>8. ASSUME NEW k \in Lines \ astray', k \in {l}
      PROVE  RowOk(k)' /\ Kept(h, k)' /\ \A g \in Handlers : ~Holds(g, k)
  <2>1. RowOk(k) /\ line[k].status = "NEW" /\ line'[k] = Resolved(line[k]) /\ line[k] \in RowType /\ k = l
    BY <1>2, <1>8 DEF IInv, Typed, BookInv, RowsOk
  <2>2. /\ line'[k].status = "RESOLVED" /\ line'[k].tx = 0 /\ ~line'[k].adopted /\ Bookings(k)' = {}
        /\ line'[k].transfer = line[k].transfer /\ line[k].transfer \notin Live'
    BY <1>1, <2>1, UpdatedRows, NoLiveTransfer DEF RowOk
  <2>3. RowOk(k)'
    BY <1>1, <2>1, <2>2 DEF RowOk, Grows
  <2>4. Kept(h, k)'
    BY <1>4, <1>5, <2>1, <2>2 DEF Kept
  <2> QED
    BY <1>2, <2>1, <2>3, <2>4, NotHeld
<1>9. \A k \in Lines \ astray' : k \notin {l} => Quiet(k)
  BY <1>1, <1>2 DEF Quiet
<1>10. \A k : Holds(h, k)' => k \in {l}
  BY <1>4, <1>5 DEF Holds, LinesOf
<1> QED
  BY <1>1, <1>2, <1>5, <1>7, <1>8, <1>9, <1>10, ByHandler DEF IInv

LEMMA OnceStart == ASSUME IInv, BookInv, NEW h \in Handlers, Start(h) PROVE BookInv'
<1>1. CASE \E l \in Incoming : Claim(h, {l}, "pay")
  BY <1>1, OnceClaim, InboxAssumption
<1>2. CASE \E l \in Lines : Claim(h, {l}, "transfer")
  BY <1>2, OnceClaim
<1> QED
  BY <1>1, <1>2, OnceBeginAdopt, OnceBeginConfirm, OnceBeginDismiss, OnceBeginUndo DEF Start

-----------------------------------------------------------------------------
\* The lines of a handler that has claimed them all.
LEMMA AllHeld ==
  ASSUME IInv, BookInv, NEW h \in Handlers, job[h].at \in {"pay", "fee", "search", "link", "transfer", "tie"},
         NEW k \in Lines \ astray, k \in LinesOf(h)
  PROVE  /\ Holds(h, k) /\ Kept(h, k) /\ RowOk(k) /\ \A g \in Handlers \ {h} : ~Holds(g, k)
         /\ line[k].status = "RESOLVED" /\ line[k].tx = 0 /\ ~line[k].adopted /\ line[k] \in RowType
<1>1. job[h] # Idle
  BY DEF Idle
<1>2. Holds(h, k)
  BY <1>1 DEF BookInv, Reads, Read, Holds, Claiming, LinesOf
<1>3. Kept(h, k) /\ RowOk(k) /\ \A g \in Handlers \ {h} : ~Holds(g, k)
  BY <1>2 DEF BookInv, Claims, RowsOk, OneHolder
<1>4. line[k].status = "RESOLVED" /\ line[k].tx = 0 /\ ~line[k].adopted /\ line[k] \in RowType
  BY <1>2, <1>3 DEF Kept, Holds, RowOk, IInv, Typed
<1> QED
  BY <1>2, <1>3, <1>4

LEMMA Ended ==
  ASSUME IInv, NEW h \in Handlers, Finish(h)
  PROVE  job'[h] = Idle /\ (\A g \in Handlers \ {h} : job'[g] = job[g]) /\ \A k : ~Holds(h, k)'
<1>1. job'[h] = Idle /\ \A g \in Handlers \ {h} : job'[g] = job[g]
  BY Turned DEF IInv, Finish
<1>2. \A k : ~Holds(h, k)'
  BY <1>1, IdleHoldsNothing DEF Holds
<1> QED
  BY <1>1, <1>2

\* A handler that waits for its statement has lines that are lines.
LEMMA AtWork ==
  ASSUME IInv, BookInv, NEW h \in Handlers, job[h].at # "idle"
  PROVE  /\ LinesOf(h) \subseteq Lines /\ InHand(job[h], txs) /\ Read(job[h], txs) /\ DOMAIN job[h].known = LinesOf(h)
         /\ \A k \in LinesOf(h) : job[h].known[k] \in RowType
<1>1. LinesOf(h) \subseteq Lines /\ InHand(job[h], txs) /\ job[h].known \in KnownType
  BY Busy DEF IInv
<1>2. Read(job[h], txs)
  BY IdleHoldsNothing DEF BookInv, Reads
<1>3. DOMAIN job[h].known = LinesOf(h)
  BY DEF LinesOf
<1>4. \A k \in LinesOf(h) : job[h].known[k] \in RowType
  BY <1>1, <1>3 DEF KnownType
<1> QED
  BY <1>1, <1>2, <1>3, <1>4

LEMMA OnceAdopt == ASSUME IInv, BookInv, NEW h \in Handlers, Adopt(h) PROVE BookInv'
<1> DEFINE T == {l \in LinesOf(h) : IsAbsent(l) /\ ~Linked(job[h].n, l)}
<1>1. Grows /\ DOMAIN txs' \ DOMAIN txs = {} /\ \A k : Fresh(k) = {} /\ Bookings(k)' \subseteq Bookings(k)
  BY NothingMade DEF IInv, Adopt
<1>2. /\ LinesOf(h) \subseteq Lines /\ InHand(job[h], txs) /\ job[h].at = "adopt"
  BY AtWork DEF Adopt, At
<1>3. /\ \A k \in Lines : line'[k] = IF k \in T THEN [line[k] EXCEPT !.status = "RESOLVED", !.tx = job[h].n, !.adopted = TRUE] ELSE line[k]
      /\ UNCHANGED astray /\ txs' = txs
  BY DEF Adopt, With, AdoptedRow
<1>4. PICK n \in DOMAIN txs : n = job[h].n
  BY <1>2 DEF InHand
<1>5. n \in Nat \ {0}
  BY Domain DEF IInv, Typed
<1>6. ASSUME NEW k \in Lines \ astray', k \in T
      PROVE  RowOk(k)' /\ \A g \in Handlers : ~Holds(g, k)
  <2>1. /\ RowOk(k) /\ line[k].status = "absent" /\ line[k] \in RowType
        /\ line'[k] = [line[k] EXCEPT !.status = "RESOLVED", !.tx = n, !.adopted = TRUE]
    BY <1>3, <1>4, <1>6 DEF IInv, Typed, BookInv, RowsOk, IsAbsent
  <2>2. line'[k].status = "RESOLVED" /\ line'[k].tx = n /\ line'[k].transfer = line[k].transfer
    BY <2>1 DEF RowType
  <2>3. line'[k].adopted
    BY <2>1, AdoptedFacts
  <2>4. line[k].transfer = 0 /\ Bookings(k)' = {} /\ 0 \notin Live'
    BY <1>1, <2>1 DEF RowOk, Live, Grows
  <2>5. RowOk(k)'
    BY <1>3, <1>5, <2>2, <2>3, <2>4 DEF RowOk
  <2> QED
    BY <1>3, <2>1, <2>5, NotHeld
<1>7. \A k \in Lines \ astray' : k \notin T => Quiet(k)
  BY <1>1, <1>3 DEF Quiet
<1>8. job'[h] = Idle /\ (\A g \in Handlers \ {h} : job'[g] = job[g]) /\ \A k : ~Holds(h, k)'
  BY Ended DEF Adopt
<1> HIDE DEF T
<1> QED
  BY <1>1, <1>3, <1>6, <1>7, <1>8, ByHandler DEF IInv

LEMMA OnceRefused == ASSUME IInv, BookInv, NEW h \in Handlers, Refused(h) PROVE BookInv'
<1>1. Grows /\ DOMAIN txs' \ DOMAIN txs = {} /\ \A k : Fresh(k) = {} /\ Bookings(k)' \subseteq Bookings(k)
  BY NothingMade DEF IInv, Refused
<1>2. LinesOf(h) \subseteq Lines /\ job[h].at \in {"pay", "transfer"}
  BY AtWork DEF Refused, At
<1>3. /\ \A k \in Lines : line'[k] = IF k \in LinesOf(h) THEN ToInbox(line[k]) ELSE line[k]
      /\ astray \subseteq astray'
  BY DEF Refused, Write, With
<1>4. ASSUME NEW k \in Lines \ astray', k \in LinesOf(h)
      PROVE  RowOk(k)' /\ \A g \in Handlers \ {h} : ~Holds(g, k)
  <2>1. /\ Kept(h, k) /\ RowOk(k) /\ \A g \in Handlers \ {h} : ~Holds(g, k)
        /\ line[k].tx = 0 /\ ~line[k].adopted /\ line[k] \in RowType /\ line'[k] = ToInbox(line[k])
    BY <1>2, <1>3, <1>4, AllHeld
  <2>2. Bookings(k)' = {}
    BY <1>1, <1>2, <2>1 DEF Kept
  <2>3. RowOk(k)'
    BY <1>1, <2>1, <2>2, UpdatedRows, NoLiveTransfer, RowReturned DEF IInv
  <2> QED
    BY <2>1, <2>3
<1>5. \A k \in Lines \ astray' : k \notin LinesOf(h) => Quiet(k)
  BY <1>1, <1>3 DEF Quiet
<1>6. job'[h] = Idle /\ (\A g \in Handlers \ {h} : job'[g] = job[g]) /\ \A k : ~Holds(h, k)'
  BY Ended DEF Refused
<1> QED
  BY <1>1, <1>3, <1>4, <1>5, <1>6, ByHandler DEF IInv

LEMMA OnceDismiss == ASSUME IInv, BookInv, NEW h \in Handlers, Dismiss(h) PROVE BookInv'
<1>1. Grows /\ DOMAIN txs' \ DOMAIN txs = {} /\ \A k : Fresh(k) = {} /\ Bookings(k)' \subseteq Bookings(k)
  BY NothingMade DEF IInv, Dismiss
<1>2. /\ LinesOf(h) \subseteq Lines /\ \A k \in LinesOf(h) : job[h].known[k].status = "NEW"
  BY AtWork DEF Dismiss, At, Read
<1>3. /\ \A k \in Lines : line'[k] = IF k \in LinesOf(h) THEN Dismissed(line[k]) ELSE line[k]
      /\ astray \subseteq astray' /\ \A k \in LinesOf(h) : k \notin astray' => line[k] = job[h].known[k]
  BY DEF Dismiss, Write, With
<1>4. ASSUME NEW k \in Lines \ astray', k \in LinesOf(h)
      PROVE  RowOk(k)' /\ \A g \in Handlers : ~Holds(g, k)
  <2>1. RowOk(k) /\ line[k].status = "NEW" /\ line[k] \in RowType /\ line'[k] = Dismissed(line[k])
    BY <1>2, <1>3, <1>4 DEF BookInv, RowsOk, IInv, Typed
  <2>2. line[k].tx = 0 /\ ~line[k].adopted /\ Bookings(k)' = {}
    BY <1>1, <2>1 DEF RowOk
  <2>3. RowOk(k)'
    BY <1>1, <2>1, <2>2, UpdatedRows, NoLiveTransfer, RowReturned DEF IInv
  <2> QED
    BY <1>3, <2>1, <2>3, NotHeld
<1>5. \A k \in Lines \ astray' : k \notin LinesOf(h) => Quiet(k)
  BY <1>1, <1>3 DEF Quiet
<1>6. job'[h] = Idle /\ (\A g \in Handlers \ {h} : job'[g] = job[g]) /\ \A k : ~Holds(h, k)'
  BY Ended DEF Dismiss
<1> QED
  BY <1>1, <1>3, <1>4, <1>5, <1>6, ByHandler DEF IInv

LEMMA OnceBackOff == ASSUME IInv, BookInv, NEW h \in Handlers, BackOff(h) PROVE BookInv'
<1> DEFINE T == {l \in LinesOf(h) : line[l].tx = 0}
<1>1. Grows /\ DOMAIN txs' \ DOMAIN txs = {} /\ \A k : Fresh(k) = {} /\ Bookings(k)' \subseteq Bookings(k)
  BY NothingMade DEF IInv, BackOff
<1>2. /\ LinesOf(h) \subseteq Lines /\ job[h].at = "backoff"
      /\ \A k \in LinesOf(h) : job[h].known[k].status \in {"NEW", "RESOLVED"}
  BY AtWork DEF BackOff, At, Read
<1>3. /\ \A k \in Lines : line'[k] = IF k \in T THEN ToInbox(line[k]) ELSE line[k]
      /\ astray \subseteq astray' /\ \A k \in T : k \notin astray' => line[k] = job[h].known[k]
  BY DEF BackOff, Write, With
<1>4. ASSUME NEW k \in Lines \ astray', k \in T
      PROVE  RowOk(k)' /\ \A g \in Handlers \ {h} : ~Holds(g, k)
  <2>1. /\ RowOk(k) /\ line[k].status \in {"NEW", "RESOLVED"} /\ line[k] \in RowType /\ line'[k] = ToInbox(line[k])
        /\ line[k].tx = 0 /\ line[k].status = job[h].known[k].status /\ k \in Lines \ astray /\ k \in LinesOf(h)
    BY <1>2, <1>3, <1>4 DEF BookInv, RowsOk, IInv, Typed
  <2>2. Bookings(k) = {} /\ \A g \in Handlers \ {h} : ~Holds(g, k)
    <3>1. CASE line[k].status = "NEW"
      BY <2>1, <3>1, NotHeld DEF RowOk
    <3>2. CASE line[k].status = "RESOLVED"
      <4>1. Holds(h, k)
        BY <1>2, <2>1, <3>2 DEF Holds, Claiming
      <4> QED
        BY <1>2, <2>1, <4>1 DEF BookInv, Claims, Kept, OneHolder
    <3> QED
      BY <2>1, <3>1, <3>2
  <2>3. ~line[k].adopted /\ Bookings(k)' = {}
    BY <1>1, <2>1, <2>2 DEF RowOk
  <2>4. RowOk(k)'
    BY <1>1, <2>1, <2>3, UpdatedRows, NoLiveTransfer, RowReturned DEF IInv
  <2> QED
    BY <2>2, <2>4
<1>5. \A k \in Lines \ astray' : k \notin T => Quiet(k)
  BY <1>1, <1>3 DEF Quiet
<1>6. job'[h] = Idle /\ (\A g \in Handlers \ {h} : job'[g] = job[g]) /\ \A k : ~Holds(h, k)'
  BY Ended DEF BackOff
<1> HIDE DEF T
<1> QED
  BY <1>1, <1>3, <1>4, <1>5, <1>6, ByHandler DEF IInv

LEMMA OnceReleaseAlive == ASSUME IInv, BookInv, NEW h \in Handlers, ReleaseAlive(h) PROVE BookInv'
<1>1. Grows /\ DOMAIN txs' \ DOMAIN txs = {} /\ \A k : Fresh(k) = {}
  BY NothingMade DEF IInv, ReleaseAlive
<1>2. /\ \A k \in Lines : line'[k] = IF k \in LinesOf(h) THEN ToInbox(line[k]) ELSE line[k]
      /\ astray' = astray \cup LinesOf(h)
  BY DEF ReleaseAlive, With
<1>3. \A k \in Lines \ astray' : k \notin {} => Quiet(k)
  BY <1>1, <1>2 DEF Quiet
<1>4. job'[h] = Idle /\ (\A g \in Handlers \ {h} : job'[g] = job[g]) /\ \A k : ~Holds(h, k)'
  BY Ended DEF ReleaseAlive
<1> QED
  BY <1>1, <1>2, <1>3, <1>4, ByHandler DEF IInv

\* What undo read of a line that is still so.
LEMMA UndoneLine ==
  ASSUME IInv, BookInv, NEW h \in Handlers, job[h].at \in {"unlink", "unbook"}, NEW k \in Lines \ astray, k \in LinesOf(h),
         line[k] = job[h].known[k]
  PROVE  /\ RowOk(k) /\ line[k] \in RowType /\ line[k].tx = job[h].n /\ job[h].n \in DOMAIN txs /\ job[h].n # 0
         /\ (\A g \in Handlers : ~Holds(g, k)) /\ Bookings(k) \subseteq {job[h].n}
         /\ line[k].transfer \in {0, job[h].n} \/ line[k].transfer \notin Live
         /\ job[h].at = "unlink" => Bookings(k) = {} /\ line[k].transfer \notin Live
         /\ job[h].at = "unbook" => ~line[k].adopted
<1>1. Read(job[h], txs) /\ LinesOf(h) = DOMAIN job[h].known
  BY AtWork
<1>2. line[k].tx = job[h].n /\ job[h].n \in DOMAIN txs /\ RowOk(k) /\ line[k] \in RowType
  BY <1>1 DEF Read, BookInv, RowsOk, IInv, Typed
<1>3. job[h].n # 0 /\ 0 \notin Live
  BY <1>2, Domain DEF IInv, Typed, Live
<1>4. Bookings(k) \subseteq {job[h].n} /\ (line[k].transfer \in {0, job[h].n} \/ line[k].transfer \notin Live)
  BY <1>2, <1>3 DEF RowOk
<1>5. job[h].at = "unlink" => Bookings(k) = {} /\ line[k].transfer \notin Live
  <2> SUFFICES ASSUME job[h].at = "unlink" PROVE Bookings(k) = {} /\ line[k].transfer \notin Live
    OBVIOUS
  <2>1. CASE line[k].adopted
    BY <1>2, <1>3, <2>1 DEF RowOk
  <2>2. CASE ~txs[job[h].n].live
    <3>1. job[h].n \notin Live /\ Bookings(k) \subseteq Live
      BY <2>2 DEF Live, Bookings
    <3> QED
      BY <1>2, <1>4, <3>1 DEF RowOk
  <2> QED
    BY <1>1, <2>1, <2>2 DEF Read
<1>6. job[h].at = "unbook" => ~line[k].adopted
  BY <1>1 DEF Read
<1>7. \A g \in Handlers : ~Holds(g, k)
  BY <1>2, <1>3, NotHeld
<1> QED
  BY <1>2, <1>3, <1>4, <1>5, <1>6, <1>7

LEMMA OnceUnlink == ASSUME IInv, BookInv, NEW h \in Handlers, Unlink(h) PROVE BookInv'
<1>1. Grows /\ DOMAIN txs' \ DOMAIN txs = {} /\ \A k : Fresh(k) = {} /\ Bookings(k)' \subseteq Bookings(k)
  BY NothingMade DEF IInv, Unlink
<1>2. LinesOf(h) \subseteq Lines /\ job[h].at = "unlink"
  BY AtWork DEF Unlink, At
<1>3. /\ \A k \in Lines : line'[k] = IF k \in LinesOf(h) THEN Freed(line[k]) ELSE line[k]
      /\ astray \subseteq astray' /\ (\A k \in LinesOf(h) : k \notin astray' => line[k] = job[h].known[k]) /\ Live' = Live
  BY DEF Unlink, Write, With, Live
<1>4. ASSUME NEW k \in Lines \ astray', k \in LinesOf(h)
      PROVE  RowOk(k)' /\ \A g \in Handlers : ~Holds(g, k)
  <2>1. /\ RowOk(k) /\ line[k] \in RowType /\ line'[k] = Freed(line[k]) /\ Bookings(k) = {} /\ line[k].transfer \notin Live'
        /\ \A g \in Handlers : ~Holds(g, k)
    BY <1>2, <1>3, <1>4, UndoneLine
  <2>2. RowOk(k)'
    BY <1>1, <2>1, UpdatedRows, RowReturned DEF IInv
  <2> QED
    BY <2>1, <2>2
<1>5. \A k \in Lines \ astray' : k \notin LinesOf(h) => Quiet(k)
  BY <1>1, <1>3 DEF Quiet
<1>6. job'[h] = Idle /\ (\A g \in Handlers \ {h} : job'[g] = job[g]) /\ \A k : ~Holds(h, k)'
  BY Ended DEF Unlink
<1> QED
  BY <1>1, <1>3, <1>4, <1>5, <1>6, ByHandler DEF IInv

LEMMA OnceUnbook == ASSUME IInv, BookInv, NEW h \in Handlers, Unbook(h) PROVE BookInv'
<1>1. LinesOf(h) \subseteq Lines /\ job[h].at = "unbook" /\ job[h].n \in DOMAIN txs
  BY AtWork DEF Unbook, At, InHand
<1>2. /\ Grows /\ DOMAIN txs' \ DOMAIN txs = {} /\ ~txs'[job[h].n].live
      /\ \A l : /\ Fresh(l) = {} /\ Bookings(l)' \subseteq Bookings(l)
                /\ Bookings(l) \subseteq {job[h].n} => Bookings(l)' = {}
  BY <1>1, OneDeleted DEF IInv, Unbook
<1>3. /\ \A k \in Lines : line'[k] = IF k \in LinesOf(h) THEN [line[k] EXCEPT !.status = "NEW", !.tx = 0] ELSE line[k]
      /\ astray \subseteq astray' /\ \A k \in LinesOf(h) : k \notin astray' => line[k] = job[h].known[k]
  BY DEF Unbook, Write, With
<1>4. ASSUME NEW k \in Lines \ astray', k \in LinesOf(h)
      PROVE  RowOk(k)' /\ \A g \in Handlers : ~Holds(g, k)
  <2>1. /\ RowOk(k) /\ line[k] \in RowType /\ line'[k] = [line[k] EXCEPT !.status = "NEW", !.tx = 0] /\ ~line[k].adopted
        /\ Bookings(k) \subseteq {job[h].n} /\ (line[k].transfer \in {0, job[h].n} \/ line[k].transfer \notin Live)
        /\ \A g \in Handlers : ~Holds(g, k)
    BY <1>1, <1>3, <1>4, UndoneLine
  <2>2. line'[k].status = "NEW" /\ line'[k].tx = 0 /\ (line'[k].adopted <=> line[k].adopted) /\ line'[k].transfer = line[k].transfer
    BY <2>1, LinkedRow
  <2>3. job[h].n \notin Live' /\ 0 \notin Live'
    BY <1>2 DEF Live, Grows
  <2>4. line[k].transfer \notin Live'
    BY <1>2, <2>1, <2>3, DeadStays DEF RowOk
  <2>5. RowOk(k)'
    BY <1>2, <2>1, <2>2, <2>4, RowReturned DEF IInv
  <2> QED
    BY <2>1, <2>5
<1>5. \A k \in Lines \ astray' : k \notin LinesOf(h) => Quiet(k)
  BY <1>2, <1>3 DEF Quiet
<1>6. job'[h] = Idle /\ (\A g \in Handlers \ {h} : job'[g] = job[g]) /\ \A k : ~Holds(h, k)'
  BY Ended DEF Unbook
<1> QED
  BY <1>2, <1>3, <1>4, <1>5, <1>6, ByHandler DEF IInv

LEMMA OnceConfirmClaim == ASSUME IInv, BookInv, NEW h \in Handlers, ConfirmClaim(h) PROVE BookInv'
<1> DEFINE T == {l \in LinesOf(h) : IsNew(l)}
           f == [l \in LinesOf(h) |-> IF l \in T THEN Resolved(line[l]) ELSE job[h].known[l]]
           j == Job(IF T = LinesOf(h) THEN "transfer" ELSE "backoff", f, 0)
<1>1. Grows /\ DOMAIN txs' \ DOMAIN txs = {} /\ \A k : Fresh(k) = {} /\ Bookings(k)' \subseteq Bookings(k)
  BY NothingMade DEF IInv, ConfirmClaim
<1>2. /\ LinesOf(h) \subseteq Lines /\ \A k \in LinesOf(h) : job[h].known[k].status = "NEW"
  BY AtWork DEF ConfirmClaim, At, Read
<1>3. /\ \A k \in Lines : line'[k] = IF k \in T THEN Resolved(line[k]) ELSE line[k]
      /\ UNCHANGED astray
  BY DEF ConfirmClaim, With
<1>4. job' = [job EXCEPT ![h] = j]
  <2>1. job' = [job EXCEPT ![h] = Job(IF T = LinesOf(h) THEN "transfer" ELSE "backoff",
                                      [l \in LinesOf(h) |-> IF l \in T THEN Resolved(line[l]) ELSE @.known[l]], 0)]
    BY DEF ConfirmClaim
  <2> QED
    BY <2>1 DEF IInv, Typed
<1>5. job'[h] = j /\ \A g \in Handlers \ {h} : job'[g] = job[g]
  BY <1>4, Turned DEF IInv
<1>6. /\ j.at \in {"transfer", "backoff"} /\ (j.at = "transfer" => T = LinesOf(h)) /\ j.known = f
  BY JobFields
<1>7. \A k \in LinesOf(h) : f[k] = IF k \in T THEN Resolved(line[k]) ELSE job[h].known[k]
  OBVIOUS
<1>8. \A k \in T : Resolved(line[k]).status = "RESOLVED" /\ line[k].status = "NEW" /\ k \in LinesOf(h)
  BY <1>2, UpdatedRows DEF IInv, Typed, IsNew
<1>9. DOMAIN f = LinesOf(h)
  OBVIOUS
<1> HIDE DEF j, f, T
<1>10. Read(j, txs')
  BY <1>2, <1>6, <1>7, <1>8, <1>9 DEF Read
<1>11. ASSUME NEW k \in Lines \ astray', k \in T
      PROVE  RowOk(k)' /\ Kept(h, k)' /\ \A g \in Handlers : ~Holds(g, k)
  <2>1. RowOk(k) /\ line[k].status = "NEW" /\ line'[k] = Resolved(line[k]) /\ line[k] \in RowType
    BY <1>3, <1>8, <1>11 DEF IInv, Typed, BookInv, RowsOk
  <2>2. /\ line'[k].status = "RESOLVED" /\ line'[k].tx = 0 /\ ~line'[k].adopted /\ Bookings(k)' = {}
        /\ line'[k].transfer = line[k].transfer /\ line[k].transfer \notin Live'
    BY <1>1, <2>1, UpdatedRows, NoLiveTransfer DEF RowOk
  <2>3. RowOk(k)'
    BY <1>1, <2>1, <2>2 DEF RowOk, Grows
  <2>4. job'[h].known[k] = Resolved(line[k])
    BY <1>5, <1>6, <1>7, <1>8, <1>11
  <2>5. Kept(h, k)'
    BY <1>5, <1>6, <2>1, <2>2, <2>4 DEF Kept
  <2> QED
    BY <1>3, <2>1, <2>3, <2>5, NotHeld
<1>12. \A k \in Lines \ astray' : k \notin T => Quiet(k)
  BY <1>1, <1>3 DEF Quiet
<1>13. \A k : Holds(h, k)' => k \in T
  <2> SUFFICES ASSUME NEW k, Holds(h, k)', k \notin T PROVE FALSE
    OBVIOUS
  <2>1. k \in LinesOf(h) /\ job'[h].known[k].status = "RESOLVED"
    BY <1>5, <1>6, <1>9 DEF Holds, LinesOf
  <2>2. job'[h].known[k] = job[h].known[k]
    BY <1>5, <1>6, <1>7, <2>1
  <2> QED
    BY <1>2, <2>1, <2>2
<1> QED
  BY <1>1, <1>3, <1>5, <1>10, <1>11, <1>12, <1>13, ByHandler DEF IInv

-----------------------------------------------------------------------------
\* A handler goes on with the rows it believes in.
LEMMA WentOn ==
  ASSUME IInv, NEW h \in Handlers, NEW at, NEW n, Goto(h, at, n)
  PROVE  /\ job'[h].at = at /\ job'[h].known = job[h].known /\ job'[h].n = n
         /\ \A g \in Handlers \ {h} : job'[g] = job[g]
         /\ \A k : Holds(h, k)' => k \in LinesOf(h)
<1>1. job' = [job EXCEPT ![h] = Job(at, job[h].known, n)]
  BY DEF Goto
<1>2. job'[h] = Job(at, job[h].known, n) /\ \A g \in Handlers \ {h} : job'[g] = job[g]
  BY <1>1, Turned DEF IInv
<1> QED
  BY <1>2, JobFields DEF Holds, LinesOf

LEMMA NotAFee ==
  ASSUME NEW t, t.for \subseteq Lines, t.from = Nowhere
  PROVE  ~IsFee(t)
  BY InboxAssumption DEF IsFee

\* The line of a handler of attachOrder after the payment.
LEMMA PaidLine ==
  ASSUME IInv, BookInv, Grows, NEW h \in Handlers, job[h].at = "pay", NEW n, NEW k \in Lines \ astray, k \in LinesOf(h),
         line' = line, Bookings(k)' \subseteq Bookings(k) \cup {n}, n \in Nat,
         job'[h].at \in {"fee", "search"}, job'[h].known = job[h].known, job'[h].n = n
  PROVE  RowOk(k)' /\ Kept(h, k)' /\ \A g \in Handlers \ {h} : ~Holds(g, k)
<1>1. /\ Kept(h, k) /\ RowOk(k) /\ (\A g \in Handlers \ {h} : ~Holds(g, k))
      /\ line[k].status = "RESOLVED" /\ line[k].tx = 0 /\ ~line[k].adopted /\ line[k].transfer \notin Live'
  BY AllHeld, NoLiveTransfer
<1>2. Bookings(k)' \subseteq {n}
  BY <1>1 DEF Kept
<1>3. RowOk(k)'
  BY <1>1, <1>2 DEF RowOk, Grows
<1>4. Kept(h, k)'
  BY <1>1, <1>2 DEF Kept
<1> QED
  BY <1>1, <1>3, <1>4

LEMMA OnceAttachPay == ASSUME IInv, BookInv, NEW h \in Handlers, AttachPay(h) PROVE BookInv'
<1>1. /\ LinesOf(h) \subseteq Lines /\ Read(job[h], txs) /\ job[h].at = "pay" /\ DOMAIN job[h].known = LinesOf(h)
  BY AtWork DEF AttachPay, At
<1>2. PICK l \in Incoming : LinesOf(h) = {l}
  BY <1>1 DEF Read
<1>3. PICK t \in TxType : txs' = Append(txs, t) /\ t.for = {l} /\ t.from = Nowhere
  <2>1. \A amount \in Nat : /\ Payment(l, {l}, amount) \in TxType /\ Payment(l, {l}, amount).for = {l}
                            /\ Payment(l, {l}, amount).from = Nowhere
    BY <1>1, <1>2, PaymentType DEF Payment, Tx
  <2> QED
    BY <1>2, <2>1 DEF AttachPay
<1>4. PICK n \in Nat : n = Len(txs) + 1
  BY Domain DEF IInv, Typed
<1>5. PICK at \in {"fee", "search"} : Goto(h, at, n)
  BY <1>4 DEF AttachPay
<1>6. /\ Grows /\ DOMAIN txs' \ DOMAIN txs = {n} /\ txs'[n] = t
      /\ \A k : (k \notin t.for => Fresh(k) = {}) /\ Bookings(k)' \subseteq Bookings(k) \cup {n}
  BY <1>3, <1>4, OneMade DEF IInv, AttachPay, Room
<1>7. UNCHANGED <<line, astray>>
  BY DEF AttachPay
<1>8. /\ job'[h].at = at /\ job'[h].known = job[h].known /\ job'[h].n = n
      /\ \A g \in Handlers \ {h} : job'[g] = job[g]
      /\ \A k : Holds(h, k)' => k \in LinesOf(h)
  BY <1>5, WentOn
<1>9. \A k \in Lines \ astray' : k \in LinesOf(h) => RowOk(k)' /\ Kept(h, k)' /\ \A g \in Handlers \ {h} : ~Holds(g, k)
  BY <1>1, <1>6, <1>7, <1>8, PaidLine
<1>10. Read(job'[h], txs')
  BY <1>1, <1>8 DEF Read
<1>11. \A k \in Lines \ astray' : k \notin LinesOf(h) => Quiet(k)
  BY <1>2, <1>3, <1>6, <1>7 DEF Quiet
<1>12. \A m \in DOMAIN txs' \ DOMAIN txs : txs'[m].kind = "ORDER_PAYMENT" => txs'[m].from = Nowhere
  BY <1>3, <1>6
<1>13. \A k \in Lines \ astray' : Holds(h, k)' => Kept(h, k)' /\ \A g \in Handlers \ {h} : ~Holds(g, k)
  BY <1>8, <1>9
<1>14. astray \subseteq astray'
  BY <1>7
<1> QED
  BY <1>6, <1>8, <1>9, <1>10, <1>11, <1>12, <1>13, <1>14, ByHandler DEF IInv

LEMMA OnceAttachInstallment == ASSUME IInv, BookInv, NEW h \in Handlers, AttachInstallment(h) PROVE BookInv'
<1>1. /\ LinesOf(h) \subseteq Lines /\ Read(job[h], txs) /\ job[h].at = "pay" /\ DOMAIN job[h].known = LinesOf(h)
  BY AtWork DEF AttachInstallment, At
<1>2. PICK l \in Incoming : LinesOf(h) = {l}
  BY <1>1 DEF Read
<1>3. PICK t \in TxType, u \in TxType :
        /\ txs' = txs \o <<t, u>> /\ t.for = {l} /\ t.from = Nowhere /\ u.for = {l} /\ u.from = AccountOf[l]
        /\ u.kind = "ORDER_FEE"
  <2>1. Payment(l, {l}, 2) \in TxType /\ Payment(l, {l}, 2).for = {l} /\ Payment(l, {l}, 2).from = Nowhere
    BY <1>1, <1>2, PaymentType DEF Payment, Tx
  <2>2. /\ Fee(l, "ORDER_FEE") \in TxType /\ Fee(l, "ORDER_FEE").for = {l} /\ Fee(l, "ORDER_FEE").from = AccountOf[l]
        /\ Fee(l, "ORDER_FEE").kind = "ORDER_FEE"
    BY <1>1, <1>2, FeeType DEF Fee, Tx, Kinds
  <2> QED
    BY <1>2, <2>1, <2>2 DEF AttachInstallment
<1>4. PICK n \in Nat : n = Len(txs) + 1
  BY Domain DEF IInv, Typed
<1>5. Goto(h, "search", n)
  BY <1>4 DEF AttachInstallment
<1>6. /\ Grows /\ DOMAIN txs' \ DOMAIN txs = {n, n + 1} /\ txs'[n] = t /\ txs'[n + 1] = u
  <2>1. Len(txs) + 2 = n + 1
    BY <1>4, Domain DEF IInv, Typed
  <2> QED
    BY <1>3, <1>4, <2>1, AppendTwo DEF IInv, AttachInstallment, Room
<1>7. IsFee(u)
  BY <1>2, <1>3 DEF IsFee
<1>8. \A k : Fresh(k) \subseteq {n} /\ (k # l => Fresh(k) = {})
  BY <1>3, <1>6, <1>7 DEF Fresh
<1>9. \A k : Bookings(k)' \subseteq Bookings(k) \cup {n}
  BY <1>6, <1>8, NewBookings
<1>10. UNCHANGED <<line, astray>>
  BY DEF AttachInstallment
<1>11. /\ job'[h].at = "search" /\ job'[h].known = job[h].known /\ job'[h].n = n
       /\ \A g \in Handlers \ {h} : job'[g] = job[g]
       /\ \A k : Holds(h, k)' => k \in LinesOf(h)
  BY <1>5, WentOn
<1>12. \A k \in Lines \ astray' : k \in LinesOf(h) => RowOk(k)' /\ Kept(h, k)' /\ \A g \in Handlers \ {h} : ~Holds(g, k)
  BY <1>1, <1>6, <1>9, <1>10, <1>11, PaidLine
<1>13. Read(job'[h], txs')
  BY <1>1, <1>11 DEF Read
<1>14. \A k \in Lines \ astray' : k \notin LinesOf(h) => Quiet(k)
  BY <1>2, <1>8, <1>10 DEF Quiet
<1> QED
  BY <1>3, <1>6, <1>10, <1>11, <1>12, <1>13, <1>14, ByHandler DEF IInv

LEMMA OnceAttachFee == ASSUME IInv, BookInv, NEW h \in Handlers, AttachFee(h) PROVE BookInv'
<1>1. /\ LinesOf(h) \subseteq Lines /\ Read(job[h], txs) /\ job[h].at = "fee" /\ DOMAIN job[h].known = LinesOf(h)
  BY AtWork DEF AttachFee, At
<1>2. PICK l \in Incoming : LinesOf(h) = {l}
  BY <1>1 DEF Read
<1>3. PICK t \in TxType : txs' = Append(txs, t) /\ t.for = {l} /\ t.from = AccountOf[l] /\ t.kind = "OTHER"
  <2>1. Fee(l, "OTHER") \in TxType /\ Fee(l, "OTHER").for = {l} /\ Fee(l, "OTHER").from = AccountOf[l] /\ Fee(l, "OTHER").kind = "OTHER"
    BY <1>1, <1>2, FeeType DEF Fee, Tx, Kinds
  <2> QED
    BY <1>2, <2>1 DEF AttachFee
<1>4. IsFee(t)
  BY <1>2, <1>3 DEF IsFee
<1>5. /\ Grows /\ DOMAIN txs' \ DOMAIN txs = {Len(txs) + 1} /\ txs'[Len(txs) + 1] = t /\ \A k : Fresh(k) = {}
  BY <1>3, <1>4, OneMade DEF IInv, AttachFee, Room
<1>6. \A k : Bookings(k)' \subseteq Bookings(k)
  BY <1>5, NewBookings
<1>7. UNCHANGED <<line, astray>>
  BY DEF AttachFee
<1>8. /\ job'[h].at = "search" /\ job'[h].known = job[h].known /\ job'[h].n = job[h].n
      /\ \A g \in Handlers \ {h} : job'[g] = job[g]
      /\ \A k : Holds(h, k)' => k \in LinesOf(h)
  BY WentOn DEF AttachFee
<1>9. ASSUME NEW k \in Lines \ astray', Holds(h, k)'
      PROVE  Kept(h, k)' /\ \A g \in Handlers \ {h} : ~Holds(g, k)
  <2>1. Kept(h, k) /\ \A g \in Handlers \ {h} : ~Holds(g, k)
    BY <1>1, <1>7, <1>8, <1>9, AllHeld
  <2>2. Kept(h, k)'
    BY <1>1, <1>6, <1>7, <1>8, <2>1 DEF Kept
  <2> QED
    BY <2>1, <2>2
<1>10. Read(job'[h], txs')
  BY <1>1, <1>8 DEF Read
<1>11. \A k \in Lines \ astray' : k \notin {} => Quiet(k)
  BY <1>5, <1>7 DEF Quiet
<1> QED
  BY <1>3, <1>5, <1>7, <1>8, <1>9, <1>10, <1>11, ByHandler DEF IInv

\* The payment found for the line of a handler, if it was made for that line alone, is the one it has made.
LEMMA OnceAttachSearch == ASSUME IInv, BookInv, NEW h \in Handlers, AttachSearch(h) PROVE BookInv'
<1>1. CASE Finish(h)
  BY <1>1, OnceReading, IdleHoldsNothing DEF AttachSearch, Finish
<1>2. ASSUME NEW n \in Live, txs[n].kind = "ORDER_PAYMENT", Goto(h, "link", n)
      PROVE  BookInv'
  <2>1. Grows /\ DOMAIN txs' \ DOMAIN txs = {} /\ (\A k : Fresh(k) = {} /\ Bookings(k)' \subseteq Bookings(k)) /\ txs' = txs
    BY NothingMade DEF IInv, AttachSearch
  <2>2. LinesOf(h) \subseteq Lines /\ Read(job[h], txs) /\ job[h].at = "search" /\ DOMAIN job[h].known = LinesOf(h)
    BY AtWork DEF AttachSearch, At
  <2>3. UNCHANGED <<line, astray>>
    BY DEF AttachSearch
  <2>4. /\ job'[h].at = "link" /\ job'[h].known = job[h].known /\ job'[h].n = n
        /\ \A g \in Handlers \ {h} : job'[g] = job[g]
        /\ \A k : Holds(h, k)' => k \in LinesOf(h)
    BY <1>2, WentOn
  <2>5. ASSUME NEW k \in Lines \ astray', Holds(h, k)'
        PROVE  Kept(h, k)' /\ \A g \in Handlers \ {h} : ~Holds(g, k)
    <3>1. Kept(h, k) /\ \A g \in Handlers \ {h} : ~Holds(g, k)
      BY <2>2, <2>3, <2>4, <2>5, AllHeld
    <3>2. txs[n].for = {k} => Bookings(k) \subseteq {n}
      <4> SUFFICES ASSUME txs[n].for = {k} PROVE Bookings(k) \subseteq {n}
        OBVIOUS
      <4>1. n \in DOMAIN txs /\ txs[n].from = Nowhere
        BY <1>2 DEF Live, BookInv, Incomes
      <4>2. ~IsFee(txs[n])
        BY <4>1, NotAFee
      <4>3. n \in Bookings(k)
        BY <4>2 DEF Bookings
      <4> QED
        BY <2>2, <3>1, <4>3 DEF Kept
    <3>3. Kept(h, k)'
      BY <2>1, <2>3, <2>4, <3>1, <3>2 DEF Kept
    <3> QED
      BY <3>1, <3>3
  <2>6. Read(job'[h], txs')
    BY <2>2, <2>4 DEF Read
  <2>7. \A k \in Lines \ astray' : k \notin {} => Quiet(k)
    BY <2>1, <2>3 DEF Quiet
  <2> QED
    BY <2>1, <2>3, <2>4, <2>5, <2>6, <2>7, ByHandler DEF IInv
<1> QED
  BY <1>1, <1>2 DEF AttachSearch

LEMMA OnceAttachLink == ASSUME IInv, BookInv, NEW h \in Handlers, AttachLink(h) PROVE BookInv'
<1> DEFINE T == {l \in LinesOf(h) : \A k \in Lines \ {l} : line[k].tx # job[h].n}
<1>1. Grows /\ DOMAIN txs' \ DOMAIN txs = {} /\ \A k : Fresh(k) = {} /\ Bookings(k)' \subseteq Bookings(k)
  BY NothingMade DEF IInv, AttachLink
<1>2. LinesOf(h) \subseteq Lines /\ InHand(job[h], txs) /\ job[h].at = "link"
  BY AtWork DEF AttachLink, At
<1>3. PICK n \in DOMAIN txs : n = job[h].n
  BY <1>2 DEF InHand
<1>4. n \in Nat \ {0} /\ n \in DOMAIN txs'
  BY <1>1, Domain DEF IInv, Typed, Grows
<1>5. /\ \A k \in Lines : line'[k] = IF k \in T THEN [line[k] EXCEPT !.tx = n] ELSE line[k]
      /\ astray \subseteq astray'
      /\ \A k \in T : k \notin astray' => line[k] = job[h].known[k] /\ txs[n].for = {k}
  BY <1>3 DEF AttachLink, With
<1>6. ASSUME NEW k \in Lines \ astray', k \in T
      PROVE  RowOk(k)' /\ \A g \in Handlers \ {h} : ~Holds(g, k)
  <2>1. /\ Kept(h, k) /\ RowOk(k) /\ (\A g \in Handlers \ {h} : ~Holds(g, k))
        /\ line[k].status = "RESOLVED" /\ line[k].tx = 0 /\ ~line[k].adopted /\ line[k] \in RowType
        /\ line'[k] = [line[k] EXCEPT !.tx = n]
    BY <1>2, <1>5, <1>6, AllHeld
  <2>2. Bookings(k)' \subseteq {n}
    BY <1>1, <1>2, <1>3, <1>5, <1>6, <2>1 DEF Kept
  <2>3. /\ line'[k].status = "RESOLVED" /\ line'[k].tx = n /\ (line'[k].adopted <=> line[k].adopted)
        /\ line'[k].transfer = line[k].transfer
    BY <2>1 DEF RowType
  <2>4. RowOk(k)'
    BY <1>1, <1>4, <2>1, <2>2, <2>3, NoLiveTransfer, RowBooked DEF IInv
  <2> QED
    BY <2>1, <2>4
<1>7. \A k \in Lines \ astray' : k \notin T => Quiet(k)
  BY <1>1, <1>5 DEF Quiet
<1>8. job'[h] = Idle /\ (\A g \in Handlers \ {h} : job'[g] = job[g]) /\ \A k : ~Holds(h, k)'
  BY Ended DEF AttachLink
<1> HIDE DEF T
<1> QED
  BY <1>1, <1>5, <1>6, <1>7, <1>8, ByHandler DEF IInv

LEMMA OnceMakeTransfer == ASSUME IInv, BookInv, NEW h \in Handlers, MakeTransfer(h) PROVE BookInv'
<1>1. /\ LinesOf(h) \subseteq Lines /\ Read(job[h], txs) /\ job[h].at = "transfer" /\ DOMAIN job[h].known = LinesOf(h)
  BY AtWork DEF MakeTransfer, At
<1>2. PICK t \in TxType : txs' = Append(txs, t) /\ t.for = LinesOf(h) /\ t.kind = "TRANSFER"
  <2> DEFINE account(ls) == IF ls = {} THEN OtherAccount ELSE AccountOf[CHOOSE l \in ls : TRUE]
  <2>1. ASSUME NEW ls \in SUBSET Lines
        PROVE  account(ls) \in Places
    BY DEF Places
  <2>2. PICK from \in Places, to \in Places : txs' = Append(txs, Tx("TRANSFER", LinesOf(h), from, to, 1, NoKey))
    <3>1. LinesOf(h) \ Incoming \in SUBSET Lines /\ LinesOf(h) \cap Incoming \in SUBSET Lines
      BY <1>1
    <3>2. txs' = Append(txs, Tx("TRANSFER", LinesOf(h), account(LinesOf(h) \ Incoming), account(LinesOf(h) \cap Incoming), 1, NoKey))
      BY DEF MakeTransfer
    <3> HIDE DEF account
    <3> QED
      BY <2>1, <3>1, <3>2
  <2>3. Tx("TRANSFER", LinesOf(h), from, to, 1, NoKey) \in TxType
    BY <1>1, <2>2 DEF Tx, TxType, Kinds, Keys
  <2> QED
    BY <2>2, <2>3 DEF Tx
<1>3. PICK n \in Nat : n = Len(txs) + 1
  BY Domain DEF IInv, Typed
<1>4. /\ Grows /\ DOMAIN txs' \ DOMAIN txs = {n} /\ txs'[n] = t
      /\ \A k : (k \notin t.for => Fresh(k) = {}) /\ Bookings(k)' \subseteq Bookings(k) \cup {n}
  BY <1>2, <1>3, OneMade DEF IInv, MakeTransfer, Room
<1>5. UNCHANGED <<line, astray>>
  BY DEF MakeTransfer
<1>6. /\ job'[h].at = "tie" /\ job'[h].known = job[h].known /\ job'[h].n = n
      /\ \A g \in Handlers \ {h} : job'[g] = job[g]
      /\ \A k : Holds(h, k)' => k \in LinesOf(h)
  BY <1>3, WentOn DEF MakeTransfer
<1>7. ASSUME NEW k \in Lines \ astray', k \in LinesOf(h)
      PROVE  RowOk(k)' /\ Kept(h, k)' /\ \A g \in Handlers \ {h} : ~Holds(g, k)
  <2>1. /\ Kept(h, k) /\ RowOk(k) /\ (\A g \in Handlers \ {h} : ~Holds(g, k))
        /\ line[k].status = "RESOLVED" /\ line[k].tx = 0 /\ ~line[k].adopted /\ line[k].transfer \notin Live'
    BY <1>1, <1>4, <1>5, <1>7, AllHeld, NoLiveTransfer
  <2>2. Bookings(k)' \subseteq {n}
    BY <1>1, <1>4, <2>1 DEF Kept
  <2>3. RowOk(k)'
    BY <1>4, <1>5, <2>1, <2>2 DEF RowOk, Grows
  <2>4. Kept(h, k)'
    BY <1>5, <1>6, <2>1, <2>2 DEF Kept
  <2> QED
    BY <2>1, <2>3, <2>4
<1>8. Read(job'[h], txs')
  BY <1>1, <1>6 DEF Read
<1>9. \A k \in Lines \ astray' : k \notin LinesOf(h) => Quiet(k)
  BY <1>2, <1>4, <1>5 DEF Quiet
<1>10. \A m \in DOMAIN txs' \ DOMAIN txs : txs'[m].kind = "ORDER_PAYMENT" => txs'[m].from = Nowhere
  BY <1>2, <1>4
<1>11. \A k \in Lines \ astray' : Holds(h, k)' => Kept(h, k)' /\ \A g \in Handlers \ {h} : ~Holds(g, k)
  BY <1>6, <1>7
<1>12. astray \subseteq astray'
  BY <1>5
<1> QED
  BY <1>4, <1>6, <1>7, <1>8, <1>9, <1>10, <1>11, <1>12, ByHandler DEF IInv

LEMMA TiedRow ==
  ASSUME NEW row \in RowType, NEW n, NEW m
  PROVE  LET r == [row EXCEPT !.tx = n, !.transfer = m]
         IN r.status = row.status /\ r.tx = n /\ (r.adopted <=> row.adopted) /\ r.transfer = m
  BY DEF RowType

LEMMA OnceTieLines == ASSUME IInv, BookInv, NEW h \in Handlers, TieLines(h) PROVE BookInv'
<1>1. Grows /\ DOMAIN txs' \ DOMAIN txs = {} /\ \A k : Fresh(k) = {} /\ Bookings(k)' \subseteq Bookings(k)
  BY NothingMade DEF IInv, TieLines
<1>2. LinesOf(h) \subseteq Lines /\ InHand(job[h], txs) /\ job[h].at = "tie"
  BY AtWork DEF TieLines, At
<1>3. PICK n \in DOMAIN txs : n = job[h].n
  BY <1>2 DEF InHand
<1>4. n \in Nat \ {0} /\ n \in DOMAIN txs' /\ Live' = Live
  BY <1>1, Domain DEF IInv, Typed, Grows, TieLines, Live
<1>5. PICK leg \in {n, 0} :
        /\ n \in Live => leg = n
        /\ \A k \in Lines : line'[k] = IF k \in LinesOf(h) THEN [line[k] EXCEPT !.tx = leg, !.transfer = n] ELSE line[k]
        /\ astray \subseteq astray' /\ \A k \in LinesOf(h) : k \notin astray' => line[k] = job[h].known[k]
  BY <1>3 DEF TieLines, Write, With
<1>6. ASSUME NEW k \in Lines \ astray', k \in LinesOf(h)
      PROVE  RowOk(k)' /\ \A g \in Handlers \ {h} : ~Holds(g, k)
  <2>1. /\ Kept(h, k) /\ RowOk(k) /\ (\A g \in Handlers \ {h} : ~Holds(g, k))
        /\ line[k].status = "RESOLVED" /\ line[k].tx = 0 /\ ~line[k].adopted /\ line[k] \in RowType
        /\ line'[k] = [line[k] EXCEPT !.tx = leg, !.transfer = n]
    BY <1>2, <1>5, <1>6, AllHeld
  <2>2. Bookings(k)' \subseteq {n}
    BY <1>1, <1>2, <1>3, <2>1 DEF Kept
  <2>3. /\ line'[k].status = "RESOLVED" /\ line'[k].tx = leg /\ (line'[k].adopted <=> line[k].adopted)
        /\ line'[k].transfer = n
    BY <2>1, TiedRow
  <2>4. leg = 0 => n \notin Live'
    BY <1>4, <1>5
  <2>5. RowOk(k)'
    BY <1>4, <1>5, <2>1, <2>2, <2>3, <2>4 DEF RowOk
  <2> QED
    BY <2>1, <2>5
<1>7. \A k \in Lines \ astray' : k \notin LinesOf(h) => Quiet(k)
  BY <1>1, <1>5 DEF Quiet
<1>8. job'[h] = Idle /\ (\A g \in Handlers \ {h} : job'[g] = job[g]) /\ \A k : ~Holds(h, k)'
  BY Ended DEF TieLines
<1> QED
  BY <1>1, <1>5, <1>6, <1>7, <1>8, ByHandler DEF IInv

LEMMA OnceContinue == ASSUME IInv, BookInv, NEW h \in Handlers, Continue(h) PROVE BookInv'
  BY OnceAdopt, OnceRefused, OnceAttachPay, OnceAttachInstallment, OnceAttachFee, OnceAttachSearch, OnceAttachLink,
     OnceConfirmClaim, OnceBackOff, OnceMakeTransfer, OnceTieLines, OnceReleaseAlive, OnceDismiss,
     OnceUnlink, OnceUnbook, OnceCrash, Zenon DEF Continue

-----------------------------------------------------------------------------
LEMMA InitBookInv == ASSUME Init PROVE BookInv
<1>1. \A l \in Lines : line[l].status = "absent" /\ line[l].tx = 0 /\ ~line[l].adopted /\ line[l].transfer = 0
  BY DEF Init, Absent
<1>2. txs = <<>> /\ \A h \in Handlers : job[h] = Idle
  BY DEF Init
<1>3. \A l : Bookings(l) = {}
  BY <1>2 DEF Bookings, Live
<1>4. \A l \in Lines : RowOk(l)
  BY <1>1, <1>2, <1>3 DEF RowOk, Live
<1>5. \A h \in Handlers, l \in Lines : ~Holds(h, l)
  BY <1>2, IdleHoldsNothing DEF Holds
<1> QED
  BY <1>2, <1>4, <1>5 DEF BookInv, RowsOk, Claims, OneHolder, Reads, Incomes

LEMMA NextBookInv == ASSUME IInv, BookInv, [Next]_vars PROVE BookInv'
<1>1. CASE \E l \in Lines : Atomic(l)
  BY <1>1, OnceAtomic
<1>2. CASE \E h \in Handlers : Start(h) \/ Continue(h)
  BY <1>2, OnceStart, OnceContinue
<1>3. CASE \E n \in DOMAIN txs : DeletePayment(n) \/ DeleteTransfer(n) \/ DeleteEntry(n)
  BY <1>3, OnceDeletePayment, OnceDeleteTransfer, OnceDeleteEntry
<1>4. CASE UNCHANGED vars
  BY <1>4, OnceStutter
<1> QED
  BY <1>1, <1>2, <1>3, <1>4 DEF Next

LEMMA BookInvBookedOnce == ASSUME BookInv PROVE BookedOnce
<1> SUFFICES ASSUME NEW l \in Lines \ astray PROVE Cardinality(Bookings(l)) <= 1
  BY DEF BookedOnce
<1>1. PICK m \in Nat : Bookings(l) \subseteq {m}
  BY DEF BookInv, RowsOk, RowOk
<1>2. PICK S : S = Bookings(l)
  OBVIOUS
<1>3. S = {} \/ S = {m}
  BY <1>1, <1>2
<1>4. CASE S = {}
  <2>1. Cardinality(S) = 0
    BY <1>4, FS_EmptySet
  <2> QED
    BY <2>1, <1>2
<1>5. CASE S = {m}
  <2>1. Cardinality(S) = 1
    BY <1>5, FS_Singleton
  <2> QED
    BY <2>1, <1>2
<1> QED
  BY <1>3, <1>4, <1>5

(***************************************************************************)
(* Any number of handlers, of any number of lines, book a line once,       *)
(* however their statements overlap and whichever of them dies, unless the *)
(* line went astray (inbox.service.ts, the claims by compare-and-swap of   *)
(* attachOrder, confirmTransfer, markAsTransfer and categorize).           *)
(***************************************************************************)
THEOREM LinesBookedOnce == Spec => []BookedOnce
<1>1. Init => IInv /\ BookInv
  BY InitIInv, InitBookInv
<1>2. IInv /\ BookInv /\ [Next]_vars => (IInv /\ BookInv)'
  BY NextIInv, NextBookInv
<1>3. IInv /\ BookInv => BookedOnce
  BY BookInvBookedOnce
<1> QED
  BY <1>1, <1>2, <1>3, PTL DEF Spec

(***************************************************************************)
(* A line that lies in the inbox or was dismissed has no money in the      *)
(* books: whoever returned it had not booked it yet, or took its money out *)
(* before (inbox.service.ts undo and the releases; the deletions of        *)
(* payments and transfers).                                                *)
(***************************************************************************)
THEOREM InboxHoldsNoMoney == Spec => []InboxIsUnbooked
<1>1. Init => IInv /\ BookInv
  BY InitIInv, InitBookInv
<1>2. IInv /\ BookInv /\ [Next]_vars => (IInv /\ BookInv)'
  BY NextIInv, NextBookInv
<1>3. IInv /\ BookInv => InboxIsUnbooked
  BY DEF BookInv, RowsOk, RowOk, InboxIsUnbooked
<1> QED
  BY <1>1, <1>2, <1>3, PTL DEF Spec
=============================================================================
