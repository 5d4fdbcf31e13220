--------------------------- MODULE RequestsProofs ---------------------------
(***************************************************************************)
(* Theorems about handlers of requests that another one may overtake       *)
(* between two of their statements: the interceptor that reserves an       *)
(* idempotency key, and the handlers of accounts and transfers.  The two   *)
(* specifications share no variable and no constant; each part is about    *)
(* one of them and has an invariant of its own.                            *)
(***************************************************************************)
EXTENDS Idempotency, Accounts, TLAPS

-----------------------------------------------------------------------------
(***************************************************************************)
(* For any number of requests and keys: with the commit hook (InUow) the   *)
(* work of a key is committed at most once.                                *)
(*                                                                         *)
(* AtMostOnce alone is not inductive: a second request could be in its     *)
(* handler while the first one's work is committed.  What keeps it out is  *)
(* the reservation, so the invariant says who holds the row of a key:      *)
(*   - a request in its handler owns a fresh row that is not completed,    *)
(*     and nothing is committed under its key;                             *)
(*   - committed work has a completed row that has not expired, which      *)
(*     neither an eviction nor a release removes;                          *)
(*   - a request past its handler has either committed or still owns its   *)
(*     row, so what it does to the row harms nobody else.                  *)
(***************************************************************************)
Owns(r) == row[key[r]].owner = r /\ ~row[key[r]].done /\ row[key[r]].age = "fresh"
HasCommitted(r) == r \in committed[key[r]]

HandlerOwns == \A r \in Requests : pc[r] = "handler" => Owns(r) /\ committed[key[r]] = {}
CommittedIsMarked ==
  \A k \in Keys : committed[k] # {} => Exists(k) /\ row[k].done /\ row[k].age # "expired"
FinisherCommitted == \A r \in Requests : pc[r] \in {"cache", "mark"} => HasCommitted(r)
ReleaserOwns == \A r \in Requests : pc[r] = "release" => Owns(r) \/ HasCommitted(r)

Inv ==
  /\ TypeOK
  /\ AtMostOnce
  /\ HandlerOwns
  /\ CommittedIsMarked
  /\ FinisherCommitted
  /\ ReleaserOwns

LEMMA InitInv == Init => Inv
BY DEF Init, Inv, TypeOK, AtMostOnce, HandlerOwns, CommittedIsMarked, FinisherCommitted, ReleaserOwns,
  NoRow, RowType, Steps, Running, Replies

LEMMA CompletedRow ==
  ASSUME NEW t \in RowType, t.owner \in Requests
  PROVE  [t EXCEPT !.done = TRUE] \in RowType
<1>1. t \in [owner : Requests, done : BOOLEAN, body : {"null", "result"}, age : {"fresh", "stale", "expired"}]
  BY IdempotencyAssumption DEF RowType, NoRow
<1> QED
  BY <1>1 DEF RowType

\* One step per action of Next.
LEMMA StepInv == InUow /\ Inv /\ [Next]_vars => Inv'
<1> SUFFICES ASSUME InUow, Inv, [Next]_vars
             PROVE  Inv'
  OBVIOUS
<1> USE IdempotencyAssumption DEF Inv, TypeOK, AtMostOnce, HandlerOwns, CommittedIsMarked,
  FinisherCommitted, ReleaserOwns, Owns, HasCommitted, Exists, Steps, Running, Replies, RowType, NoRow
<1>1. ASSUME NEW r \in Requests, NEW k \in Keys, Send(r, k)
      PROVE  Inv'
  BY <1>1 DEF Send, Step
<1>2. ASSUME NEW r \in Requests, Insert(r)
      PROVE  Inv'
  <2>1. CASE Exists(key[r])
    BY <1>2, <2>1 DEF Insert, Step
  <2>2. CASE ~Exists(key[r])
    <3>1. /\ row' = [row EXCEPT ![key[r]] = Reserved(r)]
          /\ pc' = [pc EXCEPT ![r] = "handler"]
          /\ UNCHANGED <<key, reply, committed>>
          /\ committed[key[r]] = {}
      BY <1>2, <2>2 DEF Insert, Step
    <3>2. Reserved(r) = [owner |-> r, done |-> FALSE, body |-> "null", age |-> "fresh"]
      BY DEF Reserved
    <3>3. Reserved(r) \in RowType
      BY <3>2
    <3>4. row' \in [Keys -> RowType]
      BY <3>1, <3>3
    <3>5. TypeOK' /\ AtMostOnce'
      BY <3>1, <3>4
    <3>6. HandlerOwns' /\ CommittedIsMarked'
      BY <2>2, <3>1, <3>2
    <3>7. FinisherCommitted' /\ ReleaserOwns'
      BY <2>2, <3>1, <3>2
    <3> QED
      BY <3>5, <3>6, <3>7
  <2> QED
    BY <2>1, <2>2
<1>3. ASSUME NEW r \in Requests, Look(r)
      PROVE  Inv'
  BY <1>3 DEF Look, Step, Answer
<1>4. ASSUME NEW r \in Requests, EvictStale(r)
      PROVE  Inv'
  BY <1>4 DEF EvictStale, Evict, Step
<1>5. ASSUME NEW r \in Requests, EvictExpired(r)
      PROVE  Inv'
  BY <1>5 DEF EvictExpired, Evict, Step
<1>6. ASSUME NEW r \in Requests, Commit(r)
      PROVE  Inv'
  <2> DEFINE marked == [row[key[r]] EXCEPT !.done = TRUE]
  <2>1. Owns(r) /\ committed[key[r]] = {}
    BY <1>6 DEF Commit, Step
  <2>2. /\ pc' = [pc EXCEPT ![r] = "cache"]
        /\ committed' = [committed EXCEPT ![key[r]] = committed[key[r]] \cup {r}]
        /\ UNCHANGED <<key, reply>>
    BY <1>6 DEF Commit, Step
  <2>3. row' = [row EXCEPT ![key[r]] = marked]
    <3>1. row' = [row EXCEPT ![key[r]].done = @ \/ (InUow /\ Exists(key[r]))]
      BY <1>6 DEF Commit
    <3>2. (row[key[r]].done \/ (InUow /\ Exists(key[r]))) = TRUE
      BY <2>1
    <3> QED
      BY <3>1, <3>2, Zenon
  <2>4. /\ Owns(r) /\ committed[key[r]] = {}
        /\ pc' = [pc EXCEPT ![r] = "cache"]
        /\ committed' = [committed EXCEPT ![key[r]] = {r}]
        /\ row' = [row EXCEPT ![key[r]] = marked]
        /\ UNCHANGED <<key, reply>>
    BY <2>1, <2>2, <2>3
  <2>5. TypeOK'
    <3>1. marked \in RowType
      BY <2>4, CompletedRow
    <3>2. row' \in [Keys -> RowType]
      BY <2>4, <3>1
    <3> QED
      BY <2>4, <3>2
  <2>6. AtMostOnce'
    BY <2>4
  <2>7. HandlerOwns'
    BY <2>4
  <2>8. CommittedIsMarked'
    BY <2>4
  <2>9. FinisherCommitted' /\ ReleaserOwns'
    BY <2>4
  <2> QED
    BY <2>5, <2>6, <2>7, <2>8, <2>9
<1>7. ASSUME NEW r \in Requests, Fail(r)
      PROVE  Inv'
  BY <1>7 DEF Fail, Step
<1>8. ASSUME NEW r \in Requests, Release(r)
      PROVE  Inv'
  BY <1>8 DEF Release, Step, Answer
<1>9. ASSUME NEW r \in Requests, CacheBody(r)
      PROVE  Inv'
  BY <1>9 DEF CacheBody, Step, Answer
<1>10. ASSUME NEW r \in Requests, MarkDone(r)
       PROVE  Inv'
  BY <1>10 DEF MarkDone, Step, Answer
<1>11. ASSUME Crash
       PROVE  Inv'
  BY <1>11 DEF Crash
<1>12. ASSUME NEW k \in Keys, LeaseElapses(k)
       PROVE  Inv'
  BY <1>12 DEF LeaseElapses
<1>13. ASSUME NEW k \in Keys, TtlElapses(k)
       PROVE  Inv'
  BY <1>13 DEF TtlElapses
<1>14. CASE UNCHANGED vars
  BY <1>14 DEF vars
<1> QED
  BY <1>1, <1>2, <1>3, <1>4, <1>5, <1>6, <1>7, <1>8, <1>9, <1>10, <1>11, <1>12, <1>13, <1>14
     DEF Next, Serve

(***************************************************************************)
(* The reservation table and the requests keep their shape, and the work   *)
(* of a key is committed at most once within its TTL, for every set of     *)
(* requests and keys, as long as completedAt is set by the transaction of  *)
(* the domain work (UnitOfWork.run drains the hook before it commits).     *)
(***************************************************************************)
THEOREM SafeReservation ==
  ASSUME InUow
  PROVE  Spec => [](TypeOK /\ AtMostOnce)
<1>1. Inv => TypeOK /\ AtMostOnce
  BY DEF Inv
<1>2. Inv /\ [Next]_vars => Inv'
  BY StepInv
<1> QED
  BY <1>1, <1>2, InitInv, PTL DEF Spec

(***************************************************************************)
(* A replay is true because a completed row, until it expires, belongs to  *)
(* a request whose work is committed.                                      *)
(***************************************************************************)
DoneIsCommitted ==
  \A k \in Keys : Exists(k) /\ row[k].done /\ row[k].age # "expired" => row[k].owner \in committed[k]

LEMMA InitDone == Init => DoneIsCommitted
BY DEF Init, DoneIsCommitted, Exists, NoRow

LEMMA StepDone == InUow /\ Inv /\ DoneIsCommitted /\ [Next]_vars => DoneIsCommitted'
<1> SUFFICES ASSUME InUow, Inv, DoneIsCommitted, [Next]_vars
             PROVE  DoneIsCommitted'
  OBVIOUS
<1> USE IdempotencyAssumption DEF DoneIsCommitted, Exists
<1>0. /\ row \in [Keys -> RowType] /\ key \in [Requests -> Keys]
      /\ pc \in [Requests -> Steps] /\ committed \in [Keys -> SUBSET Requests]
  BY DEF Inv, TypeOK
<1>1. ASSUME NEW r \in Requests, NEW k \in Keys, Send(r, k)
      PROVE  DoneIsCommitted'
  BY <1>1 DEF Send
<1>2. ASSUME NEW r \in Requests, Insert(r)
      PROVE  DoneIsCommitted'
  BY <1>0, <1>2 DEF Insert, Reserved
<1>3. ASSUME NEW r \in Requests, Look(r)
      PROVE  DoneIsCommitted'
  BY <1>3 DEF Look
<1>4. ASSUME NEW r \in Requests, EvictStale(r) \/ EvictExpired(r)
      PROVE  DoneIsCommitted'
  BY <1>0, <1>4 DEF EvictStale, EvictExpired, Evict, NoRow
<1>5. ASSUME NEW r \in Requests, Commit(r)
      PROVE  DoneIsCommitted'
  <2>1. row[key[r]].owner = r
    BY <1>5 DEF Commit, Step, Inv, HandlerOwns, Owns
  <2>2. /\ committed' = [committed EXCEPT ![key[r]] = committed[key[r]] \cup {r}]
        /\ row' = [row EXCEPT ![key[r]].done = @ \/ (InUow /\ Exists(key[r]))]
    BY <1>5 DEF Commit
  <2>3. \A k \in Keys : row'[k].owner = row[k].owner
    BY <1>0, <2>2 DEF RowType, NoRow
  <2>4. \A k \in Keys : k # key[r] => row'[k] = row[k] /\ committed'[k] = committed[k]
    BY <1>0, <2>2
  <2>5. r \in committed'[key[r]]
    BY <1>0, <2>2
  <2> QED
    BY <2>1, <2>3, <2>4, <2>5
<1>6. ASSUME NEW r \in Requests, Fail(r)
      PROVE  DoneIsCommitted'
  BY <1>6 DEF Fail
<1>7. ASSUME NEW r \in Requests, Release(r)
      PROVE  DoneIsCommitted'
  BY <1>0, <1>7 DEF Release, NoRow
<1>8. ASSUME NEW r \in Requests, CacheBody(r)
      PROVE  DoneIsCommitted'
  BY <1>0, <1>8 DEF CacheBody, RowType, NoRow
<1>9. ASSUME NEW r \in Requests, MarkDone(r)
      PROVE  DoneIsCommitted'
  <2>1. Exists(key[r]) /\ row[key[r]].done
    BY <1>0, <1>9 DEF MarkDone, Answer, Step, Inv, FinisherCommitted, HasCommitted, CommittedIsMarked
  <2>2. row' = [row EXCEPT ![key[r]].done = @ \/ Exists(key[r])] /\ committed' = committed
    BY <1>9 DEF MarkDone
  <2>3. \A k \in Keys : row'[k].owner = row[k].owner /\ row'[k].age = row[k].age
    BY <1>0, <2>2 DEF RowType, NoRow
  <2>4. \A k \in Keys : k # key[r] => row'[k] = row[k]
    BY <1>0, <2>2
  <2> QED
    BY <2>1, <2>2, <2>3, <2>4
<1>10. ASSUME Crash
       PROVE  DoneIsCommitted'
  BY <1>10 DEF Crash
<1>11. ASSUME NEW k \in Keys, LeaseElapses(k)
       PROVE  DoneIsCommitted'
  BY <1>0, <1>11 DEF LeaseElapses, RowType, NoRow
<1>12. ASSUME NEW k \in Keys, TtlElapses(k)
       PROVE  DoneIsCommitted'
  BY <1>0, <1>12 DEF TtlElapses, RowType, NoRow
<1>13. CASE UNCHANGED vars
  BY <1>13 DEF vars
<1> QED
  BY <1>1, <1>2, <1>3, <1>4, <1>5, <1>6, <1>7, <1>8, <1>9, <1>10, <1>11, <1>12, <1>13 DEF Next, Serve

(***************************************************************************)
(* The refinement: what a statement does to the table it does to the       *)
(* promise as well, or the promise does not see it.                        *)
(***************************************************************************)
Told == [r \in Requests |-> StatusOf(r)]

LEMMA PromiseInit == Init => Promise!Init
<1> SUFFICES ASSUME Init
             PROVE  Promise!Init
  OBVIOUS
<1>1. \A r \in Requests : StatusOf(r) = "unsent"
  BY DEF Init, StatusOf, Running
<1>2. key \in [Requests -> Keys] /\ committed = [k \in Keys |-> {}]
  BY DEF Init
<1>3. Told = [r \in Requests |-> "unsent"]
  BY <1>1 DEF Told
<1> QED
  BY <1>2, <1>3 DEF Promise!Init, Told

\* A step of a request within its service leaves its status alone.
LEMMA StaysPending ==
  ASSUME NEW r \in Requests, pc \in [Requests -> Steps], pc[r] \in Running,
         NEW to \in Running, pc' = [pc EXCEPT ![r] = to], reply' = reply
  PROVE  Told' = Told
BY DEF Told, StatusOf, Running, Steps

\* An answer ends it.
LEMMA AnswerTells ==
  ASSUME NEW r \in Requests, pc \in [Requests -> Steps], reply \in [Requests -> Replies], pc[r] \in Running,
         NEW what \in Replies, pc' = [pc EXCEPT ![r] = "answered"], reply' = [reply EXCEPT ![r] = what]
  PROVE  /\ Told[r] = "pending"
         /\ Told' = [Told EXCEPT ![r] = IF what \in {"result", "replayed", "replayedNull"} THEN "success" ELSE "failure"]
BY DEF Told, StatusOf, Running, Steps, Replies

LEMMA PromiseStep == InUow /\ Inv /\ DoneIsCommitted /\ [Next]_vars => [Promise!Next]_(Promise!vars)
<1> SUFFICES ASSUME InUow, Inv, DoneIsCommitted, [Next]_vars
             PROVE  Promise!Next \/ (key' = key /\ committed' = committed /\ Told' = Told)
  BY DEF Promise!vars, Told
<1> USE IdempotencyAssumption
<1>0. /\ row \in [Keys -> RowType] /\ key \in [Requests -> Keys]
      /\ pc \in [Requests -> Steps] /\ committed \in [Keys -> SUBSET Requests]
      /\ reply \in [Requests -> Replies]
  BY DEF Inv, TypeOK
<1> DEFINE Hidden == key' = key /\ committed' = committed /\ Told' = Told
<1>a. ASSUME NEW r \in Requests, NEW from \in Running, NEW to \in Running, Step(r, from, to), UNCHANGED reply
      PROVE  Told' = Told
  BY <1>0, <1>a, StaysPending DEF Step
<1>b. ASSUME NEW r \in Requests, NEW from \in Running, Answer(r, from, "error") \/ Answer(r, from, "conflict"),
             UNCHANGED <<key, committed>>
      PROVE  Promise!Next
  <2>1. Told[r] = "pending" /\ Told' = [Told EXCEPT ![r] = "failure"]
    BY <1>0, <1>b, AnswerTells DEF Answer, Step, Replies
  <2>2. Promise!Refuse(r)
    BY <1>b, <2>1 DEF Promise!Refuse, Told
  <2> QED
    BY <2>2 DEF Promise!Next
<1>c. ASSUME NEW r \in Requests, NEW from \in Running, NEW what \in {"result", "replayed", "replayedNull"},
             Answer(r, from, what), UNCHANGED <<key, committed>>,
             \E q \in committed[key[r]] : HashOf[q] = HashOf[r]
      PROVE  Promise!Next
  <2>1. Told[r] = "pending" /\ Told' = [Told EXCEPT ![r] = "success"]
    BY <1>0, <1>c, AnswerTells DEF Answer, Step, Replies
  <2>2. Promise!Succeed(r)
    BY <1>c, <2>1 DEF Promise!Succeed, Told
  <2> QED
    BY <2>2 DEF Promise!Next
<1>1. ASSUME NEW r \in Requests, NEW k \in Keys, Send(r, k)
      PROVE  Promise!Next
  <2>1. Told[r] = "unsent" /\ Told' = [Told EXCEPT ![r] = "pending"]
    BY <1>0, <1>1 DEF Send, Step, Told, StatusOf, Running, Steps
  <2>2. Promise!Ask(r, k)
    BY <1>1, <2>1 DEF Send, Promise!Ask, Told
  <2> QED
    BY <2>2 DEF Promise!Next
<1>2. ASSUME NEW r \in Requests, Insert(r)
      PROVE  Hidden
  BY <1>2, <1>a DEF Insert, Running
<1>3. ASSUME NEW r \in Requests, Look(r)
      PROVE  Promise!Next \/ Hidden
  <2> DEFINE old == row[key[r]]
  <2>1. CASE \E to \in Running : Step(r, "look", to) /\ UNCHANGED reply
    BY <1>3, <1>a, <2>1 DEF Look, Running
  <2>2. CASE Answer(r, "look", "conflict")
    BY <1>3, <1>b, <2>2 DEF Look, Running
  <2>3. CASE /\ \E what \in {"replayed", "replayedNull"} : Answer(r, "look", what)
             /\ Exists(key[r]) /\ old.age # "expired" /\ old.done /\ HashOf[old.owner] = HashOf[r]
    <3>1. old.owner \in committed[key[r]]
      BY <1>0, <2>3 DEF DoneIsCommitted
    <3>2. UNCHANGED <<key, committed>>
      BY <1>3 DEF Look
    <3> QED
      BY <1>c, <2>3, <3>1, <3>2 DEF Running
  <2> QED
    BY <1>3, <2>1, <2>2, <2>3 DEF Look, Running
<1>4. ASSUME NEW r \in Requests, EvictStale(r) \/ EvictExpired(r)
      PROVE  Hidden
  BY <1>4, <1>a DEF EvictStale, EvictExpired, Evict, Running
<1>5. ASSUME NEW r \in Requests, Commit(r)
      PROVE  Promise!Next
  <2>1. committed[key[r]] = {} /\ pc[r] = "handler"
    BY <1>5 DEF Commit, Step, Inv, HandlerOwns
  <2>2. committed' = [committed EXCEPT ![key[r]] = {r}]
    BY <1>0, <1>5, <2>1 DEF Commit
  <2>3. Told' = Told /\ key' = key
    BY <1>5, <1>a DEF Commit, Running
  <2>4. Told[r] = "pending"
    BY <2>1 DEF Told, StatusOf, Running
  <2>5. Promise!Do(r)
    BY <2>1, <2>2, <2>3, <2>4 DEF Promise!Do, Told
  <2> QED
    BY <2>5 DEF Promise!Next
<1>6. ASSUME NEW r \in Requests, Fail(r)
      PROVE  Hidden
  BY <1>6, <1>a DEF Fail, Running
<1>7. ASSUME NEW r \in Requests, Release(r)
      PROVE  Promise!Next
  BY <1>7, <1>b DEF Release, Running
<1>8. ASSUME NEW r \in Requests, pc[r] \in {"cache", "mark"}
      PROVE  \E q \in committed[key[r]] : HashOf[q] = HashOf[r]
  BY <1>8 DEF Inv, FinisherCommitted, HasCommitted
<1>9. ASSUME NEW r \in Requests, CacheBody(r)
      PROVE  Promise!Next \/ Hidden
  <2>1. CASE Step(r, "cache", "mark") /\ UNCHANGED reply
    BY <1>9, <1>a, <2>1 DEF CacheBody, Running
  <2>2. CASE Answer(r, "cache", "result")
    BY <1>8, <1>9, <1>c, <2>2 DEF CacheBody, Running, Answer, Step
  <2> QED
    BY <1>9, <2>1, <2>2 DEF CacheBody
<1>10. ASSUME NEW r \in Requests, MarkDone(r)
       PROVE  Promise!Next
  BY <1>8, <1>10, <1>c DEF MarkDone, Running, Answer, Step
<1>11. ASSUME Crash
       PROVE  Promise!Next
  <2>1. Told' = [r \in Requests |-> IF Told[r] = "pending" THEN "lost" ELSE Told[r]]
    BY <1>0, <1>11 DEF Crash, Told, StatusOf, Running, Steps
  <2>2. Promise!Lose
    BY <1>11, <2>1 DEF Crash, Promise!Lose, Told
  <2> QED
    BY <2>2 DEF Promise!Next
<1>12. ASSUME NEW k \in Keys, LeaseElapses(k)
       PROVE  Hidden
  BY <1>12 DEF LeaseElapses, Told, StatusOf
<1>13. ASSUME NEW k \in Keys, TtlElapses(k)
       PROVE  Promise!Next
  <2>1. \A r \in Requests : Told[r] # "pending"
    BY <1>0, <1>13 DEF TtlElapses, Told, StatusOf, Running, Steps
  <2>2. Told' = [r \in Requests |-> IF key[r] = k THEN "unsent" ELSE Told[r]]
    BY <1>0, <1>13 DEF TtlElapses, Told, StatusOf, Running, Steps
  <2>3. Promise!Forget(k)
    BY <1>13, <2>1, <2>2 DEF TtlElapses, Promise!Forget, Told
  <2> QED
    BY <2>3 DEF Promise!Next
<1>14. CASE UNCHANGED vars
  BY <1>14 DEF vars, Told, StatusOf
<1> QED
  BY <1>1, <1>2, <1>3, <1>4, <1>5, <1>6, <1>7, <1>9, <1>10, <1>11, <1>12, <1>13, <1>14 DEF Next, Serve

(***************************************************************************)
(* For every set of requests and keys the interceptor implements OnceOnly, *)
(* if completedAt is set by the transaction of the domain work: no step of *)
(* it, a takeover, a crash or an expiry included, does the work of a key   *)
(* twice, tells a success that is not true or takes one back.              *)
(***************************************************************************)
THEOREM Refinement ==
  ASSUME InUow
  PROVE  Spec => KeepsPromise
<1>1. Inv /\ [Next]_vars => Inv'
  BY StepInv
<1>2. Inv /\ DoneIsCommitted /\ [Next]_vars => DoneIsCommitted' /\ [Promise!Next]_(Promise!vars)
  BY StepDone, PromiseStep
<1> QED
  BY <1>1, <1>2, InitInv, InitDone, PromiseInit, PTL DEF Spec, KeepsPromise, Promise!Spec

(***************************************************************************)
(* Only an answered request has a reply, so a key changes hands before     *)
(* anything is told under it.                                              *)
(***************************************************************************)
RepliedIsAnswered == \A r \in Requests : reply[r] # "none" => pc[r] = "answered"

LEMMA InitTruth == Init => RepliedIsAnswered /\ SuccessIsTrue
BY DEF Init, RepliedIsAnswered, SuccessIsTrue

LEMMA StepTruth ==
  InUow /\ Inv /\ DoneIsCommitted /\ RepliedIsAnswered /\ SuccessIsTrue /\ [Next]_vars
    => RepliedIsAnswered' /\ SuccessIsTrue'
<1> SUFFICES ASSUME InUow, Inv, DoneIsCommitted, RepliedIsAnswered, SuccessIsTrue, [Next]_vars
             PROVE  RepliedIsAnswered' /\ SuccessIsTrue'
  OBVIOUS
<1> USE DEF RepliedIsAnswered, SuccessIsTrue, Step, Answer
<1>0. /\ row \in [Keys -> RowType] /\ key \in [Requests -> Keys]
      /\ pc \in [Requests -> Steps] /\ committed \in [Keys -> SUBSET Requests]
      /\ reply \in [Requests -> Replies]
  BY DEF Inv, TypeOK
<1>1. ASSUME NEW r \in Requests, NEW k \in Keys, Send(r, k)
      PROVE  RepliedIsAnswered' /\ SuccessIsTrue'
  BY <1>0, <1>1 DEF Send
<1>2. ASSUME NEW r \in Requests, Insert(r) \/ EvictStale(r) \/ EvictExpired(r) \/ Fail(r)
      PROVE  RepliedIsAnswered' /\ SuccessIsTrue'
  BY <1>0, <1>2 DEF Insert, EvictStale, EvictExpired, Evict, Fail
<1>3. ASSUME NEW r \in Requests, Look(r)
      PROVE  RepliedIsAnswered' /\ SuccessIsTrue'
  <2> DEFINE old == row[key[r]]
  <2>1. CASE \E to \in Running : Step(r, "look", to) /\ UNCHANGED reply
    BY <1>0, <1>3, <2>1 DEF Look, Running
  <2>2. CASE Answer(r, "look", "conflict")
    BY <1>0, <1>3, <2>2 DEF Look
  <2>3. CASE /\ \E what \in {"replayed", "replayedNull"} : Answer(r, "look", what)
             /\ Exists(key[r]) /\ old.age # "expired" /\ old.done /\ HashOf[old.owner] = HashOf[r]
    <3>1. old.owner \in committed[key[r]]
      BY <1>0, <2>3 DEF DoneIsCommitted
    <3>2. UNCHANGED <<key, committed>>
      BY <1>3 DEF Look
    <3> QED
      BY <1>0, <2>3, <3>1, <3>2
  <2> QED
    BY <1>3, <2>1, <2>2, <2>3 DEF Look, Running
<1>4. ASSUME NEW r \in Requests, Commit(r)
      PROVE  RepliedIsAnswered' /\ SuccessIsTrue'
  <2>1. \A k \in Keys : committed[k] \subseteq committed'[k]
    BY <1>0, <1>4 DEF Commit
  <2>2. UNCHANGED <<key, reply>> /\ pc' = [pc EXCEPT ![r] = "cache"] /\ pc[r] = "handler"
    BY <1>4 DEF Commit
  <2> QED
    BY <1>0, <2>1, <2>2
<1>5. ASSUME NEW r \in Requests, Release(r)
      PROVE  RepliedIsAnswered' /\ SuccessIsTrue'
  BY <1>0, <1>5 DEF Release
<1>6. ASSUME NEW r \in Requests, CacheBody(r) \/ MarkDone(r)
      PROVE  RepliedIsAnswered' /\ SuccessIsTrue'
  <2>1. r \in committed[key[r]] /\ UNCHANGED <<key, committed>>
    BY <1>6 DEF CacheBody, MarkDone, Inv, FinisherCommitted, HasCommitted
  <2> QED
    BY <1>0, <1>6, <2>1 DEF CacheBody, MarkDone
<1>7. ASSUME Crash
      PROVE  RepliedIsAnswered' /\ SuccessIsTrue'
  BY <1>0, <1>7 DEF Crash, Running
<1>8. ASSUME NEW k \in Keys, LeaseElapses(k)
      PROVE  RepliedIsAnswered' /\ SuccessIsTrue'
  BY <1>8 DEF LeaseElapses
<1>9. ASSUME NEW k \in Keys, TtlElapses(k)
      PROVE  RepliedIsAnswered' /\ SuccessIsTrue'
  <2>1. \A r \in Requests : key[r] # k => /\ reply'[r] = reply[r] /\ pc'[r] = pc[r]
                                         /\ committed'[key[r]] = committed[key[r]]
    BY <1>0, <1>9 DEF TtlElapses
  <2>2. \A r \in Requests : key[r] = k => reply'[r] = "none"
    BY <1>0, <1>9 DEF TtlElapses
  <2>3. key' = key
    BY <1>9 DEF TtlElapses
  <2> QED
    BY <2>1, <2>2, <2>3
<1>10. CASE UNCHANGED vars
  BY <1>10 DEF vars
<1> QED
  BY <1>1, <1>2, <1>3, <1>4, <1>5, <1>6, <1>7, <1>8, <1>9, <1>10 DEF Next, Serve

(***************************************************************************)
(* For every set of requests and keys a client that is told its work was   *)
(* done was told the truth, and of the work it had asked for.              *)
(***************************************************************************)
THEOREM Truthful ==
  ASSUME InUow
  PROVE  Spec => []SuccessIsTrue
<1>1. Inv /\ [Next]_vars => Inv'
  BY StepInv
<1>2. Inv /\ DoneIsCommitted /\ [Next]_vars => DoneIsCommitted'
  BY StepDone
<1>3. Inv /\ DoneIsCommitted /\ RepliedIsAnswered /\ SuccessIsTrue /\ [Next]_vars
        => RepliedIsAnswered' /\ SuccessIsTrue'
  BY StepTruth
<1> QED
  BY <1>1, <1>2, <1>3, InitInv, InitDone, InitTruth, PTL DEF Spec

-----------------------------------------------------------------------------
(***************************************************************************)
(* Theorems about accounts and transfers, for every set of accounts and    *)
(* handlers and every bound: a transfer is in the books whole or not at    *)
(* all (TransfersWhole), and an operation on an account that is gone came  *)
(* there past the count of softDelete (OrphansWereRaced).                  *)
(*                                                                         *)
(* Neither is inductive.  A handler that moves an operation to another     *)
(* account read earlier that it is no leg of a transfer, and a handler     *)
(* that deletes an account counted its operations earlier.  IInv says,     *)
(* beside the types (Typed):                                               *)
(*   - Hands: what is being moved exists and is no leg;                    *)
(*   - InStep: a leg names its transfer, lives exactly while it does, and  *)
(*     is one of the operations the transfer is made of;                   *)
(*   - Complete: each of these is there.                                   *)
(* A leg never leaves its transfer and no operation joins one later, so    *)
(* InStep and Complete follow for every step from what it does to the rows *)
(* outside transfers (Loose) but for the two that make and delete one.     *)
(***************************************************************************)
Parts == {"out", "in", "fee", "entry"}
TxType == [part : Parts, account : AccountIds, group : Nat, live : BOOLEAN]
TransferType == [from : AccountIds, to : AccountIds, fee : BOOLEAN, live : BOOLEAN]
JobType ==
  {Idle} \cup [at : {"remove"}, a : AccountIds, seen : {{}}]
         \cup [at : {"enter"}, a : AccountIds] \cup [at : {"move"}, n : Nat, a : AccountIds]

\* An account that is being deleted had no operation when it was counted.
Typed ==
  /\ account \in [AccountIds -> {"open", "archived", "deleted"}]
  /\ txs \in Seq(TxType)
  /\ transfers \in Seq(TransferType)
  /\ job \in [Handlers -> JobType]
  /\ raced \subseteq AccountIds

Hands == \A h \in Handlers : At(h, "move") => job[h].n \in DOMAIN txs /\ GenericEditable(job[h].n)

InStep ==
  \A n \in DOMAIN txs : ~GenericEditable(n) =>
    /\ txs[n].group \in DOMAIN transfers
    /\ txs[n].live <=> transfers[txs[n].group].live
    /\ <<txs[n].part, txs[n].account>> \in Shape(txs[n].group)

Complete ==
  \A g \in DOMAIN transfers : \A s \in Shape(g) : \E n \in OfTransfer(g) : <<txs[n].part, txs[n].account>> = s

IInv == Typed /\ Hands /\ InStep /\ Complete /\ OrphansWereRaced

-----------------------------------------------------------------------------
LEMMA Row == ASSUME Typed, NEW n \in DOMAIN txs PROVE txs[n] \in TxType
  BY DEF Typed

LEMMA JobTypes ==
  /\ Idle \in JobType /\ Idle.at = "idle"
  /\ \A a \in AccountIds : [at |-> "remove", a |-> a, seen |-> {}] \in JobType /\ [at |-> "enter", a |-> a] \in JobType
  /\ \A a \in AccountIds, n \in Nat : [at |-> "move", n |-> n, a |-> a] \in JobType
  BY DEF JobType, Idle

LEMMA JobFields ==
  ASSUME NEW j \in JobType
  PROVE  /\ j.at = "remove" => j.a \in AccountIds /\ j.seen = {}
         /\ j.at = "enter" => j.a \in AccountIds
         /\ j.at = "move" => j.a \in AccountIds /\ j.n \in Nat
  BY DEF JobType, Idle

\* A step that leaves the transfers and their legs alone.
Loose ==
  /\ transfers' = transfers
  /\ DOMAIN txs \subseteq DOMAIN txs'
  /\ \A n \in DOMAIN txs : IF GenericEditable(n) THEN txs'[n].group = 0 ELSE txs'[n] = txs[n]
  /\ \A n \in DOMAIN txs' \ DOMAIN txs : txs'[n].group = 0

LEMMA LooseKeeps ==
  ASSUME Typed, InStep, Complete, Loose
  PROVE  InStep' /\ Complete' /\ \A n \in DOMAIN txs : GenericEditable(n) => GenericEditable(n)'
<1>1. \A g : Shape(g)' = Shape(g)
  BY DEF Loose, Shape
<1>2. InStep'
  BY <1>1 DEF InStep, Loose, GenericEditable
<1>3. ASSUME NEW g \in DOMAIN transfers', NEW s \in Shape(g)'
      PROVE  \E n \in OfTransfer(g)' : <<txs'[n].part, txs'[n].account>> = s
  <2>1. PICK n \in OfTransfer(g) : <<txs[n].part, txs[n].account>> = s
    BY <1>1, <1>3 DEF Complete, Loose
  <2>2. n \in DOMAIN txs /\ txs[n].group = g
    BY <2>1 DEF OfTransfer
  <2>3. g # 0
    BY <1>3 DEF Loose, Typed
  <2>4. n \in DOMAIN txs' /\ txs'[n] = txs[n]
    BY <2>2, <2>3 DEF Loose, GenericEditable
  <2> QED
    BY <2>1, <2>2, <2>4 DEF OfTransfer
<1>4. Complete'
  BY <1>3 DEF Complete
<1> QED
  BY <1>2, <1>4 DEF Loose, GenericEditable

\* A handler that reads, and one that is done.
LEMMA Reads ==
  ASSUME IInv, NEW h \in Handlers, NEW j \in JobType, job' = [job EXCEPT ![h] = j],
         j.at = "move" => j.n \in DOMAIN txs /\ GenericEditable(j.n), UNCHANGED <<account, txs, transfers, raced>>
  PROVE  IInv'
<1>1. Typed'
  BY DEF IInv, Typed
<1>2. Hands'
  BY DEF IInv, Typed, Hands, At, GenericEditable
<1>3. Loose
  BY DEF Loose, GenericEditable
<1>4. InStep' /\ Complete'
  BY <1>3, LooseKeeps DEF IInv
<1>5. OrphansWereRaced'
  BY DEF IInv, OrphansWereRaced, LiveTxs, Undeleted
<1> QED
  BY <1>1, <1>2, <1>4, <1>5 DEF IInv

LEMMA Finished ==
  ASSUME Typed, Hands, NEW h \in Handlers, Finish(h),
         DOMAIN txs \subseteq DOMAIN txs', \A n \in DOMAIN txs : GenericEditable(n) => GenericEditable(n)'
  PROVE  job' \in [Handlers -> JobType] /\ Hands'
<1>1. \A i \in Handlers : job'[i] = IF i = h THEN Idle ELSE job[i]
  BY DEF Typed, Finish
<1>2. job' \in [Handlers -> JobType]
  BY JobTypes DEF Typed, Finish
<1> QED
  BY <1>1, <1>2, JobTypes DEF Hands, At

-----------------------------------------------------------------------------
LEMMA BeginRemoveKeeps == ASSUME IInv, NEW h \in Handlers, NEW a \in AccountIds, BeginRemove(h, a) PROVE IInv'
<1> DEFINE j == [at |-> "remove", a |-> a, seen |-> {}]
<1>1. j \in JobType /\ j.at # "move"
  BY JobTypes
<1>2. job' = [job EXCEPT ![h] = j] /\ UNCHANGED <<account, txs, transfers, raced>>
  BY DEF BeginRemove
<1> HIDE DEF j
<1> QED
  BY <1>1, <1>2, Reads

LEMMA BeginEntryKeeps == ASSUME IInv, NEW h \in Handlers, NEW a \in AccountIds, BeginEntry(h, a) PROVE IInv'
<1> DEFINE j == [at |-> "enter", a |-> a]
<1>1. j \in JobType /\ j.at # "move"
  BY JobTypes
<1>2. job' = [job EXCEPT ![h] = j] /\ UNCHANGED <<account, txs, transfers, raced>>
  BY DEF BeginEntry
<1> HIDE DEF j
<1> QED
  BY <1>1, <1>2, Reads

LEMMA BeginMoveKeeps ==
  ASSUME IInv, NEW h \in Handlers, NEW n \in DOMAIN txs, NEW a \in AccountIds, BeginMove(h, n, a) PROVE IInv'
<1> DEFINE j == [at |-> "move", n |-> n, a |-> a]
<1>1. n \in Nat
  BY DEF IInv, Typed
<1>2. j \in JobType /\ j.n = n
  BY <1>1, JobTypes
<1>3. job' = [job EXCEPT ![h] = j] /\ GenericEditable(n) /\ UNCHANGED <<account, txs, transfers, raced>>
  BY DEF BeginMove
<1> HIDE DEF j
<1> QED
  BY <1>2, <1>3, Reads

LEMMA RemoveKeeps == ASSUME IInv, NEW h \in Handlers, Remove(h) PROVE IInv'
<1> DEFINE a == job[h].a
<1>1. a \in AccountIds /\ job[h].seen = {}
  BY JobFields DEF IInv, Typed, Remove, At
<1>2. Loose /\ UNCHANGED <<txs, transfers>>
  BY DEF Remove, Loose, GenericEditable
<1>3. InStep' /\ Complete' /\ \A n \in DOMAIN txs : GenericEditable(n) => GenericEditable(n)'
  BY <1>2, LooseKeeps DEF IInv
<1>4. job' \in [Handlers -> JobType] /\ Hands'
  BY <1>2, <1>3, Finished DEF IInv, Remove
<1>5. Typed'
  BY <1>1, <1>2, <1>4 DEF IInv, Typed, Remove
<1>6. OrphansWereRaced'
  <2>1. raced \subseteq raced' /\ (EntriesOf(a) # {} => a \in raced')
    BY <1>1 DEF Remove
  <2>2. \A b \in AccountIds : b # a => account'[b] = account[b]
    BY DEF IInv, Typed, Remove
  <2>3. ASSUME NEW n \in LiveTxs' PROVE account'[txs'[n].account] # "deleted" \/ txs'[n].account \in raced'
    <3>1. n \in LiveTxs /\ txs'[n] = txs[n] /\ txs[n].account \in AccountIds
      BY <1>2, <2>3, Row DEF LiveTxs, IInv, TxType
    <3>2. CASE txs[n].account = a
      BY <2>1, <3>1, <3>2 DEF EntriesOf
    <3>3. CASE txs[n].account # a
      BY <2>1, <2>2, <3>1, <3>3 DEF IInv, OrphansWereRaced, Undeleted
    <3> QED
      BY <3>2, <3>3
  <2> QED
    BY <2>3 DEF OrphansWereRaced, Undeleted
<1> QED
  BY <1>3, <1>4, <1>5, <1>6 DEF IInv

LEMMA SetArchivedKeeps == ASSUME IInv, NEW a \in AccountIds, SetArchived(a) PROVE IInv'
<1>1. Loose
  BY DEF SetArchived, Loose, GenericEditable
<1>2. InStep' /\ Complete'
  BY <1>1, LooseKeeps DEF IInv
<1>3. Typed' /\ Hands'
  BY DEF IInv, Typed, Hands, SetArchived, At, GenericEditable
<1>4. \A b \in AccountIds : Undeleted(b) => Undeleted(b)'
  BY DEF IInv, Typed, SetArchived, Undeleted
<1>5. OrphansWereRaced'
  BY <1>4, Row DEF IInv, OrphansWereRaced, LiveTxs, SetArchived, TxType
<1> QED
  BY <1>2, <1>3, <1>5 DEF IInv

LEMMA EnterKeeps == ASSUME IInv, NEW h \in Handlers, Enter(h) PROVE IInv'
<1> DEFINE a == job[h].a
           t == Entry("entry", a, 0)
<1>1. a \in AccountIds
  BY JobFields DEF IInv, Typed, Enter, At
<1>2. t \in TxType /\ t.group = 0 /\ t.account = a
  BY <1>1 DEF Entry, TxType, Parts
<1>3. txs' = Append(txs, t) /\ UNCHANGED <<account, transfers>> /\ raced' = Late(a) /\ Finish(h)
  BY DEF Enter
<1> HIDE DEF a, t
<1>4. txs' \in Seq(TxType)
  BY <1>2, <1>3 DEF IInv, Typed
<1>5. /\ DOMAIN txs' = DOMAIN txs \cup {Len(txs) + 1}
      /\ txs'[Len(txs) + 1] = t
      /\ \A n \in DOMAIN txs : txs'[n] = txs[n]
  BY <1>2, <1>3 DEF IInv, Typed
<1>6. Loose
  BY <1>2, <1>3, <1>5 DEF Loose, GenericEditable
<1>7. InStep' /\ Complete' /\ \A n \in DOMAIN txs : GenericEditable(n) => GenericEditable(n)'
  BY <1>6, LooseKeeps DEF IInv
<1>8. job' \in [Handlers -> JobType] /\ Hands'
  BY <1>3, <1>5, <1>7, Finished DEF IInv
<1>9. Typed'
  BY <1>1, <1>3, <1>4, <1>8 DEF IInv, Typed, Late
<1>10. OrphansWereRaced'
  BY <1>2, <1>3, <1>5 DEF IInv, OrphansWereRaced, LiveTxs, Late, Undeleted
<1> QED
  BY <1>7, <1>8, <1>9, <1>10 DEF IInv

LEMMA MoveKeeps == ASSUME IInv, NEW h \in Handlers, Move(h) PROVE IInv'
<1> DEFINE n == job[h].n
           a == job[h].a
<1>1. a \in AccountIds /\ n \in DOMAIN txs /\ GenericEditable(n)
  BY JobFields DEF IInv, Typed, Hands, Move, At
<1>2. /\ txs' = [txs EXCEPT ![n].account = a] /\ UNCHANGED <<account, transfers>> /\ Finish(h)
      /\ raced' = IF txs[n].live THEN Late(a) ELSE raced
  BY DEF Move
<1> HIDE DEF a, n
<1>3. txs[n] \in TxType
  BY <1>1, Row DEF IInv
<1>4. txs'[n] \in TxType /\ txs'[n].group = txs[n].group /\ txs'[n].account = a /\ (txs'[n].live <=> txs[n].live)
  BY <1>1, <1>2, <1>3 DEF TxType
<1>5. DOMAIN txs' = DOMAIN txs /\ \A m \in DOMAIN txs \ {n} : txs'[m] = txs[m]
  BY <1>2
<1>6. txs' \in Seq(TxType)
  BY <1>1, <1>2, <1>4, <1>5 DEF IInv, Typed
<1>7. Loose
  BY <1>1, <1>2, <1>4, <1>5 DEF Loose, GenericEditable
<1>8. InStep' /\ Complete' /\ \A m \in DOMAIN txs : GenericEditable(m) => GenericEditable(m)'
  BY <1>7, LooseKeeps DEF IInv
<1>9. job' \in [Handlers -> JobType] /\ Hands'
  BY <1>2, <1>5, <1>8, Finished DEF IInv
<1>10. Typed'
  BY <1>1, <1>2, <1>6, <1>9 DEF IInv, Typed, Late
<1>11. OrphansWereRaced'
  BY <1>1, <1>2, <1>4, <1>5 DEF IInv, OrphansWereRaced, LiveTxs, Late, Undeleted
<1> QED
  BY <1>8, <1>9, <1>10, <1>11 DEF IInv

LEMMA DeleteEntryKeeps == ASSUME IInv, NEW n \in DOMAIN txs, DeleteEntry(n) PROVE IInv'
<1>1. GenericEditable(n) /\ txs' = [txs EXCEPT ![n].live = FALSE] /\ UNCHANGED <<account, transfers, job, raced>>
  BY DEF DeleteEntry
<1>2. txs[n] \in TxType
  BY Row DEF IInv
<1>3. txs'[n] \in TxType /\ txs'[n].group = txs[n].group /\ ~txs'[n].live
  BY <1>1, <1>2 DEF TxType
<1>4. DOMAIN txs' = DOMAIN txs /\ \A m \in DOMAIN txs \ {n} : txs'[m] = txs[m]
  BY <1>1
<1>5. txs' \in Seq(TxType)
  BY <1>1, <1>3, <1>4 DEF IInv, Typed
<1>6. Loose
  BY <1>1, <1>3, <1>4 DEF Loose, GenericEditable
<1>7. InStep' /\ Complete' /\ \A m \in DOMAIN txs : GenericEditable(m) => GenericEditable(m)'
  BY <1>6, LooseKeeps DEF IInv
<1>8. Typed' /\ Hands'
  BY <1>1, <1>4, <1>5, <1>7 DEF IInv, Typed, Hands, At
<1>9. OrphansWereRaced'
  BY <1>1, <1>3, <1>4 DEF IInv, OrphansWereRaced, LiveTxs, Undeleted
<1> QED
  BY <1>7, <1>8, <1>9 DEF IInv

LEMMA DeleteTransferKeeps == ASSUME IInv, NEW g \in DOMAIN transfers, DeleteTransfer(g) PROVE IInv'
<1>1. /\ transfers' = [transfers EXCEPT ![g].live = FALSE] /\ UNCHANGED <<account, job, raced>>
      /\ txs' = [n \in DOMAIN txs |-> IF txs[n].group = g THEN [txs[n] EXCEPT !.live = FALSE] ELSE txs[n]]
  BY DEF DeleteTransfer, OfTransfer
<1>2. g # 0 /\ transfers[g] \in TransferType
  BY DEF IInv, Typed
<1>3. /\ DOMAIN transfers' = DOMAIN transfers /\ \A k \in DOMAIN transfers \ {g} : transfers'[k] = transfers[k]
      /\ transfers'[g] \in TransferType /\ ~transfers'[g].live
      /\ transfers'[g].from = transfers[g].from /\ transfers'[g].to = transfers[g].to /\ (transfers'[g].fee <=> transfers[g].fee)
  BY <1>1, <1>2 DEF TransferType
<1>4. transfers' \in Seq(TransferType)
  BY <1>1, <1>3 DEF IInv, Typed
<1>5. \A k \in DOMAIN transfers : Shape(k)' = Shape(k)
  BY <1>3 DEF Shape
<1>6. \A t \in TxType : LET u == [t EXCEPT !.live = FALSE]
                         IN u \in TxType /\ u.part = t.part /\ u.account = t.account /\ u.group = t.group /\ ~u.live
  BY DEF TxType
<1>7. DOMAIN txs' = DOMAIN txs
  BY <1>1
<1>8. ASSUME NEW n \in DOMAIN txs
      PROVE  /\ txs'[n] \in TxType /\ txs'[n].part = txs[n].part /\ txs'[n].account = txs[n].account
             /\ txs'[n].group = txs[n].group /\ (txs'[n].live <=> (txs[n].live /\ txs[n].group # g))
  <2>1. txs[n] \in TxType
    BY Row DEF IInv
  <2>2. CASE txs[n].group = g
    BY <1>1, <1>6, <2>1, <2>2
  <2>3. CASE txs[n].group # g
    BY <1>1, <2>1, <2>3
  <2> QED
    BY <2>2, <2>3
<1>9. txs' \in Seq(TxType)
  BY <1>1, <1>7, <1>8 DEF IInv, Typed
<1>10. Typed' /\ Hands'
  BY <1>1, <1>4, <1>7, <1>8, <1>9 DEF IInv, Typed, Hands, At, GenericEditable
<1>11. ASSUME NEW n \in DOMAIN txs', txs'[n].group # 0
       PROVE  /\ txs'[n].group \in DOMAIN transfers'
              /\ txs'[n].live <=> transfers'[txs'[n].group].live
              /\ <<txs'[n].part, txs'[n].account>> \in Shape(txs[n].group)'
  <2>1. /\ txs[n].group \in DOMAIN transfers
        /\ txs[n].live <=> transfers[txs[n].group].live
        /\ <<txs[n].part, txs[n].account>> \in Shape(txs[n].group)
    BY <1>7, <1>8, <1>11 DEF IInv, InStep, GenericEditable
  <2>2. <<txs'[n].part, txs'[n].account>> \in Shape(txs[n].group)'
    BY <1>5, <1>7, <1>8, <1>11, <2>1
  <2> QED
    BY <1>3, <1>7, <1>8, <1>11, <2>1, <2>2
<1>12. InStep'
  <2>1. \A n \in DOMAIN txs' : txs'[n].group = txs[n].group
    BY <1>7, <1>8
  <2> QED
    BY <1>11, <2>1 DEF InStep, GenericEditable, Shape
<1>13. Complete'
  <2>1. ASSUME NEW k \in DOMAIN transfers, NEW s \in Shape(k)
        PROVE  \E n \in OfTransfer(k)' : <<txs'[n].part, txs'[n].account>> = s
    <3>1. PICK n \in OfTransfer(k) : <<txs[n].part, txs[n].account>> = s
      BY DEF IInv, Complete
    <3> QED
      BY <1>7, <1>8, <3>1 DEF OfTransfer
  <2> QED
    BY <1>3, <1>5, <2>1 DEF Complete
<1>14. OrphansWereRaced'
  BY <1>1, <1>7, <1>8 DEF IInv, OrphansWereRaced, LiveTxs, Undeleted
<1> QED
  BY <1>10, <1>12, <1>13, <1>14 DEF IInv

LEMMA Triple == ASSUME NEW S, NEW x \in S, NEW y \in S, NEW z \in S 
  PROVE LET s == Append(<<x, y>>, z)
        IN s \in Seq(S) /\ DOMAIN s = 1..Len(s) /\ Len(s) = 3 /\ s[1] = x /\ s[2] = y /\ s[3] = z
<1> DEFINE p == <<x, y>>
<1>1. p \in Seq(S) /\ Len(p) = 2 /\ p[1] = x /\ p[2] = y
  OBVIOUS
<1> HIDE DEF p
<1> QED
  BY <1>1

\* u is the sequence s with t behind it.
Prolongs(u, s, t) ==
  /\ DOMAIN s \subseteq DOMAIN u /\ \A n \in DOMAIN s : u[n] = s[n]
  /\ \A i \in DOMAIN t : Len(s) + i \in DOMAIN u /\ u[Len(s) + i] = t[i]
  /\ \A n \in DOMAIN u \ DOMAIN s : \E i \in DOMAIN t : n = Len(s) + i

LEMMA Concat ==
  ASSUME NEW S, NEW s \in Seq(S), NEW t \in Seq(S) PROVE s \o t \in Seq(S) /\ Prolongs(s \o t, s, t)
<1>1. s \o t \in Seq(S) /\ DOMAIN (s \o t) = 1..(Len(s) + Len(t)) /\ DOMAIN s = 1..Len(s) /\ DOMAIN t = 1..Len(t)
  OBVIOUS
<1>2. \A n \in DOMAIN (s \o t) \ DOMAIN s : n - Len(s) \in DOMAIN t /\ n = Len(s) + (n - Len(s))
  BY <1>1
<1> QED
  BY <1>1, <1>2 DEF Prolongs

\* The operations of a new transfer, behind those there are.
LEMMA CreateTransferKeeps ==
  ASSUME IInv, NEW a \in AccountIds, NEW b \in AccountIds, NEW fee \in BOOLEAN, CreateTransfer(a, b, fee) PROVE IInv'
<1> PICK g \in Nat : g = Len(transfers) + 1
  BY DEF IInv, Typed
<1> DEFINE t == [from |-> a, to |-> b, fee |-> fee, live |-> TRUE]
           legs == <<Entry("out", a, g), Entry("in", b, g)>>
           made == IF fee THEN Append(legs, Entry("fee", a, g)) ELSE legs
<1>1. /\ account[a] = "open" /\ account[b] = "open"
      /\ transfers' = Append(transfers, t) /\ txs' = txs \o made /\ UNCHANGED <<account, job, raced>>
  BY DEF CreateTransfer
<1>2. /\ t \in TransferType /\ t.from = a /\ t.to = b /\ (t.fee <=> fee) /\ t.live
  BY DEF TransferType
<1>3. g # 0
  BY DEF IInv, Typed
<1>4. /\ made \in Seq(TxType)
      /\ 1 \in DOMAIN made /\ made[1].part = "out" /\ made[1].account = a
      /\ 2 \in DOMAIN made /\ made[2].part = "in" /\ made[2].account = b
      /\ fee => 3 \in DOMAIN made /\ made[3].part = "fee" /\ made[3].account = a
      /\ DOMAIN made = 1..Len(made) /\ Len(made) = IF fee THEN 3 ELSE 2
      /\ \A i \in DOMAIN made : made[i].group = g /\ made[i].live
  <2>1. /\ Entry("out", a, g) \in TxType /\ Entry("in", b, g) \in TxType /\ Entry("fee", a, g) \in TxType
        /\ \A part, c : LET e == Entry(part, c, g) IN e.part = part /\ e.account = c /\ e.group = g /\ e.live
    BY <1>3 DEF Entry, TxType, Parts
  <2>2. CASE fee
    <3>1. /\ made \in Seq(TxType) /\ DOMAIN made = 1..Len(made) /\ Len(made) = 3
          /\ made[1] = Entry("out", a, g) /\ made[2] = Entry("in", b, g) /\ made[3] = Entry("fee", a, g)
      BY <2>1, <2>2, Triple
    <3> HIDE DEF made
    <3> QED
      BY <2>1, <2>2, <3>1
  <2>3. CASE ~fee
    <3>1. made = <<Entry("out", a, g), Entry("in", b, g)>>
      BY <2>3
    <3> QED
      BY <2>1, <2>3, <3>1
  <2> QED
    BY <2>2, <2>3
<1> HIDE DEF made, t
<1>5. txs' \in Seq(TxType) /\ transfers' \in Seq(TransferType)
  BY <1>1, <1>2, <1>4 DEF IInv, Typed
<1>6. /\ DOMAIN txs \subseteq DOMAIN txs' /\ \A n \in DOMAIN txs : txs'[n] = txs[n]
      /\ \A i \in DOMAIN made : Len(txs) + i \in DOMAIN txs' /\ txs'[Len(txs) + i] = made[i]
      /\ \A n \in DOMAIN txs' \ DOMAIN txs : \E i \in DOMAIN made : n = Len(txs) + i
  <2>1. txs \in Seq(TxType) /\ made \in Seq(TxType) /\ txs' = txs \o made
    BY <1>1, <1>4 DEF IInv, Typed
  <2>2. Prolongs(txs', txs, made)
    BY <2>1, Concat, Zenon
  <2> QED
    BY <2>2 DEF Prolongs
<1>7. /\ DOMAIN transfers' = DOMAIN transfers \cup {g} /\ g \notin DOMAIN transfers
      /\ transfers'[g] = t /\ \A k \in DOMAIN transfers : transfers'[k] = transfers[k]
  BY <1>1 DEF IInv, Typed
<1>8. /\ \A k \in DOMAIN transfers : Shape(k)' = Shape(k)
      /\ Shape(g)' = {<<"out", a>>, <<"in", b>>} \cup (IF fee THEN {<<"fee", a>>} ELSE {})
  BY <1>2, <1>7 DEF Shape
<1>9. \A n \in DOMAIN txs' \ DOMAIN txs : /\ txs'[n].group = g /\ txs'[n].live /\ txs'[n].account \in {a, b}
                                          /\ <<txs'[n].part, txs'[n].account>> \in Shape(g)'
  <2>1. \A i \in DOMAIN made : i = 1 \/ i = 2 \/ (fee /\ i = 3)
    BY <1>4
  <2>2. \A i \in DOMAIN made : <<made[i].part, made[i].account>> \in Shape(g)' /\ made[i].account \in {a, b}
    BY <1>4, <1>8, <2>1
  <2> QED
    BY <1>4, <1>6, <2>2
<1>10. Typed' /\ Hands'
  BY <1>1, <1>5, <1>6 DEF IInv, Typed, Hands, At, GenericEditable
<1>11. InStep'
  <2>1. ASSUME NEW n \in DOMAIN txs', NEW k, k = txs'[n].group, k # 0
        PROVE  k \in DOMAIN transfers' /\ (txs'[n].live <=> transfers'[k].live) /\ <<txs'[n].part, txs'[n].account>> \in Shape(k)'
    <3>1. CASE n \in DOMAIN txs
      <4>1. txs'[n] = txs[n] /\ txs[n].group = k
        BY <1>6, <2>1, <3>1
      <4>2. k \in DOMAIN transfers /\ (txs[n].live <=> transfers[k].live) /\ <<txs[n].part, txs[n].account>> \in Shape(k)
        BY <2>1, <3>1, <4>1 DEF IInv, InStep, GenericEditable
      <4> QED
        BY <1>7, <1>8, <4>1, <4>2
    <3>2. CASE n \notin DOMAIN txs
      BY <1>2, <1>7, <1>9, <2>1, <3>2
    <3> QED
      BY <3>1, <3>2
  <2> QED
    BY <2>1 DEF InStep, GenericEditable, Shape
<1>12. Complete'
  <2>1. ASSUME NEW k \in DOMAIN transfers, NEW s \in Shape(k)
        PROVE  \E n \in OfTransfer(k)' : <<txs'[n].part, txs'[n].account>> = s
    <3>1. PICK n \in OfTransfer(k) : <<txs[n].part, txs[n].account>> = s
      BY DEF IInv, Complete
    <3> QED
      BY <1>6, <3>1 DEF OfTransfer
  <2>2. ASSUME NEW s \in Shape(g)'
        PROVE  \E n \in OfTransfer(g)' : <<txs'[n].part, txs'[n].account>> = s
    <3>1. PICK i \in DOMAIN made : <<made[i].part, made[i].account>> = s
      BY <1>4, <1>8, <2>2
    <3>2. Len(txs) + i \in OfTransfer(g)'
      BY <1>4, <1>6 DEF OfTransfer
    <3> QED
      BY <1>6, <3>1, <3>2
  <2> QED
    BY <1>7, <1>8, <2>1, <2>2 DEF Complete
<1>13. OrphansWereRaced'
  <2>1. \A n \in DOMAIN txs' \ DOMAIN txs : account'[txs'[n].account] # "deleted"
    BY <1>1, <1>9
  <2> QED
    BY <1>1, <1>6, <2>1 DEF IInv, OrphansWereRaced, LiveTxs, Undeleted
<1> QED
  BY <1>10, <1>11, <1>12, <1>13 DEF IInv

-----------------------------------------------------------------------------
LEMMA InitIInv == AccountsInit => IInv
<1> SUFFICES ASSUME AccountsInit PROVE IInv
  OBVIOUS
<1> QED
  BY JobTypes DEF AccountsInit, IInv, Typed, Hands, InStep, Complete, OrphansWereRaced, At, LiveTxs

LEMMA StepIInv == IInv /\ [AccountsNext]_accountsVars => IInv'
<1> SUFFICES ASSUME IInv, [AccountsNext]_accountsVars PROVE IInv'
  OBVIOUS
<1>1. ASSUME NEW h \in Handlers, NEW a \in AccountIds, BeginRemove(h, a) \/ BeginEntry(h, a) PROVE IInv'
  BY <1>1, BeginRemoveKeeps, BeginEntryKeeps
<1>2. ASSUME NEW h \in Handlers, NEW n \in DOMAIN txs, NEW a \in AccountIds, BeginMove(h, n, a) PROVE IInv'
  BY <1>2, BeginMoveKeeps
<1>3. ASSUME NEW h \in Handlers, Remove(h) \/ Enter(h) \/ Move(h) PROVE IInv'
  BY <1>3, RemoveKeeps, EnterKeeps, MoveKeeps
<1>4. ASSUME NEW a \in AccountIds, SetArchived(a) PROVE IInv'
  BY <1>4, SetArchivedKeeps
<1>5. ASSUME NEW a \in AccountIds, NEW b \in AccountIds, NEW fee \in BOOLEAN, CreateTransfer(a, b, fee) PROVE IInv'
  BY <1>5, CreateTransferKeeps
<1>6. ASSUME NEW g \in DOMAIN transfers, DeleteTransfer(g) PROVE IInv'
  BY <1>6, DeleteTransferKeeps
<1>7. ASSUME NEW n \in DOMAIN txs, DeleteEntry(n) PROVE IInv'
  BY <1>7, DeleteEntryKeeps
<1>8. CASE UNCHANGED accountsVars
  BY <1>8 DEF accountsVars, IInv, Typed, Hands, InStep, Complete, OrphansWereRaced, At, GenericEditable, OfTransfer, Shape, LiveTxs, Undeleted
<1> QED
  BY <1>1, <1>2, <1>3, <1>4, <1>5, <1>6, <1>7, <1>8 DEF AccountsNext

LEMMA IInvAlways == AccountsSpec => []IInv
  BY InitIInv, StepIInv, PTL DEF AccountsSpec

\* A transfer is in the books whole or not at all: its legs and its fee live
\* exactly while it does, on the accounts it names, whatever the general
\* list of operations does beside it.
THEOREM Whole == AccountsSpec => []TransfersWhole
<1>1. ASSUME IInv, NEW g \in DOMAIN transfers
      PROVE  {<<txs[n].part, txs[n].account>> : n \in {n \in OfTransfer(g) : txs[n].live}}
               = IF transfers[g].live THEN Shape(g) ELSE {}
  <2>1. \A n \in OfTransfer(g) : /\ txs[n].live <=> transfers[g].live
                                 /\ <<txs[n].part, txs[n].account>> \in Shape(g)
    BY <1>1 DEF IInv, Typed, InStep, OfTransfer, GenericEditable
  <2>2. \A s \in Shape(g) : \E n \in OfTransfer(g) : <<txs[n].part, txs[n].account>> = s
    BY <1>1 DEF IInv, Complete
  <2> QED
    BY <2>1, <2>2
<1>2. IInv => TransfersWhole
  BY <1>1 DEF TransfersWhole
<1> QED
  BY <1>2, IInvAlways, PTL

\* An operation in the books is on an account that exists, but for those that
\* came after softDelete had counted the operations of the account.
THEOREM OrphansRaced == AccountsSpec => []OrphansWereRaced
<1>1. IInv => OrphansWereRaced
  BY DEF IInv
<1> QED
  BY <1>1, IInvAlways, PTL
=============================================================================
