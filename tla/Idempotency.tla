---------------------------- MODULE Idempotency ----------------------------
(***************************************************************************)
(* IdempotencyInterceptor with UnitOfWork and TransactionalContext: HTTP   *)
(* requests that carry an Idempotency-Key, one action per statement they   *)
(* send to the database.  A mutating handler either runs its domain work   *)
(* in uow.run, whose transaction also sets completedAt (the commit hook),  *)
(* or writes directly (TransactionService.create): the constant InUow says *)
(* which.                                                                  *)
(*                                                                         *)
(* Time is two thresholds of the reservation row: the lease of 10 minutes  *)
(* and the TTL of 24 hours.  The lease runs out only on a request that is  *)
(* no longer running and the TTL only when none is: a transaction is cut   *)
(* off after 15 seconds, "orders of magnitude" earlier.                    *)
(***************************************************************************)
EXTENDS Integers, FiniteSets

CONSTANTS Requests,     \* HTTP requests
          Keys,         \* values of the Idempotency-Key header
          HashOf,       \* the request hash: method, URL and body
          InUow,        \* does the handler run its domain work in uow.run
          NoOwner       \* the owner of a row that does not exist

ASSUME IdempotencyAssumption == InUow \in BOOLEAN /\ NoOwner \notin Requests

VARIABLES row,          \* the IdempotencyKey table
          pc, key,      \* of every request: its next statement and its key
          reply,        \* what the client got
          committed     \* by key: the requests whose domain work was committed

vars == <<row, pc, key, reply, committed>>

\* A row belongs to the request that inserted it and carries that request's hash.
NoRow == [owner |-> NoOwner, done |-> FALSE, body |-> "null", age |-> "fresh"]
Reserved(r) == [owner |-> r, done |-> FALSE, body |-> "null", age |-> "fresh"]
Exists(k) == row[k].owner # NoOwner

Running == {"insert", "look", "evictExpired", "evictStale", "handler", "cache", "mark", "release"}
Steps == Running \cup {"idle", "answered", "crashed"}
Replies == {"none", "result", "replayed", "replayedNull", "conflict", "error"}

Init ==
  /\ row = [k \in Keys |-> NoRow]
  /\ pc = [r \in Requests |-> "idle"]
  /\ key \in [Requests -> Keys]
  /\ reply = [r \in Requests |-> "none"]
  /\ committed = [k \in Keys |-> {}]

Step(r, from, to) == pc[r] = from /\ pc' = [pc EXCEPT ![r] = to]
Answer(r, from, what) == Step(r, from, "answered") /\ reply' = [reply EXCEPT ![r] = what]

\* A client sends a request, under any key: a first try or a retry.
Send(r, k) ==
  /\ Step(r, "idle", "insert")
  /\ key' = [key EXCEPT ![r] = k]
  /\ UNCHANGED <<row, reply, committed>>

(***************************************************************************)
(* tryReserve                                                              *)
(***************************************************************************)

\* INSERT: the primary key lets one request through.
Insert(r) ==
  /\ IF Exists(key[r])
     THEN Step(r, "insert", "look") /\ UNCHANGED row
     ELSE Step(r, "insert", "handler") /\ row' = [row EXCEPT ![key[r]] = Reserved(r)]
  /\ UNCHANGED <<key, reply, committed>>

\* A fault for mutation: the replay given to a different request.
LookIgnoringHash(r) ==
  LET old == row[key[r]]
  IN /\ CASE ~Exists(key[r]) -> Step(r, "look", "insert") /\ UNCHANGED reply
          [] Exists(key[r]) /\ old.age = "expired" -> Step(r, "look", "evictExpired") /\ UNCHANGED reply
          [] Exists(key[r]) /\ old.age = "stale" /\ ~old.done ->
               Step(r, "look", "evictStale") /\ UNCHANGED reply
          [] OTHER ->
               Answer(r, "look", IF ~old.done THEN "conflict"
                                 ELSE IF old.body = "null" THEN "replayedNull" ELSE "replayed")
     /\ UNCHANGED <<row, key, committed>>

\* What the winner left decides: try again, evict it, refuse, or replay.
Look(r) ==
  LET old == row[key[r]]
  IN /\ CASE ~Exists(key[r]) -> Step(r, "look", "insert") /\ UNCHANGED reply
          [] Exists(key[r]) /\ old.age = "expired" -> Step(r, "look", "evictExpired") /\ UNCHANGED reply
          [] Exists(key[r]) /\ old.age = "stale" /\ ~old.done ->
               Step(r, "look", "evictStale") /\ UNCHANGED reply
          [] OTHER ->
               Answer(r, "look", IF HashOf[old.owner] # HashOf[r] \/ ~old.done THEN "conflict"
                                 ELSE IF old.body = "null" THEN "replayedNull" ELSE "replayed")
     /\ UNCHANGED <<row, key, committed>>

\* The request deletes the row it looked at if the condition c still holds,
\* and tries to insert its own again.
Evict(r, at, c) ==
  /\ Step(r, at, "insert")
  /\ row' = [row EXCEPT ![key[r]] = IF c THEN NoRow ELSE @]
  /\ UNCHANGED <<key, reply, committed>>

\* Faults for mutation: the deletion not conditional on the lease, with the
\* comparison of the dates the wrong way round.
EvictStaleBlindly(r) == Evict(r, "evictStale", ~row[key[r]].done)
EvictStaleNewest(r) == Evict(r, "evictStale", ~row[key[r]].done /\ row[key[r]].age = "fresh")

EvictStale(r) == Evict(r, "evictStale", ~row[key[r]].done /\ row[key[r]].age # "fresh")
EvictExpired(r) == Evict(r, "evictExpired", row[key[r]].age = "expired")

(***************************************************************************)
(* The handler, and what follows it.                                       *)
(***************************************************************************)

\* The domain work commits; within uow.run completedAt commits with it.
Commit(r) ==
  /\ Step(r, "handler", "cache")
  /\ committed' = [committed EXCEPT ![key[r]] = @ \cup {r}]
  /\ row' = [row EXCEPT ![key[r]].done = @ \/ (InUow /\ Exists(key[r]))]
  /\ UNCHANGED <<key, reply>>

\* The handler fails, before its commit or after it.
Fail(r) ==
  /\ Step(r, "handler", "release") \/ Step(r, "cache", "release")
  /\ UNCHANGED <<row, key, reply, committed>>

\* A fault for mutation: the reservation goes even when the work is committed.
ReleaseAlways(r) ==
  /\ Answer(r, "release", "error")
  /\ row' = [row EXCEPT ![key[r]] = NoRow]
  /\ UNCHANGED <<key, committed>>

\* release: the reservation goes unless it is completed.
Release(r) ==
  /\ Answer(r, "release", "error")
  /\ row' = [row EXCEPT ![key[r]] = IF @.done THEN @ ELSE NoRow]
  /\ UNCHANGED <<key, committed>>

\* cacheResponse: the body, then the marker if it is still missing.  An update
\* of a row that is gone raises, is logged, and the client has its answer.
CacheBody(r) ==
  /\ IF Exists(key[r])
     THEN Step(r, "cache", "mark") /\ row' = [row EXCEPT ![key[r]].body = "result"] /\ UNCHANGED reply
     ELSE Answer(r, "cache", "result") /\ UNCHANGED row
  /\ UNCHANGED <<key, committed>>

MarkDone(r) ==
  /\ Answer(r, "mark", "result")
  /\ row' = [row EXCEPT ![key[r]].done = @ \/ Exists(key[r])]
  /\ UNCHANGED <<key, committed>>

(***************************************************************************)
(* The environment: crashes and time.                                      *)
(***************************************************************************)

\* The API process stops: every request it was serving is lost.
Crash ==
  /\ \E r \in Requests : pc[r] \in Running
  /\ pc' = [r \in Requests |-> IF pc[r] \in Running THEN "crashed" ELSE pc[r]]
  /\ UNCHANGED <<row, key, reply, committed>>

\* Ten minutes pass over a reservation whose request is no longer running.
LeaseElapses(k) ==
  /\ Exists(k) /\ row[k].age = "fresh"
  /\ pc[row[k].owner] \notin Running
  /\ row' = [row EXCEPT ![k].age = "stale"]
  /\ UNCHANGED <<pc, key, reply, committed>>

\* A day passes: the key may be used again, for another piece of work.
TtlElapses(k) ==
  /\ Exists(k) /\ row[k].age = "stale"
  /\ \A r \in Requests : pc[r] \notin Running
  /\ row' = [row EXCEPT ![k].age = "expired"]
  /\ committed' = [committed EXCEPT ![k] = {}]
  /\ pc' = [r \in Requests |-> IF key[r] = k THEN "idle" ELSE pc[r]]
  /\ reply' = [r \in Requests |-> IF key[r] = k THEN "none" ELSE reply[r]]
  /\ UNCHANGED key

Serve(r) ==
  \/ Insert(r) \/ Look(r) \/ EvictStale(r) \/ EvictExpired(r)
  \/ Commit(r) \/ Fail(r) \/ Release(r) \/ CacheBody(r) \/ MarkDone(r)

Next ==
  \/ \E r \in Requests, k \in Keys : Send(r, k)
  \/ \E r \in Requests : Serve(r)
  \/ Crash
  \/ \E k \in Keys : LeaseElapses(k)
  \/ \E k \in Keys : TtlElapses(k)

Spec == Init /\ [][Next]_vars

\* Every request that is being served makes progress; nothing else is assumed.
FairSpec == Spec /\ \A r \in Requests : WF_vars(Serve(r))

(***************************************************************************)
(* The web client: newIdempotencyKey() in onMutate gives every call of     *)
(* mutate() a key of its own, and mutations are never retried by the       *)
(* query client (retry: 0).  All requests below are of one user operation: *)
(* a second one is sent when the first gave no answer or an error.         *)
(***************************************************************************)
Minted == {key[r] : r \in {r \in Requests : pc[r] # "idle"}}
Mutate(r) ==
  /\ \A q \in Requests : pc[q] \in {"idle", "crashed"} \/ reply[q] \in {"conflict", "error"}
  /\ \E k \in Keys \ Minted : Send(r, k)

WebNext ==
  \/ \E r \in Requests : Mutate(r)
  \/ \E r \in Requests : Serve(r)
  \/ Crash
  \/ \E k \in Keys : LeaseElapses(k)

WebSpec == Init /\ [][WebNext]_vars

-----------------------------------------------------------------------------
RowType ==
  [owner : Requests, done : BOOLEAN, body : {"null", "result"}, age : {"fresh", "stale", "expired"}]
    \cup {NoRow}

(***************************************************************************)
(* The table and the requests have the shape the schema and the            *)
(* interceptor give them.                                                  *)
(***************************************************************************)
TypeOK ==
  /\ row \in [Keys -> RowType]
  /\ pc \in [Requests -> Steps]
  /\ key \in [Requests -> Keys]
  /\ reply \in [Requests -> Replies]
  /\ committed \in [Keys -> SUBSET Requests]

(***************************************************************************)
(* The work of a key is committed at most once within the TTL, whatever    *)
(* retries, crashes and takeovers of abandoned reservations occur ("no     *)
(* double effect", intercept).                                             *)
(***************************************************************************)
AtMostOnce == \A k \in Keys : \A q, r \in committed[k] : q = r

(***************************************************************************)
(* A client that is told its work was done was told the truth: an answer   *)
(* of the handler or a replay is given only when the key's work is         *)
(* committed, and by a request with the same hash.                         *)
(***************************************************************************)
SuccessIsTrue ==
  \A r \in Requests : reply[r] \in {"result", "replayed", "replayedNull"} =>
    \E q \in committed[key[r]] : HashOf[q] = HashOf[r]

\* What the client knows of a request.
StatusOf(r) ==
  CASE pc[r] = "idle" -> "unsent"
    [] pc[r] \in Running -> "pending"
    [] pc[r] = "crashed" -> "lost"
    [] OTHER -> IF reply[r] \in {"result", "replayed", "replayedNull"} THEN "success" ELSE "failure"
Promise == INSTANCE OnceOnly WITH WorkOf <- HashOf, status <- [r \in Requests |-> StatusOf(r)], done <- committed

(***************************************************************************)
(* The interceptor keeps what a key promises: with the statements, the     *)
(* leases and the takeovers left out, it is module OnceOnly.               *)
(***************************************************************************)
KeepsPromise == Promise!Spec

(***************************************************************************)
(* "A retry with the same key, body and URL gets the same response"        *)
(* (idempotency.interceptor.ts, class comment).                            *)
(***************************************************************************)
SameResponse == \A r \in Requests : reply[r] # "replayedNull"

(***************************************************************************)
(* "A repeat (automatic or manual) sends the same key, and the back end    *)
(* does not double the operation" (apps/web/src/lib/api.ts).               *)
(***************************************************************************)
OneEffectPerOperation == Cardinality(UNION {committed[k] : k \in Keys}) <= 1

(***************************************************************************)
(* Every request is answered or lost in a crash: no request loops forever  *)
(* in tryReserve, evicting and losing the race for the key.                *)
(***************************************************************************)
Answered == \A r \in Requests : pc[r] = "insert" ~> pc[r] \in {"answered", "crashed"}
=============================================================================
