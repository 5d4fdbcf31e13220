------------------------------ MODULE OnceOnly ------------------------------
(***************************************************************************)
(* What an Idempotency-Key promises to a client, without reservations,     *)
(* leases and statements: the work of a key is done once until the key is  *)
(* forgotten, a success is told only when the work of the key is done and  *)
(* is the work that was asked for, and what was done or told stays so.  A  *)
(* failure promises nothing: the work may be done or not.                  *)
(***************************************************************************)
CONSTANTS Requests, Keys,
          WorkOf        \* what a request asks for

VARIABLES key,          \* the key of every request
          status,       \* what its client knows of it
          done          \* by key: the requests whose work was done

vars == <<key, status, done>>

Init ==
  /\ key \in [Requests -> Keys]
  /\ status = [r \in Requests |-> "unsent"]
  /\ done = [k \in Keys |-> {}]

Ask(r, k) ==
  /\ status[r] = "unsent"
  /\ status' = [status EXCEPT ![r] = "pending"]
  /\ key' = [key EXCEPT ![r] = k]
  /\ UNCHANGED done

Do(r) ==
  /\ status[r] = "pending" /\ done[key[r]] = {}
  /\ done' = [done EXCEPT ![key[r]] = {r}]
  /\ UNCHANGED <<key, status>>

Succeed(r) ==
  /\ status[r] = "pending"
  /\ \E q \in done[key[r]] : WorkOf[q] = WorkOf[r]
  /\ status' = [status EXCEPT ![r] = "success"]
  /\ UNCHANGED <<key, done>>

Refuse(r) ==
  /\ status[r] = "pending"
  /\ status' = [status EXCEPT ![r] = "failure"]
  /\ UNCHANGED <<key, done>>

\* The server dies and all its clients are left without an answer.
Lose ==
  /\ status' = [r \in Requests |-> IF status[r] = "pending" THEN "lost" ELSE status[r]]
  /\ UNCHANGED <<key, done>>

\* The key is old enough to be used for another piece of work.
Forget(k) ==
  /\ \A r \in Requests : status[r] # "pending"
  /\ done' = [done EXCEPT ![k] = {}]
  /\ status' = [r \in Requests |-> IF key[r] = k THEN "unsent" ELSE status[r]]
  /\ UNCHANGED key

Next ==
  \/ \E r \in Requests, k \in Keys : Ask(r, k)
  \/ \E r \in Requests : Do(r) \/ Succeed(r) \/ Refuse(r)
  \/ Lose
  \/ \E k \in Keys : Forget(k)

Spec == Init /\ [][Next]_vars
=============================================================================
