------------------------------ MODULE MCOutbox ------------------------------
(* Two dispatchers share a store. e1 carries an idempotency key, so that   *)
(* emitters may publish it again; e2 has none.                             *)
EXTENDS Outbox, TLC

CONSTANTS o1, o2, e1, e2, k1

Keys == (e1 :> k1) @@ (e2 :> NoKey)

(* The liveness run starts from a backlog left by emitters that are done:  *)
(* two events before a lone dispatcher, whose batch holds one, or one      *)
(* event before two dispatchers that compete for it.                       *)
NoKeys == [e \in Envelopes |-> NoKey]
Backlog == (e1 :> 1) @@ (e2 :> 2)
BacklogSpec ==
  /\ InitOver(Backlog, {}, {o2}) \/ InitOver(Backlog, {e2}, {})
  /\ [][Next]_vars
  /\ Fairness

OutboxSymmetry == Permutations(Outboxes)
=============================================================================
