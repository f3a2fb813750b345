----------------------------- MODULE MCSqlOutbox -----------------------------
(* Two processes. Two emitters race for one idempotency key, an earlier    *)
(* event being settled; or that race is over and two events wait, so that  *)
(* a claim takes several rows.                                             *)
EXTENDS SqlOutbox, TLC

CONSTANTS d1, d2, e1, e2, e3, k1

Keys == (e1 :> k1) @@ (e2 :> k1) @@ (e3 :> NoKey)
Ranks == (e1 :> 1) @@ (e2 :> 2) @@ (e3 :> 3)

Race == (e1 :> "absent") @@ (e2 :> "absent") @@ (e3 :> "delivered")
Backlog == (e1 :> "pending") @@ (e2 :> "absent") @@ (e3 :> "pending")

MCSqlInit ==
  \/ /\ SqlInitOver(Race)
     /\ save = (e1 :> "none") @@ (e2 :> "none") @@ (e3 :> "saved")
  \/ /\ SqlInitOver(Backlog)
     /\ save = (e1 :> "duplicate") @@ (e2 :> "duplicate") @@ (e3 :> "saved")

MCSqlSpec == MCSqlInit /\ [][SqlNext]_sqlVars /\ SqlFairness
=============================================================================
