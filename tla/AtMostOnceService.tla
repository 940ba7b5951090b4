------------------------- MODULE AtMostOnceService --------------------------
(***************************************************************************)
(* What the proxy promises the clients of a session, whatever VMs come and *)
(* go behind it: a request runs at most once, is answered once, and is     *)
(* answered "ok" only after it ran.  A request that was answered "failed"  *)
(* may still run later.                                                    *)
(***************************************************************************)
EXTENDS Naturals

CONSTANT Req

VARIABLES outcome, runs

svars == <<outcome, runs>>

SInit == /\ outcome = [r \in Req |-> "none"]
         /\ runs = [r \in Req |-> 0]

Submit(r) == /\ outcome[r] = "none"
             /\ outcome' = [outcome EXCEPT ![r] = "pending"]
             /\ UNCHANGED runs

\* The code runs; the client is told at once or never.
Run(r) == /\ outcome[r] \in {"pending", "failed"}
          /\ runs[r] = 0
          /\ runs' = [runs EXCEPT ![r] = 1]
          /\ \/ UNCHANGED outcome
             \/ outcome[r] = "pending" /\ outcome' = [outcome EXCEPT ![r] = "ok"]

Reject(r) == /\ outcome[r] \in {"none", "pending"}
             /\ outcome' = [outcome EXCEPT ![r] = "failed"]
             /\ UNCHANGED runs

SNext == \E r \in Req : Submit(r) \/ Run(r) \/ Reject(r)

SSpec == SInit /\ [][SNext]_svars
=============================================================================
