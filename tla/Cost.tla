-------------------------------- MODULE Cost --------------------------------
(***************************************************************************)
(* What the cost tracker bills a VM for.                                   *)
(*                                                                         *)
(* The tracker learns the state of a VM from launches and from polls of    *)
(* GET /instances, and bills the last state it recorded until it records   *)
(* another.  It lives in the proxy; at a start it is rebuilt from          *)
(* vm_state_log, which has no entry for a suspension, for the rows that    *)
(* are not TERMINATED.  Amounts are ticks in a state.  Left out: prices,   *)
(* memory, bursts, and rows that AWS does not list yet (see Lifecycle).    *)
(***************************************************************************)
EXTENDS Naturals

CONSTANTS
    Vm,
    MaxTime,     \* bound: ticks of a VM's record
    MaxRestarts  \* bound: restarts of the proxy

VARIABLES
    aws,       \* "none", "RUNNING", "SUSPENDED", "TERMINATING", "TERMINATED"
    age,       \* ticks since the launch
    recorded,  \* state of the last transition of its record; "none" if it has none
    running, suspended,   \* compute(): ticks in each
    row,       \* vm_sessions: "none", "RUNNING", "TERMINATED"
    stored,    \* running_secs and suspended_secs of the row
    restarts

vars == <<aws, age, recorded, running, suspended, row, stored, restarts>>

Init ==
    /\ aws = [v \in Vm |-> "none"] /\ age = [v \in Vm |-> 0]
    /\ recorded = [v \in Vm |-> "none"]
    /\ running = [v \in Vm |-> 0] /\ suspended = [v \in Vm |-> 0]
    /\ row = [v \in Vm |-> "none"] /\ stored = [v \in Vm |-> <<0, 0>>]
    /\ restarts = 0

\* POST /launch records RUNNING and writes a row; a rotation does neither.
Launch(v) ==
    /\ aws[v] = "none"
    /\ aws' = [aws EXCEPT ![v] = "RUNNING"]
    /\ \/ /\ recorded' = [recorded EXCEPT ![v] = "RUNNING"] /\ row' = [row EXCEPT ![v] = "RUNNING"]
       \/ UNCHANGED <<recorded, row>>
    /\ UNCHANGED <<age, running, suspended, stored, restarts>>

\* Suspension, resumption and termination, by whomever, are seen by AWS only.
Change(v, state) ==
    /\ <<aws[v], state>> \in
         {<<"RUNNING", "SUSPENDED">>, <<"SUSPENDED", "RUNNING">>, <<"RUNNING", "TERMINATING">>,
          <<"SUSPENDED", "TERMINATING">>, <<"TERMINATING", "TERMINATED">>}
    /\ aws' = [aws EXCEPT ![v] = state]
    /\ UNCHANGED <<age, recorded, running, suspended, row, stored, restarts>>

Listed == {v \in Vm : aws[v] \notin {"none", "TERMINATED"}}

\* GET /instances: record what is listed and store its cost; a VM that is TERMINATED, or
\* gone, is passed over, and its row is marked.
List ==
    /\ recorded' = [v \in Vm |-> IF v \in Listed THEN aws[v] ELSE recorded[v]]
    /\ stored' = [v \in Vm |-> IF v \in Listed /\ row[v] # "none"
                               THEN <<running[v], suspended[v]>> ELSE stored[v]]
    /\ row' = [v \in Vm |-> IF row[v] = "RUNNING" /\ v \notin Listed THEN "TERMINATED" ELSE row[v]]
    /\ UNCHANGED <<aws, age, running, suspended, restarts>>

\* compute() counts the time since the last transition to the state it names.
Tick ==
    /\ \E v \in Vm : aws[v] # "none"
    /\ \A v \in Vm : running[v] + suspended[v] < MaxTime /\ age[v] < MaxTime
    /\ age' = [v \in Vm |-> IF aws[v] # "none" THEN age[v] + 1 ELSE 0]
    /\ running' = [v \in Vm |-> IF recorded[v] = "RUNNING" THEN running[v] + 1 ELSE running[v]]
    /\ suspended' = [v \in Vm |-> IF recorded[v] = "SUSPENDED" THEN suspended[v] + 1 ELSE suspended[v]]
    /\ UNCHANGED <<aws, recorded, row, stored, restarts>>

\* load_from_db: one transition for each row, RUNNING at its launch.
Restart ==
    /\ restarts < MaxRestarts /\ restarts' = restarts + 1
    /\ recorded' = [v \in Vm |-> IF row[v] = "RUNNING" THEN "RUNNING" ELSE "none"]
    /\ running' = [v \in Vm |-> IF row[v] = "RUNNING" THEN age[v] ELSE 0]
    /\ suspended' = [v \in Vm |-> 0]
    /\ UNCHANGED <<aws, age, row, stored>>

Next ==
    \/ \E v \in Vm : Launch(v)
    \/ \E v \in Vm, state \in {"RUNNING", "SUSPENDED", "TERMINATING", "TERMINATED"} : Change(v, state)
    \/ List \/ Tick \/ Restart

Spec == Init /\ [][Next]_vars

-----------------------------------------------------------------------------
\* Cost is "based on time spent in each state (RUNNING vs SUSPENDED)"
\* (cost_tracker.py:6): a VM that is TERMINATED, and that a poll has passed over since,
\* is not billed for more time.
TerminatedIsNotBilled ==
    [][\A v \in Vm : aws[v] = "TERMINATED" /\ row[v] = "TERMINATED" =>
          running'[v] <= running[v] /\ suspended'[v] <= suspended[v]]_vars
=============================================================================
