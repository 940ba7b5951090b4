------------------------- MODULE SequentialSandbox --------------------------
(***************************************************************************)
(* What the sandbox of a VM promises those who run code in it: one cell    *)
(* runs at a time and once, but for its last expression, which may be      *)
(* evaluated once more to be shown; what is printed while a job runs, that *)
(* expression aside, is its output; what it is told is how its own run     *)
(* ended.  Files are loaded at any time: one that is loaded while another  *)
(* job runs ends the promise about the output.  A job may be lost; one     *)
(* that is lost while it runs, too.  /reset and statements change          *)
(* variables at any time.                                                  *)
(***************************************************************************)
CONSTANTS Cell, Upload, Query, Var, None

Job == Cell \cup Upload

VARIABLES
    stage,     \* "idle", "asked", "running", "shown", "ran", "told" or "lost"
    console,   \* the job whose output is printed
    outcome,   \* how each run ended
    crowded,   \* is the output of one no longer told from that of another?
    ns         \* writer of each variable

sandbox == <<stage, console, outcome, crowded, ns>>

BInit ==
    /\ stage = [j \in Job |-> "idle"] /\ console = None /\ crowded = FALSE
    /\ outcome = [j \in Job |-> "none"] /\ ns = [x \in Var |-> None]

Step(j, from, to) == stage[j] \in from /\ stage' = [stage EXCEPT ![j] = to]

Ask(c) == Step(c, {"idle"}, "asked") /\ UNCHANGED <<console, outcome, crowded, ns>>

Running == {j \in Job : stage[j] = "running"}

Start(j) ==
    /\ Step(j, {"idle", "asked"}, "running")
    /\ j \in Cell => \A c \in Cell : stage[c] \notin {"running", "shown"}
    /\ crowded' = (crowded \/ Running # {})
    /\ ~crowded' => console = None
    /\ console' = j
    /\ UNCHANGED <<outcome, ns>>

Owns(j) == stage[j] = "running" /\ (crowded \/ console = j)

Assign(j) ==
    /\ Owns(j)
    /\ \E x \in Var, w \in {j, None} : ns' = [ns EXCEPT ![x] = w]
    /\ UNCHANGED <<stage, console, outcome, crowded>>

Conclude(j) ==
    /\ Owns(j) /\ outcome[j] = "none"
    /\ \E r \in {"ok", "error", "exit", "timeout", "interrupted"} :
          outcome' = [outcome EXCEPT ![j] = r]
    /\ UNCHANGED <<stage, console, crowded, ns>>

\* The run is over; one that exited is lost.
Stop(j) ==
    /\ Owns(j) /\ outcome[j] # "none"
    /\ Step(j, {"running"}, IF outcome[j] = "exit" THEN "lost" ELSE "shown")
    /\ crowded \/ console' = None
    /\ UNCHANGED <<outcome, crowded, ns>>

\* The last expression of a good cell is evaluated again.
Show(c) ==
    /\ stage[c] = "shown" /\ outcome[c] = "ok"
    /\ \E x \in Var, w \in {"again", None} : ns' = [ns EXCEPT ![x] = w]
    /\ UNCHANGED <<stage, console, outcome, crowded>>

Shown(c) == Step(c, {"shown"}, "ran") /\ UNCHANGED <<console, outcome, crowded, ns>>
Tell(j) ==
    /\ Step(j, {IF j \in Cell THEN "ran" ELSE "shown"}, "told")
    /\ UNCHANGED <<console, outcome, crowded, ns>>

Lose(j) ==
    /\ Step(j, {"asked", "running", "shown", "ran"}, "lost")
    /\ crowded' = (crowded \/ stage[j] = "running")
    /\ UNCHANGED <<console, outcome, ns>>

Outside ==
    /\ \/ \E x \in Var, q \in Query : ns' = [ns EXCEPT ![x] = q]
       \/ ns' = [x \in Var |-> None]
    /\ UNCHANGED <<stage, console, outcome, crowded>>

BNext ==
    \/ \E j \in Job :
          Start(j) \/ Assign(j) \/ Conclude(j) \/ Stop(j) \/ Tell(j) \/ Lose(j)
    \/ \E c \in Cell : Ask(c) \/ Show(c) \/ Shown(c)
    \/ Outside

BSpec == BInit /\ [][BNext]_sandbox
=============================================================================
