------------------------------ MODULE Executor ------------------------------
(***************************************************************************)
(* The sandbox that runs a notebook's cells inside a VM.                   *)
(*                                                                         *)
(* Two threads call SandboxExecutor.execute: a pool worker, for /execute,  *)
(* which serializes its cells with a lock, and the event loop itself, for  *)
(* /upload, which takes no lock.  Two more interfere: the timer of each    *)
(* execution and the /interrupt handler raise KeyboardInterrupt in         *)
(* whichever thread `_exec_thread_id` names when they look, and Python     *)
(* delivers it when that thread next runs, wherever it is by then.         *)
(*                                                                         *)
(* A cell that succeeds has its last expression evaluated once more, to    *)
(* show a frame: with the lock held, but no timer, no thread to interrupt  *)
(* and the real stdout.                                                    *)
(*                                                                         *)
(* A variable's value is the job that wrote it, or "again" if a second     *)
(* evaluation did.  The second execute() of an upload, which prints the    *)
(* frame's shape, repeats the steps of the first and is left out, and so   *)
(* is code that catches KeyboardInterrupt.                                 *)
(***************************************************************************)
EXTENDS Naturals, FiniteSets

CONSTANTS
    Cell,           \* cells sent to /execute
    Upload,         \* files sent to /upload
    Query,          \* statements sent to /execute-sql
    Looping,        \* cells that do not end unless they are interrupted
    Var,            \* names
    MaxJobs,        \* bound: calls of /execute and /upload
    MaxOthers,      \* bound: calls of /interrupt, /reset and /execute-sql
    None            \* no job, no thread, the real stdout

ASSUME JobsAssumption ==
    /\ Looping \subseteq Cell
    /\ Cell \cap Upload = {} /\ Query \cap (Cell \cup Upload) = {}
    /\ {None, "again"} \cap (Cell \cup Upload \cup Query) = {}
    /\ None \notin {"worker", "loop", "again"}
ASSUME BoundsAssumption ==
    MaxJobs \in Nat /\ MaxOthers \in Nat

Job == Cell \cup Upload
Thread == {"worker", "loop"}
On(j) == IF j \in Upload THEN "loop" ELSE "worker"

VARIABLES
    server,    \* is the app server up?
    lock,      \* the holder of the execution lock
    phase,     \* of each job
    result,    \* what its execute() found
    tid,       \* _exec_thread_id
    stdout,    \* the job whose capture sys.stdout is
    saved,     \* old_stdout, a local of each execute()
    timer,     \* of each job
    aim,       \* the thread the timer of a job is about to raise in
    intr,      \* the thread /interrupt is about to raise in
    pending,   \* threads with an undelivered KeyboardInterrupt
    ns, prov,  \* writer of each variable; the job its provenance names
    before,    \* the namespace each execute() started with
    interrupts, resets,  \* calls so far
    queried,   \* statements that have run
    shared,    \* history: who was in the namespace while another execution recorded
    spoiled    \* history: have redirections overlapped, or has one not been undone?

execVars == <<phase, result, stdout, saved, before>>
raiseVars == <<timer, aim, intr, pending, interrupts>>
nsVars == <<ns, prov>>
bounds == <<resets, queried>>
history == <<shared, spoiled>>
vars == <<server, lock, tid, execVars, raiseVars, nsVars, bounds, history>>

Writer == Job \cup Query \cup {None, "again"}
Phase == {"new", "waiting", "submitted", "setup", "body", "finally", "tail", "again", "stuck",
          "raised", "returned", "done", "failed", "lost"}

NoVars == [x \in Var |-> None]

Init ==
    /\ server = "up" /\ lock = None /\ tid = None /\ stdout = None
    /\ phase = [j \in Job |-> "new"] /\ result = [j \in Job |-> "none"]
    /\ saved = [j \in Job |-> None]
    /\ timer = [j \in Job |-> "off"]
    /\ aim = [j \in Job |-> None] /\ intr = None /\ pending = {}
    /\ ns = NoVars /\ prov = NoVars
    /\ before = [j \in Job |-> NoVars]
    /\ interrupts = 0 /\ resets = 0 /\ queried = {}
    /\ shared = {} /\ spoiled = FALSE

Redirects(j) == phase[j] \in {"setup", "body", "finally"}
Executing(j) == phase[j] \in {"setup", "body", "finally", "tail"}
Recorders == {j \in Job : Executing(j)}
LoopFree == /\ server = "up" /\ intr = None /\ "loop" \notin pending
            /\ \A u \in Upload : ~Executing(u)
MayArrive(j) ==
    /\ LoopFree /\ phase[j] = "new"
    /\ Cardinality({i \in Job : phase[i] # "new"}) < MaxJobs
MayEnter == LoopFree /\ interrupts + resets + Cardinality(queried) < MaxOthers
Goto(j, p) == phase' = [phase EXCEPT ![j] = p]

-----------------------------------------------------------------------------
(* The handlers of /execute and /upload. *)

Arrive(c) ==
    /\ MayArrive(c)
    /\ Goto(c, "waiting")
    /\ UNCHANGED <<server, lock, tid, result, stdout, saved, before, raiseVars, nsVars,
                   bounds, history>>

\* Bug: the lock is not asked for.
AcquireAnyway(c) ==
    /\ LoopFree /\ phase[c] = "waiting"
    /\ lock' = c
    /\ Goto(c, "submitted")
    /\ UNCHANGED <<server, tid, result, stdout, saved, before, raiseVars, nsVars, bounds,
                   history>>

Acquire(c) ==
    /\ LoopFree /\ phase[c] = "waiting" /\ lock = None
    /\ lock' = c
    /\ Goto(c, "submitted")
    /\ UNCHANGED <<server, tid, result, stdout, saved, before, raiseVars, nsVars, bounds,
                   history>>

\* execute(): redirect stdout, remember the namespace, note the thread.
Begin(j) ==
    /\ shared' = shared \cup Recorders \cup (IF Recorders = {} THEN {} ELSE {j})
    /\ spoiled' = (spoiled \/ \E i \in Job : Redirects(i))
    /\ saved' = [saved EXCEPT ![j] = stdout]
    /\ stdout' = j
    /\ before' = [before EXCEPT ![j] = ns]
    /\ tid' = On(j)
    /\ Goto(j, "setup")
    /\ UNCHANGED <<server, lock, result, raiseVars, nsVars, bounds>>

\* The pool's worker takes the job.
Pick(c) ==
    /\ server = "up" /\ phase[c] = "submitted" /\ "worker" \notin pending
    /\ Begin(c)

\* Delivered when the worker has taken a job and not begun it, or has left
\* execute() and not set the future, the exception ends the worker: the future
\* never completes.
Lost(c) ==
    /\ server = "up" /\ phase[c] \in {"submitted", "tail", "again"} /\ "worker" \in pending
    /\ Goto(c, "lost")
    /\ pending' = pending \ {"worker"}
    /\ before' = [before EXCEPT ![c] = NoVars]
    /\ UNCHANGED <<server, lock, tid, result, stdout, saved, timer, aim, intr,
                   interrupts, nsVars, bounds, history>>

Load(u) == MayArrive(u) /\ Begin(u)

\* Bug: only a good result leaves the lock.
AnswerHolding(c) ==
    /\ LoopFree /\ phase[c] = "returned"
    /\ lock' = IF result[c] = "ok" THEN None ELSE lock
    /\ Goto(c, "done")
    /\ UNCHANGED <<server, tid, result, stdout, saved, before, raiseVars, nsVars, bounds,
                   history>>

\* The handler answers, and leaves the lock.
Answer(c) ==
    /\ LoopFree /\ phase[c] = "returned"
    /\ lock' = None
    /\ Goto(c, "done")
    /\ UNCHANGED <<server, tid, result, stdout, saved, before, raiseVars, nsVars, bounds,
                   history>>

\* What left execute() fails the request, which leaves the lock.
Fails(j) ==
    /\ LoopFree /\ phase[j] = "raised"
    /\ lock' = IF lock = j THEN None ELSE lock
    /\ Goto(j, "failed")
    /\ UNCHANGED <<server, tid, result, stdout, saved, before, raiseVars, nsVars, bounds,
                   history>>

-----------------------------------------------------------------------------
(* The rest of execute(), on either thread. *)

Runs(j, p) == server = "up" /\ phase[j] = p /\ On(j) \notin pending

\* Start the timer and enter the try.
Enter(j) ==
    /\ Runs(j, "setup")
    /\ timer' = [timer EXCEPT ![j] = "armed"]
    /\ Goto(j, "body")
    /\ UNCHANGED <<server, lock, tid, result, stdout, saved, before, aim, intr, pending,
                   interrupts, nsVars, bounds, history>>

\* The code sets or deletes a variable.
Write(j) ==
    /\ Runs(j, "body")
    /\ \E x \in Var, w \in {j, None} : ns' = [ns EXCEPT ![x] = w]
    /\ UNCHANGED <<server, lock, tid, execVars, raiseVars, prov, bounds, history>>

\* It ends, with or without an exception of its own; SystemExit is none that the try
\* catches.
End(j) ==
    /\ Runs(j, "body") /\ j \notin Looping
    /\ \E r \in {"ok", "error"} \cup (IF j \in Cell THEN {"exit"} ELSE {}) :
          result' = [result EXCEPT ![j] = r]
    /\ Goto(j, "finally")
    /\ UNCHANGED <<server, lock, tid, stdout, saved, before, raiseVars, nsVars, bounds,
                   history>>

\* Cancelling a timer that has fired does nothing.
Finally(j) ==
    /\ Runs(j, "finally")
    /\ timer' = [timer EXCEPT ![j] = IF @ \in {"armed", "over"} THEN "off" ELSE @]
    /\ tid' = None
    /\ stdout' = saved[j]
    /\ saved' = [saved EXCEPT ![j] = None]
    /\ before' = IF result[j] = "ok" THEN before ELSE [before EXCEPT ![j] = NoVars]
    /\ Goto(j, IF result[j] = "exit" THEN "raised" ELSE "tail")
    /\ UNCHANGED <<server, lock, result, aim, intr, pending, interrupts, nsVars, bounds,
                   history>>

\* Bug: a variable that existed before keeps its provenance.
NamesCreated(j) == [x \in Var |-> IF before[j][x] = None /\ ns[x] # None THEN j ELSE prov[x]]

\* What was created, modified or deleted since the execution began is this job's.
Names(j) == [x \in Var |-> IF ns[x] = before[j][x] THEN prov[x]
                           ELSE IF ns[x] = None THEN None ELSE j]

\* Only a success is entered into the provenance; if the code ends in an expression,
\* that is evaluated again.  An upload's ends in an assignment.
Tail(j) ==
    /\ Runs(j, "tail")
    /\ prov' = IF result[j] = "ok" THEN Names(j) ELSE prov
    /\ before' = [before EXCEPT ![j] = NoVars]
    /\ \/ j \in Upload /\ Goto(j, "done")
       \/ j \in Cell /\ Goto(j, "returned")
       \/ j \in Cell /\ result[j] = "ok" /\ Goto(j, "again")
    /\ UNCHANGED <<server, lock, tid, result, stdout, saved, raiseVars, ns, bounds, history>>

\* _capture_dataframe's eval() sets or deletes variables; no provenance is
\* recorded.
AgainWrites(c) ==
    /\ Runs(c, "again")
    /\ \E x \in Var, w \in {"again", None} : ns' = [ns EXCEPT ![x] = w]
    /\ UNCHANGED <<server, lock, tid, execVars, raiseVars, prov, bounds, history>>

\* It ends, with or without an Exception; or with SystemExit; or, where it waits for what
\* the first evaluation has used up, never.
AgainEnds(c) ==
    /\ Runs(c, "again")
    /\ \E p \in {"returned", "raised", "stuck"} : Goto(c, p)
    /\ UNCHANGED <<server, lock, tid, result, stdout, saved, before, raiseVars, nsVars,
                   bounds, history>>

-----------------------------------------------------------------------------
(* KeyboardInterrupt. *)

\* A timer that is through: timed_out is looked at in the try only.
Through(j) == IF Redirects(j) THEN "over" ELSE "off"

\* Bug: raise even if no thread executes.
TimerFiresBlindly(j) ==
    /\ server = "up" /\ timer[j] = "armed"
    /\ aim' = [aim EXCEPT ![j] = tid]
    /\ timer' = [timer EXCEPT ![j] = "aimed"]
    /\ UNCHANGED <<server, lock, tid, execVars, intr, pending, interrupts, nsVars, bounds,
                   history>>

\* _timeout_trigger sets timed_out, reads the thread id ...  (That it reads later is
\* that it fires later, but for which of two interrupts the cell is told of.)
TimerFires(j) ==
    /\ server = "up" /\ timer[j] = "armed"
    /\ aim' = [aim EXCEPT ![j] = tid]
    /\ timer' = [timer EXCEPT ![j] = IF tid = None THEN Through(j) ELSE "aimed"]
    /\ UNCHANGED <<server, lock, tid, execVars, intr, pending, interrupts, nsVars, bounds,
                   history>>

\* ... and raises in that thread.
TimerRaises(j) ==
    /\ server = "up" /\ timer[j] = "aimed"
    /\ pending' = pending \cup {aim[j]}
    /\ timer' = [timer EXCEPT ![j] = Through(j)]
    /\ aim' = [aim EXCEPT ![j] = None]
    /\ UNCHANGED <<server, lock, tid, execVars, intr, interrupts, nsVars, bounds, history>>

InterruptAims ==
    /\ MayEnter
    /\ interrupts' = interrupts + 1
    /\ intr' = tid
    /\ UNCHANGED <<server, lock, tid, execVars, timer, aim, pending, nsVars, bounds, history>>

InterruptRaises ==
    /\ server = "up" /\ intr # None
    /\ pending' = pending \cup {intr}
    /\ intr' = None
    /\ UNCHANGED <<server, lock, tid, execVars, timer, aim, interrupts, nsVars, bounds,
                   history>>

\* In the try, it ends the cell.
Interrupted(j) ==
    /\ server = "up" /\ phase[j] = "body" /\ On(j) \in pending
    /\ pending' = pending \ {On(j)}
    /\ result' = [result EXCEPT ![j] = IF timer[j] # "armed" THEN "timeout" ELSE "interrupted"]
    /\ Goto(j, "finally")
    /\ UNCHANGED <<server, lock, tid, stdout, saved, before, timer, aim, intr,
                   interrupts, nsVars, bounds, history>>

\* Elsewhere nothing catches it and it leaves execute(), from the finally half way.
Uncaught(j) ==
    /\ server = "up" /\ On(j) \in pending
    /\ phase[j] \in {"setup", "finally", "tail", "again", "stuck"}
    /\ pending' = pending \ {On(j)}
    /\ tid' \in IF phase[j] = "finally" THEN {tid, None} ELSE {tid}
    /\ spoiled' = (spoiled \/ Redirects(j))
    /\ before' = [before EXCEPT ![j] = NoVars]
    /\ Goto(j, "raised")
    /\ UNCHANGED <<server, lock, result, stdout, saved, timer, aim, intr,
                   interrupts, nsVars, bounds, shared>>

LoopHit == server = "up" /\ "loop" \in pending /\ \A u \in Upload : ~Executing(u)

\* In the event loop it hits the handler that runs, and fails its request: of some other
\* route, or of a cell that comes for the lock or is about to be answered.
LoopAbsorbs ==
    /\ LoopHit
    /\ pending' = pending \ {"loop"}
    /\ \/ UNCHANGED <<phase, lock>>
       \/ \E c \in Cell : /\ phase[c] \in {"waiting", "returned"} /\ Goto(c, "failed")
                         /\ lock' = IF lock = c THEN None ELSE lock
    /\ UNCHANGED <<server, tid, result, stdout, saved, before, timer, aim, intr,
                   interrupts, nsVars, bounds, history>>

\* Or, as an exception that is no Exception and that the HTTP server does not stop,
\* it ends the event loop.
Escapes ==
    /\ server = "up"
    /\ LoopHit \/ \E j \in Job : phase[j] = "raised"
    /\ server' = "down"
    /\ UNCHANGED <<lock, tid, execVars, raiseVars, nsVars, bounds, history>>

-----------------------------------------------------------------------------
(* Handlers that touch the namespace without the lock. *)

\* The result frame is stored and its write recorded.
Sql(q) ==
    /\ MayEnter /\ q \notin queried
    /\ \E x \in Var : /\ ns' = [ns EXCEPT ![x] = q]
                      /\ prov' = [prov EXCEPT ![x] = q]
    /\ queried' = queried \cup {q}
    /\ shared' = shared \cup (IF Recorders = {} THEN {} ELSE {q})
    /\ UNCHANGED <<server, lock, tid, execVars, raiseVars, resets, spoiled>>

Reset ==
    /\ MayEnter
    /\ resets' = resets + 1
    /\ ns' = NoVars /\ prov' = NoVars
    /\ UNCHANGED <<server, lock, tid, execVars, raiseVars, queried, history>>

-----------------------------------------------------------------------------
Execute(j) ==
    \/ Enter(j) \/ Write(j) \/ End(j) \/ Finally(j) \/ Tail(j)
    \/ Interrupted(j) \/ Uncaught(j) \/ Fails(j)
Timer(j) == TimerFires(j) \/ TimerRaises(j)

Next ==
    \/ \E c \in Cell :
          \/ Arrive(c) \/ Acquire(c) \/ Pick(c) \/ Lost(c) \/ Answer(c)
          \/ AgainWrites(c) \/ AgainEnds(c)
    \/ \E u \in Upload : Load(u)
    \/ \E j \in Job : Execute(j) \/ Timer(j)
    \/ InterruptAims \/ InterruptRaises \/ LoopAbsorbs \/ Escapes \/ Reset
    \/ \E q \in Query : Sql(q)

Spec == Init /\ [][Next]_vars

\* Code ends that does not loop, and an exception is delivered, but not to what waits
\* for ever.
Proceeds(j) ==
    \/ Enter(j) \/ End(j) \/ Finally(j) \/ Tail(j) \/ Interrupted(j)
    \/ phase[j] # "stuck" /\ Uncaught(j)
Worker == \E c \in Cell : Pick(c) \/ Lost(c) \/ Proceeds(c) \/ AgainEnds(c)
Loop ==
    \/ \E u \in Upload : Proceeds(u)
    \/ \E c \in Cell : Acquire(c) \/ Answer(c) \/ Fails(c)
    \/ InterruptRaises \/ LoopAbsorbs \/ Escapes

\* Each thread runs, and timers go off.  Clients owe nothing.
FairSpec == Spec /\ WF_vars(Worker) /\ WF_vars(Loop) /\ WF_vars(\E j \in Job : Timer(j))

-----------------------------------------------------------------------------
(* Properties. *)

\* Every variable has its type: the fields of SandboxExecutor, the lock, the
\* threads that PyThreadState_SetAsyncExc is called on.
TypeOK ==
    /\ server \in {"up", "down"} /\ lock \in Cell \cup {None}
    /\ phase \in [Job -> Phase]
    /\ result \in [Job -> {"none", "ok", "error", "exit", "timeout", "interrupted"}]
    /\ tid \in Thread \cup {None} /\ stdout \in Job \cup {None}
    /\ saved \in [Job -> Job \cup {None}]
    /\ timer \in [Job -> {"off", "armed", "aimed", "over"}]
    /\ aim \in [Job -> Thread \cup {None}]
    /\ intr \in Thread \cup {None} /\ pending \subseteq Thread
    /\ ns \in [Var -> Writer] /\ prov \in [Var -> Writer]
    /\ before \in [Job -> [Var -> Writer]]
    /\ interrupts \in Nat /\ resets \in Nat
    /\ queried \subseteq Query
    /\ shared \subseteq Job \cup Query /\ spoiled \in BOOLEAN

\* What a client sees of an execution.
StageOf(p) ==
    CASE p = "new" -> "idle"
      [] p \in {"waiting", "submitted"} -> "asked"
      [] p \in {"setup", "body", "finally"} -> "running"
      [] p \in {"tail", "again", "stuck"} -> "shown"
      [] p = "returned" -> "ran"
      [] p = "done" -> "told"
      [] p \in {"raised", "failed", "lost"} -> "lost"

Stage == [j \in Job |-> StageOf(phase[j])]

Sandbox == INSTANCE SequentialSandbox
           WITH stage <- Stage, console <- stdout, outcome <- result, crowded <- spoiled

\* Whoever raises in which thread, and however executions end: to its clients the server
\* is one that runs a cell at a time (code_engine.py:23), its last expression included,
\* and tells it its own result, or none.  Until an upload has redirected sys.stdout
\* beside another execution, or a KeyboardInterrupt has left a redirection in place, each
\* has it to itself until its code ends, and leaves it as it was.
ImplementsSandbox == Sandbox!BSpec

\* If executions have kept apart, sys.stdout is the server's own whenever none is in
\* its try, however each of them ended (execute()'s finally).
StdoutRestored ==
    server = "up" /\ ~spoiled /\ (\A j \in Job : ~Redirects(j)) => stdout = None

\* The job is over, well, and is entered into the provenance.
Recorded(j) == phase[j] \in {"again", "stuck", "returned", "done"} /\ result[j] = "ok"

\* At any time, also while another cell runs, is reset under or fails: the "last_cell" of
\* a variable that has the value a cell, an upload or a statement gave it is that one, if
\* nobody else was in the namespace while it ran.  (Values are told apart as their
\* fingerprints are: by identity and size.)
ProvenanceNamesWriter ==
    \A x \in Var : \A w \in (Job \cup Query) \ shared :
        ns[x] = w /\ (w \in Job => Recorded(w)) => prov[x] = w

\* What nothing in the code answers: the server is down; a KeyboardInterrupt has ended the
\* worker with its job; the second evaluation of a cell waits for ever; an upload has run
\* beside a cell that loops, and left its timer no thread to raise in.
Undone ==
    \/ server = "down"
    \/ \E c \in Cell : phase[c] \in {"lost", "stuck"} \/ c \in Looping \cap shared

\* Otherwise a cell that waits for the lock is answered, if only with an error, whatever
\* the cells before it do: the timer breaks a loop, every end of execute(), SystemExit
\* and a stray KeyboardInterrupt included, leaves the lock.
CellsAreAnswered ==
    \A c \in Cell : phase[c] = "waiting" ~> phase[c] \in {"done", "failed"} \/ Undone
=============================================================================
