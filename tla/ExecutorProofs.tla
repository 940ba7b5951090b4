--------------------------- MODULE ExecutorProofs ---------------------------
(***************************************************************************)
(* What the execution lock and the snapshot of the namespace are for, for  *)
(* any cells, uploads, statements, timers and interrupts: the server runs  *)
(* a cell at a time, and gives each its output while uploads keep apart;   *)
(* and provenance is right of whoever was alone in the namespace.          *)
(***************************************************************************)
EXTENDS Executor, TLAPS

-----------------------------------------------------------------------------
(* Types. *)

\* A timer that is about to raise has found a thread.
AimSound == \A j \in Job : timer[j] = "aimed" => aim[j] \in Thread

\* Every step keeps the types.
LEMMA TypeStep == TypeOK /\ AimSound /\ [Next]_vars => TypeOK'
<1> SUFFICES ASSUME TypeOK, AimSound, [Next]_vars PROVE TypeOK'
  OBVIOUS
<1> USE JobsAssumption DEF execVars, raiseVars, nsVars, bounds, history, Goto, Job, TypeOK,
                           Phase, Writer, Thread, On
<1>1. ASSUME NEW c \in Cell, Arrive(c) PROVE TypeOK'
  BY <1>1 DEF Arrive, MayArrive
<1>2. ASSUME NEW c \in Cell, Acquire(c) PROVE TypeOK'
  BY <1>2 DEF Acquire
<1>3. ASSUME NEW c \in Cell, Pick(c) PROVE TypeOK'
  <2>1. spoiled' \in BOOLEAN
    BY <1>3 DEF Pick, Begin
  <2>2. shared' \subseteq Job \cup Query
    BY <1>3 DEF Pick, Begin, Recorders
  <2> QED
    BY <1>3, <2>1, <2>2 DEF Pick, Begin
<1>4. ASSUME NEW c \in Cell, Lost(c) PROVE TypeOK'
  BY <1>4 DEF Lost, NoVars
<1>5. ASSUME NEW c \in Cell, Answer(c) PROVE TypeOK'
  BY <1>5 DEF Answer
<1>6. ASSUME NEW c \in Cell, AgainWrites(c) PROVE TypeOK'
  <2>1. PICK x \in Var, w \in {"again", None} : ns' = [ns EXCEPT ![x] = w]
    BY <1>6 DEF AgainWrites
  <2>2. ns' \in [Var -> Writer]
    BY <2>1
  <2> QED
    BY <1>6, <2>2 DEF AgainWrites
<1>7. ASSUME NEW c \in Cell, AgainEnds(c) PROVE TypeOK'
  BY <1>7 DEF AgainEnds, Runs
<1>8. ASSUME NEW u \in Upload, Load(u) PROVE TypeOK'
  <2>1. spoiled' \in BOOLEAN
    BY <1>8 DEF Load, MayArrive, Begin
  <2>2. shared' \subseteq Job \cup Query
    BY <1>8 DEF Load, MayArrive, Begin, Recorders
  <2> QED
    BY <1>8, <2>1, <2>2 DEF Load, MayArrive, Begin
<1>9. ASSUME NEW j \in Job, Enter(j) PROVE TypeOK'
  BY <1>9 DEF Enter, Runs
<1>10. ASSUME NEW j \in Job, Write(j) PROVE TypeOK'
  <2>1. PICK x \in Var, w \in {j, None} : ns' = [ns EXCEPT ![x] = w]
    BY <1>10 DEF Write
  <2>2. ns' \in [Var -> Writer]
    BY <2>1
  <2> QED
    BY <1>10, <2>2 DEF Write
<1>11. ASSUME NEW j \in Job, End(j) PROVE TypeOK'
  BY <1>11 DEF End, Runs
<1>12. ASSUME NEW j \in Job, Finally(j) PROVE TypeOK'
  BY <1>12 DEF Finally, Runs, NoVars
<1>13. ASSUME NEW j \in Job, Tail(j) PROVE TypeOK'
  <2>1. prov' \in [Var -> Writer]
    BY <1>13 DEF Tail, Names
  <2>2. phase' \in [Job -> Phase]
    BY <1>13 DEF Tail
  <2> QED
    BY <1>13, <2>1, <2>2 DEF Tail, NoVars
<1>14. ASSUME NEW j \in Job, Interrupted(j) PROVE TypeOK'
  BY <1>14 DEF Interrupted
<1>15. ASSUME NEW j \in Job, Uncaught(j) PROVE TypeOK'
  BY <1>15 DEF Uncaught, NoVars
<1>16. ASSUME NEW j \in Job, Fails(j) PROVE TypeOK'
  BY <1>16 DEF Fails
<1>17. ASSUME LoopAbsorbs PROVE TypeOK'
  BY <1>17 DEF LoopAbsorbs
<1>18. ASSUME Reset PROVE TypeOK'
  BY <1>18 DEF Reset, NoVars
<1>19. ASSUME NEW q \in Query, Sql(q) PROVE TypeOK'
  <2>1. PICK x \in Var : ns' = [ns EXCEPT ![x] = q] /\ prov' = [prov EXCEPT ![x] = q]
    BY <1>19 DEF Sql
  <2>2. ns' \in [Var -> Writer] /\ prov' \in [Var -> Writer]
    BY <2>1
  <2> QED
    BY <1>19, <2>2 DEF Sql
<1>20. ASSUME NEW j \in Job, Timer(j) PROVE TypeOK'
  <2>1. CASE TimerFires(j)
    BY <2>1 DEF TimerFires, Through
  <2>2. CASE TimerRaises(j)
    <3>1. pending' \subseteq Thread
      BY <2>2 DEF TimerRaises, AimSound
    <3> QED
      BY <2>2, <3>1 DEF TimerRaises, Through
  <2> QED
    BY <1>20, <2>1, <2>2 DEF Timer
<1>21. ASSUME InterruptAims PROVE TypeOK'
  BY <1>21, BoundsAssumption DEF InterruptAims
<1>22. ASSUME InterruptRaises PROVE TypeOK'
  BY <1>22 DEF InterruptRaises
<1>23. ASSUME Escapes PROVE TypeOK'
  BY <1>23 DEF Escapes
<1>24. CASE UNCHANGED vars
  BY <1>24 DEF vars
<1> QED
  BY <1>1, <1>2, <1>3, <1>4, <1>5, <1>6, <1>7, <1>8, <1>9, <1>10, <1>11, <1>12, <1>13, <1>14,
     <1>15, <1>16, <1>17, <1>18, <1>19, <1>20, <1>21, <1>22, <1>23, <1>24
     DEF Next, Execute

\* A timer is aimed only at what it read.
LEMMA AimStep == TypeOK /\ AimSound /\ [Next]_vars => AimSound'
<1> SUFFICES ASSUME TypeOK, AimSound, [Next]_vars PROVE AimSound'
  OBVIOUS
<1> USE JobsAssumption DEF execVars, raiseVars, nsVars, bounds, history, Goto, Job, TypeOK,
                           AimSound
<1>1. ASSUME NEW c \in Cell, Arrive(c) PROVE AimSound'
  BY <1>1 DEF Arrive, MayArrive
<1>2. ASSUME NEW c \in Cell, Acquire(c) PROVE AimSound'
  BY <1>2 DEF Acquire
<1>3. ASSUME NEW c \in Cell, Pick(c) PROVE AimSound'
  BY <1>3 DEF Pick, Begin
<1>4. ASSUME NEW c \in Cell, Lost(c) PROVE AimSound'
  BY <1>4 DEF Lost, NoVars
<1>5. ASSUME NEW c \in Cell, Answer(c) PROVE AimSound'
  BY <1>5 DEF Answer
<1>6. ASSUME NEW c \in Cell, AgainWrites(c) PROVE AimSound'
  BY <1>6 DEF AgainWrites, Runs
<1>7. ASSUME NEW c \in Cell, AgainEnds(c) PROVE AimSound'
  BY <1>7 DEF AgainEnds, Runs
<1>8. ASSUME NEW u \in Upload, Load(u) PROVE AimSound'
  BY <1>8 DEF Load, MayArrive, Begin
<1>9. ASSUME NEW j \in Job, Enter(j) PROVE AimSound'
  BY <1>9 DEF Enter, Runs
<1>10. ASSUME NEW j \in Job, Write(j) PROVE AimSound'
  BY <1>10 DEF Write, Runs
<1>11. ASSUME NEW j \in Job, End(j) PROVE AimSound'
  BY <1>11 DEF End, Runs
<1>12. ASSUME NEW j \in Job, Finally(j) PROVE AimSound'
  BY <1>12 DEF Finally, Runs, NoVars
<1>13. ASSUME NEW j \in Job, Tail(j) PROVE AimSound'
  BY <1>13 DEF Tail, Runs, Names, NoVars
<1>14. ASSUME NEW j \in Job, Interrupted(j) PROVE AimSound'
  BY <1>14 DEF Interrupted
<1>15. ASSUME NEW j \in Job, Uncaught(j) PROVE AimSound'
  BY <1>15 DEF Uncaught, NoVars
<1>16. ASSUME NEW j \in Job, Fails(j) PROVE AimSound'
  BY <1>16 DEF Fails
<1>17. ASSUME LoopAbsorbs PROVE AimSound'
  BY <1>17 DEF LoopAbsorbs
<1>18. ASSUME Reset PROVE AimSound'
  BY <1>18 DEF Reset, NoVars
<1>19. ASSUME NEW q \in Query, Sql(q) PROVE AimSound'
  BY <1>19 DEF Sql
<1>20. ASSUME NEW j \in Job, Timer(j) PROVE AimSound'
  BY <1>20 DEF Timer, TimerFires, TimerRaises, Through
<1>21. ASSUME InterruptAims PROVE AimSound'
  BY <1>21 DEF InterruptAims
<1>22. ASSUME InterruptRaises PROVE AimSound'
  BY <1>22 DEF InterruptRaises
<1>23. ASSUME Escapes PROVE AimSound'
  BY <1>23 DEF Escapes
<1>24. CASE UNCHANGED vars
  BY <1>24 DEF vars
<1> QED
  BY <1>1, <1>2, <1>3, <1>4, <1>5, <1>6, <1>7, <1>8, <1>9, <1>10, <1>11, <1>12, <1>13, <1>14,
     <1>15, <1>16, <1>17, <1>18, <1>19, <1>20, <1>21, <1>22, <1>23, <1>24
     DEF Next, Execute

\* At first, too.
LEMMA TypeInit == Init => TypeOK /\ AimSound
<1>1. Init => spoiled \in BOOLEAN
  BY DEF Init
<1> QED
  BY <1>1 DEF Init, TypeOK, AimSound, Phase, Writer, NoVars

\* Types and aims, in every state.
LEMMA Typed == Spec => [](TypeOK /\ AimSound)
  BY TypeInit, TypeStep, AimStep, PTL DEF Spec

\* Every state is well typed; in particular KeyboardInterrupt is raised in
\* threads only, never in None (SandboxExecutor.interrupt, _timeout_trigger).
THEOREM TypeCorrect == Spec => []TypeOK
  BY Typed, PTL

\* Timers and interrupts only raise; what that does to an execution is for the execution.
Quiet == UNCHANGED <<lock, execVars, nsVars, queried, history>>

LEMMA QuietSteps ==
    \/ \E j \in Job : Timer(j)
    \/ InterruptAims \/ InterruptRaises \/ Escapes \/ UNCHANGED vars
    => Quiet
  BY DEF Timer, TimerFires, TimerRaises, InterruptAims, InterruptRaises, Escapes, vars, Quiet,
         bounds

-----------------------------------------------------------------------------
(* The lock and sys.stdout. *)

\* From the moment it has the lock until its handler leaves it, a cell holds it; a cell
\* whose worker died holds it for ever.
Locked ==
    \A c \in Cell :
        phase[c] \in {"submitted", "setup", "body", "finally", "tail", "again", "stuck",
                      "raised", "returned", "lost"}
        => lock = c

\* While redirections have kept apart, there is at most one, it is in force, and undoing it
\* gives back the real stdout.
Kept ==
    ~spoiled =>
        /\ \A i, j \in Job : Redirects(i) /\ Redirects(j) => i = j
        /\ \A j \in Job : Redirects(j) => saved[j] = None /\ stdout = j
        /\ (\A j \in Job : ~Redirects(j)) => stdout = None

\* The lock is handed over only when it is free.
LEMMA LockedStep == TypeOK /\ Locked /\ [Next]_vars => Locked'
<1> SUFFICES ASSUME TypeOK, Locked, [Next]_vars PROVE Locked'
  OBVIOUS
<1> USE JobsAssumption DEF execVars, raiseVars, nsVars, bounds, history, Goto, Job, TypeOK,
                           Phase, Locked
<1>1. ASSUME NEW c \in Cell, Arrive(c) PROVE Locked'
  BY <1>1 DEF Arrive, MayArrive
<1>2. ASSUME NEW c \in Cell, Acquire(c) PROVE Locked'
  BY <1>2 DEF Acquire
<1>3. ASSUME NEW c \in Cell, Pick(c) PROVE Locked'
  BY <1>3 DEF Pick, Begin
<1>4. ASSUME NEW c \in Cell, Lost(c) PROVE Locked'
  BY <1>4 DEF Lost, NoVars
<1>5. ASSUME NEW c \in Cell, Answer(c) PROVE Locked'
  BY <1>5 DEF Answer
<1>6. ASSUME NEW c \in Cell, AgainWrites(c) PROVE Locked'
  BY <1>6 DEF AgainWrites, Runs
<1>7. ASSUME NEW c \in Cell, AgainEnds(c) PROVE Locked'
  BY <1>7 DEF AgainEnds, Runs
<1>8. ASSUME NEW u \in Upload, Load(u) PROVE Locked'
  BY <1>8 DEF Load, MayArrive, Begin
<1>9. ASSUME NEW j \in Job, Enter(j) PROVE Locked'
  BY <1>9 DEF Enter, Runs
<1>10. ASSUME NEW j \in Job, Write(j) PROVE Locked'
  BY <1>10 DEF Write, Runs
<1>11. ASSUME NEW j \in Job, End(j) PROVE Locked'
  BY <1>11 DEF End, Runs
<1>12. ASSUME NEW j \in Job, Finally(j) PROVE Locked'
  BY <1>12 DEF Finally, Runs, NoVars
<1>13. ASSUME NEW j \in Job, Tail(j) PROVE Locked'
  BY <1>13 DEF Tail, Runs, Names, NoVars
<1>14. ASSUME NEW j \in Job, Interrupted(j) PROVE Locked'
  BY <1>14 DEF Interrupted
<1>15. ASSUME NEW j \in Job, Uncaught(j) PROVE Locked'
  BY <1>15 DEF Uncaught, NoVars
<1>16. ASSUME NEW j \in Job, Fails(j) PROVE Locked'
  BY <1>16 DEF Fails
<1>17. ASSUME LoopAbsorbs PROVE Locked'
  BY <1>17 DEF LoopAbsorbs
<1>18. ASSUME Reset PROVE Locked'
  BY <1>18 DEF Reset, NoVars
<1>19. ASSUME NEW q \in Query, Sql(q) PROVE Locked'
  BY <1>19 DEF Sql
<1>20. ASSUME Quiet PROVE Locked'
  BY <1>20 DEF Quiet
<1> QED
  BY <1>1, <1>2, <1>3, <1>4, <1>5, <1>6, <1>7, <1>8, <1>9, <1>10, <1>11, <1>12, <1>13, <1>14,
     <1>15, <1>16, <1>17, <1>18, <1>19, <1>20, QuietSteps
     DEF Next, Execute

\* Each execution undoes its own redirection, or spoils it.
LEMMA KeptStep == TypeOK /\ Kept /\ [Next]_vars => Kept'
<1> SUFFICES ASSUME TypeOK, Kept, [Next]_vars PROVE Kept'
  OBVIOUS
<1> USE JobsAssumption DEF execVars, raiseVars, nsVars, bounds, history, Goto, Job, TypeOK,
                           Phase, Kept, Redirects
<1>1. ASSUME NEW c \in Cell, Arrive(c) PROVE Kept'
  BY <1>1 DEF Arrive, MayArrive
<1>2. ASSUME NEW c \in Cell, Acquire(c) PROVE Kept'
  BY <1>2 DEF Acquire
<1>3. ASSUME NEW c \in Cell, Pick(c) PROVE Kept'
  BY <1>3 DEF Pick, Begin
<1>4. ASSUME NEW c \in Cell, Lost(c) PROVE Kept'
  BY <1>4 DEF Lost, NoVars
<1>5. ASSUME NEW c \in Cell, Answer(c) PROVE Kept'
  BY <1>5 DEF Answer
<1>6. ASSUME NEW c \in Cell, AgainWrites(c) PROVE Kept'
  BY <1>6 DEF AgainWrites, Runs
<1>7. ASSUME NEW c \in Cell, AgainEnds(c) PROVE Kept'
  BY <1>7 DEF AgainEnds, Runs
<1>8. ASSUME NEW u \in Upload, Load(u) PROVE Kept'
  BY <1>8 DEF Load, MayArrive, Begin
<1>9. ASSUME NEW j \in Job, Enter(j) PROVE Kept'
  BY <1>9 DEF Enter, Runs
<1>10. ASSUME NEW j \in Job, Write(j) PROVE Kept'
  BY <1>10 DEF Write, Runs
<1>11. ASSUME NEW j \in Job, End(j) PROVE Kept'
  BY <1>11 DEF End, Runs
<1>12. ASSUME NEW j \in Job, Finally(j) PROVE Kept'
  BY <1>12 DEF Finally, Runs, NoVars
<1>13. ASSUME NEW j \in Job, Tail(j) PROVE Kept'
  BY <1>13 DEF Tail, Runs, Names, NoVars
<1>14. ASSUME NEW j \in Job, Interrupted(j) PROVE Kept'
  BY <1>14 DEF Interrupted
<1>15. ASSUME NEW j \in Job, Uncaught(j) PROVE Kept'
  BY <1>15 DEF Uncaught, NoVars
<1>16. ASSUME NEW j \in Job, Fails(j) PROVE Kept'
  BY <1>16 DEF Fails
<1>17. ASSUME LoopAbsorbs PROVE Kept'
  BY <1>17 DEF LoopAbsorbs
<1>18. ASSUME Reset PROVE Kept'
  BY <1>18 DEF Reset, NoVars
<1>19. ASSUME NEW q \in Query, Sql(q) PROVE Kept'
  BY <1>19 DEF Sql
<1>20. ASSUME Quiet PROVE Kept'
  BY <1>20 DEF Quiet
<1> QED
  BY <1>1, <1>2, <1>3, <1>4, <1>5, <1>6, <1>7, <1>8, <1>9, <1>10, <1>11, <1>12, <1>13, <1>14,
     <1>15, <1>16, <1>17, <1>18, <1>19, <1>20, QuietSteps
     DEF Next, Execute

\* For any cells, uploads, timers and interrupts: while no redirections have overlapped and
\* none was left in place, stdout is the real one whenever no execution is in its try
\* (execute_code, SandboxExecutor.execute).
THEOREM StdoutIsRestored == Spec => []StdoutRestored
<1>1. Init => Kept
  BY DEF Init, Kept, Redirects
<1>2. TypeOK /\ Kept /\ [Next]_vars => Kept'
  BY KeptStep
<1>3. Kept => StdoutRestored
  BY DEF Kept, StdoutRestored
<1> QED
  BY <1>1, <1>2, <1>3, TypeCorrect, PTL DEF Spec

-----------------------------------------------------------------------------
(* The sandbox that runs one cell at a time. *)

\* An execution has a result when its try is over, and not before; only a good one is
\* evaluated again.
Concludes == \A j \in Job :
    /\ phase[j] \in {"new", "waiting", "submitted", "setup", "body"} => result[j] = "none"
    /\ phase[j] = "finally" => result[j] # "none"
    /\ phase[j] \in {"again", "stuck"} => result[j] = "ok"

\* The inductive invariant.
SandboxInv == TypeOK /\ AimSound /\ Locked /\ Kept /\ Concludes

\* A job is given its result once.
LEMMA ConcludesStep == TypeOK /\ Concludes /\ [Next]_vars => Concludes'
<1> SUFFICES ASSUME TypeOK, Concludes, [Next]_vars PROVE Concludes'
  OBVIOUS
<1> USE JobsAssumption DEF execVars, raiseVars, nsVars, bounds, history, Goto, Job, TypeOK,
                           Phase, Concludes
<1>1. ASSUME NEW c \in Cell, Arrive(c) PROVE Concludes'
  BY <1>1 DEF Arrive, MayArrive
<1>2. ASSUME NEW c \in Cell, Acquire(c) PROVE Concludes'
  BY <1>2 DEF Acquire
<1>3. ASSUME NEW c \in Cell, Pick(c) PROVE Concludes'
  BY <1>3 DEF Pick, Begin
<1>4. ASSUME NEW c \in Cell, Lost(c) PROVE Concludes'
  BY <1>4 DEF Lost, NoVars
<1>5. ASSUME NEW c \in Cell, Answer(c) PROVE Concludes'
  BY <1>5 DEF Answer
<1>6. ASSUME NEW c \in Cell, AgainWrites(c) PROVE Concludes'
  BY <1>6 DEF AgainWrites, Runs
<1>7. ASSUME NEW c \in Cell, AgainEnds(c) PROVE Concludes'
  BY <1>7 DEF AgainEnds, Runs
<1>8. ASSUME NEW u \in Upload, Load(u) PROVE Concludes'
  BY <1>8 DEF Load, MayArrive, Begin
<1>9. ASSUME NEW j \in Job, Enter(j) PROVE Concludes'
  BY <1>9 DEF Enter, Runs
<1>10. ASSUME NEW j \in Job, Write(j) PROVE Concludes'
  BY <1>10 DEF Write, Runs
<1>11. ASSUME NEW j \in Job, End(j) PROVE Concludes'
  BY <1>11 DEF End, Runs
<1>12. ASSUME NEW j \in Job, Finally(j) PROVE Concludes'
  BY <1>12 DEF Finally, Runs, NoVars
<1>13. ASSUME NEW j \in Job, Tail(j) PROVE Concludes'
  BY <1>13 DEF Tail, Runs, Names, NoVars
<1>14. ASSUME NEW j \in Job, Interrupted(j) PROVE Concludes'
  BY <1>14 DEF Interrupted
<1>15. ASSUME NEW j \in Job, Uncaught(j) PROVE Concludes'
  BY <1>15 DEF Uncaught, NoVars
<1>16. ASSUME NEW j \in Job, Fails(j) PROVE Concludes'
  BY <1>16 DEF Fails
<1>17. ASSUME LoopAbsorbs PROVE Concludes'
  BY <1>17 DEF LoopAbsorbs
<1>18. ASSUME Reset PROVE Concludes'
  BY <1>18 DEF Reset, NoVars
<1>19. ASSUME NEW q \in Query, Sql(q) PROVE Concludes'
  BY <1>19 DEF Sql
<1>20. ASSUME Quiet PROVE Concludes'
  BY <1>20 DEF Quiet
<1> QED
  BY <1>1, <1>2, <1>3, <1>4, <1>5, <1>6, <1>7, <1>8, <1>9, <1>10, <1>11, <1>12, <1>13, <1>14,
     <1>15, <1>16, <1>17, <1>18, <1>19, <1>20, QuietSteps
     DEF Next, Execute

\* What moves one job on, moves its stage on.
LEMMA StageMoves ==
    ASSUME TypeOK, NEW j \in Job, NEW p, Goto(j, p)
    PROVE  /\ Stage[j] = StageOf(phase[j]) /\ Stage' = [Stage EXCEPT ![j] = StageOf(p)]
           /\ StageOf(p) = StageOf(phase[j]) => Stage' = Stage
  BY DEF Stage, Goto, TypeOK

\* The stages of the phases.
LEMMA Stages ==
    /\ StageOf("new") = "idle" /\ StageOf("waiting") = "asked" /\ StageOf("submitted") = "asked"
    /\ StageOf("setup") = "running" /\ StageOf("body") = "running"
    /\ StageOf("finally") = "running" /\ StageOf("tail") = "shown"
    /\ StageOf("again") = "shown" /\ StageOf("stuck") = "shown"
    /\ StageOf("returned") = "ran" /\ StageOf("done") = "told"
    /\ StageOf("raised") = "lost" /\ StageOf("failed") = "lost" /\ StageOf("lost") = "lost"
  BY DEF StageOf

\* A stage tells which phases it may be.
LEMMA StageIs ==
    ASSUME TypeOK, NEW j \in Job
    PROVE  /\ Stage[j] = "running" <=> Redirects(j)
           /\ Stage[j] = "shown" <=> phase[j] \in {"tail", "again", "stuck"}
  BY DEF TypeOK, Phase, Stage, StageOf, Redirects

\* Every step is one of the sandbox's, or none.
LEMMA SandboxStep == SandboxInv /\ [Next]_vars => [Sandbox!BNext]_(Sandbox!sandbox)
<1> SUFFICES ASSUME SandboxInv, [Next]_vars PROVE [Sandbox!BNext]_(Sandbox!sandbox)
  OBVIOUS
<1> DEFINE Done == [Sandbox!BNext]_(Sandbox!sandbox)
<1>a. /\ TypeOK /\ Kept /\ Locked /\ Concludes
      /\ Cell \subseteq Job /\ Upload \subseteq Job /\ Sandbox!Job = Job
  BY DEF SandboxInv, Job, Sandbox!Job
<1>b. Stage' = Stage /\ UNCHANGED <<stdout, result, spoiled, ns>> => Done
  BY DEF Sandbox!sandbox
<1>c. ASSUME NEW j \in Job,
             \/ Sandbox!Start(j) \/ Sandbox!Assign(j) \/ Sandbox!Conclude(j)
             \/ Sandbox!Stop(j) \/ Sandbox!Tell(j) \/ Sandbox!Lose(j)
      PROVE  Done
  BY <1>a, <1>c DEF Sandbox!BNext
<1>d. ASSUME NEW c \in Cell, Sandbox!Ask(c) \/ Sandbox!Show(c) \/ Sandbox!Shown(c) PROVE Done
  BY <1>d DEF Sandbox!BNext
<1>e. Sandbox!Outside => Done
  BY DEF Sandbox!BNext
<1>f. ASSUME NEW j \in Job, Redirects(j) PROVE Sandbox!Owns(j)
  BY <1>a, <1>f, StageIs DEF Sandbox!Owns, Kept
<1>g. ASSUME NEW j \in Job, Begin(j), phase[j] \in {"new", "submitted"},
             j \in Cell => lock = j
      PROVE  Sandbox!Start(j)
  <2>1. Sandbox!Step(j, {"idle", "asked"}, "running")
    BY <1>a, <1>g, StageMoves, Stages DEF Begin, Sandbox!Step
  <2>2. ASSUME j \in Cell, NEW c \in Cell PROVE Stage[c] \notin {"running", "shown"}
    <3>1. c # j => phase[c] \notin {"setup", "body", "finally", "tail", "again", "stuck"}
      BY <1>a, <1>g, <2>2 DEF Locked
    <3> QED
      BY <1>a, <1>g, <3>1, StageIs DEF Redirects
  <2>3. (\E i \in Job : Redirects(i)) <=> Sandbox!Running # {}
    BY <1>a, StageIs DEF Sandbox!Running
  <2>4. ~spoiled' => stdout = None
    BY <1>a, <1>g DEF Begin, Kept
  <2> QED
    BY <1>a, <1>g, <2>1, <2>2, <2>3, <2>4 DEF Begin, Sandbox!Start, nsVars
<1>h. ASSUME NEW j \in Job, NEW p \in {"raised", "failed", "lost"}, Goto(j, p),
             phase[j] \in {"waiting", "submitted", "setup", "finally", "tail", "again",
                           "stuck", "returned"},
             spoiled' = (spoiled \/ Redirects(j)) \/ (~Redirects(j) /\ spoiled' = spoiled),
             UNCHANGED <<stdout, result, ns>>
      PROVE  Done
  <2>1. Sandbox!Step(j, {"asked", "running", "shown", "ran"}, "lost")
    BY <1>a, <1>h, StageMoves, Stages DEF Sandbox!Step
  <2>2. spoiled \in BOOLEAN
    BY <1>a DEF TypeOK
  <2>3. spoiled' = (spoiled \/ Stage[j] = "running")
    BY <1>a, <1>h, <2>2, StageIs
  <2>4. Sandbox!Lose(j)
    BY <1>h, <2>1, <2>3 DEF Sandbox!Lose
  <2> QED
    BY <1>c, <2>4
<1> HIDE DEF Done
<1>1. ASSUME NEW c \in Cell, Arrive(c) PROVE Done
  <2>1. Sandbox!Ask(c)
    BY <1>1, <1>a, StageMoves, Stages
       DEF Arrive, MayArrive, Sandbox!Ask, Sandbox!Step, nsVars, history
  <2> QED
    BY <1>d, <2>1
<1>2. ASSUME NEW c \in Cell, Acquire(c) PROVE Done
  BY <1>2, <1>a, <1>b, StageMoves, Stages DEF Acquire, nsVars, history
<1>3. ASSUME NEW c \in Cell, Pick(c) PROVE Done
  BY <1>3, <1>a, <1>c, <1>g DEF Pick, Locked
<1>4. ASSUME NEW c \in Cell, Lost(c) PROVE Done
  BY <1>4, <1>a, <1>h DEF Lost, nsVars, history, Redirects
<1>5. ASSUME NEW c \in Cell, Answer(c) PROVE Done
  <2>1. Sandbox!Tell(c)
    BY <1>5, <1>a, StageMoves, Stages DEF Answer, Sandbox!Tell, Sandbox!Step, nsVars, history
  <2> QED
    BY <1>a, <1>c, <2>1
<1>6. ASSUME NEW c \in Cell, AgainWrites(c) PROVE Done
  <2>1. Sandbox!Show(c)
    BY <1>6, <1>a, StageIs
       DEF AgainWrites, Runs, Concludes, Sandbox!Show, execVars, history, Stage
  <2> QED
    BY <1>d, <2>1
<1>7. ASSUME NEW c \in Cell, AgainEnds(c) PROVE Done
  <2>1. PICK p \in {"returned", "raised", "stuck"} : Goto(c, p)
    BY <1>7 DEF AgainEnds
  <2>2. CASE p = "returned"
    <3>1. Sandbox!Shown(c)
      BY <1>7, <1>a, <2>1, <2>2, StageMoves, Stages
         DEF AgainEnds, Runs, Sandbox!Shown, Sandbox!Step, nsVars, history
    <3> QED
      BY <1>d, <3>1
  <2>3. CASE p = "raised"
    BY <1>7, <1>a, <1>h, <2>1, <2>3 DEF AgainEnds, Runs, nsVars, history, Redirects
  <2>4. CASE p = "stuck"
    BY <1>7, <1>a, <1>b, <2>1, <2>4, StageMoves, Stages DEF AgainEnds, Runs, nsVars, history
  <2> QED
    BY <2>2, <2>3, <2>4
<1>8. ASSUME NEW u \in Upload, Load(u) PROVE Done
  BY <1>8, <1>a, <1>c, <1>g, JobsAssumption DEF Load, MayArrive
<1>9. ASSUME NEW j \in Job, Enter(j) PROVE Done
  BY <1>9, <1>a, <1>b, StageMoves, Stages DEF Enter, Runs, nsVars, history
<1>10. ASSUME NEW j \in Job, Write(j) PROVE Done
  <2>1. Sandbox!Owns(j) /\ Stage' = Stage
    BY <1>10, <1>f DEF Write, Runs, execVars, Redirects, Stage
  <2>2. Sandbox!Assign(j)
    BY <1>10, <2>1 DEF Write, execVars, history, Sandbox!Assign
  <2> QED
    BY <1>c, <2>2
<1>11. ASSUME NEW j \in Job, End(j) \/ Interrupted(j) PROVE Done
  <2>1. Sandbox!Owns(j) /\ Stage' = Stage /\ result[j] = "none"
    BY <1>11, <1>a, <1>f, StageMoves, Stages
       DEF End, Runs, Interrupted, Redirects, Concludes
  <2>2. PICK r \in {"ok", "error", "exit", "timeout", "interrupted"} :
            result' = [result EXCEPT ![j] = r]
    BY <1>11 DEF End, Interrupted
  <2>3. Sandbox!Conclude(j)
    BY <1>11, <2>1, <2>2 DEF End, Interrupted, nsVars, history, Sandbox!Conclude
  <2> QED
    BY <1>c, <2>3
<1>12. ASSUME NEW j \in Job, Finally(j) PROVE Done
  <2>1. Sandbox!Owns(j) /\ result[j] # "none"
    BY <1>12, <1>a, <1>f DEF Finally, Runs, Redirects, Concludes
  <2>2. Sandbox!Step(j, {"running"}, IF result[j] = "exit" THEN "lost" ELSE "shown")
    BY <1>12, <1>a, StageMoves, Stages DEF Finally, Runs, Sandbox!Step
  <2>3. spoiled \/ stdout' = None
    BY <1>12, <1>a DEF Finally, Runs, Redirects, Kept
  <2>4. Sandbox!Stop(j)
    BY <1>12, <2>1, <2>2, <2>3 DEF Finally, nsVars, history, Sandbox!Stop
  <2> QED
    BY <1>c, <2>4
<1>13. ASSUME NEW j \in Job, Tail(j) PROVE Done
  <2>1. /\ phase[j] = "tail"
        /\ \/ j \in Upload /\ Goto(j, "done")
           \/ j \in Cell /\ Goto(j, "returned")
           \/ j \in Cell /\ Goto(j, "again")
        /\ UNCHANGED <<stdout, result, spoiled, ns>>
    BY <1>13 DEF Tail, Runs, history
  <2>2. CASE j \in Upload /\ Goto(j, "done")
    <3>1. Sandbox!Tell(j)
      BY <1>a, <2>1, <2>2, StageMoves, Stages, JobsAssumption DEF Sandbox!Tell, Sandbox!Step
    <3> QED
      BY <1>c, <3>1
  <2>3. CASE j \in Cell /\ Goto(j, "returned")
    <3>1. Sandbox!Shown(j)
      BY <1>a, <2>1, <2>3, StageMoves, Stages DEF Sandbox!Shown, Sandbox!Step
    <3> QED
      BY <1>d, <2>3, <3>1
  <2>4. CASE j \in Cell /\ Goto(j, "again")
    BY <1>a, <1>b, <2>1, <2>4, StageMoves, Stages
  <2> QED
    BY <2>1, <2>2, <2>3, <2>4
<1>14. ASSUME NEW j \in Job, Uncaught(j) PROVE Done
  BY <1>14, <1>h DEF Uncaught, nsVars
<1>15. ASSUME NEW j \in Job, Fails(j) PROVE Done
  BY <1>15, <1>a, <1>b, StageMoves, Stages DEF Fails, nsVars, history
<1>16. ASSUME LoopAbsorbs PROVE Done
  <2>1. UNCHANGED <<stdout, result, spoiled, ns>>
    BY <1>16 DEF LoopAbsorbs, nsVars, history
  <2>2. CASE UNCHANGED phase
    BY <1>b, <2>1, <2>2 DEF Stage
  <2>3. ASSUME NEW c \in Cell, phase[c] \in {"waiting", "returned"}, Goto(c, "failed")
        PROVE  Done
    BY <1>a, <1>h, <2>1, <2>3 DEF Redirects
  <2> QED
    BY <1>16, <2>2, <2>3 DEF LoopAbsorbs
<1>17. ASSUME Reset PROVE Done
  <2>1. Sandbox!Outside
    BY <1>17 DEF Reset, NoVars, execVars, history, Sandbox!Outside, Stage
  <2> QED
    BY <1>e, <2>1
<1>18. ASSUME NEW q \in Query, Sql(q) PROVE Done
  <2>1. Sandbox!Outside
    BY <1>18 DEF Sql, execVars, Sandbox!Outside, Stage
  <2> QED
    BY <1>e, <2>1
<1>19. ASSUME Quiet PROVE Done
  BY <1>19, <1>b DEF Quiet, execVars, nsVars, history, Stage
<1>20. Done
  BY <1>1, <1>2, <1>3, <1>4, <1>5, <1>6, <1>7, <1>8, <1>9, <1>10, <1>11, <1>12,
     <1>13, <1>14, <1>15, <1>16, <1>17, <1>18, <1>19, QuietSteps
     DEF Next, Execute
<1> QED
  BY <1>20 DEF Done

\* For any cells, files, timers and interrupts: clients cannot tell the server from one that
\* runs a cell at a time, its last expression included, and gives each job its output until
\* an upload overlaps another or a KeyboardInterrupt leaves its redirection in place.
THEOREM Refinement == Spec => ImplementsSandbox
<1>1. Init => SandboxInv
  BY TypeInit DEF Init, SandboxInv, Locked, Kept, Redirects, Job, Concludes
<1>2. SandboxInv /\ [Next]_vars => SandboxInv'
  BY TypeStep, AimStep, LockedStep, KeptStep, ConcludesStep DEF SandboxInv
<1>3. Init => Sandbox!BInit
  BY Stages DEF Init, NoVars, Sandbox!BInit, Stage, Job, Sandbox!Job
<1>4. SandboxInv /\ [Next]_vars => [Sandbox!BNext]_(Sandbox!sandbox)
  BY SandboxStep
<1> QED
  BY <1>1, <1>2, <1>3, <1>4, PTL DEF Spec, ImplementsSandbox, Sandbox!BSpec

-----------------------------------------------------------------------------
(* Provenance. *)

Source == Job \cup Query
Unbegun(j) == phase[j] \in {"new", "waiting", "submitted"}

\* What has not begun has written nothing.
Traceless == \A x \in Var :
    /\ \A j \in Job : Unbegun(j) => ns[x] # j /\ \A i \in Job : before[i][x] # j
    /\ \A j \in Job : Executing(j) => before[j][x] # j
    /\ \A q \in Query \ queried : ns[x] # q /\ \A i \in Job : before[i][x] # q

\* Who executes beside another has shared the namespace.
Apart == \A i, j \in Job : Executing(i) /\ Executing(j) /\ i # j => i \in shared

\* May the execution still enter its changes?
Watches(i) == Executing(i) /\ (phase[i] = "tail" => result[i] = "ok")

\* What an execution finds in the namespace, written by one that was alone there, is in its
\* snapshot: it will not take it for its own.
Remembered == \A x \in Var : \A w \in Source \ shared :
    ns[x] = w /\ (w \in Job => Recorded(w)) => \A i \in Job : Watches(i) => before[i][x] = w

\* The inductive invariant.
ProvInv == TypeOK /\ Traceless /\ Apart /\ Remembered /\ ProvenanceNamesWriter

\* Executions write under their own name, after they began.
LEMMA TracelessStep == TypeOK /\ Traceless /\ [Next]_vars => Traceless'
<1> SUFFICES ASSUME TypeOK, Traceless, [Next]_vars PROVE Traceless'
  OBVIOUS
<1> USE JobsAssumption DEF execVars, raiseVars, nsVars, bounds, history, Goto, Job, TypeOK,
                           Phase, Executing, Unbegun, Writer, Traceless
<1>1. ASSUME NEW c \in Cell, Arrive(c) PROVE Traceless'
  BY <1>1 DEF Arrive, MayArrive
<1>2. ASSUME NEW c \in Cell, Acquire(c) PROVE Traceless'
  BY <1>2 DEF Acquire
<1>3. ASSUME NEW c \in Cell, Pick(c) PROVE Traceless'
  BY <1>3 DEF Pick, Begin
<1>4. ASSUME NEW c \in Cell, Lost(c) PROVE Traceless'
  BY <1>4 DEF Lost, NoVars
<1>5. ASSUME NEW c \in Cell, Answer(c) PROVE Traceless'
  BY <1>5 DEF Answer
<1>6. ASSUME NEW c \in Cell, AgainWrites(c) PROVE Traceless'
  BY <1>6 DEF AgainWrites, Runs
<1>7. ASSUME NEW c \in Cell, AgainEnds(c) PROVE Traceless'
  BY <1>7 DEF AgainEnds, Runs
<1>8. ASSUME NEW u \in Upload, Load(u) PROVE Traceless'
  BY <1>8 DEF Load, MayArrive, Begin
<1>9. ASSUME NEW j \in Job, Enter(j) PROVE Traceless'
  BY <1>9 DEF Enter, Runs
<1>10. ASSUME NEW j \in Job, Write(j) PROVE Traceless'
  BY <1>10 DEF Write, Runs
<1>11. ASSUME NEW j \in Job, End(j) PROVE Traceless'
  BY <1>11 DEF End, Runs
<1>12. ASSUME NEW j \in Job, Finally(j) PROVE Traceless'
  BY <1>12 DEF Finally, Runs, NoVars
<1>13. ASSUME NEW j \in Job, Tail(j) PROVE Traceless'
  <2>1. /\ before' = [before EXCEPT ![j] = NoVars] /\ UNCHANGED <<ns, queried>>
        /\ phase[j] = "tail"
    BY <1>13 DEF Tail, Runs
  <2>2. \E p \in {"done", "returned", "again"} : phase' = [phase EXCEPT ![j] = p]
    BY <1>13 DEF Tail
  <2> QED
    BY <2>1, <2>2 DEF NoVars
<1>14. ASSUME NEW j \in Job, Interrupted(j) PROVE Traceless'
  BY <1>14 DEF Interrupted
<1>15. ASSUME NEW j \in Job, Uncaught(j) PROVE Traceless'
  BY <1>15 DEF Uncaught, NoVars
<1>16. ASSUME NEW j \in Job, Fails(j) PROVE Traceless'
  BY <1>16 DEF Fails
<1>17. ASSUME LoopAbsorbs PROVE Traceless'
  BY <1>17 DEF LoopAbsorbs
<1>18. ASSUME Reset PROVE Traceless'
  BY <1>18 DEF Reset, NoVars
<1>19. ASSUME NEW q \in Query, Sql(q) PROVE Traceless'
  BY <1>19 DEF Sql
<1>20. ASSUME Quiet PROVE Traceless'
  BY <1>20 DEF Quiet
<1> QED
  BY <1>1, <1>2, <1>3, <1>4, <1>5, <1>6, <1>7, <1>8, <1>9, <1>10, <1>11, <1>12, <1>13, <1>14,
     <1>15, <1>16, <1>17, <1>18, <1>19, <1>20, QuietSteps
     DEF Next, Execute

\* Who begins beside another is noted, with the other.
LEMMA ApartStep == TypeOK /\ Apart /\ [Next]_vars => Apart'
<1> SUFFICES ASSUME TypeOK, Apart, [Next]_vars PROVE Apart'
  OBVIOUS
<1> USE JobsAssumption DEF execVars, raiseVars, nsVars, bounds, history, Goto, Job, TypeOK,
                           Phase, Executing, Unbegun, Writer, Apart
<1>1. ASSUME NEW c \in Cell, Arrive(c) PROVE Apart'
  BY <1>1 DEF Arrive, MayArrive
<1>2. ASSUME NEW c \in Cell, Acquire(c) PROVE Apart'
  BY <1>2 DEF Acquire
<1>3. ASSUME NEW c \in Cell, Pick(c) PROVE Apart'
  BY <1>3 DEF Pick, Begin, Recorders
<1>4. ASSUME NEW c \in Cell, Lost(c) PROVE Apart'
  BY <1>4 DEF Lost, NoVars
<1>5. ASSUME NEW c \in Cell, Answer(c) PROVE Apart'
  BY <1>5 DEF Answer
<1>6. ASSUME NEW c \in Cell, AgainWrites(c) PROVE Apart'
  BY <1>6 DEF AgainWrites, Runs
<1>7. ASSUME NEW c \in Cell, AgainEnds(c) PROVE Apart'
  BY <1>7 DEF AgainEnds, Runs
<1>8. ASSUME NEW u \in Upload, Load(u) PROVE Apart'
  BY <1>8 DEF Load, MayArrive, Begin, Recorders
<1>9. ASSUME NEW j \in Job, Enter(j) PROVE Apart'
  BY <1>9 DEF Enter, Runs
<1>10. ASSUME NEW j \in Job, Write(j) PROVE Apart'
  BY <1>10 DEF Write, Runs
<1>11. ASSUME NEW j \in Job, End(j) PROVE Apart'
  BY <1>11 DEF End, Runs
<1>12. ASSUME NEW j \in Job, Finally(j) PROVE Apart'
  BY <1>12 DEF Finally, Runs, NoVars
<1>13. ASSUME NEW j \in Job, Tail(j) PROVE Apart'
  BY <1>13 DEF Tail, Runs, Names, NoVars
<1>14. ASSUME NEW j \in Job, Interrupted(j) PROVE Apart'
  BY <1>14 DEF Interrupted
<1>15. ASSUME NEW j \in Job, Uncaught(j) PROVE Apart'
  BY <1>15 DEF Uncaught, NoVars
<1>16. ASSUME NEW j \in Job, Fails(j) PROVE Apart'
  BY <1>16 DEF Fails
<1>17. ASSUME LoopAbsorbs PROVE Apart'
  BY <1>17 DEF LoopAbsorbs
<1>18. ASSUME Reset PROVE Apart'
  BY <1>18 DEF Reset, NoVars
<1>19. ASSUME NEW q \in Query, Sql(q) PROVE Apart'
  BY <1>19 DEF Sql
<1>20. ASSUME Quiet PROVE Apart'
  BY <1>20 DEF Quiet
<1> QED
  BY <1>1, <1>2, <1>3, <1>4, <1>5, <1>6, <1>7, <1>8, <1>9, <1>10, <1>11, <1>12, <1>13, <1>14,
     <1>15, <1>16, <1>17, <1>18, <1>19, <1>20, QuietSteps
     DEF Next, Execute

\* A snapshot is taken of the whole namespace, and what is written later under a name that
\* is not the own has been written by one that shares it.
LEMMA RememberedStep == ProvInv /\ [Next]_vars => Remembered'
<1> SUFFICES ASSUME ProvInv, [Next]_vars PROVE Remembered'
  OBVIOUS
<1> USE JobsAssumption DEF execVars, raiseVars, nsVars, bounds, history, Goto, Job, TypeOK,
                           Phase, Executing, Unbegun, Writer, Traceless, Apart, Watches,
                           Remembered, Recorded, Source, ProvInv
<1>1. ASSUME NEW c \in Cell, Arrive(c) PROVE Remembered'
  BY <1>1 DEF Arrive, MayArrive
<1>2. ASSUME NEW c \in Cell, Acquire(c) PROVE Remembered'
  BY <1>2 DEF Acquire
<1>3. ASSUME NEW c \in Cell, Pick(c) PROVE Remembered'
  BY <1>3 DEF Pick, Begin, Recorders
<1>4. ASSUME NEW c \in Cell, Lost(c) PROVE Remembered'
  BY <1>4 DEF Lost, NoVars
<1>5. ASSUME NEW c \in Cell, Answer(c) PROVE Remembered'
  BY <1>5 DEF Answer
<1>6. ASSUME NEW c \in Cell, AgainWrites(c) PROVE Remembered'
  <2>1. PICK x \in Var, w \in {"again", None} : ns' = [ns EXCEPT ![x] = w]
    BY <1>6 DEF AgainWrites
  <2>2. /\ \A y \in Var : ns'[y] \in Source => ns'[y] = ns[y]
        /\ UNCHANGED <<phase, result, prov, before, shared>>
    BY <1>6, <2>1 DEF AgainWrites
  <2> QED
    BY <2>2
<1>7. ASSUME NEW c \in Cell, AgainEnds(c) PROVE Remembered'
  BY <1>7 DEF AgainEnds, Runs
<1>8. ASSUME NEW u \in Upload, Load(u) PROVE Remembered'
  BY <1>8 DEF Load, MayArrive, Begin, Recorders
<1>9. ASSUME NEW j \in Job, Enter(j) PROVE Remembered'
  BY <1>9 DEF Enter, Runs
<1>10. ASSUME NEW j \in Job, Write(j) PROVE Remembered'
  BY <1>10 DEF Write, Runs
<1>11. ASSUME NEW j \in Job, End(j) PROVE Remembered'
  BY <1>11 DEF End, Runs
<1>12. ASSUME NEW j \in Job, Finally(j) PROVE Remembered'
  BY <1>12 DEF Finally, Runs, NoVars
<1>13. ASSUME NEW j \in Job, Tail(j) PROVE Remembered'
  BY <1>13 DEF Tail, Runs, Names, NoVars
<1>14. ASSUME NEW j \in Job, Interrupted(j) PROVE Remembered'
  BY <1>14 DEF Interrupted
<1>15. ASSUME NEW j \in Job, Uncaught(j) PROVE Remembered'
  BY <1>15 DEF Uncaught, NoVars
<1>16. ASSUME NEW j \in Job, Fails(j) PROVE Remembered'
  BY <1>16 DEF Fails
<1>17. ASSUME LoopAbsorbs PROVE Remembered'
  BY <1>17 DEF LoopAbsorbs
<1>18. ASSUME Reset PROVE Remembered'
  BY <1>18 DEF Reset, NoVars
<1>19. ASSUME NEW q \in Query, Sql(q) PROVE Remembered'
  BY <1>19 DEF Sql, Recorders
<1>20. ASSUME Quiet PROVE Remembered'
  BY <1>20 DEF Quiet
<1> QED
  BY <1>1, <1>2, <1>3, <1>4, <1>5, <1>6, <1>7, <1>8, <1>9, <1>10, <1>11, <1>12, <1>13, <1>14,
     <1>15, <1>16, <1>17, <1>18, <1>19, <1>20, QuietSteps
     DEF Next, Execute

\* The end of an execution enters its own writes, and nothing that was there before.
LEMMA ProvenanceStep == ProvInv /\ [Next]_vars => ProvenanceNamesWriter'
<1> SUFFICES ASSUME ProvInv, [Next]_vars PROVE ProvenanceNamesWriter'
  OBVIOUS
<1> USE JobsAssumption DEF execVars, raiseVars, nsVars, bounds, history, Goto, Job, TypeOK,
                           Phase, Executing, Unbegun, Writer, Traceless, Watches, Remembered,
                           Recorded, Source, ProvInv, ProvenanceNamesWriter
<1>1. ASSUME NEW c \in Cell, Arrive(c) PROVE ProvenanceNamesWriter'
  BY <1>1 DEF Arrive, MayArrive
<1>2. ASSUME NEW c \in Cell, Acquire(c) PROVE ProvenanceNamesWriter'
  BY <1>2 DEF Acquire
<1>3. ASSUME NEW c \in Cell, Pick(c) PROVE ProvenanceNamesWriter'
  BY <1>3 DEF Pick, Begin
<1>4. ASSUME NEW c \in Cell, Lost(c) PROVE ProvenanceNamesWriter'
  BY <1>4 DEF Lost, NoVars
<1>5. ASSUME NEW c \in Cell, Answer(c) PROVE ProvenanceNamesWriter'
  BY <1>5 DEF Answer
<1>6. ASSUME NEW c \in Cell, AgainWrites(c) PROVE ProvenanceNamesWriter'
  <2>1. PICK x \in Var, w \in {"again", None} : ns' = [ns EXCEPT ![x] = w]
    BY <1>6 DEF AgainWrites
  <2>2. /\ \A y \in Var : ns'[y] \in Source => ns'[y] = ns[y]
        /\ UNCHANGED <<phase, result, prov, before, shared>>
    BY <1>6, <2>1 DEF AgainWrites
  <2> QED
    BY <2>2
<1>7. ASSUME NEW c \in Cell, AgainEnds(c) PROVE ProvenanceNamesWriter'
  BY <1>7 DEF AgainEnds, Runs
<1>8. ASSUME NEW u \in Upload, Load(u) PROVE ProvenanceNamesWriter'
  BY <1>8 DEF Load, MayArrive, Begin
<1>9. ASSUME NEW j \in Job, Enter(j) PROVE ProvenanceNamesWriter'
  BY <1>9 DEF Enter, Runs
<1>10. ASSUME NEW j \in Job, Write(j) PROVE ProvenanceNamesWriter'
  BY <1>10 DEF Write, Runs
<1>11. ASSUME NEW j \in Job, End(j) PROVE ProvenanceNamesWriter'
  BY <1>11 DEF End, Runs
<1>12. ASSUME NEW j \in Job, Finally(j) PROVE ProvenanceNamesWriter'
  BY <1>12 DEF Finally, Runs, NoVars
<1>13. ASSUME NEW j \in Job, Tail(j) PROVE ProvenanceNamesWriter'
  BY <1>13 DEF Tail, Runs, Names, NoVars
<1>14. ASSUME NEW j \in Job, Interrupted(j) PROVE ProvenanceNamesWriter'
  BY <1>14 DEF Interrupted
<1>15. ASSUME NEW j \in Job, Uncaught(j) PROVE ProvenanceNamesWriter'
  BY <1>15 DEF Uncaught, NoVars
<1>16. ASSUME NEW j \in Job, Fails(j) PROVE ProvenanceNamesWriter'
  BY <1>16 DEF Fails
<1>17. ASSUME LoopAbsorbs PROVE ProvenanceNamesWriter'
  BY <1>17 DEF LoopAbsorbs
<1>18. ASSUME Reset PROVE ProvenanceNamesWriter'
  BY <1>18 DEF Reset, NoVars
<1>19. ASSUME NEW q \in Query, Sql(q) PROVE ProvenanceNamesWriter'
  BY <1>19 DEF Sql
<1>20. ASSUME Quiet PROVE ProvenanceNamesWriter'
  BY <1>20 DEF Quiet
<1> QED
  BY <1>1, <1>2, <1>3, <1>4, <1>5, <1>6, <1>7, <1>8, <1>9, <1>10, <1>11, <1>12, <1>13, <1>14,
     <1>15, <1>16, <1>17, <1>18, <1>19, <1>20, QuietSteps
     DEF Next, Execute

\* For any cells, uploads, statements, resets and interrupts, at any time: a variable that has
\* the value of a job or a statement which nobody shared the namespace with names that one
\* as its last cell (SandboxExecutor.execute, _update_provenance).
THEOREM ProvenanceIsRight == Spec => []ProvenanceNamesWriter
<1> DEFINE Inv == AimSound /\ ProvInv
<1>1. Init => Inv
  BY TypeInit, JobsAssumption
     DEF Init, NoVars, Executing, Job, ProvInv, Traceless, Apart, Remembered, Source,
         ProvenanceNamesWriter, Unbegun, Recorded, Watches
<1>2. Inv /\ [Next]_vars => Inv'
  BY TypeStep, AimStep, TracelessStep, ApartStep, RememberedStep, ProvenanceStep
     DEF ProvInv
<1>3. Inv => ProvenanceNamesWriter
  BY DEF ProvInv
<1> QED
  BY <1>1, <1>2, <1>3, PTL DEF Spec
=============================================================================
