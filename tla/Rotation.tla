------------------------------ MODULE Rotation ------------------------------
(***************************************************************************)
(* Eternal mode: one notebook session that outlives its MicroVMs.          *)
(*                                                                         *)
(* Four actors share the state: the proxy's event loop (client requests    *)
(* and the /terminate handler), the rotator's background thread, the       *)
(* MicroVMs, and AWS.  The event loop runs a handler from one await to the *)
(* next without interleaving another handler; the rotator thread may       *)
(* interleave anywhere.  Sessions are independent of one another, so the   *)
(* module follows one session.  A cell execution is its identity: running  *)
(* request r leaves the effect r in the namespace of the VM that ran it.   *)
(***************************************************************************)
EXTENDS Naturals, Sequences, FiniteSets

CONSTANTS
    Req,      \* the client requests (cell executions) of a behaviour
    MaxVm,    \* bound: how many MicroVMs a behaviour may launch
    Faults    \* which failures the environment may produce

\* "late": a VM does what it was asked, but its answer misses the timeout.
\* "badgateway": the gateway answers 502 for a request that the VM did run.
FaultKinds == {"launch", "health", "checkpoint", "restore", "late",
               "api", "kill", "hook", "network", "badgateway"}

Retries == 2   \* for retry in range(2)

ASSUME MaxVmAssumption == MaxVm \in Nat \ {0}
ASSUME FaultsAssumption == Faults \subseteq FaultKinds

VM == 1 .. MaxVm
NoVm == 0

VARIABLES
    registry,  \* _session_registry[sid].vm_id, or NoVm
    active,    \* keys of active_microvms
    owned,     \* those whose entry carries the session_id
    loopPc, loopVm,  \* the /terminate handler running on the event loop
    tracked,   \* the session is in the rotator's _sessions
    armed,     \* a rotation timer of the session is pending
    stateVm, quiesced, queue,   \* the session's RotationState object
    pc, path, old, new, idx,    \* the rotation thread: where it is, its locals
    vmState, vmMode, ns, busy,  \* of each MicroVM: ns is the namespace, busy
                                \* the requests it is running
    s3,        \* the session's checkpoint under sessions/{sid}/
    settled,   \* history: the old VM's ns at the last quiesce, if it was saved
    phase, target, tries,  \* of each request: where its proxy handler is, the
                           \* VM it goes to, how often it was sent again
    ran        \* how often each request's code has run, on any VM

proxyVars == <<registry, active, owned, loopPc, loopVm>>
threadVars == <<pc, path, old, new, idx>>
rotVars == <<tracked, armed, stateVm, quiesced, queue, threadVars>>
vmVars == <<vmState, vmMode, ns, busy>>
reqVars == <<phase, target, tries, ran>>
vars == <<proxyVars, rotVars, vmVars, s3, settled, reqVars>>

VmState == {"none", "running", "stopping", "gone"}
Mode == {"eternal", "checkpoint"}
Phase == {"idle", "looked", "buffering", "waiting", "forward", "sent",
          "ok", "error", "timeout", "missing"}
RotPc == {"idle", "start", "launch", "health", "quiesce", "checkpoint",
          "restore", "failed", "rerestore", "giveup", "swap", "callback",
          "replay", "replaying", "clear", "schedule", "terminate"}
Path == {"main", "recover", "giveup"}
LoopPc == {"free", "unregister", "unroute", "api"}

TypeOK ==
    /\ registry \in VM \cup {NoVm}
    /\ active \in SUBSET VM
    /\ owned \in SUBSET VM
    /\ loopPc \in LoopPc /\ loopVm \in VM
    /\ tracked \in BOOLEAN
    /\ armed \in BOOLEAN
    /\ stateVm \in VM /\ quiesced \in BOOLEAN /\ queue \in Seq(Req)
    /\ pc \in RotPc /\ path \in Path /\ idx \in Nat \ {0}
    /\ old \in VM /\ new \in VM \cup {NoVm}
    /\ vmState \in [VM -> VmState]
    /\ vmMode \in [VM -> Mode]
    /\ ns \in [VM -> SUBSET Req]
    /\ busy \in [VM -> SUBSET Req]
    /\ s3 \in [saved : BOOLEAN, ns : SUBSET Req]
    /\ settled \in SUBSET Req
    /\ phase \in [Req -> Phase]
    /\ target \in [Req -> VM \cup {NoVm}]
    /\ tries \in [Req -> Nat]
    /\ ran \in [Req -> Nat]

\* /launch in eternal mode has just returned: VM 1 serves the session, the
\* rotator tracks it and its timer is armed.
Init ==
    /\ registry = 1
    /\ active = {1}
    /\ owned = {1}
    /\ loopPc = "free" /\ loopVm = 1
    /\ tracked = TRUE
    /\ armed = TRUE
    /\ stateVm = 1 /\ quiesced = FALSE /\ queue = <<>>
    /\ pc = "idle" /\ path = "main" /\ old = 1 /\ new = NoVm /\ idx = 1
    /\ vmState = [v \in VM |-> IF v = 1 THEN "running" ELSE "none"]
    /\ vmMode = [v \in VM |-> IF v = 1 THEN "eternal" ELSE "checkpoint"]
    /\ ns = [v \in VM |-> {}]
    /\ busy = [v \in VM |-> {}]
    /\ s3 = [saved |-> FALSE, ns |-> {}] /\ settled = {}
    /\ phase = [r \in Req |-> "idle"]
    /\ target = [r \in Req |-> NoVm]
    /\ tries = [r \in Req |-> 0]
    /\ ran = [r \in Req |-> 0]

Running(v) == v \in VM /\ vmState[v] = "running"

\* No handler is between two of its awaits.
LoopFree == loopPc = "free" /\ \A r \in Req : phase[r] # "looked"

-----------------------------------------------------------------------------
(* Client requests: proxy_request. *)

\* Resolve the session in the registry; 404 when it is not there.
Lookup(r) ==
    /\ LoopFree
    /\ phase[r] = "idle"
    /\ phase' = [phase EXCEPT ![r] = IF registry = NoVm THEN "missing" ELSE "looked"]
    /\ target' = [target EXCEPT ![r] = registry]
    /\ UNCHANGED <<proxyVars, rotVars, vmVars, s3, settled, tries, ran>>

\* is_quiesced reads the RotationState after the lookup; both branches then
\* await the request body.
CheckQuiesced(r) ==
    /\ phase[r] = "looked"
    /\ phase' = [phase EXCEPT ![r] = IF tracked /\ quiesced THEN "buffering" ELSE "forward"]
    /\ UNCHANGED <<proxyVars, rotVars, vmVars, s3, settled, target, tries, ran>>

\* queue_request drops the request silently when the session is no longer
\* tracked; the handler awaits its future all the same.
Enqueue(r) ==
    /\ LoopFree
    /\ phase[r] = "buffering"
    /\ queue' = IF tracked THEN Append(queue, r) ELSE queue
    /\ phase' = [phase EXCEPT ![r] = "waiting"]
    /\ UNCHANGED <<proxyVars, tracked, armed, stateVm, quiesced, threadVars,
                   vmVars, s3, settled, target, tries, ran>>

\* Bug: the queued request is awaited without a timeout.
WaitForever(r) == FALSE

\* Bug: after 30 s the request is forwarded instead of refused.
TimeoutForwards(r) ==
    /\ LoopFree
    /\ phase[r] = "waiting"
    /\ phase' = [phase EXCEPT ![r] = "forward"]
    /\ UNCHANGED <<proxyVars, rotVars, vmVars, s3, settled, target, tries, ran>>

\* asyncio.wait_for gives up after 30 s: 503.  The queue keeps its entry.
WaitTimeout(r) ==
    /\ LoopFree
    /\ phase[r] = "waiting"
    /\ phase' = [phase EXCEPT ![r] = "timeout"]
    /\ UNCHANGED <<proxyVars, rotVars, vmVars, s3, settled, target, tries, ran>>

\* Send to the VM resolved before.
Forward(r) ==
    /\ LoopFree
    /\ phase[r] = "forward"
    /\ \/ /\ Running(target[r])
          /\ busy' = [busy EXCEPT ![target[r]] = @ \cup {r}]
          /\ phase' = [phase EXCEPT ![r] = "sent"]
       \/ /\ ~Running(target[r]) \/ "network" \in Faults
          /\ phase' = [phase EXCEPT ![r] = "error"]
          /\ UNCHANGED busy
    /\ UNCHANGED <<proxyVars, rotVars, vmState, vmMode, ns, s3, settled, target, tries, ran>>

\* The gateway's 502 came back although the request ran.
AnswerLost(r) == phase[r] = "sent" /\ Running(target[r]) /\ r \notin busy[target[r]]

\* A 502 is taken for a VM that is still resuming, and the request sent again.
RetryForward(r) ==
    /\ LoopFree
    /\ AnswerLost(r)
    /\ tries[r] < Retries
    /\ tries' = [tries EXCEPT ![r] = @ + 1]
    /\ phase' = [phase EXCEPT ![r] = "forward"]
    /\ UNCHANGED <<proxyVars, rotVars, vmVars, s3, settled, target, ran>>

\* The connection breaks, the 120 s client timeout passes, or the retries are
\* used up: 502.
ForwardFails(r) ==
    /\ LoopFree
    /\ phase[r] = "sent"
    /\ ~Running(target[r]) \/ "network" \in Faults \/ (AnswerLost(r) /\ tries[r] = Retries)
    /\ phase' = [phase EXCEPT ![r] = "error"]
    /\ UNCHANGED <<proxyVars, rotVars, vmVars, s3, settled, target, tries, ran>>

-----------------------------------------------------------------------------
(* The MicroVMs and AWS. *)

\* _replay_queue sends to VM2, or back to the old VM when the rotation failed.
ReplayTarget == IF path = "giveup" THEN old ELSE new

\* The thread waits for the answer of the request it is replaying on v.
ReplayingOn(v, r) ==
    /\ pc = "replaying"
    /\ v = ReplayTarget
    /\ idx <= Len(queue)
    /\ queue[idx] = r

\* A VM finishes a request.  Whoever still waits gets the answer: the handler
\* that forwarded it, or the rotator, which resolves the future if it is open.
VmFinish(v, r) ==
    /\ Running(v)
    /\ r \in busy[v]
    /\ busy' = [busy EXCEPT ![v] = @ \ {r}]
    /\ ns' = [ns EXCEPT ![v] = @ \cup {r}]
    /\ ran' = [ran EXCEPT ![r] = @ + 1]
    /\ \/ /\ ReplayingOn(v, r)
          /\ pc' = "replay" /\ idx' = idx + 1
          /\ phase' = [phase EXCEPT ![r] = IF @ = "waiting" THEN "ok" ELSE @]
       \/ /\ ~ReplayingOn(v, r)
          /\ \/ phase' = [phase EXCEPT ![r] =
                             IF @ = "sent" /\ target[r] = v THEN "ok" ELSE @]
             \/ "badgateway" \in Faults /\ UNCHANGED phase
          /\ UNCHANGED <<pc, idx>>
    /\ UNCHANGED <<proxyVars, tracked, armed, stateVm, quiesced, queue, path, old, new,
                   vmState, vmMode, s3, settled, target, tries>>

\* AWS stops a VM: its lifetime is over, or it failed.
AwsKill(v) ==
    /\ "kill" \in Faults
    /\ Running(v)
    /\ vmState' = [vmState EXCEPT ![v] = "stopping"]
    /\ UNCHANGED <<proxyVars, rotVars, vmMode, ns, busy, s3, settled, reqVars>>

\* The /terminate hook of a stopping VM.  It saves when the VM was launched in
\* checkpoint mode, which launch_for_rotation always asks for.
TerminateHook(v) ==
    /\ vmState[v] = "stopping"
    /\ vmState' = [vmState EXCEPT ![v] = "gone"]
    /\ busy' = [busy EXCEPT ![v] = {}]
    /\ \/ /\ vmMode[v] = "checkpoint"
          /\ s3' = [saved |-> TRUE, ns |-> ns[v]]
       \/ /\ vmMode[v] # "checkpoint" \/ "hook" \in Faults
          /\ UNCHANGED s3
    /\ UNCHANGED <<proxyVars, rotVars, vmMode, ns, settled, reqVars>>

-----------------------------------------------------------------------------
(* The rotation thread: SessionRotator._rotate. *)

Goto(label) == pc' = label /\ UNCHANGED <<path, old, new, idx>>

\* Timing: a timer's delay outlasts the end of the rotation that armed it, the
\* 60 s of the retired VM's /terminate hook included, so one thread runs at a
\* time.  The bound: a VM is left to launch.
TimerFires ==
    /\ armed
    /\ pc = "idle"
    /\ vmState[old] # "stopping"
    /\ \E v \in VM : vmState[v] = "none"
    /\ armed' = FALSE
    /\ pc' = "start" /\ path' = "main" /\ new' = NoVm /\ idx' = 1
    /\ UNCHANGED <<proxyVars, tracked, stateVm, quiesced, queue, old, vmVars, s3, settled, reqVars>>

\* The thread takes a reference to the RotationState and keeps it to the end,
\* whatever becomes of the session meanwhile.
Start ==
    /\ pc = "start"
    /\ \/ tracked /\ pc' = "launch" /\ old' = stateVm
       \/ ~tracked /\ pc' = "idle" /\ UNCHANGED old
    /\ UNCHANGED <<proxyVars, tracked, armed, stateVm, quiesced, queue, path, new, idx,
                   vmVars, s3, settled, reqVars>>

NextVm(v) == /\ vmState[v] = "none"
             /\ \A u \in VM : u < v => vmState[u] # "none"

\* launch_for_rotation: tracked in active_microvms, without a session_id yet.
LaunchVm2 ==
    /\ pc = "launch"
    /\ \/ \E v \in VM :
            /\ NextVm(v)
            /\ vmState' = [vmState EXCEPT ![v] = "running"]
            /\ vmMode' = [vmMode EXCEPT ![v] = "checkpoint"]
            /\ active' = active \cup {v}
            /\ pc' = "health" /\ new' = v
       \/ /\ "launch" \in Faults
          /\ pc' = "failed"
          /\ UNCHANGED <<vmState, vmMode, active, new>>
    /\ UNCHANGED <<registry, owned, loopPc, loopVm, tracked, armed, stateVm, quiesced,
                   queue, path, old, idx, ns, busy, s3, settled, reqVars>>

\* _wait_for_healthy returns, or raises after 30 s.
WaitHealthy ==
    /\ pc = "health"
    /\ \/ Running(new) /\ Goto("quiesce")
       \/ (~Running(new) \/ "health" \in Faults) /\ Goto("failed")
    /\ UNCHANGED <<proxyVars, tracked, armed, stateVm, quiesced, queue,
                   vmVars, s3, settled, reqVars>>

Quiesce ==
    /\ pc = "quiesce"
    /\ quiesced' = TRUE
    /\ settled' = ns[old]
    /\ Goto("checkpoint")
    /\ UNCHANGED <<proxyVars, tracked, armed, stateVm, queue, vmVars, s3, reqVars>>

\* _checkpoint_vm: the old VM's namespace goes to S3.  "late": the save is
\* done but its answer is not back within the 30 s, which raises.
CheckpointOld ==
    /\ pc = "checkpoint"
    /\ \/ /\ Running(old)
          /\ s3' = [saved |-> TRUE, ns |-> ns[old]]
          /\ UNCHANGED settled
          /\ Goto("restore") \/ ("late" \in Faults /\ Goto("failed"))
       \/ /\ ~Running(old) \/ "checkpoint" \in Faults
          /\ Goto("failed")
          /\ settled' = {}
          /\ UNCHANGED s3
    /\ UNCHANGED <<proxyVars, tracked, armed, stateVm, quiesced, queue, vmVars, reqVars>>

\* _restore_vm, with the pc the thread goes to on success and on an exception.
RestoreInto(ok, raised) ==
    /\ \/ /\ Running(new) /\ s3.saved
          /\ ns' = [ns EXCEPT ![new] = @ \cup s3.ns]
          /\ Goto(ok) \/ ("late" \in Faults /\ Goto(raised))
       \/ /\ ~Running(new) \/ ~s3.saved \/ "restore" \in Faults
          /\ Goto(raised)
          /\ UNCHANGED ns
    /\ UNCHANGED <<proxyVars, tracked, armed, stateVm, quiesced, queue,
                   vmState, vmMode, busy, s3, settled, reqVars>>

\* Bug: VM2 is swapped in without the checkpoint.
SwapWithoutRestore ==
    /\ pc = "restore"
    /\ Goto("swap")
    /\ UNCHANGED <<proxyVars, tracked, armed, stateVm, quiesced, queue,
                   vmVars, s3, settled, reqVars>>

RestoreNew == pc = "restore" /\ RestoreInto("swap", "failed")

\* Bug: the recovery swaps without asking whether there is a VM2.
SwapUnprobed ==
    /\ pc = "failed"
    /\ pc' = "swap" /\ path' = "recover"
    /\ UNCHANGED <<proxyVars, tracked, armed, stateVm, quiesced, queue, old, new, idx,
                   vmVars, s3, settled, reqVars>>

\* The except branch: probe VM2 and retry the restore on it.
ProbeVm2 ==
    /\ pc = "failed"
    /\ \/ Running(new) /\ pc' = "rerestore" /\ path' = "recover"
       \/ (~Running(new) \/ "health" \in Faults) /\ pc' = "giveup" /\ UNCHANGED path
    /\ UNCHANGED <<proxyVars, tracked, armed, stateVm, quiesced, queue, old, new, idx,
                   vmVars, s3, settled, reqVars>>

RecoverRestore == pc = "rerestore" /\ RestoreInto("swap", "giveup")

\* Bug: a failed rotation does not un-quiesce.
GiveUpQuiesced ==
    /\ pc = "giveup"
    /\ pc' = "replay" /\ path' = "giveup"
    /\ UNCHANGED <<proxyVars, tracked, armed, stateVm, quiesced, queue, old, new, idx,
                   vmVars, s3, settled, reqVars>>

\* "not recovered": un-quiesce and replay on the old VM.
GiveUp ==
    /\ pc = "giveup"
    /\ quiesced' = FALSE
    /\ pc' = "replay" /\ path' = "giveup"
    /\ UNCHANGED <<proxyVars, tracked, armed, stateVm, queue, old, new, idx,
                   vmVars, s3, settled, reqVars>>

\* The RotationState moves to VM2 and the quiesce window closes ...
SwapState ==
    /\ pc = "swap"
    /\ stateVm' = new
    /\ quiesced' = FALSE
    /\ Goto("callback")
    /\ UNCHANGED <<proxyVars, tracked, armed, queue, vmVars, s3, settled, reqVars>>

\* Bug: the swap callback is never set.
SwapUnannounced ==
    /\ pc = "callback"
    /\ Goto("replay")
    /\ UNCHANGED <<proxyVars, tracked, armed, stateVm, quiesced, queue,
                   vmVars, s3, settled, reqVars>>

\* Bug: the recovery path forgets the callback.
RecoveryUnannounced ==
    /\ pc = "callback"
    /\ registry' = IF path = "recover" THEN registry ELSE new
    /\ owned' = IF new \in active THEN owned \cup {new} ELSE owned
    /\ Goto("replay")
    /\ UNCHANGED <<active, loopPc, loopVm, tracked, armed, stateVm, quiesced, queue,
                   vmVars, s3, settled, reqVars>>

\* ... before on_rotation_swap moves the registry.
SwapRegistry ==
    /\ pc = "callback"
    /\ registry' = new
    /\ owned' = IF new \in active THEN owned \cup {new} ELSE owned
    /\ Goto("replay")
    /\ UNCHANGED <<active, loopPc, loopVm, tracked, armed, stateVm, quiesced, queue,
                   vmVars, s3, settled, reqVars>>

AfterReplay == IF path = "giveup" THEN "idle" ELSE "schedule"

\* Bug: a replay that fails resolves the future as if it had been answered.
AnswerWaiter(r) == phase' = [phase EXCEPT ![r] = IF @ = "waiting" THEN "ok" ELSE @]

\* A future that is still open is resolved with the error.
FailWaiter(r) == phase' = [phase EXCEPT ![r] = IF @ = "waiting" THEN "error" ELSE @]

\* One turn of _replay_queue's loop: send the request, whether or not its
\* client is still waiting.  A send that fails resolves the future.
ReplaySend ==
    /\ pc = "replay"
    /\ idx <= Len(queue)
    /\ \/ /\ Running(ReplayTarget)
          /\ busy' = [busy EXCEPT ![ReplayTarget] = @ \cup {queue[idx]}]
          /\ pc' = "replaying"
          /\ UNCHANGED <<idx, phase>>
       \/ /\ ~Running(ReplayTarget) \/ "network" \in Faults
          /\ FailWaiter(queue[idx])
          /\ idx' = idx + 1
          /\ UNCHANGED <<pc, busy>>
    /\ UNCHANGED <<proxyVars, tracked, armed, stateVm, quiesced, queue, path, old, new,
                   vmState, vmMode, ns, s3, settled, target, tries, ran>>

\* The replayed request breaks off or passes its 120 s.
ReplayFails ==
    /\ pc = "replaying"
    /\ ~Running(ReplayTarget) \/ "network" \in Faults
    /\ FailWaiter(queue[idx])
    /\ pc' = "replay" /\ idx' = idx + 1
    /\ UNCHANGED <<proxyVars, tracked, armed, stateVm, quiesced, queue, path, old, new,
                   vmVars, s3, settled, target, tries, ran>>

\* The loop ends.  An empty queue returns at once; otherwise clear() follows.
ReplayEnds ==
    /\ pc = "replay"
    /\ idx > Len(queue)
    /\ Goto(IF queue = <<>> THEN AfterReplay ELSE "clear")
    /\ UNCHANGED <<proxyVars, tracked, armed, stateVm, quiesced, queue,
                   vmVars, s3, settled, reqVars>>

ClearQueue ==
    /\ pc = "clear"
    /\ queue' = <<>>
    /\ Goto(AfterReplay)
    /\ UNCHANGED <<proxyVars, tracked, armed, stateVm, quiesced, vmVars, s3, settled, reqVars>>

\* _schedule_next arms a timer whether or not the session is still tracked.
\* The recovery path ends here: it does not terminate the old VM.
ScheduleNext ==
    /\ pc = "schedule"
    /\ armed' = TRUE
    /\ Goto(IF path = "main" THEN "terminate" ELSE "idle")
    /\ UNCHANGED <<proxyVars, tracked, stateVm, quiesced, queue, vmVars, s3, settled, reqVars>>

\* terminate_microvm, and the bookkeeping that follows when it does not raise.
TerminateApi(v) ==
    /\ \/ /\ vmState' = IF Running(v) THEN [vmState EXCEPT ![v] = "stopping"] ELSE vmState
          /\ active' = active \ {v}
          /\ owned' = owned \ {v}
       \/ /\ ~Running(v) \/ "api" \in Faults
          /\ UNCHANGED <<vmState, active, owned>>
    /\ UNCHANGED <<registry, tracked, armed, stateVm, quiesced, queue,
                   vmMode, ns, busy, s3, settled, reqVars>>

TerminateOld ==
    /\ pc = "terminate"
    /\ TerminateApi(old)
    /\ Goto("idle")
    /\ UNCHANGED <<loopPc, loopVm>>

-----------------------------------------------------------------------------
(* The user terminates the session: terminate_session, which has no await. *)

\* The VM in the registry; else the first active VM that carries the session;
\* else the row of the launched VM, if the database still lists it.
TermLookup ==
    /\ LoopFree
    /\ \E v \in VM :
         /\ \/ v = registry
            \/ registry = NoVm /\ v \in owned /\ \A u \in owned : v <= u
            \/ registry = NoVm /\ owned = {} /\ v = 1
         /\ loopVm' = v
    /\ loopPc' = "unregister"
    /\ UNCHANGED <<registry, active, owned, rotVars, vmVars, s3, settled, reqVars>>

TermUnregister ==
    /\ loopPc = "unregister"
    /\ tracked' = FALSE
    /\ armed' = FALSE
    /\ loopPc' = "unroute"
    /\ UNCHANGED <<registry, active, owned, loopVm, stateVm, quiesced, queue, threadVars,
                   vmVars, s3, settled, reqVars>>

TermUnroute ==
    /\ loopPc = "unroute"
    /\ registry' = NoVm
    /\ loopPc' = "api"
    /\ UNCHANGED <<active, owned, loopVm, rotVars, vmVars, s3, settled, reqVars>>

TermApi ==
    /\ loopPc = "api"
    /\ TerminateApi(loopVm)
    /\ loopPc' = "free"
    /\ UNCHANGED <<loopVm, threadVars>>

-----------------------------------------------------------------------------
RequestStep(r) == \/ Lookup(r) \/ CheckQuiesced(r) \/ Enqueue(r)
                  \/ WaitTimeout(r) \/ Forward(r) \/ RetryForward(r) \/ ForwardFails(r)

RotatorStep == \/ Start \/ LaunchVm2 \/ WaitHealthy \/ Quiesce \/ CheckpointOld
               \/ RestoreNew \/ ProbeVm2 \/ RecoverRestore \/ GiveUp
               \/ SwapState \/ SwapRegistry
               \/ ReplaySend \/ ReplayFails \/ ReplayEnds \/ ClearQueue
               \/ ScheduleNext \/ TerminateOld

TerminateStep == TermUnregister \/ TermUnroute \/ TermApi

VmStep == \E v \in VM : \/ \E r \in Req : VmFinish(v, r)
                        \/ AwsKill(v) \/ TerminateHook(v)

Next == \/ \E r \in Req : RequestStep(r)
        \/ TimerFires \/ RotatorStep
        \/ TermLookup \/ TerminateStep
        \/ VmStep

Spec == Init /\ [][Next]_vars

\* The thread is scheduled, and the event loop is FIFO: a handler whose await
\* is over runs although others keep the loop busy.  A request that was sent is
\* finished or fails, for every wait in the code has a timeout.  Nothing is
\* assumed of clients, timers, users or AWS.
Fairness ==
    /\ WF_vars(RotatorStep)
    /\ WF_vars(TerminateStep)
    /\ \A r \in Req :
         /\ SF_vars(CheckQuiesced(r) \/ Enqueue(r) \/ WaitTimeout(r) \/ Forward(r))
         /\ SF_vars(RetryForward(r) \/ ForwardFails(r) \/ \E v \in VM : VmFinish(v, r))

FairSpec == Spec /\ Fairness

-----------------------------------------------------------------------------
(* Safety. *)

\* The registry never routes the session to a VM that the manager has already
\* terminated: a rotation moves the registry before it retires the old VM, and
\* /terminate and a rotation running against it never retire the routed VM.
RoutedVmIsActive == registry # NoVm => registry \in active

\* A request runs at most once each time the proxy's own retry sends it: a
\* queued request is replayed by one rotation only, although its entry may
\* outlive that rotation and its client may long have been told 503, and what
\* was forwarded is never replayed as well.
RunsOncePerSend == \A r \in Req : ran[r] <= 1 + tries[r]

\* Where a 502 always means that the VM did not run the request, it runs at
\* most once in all.
RunsAtMostOnce == \A r \in Req : ran[r] <= 1

\* Between rotations the rotator and the registry agree on the VM that serves a
\* tracked session: the next rotation checkpoints the VM clients really use.
RotatorAndRegistryAgree ==
    tracked /\ pc = "idle" /\ loopPc = "free" => registry = stateVm

\* Everything the session held when its traffic was quiesced is in the VM that
\* serves it, during the rotation and after it, whichever step fails or answers
\* late, the checkpoint itself excepted: restore, recovery and swap lose nothing.
\* (Not with a third rotation and a VM, left behind by a recovery, that AWS stops
\* between the checkpoint and the restore: its hook saves over the checkpoint.)
QuiescedStateIsCarried ==
    tracked /\ registry # NoVm => settled \subseteq ns[registry]

(* Liveness. *)

\* A quiesced session is always released, whichever step of the rotation
\* fails, and even when the user terminates it meanwhile.
QuiesceEnds == quiesced ~> ~quiesced

\* Every request that reached the proxy is answered, also one that was queued
\* too late for the replay or dropped from the queue.
Answered(r) == phase[r] \in {"ok", "error", "timeout", "missing"}
RequestsAreAnswered == \A r \in Req : phase[r] # "idle" ~> Answered(r)

-----------------------------------------------------------------------------
(* Why RoutedVmIsActive holds: its inductive strengthening. *)

Launched(v) == v \in VM /\ vmState[v] # "none"

\* VM2 exists and is not yet in the registry (its rotation may have failed).
Standby == pc \in {"health", "quiesce", "checkpoint", "restore", "failed",
                      "rerestore", "giveup", "swap", "callback"}
           /\ new # NoVm

\* Everything that names a VM names one that was launched.
NamesAreLaunched ==
    /\ Launched(1) /\ Launched(stateVm) /\ Launched(old) /\ Launched(loopVm)
    /\ \A v \in owned : Launched(v)
    /\ registry # NoVm => Launched(registry)

\* Until the callback nobody but the rotation can reach VM2.
StandbyIsUnreachable ==
    Standby => /\ Launched(new)
               /\ new \in active \ owned
               /\ new \notin {1, registry, old}
               /\ loopPc # "free" => new # loopVm

\* Which VM2 each stage of the thread works on.
StagesHaveVm2 ==
    /\ pc \in {"start", "launch"} => new = NoVm
    /\ pc \in {"health", "quiesce", "checkpoint", "restore", "rerestore",
                    "swap", "callback"} => new # NoVm
    /\ path = "giveup" => pc \in {"idle", "replay", "replaying", "clear"}

\* From the callback to the end of the rotation the registry holds VM2, or
\* nothing if the user terminated the session; never again the old VM.
RegistryAfterSwap ==
    /\ path # "giveup" /\ pc \in {"replay", "replaying", "clear", "schedule", "terminate"}
         => registry \in {new, NoVm} /\ new # old /\ new # NoVm
    /\ loopPc = "api" => registry # loopVm

RoutingInv == /\ NamesAreLaunched
              /\ StandbyIsUnreachable
              /\ StagesHaveVm2
              /\ RegistryAfterSwap
              /\ RoutedVmIsActive

-----------------------------------------------------------------------------
(* Why RunsOncePerSend holds: its inductive strengthening. *)

\* A request is in at most one place that can still run it: on the way to a VM,
\* in a VM, or in the part of the queue that is yet to be replayed.
Unreplayed(r) ==
    \E i \in 1 .. Len(queue) :
        /\ queue[i] = r
        /\ pc \in {"replay", "replaying", "clear"} =>
               i > idx \/ (i = idx /\ pc = "replay")
Pending(r) == phase[r] \in {"idle", "looked", "buffering", "forward"}

RunnableOnce ==
    \A r \in Req :
        /\ \A v, w \in VM : r \in busy[v] /\ r \in busy[w] => v = w
        /\ (\E v \in VM : r \in busy[v]) =>
               ~Unreplayed(r) /\ ~Pending(r) /\ ran[r] <= tries[r]
        /\ Unreplayed(r) \/ Pending(r) => ran[r] <= tries[r]

\* A request enters the queue once, and is never forwarded.
QueuedOnce ==
    \A i \in 1 .. Len(queue) :
        /\ phase[queue[i]] \in {"waiting", "ok", "error", "timeout"}
        /\ \A j \in 1 .. Len(queue) : queue[i] = queue[j] => i = j

\* A forwarded request can only be running on its target.
SentToTarget ==
    \A r \in Req : phase[r] = "sent" =>
        \A v \in VM : r \in busy[v] => v = target[r]

OkMeansRan == \A r \in Req : phase[r] = "ok" => ran[r] >= 1

OnceInv == /\ RunsOncePerSend /\ RunnableOnce /\ QueuedOnce
           /\ SentToTarget /\ OkMeansRan

\* Without a 502 for a request that ran, nothing is sent twice.
NoRetries ==
    /\ \A r \in Req : tries[r] = 0
    /\ \A r \in Req : phase[r] = "sent" =>
           /\ target[r] \in VM
           /\ r \in busy[target[r]] \/ vmState[target[r]] \in {"stopping", "gone"}

-----------------------------------------------------------------------------
(* What the code's own words claim, and the code does not do. *)

\* routes/microvm.py:45-46, "requests are queued and replayed on the new VM":
\* clear() finds only entries that the replay loop has been through.
QueuedRequestsAreReplayed == pc = "clear" => Len(queue) < idx

\* microvm_manager.py:135, "Remove a session from the registry (VM terminated,
\* no rotation)": a session the user terminated stays out of the registry.
TerminatedSessionStaysUnrouted ==
    ~tracked /\ loopPc = "free" => registry = NoVm

\* tests/eternal/test_rotation.py:5: state is preserved.  Every cell a client was told
\* has run is in the namespace of the VM that serves the session, once the rotation is
\* over.
AcknowledgedStateIsCarried ==
    tracked /\ pc = "idle" /\ loopPc = "free" =>
        \A r \in Req : phase[r] = "ok" => r \in ns[registry]

-----------------------------------------------------------------------------
(* The service the rotation implements. *)

OutcomeOf(p) == CASE p = "idle" -> "none"
                  [] p = "ok" -> "ok"
                  [] p \in {"error", "timeout", "missing"} -> "failed"
                  [] OTHER -> "pending"

Service == INSTANCE AtMostOnceService
             WITH outcome <- [r \in Req |-> OutcomeOf(phase[r])], runs <- ran

\* The proxy with its rotator implements the at-most-once service: clients
\* cannot tell rotations, failed rotations and terminations apart from a
\* service that runs each request at most once and never answers "ok" for a
\* request that did not run.
ImplementsService == Service!SSpec
=============================================================================
