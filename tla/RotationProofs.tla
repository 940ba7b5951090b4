--------------------------- MODULE RotationProofs ---------------------------
(***************************************************************************)
(* Type correctness of Rotation; that the registry never routes the        *)
(* session to a terminated VM; that the rotator agrees with it between     *)
(* rotations; that what was quiesced is carried over; that a request runs  *)
(* at most once, and that the proxy with its rotator implements            *)
(* AtMostOnceService: for any number of requests and VMs and any failures. *)
(***************************************************************************)
EXTENDS Rotation, TLAPS

-----------------------------------------------------------------------------
(* Helpers. *)

\* The first VM exists, and 0 names none.
LEMMA VmNames == 1 \in VM /\ NoVm \notin VM
  BY MaxVmAssumption DEF VM, NoVm

\* Adding an element to one of a family of sets.
LEMMA AddToField ==
    ASSUME NEW S, NEW T, NEW f \in [S -> SUBSET T], NEW x \in S, NEW t \in T
    PROVE  [f EXCEPT ![x] = @ \cup {t}] \in [S -> SUBSET T]
  OBVIOUS

\* Restoring a checkpoint into one of a family of namespaces.
LEMMA AddSetToField ==
    ASSUME NEW S, NEW T, NEW f \in [S -> SUBSET T], NEW x \in S, NEW A \in SUBSET T
    PROVE  [f EXCEPT ![x] = @ \cup A] \in [S -> SUBSET T]
  OBVIOUS

\* What a checkpoint writes to S3 is a checkpoint.
LEMMA SnapshotType ==
    ASSUME NEW A \in SUBSET Req
    PROVE  [saved |-> TRUE, ns |-> A] \in [saved : BOOLEAN, ns : SUBSET Req]
  OBVIOUS

-----------------------------------------------------------------------------
(* Types. *)

\* The state /launch leaves behind is well typed.
LEMMA TypeInit == Init => TypeOK
<1> SUFFICES ASSUME Init PROVE TypeOK
  OBVIOUS
<1>1. registry \in VM \cup {NoVm} /\ active \in SUBSET VM /\ owned \in SUBSET VM
      /\ loopVm \in VM /\ stateVm \in VM /\ old \in VM /\ new \in VM \cup {NoVm}
  BY VmNames DEF Init
<1>2. loopPc \in LoopPc /\ pc \in RotPc /\ path \in Path
  BY DEF Init, LoopPc, RotPc, Path
<1>3. tracked \in BOOLEAN /\ armed \in BOOLEAN /\ quiesced \in BOOLEAN
  BY DEF Init
<1>4. queue \in Seq(Req)
  BY DEF Init
<1>5. idx \in Nat \ {0}
  BY DEF Init
<1>6. vmState \in [VM -> VmState] /\ vmMode \in [VM -> Mode]
  BY DEF Init, VmState, Mode
<1>7. ns \in [VM -> SUBSET Req] /\ busy \in [VM -> SUBSET Req]
  BY DEF Init
<1>8. s3 \in [saved : BOOLEAN, ns : SUBSET Req] /\ settled \in SUBSET Req
  BY DEF Init
<1>9. phase \in [Req -> Phase]
  BY DEF Init, Phase
<1>10. target \in [Req -> VM \cup {NoVm}] /\ ran \in [Req -> Nat]
  BY DEF Init
<1>11. tries \in [Req -> Nat]
  BY DEF Init
<1> QED
  BY <1>1, <1>2, <1>3, <1>6, <1>7, <1>8, <1>9, <1>10, <1>4, <1>5, <1>11 DEF TypeOK

\* Every step keeps the types.  SwapState copies the local vm2 into the session's
\* RotationState, so it needs to know that there is a VM2 by then.
LEMMA TypeStep == TypeOK /\ StagesHaveVm2 /\ [Next]_vars => TypeOK'
<1> SUFFICES ASSUME TypeOK, StagesHaveVm2, [Next]_vars
             PROVE TypeOK'
  OBVIOUS
<1> USE DEF TypeOK, VmState, Mode, Phase, RotPc, Path, LoopPc, 
            Running, reqVars, proxyVars, rotVars, threadVars, vmVars
<1>1. ASSUME NEW r \in Req, Lookup(r) PROVE TypeOK'
  BY <1>1 DEF Lookup
<1>2. ASSUME NEW r \in Req, CheckQuiesced(r) PROVE TypeOK'
  BY <1>2 DEF CheckQuiesced
<1>3. ASSUME NEW r \in Req, Enqueue(r) PROVE TypeOK'
  BY <1>3 DEF Enqueue
<1>4. ASSUME NEW r \in Req, WaitTimeout(r) PROVE TypeOK'
  BY <1>4 DEF WaitTimeout
<1>5. ASSUME NEW r \in Req, Forward(r) PROVE TypeOK'
  <2>1. phase' \in [Req -> Phase]
    BY <1>5 DEF Forward
  <2>2. busy' \in [VM -> SUBSET Req]
    <3>1. target[r] \in VM \/ UNCHANGED busy
      BY <1>5 DEF Forward
    <3>2. UNCHANGED busy \/ busy' = [busy EXCEPT ![target[r]] = @ \cup {r}]
      BY <1>5 DEF Forward
    <3>3. busy \in [VM -> SUBSET Req] /\ r \in Req
      OBVIOUS
    <3>4. CASE UNCHANGED busy
      BY <3>3, <3>4
    <3>5. CASE busy' = [busy EXCEPT ![target[r]] = @ \cup {r}] /\ target[r] \in VM
      BY <3>3, <3>5, AddToField
    <3> QED
      BY <3>1, <3>2, <3>4, <3>5
  <2> QED
    BY <1>5, <2>1, <2>2 DEF Forward
<1>6. ASSUME NEW r \in Req, ForwardFails(r) PROVE TypeOK'
  BY <1>6 DEF ForwardFails
<1>7. ASSUME NEW r \in Req, RetryForward(r) PROVE TypeOK'
  BY <1>7 DEF RetryForward
<1>8. ASSUME NEW v \in VM, NEW r \in Req, VmFinish(v, r) PROVE TypeOK'
  <2>1. busy' \in [VM -> SUBSET Req] /\ ns' \in [VM -> SUBSET Req]
    BY <1>8 DEF VmFinish
  <2>2. ran' \in [Req -> Nat]
    BY <1>8 DEF VmFinish
  <2>3. phase' \in [Req -> Phase]
    BY <1>8 DEF VmFinish
  <2>4. pc' \in RotPc /\ idx' \in Nat \ {0}
    BY <1>8 DEF VmFinish
  <2> QED
    BY <1>8, <2>1, <2>2, <2>3, <2>4 DEF VmFinish
<1>9. ASSUME NEW v \in VM, AwsKill(v) PROVE TypeOK'
  BY <1>9 DEF AwsKill
<1>10. ASSUME NEW v \in VM, TerminateHook(v) PROVE TypeOK'
  <2>1. s3' \in [saved : BOOLEAN, ns : SUBSET Req]
    <3>1. ns[v] \in SUBSET Req
      OBVIOUS
    <3> QED
      BY <1>10, <3>1, SnapshotType DEF TerminateHook
  <2>2. vmState' \in [VM -> VmState] /\ busy' \in [VM -> SUBSET Req]
    BY <1>10 DEF TerminateHook
  <2> QED
    BY <1>10, <2>1, <2>2 DEF TerminateHook
<1>11. ASSUME TimerFires PROVE TypeOK'
  <2>1. pc' \in RotPc /\ path' \in Path
    BY <1>11 DEF TimerFires
  <2>2. armed' \in BOOLEAN
    BY <1>11 DEF TimerFires
  <2>3. new' \in VM \cup {NoVm}
    BY <1>11 DEF TimerFires
  <2>4. idx' \in Nat \ {0}
    BY <1>11 DEF TimerFires
  <2> QED
    BY <1>11, <2>1, <2>2, <2>3, <2>4 DEF TimerFires
<1>12. ASSUME Start PROVE TypeOK'
  BY <1>12 DEF Start
<1>13. ASSUME LaunchVm2 PROVE TypeOK'
  <2>1. vmState' \in [VM -> VmState]
    BY <1>13 DEF LaunchVm2
  <2>2. vmMode' \in [VM -> Mode]
    BY <1>13 DEF LaunchVm2
  <2>3. active' \in SUBSET VM /\ pc' \in RotPc /\ new' \in VM \cup {NoVm}
    BY <1>13 DEF LaunchVm2
  <2> QED
    BY <1>13, <2>1, <2>2, <2>3 DEF LaunchVm2
<1>14. ASSUME WaitHealthy PROVE TypeOK'
  BY <1>14 DEF WaitHealthy, Goto
<1>15. ASSUME Quiesce PROVE TypeOK'
  BY <1>15 DEF Quiesce, Goto
<1>16. ASSUME CheckpointOld PROVE TypeOK'
  <2>1. s3' \in [saved : BOOLEAN, ns : SUBSET Req]
    <3>1. ns[old] \in SUBSET Req
      OBVIOUS
    <3> QED
      BY <1>16, <3>1, SnapshotType DEF CheckpointOld
  <2>2. pc' \in RotPc
    BY <1>16 DEF CheckpointOld, Goto
  <2> QED
    BY <1>16, <2>1, <2>2 DEF CheckpointOld, Goto
<1>17. ASSUME RestoreNew PROVE TypeOK'
  <2>1. ns' \in [VM -> SUBSET Req]
    <3>1. UNCHANGED ns \/ (new \in VM /\ ns' = [ns EXCEPT ![new] = @ \cup s3.ns])
      BY <1>17 DEF RestoreNew, RestoreInto
    <3>2. s3.ns \in SUBSET Req /\ ns \in [VM -> SUBSET Req]
      OBVIOUS
    <3>3. CASE UNCHANGED ns
      BY <3>2, <3>3
    <3>4. CASE new \in VM /\ ns' = [ns EXCEPT ![new] = @ \cup s3.ns]
      BY <3>2, <3>4, AddSetToField
    <3> QED
      BY <3>1, <3>3, <3>4
  <2>2. pc' \in RotPc
    BY <1>17 DEF RestoreNew, RestoreInto, Goto
  <2> QED
    BY <1>17, <2>1, <2>2 DEF RestoreNew, RestoreInto, Goto
<1>18. ASSUME ProbeVm2 PROVE TypeOK'
  BY <1>18 DEF ProbeVm2
<1>19. ASSUME RecoverRestore PROVE TypeOK'
  <2>1. ns' \in [VM -> SUBSET Req]
    <3>1. UNCHANGED ns \/ (new \in VM /\ ns' = [ns EXCEPT ![new] = @ \cup s3.ns])
      BY <1>19 DEF RecoverRestore, RestoreInto
    <3>2. s3.ns \in SUBSET Req /\ ns \in [VM -> SUBSET Req]
      OBVIOUS
    <3>3. CASE UNCHANGED ns
      BY <3>2, <3>3
    <3>4. CASE new \in VM /\ ns' = [ns EXCEPT ![new] = @ \cup s3.ns]
      BY <3>2, <3>4, AddSetToField
    <3> QED
      BY <3>1, <3>3, <3>4
  <2>2. pc' \in RotPc
    BY <1>19 DEF RecoverRestore, RestoreInto, Goto
  <2> QED
    BY <1>19, <2>1, <2>2 DEF RecoverRestore, RestoreInto, Goto
<1>20. ASSUME GiveUp PROVE TypeOK'
  BY <1>20 DEF GiveUp
<1>21. ASSUME SwapState PROVE TypeOK'
  BY <1>21 DEF SwapState, Goto, StagesHaveVm2, NoVm
<1>22. ASSUME SwapRegistry PROVE TypeOK'
  BY <1>22 DEF SwapRegistry, Goto
<1>23. ASSUME ReplaySend PROVE TypeOK'
  <2>1. queue[idx] \in Req /\ idx' \in Nat \ {0} /\ pc' \in RotPc
    BY <1>23 DEF ReplaySend
  <2>2. phase' \in [Req -> Phase]
    BY <1>23, <2>1 DEF ReplaySend, FailWaiter
  <2>3. busy' \in [VM -> SUBSET Req]
    <3>1. ReplayTarget \in VM \/ UNCHANGED busy
      BY <1>23 DEF ReplaySend
    <3>2. UNCHANGED busy \/ busy' = [busy EXCEPT ![ReplayTarget] = @ \cup {queue[idx]}]
      BY <1>23 DEF ReplaySend
    <3>3. busy \in [VM -> SUBSET Req]
      OBVIOUS
    <3>4. CASE UNCHANGED busy
      BY <3>3, <3>4
    <3>5. CASE busy' = [busy EXCEPT ![ReplayTarget] = @ \cup {queue[idx]}] /\ ReplayTarget \in VM
      BY <2>1, <3>3, <3>5, AddToField
    <3> QED
      BY <3>1, <3>2, <3>4, <3>5
  <2>4. UNCHANGED <<registry, active, owned, loopPc, loopVm, tracked, armed, stateVm, quiesced,
                    queue, path, old, new, vmState, vmMode, ns, s3, settled, target, tries, ran>>
    BY <1>23 DEF ReplaySend, proxyVars
  <2> QED
    BY <2>1, <2>2, <2>3, <2>4
<1>24. ASSUME ReplayFails PROVE TypeOK'
  <2>1. pc' \in RotPc /\ idx' \in Nat \ {0}
    BY <1>24 DEF ReplayFails
  <2>2. phase' \in [Req -> Phase]
    <3> DEFINE q == queue[idx]
    <3>1. phase' = [phase EXCEPT ![q] = IF @ = "waiting" THEN "error" ELSE @]
      BY <1>24 DEF ReplayFails, FailWaiter
    <3> HIDE DEF q
    <3> QED
      BY <3>1
  <2> QED
    BY <1>24, <2>1, <2>2 DEF ReplayFails
<1>25. ASSUME ReplayEnds PROVE TypeOK'
  BY <1>25 DEF ReplayEnds, AfterReplay, Goto
<1>26. ASSUME ClearQueue PROVE TypeOK'
  BY <1>26 DEF ClearQueue, AfterReplay, Goto
<1>27. ASSUME ScheduleNext PROVE TypeOK'
  BY <1>27 DEF ScheduleNext, Goto
<1>28. ASSUME TerminateOld PROVE TypeOK'
  BY <1>28 DEF TerminateOld, TerminateApi, Goto
<1>29. ASSUME TermLookup PROVE TypeOK'
  BY <1>29 DEF TermLookup
<1>30. ASSUME TermUnregister PROVE TypeOK'
  BY <1>30, ZenonT(60) DEF TermUnregister
<1>31. ASSUME TermUnroute PROVE TypeOK'
  BY <1>31 DEF TermUnroute
<1>32. ASSUME TermApi PROVE TypeOK'
  <2>1. vmState' \in [VM -> VmState]
    BY <1>32, ZenonT(60) DEF TermApi, TerminateApi
  <2>2. active' \in SUBSET VM /\ owned' \in SUBSET VM
    BY <1>32 DEF TermApi, TerminateApi
  <2>3. loopPc' \in LoopPc
    BY <1>32 DEF TermApi
  <2> QED
    BY <1>32, <2>1, <2>2, <2>3 DEF TermApi, TerminateApi
<1>33. CASE UNCHANGED vars
  BY <1>33 DEF vars
<1> QED
  BY <1>1, <1>2, <1>3, <1>4, <1>5, <1>6, <1>8, <1>9, <1>10, <1>11, <1>12, <1>13, <1>14,
     <1>15, <1>16, <1>17, <1>18, <1>19, <1>20, <1>21, <1>22, <1>23, <1>24, <1>25, <1>26,
     <1>27, <1>28, <1>29, <1>30, <1>31, <1>32, <1>33, <1>7 DEF Next, RequestStep,
     RotatorStep, TerminateStep, VmStep

-----------------------------------------------------------------------------
(* Routing. *)

\* The state /launch leaves behind routes the session to VM 1, which is active.
LEMMA RoutingInit == Init => RoutingInv
  BY VmNames DEF Init, RoutingInv, NamesAreLaunched, StandbyIsUnreachable, StagesHaveVm2,
                 RegistryAfterSwap, RoutedVmIsActive, Launched, Standby, NoVm

\* Every step keeps the routing invariant.
LEMMA RoutingStep == TypeOK /\ RoutingInv /\ [Next]_vars => RoutingInv'
<1> SUFFICES ASSUME TypeOK, RoutingInv, [Next]_vars PROVE RoutingInv'
  OBVIOUS
<1> USE VmNames DEF RoutingInv, TypeOK, NamesAreLaunched, StandbyIsUnreachable, StagesHaveVm2,
            RegistryAfterSwap, RoutedVmIsActive, Launched, Standby, NoVm, Running,
            VmState, RotPc, Path, LoopPc,
            reqVars, proxyVars, rotVars, threadVars, vmVars
<1>1. ASSUME NEW r \in Req, Lookup(r) PROVE RoutingInv'
  BY <1>1 DEF Lookup
<1>2. ASSUME NEW r \in Req, CheckQuiesced(r) PROVE RoutingInv'
  BY <1>2 DEF CheckQuiesced
<1>3. ASSUME NEW r \in Req, Enqueue(r) PROVE RoutingInv'
  BY <1>3 DEF Enqueue
<1>4. ASSUME NEW r \in Req, WaitTimeout(r) PROVE RoutingInv'
  BY <1>4 DEF WaitTimeout
<1>5. ASSUME NEW r \in Req, Forward(r) PROVE RoutingInv'
  BY <1>5 DEF Forward
<1>6. ASSUME NEW r \in Req, ForwardFails(r) PROVE RoutingInv'
  BY <1>6 DEF ForwardFails
<1>7. ASSUME NEW r \in Req, RetryForward(r) PROVE RoutingInv'
  BY <1>7 DEF RetryForward
<1>8. ASSUME NEW v \in VM, NEW r \in Req, VmFinish(v, r) PROVE RoutingInv'
  BY <1>8 DEF VmFinish, ReplayingOn
<1>9. ASSUME NEW v \in VM, AwsKill(v) PROVE RoutingInv'
  BY <1>9 DEF AwsKill
<1>10. ASSUME NEW v \in VM, TerminateHook(v) PROVE RoutingInv'
  BY <1>10 DEF TerminateHook
<1>11. ASSUME TimerFires PROVE RoutingInv'
  BY <1>11 DEF TimerFires
<1>12. ASSUME Start PROVE RoutingInv'
  BY <1>12 DEF Start
<1>13. ASSUME LaunchVm2 PROVE RoutingInv'
  BY <1>13 DEF LaunchVm2, NextVm
<1>14. ASSUME WaitHealthy PROVE RoutingInv'
  BY <1>14 DEF WaitHealthy, Goto
<1>15. ASSUME Quiesce PROVE RoutingInv'
  BY <1>15 DEF Quiesce, Goto
<1>16. ASSUME CheckpointOld PROVE RoutingInv'
  BY <1>16 DEF CheckpointOld, Goto
<1>17. ASSUME RestoreNew PROVE RoutingInv'
  BY <1>17 DEF RestoreNew, RestoreInto, Goto
<1>18. ASSUME ProbeVm2 PROVE RoutingInv'
  BY <1>18 DEF ProbeVm2
<1>19. ASSUME RecoverRestore PROVE RoutingInv'
  BY <1>19 DEF RecoverRestore, RestoreInto, Goto
<1>20. ASSUME GiveUp PROVE RoutingInv'
  BY <1>20 DEF GiveUp
<1>21. ASSUME SwapState PROVE RoutingInv'
  BY <1>21 DEF SwapState, Goto
<1>22. ASSUME SwapRegistry PROVE RoutingInv'
  BY <1>22 DEF SwapRegistry, Goto
<1>23. ASSUME ReplaySend PROVE RoutingInv'
  BY <1>23 DEF ReplaySend
<1>24. ASSUME ReplayFails PROVE RoutingInv'
  BY <1>24 DEF ReplayFails
<1>25. ASSUME ReplayEnds PROVE RoutingInv'
  BY <1>25 DEF ReplayEnds, AfterReplay, Goto
<1>26. ASSUME ClearQueue PROVE RoutingInv'
  BY <1>26 DEF ClearQueue, AfterReplay, Goto
<1>27. ASSUME ScheduleNext PROVE RoutingInv'
  BY <1>27 DEF ScheduleNext, Goto
<1>28. ASSUME TerminateOld PROVE RoutingInv'
  BY <1>28 DEF TerminateOld, TerminateApi, Goto
<1>29. ASSUME TermLookup PROVE RoutingInv'
  BY <1>29 DEF TermLookup
<1>30. ASSUME TermUnregister PROVE RoutingInv'
  BY <1>30 DEF TermUnregister
<1>31. ASSUME TermUnroute PROVE RoutingInv'
  BY <1>31 DEF TermUnroute
<1>32. ASSUME TermApi PROVE RoutingInv'
  BY <1>32 DEF TermApi, TerminateApi
<1>33. CASE UNCHANGED vars
  BY <1>33 DEF vars
<1> QED
  BY <1>1, <1>2, <1>3, <1>4, <1>5, <1>6, <1>8, <1>9, <1>10, <1>11, <1>12, <1>13, <1>14,
     <1>15, <1>16, <1>17, <1>18, <1>19, <1>20, <1>21, <1>22, <1>23, <1>24, <1>25, <1>26,
     <1>27, <1>28, <1>29, <1>30, <1>31, <1>32, <1>33, <1>7 DEF Next, RequestStep,
     RotatorStep, TerminateStep, VmStep

-----------------------------------------------------------------------------
(* Agreement of the rotator with the registry. *)

\* unregister_session comes before the route goes, and nothing tracks the session again.
TrackedUntilUnregistered == tracked => loopPc \in {"free", "unregister"}

\* The rotator's state and the registry name the same VM, except between the swap of the
\* one and the callback that swaps the other.
SwapIsTheOnlyGap ==
    tracked => IF pc = "callback" THEN stateVm = new /\ registry = old
                                  ELSE stateVm = registry

\* Until the swap the VM that is being rotated away is the one that serves the session.
OldStillServes ==
    tracked /\ pc \in {"launch", "health", "quiesce", "checkpoint", "restore", "failed",
                       "rerestore", "giveup", "swap"} => old = stateVm

AgreeInv == TrackedUntilUnregistered /\ SwapIsTheOnlyGap /\ OldStillServes

\* After /launch the rotator and the registry agree.
LEMMA AgreeInit == Init => AgreeInv
  BY DEF Init, AgreeInv, TrackedUntilUnregistered, SwapIsTheOnlyGap, OldStillServes

\* Every step keeps the agreement.
LEMMA AgreeStep == AgreeInv /\ [Next]_vars => AgreeInv'
<1> SUFFICES ASSUME AgreeInv, [Next]_vars PROVE AgreeInv'
  OBVIOUS
<1> USE DEF AgreeInv, TrackedUntilUnregistered, SwapIsTheOnlyGap, OldStillServes,
            reqVars, proxyVars, rotVars, threadVars, vmVars
<1>1. ASSUME NEW r \in Req, Lookup(r) PROVE AgreeInv'
  BY <1>1 DEF Lookup
<1>2. ASSUME NEW r \in Req, CheckQuiesced(r) PROVE AgreeInv'
  BY <1>2 DEF CheckQuiesced
<1>3. ASSUME NEW r \in Req, Enqueue(r) PROVE AgreeInv'
  BY <1>3 DEF Enqueue
<1>4. ASSUME NEW r \in Req, WaitTimeout(r) PROVE AgreeInv'
  BY <1>4 DEF WaitTimeout
<1>5. ASSUME NEW r \in Req, Forward(r) PROVE AgreeInv'
  BY <1>5 DEF Forward
<1>6. ASSUME NEW r \in Req, ForwardFails(r) PROVE AgreeInv'
  BY <1>6 DEF ForwardFails
<1>7. ASSUME NEW r \in Req, RetryForward(r) PROVE AgreeInv'
  BY <1>7 DEF RetryForward
<1>8. ASSUME NEW v \in VM, NEW r \in Req, VmFinish(v, r) PROVE AgreeInv'
  BY <1>8 DEF VmFinish, ReplayingOn
<1>9. ASSUME NEW v \in VM, AwsKill(v) PROVE AgreeInv'
  BY <1>9 DEF AwsKill
<1>10. ASSUME NEW v \in VM, TerminateHook(v) PROVE AgreeInv'
  BY <1>10 DEF TerminateHook
<1>11. ASSUME TimerFires PROVE AgreeInv'
  BY <1>11 DEF TimerFires
<1>12. ASSUME Start PROVE AgreeInv'
  BY <1>12 DEF Start
<1>13. ASSUME LaunchVm2 PROVE AgreeInv'
  BY <1>13 DEF LaunchVm2
<1>14. ASSUME WaitHealthy PROVE AgreeInv'
  BY <1>14 DEF WaitHealthy, Goto
<1>15. ASSUME Quiesce PROVE AgreeInv'
  BY <1>15 DEF Quiesce, Goto
<1>16. ASSUME CheckpointOld PROVE AgreeInv'
  BY <1>16 DEF CheckpointOld, Goto
<1>17. ASSUME RestoreNew PROVE AgreeInv'
  BY <1>17 DEF RestoreNew, RestoreInto, Goto
<1>18. ASSUME ProbeVm2 PROVE AgreeInv'
  BY <1>18 DEF ProbeVm2
<1>19. ASSUME RecoverRestore PROVE AgreeInv'
  BY <1>19 DEF RecoverRestore, RestoreInto, Goto
<1>20. ASSUME GiveUp PROVE AgreeInv'
  BY <1>20 DEF GiveUp
<1>21. ASSUME SwapState PROVE AgreeInv'
  BY <1>21 DEF SwapState, Goto
<1>22. ASSUME SwapRegistry PROVE AgreeInv'
  BY <1>22 DEF SwapRegistry, Goto
<1>23. ASSUME ReplaySend PROVE AgreeInv'
  BY <1>23 DEF ReplaySend
<1>24. ASSUME ReplayFails PROVE AgreeInv'
  BY <1>24 DEF ReplayFails
<1>25. ASSUME ReplayEnds PROVE AgreeInv'
  BY <1>25 DEF ReplayEnds, AfterReplay, Goto
<1>26. ASSUME ClearQueue PROVE AgreeInv'
  BY <1>26 DEF ClearQueue, AfterReplay, Goto
<1>27. ASSUME ScheduleNext PROVE AgreeInv'
  BY <1>27 DEF ScheduleNext, Goto
<1>28. ASSUME TerminateOld PROVE AgreeInv'
  BY <1>28 DEF TerminateOld, TerminateApi, Goto
<1>29. ASSUME TermLookup PROVE AgreeInv'
  BY <1>29 DEF TermLookup
<1>30. ASSUME TermUnregister PROVE AgreeInv'
  BY <1>30 DEF TermUnregister
<1>31. ASSUME TermUnroute PROVE AgreeInv'
  BY <1>31 DEF TermUnroute
<1>32. ASSUME TermApi PROVE AgreeInv'
  BY <1>32 DEF TermApi, TerminateApi
<1>33. CASE UNCHANGED vars
  BY <1>33 DEF vars
<1> QED
  BY <1>1, <1>2, <1>3, <1>4, <1>5, <1>6, <1>7, <1>8, <1>9, <1>10, <1>11, <1>12,
     <1>13, <1>14, <1>15, <1>16, <1>17, <1>18, <1>19, <1>20, <1>21, <1>22, <1>23, <1>24,
     <1>25, <1>26, <1>27, <1>28, <1>29, <1>30, <1>31, <1>32, <1>33
     DEF Next, RequestStep, RotatorStep, TerminateStep, VmStep

-----------------------------------------------------------------------------
(* What the quiesced VM held. *)

\* Only the VM that was rotated away is stopping, and only between two rotations: the
\* timer waits for its hook.
OnlyOldStops ==
    tracked => \A v \in VM : vmState[v] = "stopping" => v = old /\ pc = "idle"

\* What was settled stays where it was, is in every later checkpoint, and is in VM2 before
\* the swap.
SettledIsKept ==
    tracked =>
        /\ settled \subseteq ns[old]
        /\ settled \subseteq ns[stateVm]
        /\ pc # "checkpoint" => settled \subseteq s3.ns
        /\ pc \in {"swap", "callback"} => settled \subseteq ns[new]

CarriedInv == OnlyOldStops /\ SettledIsKept

\* Nothing has been settled yet after /launch.
LEMMA CarriedInit == Init => CarriedInv
  BY DEF Init, CarriedInv, OnlyOldStops, SettledIsKept

\* A restore adds to the namespace of VM2, and when it succeeds the checkpoint is there.
LEMMA RestoreAdds ==
    ASSUME TypeOK, new \in VM, NEW ok, NEW raised, ok # raised, RestoreInto(ok, raised)
    PROVE  /\ \A v \in VM : ns[v] \subseteq ns'[v]
           /\ pc' \in {ok, raised}
           /\ pc' = ok => s3.ns \subseteq ns'[new]
<1> USE DEF TypeOK, RestoreInto, Goto
<1>1. CASE ns' = [ns EXCEPT ![new] = @ \cup s3.ns] /\ pc' \in {ok, raised}
  <2>1. \A v \in VM : ns'[v] = IF v = new THEN ns[v] \cup s3.ns ELSE ns[v]
    BY <1>1
  <2> QED
    BY <1>1, <2>1
<1>2. CASE UNCHANGED ns /\ pc' = raised
  BY <1>2
<1> QED
  BY <1>1, <1>2

\* Without AWS stopping VMs every step keeps what was settled.
LEMMA CarriedStep ==
    "kill" \notin Faults /\ TypeOK /\ StagesHaveVm2 /\ AgreeInv /\ CarriedInv /\ [Next]_vars
        => CarriedInv'
<1> SUFFICES ASSUME "kill" \notin Faults, TypeOK, StagesHaveVm2, AgreeInv, CarriedInv,
                    [Next]_vars
             PROVE  CarriedInv'
  OBVIOUS
<1> USE DEF TypeOK, StagesHaveVm2, AgreeInv, TrackedUntilUnregistered, SwapIsTheOnlyGap,
            OldStillServes, CarriedInv, OnlyOldStops, SettledIsKept, Running, VmState, NoVm,
            reqVars, proxyVars, rotVars, threadVars, vmVars
<1>1. ASSUME NEW r \in Req, Lookup(r) PROVE CarriedInv'
  BY <1>1 DEF Lookup
<1>2. ASSUME NEW r \in Req, CheckQuiesced(r) PROVE CarriedInv'
  BY <1>2 DEF CheckQuiesced
<1>3. ASSUME NEW r \in Req, Enqueue(r) PROVE CarriedInv'
  BY <1>3 DEF Enqueue
<1>4. ASSUME NEW r \in Req, WaitTimeout(r) PROVE CarriedInv'
  BY <1>4 DEF WaitTimeout
<1>5. ASSUME NEW r \in Req, Forward(r) PROVE CarriedInv'
  BY <1>5 DEF Forward
<1>6. ASSUME NEW r \in Req, ForwardFails(r) PROVE CarriedInv'
  BY <1>6 DEF ForwardFails
<1>7. ASSUME NEW r \in Req, RetryForward(r) PROVE CarriedInv'
  BY <1>7 DEF RetryForward
<1>8. ASSUME NEW v \in VM, NEW r \in Req, VmFinish(v, r) PROVE CarriedInv'
  BY <1>8 DEF VmFinish, ReplayingOn
<1>9. ASSUME NEW v \in VM, AwsKill(v) PROVE CarriedInv'
  BY <1>9 DEF AwsKill
<1>10. ASSUME NEW v \in VM, TerminateHook(v) PROVE CarriedInv'
  BY <1>10 DEF TerminateHook
<1>11. ASSUME TimerFires PROVE CarriedInv'
  BY <1>11 DEF TimerFires
<1>12. ASSUME Start PROVE CarriedInv'
  BY <1>12 DEF Start
<1>13. ASSUME LaunchVm2 PROVE CarriedInv'
  BY <1>13 DEF LaunchVm2
<1>14. ASSUME WaitHealthy PROVE CarriedInv'
  BY <1>14 DEF WaitHealthy, Goto
<1>15. ASSUME Quiesce PROVE CarriedInv'
  BY <1>15 DEF Quiesce, Goto
<1>16. ASSUME CheckpointOld PROVE CarriedInv'
  BY <1>16 DEF CheckpointOld, Goto
<1>17. ASSUME RestoreNew PROVE CarriedInv'
  <2>1. RestoreInto("swap", "failed") /\ new \in VM
    BY <1>17 DEF RestoreNew
  <2>2. /\ \A v \in VM : ns[v] \subseteq ns'[v]
        /\ pc' \in {"swap", "failed"}
        /\ pc' = "swap" => s3.ns \subseteq ns'[new]
    BY <2>1, RestoreAdds
  <2>3. UNCHANGED <<tracked, stateVm, vmState, s3, settled, old, new>>
    BY <2>1 DEF RestoreInto, Goto
  <2> QED
    BY <1>17, <2>1, <2>2, <2>3 DEF RestoreNew
<1>18. ASSUME ProbeVm2 PROVE CarriedInv'
  BY <1>18 DEF ProbeVm2
<1>19. ASSUME RecoverRestore PROVE CarriedInv'
  <2>1. RestoreInto("swap", "giveup") /\ new \in VM
    BY <1>19 DEF RecoverRestore
  <2>2. /\ \A v \in VM : ns[v] \subseteq ns'[v]
        /\ pc' \in {"swap", "giveup"}
        /\ pc' = "swap" => s3.ns \subseteq ns'[new]
    BY <2>1, RestoreAdds
  <2>3. UNCHANGED <<tracked, stateVm, vmState, s3, settled, old, new>>
    BY <2>1 DEF RestoreInto, Goto
  <2> QED
    BY <1>19, <2>1, <2>2, <2>3 DEF RecoverRestore
<1>20. ASSUME GiveUp PROVE CarriedInv'
  BY <1>20 DEF GiveUp
<1>21. ASSUME SwapState PROVE CarriedInv'
  BY <1>21 DEF SwapState, Goto
<1>22. ASSUME SwapRegistry PROVE CarriedInv'
  BY <1>22 DEF SwapRegistry, Goto
<1>23. ASSUME ReplaySend PROVE CarriedInv'
  BY <1>23 DEF ReplaySend
<1>24. ASSUME ReplayFails PROVE CarriedInv'
  BY <1>24 DEF ReplayFails
<1>25. ASSUME ReplayEnds PROVE CarriedInv'
  BY <1>25 DEF ReplayEnds, AfterReplay, Goto
<1>26. ASSUME ClearQueue PROVE CarriedInv'
  BY <1>26 DEF ClearQueue, AfterReplay, Goto
<1>27. ASSUME ScheduleNext PROVE CarriedInv'
  BY <1>27 DEF ScheduleNext, Goto
<1>28. ASSUME TerminateOld PROVE CarriedInv'
  BY <1>28 DEF TerminateOld, TerminateApi, Goto
<1>29. ASSUME TermLookup PROVE CarriedInv'
  BY <1>29 DEF TermLookup
<1>30. ASSUME TermUnregister PROVE CarriedInv'
  BY <1>30 DEF TermUnregister
<1>31. ASSUME TermUnroute PROVE CarriedInv'
  BY <1>31 DEF TermUnroute
<1>32. ASSUME TermApi PROVE CarriedInv'
  BY <1>32 DEF TermApi, TerminateApi
<1>33. CASE UNCHANGED vars
  BY <1>33 DEF vars
<1> QED
  BY <1>1, <1>2, <1>3, <1>4, <1>5, <1>6, <1>7, <1>8, <1>9, <1>10, <1>11, <1>12,
     <1>13, <1>14, <1>15, <1>16, <1>17, <1>18, <1>19, <1>20, <1>21, <1>22, <1>23, <1>24,
     <1>25, <1>26, <1>27, <1>28, <1>29, <1>30, <1>31, <1>32, <1>33
     DEF Next, RequestStep, RotatorStep, TerminateStep, VmStep

-----------------------------------------------------------------------------
\* The two invariants hold together: each step of one relies on the other.
LEMMA Invariants == Spec => [](TypeOK /\ RoutingInv)
<1>1. Init => TypeOK /\ RoutingInv
  BY TypeInit, RoutingInit
<1>2. TypeOK /\ RoutingInv /\ [Next]_vars => (TypeOK /\ RoutingInv)'
  BY TypeStep, RoutingStep DEF RoutingInv
<1> QED
  BY <1>1, <1>2, PTL DEF Spec

\* Every variable keeps its type in every behaviour of the session.
THEOREM TypeCorrect == Spec => []TypeOK
  BY Invariants, PTL

\* The registry never routes the session to a VM that the manager has already
\* terminated, whatever fails and whenever the user terminates the session.
THEOREM RoutedVmIsAlwaysActive == Spec => []RoutedVmIsActive
<1>1. RoutingInv => RoutedVmIsActive
  BY DEF RoutingInv
<1> QED
  BY <1>1, Invariants, PTL

\* Between two rotations the rotator and the registry name the same VM: the next rotation
\* checkpoints the VM that clients really use, whatever failed in the rotations before.
THEOREM RotatorFollowsRegistry == Spec => []RotatorAndRegistryAgree
<1>1. AgreeInv => RotatorAndRegistryAgree
  BY DEF AgreeInv, SwapIsTheOnlyGap, RotatorAndRegistryAgree
<1>2. Init => AgreeInv
  BY AgreeInit
<1>3. AgreeInv /\ [Next]_vars => AgreeInv'
  BY AgreeStep
<1> QED
  BY <1>1, <1>2, <1>3, PTL DEF Spec

\* Where AWS stops no VM by itself, everything the session held when it was quiesced is in
\* the VM that serves it, over any number of rotations and whichever of their steps fail
\* or answer late, the checkpoint itself excepted.  (With VMs that AWS stops it is false:
\* the hook of a VM that a recovery left behind saves over the checkpoint.)
THEOREM QuiescedIsCarried ==
    ASSUME "kill" \notin Faults
    PROVE  Spec => []QuiescedStateIsCarried
<1> DEFINE All == TypeOK /\ RoutingInv /\ AgreeInv /\ CarriedInv
<1>1. Init => All
  BY TypeInit, RoutingInit, AgreeInit, CarriedInit
<1>2. All /\ [Next]_vars => All'
  BY TypeStep, RoutingStep, AgreeStep, CarriedStep DEF RoutingInv
<1>3. All => QuiescedStateIsCarried
  BY DEF AgreeInv, SwapIsTheOnlyGap, CarriedInv, SettledIsKept, QuiescedStateIsCarried
<1> HIDE DEF All
<1> QED
  BY <1>1, <1>2, <1>3, PTL DEF Spec

-----------------------------------------------------------------------------
(* At most once. *)

\* Nothing has run and nothing is queued.
LEMMA OnceInit == Init => OnceInv
  BY DEF Init, OnceInv, RunsOncePerSend, RunnableOnce, QueuedOnce, SentToTarget, OkMeansRan,
     Unreplayed, Pending

\* A request that starts to run on w leaves the place it could run from.
LEMMA StartRunning ==
    ASSUME TypeOK, RunnableOnce, UNCHANGED <<ran, tries>>,
           NEW q \in Req, NEW w \in VM,
           busy' = [busy EXCEPT ![w] = @ \cup {q}],
           Unreplayed(q) \/ Pending(q), ~Unreplayed(q)', ~Pending(q)',
           \A r \in Req : (Unreplayed(r)' => Unreplayed(r)) /\ (Pending(r)' => Pending(r))
    PROVE  RunnableOnce'
<1>1. \A v \in VM : busy'[v] = IF v = w THEN busy[v] \cup {q} ELSE busy[v]
  BY DEF TypeOK
<1>2. \A v \in VM : q \notin busy[v]
  BY DEF RunnableOnce
<1> SUFFICES ASSUME NEW r \in Req
             PROVE  /\ \A v, u \in VM : r \in busy'[v] /\ r \in busy'[u] => v = u
                    /\ (\E v \in VM : r \in busy'[v]) => ~Unreplayed(r)' /\ ~Pending(r)' /\ ran'[r] <= tries'[r]
                    /\ Unreplayed(r)' \/ Pending(r)' => ran'[r] <= tries'[r]
  BY DEF RunnableOnce
<1>3. CASE r = q
  BY <1>1, <1>2, <1>3 DEF RunnableOnce
<1>4. CASE r # q
  BY <1>1, <1>4 DEF RunnableOnce
<1> QED
  BY <1>3, <1>4

\* Requests that leave a VM without having run make nothing runnable.
LEMMA RunnableKept ==
    ASSUME RunnableOnce, UNCHANGED <<ran, tries>>,
           \A v \in VM : busy'[v] \subseteq busy[v],
           \A r \in Req : (Unreplayed(r)' => Unreplayed(r)) /\ (Pending(r)' => Pending(r))
    PROVE  RunnableOnce'
  BY DEF RunnableOnce

\* The phases of requests that are, or were, in the queue.
Queued == {"waiting", "ok", "error", "timeout"}

\* A queued request stays one for which the queue's entry is no surprise.
LEMMA QueuedKept ==
    ASSUME TypeOK, QueuedOnce, UNCHANGED queue,
           \A r \in Req : phase[r] \in Queued => phase'[r] \in Queued
    PROVE  QueuedOnce'
<1>1. \A i \in 1 .. Len(queue) : queue[i] \in Req
  BY DEF TypeOK
<1> QED
  BY <1>1 DEF QueuedOnce, Queued

\* A request that is not in the queue takes a step outside it.
LEMMA QueueUntouched ==
    ASSUME TypeOK, QueuedOnce, NEW r \in Req,
           Lookup(r) \/ CheckQuiesced(r) \/ RetryForward(r) \/ ForwardFails(r)
    PROVE  QueuedOnce'
<1>1. UNCHANGED queue
  BY DEF Lookup, CheckQuiesced, RetryForward, ForwardFails, rotVars
<1>2. phase[r] \notin Queued
  BY DEF Lookup, CheckQuiesced, RetryForward, ForwardFails, AnswerLost, Queued
<1>3. \A q \in Req : q # r => phase'[q] = phase[q]
  BY DEF TypeOK, Lookup, CheckQuiesced, RetryForward, ForwardFails
<1> QED
  BY <1>1, <1>2, <1>3, QueuedKept

\* Queueing a request keeps it in one place.
LEMMA OnceEnqueue ==
    ASSUME TypeOK, OnceInv, NEW r \in Req, Enqueue(r)
    PROVE  OnceInv'
<1>1. /\ phase[r] = "buffering"
      /\ UNCHANGED <<pc, idx, busy, tries, target, ran>>
  BY DEF Enqueue, rotVars, threadVars, vmVars, reqVars
<1>2. phase'[r] = "waiting" /\ \A q \in Req \ {r} : phase'[q] = phase[q]
  BY DEF Enqueue, TypeOK
<1>3. queue \in Seq(Req) /\ Len(queue) \in Nat /\ idx \in Nat
  BY DEF TypeOK
<1>4. CASE queue' = queue
  <2>1. QueuedOnce'
    BY <1>1, <1>2, <1>4, QueuedKept DEF OnceInv, Queued
  <2>2. \A q \in Req : (Unreplayed(q)' => Unreplayed(q)) /\ (Pending(q)' => Pending(q))
    BY <1>1, <1>2, <1>4 DEF Unreplayed, Pending
  <2>3. RunnableOnce'
    BY <1>1, <2>2, RunnableKept DEF OnceInv
  <2> QED
    BY <1>1, <1>2, <2>1, <2>3 DEF OnceInv, RunsOncePerSend, SentToTarget, OkMeansRan
<1>5. CASE queue' = Append(queue, r)
  <2>1. /\ Len(queue') = Len(queue) + 1 /\ queue'[Len(queue) + 1] = r
        /\ \A i \in 1 .. Len(queue) : queue'[i] = queue[i] /\ queue[i] \in Req
    BY <1>3, <1>5
  <2>2. \A i \in 1 .. Len(queue') : i \in 1 .. Len(queue) \/ i = Len(queue) + 1
    BY <1>3, <2>1
  <2>3. \A i \in 1 .. Len(queue) : queue[i] # r
    BY <1>1 DEF OnceInv, QueuedOnce
  <2>4. \A i \in 1 .. Len(queue') : phase'[queue'[i]] \in Queued
    BY <1>2, <2>1, <2>2, <2>3 DEF OnceInv, QueuedOnce, Queued
  <2>5. \A i, j \in 1 .. Len(queue') : queue'[i] = queue'[j] => i = j
    BY <2>1, <2>2, <2>3 DEF OnceInv, QueuedOnce
  <2>6. QueuedOnce'
    BY <2>4, <2>5 DEF QueuedOnce, Queued
  <2>7. \A q \in Req \ {r} : (Unreplayed(q)' => Unreplayed(q)) /\ (Pending(q)' => Pending(q))
    BY <1>1, <1>2, <2>1, <2>2 DEF Unreplayed, Pending
  <2>8. Pending(r) /\ ~Pending(r)'
    BY <1>1, <1>2 DEF Pending
  <2>9. RunnableOnce'
    BY <1>1, <2>7, <2>8 DEF OnceInv, RunnableOnce
  <2> QED
    BY <1>1, <1>2, <2>6, <2>9 DEF OnceInv, RunsOncePerSend, SentToTarget, OkMeansRan
<1> QED
  BY <1>4, <1>5 DEF Enqueue

\* Forwarding moves a request from its handler to its target.
LEMMA OnceForward ==
    ASSUME TypeOK, OnceInv, NEW r \in Req, Forward(r)
    PROVE  OnceInv'
<1>1. /\ phase[r] = "forward" /\ Pending(r)
      /\ UNCHANGED <<queue, pc, idx, tries, target, ran>>
  BY DEF Forward, Pending, rotVars, threadVars, vmVars, reqVars
<1>2. phase'[r] \in {"sent", "error"} /\ \A q \in Req \ {r} : phase'[q] = phase[q]
  BY DEF Forward, TypeOK
<1>3. \A q \in Req : Unreplayed(q)' => Unreplayed(q)
  BY <1>1 DEF Unreplayed
<1>4. \A q \in Req : Pending(q)' => Pending(q)
  BY <1>1, <1>2 DEF Pending
<1>5. ~Pending(r)'
  BY <1>2 DEF Pending
<1>6. ~Unreplayed(r)
  BY <1>1 DEF Unreplayed, OnceInv, QueuedOnce
<1>7. QueuedOnce'
  BY <1>1, <1>2, QueuedKept DEF OnceInv, Queued
<1>8. RunsOncePerSend' /\ OkMeansRan'
  BY <1>1, <1>2 DEF OnceInv, RunsOncePerSend, OkMeansRan
<1>9. CASE UNCHANGED busy /\ phase'[r] = "error"
  <2>1. RunnableOnce'
    BY <1>1, <1>3, <1>4, <1>9, RunnableKept DEF OnceInv
  <2>2. SentToTarget'
    BY <1>1, <1>2, <1>9 DEF OnceInv, SentToTarget
  <2> QED
    BY <1>7, <1>8, <2>1, <2>2 DEF OnceInv
<1>10. CASE target[r] \in VM /\ busy' = [busy EXCEPT ![target[r]] = @ \cup {r}]
  <2>1. RunnableOnce'
    BY <1>1, <1>3, <1>4, <1>5, <1>6, <1>10, StartRunning DEF OnceInv
  <2>2. \A v \in VM : busy'[v] = IF v = target[r] THEN busy[v] \cup {r} ELSE busy[v]
    BY <1>10 DEF TypeOK
  <2>3. \A v \in VM : r \notin busy[v]
    BY <1>1 DEF OnceInv, RunnableOnce
  <2>4. SentToTarget'
    <3> SUFFICES ASSUME NEW q \in Req, phase'[q] = "sent", NEW v \in VM, q \in busy'[v]
                 PROVE  v = target'[q]
      BY DEF SentToTarget
    <3>1. CASE q = r
      BY <1>1, <2>2, <2>3, <3>1
    <3>2. CASE q # r
      <4>1. q \in busy[v]
        BY <2>2, <3>2
      <4>2. phase[q] = "sent"
        BY <1>2, <3>2
      <4>3. target' = target
        BY <1>1
      <4> QED
        BY <4>1, <4>2, <4>3 DEF OnceInv, SentToTarget
    <3> QED
      BY <3>1, <3>2
  <2> QED
    BY <1>7, <1>8, <2>1, <2>4 DEF OnceInv
<1> QED
  BY <1>9, <1>10 DEF Forward, Running, TypeOK

\* A request that a VM finishes has nowhere left to run from.
LEMMA OnceVmFinish ==
    ASSUME TypeOK, OnceInv, NEW v \in VM, NEW r \in Req, VmFinish(v, r)
    PROVE  OnceInv'
<1>1. r \in busy[v] /\ UNCHANGED <<queue, tries, target>>
  BY DEF VmFinish
<1>2. /\ \A w \in VM : busy'[w] = IF w = v THEN busy[v] \ {r} ELSE busy[w]
      /\ \A q \in Req : ran'[q] = IF q = r THEN ran[r] + 1 ELSE ran[q]
  BY DEF VmFinish, TypeOK
<1>3. /\ \A q \in Req \ {r} : phase'[q] = phase[q]
      /\ phase'[r] = phase[r] \/ (phase[r] \in {"waiting", "sent"} /\ phase'[r] = "ok")
  BY DEF VmFinish, TypeOK
<1>4. \/ UNCHANGED <<pc, idx>>
      \/ pc = "replaying" /\ pc' = "replay" /\ idx' = idx + 1
  BY DEF VmFinish, ReplayingOn
<1>5. \A q \in Req : ran[q] \in Nat /\ tries[q] \in Nat
  BY DEF TypeOK
<1>6. ran[r] <= tries[r] /\ ~Unreplayed(r) /\ ~Pending(r)
  BY <1>1 DEF OnceInv, RunnableOnce
<1>7. \A q \in Req : Pending(q)' => Pending(q)
  BY <1>3 DEF Pending
<1>8. \A q \in Req : Unreplayed(q)' => Unreplayed(q)
  <2>1. idx \in Nat /\ queue \in Seq(Req)
    BY DEF TypeOK
  <2> QED
    BY <1>1, <1>4, <2>1 DEF Unreplayed
<1>9. RunsOncePerSend'
  BY <1>1, <1>2, <1>5, <1>6 DEF OnceInv, RunsOncePerSend
<1>10. RunnableOnce'
  <2> SUFFICES ASSUME NEW q \in Req
               PROVE  /\ \A u, w \in VM : q \in busy'[u] /\ q \in busy'[w] => u = w
                      /\ (\E u \in VM : q \in busy'[u]) =>
                             ~Unreplayed(q)' /\ ~Pending(q)' /\ ran'[q] <= tries'[q]
                      /\ Unreplayed(q)' \/ Pending(q)' => ran'[q] <= tries'[q]
    BY DEF RunnableOnce
  <2>1. CASE q = r
    <3>1. \A u \in VM : r \notin busy'[u]
      BY <1>1, <1>2 DEF OnceInv, RunnableOnce
    <3> QED
      BY <1>6, <1>7, <1>8, <2>1, <3>1
  <2>2. CASE q # r
    BY <1>1, <1>2, <1>7, <1>8, <2>2 DEF OnceInv, RunnableOnce
  <2> QED
    BY <2>1, <2>2
<1>11. QueuedOnce'
  BY <1>1, <1>3, QueuedKept DEF OnceInv, Queued
<1>12. SentToTarget'
  BY <1>1, <1>2, <1>3 DEF OnceInv, SentToTarget
<1>13. OkMeansRan'
  BY <1>2, <1>3, <1>5 DEF OnceInv, OkMeansRan
<1> QED
  BY <1>9, <1>10, <1>11, <1>12, <1>13 DEF OnceInv

\* Replaying moves a request from the queue to the VM, or past it.
LEMMA OnceReplaySend ==
    ASSUME TypeOK, OnceInv, ReplaySend
    PROVE  OnceInv'
<1>1. PICK q \in Req : q = queue[idx] /\ idx \in 1 .. Len(queue)
  BY DEF ReplaySend, TypeOK
<1>2. /\ pc = "replay" /\ UNCHANGED <<queue, tries, target, ran>>
  BY DEF ReplaySend, TypeOK
<1>3. Unreplayed(q) /\ phase[q] \in Queued
  BY <1>1, <1>2 DEF Unreplayed, OnceInv, QueuedOnce, Queued
<1>4. \A v \in VM : q \notin busy[v]
  BY <1>2, <1>3 DEF OnceInv, RunnableOnce
<1>5. CASE ReplayTarget \in VM /\ pc' = "replaying" /\ UNCHANGED <<idx, phase>>
           /\ busy' = [busy EXCEPT ![ReplayTarget] = @ \cup {q}]
  <2>1. \A r \in Req : (Unreplayed(r)' => Unreplayed(r)) /\ (Pending(r)' => Pending(r))
    BY <1>2, <1>5 DEF Unreplayed, Pending
  <2>2. ~Unreplayed(q)'
    BY <1>1, <1>2, <1>5 DEF Unreplayed, OnceInv, QueuedOnce
  <2>3. ~Pending(q)'
    BY <1>3, <1>5 DEF Pending, Queued
  <2>4. RunnableOnce'
    BY <1>2, <1>3, <1>5, <2>1, <2>2, <2>3, StartRunning DEF OnceInv
  <2>5. \A v \in VM : busy'[v] = IF v = ReplayTarget THEN busy[v] \cup {q} ELSE busy[v]
    BY <1>5 DEF TypeOK
  <2>6. SentToTarget'
    BY <1>2, <1>3, <1>5, <2>5 DEF OnceInv, SentToTarget, Queued
  <2>7. QueuedOnce'
    BY <1>2, <1>5, QueuedKept DEF OnceInv
  <2> QED
    BY <1>2, <1>5, <2>4, <2>6, <2>7 DEF OnceInv, RunsOncePerSend, OkMeansRan
<1>6. CASE pc' = pc /\ idx' = idx + 1 /\ UNCHANGED busy /\ FailWaiter(q)
  <2>1. /\ \A r \in Req \ {q} : phase'[r] = phase[r]
        /\ phase'[q] = IF phase[q] = "waiting" THEN "error" ELSE phase[q]
    BY <1>2, <1>6 DEF FailWaiter, TypeOK
  <2>2. \A r \in Req : Pending(r)' => Pending(r)
    BY <2>1 DEF Pending
  <2>3. \A r \in Req : Unreplayed(r)' => Unreplayed(r)
    <3>1. idx \in Nat /\ queue \in Seq(Req)
      BY DEF TypeOK
    <3> QED
      BY <1>2, <1>6, <3>1 DEF Unreplayed
  <2>4. RunnableOnce'
    BY <1>2, <1>6, <2>2, <2>3, RunnableKept DEF OnceInv
  <2>5. QueuedOnce'
    BY <1>2, <2>1, QueuedKept DEF OnceInv, Queued
  <2> QED
    BY <1>2, <1>6, <2>1, <2>4, <2>5 DEF OnceInv, RunsOncePerSend, SentToTarget, OkMeansRan
<1> QED
  BY <1>1, <1>5, <1>6 DEF ReplaySend, Running

\* No step makes a request runnable in a second place, or again.
LEMMA OnceStep == TypeOK /\ OnceInv /\ [Next]_vars => OnceInv'
<1> SUFFICES ASSUME TypeOK, OnceInv, [Next]_vars PROVE OnceInv'
  OBVIOUS
<1> USE DEF TypeOK, OnceInv, RunsOncePerSend, RunnableOnce, QueuedOnce, SentToTarget,
        OkMeansRan, Unreplayed, Pending,
            reqVars, proxyVars, rotVars, threadVars, vmVars
<1>1. ASSUME NEW r \in Req, Lookup(r) PROVE OnceInv'
  <2>1. RunsOncePerSend'
    BY <1>1 DEF Lookup
  <2>2. RunnableOnce'
    BY <1>1 DEF Lookup
  <2>3. QueuedOnce'
    BY <1>1, QueueUntouched
  <2>4. SentToTarget'
    BY <1>1 DEF Lookup
  <2>5. OkMeansRan'
    BY <1>1 DEF Lookup
  <2> QED
    BY <2>1, <2>2, <2>3, <2>4, <2>5
<1>2. ASSUME NEW r \in Req, CheckQuiesced(r) PROVE OnceInv'
  <2>1. RunsOncePerSend'
    BY <1>2 DEF CheckQuiesced
  <2>2. RunnableOnce'
    BY <1>2 DEF CheckQuiesced
  <2>3. QueuedOnce'
    BY <1>2, QueueUntouched
  <2>4. SentToTarget'
    BY <1>2 DEF CheckQuiesced
  <2>5. OkMeansRan'
    BY <1>2 DEF CheckQuiesced
  <2> QED
    BY <2>1, <2>2, <2>3, <2>4, <2>5
<1>3. ASSUME NEW r \in Req, Enqueue(r) PROVE OnceInv'
  BY <1>3, OnceEnqueue
<1>4. ASSUME NEW r \in Req, WaitTimeout(r) PROVE OnceInv'
  BY <1>4 DEF WaitTimeout
<1>5. ASSUME NEW r \in Req, Forward(r) PROVE OnceInv'
  BY <1>5, OnceForward
<1>6. ASSUME NEW r \in Req, ForwardFails(r) PROVE OnceInv'
  <2>1. RunsOncePerSend'
    BY <1>6 DEF ForwardFails
  <2>2. RunnableOnce'
    BY <1>6 DEF ForwardFails
  <2>3. QueuedOnce'
    BY <1>6, QueueUntouched
  <2>4. SentToTarget'
    BY <1>6 DEF ForwardFails
  <2>5. OkMeansRan'
    BY <1>6 DEF ForwardFails
  <2> QED
    BY <2>1, <2>2, <2>3, <2>4, <2>5
<1>7. ASSUME NEW r \in Req, RetryForward(r) PROVE OnceInv'
  <2>1. RunsOncePerSend'
    BY <1>7 DEF RetryForward, AnswerLost, Running
  <2>2. RunnableOnce'
    BY <1>7 DEF RetryForward, AnswerLost, Running
  <2>3. QueuedOnce'
    BY <1>7, QueueUntouched
  <2>4. SentToTarget'
    BY <1>7 DEF RetryForward, AnswerLost, Running
  <2>5. OkMeansRan'
    BY <1>7 DEF RetryForward, AnswerLost, Running
  <2> QED
    BY <2>1, <2>2, <2>3, <2>4, <2>5
<1>8. ASSUME NEW v \in VM, NEW r \in Req, VmFinish(v, r) PROVE OnceInv'
  BY <1>8, OnceVmFinish
<1>9. ASSUME NEW v \in VM, AwsKill(v) PROVE OnceInv'
  BY <1>9 DEF AwsKill
<1>10. ASSUME NEW v \in VM, TerminateHook(v) PROVE OnceInv'
  BY <1>10 DEF TerminateHook
<1>11. ASSUME TimerFires PROVE OnceInv'
  BY <1>11 DEF TimerFires
<1>12. ASSUME Start PROVE OnceInv'
  BY <1>12 DEF Start
<1>13. ASSUME LaunchVm2 PROVE OnceInv'
  BY <1>13 DEF LaunchVm2
<1>14. ASSUME WaitHealthy PROVE OnceInv'
  BY <1>14 DEF WaitHealthy, Goto
<1>15. ASSUME Quiesce PROVE OnceInv'
  BY <1>15 DEF Quiesce, Goto
<1>16. ASSUME CheckpointOld PROVE OnceInv'
  BY <1>16 DEF CheckpointOld, Goto
<1>17. ASSUME RestoreNew PROVE OnceInv'
  BY <1>17 DEF RestoreNew, RestoreInto, Goto
<1>18. ASSUME ProbeVm2 PROVE OnceInv'
  BY <1>18 DEF ProbeVm2
<1>19. ASSUME RecoverRestore PROVE OnceInv'
  BY <1>19 DEF RecoverRestore, RestoreInto, Goto
<1>20. ASSUME GiveUp PROVE OnceInv'
  BY <1>20 DEF GiveUp
<1>21. ASSUME SwapState PROVE OnceInv'
  BY <1>21 DEF SwapState, Goto
<1>22. ASSUME SwapRegistry PROVE OnceInv'
  BY <1>22 DEF SwapRegistry, Goto
<1>23. ASSUME ReplaySend PROVE OnceInv'
  BY <1>23, OnceReplaySend
<1>24. ASSUME ReplayFails PROVE OnceInv'
  BY <1>24, SMTT(30) DEF ReplayFails, FailWaiter
<1>25. ASSUME ReplayEnds PROVE OnceInv'
  BY <1>25 DEF ReplayEnds, AfterReplay, Goto
<1>26. ASSUME ClearQueue PROVE OnceInv'
  BY <1>26 DEF ClearQueue, AfterReplay, Goto
<1>27. ASSUME ScheduleNext PROVE OnceInv'
  BY <1>27 DEF ScheduleNext, Goto
<1>28. ASSUME TerminateOld PROVE OnceInv'
  BY <1>28 DEF TerminateOld, TerminateApi, Goto
<1>29. ASSUME TermLookup PROVE OnceInv'
  BY <1>29 DEF TermLookup
<1>30. ASSUME TermUnregister PROVE OnceInv'
  BY <1>30 DEF TermUnregister
<1>31. ASSUME TermUnroute PROVE OnceInv'
  BY <1>31 DEF TermUnroute
<1>32. ASSUME TermApi PROVE OnceInv'
  BY <1>32 DEF TermApi, TerminateApi
<1>33. CASE UNCHANGED vars
  BY <1>33 DEF vars
<1> QED
  BY <1>1, <1>2, <1>3, <1>4, <1>5, <1>6, <1>8, <1>9, <1>10, <1>11, <1>12, <1>13, <1>14,
     <1>15, <1>16, <1>17, <1>18, <1>19, <1>20, <1>21, <1>22, <1>23, <1>24, <1>25, <1>26,
     <1>27, <1>28, <1>29, <1>30, <1>31, <1>32, <1>33, <1>7 DEF Next, RequestStep,
     RotatorStep, TerminateStep, VmStep

\* The invariant behind RunsAtMostOnce.
LEMMA OnceInvariant == Spec => [](TypeOK /\ OnceInv)
<1>1. Init => OnceInv
  BY OnceInit
<1>2. TypeOK /\ TypeOK' /\ OnceInv /\ [Next]_vars => OnceInv'
  BY OnceStep
<1> QED
  BY <1>1, <1>2, TypeCorrect, PTL DEF Spec

\* No request runs twice, but for the proxy's own retry: not when it is queued
\* for several rotations, not when its replay fails, and not when its client
\* gave up long ago.
THEOREM RequestsRunOncePerSend == Spec => []RunsOncePerSend
<1>1. OnceInv => RunsOncePerSend
  BY DEF OnceInv
<1> QED
  BY <1>1, OnceInvariant, PTL

\* A request that is forwarded is running at its target.
LEMMA NoRetryForward ==
    ASSUME TypeOK, NoRetries, NEW r \in Req, Forward(r)
    PROVE  NoRetries'
<1>1. UNCHANGED <<tries, target, vmState>> /\ \A q \in Req \ {r} : phase'[q] = phase[q]
  BY DEF Forward, TypeOK
<1>2. \/ phase'[r] = "error" /\ UNCHANGED busy
      \/ phase'[r] = "sent" /\ \A v \in VM :
             busy'[v] = IF v = target[r] THEN busy[v] \cup {r} ELSE busy[v]
  BY DEF Forward, TypeOK
<1>3. phase'[r] = "sent" => target[r] \in VM
  BY DEF Forward, Running, TypeOK
<1>4. \A v \in VM : busy[v] \subseteq busy'[v]
  BY <1>2
<1>5. phase'[r] = "sent" => r \in busy'[target[r]]
  BY <1>2, <1>3
<1> QED
  BY <1>1, <1>3, <1>4, <1>5 DEF NoRetries

\* A VM that finishes a forwarded request answers it.
LEMMA NoRetryVmFinish ==
    ASSUME TypeOK, OnceInv, NoRetries, "badgateway" \notin Faults,
           NEW v \in VM, NEW r \in Req, VmFinish(v, r)
    PROVE  NoRetries'
<1>1. UNCHANGED <<tries, target, vmState>> /\ \A q \in Req \ {r} : phase'[q] = phase[q]
  BY DEF VmFinish, TypeOK
<1>2. \A w \in VM, q \in Req \ {r} : q \in busy[w] => q \in busy'[w]
  BY DEF VmFinish, TypeOK
<1>3. phase'[r] # "sent"
  <2>1. phase[r] = "sent" => target[r] = v
    BY DEF VmFinish, OnceInv, SentToTarget
  <2>2. CASE ReplayingOn(v, r)
    <3>1. idx \in 1 .. Len(queue) /\ queue[idx] = r
      BY <2>2 DEF ReplayingOn, TypeOK
    <3>2. phase[r] # "sent"
      BY <3>1 DEF OnceInv, QueuedOnce
    <3> QED
      BY <2>2, <3>2 DEF VmFinish, TypeOK
  <2>3. CASE ~ReplayingOn(v, r)
    BY <2>1, <2>3 DEF VmFinish, TypeOK
  <2> QED
    BY <2>2, <2>3
<1> QED
  BY <1>1, <1>2, <1>3 DEF NoRetries

\* A replay takes no request away from its target.
LEMMA NoRetryReplaySend ==
    ASSUME TypeOK, NoRetries, ReplaySend
    PROVE  NoRetries'
<1>1. UNCHANGED <<tries, target, vmState>>
  BY DEF ReplaySend
<1>2. \A q \in Req : phase'[q] = "sent" => phase[q] = "sent"
  BY DEF ReplaySend, FailWaiter, TypeOK
<1>3. \A w \in VM : busy[w] \subseteq busy'[w]
  <2>1. PICK q \in Req : q = queue[idx]
    BY DEF ReplaySend, TypeOK
  <2>2. CASE UNCHANGED busy
    BY <2>2
  <2>3. CASE ReplayTarget \in VM /\ busy' = [busy EXCEPT ![ReplayTarget] = @ \cup {q}]
    BY <2>3 DEF TypeOK
  <2> QED
    BY <2>1, <2>2, <2>3 DEF ReplaySend, Running
<1> QED
  BY <1>1, <1>2, <1>3 DEF NoRetries

\* While a 502 means that the request did not run, nothing is retried.
LEMMA NoRetryStep ==
    ASSUME "badgateway" \notin Faults
    PROVE  TypeOK /\ OnceInv /\ NoRetries /\ [Next]_vars => NoRetries'
<1> SUFFICES ASSUME TypeOK, OnceInv, NoRetries, [Next]_vars PROVE NoRetries'
  OBVIOUS
<1> USE DEF TypeOK, NoRetries, reqVars, proxyVars, rotVars, threadVars, vmVars, Running
<1>1. ASSUME NEW r \in Req, Lookup(r) PROVE NoRetries'
  BY <1>1 DEF Lookup
<1>2. ASSUME NEW r \in Req, CheckQuiesced(r) PROVE NoRetries'
  BY <1>2 DEF CheckQuiesced
<1>3. ASSUME NEW r \in Req, Enqueue(r) PROVE NoRetries'
  BY <1>3 DEF Enqueue
<1>4. ASSUME NEW r \in Req, WaitTimeout(r) PROVE NoRetries'
  BY <1>4 DEF WaitTimeout
<1>5. ASSUME NEW r \in Req, Forward(r) PROVE NoRetries'
  BY <1>5, NoRetryForward
<1>6. ASSUME NEW r \in Req, ForwardFails(r) PROVE NoRetries'
  BY <1>6 DEF ForwardFails
<1>7. ASSUME NEW v \in VM, NEW r \in Req, VmFinish(v, r) PROVE NoRetries'
  BY <1>7, NoRetryVmFinish
<1>8. ASSUME NEW v \in VM, AwsKill(v) PROVE NoRetries'
  BY <1>8 DEF AwsKill
<1>9. ASSUME NEW v \in VM, TerminateHook(v) PROVE NoRetries'
  BY <1>9 DEF TerminateHook
<1>10. ASSUME TimerFires PROVE NoRetries'
  BY <1>10 DEF TimerFires
<1>11. ASSUME Start PROVE NoRetries'
  BY <1>11 DEF Start
<1>12. ASSUME LaunchVm2 PROVE NoRetries'
  <2>1. \A v \in VM : vmState[v] \in {"stopping", "gone"} => vmState'[v] = vmState[v]
    BY <1>12 DEF LaunchVm2, NextVm
  <2>2. UNCHANGED <<busy, phase, target, tries>>
    BY <1>12 DEF LaunchVm2
  <2> QED
    BY <2>1, <2>2
<1>13. ASSUME WaitHealthy PROVE NoRetries'
  BY <1>13 DEF WaitHealthy
<1>14. ASSUME Quiesce PROVE NoRetries'
  BY <1>14 DEF Quiesce
<1>15. ASSUME CheckpointOld PROVE NoRetries'
  BY <1>15 DEF CheckpointOld
<1>16. ASSUME RestoreNew PROVE NoRetries'
  BY <1>16 DEF RestoreNew, RestoreInto
<1>17. ASSUME ProbeVm2 PROVE NoRetries'
  BY <1>17 DEF ProbeVm2
<1>18. ASSUME RecoverRestore PROVE NoRetries'
  BY <1>18 DEF RecoverRestore, RestoreInto
<1>19. ASSUME GiveUp PROVE NoRetries'
  BY <1>19 DEF GiveUp
<1>20. ASSUME SwapState PROVE NoRetries'
  BY <1>20 DEF SwapState
<1>21. ASSUME SwapRegistry PROVE NoRetries'
  BY <1>21 DEF SwapRegistry
<1>22. ASSUME ReplaySend PROVE NoRetries'
  BY <1>22, NoRetryReplaySend
<1>23. ASSUME ReplayFails PROVE NoRetries'
  BY <1>23 DEF ReplayFails, FailWaiter
<1>24. ASSUME ReplayEnds PROVE NoRetries'
  BY <1>24 DEF ReplayEnds
<1>25. ASSUME ClearQueue PROVE NoRetries'
  BY <1>25 DEF ClearQueue
<1>26. ASSUME ScheduleNext PROVE NoRetries'
  BY <1>26 DEF ScheduleNext
<1>27. ASSUME TerminateOld PROVE NoRetries'
  <2>1. \A v \in VM : vmState[v] \in {"stopping", "gone"} => vmState'[v] = vmState[v]
    BY <1>27 DEF TerminateOld, TerminateApi
  <2>2. UNCHANGED <<busy, phase, target, tries>>
    BY <1>27 DEF TerminateOld, TerminateApi
  <2> QED
    BY <2>1, <2>2
<1>28. ASSUME TermLookup PROVE NoRetries'
  BY <1>28 DEF TermLookup
<1>29. ASSUME TermUnregister PROVE NoRetries'
  BY <1>29 DEF TermUnregister
<1>30. ASSUME TermUnroute PROVE NoRetries'
  BY <1>30 DEF TermUnroute
<1>31. ASSUME TermApi PROVE NoRetries'
  <2>1. \A v \in VM : vmState[v] \in {"stopping", "gone"} => vmState'[v] = vmState[v]
    BY <1>31 DEF TermApi, TerminateApi
  <2>2. UNCHANGED <<busy, phase, target, tries>>
    BY <1>31 DEF TermApi, TerminateApi
  <2> QED
    BY <2>1, <2>2
<1>32. CASE UNCHANGED vars
  BY <1>32 DEF vars
<1>33. ASSUME NEW r \in Req, RetryForward(r) PROVE NoRetries'
  BY <1>33 DEF RetryForward, AnswerLost
<1> QED
  BY <1>1, <1>2, <1>3, <1>4, <1>5, <1>6, <1>7, <1>8, <1>9, <1>10, <1>11, <1>12, <1>13,
     <1>14, <1>15, <1>16, <1>17, <1>18, <1>19, <1>20, <1>21, <1>22, <1>23, <1>24, <1>25,
     <1>26, <1>27, <1>28, <1>29, <1>30, <1>31, <1>32, <1>33 DEF Next, RequestStep,
     RotatorStep, TerminateStep, VmStep

\* So nothing is ever sent twice.
LEMMA NoRetriesInvariant ==
    ASSUME "badgateway" \notin Faults
    PROVE  Spec => []NoRetries
<1>1. Init => NoRetries
  BY DEF Init, NoRetries
<1>2. TypeOK /\ OnceInv /\ NoRetries /\ [Next]_vars => NoRetries'
  BY NoRetryStep
<1> QED
  BY <1>1, <1>2, OnceInvariant, PTL DEF Spec

\* Then the session runs every request at most once.
THEOREM RequestsRunAtMostOnce ==
    ASSUME "badgateway" \notin Faults
    PROVE  Spec => []RunsAtMostOnce
<1>1. TypeOK /\ OnceInv /\ NoRetries => RunsAtMostOnce
  BY DEF TypeOK, OnceInv, NoRetries, RunsOncePerSend, RunsAtMostOnce
<1> QED
  BY <1>1, NoRetriesInvariant, OnceInvariant, PTL

-----------------------------------------------------------------------------
(* Refinement. *)

\* A step that neither answers nor runs a request is a stutter of the service.
LEMMA Stutter == UNCHANGED <<phase, ran>> => [Service!SNext]_(Service!svars)
  BY DEF Service!svars, OutcomeOf

\* Clients see a step that moves one request as a change of its outcome.
LEMMA OutcomeChange ==
    ASSUME phase \in [Req -> Phase], NEW r \in Req, NEW p,
           phase' = [phase EXCEPT ![r] = p]
    PROVE  /\ [q \in Req |-> OutcomeOf(phase'[q])]
               = [[q \in Req |-> OutcomeOf(phase[q])] EXCEPT ![r] = OutcomeOf(p)]
           /\ [q \in Req |-> OutcomeOf(phase[q])][r] = OutcomeOf(phase[r])
  OBVIOUS

\* An error, a 503 or a 404 rejects a request that is not answered yet.
LEMMA Rejected ==
    ASSUME phase \in [Req -> Phase], NEW r \in Req, UNCHANGED ran,
           NEW p \in {"error", "timeout", "missing"},
           phase' = [phase EXCEPT ![r] = p],
           phase[r] \in {"idle", "waiting", "forward", "sent"}
    PROVE  Service!Reject(r)
<1>1. OutcomeOf(p) = "failed" /\ OutcomeOf(phase[r]) \in {"none", "pending"}
  BY DEF OutcomeOf
<1> QED
  BY <1>1, OutcomeChange DEF Service!Reject

\* A move between two phases with the same outcome is invisible.
LEMMA Moved ==
    ASSUME phase \in [Req -> Phase], NEW r \in Req, UNCHANGED ran, NEW p,
           phase' = [phase EXCEPT ![r] = p], OutcomeOf(p) = OutcomeOf(phase[r])
    PROVE  UNCHANGED Service!svars
<1>1. [q \in Req |-> OutcomeOf(phase'[q])] = [q \in Req |-> OutcomeOf(phase[q])]
  BY OutcomeChange
<1> QED
  BY <1>1 DEF Service!svars

\* Each step of the proxy, the rotator and the VMs is a step of the service.
LEMMA ServiceStep ==
    TypeOK /\ OnceInv /\ NoRetries /\ [Next]_vars
        => [Service!SNext]_(Service!svars)
<1> SUFFICES ASSUME TypeOK, OnceInv, NoRetries, [Next]_vars
             PROVE [Service!SNext]_(Service!svars)
  OBVIOUS
<1> USE DEF TypeOK, reqVars
<1>1. ASSUME NEW r \in Req, Lookup(r) PROVE [Service!SNext]_(Service!svars)
  <2>1. CASE phase' = [phase EXCEPT ![r] = "missing"]
    BY <1>1, <2>1, Rejected DEF Lookup, Service!SNext
  <2>2. CASE phase' = [phase EXCEPT ![r] = "looked"]
    <3>1. OutcomeOf("looked") = "pending" /\ OutcomeOf(phase[r]) = "none"
      BY <1>1 DEF Lookup, OutcomeOf
    <3>2. Service!Submit(r)
      BY <1>1, <2>2, <3>1, OutcomeChange, ZenonT(60) DEF Lookup, Service!Submit
    <3> QED
      BY <3>2 DEF Service!SNext
  <2> QED
    BY <1>1, <2>1, <2>2 DEF Lookup
<1>2. ASSUME NEW r \in Req, CheckQuiesced(r) PROVE [Service!SNext]_(Service!svars)
  BY <1>2, Moved DEF CheckQuiesced, OutcomeOf
<1>3. ASSUME NEW r \in Req, Enqueue(r) PROVE [Service!SNext]_(Service!svars)
  BY <1>3, Moved DEF Enqueue, OutcomeOf
<1>4. ASSUME NEW r \in Req, WaitTimeout(r) PROVE [Service!SNext]_(Service!svars)
  BY <1>4, Rejected DEF WaitTimeout, Service!SNext
<1>5. ASSUME NEW r \in Req, Forward(r) PROVE [Service!SNext]_(Service!svars)
  <2>1. CASE phase' = [phase EXCEPT ![r] = "error"]
    BY <1>5, <2>1, Rejected DEF Forward, Service!SNext
  <2>2. CASE phase' = [phase EXCEPT ![r] = "sent"]
    BY <1>5, <2>2, Moved DEF Forward, OutcomeOf
  <2> QED
    BY <1>5, <2>1, <2>2 DEF Forward
<1>6. ASSUME NEW r \in Req, ForwardFails(r) PROVE [Service!SNext]_(Service!svars)
  BY <1>6, Rejected DEF ForwardFails, Service!SNext
<1>7. ASSUME NEW r \in Req, RetryForward(r) PROVE [Service!SNext]_(Service!svars)
  BY <1>7, Moved DEF RetryForward, AnswerLost, OutcomeOf
<1>8. ASSUME NEW v \in VM, NEW r \in Req, VmFinish(v, r) PROVE [Service!SNext]_(Service!svars)
  <2>1. r \in busy[v] /\ ran[r] \in Nat /\ tries[r] = 0
    BY <1>8 DEF VmFinish, NoRetries
  <2>2. ran[r] <= tries[r] /\ ~Pending(r)
    BY <2>1 DEF OnceInv, RunnableOnce
  <2>3. ran[r] = 0 /\ phase[r] \notin {"idle", "ok"}
    BY <2>1, <2>2 DEF OnceInv, OkMeansRan, Pending
  <2>4. ran' = [ran EXCEPT ![r] = 1]
    BY <1>8, <2>3 DEF VmFinish
  <2>5. CASE phase' = [phase EXCEPT ![r] = "ok"] /\ phase[r] \in {"waiting", "sent"}
    <3>1. OutcomeOf("ok") = "ok" /\ OutcomeOf(phase[r]) = "pending"
      BY <2>5 DEF OutcomeOf
    <3>2. Service!Run(r)
      BY <2>3, <2>4, <2>5, <3>1, OutcomeChange DEF Service!Run
    <3> QED
      BY <3>2 DEF Service!SNext
  <2>6. CASE UNCHANGED phase
    <3>1. OutcomeOf(phase[r]) \in {"pending", "failed"}
      BY <2>3 DEF OutcomeOf
    <3>2. Service!Run(r)
      BY <2>3, <2>4, <2>6, <3>1 DEF Service!Run
    <3> QED
      BY <3>2 DEF Service!SNext
  <2> QED
    BY <1>8, <2>5, <2>6 DEF VmFinish
<1>9. ASSUME NEW v \in VM, AwsKill(v) PROVE [Service!SNext]_(Service!svars)
  BY <1>9, Stutter DEF AwsKill
<1>10. ASSUME NEW v \in VM, TerminateHook(v) PROVE [Service!SNext]_(Service!svars)
  BY <1>10, Stutter DEF TerminateHook
<1>11. ASSUME TimerFires PROVE [Service!SNext]_(Service!svars)
  BY <1>11, Stutter DEF TimerFires
<1>12. ASSUME Start PROVE [Service!SNext]_(Service!svars)
  BY <1>12, Stutter DEF Start
<1>13. ASSUME LaunchVm2 PROVE [Service!SNext]_(Service!svars)
  BY <1>13, Stutter DEF LaunchVm2
<1>14. ASSUME WaitHealthy PROVE [Service!SNext]_(Service!svars)
  BY <1>14, Stutter DEF WaitHealthy
<1>15. ASSUME Quiesce PROVE [Service!SNext]_(Service!svars)
  BY <1>15, Stutter DEF Quiesce
<1>16. ASSUME CheckpointOld PROVE [Service!SNext]_(Service!svars)
  BY <1>16, Stutter DEF CheckpointOld
<1>17. ASSUME RestoreNew PROVE [Service!SNext]_(Service!svars)
  BY <1>17, Stutter DEF RestoreNew, RestoreInto
<1>18. ASSUME ProbeVm2 PROVE [Service!SNext]_(Service!svars)
  BY <1>18, Stutter DEF ProbeVm2
<1>19. ASSUME RecoverRestore PROVE [Service!SNext]_(Service!svars)
  BY <1>19, Stutter DEF RecoverRestore, RestoreInto
<1>20. ASSUME GiveUp PROVE [Service!SNext]_(Service!svars)
  BY <1>20, Stutter DEF GiveUp
<1>21. ASSUME SwapState PROVE [Service!SNext]_(Service!svars)
  BY <1>21, Stutter DEF SwapState
<1>22. ASSUME SwapRegistry PROVE [Service!SNext]_(Service!svars)
  BY <1>22, Stutter DEF SwapRegistry
<1>23. ASSUME ReplaySend PROVE [Service!SNext]_(Service!svars)
  <2> DEFINE q == queue[idx]
  <2>1. CASE phase' = [phase EXCEPT ![q] = "error"] /\ q \in Req /\ phase[q] = "waiting"
    <3>1. Service!Reject(q)
      BY <1>23, <2>1, Rejected DEF ReplaySend
    <3> QED
      BY <2>1, <3>1 DEF Service!SNext
  <2>2. CASE UNCHANGED phase
    BY <1>23, <2>2, Stutter DEF ReplaySend
  <2> QED
    BY <1>23, <2>1, <2>2 DEF ReplaySend, FailWaiter
<1>24. ASSUME ReplayFails PROVE [Service!SNext]_(Service!svars)
  <2> DEFINE q == queue[idx]
  <2>1. CASE phase' = [phase EXCEPT ![q] = "error"] /\ q \in Req /\ phase[q] = "waiting"
    <3>1. Service!Reject(q)
      BY <1>24, <2>1, Rejected DEF ReplayFails
    <3> QED
      BY <2>1, <3>1 DEF Service!SNext
  <2>2. CASE UNCHANGED phase
    BY <1>24, <2>2, Stutter DEF ReplayFails
  <2>3. phase' = [phase EXCEPT ![q] = IF @ = "waiting" THEN "error" ELSE @]
    BY <1>24 DEF ReplayFails, FailWaiter
  <2>4. q \in Req /\ phase[q] = "waiting" => phase' = [phase EXCEPT ![q] = "error"]
    BY <2>3
  <2>5. ~(q \in Req /\ phase[q] = "waiting") => phase' = phase
    BY <2>3
  <2> QED
    BY <2>1, <2>2, <2>4, <2>5
<1>25. ASSUME ReplayEnds PROVE [Service!SNext]_(Service!svars)
  BY <1>25, Stutter DEF ReplayEnds
<1>26. ASSUME ClearQueue PROVE [Service!SNext]_(Service!svars)
  BY <1>26, Stutter DEF ClearQueue
<1>27. ASSUME ScheduleNext PROVE [Service!SNext]_(Service!svars)
  BY <1>27, Stutter DEF ScheduleNext
<1>28. ASSUME TerminateOld PROVE [Service!SNext]_(Service!svars)
  BY <1>28, Stutter DEF TerminateOld, TerminateApi
<1>29. ASSUME TermLookup PROVE [Service!SNext]_(Service!svars)
  BY <1>29, Stutter DEF TermLookup
<1>30. ASSUME TermUnregister PROVE [Service!SNext]_(Service!svars)
  BY <1>30, Stutter DEF TermUnregister
<1>31. ASSUME TermUnroute PROVE [Service!SNext]_(Service!svars)
  BY <1>31, Stutter DEF TermUnroute
<1>32. ASSUME TermApi PROVE [Service!SNext]_(Service!svars)
  BY <1>32, Stutter DEF TermApi, TerminateApi
<1>33. CASE UNCHANGED vars
  BY <1>33, Stutter DEF vars
<1> QED
  BY <1>1, <1>2, <1>3, <1>4, <1>5, <1>6, <1>8, <1>9, <1>10, <1>11, <1>12, <1>13, <1>14,
     <1>15, <1>16, <1>17, <1>18, <1>19, <1>20, <1>21, <1>22, <1>23, <1>24, <1>25, <1>26,
     <1>27, <1>28, <1>29, <1>30, <1>31, <1>32, <1>33, <1>7 DEF Next, RequestStep,
     RotatorStep, TerminateStep, VmStep

\* Clients cannot tell a session with its rotations, failed rotations and
\* terminations from a service that runs each request at most once and never
\* answers "ok" for a request that did not run.
THEOREM Refinement ==
    ASSUME "badgateway" \notin Faults
    PROVE  Spec => ImplementsService
<1>1. Init => Service!SInit
  BY DEF Init, Service!SInit, OutcomeOf
<1> QED
  BY <1>1, ServiceStep, OnceInvariant, NoRetriesInvariant, PTL DEF Spec, ImplementsService,
     Service!SSpec
=============================================================================
