--------------------------- MODULE CheckpointProofs ---------------------------
(***************************************************************************)
(* Type correctness of Checkpoint; that restore tells the truth, that no   *)
(* recorded package is forgotten, and that a successor starts with the     *)
(* latest state: for any names, files and packages, any number of VMs and  *)
(* of failures.                                                            *)
(***************************************************************************)
EXTENDS Checkpoint, TLAPS

-----------------------------------------------------------------------------
(* Where a restore may run, and what the rotation may wait for. *)

\* A launch restores only while nobody serves the session, one at a time; the
\* VM2 of a rotation is bare, or dead, and never the VM it replaces.
OneRestores ==
    /\ \A u \in VM : life[u] = "restoring" =>
          /\ rot = "none" /\ life[owner] # "up"
          /\ \A w \in VM : life[w] = "restoring" => w = u
    /\ rot # "none" => life[vm2] \in {"bare", "gone"} /\ vm2 # owner

\* What a restore has fetched when it stands at a label, and when its VM serves.
Progress ==
    /\ \A u \in VM : restorePc[u] = "files" => got[u] = {"pkl"}
    /\ \A u \in VM : restorePc[u] \in {"reqs", "rest"} => got[u] = {"pkl", "files"}

\* The inductive invariant.
RestoreInv == TypeOK /\ OneRestores /\ Progress /\ RestoreReportsTruth

-----------------------------------------------------------------------------
\* The first VM exists.
LEMMA FirstVm == 1 \in VM
  BY BoundsAssumption DEF VM

\* The state of a first launch satisfies the invariant.
LEMMA InvInit == Init => RestoreInv
<1> SUFFICES ASSUME Init PROVE RestoreInv
  OBVIOUS
<1>1. TypeOK
  BY FirstVm DEF Init, TypeOK, Namespace, Stored, Empty, NoFiles, Absent
<1>2. OneRestores
  BY FirstVm DEF Init, OneRestores
<1>3. Progress /\ RestoreReportsTruth
  BY FirstVm DEF Init, Progress, RestoreReportsTruth
<1> QED
  BY <1>1, <1>2, <1>3 DEF RestoreInv

\* Every step keeps the types.
LEMMA TypeStep == TypeOK /\ OneRestores /\ [Next]_vars => TypeOK'
<1> SUFFICES ASSUME TypeOK, OneRestores, [Next]_vars PROVE TypeOK'
  OBVIOUS
<1> USE DEF TypeOK, Namespace, Stored, Absent, Serves, LoopFree,
            s3Vars, vmVars, cellVars, jobVars, proxyVars, history
<1>1. ASSUME NEW v \in VM, CellStart(v) PROVE TypeOK'
  BY <1>1 DEF CellStart, Tick
<1>2. ASSUME NEW v \in VM, CellRun(v) PROVE TypeOK'
  <2>1. PICK n \in {clock, Absent} :
           \/ \E x \in Var : ns' = [ns EXCEPT ![v][x] = n] /\ UNCHANGED files
           \/ \E f \in File : files' = [files EXCEPT ![v][f] = n] /\ UNCHANGED ns
    BY <1>2 DEF CellRun
  <2>2. n \in Nat
    BY <2>1
  <2>3. ns' \in [VM -> [Var -> Nat]] /\ files' \in [VM -> [File -> Nat]]
    <3>1. ASSUME NEW x \in Var, ns' = [ns EXCEPT ![v][x] = n], UNCHANGED files
          PROVE ns' \in [VM -> [Var -> Nat]] /\ files' \in [VM -> [File -> Nat]]
      BY <3>1, <2>2
    <3>2. ASSUME NEW f \in File, files' = [files EXCEPT ![v][f] = n], UNCHANGED ns
          PROVE ns' \in [VM -> [Var -> Nat]] /\ files' \in [VM -> [File -> Nat]]
      BY <3>2, <2>2
    <3> QED
      BY <3>1, <3>2, <2>1
  <2>4. UNCHANGED <<eternal, owner, vm2, life, rotated, rot, pkgs, savePc, buf, restorePc,
                    pkl, tar, reqs, clock, got, owed, dropped, excused>>
        /\ cellPc' \in [VM -> {"idle", "running"}] /\ whole' \in [VM -> {"no", "begun", "yes"}]
        /\ faults' = faults
    BY <1>2 DEF CellRun, Change
  <2> QED
    BY <2>3, <2>4
<1>3. ASSUME NEW v \in VM, Reset(v) PROVE TypeOK'
  BY <1>3 DEF Reset, Tick, Change, Empty
<1>4. ASSUME NEW v \in VM, NEW p \in Pkg, Install(v, p) PROVE TypeOK'
  BY <1>4 DEF Install, Tick, Change
<1>5. ASSUME NEW v \in VM, NEW p \in Pkg, Uninstall(v, p) PROVE TypeOK'
  BY <1>5 DEF Uninstall, Tick, Change
<1>6. ASSUME NEW v \in VM, Terminate(v) PROVE TypeOK'
  BY <1>6 DEF Terminate, StopJob, StopLife, HookSaves
<1>7. ASSUME NEW v \in VM, StopStray(v) PROVE TypeOK'
  BY <1>7 DEF StopStray, StopJob, StopLife, HookSaves
<1>8. ASSUME NEW v \in VM, Kill(v) PROVE TypeOK'
  BY <1>8 DEF Kill, Fault
<1>9. ASSUME NEW v \in VM, Relaunch(v) PROVE TypeOK'
  BY <1>9 DEF Relaunch, Fresh
<1>10. ASSUME NEW v \in VM, Serialize(v) PROVE TypeOK'
  BY <1>10 DEF Serialize, SaveGoto, Visible
<1>11. ASSUME NEW v \in VM, PutPkl(v) PROVE TypeOK'
  BY <1>11 DEF PutPkl, SaveGoto
<1>12. ASSUME NEW v \in VM, PutFiles(v) PROVE TypeOK'
  BY <1>12 DEF PutFiles, SaveGoto, NoFiles
<1>13. ASSUME NEW v \in VM, PutReqs(v) PROVE TypeOK'
  BY <1>13 DEF PutReqs, SaveGoto
<1>14. ASSUME NEW v \in VM, PutMeta(v) PROVE TypeOK'
  <2>1. life' \in [VM -> {"none", "bare", "restoring", "up", "stray", "stopping", "gone"}]
        /\ rot' \in {"none", "save", "restore", "probe", "again"}
        /\ restorePc' \in [VM -> {"idle", "pkl", "files", "reqs", "rest"}]
    <3>1. life' \in [VM -> {"none", "bare", "restoring", "up", "stray", "stopping", "gone"}]
      <4>1. CASE life[v] = "stopping"
        BY <4>1, <1>14 DEF PutMeta, SaveReturns
      <4>2. CASE life[v] # "stopping"
        BY <4>2, <1>14 DEF PutMeta, SaveReturns
      <4> QED
        BY <4>1, <4>2
    <3>2. rot' \in {"none", "save", "restore", "probe", "again"}
      BY <1>14 DEF PutMeta, SaveReturns
    <3>3. restorePc' \in [VM -> {"idle", "pkl", "files", "reqs", "rest"}]
      <4>1. restorePc' = restorePc \/ restorePc' = [restorePc EXCEPT ![vm2] = "pkl"]
        BY <1>14 DEF PutMeta, SaveReturns
      <4> QED
        BY <4>1, ZenonT(60)
    <3> QED
      BY <3>1, <3>2, <3>3
  <2>2. \A u \in VM : /\ restorePc'[u] # "idle" => life'[u] \in {"bare", "restoring", "stray"}
                      /\ restorePc'[u] = "idle" => life'[u] # "restoring"
    BY <1>14 DEF PutMeta, SaveReturns
  <2>3. savePc' = [savePc EXCEPT ![v] = "idle"]
        /\ whole' \in [VM -> {"no", "begun", "yes"}]
        /\ UNCHANGED <<eternal, owner, vm2, rotated, ns, files, pkgs, cellPc, clock, buf,
                         pkl, tar, reqs, got, owed, dropped, excused, faults>>
    BY <1>14 DEF PutMeta, SaveReturns, SaveGoto
  <2>4. savePc' \in [VM -> {"idle", "serialize", "pkl", "files", "reqs", "meta"}]
    BY <2>3
  <2>5. /\ eternal' \in BOOLEAN /\ excused' \in BOOLEAN /\ faults' \in Nat /\ clock' \in Nat
        /\ buf' \in [VM -> Namespace] /\ ns' \in [VM -> Namespace]
        /\ pkl' \in Stored(Namespace) /\ tar' \in Stored([File -> Nat]) /\ reqs' \in Stored(SUBSET Pkg)
    BY <2>3
  <2>6. /\ owner' \in VM /\ vm2' \in VM /\ rotated' \in [VM -> BOOLEAN]
        /\ files' \in [VM -> [File -> Nat]] /\ pkgs' \in [VM -> SUBSET Pkg]
        /\ cellPc' \in [VM -> {"idle", "running"}] /\ whole' \in [VM -> {"no", "begun", "yes"}]
        /\ got' \in [VM -> SUBSET {"pkl", "files"}]
        /\ owed' \in SUBSET Pkg /\ dropped' \in SUBSET Pkg
    BY <2>3
  <2> QED
    BY <2>1, <2>2, <2>4, <2>5, <2>6
<1>15. ASSUME NEW v \in VM, SaveRaises(v) PROVE TypeOK'
  BY <1>15 DEF SaveRaises, SaveGoto, SaveReturns, Change, Fault
<1>16. ASSUME NEW v \in VM, GetPkl(v) PROVE TypeOK'
  BY <1>16 DEF GetPkl, RestoreGoto, Update
<1>17. ASSUME NEW v \in VM, GetFiles(v) PROVE TypeOK'
  BY <1>17 DEF GetFiles, RestoreGoto, Update
<1>18. ASSUME NEW v \in VM, GetReqs(v) PROVE TypeOK'
  <2>1. pkgs' \in [VM -> SUBSET Pkg] /\ excused' \in BOOLEAN /\ faults' \in Nat
    <3>1. pkgs' = pkgs \/ pkgs' = [pkgs EXCEPT ![v] = reqs.of]
      BY <1>18 DEF GetReqs
    <3>2. pkgs' \in [VM -> SUBSET Pkg]
      BY <3>1, ZenonT(60)
    <3>3. faults' = faults \/ faults' = faults + 1
      BY <1>18 DEF GetReqs, Fault
    <3>4. excused' = excused \/ excused' = TRUE
      BY <1>18 DEF GetReqs
    <3>5. excused' \in BOOLEAN
      BY <3>4
    <3>6. faults' \in Nat
      BY <3>3
    <3> QED
      BY <3>2, <3>5, <3>6
  <2>2. restorePc' = [restorePc EXCEPT ![v] = "rest"] /\ restorePc[v] = "reqs"
        /\ UNCHANGED <<eternal, owner, vm2, life, rotated, rot, ns, files, cellPc, savePc, buf,
                         pkl, tar, reqs, clock, whole, got, owed, dropped>>
    BY <1>18 DEF GetReqs, RestoreGoto
  <2> QED
    BY <2>1, <2>2
<1>19. ASSUME NEW v \in VM, GetRest(v) PROVE TypeOK'
  <2>1. life' \in [VM -> {"none", "bare", "restoring", "up", "stray", "stopping", "gone"}]
        /\ owner' \in VM /\ rot' \in {"none", "save", "restore", "probe", "again"}
    BY <1>19 DEF GetRest, StopLife
  <2>2. savePc' \in [VM -> {"idle", "serialize", "pkl", "files", "reqs", "meta"}]
    BY <1>19 DEF GetRest, StopJob
  <2>3. restorePc' = [restorePc EXCEPT ![v] = "idle"] /\ restorePc[v] = "rest"
    BY <1>19 DEF GetRest, RestoreGoto
  <2>4. ASSUME NEW u \in VM
        PROVE  /\ restorePc'[u] # "idle" => life'[u] \in {"bare", "restoring", "stray"}
               /\ restorePc'[u] = "idle" => life'[u] # "restoring"
    <3>1. CASE u = v
      <4>1. CASE life[v] = "restoring" \/ (rot \in {"restore", "again"} /\ v = vm2)
        BY <3>1, <4>1, <2>3, <1>19 DEF GetRest
      <4>2. CASE ~(life[v] = "restoring" \/ (rot \in {"restore", "again"} /\ v = vm2))
        BY <3>1, <4>2, <2>3, <1>19 DEF GetRest
      <4> QED
        BY <4>1, <4>2
    <3>2. CASE u # v /\ u = owner
      <4>1. life'[u] = life[u] \/ (life[u] = "up" /\ life'[u] \in {"stopping", "gone", "stray"})
        BY <3>2, <1>19 DEF GetRest, StopLife
      <4>2. restorePc'[u] = restorePc[u]
        BY <3>2, <2>3
      <4> QED
        BY <4>1, <4>2
    <3>3. CASE u # v /\ u # owner
      BY <3>3, <2>3, <1>19 DEF GetRest
    <3> QED
      BY <3>1, <3>2, <3>3
  <2>5. UNCHANGED <<eternal, vm2, rotated, ns, files, pkgs, cellPc, clock, buf,
                    pkl, tar, reqs, whole, got, owed, dropped, excused, faults>>
    BY <1>19 DEF GetRest
  <2> QED
    BY <2>1, <2>2, <2>3, <2>4, <2>5
<1>20. ASSUME NEW v \in VM, RestoreRaises(v) PROVE TypeOK'
  <2>1. life' \in [VM -> {"none", "bare", "restoring", "up", "stray", "stopping", "gone"}]
        /\ rot' \in {"none", "save", "restore", "probe", "again"}
        /\ restorePc' = [restorePc EXCEPT ![v] = "idle"] /\ faults' \in Nat
    <3>1. life' = life \/ life' = [life EXCEPT ![vm2] = "stray"] \/ life' = [life EXCEPT ![v] = "gone"]
      BY <1>20 DEF RestoreRaises, LeaveVm2
    <3>2. life' \in [VM -> {"none", "bare", "restoring", "up", "stray", "stopping", "gone"}]
      <4>1. CASE life' = life
        BY <4>1
      <4>2. CASE life' = [life EXCEPT ![vm2] = "stray"]
        BY <4>2
      <4>3. CASE life' = [life EXCEPT ![v] = "gone"]
        BY <4>3
      <4> QED
        BY <3>1, <4>1, <4>2, <4>3
    <3>3. rot' \in {"none", "save", "restore", "probe", "again"}
      BY <1>20 DEF RestoreRaises, Disappointed
    <3>4. restorePc' = [restorePc EXCEPT ![v] = "idle"] /\ faults' \in Nat
      BY <1>20 DEF RestoreRaises, RestoreGoto, Fault
    <3> QED
      BY <3>2, <3>3, <3>4
  <2>2. ASSUME NEW u \in VM
        PROVE  /\ restorePc'[u] # "idle" => life'[u] \in {"bare", "restoring", "stray"}
               /\ restorePc'[u] = "idle" => life'[u] # "restoring"
    <3>1. CASE rot \in {"restore", "again"} /\ v = vm2
      BY <3>1, <2>1, <1>20 DEF RestoreRaises, LeaveVm2, OneRestores
    <3>2. CASE ~(rot \in {"restore", "again"} /\ v = vm2)
      BY <3>2, <2>1, <1>20 DEF RestoreRaises
    <3> QED
      BY <3>1, <3>2
  <2>3. UNCHANGED <<eternal, owner, vm2, rotated, ns, files, pkgs, cellPc, clock, savePc, buf,
                    pkl, tar, reqs, whole, got, owed, dropped, excused>>
    BY <1>20 DEF RestoreRaises
  <2> QED
    BY <2>1, <2>2, <2>3
<1>21. ASSUME NEW v \in VM, NEW w \in VM, Rotate(v, w) PROVE TypeOK'
  BY <1>21 DEF Rotate, Fresh
<1>22. ASSUME AnswerTimeout PROVE TypeOK'
  BY <1>22 DEF AnswerTimeout, Fault, Disappointed, LeaveVm2
<1>23. ASSUME ProbeAlive PROVE TypeOK'
  BY <1>23 DEF ProbeAlive
<1>24. ASSUME ProbeDead PROVE TypeOK'
  BY <1>24 DEF ProbeDead, Fault
<1>25. CASE UNCHANGED vars
  BY <1>25 DEF vars
<1> QED
  BY <1>1, <1>2, <1>3, <1>4, <1>5, <1>6, <1>7, <1>8, <1>9, <1>10,
     <1>11, <1>12, <1>13, <1>14, <1>15, <1>16, <1>17, <1>18, <1>19, <1>20,
     <1>21, <1>22, <1>23, <1>24, <1>25
     DEF Next, Work, Move, RotateSession, Save, Restore

\* Every step keeps launches and rotations apart.
LEMMA OneRestoresStep == TypeOK /\ OneRestores /\ [Next]_vars => OneRestores'
<1> SUFFICES ASSUME TypeOK, OneRestores, [Next]_vars PROVE OneRestores'
  OBVIOUS
<1> USE DEF TypeOK, OneRestores, Serves, LoopFree,
            s3Vars, vmVars, cellVars, jobVars, proxyVars, history
<1>1. ASSUME NEW v \in VM, CellStart(v) PROVE OneRestores'
  BY <1>1 DEF CellStart, Tick
<1>2. ASSUME NEW v \in VM, CellRun(v) PROVE OneRestores'
  BY <1>2 DEF CellRun, Change
<1>3. ASSUME NEW v \in VM, Reset(v) PROVE OneRestores'
  BY <1>3 DEF Reset, Tick, Change, Empty
<1>4. ASSUME NEW v \in VM, NEW p \in Pkg, Install(v, p) PROVE OneRestores'
  BY <1>4 DEF Install, Tick, Change
<1>5. ASSUME NEW v \in VM, NEW p \in Pkg, Uninstall(v, p) PROVE OneRestores'
  BY <1>5 DEF Uninstall, Tick, Change
<1>6. ASSUME NEW v \in VM, Terminate(v) PROVE OneRestores'
  BY <1>6 DEF Terminate, StopJob, StopLife, HookSaves
<1>7. ASSUME NEW v \in VM, StopStray(v) PROVE OneRestores'
  BY <1>7 DEF StopStray, StopJob, StopLife, HookSaves
<1>8. ASSUME NEW v \in VM, Kill(v) PROVE OneRestores'
  BY <1>8 DEF Kill, Fault
<1>9. ASSUME NEW v \in VM, Relaunch(v) PROVE OneRestores'
  BY <1>9 DEF Relaunch, Fresh
<1>10. ASSUME NEW v \in VM, Serialize(v) PROVE OneRestores'
  BY <1>10 DEF Serialize, SaveGoto, Visible
<1>11. ASSUME NEW v \in VM, PutPkl(v) PROVE OneRestores'
  BY <1>11 DEF PutPkl, SaveGoto
<1>12. ASSUME NEW v \in VM, PutFiles(v) PROVE OneRestores'
  BY <1>12 DEF PutFiles, SaveGoto, NoFiles
<1>13. ASSUME NEW v \in VM, PutReqs(v) PROVE OneRestores'
  BY <1>13 DEF PutReqs, SaveGoto
<1>14. ASSUME NEW v \in VM, PutMeta(v) PROVE OneRestores'
  BY <1>14 DEF PutMeta, SaveGoto, SaveReturns
<1>15. ASSUME NEW v \in VM, SaveRaises(v) PROVE OneRestores'
  BY <1>15 DEF SaveRaises, SaveGoto, SaveReturns, Change, Fault
<1>16. ASSUME NEW v \in VM, GetPkl(v) PROVE OneRestores'
  BY <1>16 DEF GetPkl, RestoreGoto, Update
<1>17. ASSUME NEW v \in VM, GetFiles(v) PROVE OneRestores'
  BY <1>17 DEF GetFiles, RestoreGoto, Update
<1>18. ASSUME NEW v \in VM, GetReqs(v) PROVE OneRestores'
  BY <1>18 DEF GetReqs, RestoreGoto, Fault
<1>19. ASSUME NEW v \in VM, GetRest(v) PROVE OneRestores'
  BY <1>19, SMTT(30) DEF GetRest, RestoreGoto, StopJob, StopLife, HookSaves
<1>20. ASSUME NEW v \in VM, RestoreRaises(v) PROVE OneRestores'
  BY <1>20 DEF RestoreRaises, RestoreGoto, Disappointed, LeaveVm2, Fault
<1>21. ASSUME NEW v \in VM, NEW w \in VM, Rotate(v, w) PROVE OneRestores'
  BY <1>21 DEF Rotate, Fresh
<1>22. ASSUME AnswerTimeout PROVE OneRestores'
  BY <1>22 DEF AnswerTimeout, Fault, Disappointed, LeaveVm2
<1>23. ASSUME ProbeAlive PROVE OneRestores'
  BY <1>23 DEF ProbeAlive
<1>24. ASSUME ProbeDead PROVE OneRestores'
  BY <1>24 DEF ProbeDead, Fault
<1>25. CASE UNCHANGED vars
  BY <1>25 DEF vars
<1> QED
  BY <1>1, <1>2, <1>3, <1>4, <1>5, <1>6, <1>7, <1>8, <1>9, <1>10,
     <1>11, <1>12, <1>13, <1>14, <1>15, <1>16, <1>17, <1>18, <1>19, <1>20,
     <1>21, <1>22, <1>23, <1>24, <1>25
     DEF Next, Work, Move, RotateSession, Save, Restore

\* Every step keeps the account of what restores fetched.
LEMMA ProgressStep ==
    TypeOK /\ OneRestores /\ Progress /\ RestoreReportsTruth /\ [Next]_vars
      => Progress' /\ RestoreReportsTruth'
<1> SUFFICES ASSUME TypeOK, OneRestores, Progress, RestoreReportsTruth, [Next]_vars
             PROVE Progress' /\ RestoreReportsTruth'
  OBVIOUS
<1> USE DEF TypeOK, OneRestores, Progress, RestoreReportsTruth, Serves, LoopFree,
            s3Vars, vmVars, cellVars, jobVars, proxyVars, history
<1>1. ASSUME NEW v \in VM, CellStart(v) PROVE Progress' /\ RestoreReportsTruth'
  BY <1>1 DEF CellStart, Tick
<1>2. ASSUME NEW v \in VM, CellRun(v) PROVE Progress' /\ RestoreReportsTruth'
  BY <1>2 DEF CellRun, Change
<1>3. ASSUME NEW v \in VM, Reset(v) PROVE Progress' /\ RestoreReportsTruth'
  BY <1>3 DEF Reset, Tick, Change, Empty
<1>4. ASSUME NEW v \in VM, NEW p \in Pkg, Install(v, p) PROVE Progress' /\ RestoreReportsTruth'
  BY <1>4 DEF Install, Tick, Change
<1>5. ASSUME NEW v \in VM, NEW p \in Pkg, Uninstall(v, p)
      PROVE Progress' /\ RestoreReportsTruth'
  BY <1>5 DEF Uninstall, Tick, Change
<1>6. ASSUME NEW v \in VM, Terminate(v) PROVE Progress' /\ RestoreReportsTruth'
  BY <1>6 DEF Terminate, StopJob, StopLife, HookSaves
<1>7. ASSUME NEW v \in VM, StopStray(v) PROVE Progress' /\ RestoreReportsTruth'
  BY <1>7 DEF StopStray, StopJob, StopLife, HookSaves
<1>8. ASSUME NEW v \in VM, Kill(v) PROVE Progress' /\ RestoreReportsTruth'
  BY <1>8 DEF Kill, Fault
<1>9. ASSUME NEW v \in VM, Relaunch(v) PROVE Progress' /\ RestoreReportsTruth'
  BY <1>9 DEF Relaunch, Fresh
<1>10. ASSUME NEW v \in VM, Serialize(v) PROVE Progress' /\ RestoreReportsTruth'
  BY <1>10 DEF Serialize, SaveGoto, Visible
<1>11. ASSUME NEW v \in VM, PutPkl(v) PROVE Progress' /\ RestoreReportsTruth'
  BY <1>11 DEF PutPkl, SaveGoto
<1>12. ASSUME NEW v \in VM, PutFiles(v) PROVE Progress' /\ RestoreReportsTruth'
  BY <1>12 DEF PutFiles, SaveGoto, NoFiles
<1>13. ASSUME NEW v \in VM, PutReqs(v) PROVE Progress' /\ RestoreReportsTruth'
  BY <1>13 DEF PutReqs, SaveGoto
<1>14. ASSUME NEW v \in VM, PutMeta(v) PROVE Progress' /\ RestoreReportsTruth'
  BY <1>14 DEF PutMeta, SaveGoto, SaveReturns
<1>15. ASSUME NEW v \in VM, SaveRaises(v) PROVE Progress' /\ RestoreReportsTruth'
  BY <1>15 DEF SaveRaises, SaveGoto, SaveReturns, Change, Fault
<1>16. ASSUME NEW v \in VM, GetPkl(v) PROVE Progress' /\ RestoreReportsTruth'
  <2>1. got' = [got EXCEPT ![v] = {"pkl"}] /\ restorePc' = [restorePc EXCEPT ![v] = "files"]
        /\ restorePc[v] = "pkl" /\ life' = life
    BY <1>16 DEF GetPkl, RestoreGoto
  <2>2. life[v] # "up"
    BY <2>1
  <2> QED
    BY <2>1, <2>2
<1>17. ASSUME NEW v \in VM, GetFiles(v) PROVE Progress' /\ RestoreReportsTruth'
  BY <1>17 DEF GetFiles, RestoreGoto, Update
<1>18. ASSUME NEW v \in VM, GetReqs(v) PROVE Progress' /\ RestoreReportsTruth'
  BY <1>18 DEF GetReqs, RestoreGoto, Fault
<1>19. ASSUME NEW v \in VM, GetRest(v) PROVE Progress' /\ RestoreReportsTruth'
  BY <1>19 DEF GetRest, RestoreGoto, StopJob, StopLife, HookSaves
<1>20. ASSUME NEW v \in VM, RestoreRaises(v) PROVE Progress' /\ RestoreReportsTruth'
  <2>1. restorePc' = [restorePc EXCEPT ![v] = "idle"] /\ got' = got
    BY <1>20 DEF RestoreRaises, RestoreGoto
  <2>2. ASSUME NEW u \in VM, life'[u] = "up" PROVE life[u] = "up"
    BY <2>2, <1>20 DEF RestoreRaises, LeaveVm2
  <2> QED
    BY <2>1, <2>2
<1>21. ASSUME NEW v \in VM, NEW w \in VM, Rotate(v, w) PROVE Progress' /\ RestoreReportsTruth'
  BY <1>21 DEF Rotate, Fresh
<1>22. ASSUME AnswerTimeout PROVE Progress' /\ RestoreReportsTruth'
  BY <1>22 DEF AnswerTimeout, Fault, Disappointed, LeaveVm2
<1>23. ASSUME ProbeAlive PROVE Progress' /\ RestoreReportsTruth'
  BY <1>23 DEF ProbeAlive
<1>24. ASSUME ProbeDead PROVE Progress' /\ RestoreReportsTruth'
  BY <1>24 DEF ProbeDead, Fault
<1>25. CASE UNCHANGED vars
  BY <1>25 DEF vars
<1> QED
  BY <1>1, <1>2, <1>3, <1>4, <1>5, <1>6, <1>7, <1>8, <1>9, <1>10,
     <1>11, <1>12, <1>13, <1>14, <1>15, <1>16, <1>17, <1>18, <1>19, <1>20,
     <1>21, <1>22, <1>23, <1>24, <1>25
     DEF Next, Work, Move, RotateSession, Save, Restore

-----------------------------------------------------------------------------
\* The invariant holds in every state.
LEMMA Invariance == Spec => []RestoreInv
<1>1. Init => RestoreInv
  BY InvInit
<1>2. RestoreInv /\ [Next]_vars => RestoreInv'
  BY TypeStep, OneRestoresStep, ProgressStep DEF RestoreInv
<1> QED
  BY <1>1, <1>2, PTL DEF Spec

\* Every state is well typed; in particular no VM restores that serves or is
\* going down.
THEOREM TypeCorrect == Spec => []TypeOK
<1>1. RestoreInv => TypeOK
  BY DEF RestoreInv
<1> QED
  BY <1>1, Invariance, PTL

\* Whatever fails, a VM that passes for restored has the namespace and the files
\* of a checkpoint (CheckpointManager.restore).
THEOREM RestoresReportTruth == Spec => []RestoreReportsTruth
<1>1. RestoreInv => RestoreReportsTruth
  BY DEF RestoreInv
<1> QED
  BY <1>1, Invariance, PTL

-----------------------------------------------------------------------------
(* Why no recorded package is lost. *)

\* A restore whose end the session waits for.
Awaited(w) == life[w] = "restoring" \/ (rot \in {"restore", "again"} /\ w = vm2)

\* No list, no packages.  VM2 is not restored before the old VM is saved.  A VM
\* does one thing at a time.
ListSound ==
    /\ ~reqs.is => reqs.of = {}
    /\ rot = "save" => restorePc[vm2] = "idle"
    /\ life[owner] \in {"up", "stopping", "gone"}
    /\ \A u \in VM : life[u] \in {"none", "bare", "restoring"} => savePc[u] = "idle"
    /\ \A u \in VM : restorePc[u] # "idle" => savePc[u] = "idle"

\* Saves and restores do not cross: while a restore is awaited nobody saves, and
\* during a rotation nobody but the VM that serves.
OneAtATime ==
    ~excused =>
        /\ \A w, u \in VM : Awaited(w) => savePc[u] = "idle"
        /\ \A u \in VM : rot # "none" /\ u # owner => savePc[u] = "idle"

\* In a rotation, what the old VM had is in the list, then in VM2.
ListFollows ==
    ~excused =>
        /\ rot = "save" /\ savePc[owner] = "meta" => pkgs[owner] \subseteq reqs.of
        /\ rot = "restore" => pkgs[owner] \subseteq reqs.of
        /\ rot = "restore" /\ restorePc[vm2] = "rest" => pkgs[owner] \subseteq pkgs[vm2]

\* Recorded packages are in the list, in every VM about to serve, and in the one
\* that does; so is what a replaced VM may still record.
Recorded ==
    ~excused =>
        /\ owed \subseteq reqs.of
        /\ \A w \in VM : Awaited(w) /\ restorePc[w] = "rest" => owed \subseteq pkgs[w]
        /\ \A u \in VM : u # owner /\ savePc[u] # "idle" /\ life[owner] = "up" =>
                            pkgs[u] \ dropped \subseteq pkgs[owner]

PackageInv == ListSound /\ OneAtATime /\ ListFollows /\ Recorded /\ PackagesAreNotForgotten

\* Nothing is recorded yet.
LEMMA PackageInit == Init => PackageInv
<1> SUFFICES ASSUME Init PROVE PackageInv
  OBVIOUS
<1> USE FirstVm DEF Init
<1>1. ListSound /\ OneAtATime
  BY DEF ListSound, OneAtATime, Awaited
<1>2. ListFollows /\ Recorded /\ PackagesAreNotForgotten
  BY DEF ListFollows, Recorded, Awaited, PackagesAreNotForgotten
<1> QED
  BY <1>1, <1>2 DEF PackageInv

\* Every step keeps ListSound.
LEMMA ListSoundStep == TypeOK /\ OneRestores /\ PackageInv /\ [Next]_vars => ListSound'
<1> SUFFICES ASSUME TypeOK, OneRestores, PackageInv, [Next]_vars PROVE ListSound'
  OBVIOUS
<1> USE DEF TypeOK, Stored, OneRestores, PackageInv, ListSound, Serves, LoopFree,
            s3Vars, vmVars, cellVars, jobVars, proxyVars, history
<1>1. ASSUME NEW v \in VM, CellStart(v) PROVE ListSound'
  BY <1>1 DEF CellStart, Tick
<1>2. ASSUME NEW v \in VM, CellRun(v) PROVE ListSound'
  BY <1>2 DEF CellRun, Change
<1>3. ASSUME NEW v \in VM, Reset(v) PROVE ListSound'
  BY <1>3 DEF Reset, Tick, Change, Empty
<1>4. ASSUME NEW v \in VM, NEW p \in Pkg, Install(v, p) PROVE ListSound'
  BY <1>4 DEF Install, Tick, Change
<1>5. ASSUME NEW v \in VM, NEW p \in Pkg, Uninstall(v, p) PROVE ListSound'
  BY <1>5 DEF Uninstall, Tick, Change
<1>6. ASSUME NEW v \in VM, Terminate(v) PROVE ListSound'
  BY <1>6 DEF Terminate, StopJob, StopLife, HookSaves
<1>7. ASSUME NEW v \in VM, StopStray(v) PROVE ListSound'
  BY <1>7 DEF StopStray, StopJob, StopLife, HookSaves
<1>8. ASSUME NEW v \in VM, Kill(v) PROVE ListSound'
  BY <1>8 DEF Kill, Fault
<1>9. ASSUME NEW v \in VM, Relaunch(v) PROVE ListSound'
  BY <1>9 DEF Relaunch, Fresh
<1>10. ASSUME NEW v \in VM, Serialize(v) PROVE ListSound'
  BY <1>10 DEF Serialize, SaveGoto, Visible
<1>11. ASSUME NEW v \in VM, PutPkl(v) PROVE ListSound'
  BY <1>11 DEF PutPkl, SaveGoto
<1>12. ASSUME NEW v \in VM, PutFiles(v) PROVE ListSound'
  BY <1>12 DEF PutFiles, SaveGoto, NoFiles
<1>13. ASSUME NEW v \in VM, PutReqs(v) PROVE ListSound'
  BY <1>13 DEF PutReqs, SaveGoto
<1>14. ASSUME NEW v \in VM, PutMeta(v) PROVE ListSound'
  BY <1>14 DEF PutMeta, SaveGoto, SaveReturns
<1>15. ASSUME NEW v \in VM, SaveRaises(v) PROVE ListSound'
  BY <1>15 DEF SaveRaises, SaveGoto, SaveReturns, Change, Fault
<1>16. ASSUME NEW v \in VM, GetPkl(v) PROVE ListSound'
  BY <1>16 DEF GetPkl, RestoreGoto, Update
<1>17. ASSUME NEW v \in VM, GetFiles(v) PROVE ListSound'
  BY <1>17 DEF GetFiles, RestoreGoto, Update
<1>18. ASSUME NEW v \in VM, GetReqs(v) PROVE ListSound'
  BY <1>18 DEF GetReqs, RestoreGoto, Fault
<1>19. ASSUME NEW v \in VM, GetRest(v) PROVE ListSound'
  BY <1>19, SMTT(30) DEF GetRest, RestoreGoto, StopJob, StopLife, HookSaves
<1>20. ASSUME NEW v \in VM, RestoreRaises(v) PROVE ListSound'
  BY <1>20 DEF RestoreRaises, RestoreGoto, Disappointed, LeaveVm2, Fault
<1>21. ASSUME NEW v \in VM, NEW w \in VM, Rotate(v, w) PROVE ListSound'
  BY <1>21, SMTT(30) DEF Rotate, Fresh
<1>22. ASSUME AnswerTimeout PROVE ListSound'
  BY <1>22 DEF AnswerTimeout, Fault, Disappointed, LeaveVm2
<1>23. ASSUME ProbeAlive PROVE ListSound'
  BY <1>23 DEF ProbeAlive
<1>24. ASSUME ProbeDead PROVE ListSound'
  BY <1>24 DEF ProbeDead, Fault
<1>25. CASE UNCHANGED vars
  BY <1>25 DEF vars
<1> QED
  BY <1>1, <1>2, <1>3, <1>4, <1>5, <1>6, <1>7, <1>8, <1>9, <1>10,
     <1>11, <1>12, <1>13, <1>14, <1>15, <1>16, <1>17, <1>18, <1>19, <1>20,
     <1>21, <1>22, <1>23, <1>24, <1>25
     DEF Next, Work, Move, RotateSession, Save, Restore

\* Every step keeps OneAtATime.
LEMMA OneAtATimeStep == TypeOK /\ OneRestores /\ PackageInv /\ [Next]_vars => OneAtATime'
<1> SUFFICES ASSUME TypeOK, OneRestores, PackageInv, [Next]_vars PROVE OneAtATime'
  OBVIOUS
<1> USE DEF TypeOK, Stored, OneRestores, PackageInv, OneAtATime, Awaited, Saving, Serves,
        LoopFree,
            s3Vars, vmVars, cellVars, jobVars, proxyVars, history
<1>1. ASSUME NEW v \in VM, CellStart(v) PROVE OneAtATime'
  BY <1>1 DEF CellStart, Tick
<1>2. ASSUME NEW v \in VM, CellRun(v) PROVE OneAtATime'
  BY <1>2 DEF CellRun, Change
<1>3. ASSUME NEW v \in VM, Reset(v) PROVE OneAtATime'
  BY <1>3 DEF Reset, Tick, Change, Empty
<1>4. ASSUME NEW v \in VM, NEW p \in Pkg, Install(v, p) PROVE OneAtATime'
  BY <1>4 DEF Install, Tick, Change
<1>5. ASSUME NEW v \in VM, NEW p \in Pkg, Uninstall(v, p) PROVE OneAtATime'
  BY <1>5 DEF Uninstall, Tick, Change
<1>6. ASSUME NEW v \in VM, Terminate(v) PROVE OneAtATime'
  BY <1>6 DEF Terminate, StopJob, StopLife, HookSaves
<1>7. ASSUME NEW v \in VM, StopStray(v) PROVE OneAtATime'
  BY <1>7 DEF StopStray, StopJob, StopLife, HookSaves
<1>8. ASSUME NEW v \in VM, Kill(v) PROVE OneAtATime'
  BY <1>8 DEF Kill, Fault
<1>9. ASSUME NEW v \in VM, Relaunch(v) PROVE OneAtATime'
  BY <1>9 DEF Relaunch, Fresh
<1>10. ASSUME NEW v \in VM, Serialize(v) PROVE OneAtATime'
  BY <1>10 DEF Serialize, SaveGoto, Visible
<1>11. ASSUME NEW v \in VM, PutPkl(v) PROVE OneAtATime'
  BY <1>11 DEF PutPkl, SaveGoto
<1>12. ASSUME NEW v \in VM, PutFiles(v) PROVE OneAtATime'
  BY <1>12 DEF PutFiles, SaveGoto, NoFiles
<1>13. ASSUME NEW v \in VM, PutReqs(v) PROVE OneAtATime'
  BY <1>13 DEF PutReqs, SaveGoto
<1>14. ASSUME NEW v \in VM, PutMeta(v) PROVE OneAtATime'
  BY <1>14 DEF PutMeta, SaveGoto, SaveReturns
<1>15. ASSUME NEW v \in VM, SaveRaises(v) PROVE OneAtATime'
  BY <1>15 DEF SaveRaises, SaveGoto, SaveReturns, Change, Fault
<1>16. ASSUME NEW v \in VM, GetPkl(v) PROVE OneAtATime'
  BY <1>16 DEF GetPkl, RestoreGoto, Update
<1>17. ASSUME NEW v \in VM, GetFiles(v) PROVE OneAtATime'
  BY <1>17 DEF GetFiles, RestoreGoto, Update
<1>18. ASSUME NEW v \in VM, GetReqs(v) PROVE OneAtATime'
  BY <1>18 DEF GetReqs, RestoreGoto, Fault
<1>19. ASSUME NEW v \in VM, GetRest(v) PROVE OneAtATime'
  BY <1>19 DEF GetRest, RestoreGoto, StopJob, StopLife, HookSaves
<1>20. ASSUME NEW v \in VM, RestoreRaises(v) PROVE OneAtATime'
  BY <1>20 DEF RestoreRaises, RestoreGoto, Disappointed, LeaveVm2, Fault
<1>21. ASSUME NEW v \in VM, NEW w \in VM, Rotate(v, w) PROVE OneAtATime'
  <2>1. rot = "none" /\ rot' = "save" /\ owner' = owner /\ v = owner /\ life[v] = "up" /\ life[w] = "none"
        /\ life' = [life EXCEPT ![w] = "bare"] /\ savePc' = [savePc EXCEPT ![v] = "serialize"]
    BY <1>21 DEF Rotate, Fresh
  <2>2. ~excused' => \A u \in VM : savePc[u] = "idle"
    BY <1>21 DEF Rotate
  <2>3. \A u \in VM : ~Awaited(u)'
    BY <2>1
  <2> QED
    BY <2>1, <2>2, <2>3
<1>22. ASSUME AnswerTimeout PROVE OneAtATime'
  BY <1>22 DEF AnswerTimeout, Fault, Disappointed, LeaveVm2
<1>23. ASSUME ProbeAlive PROVE OneAtATime'
  BY <1>23 DEF ProbeAlive
<1>24. ASSUME ProbeDead PROVE OneAtATime'
  BY <1>24 DEF ProbeDead, Fault
<1>25. CASE UNCHANGED vars
  BY <1>25 DEF vars
<1> QED
  BY <1>1, <1>2, <1>3, <1>4, <1>5, <1>6, <1>7, <1>8, <1>9, <1>10,
     <1>11, <1>12, <1>13, <1>14, <1>15, <1>16, <1>17, <1>18, <1>19, <1>20,
     <1>21, <1>22, <1>23, <1>24, <1>25
     DEF Next, Work, Move, RotateSession, Save, Restore

\* Every step keeps ListFollows.
LEMMA ListFollowsStep == TypeOK /\ OneRestores /\ PackageInv /\ [Next]_vars => ListFollows'
<1> SUFFICES ASSUME TypeOK, OneRestores, PackageInv, [Next]_vars PROVE ListFollows'
  OBVIOUS
<1> USE DEF TypeOK, Stored, OneRestores, PackageInv, ListSound, OneAtATime, ListFollows,
        Awaited, Saving, Serves, LoopFree,
            s3Vars, vmVars, cellVars, jobVars, proxyVars, history
<1>1. ASSUME NEW v \in VM, CellStart(v) PROVE ListFollows'
  BY <1>1 DEF CellStart, Tick
<1>2. ASSUME NEW v \in VM, CellRun(v) PROVE ListFollows'
  BY <1>2 DEF CellRun, Change
<1>3. ASSUME NEW v \in VM, Reset(v) PROVE ListFollows'
  BY <1>3 DEF Reset, Tick, Change, Empty
<1>4. ASSUME NEW v \in VM, NEW p \in Pkg, Install(v, p) PROVE ListFollows'
  BY <1>4 DEF Install, Tick, Change
<1>5. ASSUME NEW v \in VM, NEW p \in Pkg, Uninstall(v, p) PROVE ListFollows'
  BY <1>5 DEF Uninstall, Tick, Change
<1>6. ASSUME NEW v \in VM, Terminate(v) PROVE ListFollows'
  BY <1>6 DEF Terminate, StopJob, StopLife, HookSaves
<1>7. ASSUME NEW v \in VM, StopStray(v) PROVE ListFollows'
  BY <1>7 DEF StopStray, StopJob, StopLife, HookSaves
<1>8. ASSUME NEW v \in VM, Kill(v) PROVE ListFollows'
  BY <1>8 DEF Kill, Fault
<1>9. ASSUME NEW v \in VM, Relaunch(v) PROVE ListFollows'
  BY <1>9 DEF Relaunch, Fresh
<1>10. ASSUME NEW v \in VM, Serialize(v) PROVE ListFollows'
  BY <1>10 DEF Serialize, SaveGoto, Visible
<1>11. ASSUME NEW v \in VM, PutPkl(v) PROVE ListFollows'
  BY <1>11 DEF PutPkl, SaveGoto
<1>12. ASSUME NEW v \in VM, PutFiles(v) PROVE ListFollows'
  BY <1>12 DEF PutFiles, SaveGoto, NoFiles
<1>13. ASSUME NEW v \in VM, PutReqs(v) PROVE ListFollows'
  BY <1>13 DEF PutReqs, SaveGoto
<1>14. ASSUME NEW v \in VM, PutMeta(v) PROVE ListFollows'
  BY <1>14 DEF PutMeta, SaveGoto, SaveReturns
<1>15. ASSUME NEW v \in VM, SaveRaises(v) PROVE ListFollows'
  BY <1>15 DEF SaveRaises, SaveGoto, SaveReturns, Change, Fault
<1>16. ASSUME NEW v \in VM, GetPkl(v) PROVE ListFollows'
  BY <1>16 DEF GetPkl, RestoreGoto, Update
<1>17. ASSUME NEW v \in VM, GetFiles(v) PROVE ListFollows'
  BY <1>17 DEF GetFiles, RestoreGoto, Update
<1>18. ASSUME NEW v \in VM, GetReqs(v) PROVE ListFollows'
  <2>1. CASE excused' = TRUE
    BY <2>1
  <2>2. CASE pkgs' = IF reqs.is THEN [pkgs EXCEPT ![v] = reqs.of] ELSE pkgs
    <3>1. reqs.of \subseteq pkgs'[v]
      BY <2>2, <1>18 DEF GetReqs
    <3>2. restorePc' = [restorePc EXCEPT ![v] = "rest"] /\ restorePc[v] = "reqs"
          /\ UNCHANGED <<owner, life, rot, vm2, savePc, reqs, owed, dropped>>
      BY <1>18 DEF GetReqs, RestoreGoto
    <3>3. \A u \in VM : u # v => pkgs'[u] = pkgs[u]
      BY <1>18 DEF GetReqs
    <3>4. v # owner /\ life[v] # "up" /\ (~excused' => ~excused)
      <4>1. excused' = excused \/ excused' = TRUE
        BY <1>18 DEF GetReqs
      <4> QED
        BY <4>1, <3>2
    <3>5. ASSUME ~excused' PROVE rot = "restore" => pkgs'[owner] \subseteq reqs.of
      BY <3>5, <3>2, <3>3, <3>4
    <3>6. ASSUME ~excused', rot = "restore", restorePc'[vm2] = "rest"
          PROVE pkgs'[owner] \subseteq pkgs'[vm2]
      <4>1. CASE vm2 = v
        BY <4>1, <3>6, <3>1, <3>2, <3>5
      <4>2. CASE vm2 # v
        BY <4>2, <3>6, <3>2, <3>3, <3>4, <3>5
      <4> QED
        BY <4>1, <4>2
    <3>7. ~excused' /\ rot = "save" /\ savePc[owner] = "meta" => pkgs'[owner] \subseteq reqs.of
      BY <3>2, <3>3, <3>4
    <3> QED
      BY <3>2, <3>5, <3>6, <3>7
  <2> QED
    BY <2>1, <2>2, <1>18 DEF GetReqs
<1>19. ASSUME NEW v \in VM, GetRest(v) PROVE ListFollows'
  BY <1>19 DEF GetRest, RestoreGoto, StopJob, StopLife, HookSaves
<1>20. ASSUME NEW v \in VM, RestoreRaises(v) PROVE ListFollows'
  BY <1>20 DEF RestoreRaises, RestoreGoto, Disappointed, LeaveVm2, Fault
<1>21. ASSUME NEW v \in VM, NEW w \in VM, Rotate(v, w) PROVE ListFollows'
  BY <1>21 DEF Rotate, Fresh
<1>22. ASSUME AnswerTimeout PROVE ListFollows'
  BY <1>22 DEF AnswerTimeout, Fault, Disappointed, LeaveVm2
<1>23. ASSUME ProbeAlive PROVE ListFollows'
  BY <1>23 DEF ProbeAlive
<1>24. ASSUME ProbeDead PROVE ListFollows'
  BY <1>24 DEF ProbeDead, Fault
<1>25. CASE UNCHANGED vars
  BY <1>25 DEF vars
<1> QED
  BY <1>1, <1>2, <1>3, <1>4, <1>5, <1>6, <1>7, <1>8, <1>9, <1>10,
     <1>11, <1>12, <1>13, <1>14, <1>15, <1>16, <1>17, <1>18, <1>19, <1>20,
     <1>21, <1>22, <1>23, <1>24, <1>25
     DEF Next, Work, Move, RotateSession, Save, Restore

\* Every step keeps Recorded.
LEMMA RecordedStep == TypeOK /\ OneRestores /\ PackageInv /\ [Next]_vars => Recorded'
<1> SUFFICES ASSUME TypeOK, OneRestores, PackageInv, [Next]_vars PROVE Recorded'
  OBVIOUS
<1> USE DEF TypeOK, Stored, OneRestores, PackageInv, ListSound, OneAtATime, ListFollows,
        Recorded, Awaited, Saving, PackagesAreNotForgotten, Serves, LoopFree,
            s3Vars, vmVars, cellVars, jobVars, proxyVars, history
<1>1. ASSUME NEW v \in VM, CellStart(v) PROVE Recorded'
  BY <1>1 DEF CellStart, Tick
<1>2. ASSUME NEW v \in VM, CellRun(v) PROVE Recorded'
  BY <1>2 DEF CellRun, Change
<1>3. ASSUME NEW v \in VM, Reset(v) PROVE Recorded'
  BY <1>3 DEF Reset, Tick, Change, Empty
<1>4. ASSUME NEW v \in VM, NEW p \in Pkg, Install(v, p) PROVE Recorded'
  BY <1>4 DEF Install, Tick, Change
<1>5. ASSUME NEW v \in VM, NEW p \in Pkg, Uninstall(v, p) PROVE Recorded'
  BY <1>5 DEF Uninstall, Tick, Change
<1>6. ASSUME NEW v \in VM, Terminate(v) PROVE Recorded'
  BY <1>6 DEF Terminate, StopJob, StopLife, HookSaves
<1>7. ASSUME NEW v \in VM, StopStray(v) PROVE Recorded'
  BY <1>7 DEF StopStray, StopJob, StopLife, HookSaves
<1>8. ASSUME NEW v \in VM, Kill(v) PROVE Recorded'
  BY <1>8 DEF Kill, Fault
<1>9. ASSUME NEW v \in VM, Relaunch(v) PROVE Recorded'
  BY <1>9 DEF Relaunch, Fresh
<1>10. ASSUME NEW v \in VM, Serialize(v) PROVE Recorded'
  BY <1>10 DEF Serialize, SaveGoto, Visible
<1>11. ASSUME NEW v \in VM, PutPkl(v) PROVE Recorded'
  BY <1>11 DEF PutPkl, SaveGoto
<1>12. ASSUME NEW v \in VM, PutFiles(v) PROVE Recorded'
  BY <1>12 DEF PutFiles, SaveGoto, NoFiles
<1>13. ASSUME NEW v \in VM, PutReqs(v) PROVE Recorded'
  BY <1>13 DEF PutReqs, SaveGoto
<1>14. ASSUME NEW v \in VM, PutMeta(v) PROVE Recorded'
  BY <1>14 DEF PutMeta, SaveGoto, SaveReturns
<1>15. ASSUME NEW v \in VM, SaveRaises(v) PROVE Recorded'
  BY <1>15 DEF SaveRaises, SaveGoto, SaveReturns, Change, Fault
<1>16. ASSUME NEW v \in VM, GetPkl(v) PROVE Recorded'
  BY <1>16 DEF GetPkl, RestoreGoto, Update
<1>17. ASSUME NEW v \in VM, GetFiles(v) PROVE Recorded'
  BY <1>17 DEF GetFiles, RestoreGoto, Update
<1>18. ASSUME NEW v \in VM, GetReqs(v) PROVE Recorded'
  <2>1. CASE excused' = TRUE
    BY <2>1
  <2>2. CASE pkgs' = IF reqs.is THEN [pkgs EXCEPT ![v] = reqs.of] ELSE pkgs
    <3>1. reqs.of \subseteq pkgs'[v]
      BY <2>2, <1>18 DEF GetReqs
    <3>2. restorePc' = [restorePc EXCEPT ![v] = "rest"] /\ restorePc[v] = "reqs"
          /\ UNCHANGED <<owner, life, rot, vm2, savePc, reqs, owed, dropped>>
      BY <1>18 DEF GetReqs, RestoreGoto
    <3>3. \A u \in VM : u # v => pkgs'[u] = pkgs[u]
      BY <1>18 DEF GetReqs
    <3>4. v # owner /\ life[v] # "up" /\ (~excused' => ~excused)
      <4>1. excused' = excused \/ excused' = TRUE
        BY <1>18 DEF GetReqs
      <4> QED
        BY <4>1, <3>2
    <3>5. ~excused' => owed' \subseteq reqs'.of
      BY <3>4, <3>2
    <3>6. ASSUME ~excused', NEW w \in VM, Awaited(w)', restorePc'[w] = "rest"
          PROVE  owed' \subseteq pkgs'[w]
      <4>1. CASE w = v
        BY <4>1, <3>6, <3>4, <3>1, <3>2
      <4>2. CASE w # v
        BY <4>2, <3>6, <3>4, <3>2, <3>3
      <4> QED
        BY <4>1, <4>2
    <3>7. ASSUME ~excused', NEW u \in VM, u # owner', savePc'[u] # "idle", life'[owner'] = "up"
          PROVE  pkgs'[u] \ dropped' \subseteq pkgs'[owner']
      <4>1. CASE u # v
        BY <4>1, <3>7, <3>2, <3>3, <3>4
      <4>2. CASE u = v
        BY <4>2, <3>7, <3>2, <3>4
      <4> QED
        BY <4>1, <4>2
    <3> QED
      BY <3>5, <3>6, <3>7
  <2> QED
    BY <2>1, <2>2, <1>18 DEF GetReqs
<1>19. ASSUME NEW v \in VM, GetRest(v) PROVE Recorded'
  BY <1>19 DEF GetRest, RestoreGoto, StopJob, StopLife, HookSaves
<1>20. ASSUME NEW v \in VM, RestoreRaises(v) PROVE Recorded'
  BY <1>20 DEF RestoreRaises, RestoreGoto, Disappointed, LeaveVm2, Fault
<1>21. ASSUME NEW v \in VM, NEW w \in VM, Rotate(v, w) PROVE Recorded'
  BY <1>21 DEF Rotate, Fresh
<1>22. ASSUME AnswerTimeout PROVE Recorded'
  BY <1>22 DEF AnswerTimeout, Fault, Disappointed, LeaveVm2
<1>23. ASSUME ProbeAlive PROVE Recorded'
  BY <1>23 DEF ProbeAlive
<1>24. ASSUME ProbeDead PROVE Recorded'
  BY <1>24 DEF ProbeDead, Fault
<1>25. CASE UNCHANGED vars
  BY <1>25 DEF vars
<1> QED
  BY <1>1, <1>2, <1>3, <1>4, <1>5, <1>6, <1>7, <1>8, <1>9, <1>10,
     <1>11, <1>12, <1>13, <1>14, <1>15, <1>16, <1>17, <1>18, <1>19, <1>20,
     <1>21, <1>22, <1>23, <1>24, <1>25
     DEF Next, Work, Move, RotateSession, Save, Restore

\* Every step keeps PackagesAreNotForgotten.
LEMMA PackagesAreNotForgottenStep ==
    TypeOK /\ OneRestores /\ PackageInv /\ [Next]_vars
        => PackagesAreNotForgotten'
<1> SUFFICES ASSUME TypeOK, OneRestores, PackageInv, [Next]_vars PROVE PackagesAreNotForgotten'
  OBVIOUS
<1> USE DEF TypeOK, Stored, OneRestores, PackageInv, Recorded, Awaited, Saving, OneAtATime,
        PackagesAreNotForgotten, Serves, LoopFree,
            s3Vars, vmVars, cellVars, jobVars, proxyVars, history
<1>1. ASSUME NEW v \in VM, CellStart(v) PROVE PackagesAreNotForgotten'
  BY <1>1 DEF CellStart, Tick
<1>2. ASSUME NEW v \in VM, CellRun(v) PROVE PackagesAreNotForgotten'
  BY <1>2 DEF CellRun, Change
<1>3. ASSUME NEW v \in VM, Reset(v) PROVE PackagesAreNotForgotten'
  BY <1>3 DEF Reset, Tick, Change, Empty
<1>4. ASSUME NEW v \in VM, NEW p \in Pkg, Install(v, p) PROVE PackagesAreNotForgotten'
  BY <1>4 DEF Install, Tick, Change
<1>5. ASSUME NEW v \in VM, NEW p \in Pkg, Uninstall(v, p) PROVE PackagesAreNotForgotten'
  BY <1>5 DEF Uninstall, Tick, Change
<1>6. ASSUME NEW v \in VM, Terminate(v) PROVE PackagesAreNotForgotten'
  BY <1>6 DEF Terminate, StopJob, StopLife, HookSaves
<1>7. ASSUME NEW v \in VM, StopStray(v) PROVE PackagesAreNotForgotten'
  BY <1>7 DEF StopStray, StopJob, StopLife, HookSaves
<1>8. ASSUME NEW v \in VM, Kill(v) PROVE PackagesAreNotForgotten'
  BY <1>8 DEF Kill, Fault
<1>9. ASSUME NEW v \in VM, Relaunch(v) PROVE PackagesAreNotForgotten'
  BY <1>9 DEF Relaunch, Fresh
<1>10. ASSUME NEW v \in VM, Serialize(v) PROVE PackagesAreNotForgotten'
  BY <1>10 DEF Serialize, SaveGoto, Visible
<1>11. ASSUME NEW v \in VM, PutPkl(v) PROVE PackagesAreNotForgotten'
  BY <1>11 DEF PutPkl, SaveGoto
<1>12. ASSUME NEW v \in VM, PutFiles(v) PROVE PackagesAreNotForgotten'
  BY <1>12 DEF PutFiles, SaveGoto, NoFiles
<1>13. ASSUME NEW v \in VM, PutReqs(v) PROVE PackagesAreNotForgotten'
  BY <1>13 DEF PutReqs, SaveGoto
<1>14. ASSUME NEW v \in VM, PutMeta(v) PROVE PackagesAreNotForgotten'
  BY <1>14 DEF PutMeta, SaveGoto, SaveReturns
<1>15. ASSUME NEW v \in VM, SaveRaises(v) PROVE PackagesAreNotForgotten'
  BY <1>15 DEF SaveRaises, SaveGoto, SaveReturns, Change, Fault
<1>16. ASSUME NEW v \in VM, GetPkl(v) PROVE PackagesAreNotForgotten'
  BY <1>16 DEF GetPkl, RestoreGoto, Update
<1>17. ASSUME NEW v \in VM, GetFiles(v) PROVE PackagesAreNotForgotten'
  BY <1>17 DEF GetFiles, RestoreGoto, Update
<1>18. ASSUME NEW v \in VM, GetReqs(v) PROVE PackagesAreNotForgotten'
  BY <1>18, SMTT(30) DEF GetReqs, RestoreGoto, Fault
<1>19. ASSUME NEW v \in VM, GetRest(v) PROVE PackagesAreNotForgotten'
  BY <1>19 DEF GetRest, RestoreGoto, StopJob, StopLife, HookSaves
<1>20. ASSUME NEW v \in VM, RestoreRaises(v) PROVE PackagesAreNotForgotten'
  BY <1>20 DEF RestoreRaises, RestoreGoto, Disappointed, LeaveVm2, Fault
<1>21. ASSUME NEW v \in VM, NEW w \in VM, Rotate(v, w) PROVE PackagesAreNotForgotten'
  BY <1>21 DEF Rotate, Fresh
<1>22. ASSUME AnswerTimeout PROVE PackagesAreNotForgotten'
  BY <1>22 DEF AnswerTimeout, Fault, Disappointed, LeaveVm2
<1>23. ASSUME ProbeAlive PROVE PackagesAreNotForgotten'
  BY <1>23 DEF ProbeAlive
<1>24. ASSUME ProbeDead PROVE PackagesAreNotForgotten'
  BY <1>24 DEF ProbeDead, Fault
<1>25. CASE UNCHANGED vars
  BY <1>25 DEF vars
<1> QED
  BY <1>1, <1>2, <1>3, <1>4, <1>5, <1>6, <1>7, <1>8, <1>9, <1>10,
     <1>11, <1>12, <1>13, <1>14, <1>15, <1>16, <1>17, <1>18, <1>19, <1>20,
     <1>21, <1>22, <1>23, <1>24, <1>25
     DEF Next, Work, Move, RotateSession, Save, Restore

\* A package that a save recorded is in the list of every later VM of the session
\* until the user uninstalls it, for any number of VMs, saves and failures, as
\* long as no two VMs save and restore across each other.
THEOREM PackagesAreNeverForgotten == Spec => []PackagesAreNotForgotten
<1>1. Init => PackageInv
  BY PackageInit
<1>2. RestoreInv /\ PackageInv /\ [Next]_vars => PackageInv'
  BY ListSoundStep, OneAtATimeStep, ListFollowsStep, RecordedStep, PackagesAreNotForgottenStep
     DEF RestoreInv, PackageInv
<1>3. PackageInv => PackagesAreNotForgotten
  BY DEF PackageInv
<1> QED
  BY <1>1, <1>2, <1>3, Invariance, PTL DEF Spec

-----------------------------------------------------------------------------
(* Why the successor starts with the latest state. *)

\* A bare VM is the VM2 of the rotation under way.  A VM that has not served yet has saved
\* nothing, and a VM that is not launched holds nothing.
NewIsBlank ==
    \A u \in VM :
        /\ life[u] = "bare" => u = vm2 /\ rot # "none"
        /\ life[u] \in {"none", "bare", "restoring"} => whole[u] = "no"
        /\ life[u] = "none" => ns[u] = Empty

\* The hook of a replaced VM saves before its successor has saved anything.
HookComesFirst ==
    ~excused =>
        \A u \in VM : u # owner /\ savePc[u] # "idle" =>
                          whole[owner] = "no" /\ savePc[owner] = "idle"

\* How far the save of the serving VM, unchanged since it began, has come.
HasSaved(labels) == \/ whole[owner] = "yes"
                    \/ whole[owner] = "begun" /\ savePc[owner] \in labels

\* What such a save has put is still in the bucket, and is what the VM holds.
SavedIsThere ==
    ~excused =>
        /\ savePc[owner] \in {"pkl", "files", "reqs", "meta"} => whole[owner] # "yes"
        /\ whole[owner] = "begun" /\ savePc[owner] = "pkl" => buf[owner] = Visible(ns[owner])
        /\ HasSaved({"files", "reqs", "meta"}) => pkl.is /\ pkl.of = Visible(ns[owner])
        /\ HasSaved({"reqs", "meta"}) /\ files[owner] # NoFiles
             => tar.is /\ tar.of = files[owner]
        /\ HasSaved({"meta"}) /\ pkgs[owner] # {} => reqs.is /\ reqs.of = pkgs[owner]

NobodySaves == \A u \in VM : savePc[u] = "idle"

\* A VM that is being restored has loaded nothing but what the bucket still holds.
LoadedIsThere ==
    ~excused =>
        \A u \in VM : life[u] \in {"bare", "restoring"} =>
            /\ ns[u] # Empty => pkl.is /\ ns[u] = pkl.of
            /\ ns[u] # Empty \/ restorePc[u] # "idle" => NobodySaves
            /\ restorePc[u] \in {"files", "reqs", "rest"} => pkl.is /\ ns[u] = pkl.of
            /\ restorePc[u] \in {"reqs", "rest"} /\ tar.is =>
                   \A f \in File : tar.of[f] # Absent => files[u][f] = tar.of[f]
            /\ restorePc[u] = "rest" /\ reqs.is => pkgs[u] = reqs.of

LatestInv == NewIsBlank /\ HookComesFirst /\ SavedIsThere /\ LoadedIsThere

\* Nothing has been saved or restored yet.
LEMMA LatestInit == Init => LatestInv
<1> SUFFICES ASSUME Init PROVE LatestInv
  OBVIOUS
<1> USE FirstVm DEF Init
<1>1. NewIsBlank /\ HookComesFirst
  BY DEF NewIsBlank, HookComesFirst
<1>2. SavedIsThere /\ LoadedIsThere
  BY DEF SavedIsThere, HasSaved, LoadedIsThere, NobodySaves
<1> QED
  BY <1>1, <1>2 DEF LatestInv

\* Loading the namespace of a checkpoint into an empty one, or once more, gives just that.
LEMMA LoadedTwice ==
    ASSUME TypeOK
    PROVE  Update(Empty, pkl.of) = pkl.of /\ Update(pkl.of, pkl.of) = pkl.of
  BY DEF TypeOK, Stored, Namespace, Update, Empty, Absent

\* Every step keeps NewIsBlank.
LEMMA NewIsBlankStep ==
    TypeOK /\ OneRestores /\ PackageInv /\ LatestInv /\ [Next]_vars
        => NewIsBlank'
<1> SUFFICES ASSUME TypeOK, OneRestores, PackageInv, LatestInv, [Next]_vars PROVE NewIsBlank'
  OBVIOUS
<1> USE DEF TypeOK, OneRestores, PackageInv, ListSound, OneAtATime, Awaited, Saving, LatestInv,
        NewIsBlank,
            Serves, LoopFree, s3Vars, vmVars, cellVars, jobVars, proxyVars, history
<1>1. ASSUME NEW v \in VM, CellStart(v) PROVE NewIsBlank'
  BY <1>1 DEF CellStart, Tick
<1>2. ASSUME NEW v \in VM, CellRun(v) PROVE NewIsBlank'
  BY <1>2 DEF CellRun, Change
<1>3. ASSUME NEW v \in VM, Reset(v) PROVE NewIsBlank'
  BY <1>3 DEF Reset, Tick, Change, Empty
<1>4. ASSUME NEW v \in VM, NEW p \in Pkg, Install(v, p) PROVE NewIsBlank'
  BY <1>4 DEF Install, Tick, Change
<1>5. ASSUME NEW v \in VM, NEW p \in Pkg, Uninstall(v, p) PROVE NewIsBlank'
  BY <1>5 DEF Uninstall, Tick, Change
<1>6. ASSUME NEW v \in VM, Terminate(v) PROVE NewIsBlank'
  BY <1>6 DEF Terminate, StopJob, StopLife, HookSaves
<1>7. ASSUME NEW v \in VM, StopStray(v) PROVE NewIsBlank'
  BY <1>7 DEF StopStray, StopJob, StopLife, HookSaves
<1>8. ASSUME NEW v \in VM, Kill(v) PROVE NewIsBlank'
  BY <1>8 DEF Kill, Fault
<1>9. ASSUME NEW v \in VM, Relaunch(v) PROVE NewIsBlank'
  BY <1>9 DEF Relaunch, Fresh
<1>10. ASSUME NEW v \in VM, Serialize(v) PROVE NewIsBlank'
  BY <1>10 DEF Serialize, SaveGoto
<1>11. ASSUME NEW v \in VM, PutPkl(v) PROVE NewIsBlank'
  BY <1>11 DEF PutPkl, SaveGoto
<1>12. ASSUME NEW v \in VM, PutFiles(v) PROVE NewIsBlank'
  BY <1>12 DEF PutFiles, SaveGoto
<1>13. ASSUME NEW v \in VM, PutReqs(v) PROVE NewIsBlank'
  BY <1>13 DEF PutReqs, SaveGoto
<1>14. ASSUME NEW v \in VM, PutMeta(v) PROVE NewIsBlank'
  BY <1>14 DEF PutMeta, SaveGoto, SaveReturns
<1>15. ASSUME NEW v \in VM, SaveRaises(v) PROVE NewIsBlank'
  BY <1>15 DEF SaveRaises, SaveGoto, SaveReturns, Change, Fault
<1>16. ASSUME NEW v \in VM, GetPkl(v) PROVE NewIsBlank'
  <2>1. life[v] # "none"
    BY <1>16 DEF GetPkl
  <2>2. \A u \in VM : u # v => ns'[u] = ns[u]
    BY <1>16 DEF GetPkl
  <2>3. UNCHANGED <<life, vm2, rot, whole>>
    BY <1>16 DEF GetPkl
  <2> QED
    BY <2>1, <2>2, <2>3
<1>17. ASSUME NEW v \in VM, GetFiles(v) PROVE NewIsBlank'
  BY <1>17 DEF GetFiles, RestoreGoto
<1>18. ASSUME NEW v \in VM, GetReqs(v) PROVE NewIsBlank'
  BY <1>18 DEF GetReqs, RestoreGoto, Fault
<1>19. ASSUME NEW v \in VM, GetRest(v) PROVE NewIsBlank'
  BY <1>19 DEF GetRest, RestoreGoto, StopJob, StopLife, HookSaves
<1>20. ASSUME NEW v \in VM, RestoreRaises(v) PROVE NewIsBlank'
  BY <1>20 DEF RestoreRaises, RestoreGoto, Disappointed, LeaveVm2, Fault
<1>21. ASSUME NEW v \in VM, NEW w \in VM, Rotate(v, w) PROVE NewIsBlank'
  BY <1>21 DEF Rotate, Fresh
<1>22. ASSUME AnswerTimeout PROVE NewIsBlank'
  BY <1>22 DEF AnswerTimeout, Fault, Disappointed, LeaveVm2
<1>23. ASSUME ProbeAlive PROVE NewIsBlank'
  BY <1>23 DEF ProbeAlive
<1>24. ASSUME ProbeDead PROVE NewIsBlank'
  BY <1>24 DEF ProbeDead, Fault
<1>25. CASE UNCHANGED vars
  BY <1>25 DEF vars
<1> QED
  BY <1>1, <1>2, <1>3, <1>4, <1>5, <1>6, <1>7, <1>8, <1>9, <1>10, <1>11, <1>12,
     <1>13, <1>14, <1>15, <1>16, <1>17, <1>18, <1>19, <1>20, <1>21, <1>22, <1>23, <1>24,
     <1>25
     DEF Next, Work, Move, RotateSession, Save, Restore

\* Every step keeps HookComesFirst.
LEMMA HookComesFirstStep ==
    TypeOK /\ OneRestores /\ PackageInv /\ LatestInv /\ [Next]_vars
        => HookComesFirst'
<1> SUFFICES ASSUME TypeOK, OneRestores, PackageInv, LatestInv, [Next]_vars
             PROVE HookComesFirst'
  OBVIOUS
<1> USE DEF TypeOK, OneRestores, PackageInv, ListSound, OneAtATime, Awaited, Saving, LatestInv,
        NewIsBlank,
            HookComesFirst, Serves, LoopFree, s3Vars, vmVars, cellVars, jobVars, proxyVars, history
<1>1. ASSUME NEW v \in VM, CellStart(v) PROVE HookComesFirst'
  BY <1>1 DEF CellStart, Tick
<1>2. ASSUME NEW v \in VM, CellRun(v) PROVE HookComesFirst'
  BY <1>2 DEF CellRun, Change
<1>3. ASSUME NEW v \in VM, Reset(v) PROVE HookComesFirst'
  BY <1>3 DEF Reset, Tick, Change
<1>4. ASSUME NEW v \in VM, NEW p \in Pkg, Install(v, p) PROVE HookComesFirst'
  BY <1>4 DEF Install, Tick, Change
<1>5. ASSUME NEW v \in VM, NEW p \in Pkg, Uninstall(v, p) PROVE HookComesFirst'
  BY <1>5 DEF Uninstall, Tick, Change
<1>6. ASSUME NEW v \in VM, Terminate(v) PROVE HookComesFirst'
  <2>1. v = owner /\ UNCHANGED <<owner, whole>>
    BY <1>6 DEF Terminate
  <2>2. excused' = (excused \/ Saving) /\ \A u \in VM : u # v => savePc'[u] = savePc[u]
    BY <1>6 DEF Terminate, StopJob
  <2>3. ~excused' => \A u \in VM : savePc[u] = "idle"
    BY <2>2, Zenon DEF Saving
  <2> QED
    BY <2>1, <2>2, <2>3
<1>7. ASSUME NEW v \in VM, StopStray(v) PROVE HookComesFirst'
  BY <1>7 DEF StopStray, StopJob, StopLife, HookSaves
<1>8. ASSUME NEW v \in VM, Kill(v) PROVE HookComesFirst'
  BY <1>8 DEF Kill, Fault
<1>9. ASSUME NEW v \in VM, Relaunch(v) PROVE HookComesFirst'
  BY <1>9 DEF Relaunch, Fresh
<1>10. ASSUME NEW v \in VM, Serialize(v) PROVE HookComesFirst'
  BY <1>10 DEF Serialize, SaveGoto
<1>11. ASSUME NEW v \in VM, PutPkl(v) PROVE HookComesFirst'
  BY <1>11 DEF PutPkl, SaveGoto
<1>12. ASSUME NEW v \in VM, PutFiles(v) PROVE HookComesFirst'
  BY <1>12 DEF PutFiles, SaveGoto
<1>13. ASSUME NEW v \in VM, PutReqs(v) PROVE HookComesFirst'
  BY <1>13 DEF PutReqs, SaveGoto
<1>14. ASSUME NEW v \in VM, PutMeta(v) PROVE HookComesFirst'
  BY <1>14 DEF PutMeta, SaveGoto, SaveReturns
<1>15. ASSUME NEW v \in VM, SaveRaises(v) PROVE HookComesFirst'
  BY <1>15 DEF SaveRaises, SaveGoto, SaveReturns, Change, Fault
<1>16. ASSUME NEW v \in VM, GetPkl(v) PROVE HookComesFirst'
  BY <1>16 DEF GetPkl, RestoreGoto
<1>17. ASSUME NEW v \in VM, GetFiles(v) PROVE HookComesFirst'
  BY <1>17 DEF GetFiles, RestoreGoto
<1>18. ASSUME NEW v \in VM, GetReqs(v) PROVE HookComesFirst'
  BY <1>18 DEF GetReqs, RestoreGoto, Fault
<1>19. ASSUME NEW v \in VM, GetRest(v) PROVE HookComesFirst'
  BY <1>19 DEF GetRest, RestoreGoto, StopJob, StopLife, HookSaves
<1>20. ASSUME NEW v \in VM, RestoreRaises(v) PROVE HookComesFirst'
  BY <1>20 DEF RestoreRaises, RestoreGoto, Disappointed, LeaveVm2, Fault
<1>21. ASSUME NEW v \in VM, NEW w \in VM, Rotate(v, w) PROVE HookComesFirst'
  <2>1. v = owner /\ UNCHANGED <<owner, whole>>
    BY <1>21 DEF Rotate
  <2>2. ~excused' => \A u \in VM : u # owner => savePc'[u] = "idle"
    <3>1. ~excused' => \A u \in VM : savePc[u] = "idle"
      BY <1>21, Zenon DEF Rotate
    <3>2. \A u \in VM : u # owner => savePc'[u] = savePc[u]
      BY <1>21, <2>1 DEF Rotate
    <3> QED
      BY <3>1, <3>2
  <2> QED
    BY <2>1, <2>2
<1>22. ASSUME AnswerTimeout PROVE HookComesFirst'
  BY <1>22 DEF AnswerTimeout, Fault, Disappointed, LeaveVm2
<1>23. ASSUME ProbeAlive PROVE HookComesFirst'
  BY <1>23 DEF ProbeAlive
<1>24. ASSUME ProbeDead PROVE HookComesFirst'
  BY <1>24 DEF ProbeDead, Fault
<1>25. CASE UNCHANGED vars
  BY <1>25 DEF vars
<1> QED
  BY <1>1, <1>2, <1>3, <1>4, <1>5, <1>6, <1>7, <1>8, <1>9, <1>10, <1>11, <1>12,
     <1>13, <1>14, <1>15, <1>16, <1>17, <1>18, <1>19, <1>20, <1>21, <1>22, <1>23, <1>24,
     <1>25
     DEF Next, Work, Move, RotateSession, Save, Restore

\* Every step keeps SavedIsThere.
LEMMA SavedIsThereStep ==
    TypeOK /\ OneRestores /\ PackageInv /\ LatestInv /\ [Next]_vars
        => SavedIsThere'
<1> SUFFICES ASSUME TypeOK, OneRestores, PackageInv, LatestInv, [Next]_vars PROVE SavedIsThere'
  OBVIOUS
<1> USE DEF TypeOK, OneRestores, PackageInv, ListSound, OneAtATime, Awaited, Saving, LatestInv,
        NewIsBlank,
            HookComesFirst, SavedIsThere, HasSaved,
            Serves, LoopFree, s3Vars, vmVars, cellVars, jobVars, proxyVars, history
<1>1. ASSUME NEW v \in VM, CellStart(v) PROVE SavedIsThere'
  BY <1>1 DEF CellStart, Tick
<1>2. ASSUME NEW v \in VM, CellRun(v) PROVE SavedIsThere'
  BY <1>2 DEF CellRun, Change
<1>3. ASSUME NEW v \in VM, Reset(v) PROVE SavedIsThere'
  BY <1>3 DEF Reset, Tick, Change
<1>4. ASSUME NEW v \in VM, NEW p \in Pkg, Install(v, p) PROVE SavedIsThere'
  BY <1>4 DEF Install, Tick, Change
<1>5. ASSUME NEW v \in VM, NEW p \in Pkg, Uninstall(v, p) PROVE SavedIsThere'
  BY <1>5 DEF Uninstall, Tick, Change
<1>6. ASSUME NEW v \in VM, Terminate(v) PROVE SavedIsThere'
  BY <1>6 DEF Terminate, StopJob, StopLife, HookSaves
<1>7. ASSUME NEW v \in VM, StopStray(v) PROVE SavedIsThere'
  BY <1>7 DEF StopStray, StopJob, StopLife, HookSaves
<1>8. ASSUME NEW v \in VM, Kill(v) PROVE SavedIsThere'
  BY <1>8 DEF Kill, Fault
<1>9. ASSUME NEW v \in VM, Relaunch(v) PROVE SavedIsThere'
  BY <1>9 DEF Relaunch, Fresh
<1>10. ASSUME NEW v \in VM, Serialize(v) PROVE SavedIsThere'
  BY <1>10 DEF Serialize, SaveGoto
<1>11. ASSUME NEW v \in VM, PutPkl(v) PROVE SavedIsThere'
  BY <1>11 DEF PutPkl, SaveGoto
<1>12. ASSUME NEW v \in VM, PutFiles(v) PROVE SavedIsThere'
  <2>1. /\ savePc[v] = "files" /\ savePc'[v] = "reqs"
        /\ \A u \in VM \ {v} : savePc'[u] = savePc[u]
        /\ UNCHANGED <<owner, excused, whole, buf, ns, files, pkgs, pkl, reqs>>
    BY <1>12 DEF PutFiles, SaveGoto
  <2>2. CASE v = owner
    <3>1. files[owner] # NoFiles => tar'.is /\ tar'.of = files[owner]
      BY <1>12, <2>2 DEF PutFiles
    <3> QED
      BY <2>1, <2>2, <3>1
  <2>3. CASE v # owner
    <3>1. ~excused => whole[owner] = "no" /\ savePc[owner] = "idle"
      BY <2>1, <2>3
    <3> QED
      BY <2>1, <2>3, <3>1
  <2> QED
    BY <2>2, <2>3
<1>13. ASSUME NEW v \in VM, PutReqs(v) PROVE SavedIsThere'
  <2>1. /\ savePc[v] = "reqs" /\ savePc'[v] = "meta"
        /\ \A u \in VM \ {v} : savePc'[u] = savePc[u]
        /\ UNCHANGED <<owner, excused, whole, buf, ns, files, pkgs, pkl, tar>>
    BY <1>13 DEF PutReqs, SaveGoto
  <2>2. CASE v = owner
    <3>1. pkgs[owner] # {} => reqs'.is /\ reqs'.of = pkgs[owner]
      BY <1>13, <2>2 DEF PutReqs
    <3> QED
      BY <2>1, <2>2, <3>1
  <2>3. CASE v # owner
    <3>1. ~excused => whole[owner] = "no" /\ savePc[owner] = "idle"
      BY <2>1, <2>3
    <3> QED
      BY <2>1, <2>3, <3>1
  <2> QED
    BY <2>2, <2>3
<1>14. ASSUME NEW v \in VM, PutMeta(v) PROVE SavedIsThere'
  BY <1>14 DEF PutMeta, SaveGoto, SaveReturns
<1>15. ASSUME NEW v \in VM, SaveRaises(v) PROVE SavedIsThere'
  BY <1>15 DEF SaveRaises, SaveGoto, SaveReturns, Change, Fault
<1>16. ASSUME NEW v \in VM, GetPkl(v) PROVE SavedIsThere'
  BY <1>16 DEF GetPkl, RestoreGoto, Update
<1>17. ASSUME NEW v \in VM, GetFiles(v) PROVE SavedIsThere'
  BY <1>17 DEF GetFiles, RestoreGoto, Update
<1>18. ASSUME NEW v \in VM, GetReqs(v) PROVE SavedIsThere'
  BY <1>18 DEF GetReqs, RestoreGoto, Fault
<1>19. ASSUME NEW v \in VM, GetRest(v) PROVE SavedIsThere'
  BY <1>19 DEF GetRest, RestoreGoto, StopJob, StopLife, HookSaves
<1>20. ASSUME NEW v \in VM, RestoreRaises(v) PROVE SavedIsThere'
  BY <1>20 DEF RestoreRaises, RestoreGoto, Disappointed, LeaveVm2, Fault
<1>21. ASSUME NEW v \in VM, NEW w \in VM, Rotate(v, w) PROVE SavedIsThere'
  BY <1>21 DEF Rotate, Fresh
<1>22. ASSUME AnswerTimeout PROVE SavedIsThere'
  BY <1>22 DEF AnswerTimeout, Fault, Disappointed, LeaveVm2
<1>23. ASSUME ProbeAlive PROVE SavedIsThere'
  BY <1>23 DEF ProbeAlive
<1>24. ASSUME ProbeDead PROVE SavedIsThere'
  BY <1>24 DEF ProbeDead, Fault
<1>25. CASE UNCHANGED vars
  BY <1>25 DEF vars
<1> QED
  BY <1>1, <1>2, <1>3, <1>4, <1>5, <1>6, <1>7, <1>8, <1>9, <1>10, <1>11, <1>12,
     <1>13, <1>14, <1>15, <1>16, <1>17, <1>18, <1>19, <1>20, <1>21, <1>22, <1>23, <1>24,
     <1>25
     DEF Next, Work, Move, RotateSession, Save, Restore

\* Every step keeps LoadedIsThere.
LEMMA LoadedIsThereStep ==
    TypeOK /\ OneRestores /\ PackageInv /\ LatestInv /\ [Next]_vars
        => LoadedIsThere'
<1> SUFFICES ASSUME TypeOK, OneRestores, PackageInv, LatestInv, [Next]_vars PROVE LoadedIsThere'
  OBVIOUS
<1> USE DEF TypeOK, OneRestores, PackageInv, ListSound, OneAtATime, Awaited, Saving, LatestInv,
        NewIsBlank,
            LoadedIsThere, NobodySaves,
            Serves, LoopFree, s3Vars, vmVars, cellVars, jobVars, proxyVars, history
<1>1. ASSUME NEW v \in VM, CellStart(v) PROVE LoadedIsThere'
  BY <1>1 DEF CellStart, Tick
<1>2. ASSUME NEW v \in VM, CellRun(v) PROVE LoadedIsThere'
  BY <1>2 DEF CellRun, Change
<1>3. ASSUME NEW v \in VM, Reset(v) PROVE LoadedIsThere'
  BY <1>3 DEF Reset, Tick, Change
<1>4. ASSUME NEW v \in VM, NEW p \in Pkg, Install(v, p) PROVE LoadedIsThere'
  BY <1>4 DEF Install, Tick, Change
<1>5. ASSUME NEW v \in VM, NEW p \in Pkg, Uninstall(v, p) PROVE LoadedIsThere'
  BY <1>5 DEF Uninstall, Tick, Change
<1>6. ASSUME NEW v \in VM, Terminate(v) PROVE LoadedIsThere'
  BY <1>6 DEF Terminate, StopJob, StopLife, HookSaves
<1>7. ASSUME NEW v \in VM, StopStray(v) PROVE LoadedIsThere'
  BY <1>7 DEF StopStray, StopJob, StopLife, HookSaves
<1>8. ASSUME NEW v \in VM, Kill(v) PROVE LoadedIsThere'
  BY <1>8 DEF Kill, Fault
<1>9. ASSUME NEW v \in VM, Relaunch(v) PROVE LoadedIsThere'
  <2>1. ~excused' => ~excused /\ NobodySaves
    BY <1>9 DEF Relaunch
  <2>2. ns[v] = Empty /\ restorePc'[v] = "pkl" /\ UNCHANGED <<ns, files, pkgs, savePc, s3Vars>>
    BY <1>9 DEF Relaunch, Fresh
  <2>3. \A u \in VM : u # v => restorePc'[u] = restorePc[u] /\ life'[u] = life[u]
    BY <1>9 DEF Relaunch
  <2> QED
    BY <2>1, <2>2, <2>3
<1>10. ASSUME NEW v \in VM, Serialize(v) PROVE LoadedIsThere'
  BY <1>10 DEF Serialize, SaveGoto
<1>11. ASSUME NEW v \in VM, PutPkl(v) PROVE LoadedIsThere'
  BY <1>11 DEF PutPkl, SaveGoto
<1>12. ASSUME NEW v \in VM, PutFiles(v) PROVE LoadedIsThere'
  BY <1>12 DEF PutFiles, SaveGoto
<1>13. ASSUME NEW v \in VM, PutReqs(v) PROVE LoadedIsThere'
  BY <1>13 DEF PutReqs, SaveGoto
<1>14. ASSUME NEW v \in VM, PutMeta(v) PROVE LoadedIsThere'
  BY <1>14 DEF PutMeta, SaveGoto, SaveReturns
<1>15. ASSUME NEW v \in VM, SaveRaises(v) PROVE LoadedIsThere'
  BY <1>15 DEF SaveRaises, SaveGoto, SaveReturns, Change, Fault
<1>16. ASSUME NEW v \in VM, GetPkl(v) PROVE LoadedIsThere'
  <2>1. pkl.is /\ UNCHANGED <<life, files, pkgs, savePc, s3Vars, excused>>
    BY <1>16 DEF GetPkl
  <2>2. \A u \in VM : u # v => ns'[u] = ns[u] /\ restorePc'[u] = restorePc[u]
    BY <1>16 DEF GetPkl, RestoreGoto
  <2>3. restorePc[v] = "pkl" /\ restorePc'[v] = "files"
    BY <1>16 DEF GetPkl, RestoreGoto
  <2>4. ns'[v] = Update(ns[v], pkl.of)
    BY <1>16 DEF GetPkl
  <2>5. ~excused /\ life[v] \in {"bare", "restoring"} => ns[v] \in {Empty, pkl.of} /\ NobodySaves
    BY <2>3
  <2>6. ns[v] \in {Empty, pkl.of} => ns'[v] = pkl.of
    BY <2>4, LoadedTwice
  <2> QED
    BY <2>1, <2>2, <2>3, <2>5, <2>6
<1>17. ASSUME NEW v \in VM, GetFiles(v) PROVE LoadedIsThere'
  BY <1>17 DEF GetFiles, RestoreGoto, Update
<1>18. ASSUME NEW v \in VM, GetReqs(v) PROVE LoadedIsThere'
  BY <1>18 DEF GetReqs, RestoreGoto, Fault
<1>19. ASSUME NEW v \in VM, GetRest(v) PROVE LoadedIsThere'
  BY <1>19 DEF GetRest, RestoreGoto, StopJob, StopLife, HookSaves
<1>20. ASSUME NEW v \in VM, RestoreRaises(v) PROVE LoadedIsThere'
  BY <1>20 DEF RestoreRaises, RestoreGoto, Disappointed, LeaveVm2, Fault
<1>21. ASSUME NEW v \in VM, NEW w \in VM, Rotate(v, w) PROVE LoadedIsThere'
  BY <1>21 DEF Rotate, Fresh
<1>22. ASSUME AnswerTimeout PROVE LoadedIsThere'
  BY <1>22 DEF AnswerTimeout, Fault, Disappointed, LeaveVm2
<1>23. ASSUME ProbeAlive PROVE LoadedIsThere'
  <2>1. ~excused' => ~excused /\ NobodySaves
    BY <1>23 DEF ProbeAlive
  <2>2. restorePc'[vm2] = "pkl" /\ UNCHANGED <<life, ns, files, pkgs, savePc, s3Vars>>
    BY <1>23 DEF ProbeAlive
  <2>3. \A u \in VM : u # vm2 => restorePc'[u] = restorePc[u]
    BY <1>23 DEF ProbeAlive
  <2> QED
    BY <2>1, <2>2, <2>3
<1>24. ASSUME ProbeDead PROVE LoadedIsThere'
  BY <1>24 DEF ProbeDead, Fault
<1>25. CASE UNCHANGED vars
  BY <1>25 DEF vars
<1> QED
  BY <1>1, <1>2, <1>3, <1>4, <1>5, <1>6, <1>7, <1>8, <1>9, <1>10, <1>11, <1>12,
     <1>13, <1>14, <1>15, <1>16, <1>17, <1>18, <1>19, <1>20, <1>21, <1>22, <1>23, <1>24,
     <1>25
     DEF Next, Work, Move, RotateSession, Save, Restore

-----------------------------------------------------------------------------
\* The step that hands the session over hands over the latest state.
LEMMA HandoverStep ==
    ASSUME TypeOK, OneRestores, PackageInv, LatestInv, NEW v \in VM,
           Next, owner # v, owner' = v, whole[owner] = "yes", ~excused'
    PROVE  /\ ns'[v] = Visible(ns[owner])
           /\ \A f \in File : files[owner][f] # Absent => files'[v][f] = files[owner][f]
           /\ pkgs[owner] \subseteq pkgs'[v]
<1>1. GetRest(v) /\ owner # v /\ life[v] \in {"bare", "restoring"}
  <2>1. PICK w \in VM : GetRest(w)
    <3> SUFFICES ASSUME \A w \in VM : ~GetRest(w) PROVE owner' = owner
      OBVIOUS
    <3> USE DEF proxyVars
    <3>1. ASSUME NEW w \in VM, Work(w) PROVE owner' = owner
      BY <3>1 DEF Work, CellStart, CellRun, Reset, Install, Uninstall
    <3>2. ASSUME NEW w \in VM, Move(w) PROVE owner' = owner
      <4>1. CASE Relaunch(w)
        BY <4>1 DEF Relaunch
      <4> QED
        BY <3>2, <4>1 DEF Move, Terminate, StopStray, Kill
    <3>3. ASSUME NEW w \in VM, Save(w) PROVE owner' = owner
      BY <3>3 DEF Save, Serialize, PutPkl, PutFiles, PutReqs, PutMeta, SaveRaises
    <3>4. ASSUME NEW w \in VM, Restore(w) PROVE owner' = owner
      BY <3>4 DEF Restore, GetPkl, GetFiles, GetReqs, RestoreRaises
    <3>5. ASSUME RotateSession PROVE owner' = owner
      BY <3>5 DEF RotateSession, Rotate, AnswerTimeout, ProbeAlive, ProbeDead
    <3> QED
      BY <3>1, <3>2, <3>3, <3>4, <3>5 DEF Next
  <2>2. w = v
    BY <2>1 DEF GetRest
  <2>3. restorePc[v] = "rest"
    BY <2>1, <2>2 DEF GetRest
  <2>4. life[v] = "restoring" \/ (rot # "none" /\ v = vm2)
    BY <2>1, <2>2 DEF GetRest
  <2> QED
    BY <2>1, <2>2, <2>3, <2>4 DEF TypeOK, OneRestores
<1>2. restorePc[v] = "rest" /\ ~excused /\ UNCHANGED <<ns, files, pkgs>>
  BY <1>1 DEF GetRest, vmVars, history
<1>3. /\ pkl.is /\ ns[v] = pkl.of
      /\ tar.is => \A f \in File : tar.of[f] # Absent => files[v][f] = tar.of[f]
      /\ reqs.is => pkgs[v] = reqs.of
  BY <1>1, <1>2 DEF LatestInv, LoadedIsThere
<1>4. /\ pkl.is /\ pkl.of = Visible(ns[owner])
      /\ files[owner] # NoFiles => tar.is /\ tar.of = files[owner]
      /\ pkgs[owner] # {} => reqs.is /\ reqs.of = pkgs[owner]
  BY <1>2 DEF LatestInv, SavedIsThere, HasSaved
<1>5. ASSUME NEW f \in File, files[owner][f] # Absent
      PROVE  files'[v][f] = files[owner][f]
  <2>1. files[owner] # NoFiles
    BY <1>5 DEF NoFiles
  <2> QED
    BY <1>2, <1>3, <1>4, <1>5, <2>1
<1> QED
  BY <1>2, <1>3, <1>4, <1>5

\* If the VM that served the session finished its save after the last change, its
\* successor starts with exactly its variables, with its files and with its packages,
\* whatever older saves left behind and however often a restore was tried, for any number
\* of VMs and failures, as long as no two VMs save and restore across each other.
THEOREM SuccessorIsUpToDate == Spec => RestoredStateIsLatest
<1> DEFINE Inv == RestoreInv /\ PackageInv /\ LatestInv
           Latest == \A v \in VM :
                       owner # v /\ owner' = v /\ whole[owner] = "yes" /\ ~excused' =>
                         /\ ns'[v] = Visible(ns[owner])
                         /\ \A f \in File :
                               files[owner][f] # Absent => files'[v][f] = files[owner][f]
                         /\ pkgs[owner] \subseteq pkgs'[v]
<1>1. Init => Inv
  BY InvInit, PackageInit, LatestInit
<1>2. Inv /\ [Next]_vars => Inv'
  BY TypeStep, OneRestoresStep, ProgressStep, ListSoundStep, OneAtATimeStep, ListFollowsStep,
     RecordedStep, PackagesAreNotForgottenStep, NewIsBlankStep, HookComesFirstStep,
     SavedIsThereStep, LoadedIsThereStep
     DEF RestoreInv, PackageInv, LatestInv
<1>3. Inv /\ [Next]_vars => [Latest]_vars
  <2>1. CASE Next
    BY <2>1, HandoverStep DEF RestoreInv
  <2>2. CASE UNCHANGED vars
    BY <2>2
  <2> QED
    BY <2>1, <2>2
<1>4. RestoredStateIsLatest <=> [][Latest]_vars
  BY DEF RestoredStateIsLatest
<1> HIDE DEF Inv, Latest
<1> QED
  BY <1>1, <1>2, <1>3, <1>4, PTL DEF Spec
=============================================================================
