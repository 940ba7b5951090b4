----------------------------- MODULE Checkpoint -----------------------------
(***************************************************************************)
(* What a session keeps when it moves from one MicroVM to the next.        *)
(*                                                                         *)
(* CheckpointManager saves a session as several S3 objects, one put after  *)
(* the other, and restores them one get after the other.  Three actors     *)
(* meet there: the event loop of a VM (save, install, reset: it serves one *)
(* of them at a time), the thread that runs its cells, which the loop does *)
(* not wait for, and other VMs of the same session, whose /terminate hooks *)
(* save under the same prefix.  Any put, get or VM may fail.               *)
(*                                                                         *)
(* A value is the number of the operation (a cell) that wrote it.          *)
(***************************************************************************)
EXTENDS Naturals

CONSTANTS
    Var,      \* names of the namespace
    Hidden,   \* those that hold modules, display objects, unpicklable values
    File,     \* data files in /tmp
    Pkg,      \* packages a user may install
    MaxVm,    \* bound: MicroVMs of the session
    MaxFaults,\* bound: deaths, timeouts and failed calls
    MaxWork   \* bound: cells, installs, uninstalls and resets of the session

ASSUME HiddenAssumption == Hidden \subseteq Var
ASSUME BoundsAssumption == MaxVm \in Nat \ {0} /\ MaxWork \in Nat /\ MaxFaults \in Nat

VM == 1 .. MaxVm
Absent == 0

VARIABLES
    eternal,   \* SESSION_PERSISTENCE_MODE is "eternal"
    owner,     \* the VM that serves the session, or served it last
    life,      \* of each VM
    rotated,   \* VMs launched by launch_for_rotation
    rot, vm2,  \* what the rotation waits for, and its new VM
    ns, files, pkgs,        \* in each VM: namespace, /tmp, list of installed packages
    cellPc,                 \* the cell thread of each VM
    savePc, buf,            \* the save of each VM, and its serialized namespace
    restorePc,              \* the restore of each VM
    pkl, tar, reqs,         \* the S3 objects of the session
    faults,    \* number of failures so far
    clock,     \* number of operations of the user so far
    whole,     \* history: is the last save of a VM complete and up to date?
    got,       \* history: what the last restore fetched or found missing
    owed,      \* history: packages a save recorded, not uninstalled since
    dropped,   \* history: packages the user uninstalled
    excused    \* history: two VMs saved and restored across each other, or
               \* the package list could not be downloaded

s3Vars == <<pkl, tar, reqs>>
vmVars == <<ns, files, pkgs>>
cellVars == <<cellPc, clock>>
jobVars == <<savePc, buf, restorePc>>
proxyVars == <<eternal, owner, life, rotated, rot, vm2>>
history == <<whole, got, owed, dropped, excused>>
vars == <<proxyVars, vmVars, cellVars, jobVars, s3Vars, history, faults>>

Namespace == [Var -> Nat]
Stored(S) == [is : BOOLEAN, of : S]

TypeOK ==
    /\ eternal \in BOOLEAN /\ owner \in VM /\ vm2 \in VM
    /\ life \in [VM -> {"none", "bare", "restoring", "up", "stray", "stopping", "gone"}]
    /\ rotated \in [VM -> BOOLEAN]
    /\ rot \in {"none", "save", "restore", "probe", "again"}
    /\ ns \in [VM -> Namespace]
    /\ files \in [VM -> [File -> Nat]]
    /\ pkgs \in [VM -> SUBSET Pkg]
    /\ cellPc \in [VM -> {"idle", "running"}]
    /\ savePc \in [VM -> {"idle", "serialize", "pkl", "files", "reqs", "meta"}]
    /\ buf \in [VM -> Namespace]
    /\ restorePc \in [VM -> {"idle", "pkl", "files", "reqs", "rest"}]
    /\ pkl \in Stored(Namespace) /\ tar \in Stored([File -> Nat])
    /\ reqs \in Stored(SUBSET Pkg)
    /\ clock \in Nat /\ faults \in Nat
    /\ whole \in [VM -> {"no", "begun", "yes"}]
    /\ got \in [VM -> SUBSET {"pkl", "files"}]
    /\ \A v \in VM : /\ restorePc[v] # "idle" => life[v] \in {"bare", "restoring", "stray"}
                     /\ restorePc[v] = "idle" => life[v] # "restoring"
    /\ owed \in SUBSET Pkg /\ dropped \in SUBSET Pkg /\ excused \in BOOLEAN

Empty == [x \in Var |-> Absent]
NoFiles == [f \in File |-> Absent]

\* A first VM, launched without restoreFromSession, in either mode.
Init ==
    /\ eternal \in BOOLEAN /\ owner = 1 /\ rot = "none" /\ vm2 = 1
    /\ life = [v \in VM |-> IF v = 1 THEN "up" ELSE "none"]
    /\ rotated = [v \in VM |-> FALSE]
    /\ ns = [v \in VM |-> Empty] /\ files = [v \in VM |-> NoFiles]
    /\ pkgs = [v \in VM |-> {}]
    /\ cellPc = [v \in VM |-> "idle"] /\ clock = 0 /\ faults = 0
    /\ savePc = [v \in VM |-> "idle"] /\ buf = [v \in VM |-> Empty]
    /\ restorePc = [v \in VM |-> "idle"]
    /\ pkl = [is |-> FALSE, of |-> Empty] /\ tar = [is |-> FALSE, of |-> NoFiles]
    /\ reqs = [is |-> FALSE, of |-> {}]
    /\ whole = [v \in VM |-> "no"] /\ got = [v \in VM |-> {}]
    /\ owed = {} /\ dropped = {} /\ excused = FALSE

\* What the clients of the session reach, and an event loop that is not busy.
Serves(v) == v = owner /\ life[v] = "up" /\ rot = "none"
LoopFree(v) == savePc[v] = "idle" /\ restorePc[v] = "idle"

\* Module objects, display objects and unpicklable values are left out.
Visible(n) == [x \in Var |-> IF x \in Hidden THEN Absent ELSE n[x]]

\* dict.update and tar.extractall: what is not in the new one stays.
Update(old, new) == [x \in DOMAIN old |-> IF new[x] # Absent THEN new[x] ELSE old[x]]

Saving == \E v \in VM : savePc[v] # "idle"
HookSaves(v) == ~eternal \/ rotated[v]
Change(v) == whole' = [whole EXCEPT ![v] = "no"]
Fresh(w) == life[w] = "none" /\ \A u \in VM : u < w => life[u] # "none"

-----------------------------------------------------------------------------
(* The session's own work on its VM. *)

Fault == faults < MaxFaults /\ faults' = faults + 1
Tick == clock < MaxWork /\ clock' = clock + 1

CellStart(v) ==
    /\ Serves(v) /\ LoopFree(v)
    /\ cellPc[v] = "idle"
    /\ cellPc' = [cellPc EXCEPT ![v] = "running"]
    /\ Tick
    /\ UNCHANGED <<proxyVars, vmVars, jobVars, s3Vars, history, faults>>

\* The cell sets or deletes a variable or a file, whatever the event loop of
\* its VM is doing meanwhile, and ends.
CellRun(v) ==
    /\ cellPc[v] = "running" /\ life[v] \in {"up", "stray", "stopping"}
    /\ \E n \in {clock, Absent} :
         \/ \E x \in Var : ns' = [ns EXCEPT ![v][x] = n] /\ UNCHANGED files
         \/ \E f \in File : files' = [files EXCEPT ![v][f] = n] /\ UNCHANGED ns
    /\ cellPc' = [cellPc EXCEPT ![v] = "idle"]
    /\ Change(v)
    /\ UNCHANGED <<proxyVars, pkgs, clock, jobVars, s3Vars, got, owed, dropped, excused, faults>>

Install(v, p) ==
    /\ Serves(v) /\ LoopFree(v)
    /\ Tick
    /\ pkgs' = [pkgs EXCEPT ![v] = @ \cup {p}]
    /\ dropped' = dropped \ {p}
    /\ Change(v)
    /\ UNCHANGED <<proxyVars, ns, files, cellPc, jobVars, s3Vars, got, owed, excused, faults>>

Uninstall(v, p) ==
    /\ Serves(v) /\ LoopFree(v)
    /\ Tick
    /\ p \in pkgs[v]
    /\ pkgs' = [pkgs EXCEPT ![v] = @ \ {p}]
    /\ owed' = owed \ {p}
    /\ dropped' = dropped \cup {p}
    /\ Change(v)
    /\ UNCHANGED <<proxyVars, ns, files, cellPc, jobVars, s3Vars, got, excused, faults>>

\* /reset clears the namespace, a running cell or not.
Reset(v) ==
    /\ Serves(v) /\ LoopFree(v)
    /\ Tick
    /\ ns' = [ns EXCEPT ![v] = Empty]
    /\ Change(v)
    /\ UNCHANGED <<proxyVars, files, pkgs, cellPc, jobVars, s3Vars, got, owed, dropped, excused, faults>>

-----------------------------------------------------------------------------
(* Moving on: termination, relaunch, and the rotation as seen by the VMs.   *)
(* (Module Rotation has the rotation as seen by its requests, and a user    *)
(* who terminates the session during one.)                                  *)

\* The hook of a VM that is being terminated: it saves, or it does not.
StopJob(v) == IF HookSaves(v) THEN [savePc EXCEPT ![v] = "serialize"] ELSE savePc
StopLife(v) == IF HookSaves(v) THEN "stopping" ELSE "gone"

\* The user ("Terminate & Save") or AWS, at the end of its lifetime, stops the
\* VM that serves the session.
Terminate(v) ==
    /\ Serves(v) /\ LoopFree(v)
    /\ life' = [life EXCEPT ![v] = StopLife(v)]
    /\ savePc' = StopJob(v)
    /\ excused' = (excused \/ Saving)
    /\ UNCHANGED <<eternal, owner, rotated, rot, vm2, vmVars, cellVars, buf, restorePc,
                   s3Vars, whole, got, owed, dropped, faults>>

\* So ends a VM that a failed rotation left behind, the old one or VM2.
StopStray(v) ==
    /\ life[v] = "stray" /\ LoopFree(v)
    /\ life' = [life EXCEPT ![v] = StopLife(v)]
    /\ savePc' = StopJob(v)
    /\ excused' = TRUE
    /\ UNCHANGED <<eternal, owner, rotated, rot, vm2, vmVars, cellVars, buf, restorePc,
                   s3Vars, whole, got, owed, dropped, faults>>

\* A VM dies without its hook, as a suspended one does, or in its hook.
Kill(v) ==
    /\ Fault
    /\ life[v] \in {"up", "bare", "stopping"}
    /\ life' = [life EXCEPT ![v] = "gone"]
    /\ savePc' = [savePc EXCEPT ![v] = "idle"]
    /\ restorePc' = [restorePc EXCEPT ![v] = "idle"]
    /\ UNCHANGED <<eternal, owner, rotated, rot, vm2, vmVars, cellVars, buf, s3Vars, history>>

\* "Restore": /launch with restoreFromSession, which /run restores from.
Relaunch(w) ==
    /\ rot = "none" /\ life[owner] \in {"stopping", "gone"}
    /\ \A u \in VM : life[u] # "restoring"
    /\ Fresh(w)
    /\ life' = [life EXCEPT ![w] = "restoring"]
    /\ restorePc' = [restorePc EXCEPT ![w] = "pkl"]
    /\ excused' = (excused \/ Saving)
    /\ UNCHANGED <<eternal, owner, rotated, rot, vm2, vmVars, cellVars, savePc, buf,
                   s3Vars, whole, got, owed, dropped, faults>>

\* VM2 is up and bare, the gate closes, /checkpoint-save reaches the old VM.
Rotate(v, w) ==
    /\ eternal
    /\ Serves(v) /\ LoopFree(v) /\ Fresh(w)
    /\ life' = [life EXCEPT ![w] = "bare"]
    /\ rotated' = [rotated EXCEPT ![w] = TRUE]
    /\ rot' = "save" /\ vm2' = w
    /\ savePc' = [savePc EXCEPT ![v] = "serialize"]
    /\ excused' = (excused \/ Saving)
    /\ UNCHANGED <<eternal, owner, vmVars, cellVars, buf, restorePc, s3Vars,
                   whole, got, owed, dropped, faults>>

\* A rotation that got no answer, or a bad one, probes VM2; after a second
\* restore it is given up, and VM2 with it.
Disappointed == IF rot = "again" THEN "none" ELSE "probe"
LeaveVm2 == IF rot = "again" /\ life[vm2] = "bare"
            THEN [life EXCEPT ![vm2] = "stray"] ELSE life

\* No answer in 30 s.  The VM goes on with what it was asked to do.
AnswerTimeout ==
    /\ Fault
    /\ rot \in {"save", "restore", "again"}
    /\ rot' = Disappointed
    /\ life' = LeaveVm2
    /\ UNCHANGED <<eternal, owner, rotated, vm2, vmVars, cellVars, jobVars, s3Vars, history>>

\* VM2 is alive: restore into it whatever the bucket holds.
ProbeAlive ==
    /\ rot = "probe"
    /\ life[vm2] = "bare" /\ LoopFree(vm2)
    /\ rot' = "again"
    /\ restorePc' = [restorePc EXCEPT ![vm2] = "pkl"]
    /\ excused' = (excused \/ Saving)
    /\ UNCHANGED <<eternal, owner, life, rotated, vm2, vmVars, cellVars, savePc, buf,
                   s3Vars, whole, got, owed, dropped, faults>>

\* It is not, or does not answer in 5 s: back to the old VM.
ProbeDead ==
    /\ Fault
    /\ rot = "probe"
    /\ rot' = "none"
    /\ life' = IF life[vm2] = "bare" THEN [life EXCEPT ![vm2] = "stray"] ELSE life
    /\ UNCHANGED <<eternal, owner, rotated, vm2, vmVars, cellVars, jobVars, s3Vars, history>>

-----------------------------------------------------------------------------
(* CheckpointManager.save: /checkpoint-save and the /terminate hook. *)

SaveGoto(v, label) == savePc' = [savePc EXCEPT ![v] = label]

\* The save ended.  In a hook it was the VM's last act; on demand the rotation
\* goes on from there, if it still waits for it.
SaveReturns(v, ok) ==
    /\ SaveGoto(v, "idle")
    /\ life' = IF life[v] = "stopping" THEN [life EXCEPT ![v] = "gone"] ELSE life
    /\ IF rot = "save" /\ v = owner
       THEN /\ rot' = IF ok THEN "restore" ELSE "probe"
            /\ restorePc' = IF ok /\ life[vm2] = "bare"
                            THEN [restorePc EXCEPT ![vm2] = "pkl"] ELSE restorePc
       ELSE UNCHANGED <<rot, restorePc>>

\* The display objects, modules and what cannot be pickled are skipped.
Serialize(v) ==
    /\ savePc[v] = "serialize"
    /\ buf' = [buf EXCEPT ![v] = Visible(ns[v])]
    /\ SaveGoto(v, "pkl")
    /\ whole' = [whole EXCEPT ![v] = "begun"]
    /\ UNCHANGED <<proxyVars, vmVars, cellVars, restorePc, s3Vars, got, owed, dropped, excused, faults>>

\* Bug: an empty namespace is not worth an upload.
PutPklIfAny(v) ==
    /\ savePc[v] = "pkl"
    /\ pkl' = IF buf[v] # Empty THEN [is |-> TRUE, of |-> buf[v]] ELSE pkl
    /\ SaveGoto(v, "files")
    /\ UNCHANGED <<proxyVars, vmVars, cellVars, buf, restorePc, tar, reqs, history, faults>>

PutPkl(v) ==
    /\ savePc[v] = "pkl"
    /\ pkl' = [is |-> TRUE, of |-> buf[v]]
    /\ SaveGoto(v, "files")
    /\ UNCHANGED <<proxyVars, vmVars, cellVars, buf, restorePc, tar, reqs, history, faults>>

\* The archive is replaced only if there are files.
PutFiles(v) ==
    /\ savePc[v] = "files"
    /\ tar' = IF files[v] # NoFiles THEN [is |-> TRUE, of |-> files[v]] ELSE tar
    /\ SaveGoto(v, "reqs")
    /\ UNCHANGED <<proxyVars, vmVars, cellVars, buf, restorePc, pkl, reqs, history, faults>>

\* So is the package list.
PutReqs(v) ==
    /\ savePc[v] = "reqs"
    /\ reqs' = IF pkgs[v] # {} THEN [is |-> TRUE, of |-> pkgs[v]] ELSE reqs
    /\ owed' = IF pkgs[v] # {} THEN pkgs[v] \ dropped ELSE owed
    /\ SaveGoto(v, "meta")
    /\ UNCHANGED <<proxyVars, vmVars, cellVars, buf, restorePc, pkl, tar,
                   whole, got, dropped, excused, faults>>

\* metadata.json, the data catalog, and the provenance, whose failure is only
\* logged: the save is complete.
PutMeta(v) ==
    /\ savePc[v] = "meta"
    /\ SaveReturns(v, TRUE)
    /\ whole' = [whole EXCEPT ![v] = IF @ = "begun" THEN "yes" ELSE @]
    /\ UNCHANGED <<eternal, owner, rotated, vm2, vmVars, cellVars, buf, s3Vars,
                   got, owed, dropped, excused, faults>>

\* Any put, or the serialization, raises.
SaveRaises(v) ==
    /\ Fault
    /\ savePc[v] # "idle"
    /\ SaveReturns(v, FALSE)
    /\ Change(v)
    /\ UNCHANGED <<eternal, owner, rotated, vm2, vmVars, cellVars, buf, s3Vars,
                   got, owed, dropped, excused>>

-----------------------------------------------------------------------------
(* CheckpointManager.restore: /run with restore_from, and /restore-state. *)

RestoreGoto(v, label) == restorePc' = [restorePc EXCEPT ![v] = label]

\* Bug (the handler as its author meant it): a failed download is logged.
GetPklLogged(v) ==
    /\ restorePc[v] = "pkl"
    /\ \/ /\ pkl.is
          /\ ns' = [ns EXCEPT ![v] = Update(@, pkl.of)]
          /\ got' = [got EXCEPT ![v] = {"pkl"}]
       \/ UNCHANGED <<ns, got>>
    /\ RestoreGoto(v, "files")
    /\ UNCHANGED <<proxyVars, files, pkgs, cellVars, savePc, buf, s3Vars,
                   whole, owed, dropped, excused, faults>>

GetPkl(v) ==
    /\ restorePc[v] = "pkl"
    /\ pkl.is
    /\ ns' = [ns EXCEPT ![v] = Update(@, pkl.of)]
    /\ got' = [got EXCEPT ![v] = {"pkl"}]
    /\ RestoreGoto(v, "files")
    /\ UNCHANGED <<proxyVars, files, pkgs, cellVars, savePc, buf, s3Vars,
                   whole, owed, dropped, excused, faults>>

\* NoSuchKey: no archive.
GetFiles(v) ==
    /\ restorePc[v] = "files"
    /\ files' = IF tar.is THEN [files EXCEPT ![v] = Update(@, tar.of)] ELSE files
    /\ got' = [got EXCEPT ![v] = @ \cup {"files"}]
    /\ RestoreGoto(v, "reqs")
    /\ UNCHANGED <<proxyVars, ns, pkgs, cellVars, savePc, buf, s3Vars,
                   whole, owed, dropped, excused, faults>>

\* Bug: /run answers for a restore that raised, and nobody notices.
RestoreRaisesUnnoticed(v) ==
    /\ Fault
    /\ restorePc[v] \in {"pkl", "files"}
    /\ RestoreGoto(v, "idle")
    /\ IF rot \in {"restore", "again"} /\ v = vm2
       THEN rot' = Disappointed /\ life' = LeaveVm2 ELSE UNCHANGED <<rot, life>>
    /\ UNCHANGED <<eternal, owner, rotated, vm2, vmVars, cellVars, savePc, buf, s3Vars, history>>

\* The handlers of the first two downloads use a name, _tb, that restore never
\* binds: whatever went wrong, a NameError leaves restore.  A launched VM dies
\* of it in /run; a rotation takes it for an answer.
RestoreRaises(v) ==
    /\ Fault
    /\ restorePc[v] \in {"pkl", "files"}
    /\ RestoreGoto(v, "idle")
    /\ IF rot \in {"restore", "again"} /\ v = vm2
       THEN rot' = Disappointed /\ life' = LeaveVm2
       ELSE /\ life' = IF life[v] = "restoring" THEN [life EXCEPT ![v] = "gone"] ELSE life
            /\ UNCHANGED rot
    /\ UNCHANGED <<eternal, owner, rotated, vm2, vmVars, cellVars, savePc, buf, s3Vars, history>>

\* Bug: the list is installed, but not kept for the next checkpoint.
InstallReqsUntracked(v) ==
    /\ restorePc[v] = "reqs"
    /\ RestoreGoto(v, "rest")
    /\ UNCHANGED <<proxyVars, vmVars, cellVars, savePc, buf, s3Vars, history, faults>>

\* pip installs what it can; the list is kept for the next save in any case.
\* A failed download is only logged.
GetReqs(v) ==
    /\ restorePc[v] = "reqs"
    /\ \/ /\ pkgs' = IF reqs.is THEN [pkgs EXCEPT ![v] = reqs.of] ELSE pkgs
          /\ UNCHANGED <<excused, faults>>
       \/ Fault /\ excused' = TRUE /\ UNCHANGED pkgs
    /\ RestoreGoto(v, "rest")
    /\ UNCHANGED <<proxyVars, ns, files, cellVars, savePc, buf, s3Vars,
                   whole, got, owed, dropped>>

\* The data catalog and the provenance, whose failures are only logged; restore
\* returns.  A launched VM serves the session.  So does VM2, if the rotation
\* waits for it: the old VM is terminated, except by the recovery, which leaves
\* it to itself.
GetRest(v) ==
    LET swaps == rot \in {"restore", "again"} /\ v = vm2
        stops == swaps /\ rot = "restore" /\ life[owner] = "up"
    IN
    /\ restorePc[v] = "rest"
    /\ RestoreGoto(v, "idle")
    /\ IF swaps \/ life[v] = "restoring"
       THEN /\ owner' = v
            /\ life' = [u \in VM |->
                          CASE u = v -> "up"
                            [] u = owner /\ stops -> StopLife(u)
                            [] u = owner /\ swaps /\ life[u] = "up" /\ ~stops -> "stray"
                            [] OTHER -> life[u]]
       ELSE UNCHANGED <<owner, life>>
    /\ rot' = IF swaps THEN "none" ELSE rot
    /\ savePc' = IF stops THEN StopJob(owner) ELSE savePc
    /\ UNCHANGED <<eternal, rotated, vm2, vmVars, cellVars, buf, s3Vars, history, faults>>

-----------------------------------------------------------------------------
Work(v) == \/ CellStart(v) \/ CellRun(v) \/ Reset(v)
           \/ \E p \in Pkg : Install(v, p) \/ Uninstall(v, p)

Move(v) == Terminate(v) \/ StopStray(v) \/ Kill(v) \/ Relaunch(v)

RotateSession == \/ \E v, w \in VM : Rotate(v, w)
                 \/ AnswerTimeout \/ ProbeAlive \/ ProbeDead

Save(v) == \/ Serialize(v) \/ PutPkl(v) \/ PutFiles(v) \/ PutReqs(v)
           \/ PutMeta(v) \/ SaveRaises(v)

Restore(v) == \/ GetPkl(v) \/ GetFiles(v) \/ GetReqs(v) \/ GetRest(v)
              \/ RestoreRaises(v)

Next == \/ \E v \in VM : Work(v) \/ Move(v) \/ Save(v) \/ Restore(v)
        \/ RotateSession

Spec == Init /\ [][Next]_vars

-----------------------------------------------------------------------------
\* A VM that passes for restored is: restore never returns normally without the
\* namespace and the files of a checkpoint in place, whichever download fails.
\* (The rotator swaps, and /run lets traffic in, on nothing but that return.)
RestoreReportsTruth ==
    \A v \in VM \ {1} : life[v] = "up" => got[v] = {"pkl", "files"}

\* If the VM that served the session finished its save after the last change,
\* its successor starts with exactly its variables, with its files and with
\* its packages, whatever older saves left in the objects that this save
\* skipped.
RestoredStateIsLatest ==
    [][\A v \in VM :
         owner # v /\ owner' = v /\ whole[owner] = "yes" /\ ~excused' =>
             /\ ns'[v] = Visible(ns[owner])
             /\ \A f \in File : files[owner][f] # Absent => files'[v][f] = files[owner][f]
             /\ pkgs[owner] \subseteq pkgs'[v]]_vars

\* A package that a save recorded is in the list of every later VM of the
\* session until the user uninstalls it: no later save can lose it.
PackagesAreNotForgotten ==
    \A v \in VM : v = owner /\ life[v] = "up" /\ ~excused => owed \subseteq pkgs[v]

-----------------------------------------------------------------------------
(* What the code's own words claim, and the code does not do. *)

\* checkpoint.py:149-151, "so an uninstalled package doesn't reappear after
\* rotation/restore": not even if the VM finished its save after the uninstall.
UninstalledStaysUninstalled ==
    [][\A v \in VM : owner # v /\ owner' = v /\ whole[owner] = "yes" /\ ~excused' =>
                     pkgs'[v] \cap dropped = {}]_vars

\* useInstances.js:183, "Signal that checkpoint was saved": a VM that was
\* terminated in order has begun to save.
TerminateSaves ==
    [][\A v \in VM : Terminate(v) => savePc'[v] # "idle"]_vars
=============================================================================
