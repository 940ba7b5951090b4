----------------------------- MODULE DataProofs -----------------------------
(***************************************************************************)
(* What the two modules about data promise, for any number of sources,     *)
(* tables, databases, statements and VMs.                                  *)
(*                                                                         *)
(* Catalog: a VM which says its catalog is complete has looked at every    *)
(* source the session was launched with; the discovery, the uploads' scans *)
(* and the rotations keep it so.                                           *)
(*                                                                         *)
(* SqlEngine: a statement is answered with the rows it asks for, whichever *)
(* engines and caches it went through, and is routed by a fresh catalog.   *)
(***************************************************************************)
EXTENDS Catalog, SqlEngine, FiniteSetTheorems, TLAPS

--------------------------------------------------
(* The inductive invariant, in named parts. *)

ScanThread == [main : BOOLEAN, left : SUBSET File, at : SUBSET File, read : 0..MaxUploads]
ScansTyped == scans \subseteq ScanThread

\* The discovery thread looks at the files once, before the sources.
MainScan ==
    /\ \A s \in scans : s.main => thread = "files"
    /\ \A s, t \in scans : s.main /\ t.main => s = t

\* A rotation in progress has a VM to rotate and room for another.
RoomToRotate == rotating => served # 0 /\ launched < MaxVms

Visited(e, x) == e[x] \in {Found(0), Erroneous}

\* The discovery thread has visited what is not left for it.
TodoOrVisited == thread # "none" => \A x \in listed : x \in todo \/ Visited(entry, x)

\* The stored catalog is whole if it is a complete one of the last launch, and so is what
\* a VM that no longer serves may yet store.
KeptIsWhole == kept => \A x \in listed : Visited(stored.entry, x)
LateIsWhole == \A v \in late : v.complete /\ v.own => \A x \in listed : Visited(v.entry, x)

IInv == TypeOK /\ ScansTyped /\ MainScan /\ RoomToRotate /\ TodoOrVisited /\ KeptIsWhole
        /\ LateIsWhole /\ CompleteIsWhole

-----------------------------------------------------------------------------
(* Entries and scans. *)

\* What an entry may be.
LEMMA Entries ==
    /\ Unknown \in Entry /\ Pending \in Entry /\ Erroneous \in Entry
    /\ \A n \in 0..MaxUploads : Found(n) \in Entry
    /\ NoEntries \in [Source -> Entry]
  BY DEF Entry, NoEntries

\* A catalog that is read from S3 is a catalog.
LEMMA RestoredIsTyped ==
    ASSUME TypeOK, NEW read \in BOOLEAN PROVE Restored(read) \in [Source -> Entry]
  BY Entries DEF TypeOK, Restored

\* So is one with pending entries.
LEMMA RegisteredIsTyped ==
    ASSUME NEW e \in [Source -> Entry], NEW payload \in SUBSET Remote
    PROVE  Registered(e, payload) \in [Source -> Entry]
  BY Entries DEF Registered

\* What a VM has to save.
SavingVm == [entry : [Source -> Entry], disk : [File -> 0..MaxUploads],
             complete : BOOLEAN, own : BOOLEAN]

\* The VM that serves has it, and so has one that nobody ended.
LEMMA VmIsTyped ==
    ASSUME TypeOK
    PROVE  /\ Vm \in SavingVm
           /\ \A read \in BOOLEAN :
                 [entry |-> Restored(read), disk |-> stored.disk,
                  complete |-> RestoreCompletes(read), own |-> kept] \in SavingVm
<1>1. complete \in BOOLEAN /\ (~stale) \in BOOLEAN
  BY DEF TypeOK
<1>2. Vm \in SavingVm
  BY <1>1 DEF TypeOK, Vm, SavingVm
<1>3. ASSUME NEW read \in BOOLEAN
      PROVE  [entry |-> Restored(read), disk |-> stored.disk,
              complete |-> RestoreCompletes(read), own |-> kept] \in SavingVm
  <2>1. RestoreCompletes(read) \in BOOLEAN
    BY DEF RestoreCompletes
  <2> QED
    BY <2>1, RestoredIsTyped DEF TypeOK, SavingVm
<1> QED
  BY <1>2, <1>3

\* A save stores a catalog and versions of files.
LEMMA SavedIsTyped ==
    ASSUME TypeOK, NEW v \in SavingVm, Save(v)
    PROVE  /\ stored'.entry \in [Source -> Entry] /\ stored'.disk \in [File -> 0..MaxUploads]
           /\ kept' \in BOOLEAN
<1>1. stored'.entry \in [Source -> Entry] /\ stored'.disk \in [File -> 0..MaxUploads]
  BY DEF TypeOK, Save, SavingVm
<1>2. v.own \in BOOLEAN /\ kept \in BOOLEAN
  BY DEF TypeOK, SavingVm
<1>3. kept' = IF v.complete THEN v.own ELSE kept
  BY DEF Save
<1> QED
  BY <1>1, <1>2, <1>3

\* A catalog is whole once it is saved, if what is saved is.
LEMMA SavedIsWhole ==
    ASSUME NEW v, Save(v), UNCHANGED listed, KeptIsWhole,
           v.complete /\ v.own => \A x \in listed : Visited(v.entry, x)
    PROVE  KeptIsWhole'
<1>1. v.complete => stored'.entry = v.entry /\ kept' = v.own
  BY DEF Save
<1>2. ~v.complete => stored'.entry = stored.entry /\ kept' = kept
  BY DEF Save
<1> QED
  BY <1>1, <1>2 DEF KeptIsWhole, Visited

\* A scan goes on, and is the discovery thread's or not, as before.
LEMMA ScanGoesOn ==
    ASSUME NEW s \in ScanThread, NEW f \in File, NEW n \in 0..MaxUploads
    PROVE  /\ [s EXCEPT !.left = @ \ {f}, !.at = {f}, !.read = n] \in ScanThread
           /\ [s EXCEPT !.left = @ \ {f}, !.at = {f}, !.read = n].main = s.main
           /\ [s EXCEPT !.left = @ \ {f}] \in ScanThread
           /\ [s EXCEPT !.left = @ \ {f}].main = s.main
  BY DEF ScanThread

\* A scan that has written what it read.
LEMMA ScanHasWritten ==
    ASSUME NEW s \in ScanThread
    PROVE  /\ [s EXCEPT !.at = {}, !.read = 0] \in ScanThread
           /\ [s EXCEPT !.at = {}, !.read = 0].main = s.main
<1>1. ASSUME NEW a \in SUBSET File, NEW n \in 0..MaxUploads
      PROVE  /\ [s EXCEPT !.at = a, !.read = n] \in ScanThread
             /\ [s EXCEPT !.at = a, !.read = n].main = s.main
  BY DEF ScanThread
<1>2. {} \in SUBSET File /\ 0 \in 0..MaxUploads
  BY CatalogAssumption
<1> QED
  BY <1>1, <1>2

\* A scan that begins.
LEMMA ScanBegins ==
    ASSUME NEW main \in BOOLEAN PROVE Scan(main) \in ScanThread /\ Scan(main).main = main
  BY CatalogAssumption DEF Scan, ScanThread

-----------------------------------------------------------------------------
(* Types. *)

\* Every step keeps the types, and room for a rotation.
LEMMA TypesStep ==
    TypeOK /\ ScansTyped /\ RoomToRotate /\ MainScan /\ [Next]_vars
        => (TypeOK /\ ScansTyped /\ RoomToRotate)'
<1> SUFFICES ASSUME TypeOK, ScansTyped, RoomToRotate, MainScan, [Next]_vars
             PROVE (TypeOK /\ ScansTyped /\ RoomToRotate)'
  OBVIOUS
<1> USE CatalogAssumption DEF TypeOK, vmVars, session, history, ScansTyped, RoomToRotate
<1> SavingVm = [entry : [Source -> Entry], disk : [File -> 0..MaxUploads],
                complete : BOOLEAN, own : BOOLEAN]
  BY DEF SavingVm
<1>1. ASSUME NEW payload \in Listings, NEW restores \in BOOLEAN, NEW read \in BOOLEAN,
            Launch(payload, restores, read)
      PROVE (TypeOK /\ ScansTyped /\ RoomToRotate)'
  <2>1. entry' \in [Source -> Entry]
    BY <1>1, RestoredIsTyped, RegisteredIsTyped, Entries DEF Launch, Listings
  <2>2. ScansTyped'
    BY <1>1, ScanBegins DEF Launch
  <2>3. disk' \in [File -> 0..MaxUploads]
    BY <1>1 DEF Launch, NoFiles
  <2>4. /\ launched' \in 0..MaxVms /\ served' \in 0..launched' /\ served' # 0
        /\ rotating' => launched' < MaxVms
    BY <1>1 DEF Launch
  <2>5. /\ thread' = "files" /\ complete' = FALSE /\ todo' \subseteq Remote /\ listed' \subseteq Remote
        /\ kept' = FALSE /\ stale' = FALSE /\ UNCHANGED <<stored, rotating, uploads>>
    BY <1>1 DEF Launch, Listings
  <2>6. late' \subseteq SavingVm
    <3>1. \A v \in SavingVm : [v EXCEPT !.own = FALSE] \in SavingVm
      OBVIOUS
    <3>2. late' = {[v EXCEPT !.own = FALSE] : v \in late}
      BY <1>1 DEF Launch
    <3> QED
      BY <3>1, <3>2
  <2> QED
    BY <2>1, <2>2, <2>3, <2>4, <2>5, <2>6
<1>2. ASSUME NEW s \in scans, NEW f \in File, ScanRead(s, f)
      PROVE (TypeOK /\ ScansTyped /\ RoomToRotate)'
  <2>1. ScansTyped'
    <3> DEFINE u == [s EXCEPT !.left = @ \ {f}, !.at = {f}, !.read = disk[f]]
    <3>1. disk[f] \in 0..MaxUploads /\ s \in ScanThread
      OBVIOUS
    <3>2. u \in ScanThread
      BY <3>1, ScanGoesOn
    <3>3. scans' = (scans \ {s}) \cup {u}
      BY <1>2 DEF ScanRead, Replace
    <3> HIDE DEF u
    <3> QED
      BY <3>2, <3>3
  <2>2. served # 0
    BY <1>2
  <2> QED
    BY <1>2, <2>1, <2>2 DEF ScanRead
<1>3. ASSUME NEW s \in scans, NEW f \in File, ScanSkip(s, f)
      PROVE (TypeOK /\ ScansTyped /\ RoomToRotate)'
  <2>1. ScansTyped'
    <3>1. s \in ScanThread /\ 0 \in 0..MaxUploads
      OBVIOUS
    <3> QED
      BY <1>3, <3>1, ScanGoesOn DEF ScanSkip, Replace
  <2>2. served # 0
    BY <1>3
  <2> QED
    BY <1>3, <2>1, <2>2 DEF ScanSkip
<1>4. ASSUME NEW s \in scans, ScanWrite(s) PROVE (TypeOK /\ ScansTyped /\ RoomToRotate)'
  <2>1. ScansTyped'
    BY <1>4, ScanHasWritten DEF ScanWrite, Replace
  <2>2. Found(s.read) \in Entry
    <3>1. s.read \in 0..MaxUploads
      BY DEF ScanThread
    <3> QED
      BY <3>1, Entries
  <2>3. entry' \in [Source -> Entry]
    BY <1>4, <2>2 DEF ScanWrite
  <2>4. served # 0
    BY <1>4
  <2> QED
    BY <1>4, <2>1, <2>3, <2>4 DEF ScanWrite
<1>5. ASSUME NEW s \in scans, ScanEnd(s) PROVE (TypeOK /\ ScansTyped /\ RoomToRotate)'
  <2>1. s.main => ~complete
    BY DEF MainScan
  <2>2. served # 0
    BY <1>5
  <2> QED
    BY <1>5, <2>1, <2>2 DEF ScanEnd
<1>6. ASSUME NEW x \in Remote, NEW result \in {Found(0), Erroneous}, Discover(x, result)
      PROVE (TypeOK /\ ScansTyped /\ RoomToRotate)'
  <2>1. entry' \in [Source -> Entry]
    BY <1>6, Entries DEF Discover, Source
  <2> QED
    BY <1>6, <2>1 DEF Discover
<1>7. ASSUME Finish PROVE (TypeOK /\ ScansTyped /\ RoomToRotate)'
  BY <1>7 DEF Finish
<1>8. ASSUME NEW f \in File, Remove(f) PROVE (TypeOK /\ ScansTyped /\ RoomToRotate)'
  BY <1>8 DEF Remove
<1>9. ASSUME NEW f \in File, NEW loads \in BOOLEAN, Upload(f, loads)
      PROVE (TypeOK /\ ScansTyped /\ RoomToRotate)'
  <2>1. ScansTyped'
    BY <1>9, ScanBegins DEF Upload
  <2>2. uploads' \in 0..MaxUploads /\ disk' \in [File -> 0..MaxUploads]
    BY <1>9 DEF Upload
  <2>3. served' # 0
        /\ UNCHANGED <<served, launched, stored, listed, rotating, late, kept, stale, entry,
                       complete, thread, todo>>
    BY <1>9 DEF Upload
  <2> QED
    BY <2>1, <2>2, <2>3
<1>10. ASSUME RotateSave PROVE (TypeOK /\ ScansTyped /\ RoomToRotate)'
  <2>1. /\ stored'.entry \in [Source -> Entry] /\ stored'.disk \in [File -> 0..MaxUploads]
        /\ kept' \in BOOLEAN
    BY <1>10, SavedIsTyped, VmIsTyped DEF RotateSave
  <2> QED
    BY <1>10, <2>1 DEF RotateSave
<1>11. ASSUME NEW read \in BOOLEAN, NEW lives \in BOOLEAN, RotateFails(read, lives)
       PROVE (TypeOK /\ ScansTyped /\ RoomToRotate)'
  <2>1. late' \subseteq SavingVm
    BY <1>11, VmIsTyped DEF RotateFails
  <2>2. launched' \in 0..MaxVms /\ served \in 0..launched'
    BY <1>11 DEF RotateFails
  <2> QED
    BY <1>11, <2>1, <2>2 DEF RotateFails
<1>12. ASSUME NEW read \in BOOLEAN, NEW saves \in BOOLEAN, RotateSwap(read, saves)
       PROVE (TypeOK /\ ScansTyped /\ RoomToRotate)'
  <2>1. entry' \in [Source -> Entry]
    BY <1>12, RestoredIsTyped DEF RotateSwap
  <2>2. launched' \in 0..MaxVms /\ served' \in 0..launched' /\ served' # 0 /\ rotating' = FALSE
        /\ complete' \in BOOLEAN
    BY <1>12 DEF RotateSwap, RestoreCompletes
  <2>3. ScansTyped' /\ thread' = "none" /\ todo' = {}
    BY <1>12 DEF RotateSwap, ThreadsEnd
  <2>4. disk' = stored.disk /\ stale' \in BOOLEAN /\ UNCHANGED <<stored, kept, listed, uploads>>
    BY <1>12 DEF RotateSwap
  <2>5. late' \subseteq SavingVm
    BY <1>12, VmIsTyped DEF RotateSwap
  <2> QED
    BY <2>1, <2>2, <2>3, <2>4, <2>5
<1>13. ASSUME NEW saves \in BOOLEAN, Stop(saves) PROVE (TypeOK /\ ScansTyped /\ RoomToRotate)'
  <2>1. late' \subseteq SavingVm
    BY <1>13, VmIsTyped DEF Stop
  <2>2. entry' = NoEntries /\ entry' \in [Source -> Entry]
    BY <1>13, Entries DEF Stop
  <2>3. disk' \in [File -> 0..MaxUploads]
    BY <1>13 DEF Stop, NoFiles
  <2>4. /\ served' = 0 /\ thread' = "none" /\ todo' = {} /\ scans' = {} /\ listed' = {}
        /\ rotating' = FALSE /\ complete' = FALSE /\ stale' = FALSE
        /\ UNCHANGED <<stored, kept, launched, uploads>>
    BY <1>13 DEF Stop, ThreadsEnd
  <2>5. ScansTyped' /\ RoomToRotate'
    BY <2>4
  <2>6. launched' \in 0..MaxVms /\ served' \in 0..launched'
    BY <2>4
  <2>7. todo' \subseteq Remote /\ listed' \subseteq Remote /\ uploads' \in 0..MaxUploads
    BY <2>4
  <2> QED
    BY <2>1, <2>2, <2>3, <2>4, <2>5, <2>6, <2>7
<1>14. ASSUME NEW v \in late, HookSaves(v) PROVE (TypeOK /\ ScansTyped /\ RoomToRotate)'
  <2>1. /\ stored'.entry \in [Source -> Entry] /\ stored'.disk \in [File -> 0..MaxUploads]
        /\ kept' \in BOOLEAN
    BY <1>14, SavedIsTyped DEF HookSaves
  <2> QED
    BY <1>14, <2>1 DEF HookSaves
<1>15. CASE UNCHANGED vars
  BY <1>15 DEF vars
<1> QED
  BY <1>1, <1>2, <1>3, <1>4, <1>5, <1>6, <1>7, <1>8, <1>9, <1>10, <1>11, <1>12,
     <1>13, <1>14, <1>15
     DEF Next, Thread

\* Uploads start scans that are not the discovery thread's.
LEMMA MainStep == TypeOK /\ ScansTyped /\ MainScan /\ [Next]_vars => MainScan'
<1> SUFFICES ASSUME TypeOK, ScansTyped, MainScan, [Next]_vars PROVE MainScan'
  OBVIOUS
<1> USE DEF MainScan, vmVars, session, history
<1>1. ASSUME NEW payload \in Listings, NEW restores \in BOOLEAN, NEW read \in BOOLEAN,
            Launch(payload, restores, read)
      PROVE MainScan'
  BY <1>1, ScanBegins DEF Launch
<1>2. ASSUME NEW s \in scans, NEW f \in File, ScanRead(s, f) PROVE MainScan'
  <2>1. \E u : scans' = (scans \ {s}) \cup {u} /\ u.main = s.main
    <3> DEFINE v == [s EXCEPT !.left = @ \ {f}, !.at = {f}, !.read = disk[f]]
    <3>1. s \in ScanThread /\ disk[f] \in 0..MaxUploads
      BY DEF ScansTyped, TypeOK
    <3>2. v.main = s.main
      BY <3>1 DEF ScanThread
    <3>3. scans' = (scans \ {s}) \cup {v}
      BY <1>2 DEF ScanRead, Replace
    <3> HIDE DEF v
    <3> QED
      BY <3>2, <3>3
  <2> QED
    BY <1>2, <2>1 DEF ScanRead
<1>3. ASSUME NEW s \in scans, NEW f \in File, ScanSkip(s, f) PROVE MainScan'
  <2>1. \E u : scans' = (scans \ {s}) \cup {u} /\ u.main = s.main
    <3>1. s \in ScanThread /\ 0 \in 0..MaxUploads
      BY CatalogAssumption DEF ScansTyped
    <3> QED
      BY <1>3, <3>1, ScanGoesOn DEF ScanSkip, Replace
  <2> QED
    BY <1>3, <2>1 DEF ScanSkip
<1>4. ASSUME NEW s \in scans, ScanWrite(s) PROVE MainScan'
  <2>1. \E u : scans' = (scans \ {s}) \cup {u} /\ u.main = s.main
    BY <1>4, ScanHasWritten DEF ScanWrite, Replace, ScansTyped
  <2> QED
    BY <1>4, <2>1 DEF ScanWrite
<1>5. ASSUME NEW s \in scans, ScanEnd(s) PROVE MainScan'
  BY <1>5 DEF ScanEnd
<1>6. ASSUME NEW x \in Remote, NEW result \in {Found(0), Erroneous}, Discover(x, result)
      PROVE MainScan'
  BY <1>6 DEF Discover
<1>7. ASSUME Finish PROVE MainScan'
  <2>1. \A s \in scans : ~s.main
    BY <1>7 DEF Finish
  <2> QED
    BY <1>7, <2>1 DEF Finish
<1>8. ASSUME NEW f \in File, Remove(f) PROVE MainScan'
  BY <1>8 DEF Remove
<1>9. ASSUME NEW f \in File, NEW loads \in BOOLEAN, Upload(f, loads) PROVE MainScan'
  BY <1>9, ScanBegins DEF Upload
<1>10. ASSUME RotateSave PROVE MainScan'
  BY <1>10 DEF RotateSave
<1>11. ASSUME NEW read \in BOOLEAN, NEW lives \in BOOLEAN, RotateFails(read, lives)
       PROVE MainScan'
  BY <1>11 DEF RotateFails
<1>12. ASSUME NEW read \in BOOLEAN, NEW saves \in BOOLEAN, RotateSwap(read, saves)
       PROVE MainScan'
  BY <1>12 DEF RotateSwap, ThreadsEnd
<1>13. ASSUME NEW saves \in BOOLEAN, Stop(saves) PROVE MainScan'
  BY <1>13 DEF Stop, ThreadsEnd
<1>14. ASSUME NEW v \in late, HookSaves(v) PROVE MainScan'
  BY <1>14 DEF HookSaves
<1>15. CASE UNCHANGED vars
  BY <1>15 DEF vars
<1> QED
  BY <1>1, <1>2, <1>3, <1>4, <1>5, <1>6, <1>7, <1>8, <1>9, <1>10, <1>11, <1>12,
     <1>13, <1>14, <1>15
     DEF Next, Thread

-----------------------------------------------------------------------------
(* The catalog. *)

\* What is complete is whole: the discovery thread has visited everything, or a
\* rotation restored what it had saved then.
LEMMA WholeStep ==
    TypeOK /\ ScansTyped /\ MainScan /\ RoomToRotate /\
    TodoOrVisited /\ KeptIsWhole /\ LateIsWhole /\ CompleteIsWhole /\ [Next]_vars
        => (TodoOrVisited /\ KeptIsWhole /\ LateIsWhole /\ CompleteIsWhole)'
<1> SUFFICES ASSUME TypeOK, ScansTyped, MainScan, RoomToRotate, TodoOrVisited, KeptIsWhole,
                    LateIsWhole, CompleteIsWhole, [Next]_vars
             PROVE (TodoOrVisited /\ KeptIsWhole /\ LateIsWhole /\ CompleteIsWhole)'
  OBVIOUS
<1> USE DEF TodoOrVisited, KeptIsWhole, LateIsWhole, CompleteIsWhole, Visited, vmVars, session,
        history
<1>1. ASSUME NEW payload \in Listings, NEW restores \in BOOLEAN, NEW read \in BOOLEAN,
            Launch(payload, restores, read)
      PROVE (TodoOrVisited /\ KeptIsWhole /\ LateIsWhole /\ CompleteIsWhole)'
  <2>1. \A x \in listed' : x \in todo'
    BY <1>1 DEF Launch
  <2>2. \A v \in late' : ~v.own
    BY <1>1 DEF Launch, TypeOK
  <2> QED
    BY <1>1, <2>1, <2>2 DEF Launch
<1>2. ASSUME NEW s \in scans, NEW f \in File, ScanRead(s, f)
      PROVE (TodoOrVisited /\ KeptIsWhole /\ LateIsWhole /\ CompleteIsWhole)'
  BY <1>2 DEF ScanRead
<1>3. ASSUME NEW s \in scans, NEW f \in File, ScanSkip(s, f)
      PROVE (TodoOrVisited /\ KeptIsWhole /\ LateIsWhole /\ CompleteIsWhole)'
  BY <1>3 DEF ScanSkip
<1>4. ASSUME NEW s \in scans, ScanWrite(s)
      PROVE (TodoOrVisited /\ KeptIsWhole /\ LateIsWhole /\ CompleteIsWhole)'
  <2>1. \A x \in listed : entry'[x] = entry[x]
    <3>1. s.at \in SUBSET File /\ entry \in [Source -> Entry] /\ listed \subseteq Remote
      BY DEF ScansTyped, ScanThread, TypeOK
    <3>2. UNCHANGED listed
      BY <1>4 DEF ScanWrite, session
    <3>3. entry' = [x \in Source |-> IF x \in s.at THEN Found(s.read) ELSE entry[x]]
      BY <1>4 DEF ScanWrite
    <3> QED
      BY <3>1, <3>2, <3>3, CatalogAssumption DEF Source
  <2> QED
    BY <1>4, <2>1 DEF ScanWrite
<1>5. ASSUME NEW s \in scans, ScanEnd(s)
      PROVE (TodoOrVisited /\ KeptIsWhole /\ LateIsWhole /\ CompleteIsWhole)'
  BY <1>5 DEF ScanEnd, MainScan
<1>6. ASSUME NEW x \in Remote, NEW result \in {Found(0), Erroneous}, Discover(x, result)
      PROVE (TodoOrVisited /\ KeptIsWhole /\ LateIsWhole /\ CompleteIsWhole)'
  <2>1. entry'[x] = result /\ \A y \in Source \ {x} : entry'[y] = entry[y]
    BY <1>6 DEF Discover, TypeOK, Source
  <2>2. listed \subseteq Source
    BY DEF TypeOK, Source
  <2> QED
    BY <1>6, <2>1, <2>2 DEF Discover, TypeOK
<1>7. ASSUME Finish PROVE (TodoOrVisited /\ KeptIsWhole /\ LateIsWhole /\ CompleteIsWhole)'
  BY <1>7 DEF Finish
<1>8. ASSUME NEW f \in File, Remove(f)
      PROVE (TodoOrVisited /\ KeptIsWhole /\ LateIsWhole /\ CompleteIsWhole)'
  BY <1>8 DEF Remove
<1>9. ASSUME NEW f \in File, NEW loads \in BOOLEAN, Upload(f, loads)
      PROVE (TodoOrVisited /\ KeptIsWhole /\ LateIsWhole /\ CompleteIsWhole)'
  BY <1>9 DEF Upload
<1>10. ASSUME RotateSave
       PROVE (TodoOrVisited /\ KeptIsWhole /\ LateIsWhole /\ CompleteIsWhole)'
  <2>1. Vm.complete /\ Vm.own => \A x \in listed : Visited(Vm.entry, x)
    BY DEF Vm
  <2>2. KeptIsWhole'
    BY <1>10, <2>1, SavedIsWhole DEF RotateSave
  <2> QED
    BY <1>10, <2>2 DEF RotateSave
<1>11. ASSUME NEW read \in BOOLEAN, NEW lives \in BOOLEAN, RotateFails(read, lives)
       PROVE (TodoOrVisited /\ KeptIsWhole /\ LateIsWhole /\ CompleteIsWhole)'
  <2> DEFINE w == [entry |-> Restored(read), disk |-> stored.disk,
                   complete |-> RestoreCompletes(read), own |-> kept]
  <2>1. w.complete /\ w.own => \A x \in listed : Visited(w.entry, x)
    BY DEF RestoreCompletes, Restored
  <2>2. late' \subseteq late \cup {w} /\ UNCHANGED <<listed, vmVars, stored, history>>
    BY <1>11 DEF RotateFails
  <2> HIDE DEF w
  <2>3. LateIsWhole'
    BY <2>1, <2>2
  <2> QED
    BY <2>2, <2>3
<1>12. ASSUME NEW read \in BOOLEAN, NEW saves \in BOOLEAN, RotateSwap(read, saves)
       PROVE (TodoOrVisited /\ KeptIsWhole /\ LateIsWhole /\ CompleteIsWhole)'
  <2>1. thread' = "none" /\ UNCHANGED <<stored, kept, listed>> /\ stale' = ~kept
    BY <1>12 DEF RotateSwap, ThreadsEnd
  <2>2. complete' => entry' = stored.entry
    BY <1>12 DEF RotateSwap, RestoreCompletes, Restored
  <2>3. Vm.complete /\ Vm.own => \A x \in listed : Visited(Vm.entry, x)
    BY DEF Vm
  <2>4. late' \subseteq late \cup {Vm}
    BY <1>12 DEF RotateSwap
  <2>5. LateIsWhole'
    BY <2>1, <2>3, <2>4
  <2> QED
    BY <2>1, <2>2, <2>5
<1>13. ASSUME NEW saves \in BOOLEAN, Stop(saves)
       PROVE (TodoOrVisited /\ KeptIsWhole /\ LateIsWhole /\ CompleteIsWhole)'
  <2>1. thread' = "none" /\ listed' = {} /\ ~complete'
    BY <1>13 DEF Stop, ThreadsEnd
  <2> QED
    BY <2>1
<1>14. ASSUME NEW v \in late, HookSaves(v)
       PROVE (TodoOrVisited /\ KeptIsWhole /\ LateIsWhole /\ CompleteIsWhole)'
  <2>1. KeptIsWhole'
    BY <1>14, SavedIsWhole DEF HookSaves
  <2> QED
    BY <1>14, <2>1 DEF HookSaves
<1>15. CASE UNCHANGED vars
  BY <1>15 DEF vars
<1> QED
  BY <1>1, <1>2, <1>3, <1>4, <1>5, <1>6, <1>7, <1>8, <1>9, <1>10, <1>11, <1>12,
     <1>13, <1>14, <1>15
     DEF Next, Thread

-----------------------------------------------------------------------------
(* The theorems. *)

\* The inductive invariant holds in every state.
LEMMA Inductive == Spec => []IInv
<1>1. Init => IInv
  <2> SUFFICES ASSUME Init PROVE IInv
    OBVIOUS
  <2>1. TypeOK
    <3>1. NoFiles \in [File -> 0..MaxUploads]
      BY CatalogAssumption DEF NoFiles
    <3>2. stored.entry = NoEntries /\ stored.disk = NoFiles /\ NoEntries \in [Source -> Entry]
      BY Entries DEF Init
    <3>3. launched = 0 /\ 0 \in 0..MaxVms /\ 0 \in 0..0 /\ 0 \in 0..MaxUploads
      BY CatalogAssumption DEF Init
    <3>4. todo \subseteq Remote /\ listed \subseteq Remote
      BY DEF Init
    <3> QED
      BY <3>1, <3>2, <3>3, <3>4 DEF Init, TypeOK
  <2>2. /\ ScansTyped /\ MainScan /\ RoomToRotate /\ TodoOrVisited /\ KeptIsWhole
        /\ LateIsWhole /\ CompleteIsWhole
    BY DEF Init, ScansTyped, MainScan, RoomToRotate, TodoOrVisited, KeptIsWhole, LateIsWhole,
       CompleteIsWhole
  <2> QED
    BY <2>1, <2>2 DEF IInv
<1>2. IInv /\ [Next]_vars => IInv'
  BY TypesStep, MainStep, WholeStep DEF IInv
<1> QED
  BY <1>1, <1>2, PTL DEF Spec

\* Every state is well typed; in particular only a VM that serves has threads, and
\* while its discovery thread runs it does not claim completeness.
THEOREM TypeCorrect == Spec => []TypeOK
<1>1. IInv => TypeOK
  BY DEF IInv
<1> QED
  BY <1>1, Inductive, PTL

\* A VM whose DataCatalog says that discovery is complete has a schema or an error for
\* every source the launch of the session named, whatever rotations, failed saves and late
\* ones came between, unless a rotation restored a catalog that was not a complete one of
\* that launch.
THEOREM CatalogIsWhole == Spec => []CompleteIsWhole
<1>1. IInv => CompleteIsWhole
  BY DEF IInv
<1> QED
  BY <1>1, Inductive, PTL

--------------------------------------------------
(* SqlEngine: the inductive invariant, in named parts. *)

\* What a table holds, it has held for no time; what is cached of it, for no longer
\* than it was in the cache.
HeldIsNow == \A t \in Dyn : held[t][table[t]] = 0
ScanIsRecent == \A t \in Dyn : scan[t] # {} => held[t][scan[t]] <= scanAge[t]

\* An entry is not older than the timestamp says, unless that was renewed without it.
EntryIsRecent == \A d \in Db : known[d] # "unknown" /\ d \notin renewed => knownAge[d] <= fetchAge

\* There is always a database to ask for.
DefaultStays == glue[DefaultDb] = "full"

\* A statement that waits is one, and has no answer yet.
WaitingIsAsked == \A s \in Slot : waited[s] > 0 => job[s] \in Asked /\ answer[s] = "none"

SqlIInv ==
    /\ SqlTypeOK /\ OtherAnswersAreRight /\ HeldIsNow /\ ScanIsRecent
    /\ EntryIsRecent /\ DefaultStays /\ WaitingIsAsked

-----------------------------------------------------------------------------
(* What the engines return. *)

\* Without a LIMIT everything is left.
LEMMA CutsOfAll == \A R : Cuts(NoLimit, R) = {R}
  BY DEF Cuts

\* Something is left of some rows, and a LIMIT applied twice is a LIMIT.
LEMMA CutOfCut ==
    ASSUME NEW n \in Nat, NEW R, NEW G \in Cuts(n, R), NEW T \in Cuts(n, G)
    PROVE  T \in Cuts(n, R)
<1> n # NoLimit
  BY SqlBounds
<1>1. CASE Cardinality(R) <= n
  <2>1. G = R
    BY <1>1 DEF Cuts
  <2> QED
    BY <2>1
<1>2. CASE ~(Cardinality(R) <= n)
  <2>1. Cardinality(G) = n
    BY <1>2 DEF Cuts
  <2>2. Cuts(n, G) = {G}
    BY <2>1 DEF Cuts
  <2> QED
    BY <2>2
<1> QED
  BY <1>1, <1>2

\* A LIMIT brings no row.
LEMMA CutIsSubset == ASSUME NEW n, NEW R, NEW T \in Cuts(n, R) PROVE T \subseteq R
  BY DEF Cuts

\* Nor do the pages that are requested.
LEMMA RequestedIsSubset ==
    ASSUME NEW n, NEW R, NEW T \in Requested(n, R) PROVE T \subseteq R
  BY CutIsSubset DEF Requested

\* A request whose LIMIT fits every page leaves what the LIMIT leaves.
LEMMA RequestedInOnePage ==
    ASSUME NEW n, Limited(n), \A p \in Pages : ~(p < n), NEW R
    PROVE  Requested(n, R) = Cuts(n, R)
<1>1. {p \in Pages : p < n} = {}
  OBVIOUS
<1>2. UNION {Cuts(m, R) : m \in {n}} = Cuts(n, R)
  OBVIOUS
<1> QED
  BY <1>1, <1>2 DEF Requested

\* The join depends on the tables that the statement names.
LEMMA JoinedAgrees ==
    ASSUME NEW q, NEW f, NEW g, \A t \in q.dyn : f[t] = g[t]
    PROVE  Joined(q, f) = Joined(q, g)
<1>1. UNION {f[t] : t \in q.dyn} = UNION {g[t] : t \in q.dyn}
  OBVIOUS
<1>2. \A r : (\A t \in q.dyn : r \in f[t]) <=> (\A t \in q.dyn : r \in g[t])
  OBVIOUS
<1> QED
  BY <1>1, <1>2 DEF Joined

\* The join of one table is the table.
LEMMA JoinedOne ==
    ASSUME NEW q, NEW f, NEW t, q.dyn = {t}, q.athena = {}, ~q.frame
    PROVE  Joined(q, f) = f[t]
<1>1. UNION {f[u] : u \in q.dyn} = f[t]
  OBVIOUS
<1>2. \A r : (\A u \in q.dyn : r \in f[u]) <=> r \in f[t]
  OBVIOUS
<1> QED
  BY <1>1, <1>2 DEF Joined

\* Results have rows of the tables only.
LEMMA RunIsTyped ==
    ASSUME NEW q \in Asked, NEW f, \A t \in q.dyn : f[t] \subseteq Nat, NEW T \in Run(q, f)
    PROVE  T \subseteq Nat
<1>1. Other \subseteq Nat
  BY SqlBounds
<1>2. Joined(q, f) \subseteq Nat
  BY <1>1 DEF Joined
<1>3. Filtered(q.op, Joined(q, f)) \subseteq Nat
  BY <1>2 DEF Filtered
<1>4. \A n, R : Least(n, R) \subseteq R
  BY DEF Least
<1> QED
  BY <1>3, <1>4, CutIsSubset DEF Run

\* A statement names one table if it names as many.
LEMMA OneTable ==
    ASSUME NEW q \in Asked, Cardinality(q.dyn) = 1
    PROVE  q.dyn = {CHOOSE t \in q.dyn : TRUE} /\ (CHOOSE t \in q.dyn : TRUE) \in Dyn
<1>1. q.dyn \subseteq Dyn /\ IsFiniteSet(q.dyn)
  BY SqlBounds, FS_Subset
<1>2. PICK t : q.dyn = {t}
  BY <1>1, FS_Singleton
<1> QED
  BY <1>1, <1>2

\* _try_partiql is right unless the LIMIT is lost or comes too early.
LEMMA PartiQlIsRight ==
    ASSUME NEW q \in Asked, PartiQlTakes(q), ~LimitIsMisapplied(q), NEW f,
           NEW T \in PartiQl(q, f[CHOOSE t \in q.dyn : TRUE])
    PROVE  T \in Run(q, f)
<1> DEFINE t == CHOOSE u \in q.dyn : TRUE
<1>1. q.dyn = {t} /\ q.athena = {} /\ ~q.frame /\ q.op # "sort"
  BY OneTable DEF PartiQlTakes
<1>2. PICK R \in Requested(q.limit, f[t]) : T = Filtered(q.op, R)
  BY DEF PartiQl
<1> HIDE DEF t
<1>3. Joined(q, f) = f[t]
  BY <1>1, JoinedOne
<1>4. Run(q, f) = Cuts(q.limit, Filtered(q.op, f[t]))
  BY <1>1, <1>3 DEF Run
<1>5. CASE q.limit = NoLimit
  <2>1. R = f[t] /\ Cuts(q.limit, Filtered(q.op, f[t])) = {Filtered(q.op, f[t])}
    BY <1>2, <1>5, CutsOfAll DEF Requested, Limited
  <2> QED
    BY <1>2, <1>4, <2>1
<1>6. CASE q.limit # NoLimit
  <2>1. q.limit # 0 /\ q.op = "all" /\ \A p \in Pages : ~(p < q.limit)
    BY <1>1, <1>6 DEF LimitIsMisapplied, PartiQlTakes
  <2>2. \A S : Filtered(q.op, S) = S
    BY <2>1 DEF Filtered
  <2>3. R \in Cuts(q.limit, f[t])
    BY <1>2, <1>6, <2>1, RequestedInOnePage DEF Limited
  <2> QED
    BY <1>2, <1>4, <2>2, <2>3
<1> QED
  BY <1>5, <1>6

-----------------------------------------------------------------------------
(* Scans. *)

\* A full scan returns what the table holds, or what the cache has if that is not stale;
\* both are contents that the table had within the last 300 s.
LEMMA FullScan ==
    ASSUME SqlTypeOK, HeldIsNow, ScanIsRecent, NEW t \in Dyn,
           NEW n, ~Limited(n), NEW R \in Scanned(t, n)
    PROVE  R \in Contents /\ held[t][R] < Ttl /\ (Caches(t, n) => R = table[t])
<1>1. Ttl \in Nat \ {0} /\ table[t] \in Contents /\ scan[t] \in Contents
  BY SqlBounds DEF SqlTypeOK
<1>2. CASE Hit(t, n)
  <2>1. R = scan[t] /\ scan[t] # {} /\ scanAge[t] < Ttl
    BY <1>2 DEF Scanned, Hit
  <2>2. held[t][scan[t]] <= scanAge[t] /\ held[t][scan[t]] \in Nat /\ scanAge[t] \in Nat
    BY <1>1, <2>1 DEF ScanIsRecent, SqlTypeOK
  <2> QED
    BY <1>1, <1>2, <2>1, <2>2 DEF Caches
<1>3. CASE ~Hit(t, n)
  <2>1. R = table[t]
    BY <1>3 DEF Scanned, Requested
  <2> QED
    BY <1>1, <2>1 DEF HeldIsNow
<1> QED
  BY <1>2, <1>3

\* A scan with a LIMIT requests what the table holds.
LEMMA CutScan ==
    ASSUME NEW n, Limited(n), NEW t \in Dyn, NEW R \in Scanned(t, n)
    PROVE  R \in Requested(n, table[t])
  BY DEF Scanned, Hit

\* Every scan returns rows.
LEMMA ScanIsTyped ==
    ASSUME SqlTypeOK, NEW n, NEW t \in Dyn, NEW R \in Scanned(t, n)
    PROVE  R \subseteq Nat
<1>1. table[t] \subseteq Nat /\ scan[t] \subseteq Nat
  BY SqlBounds DEF SqlTypeOK
<1> QED
  BY <1>1, RequestedIsSubset DEF Scanned

\* What a statement has scanned, it joins and cuts as if it had the whole tables.
LEMMA MaterializedIsRight ==
    ASSUME SqlTypeOK, HeldIsNow, ScanIsRecent, NEW q \in Asked, ~LimitIsMisapplied(q),
           NEW got \in ScanResults(q.dyn, ScanLimit(q)), NEW T \in Run(q, got)
    PROVE  \E content \in RecentContents : T \in Run(q, content)
<1>1. q.dyn \subseteq Dyn /\ q.limit \in Nat \cup {NoLimit} /\ Ttl \in Nat \ {0}
  BY SqlBounds
<1>2. \A t \in q.dyn : got[t] \in Scanned(t, ScanLimit(q))
  BY DEF ScanResults
<1>3. \A t \in Dyn : table[t] \in Contents /\ held[t][table[t]] < Ttl
  BY <1>1 DEF SqlTypeOK, HeldIsNow
<1>4. CASE ~Limited(ScanLimit(q))
  <2> DEFINE content == [t \in Dyn |-> IF t \in q.dyn THEN got[t] ELSE table[t]]
  <2>1. \A t \in q.dyn : got[t] \in Contents /\ held[t][got[t]] < Ttl
    BY <1>1, <1>2, <1>4, FullScan
  <2>2. content \in RecentContents
    BY <1>3, <2>1 DEF RecentContents
  <2>3. \A t \in q.dyn : content[t] = got[t]
    BY <1>1
  <2> HIDE DEF content
  <2>4. Run(q, content) = Run(q, got)
    BY <2>3, JoinedAgrees DEF Run
  <2> QED
    BY <2>2, <2>4
<1>5. CASE Limited(ScanLimit(q))
  <2> DEFINE t == CHOOSE u \in q.dyn : TRUE
  <2>1. Limited(q.limit) /\ ScanLimit(q) = q.limit /\ Cardinality(q.dyn) = 1 /\ q.athena = {}
    BY <1>5 DEF ScanLimit, Limited
  <2>2. q.op = "all" /\ ~q.frame /\ \A p \in Pages : ~(p < q.limit)
    BY <2>1 DEF LimitIsMisapplied, Limited
  <2>3. q.dyn = {t} /\ t \in Dyn
    BY <2>1, OneTable
  <2> HIDE DEF t
  <2>4. \A f : Run(q, f) = Cuts(q.limit, f[t])
    BY <2>1, <2>2, <2>3, JoinedOne DEF Run, Filtered
  <2>5. got[t] \in Cuts(q.limit, table[t])
    BY <1>2, <2>1, <2>2, <2>3, CutScan, RequestedInOnePage
  <2>6. T \in Cuts(q.limit, table[t])
    BY <1>1, <2>1, <2>4, <2>5, CutOfCut DEF Limited
  <2>7. table \in RecentContents
    BY <1>3 DEF RecentContents, SqlTypeOK
  <2> QED
    BY <2>4, <2>6, <2>7
<1> QED
  BY <1>4, <1>5

-----------------------------------------------------------------------------
(* What the parts of a handler do to the state. *)

\* The type invariant, by what changes together.
AwsTyped ==
    /\ table \in [Dyn -> Contents] /\ held \in [Dyn -> [Contents -> 0 .. Ttl]]
    /\ glue \in [Db -> {"absent", "empty", "full"}] /\ changes \in 0 .. MaxChanges
CatalogTyped ==
    /\ known \in [Db -> {"unknown", "absent", "empty", "full"}]
    /\ fetchAge \in 0 .. Ttl /\ knownAge \in [Db -> 0 .. Ttl]
    /\ renewed \subseteq Db /\ broken \in BOOLEAN
CacheTyped == scan \in [Dyn -> Contents] /\ scanAge \in [Dyn -> 0 .. Ttl]
SlotsTyped ==
    /\ job \in [Slot -> Asked \cup {NoJob}] /\ waited \in [Slot -> 0 .. Patience + 1]
    /\ answer \in [Slot -> {"none", "error", "rows"}] /\ rows \in [Slot -> SUBSET Nat]

\* The groups make up the type invariant.
LEMMA SqlTypeGroups ==
    /\ SqlTypeOK <=> AwsTyped /\ CatalogTyped /\ CacheTyped /\ SlotsTyped
    /\ SqlTypeOK' <=> AwsTyped' /\ CatalogTyped' /\ CacheTyped' /\ SlotsTyped'
  BY DEF SqlTypeOK, AwsTyped, CatalogTyped, CacheTyped, SlotsTyped

\* What a group's variables keep, it keeps.
LEMMA SqlTypeFrame ==
    /\ AwsTyped /\ UNCHANGED aws => AwsTyped'
    /\ CatalogTyped /\ UNCHANGED catalog => CatalogTyped'
    /\ CacheTyped /\ UNCHANGED scanCache => CacheTyped'
    /\ SlotsTyped /\ UNCHANGED slots => SlotsTyped'
  BY DEF AwsTyped, CatalogTyped, CacheTyped, SlotsTyped, aws, catalog, scanCache, slots

\* An answer stays right while the tables' histories and its slot stay as they are.
LEMMA AnswerKept ==
    ASSUME OtherAnswersAreRight, UNCHANGED held, NEW s \in Slot,
           job'[s] = job[s], answer'[s] = answer[s], rows'[s] = rows[s]
    PROVE  LimitIsMisapplied(job[s])' \/ AnswersRight(s)'
<1>1. LimitIsMisapplied(job[s])' <=> LimitIsMisapplied(job[s])
  BY DEF LimitIsMisapplied
<1>2. RecentContents' = RecentContents
  BY DEF RecentContents
<1>3. \A content : Run(job[s], content)' = Run(job[s], content)
  BY DEF Run, Joined, Filtered, Cuts, Least
<1>4. AnswersRight(s) => AnswersRight(s)'
  BY <1>2, <1>3 DEF AnswersRight
<1> QED
  BY <1>1, <1>4 DEF OtherAnswersAreRight

\* A slot without rows has no wrong ones.
LEMMA NoRows ==
    ASSUME NEW s \in Slot, answer'[s] # "rows"
    PROVE  LimitIsMisapplied(job[s])' \/ AnswersRight(s)'
  BY DEF AnswersRight

\* So the answers stay right if only one slot changes, and its answer is right.
LEMMA AnswersAfter ==
    ASSUME OtherAnswersAreRight, UNCHANGED held, NEW s \in Slot,
           \A u \in Slot \ {s} : job'[u] = job[u] /\ answer'[u] = answer[u] /\ rows'[u] = rows[u],
           answer'[s] = "rows" /\ ~LimitIsMisapplied(job'[s])
           => \E content \in RecentContents : rows'[s] \in Run(job'[s], content)
    PROVE  OtherAnswersAreRight'
<1>1. RecentContents' = RecentContents
  BY DEF RecentContents
<1>2. LimitIsMisapplied(job[s])' \/ AnswersRight(s)'
  BY <1>1 DEF AnswersRight
<1> QED
  BY <1>2, AnswerKept DEF OtherAnswersAreRight

\* The free slot is not a statement.
LEMMA NoJobIsNone == NoJob \notin Asked
  BY SqlBounds DEF NoJob

\* _get_athena_catalogs keeps the entries within the timestamp; after it, if it did not
\* fail, every entry that was not renewed by another is within the time to live.
LEMMA FetchKeeps ==
    ASSUME AwsTyped, CatalogTyped, EntryIsRecent, NEW dbs \in SUBSET Db, dbs # {}, Fetch(dbs)
    PROVE  /\ CatalogTyped' /\ EntryIsRecent'
           /\ \A d \in Db : known'[d] # "unknown" /\ ~broken' /\ d \notin renewed'
                           => knownAge'[d] < Ttl
<1>1. Ttl \in Nat \ {0}
  BY SqlBounds
<1>2. PICK done \in SUBSET Need(dbs) :
          /\ Read(done) /\ broken' = (done # Need(dbs))
          /\ IF Need(dbs) # {} /\ ~broken' THEN Renew(done)
             ELSE fetchAge' = fetchAge /\ renewed' = renewed \ done
  BY DEF Fetch
<1>3. done \subseteq Db /\ Need(dbs) \subseteq Db
  BY DEF Need
<1>4. /\ known' \in [Db -> {"unknown", "absent", "empty", "full"}]
      /\ knownAge' \in [Db -> 0 .. Ttl]
      /\ \A d \in Db : d \in done => knownAge'[d] = 0
      /\ \A d \in Db : d \notin done => known'[d] = known[d] /\ knownAge'[d] = knownAge[d]
  BY <1>1, <1>2 DEF Read, AwsTyped, CatalogTyped
<1>5. \A d \in Db : knownAge[d] \in 0 .. Ttl /\ fetchAge \in 0 .. Ttl
  BY DEF CatalogTyped
<1>6. CASE Need(dbs) # {} /\ ~broken'
  <2>1. fetchAge' = 0 /\ renewed' = (renewed \cup {d \in Db : known[d] # "unknown"}) \ done
    BY <1>2, <1>6 DEF Renew
  <2>2. \A d \in Db : known'[d] # "unknown" /\ d \notin renewed' => knownAge'[d] = 0
    BY <1>4, <2>1
  <2>3. CatalogTyped'
    BY <1>1, <1>2, <1>4, <2>1 DEF CatalogTyped
  <2> QED
    BY <1>1, <2>1, <2>2, <2>3 DEF EntryIsRecent
<1>7. CASE ~(Need(dbs) # {} /\ ~broken')
  <2>1. fetchAge' = fetchAge /\ renewed' = renewed \ done
    BY <1>2, <1>7
  <2>2. CatalogTyped'
    BY <1>1, <1>2, <1>4, <2>1 DEF CatalogTyped
  <2>3. EntryIsRecent'
    BY <1>1, <1>4, <1>5, <2>1 DEF EntryIsRecent
  <2>4. ~broken' => fetchAge' < Ttl
    BY <1>1, <1>5, <1>7, <2>1 DEF Need
  <2>5. \A d \in Db : knownAge'[d] \in 0 .. Ttl /\ fetchAge' \in 0 .. Ttl
    BY <2>2 DEF CatalogTyped
  <2> QED
    BY <1>1, <2>2, <2>3, <2>4, <2>5 DEF EntryIsRecent
<1> QED
  BY <1>6, <1>7

\* The scans of a handler leave whole tables in the cache, each as it is now.
LEMMA StoreKeeps ==
    ASSUME SqlTypeOK, HeldIsNow, ScanIsRecent, UNCHANGED aws, NEW n,
           NEW tables \in SUBSET Dyn, NEW got \in ScanResults(tables, n), Store(tables, n, got)
    PROVE  CacheTyped' /\ ScanIsRecent'
<1>1. Ttl \in Nat \ {0} /\ {} \in Contents
  BY SqlBounds
<1>2. \A t \in Dyn : t \in tables /\ Caches(t, n) => got[t] = table[t]
  BY FullScan DEF ScanResults, Caches
<1>3. /\ \A t \in Dyn : scan[t] \in Contents /\ table[t] \in Contents /\ scanAge[t] \in 0 .. Ttl
      /\ UNCHANGED held
  BY DEF SqlTypeOK, aws
<1>4. /\ scan' \in [Dyn -> Contents] /\ scanAge' \in [Dyn -> 0 .. Ttl]
      /\ \A t \in Dyn :
            \/ scan'[t] = scan[t] /\ scanAge'[t] = scanAge[t]
            \/ scan'[t] = table[t] /\ (table[t] # {} => scanAge'[t] = 0)
  BY <1>1, <1>2, <1>3 DEF Store
<1> QED
  BY <1>3, <1>4 DEF CacheTyped, ScanIsRecent, HeldIsNow

\* The rest of a handler: the cache is as above, and the answer is right.
LEMMA MaterializeKeeps ==
    ASSUME SqlTypeOK, HeldIsNow, ScanIsRecent, UNCHANGED aws, NEW s \in Slot, NEW q \in Asked,
           NEW recognized, Materialize(s, q, recognized)
    PROVE  /\ CacheTyped' /\ ScanIsRecent'
           /\ answer' \in [Slot -> {"none", "error", "rows"}] /\ rows' \in [Slot -> SUBSET Nat]
           /\ \A u \in Slot \ {s} : answer'[u] = answer[u] /\ rows'[u] = rows[u]
           /\ answer'[s] = "rows" /\ ~LimitIsMisapplied(q)
              => \E content \in RecentContents : rows'[s] \in Run(q, content)
<1>1. q.dyn \subseteq Dyn
  BY SqlBounds
<1>2. PICK tables \in SUBSET q.dyn : \E got \in ScanResults(tables, ScanLimit(q)) :
          /\ Store(tables, ScanLimit(q), got)
          /\ IF recognized /\ tables = q.dyn /\ \A t \in tables : got[t] # {}
             THEN Answer(s, Run(q, got)) ELSE Fail(s)
  BY DEF Materialize
<1>3. PICK got \in ScanResults(tables, ScanLimit(q)) :
          /\ Store(tables, ScanLimit(q), got)
          /\ IF recognized /\ tables = q.dyn /\ \A t \in tables : got[t] # {}
             THEN Answer(s, Run(q, got)) ELSE Fail(s)
  BY <1>2
<1>4. CacheTyped' /\ ScanIsRecent'
  BY <1>1, <1>3, StoreKeeps
<1>5. answer \in [Slot -> {"none", "error", "rows"}] /\ rows \in [Slot -> SUBSET Nat]
  BY DEF SqlTypeOK
<1>6. CASE recognized /\ tables = q.dyn /\ \A t \in tables : got[t] # {}
  <2>1. PICK result \in Run(q, got) :
            /\ answer' = [answer EXCEPT ![s] = "rows"] /\ rows' = [rows EXCEPT ![s] = result]
    BY <1>3, <1>6 DEF Answer
  <2>2. \A t \in q.dyn : got[t] \in Scanned(t, ScanLimit(q))
    BY <1>6 DEF ScanResults
  <2>3. result \subseteq Nat
    BY <1>1, <2>2, ScanIsTyped, RunIsTyped
  <2>4. ~LimitIsMisapplied(q) => \E content \in RecentContents : result \in Run(q, content)
    BY <1>6, MaterializedIsRight
  <2> QED
    BY <1>4, <1>5, <2>1, <2>3, <2>4
<1>7. CASE ~(recognized /\ tables = q.dyn /\ \A t \in tables : got[t] # {})
  <2>1. answer' = [answer EXCEPT ![s] = "error"] /\ rows' = rows
    BY <1>3, <1>7 DEF Fail
  <2> QED
    BY <1>4, <1>5, <2>1
<1> QED
  BY <1>6, <1>7

-----------------------------------------------------------------------------
(* One lemma for each action. *)

\* What a statement that is taken up finds in the catalog.
Routed ==
    \A s \in Slot : job[s] = NoJob /\ job'[s] # NoJob =>
        \A d \in job'[s].athena :
            known'[d] # "unknown" /\ ~broken' /\ d \notin renewed' => knownAge'[d] < Ttl

\* A handler up to its first await.
LEMMA ExecuteKeeps ==
    ASSUME SqlIInv, NEW s \in Slot, NEW q \in Asked, Execute(s, q)
    PROVE  SqlIInv' /\ Routed
<1>1. /\ AwsTyped /\ CatalogTyped /\ CacheTyped /\ SlotsTyped /\ SqlTypeOK
      /\ HeldIsNow /\ ScanIsRecent /\ EntryIsRecent /\ DefaultStays /\ OtherAnswersAreRight
      /\ WaitingIsAsked
  BY SqlTypeGroups DEF SqlIInv
<1>2. UNCHANGED aws /\ UNCHANGED held /\ job' = [job EXCEPT ![s] = q]
  BY DEF Execute, aws
<1>3. PICK dbs \in Databases :
        /\ Fetch(dbs)
        /\ \/ /\ q.athena # {} /\ Recognized(q, dbs)
              /\ waited' = [waited EXCEPT ![s] = 1]
              /\ UNCHANGED <<scanCache, answer, rows>>
           \/ /\ PartiQlTakes(q)
              /\ Answer(s, PartiQl(q, table[CHOOSE t \in q.dyn : TRUE]))
              /\ UNCHANGED <<scanCache, waited>>
           \/ /\ q.athena = {} \/ ~Recognized(q, dbs)
              /\ Materialize(s, q, q.athena = {})
              /\ UNCHANGED waited
  BY DEF Execute
<1>4. DefaultDb \in Db /\ q.athena \subseteq Db /\ Patience \in Nat \ {0}
  BY SqlBounds
<1>5. dbs \in SUBSET Db /\ dbs # {}
  BY <1>1, <1>4 DEF Databases, DefaultStays
<1>6. /\ CatalogTyped' /\ EntryIsRecent'
      /\ \A d \in Db : known'[d] # "unknown" /\ ~broken' /\ d \notin renewed' => knownAge'[d] < Ttl
  BY <1>1, <1>3, <1>5, FetchKeeps
<1>7. /\ job \in [Slot -> Asked \cup {NoJob}] /\ waited \in [Slot -> 0 .. Patience + 1]
      /\ answer \in [Slot -> {"none", "error", "rows"}] /\ rows \in [Slot -> SUBSET Nat]
  BY <1>1 DEF SlotsTyped
<1>8. /\ job' \in [Slot -> Asked \cup {NoJob}] /\ job'[s] = q
      /\ \A u \in Slot \ {s} : job'[u] = job[u]
  BY <1>2, <1>7
<1>9. Routed
  BY <1>4, <1>6, <1>8 DEF Routed
<1>10. AwsTyped' /\ HeldIsNow' /\ DefaultStays'
  BY <1>1, <1>2, SqlTypeFrame DEF aws, HeldIsNow, DefaultStays
<1>11. /\ CacheTyped' /\ ScanIsRecent' /\ waited' \in [Slot -> 0 .. Patience + 1]
       /\ answer' \in [Slot -> {"none", "error", "rows"}] /\ rows' \in [Slot -> SUBSET Nat]
       /\ \A u \in Slot \ {s} : answer'[u] = answer[u] /\ rows'[u] = rows[u]
       /\ answer'[s] = "rows" /\ ~LimitIsMisapplied(q)
          => \E content \in RecentContents : rows'[s] \in Run(q, content)
  <2>1. CASE /\ waited' = [waited EXCEPT ![s] = 1]
             /\ UNCHANGED <<scanCache, answer, rows>>
    <3>1. answer'[s] # "rows"
      BY <2>1 DEF Execute, LoopFree
    <3>2. CacheTyped' /\ ScanIsRecent'
      BY <1>1, <1>2, <2>1, SqlTypeFrame DEF ScanIsRecent, scanCache
    <3> QED
      BY <1>4, <1>7, <2>1, <3>1, <3>2
  <2>2. CASE /\ PartiQlTakes(q)
             /\ Answer(s, PartiQl(q, table[CHOOSE t \in q.dyn : TRUE]))
             /\ UNCHANGED <<scanCache, waited>>
    <3> DEFINE t == CHOOSE u \in q.dyn : TRUE
    <3>1. CacheTyped' /\ ScanIsRecent'
      BY <1>1, <1>2, <2>2, SqlTypeFrame DEF ScanIsRecent, scanCache
    <3>2. PICK result \in PartiQl(q, table[t]) :
              /\ answer' = [answer EXCEPT ![s] = "rows"] /\ rows' = [rows EXCEPT ![s] = result]
      BY <2>2 DEF Answer
    <3>3. t \in Dyn
      BY <2>2, OneTable DEF PartiQlTakes
    <3>4. table[t] \subseteq Nat
      BY <1>1, <3>3, SqlBounds DEF AwsTyped
    <3>5. result \subseteq Nat
      BY <3>2, <3>4, RequestedIsSubset DEF PartiQl, Filtered
    <3>6. table \in RecentContents
      BY <1>1, SqlBounds DEF RecentContents, AwsTyped, HeldIsNow
    <3>7. ~LimitIsMisapplied(q) => result \in Run(q, table)
      BY <2>2, <3>2, PartiQlIsRight
    <3> HIDE DEF t
    <3> QED
      BY <1>7, <2>2, <3>1, <3>2, <3>5, <3>6, <3>7
  <2>3. CASE Materialize(s, q, q.athena = {}) /\ UNCHANGED waited
    BY <1>1, <1>2, <1>7, <2>3, MaterializeKeeps
  <2> QED
    BY <1>3, <2>1, <2>2, <2>3
<1>12. SqlTypeOK'
  BY <1>6, <1>8, <1>10, <1>11, SqlTypeGroups DEF SlotsTyped
<1>13. OtherAnswersAreRight'
  BY <1>1, <1>2, <1>8, <1>11, AnswersAfter
<1>14. WaitingIsAsked'
  <2>1. waited[s] = 0 /\ answer[s] = "none"
    BY <1>1, <1>7, NoJobIsNone DEF Execute, LoopFree, WaitingIsAsked
  <2>2. waited'[s] > 0 => answer'[s] = "none"
    BY <1>3, <1>7, <2>1 DEF Answer, Materialize
  <2>3. \A u \in Slot \ {s} : waited'[u] = waited[u]
    BY <1>3, <1>7
  <2> QED
    BY <1>1, <1>8, <1>11, <2>2, <2>3 DEF WaitingIsAsked
<1> QED
  BY <1>6, <1>9, <1>10, <1>11, <1>12, <1>13, <1>14 DEF SqlIInv

\* The rest of one that waited for Athena.
LEMMA AthenaAnswersKeeps ==
    ASSUME SqlIInv, NEW s \in Slot, AthenaAnswers(s)
    PROVE  SqlIInv' /\ Routed
<1>1. /\ AwsTyped /\ CatalogTyped /\ CacheTyped /\ SlotsTyped /\ SqlTypeOK
      /\ HeldIsNow /\ ScanIsRecent /\ EntryIsRecent /\ DefaultStays /\ OtherAnswersAreRight
      /\ WaitingIsAsked
  BY SqlTypeGroups DEF SqlIInv
<1>2. /\ UNCHANGED <<aws, catalog, held, job>> /\ waited[s] > 0
      /\ waited' = [waited EXCEPT ![s] = 0] /\ Materialize(s, job[s], TRUE)
  BY DEF AthenaAnswers, Waiting, aws
<1>3. job[s] \in Asked
  BY <1>1, <1>2 DEF WaitingIsAsked
<1>4. /\ CacheTyped' /\ ScanIsRecent'
      /\ answer' \in [Slot -> {"none", "error", "rows"}] /\ rows' \in [Slot -> SUBSET Nat]
      /\ \A u \in Slot \ {s} : answer'[u] = answer[u] /\ rows'[u] = rows[u]
      /\ answer'[s] = "rows" /\ ~LimitIsMisapplied(job[s])
         => \E content \in RecentContents : rows'[s] \in Run(job[s], content)
  BY <1>1, <1>2, <1>3, MaterializeKeeps
<1>5. AwsTyped' /\ CatalogTyped' /\ HeldIsNow' /\ EntryIsRecent' /\ DefaultStays'
  BY <1>1, <1>2, SqlTypeFrame DEF aws, catalog, HeldIsNow, EntryIsRecent, DefaultStays
<1>6. SlotsTyped' /\ WaitingIsAsked'
  <2>1. waited \in [Slot -> 0 .. Patience + 1] /\ Patience \in Nat
    BY <1>1, SqlBounds DEF SlotsTyped
  <2>2. /\ waited' \in [Slot -> 0 .. Patience + 1] /\ waited'[s] = 0
        /\ \A u \in Slot \ {s} : waited'[u] = waited[u]
    BY <1>2, <2>1
  <2>3. SlotsTyped'
    BY <1>1, <1>2, <1>4, <2>2 DEF SlotsTyped
  <2> QED
    BY <1>1, <1>2, <1>4, <2>2, <2>3 DEF WaitingIsAsked
<1>7. OtherAnswersAreRight'
  BY <1>1, <1>2, <1>4, AnswersAfter
<1> QED
  BY <1>2, <1>4, <1>5, <1>6, <1>7, SqlTypeGroups DEF SqlIInv, Routed

\* A handler that gives up.
LEMMA GiveUpKeeps ==
    ASSUME SqlIInv, NEW s \in Slot, GiveUp(s)
    PROVE  SqlIInv' /\ Routed
<1>1. /\ AwsTyped /\ CatalogTyped /\ CacheTyped /\ SlotsTyped
      /\ HeldIsNow /\ ScanIsRecent /\ EntryIsRecent /\ DefaultStays /\ OtherAnswersAreRight
      /\ WaitingIsAsked
  BY SqlTypeGroups DEF SqlIInv
<1>2. /\ UNCHANGED <<aws, catalog, scanCache, held, job, rows>>
      /\ waited' = [waited EXCEPT ![s] = 0] /\ answer' = [answer EXCEPT ![s] = "error"]
  BY DEF GiveUp, Fail, aws
<1>3. /\ AwsTyped' /\ CatalogTyped' /\ CacheTyped' /\ HeldIsNow' /\ ScanIsRecent'
      /\ EntryIsRecent' /\ DefaultStays'
  BY <1>1, <1>2, SqlTypeFrame
     DEF aws, catalog, scanCache, HeldIsNow, ScanIsRecent, EntryIsRecent, DefaultStays
<1>4. SlotsTyped' /\ WaitingIsAsked'
  BY <1>1, <1>2, SqlBounds DEF SlotsTyped, WaitingIsAsked
<1>5. /\ \A u \in Slot \ {s} : job'[u] = job[u] /\ answer'[u] = answer[u] /\ rows'[u] = rows[u]
      /\ answer'[s] # "rows"
  BY <1>1, <1>2 DEF SlotsTyped
<1>6. OtherAnswersAreRight'
  BY <1>1, <1>2, <1>5, AnswersAfter
<1> QED
  BY <1>2, <1>3, <1>4, <1>6, SqlTypeGroups DEF SqlIInv, Routed

\* A client that has its answer.
LEMMA LeaveKeeps ==
    ASSUME SqlIInv, NEW s \in Slot, Leave(s)
    PROVE  SqlIInv' /\ Routed
<1>1. /\ AwsTyped /\ CatalogTyped /\ CacheTyped /\ SlotsTyped
      /\ HeldIsNow /\ ScanIsRecent /\ EntryIsRecent /\ DefaultStays /\ OtherAnswersAreRight
      /\ WaitingIsAsked
  BY SqlTypeGroups DEF SqlIInv
<1>2. /\ UNCHANGED <<aws, catalog, scanCache, held, waited>> /\ answer[s] # "none"
      /\ job' = [job EXCEPT ![s] = NoJob]
      /\ answer' = [answer EXCEPT ![s] = "none"] /\ rows' = [rows EXCEPT ![s] = {}]
  BY DEF Leave, aws
<1>3. /\ AwsTyped' /\ CatalogTyped' /\ CacheTyped' /\ HeldIsNow' /\ ScanIsRecent'
      /\ EntryIsRecent' /\ DefaultStays'
  BY <1>1, <1>2, SqlTypeFrame
     DEF aws, catalog, scanCache, HeldIsNow, ScanIsRecent, EntryIsRecent, DefaultStays
<1>4. SlotsTyped' /\ WaitingIsAsked'
  BY <1>1, <1>2 DEF SlotsTyped, WaitingIsAsked
<1>5. /\ \A u \in Slot \ {s} : job'[u] = job[u] /\ answer'[u] = answer[u] /\ rows'[u] = rows[u]
      /\ answer'[s] # "rows" /\ job'[s] = NoJob
  BY <1>1, <1>2 DEF SlotsTyped
<1>6. OtherAnswersAreRight'
  BY <1>1, <1>2, <1>5, AnswersAfter
<1> QED
  BY <1>3, <1>4, <1>5, <1>6, SqlTypeGroups DEF SqlIInv, Routed

\* Tables change between the handlers.
LEMMA ChangeTableKeeps ==
    ASSUME SqlIInv, NEW t \in Dyn, NEW c \in Contents, ChangeTable(t, c)
    PROVE  SqlIInv' /\ Routed
<1>1. /\ AwsTyped /\ CatalogTyped /\ CacheTyped /\ SlotsTyped
      /\ HeldIsNow /\ ScanIsRecent /\ EntryIsRecent /\ DefaultStays /\ WaitingIsAsked
  BY SqlTypeGroups DEF SqlIInv
<1>2. /\ UNCHANGED <<glue, catalog, scanCache, slots, known, knownAge, fetchAge, renewed>>
      /\ UNCHANGED <<scan, scanAge, job, answer, waited>> /\ LoopFree
      /\ changes < MaxChanges /\ changes' = changes + 1
      /\ table' = [table EXCEPT ![t] = c] /\ held' = [held EXCEPT ![t][c] = 0]
  BY DEF ChangeTable, catalog, scanCache, slots
<1>3. Ttl \in Nat \ {0} /\ MaxChanges \in Nat
  BY SqlBounds
<1>4. AwsTyped' /\ HeldIsNow' /\ ScanIsRecent'
  <2>1. AwsTyped'
    BY <1>1, <1>2, <1>3 DEF AwsTyped
  <2>2. \A u \in Dyn, d \in Contents :
            held'[u][d] = IF u = t /\ d = c THEN 0 ELSE held[u][d]
    BY <1>1, <1>2 DEF AwsTyped
  <2>3. \A u \in Dyn : table'[u] = IF u = t THEN c ELSE table[u]
    BY <1>1, <1>2 DEF AwsTyped
  <2>4. \A u \in Dyn : table[u] \in Contents /\ scan[u] \in Contents /\ scanAge[u] \in 0 .. Ttl
    BY <1>1 DEF AwsTyped, CacheTyped
  <2> QED
    BY <1>1, <1>2, <1>3, <2>1, <2>2, <2>3, <2>4 DEF HeldIsNow, ScanIsRecent
<1>5. CatalogTyped' /\ CacheTyped' /\ SlotsTyped'
  BY <1>1, <1>2, SqlTypeFrame
<1>6. EntryIsRecent' /\ DefaultStays' /\ WaitingIsAsked'
  BY <1>1, <1>2 DEF EntryIsRecent, DefaultStays, WaitingIsAsked
<1>7. OtherAnswersAreRight'
  BY <1>2 DEF LoopFree, OtherAnswersAreRight, AnswersRight
<1> QED
  BY <1>2, <1>4, <1>5, <1>6, <1>7, SqlTypeGroups DEF SqlIInv, Routed

\* So do databases, but for the default.
LEMMA ChangeDbKeeps ==
    ASSUME SqlIInv, NEW d \in Db \ {DefaultDb}, NEW g \in {"absent", "empty", "full"},
           ChangeDb(d, g)
    PROVE  SqlIInv' /\ Routed
<1>1. /\ AwsTyped /\ CatalogTyped /\ CacheTyped /\ SlotsTyped
      /\ HeldIsNow /\ ScanIsRecent /\ EntryIsRecent /\ DefaultStays /\ WaitingIsAsked
  BY SqlTypeGroups DEF SqlIInv
<1>2. /\ UNCHANGED <<table, held, catalog, scanCache, slots, known, knownAge, fetchAge, renewed>>
      /\ UNCHANGED <<scan, scanAge, job, answer, waited>> /\ LoopFree
      /\ changes < MaxChanges /\ changes' = changes + 1 /\ glue' = [glue EXCEPT ![d] = g]
  BY DEF ChangeDb, catalog, scanCache, slots
<1>3. MaxChanges \in Nat /\ DefaultDb \in Db
  BY SqlBounds
<1>4. AwsTyped' /\ DefaultStays'
  BY <1>1, <1>2, <1>3 DEF AwsTyped, DefaultStays
<1>5. CatalogTyped' /\ CacheTyped' /\ SlotsTyped'
  BY <1>1, <1>2, SqlTypeFrame
<1>6. HeldIsNow' /\ ScanIsRecent' /\ EntryIsRecent' /\ WaitingIsAsked'
  BY <1>1, <1>2 DEF HeldIsNow, ScanIsRecent, EntryIsRecent, WaitingIsAsked
<1>7. OtherAnswersAreRight'
  BY <1>2 DEF LoopFree, OtherAnswersAreRight, AnswersRight
<1> QED
  BY <1>2, <1>4, <1>5, <1>6, <1>7, SqlTypeGroups DEF SqlIInv, Routed

\* Time.
LEMMA TickKeeps ==
    ASSUME SqlIInv, Tick
    PROVE  SqlIInv' /\ Routed
<1>1. /\ AwsTyped /\ CatalogTyped /\ CacheTyped /\ SlotsTyped
      /\ HeldIsNow /\ ScanIsRecent /\ EntryIsRecent /\ DefaultStays /\ WaitingIsAsked
  BY SqlTypeGroups DEF SqlIInv
<1>2. Ttl \in Nat \ {0} /\ Patience \in Nat \ {0}
  BY SqlBounds
<1>3. /\ \A n \in 0 .. Ttl : Older(n) \in 0 .. Ttl
      /\ \A m, n \in 0 .. Ttl : m <= n => Older(m) <= Older(n)
  BY <1>2 DEF Older
<1>4. AwsTyped' /\ HeldIsNow' /\ CacheTyped' /\ ScanIsRecent' /\ DefaultStays'
  <2>1. /\ held' = [t \in Dyn |->
                       [c \in Contents |-> IF c = table[t] THEN 0 ELSE Older(held[t][c])]]
        /\ scanAge' = [t \in Dyn |-> Older(scanAge[t])]
        /\ UNCHANGED <<table, glue, changes, scan>>
    BY DEF Tick
  <2>2. /\ \A t \in Dyn : table[t] \in Contents /\ scan[t] \in Contents /\ scanAge[t] \in 0 .. Ttl
        /\ \A t \in Dyn, c \in Contents : held[t][c] \in 0 .. Ttl
    BY <1>1 DEF AwsTyped, CacheTyped
  <2>3. \A t \in Dyn, c \in Contents :
            held'[t][c] = IF c = table[t] THEN 0 ELSE Older(held[t][c])
    BY <2>1
  <2>4. \A t \in Dyn : scanAge'[t] = Older(scanAge[t]) /\ scanAge'[t] \in 0 .. Ttl
    BY <1>3, <2>1, <2>2
  <2>5. held' \in [Dyn -> [Contents -> 0 .. Ttl]]
    BY <1>2, <1>3, <2>1, <2>2
  <2>6. AwsTyped' /\ DefaultStays'
    BY <1>1, <2>1, <2>5 DEF AwsTyped, DefaultStays
  <2>7. HeldIsNow'
    BY <2>1, <2>2, <2>3 DEF HeldIsNow
  <2>8. CacheTyped'
    BY <1>1, <1>3, <2>1 DEF CacheTyped
  <2>9. ScanIsRecent'
    BY <1>1, <1>2, <1>3, <2>1, <2>2, <2>3, <2>4 DEF ScanIsRecent
  <2> QED
    BY <2>6, <2>7, <2>8, <2>9
<1>5. CatalogTyped' /\ EntryIsRecent'
  <2>1. /\ fetchAge' = Older(fetchAge) /\ knownAge' = [d \in Db |-> Older(knownAge[d])]
        /\ UNCHANGED <<known, renewed, broken>>
    BY DEF Tick
  <2>2. fetchAge \in 0 .. Ttl /\ \A d \in Db : knownAge[d] \in 0 .. Ttl
    BY <1>1 DEF CatalogTyped
  <2>3. CatalogTyped'
    BY <1>1, <1>3, <2>1, <2>2 DEF CatalogTyped
  <2>4. EntryIsRecent'
    BY <1>1, <1>3, <2>1, <2>2 DEF EntryIsRecent
  <2> QED
    BY <2>3, <2>4
<1>6. SlotsTyped' /\ WaitingIsAsked'
  <2>1. /\ waited' = [s \in Slot |-> IF waited[s] > 0 THEN waited[s] + 1 ELSE 0]
        /\ \A s \in Slot : waited[s] <= Patience
        /\ UNCHANGED <<job, answer, rows>>
    BY DEF Tick
  <2>2. waited' \in [Slot -> 0 .. Patience + 1]
    BY <1>1, <1>2, <2>1 DEF SlotsTyped
  <2> QED
    BY <1>1, <2>1, <2>2 DEF SlotsTyped, WaitingIsAsked
<1>7. OtherAnswersAreRight'
  BY DEF Tick, LoopFree, OtherAnswersAreRight, AnswersRight
<1>8. Routed
  BY DEF Tick, Routed
<1> QED
  BY <1>4, <1>5, <1>6, <1>7, <1>8, SqlTypeGroups DEF SqlIInv

-----------------------------------------------------------------------------
(* The invariant, and what follows. *)

\* It holds at first.
LEMMA SqlInitially == SqlInit => SqlIInv
<1> SUFFICES ASSUME SqlInit PROVE SqlIInv
  OBVIOUS
<1>1. Ttl \in Nat \ {0} /\ Patience \in Nat \ {0} /\ MaxChanges \in Nat /\ {} \in Contents
  BY SqlBounds
<1>2. AwsTyped /\ HeldIsNow /\ DefaultStays
  BY <1>1 DEF SqlInit, AwsTyped, HeldIsNow, DefaultStays
<1>3. CatalogTyped /\ EntryIsRecent
  <2>1. /\ known = [d \in Db |-> "unknown"] /\ fetchAge = Ttl /\ knownAge = [d \in Db |-> Ttl]
        /\ renewed = {} /\ broken = FALSE
    BY DEF SqlInit
  <2>2. known \in [Db -> {"unknown", "absent", "empty", "full"}]
    BY <2>1
  <2>3. fetchAge \in 0 .. Ttl /\ knownAge \in [Db -> 0 .. Ttl]
    BY <1>1, <2>1
  <2>4. CatalogTyped
    BY <2>1, <2>2, <2>3 DEF CatalogTyped
  <2> QED
    BY <2>1, <2>4 DEF EntryIsRecent
<1>4. CacheTyped /\ ScanIsRecent
  BY <1>1 DEF SqlInit, CacheTyped, ScanIsRecent
<1>5. SlotsTyped /\ WaitingIsAsked /\ OtherAnswersAreRight
  BY <1>1 DEF SqlInit, SlotsTyped, WaitingIsAsked, OtherAnswersAreRight, AnswersRight
<1> QED
  BY <1>2, <1>3, <1>4, <1>5, SqlTypeGroups DEF SqlIInv

\* Every step keeps it.
LEMMA SqlInductive == SqlIInv /\ [SqlNext]_sqlVars => SqlIInv' /\ [Routed]_sqlVars
<1> SUFFICES ASSUME SqlIInv, [SqlNext]_sqlVars PROVE SqlIInv' /\ [Routed]_sqlVars
  OBVIOUS
<1>1. CASE UNCHANGED sqlVars
  <2>1. /\ AwsTyped /\ CatalogTyped /\ CacheTyped /\ SlotsTyped
        /\ HeldIsNow /\ ScanIsRecent /\ EntryIsRecent /\ DefaultStays /\ WaitingIsAsked
    BY SqlTypeGroups DEF SqlIInv
  <2>2. UNCHANGED <<aws, catalog, scanCache, slots>>
    BY <1>1 DEF sqlVars
  <2>3. SqlTypeOK'
    BY <2>1, <2>2, SqlTypeFrame, SqlTypeGroups
  <2>4. HeldIsNow' /\ ScanIsRecent' /\ EntryIsRecent' /\ DefaultStays' /\ WaitingIsAsked'
    BY <2>1, <2>2
       DEF aws, catalog, scanCache, slots, HeldIsNow, ScanIsRecent, EntryIsRecent, DefaultStays,
           WaitingIsAsked
  <2>5. OtherAnswersAreRight'
    BY <2>2, AnswerKept DEF SqlIInv, aws, slots, OtherAnswersAreRight
  <2> QED
    BY <1>1, <2>3, <2>4, <2>5 DEF SqlIInv
<1>2. ASSUME NEW s \in Slot, NEW q \in Asked, Execute(s, q) PROVE SqlIInv' /\ Routed
  BY <1>2, ExecuteKeeps
<1>3. ASSUME NEW s \in Slot, AthenaAnswers(s) \/ GiveUp(s) \/ Leave(s) PROVE SqlIInv' /\ Routed
  BY <1>3, AthenaAnswersKeeps, GiveUpKeeps, LeaveKeeps
<1>4. ASSUME NEW t \in Dyn, NEW c \in Contents, ChangeTable(t, c) PROVE SqlIInv' /\ Routed
  BY <1>4, ChangeTableKeeps
<1>5. ASSUME NEW d \in Db \ {DefaultDb}, NEW g \in {"absent", "empty", "full"}, ChangeDb(d, g)
      PROVE SqlIInv' /\ Routed
  BY <1>5, ChangeDbKeeps
<1>6. CASE Tick
  BY <1>6, TickKeeps
<1> QED
  BY <1>1, <1>2, <1>3, <1>4, <1>5, <1>6 DEF SqlNext

\* The variables of SqlEngine keep their types: above all, what is cached of a table is a
\* whole table, and a wait for Athena is never longer than its limit.
THEOREM SqlTypeCorrect == SqlSpec => []SqlTypeOK
<1>1. SqlIInv => SqlTypeOK
  BY DEF SqlIInv
<1> QED
  BY <1>1, SqlInitially, SqlInductive, PTL DEF SqlSpec

\* However many statements are in flight, over whatever tables: each that is answered has
\* the rows it asks for from contents of the last 300 s, unless its LIMIT is lost or is
\* pushed into a request for items that does not do what LIMIT does.
THEOREM AnswersAreTrue == SqlSpec => []OtherAnswersAreRight
<1>1. SqlIInv => OtherAnswersAreRight
  BY DEF SqlIInv
<1> QED
  BY <1>1, SqlInitially, SqlInductive, PTL DEF SqlSpec

\* So the LIMITs are the only fault: where no statement has such a one, every answer is right
\* (README.md:144: "write standard SQL, engine chosen transparently").
THEOREM OnlyLimitsAreWrong ==
    ASSUME \A q \in Asked : ~LimitIsMisapplied(q)
    PROVE  SqlSpec => []AnswersAreRight
<1>1. SqlTypeOK /\ OtherAnswersAreRight => AnswersAreRight
  <2>1. ~LimitIsMisapplied(NoJob)
    BY DEF LimitIsMisapplied, NoJob
  <2>2. SqlTypeOK => \A s \in Slot : ~LimitIsMisapplied(job[s])
    BY <2>1 DEF SqlTypeOK
  <2> QED
    BY <2>2 DEF OtherAnswersAreRight, AnswersAreRight
<1> QED
  BY <1>1, SqlTypeCorrect, AnswersAreTrue, PTL

\* However many databases there are: a statement is routed by entries of the last 300 s,
\* unless Glue failed or the timestamp was renewed for another database.
THEOREM RoutingIsFresh == SqlSpec => CatalogIsFresh
<1>1. SqlIInv /\ [SqlNext]_sqlVars =>
        [\A s \in Slot : job[s] = NoJob /\ job'[s] # NoJob =>
            \A d \in job'[s].athena :
                known'[d] # "unknown" /\ ~broken' /\ d \notin renewed'
                => knownAge'[d] < Ttl]_sqlVars
  BY SqlInductive DEF Routed
<1> QED
  BY <1>1, SqlInitially, SqlInductive, PTL DEF SqlSpec, CatalogIsFresh
=============================================================================
