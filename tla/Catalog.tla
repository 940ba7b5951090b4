------------------------------- MODULE Catalog -------------------------------
(***************************************************************************)
(* The data catalog of a session, from VM to VM.                           *)
(*                                                                         *)
(* A VM that is launched is told which sources there are, and a thread of  *)
(* its own finds their schemas; an upload starts another thread that looks *)
(* at the local files again.  A save stores the catalog and a restore      *)
(* brings it back.  A VM launched for a rotation is told of no source: it  *)
(* knows what the restore gives it.                                        *)
(*                                                                         *)
(* The state is that of the VM that serves.  What a VM has is lost with    *)
(* it, but its last save may come late: when it ends, minutes or hours     *)
(* after another VM took over, with what it had then.                      *)
(* Left out: columns and rows of a schema (a version stands for them), the *)
(* order in which the thread takes the sources, and what else a checkpoint *)
(* holds (see Checkpoint).                                                 *)
(***************************************************************************)
EXTENDS Naturals, FiniteSets

CONSTANTS
    Remote,      \* objects of S3, tables of DynamoDB and of Athena
    File,        \* files under /tmp
    MaxUploads,  \* bound
    MaxVms       \* bound: VMs of the session

\* A file is known by its path under /tmp, an object or a table by its address.
ASSUME CatalogAssumption == MaxUploads \in Nat /\ MaxVms \in Nat /\ Remote \cap File = {}

Source == Remote \cup File
Unknown == <<"none", 0>>
Pending == <<"pending", 0>>
Erroneous == <<"error", 0>>
Found(n) == <<"discovered", n>>
Entry == {Unknown, Pending, Erroneous} \cup {Found(n) : n \in 0..MaxUploads}

VARIABLES
    served,    \* number of the VM that serves the session, 0 if there is none
    launched,  \* VMs so far
    disk,      \* version of each file; 0 if there is none
    entry,     \* DataCatalog._entries
    complete,  \* DataCatalog._discovery_complete
    thread,    \* discovery thread: "none", "files" or "sources"
    todo,      \* sources it has not visited
    scans,     \* threads that look at local files: whether it is the discovery thread,
               \* the files not visited yet, the file it looks at and the version it read
    stored,    \* objects in S3: the catalog, and whether it is there, and the files
    listed,    \* sources that the last launch of the session named
    rotating,  \* between the save and the swap of a rotation
    late,      \* VMs that no longer serve and may yet save: what they have
    kept,      \* history: the stored catalog is a complete one of the last launch
    stale,     \* history: a rotation restored another one on the VM that serves
    uploads

vmVars == <<disk, entry, complete, thread, todo, scans>>
history == <<kept, stale>>
vars == <<served, launched, vmVars, stored, listed, rotating, late, history, uploads>>
session == <<served, launched, stored, listed, rotating, late, history>>

NoEntries == [x \in Source |-> Unknown]
NoFiles == [f \in File |-> 0]
Scan(main) == [main |-> main, left |-> File, at |-> {}, read |-> 0]

Init ==
    /\ served = 0 /\ launched = 0
    /\ disk = NoFiles /\ entry = NoEntries /\ complete = FALSE
    /\ thread = "none" /\ todo = {} /\ scans = {}
    /\ stored = [present |-> FALSE, entry |-> NoEntries, disk |-> NoFiles]
    /\ listed = {} /\ rotating = FALSE /\ uploads = 0
    /\ late = {} /\ kept = FALSE /\ stale = FALSE

\* What a VM has to save, and whether that is of the last launch.
Vm == [entry |-> entry, disk |-> disk, complete |-> complete, own |-> ~stale]

\* Bug: the catalog is saved as far as it is known.
SaveUnguarded(v) ==
    /\ stored' = [present |-> TRUE, entry |-> v.entry,
                  disk    |-> IF v.disk = NoFiles THEN stored.disk ELSE v.disk]
    /\ kept' = v.own

\* save(): the files if there are any, and the catalog once discovery is complete.
Save(v) ==
    /\ stored' = [present |-> stored.present \/ v.complete,
                  entry   |-> IF v.complete THEN v.entry ELSE stored.entry,
                  disk    |-> IF v.disk = NoFiles THEN stored.disk ELSE v.disk]
    /\ kept' = IF v.complete THEN v.own ELSE kept

\* restore() of the catalog on a VM without entries, if its object is there and is read.
Restored(read) == IF read /\ stored.present THEN stored.entry ELSE NoEntries
\* Bug: the flag is set whatever was read.
RestoreCompletesAlways(read) == TRUE

RestoreCompletes(read) == Restored(read) # NoEntries

\* What the proxy could list when it launches; a provider that fails lists nothing.
Listings == SUBSET Remote

\* start_discovery: everything in the payload is pending, whatever a restore knew of it.
Registered(known, payload) == [x \in Source |-> IF x \in payload THEN Pending ELSE known[x]]

\* Bug: start_discovery leaves the flag that a restore set.
LaunchKeepsFlag(payload, restores, read) ==
    /\ served = 0 /\ launched < MaxVms
    /\ launched' = launched + 1 /\ served' = launched'
    /\ disk' = IF restores THEN stored.disk ELSE NoFiles
    /\ entry' = Registered(IF restores THEN Restored(read) ELSE NoEntries, payload)
    /\ complete' = (restores /\ RestoreCompletes(read))
    /\ thread' = "files" /\ todo' = payload /\ scans' = {Scan(TRUE)}
    /\ listed' = payload /\ late' = {[v EXCEPT !.own = FALSE] : v \in late}
    /\ kept' = FALSE /\ stale' = FALSE
    /\ UNCHANGED <<stored, rotating, uploads>>

\* POST /launch and the hook /run: restore, then discover what the proxy could list.
Launch(payload, restores, read) ==
    /\ served = 0 /\ launched < MaxVms
    /\ launched' = launched + 1 /\ served' = launched'
    /\ disk' = IF restores THEN stored.disk ELSE NoFiles
    /\ entry' = Registered(IF restores THEN Restored(read) ELSE NoEntries, payload)
    /\ complete' = FALSE
    /\ thread' = "files" /\ todo' = payload /\ scans' = {Scan(TRUE)}
    /\ listed' = payload /\ late' = {[v EXCEPT !.own = FALSE] : v \in late}
    /\ kept' = FALSE /\ stale' = FALSE
    /\ UNCHANGED <<stored, rotating, uploads>>

-----------------------------------------------------------------------------
\* Threads of the VM.  A thread reads a file, and enters what it read later.
Replace(s, t) == scans' = (scans \ {s}) \cup {t}

ScanRead(s, f) ==
    /\ s.at = {} /\ f \in s.left /\ disk[f] > 0
    /\ Replace(s, [s EXCEPT !.left = @ \ {f}, !.at = {f}, !.read = disk[f]])
    /\ UNCHANGED <<session, disk, entry, complete, thread, todo, uploads>>

\* A file that is not there, or that the catalog cannot read, is passed over.
ScanSkip(s, f) ==
    /\ s.at = {} /\ f \in s.left
    /\ Replace(s, [s EXCEPT !.left = @ \ {f}])
    /\ UNCHANGED <<session, disk, entry, complete, thread, todo, uploads>>

ScanWrite(s) ==
    /\ s.at # {}
    /\ entry' = [x \in Source |-> IF x \in s.at THEN Found(s.read) ELSE entry[x]]
    /\ Replace(s, [s EXCEPT !.at = {}, !.read = 0])
    /\ UNCHANGED <<session, disk, complete, thread, todo, uploads>>

ScanEnd(s) ==
    /\ s.at = {} /\ s.left = {}
    /\ scans' = scans \ {s}
    /\ thread' = IF s.main THEN "sources" ELSE thread
    /\ UNCHANGED <<session, disk, entry, complete, todo, uploads>>

\* One source: its schema, or the error.
Discover(x, result) ==
    /\ thread = "sources" /\ x \in todo
    /\ todo' = todo \ {x} /\ entry' = [entry EXCEPT ![x] = result]
    /\ UNCHANGED <<session, disk, complete, thread, scans, uploads>>

Finish ==
    /\ thread = "sources" /\ todo = {}
    /\ thread' = "none" /\ complete' = TRUE
    /\ UNCHANGED <<session, disk, entry, todo, scans, uploads>>

-----------------------------------------------------------------------------
\* POST /upload: if pandas loads the file, the local files are looked at again.
Upload(f, loads) ==
    /\ served # 0 /\ ~rotating /\ uploads < MaxUploads
    /\ uploads' = uploads + 1 /\ disk' = [disk EXCEPT ![f] = uploads']
    /\ scans' = IF loads THEN scans \cup {Scan(FALSE)} ELSE scans
    /\ UNCHANGED <<session, entry, complete, thread, todo>>

\* Code of a cell removes a file; the catalog keeps its entry.
Remove(f) ==
    /\ served # 0 /\ ~rotating /\ disk[f] > 0
    /\ disk' = [disk EXCEPT ![f] = 0]
    /\ UNCHANGED <<session, entry, complete, thread, todo, scans, uploads>>

-----------------------------------------------------------------------------
\* The VM's threads end with it.
ThreadsEnd == thread' = "none" /\ todo' = {} /\ scans' = {}

\* VM1 saves; if it does not, or its answer is lost, that does not end the rotation: the
\* rotator goes on with whatever is stored if VM2 is alive.
RotateSave ==
    /\ served # 0 /\ ~rotating /\ launched < MaxVms
    /\ rotating' = TRUE
    /\ Save(Vm) \/ UNCHANGED <<stored, kept>>
    /\ UNCHANGED <<served, launched, vmVars, listed, late, stale, uploads>>

\* A bare VM is launched, restored and swapped in; a catalog that is not read is logged.
\* The hook of the other may save later, if the mode of that VM has it save.
RotateSwap(read, saves) ==
    /\ rotating /\ rotating' = FALSE
    /\ launched' = launched + 1 /\ served' = launched'
    /\ disk' = stored.disk
    /\ entry' = Restored(read) /\ complete' = RestoreCompletes(read)
    /\ ThreadsEnd
    /\ late' = IF saves THEN late \cup {Vm} ELSE late
    /\ stale' = ~kept
    /\ UNCHANGED <<stored, kept, listed, uploads>>

\* VM1 goes on; nobody ends a VM2 that was launched, and perhaps restored.
RotateFails(read, lives) ==
    /\ rotating /\ rotating' = FALSE
    /\ launched' = IF lives THEN launched + 1 ELSE launched
    /\ late' = IF lives THEN late \cup {[entry |-> Restored(read), disk |-> stored.disk,
                                        complete |-> RestoreCompletes(read), own |-> kept]}
               ELSE late
    /\ UNCHANGED <<served, vmVars, stored, history, listed, uploads>>

\* The VM ends; its hook saves, sooner or later, or not.
Stop(saves) ==
    /\ served # 0 /\ served' = 0 /\ rotating' = FALSE
    /\ late' = IF saves THEN late \cup {Vm} ELSE late
    /\ disk' = NoFiles /\ entry' = NoEntries /\ complete' = FALSE
    /\ ThreadsEnd /\ listed' = {} /\ stale' = FALSE
    /\ UNCHANGED <<stored, kept, launched, uploads>>

HookSaves(v) ==
    /\ Save(v) /\ late' = late \ {v}
    /\ UNCHANGED <<served, launched, vmVars, listed, rotating, stale, uploads>>

Thread ==
    \/ \E s \in scans :
          \/ ScanWrite(s) \/ ScanEnd(s)
          \/ \E f \in File : ScanRead(s, f) \/ ScanSkip(s, f)
    \/ \E x \in Remote, result \in {Found(0), Erroneous} : Discover(x, result)
    \/ Finish

Next ==
    \/ \E payload \in Listings, restores, read \in BOOLEAN : Launch(payload, restores, read)
    \/ Thread
    \/ \E f \in File : Remove(f) \/ \E loads \in BOOLEAN : Upload(f, loads)
    \/ RotateSave
    \/ \E read, more \in BOOLEAN : RotateSwap(read, more) \/ RotateFails(read, more)
    \/ \E saves \in BOOLEAN : Stop(saves)
    \/ \E v \in late : HookSaves(v)

\* The threads of a VM that runs get to run.
Spec == Init /\ [][Next]_vars /\ WF_vars(Thread)

-----------------------------------------------------------------------------
\* Besides the types: threads run in the VM that serves, and while its discovery thread
\* runs it does not say that discovery is complete.
TypeOK ==
    /\ launched \in 0..MaxVms /\ served \in 0..launched
    /\ disk \in [File -> 0..MaxUploads] /\ entry \in [Source -> Entry] /\ complete \in BOOLEAN
    /\ thread \in {"none", "files", "sources"} /\ todo \subseteq Remote
    /\ thread # "none" => ~complete
    /\ served = 0 => entry = NoEntries /\ thread = "none" /\ scans = {}
    /\ stored.entry \in [Source -> Entry] /\ stored.disk \in [File -> 0..MaxUploads]
    /\ listed \subseteq Remote /\ rotating \in BOOLEAN
    /\ late \subseteq [entry : [Source -> Entry], disk : [File -> 0..MaxUploads],
                       complete : BOOLEAN, own : BOOLEAN]
    /\ kept \in BOOLEAN /\ stale \in BOOLEAN
    /\ uploads \in 0..MaxUploads

\* A VM that says discovery is complete has a schema, or an error, for every source that
\* the launch of the session named, in however many VMs the session was since.  A rotation
\* breaks this if what it restored was not a complete catalog of this launch: if it came
\* before discovery was complete or a save failed, or if a VM of an earlier launch saved
\* last.  Then the VM has an older catalog, says it is complete, and nothing discovers the
\* rest.
CompleteIsWhole ==
    complete /\ ~stale => \A x \in listed : entry[x] \in {Found(0), Erroneous}

\* No entry of a VM that serves stays pending: a catalog is stored when nothing in it is
\* pending, for in a VM of a rotation no thread would discover it.
NothingStaysPending ==
    \A v \in 1..MaxVms, x \in Remote :
        served = v /\ entry[x] = Pending ~> served # v \/ entry[x] # Pending
=============================================================================
