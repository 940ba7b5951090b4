------------------------------ MODULE Discovery ------------------------------
(***************************************************************************)
(* Entity discovery: the profile documents of the data sources.            *)
(*                                                                         *)
(* A run (the batch for global sources, the intel thread for local files)  *)
(* gives every entity to a bounded pool.  A task compares a cheap change   *)
(* signal with the stored one, samples the data, lets the model describe   *)
(* it, stores the document and records the signal it started from.  Runs   *)
(* of different processes or threads may overlap.                          *)
(*                                                                         *)
(* The content of an entity is a version number, and its change signal the *)
(* version it looks like: of an S3 object (ETag, LastModified) its own; of *)
(* a table or a local file (item counts, the first 100 objects; the        *)
(* rounded size and the row count the VM's catalog noted when files were   *)
(* last uploaded) it may be that of an earlier one.  Statistics, prompts   *)
(* and the text of a document are left out: a document is the entity and   *)
(* the version it describes.                                               *)
(***************************************************************************)
EXTENDS Naturals, FiniteSets

CONSTANTS
    Entity,
    Local,       \* local files: their signal comes with the enumeration
    Weak,        \* entities whose signal may not show a change
    Twins,       \* entities whose document names are the same after sanitizing
    Runs,        \* executions of the discovery
    Forced,      \* those of them with FORCE_REDISCOVER
    Workers,     \* size of a run's pool
    Viewed,      \* bound: the entities whose panel somebody opens
    MaxChanges   \* bound: changes of entities

ASSUME DiscoveryBounds == MaxChanges \in Nat
ASSUME LocalSignals == Local \subseteq Weak

VARIABLES
    version,     \* of each entity's data
    shown,       \* the version its signal looks like
    status, signal, located,  \* its row: status, change_signal, whether doc_s3_key is set
    docs,        \* the stored document of each name
    task,        \* of each run and entity: where it is
    seen, sample,\* its change signal, the version it sampled
    cache,       \* _load_entity_doc_json_cached: what the panel loaded for each name
    changes,     \* changes so far
    overlap      \* history: names that two tasks worked on at once

rowVars == <<status, signal, located>>
taskVars == <<task, seen, sample>>
dataVars == <<version, shown>>
vars == <<dataVars, rowVars, docs, taskVars, cache, changes, overlap>>

NoDoc == [of |-> "nothing", version |-> 0]
NoSignal == MaxChanges + 1  \* a row without a signal
Absent == [of |-> "absent", version |-> 0]
Signal(e) == shown[e]
\* _sanitize_source_id, or the basename of a local file.
Name(e) == IF e \in Twins THEN "twin" ELSE e
Names == {Name(e) : e \in Entity}
Doc == [of : Entity, version : 0 .. MaxChanges] \cup {NoDoc}

Init ==
    /\ version = [e \in Entity |-> 0] /\ shown = [e \in Entity |-> 0]
    /\ status = [e \in Entity |-> "none"]
    /\ signal = [e \in Entity |-> NoSignal]
    /\ located = {}
    /\ docs = [n \in Names |-> NoDoc]
    /\ task = [r \in Runs |-> [e \in Entity |-> "idle"]]
    /\ seen = [r \in Runs |-> [e \in Entity |-> 0]]
    /\ sample = [r \in Runs |-> [e \in Entity |-> 0]]
    /\ cache = [n \in Names |-> Absent]
    /\ changes = 0 /\ overlap = {}

Working == {"marking", "sampling", "saving", "recording", "failing"}
\* The locals of a task end with it.
Forget(r, es) ==
    /\ seen' = [seen EXCEPT ![r] = [e \in Entity |-> IF e \in es THEN 0 ELSE seen[r][e]]]
    /\ sample' = [sample EXCEPT ![r] = [e \in Entity |-> IF e \in es THEN 0 ELSE sample[r][e]]]
Goto(r, e, label) == task' = [task EXCEPT ![r][e] = label]
Upsert(e, st) == status' = [status EXCEPT ![e] = st]

-----------------------------------------------------------------------------
\* The VM's catalog does not notice that code writes a local file.
Change(e) ==
    /\ changes < MaxChanges
    /\ version' = [version EXCEPT ![e] = changes + 1] /\ changes' = changes + 1
    /\ \E v \in IF e \in Local THEN {shown[e]}
               ELSE IF e \in Weak THEN 0 .. changes + 1 ELSE {changes + 1} :
          shown' = [shown EXCEPT ![e] = v]
    /\ UNCHANGED <<rowVars, docs, taskVars, cache, overlap>>

\* It scans the files after an upload or a refresh.
Rescan(e) ==
    /\ e \in Local
    /\ \E v \in 0 .. version[e] : shown' = [shown EXCEPT ![e] = v]
    /\ UNCHANGED <<version, rowVars, docs, taskVars, cache, changes, overlap>>

\* Enumerate the entities and submit a task for each.
Start(r) ==
    /\ \A e \in Entity : task[r][e] = "idle"
    /\ task' = [task EXCEPT ![r] = [e \in Entity |-> "queued"]]
    /\ seen' = [seen EXCEPT ![r] = [e \in Entity |-> IF e \in Local THEN Signal(e) ELSE 0]]
    /\ UNCHANGED <<dataVars, rowVars, docs, sample, cache, changes, overlap>>

\* The row is ready and its signal the one given: nothing to do.
Current(e, now) == status[e] = "ready" /\ signal[e] = now

Decide(r, e) ==
    LET now == IF e \in Local THEN seen[r][e] ELSE Signal(e)
        skip == r \notin Forced /\ Current(e, now)
    IN  /\ Cardinality({x \in Entity : task[r][x] \in Working}) < Workers
        /\ seen' = [seen EXCEPT ![r][e] = IF skip THEN 0 ELSE now]
        /\ overlap' = overlap \cup {Name(x) : x \in {x \in Entity : Name(x) = Name(e)
                         /\ \E s \in Runs : <<s, x>> # <<r, e>> /\ task[s][x] \in Working}}
        /\ Goto(r, e, IF skip THEN "over" ELSE "marking")

\* Bug: the decision is written into the row.
CheckWrites(r, e) ==
    /\ task[r][e] = "queued" /\ Decide(r, e)
    /\ status' = [status EXCEPT ![e] = IF task'[r][e] = "over" THEN "skipped_unchanged" ELSE @]
    /\ UNCHANGED <<dataVars, signal, located, docs, sample, cache, changes>>

\* A worker takes the task and compares signals; any exception ends in "error".
Check(r, e) ==
    /\ task[r][e] = "queued" /\ Decide(r, e)
    /\ UNCHANGED <<dataVars, rowVars, docs, sample, cache, changes>>

\* The upsert keeps the signal and the document of the row.
Mark(r, e) ==
    /\ task[r][e] = "marking"
    /\ Upsert(e, "discovering") /\ Goto(r, e, "sampling")
    /\ UNCHANGED <<dataVars, signal, located, docs, seen, sample, cache, changes, overlap>>

Sample(r, e) ==
    /\ task[r][e] = "sampling"
    /\ sample' = [sample EXCEPT ![r][e] = version[e]]
    /\ Goto(r, e, "saving")
    /\ UNCHANGED <<dataVars, rowVars, docs, seen, cache, changes, overlap>>

SaveDoc(r, e) ==
    /\ task[r][e] = "saving"
    /\ docs' = [docs EXCEPT ![Name(e)] = [of |-> e, version |-> sample[r][e]]]
    /\ Goto(r, e, "recording")
    /\ UNCHANGED <<dataVars, rowVars, seen, sample, cache, changes, overlap>>

\* Bug: the signal is taken when the work is done.
RecordLate(r, e) ==
    /\ task[r][e] = "recording"
    /\ Upsert(e, "ready") /\ signal' = [signal EXCEPT ![e] = Signal(e)]
    /\ located' = located \cup {e}
    /\ Goto(r, e, "over")
    /\ Forget(r, {e})
    /\ UNCHANGED <<dataVars, docs, cache, changes, overlap>>

Record(r, e) ==
    /\ task[r][e] = "recording"
    /\ Upsert(e, "ready") /\ signal' = [signal EXCEPT ![e] = seen[r][e]]
    /\ located' = located \cup {e}
    /\ Goto(r, e, "over")
    /\ Forget(r, {e})
    /\ UNCHANGED <<dataVars, docs, cache, changes, overlap>>

\* Anything raises; a second step, the handler's upsert, may raise too.
Raise(r, e) ==
    /\ task[r][e] \in Working \ {"failing"}
    /\ Goto(r, e, "failing")
    /\ Forget(r, {e})
    /\ UNCHANGED <<dataVars, rowVars, docs, cache, changes, overlap>>

Fail(r, e) ==
    /\ task[r][e] = "failing"
    /\ Upsert(e, "error") \/ UNCHANGED status
    /\ Goto(r, e, "over")
    /\ UNCHANGED <<dataVars, signal, located, docs, seen, sample, cache, changes, overlap>>

\* The process of a run ends in the middle.
Die(r) ==
    /\ \E e \in Entity : task[r][e] \in Working \cup {"queued"}
    /\ task' = [task EXCEPT ![r] = [e \in Entity |-> "over"]]
    /\ Forget(r, Entity)
    /\ UNCHANGED <<dataVars, rowVars, docs, cache, changes, overlap>>

\* Bug: a row is enough.
ReadyRow(e) == status[e] # "none"
Ready(e) == status[e] = "ready" /\ e \in located

\* Opening the data panel.  The cache keeps a failed load as well as a document.
Panel(e) ==
    /\ e \in Viewed /\ Ready(e) /\ cache[Name(e)] = Absent
    /\ \/ cache' = [cache EXCEPT ![Name(e)] = docs[Name(e)]]
       \/ cache' = [cache EXCEPT ![Name(e)] = NoDoc]
    /\ UNCHANGED <<dataVars, rowVars, docs, taskVars, changes, overlap>>

Task(r, e) == Check(r, e) \/ Mark(r, e) \/ Sample(r, e) \/ SaveDoc(r, e) \/ Record(r, e)
              \/ Raise(r, e) \/ Fail(r, e)

Next ==
    \/ \E e \in Entity : Change(e) \/ Rescan(e) \/ Panel(e)
    \/ \E r \in Runs : Start(r) \/ Die(r)
    \/ \E r \in Runs, e \in Entity : Task(r, e)

Spec == Init /\ [][Next]_vars

-----------------------------------------------------------------------------
TypeOK ==
    /\ version \in [Entity -> 0 .. MaxChanges] /\ shown \in [Entity -> 0 .. MaxChanges]
    /\ status \in [Entity -> {"none", "discovering", "ready", "error"}]
    /\ signal \in [Entity -> 0 .. NoSignal]
    /\ located \subseteq Entity
    /\ docs \in [Names -> Doc]
    /\ task \in [Runs -> [Entity -> Working \cup {"idle", "queued", "over"}]]
    /\ seen \in [Runs -> [Entity -> 0 .. MaxChanges]]
    /\ sample \in [Runs -> [Entity -> 0 .. MaxChanges]]
    /\ cache \in [Names -> Doc \cup {Absent}]
    /\ changes \in 0 .. MaxChanges
    /\ overlap \subseteq Names

Sole(e) == \A x \in Entity \ {e} : Name(x) # Name(e)

\* What the next run would skip needs no new profile: the stored document of an S3 object
\* describes it as it is.  Holds through failures, crashes and data that changes
\* between the signal and the sample, because the signal is read first; not for weak
\* signals, for entities that share a document name, or after overlapping runs.
SkippedIsCurrent ==
    \A e \in Entity \ Weak :
        Ready(e) /\ signal[e] = Signal(e) /\ Sole(e) /\ Name(e) \notin overlap
            => docs[Name(e)] = [of |-> e, version |-> version[e]]

\* What is handed out as the profile of an entity (get_entity_doc_markdown) is a
\* profile of it and, without overlap, of no older version than the signal of its row
\* shows, weak as it may be: a table or a local file, too, is described at least as it
\* was when its signal last changed.
ServedIsOwn ==
    \A e \in Entity : Ready(e) /\ Sole(e) =>
        /\ docs[Name(e)].of = e
        /\ Name(e) \notin overlap => docs[Name(e)].version >= signal[e]

\* sessions.py:337: entity documents change rarely, so the panel keeps the first it
\* loads.  It never loads them again: after a run stored a document again, or a load
\* failed once, the panel and the full profile of the source differ for good.
PanelAgrees == \A n \in Names : cache[n] # Absent => cache[n] = docs[n]
==============================================================================
