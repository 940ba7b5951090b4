--------------------------- MODULE DiscoveryProofs ---------------------------
(***************************************************************************)
(* That a profile document can be trusted, for any entities, runs, pools   *)
(* and changes: what is served is a profile of that entity, and what the   *)
(* next run skips (S3 objects, whose signal is their content's) is         *)
(* described as it is.  The exceptions are the ones the properties name:   *)
(* weak signals, shared document names, overlapping runs.                  *)
(***************************************************************************)
EXTENDS Discovery, TLAPS

-----------------------------------------------------------------------------
(* The inductive invariant, in named parts. *)

\* Versions are numbered in the order of the changes.
VersionsAreChanges == \A e \in Entity : version[e] <= changes

\* A signal is that of some version so far, a strong one that of the present.
ShownIsPast ==
    \A e \in Entity : shown[e] <= version[e] /\ (e \notin Weak => shown[e] = version[e])

\* What a task knows is not newer than the data, and what it sampled not older
\* than its signal: the signal is read first.
SignalFirst ==
    \A r \in Runs, e \in Entity :
        /\ seen[r][e] <= version[e] /\ sample[r][e] <= version[e]
        /\ task[r][e] \in {"saving", "recording"} => seen[r][e] <= sample[r][e]

\* No document describes data that is still to come.
DocIsPast ==
    \A n \in Names, e \in Entity : docs[n].of = e => docs[n].version <= version[e]

\* Without overlap one task works on an entity.
OneWorker ==
    \A e \in Entity : Name(e) \notin overlap =>
        \A r, s \in Runs : task[r][e] \in Working /\ task[s][e] \in Working => r = s

\* From the mark to the record the row is not ready.
UnreadyWhileWorking ==
    \A e \in Entity, r \in Runs :
        Name(e) \notin overlap /\ task[r][e] \in {"sampling", "saving", "recording"}
            => status[e] # "ready"

\* The document is stored before the row says so; without overlap it is still what
\* the task stored.
StoredFirst ==
    \A e \in Entity : Sole(e) =>
        /\ e \in located => docs[Name(e)].of = e
        /\ \A r \in Runs : task[r][e] = "recording" =>
              /\ docs[Name(e)].of = e
              /\ Name(e) \notin overlap => docs[Name(e)].version = sample[r][e]

IInv == TypeOK /\ VersionsAreChanges /\ ShownIsPast /\ SignalFirst /\ DocIsPast /\ OneWorker
        /\ UnreadyWhileWorking /\ StoredFirst /\ ServedIsOwn

-----------------------------------------------------------------------------
(* Tables of runs and entities. *)

\* An entry of a table is written, and nothing else.
LEMMA Entry ==
    ASSUME NEW S, NEW h \in [Runs -> [Entity -> S]], NEW r \in Runs, NEW e \in Entity,
           NEW x \in S
    PROVE  /\ [h EXCEPT ![r][e] = x] \in [Runs -> [Entity -> S]]
           /\ [h EXCEPT ![r][e] = x][r][e] = x
           /\ \A s \in Runs, d \in Entity :
                 s # r \/ d # e => [h EXCEPT ![r][e] = x][s][d] = h[s][d]
<1>1. [h EXCEPT ![r][e] = x] = [h EXCEPT ![r] = [h[r] EXCEPT ![e] = x]]
  OBVIOUS
<1>2. [h[r] EXCEPT ![e] = x] \in [Entity -> S]
  OBVIOUS
<1> QED
  BY <1>1, <1>2

Place == Working \cup {"idle", "queued", "over"}

\* A task goes on, the others stay where they are.
LEMMA GotoAt ==
    ASSUME TypeOK, NEW r \in Runs, NEW e \in Entity, NEW label \in Place, Goto(r, e, label)
    PROVE  /\ task' \in [Runs -> [Entity -> Place]]
           /\ task'[r][e] = label
           /\ \A s \in Runs, d \in Entity : s # r \/ d # e => task'[s][d] = task[s][d]
<1>1. task \in [Runs -> [Entity -> Place]]
  BY DEF TypeOK, Place
<1> QED
  BY <1>1, Entry DEF Goto

\* A task's locals are forgotten, or they are what they were.
LEMMA ForgetAt ==
    ASSUME TypeOK, NEW r \in Runs, NEW es \in SUBSET Entity, Forget(r, es)
    PROVE  /\ seen' \in [Runs -> [Entity -> 0 .. MaxChanges]]
           /\ sample' \in [Runs -> [Entity -> 0 .. MaxChanges]]
           /\ \A s \in Runs, d \in Entity :
                 /\ seen'[s][d] = IF s = r /\ d \in es THEN 0 ELSE seen[s][d]
                 /\ sample'[s][d] = IF s = r /\ d \in es THEN 0 ELSE sample[s][d]
<1>1. /\ [e \in Entity |-> IF e \in es THEN 0 ELSE seen[r][e]] \in [Entity -> 0 .. MaxChanges]
      /\ [e \in Entity |-> IF e \in es THEN 0 ELSE sample[r][e]] \in [Entity -> 0 .. MaxChanges]
  BY DiscoveryBounds DEF TypeOK
<1>2. /\ seen \in [Runs -> [Entity -> 0 .. MaxChanges]]
      /\ sample \in [Runs -> [Entity -> 0 .. MaxChanges]]
  BY DEF TypeOK
<1> QED
  BY <1>1, <1>2 DEF Forget

LEMMA Signals ==
    ASSUME TypeOK, NEW e \in Entity
    PROVE  /\ Signal(e) \in 0 .. MaxChanges
           /\ ShownIsPast => Signal(e) <= version[e]
           /\ ShownIsPast /\ e \notin Weak => Signal(e) = version[e]
  BY DEF TypeOK, Signal, ShownIsPast

\* The names of the documents.
LEMMA NamesOf == ASSUME NEW e \in Entity PROVE Name(e) \in Names
  BY DEF Names

-----------------------------------------------------------------------------
(* Types. *)

\* What a worker decides, in the terms of the proof.
LEMMA Decided ==
    ASSUME TypeOK, NEW r \in Runs, NEW e \in Entity, Decide(r, e)
    PROVE  /\ Goto(r, e, "over") \/ Goto(r, e, "marking")
           /\ seen' \in [Runs -> [Entity -> 0 .. MaxChanges]]
           /\ \A s \in Runs, d \in Entity : s # r \/ d # e => seen'[s][d] = seen[s][d]
           /\ seen'[r][e] \in {0, seen[r][e], Signal(e)}
           /\ overlap \subseteq overlap' /\ overlap' \subseteq Names
           /\ \A x \in Entity, s \in Runs :
                 Name(x) = Name(e) /\ <<s, x>> # <<r, e>> /\ task[s][x] \in Working
                     => Name(e) \in overlap'
<1> DEFINE now == IF e \in Local THEN seen[r][e] ELSE Signal(e)
           skip == r \notin Forced /\ Current(e, now)
           next == IF skip THEN 0 ELSE now
<1>1. now \in {seen[r][e], Signal(e)} /\ now \in 0 .. MaxChanges
  BY Signals DEF TypeOK
<1>2. next \in {0, seen[r][e], Signal(e)} /\ next \in 0 .. MaxChanges
  BY <1>1, DiscoveryBounds
<1>3. seen' = [seen EXCEPT ![r][e] = next]
  BY DEF Decide
<1>4. Goto(r, e, IF skip THEN "over" ELSE "marking")
  BY DEF Decide
<1>5. overlap' = overlap \cup {Name(x) : x \in {x \in Entity : Name(x) = Name(e)
                     /\ \E s \in Runs : <<s, x>> # <<r, e>> /\ task[s][x] \in Working}}
  BY DEF Decide
<1>6. seen \in [Runs -> [Entity -> 0 .. MaxChanges]]
  BY DEF TypeOK
<1> HIDE DEF now, skip, next
<1>7. /\ seen' \in [Runs -> [Entity -> 0 .. MaxChanges]]
      /\ seen'[r][e] = next
      /\ \A s \in Runs, d \in Entity : s # r \/ d # e => seen'[s][d] = seen[s][d]
  BY <1>2, <1>3, <1>6, Entry
<1>8. Goto(r, e, "over") \/ Goto(r, e, "marking")
  BY <1>4
<1>9. overlap' \subseteq Names
  BY <1>5, NamesOf DEF TypeOK
<1>10. overlap \subseteq overlap'
  BY <1>5
<1>11. \A x \in Entity, s \in Runs :
          Name(x) = Name(e) /\ <<s, x>> # <<r, e>> /\ task[s][x] \in Working
              => Name(e) \in overlap'
  BY <1>5
<1> QED
  BY <1>2, <1>7, <1>8, <1>9, <1>10, <1>11

\* Every step keeps the types.
LEMMA TypeStep == TypeOK /\ [Next]_vars => TypeOK'
<1> SUFFICES ASSUME TypeOK, [Next]_vars PROVE TypeOK'
  OBVIOUS
<1>1. ASSUME NEW e \in Entity, Change(e) PROVE TypeOK'
  <2>1. changes + 1 \in 0 .. MaxChanges
    BY <1>1, DiscoveryBounds DEF Change, TypeOK
  <2>2. version' \in [Entity -> 0 .. MaxChanges] /\ changes' \in 0 .. MaxChanges
    BY <1>1, <2>1 DEF Change, TypeOK
  <2> DEFINE looks == IF e \in Local THEN {shown[e]}
                      ELSE IF e \in Weak THEN 0 .. changes + 1 ELSE {changes + 1}
  <2>3. PICK v \in looks : shown' = [shown EXCEPT ![e] = v]
    BY <1>1 DEF Change
  <2>4. v \in 0 .. MaxChanges
    BY <2>1, DiscoveryBounds DEF TypeOK
  <2>5. shown' \in [Entity -> 0 .. MaxChanges]
    BY <2>3, <2>4 DEF TypeOK
  <2> QED
    BY <1>1, <2>2, <2>5 DEF Change, TypeOK, rowVars, taskVars
<1>2. ASSUME NEW e \in Entity, Panel(e) PROVE TypeOK'
  BY <1>2, NamesOf DEF Panel, TypeOK, Doc, Absent, rowVars, dataVars, taskVars
<1>3. ASSUME NEW r \in Runs, Start(r) PROVE TypeOK'
  <2>1. task' \in [Runs -> [Entity -> Place]]
    BY <1>3 DEF Start, TypeOK, Place
  <2>2. [e \in Entity |-> IF e \in Local THEN Signal(e) ELSE 0] \in [Entity -> 0 .. MaxChanges]
    BY Signals, DiscoveryBounds
  <2>3. seen' \in [Runs -> [Entity -> 0 .. MaxChanges]]
    BY <1>3, <2>2 DEF Start, TypeOK
  <2> QED
    BY <1>3, <2>1, <2>3 DEF Start, TypeOK, Place, rowVars, dataVars
<1>4. ASSUME NEW r \in Runs, Die(r) PROVE TypeOK'
  <2>1. task' \in [Runs -> [Entity -> Place]]
    BY <1>4 DEF Die, TypeOK, Place
  <2>2. /\ seen' \in [Runs -> [Entity -> 0 .. MaxChanges]]
        /\ sample' \in [Runs -> [Entity -> 0 .. MaxChanges]]
    BY <1>4, ForgetAt DEF Die
  <2> QED
    BY <1>4, <2>1, <2>2 DEF Die, TypeOK, Place, rowVars, dataVars
<1>5. ASSUME NEW r \in Runs, NEW e \in Entity, Check(r, e) PROVE TypeOK'
  <2>1. task' \in [Runs -> [Entity -> Place]]
    BY <1>5, Decided, GotoAt DEF Check, Place, Working
  <2>2. /\ seen' \in [Runs -> [Entity -> 0 .. MaxChanges]]
        /\ overlap' \subseteq Names
    BY <1>5, Decided DEF Check
  <2> QED
    BY <1>5, <2>1, <2>2 DEF Check, TypeOK, Place, rowVars, dataVars
<1>6. ASSUME NEW r \in Runs, NEW e \in Entity, Mark(r, e) PROVE TypeOK'
  <2>1. task' \in [Runs -> [Entity -> Place]]
    BY <1>6, GotoAt DEF Mark, Place, Working
  <2> QED
    BY <1>6, <2>1 DEF Mark, Upsert, TypeOK, Place, dataVars
<1>7. ASSUME NEW r \in Runs, NEW e \in Entity, Sample(r, e) PROVE TypeOK'
  <2>1. task' \in [Runs -> [Entity -> Place]]
    BY <1>7, GotoAt DEF Sample, Place, Working
  <2>2. sample' \in [Runs -> [Entity -> 0 .. MaxChanges]]
    BY <1>7, Entry DEF Sample, TypeOK
  <2> QED
    BY <1>7, <2>1, <2>2 DEF Sample, TypeOK, Place, rowVars, dataVars
<1>8. ASSUME NEW r \in Runs, NEW e \in Entity, SaveDoc(r, e) PROVE TypeOK'
  <2>1. task' \in [Runs -> [Entity -> Place]]
    BY <1>8, GotoAt DEF SaveDoc, Place, Working
  <2>2. [of |-> e, version |-> sample[r][e]] \in Doc
    BY DEF TypeOK, Doc
  <2>3. docs' \in [Names -> Doc]
    BY <1>8, <2>2, NamesOf DEF SaveDoc, TypeOK
  <2> QED
    BY <1>8, <2>1, <2>3 DEF SaveDoc, TypeOK, Place, rowVars, dataVars
<1>9. ASSUME NEW r \in Runs, NEW e \in Entity, Record(r, e) PROVE TypeOK'
  <2>1. task' \in [Runs -> [Entity -> Place]]
    BY <1>9, GotoAt DEF Record, Place, Working
  <2>2. /\ seen' \in [Runs -> [Entity -> 0 .. MaxChanges]]
        /\ sample' \in [Runs -> [Entity -> 0 .. MaxChanges]]
    BY <1>9, ForgetAt DEF Record
  <2>3. seen[r][e] \in 0 .. NoSignal
    BY DiscoveryBounds DEF TypeOK, NoSignal
  <2> QED
    BY <1>9, <2>1, <2>2, <2>3 DEF Record, Upsert, TypeOK, Place, dataVars
<1>10. ASSUME NEW r \in Runs, NEW e \in Entity, Raise(r, e) PROVE TypeOK'
  <2>1. task' \in [Runs -> [Entity -> Place]]
    BY <1>10, GotoAt DEF Raise, Place, Working
  <2>2. /\ seen' \in [Runs -> [Entity -> 0 .. MaxChanges]]
        /\ sample' \in [Runs -> [Entity -> 0 .. MaxChanges]]
    BY <1>10, ForgetAt DEF Raise
  <2> QED
    BY <1>10, <2>1, <2>2 DEF Raise, TypeOK, Place, rowVars, dataVars
<1>11. ASSUME NEW r \in Runs, NEW e \in Entity, Fail(r, e) PROVE TypeOK'
  <2>1. task' \in [Runs -> [Entity -> Place]]
    BY <1>11, GotoAt DEF Fail, Place
  <2> QED
    BY <1>11, <2>1 DEF Fail, Upsert, TypeOK, Place, dataVars
<1>12. ASSUME NEW e \in Entity, Rescan(e) PROVE TypeOK'
  <2>0. PICK v \in 0 .. version[e] : shown' = [shown EXCEPT ![e] = v]
    BY <1>12 DEF Rescan
  <2>1. v \in 0 .. MaxChanges
    BY DiscoveryBounds DEF TypeOK
  <2>2. shown' \in [Entity -> 0 .. MaxChanges]
    BY <2>0, <2>1 DEF TypeOK
  <2> QED
    BY <1>12, <2>2 DEF Rescan, TypeOK, rowVars, taskVars
<1>13. CASE UNCHANGED vars
  BY <1>13 DEF vars, rowVars, dataVars, taskVars, TypeOK
<1> QED
  BY <1>1, <1>2, <1>3, <1>4, <1>5, <1>6, <1>7, <1>8, <1>9, <1>10, <1>11, <1>12,
     <1>13
     DEF Next, Task

-----------------------------------------------------------------------------
(* What each operation does, entry by entry. *)

\* The data of an entity gets the next version.
LEMMA ChangeAt ==
    ASSUME TypeOK, NEW e \in Entity, Change(e)
    PROVE  /\ version'[e] = changes + 1 /\ changes' = changes + 1
           /\ e \in Local => shown'[e] = shown[e]
           /\ e \notin Local => shown'[e] \in 0 .. changes + 1
           /\ e \notin Weak => shown'[e] = changes + 1
           /\ \A d \in Entity \ {e} : shown'[d] = shown[d]
           /\ \A d \in Entity \ {e} : version'[d] = version[d]
           /\ UNCHANGED <<status, signal, located, docs, task, seen, sample, overlap>>
  BY DiscoveryBounds, LocalSignals DEF Change, TypeOK, rowVars, taskVars

\* Only the signal of a local file changes.
LEMMA RescanAt ==
    ASSUME TypeOK, NEW e \in Entity, Rescan(e)
    PROVE  /\ e \in Local /\ shown'[e] \in 0 .. version[e]
           /\ \A d \in Entity \ {e} : shown'[d] = shown[d]
           /\ UNCHANGED <<version, status, signal, located, docs, task, seen, sample, changes,
                          overlap>>
  BY DEF Rescan, TypeOK, rowVars, taskVars

\* A run starts with a queue of all entities, and the signals of the local files.
LEMMA StartAt ==
    ASSUME TypeOK, NEW r \in Runs, Start(r)
    PROVE  /\ \A s \in Runs, d \in Entity : task'[s][d] = task[s][d] \/ task'[s][d] = "queued"
           /\ \A s \in Runs, d \in Entity :
                 /\ seen'[s][d] = seen[s][d] \/ seen'[s][d] \in {0, Signal(d)}
                 /\ s # r => seen'[s][d] = seen[s][d] /\ task'[s][d] = task[s][d]
           /\ \A d \in Entity : task'[r][d] = "queued"
           /\ UNCHANGED <<version, shown, status, signal, located, docs, sample, changes,
                          overlap>>
  BY DEF Start, TypeOK, rowVars, dataVars

\* A run that dies has no task and no locals left.
LEMMA DieAt ==
    ASSUME TypeOK, NEW r \in Runs, Die(r)
    PROVE  /\ \A d \in Entity : task'[r][d] = "over" /\ seen'[r][d] = 0 /\ sample'[r][d] = 0
           /\ \A s \in Runs \ {r}, d \in Entity :
                 /\ task'[s][d] = task[s][d]
                 /\ seen'[s][d] = seen[s][d] /\ sample'[s][d] = sample[s][d]
           /\ UNCHANGED <<version, shown, status, signal, located, docs, changes, overlap>>
<1>1. Forget(r, Entity)
  BY DEF Die
<1>2. \A s \in Runs, d \in Entity :
         /\ seen'[s][d] = IF s = r THEN 0 ELSE seen[s][d]
         /\ sample'[s][d] = IF s = r THEN 0 ELSE sample[s][d]
  BY <1>1, ForgetAt
<1>3. task' = [task EXCEPT ![r] = [e \in Entity |-> "over"]]
  BY DEF Die
<1> QED
  BY <1>2, <1>3 DEF Die, TypeOK, rowVars, dataVars

\* A worker skips the entity or marks it; overlap is noticed.
LEMMA CheckAt ==
    ASSUME TypeOK, NEW r \in Runs, NEW e \in Entity, Check(r, e)
    PROVE  /\ task[r][e] = "queued" /\ task'[r][e] \in {"over", "marking"}
           /\ \A s \in Runs, d \in Entity : s # r \/ d # e => task'[s][d] = task[s][d]
           /\ \A s \in Runs, d \in Entity : s # r \/ d # e => seen'[s][d] = seen[s][d]
           /\ seen'[r][e] \in {0, seen[r][e], Signal(e)}
           /\ overlap \subseteq overlap'
           /\ \A x \in Entity, s \in Runs :
                 Name(x) = Name(e) /\ <<s, x>> # <<r, e>> /\ task[s][x] \in Working
                     => Name(e) \in overlap'
           /\ UNCHANGED <<version, shown, status, signal, located, docs, sample, changes>>
<1>1. Goto(r, e, "over") \/ Goto(r, e, "marking")
  BY Decided DEF Check
<1>2. task'[r][e] \in {"over", "marking"}
      /\ \A s \in Runs, d \in Entity : s # r \/ d # e => task'[s][d] = task[s][d]
  BY <1>1, GotoAt DEF Place, Working
<1> QED
  BY <1>2, Decided DEF Check, rowVars, dataVars

\* The row is marked.
LEMMA MarkAt ==
    ASSUME TypeOK, NEW r \in Runs, NEW e \in Entity, Mark(r, e)
    PROVE  /\ task[r][e] = "marking" /\ task'[r][e] = "sampling"
           /\ \A s \in Runs, d \in Entity : s # r \/ d # e => task'[s][d] = task[s][d]
           /\ status'[e] = "discovering" /\ \A d \in Entity \ {e} : status'[d] = status[d]
           /\ UNCHANGED <<version, shown, signal, located, docs, seen, sample, changes, overlap>>
  BY GotoAt DEF Mark, Place, Working, Upsert, TypeOK, dataVars

\* The data is sampled as it is.
LEMMA SampleAt ==
    ASSUME TypeOK, NEW r \in Runs, NEW e \in Entity, Sample(r, e)
    PROVE  /\ task[r][e] = "sampling" /\ task'[r][e] = "saving"
           /\ \A s \in Runs, d \in Entity : s # r \/ d # e => task'[s][d] = task[s][d]
           /\ sample'[r][e] = version[e]
           /\ \A s \in Runs, d \in Entity : s # r \/ d # e => sample'[s][d] = sample[s][d]
           /\ UNCHANGED <<version, shown, status, signal, located, docs, seen, changes, overlap>>
<1>1. sample \in [Runs -> [Entity -> 0 .. MaxChanges]] /\ version[e] \in 0 .. MaxChanges
  BY DEF TypeOK
<1>2. sample' = [sample EXCEPT ![r][e] = version[e]]
  BY DEF Sample
<1> QED
  BY <1>1, <1>2, Entry, GotoAt DEF Sample, Place, Working, rowVars, dataVars

\* The document of the name describes the sample.
LEMMA SaveDocAt ==
    ASSUME TypeOK, NEW r \in Runs, NEW e \in Entity, SaveDoc(r, e)
    PROVE  /\ task[r][e] = "saving" /\ task'[r][e] = "recording"
           /\ \A s \in Runs, d \in Entity : s # r \/ d # e => task'[s][d] = task[s][d]
           /\ docs'[Name(e)].of = e /\ docs'[Name(e)].version = sample[r][e]
           /\ \A n \in Names \ {Name(e)} : docs'[n] = docs[n]
           /\ UNCHANGED <<version, shown, status, signal, located, seen, sample, changes,
                          overlap>>
  BY GotoAt, NamesOf DEF SaveDoc, Place, Working, TypeOK, rowVars, dataVars

\* The row is ready, with the signal the task started from.
LEMMA RecordAt ==
    ASSUME TypeOK, NEW r \in Runs, NEW e \in Entity, Record(r, e)
    PROVE  /\ task[r][e] = "recording" /\ task'[r][e] = "over"
           /\ \A s \in Runs, d \in Entity : s # r \/ d # e => task'[s][d] = task[s][d]
           /\ signal'[e] = seen[r][e] /\ \A d \in Entity \ {e} : signal'[d] = signal[d]
           /\ \A d \in Entity \ {e} : status'[d] = status[d]
           /\ located' = located \cup {e}
           /\ \A s \in Runs, d \in Entity :
                 /\ seen'[s][d] = IF s = r /\ d = e THEN 0 ELSE seen[s][d]
                 /\ sample'[s][d] = IF s = r /\ d = e THEN 0 ELSE sample[s][d]
           /\ UNCHANGED <<version, shown, docs, changes, overlap>>
<1>1. Forget(r, {e})
  BY DEF Record
<1>2. \A s \in Runs, d \in Entity :
         /\ seen'[s][d] = IF s = r /\ d \in {e} THEN 0 ELSE seen[s][d]
         /\ sample'[s][d] = IF s = r /\ d \in {e} THEN 0 ELSE sample[s][d]
  BY <1>1, ForgetAt
<1> QED
  BY <1>2, GotoAt DEF Record, Place, Working, Upsert, TypeOK, rowVars, dataVars

\* A task fails.
LEMMA RaiseAt ==
    ASSUME TypeOK, NEW r \in Runs, NEW e \in Entity, Raise(r, e)
    PROVE  /\ task[r][e] \in Working /\ task'[r][e] = "failing"
           /\ \A s \in Runs, d \in Entity : s # r \/ d # e => task'[s][d] = task[s][d]
           /\ \A s \in Runs, d \in Entity :
                 /\ seen'[s][d] = IF s = r /\ d = e THEN 0 ELSE seen[s][d]
                 /\ sample'[s][d] = IF s = r /\ d = e THEN 0 ELSE sample[s][d]
           /\ UNCHANGED <<version, shown, status, signal, located, docs, changes, overlap>>
<1>1. Forget(r, {e})
  BY DEF Raise
<1>2. \A s \in Runs, d \in Entity :
         /\ seen'[s][d] = IF s = r /\ d \in {e} THEN 0 ELSE seen[s][d]
         /\ sample'[s][d] = IF s = r /\ d \in {e} THEN 0 ELSE sample[s][d]
  BY <1>1, ForgetAt
<1> QED
  BY <1>2, GotoAt DEF Raise, Place, Working, Upsert, TypeOK, rowVars, dataVars

\* The row says so, or not.
LEMMA FailAt ==
    ASSUME TypeOK, NEW r \in Runs, NEW e \in Entity, Fail(r, e)
    PROVE  /\ task[r][e] = "failing" /\ task'[r][e] = "over"
           /\ \A s \in Runs, d \in Entity : s # r \/ d # e => task'[s][d] = task[s][d]
           /\ \A d \in Entity : status'[d] \in {status[d], "error"}
           /\ UNCHANGED <<version, shown, signal, located, docs, seen, sample, changes, overlap>>
  BY GotoAt DEF Fail, Place, Upsert, TypeOK, rowVars, dataVars

-----------------------------------------------------------------------------
(* Versions and signals. *)

\* A change has the highest number.
LEMMA VersionStep ==
    TypeOK /\ TypeOK' /\ VersionsAreChanges /\ [Next]_vars
        => VersionsAreChanges'
<1> SUFFICES ASSUME TypeOK, TypeOK', VersionsAreChanges, [Next]_vars PROVE VersionsAreChanges'
  OBVIOUS
<1> USE DiscoveryBounds DEF TypeOK, VersionsAreChanges
<1>1. ASSUME NEW e \in Entity, Change(e) PROVE VersionsAreChanges'
  <2>1. version'[e] = changes' /\ changes' = changes + 1
        /\ \A d \in Entity \ {e} : version'[d] = version[d]
    BY <1>1, ChangeAt
  <2>2. /\ version \in [Entity -> 0 .. MaxChanges] /\ version' \in [Entity -> 0 .. MaxChanges]
        /\ changes \in Nat
    OBVIOUS
  <2> HIDE DEF TypeOK
  <2> QED
    BY <2>1, <2>2
<1>2. ASSUME NEW e \in Entity, Panel(e) PROVE VersionsAreChanges'
  BY <1>2 DEF Panel, rowVars, dataVars, taskVars
<1>3. ASSUME NEW r \in Runs, Start(r) PROVE VersionsAreChanges'
  BY <1>3, StartAt
<1>4. ASSUME NEW r \in Runs, Die(r) PROVE VersionsAreChanges'
  BY <1>4, DieAt
<1>5. ASSUME NEW r \in Runs, NEW e \in Entity, Check(r, e) PROVE VersionsAreChanges'
  BY <1>5, CheckAt
<1>6. ASSUME NEW r \in Runs, NEW e \in Entity, Mark(r, e) PROVE VersionsAreChanges'
  BY <1>6, MarkAt
<1>7. ASSUME NEW r \in Runs, NEW e \in Entity, Sample(r, e) PROVE VersionsAreChanges'
  BY <1>7, SampleAt
<1>8. ASSUME NEW r \in Runs, NEW e \in Entity, SaveDoc(r, e) PROVE VersionsAreChanges'
  BY <1>8, SaveDocAt
<1>9. ASSUME NEW r \in Runs, NEW e \in Entity, Record(r, e) PROVE VersionsAreChanges'
  BY <1>9, RecordAt
<1>10. ASSUME NEW r \in Runs, NEW e \in Entity, Raise(r, e) PROVE VersionsAreChanges'
  BY <1>10, RaiseAt
<1>11. ASSUME NEW r \in Runs, NEW e \in Entity, Fail(r, e) PROVE VersionsAreChanges'
  BY <1>11, FailAt
<1>12. ASSUME NEW e \in Entity, Rescan(e) PROVE VersionsAreChanges'
  BY <1>12, RescanAt
<1>13. CASE UNCHANGED vars
  BY <1>13 DEF vars, rowVars, dataVars, taskVars
<1> QED
  BY <1>1, <1>2, <1>3, <1>4, <1>5, <1>6, <1>7, <1>8, <1>9, <1>10, <1>11, <1>12,
     <1>13
     DEF Next, Task

\* A signal never shows a version that is still to come.
LEMMA ShownStep ==
    TypeOK /\ TypeOK' /\ VersionsAreChanges /\ ShownIsPast /\ [Next]_vars => ShownIsPast'
<1> SUFFICES ASSUME TypeOK, TypeOK', VersionsAreChanges, ShownIsPast, [Next]_vars
             PROVE ShownIsPast'
  OBVIOUS
<1> USE DEF ShownIsPast
<1>1. ASSUME NEW e \in Entity, Change(e) PROVE ShownIsPast'
  <2>1. /\ changes \in Nat /\ version[e] \in Nat /\ shown[e] \in Nat
        /\ version[e] <= changes /\ shown[e] <= version[e]
    BY DiscoveryBounds DEF TypeOK, VersionsAreChanges
  <2>2. version'[e] = changes + 1
    BY <1>1, ChangeAt
  <2>3. shown'[e] \in {shown[e]} \cup 0 .. changes + 1
    BY <1>1, ChangeAt
  <2>4. e \notin Weak => shown'[e] = changes + 1
    BY <1>1, ChangeAt
  <2>5. shown'[e] <= version'[e] /\ (e \notin Weak => shown'[e] = version'[e])
    BY <2>1, <2>2, <2>3, <2>4
  <2> QED
    BY <1>1, <2>5, ChangeAt
<1>2. ASSUME NEW e \in Entity, Panel(e) PROVE ShownIsPast'
  BY <1>2 DEF Panel, rowVars, dataVars, taskVars
<1>3. ASSUME NEW r \in Runs, Start(r) PROVE ShownIsPast'
  BY <1>3, StartAt
<1>4. ASSUME NEW r \in Runs, Die(r) PROVE ShownIsPast'
  BY <1>4, DieAt
<1>5. ASSUME NEW r \in Runs, NEW e \in Entity, Check(r, e) PROVE ShownIsPast'
  BY <1>5, CheckAt
<1>6. ASSUME NEW r \in Runs, NEW e \in Entity, Mark(r, e) PROVE ShownIsPast'
  BY <1>6, MarkAt
<1>7. ASSUME NEW r \in Runs, NEW e \in Entity, Sample(r, e) PROVE ShownIsPast'
  BY <1>7, SampleAt
<1>8. ASSUME NEW r \in Runs, NEW e \in Entity, SaveDoc(r, e) PROVE ShownIsPast'
  BY <1>8, SaveDocAt
<1>9. ASSUME NEW r \in Runs, NEW e \in Entity, Record(r, e) PROVE ShownIsPast'
  BY <1>9, RecordAt
<1>10. ASSUME NEW r \in Runs, NEW e \in Entity, Raise(r, e) PROVE ShownIsPast'
  BY <1>10, RaiseAt
<1>11. ASSUME NEW r \in Runs, NEW e \in Entity, Fail(r, e) PROVE ShownIsPast'
  BY <1>11, FailAt
<1>12. ASSUME NEW e \in Entity, Rescan(e) PROVE ShownIsPast'
  <2>1. e \in Weak /\ shown'[e] \in 0 .. version[e] /\ version[e] \in Nat
    BY <1>12, RescanAt, LocalSignals, DiscoveryBounds DEF TypeOK
  <2> QED
    BY <1>12, <2>1, RescanAt
<1>13. CASE UNCHANGED vars
  BY <1>13 DEF vars, rowVars, dataVars, taskVars
<1> QED
  BY <1>1, <1>2, <1>3, <1>4, <1>5, <1>6, <1>7, <1>8, <1>9, <1>10, <1>11, <1>12,
     <1>13
     DEF Next, Task

\* The data is sampled after its signal is read.
LEMMA SignalStep ==
    TypeOK /\ TypeOK' /\ VersionsAreChanges /\ ShownIsPast /\ SignalFirst /\ [Next]_vars
        => SignalFirst'
<1> SUFFICES ASSUME TypeOK, TypeOK', VersionsAreChanges, ShownIsPast, SignalFirst, [Next]_vars
             PROVE SignalFirst'
  OBVIOUS
<1> USE DEF SignalFirst
<1>1. ASSUME NEW e \in Entity, Change(e) PROVE SignalFirst'
  <2>1. /\ \A d \in Entity : version[d] \in Nat /\ version'[d] \in Nat
        /\ \A s \in Runs, d \in Entity : seen[s][d] \in Nat /\ sample[s][d] \in Nat
    BY DiscoveryBounds DEF TypeOK
  <2>2. version[e] <= version'[e]
    BY <2>1, <1>1, ChangeAt, DiscoveryBounds DEF VersionsAreChanges, TypeOK
  <2> QED
    BY <2>1, <2>2, <1>1, ChangeAt
<1>2. ASSUME NEW e \in Entity, Panel(e) PROVE SignalFirst'
  BY <1>2 DEF Panel, rowVars, dataVars, taskVars
<1>3. ASSUME NEW r \in Runs, Start(r) PROVE SignalFirst'
  <2>1. /\ \A d \in Entity : version[d] \in Nat /\ version'[d] \in Nat
        /\ \A s \in Runs, d \in Entity : seen[s][d] \in Nat /\ sample[s][d] \in Nat
    BY DiscoveryBounds DEF TypeOK
  <2> QED
    BY <2>1, <1>3, StartAt, Signals
<1>4. ASSUME NEW r \in Runs, Die(r) PROVE SignalFirst'
  <2>1. /\ \A d \in Entity : version[d] \in Nat /\ version'[d] \in Nat
        /\ \A s \in Runs, d \in Entity : seen[s][d] \in Nat /\ sample[s][d] \in Nat
    BY DiscoveryBounds DEF TypeOK
  <2> QED
    BY <2>1, <1>4, DieAt
<1>5. ASSUME NEW r \in Runs, NEW e \in Entity, Check(r, e) PROVE SignalFirst'
  <2>1. /\ \A d \in Entity : version[d] \in Nat /\ version'[d] \in Nat
        /\ \A s \in Runs, d \in Entity : seen[s][d] \in Nat /\ sample[s][d] \in Nat
    BY DiscoveryBounds DEF TypeOK
  <2> QED
    BY <2>1, <1>5, CheckAt, Signals
<1>6. ASSUME NEW r \in Runs, NEW e \in Entity, Mark(r, e) PROVE SignalFirst'
  BY <1>6, MarkAt
<1>7. ASSUME NEW r \in Runs, NEW e \in Entity, Sample(r, e) PROVE SignalFirst'
  <2>1. /\ \A d \in Entity : version[d] \in Nat /\ version'[d] \in Nat
        /\ \A s \in Runs, d \in Entity : seen[s][d] \in Nat /\ sample[s][d] \in Nat
    BY DiscoveryBounds DEF TypeOK
  <2> QED
    BY <2>1, <1>7, SampleAt
<1>8. ASSUME NEW r \in Runs, NEW e \in Entity, SaveDoc(r, e) PROVE SignalFirst'
  BY <1>8, SaveDocAt
<1>9. ASSUME NEW r \in Runs, NEW e \in Entity, Record(r, e) PROVE SignalFirst'
  <2>1. /\ \A d \in Entity : version[d] \in Nat /\ version'[d] \in Nat
        /\ \A s \in Runs, d \in Entity : seen[s][d] \in Nat /\ sample[s][d] \in Nat
    BY DiscoveryBounds DEF TypeOK
  <2> QED
    BY <2>1, <1>9, RecordAt
<1>10. ASSUME NEW r \in Runs, NEW e \in Entity, Raise(r, e) PROVE SignalFirst'
  <2>1. /\ \A d \in Entity : version[d] \in Nat /\ version'[d] \in Nat
        /\ \A s \in Runs, d \in Entity : seen[s][d] \in Nat /\ sample[s][d] \in Nat
    BY DiscoveryBounds DEF TypeOK
  <2> QED
    BY <2>1, <1>10, RaiseAt
<1>11. ASSUME NEW r \in Runs, NEW e \in Entity, Fail(r, e) PROVE SignalFirst'
  BY <1>11, FailAt
<1>12. ASSUME NEW e \in Entity, Rescan(e) PROVE SignalFirst'
  BY <1>12, RescanAt
<1>13. CASE UNCHANGED vars
  BY <1>13 DEF vars, rowVars, dataVars, taskVars
<1> QED
  BY <1>1, <1>2, <1>3, <1>4, <1>5, <1>6, <1>7, <1>8, <1>9, <1>10, <1>11, <1>12,
     <1>13
     DEF Next, Task

\* What is stored was sampled.
LEMMA DocStep ==
    TypeOK /\ TypeOK' /\ VersionsAreChanges /\ SignalFirst /\ DocIsPast /\ [Next]_vars
        => DocIsPast'
<1> SUFFICES ASSUME TypeOK, TypeOK', VersionsAreChanges, SignalFirst, DocIsPast, [Next]_vars
             PROVE DocIsPast'
  OBVIOUS
<1> USE DEF DocIsPast
<1>1. ASSUME NEW e \in Entity, Change(e) PROVE DocIsPast'
  <2>1. /\ \A d \in Entity : version[d] \in Nat /\ version'[d] \in Nat
        /\ \A s \in Runs, d \in Entity : seen[s][d] \in Nat /\ sample[s][d] \in Nat
    BY DiscoveryBounds DEF TypeOK
  <2>2. version[e] <= version'[e]
    BY <2>1, <1>1, ChangeAt, DiscoveryBounds DEF VersionsAreChanges, TypeOK
  <2>3. \A n \in Names : docs[n].version \in Nat
    BY DiscoveryBounds DEF TypeOK, Doc, NoDoc
  <2> QED
    BY <2>1, <2>2, <2>3, <1>1, ChangeAt
<1>2. ASSUME NEW e \in Entity, Panel(e) PROVE DocIsPast'
  BY <1>2 DEF Panel, rowVars, dataVars, taskVars
<1>3. ASSUME NEW r \in Runs, Start(r) PROVE DocIsPast'
  BY <1>3, StartAt
<1>4. ASSUME NEW r \in Runs, Die(r) PROVE DocIsPast'
  BY <1>4, DieAt
<1>5. ASSUME NEW r \in Runs, NEW e \in Entity, Check(r, e) PROVE DocIsPast'
  BY <1>5, CheckAt
<1>6. ASSUME NEW r \in Runs, NEW e \in Entity, Mark(r, e) PROVE DocIsPast'
  BY <1>6, MarkAt
<1>7. ASSUME NEW r \in Runs, NEW e \in Entity, Sample(r, e) PROVE DocIsPast'
  BY <1>7, SampleAt
<1>8. ASSUME NEW r \in Runs, NEW e \in Entity, SaveDoc(r, e) PROVE DocIsPast'
  BY <1>8, SaveDocAt DEF SignalFirst
<1>9. ASSUME NEW r \in Runs, NEW e \in Entity, Record(r, e) PROVE DocIsPast'
  BY <1>9, RecordAt
<1>10. ASSUME NEW r \in Runs, NEW e \in Entity, Raise(r, e) PROVE DocIsPast'
  BY <1>10, RaiseAt
<1>11. ASSUME NEW r \in Runs, NEW e \in Entity, Fail(r, e) PROVE DocIsPast'
  BY <1>11, FailAt
<1>12. ASSUME NEW e \in Entity, Rescan(e) PROVE DocIsPast'
  BY <1>12, RescanAt
<1>13. CASE UNCHANGED vars
  BY <1>13 DEF vars, rowVars, dataVars, taskVars
<1> QED
  BY <1>1, <1>2, <1>3, <1>4, <1>5, <1>6, <1>7, <1>8, <1>9, <1>10, <1>11, <1>12,
     <1>13
     DEF Next, Task

\* Who begins to work beside another overlaps with it.
LEMMA WorkerStep == TypeOK /\ OneWorker /\ [Next]_vars => OneWorker'
<1> SUFFICES ASSUME TypeOK, OneWorker, [Next]_vars PROVE OneWorker'
  OBVIOUS
<1> USE DEF OneWorker, Working
<1>1. ASSUME NEW e \in Entity, Change(e) PROVE OneWorker'
  BY <1>1, ChangeAt
<1>2. ASSUME NEW e \in Entity, Panel(e) PROVE OneWorker'
  BY <1>2 DEF Panel, rowVars, dataVars, taskVars
<1>3. ASSUME NEW r \in Runs, Start(r) PROVE OneWorker'
  BY <1>3, StartAt
<1>4. ASSUME NEW r \in Runs, Die(r) PROVE OneWorker'
  BY <1>4, DieAt
<1>5. ASSUME NEW r \in Runs, NEW e \in Entity, Check(r, e) PROVE OneWorker'
  <2> SUFFICES ASSUME NEW d \in Entity, Name(d) \notin overlap',
                      NEW s \in Runs, NEW u \in Runs,
                      task'[s][d] \in Working, task'[u][d] \in Working
               PROVE  s = u
    BY DEF OneWorker
  <2>1. CASE d # e
    BY <1>5, <2>1, CheckAt
  <2>2. CASE d = e
    <3>1. \A x \in Runs \ {r} : task[x][e] \notin Working
      BY <1>5, <2>2, CheckAt
    <3> QED
      BY <1>5, <2>2, <3>1, CheckAt
  <2> QED
    BY <2>1, <2>2
<1>6. ASSUME NEW r \in Runs, NEW e \in Entity, Mark(r, e) PROVE OneWorker'
  BY <1>6, MarkAt
<1>7. ASSUME NEW r \in Runs, NEW e \in Entity, Sample(r, e) PROVE OneWorker'
  BY <1>7, SampleAt
<1>8. ASSUME NEW r \in Runs, NEW e \in Entity, SaveDoc(r, e) PROVE OneWorker'
  BY <1>8, SaveDocAt
<1>9. ASSUME NEW r \in Runs, NEW e \in Entity, Record(r, e) PROVE OneWorker'
  BY <1>9, RecordAt
<1>10. ASSUME NEW r \in Runs, NEW e \in Entity, Raise(r, e) PROVE OneWorker'
  BY <1>10, RaiseAt
<1>11. ASSUME NEW r \in Runs, NEW e \in Entity, Fail(r, e) PROVE OneWorker'
  BY <1>11, FailAt
<1>12. ASSUME NEW e \in Entity, Rescan(e) PROVE OneWorker'
  BY <1>12, RescanAt
<1>13. CASE UNCHANGED vars
  BY <1>13 DEF vars, rowVars, dataVars, taskVars
<1> QED
  BY <1>1, <1>2, <1>3, <1>4, <1>5, <1>6, <1>7, <1>8, <1>9, <1>10, <1>11, <1>12,
     <1>13
     DEF Next, Task

\* A row becomes ready only by the task that works on it.
LEMMA UnreadyStep ==
    TypeOK /\ OneWorker /\ UnreadyWhileWorking /\ [Next]_vars
        => UnreadyWhileWorking'
<1> SUFFICES ASSUME TypeOK, OneWorker, UnreadyWhileWorking, [Next]_vars
             PROVE UnreadyWhileWorking'
  OBVIOUS
<1> USE DEF OneWorker, UnreadyWhileWorking, Working
<1>1. ASSUME NEW e \in Entity, Change(e) PROVE UnreadyWhileWorking'
  BY <1>1, ChangeAt
<1>2. ASSUME NEW e \in Entity, Panel(e) PROVE UnreadyWhileWorking'
  BY <1>2 DEF Panel, rowVars, dataVars, taskVars
<1>3. ASSUME NEW r \in Runs, Start(r) PROVE UnreadyWhileWorking'
  BY <1>3, StartAt
<1>4. ASSUME NEW r \in Runs, Die(r) PROVE UnreadyWhileWorking'
  BY <1>4, DieAt
<1>5. ASSUME NEW r \in Runs, NEW e \in Entity, Check(r, e) PROVE UnreadyWhileWorking'
  BY <1>5, CheckAt
<1>6. ASSUME NEW r \in Runs, NEW e \in Entity, Mark(r, e) PROVE UnreadyWhileWorking'
  BY <1>6, MarkAt
<1>7. ASSUME NEW r \in Runs, NEW e \in Entity, Sample(r, e) PROVE UnreadyWhileWorking'
  BY <1>7, SampleAt
<1>8. ASSUME NEW r \in Runs, NEW e \in Entity, SaveDoc(r, e) PROVE UnreadyWhileWorking'
  BY <1>8, SaveDocAt
<1>9. ASSUME NEW r \in Runs, NEW e \in Entity, Record(r, e) PROVE UnreadyWhileWorking'
  <2> SUFFICES ASSUME NEW d \in Entity, NEW s \in Runs, Name(d) \notin overlap',
                      task'[s][d] \in {"sampling", "saving", "recording"}
               PROVE  status'[d] # "ready"
    OBVIOUS
  <2>1. CASE d # e
    BY <1>9, <2>1, RecordAt
  <2>2. CASE d = e
    <3>1. s # r /\ task[s][e] = task'[s][e]
      BY <1>9, <2>2, RecordAt
    <3>2. task[s][e] \in Working /\ task[r][e] \in Working /\ Name(e) \notin overlap
      BY <1>9, <2>2, <3>1, RecordAt
    <3> QED
      BY <3>1, <3>2
  <2> QED
    BY <2>1, <2>2
<1>10. ASSUME NEW r \in Runs, NEW e \in Entity, Raise(r, e) PROVE UnreadyWhileWorking'
  BY <1>10, RaiseAt
<1>11. ASSUME NEW r \in Runs, NEW e \in Entity, Fail(r, e) PROVE UnreadyWhileWorking'
  BY <1>11, FailAt
<1>12. ASSUME NEW e \in Entity, Rescan(e) PROVE UnreadyWhileWorking'
  BY <1>12, RescanAt
<1>13. CASE UNCHANGED vars
  BY <1>13 DEF vars, rowVars, dataVars, taskVars
<1> QED
  BY <1>1, <1>2, <1>3, <1>4, <1>5, <1>6, <1>7, <1>8, <1>9, <1>10, <1>11, <1>12,
     <1>13
     DEF Next, Task

\* A name is written by the entity's own tasks, and by one of them without overlap.
LEMMA StoredStep == TypeOK /\ OneWorker /\ StoredFirst /\ [Next]_vars => StoredFirst'
<1> SUFFICES ASSUME TypeOK, OneWorker, StoredFirst, [Next]_vars PROVE StoredFirst'
  OBVIOUS
<1> USE DEF StoredFirst, Sole
<1>1. ASSUME NEW e \in Entity, Change(e) PROVE StoredFirst'
  BY <1>1, ChangeAt
<1>2. ASSUME NEW e \in Entity, Panel(e) PROVE StoredFirst'
  BY <1>2 DEF Panel, rowVars, dataVars, taskVars
<1>3. ASSUME NEW r \in Runs, Start(r) PROVE StoredFirst'
  BY <1>3, StartAt
<1>4. ASSUME NEW r \in Runs, Die(r) PROVE StoredFirst'
  BY <1>4, DieAt
<1>5. ASSUME NEW r \in Runs, NEW e \in Entity, Check(r, e) PROVE StoredFirst'
  BY <1>5, CheckAt
<1>6. ASSUME NEW r \in Runs, NEW e \in Entity, Mark(r, e) PROVE StoredFirst'
  BY <1>6, MarkAt
<1>7. ASSUME NEW r \in Runs, NEW e \in Entity, Sample(r, e) PROVE StoredFirst'
  <2>1. \A d \in Entity, s \in Runs : task'[s][d] = "recording" =>
            task[s][d] = "recording" /\ sample'[s][d] = sample[s][d]
    BY <1>7, SampleAt
  <2> QED
    BY <1>7, <2>1, SampleAt
<1>8. ASSUME NEW r \in Runs, NEW e \in Entity, SaveDoc(r, e) PROVE StoredFirst'
  <2> SUFFICES ASSUME NEW d \in Entity, Sole(d)
               PROVE  /\ d \in located' => docs'[Name(d)].of = d
                      /\ \A s \in Runs : task'[s][d] = "recording" =>
                            /\ docs'[Name(d)].of = d
                            /\ Name(d) \notin overlap' => docs'[Name(d)].version = sample'[s][d]
    OBVIOUS
  <2>1. CASE d # e
    <3>1. docs'[Name(d)] = docs[Name(d)]
      BY <1>8, <2>1, SaveDocAt, NamesOf
    <3> QED
      BY <1>8, <2>1, <3>1, SaveDocAt
  <2>2. CASE d = e
    <3>1. Name(d) \notin overlap => \A s \in Runs \ {r} : task[s][d] \notin Working
      BY <1>8, <2>2, SaveDocAt DEF OneWorker, Working
    <3> QED
      BY <1>8, <2>2, <3>1, SaveDocAt DEF Working
  <2> QED
    BY <2>1, <2>2
<1>9. ASSUME NEW r \in Runs, NEW e \in Entity, Record(r, e) PROVE StoredFirst'
  BY <1>9, RecordAt
<1>10. ASSUME NEW r \in Runs, NEW e \in Entity, Raise(r, e) PROVE StoredFirst'
  BY <1>10, RaiseAt
<1>11. ASSUME NEW r \in Runs, NEW e \in Entity, Fail(r, e) PROVE StoredFirst'
  BY <1>11, FailAt
<1>12. ASSUME NEW e \in Entity, Rescan(e) PROVE StoredFirst'
  BY <1>12, RescanAt
<1>13. CASE UNCHANGED vars
  BY <1>13 DEF vars, rowVars, dataVars, taskVars
<1> QED
  BY <1>1, <1>2, <1>3, <1>4, <1>5, <1>6, <1>7, <1>8, <1>9, <1>10, <1>11, <1>12,
     <1>13
     DEF Next, Task

\* What is served stays a profile of its entity, not older than the signal.
LEMMA ServedStep ==
    TypeOK /\ TypeOK' /\ SignalFirst /\ OneWorker /\
    UnreadyWhileWorking /\ StoredFirst /\ ServedIsOwn /\ [Next]_vars
        => ServedIsOwn'
<1> SUFFICES ASSUME TypeOK, TypeOK', SignalFirst, OneWorker, UnreadyWhileWorking, StoredFirst,
                    ServedIsOwn, [Next]_vars
             PROVE ServedIsOwn'
  OBVIOUS
<1> USE DEF ServedIsOwn, Ready, Sole
<1>1. ASSUME NEW e \in Entity, Change(e) PROVE ServedIsOwn'
  BY <1>1, ChangeAt
<1>2. ASSUME NEW e \in Entity, Panel(e) PROVE ServedIsOwn'
  BY <1>2 DEF Panel, rowVars, dataVars, taskVars
<1>3. ASSUME NEW r \in Runs, Start(r) PROVE ServedIsOwn'
  BY <1>3, StartAt
<1>4. ASSUME NEW r \in Runs, Die(r) PROVE ServedIsOwn'
  BY <1>4, DieAt
<1>5. ASSUME NEW r \in Runs, NEW e \in Entity, Check(r, e) PROVE ServedIsOwn'
  BY <1>5, CheckAt
<1>6. ASSUME NEW r \in Runs, NEW e \in Entity, Mark(r, e) PROVE ServedIsOwn'
  BY <1>6, MarkAt
<1>7. ASSUME NEW r \in Runs, NEW e \in Entity, Sample(r, e) PROVE ServedIsOwn'
  BY <1>7, SampleAt
<1>8. ASSUME NEW r \in Runs, NEW e \in Entity, SaveDoc(r, e) PROVE ServedIsOwn'
  <2> SUFFICES ASSUME NEW d \in Entity, Ready(d)', Sole(d)
               PROVE  /\ docs'[Name(d)].of = d
                      /\ Name(d) \notin overlap'
                            => docs'[Name(d)].version >= signal'[d]
    OBVIOUS
  <2>1. CASE d # e
    <3>1. docs'[Name(d)] = docs[Name(d)]
      BY <1>8, <2>1, SaveDocAt, NamesOf
    <3> QED
      BY <1>8, <2>1, <3>1, SaveDocAt
  <2>2. CASE d = e
    BY <1>8, <2>2, SaveDocAt DEF UnreadyWhileWorking
  <2> QED
    BY <2>1, <2>2
<1>9. ASSUME NEW r \in Runs, NEW e \in Entity, Record(r, e) PROVE ServedIsOwn'
  <2> SUFFICES ASSUME NEW d \in Entity, Ready(d)', Sole(d)
               PROVE  /\ docs'[Name(d)].of = d
                      /\ Name(d) \notin overlap'
                            => docs'[Name(d)].version >= signal'[d]
    OBVIOUS
  <2>1. CASE d # e
    BY <1>9, <2>1, RecordAt
  <2>2. CASE d = e
    <3>1. /\ docs[Name(e)].of = e
          /\ Name(e) \notin overlap => docs[Name(e)].version = sample[r][e]
      BY <1>9, <2>2, RecordAt DEF StoredFirst
    <3>2. seen[r][e] <= sample[r][e]
      BY <1>9, RecordAt DEF SignalFirst
    <3>3. seen[r][e] \in Nat /\ sample[r][e] \in Nat
      BY DiscoveryBounds DEF TypeOK
    <3> QED
      BY <1>9, <2>2, <3>1, <3>2, <3>3, RecordAt
  <2> QED
    BY <2>1, <2>2
<1>10. ASSUME NEW r \in Runs, NEW e \in Entity, Raise(r, e) PROVE ServedIsOwn'
  BY <1>10, RaiseAt
<1>11. ASSUME NEW r \in Runs, NEW e \in Entity, Fail(r, e) PROVE ServedIsOwn'
  BY <1>11, FailAt
<1>12. ASSUME NEW e \in Entity, Rescan(e) PROVE ServedIsOwn'
  BY <1>12, RescanAt
<1>13. CASE UNCHANGED vars
  BY <1>13 DEF vars, rowVars, dataVars, taskVars
<1> QED
  BY <1>1, <1>2, <1>3, <1>4, <1>5, <1>6, <1>7, <1>8, <1>9, <1>10, <1>11, <1>12,
     <1>13
     DEF Next, Task

-----------------------------------------------------------------------------
(* The theorems. *)

\* The inductive invariant holds in every state.
LEMMA Inductive == Spec => []IInv
<1>1. Init => IInv
  <2> SUFFICES ASSUME Init PROVE IInv
    OBVIOUS
  <2>1. TypeOK
    BY DiscoveryBounds DEF Init, TypeOK, NoSignal, Doc
  <2>2. VersionsAreChanges /\ SignalFirst /\ OneWorker /\ UnreadyWhileWorking
    BY DEF Init, VersionsAreChanges, SignalFirst, OneWorker, UnreadyWhileWorking, Working
  <2>5. ShownIsPast
    BY DEF Init, ShownIsPast
  <2>3. DocIsPast
    BY DEF Init, DocIsPast, NoDoc
  <2>4. StoredFirst /\ ServedIsOwn
    BY DEF Init, StoredFirst, ServedIsOwn, Ready
  <2> QED
    BY <2>1, <2>2, <2>3, <2>4, <2>5 DEF IInv
<1>2. IInv /\ [Next]_vars => IInv'
  <2> SUFFICES ASSUME IInv, [Next]_vars PROVE IInv'
    OBVIOUS
  <2>1. TypeOK'
    BY TypeStep DEF IInv
  <2>2. VersionsAreChanges' /\ ShownIsPast' /\ SignalFirst' /\ DocIsPast'
    BY <2>1, VersionStep, ShownStep, SignalStep, DocStep DEF IInv
  <2>3. OneWorker' /\ UnreadyWhileWorking' /\ StoredFirst'
    BY WorkerStep, UnreadyStep, StoredStep DEF IInv
  <2>4. ServedIsOwn'
    BY <2>1, ServedStep DEF IInv
  <2> QED
    BY <2>1, <2>2, <2>3, <2>4 DEF IInv
<1> QED
  BY <1>1, <1>2, PTL DEF Spec

\* Every state is well typed; in particular no document and no signal is newer than
\* the data can be.
THEOREM TypeCorrect == Spec => []TypeOK
<1>1. IInv => TypeOK
  BY DEF IInv
<1> QED
  BY <1>1, Inductive, PTL

\* What get_entity_doc_markdown hands out for an entity with a name of its own is its
\* own profile, and without overlap one not older than the signal of its row, be it
\* the weak one of a table or a local file.
THEOREM ProfileIsOwn == Spec => []ServedIsOwn
<1>1. IInv => ServedIsOwn
  BY DEF IInv
<1> QED
  BY <1>1, Inductive, PTL

\* An S3 object that _entity_needs_discovery skips is described as it is: the document
\* has the version of the data, whatever failed, died or changed in between.
THEOREM SkipIsSafe == Spec => []SkippedIsCurrent
<1>1. IInv => SkippedIsCurrent
  <2> SUFFICES ASSUME IInv, NEW e \in Entity \ Weak,
                      Ready(e), signal[e] = Signal(e), Sole(e), Name(e) \notin overlap
               PROVE  docs[Name(e)] = [of |-> e, version |-> version[e]]
    BY DEF SkippedIsCurrent
  <2>0. Signal(e) = version[e]
    BY Signals DEF IInv
  <2>1. docs[Name(e)].of = e /\ docs[Name(e)].version >= version[e]
    BY <2>0 DEF IInv, ServedIsOwn
  <2>2. docs[Name(e)].version <= version[e]
    BY <2>1, NamesOf DEF IInv, DocIsPast
  <2>3. docs[Name(e)] \in Doc /\ version[e] \in Nat
    BY NamesOf, DiscoveryBounds DEF IInv, TypeOK
  <2>4. docs[Name(e)].version \in Nat
    BY <2>3, DiscoveryBounds DEF Doc, NoDoc
  <2>5. docs[Name(e)].version = version[e]
    BY <2>1, <2>2, <2>3, <2>4
  <2>6. docs[Name(e)] = [of |-> docs[Name(e)].of, version |-> docs[Name(e)].version]
    BY <2>3 DEF Doc, NoDoc
  <2> QED
    BY <2>1, <2>5, <2>6
<1> QED
  BY <1>1, Inductive, PTL
=============================================================================
