----------------------------- MODULE IntelProofs -----------------------------
(***************************************************************************)
(* That the report about a session's files, its row and the in-progress    *)
(* mark belong together, for any files and any number of generations,      *)
(* uploads and deletions.  What the code gives up, by its second phase     *)
(* without a mark, is named by the premise "crossed" \notin excused.       *)
(***************************************************************************)
EXTENDS Intel, FiniteSetTheorems, TLAPS

-----------------------------------------------------------------------------
(* The inductive invariant, in named parts. *)

\* The generations that have not yet written their row.
Before == {w \in Run : pc[w] \in {"new", "begin", "delta", "prune", "full", "save", "row"}}

\* The type invariant without the bound on the row, and that bound: each
\* generation writes one row.
Types ==
    /\ vm \in BOOLEAN /\ files \subseteq File /\ described \subseteq File
    /\ mark \in Trigger \cup {"none"}
    /\ doc \in Report \cup {NoReport} /\ row \in Nat
    /\ pc \in [Run -> {"new", "begin", "delta", "prune", "full", "save", "row", "report",
                       "end", "last", "over"}]
    /\ trigger \in [Run -> Trigger] /\ gone \in [Run -> File \cup {NoFile}]
    /\ data \in [Run -> Report \cup {NoReport}] /\ agent \in [Run -> BOOLEAN]
    /\ user \in 0 .. MaxUser /\ merged \subseteq File /\ pruned \subseteq File
    /\ excused \subseteq {"wiped", "crashed", "crossed", "unsaved"}
OneRowEach == row + Cardinality(Before) <= MaxRuns

\* The threads that hold a report: loaded, made or stored.
Holds(w) == pc[w] \in {"delta", "prune", "save", "row", "report"}
HeldIsReport == \A w \in Run : Holds(w) => data[w] \in Report

\* A row is written, and stands, only with the object.
RowAfterDoc ==
    "wiped" \notin excused =>
        /\ row > 0 => doc # NoReport
        /\ \A w \in Run : pc[w] = "row" => doc # NoReport

\* Without crossing there is one live generation.
OneAtATime == "crossed" \notin excused => \A v, w \in Live : v = w

\* Only a deletion has a file that is gone, and a deletion is a pruning.
GoneIsDeleted ==
    \A w \in Run :
        /\ pc[w] = "begin" => (trigger[w] = "file_delete" <=> gone[w] # NoFile)
        /\ pc[w] \in {"delta", "full"} => gone[w] = NoFile
        /\ pc[w] = "save" /\ gone[w] # NoFile => gone[w] \notin data[w].covers

\* What was merged is there, what was pruned is not.
HistoryOfFiles == merged \subseteq files /\ pruned \cap files = {}

\* The report a live generation carries would do as the stored one, and the file
\* it is about to prune was not merged.
HeldMatchesFiles ==
    "crossed" \notin excused =>
        \A w \in Run :
            /\ Holds(w) => merged \subseteq data[w].covers /\ pruned \cap data[w].covers = {}
            /\ pc[w] \in {"begin", "prune"} => gone[w] \notin merged

IInv == Types /\ OneRowEach /\ HeldIsReport /\ RowAfterDoc /\ OneAtATime /\ GoneIsDeleted
        /\ HistoryOfFiles /\ HeldMatchesFiles /\ MarkHasRunner /\ ReportMatchesFiles
-----------------------------------------------------------------------------
(* What is done to a report. *)

\* A report is never the report that does not exist.
LEMMA ReportsExist == ASSUME NEW r \in Report PROVE r # NoReport /\ r.covers \subseteq File
  BY DEF Report, NoReport

\* A delta and a removal change what a report covers, nothing else.
LEMMA Covering ==
    ASSUME NEW r \in Report, NEW c \in SUBSET File
    PROVE  /\ [r EXCEPT !.covers = c] \in Report
           /\ [r EXCEPT !.covers = c].covers = c
  BY DEF Report

\* The second phase leaves what a report covers.
LEMMA Finishing ==
    ASSUME NEW r \in Report, NEW prose \in BOOLEAN
    PROVE  /\ [r EXCEPT !.status = "ready", !.prose = prose] \in Report
           /\ [r EXCEPT !.status = "ready", !.prose = prose].covers = r.covers
  BY DEF Report

\* The agent's report covers the files there are.
LEMMA Making ==
    ASSUME NEW c \in SUBSET File, NEW raw \in BOOLEAN
    PROVE  [covers |-> c, status |-> IF raw THEN "ready" ELSE "generating", prose |-> raw]
               \in Report
  BY DEF Report

\* A thread's own value in a function of the threads.
LEMMA ThreadValue ==
    ASSUME NEW S, NEW h \in [Run -> S], NEW w \in Run, NEW x \in S
    PROVE  /\ [h EXCEPT ![w] = x] \in [Run -> S]
           /\ [h EXCEPT ![w] = x][w] = x
           /\ \A v \in Run \ {w} : [h EXCEPT ![w] = x][v] = h[v]
  OBVIOUS

-----------------------------------------------------------------------------
(* Types. *)

\* Every step keeps the types, and what a thread holds a report.
LEMMA TypesStep == Types /\ HeldIsReport /\ [Next]_vars => (Types /\ HeldIsReport)'
<1> SUFFICES ASSUME Types, HeldIsReport, [Next]_vars PROVE (Types /\ HeldIsReport)'
  OBVIOUS
<1> USE IntelBounds DEF Types, HeldIsReport, Holds, threadVars, history, Goto, Made
<1>1. ASSUME NEW f \in File, Upload(f) PROVE (Types /\ HeldIsReport)'
  BY <1>1 DEF Upload
<1>2. ASSUME NEW f \in File, DeleteFile(f) PROVE (Types /\ HeldIsReport)'
  BY <1>2 DEF DeleteFile
<1>3. ASSUME DeleteSession PROVE (Types /\ HeldIsReport)'
  BY <1>3 DEF DeleteSession
<1>4. ASSUME VmEnds PROVE (Types /\ HeldIsReport)'
  BY <1>4 DEF VmEnds
<1>5. ASSUME Crash PROVE (Types /\ HeldIsReport)'
  <2>1. pc' \in [Run -> {"new", "begin", "delta", "prune", "full", "save", "row", "report",
                           "end", "last", "over"}]
    BY <1>5 DEF Crash
  <2>2. trigger' \in [Run -> Trigger] /\ gone' \in [Run -> File \cup {NoFile}]
    BY <1>5 DEF Crash, Forget, Trigger
  <2>3. data' \in [Run -> Report \cup {NoReport}] /\ agent' \in [Run -> BOOLEAN]
    BY <1>5 DEF Crash, Forget
  <2>4. HeldIsReport'
    BY <1>5 DEF Crash, Live
  <2> QED
    BY <1>5, <2>1, <2>2, <2>3, <2>4 DEF Crash
<1>6. ASSUME NEW w \in Run, NEW t \in Trigger, NEW f \in File \cup {NoFile}, Generate(w, t, f)
      PROVE (Types /\ HeldIsReport)'
  BY <1>6 DEF Generate
<1>7. ASSUME NEW w \in Run, Begin(w) PROVE (Types /\ HeldIsReport)'
  <2>1. PICK report \in Existing : Made(w, report)
    BY <1>7 DEF Begin
  <2>2. report \in Report \cup {NoReport}
    BY DEF Existing
  <2>3. CASE trigger[w] = "file_delete"
    BY <1>7, <2>1, <2>2, <2>3 DEF Begin, Existing
  <2>4. CASE trigger[w] = "file_upload"
    BY <1>7, <2>1, <2>2, <2>4 DEF Begin, Existing
  <2>5. CASE trigger[w] = "manual"
    BY <1>7, <2>1, <2>2, <2>5 DEF Begin, Existing
  <2> QED
    BY <2>3, <2>4, <2>5 DEF Trigger
<1>8. ASSUME NEW w \in Run, Delta(w) PROVE (Types /\ HeldIsReport)'
  <2>1. data[w] \in Report
    BY <1>8 DEF Delta
  <2>2. CASE vm
    <3>1. PICK found \in SUBSET files, more \in SUBSET (described \cap files) :
              /\ Discover(found)
              /\ \/ Made(w, Extended(data[w], (found \ described) \cup more)) /\ Goto(w, "save")
                 \/ Made(w, NoReport) /\ Goto(w, "full")
      BY <1>8, <2>2 DEF Delta
    <3> DEFINE new == Extended(data[w], (found \ described) \cup more)
    <3>2. data[w].covers \cup ((found \ described) \cup more) \in SUBSET File
      BY <2>1, ReportsExist
    <3>3. new \in Report
      BY <2>1, <3>2, Covering DEF Extended
    <3> HIDE DEF new
    <3>4. described' \subseteq File
      BY <3>1 DEF Discover
    <3>5. CASE Made(w, new) /\ Goto(w, "save")
      BY <1>8, <3>3, <3>4, <3>5 DEF Delta
    <3>6. CASE Made(w, NoReport) /\ Goto(w, "full")
      BY <1>8, <3>4, <3>6 DEF Delta
    <3> QED
      BY <3>1, <3>5, <3>6 DEF new
  <2>3. CASE ~vm
    BY <1>8, <2>3 DEF Delta
  <2> QED
    BY <2>2, <2>3
<1>9. ASSUME NEW w \in Run, Prune(w) PROVE (Types /\ HeldIsReport)'
  <2>1. data[w] \in Report
    BY <1>9 DEF Prune
  <2> DEFINE new == [data[w] EXCEPT !.covers = @ \ {gone[w]}]
  <2>2. new \in Report
    BY <2>1, ReportsExist, Covering
  <2> HIDE DEF new
  <2>3. CASE Made(w, new) /\ Goto(w, "save")
    BY <1>9, <2>2, <2>3 DEF Prune
  <2>4. CASE Made(w, NoReport) /\ Goto(w, "last")
    BY <1>9, <2>4 DEF Prune
  <2> QED
    BY <1>9, <2>3, <2>4 DEF Prune, new
<1>10. ASSUME NEW w \in Run, Full(w) PROVE (Types /\ HeldIsReport)'
  <2>1. CASE /\ Goto(w, "last") /\ UNCHANGED <<described, data, agent>>
    BY <1>10, <2>1 DEF Full
  <2>2. ASSUME NEW found \in SUBSET files, NEW raw \in BOOLEAN, Discover(found),
               Made(w, [covers |-> files, status |-> IF raw THEN "ready" ELSE "generating",
                        prose |-> raw]),
               agent' = [agent EXCEPT ![w] = TRUE], Goto(w, "save")
        PROVE  (Types /\ HeldIsReport)'
    <3> DEFINE new == [covers |-> files, status |-> IF raw THEN "ready" ELSE "generating",
                       prose |-> raw]
    <3>1. new \in Report
      BY Making
    <3> HIDE DEF new
    <3>2. Made(w, new)
      BY <2>2 DEF new
    <3> QED
      BY <1>10, <2>2, <3>1, <3>2 DEF Full, Discover
  <2> QED
    BY <1>10, <2>1, <2>2 DEF Full
<1>11. ASSUME NEW w \in Run, SaveDoc(w) PROVE (Types /\ HeldIsReport)'
  <2>1. data[w] \in Report
    BY <1>11 DEF SaveDoc
  <2> QED
    BY <1>11, <2>1 DEF SaveDoc
<1>12. ASSUME NEW w \in Run, SaveRow(w) PROVE (Types /\ HeldIsReport)'
  BY <1>12 DEF SaveRow
<1>13. ASSUME NEW w \in Run, WriteReport(w) PROVE (Types /\ HeldIsReport)'
  <2>1. data[w] \in Report
    BY <1>13 DEF WriteReport
  <2>2. PICK prose \in BOOLEAN :
            Made(w, [data[w] EXCEPT !.status = "ready", !.prose = prose])
            /\ doc' = [data[w] EXCEPT !.status = "ready", !.prose = prose]
    BY <1>13 DEF WriteReport
  <2> DEFINE new == [data[w] EXCEPT !.status = "ready", !.prose = prose]
  <2>3. new \in Report
    BY <2>1, Finishing
  <2> HIDE DEF new
  <2>4. Made(w, new) /\ doc' = new
    BY <2>2 DEF new
  <2> QED
    BY <1>13, <2>3, <2>4 DEF WriteReport
<1>14. ASSUME NEW w \in Run, ReportUnsaved(w) PROVE (Types /\ HeldIsReport)'
  BY <1>14 DEF ReportUnsaved
<1>15. ASSUME NEW w \in Run, Finally(w) PROVE (Types /\ HeldIsReport)'
  <2>1. trigger' \in [Run -> Trigger] /\ gone' \in [Run -> File \cup {NoFile}]
    BY <1>15 DEF Finally, Forget, Trigger
  <2>2. data' \in [Run -> Report \cup {NoReport}] /\ agent' \in [Run -> BOOLEAN]
    BY <1>15 DEF Finally, Forget
  <2>3. HeldIsReport'
    BY <1>15 DEF Finally, Forget
  <2> QED
    BY <1>15, <2>1, <2>2, <2>3 DEF Finally
<1>16. CASE UNCHANGED vars
  BY <1>16 DEF vars
<1> QED
  BY <1>1, <1>2, <1>3, <1>4, <1>5, <1>6, <1>7, <1>8, <1>9, <1>10, <1>11, <1>12,
     <1>13, <1>14, <1>15, <1>16
     DEF Next, Thread

-----------------------------------------------------------------------------
(* The row. *)

\* Who starts writes nothing yet, and nobody comes back: a generation that has not
\* written its row was there before the step.
LEMMA FewerBefore ==
    ASSUME Types, Types', Before' \subseteq Before, row' = row, OneRowEach
    PROVE  OneRowEach'
<1>1. IsFiniteSet(Before) /\ IsFiniteSet(Before')
  <2>1. IsFiniteSet(Run)
    BY IntelBounds, FS_Interval DEF Run
  <2> QED
    BY <2>1, FS_Subset DEF Before
<1>2. Cardinality(Before') <= Cardinality(Before)
  BY <1>1, FS_Subset
<1>3. Cardinality(Before) \in Nat /\ Cardinality(Before') \in Nat
  BY <1>1, FS_CardinalityType
<1> QED
  BY <1>2, <1>3, IntelBounds DEF OneRowEach, Types

\* Every row is a generation's own.
LEMMA RowStep == Types /\ Types' /\ OneRowEach /\ [Next]_vars => OneRowEach'
<1> SUFFICES ASSUME Types, Types', OneRowEach, [Next]_vars PROVE OneRowEach'
  OBVIOUS
<1> USE DEF Goto, Made, threadVars, history
<1>1. ASSUME NEW f \in File, Upload(f) PROVE OneRowEach'
  <2>1. Before' \subseteq Before /\ row' = row
    BY <1>1 DEF Upload, Before, Types
  <2> QED
    BY <2>1, FewerBefore
<1>2. ASSUME NEW f \in File, DeleteFile(f) PROVE OneRowEach'
  <2>1. Before' \subseteq Before /\ row' = row
    BY <1>2 DEF DeleteFile, Before, Types
  <2> QED
    BY <2>1, FewerBefore
<1>3. ASSUME DeleteSession PROVE OneRowEach'
  <2>1. Before' \subseteq Before /\ row' = row
    BY <1>3 DEF DeleteSession, Before, Types
  <2> QED
    BY <2>1, FewerBefore
<1>4. ASSUME VmEnds PROVE OneRowEach'
  <2>1. Before' \subseteq Before /\ row' = row
    BY <1>4 DEF VmEnds, Before, Types
  <2> QED
    BY <2>1, FewerBefore
<1>5. ASSUME Crash PROVE OneRowEach'
  <2>1. Before' \subseteq Before /\ row' = row
    BY <1>5 DEF Crash, Before, Types, Live
  <2> QED
    BY <2>1, FewerBefore
<1>6. ASSUME NEW w \in Run, NEW t \in Trigger, NEW f \in File \cup {NoFile}, Generate(w, t, f)
      PROVE OneRowEach'
  <2>1. Before' \subseteq Before /\ row' = row
    BY <1>6 DEF Generate, Before, Types
  <2> QED
    BY <2>1, FewerBefore
<1>7. ASSUME NEW w \in Run, Begin(w) PROVE OneRowEach'
  <2>1. \E label \in {"prune", "last", "delta", "full"} : Goto(w, label)
    <3>1. trigger[w] \in Trigger
      BY DEF Types
    <3> QED
      BY <1>7, <3>1 DEF Begin, Trigger
  <2>2. Before' \subseteq Before /\ row' = row
    BY <1>7, <2>1 DEF Begin, Before, Goto, Types
  <2> QED
    BY <2>2, FewerBefore
<1>8. ASSUME NEW w \in Run, Delta(w) PROVE OneRowEach'
  <2>1. Before' \subseteq Before /\ row' = row
    BY <1>8 DEF Delta, Before, Types
  <2> QED
    BY <2>1, FewerBefore
<1>9. ASSUME NEW w \in Run, Prune(w) PROVE OneRowEach'
  <2>1. Before' \subseteq Before /\ row' = row
    BY <1>9 DEF Prune, Before, Types
  <2> QED
    BY <2>1, FewerBefore
<1>10. ASSUME NEW w \in Run, Full(w) PROVE OneRowEach'
  <2>1. Before' \subseteq Before /\ row' = row
    BY <1>10 DEF Full, Before, Types
  <2> QED
    BY <2>1, FewerBefore
<1>11. ASSUME NEW w \in Run, SaveDoc(w) PROVE OneRowEach'
  <2>1. Before' \subseteq Before /\ row' = row
    BY <1>11 DEF SaveDoc, Before, Types
  <2> QED
    BY <2>1, FewerBefore
<1>12. ASSUME NEW w \in Run, SaveRow(w) PROVE OneRowEach'
  <2>1. w \in Before /\ Before' = Before \ {w}
    BY <1>12 DEF SaveRow, Before, Types
  <2>2. IsFiniteSet(Before)
    <3>1. IsFiniteSet(Run)
      BY IntelBounds, FS_Interval DEF Run
    <3> QED
      BY <3>1, FS_Subset DEF Before
  <2>3. Cardinality(Before') = Cardinality(Before) - 1 /\ Cardinality(Before) \in Nat
    BY <2>1, <2>2, FS_RemoveElement, FS_CardinalityType
  <2>4. row \in Nat /\ row' \in {row, row + 1}
    BY <1>12 DEF SaveRow, Types
  <2> QED
    BY <2>3, <2>4, IntelBounds DEF OneRowEach
<1>13. ASSUME NEW w \in Run, WriteReport(w) PROVE OneRowEach'
  <2>1. Before' \subseteq Before /\ row' = row
    BY <1>13 DEF WriteReport, Before, Types
  <2> QED
    BY <2>1, FewerBefore
<1>14. ASSUME NEW w \in Run, ReportUnsaved(w) PROVE OneRowEach'
  <2>1. Before' \subseteq Before /\ row' = row
    BY <1>14 DEF ReportUnsaved, Before, Types
  <2> QED
    BY <2>1, FewerBefore
<1>15. ASSUME NEW w \in Run, Finally(w) PROVE OneRowEach'
  <2>1. Before' \subseteq Before /\ row' = row
    BY <1>15 DEF Finally, Before, Types
  <2> QED
    BY <2>1, FewerBefore
<1>16. CASE UNCHANGED vars
  <2>1. Before' \subseteq Before /\ row' = row
    BY <1>16 DEF vars, Before
  <2> QED
    BY <2>1, FewerBefore
<1> QED
  BY <1>1, <1>2, <1>3, <1>4, <1>5, <1>6, <1>7, <1>8, <1>9, <1>10, <1>11, <1>12,
     <1>13, <1>14, <1>15, <1>16
     DEF Next, Thread

\* A mark that is set is a first phase's, and one that is taken away was its own,
\* unless generations cross.
LEMMA MarkStep ==
    Types /\ OneAtATime /\ MarkHasRunner /\ [Next]_vars
        => (OneAtATime /\ MarkHasRunner)'
<1> SUFFICES ASSUME Types, OneAtATime, MarkHasRunner, [Next]_vars
             PROVE (OneAtATime /\ MarkHasRunner)'
  OBVIOUS
<1> USE DEF Goto, Made, threadVars, history, OneAtATime, MarkHasRunner, Live, FirstPhase, Types
<1>1. ASSUME NEW f \in File, Upload(f) PROVE (OneAtATime /\ MarkHasRunner)'
  BY <1>1 DEF Upload
<1>2. ASSUME NEW f \in File, DeleteFile(f) PROVE (OneAtATime /\ MarkHasRunner)'
  BY <1>2 DEF DeleteFile
<1>3. ASSUME DeleteSession PROVE (OneAtATime /\ MarkHasRunner)'
  BY <1>3 DEF DeleteSession
<1>4. ASSUME VmEnds PROVE (OneAtATime /\ MarkHasRunner)'
  BY <1>4 DEF VmEnds
<1>5. ASSUME Crash PROVE (OneAtATime /\ MarkHasRunner)'
  BY <1>5 DEF Crash
<1>6. ASSUME NEW w \in Run, NEW t \in Trigger, NEW f \in File \cup {NoFile}, Generate(w, t, f)
      PROVE (OneAtATime /\ MarkHasRunner)'
  <2>1. MarkHasRunner'
    <3>1. w \in FirstPhase' /\ mark' = t
      BY <1>6 DEF Generate
    <3> QED
      BY <3>1 DEF Trigger
  <2>2. ASSUME "crossed" \notin excused' PROVE \A v, u \in Live' : v = u
    <3>1. Live = {}
      BY <1>6, <2>2 DEF Generate
    <3>2. Live' = {w}
      BY <1>6, <3>1 DEF Generate
    <3> QED
      BY <3>2
  <2> QED
    BY <2>1, <2>2
<1>7. ASSUME NEW w \in Run, Begin(w) PROVE (OneAtATime /\ MarkHasRunner)'
  <2>1. \E label \in {"prune", "last", "delta", "full"} : Goto(w, label)
    <3>1. trigger[w] \in Trigger
      OBVIOUS
    <3> QED
      BY <1>7, <3>1 DEF Begin, Trigger
  <2> QED
    BY <1>7, <2>1 DEF Begin
<1>8. ASSUME NEW w \in Run, Delta(w) PROVE (OneAtATime /\ MarkHasRunner)'
  <2>1. /\ pc[w] = "delta" /\ (Goto(w, "full") \/ Goto(w, "save"))
        /\ UNCHANGED <<mark, trigger, excused>>
    BY <1>8 DEF Delta
  <2> QED
    BY <2>1
<1>9. ASSUME NEW w \in Run, Prune(w) PROVE (OneAtATime /\ MarkHasRunner)'
  BY <1>9 DEF Prune
<1>10. ASSUME NEW w \in Run, Full(w) PROVE (OneAtATime /\ MarkHasRunner)'
  BY <1>10 DEF Full
<1>11. ASSUME NEW w \in Run, SaveDoc(w) PROVE (OneAtATime /\ MarkHasRunner)'
  BY <1>11 DEF SaveDoc
<1>12. ASSUME NEW w \in Run, SaveRow(w) PROVE (OneAtATime /\ MarkHasRunner)'
  BY <1>12 DEF SaveRow
<1>13. ASSUME NEW w \in Run, WriteReport(w) PROVE (OneAtATime /\ MarkHasRunner)'
  BY <1>13 DEF WriteReport
<1>14. ASSUME NEW w \in Run, ReportUnsaved(w) PROVE (OneAtATime /\ MarkHasRunner)'
  BY <1>14 DEF ReportUnsaved
<1>15. ASSUME NEW w \in Run, Finally(w) PROVE (OneAtATime /\ MarkHasRunner)'
  BY <1>15 DEF Finally
<1>16. CASE UNCHANGED vars
  BY <1>16 DEF vars
<1> QED
  BY <1>1, <1>2, <1>3, <1>4, <1>5, <1>6, <1>7, <1>8, <1>9, <1>10, <1>11, <1>12,
     <1>13, <1>14, <1>15, <1>16
     DEF Next, Thread

\* The object is written before the row, and only a report is written.
LEMMA DocStep == Types /\ HeldIsReport /\ RowAfterDoc /\ [Next]_vars => RowAfterDoc'
<1> SUFFICES ASSUME Types, HeldIsReport, RowAfterDoc, [Next]_vars PROVE RowAfterDoc'
  OBVIOUS
<1> USE DEF Goto, Made, threadVars, history, RowAfterDoc, Types, HeldIsReport, Holds
<1>1. ASSUME NEW f \in File, Upload(f) PROVE RowAfterDoc'
  BY <1>1 DEF Upload
<1>2. ASSUME NEW f \in File, DeleteFile(f) PROVE RowAfterDoc'
  BY <1>2 DEF DeleteFile
<1>3. ASSUME DeleteSession PROVE RowAfterDoc'
  BY <1>3 DEF DeleteSession
<1>4. ASSUME VmEnds PROVE RowAfterDoc'
  BY <1>4 DEF VmEnds
<1>5. ASSUME Crash PROVE RowAfterDoc'
  BY <1>5 DEF Crash
<1>6. ASSUME NEW w \in Run, NEW t \in Trigger, NEW f \in File \cup {NoFile}, Generate(w, t, f)
      PROVE RowAfterDoc'
  BY <1>6 DEF Generate
<1>7. ASSUME NEW w \in Run, Begin(w) PROVE RowAfterDoc'
  <2>1. \E label \in {"prune", "last", "delta", "full"} : Goto(w, label)
    <3>1. trigger[w] \in Trigger
      OBVIOUS
    <3> QED
      BY <1>7, <3>1 DEF Begin, Trigger
  <2> QED
    BY <1>7, <2>1 DEF Begin
<1>8. ASSUME NEW w \in Run, Delta(w) PROVE RowAfterDoc'
  BY <1>8 DEF Delta
<1>9. ASSUME NEW w \in Run, Prune(w) PROVE RowAfterDoc'
  BY <1>9 DEF Prune
<1>10. ASSUME NEW w \in Run, Full(w) PROVE RowAfterDoc'
  BY <1>10 DEF Full
<1>11. ASSUME NEW w \in Run, SaveDoc(w) PROVE RowAfterDoc'
  <2>1. data[w] \in Report /\ data[w] # NoReport
    BY <1>11, ReportsExist DEF SaveDoc
  <2> QED
    BY <1>11, <2>1 DEF SaveDoc
<1>12. ASSUME NEW w \in Run, SaveRow(w) PROVE RowAfterDoc'
  BY <1>12 DEF SaveRow
<1>13. ASSUME NEW w \in Run, WriteReport(w) PROVE RowAfterDoc'
  <2>1. data[w] \in Report
    BY <1>13 DEF WriteReport
  <2>2. PICK prose \in BOOLEAN : doc' = [data[w] EXCEPT !.status = "ready", !.prose = prose]
    BY <1>13 DEF WriteReport
  <2>3. doc' # NoReport
    BY <2>1, <2>2, Finishing, ReportsExist
  <2> QED
    BY <1>13, <2>3 DEF WriteReport
<1>14. ASSUME NEW w \in Run, ReportUnsaved(w) PROVE RowAfterDoc'
  BY <1>14 DEF ReportUnsaved
<1>15. ASSUME NEW w \in Run, Finally(w) PROVE RowAfterDoc'
  BY <1>15 DEF Finally
<1>16. CASE UNCHANGED vars
  BY <1>16 DEF vars
<1> QED
  BY <1>1, <1>2, <1>3, <1>4, <1>5, <1>6, <1>7, <1>8, <1>9, <1>10, <1>11, <1>12,
     <1>13, <1>14, <1>15, <1>16
     DEF Next, Thread

-----------------------------------------------------------------------------
(* Which files the report covers. *)

\* A generation that deletes goes by the pruning, and the others have nothing to prune.
LEMMA GoneStep == Types /\ HeldIsReport /\ GoneIsDeleted /\ [Next]_vars => GoneIsDeleted'
<1> SUFFICES ASSUME Types, HeldIsReport, GoneIsDeleted, [Next]_vars PROVE GoneIsDeleted'
  OBVIOUS
<1> USE DEF Goto, Made, threadVars, history, GoneIsDeleted, Types, HeldIsReport, Holds
<1>1. ASSUME NEW f \in File, Upload(f) PROVE GoneIsDeleted'
  BY <1>1 DEF Upload
<1>2. ASSUME NEW f \in File, DeleteFile(f) PROVE GoneIsDeleted'
  BY <1>2 DEF DeleteFile
<1>3. ASSUME DeleteSession PROVE GoneIsDeleted'
  BY <1>3 DEF DeleteSession
<1>4. ASSUME VmEnds PROVE GoneIsDeleted'
  BY <1>4 DEF VmEnds
<1>5. ASSUME Crash PROVE GoneIsDeleted'
  BY <1>5 DEF Crash, Live, Forget
<1>6. ASSUME NEW w \in Run, NEW t \in Trigger, NEW f \in File \cup {NoFile}, Generate(w, t, f)
      PROVE GoneIsDeleted'
  BY <1>6 DEF Generate
<1>7. ASSUME NEW w \in Run, Begin(w) PROVE GoneIsDeleted'
  <2>1. CASE trigger[w] = "file_delete"
    BY <1>7, <2>1 DEF Begin
  <2>2. CASE trigger[w] = "file_upload"
    BY <1>7, <2>2 DEF Begin
  <2>3. CASE trigger[w] = "manual"
    BY <1>7, <2>3 DEF Begin
  <2> QED
    BY <2>1, <2>2, <2>3 DEF Trigger
<1>8. ASSUME NEW w \in Run, Delta(w) PROVE GoneIsDeleted'
  BY <1>8 DEF Delta
<1>9. ASSUME NEW w \in Run, Prune(w) PROVE GoneIsDeleted'
  <2>1. data[w] \in Report
    BY <1>9 DEF Prune
  <2>2. CASE Goto(w, "last")
    BY <1>9, <2>2 DEF Prune
  <2>3. CASE Made(w, [data[w] EXCEPT !.covers = @ \ {gone[w]}]) /\ Goto(w, "save")
    <3>1. data' = [data EXCEPT ![w] = [data[w] EXCEPT !.covers = data[w].covers \ {gone[w]}]]
      BY <2>3
    <3>2. data'[w] = [data[w] EXCEPT !.covers = data[w].covers \ {gone[w]}]
      BY <3>1
    <3>3. data'[w].covers = data[w].covers \ {gone[w]}
      BY <2>1, <3>2, ReportsExist, Covering
    <3>4. gone' = gone /\ \A v \in Run \ {w} : data'[v] = data[v] /\ pc'[v] = pc[v]
      BY <1>9, <2>3, <3>1 DEF Prune
    <3>5. pc'[w] = "save"
      BY <2>3
    <3> HIDE DEF Goto, Made
    <3> QED
      BY <3>3, <3>4, <3>5, <1>9 DEF Prune
  <2> QED
    BY <1>9, <2>2, <2>3 DEF Prune
<1>10. ASSUME NEW w \in Run, Full(w) PROVE GoneIsDeleted'
  BY <1>10 DEF Full
<1>11. ASSUME NEW w \in Run, SaveDoc(w) PROVE GoneIsDeleted'
  BY <1>11 DEF SaveDoc
<1>12. ASSUME NEW w \in Run, SaveRow(w) PROVE GoneIsDeleted'
  BY <1>12 DEF SaveRow
<1>13. ASSUME NEW w \in Run, WriteReport(w) PROVE GoneIsDeleted'
  BY <1>13 DEF WriteReport
<1>14. ASSUME NEW w \in Run, ReportUnsaved(w) PROVE GoneIsDeleted'
  BY <1>14 DEF ReportUnsaved
<1>15. ASSUME NEW w \in Run, Finally(w) PROVE GoneIsDeleted'
  BY <1>15 DEF Finally, Forget
<1>16. CASE UNCHANGED vars
  BY <1>16 DEF vars
<1> QED
  BY <1>1, <1>2, <1>3, <1>4, <1>5, <1>6, <1>7, <1>8, <1>9, <1>10, <1>11, <1>12,
     <1>13, <1>14, <1>15, <1>16
     DEF Next, Thread

\* Uploads, deletions and what is stored keep the history of files in step with
\* what is on the VM.
LEMMA HistoryStep == Types /\ HistoryOfFiles /\ [Next]_vars => HistoryOfFiles'
<1> SUFFICES ASSUME Types, HistoryOfFiles, [Next]_vars PROVE HistoryOfFiles'
  OBVIOUS
<1> USE DEF threadVars, history, HistoryOfFiles, Types
<1>1. ASSUME NEW f \in File, Upload(f) PROVE HistoryOfFiles'
  BY <1>1 DEF Upload
<1>2. ASSUME NEW f \in File, DeleteFile(f) PROVE HistoryOfFiles'
  BY <1>2 DEF DeleteFile
<1>3. ASSUME DeleteSession PROVE HistoryOfFiles'
  BY <1>3 DEF DeleteSession
<1>4. ASSUME VmEnds PROVE HistoryOfFiles'
  BY <1>4 DEF VmEnds
<1>5. ASSUME Crash PROVE HistoryOfFiles'
  BY <1>5 DEF Crash
<1>6. ASSUME NEW w \in Run, NEW t \in Trigger, NEW f \in File \cup {NoFile}, Generate(w, t, f)
      PROVE HistoryOfFiles'
  BY <1>6 DEF Generate
<1>7. ASSUME NEW w \in Run, Begin(w) PROVE HistoryOfFiles'
  BY <1>7 DEF Begin
<1>8. ASSUME NEW w \in Run, Delta(w) PROVE HistoryOfFiles'
  BY <1>8 DEF Delta
<1>9. ASSUME NEW w \in Run, Prune(w) PROVE HistoryOfFiles'
  BY <1>9 DEF Prune
<1>10. ASSUME NEW w \in Run, Full(w) PROVE HistoryOfFiles'
  BY <1>10 DEF Full
<1>11. ASSUME NEW w \in Run, SaveDoc(w) PROVE HistoryOfFiles'
  BY <1>11 DEF SaveDoc
<1>12. ASSUME NEW w \in Run, SaveRow(w) PROVE HistoryOfFiles'
  BY <1>12 DEF SaveRow
<1>13. ASSUME NEW w \in Run, WriteReport(w) PROVE HistoryOfFiles'
  BY <1>13 DEF WriteReport
<1>14. ASSUME NEW w \in Run, ReportUnsaved(w) PROVE HistoryOfFiles'
  BY <1>14 DEF ReportUnsaved
<1>15. ASSUME NEW w \in Run, Finally(w) PROVE HistoryOfFiles'
  BY <1>15 DEF Finally
<1>16. CASE UNCHANGED vars
  BY <1>16 DEF vars
<1> QED
  BY <1>1, <1>2, <1>3, <1>4, <1>5, <1>6, <1>7, <1>8, <1>9, <1>10, <1>11, <1>12,
     <1>13, <1>14, <1>15, <1>16
     DEF Next, Thread

\* A step of a thread that only changes what it carries: without crossing nobody
\* else carries anything.
LEMMA Carrying ==
    ASSUME Types, Types', OneAtATime, HeldMatchesFiles, ReportMatchesFiles,
           NEW w \in Run, w \in Live,
           UNCHANGED <<doc, merged, pruned, gone, excused>>,
           \A v \in Run \ {w} : pc'[v] = pc[v],
           "crossed" \notin excused /\ Holds(w)' =>
               merged \subseteq data'[w].covers /\ pruned \cap data'[w].covers = {},
           "crossed" \notin excused /\ pc'[w] \in {"begin", "prune"} => gone[w] \notin merged
    PROVE  (HeldMatchesFiles /\ ReportMatchesFiles)'
<1>1. ReportMatchesFiles'
  BY DEF ReportMatchesFiles
<1>2. ASSUME "crossed" \notin excused, NEW v \in Run \ {w}
      PROVE  ~Holds(v)' /\ pc'[v] \notin {"begin", "prune"}
  <2>1. v \notin Live
    BY <1>2 DEF OneAtATime
  <2>2. pc'[v] \in {"new", "over"}
    BY <2>1 DEF Live
  <2> QED
    BY <2>2 DEF Holds
<1>3. HeldMatchesFiles'
  BY <1>2 DEF HeldMatchesFiles
<1> QED
  BY <1>1, <1>3


\* What is carried and what is stored cover what was merged and nothing pruned.
LEMMA MatchStep ==
    Types /\ Types' /\ HeldIsReport /\ OneAtATime /\ GoneIsDeleted /\
    HistoryOfFiles /\ HeldMatchesFiles /\ ReportMatchesFiles /\ [Next]_vars
        => (HeldMatchesFiles /\ ReportMatchesFiles)'
<1> SUFFICES ASSUME Types, Types', HeldIsReport, OneAtATime, GoneIsDeleted, HistoryOfFiles,
                    HeldMatchesFiles, ReportMatchesFiles, [Next]_vars
             PROVE (HeldMatchesFiles /\ ReportMatchesFiles)'
  OBVIOUS
<1> USE DEF Goto, Made, threadVars, history, Types, HeldIsReport, Holds, OneAtATime, Live,
         GoneIsDeleted, HistoryOfFiles, HeldMatchesFiles, ReportMatchesFiles
<1>1. ASSUME NEW f \in File, Upload(f) PROVE (HeldMatchesFiles /\ ReportMatchesFiles)'
  BY <1>1 DEF Upload
<1>2. ASSUME NEW f \in File, DeleteFile(f) PROVE (HeldMatchesFiles /\ ReportMatchesFiles)'
  BY <1>2 DEF DeleteFile
<1>3. ASSUME DeleteSession PROVE (HeldMatchesFiles /\ ReportMatchesFiles)'
  BY <1>3 DEF DeleteSession, NoReport
<1>4. ASSUME VmEnds PROVE (HeldMatchesFiles /\ ReportMatchesFiles)'
  BY <1>4 DEF VmEnds
<1>5. ASSUME Crash PROVE (HeldMatchesFiles /\ ReportMatchesFiles)'
  BY <1>5 DEF Crash, Forget
<1>6. ASSUME NEW w \in Run, NEW t \in Trigger, NEW f \in File \cup {NoFile}, Generate(w, t, f)
      PROVE (HeldMatchesFiles /\ ReportMatchesFiles)'
  BY <1>6 DEF Generate
<1>7. ASSUME NEW w \in Run, Begin(w) PROVE (HeldMatchesFiles /\ ReportMatchesFiles)'
  <2>1. PICK report \in Existing : Made(w, report)
    BY <1>7 DEF Begin
  <2>2. data'[w] = report /\ report \in {doc, NoReport}
    BY <2>1 DEF Existing
  <2>3. ~Holds(w)' \/ report = doc
    <3>1. CASE report = NoReport
      <4>1. pc'[w] \in {"last", "full"}
        <5>1. CASE trigger[w] = "file_delete"
          BY <1>7, <3>1, <2>1, <5>1 DEF Begin
        <5>2. CASE trigger[w] = "file_upload"
          BY <1>7, <3>1, <2>1, <5>2 DEF Begin
        <5>3. CASE trigger[w] = "manual"
          BY <1>7, <3>1, <2>1, <5>3 DEF Begin
        <5> QED
          BY <5>1, <5>2, <5>3 DEF Trigger
      <4> QED
        BY <4>1
    <3> QED
      BY <2>2, <3>1
  <2>4. /\ w \in Live /\ UNCHANGED <<doc, merged, pruned, gone, excused>>
        /\ "crossed" \notin excused => gone[w] \notin merged
    BY <1>7 DEF Begin
  <2>5. \A v \in Run \ {w} : pc'[v] = pc[v]
    <3>1. PICK label \in {"prune", "last", "delta", "full"} : Goto(w, label)
      <4>1. CASE trigger[w] = "file_delete"
        BY <1>7, <4>1 DEF Begin
      <4>2. CASE trigger[w] = "file_upload"
        BY <1>7, <4>2 DEF Begin
      <4>3. CASE trigger[w] = "manual"
        BY <1>7, <4>3 DEF Begin
      <4> QED
        BY <4>1, <4>2, <4>3 DEF Trigger
    <3> QED
      BY <3>1
  <2> QED
    BY <2>2, <2>3, <2>4, <2>5, Carrying
<1>8. ASSUME NEW w \in Run, Delta(w) PROVE (HeldMatchesFiles /\ ReportMatchesFiles)'
  <2>0. (Goto(w, "full") \/ Goto(w, "save")) /\ pc[w] = "delta"
    BY <1>8 DEF Delta
  <2>1. /\ w \in Live /\ UNCHANGED <<doc, merged, pruned, gone, excused>>
        /\ \A v \in Run \ {w} : pc'[v] = pc[v]
    <3>1. UNCHANGED <<doc, merged, pruned, gone, excused>>
      BY <1>8 DEF Delta
    <3> QED
      BY <2>0, <3>1
  <2>2. pc'[w] \in {"full", "save"} /\ data[w] \in Report
    BY <2>0
  <2>3. CASE pc'[w] = "save"
    <3>0. ~Goto(w, "full")
      BY <2>3
    <3> HIDE DEF Goto, Made
    <3>1. PICK found \in SUBSET files, more \in SUBSET (described \cap files) :
              Made(w, Extended(data[w], (found \ described) \cup more))
      BY <1>8, <3>0, Zenon DEF Delta
    <3> USE DEF Goto, Made
    <3> DEFINE added == (found \ described) \cup more
    <3>2. data'[w] = [data[w] EXCEPT !.covers = data[w].covers \cup added]
      BY <3>1 DEF Extended
    <3>3. data'[w].covers = data[w].covers \cup added
      BY <2>2, <3>2, ReportsExist, Covering
    <3>4. added \subseteq files
      OBVIOUS
    <3>5. "crossed" \notin excused =>
              merged \subseteq data[w].covers /\ pruned \cap data[w].covers = {}
      BY <1>8 DEF Delta
    <3> HIDE DEF added
    <3>6. "crossed" \notin excused =>
              merged \subseteq data'[w].covers /\ pruned \cap data'[w].covers = {}
      BY <3>3, <3>4, <3>5
    <3> QED
      BY <2>1, <2>3, <3>6, Carrying
  <2> QED
    BY <2>1, <2>2, <2>3, Carrying
<1>9. ASSUME NEW w \in Run, Prune(w) PROVE (HeldMatchesFiles /\ ReportMatchesFiles)'
  <2>1. /\ w \in Live /\ UNCHANGED <<doc, merged, pruned, gone, excused>>
        /\ \A v \in Run \ {w} : pc'[v] = pc[v]
    BY <1>9 DEF Prune
  <2>2. pc'[w] \in {"last", "save"} /\ data[w] \in Report
    BY <1>9 DEF Prune
  <2>3. CASE pc'[w] = "save"
    <3>1. data'[w] = [data[w] EXCEPT !.covers = data[w].covers \ {gone[w]}]
      BY <1>9, <2>3 DEF Prune
    <3>2. data'[w].covers = data[w].covers \ {gone[w]}
      BY <2>2, <3>1, ReportsExist, Covering
    <3>3. "crossed" \notin excused =>
              /\ merged \subseteq data[w].covers /\ pruned \cap data[w].covers = {}
              /\ gone[w] \notin merged
      BY <1>9 DEF Prune
    <3>4. "crossed" \notin excused =>
              merged \subseteq data'[w].covers /\ pruned \cap data'[w].covers = {}
      BY <3>2, <3>3
    <3> QED
      BY <2>1, <2>3, <3>4, Carrying
  <2> QED
    BY <2>1, <2>2, <2>3, Carrying
<1>10. ASSUME NEW w \in Run, Full(w) PROVE (HeldMatchesFiles /\ ReportMatchesFiles)'
  BY <1>10 DEF Full
<1>11. ASSUME NEW w \in Run, SaveDoc(w) PROVE (HeldMatchesFiles /\ ReportMatchesFiles)'
  BY <1>11 DEF SaveDoc
<1>12. ASSUME NEW w \in Run, SaveRow(w) PROVE (HeldMatchesFiles /\ ReportMatchesFiles)'
  BY <1>12 DEF SaveRow
<1>13. ASSUME NEW w \in Run, WriteReport(w) PROVE (HeldMatchesFiles /\ ReportMatchesFiles)'
  BY <1>13 DEF WriteReport
<1>14. ASSUME NEW w \in Run, ReportUnsaved(w) PROVE (HeldMatchesFiles /\ ReportMatchesFiles)'
  BY <1>14 DEF ReportUnsaved
<1>15. ASSUME NEW w \in Run, Finally(w) PROVE (HeldMatchesFiles /\ ReportMatchesFiles)'
  BY <1>15 DEF Finally, Forget
<1>16. CASE UNCHANGED vars
  BY <1>16 DEF vars
<1> QED
  BY <1>1, <1>2, <1>3, <1>4, <1>5, <1>6, <1>7, <1>8, <1>9, <1>10, <1>11, <1>12,
     <1>13, <1>14, <1>15, <1>16
     DEF Next, Thread

-----------------------------------------------------------------------------
(* The theorems. *)

\* The inductive invariant holds in every state.
LEMMA Inductive == Spec => []IInv
<1>1. Init => IInv
  <2> SUFFICES ASSUME Init PROVE IInv
    OBVIOUS
  <2>1. Types /\ HeldIsReport /\ RowAfterDoc /\ OneAtATime /\ GoneIsDeleted /\ HistoryOfFiles
    BY IntelBounds DEF Init, Types, Trigger, HeldIsReport, Holds, RowAfterDoc, OneAtATime, Live,
                       GoneIsDeleted, HistoryOfFiles
  <2>2. HeldMatchesFiles /\ MarkHasRunner /\ ReportMatchesFiles
    BY DEF Init, HeldMatchesFiles, Holds, MarkHasRunner, FirstPhase, ReportMatchesFiles
  <2>3. OneRowEach
    <3>1. Before = 1 .. MaxRuns /\ row = 0
      BY DEF Init, Before, Run
    <3>2. Cardinality(1 .. MaxRuns) = MaxRuns
      BY IntelBounds, FS_Interval
    <3> QED
      BY <3>1, <3>2, IntelBounds DEF OneRowEach
  <2> QED
    BY <2>1, <2>2, <2>3 DEF IInv
<1>2. IInv /\ [Next]_vars => IInv'
  <2> SUFFICES ASSUME IInv, [Next]_vars PROVE IInv'
    OBVIOUS
  <2>1. (Types /\ HeldIsReport)'
    BY TypesStep DEF IInv
  <2>2. OneRowEach'
    BY <2>1, RowStep DEF IInv
  <2>3. (OneAtATime /\ MarkHasRunner)' /\ RowAfterDoc'
    BY MarkStep, DocStep DEF IInv
  <2>4. GoneIsDeleted' /\ HistoryOfFiles'
    BY GoneStep, HistoryStep DEF IInv
  <2>5. (HeldMatchesFiles /\ ReportMatchesFiles)'
    BY <2>1, MatchStep DEF IInv
  <2> QED
    BY <2>1, <2>2, <2>3, <2>4, <2>5 DEF IInv
<1> QED
  BY <1>1, <1>2, PTL DEF Spec

\* Every state is well typed; in particular a generation writes one row at most
\* (generate_intel_async).
THEOREM TypeCorrect == Spec => []TypeOK
<1>1. IInv => TypeOK
  <2> SUFFICES ASSUME IInv PROVE TypeOK
    OBVIOUS
  <2>1. IsFiniteSet(Before)
    <3>1. IsFiniteSet(Run)
      BY IntelBounds, FS_Interval DEF Run
    <3> QED
      BY <3>1, FS_Subset DEF Before
  <2>2. row \in 0 .. MaxRuns
    BY <2>1, FS_CardinalityType, IntelBounds DEF IInv, Types, OneRowEach
  <2> QED
    BY <2>2 DEF IInv, Types, TypeOK
<1> QED
  BY <1>1, Inductive, PTL

\* The in-progress mark of a session is some running first phase's, which takes it
\* away at its end; and without crossing a first phase is marked while it runs
\* (_generating_sessions, generate_intel_async).
THEOREM MarkIsTrue == Spec => []MarkHasRunner
<1>1. IInv => MarkHasRunner
  BY DEF IInv
<1> QED
  BY <1>1, Inductive, PTL

\* GET /workbook-intel finds the report that a row announces, unless the session's
\* objects were deleted: the object is written first.
THEOREM RowIsBacked == Spec => []RowHasReport
<1>1. IInv => RowHasReport
  <2> SUFFICES ASSUME IInv, View = "error" PROVE "wiped" \in excused
    BY DEF RowHasReport
  <2>1. CASE mark # "none"
    BY <2>1 DEF View
  <2>2. CASE mark = "none" /\ row = 0
    BY <2>2 DEF View
  <2>3. CASE mark = "none" /\ row > 0 /\ doc # NoReport
    BY <2>3 DEF View
  <2>4. CASE row > 0 /\ doc = NoReport
    BY <2>4 DEF IInv, RowAfterDoc
  <2> QED
    BY <2>1, <2>2, <2>3, <2>4 DEF IInv, Types
<1> QED
  BY <1>1, Inductive, PTL

\* Unless generations cross, the stored report covers every file that a stored
\* report covered and that is still there, and none that was pruned and not uploaded
\* again: appended deltas, removals and full reports never undo each other.
THEOREM ReportIsKept == Spec => []ReportMatchesFiles
<1>1. IInv => ReportMatchesFiles
  BY DEF IInv
<1> QED
  BY <1>1, Inductive, PTL
=============================================================================
