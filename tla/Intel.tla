-------------------------------- MODULE Intel --------------------------------
(***************************************************************************)
(* Workbook intelligence: the report about one session's data files.       *)
(*                                                                         *)
(* A generation is a daemon thread of the proxy.  It writes the report to  *)
(* S3 and a row to the database; a full generation does so twice, first    *)
(* with the structured items (report_status "generating"), then, after it  *)
(* has given up its entry in `_generating_sessions`, with the prose.  An   *)
(* upload extends the stored report (delta), a deletion prunes it.         *)
(*                                                                         *)
(* What an item says is left out: a report covers a set of files.  The     *)
(* model's answers are external: a full report covers the files it found,  *)
(* a delta at least the newly discovered ones, a removal its own file.     *)
(* A refused request (one is running) changes nothing and has no action.   *)
(***************************************************************************)
EXTENDS Naturals, FiniteSets

CONSTANTS
    File,        \* local files of the session
    MaxRuns,     \* bound: generations started
    MaxUser      \* bound: uploads, deletions of a file, deletions of the session

ASSUME IntelBounds == MaxRuns \in Nat /\ MaxUser \in Nat

Run == 1 .. MaxRuns
Trigger == {"manual", "file_upload", "file_delete"}
Report == [covers : SUBSET File, status : {"generating", "ready"}, prose : BOOLEAN]
NoReport == [covers |-> {}, status |-> "none", prose |-> FALSE]
NoFile == "nofile"

VARIABLES
    vm,         \* has the session a VM?
    files,      \* /tmp of that VM
    described,  \* files with a ready entity document
    mark,       \* _generating_sessions[session]: the trigger, or "none"
    doc,        \* sessions/{id}/workbook-intel.json
    row,        \* version in the table workbook_intel, 0 without a row
    pc, trigger, gone,  \* of each generation; gone is its deleted_source
    data,       \* its intel_data
    agent,      \* did the full path make its data (entity_docs_for_report)?
    user,       \* the user's uploads and deletions so far
    merged,     \* history: files that a stored report covered
    pruned,     \* history: files that a stored deletion removed
    excused     \* history: what happened that the code gives no guarantee for

threadVars == <<pc, trigger, gone, data, agent>>
history == <<merged, pruned, excused>>
vars == <<vm, files, described, mark, doc, row, threadVars, user, history>>

Init ==
    /\ vm = TRUE /\ files = {} /\ described = {}
    /\ mark = "none" /\ doc = NoReport /\ row = 0
    /\ pc = [w \in Run |-> "new"] /\ trigger = [w \in Run |-> "manual"]
    /\ gone = [w \in Run |-> NoFile]
    /\ data = [w \in Run |-> NoReport] /\ agent = [w \in Run |-> FALSE]
    /\ user = 0 /\ merged = {} /\ pruned = {} /\ excused = {}

Live == {w \in Run : pc[w] \notin {"new", "over"}}
\* The generations that have not come to their second phase or their end.
FirstPhase == {w \in Run : pc[w] \in {"begin", "delta", "prune", "full", "save", "row", "last"}}
Goto(w, label) == pc' = [pc EXCEPT ![w] = label]
Made(w, report) == data' = [data EXCEPT ![w] = report]
\* The locals of a thread end with it.
Forget(threads) ==
    /\ trigger' = [w \in Run |-> IF w \in threads THEN "manual" ELSE trigger[w]]
    /\ gone' = [w \in Run |-> IF w \in threads THEN NoFile ELSE gone[w]]
    /\ data' = [w \in Run |-> IF w \in threads THEN NoReport ELSE data[w]]
    /\ agent' = [w \in Run |-> IF w \in threads THEN FALSE ELSE agent[w]]

-----------------------------------------------------------------------------
(* The user, the VM, the proxy process. *)

Upload(f) ==
    /\ vm /\ user < MaxUser
    /\ files' = files \cup {f} /\ pruned' = pruned \ {f} /\ user' = user + 1
    /\ UNCHANGED <<vm, described, mark, doc, row, threadVars, merged, excused>>

DeleteFile(f) ==
    /\ vm /\ f \in files /\ user < MaxUser
    /\ files' = files \ {f} /\ merged' = merged \ {f} /\ user' = user + 1
    /\ UNCHANGED <<vm, described, mark, doc, row, threadVars, pruned, excused>>

\* DELETE /sessions/{id} deletes the objects; the row stays.
DeleteSession ==
    /\ doc # NoReport /\ user < MaxUser
    /\ doc' = NoReport /\ merged' = {} /\ user' = user + 1
    /\ excused' = excused \cup {"wiped"}
    /\ UNCHANGED <<vm, files, described, mark, row, threadVars, pruned>>

VmEnds ==
    /\ vm /\ vm' = FALSE
    /\ UNCHANGED <<files, described, mark, doc, row, threadVars, user, history>>

\* The proxy restarts: daemon threads and the generating registry are gone.
Crash ==
    /\ Live # {} /\ "crashed" \notin excused
    /\ mark' = "none"
    /\ pc' = [w \in Run |-> IF w \in Live THEN "over" ELSE pc[w]]
    /\ Forget(Live)
    /\ excused' = excused \cup {"crashed"}
    /\ UNCHANGED <<vm, files, described, doc, row, user, merged, pruned>>

\* POST /workbook-intel/generate.
Generate(w, t, f) ==
    /\ vm /\ mark = "none"
    /\ pc[w] = "new" /\ \A v \in 1 .. w - 1 : pc[v] # "new"
    /\ t = "file_delete" <=> f # NoFile
    /\ f \notin files
    /\ mark' = t
    /\ Goto(w, "begin")
    /\ trigger' = [trigger EXCEPT ![w] = t] /\ gone' = [gone EXCEPT ![w] = f]
    /\ excused' = excused \cup (IF Live # {} THEN {"crossed"} ELSE {})
    /\ UNCHANGED <<vm, files, described, doc, row, data, agent, user, merged, pruned>>

-----------------------------------------------------------------------------
(* The generation thread, first phase. *)

\* What the row and the object hold; an object that cannot be loaded counts as none.
Existing == IF row = 0 THEN {NoReport} ELSE {doc, NoReport}

\* Bug: a deletion without a report returns without the finally.
BeginUnfinished(w) ==
    /\ pc[w] = "begin"
    /\ \E report \in Existing :
         /\ Made(w, report)
         /\ CASE trigger[w] = "file_delete" -> Goto(w, IF report # NoReport THEN "prune" ELSE "over")
              [] trigger[w] = "file_upload" -> Goto(w, IF report # NoReport THEN "delta" ELSE "full")
              [] OTHER -> Goto(w, "full")
    /\ UNCHANGED <<vm, files, described, mark, doc, row, trigger, gone, agent, user, history>>

\* Bug: an upload is a delta, whether or not the report could be loaded.
BeginBlind(w) ==
    /\ pc[w] = "begin"
    /\ \E report \in Existing :
         /\ Made(w, report)
         /\ CASE trigger[w] = "file_delete" -> Goto(w, IF report # NoReport THEN "prune" ELSE "last")
              [] trigger[w] = "file_upload" -> Goto(w, "delta")
              [] OTHER -> Goto(w, "full")
    /\ UNCHANGED <<vm, files, described, mark, doc, row, trigger, gone, agent, user, history>>

\* A deletion only prunes, an upload extends a report or makes one.
Begin(w) ==
    /\ pc[w] = "begin"
    /\ \E report \in Existing :
         /\ Made(w, report)
         /\ CASE trigger[w] = "file_delete" -> Goto(w, IF report # NoReport THEN "prune" ELSE "last")
              [] trigger[w] = "file_upload" -> Goto(w, IF report # NoReport THEN "delta" ELSE "full")
              [] OTHER -> Goto(w, "full")
    /\ UNCHANGED <<vm, files, described, mark, doc, row, trigger, gone, agent, user, history>>

\* discover_all_local_files: profile what is new; a file or the catalog may fail.
Discover(found) == found \subseteq files /\ described' = described \cup found

\* Bug: the delta replaces the report.
Replaced(report, new) == [report EXCEPT !.covers = new]

\* The delta's items are appended, the rest of the report stays.
Extended(report, new) == [report EXCEPT !.covers = @ \cup new]

Delta(w) ==
    /\ pc[w] = "delta"
    /\ \/ /\ vm
          /\ \E found \in SUBSET files, more \in SUBSET (described \cap files) :
               /\ Discover(found)
               /\ \/ Made(w, Extended(data[w], (found \ described) \cup more)) /\ Goto(w, "save")
                  \/ Made(w, NoReport) /\ Goto(w, "full")
       \/ ~vm /\ UNCHANGED described /\ Made(w, NoReport) /\ Goto(w, "full")
    /\ UNCHANGED <<vm, files, mark, doc, row, trigger, gone, agent, user, history>>

\* The removal delta, or a failure, which leaves the report as it is.
Prune(w) ==
    /\ pc[w] = "prune"
    /\ \/ Made(w, [data[w] EXCEPT !.covers = @ \ {gone[w]}]) /\ Goto(w, "save")
       \/ Made(w, NoReport) /\ Goto(w, "last")
    /\ UNCHANGED <<vm, files, described, mark, doc, row, trigger, gone, agent, user, history>>

\* The agent's report: structured, or its raw text when no JSON is found in it.
Full(w) ==
    /\ pc[w] = "full"
    /\ \/ /\ vm
          /\ \E found \in SUBSET files, raw \in BOOLEAN :
               /\ Discover(found)
               /\ Made(w, [covers |-> files, status |-> IF raw THEN "ready" ELSE "generating",
                           prose |-> raw])
          /\ agent' = [agent EXCEPT ![w] = TRUE]
          /\ Goto(w, "save")
       \/ Goto(w, "last") /\ UNCHANGED <<described, data, agent>>
    /\ UNCHANGED <<vm, files, mark, doc, row, trigger, gone, user, history>>

\* Bug: the row is written although the object could not be.
SaveDocAnyway(w) ==
    /\ pc[w] = "save" /\ Goto(w, "row")
    /\ \/ /\ doc' = data[w]
          /\ merged' = merged \cup (data[w].covers \cap files)
          /\ pruned' = pruned \cup ({gone[w]} \ (files \cup {NoFile}))
       \/ UNCHANGED <<doc, merged, pruned>>
    /\ UNCHANGED <<vm, files, described, mark, row, trigger, gone, data, agent, user, excused>>

\* put_object; if it raises, the finally ends the thread.
SaveDoc(w) ==
    /\ pc[w] = "save"
    /\ \/ /\ doc' = data[w] /\ Goto(w, "row")
          /\ merged' = merged \cup (data[w].covers \cap files)
          /\ pruned' = pruned \cup ({gone[w]} \ (files \cup {NoFile}))
       \/ Goto(w, "last") /\ UNCHANGED <<doc, merged, pruned>>
    /\ UNCHANGED <<vm, files, described, mark, row, trigger, gone, data, agent, user, excused>>

\* The row, whose failure is only logged.  A structured report of the agent goes
\* on to its second phase, unmarked.
SaveRow(w) ==
    /\ pc[w] = "row"
    /\ row' \in {row, row + 1}
    /\ IF data[w].status = "generating" /\ agent[w]
       THEN mark' = "none" /\ Goto(w, "report")
       ELSE Goto(w, "last") /\ UNCHANGED mark
    /\ UNCHANGED <<vm, files, described, doc, trigger, gone, data, agent, user, history>>

\* The thread's finally: whoever's mark it is.
Finally(w) ==
    /\ pc[w] \in {"last", "end"}
    /\ mark' = "none" /\ Goto(w, "over") /\ Forget({w})
    /\ UNCHANGED <<vm, files, described, doc, row, user, history>>

-----------------------------------------------------------------------------
(* The second phase. *)

\* Bug: the failed second phase leaves the status alone.
ReportUnready(w) ==
    /\ pc[w] = "report"
    /\ \E prose \in BOOLEAN :
         /\ Made(w, [data[w] EXCEPT !.status = IF prose THEN "ready" ELSE @, !.prose = prose])
         /\ doc' = [data[w] EXCEPT !.status = IF prose THEN "ready" ELSE @, !.prose = prose]
    /\ Goto(w, "end")
    /\ UNCHANGED <<vm, files, described, mark, row, trigger, gone, agent, user, history>>

\* With the prose, or without it when the call fails: the thread's own copy of the
\* report, ready, is stored again, whatever is stored by then.
WriteReport(w) ==
    /\ pc[w] = "report"
    /\ \E prose \in BOOLEAN :
         LET report == [data[w] EXCEPT !.status = "ready", !.prose = prose]
         IN Made(w, report) /\ doc' = report
    /\ Goto(w, "end")
    /\ UNCHANGED <<vm, files, described, mark, row, trigger, gone, agent, user, history>>

\* The put fails, and so does the put in the handler.
ReportUnsaved(w) ==
    /\ pc[w] = "report"
    /\ Goto(w, "end")
    /\ excused' = excused \cup {"unsaved"}
    /\ UNCHANGED <<vm, files, described, mark, doc, row, trigger, gone, data, agent, user,
                   merged, pruned>>

Thread(w) == Begin(w) \/ Delta(w) \/ Prune(w) \/ Full(w) \/ SaveDoc(w) \/ SaveRow(w)
             \/ WriteReport(w) \/ ReportUnsaved(w) \/ Finally(w)

Next ==
    \/ \E f \in File : Upload(f) \/ DeleteFile(f)
    \/ DeleteSession \/ VmEnds \/ Crash
    \/ \E w \in Run, t \in Trigger, f \in File \cup {NoFile} : Generate(w, t, f)
    \/ \E w \in Run : Thread(w)

Spec == Init /\ [][Next]_vars
\* Every call of a generation has a timeout, so its thread goes on.
FairSpec == Spec /\ \A w \in Run : WF_vars(Thread(w))

-----------------------------------------------------------------------------
(* GET /workbook-intel. *)
View ==
    CASE mark # "none" -> "generating"
      [] mark = "none" /\ row = 0 -> "not_generated"
      [] mark = "none" /\ row > 0 /\ doc # NoReport -> "ready"
      [] OTHER -> "error"

TypeOK ==
    /\ vm \in BOOLEAN /\ files \subseteq File /\ described \subseteq File
    /\ mark \in Trigger \cup {"none"}
    /\ doc \in Report \cup {NoReport} /\ row \in 0 .. MaxRuns
    /\ pc \in [Run -> {"new", "begin", "delta", "prune", "full", "save", "row", "report",
                       "end", "last", "over"}]
    /\ trigger \in [Run -> Trigger] /\ gone \in [Run -> File \cup {NoFile}]
    /\ data \in [Run -> Report \cup {NoReport}] /\ agent \in [Run -> BOOLEAN]
    /\ user \in 0 .. MaxUser /\ merged \subseteq File /\ pruned \subseteq File
    /\ excused \subseteq {"wiped", "crashed", "crossed", "unsaved"}

\* The mark is what refuses further requests: when it is set, a generation in its
\* first phase runs that will take it away, so no session is refused for ever.
\* Conversely, unless generations crossed, a first phase that runs is reported as
\* "generating" (store.py promises the status is the truth).
MarkHasRunner ==
    /\ mark # "none" => FirstPhase # {}
    /\ "crossed" \notin excused /\ FirstPhase # {} => mark # "none"

\* A report that is announced can be loaded: GET says "error" only after the
\* session's objects were deleted under the row.
RowHasReport == View = "error" => "wiped" \in excused

\* A file that a stored report covered, and that is still there, stays covered by
\* every later report, and a pruned one does not come back: deltas append, prunes take
\* out their file only, and no write is overtaken by an older copy, unless a
\* generation starts in another's second phase.
ReportMatchesFiles ==
    "crossed" \notin excused => merged \subseteq doc.covers /\ pruned \cap doc.covers = {}

\* A stored report does not stay at "generating", unless the proxy restarts,
\* generations cross or S3 fails twice.
ReportIsFinished ==
    doc.status = "generating" ~>
        doc.status # "generating" \/ excused \cap {"crashed", "crossed", "unsaved"} # {}

\* What the comment at generate_intel_async promises of the in-progress check: a
\* generation never overtakes another, so nothing covered is ever lost.
NoLostUpdate == merged \subseteq doc.covers
==============================================================================
