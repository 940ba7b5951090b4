------------------------------- MODULE Notebook -------------------------------
(***************************************************************************)
(* A notebook tab of the web client: how its cells are run one after       *)
(* another, and how it follows the VM of its session.                      *)
(*                                                                         *)
(* JavaScript runs one task at a time, microtasks included, so the steps   *)
(* that follow an await are told apart by "task".  React decides when a    *)
(* state change is seen by the callbacks the user can reach: at once after *)
(* a click or a key, later after an answer.  Only isExecuting is followed  *)
(* through that gap; every other state is rendered at once.  A callback    *)
(* keeps the tab it was rendered with, through all its awaits.             *)
(***************************************************************************)
EXTENDS Naturals, Sequences

CONSTANTS
    NCells,     \* cells of the notebook, all runnable, in their order
    MaxVm,      \* bound: VMs of the session
    MaxMounts   \* bound: how often the Notebook component is mounted

ASSUME NotebookBounds == {NCells, MaxVm, MaxMounts} \subseteq Nat \ {0}

Cell == 1 .. NCells
Vm == 1 .. MaxVm
Mount == 1 .. MaxMounts
None == 0

VARIABLES
    live, born,     \* the session's VMs that /instances lists; VMs launched so far
    poll,           \* answers of /instances on their way to the client (one at most)
    vm, endpoint, status, saved, failed,
                    \* the tab: microvmId, whether microvmEndpoint is set, status,
                    \* sessionSaved, _autoRestoreFailed
    mount,          \* the instance of Notebook on the screen
    spinning,       \* the cells on the screen whose status is "running"
    at,             \* of each cell's executeCell: where its job is
    tabOf, mountOf, \* the tab it was rendered with, and the instance of Notebook
    got,            \* the VM its auto-restore brought up
    queue,          \* executionQueue of each instance
    executing, seen,  \* isExecuting of the one on the screen, and as rendered
    loop,           \* the job each call's while loop awaits
    task, who,      \* what is left of the running task, and of which call
    batch, current, batchTab, batchMount,
                    \* a "run from here": the cells left, the one it awaits
    late,           \* history: jobs pushed when no loop was there to take them
    raced,          \* history: instances with jobs from a tab that was launching, till
                    \* their loops and the batch that awaits one have ended
    orphan          \* history: cells that ran when their instance was unmounted

tab == <<vm, endpoint, status, saved, failed>>
world == <<live, born, poll>>
run == <<at, tabOf, mountOf, got, loop, queue, executing, late>>
batchVars == <<batch, current, batchTab, batchMount>>
vars == <<world, tab, mount, spinning, run, seen, task, who, batchVars, raced, orphan>>

\* What executeCell makes of the tab it was rendered with: run the cell, restore
\* the session first, or nothing at all.
Plan == CASE status = "launching" \/ (endpoint /\ status = "connected") -> "run"
          [] status = "disconnected" /\ saved /\ ~failed -> "restore"
          [] OTHER -> "ignore"

\* What a callback keeps of the tab and of isExecuting.
Rendered == [vm |-> IF endpoint THEN None ELSE vm, plan |-> Plan,
             busy |-> Plan = "run" /\ seen]
NoTab == [vm |-> None, plan |-> "run", busy |-> FALSE]
TabType == [vm : Vm \cup {None}, plan : {"run", "restore", "ignore"}, busy : BOOLEAN]
Status == {"connected", "disconnected", "launching"}

\* A tab that has just been connected, or one of a page that was just loaded.
Init ==
    /\ born = 1 /\ poll = {} /\ vm = 1 /\ failed = FALSE
    /\ \/ live = {1} /\ endpoint = TRUE /\ status = "connected" /\ saved = FALSE
       \/ live \in SUBSET {1} /\ endpoint = FALSE /\ status = "disconnected" /\ saved \in BOOLEAN
    /\ mount = 1
    /\ spinning = {}
    /\ at = [c \in Cell |-> "none"]
    /\ tabOf = [c \in Cell |-> NoTab] /\ mountOf = [c \in Cell |-> 1]
    /\ got = [c \in Cell |-> None] /\ loop = [c \in Cell |-> None]
    /\ queue = [m \in Mount |-> <<>>]
    /\ executing = FALSE /\ seen = FALSE
    /\ task = "idle" /\ who = 1
    /\ batch = <<>> /\ current = None /\ batchTab = NoTab /\ batchMount = 1
    /\ late = {} /\ raced = {} /\ orphan = {}

-----------------------------------------------------------------------------
(* executeCell. *)

\* setCells, which does nothing once the component is unmounted.
ShowRunning(c, m) ==
    /\ spinning' = IF m = mount THEN spinning \cup {c} ELSE spinning
    /\ orphan' = IF m = mount THEN orphan \ {c} ELSE orphan
ShowEnded(c, m) ==
    /\ spinning' = IF m = mount THEN spinning \ {c} ELSE spinning
    /\ orphan' = IF m = mount THEN orphan \ {c} ELSE orphan

\* setIsExecuting
Execute(m, b) == executing' = IF m = mount THEN b ELSE executing

\* All that a job needs to know of its tab is whether it had an endpoint.
Job(t) == [NoTab EXCEPT !.vm = t.vm]

\* The job of a call is over; a call that has a loop still knows its instance.
Over(c) ==
    /\ at' = [at EXCEPT ![c] = "none"] /\ tabOf' = [tabOf EXCEPT ![c] = NoTab]
    /\ mountOf' = IF loop[c] = None THEN [mountOf EXCEPT ![c] = 1] ELSE mountOf

HasLoop(m) == \E o \in Cell : loop[o] # None /\ mountOf[o] = m

\* Bug: every run starts a loop of its own.
PushUnguarded(c, t, m) ==
    /\ queue' = [queue EXCEPT ![m] = Append(@, c)]
    /\ at' = [at EXCEPT ![c] = "queued"]
    /\ tabOf' = [tabOf EXCEPT ![c] = Job(t)] /\ mountOf' = [mountOf EXCEPT ![c] = m]
    /\ who' = c
    /\ Execute(m, TRUE) /\ task' = "drain" /\ UNCHANGED late

\* The job joins the queue; the call that finds nothing executing drains it.
Push(c, t, m) ==
    /\ queue' = [queue EXCEPT ![m] = Append(@, c)]
    /\ at' = [at EXCEPT ![c] = "queued"]
    /\ tabOf' = [tabOf EXCEPT ![c] = Job(t)] /\ mountOf' = [mountOf EXCEPT ![c] = m]
    /\ who' = c
    /\ \/ /\ ~t.busy
          /\ Execute(m, TRUE)
          /\ task' = "drain"
          /\ UNCHANGED late
       \/ /\ t.busy
          /\ late' = IF HasLoop(m) THEN late ELSE late \cup {c}
          /\ task' = "return"
          /\ UNCHANGED executing

\* Without an endpoint the call first looks its VM up in /instances.
Begin(c, t, m) ==
    \/ t.vm = None /\ t.plan = "run" /\ Push(c, t, m)
    \/ /\ t.vm = None /\ t.plan = "ignore"
       /\ task' = "return" /\ who' = c
       /\ UNCHANGED <<at, tabOf, mountOf, queue, executing, late>>
    \/ /\ t.vm # None
       /\ at' = [at EXCEPT ![c] = "lookup"]
       /\ tabOf' = [tabOf EXCEPT ![c] = t] /\ mountOf' = [mountOf EXCEPT ![c] = m]
       /\ task' = "idle" /\ who' = 1
       /\ UNCHANGED <<queue, executing, late>>

\* Bound: one call of a cell at a time.
Free(c) == at[c] = "none" /\ loop[c] = None /\ c \notin {batch[i] : i \in DOMAIN batch}

\* Run, or Shift+Enter; React renders a click before the next event.
Click(c) ==
    /\ task = "idle" /\ Free(c) /\ c # current
    /\ Begin(c, Rendered, mount)
    /\ seen' = (seen \/ (endpoint /\ Plan = "run"))
    /\ UNCHANGED <<world, tab, mount, spinning, got, loop, batchVars, raced, orphan>>

\* "Run from here" awaits executeCell of one cell after the other, all of them
\* with the tab of the click.
RunFrom(c) ==
    /\ task = "idle" /\ current = None
    /\ \A d \in c .. NCells : Free(d)
    /\ current' = c /\ batch' = [i \in 1 .. NCells - c |-> c + i]
    /\ batchTab' = Rendered /\ batchMount' = mount
    /\ Begin(c, Rendered, mount)
    /\ seen' = (seen \/ (endpoint /\ Plan = "run"))
    /\ UNCHANGED <<world, tab, mount, spinning, got, loop, raced, orphan>>

\* The call ends without another effect; a batch that awaited it goes on.
Return ==
    /\ task = "return"
    /\ \/ /\ who = current /\ batch # <<>>
          /\ current' = Head(batch) /\ batch' = Tail(batch)
          /\ Begin(Head(batch), batchTab, batchMount)
          /\ UNCHANGED <<batchTab, batchMount>>
       \/ /\ who = current /\ batch = <<>>
          /\ current' = None /\ batchTab' = NoTab /\ batchMount' = 1
          /\ task' = "idle" /\ who' = 1
          /\ UNCHANGED <<at, tabOf, mountOf, queue, executing, late, batch>>
       \/ /\ who # current
          /\ task' = "idle" /\ who' = 1
          /\ UNCHANGED <<at, tabOf, mountOf, queue, executing, late, batchVars>>
    /\ UNCHANGED <<world, tab, mount, spinning, got, loop, seen, raced, orphan>>

\* The loop sends the job at the head of the queue ...
Shift(o, m) ==
    LET c == Head(queue[m]) IN
    /\ queue[m] # <<>>
    /\ queue' = [queue EXCEPT ![m] = Tail(@)]
    /\ loop' = [loop EXCEPT ![o] = c]
    /\ at' = [at EXCEPT ![c] = "sent"]
    /\ late' = late \ {c}
    /\ ShowRunning(c, m)
    /\ task' = "idle" /\ who' = 1
    /\ UNCHANGED <<executing, mountOf, raced>>

\* ... or ends when there is none.
LoopEnds(o, m) ==
    /\ Execute(m, FALSE)
    /\ loop' = [loop EXCEPT ![o] = None]
    /\ mountOf' = IF at[o] = "none" THEN [mountOf EXCEPT ![o] = 1] ELSE mountOf
    /\ raced' = IF \/ \E p \in Cell \ {o} : loop[p] # None /\ mountOf[p] = m
                   \/ o = current /\ batch # <<>>
                THEN raced ELSE raced \ {m}
    /\ task' = "return"
    /\ UNCHANGED <<who, queue, at, late, spinning, orphan>>

Drain ==
    /\ task = "drain"
    /\ LET m == mountOf[who] IN
         Shift(who, m) \/ (queue[m] = <<>> /\ LoopEnds(who, m))
    /\ UNCHANGED <<world, tab, mount, tabOf, got, seen, batchVars>>

\* Bug: an answer that cannot be parsed returns without marking the cell.
AnswerUnmarked(o) ==
    LET c == loop[o] IN
    /\ task = "idle" /\ c # None
    /\ Over(c)
    /\ \/ ShowEnded(c, mountOf[o])
       \/ UNCHANGED <<spinning, orphan>>
    /\ task' = "drain" /\ who' = o
    /\ UNCHANGED <<world, tab, mount, got, loop, queue, executing, late, seen, batchVars,
                   raced>>

\* /execute answers, or fails.  (A job whose tab had no endpoint yet went to an
\* address that is none.)
Answer(o) ==
    LET c == loop[o] IN
    /\ task = "idle" /\ c # None
    /\ Over(c)
    /\ ShowEnded(c, mountOf[o])
    /\ task' = "drain" /\ who' = o
    /\ UNCHANGED <<world, tab, mount, got, loop, queue, executing, late, seen, batchVars,
                   raced>>

-----------------------------------------------------------------------------
(* A call without an endpoint: look up, restore. *)

\* The tab is connected when /instances answers and lists its VM; the call goes
\* on with the status it was rendered with.
ConnectIfListed(c) ==
    \/ /\ tabOf[c].vm \in live
       /\ endpoint' = TRUE /\ status' = "connected"
    \/ UNCHANGED <<endpoint, status>>

\* A saved session is launched again, whatever the lookup has found.
LookedRestore(c) ==
    /\ task = "idle" /\ at[c] = "lookup" /\ tabOf[c].plan = "restore"
    /\ endpoint' \in {endpoint, endpoint \/ tabOf[c].vm \in live}
    /\ status' = "launching"
    /\ ShowRunning(c, mountOf[c])
    /\ at' = [at EXCEPT ![c] = "asked"] /\ tabOf' = [tabOf EXCEPT ![c] = NoTab]
    /\ UNCHANGED <<world, vm, saved, failed, mount, mountOf, got, loop, queue,
                   executing, late, seen, task, who, batchVars, raced>>

\* A session that is not known to be saved is not run at all.
LookedIgnored(c) ==
    /\ task = "idle" /\ at[c] = "lookup" /\ tabOf[c].plan = "ignore"
    /\ ConnectIfListed(c)
    /\ Over(c)
    /\ task' = "return" /\ who' = c
    /\ UNCHANGED <<world, vm, saved, failed, mount, spinning, got, loop, queue, executing,
                   late, seen, batchVars, raced, orphan>>

\* While the tab is launching a call goes on to the queue.
LookedLaunching(c) ==
    /\ task = "idle" /\ at[c] = "lookup" /\ tabOf[c].plan = "run"
    /\ ConnectIfListed(c)
    /\ Push(c, tabOf[c], mountOf[c])
    /\ raced' = raced \cup {mountOf[c]}
    /\ UNCHANGED <<world, vm, saved, failed, mount, spinning, got, loop, seen, batchVars,
                   orphan>>

\* The proxy brings a VM up for the session ...
LaunchUp(c) ==
    /\ at[c] = "asked" /\ born < MaxVm
    /\ born' = born + 1
    /\ live' = live \cup {born'}
    /\ at' = [at EXCEPT ![c] = "up"] /\ got' = [got EXCEPT ![c] = born']
    /\ UNCHANGED <<poll, tab, mount, spinning, tabOf, mountOf, loop, queue, executing, late,
                   seen, task, who, batchVars, raced, orphan>>

\* What a restoring call leaves behind.
RestoreOver(c) ==
    /\ Over(c)
    /\ got' = [got EXCEPT ![c] = None]
    /\ task' = "return" /\ who' = c
    /\ UNCHANGED <<world, mount, loop, queue, executing, late, seen, batchVars, raced>>

\* Bug: the tab is connected without its endpoint.
LaunchUnreachable(c) ==
    /\ task = "idle" /\ at[c] = "up"
    /\ vm' = got[c] /\ status' = "connected" /\ saved' = FALSE
    /\ ShowEnded(c, mountOf[c])
    /\ RestoreOver(c)
    /\ UNCHANGED <<endpoint, failed>>

\* ... and answers: the tab is moved to it and the cell wants another click.
LaunchAnswered(c) ==
    /\ task = "idle" /\ at[c] = "up"
    /\ vm' = got[c] /\ endpoint' = TRUE /\ status' = "connected" /\ saved' = FALSE
    /\ ShowEnded(c, mountOf[c])
    /\ RestoreOver(c)
    /\ UNCHANGED failed

\* Bug: a failed restore leaves the guard state in the tab.
FailLaunching(c) ==
    /\ task = "idle" /\ at[c] \in {"asked", "up"}
    /\ failed' = TRUE
    /\ ShowEnded(c, mountOf[c])
    /\ RestoreOver(c)
    /\ UNCHANGED <<vm, endpoint, status, saved>>

\* The launch, or its answer, fails: the tab is never restored by itself again.
LaunchFails(c) ==
    /\ task = "idle" /\ at[c] \in {"asked", "up"}
    /\ status' = "disconnected" /\ failed' = TRUE
    /\ ShowEnded(c, mountOf[c])
    /\ RestoreOver(c)
    /\ UNCHANGED <<vm, endpoint, saved>>

-----------------------------------------------------------------------------
(* The rest of the tab. *)

\* interruptExecution marks every running cell, before its answer is there.
Interrupt ==
    /\ task = "idle" /\ endpoint /\ spinning # {}
    /\ spinning' = {}
    /\ orphan' = {}
    /\ UNCHANGED <<world, tab, mount, run, seen, task, who, batchVars, raced>>

\* React gets round to rendering isExecuting.
Render ==
    /\ task = "idle" /\ seen # executing
    /\ seen' = executing
    /\ UNCHANGED <<world, tab, mount, spinning, run, task, who, batchVars, raced, orphan>>

\* The user looks at another tab and comes back: Notebook is keyed by its tab, so
\* another instance starts from the cells the tab kept.
Remount ==
    /\ task = "idle" /\ mount < MaxMounts
    /\ mount' = mount + 1
    /\ orphan' = spinning
    /\ executing' = FALSE /\ seen' = FALSE
    /\ UNCHANGED <<world, tab, spinning, at, tabOf, mountOf, got, loop, queue, late, task, who,
                   batchVars, raced>>

\* fetchInstances, every 10 s: what the proxy lists when it answers ...
PollAsked ==
    /\ poll = {}
    /\ poll' = {live}
    /\ UNCHANGED <<live, born, tab, mount, spinning, run, seen, task, who, batchVars,
                   raced, orphan>>

\* ... and how the tab takes it, when it is there.
PollAnswered(inst) ==
    /\ task = "idle" /\ inst \in poll
    /\ poll' = {}
    /\ \/ /\ vm \in inst                                   \* listed
          /\ endpoint' = (endpoint \/ status = "disconnected")
          /\ status' = IF status = "disconnected" THEN "connected" ELSE status
          /\ UNCHANGED <<vm, saved>>
       \/ /\ vm \notin inst /\ status = "launching"         \* left alone
          /\ UNCHANGED <<vm, endpoint, status, saved>>
       \/ /\ vm \notin inst /\ status # "launching"         \* rotated
          /\ vm' \in inst
          /\ endpoint' = TRUE /\ status' = "connected"
          /\ UNCHANGED saved
       \/ /\ inst = {} /\ status # "launching"              \* terminated
          /\ endpoint' = FALSE /\ status' = "disconnected" /\ saved' = TRUE
          /\ UNCHANGED vm
    /\ UNCHANGED <<live, born, failed, mount, spinning, run, seen, task, who, batchVars,
                   raced, orphan>>

\* A VM of the session ends, or a rotation replaces it.
VmEnds(v) ==
    /\ v \in live
    /\ \/ live' = live \ {v} /\ UNCHANGED born
       \/ /\ born < MaxVm
          /\ born' = born + 1
          /\ live' = (live \ {v}) \cup {born'}
    /\ UNCHANGED <<poll, tab, mount, spinning, run, seen, task, who, batchVars, raced, orphan>>

-----------------------------------------------------------------------------
Restoring(c) == LaunchUp(c) \/ LaunchAnswered(c) \/ LaunchFails(c)
Looked(c) == LookedRestore(c) \/ LookedIgnored(c) \/ LookedLaunching(c)
Polled == \E inst \in SUBSET Vm : PollAnswered(inst)

Next ==
    \/ \E c \in Cell : Click(c) \/ RunFrom(c) \/ Looked(c) \/ Restoring(c) \/ Answer(c)
    \/ Return \/ Drain
    \/ Interrupt \/ Remount
    \/ Render
    \/ PollAsked \/ Polled
    \/ \E v \in Vm : VmEnds(v)

Spec == Init /\ [][Next]_vars

\* Microtasks run, the poll repeats, and a launch is answered or fails (the proxy
\* has a timeout for it), although other tasks come in between.  Users, AWS and
\* rotations owe nothing, and nor does a cell that runs.
Fairness ==
    /\ WF_vars(Return \/ Drain)
    /\ WF_vars(PollAsked) /\ SF_vars(Polled)
    /\ \A c \in Cell : SF_vars(Restoring(c))

FairSpec == Spec /\ Fairness

-----------------------------------------------------------------------------
Place == {"none", "lookup", "asked", "up", "queued", "sent"}

TypeOK ==
    /\ live \in SUBSET Vm /\ born \in Vm /\ poll \in SUBSET SUBSET Vm
    /\ vm \in Vm /\ endpoint \in BOOLEAN /\ status \in Status
    /\ saved \in BOOLEAN /\ failed \in BOOLEAN
    /\ status = "connected" => endpoint
    /\ endpoint /\ status = "disconnected" => failed
    /\ mount \in Mount /\ spinning \in SUBSET Cell
    /\ at \in [Cell -> Place] /\ tabOf \in [Cell -> TabType] /\ mountOf \in [Cell -> Mount]
    /\ got \in [Cell -> Vm \cup {None}] /\ loop \in [Cell -> Cell \cup {None}]
    /\ queue \in [Mount -> Seq(Cell)]
    /\ executing \in BOOLEAN /\ seen \in BOOLEAN
    /\ task \in {"idle", "drain", "return"} /\ who \in Cell
    /\ batch \in Seq(Cell) /\ current \in Cell \cup {None}
    /\ batchTab \in TabType /\ batchMount \in Mount
    /\ late \in SUBSET Cell /\ raced \in SUBSET Mount /\ orphan \in SUBSET Cell

\* An instance of Notebook runs its cells in turn: one at a time, and none that
\* was queued behind another is left behind, whatever the user clicks while cells
\* run, batches included.  Callbacks that were rendered before a run started do not
\* start a second loop.  Runs asked for while the tab was launching are excused, with
\* the loops and the batch they met, and one that is queued after the last loop ended
\* and before that was rendered.
RunInTurn ==
    /\ \A o, p \in Cell :
          loop[o] # None /\ loop[p] # None /\ mountOf[o] = mountOf[p] /\ mountOf[o] \notin raced
              => o = p
    /\ \A c \in Cell \ late :
          at[c] = "queued" =>
              HasLoop(mountOf[c]) \/ (task = "drain" /\ mountOf[who] = mountOf[c])

\* A cell that is shown running is running, or its session is being restored:
\* each way out of executeCell clears the spinner it has set.  Cells that ran
\* when the user left the tab are excused.
RunningIsTrue ==
    \A c \in spinning \ orphan :
        mountOf[c] = mount /\ at[c] \in {"asked", "up", "sent"}

\* As long as the session has a VM, its tab gets to it: after rotations,
\* restores that fail or answer late, and polls older than what they report on.
TabFollowsSession ==
    live # {} ~> live = {} \/ (status = "connected" /\ vm \in live)

-----------------------------------------------------------------------------
(* What the code says of itself and does not keep. *)

\* useNotebookCells.js:298: cells run sequentially.  Not over a switch of tabs: the
\* new instance does not know of the loop of the old one.
SequentialInTab == \A c, d \in Cell : at[c] = "sent" /\ at[d] = "sent" => c = d

\* useNotebookCells.js:133: cells survive tab switches.  The answer to a cell that
\* ran meanwhile does not, and its spinner stays.
SpinnersEnd == \A c \in orphan : at[c] \in {"asked", "up", "sent"}

\* useNotebookCells.js:242: a session is restored if its VM was terminated.  It is
\* also launched when its VM lives, once for each cell of a batch or each click.
RestoresTheTerminated == [][\A c \in Cell : LaunchUp(c) => live = {}]_vars
=============================================================================
