---------------------------- MODULE NotebookProofs ----------------------------
(***************************************************************************)
(* That an instance of Notebook runs its cells in turn and shows as        *)
(* running what is, for any number of cells, VMs and switches of tabs.     *)
(***************************************************************************)
EXTENDS Notebook, TLAPS

-----------------------------------------------------------------------------
(* The inductive invariant, in named parts. *)

\* The call whose loop the running task is in, and the calls that have a loop.
Draining(o) == task = "drain" /\ who = o
Looping(o) == loop[o] # None \/ Draining(o)

\* A tab whose rendering lets executeCell start a loop of its own.
Runs(t) == t.vm = None /\ t.plan = "run" /\ ~t.busy

\* The types, with the VM that a restoring call brought up.
Types ==
    /\ TypeOK
    /\ \A c \in Cell : at[c] = "up" => got[c] \in Vm

\* Nothing belongs to an instance that has not been mounted yet.
MountedBefore ==
    /\ \A c \in Cell : mountOf[c] <= mount
    /\ batchMount <= mount
    /\ \A m \in raced : m <= mount

\* What is in a queue is there once, and knows it; and it is in one while it says so.
QueuedOnce ==
    \A m \in Mount : \A i \in 1 .. Len(queue[m]) :
        /\ at[queue[m][i]] = "queued" /\ mountOf[queue[m][i]] = m
        /\ \A j \in 1 .. Len(queue[m]) : queue[m][i] = queue[m][j] => i = j
QueuedIsThere ==
    \A c \in Cell : at[c] = "queued" =>
        \E i \in 1 .. Len(queue[mountOf[c]]) : queue[mountOf[c]][i] = c

\* A loop that waits has sent a job of its instance, and no other loop has sent it.
LoopHasSent ==
    \A o \in Cell : loop[o] # None /\ ~Draining(o) =>
        /\ at[loop[o]] = "sent" /\ mountOf[loop[o]] = mountOf[o]
        /\ \A p \in Cell : loop[p] = loop[o] /\ ~Draining(p) => o = p

\* A call has no loop before its job is queued.
NoLoopBefore ==
    /\ \A c \in Cell : at[c] \in {"lookup", "asked", "up"} => loop[c] = None
    /\ \A c \in Cell : Draining(c) /\ loop[c] = None => at[c] = "queued"

\* What a batch has left are the cells after the one it awaits, and nobody has begun them.
BatchInOrder ==
    /\ \A i \in 1 .. Len(batch) :
          /\ batch[i] = current + i
          /\ at[batch[i]] = "none" /\ loop[batch[i]] = None
    /\ current = None => batch = <<>>

\* A batch that starts loops awaits the loop of its cell ...
BatchAwaits ==
    current # None /\ Runs(batchTab) =>
        /\ at[current] \in {"none", "queued", "sent"}
        /\ \/ Looping(current) /\ mountOf[current] = batchMount
           \/ task = "return" /\ who = current
\* ... and between two cells no loop is left in its instance, whose rendering still
\* says that there is one.
BatchGoesOn ==
    current # None /\ Runs(batchTab) /\ batch # <<>> /\ batchMount \notin raced
        /\ task = "return" /\ who = current
    => /\ \A o \in Cell : Looping(o) => mountOf[o] # batchMount
       /\ batchMount = mount => seen

\* An instance has one loop ...
OneLoop ==
    \A o, p \in Cell :
        Looping(o) /\ Looping(p) /\ mountOf[o] = mountOf[p] /\ mountOf[o] \notin raced => o = p
\* ... which its callbacks know of.
LoopIsSeen ==
    \A o \in Cell :
        Looping(o) /\ mountOf[o] = mount /\ mount \notin raced => executing /\ seen

\* A queued job that is not late has a loop to take it (the second half of RunInTurn).
QueuedIsServed ==
    \A c \in Cell \ late : at[c] = "queued" =>
        HasLoop(mountOf[c]) \/ (task = "drain" /\ mountOf[who] = mountOf[c])

QueueInv == QueuedOnce /\ QueuedIsThere
LoopInv == LoopHasSent /\ NoLoopBefore /\ BatchInOrder
TurnInv == BatchAwaits /\ BatchGoesOn /\ OneLoop /\ LoopIsSeen /\ QueuedIsServed
IInv == Types /\ MountedBefore /\ QueueInv /\ LoopInv /\ TurnInv /\ RunningIsTrue

-----------------------------------------------------------------------------
(* Types. *)

\* The tab that a callback was rendered with is one.
LEMMA RenderedType == TypeOK => Rendered \in TabType /\ NoTab \in TabType
  BY DEF TypeOK, Rendered, NoTab, TabType, Plan

\* The first VM and the first instance are there, and None is neither, nor a cell.
LEMMA Firsts ==
    /\ 1 \in Cell /\ 1 \in Vm /\ 1 \in Mount
    /\ None \notin Cell /\ None \notin Vm
    /\ Cell \subseteq Nat /\ Vm \subseteq Nat /\ Mount \subseteq Nat
    /\ \A n \in Vm : n < MaxVm => n + 1 \in Vm
    /\ \A n \in Mount : n < MaxMounts => n + 1 \in Mount
  BY NotebookBounds DEF Cell, Vm, Mount, None

\* The cells after a cell.
LEMMA CellsAfter ==
    ASSUME NEW c \in Cell
    PROVE  NCells - c \in Nat /\ \A i \in 1 .. NCells - c : c + i \in Cell
<1>1. NCells \in Nat
  BY NotebookBounds
<1> QED
  BY <1>1 DEF Cell

\* A tab that is connected by an answer of /instances.
LEMMA ConnectTypes ==
    ASSUME TypeOK, NEW c \in Cell, ConnectIfListed(c)
    PROVE  /\ endpoint' \in BOOLEAN /\ status' \in Status
           /\ status' = "connected" => endpoint'
           /\ endpoint' /\ status' = "disconnected" => failed
<1>1. CASE endpoint' = TRUE /\ status' = "connected"
  BY <1>1 DEF Status
<1>2. CASE UNCHANGED <<endpoint, status>>
  <2>1. endpoint' = endpoint /\ status' = status
    BY <1>2
  <2> QED
    BY <2>1 DEF TypeOK
<1> QED
  BY <1>1, <1>2 DEF ConnectIfListed

\* What a call does to the types when its job joins the queue.
LEMMA PushTypes ==
    ASSUME TypeOK, NEW c \in Cell, NEW t \in TabType, NEW m \in Mount, Push(c, t, m)
    PROVE  /\ at' \in [Cell -> Place] /\ tabOf' \in [Cell -> TabType]
           /\ mountOf' \in [Cell -> Mount] /\ queue' \in [Mount -> Seq(Cell)]
           /\ executing' \in BOOLEAN /\ late' \in SUBSET Cell
           /\ task' \in {"idle", "drain", "return"} /\ who' \in Cell
           /\ \A d \in Cell : at'[d] = "up" => at[d] = "up"
<1>1. Job(t) \in TabType
  BY DEF Job, NoTab, TabType
<1>2. Append(queue[m], c) \in Seq(Cell)
  BY DEF TypeOK
<1> QED
  BY <1>1, <1>2 DEF Push, TypeOK, Place, Execute

\* The same for a call that begins.
LEMMA BeginTypes ==
    ASSUME TypeOK, NEW c \in Cell, NEW t \in TabType, NEW m \in Mount, Begin(c, t, m)
    PROVE  /\ at' \in [Cell -> Place] /\ tabOf' \in [Cell -> TabType]
           /\ mountOf' \in [Cell -> Mount] /\ queue' \in [Mount -> Seq(Cell)]
           /\ executing' \in BOOLEAN /\ late' \in SUBSET Cell
           /\ task' \in {"idle", "drain", "return"} /\ who' \in Cell
           /\ \A d \in Cell : at'[d] = "up" => at[d] = "up"
<1>1. CASE Push(c, t, m)
  BY <1>1, PushTypes
<1>2. CASE /\ UNCHANGED <<at, tabOf, mountOf, queue, executing, late>>
           /\ task' = "return" /\ who' = c
  BY <1>2 DEF TypeOK
<1>3. CASE /\ at' = [at EXCEPT ![c] = "lookup"]
           /\ tabOf' = [tabOf EXCEPT ![c] = t] /\ mountOf' = [mountOf EXCEPT ![c] = m]
           /\ task' = "idle" /\ who' = 1
           /\ UNCHANGED <<queue, executing, late>>
  <2>1. at' \in [Cell -> Place] /\ \A d \in Cell : at'[d] = "up" => at[d] = "up"
    BY <1>3 DEF TypeOK, Place
  <2>2. tabOf' \in [Cell -> TabType] /\ mountOf' \in [Cell -> Mount]
    BY <1>3 DEF TypeOK
  <2> QED
    BY <1>3, <2>1, <2>2, Firsts DEF TypeOK
<1> QED
  BY <1>1, <1>2, <1>3 DEF Begin

\* A call that is over leaves nothing but the instance of its loop.
LEMMA OverAt ==
    ASSUME TypeOK, NEW c \in Cell, Over(c)
    PROVE  /\ at' \in [Cell -> Place] /\ tabOf' \in [Cell -> TabType]
           /\ mountOf' \in [Cell -> Mount]
           /\ at'[c] = "none" /\ \A d \in Cell : d # c => at'[d] = at[d]
           /\ \A d \in Cell : mountOf'[d] = IF d = c /\ loop[c] = None THEN 1 ELSE mountOf[d]
<1>1. at' \in [Cell -> Place] /\ at'[c] = "none" /\ \A d \in Cell : d # c => at'[d] = at[d]
  BY DEF Over, TypeOK, Place
<1>2. tabOf' \in [Cell -> TabType]
  BY RenderedType DEF Over, TypeOK
<1>3. /\ mountOf' \in [Cell -> Mount]
      /\ \A d \in Cell : mountOf'[d] = IF d = c /\ loop[c] = None THEN 1 ELSE mountOf[d]
  BY Firsts DEF Over, TypeOK
<1> QED
  BY <1>1, <1>2, <1>3

\* The initial state has the types.
LEMMA TypeInit == Init => Types
<1> SUFFICES ASSUME Init PROVE Types
  OBVIOUS
<1>1. NoTab \in TabType
  BY DEF NoTab, TabType
<1>2. at \in [Cell -> Place] /\ tabOf \in [Cell -> TabType] /\ mountOf \in [Cell -> Mount]
  BY <1>1, Firsts DEF Init, Place
<1>3. got \in [Cell -> Vm \cup {None}] /\ loop \in [Cell -> Cell \cup {None}]
  BY DEF Init
<1>4. queue \in [Mount -> Seq(Cell)] /\ batch \in Seq(Cell)
  BY DEF Init
<1>5. \A c \in Cell : at[c] # "up"
  BY DEF Init
<1> QED
  BY <1>1, <1>2, <1>3, <1>4, <1>5, Firsts DEF Init, Types, TypeOK, Status


\* The types, in groups of variables that change together.
WorldTypes == live \in SUBSET Vm /\ born \in Vm /\ poll \in SUBSET SUBSET Vm
TabTypes ==
    /\ vm \in Vm /\ endpoint \in BOOLEAN /\ status \in Status
    /\ saved \in BOOLEAN /\ failed \in BOOLEAN
    /\ status = "connected" => endpoint
    /\ endpoint /\ status = "disconnected" => failed
ScreenTypes == mount \in Mount /\ spinning \in SUBSET Cell /\ orphan \in SUBSET Cell
CallTypes ==
    /\ at \in [Cell -> Place] /\ tabOf \in [Cell -> TabType] /\ mountOf \in [Cell -> Mount]
GotTypes ==
    /\ got \in [Cell -> Vm \cup {None}]
    /\ \A c \in Cell : at[c] = "up" => got[c] \in Vm
LoopTypes ==
    /\ loop \in [Cell -> Cell \cup {None}] /\ queue \in [Mount -> Seq(Cell)]
    /\ late \in SUBSET Cell /\ raced \in SUBSET Mount
TaskTypes ==
    /\ executing \in BOOLEAN /\ seen \in BOOLEAN
    /\ task \in {"idle", "drain", "return"} /\ who \in Cell
BatchTypes ==
    /\ batch \in Seq(Cell) /\ current \in Cell \cup {None}
    /\ batchTab \in TabType /\ batchMount \in Mount

\* They are all of them.
LEMMA TypeGroups ==
    /\ Types => /\ TypeOK /\ WorldTypes /\ TabTypes /\ ScreenTypes /\ CallTypes /\ GotTypes
                /\ LoopTypes /\ TaskTypes /\ BatchTypes
    /\ WorldTypes' /\ TabTypes' /\ ScreenTypes' /\ CallTypes' /\ GotTypes' /\ LoopTypes'
         /\ TaskTypes' /\ BatchTypes' => Types'
<1> USE DEF Types, TypeOK, WorldTypes, TabTypes, ScreenTypes, CallTypes, GotTypes, LoopTypes,
            TaskTypes, BatchTypes
<1>1. Types => /\ TypeOK /\ WorldTypes /\ TabTypes /\ ScreenTypes /\ CallTypes /\ GotTypes
               /\ LoopTypes /\ TaskTypes /\ BatchTypes
  OBVIOUS
<1>2. WorldTypes' /\ TabTypes' /\ ScreenTypes' /\ CallTypes' /\ GotTypes' /\ LoopTypes'
        /\ TaskTypes' /\ BatchTypes' => Types'
  OBVIOUS
<1> QED
  BY <1>1, <1>2

\* A step that leaves the variables of a group alone leaves their types alone.
LEMMA TypeFrame ==
    ASSUME Types
    PROVE  /\ UNCHANGED world => WorldTypes'
           /\ UNCHANGED tab => TabTypes'
           /\ UNCHANGED <<mount, spinning, orphan>> => ScreenTypes'
           /\ UNCHANGED <<at, tabOf, mountOf>> => CallTypes'
           /\ UNCHANGED got /\ (\A c \in Cell : at'[c] = "up" => at[c] = "up") => GotTypes'
           /\ UNCHANGED <<loop, queue, late, raced>> => LoopTypes'
           /\ UNCHANGED <<executing, seen, task, who>> => TaskTypes'
           /\ UNCHANGED batchVars => BatchTypes'
<1>1. UNCHANGED world => WorldTypes'
  BY TypeGroups DEF WorldTypes, world
<1>2. UNCHANGED tab => TabTypes'
  BY TypeGroups DEF TabTypes, tab
<1>3. UNCHANGED <<mount, spinning, orphan>> => ScreenTypes'
  BY TypeGroups DEF ScreenTypes
<1>4. UNCHANGED <<at, tabOf, mountOf>> => CallTypes'
  BY TypeGroups DEF CallTypes
<1>5. UNCHANGED got /\ (\A c \in Cell : at'[c] = "up" => at[c] = "up") => GotTypes'
  BY TypeGroups DEF GotTypes
<1>6. UNCHANGED <<loop, queue, late, raced>> => LoopTypes'
  BY TypeGroups DEF LoopTypes
<1>7. UNCHANGED <<executing, seen, task, who>> => TaskTypes'
  BY TypeGroups DEF TaskTypes
<1>8. UNCHANGED batchVars => BatchTypes'
  BY TypeGroups DEF BatchTypes, batchVars
<1> QED
  BY <1>1, <1>2, <1>3, <1>4, <1>5, <1>6, <1>7, <1>8

\* What a call that begins or joins the queue leaves of the types.
LEMMA JoinTypes ==
    ASSUME Types, NEW c \in Cell, NEW t \in TabType, NEW m \in Mount,
           Begin(c, t, m) \/ Push(c, t, m), UNCHANGED <<got, loop>>,
           seen' \in BOOLEAN, raced' \in SUBSET Mount
    PROVE  CallTypes' /\ GotTypes' /\ LoopTypes' /\ TaskTypes'
<1>1. /\ at' \in [Cell -> Place] /\ tabOf' \in [Cell -> TabType]
      /\ mountOf' \in [Cell -> Mount] /\ queue' \in [Mount -> Seq(Cell)]
      /\ executing' \in BOOLEAN /\ late' \in SUBSET Cell
      /\ task' \in {"idle", "drain", "return"} /\ who' \in Cell
      /\ \A d \in Cell : at'[d] = "up" => at[d] = "up"
  <2>1. CASE Begin(c, t, m)
    BY <2>1, BeginTypes, TypeGroups
  <2>2. CASE Push(c, t, m)
    BY <2>2, PushTypes, TypeGroups
  <2> QED
    BY <2>1, <2>2
<1>2. CallTypes'
  BY <1>1 DEF CallTypes
<1>3. GotTypes'
  BY <1>1, TypeFrame
<1>4. LoopTypes'
  <2>1. loop' \in [Cell -> Cell \cup {None}]
    BY TypeGroups DEF LoopTypes
  <2> QED
    BY <1>1, <2>1 DEF LoopTypes
<1>5. TaskTypes'
  BY <1>1 DEF TaskTypes
<1> QED
  BY <1>2, <1>3, <1>4, <1>5

\* What setCells leaves of the types.
LEMMA ShownTypes ==
    ASSUME Types, UNCHANGED mount, NEW c \in Cell, NEW m,
           ShowRunning(c, m) \/ ShowEnded(c, m)
    PROVE  ScreenTypes'
<1>1. mount \in Mount /\ spinning \in SUBSET Cell /\ orphan \in SUBSET Cell
  BY TypeGroups DEF ScreenTypes
<1>2. spinning' \in SUBSET Cell /\ orphan' \in SUBSET Cell
  BY <1>1 DEF ShowRunning, ShowEnded
<1> QED
  BY <1>1, <1>2 DEF ScreenTypes

\* What the end of a call without a loop leaves of the types.
LEMMA OverTypes ==
    ASSUME Types, NEW c \in Cell, Over(c)
    PROVE  /\ CallTypes' /\ (\A d \in Cell : at'[d] = "up" => at[d] = "up")
           /\ at'[c] = "none" /\ \A d \in Cell : d # c => at'[d] = at[d]
<1>1. /\ at' \in [Cell -> Place] /\ tabOf' \in [Cell -> TabType]
      /\ mountOf' \in [Cell -> Mount]
      /\ at'[c] = "none" /\ \A d \in Cell : d # c => at'[d] = at[d]
  BY OverAt, TypeGroups
<1>2. CallTypes'
  BY <1>1 DEF CallTypes
<1>3. \A d \in Cell : at'[d] = "up" => at[d] = "up"
  <2> SUFFICES ASSUME NEW d \in Cell, at'[d] = "up" PROVE at[d] = "up"
    OBVIOUS
  <2>1. d # c
    BY <1>1
  <2> QED
    BY <1>1, <2>1
<1> QED
  BY <1>1, <1>2, <1>3

\* The same when the call had restored the session.
LEMMA RestoreOverTypes ==
    ASSUME Types, NEW c \in Cell, RestoreOver(c)
    PROVE  /\ WorldTypes' /\ CallTypes' /\ GotTypes' /\ LoopTypes' /\ TaskTypes' /\ BatchTypes'
           /\ UNCHANGED mount
<1>1. /\ CallTypes' /\ at'[c] = "none" /\ \A d \in Cell : d # c => at'[d] = at[d]
  BY OverTypes DEF RestoreOver
<1>2. GotTypes'
  <2>1. got' = [got EXCEPT ![c] = None]
    BY DEF RestoreOver
  <2>2. got \in [Cell -> Vm \cup {None}] /\ \A d \in Cell : at[d] = "up" => got[d] \in Vm
    BY TypeGroups DEF GotTypes
  <2>3. got' \in [Cell -> Vm \cup {None}] /\ \A d \in Cell : d # c => got'[d] = got[d]
    BY <2>1, <2>2
  <2> QED
    BY <1>1, <2>2, <2>3 DEF GotTypes
<1>3. TaskTypes'
  <2>1. executing \in BOOLEAN /\ seen \in BOOLEAN
    BY TypeGroups DEF TaskTypes
  <2> QED
    BY <2>1 DEF RestoreOver, TaskTypes
<1>4. WorldTypes' /\ LoopTypes' /\ BatchTypes' /\ UNCHANGED mount
  BY TypeFrame DEF RestoreOver
<1> QED
  BY <1>1, <1>2, <1>3, <1>4

\* Every step keeps the types.
LEMMA TypeStep == Types /\ [Next]_vars => Types'
<1> SUFFICES ASSUME Types, [Next]_vars PROVE Types'
  OBVIOUS
<1>0. /\ TypeOK /\ WorldTypes /\ TabTypes /\ ScreenTypes /\ CallTypes /\ GotTypes
      /\ LoopTypes /\ TaskTypes /\ BatchTypes
  BY TypeGroups
<1>t. Rendered \in TabType /\ NoTab \in TabType
  BY <1>0, RenderedType
<1>s. seen \in BOOLEAN /\ (seen \/ (endpoint /\ Plan = "run")) \in BOOLEAN
  BY <1>0 DEF TaskTypes
<1>m. /\ mount \in Mount /\ raced \in SUBSET Mount
      /\ \A d \in Cell : tabOf[d] \in TabType /\ mountOf[d] \in Mount
  BY <1>0 DEF ScreenTypes, LoopTypes, CallTypes
<1>1. ASSUME NEW c \in Cell, Click(c) PROVE Types'
  <2>1. /\ Begin(c, Rendered, mount) /\ UNCHANGED <<got, loop, raced>>
        /\ seen' \in BOOLEAN
    BY <1>1, <1>s DEF Click
  <2>2. CallTypes' /\ GotTypes' /\ LoopTypes' /\ TaskTypes'
    BY <1>t, <1>m, <2>1, JoinTypes
  <2>3. WorldTypes' /\ TabTypes' /\ ScreenTypes' /\ BatchTypes'
    BY <1>1, TypeFrame DEF Click
  <2> QED
    BY <2>2, <2>3, TypeGroups
<1>2. ASSUME NEW c \in Cell, RunFrom(c) PROVE Types'
  <2>1. /\ Begin(c, Rendered, mount) /\ UNCHANGED <<got, loop, raced>>
        /\ seen' \in BOOLEAN
    BY <1>2, <1>s DEF RunFrom
  <2>2. CallTypes' /\ GotTypes' /\ LoopTypes' /\ TaskTypes'
    BY <1>t, <1>m, <2>1, JoinTypes
  <2>3. WorldTypes' /\ TabTypes' /\ ScreenTypes'
    BY <1>2, TypeFrame DEF RunFrom
  <2>4. batch' \in Seq(Cell)
    <3>1. NCells - c \in Nat /\ \A i \in 1 .. NCells - c : c + i \in Cell
      BY CellsAfter
    <3>2. batch' = [i \in 1 .. NCells - c |-> c + i]
      BY <1>2 DEF RunFrom
    <3> QED
      BY <3>1, <3>2
  <2>5. BatchTypes'
    BY <1>2, <1>t, <1>m, <2>4 DEF RunFrom, BatchTypes
  <2> QED
    BY <2>2, <2>3, <2>5, TypeGroups
<1>3. ASSUME NEW c \in Cell, LookedRestore(c) PROVE Types'
  <2>1. CallTypes' /\ GotTypes'
    <3>1. at' \in [Cell -> Place] /\ \A d \in Cell : at'[d] = "up" => at[d] = "up"
      BY <1>0, <1>3 DEF LookedRestore, CallTypes, Place
    <3>2. tabOf' \in [Cell -> TabType] /\ mountOf' \in [Cell -> Mount]
      BY <1>0, <1>3, <1>t DEF LookedRestore, CallTypes
    <3>3. CallTypes'
      BY <3>1, <3>2 DEF CallTypes
    <3>4. UNCHANGED got
      BY <1>3 DEF LookedRestore
    <3> QED
      BY <3>1, <3>3, <3>4, TypeFrame
  <2>2. TabTypes'
    BY <1>0, <1>3 DEF LookedRestore, TabTypes, Status
  <2>3. ScreenTypes'
    BY <1>3, ShownTypes DEF LookedRestore
  <2>4. WorldTypes' /\ LoopTypes' /\ TaskTypes' /\ BatchTypes'
    BY <1>3, TypeFrame DEF LookedRestore
  <2> QED
    BY <2>1, <2>2, <2>3, <2>4, TypeGroups
<1>4. ASSUME NEW c \in Cell, LookedIgnored(c) PROVE Types'
  <2>1. CallTypes' /\ GotTypes'
    BY <1>4, OverTypes, TypeFrame DEF LookedIgnored
  <2>2. TabTypes'
    BY <1>0, <1>4, ConnectTypes DEF LookedIgnored, TabTypes
  <2>3. WorldTypes' /\ ScreenTypes' /\ LoopTypes' /\ BatchTypes'
    BY <1>4, TypeFrame DEF LookedIgnored
  <2>4. TaskTypes'
    BY <1>0, <1>4 DEF LookedIgnored, TaskTypes
  <2> QED
    BY <2>1, <2>2, <2>3, <2>4, TypeGroups
<1>5. ASSUME NEW c \in Cell, LookedLaunching(c) PROVE Types'
  <2>1. CallTypes' /\ GotTypes' /\ LoopTypes' /\ TaskTypes'
    <3>1. /\ Push(c, tabOf[c], mountOf[c]) /\ UNCHANGED <<got, loop, seen>>
          /\ raced' \in SUBSET Mount
      BY <1>5, <1>m DEF LookedLaunching
    <3> QED
      BY <1>s, <1>m, <3>1, JoinTypes
  <2>2. TabTypes'
    BY <1>0, <1>5, ConnectTypes DEF LookedLaunching, TabTypes
  <2>3. WorldTypes' /\ ScreenTypes' /\ BatchTypes'
    BY <1>5, TypeFrame DEF LookedLaunching
  <2> QED
    BY <2>1, <2>2, <2>3, TypeGroups
<1>6. ASSUME NEW c \in Cell, LaunchUp(c) PROVE Types'
  <2>1. born' \in Vm
    BY <1>0, <1>6, Firsts DEF LaunchUp, WorldTypes
  <2>2. WorldTypes'
    BY <1>0, <1>6, <2>1 DEF LaunchUp, WorldTypes
  <2>3. /\ at' = [at EXCEPT ![c] = "up"] /\ got' = [got EXCEPT ![c] = born']
        /\ UNCHANGED <<tabOf, mountOf>>
    BY <1>6 DEF LaunchUp
  <2>4. CallTypes'
    BY <1>0, <2>3 DEF CallTypes, Place
  <2>5. GotTypes'
    BY <1>0, <2>1, <2>3 DEF CallTypes, GotTypes
  <2>6. TabTypes' /\ ScreenTypes' /\ LoopTypes' /\ TaskTypes' /\ BatchTypes'
    BY <1>6, TypeFrame DEF LaunchUp
  <2> QED
    BY <2>2, <2>4, <2>5, <2>6, TypeGroups
<1>7. ASSUME NEW c \in Cell, LaunchAnswered(c) PROVE Types'
  <2>1. /\ WorldTypes' /\ CallTypes' /\ GotTypes' /\ LoopTypes' /\ TaskTypes' /\ BatchTypes'
        /\ ScreenTypes'
    BY <1>7, RestoreOverTypes, ShownTypes DEF LaunchAnswered
  <2>2. TabTypes'
    BY <1>0, <1>7 DEF LaunchAnswered, TabTypes, GotTypes, Status
  <2> QED
    BY <2>1, <2>2, TypeGroups
<1>8. ASSUME NEW c \in Cell, LaunchFails(c) PROVE Types'
  <2>1. /\ WorldTypes' /\ CallTypes' /\ GotTypes' /\ LoopTypes' /\ TaskTypes' /\ BatchTypes'
        /\ ScreenTypes'
    BY <1>8, RestoreOverTypes, ShownTypes DEF LaunchFails
  <2>2. TabTypes'
    BY <1>0, <1>8 DEF LaunchFails, TabTypes, Status
  <2> QED
    BY <2>1, <2>2, TypeGroups
<1>9. ASSUME NEW c \in Cell, Answer(c) PROVE Types'
  <2>1. loop[c] \in Cell
    BY <1>0, <1>9 DEF Answer, LoopTypes
  <2>2. Over(loop[c]) /\ ShowEnded(loop[c], mountOf[c])
    BY <1>9 DEF Answer
  <2>3. UNCHANGED <<world, tab, mount, got, loop, queue, executing, late, seen, batchVars,
                   raced>>
    BY <1>9 DEF Answer
  <2>4. CallTypes' /\ GotTypes'
    BY <2>1, <2>2, <2>3, OverTypes, TypeFrame
  <2>5. ScreenTypes'
    BY <2>1, <2>2, <2>3, ShownTypes
  <2>6. TaskTypes'
    BY <1>0, <1>9 DEF Answer, TaskTypes
  <2>7. WorldTypes' /\ TabTypes' /\ LoopTypes' /\ BatchTypes'
    BY <2>3, TypeFrame
  <2> QED
    BY <2>4, <2>5, <2>6, <2>7, TypeGroups
<1>10. ASSUME Return PROVE Types'
  <2>1. /\ UNCHANGED <<got, loop, seen, raced>>
        /\ WorldTypes' /\ TabTypes' /\ ScreenTypes'
    BY <1>10, TypeFrame DEF Return
  <2>2. CASE who = current /\ batch # <<>>
    <3>1. batch \in Seq(Cell) /\ batchTab \in TabType /\ batchMount \in Mount
      BY <1>0 DEF BatchTypes
    <3>2. Head(batch) \in Cell /\ Tail(batch) \in Seq(Cell)
      BY <2>2, <3>1
    <3>3. /\ Begin(Head(batch), batchTab, batchMount)
          /\ current' = Head(batch) /\ batch' = Tail(batch)
          /\ UNCHANGED <<batchTab, batchMount>>
      BY <1>10, <2>2 DEF Return
    <3>4. CallTypes' /\ GotTypes' /\ LoopTypes' /\ TaskTypes'
      BY <1>s, <1>m, <2>1, <3>1, <3>2, <3>3, JoinTypes
    <3>5. BatchTypes'
      BY <3>1, <3>2, <3>3 DEF BatchTypes
    <3> QED
      BY <2>1, <3>4, <3>5, TypeGroups
  <2>3. CASE ~(who = current /\ batch # <<>>)
    <3>1. /\ UNCHANGED <<at, tabOf, mountOf, queue, executing, late, batch>>
          /\ task' = "idle" /\ who' = 1
          /\ \/ current' = None /\ batchTab' = NoTab /\ batchMount' = 1
             \/ UNCHANGED <<current, batchTab, batchMount>>
      BY <1>10, <2>3 DEF Return, batchVars
    <3>2. CallTypes' /\ GotTypes' /\ LoopTypes'
      BY <2>1, <3>1, TypeFrame
    <3>3. TaskTypes'
      BY <1>0, <2>1, <3>1, Firsts DEF TaskTypes
    <3>4. BatchTypes'
      BY <1>0, <1>t, <3>1, Firsts DEF BatchTypes
    <3> QED
      BY <2>1, <3>2, <3>3, <3>4, TypeGroups
  <2> QED
    BY <2>2, <2>3
<1>11. ASSUME Drain PROVE Types'
  <2> DEFINE m == mountOf[who]
             h == Head(queue[m])
  <2>1. /\ WorldTypes' /\ TabTypes' /\ BatchTypes'
        /\ UNCHANGED <<mount, tabOf, got, seen>>
    BY <1>11, TypeFrame DEF Drain
  <2>2. who \in Cell /\ m \in Mount
    BY <1>0, <1>m DEF TaskTypes
  <2>3. CASE Shift(who, m)
    <3>1. queue[m] \in Seq(Cell) /\ queue[m] # <<>>
      BY <1>0, <2>2, <2>3 DEF Shift, LoopTypes
    <3>2. h \in Cell /\ Tail(queue[m]) \in Seq(Cell)
      BY <3>1
    <3>3. /\ queue' = [queue EXCEPT ![m] = Tail(queue[m])]
          /\ loop' = [loop EXCEPT ![who] = h] /\ at' = [at EXCEPT ![h] = "sent"]
          /\ late' = late \ {h} /\ ShowRunning(h, m)
          /\ task' = "idle" /\ who' = 1 /\ UNCHANGED <<executing, mountOf, raced>>
      BY <2>3 DEF Shift
    <3> HIDE DEF m, h
    <3>4. CallTypes'
      BY <1>0, <2>1, <3>2, <3>3 DEF CallTypes, Place
    <3>5. GotTypes'
      <4>1. \A d \in Cell : at'[d] = "up" => at[d] = "up"
        BY <1>0, <3>2, <3>3 DEF CallTypes
      <4> QED
        BY <2>1, <4>1, TypeFrame
    <3>6. ScreenTypes'
      BY <2>1, <3>2, <3>3, ShownTypes
    <3>7. LoopTypes'
      <4>1. queue' \in [Mount -> Seq(Cell)]
        BY <1>0, <3>2, <3>3 DEF LoopTypes
      <4>2. loop' \in [Cell -> Cell \cup {None}]
        BY <1>0, <3>2, <3>3 DEF LoopTypes
      <4> QED
        BY <1>0, <3>3, <4>1, <4>2 DEF LoopTypes
    <3>8. TaskTypes'
      BY <1>0, <2>1, <3>3, Firsts DEF TaskTypes
    <3> QED
      BY <2>1, <3>4, <3>5, <3>6, <3>7, <3>8, TypeGroups
  <2>4. CASE LoopEnds(who, m)
    <3>1. /\ Execute(m, FALSE) /\ loop' = [loop EXCEPT ![who] = None]
          /\ mountOf' = [mountOf EXCEPT ![who] = 1] \/ mountOf' = mountOf
          /\ raced' = raced \/ raced' = raced \ {m}
          /\ task' = "return" /\ UNCHANGED <<who, queue, at, late, spinning, orphan>>
      BY <2>4 DEF LoopEnds
    <3> HIDE DEF m
    <3>2. CallTypes' /\ GotTypes' /\ ScreenTypes'
      <4>1. mountOf' \in [Cell -> Mount]
        BY <1>0, <3>1, Firsts DEF CallTypes
      <4>2. CallTypes'
        BY <1>0, <2>1, <3>1, <4>1 DEF CallTypes
      <4> QED
        BY <2>1, <3>1, <4>2, TypeFrame
    <3>3. LoopTypes'
      BY <1>0, <3>1 DEF LoopTypes
    <3>4. TaskTypes'
      BY <1>0, <2>1, <3>1 DEF TaskTypes, Execute
    <3> QED
      BY <2>1, <3>2, <3>3, <3>4, TypeGroups
  <2> QED
    BY <1>11, <2>3, <2>4 DEF Drain
<1>12. ASSUME Interrupt PROVE Types'
  <2>1. ScreenTypes'
    BY <1>0, <1>12 DEF Interrupt, ScreenTypes
  <2>2. /\ WorldTypes' /\ TabTypes' /\ CallTypes' /\ GotTypes' /\ LoopTypes' /\ TaskTypes'
        /\ BatchTypes'
    BY <1>12, TypeFrame DEF Interrupt, run
  <2> QED
    BY <2>1, <2>2, TypeGroups
<1>13. ASSUME Remount PROVE Types'
  <2>1. ScreenTypes' /\ TaskTypes'
    BY <1>0, <1>13, Firsts DEF Remount, ScreenTypes, TaskTypes
  <2>2. WorldTypes' /\ TabTypes' /\ CallTypes' /\ GotTypes' /\ LoopTypes' /\ BatchTypes'
    BY <1>13, TypeFrame DEF Remount
  <2> QED
    BY <2>1, <2>2, TypeGroups
<1>14. ASSUME Render PROVE Types'
  <2>1. TaskTypes'
    BY <1>0, <1>14 DEF Render, TaskTypes, run
  <2>2. /\ WorldTypes' /\ TabTypes' /\ ScreenTypes' /\ CallTypes' /\ GotTypes' /\ LoopTypes'
        /\ BatchTypes'
    BY <1>14, TypeFrame DEF Render, run
  <2> QED
    BY <2>1, <2>2, TypeGroups
<1>15. ASSUME PollAsked PROVE Types'
  <2>1. WorldTypes'
    BY <1>0, <1>15 DEF PollAsked, WorldTypes
  <2>2. /\ TabTypes' /\ ScreenTypes' /\ CallTypes' /\ GotTypes' /\ LoopTypes' /\ TaskTypes'
        /\ BatchTypes'
    BY <1>15, TypeFrame DEF PollAsked, run
  <2> QED
    BY <2>1, <2>2, TypeGroups
<1>16. ASSUME NEW inst \in SUBSET Vm, PollAnswered(inst) PROVE Types'
  <2>1. WorldTypes' /\ TabTypes'
    BY <1>0, <1>16 DEF PollAnswered, WorldTypes, TabTypes, Status
  <2>2. ScreenTypes' /\ CallTypes' /\ GotTypes' /\ LoopTypes' /\ TaskTypes' /\ BatchTypes'
    BY <1>16, TypeFrame DEF PollAnswered, run
  <2> QED
    BY <2>1, <2>2, TypeGroups
<1>17. ASSUME NEW v \in Vm, VmEnds(v) PROVE Types'
  <2>1. WorldTypes'
    <3>1. CASE live' = live \ {v} /\ UNCHANGED born
      BY <1>0, <1>17, <3>1 DEF VmEnds, WorldTypes
    <3>2. CASE born < MaxVm /\ born' = born + 1 /\ live' = (live \ {v}) \cup {born'}
      <4>1. born' \in Vm
        BY <1>0, <3>2, Firsts DEF WorldTypes
      <4> QED
        BY <1>0, <1>17, <3>2, <4>1 DEF VmEnds, WorldTypes
    <3> QED
      BY <1>17, <3>1, <3>2 DEF VmEnds
  <2>2. /\ TabTypes' /\ ScreenTypes' /\ CallTypes' /\ GotTypes' /\ LoopTypes' /\ TaskTypes'
        /\ BatchTypes'
    BY <1>17, TypeFrame DEF VmEnds, run
  <2> QED
    BY <2>1, <2>2, TypeGroups
<1>18. CASE UNCHANGED vars
  BY <1>18, TypeFrame, TypeGroups DEF vars, run
<1> QED
  BY <1>1, <1>2, <1>3, <1>4, <1>5, <1>6, <1>7, <1>8, <1>9, <1>10, <1>11, <1>12,
     <1>13, <1>14, <1>15, <1>16, <1>17, <1>18
     DEF Next, Looked, Restoring, Polled

-----------------------------------------------------------------------------
(* The steps, by what they do to cells, queues and loops.  The invariants below are *)
(* proved of these kinds of steps, each of which is pointwise.                      *)

UnchangedBut(c) == \A d \in Cell : d # c => at'[d] = at[d] /\ mountOf'[d] = mountOf[d]

\* Nothing happens to them: the tab changes, the screen is rendered or replaced.
Still ==
    /\ UNCHANGED <<at, mountOf, loop, queue, late, raced, task, who, batchVars>>
    /\ \/ /\ UNCHANGED <<mount, executing, seen>>
          /\ spinning' = {} \/ UNCHANGED <<spinning, orphan>>
       \/ /\ task = "idle" /\ UNCHANGED <<mount, executing, spinning, orphan>>
          /\ seen' = executing
       \/ task = "idle" /\ mount' = mount + 1 /\ orphan' = spinning /\ UNCHANGED spinning

\* A call that looks up or restores goes on, or ends without having run its cell.
Away == {"lookup", "asked", "up"}
Goes(c) ==
    /\ at[c] \in Away /\ UnchangedBut(c)
    /\ UNCHANGED <<loop, queue, late, raced, batchVars, mount, executing, seen>>
    /\ \/ /\ at'[c] \in Away /\ mountOf'[c] = mountOf[c] /\ UNCHANGED <<task, who>>
          /\ \/ at'[c] = "asked" /\ ShowRunning(c, mountOf[c])
             \/ at'[c] = "up" /\ UNCHANGED <<spinning, orphan>>
       \/ /\ at'[c] = "none" /\ mountOf'[c] \in {1, mountOf[c]}
          /\ task = "idle" /\ task' = "return" /\ who' = c
          /\ ShowEnded(c, mountOf[c]) \/ (at[c] = "lookup" /\ UNCHANGED <<spinning, orphan>>)

\* A job joins the queue of its instance.
Joins(c, t, m) ==
    /\ UnchangedBut(c) /\ at'[c] = "queued" /\ mountOf'[c] = m
    /\ queue'[m] = Append(queue[m], c) /\ \A n \in Mount \ {m} : queue'[n] = queue[n]
    /\ who' = c
    /\ \/ /\ ~t.busy /\ task' = "drain" /\ late' = late
          /\ executing' = IF m = mount THEN TRUE ELSE executing
       \/ /\ t.busy /\ task' = "return" /\ executing' = executing
          /\ late \subseteq late' /\ (c \in late' \/ HasLoop(m))

\* A call begins.
Begins(c, t, m) ==
    \/ t.vm = None /\ t.plan = "run" /\ Joins(c, t, m)
    \/ /\ t.plan = "ignore" /\ task' = "return" /\ who' = c
       /\ UNCHANGED <<at, mountOf, queue, executing, late>>
    \/ /\ t.vm # None /\ task' = "idle"
       /\ UnchangedBut(c) /\ at'[c] = "lookup" /\ mountOf'[c] = m
       /\ UNCHANGED <<queue, executing, late>>

\* The user starts one, of a cell or of a batch; if it may start a loop then none was
\* seen and now one is.
Clicks(c, t) ==
    /\ task = "idle" /\ at[c] = "none" /\ loop[c] = None
    /\ Begins(c, t, mount)
    /\ UNCHANGED <<loop, raced, mount, spinning, orphan>>
    /\ seen => seen'
    /\ Runs(t) => ~seen /\ seen'
ClicksOne(c, t) ==
    /\ Clicks(c, t)
    /\ c # current /\ \A i \in 1 .. Len(batch) : batch[i] # c
    /\ UNCHANGED batchVars
ClicksFrom(c, t) ==
    /\ Clicks(c, t)
    /\ \A d \in c .. NCells : at[d] = "none" /\ loop[d] = None
    /\ current' = c /\ batch' = [i \in 1 .. NCells - c |-> c + i]
    /\ batchTab' = t /\ batchMount' = mount

\* A batch takes its next cell, or a call returns to nobody.
TakesNext ==
    /\ task = "return" /\ who = current /\ batch # <<>>
    /\ current' = Head(batch) /\ batch' = Tail(batch)
    /\ Begins(Head(batch), batchTab, batchMount)
    /\ UNCHANGED <<loop, raced, mount, seen, batchTab, batchMount, spinning, orphan>>
Returns ==
    /\ task = "return" /\ task' = "idle"
    /\ UNCHANGED <<at, mountOf, loop, queue, executing, late, raced, mount, seen,
                   spinning, orphan>>
    /\ \/ who # current /\ UNCHANGED batchVars
       \/ batch = <<>> /\ UNCHANGED batch /\ current' = None /\ batchMount' = 1

\* A call of a launching tab joins the queue.
JoinsLate(c) ==
    /\ task = "idle" /\ at[c] = "lookup"
    /\ Joins(c, tabOf[c], mountOf[c])
    /\ raced' = raced \cup {mountOf[c]}
    /\ UNCHANGED <<loop, mount, seen, batchVars, spinning, orphan>>

\* The loop of a call sends the next job, or ends, or gets the answer to its job.
Sends(o, h) ==
    /\ Draining(o) /\ queue[mountOf[o]] # <<>> /\ h = Head(queue[mountOf[o]])
    /\ queue'[mountOf[o]] = Tail(queue[mountOf[o]])
    /\ \A n \in Mount \ {mountOf[o]} : queue'[n] = queue[n]
    /\ loop'[o] = h /\ \A p \in Cell : p # o => loop'[p] = loop[p]
    /\ at'[h] = "sent" /\ \A d \in Cell : d # h => at'[d] = at[d]
    /\ late' = late \ {h} /\ task' = "idle" /\ ShowRunning(h, mountOf[o])
    /\ UNCHANGED <<mountOf, executing, raced, mount, seen, batchVars>>
Ends(o) ==
    /\ Draining(o) /\ queue[mountOf[o]] = <<>>
    /\ loop'[o] = None /\ \A p \in Cell : p # o => loop'[p] = loop[p]
    /\ UNCHANGED at /\ UnchangedBut(o)
    /\ mountOf'[o] \in {1, mountOf[o]} /\ (at[o] # "none" => mountOf'[o] = mountOf[o])
    /\ executing' = IF mountOf[o] = mount THEN FALSE ELSE executing
    /\ raced' = IF \/ \E p \in Cell \ {o} : loop[p] # None /\ mountOf[p] = mountOf[o]
                   \/ o = current /\ batch # <<>>
                THEN raced ELSE raced \ {mountOf[o]}
    /\ task' = "return" /\ who' = who
    /\ UNCHANGED <<queue, late, mount, seen, batchVars, spinning, orphan>>
Gets(o, c) ==
    /\ task = "idle" /\ c = loop[o] /\ c # None
    /\ UnchangedBut(c) /\ at'[c] = "none"
    /\ mountOf'[c] \in {1, mountOf[c]} /\ (loop[c] # None => mountOf'[c] = mountOf[c])
    /\ task' = "drain" /\ who' = o /\ ShowEnded(c, mountOf[o])
    /\ UNCHANGED <<loop, queue, executing, late, raced, mount, seen, batchVars>>

\* Every step is of one of these kinds.
Step ==
    \/ Still \/ TakesNext \/ Returns
    \/ \E c \in Cell : \/ Goes(c) \/ JoinsLate(c)
                       \/ \E t \in TabType : ClicksOne(c, t) \/ ClicksFrom(c, t)
    \/ \E o \in Cell : Ends(o) \/ \E c \in Cell : Sends(o, c) \/ Gets(o, c)

\* What a job does that joins the queue.
LEMMA PushJoins ==
    ASSUME TypeOK, NEW c \in Cell, NEW t \in TabType, NEW m \in Mount, Push(c, t, m)
    PROVE  Joins(c, t, m)
<1>1. UnchangedBut(c) /\ at'[c] = "queued" /\ mountOf'[c] = m
  BY DEF TypeOK, Push, UnchangedBut
<1>2. queue'[m] = Append(queue[m], c) /\ \A n \in Mount \ {m} : queue'[n] = queue[n]
  BY DEF TypeOK, Push
<1>3. who' = c
  BY DEF Push
<1>4. \/ /\ ~t.busy /\ task' = "drain" /\ late' = late
         /\ executing' = IF m = mount THEN TRUE ELSE executing
      \/ /\ t.busy /\ task' = "return" /\ executing' = executing
         /\ late \subseteq late' /\ (c \in late' \/ HasLoop(m))
  BY DEF Push, Execute
<1> QED
  BY <1>1, <1>2, <1>3, <1>4 DEF Joins

\* The same for a call that begins.
LEMMA BeginBegins ==
    ASSUME TypeOK, NEW c \in Cell, NEW t \in TabType, NEW m \in Mount, Begin(c, t, m)
    PROVE  Begins(c, t, m)
<1>1. CASE t.vm = None /\ t.plan = "run" /\ Push(c, t, m)
  BY <1>1, PushJoins DEF Begins
<1>2. CASE /\ t.vm = None /\ t.plan = "ignore" /\ task' = "return" /\ who' = c
           /\ UNCHANGED <<at, tabOf, mountOf, queue, executing, late>>
  BY <1>2 DEF Begins
<1>3. CASE /\ t.vm # None /\ at' = [at EXCEPT ![c] = "lookup"]
           /\ mountOf' = [mountOf EXCEPT ![c] = m]
           /\ task' = "idle" /\ UNCHANGED <<queue, executing, late>>
  <2>1. UnchangedBut(c) /\ at'[c] = "lookup" /\ mountOf'[c] = m
    BY <1>3 DEF TypeOK, UnchangedBut
  <2> QED
    BY <1>3, <2>1 DEF Begins
<1> QED
  BY <1>1, <1>2, <1>3 DEF Begin

\* A callback that may start a loop was rendered with an endpoint, in a tab that runs
\* cells, before a loop was seen.
LEMMA RunsRendered ==
    TypeOK /\ Runs(Rendered) => ~seen /\ endpoint /\ Plan = "run"
<1> SUFFICES ASSUME TypeOK, Runs(Rendered) PROVE ~seen /\ endpoint /\ Plan = "run"
  OBVIOUS
<1>1. Rendered.plan = Plan /\ Rendered.busy = (Plan = "run" /\ seen)
  BY DEF Rendered
<1>2. Rendered.vm = IF endpoint THEN None ELSE vm
  BY DEF Rendered
<1> QED
  BY <1>1, <1>2, Firsts DEF Runs, TypeOK


\* Every step is of one of the kinds.
LEMMA StepKinds == Types /\ [Next]_vars => Step
<1> SUFFICES ASSUME Types, [Next]_vars PROVE Step
  OBVIOUS
<1> USE Firsts DEF Types, TypeOK, world, tab, run, batchVars
<1>1. ASSUME NEW c \in Cell, Click(c) PROVE Step
  <2>1. Rendered \in TabType /\ mount \in Mount
    BY RenderedType
  <2>2. Begins(c, Rendered, mount)
    BY <1>1, <2>1, BeginBegins DEF Click
  <2>3. \A i \in 1 .. Len(batch) : batch[i] # c
    BY <1>1 DEF Click, Free
  <2>4. ClicksOne(c, Rendered)
    BY <1>1, <2>2, <2>3, RunsRendered DEF Click, Free, ClicksOne, Clicks
  <2> QED
    BY <2>1, <2>4 DEF Step
<1>2. ASSUME NEW c \in Cell, RunFrom(c) PROVE Step
  <2>1. Rendered \in TabType /\ mount \in Mount
    BY RenderedType
  <2>2. Begins(c, Rendered, mount)
    BY <1>2, <2>1, BeginBegins DEF RunFrom
  <2>3. \A d \in c .. NCells : at[d] = "none" /\ loop[d] = None
    BY <1>2 DEF RunFrom, Free
  <2>4. c \in c .. NCells
    BY CellsAfter DEF Cell
  <2>5. ClicksFrom(c, Rendered)
    BY <1>2, <2>2, <2>3, <2>4, RunsRendered DEF RunFrom, ClicksFrom, Clicks
  <2> QED
    BY <2>1, <2>5 DEF Step
<1>3. ASSUME NEW c \in Cell, LookedRestore(c) PROVE Step
  <2>1. at[c] \in Away
    BY <1>3 DEF LookedRestore, Away
  <2>2. UnchangedBut(c) /\ at'[c] \in Away /\ mountOf'[c] = mountOf[c]
    BY <1>3 DEF LookedRestore, UnchangedBut, Away
  <2>3. Goes(c)
    BY <1>3, <2>1, <2>2 DEF LookedRestore, Goes
  <2> QED
    BY <2>3 DEF Step
<1>4. ASSUME NEW c \in Cell, LookedIgnored(c) PROVE Step
  <2>1. at[c] \in Away
    BY <1>4 DEF LookedIgnored, Away
  <2>2. UnchangedBut(c) /\ at'[c] = "none" /\ mountOf'[c] \in {1, mountOf[c]}
    BY <1>4, OverAt DEF LookedIgnored, UnchangedBut, Away
  <2>3. Goes(c)
    BY <1>4, <2>1, <2>2 DEF LookedIgnored, Goes
  <2> QED
    BY <2>3 DEF Step
<1>5. ASSUME NEW c \in Cell, LookedLaunching(c) PROVE Step
  <2>1. Joins(c, tabOf[c], mountOf[c])
    BY <1>5, PushJoins DEF LookedLaunching
  <2>2. JoinsLate(c)
    BY <1>5, <2>1 DEF LookedLaunching, JoinsLate
  <2> QED
    BY <2>2 DEF Step
<1>6. ASSUME NEW c \in Cell, LaunchUp(c) PROVE Step
  <2>1. at[c] \in Away
    BY <1>6 DEF LaunchUp, Away
  <2>2. UnchangedBut(c) /\ at'[c] \in Away /\ mountOf'[c] = mountOf[c]
    BY <1>6 DEF LaunchUp, UnchangedBut, Away
  <2>3. Goes(c)
    BY <1>6, <2>1, <2>2 DEF LaunchUp, Goes
  <2> QED
    BY <2>3 DEF Step
<1>7. ASSUME NEW c \in Cell, LaunchAnswered(c) PROVE Step
  <2>1. at[c] \in Away
    BY <1>7 DEF LaunchAnswered, Away
  <2>2. UnchangedBut(c) /\ at'[c] = "none" /\ mountOf'[c] \in {1, mountOf[c]}
    BY <1>7, OverAt DEF LaunchAnswered, RestoreOver, UnchangedBut, Away
  <2>3. Goes(c)
    BY <1>7, <2>1, <2>2 DEF LaunchAnswered, RestoreOver, Goes
  <2> QED
    BY <2>3 DEF Step
<1>8. ASSUME NEW c \in Cell, LaunchFails(c) PROVE Step
  <2>1. at[c] \in Away
    BY <1>8 DEF LaunchFails, Away
  <2>2. UnchangedBut(c) /\ at'[c] = "none" /\ mountOf'[c] \in {1, mountOf[c]}
    BY <1>8, OverAt DEF LaunchFails, RestoreOver, UnchangedBut, Away
  <2>3. Goes(c)
    BY <1>8, <2>1, <2>2 DEF LaunchFails, RestoreOver, Goes
  <2> QED
    BY <2>3 DEF Step
<1>9. ASSUME NEW c \in Cell, Answer(c) PROVE Step
  <2>1. loop[c] \in Cell /\ loop[c] # None
    BY <1>9, Firsts DEF Answer
  <2>2. /\ UnchangedBut(loop[c]) /\ at'[loop[c]] = "none"
        /\ mountOf'[loop[c]] \in {1, mountOf[loop[c]]}
        /\ loop[loop[c]] # None => mountOf'[loop[c]] = mountOf[loop[c]]
    <3>1. Over(loop[c])
      BY <1>9 DEF Answer
    <3> HIDE DEF TypeOK
    <3> QED
      BY <2>1, <3>1, OverAt DEF UnchangedBut
  <2>3. Gets(c, loop[c])
    BY <1>9, <2>1, <2>2 DEF Answer, Gets
  <2> QED
    BY <2>1, <2>3 DEF Step
<1>10. ASSUME Return PROVE Step
  <2>1. CASE who = current /\ batch # <<>>
    <3>1. Head(batch) \in Cell
      BY <2>1
    <3>2. /\ Begin(Head(batch), batchTab, batchMount)
          /\ current' = Head(batch) /\ batch' = Tail(batch)
          /\ UNCHANGED <<loop, raced, mount, seen, batchTab, batchMount, spinning, orphan>>
          /\ task = "return"
      BY <1>10, <2>1 DEF Return
    <3>3. Begins(Head(batch), batchTab, batchMount)
      BY <3>1, <3>2, BeginBegins
    <3> QED
      BY <2>1, <3>2, <3>3 DEF TakesNext, Step
  <2>2. CASE ~(who = current /\ batch # <<>>)
    <3>1. Returns
      BY <1>10, <2>2 DEF Return, Returns
    <3> QED
      BY <3>1 DEF Step
  <2> QED
    BY <2>1, <2>2
<1>11. ASSUME Drain PROVE Step
  <2> DEFINE m == mountOf[who]
  <2>0. who \in Cell
    OBVIOUS
  <2>1. m \in Mount /\ queue[m] \in Seq(Cell) /\ Draining(who)
    BY <1>11 DEF Drain, Draining
  <2>2. CASE Shift(who, m)
    <3>1. Head(queue[m]) \in Cell /\ queue[m] # <<>>
      BY <2>1, <2>2 DEF Shift
    <3>2. /\ queue'[m] = Tail(queue[m]) /\ \A n \in Mount \ {m} : queue'[n] = queue[n]
      BY <2>1, <2>2 DEF Shift
    <3>3. /\ loop'[who] = Head(queue[m]) /\ \A p \in Cell : p # who => loop'[p] = loop[p]
      BY <2>2 DEF Shift
    <3>4. /\ at'[Head(queue[m])] = "sent"
          /\ \A d \in Cell : d # Head(queue[m]) => at'[d] = at[d]
      BY <2>2, <3>1 DEF Shift
    <3>5. Sends(who, Head(queue[m]))
      BY <1>11, <2>1, <2>2, <3>1, <3>2, <3>3, <3>4 DEF Drain, Shift, Sends
    <3> QED
      BY <3>1, <3>5 DEF Step
  <2>3. CASE queue[m] = <<>> /\ LoopEnds(who, m)
    <3>1. /\ loop'[who] = None /\ \A p \in Cell : p # who => loop'[p] = loop[p]
      BY <2>3 DEF LoopEnds
    <3>2. /\ UNCHANGED at /\ UnchangedBut(who)
          /\ mountOf'[who] \in {1, mountOf[who]}
          /\ at[who] # "none" => mountOf'[who] = mountOf[who]
      BY <2>3 DEF LoopEnds, UnchangedBut
    <3>3. /\ executing' = IF m = mount THEN FALSE ELSE executing
          /\ raced' = IF \/ \E p \in Cell \ {who} : loop[p] # None /\ mountOf[p] = m
                         \/ who = current /\ batch # <<>>
                      THEN raced ELSE raced \ {m}
          /\ task' = "return" /\ UNCHANGED <<who, queue, late, spinning, orphan>>
      BY <2>3 DEF LoopEnds, Execute
    <3>4. UNCHANGED <<mount, seen, batchVars>>
      BY <1>11 DEF Drain
    <3>5. Ends(who)
      BY <2>1, <2>3, <3>1, <3>2, <3>3, <3>4 DEF Ends, m
    <3> QED
      BY <2>0, <3>5 DEF Step
  <2> QED
    BY <1>11, <2>2, <2>3 DEF Drain
<1>12. ASSUME Interrupt PROVE Step
  BY <1>12 DEF Interrupt, Still, Step
<1>13. ASSUME Remount PROVE Step
  BY <1>13 DEF Remount, Still, Step
<1>14. ASSUME Render PROVE Step
  BY <1>14 DEF Render, Still, Step
<1>15. ASSUME PollAsked PROVE Step
  BY <1>15 DEF PollAsked, Still, Step
<1>16. ASSUME NEW inst \in SUBSET Vm, PollAnswered(inst) PROVE Step
  BY <1>16 DEF PollAnswered, Still, Step
<1>17. ASSUME NEW v \in Vm, VmEnds(v) PROVE Step
  BY <1>17 DEF VmEnds, Still, Step
<1>18. CASE UNCHANGED vars
  BY <1>18 DEF vars, Still, Step
<1> QED
  BY <1>1, <1>2, <1>3, <1>4, <1>5, <1>6, <1>7, <1>8, <1>9, <1>10, <1>11, <1>12,
     <1>13, <1>14, <1>15, <1>16, <1>17, <1>18
     DEF Next, Looked, Restoring, Polled
-----------------------------------------------------------------------------
(* Queues. *)

\* Functions of the cells and instances, for the proofs that do not need their types.
LEMMA Fields ==
    ASSUME TypeOK
    PROVE  /\ \A c \in Cell : mountOf[c] \in Mount /\ loop[c] \in Cell \cup {None}
           /\ \A m \in Mount : queue[m] \in Seq(Cell)
           /\ mount \in Mount /\ batchMount \in Mount /\ who \in Cell
           /\ batch \in Seq(Cell) /\ current \in Cell \cup {None}
           /\ raced \in SUBSET Mount
  BY DEF TypeOK

\* Nothing belongs to an instance before it is mounted.
LEMMA MountedStep == Types /\ MountedBefore /\ [Next]_vars => MountedBefore'
<1> SUFFICES ASSUME Types, MountedBefore, [Next]_vars PROVE MountedBefore'
  OBVIOUS
<1>1. Step /\ TypeOK
  BY StepKinds DEF Types
<1>2. mount \in Mount /\ 1 <= mount /\ Mount \subseteq Nat
  BY <1>1, Fields, Firsts DEF Mount
<1> USE DEF MountedBefore, UnchangedBut, batchVars
<1>3. CASE Still
  <2>1. mount' \in {mount, mount + 1}
    BY <1>3 DEF Still
  <2>2. \A n \in Mount : n <= mount => n <= mount'
    BY <1>2, <2>1
  <2> QED
    BY <1>1, <1>3, <2>2, Fields DEF Still
<1>4. ASSUME NEW c \in Cell, Goes(c) PROVE MountedBefore'
  BY <1>2, <1>4 DEF Goes
<1>5. ASSUME NEW c \in Cell, NEW t, NEW m \in Mount, m <= mount, Begins(c, t, m),
             UNCHANGED <<mount, raced>>, batchMount' <= mount
      PROVE MountedBefore'
  BY <1>2, <1>5 DEF Begins, Joins
<1>6. ASSUME NEW c \in Cell, NEW t \in TabType, ClicksOne(c, t) \/ ClicksFrom(c, t)
      PROVE MountedBefore'
  BY <1>2, <1>5, <1>6 DEF ClicksOne, ClicksFrom, Clicks
<1>7. CASE TakesNext
  <2>1. Head(batch) \in Cell /\ batchMount \in Mount
    BY <1>1, <1>7, Fields DEF TakesNext
  <2> QED
    BY <1>5, <1>7, <2>1 DEF TakesNext
<1>8. CASE Returns
  BY <1>1, <1>2, <1>8, Fields DEF Returns
<1>9. ASSUME NEW c \in Cell, JoinsLate(c) PROVE MountedBefore'
  BY <1>2, <1>9 DEF JoinsLate, Joins
<1>10. ASSUME NEW o \in Cell, NEW h \in Cell, Sends(o, h) PROVE MountedBefore'
  BY <1>10 DEF Sends
<1>11. ASSUME NEW o \in Cell, Ends(o) PROVE MountedBefore'
  BY <1>2, <1>11 DEF Ends
<1>12. ASSUME NEW o \in Cell, NEW c \in Cell, Gets(o, c) PROVE MountedBefore'
  BY <1>2, <1>12 DEF Gets
<1> QED
  BY <1>1, <1>3, <1>4, <1>6, <1>7, <1>8, <1>9, <1>10, <1>11, <1>12 DEF Step

\* A step that leaves the queues alone, and of the cells at most one that is in none.
LEMMA QueueKept ==
    ASSUME TypeOK, QueueInv, UNCHANGED queue, NEW c \in Cell,
           at[c] # "queued", at'[c] # "queued", UnchangedBut(c)
    PROVE  QueueInv'
<1>1. \A m \in Mount : \A i \in 1 .. Len(queue[m]) : queue[m][i] \in Cell
  BY Fields
<1>2. QueuedOnce'
  BY <1>1 DEF QueueInv, QueuedOnce, UnchangedBut
<1>3. QueuedIsThere'
  BY DEF QueueInv, QueuedIsThere, UnchangedBut
<1> QED
  BY <1>2, <1>3 DEF QueueInv

\* A job joins at the end.
LEMMA QueueJoins ==
    ASSUME TypeOK, QueueInv, NEW c \in Cell, NEW t, NEW m \in Mount,
           at[c] # "queued", Joins(c, t, m)
    PROVE  QueueInv'
<1> DEFINE q == queue[m]
           r == queue'[m]
<1>1. \A n \in Mount :
         queue[n] \in Seq(Cell) /\ \A i \in 1 .. Len(queue[n]) : queue[n][i] \in Cell
  BY Fields
<1>2. /\ Len(r) = Len(q) + 1 /\ Len(q) \in Nat /\ r[Len(q) + 1] = c
      /\ \A i \in 1 .. Len(q) : r[i] = q[i]
  BY <1>1 DEF Joins
<1>3. /\ UnchangedBut(c) /\ at'[c] = "queued" /\ mountOf'[c] = m
      /\ \A n \in Mount \ {m} : queue'[n] = queue[n]
  BY DEF Joins
<1>4. \A n \in Mount : \A i \in 1 .. Len(queue[n]) : queue[n][i] # c
  BY DEF QueueInv, QueuedOnce
<1> HIDE DEF q, r
<1>5. \A i \in 1 .. Len(r) :
        /\ at'[r[i]] = "queued" /\ mountOf'[r[i]] = m
        /\ \A j \in 1 .. Len(r) : r[i] = r[j] => i = j
  <2>1. \A i \in 1 .. Len(q) : /\ q[i] \in Cell /\ q[i] # c
                               /\ at[q[i]] = "queued" /\ mountOf[q[i]] = m
                               /\ \A j \in 1 .. Len(q) : q[i] = q[j] => i = j
    BY <1>1, <1>4 DEF QueueInv, QueuedOnce, q
  <2>2. \A i \in 1 .. Len(r) : i \in 1 .. Len(q) \/ i = Len(q) + 1
    BY <1>2
  <2> QED
    BY <1>2, <1>3, <2>1, <2>2 DEF UnchangedBut
<1>6. QueuedOnce'
  <2> SUFFICES ASSUME NEW n \in Mount, NEW i \in 1 .. Len(queue'[n])
               PROVE  /\ at'[queue'[n][i]] = "queued" /\ mountOf'[queue'[n][i]] = n
                      /\ \A j \in 1 .. Len(queue'[n]) : queue'[n][i] = queue'[n][j] => i = j
    BY DEF QueuedOnce
  <2>1. CASE n = m
    BY <1>5, <2>1 DEF r
  <2>2. CASE n # m
    <3>1. queue'[n] = queue[n]
      BY <1>3, <2>2
    <3>2. /\ queue[n][i] \in Cell /\ queue[n][i] # c
          /\ at[queue[n][i]] = "queued" /\ mountOf[queue[n][i]] = n
          /\ \A j \in 1 .. Len(queue[n]) : queue[n][i] = queue[n][j] => i = j
      BY <1>1, <1>4, <3>1 DEF QueueInv, QueuedOnce
    <3> QED
      BY <1>3, <3>1, <3>2 DEF UnchangedBut
  <2> QED
    BY <2>1, <2>2
<1>7. QueuedIsThere'
  <2> SUFFICES ASSUME NEW d \in Cell, at'[d] = "queued"
               PROVE  \E i \in 1 .. Len(queue'[mountOf'[d]]) : queue'[mountOf'[d]][i] = d
    BY DEF QueuedIsThere
  <2>1. CASE d = c
    BY <1>2, <1>3, <2>1 DEF r
  <2>2. CASE d # c
    <3>1. mountOf'[d] = mountOf[d] /\ at[d] = "queued" /\ mountOf[d] \in Mount
      BY <1>3, <2>2, Fields DEF UnchangedBut
    <3>2. PICK i \in 1 .. Len(queue[mountOf[d]]) : queue[mountOf[d]][i] = d
      BY <3>1 DEF QueueInv, QueuedIsThere
    <3>3. CASE mountOf[d] = m
      BY <1>2, <3>1, <3>2, <3>3 DEF q, r
    <3>4. CASE mountOf[d] # m
      BY <1>3, <3>1, <3>2, <3>4
    <3> QED
      BY <3>3, <3>4
  <2> QED
    BY <2>1, <2>2
<1> QED
  BY <1>6, <1>7 DEF QueueInv

\* The job a loop sends is one of its instance's.
LEMMA QueueHead ==
    ASSUME TypeOK, QueueInv, NEW o \in Cell, NEW h, Sends(o, h)
    PROVE  at[h] = "queued" /\ mountOf[h] = mountOf[o]
<1>1. mountOf[o] \in Mount /\ queue[mountOf[o]] \in Seq(Cell) /\ queue[mountOf[o]] # <<>>
  BY Fields DEF Sends
<1>2. h = queue[mountOf[o]][1] /\ 1 \in 1 .. Len(queue[mountOf[o]])
  BY <1>1 DEF Sends
<1> QED
  BY <1>1, <1>2 DEF QueueInv, QueuedOnce

\* The job at the head leaves its queue.
LEMMA QueueSends ==
    ASSUME TypeOK, QueueInv, NEW o \in Cell, NEW h \in Cell, Sends(o, h)
    PROVE  QueueInv'
<1> DEFINE m == mountOf[o]
           q == queue[m]
           r == queue'[m]
<1>1. /\ m \in Mount
      /\ \A n \in Mount :
            queue[n] \in Seq(Cell) /\ \A i \in 1 .. Len(queue[n]) : queue[n][i] \in Cell
  BY Fields
<1>2. /\ q # <<>> /\ h = Head(q) /\ r = Tail(q) /\ UNCHANGED mountOf
      /\ at'[h] = "sent" /\ \A d \in Cell : d # h => at'[d] = at[d]
      /\ \A n \in Mount \ {m} : queue'[n] = queue[n]
  BY DEF Sends
<1>3. q \in Seq(Cell)
  BY <1>1
<1>4. \A i \in 1 .. Len(q) : /\ q[i] \in Cell /\ at[q[i]] = "queued" /\ mountOf[q[i]] = m
                             /\ \A j \in 1 .. Len(q) : q[i] = q[j] => i = j
  BY <1>1 DEF QueueInv, QueuedOnce
<1> HIDE DEF m, q, r
<1>5. /\ Len(q) \in Nat \ {0} /\ q[1] = h /\ Len(r) = Len(q) - 1
      /\ \A i \in 1 .. Len(r) : r[i] = q[i + 1]
  BY <1>2, <1>3
<1>6. /\ \A i \in 1 .. Len(r) : i + 1 \in 1 .. Len(q) /\ i + 1 # 1
      /\ \A i \in 1 .. Len(q) : i # 1 => i - 1 \in 1 .. Len(r) /\ (i - 1) + 1 = i
  BY <1>5
<1>7. at[h] = "queued" /\ mountOf[h] = m
  BY <1>4, <1>5
<1>8. QueuedOnce'
  <2> SUFFICES ASSUME NEW n \in Mount, NEW i \in 1 .. Len(queue'[n])
               PROVE  /\ at'[queue'[n][i]] = "queued" /\ mountOf'[queue'[n][i]] = n
                      /\ \A j \in 1 .. Len(queue'[n]) : queue'[n][i] = queue'[n][j] => i = j
    BY DEF QueuedOnce
  <2>1. CASE n = m
    <3>1. \A j \in 1 .. Len(r) : /\ r[j] = q[j + 1] /\ q[j + 1] \in Cell /\ q[j + 1] # h
                                 /\ at[q[j + 1]] = "queued" /\ mountOf[q[j + 1]] = m
      BY <1>4, <1>5, <1>6
    <3>2. i \in 1 .. Len(r)
      BY <2>1 DEF r
    <3>3. \A j \in 1 .. Len(r) : r[i] = r[j] => i = j
      <4> SUFFICES ASSUME NEW j \in 1 .. Len(r), r[i] = r[j] PROVE i = j
        OBVIOUS
      <4>1. i + 1 \in 1 .. Len(q) /\ j + 1 \in 1 .. Len(q) /\ q[i + 1] = q[j + 1]
        BY <1>6, <3>1, <3>2
      <4>2. \A a, b \in 1 .. Len(q) : q[a] = q[b] => a = b
        BY <1>4
      <4>3. i + 1 = j + 1
        BY <4>1, <4>2
      <4> QED
        BY <3>2, <4>3
    <3>4. queue'[n] = r /\ UNCHANGED mountOf
      BY <1>2, <2>1 DEF r
    <3>5. /\ r[i] \in Cell /\ r[i] # h /\ at[r[i]] = "queued" /\ mountOf[r[i]] = n
      BY <2>1, <3>1, <3>2
    <3>6. at'[r[i]] = "queued"
      BY <1>2, <3>5
    <3> QED
      BY <3>3, <3>4, <3>5, <3>6
  <2>2. CASE n # m
    <3>1. queue'[n] = queue[n]
      BY <1>2, <2>2
    <3>2. /\ queue[n][i] \in Cell /\ queue[n][i] # h
          /\ at[queue[n][i]] = "queued" /\ mountOf[queue[n][i]] = n
          /\ \A j \in 1 .. Len(queue[n]) : queue[n][i] = queue[n][j] => i = j
      BY <1>1, <1>7, <2>2, <3>1 DEF QueueInv, QueuedOnce
    <3> QED
      BY <1>2, <3>1, <3>2
  <2> QED
    BY <2>1, <2>2
<1>9. QueuedIsThere'
  <2> SUFFICES ASSUME NEW d \in Cell, at'[d] = "queued"
               PROVE  \E i \in 1 .. Len(queue'[mountOf'[d]]) : queue'[mountOf'[d]][i] = d
    BY DEF QueuedIsThere
  <2>1. d # h /\ at[d] = "queued" /\ mountOf'[d] = mountOf[d] /\ mountOf[d] \in Mount
    BY <1>2, Fields
  <2>2. PICK i \in 1 .. Len(queue[mountOf[d]]) : queue[mountOf[d]][i] = d
    BY <2>1 DEF QueueInv, QueuedIsThere
  <2>3. CASE mountOf[d] = m
    <3>1. i \in 1 .. Len(q) /\ q[i] = d
      BY <2>2, <2>3 DEF q
    <3>2. i # 1
      BY <1>5, <2>1, <3>1
    <3>3. i - 1 \in 1 .. Len(r) /\ r[i - 1] = d
      BY <1>5, <1>6, <3>1, <3>2
    <3> QED
      BY <2>1, <2>3, <3>3 DEF r
  <2>4. CASE mountOf[d] # m
    BY <1>2, <2>1, <2>2, <2>4
  <2> QED
    BY <2>3, <2>4
<1> QED
  BY <1>8, <1>9 DEF QueueInv

\* A call that begins.
LEMMA QueueBegins ==
    ASSUME TypeOK, QueueInv, NEW c \in Cell, NEW t, NEW m \in Mount,
           at[c] # "queued", Begins(c, t, m)
    PROVE  QueueInv'
<1>1. CASE Joins(c, t, m)
  BY <1>1, QueueJoins
<1>2. CASE UNCHANGED <<at, mountOf, queue>>
  BY <1>2, QueueKept DEF UnchangedBut
<1>3. CASE UnchangedBut(c) /\ at'[c] = "lookup" /\ UNCHANGED queue
  BY <1>3, QueueKept
<1> QED
  BY <1>1, <1>2, <1>3 DEF Begins

\* Every step keeps the queues right.
LEMMA QueueStep == Types /\ QueueInv /\ LoopInv /\ [Next]_vars => QueueInv'
<1> SUFFICES ASSUME Types, QueueInv, LoopInv, [Next]_vars PROVE QueueInv'
  OBVIOUS
<1>1. Step /\ TypeOK
  BY StepKinds DEF Types
<1>2. CASE UNCHANGED <<at, mountOf, queue>>
  BY <1>2 DEF QueueInv, QueuedOnce, QueuedIsThere
<1>3. CASE Still \/ Returns
  BY <1>2, <1>3 DEF Still, Returns
<1>4. ASSUME NEW c \in Cell, Goes(c) PROVE QueueInv'
  BY <1>1, <1>4, QueueKept DEF Goes, Away
<1>5. ASSUME NEW c \in Cell, NEW t \in TabType, ClicksOne(c, t) \/ ClicksFrom(c, t)
      PROVE QueueInv'
  BY <1>1, <1>5, Fields, QueueBegins DEF ClicksOne, ClicksFrom, Clicks
<1>6. CASE TakesNext
  <2>1. Head(batch) \in Cell /\ Head(batch) = batch[1] /\ 1 \in 1 .. Len(batch)
    BY <1>1, <1>6, Fields DEF TakesNext
  <2>2. at[Head(batch)] = "none"
    BY <2>1 DEF LoopInv, BatchInOrder
  <2> QED
    BY <1>1, <1>6, <2>1, <2>2, Fields, QueueBegins DEF TakesNext
<1>7. ASSUME NEW c \in Cell, JoinsLate(c) PROVE QueueInv'
  BY <1>1, <1>7, Fields, QueueJoins DEF JoinsLate
<1>8. ASSUME NEW o \in Cell, NEW h \in Cell, Sends(o, h) PROVE QueueInv'
  BY <1>1, <1>8, QueueSends
<1>9. ASSUME NEW o \in Cell, Ends(o) PROVE QueueInv'
  <2>1. CASE at[o] = "none"
    BY <1>1, <1>9, <2>1, QueueKept DEF Ends
  <2>2. CASE at[o] # "none"
    <3>1. \A d \in Cell : mountOf'[d] = mountOf[d] /\ at'[d] = at[d]
      BY <1>9, <2>2 DEF Ends, UnchangedBut
    <3>2. UNCHANGED queue
      BY <1>9 DEF Ends
    <3>3. \A m \in Mount : \A i \in 1 .. Len(queue[m]) : queue[m][i] \in Cell
      BY <1>1, Fields
    <3> QED
      BY <3>1, <3>2, <3>3 DEF QueueInv, QueuedOnce, QueuedIsThere
  <2> QED
    BY <2>1, <2>2
<1>10. ASSUME NEW o \in Cell, NEW c \in Cell, Gets(o, c) PROVE QueueInv'
  <2>1. at[c] = "sent"
    BY <1>10 DEF Gets, LoopInv, LoopHasSent, Draining
  <2> QED
    BY <1>1, <1>10, <2>1, QueueKept DEF Gets
<1> QED
  BY <1>1, <1>3, <1>4, <1>5, <1>6, <1>7, <1>8, <1>9, <1>10 DEF Step

-----------------------------------------------------------------------------
(* Loops and batches. *)

\* The first cell a batch has left: it comes next, nobody has begun it, and it is none
\* of the others.
LEMMA BatchHead ==
    ASSUME TypeOK, BatchInOrder, batch # <<>>
    PROVE  /\ Head(batch) \in Cell /\ Tail(batch) \in Seq(Cell)
           /\ current \in Cell /\ Head(batch) = current + 1
           /\ at[Head(batch)] = "none" /\ loop[Head(batch)] = None
           /\ \A i \in 1 .. Len(Tail(batch)) :
                 /\ Tail(batch)[i] \in Cell /\ Tail(batch)[i] = Head(batch) + i
                 /\ Tail(batch)[i] # Head(batch)
                 /\ at[Tail(batch)[i]] = "none" /\ loop[Tail(batch)[i]] = None
<1> DEFINE q == batch
           r == Tail(batch)
<1>1. q \in Seq(Cell) /\ q # <<>> /\ current \in Cell /\ Cell \subseteq Nat
  BY Fields, Firsts DEF BatchInOrder
<1>2. \A i \in 1 .. Len(q) : q[i] = current + i /\ at[q[i]] = "none" /\ loop[q[i]] = None
  BY DEF BatchInOrder
<1> HIDE DEF q
<1>3. /\ Len(q) \in Nat \ {0} /\ Head(q) = q[1] /\ 1 \in 1 .. Len(q)
      /\ Tail(q) \in Seq(Cell) /\ Len(Tail(q)) = Len(q) - 1
      /\ \A i \in 1 .. Len(Tail(q)) : Tail(q)[i] = q[i + 1]
  BY <1>1
<1>4. Head(q) \in Cell /\ Head(q) = current + 1 /\ at[Head(q)] = "none" /\ loop[Head(q)] = None
  BY <1>1, <1>2, <1>3
<1>5. ASSUME NEW i \in 1 .. Len(Tail(q))
      PROVE  /\ Tail(q)[i] \in Cell /\ Tail(q)[i] = Head(q) + i /\ Tail(q)[i] # Head(q)
             /\ at[Tail(q)[i]] = "none" /\ loop[Tail(q)[i]] = None
  <2>1. i + 1 \in 1 .. Len(q) /\ i \in Nat \ {0}
    BY <1>3
  <2>2. /\ q[i + 1] = current + (i + 1) /\ q[i + 1] \in Cell
        /\ at[q[i + 1]] = "none" /\ loop[q[i + 1]] = None
    BY <1>1, <1>2, <2>1
  <2>3. Tail(q)[i] = q[i + 1]
    BY <1>3
  <2>4. current + (i + 1) = (current + 1) + i /\ (current + 1) + i # current + 1
    BY <1>1, <2>1
  <2> QED
    BY <1>4, <2>2, <2>3, <2>4
<1> QED
  BY <1>1, <1>3, <1>4, <1>5 DEF q

\* A step that leaves the loops, and of the cells at most one whose call has no loop and
\* whose job was not sent.
LEMMA LoopKept ==
    ASSUME TypeOK, LoopHasSent, NoLoopBefore, UNCHANGED loop, NEW c \in Cell,
           loop[c] = None, at[c] # "sent", UnchangedBut(c), task # "drain",
           task' = "drain" => who' = c /\ at'[c] = "queued"
    PROVE  LoopHasSent' /\ NoLoopBefore'
<1>1. \A o \in Cell : loop[o] \in Cell \cup {None}
  BY Fields
<1>2. \A o \in Cell : Draining(o)' => o = c
  BY DEF Draining
<1>3. LoopHasSent'
  <2> SUFFICES ASSUME NEW o \in Cell, loop[o] # None, ~Draining(o)'
               PROVE  /\ at'[loop[o]] = "sent" /\ mountOf'[loop[o]] = mountOf'[o]
                      /\ \A p \in Cell : loop[p] = loop[o] /\ ~Draining(p)' => o = p
    BY DEF LoopHasSent
  <2>1. \A p \in Cell : ~Draining(p)' /\ loop[p] # None => ~Draining(p)
    BY <1>2 DEF Draining
  <2>2. /\ loop[o] \in Cell /\ at[loop[o]] = "sent" /\ mountOf[loop[o]] = mountOf[o]
        /\ \A p \in Cell : loop[p] = loop[o] => p = o \/ Draining(p)'
    BY <1>1, <2>1 DEF LoopHasSent
  <2>3. o # c /\ loop[o] # c
    BY <2>2
  <2> QED
    BY <2>2, <2>3 DEF UnchangedBut
<1>4. NoLoopBefore'
  BY <1>1, <1>2, Firsts DEF NoLoopBefore, UnchangedBut, Draining
<1> QED
  BY <1>3, <1>4

\* The same of what a batch has left, if it has not that cell.
LEMMA BatchKept ==
    ASSUME TypeOK, BatchInOrder, UNCHANGED <<loop, batchVars>>, NEW c \in Cell, UnchangedBut(c),
           \A i \in 1 .. Len(batch) : batch[i] # c
    PROVE  BatchInOrder'
<1>1. \A i \in 1 .. Len(batch) : batch[i] \in Cell
  BY Fields
<1> QED
  BY <1>1 DEF BatchInOrder, UnchangedBut, batchVars

\* A call that begins.
LEMMA LoopBegins ==
    ASSUME TypeOK, LoopHasSent, NoLoopBefore, NEW c \in Cell, NEW t, NEW m,
           Begins(c, t, m), UNCHANGED loop, loop[c] = None, at[c] = "none", task # "drain"
    PROVE  LoopHasSent' /\ NoLoopBefore' /\ UnchangedBut(c)
<1>1. UnchangedBut(c)
  BY DEF Begins, Joins, UnchangedBut
<1>2. task' = "drain" => who' = c /\ at'[c] = "queued"
  BY DEF Begins, Joins
<1> QED
  BY <1>1, <1>2, LoopKept

\* Every step keeps the loops and batches right.
LEMMA LoopStep == Types /\ QueueInv /\ LoopInv /\ [Next]_vars => LoopInv'
<1> SUFFICES ASSUME Types, QueueInv, LoopInv, [Next]_vars PROVE LoopInv'
  OBVIOUS
<1>1. Step /\ TypeOK
  BY StepKinds DEF Types
<1> USE DEF LoopInv
<1>2. CASE Still
  BY <1>2 DEF Still, LoopHasSent, NoLoopBefore, BatchInOrder, Draining, batchVars
<1>3. ASSUME NEW c \in Cell, Goes(c) PROVE LoopInv'
  <2>1. at[c] \in Away /\ loop[c] = None /\ \A i \in 1 .. Len(batch) : batch[i] # c
    BY <1>3 DEF Goes, Away, NoLoopBefore, BatchInOrder
  <2>2. BatchInOrder'
    BY <1>1, <1>3, <2>1, BatchKept DEF Goes
  <2>3. CASE task = "idle"
    BY <1>1, <1>3, <2>1, <2>2, <2>3, LoopKept DEF Goes, Away
  <2>4. CASE at'[c] \in Away /\ mountOf'[c] = mountOf[c] /\ UNCHANGED <<task, who>>
    <3>1. UNCHANGED loop /\ UnchangedBut(c)
      BY <1>3 DEF Goes
    <3>2. \A o \in Cell : Draining(o)' = Draining(o)
      BY <2>4 DEF Draining
    <3>3. \A o \in Cell : loop[o] \in Cell \cup {None}
      BY <1>1, Fields
    <3>4. LoopHasSent'
      <4> SUFFICES ASSUME NEW o \in Cell, loop[o] # None, ~Draining(o)'
                   PROVE  /\ at'[loop[o]] = "sent" /\ mountOf'[loop[o]] = mountOf'[o]
                          /\ \A p \in Cell : loop[p] = loop[o] /\ ~Draining(p)' => o = p
        BY <3>1 DEF LoopHasSent
      <4>1. \A p \in Cell : ~Draining(p)' /\ loop[p] # None => ~Draining(p)
        BY <3>2
      <4>2. /\ loop[o] \in Cell /\ at[loop[o]] = "sent" /\ mountOf[loop[o]] = mountOf[o]
            /\ \A p \in Cell : loop[p] = loop[o] => p = o \/ Draining(p)'
        BY <3>3, <4>1 DEF LoopHasSent
      <4>3. o # c /\ loop[o] # c
        BY <2>1, <4>2 DEF Away
      <4> QED
        BY <3>1, <4>2, <4>3 DEF UnchangedBut
    <3>5. NoLoopBefore'
      BY <2>1, <2>4, <3>1, <3>2, <3>3, Firsts DEF NoLoopBefore, UnchangedBut, Away
    <3> QED
      BY <2>2, <3>4, <3>5
  <2> QED
    BY <1>3, <2>3, <2>4 DEF Goes
<1>4. ASSUME NEW c \in Cell, NEW t \in TabType, ClicksOne(c, t) PROVE LoopInv'
  <2>1. LoopHasSent' /\ NoLoopBefore' /\ UnchangedBut(c)
    BY <1>1, <1>4, LoopBegins DEF ClicksOne, Clicks
  <2> QED
    BY <1>1, <1>4, <2>1, BatchKept DEF ClicksOne, Clicks
<1>5. ASSUME NEW c \in Cell, NEW t \in TabType, ClicksFrom(c, t) PROVE LoopInv'
  <2>1. LoopHasSent' /\ NoLoopBefore' /\ UnchangedBut(c)
    BY <1>1, <1>5, LoopBegins DEF ClicksFrom, Clicks
  <2>2. /\ current' = c /\ batch' = [i \in 1 .. NCells - c |-> c + i] /\ UNCHANGED loop
        /\ \A d \in c .. NCells : at[d] = "none" /\ loop[d] = None
    BY <1>5 DEF ClicksFrom, Clicks
  <2>3. NCells - c \in Nat /\ \A i \in 1 .. NCells - c : c + i \in Cell
    BY CellsAfter
  <2>4. c \in Nat \ {0} /\ NCells \in Nat
    BY NotebookBounds DEF Cell
  <2>5. Len(batch') = NCells - c /\ \A i \in 1 .. NCells - c : batch'[i] = c + i
    BY <2>2, <2>3
  <2>6. \A i \in 1 .. NCells - c : c + i \in c .. NCells /\ c + i # c
    BY <2>3, <2>4
  <2>7. \A i \in 1 .. NCells - c : at'[c + i] = "none" /\ loop'[c + i] = None
    BY <2>1, <2>2, <2>3, <2>6 DEF UnchangedBut
  <2>8. BatchInOrder'
    BY <2>2, <2>5, <2>7, Firsts DEF BatchInOrder
  <2> QED
    BY <2>1, <2>8
<1>6. CASE TakesNext
  <2> DEFINE h == Head(batch)
             r == Tail(batch)
  <2>1. /\ h \in Cell /\ at[h] = "none" /\ loop[h] = None
        /\ \A i \in 1 .. Len(r) : /\ r[i] \in Cell /\ r[i] = h + i /\ r[i] # h
                                  /\ at[r[i]] = "none" /\ loop[r[i]] = None
    BY <1>1, <1>6, BatchHead DEF TakesNext
  <2>2. LoopHasSent' /\ NoLoopBefore' /\ UnchangedBut(h)
    BY <1>1, <1>6, <2>1, LoopBegins DEF TakesNext
  <2>3. current' = h /\ batch' = r /\ UNCHANGED loop
    BY <1>6 DEF TakesNext
  <2> HIDE DEF h, r
  <2>4. BatchInOrder'
    BY <2>1, <2>2, <2>3, Firsts DEF BatchInOrder, UnchangedBut
  <2> QED
    BY <2>2, <2>4
<1>7. CASE Returns
  <2>1. LoopHasSent' /\ NoLoopBefore'
    BY <1>7 DEF Returns, LoopHasSent, NoLoopBefore, Draining
  <2>2. BatchInOrder'
    <3>1. CASE UNCHANGED batchVars
      BY <1>7, <3>1 DEF Returns, BatchInOrder, batchVars
    <3>2. CASE batch' = <<>>
      BY <3>2 DEF BatchInOrder
    <3> QED
      BY <1>7, <3>1, <3>2 DEF Returns
  <2> QED
    BY <2>1, <2>2
<1>8. ASSUME NEW c \in Cell, JoinsLate(c) PROVE LoopInv'
  <2>1. loop[c] = None /\ at[c] = "lookup" /\ \A i \in 1 .. Len(batch) : batch[i] # c
    BY <1>8 DEF JoinsLate, NoLoopBefore, BatchInOrder
  <2>2. UnchangedBut(c) /\ (task' = "drain" => who' = c /\ at'[c] = "queued")
    BY <1>8 DEF JoinsLate, Joins
  <2> QED
    BY <1>1, <1>8, <2>1, <2>2, LoopKept, BatchKept DEF JoinsLate
<1>9. ASSUME NEW o \in Cell, NEW h \in Cell, Sends(o, h) PROVE LoopInv'
  <2>1. at[h] = "queued" /\ mountOf[h] = mountOf[o]
    BY <1>1, <1>9, QueueHead
  <2>2. /\ Draining(o) /\ (\A p \in Cell : ~Draining(p)')
        /\ \A p \in Cell : Draining(p) => p = o
    BY <1>9 DEF Sends, Draining
  <2>3. /\ loop'[o] = h /\ \A p \in Cell : p # o => loop'[p] = loop[p]
        /\ at'[h] = "sent" /\ \A d \in Cell : d # h => at'[d] = at[d]
        /\ UNCHANGED mountOf /\ UNCHANGED batchVars
    BY <1>9 DEF Sends
  <2>4. \A p \in Cell : loop[p] \in Cell \cup {None}
    BY <1>1, Fields
  <2>5. at[o] \notin Away /\ (loop[o] = None => at[o] = "queued")
    BY <2>2, Firsts DEF NoLoopBefore, Away
  <2>6. LoopHasSent'
    <3>1. \A p \in Cell : p # o /\ loop[p] # None =>
             /\ loop[p] \in Cell /\ at[loop[p]] = "sent" /\ loop[p] # h
             /\ mountOf[loop[p]] = mountOf[p]
             /\ \A q \in Cell : q # o /\ loop[q] = loop[p] => p = q
      BY <2>1, <2>2, <2>4 DEF LoopHasSent
    <3>2. \A p \in Cell : loop'[p] # None =>
             /\ at'[loop'[p]] = "sent" /\ mountOf'[loop'[p]] = mountOf'[p]
             /\ \A q \in Cell : loop'[q] = loop'[p] => p = q
      BY <2>1, <2>3, <3>1
    <3> QED
      BY <3>2 DEF LoopHasSent
  <2>7. NoLoopBefore'
    BY <2>1, <2>2, <2>3, <2>5, Firsts DEF NoLoopBefore, Away
  <2>8. BatchInOrder'
    <3>1. \A i \in 1 .. Len(batch) : batch[i] \in Cell /\ batch[i] # h /\ batch[i] # o
      BY <1>1, <2>1, <2>5, Fields DEF BatchInOrder
    <3> QED
      BY <2>3, <3>1 DEF BatchInOrder, batchVars
  <2> QED
    BY <2>6, <2>7, <2>8
<1>10. ASSUME NEW o \in Cell, Ends(o) PROVE LoopInv'
  <2>1. /\ Draining(o) /\ (\A p \in Cell : ~Draining(p)')
        /\ \A p \in Cell : Draining(p) => p = o
    BY <1>10 DEF Ends, Draining
  <2>2. /\ loop'[o] = None /\ \A p \in Cell : p # o => loop'[p] = loop[p]
        /\ UNCHANGED at /\ UnchangedBut(o) /\ (at[o] # "none" => mountOf'[o] = mountOf[o])
        /\ UNCHANGED batchVars
    BY <1>10 DEF Ends
  <2>3. \A p \in Cell : loop[p] \in Cell \cup {None}
    BY <1>1, Fields
  <2>4. LoopHasSent'
    <3>1. \A p \in Cell : p # o /\ loop[p] # None =>
             /\ loop[p] \in Cell /\ at[loop[p]] = "sent" /\ mountOf[loop[p]] = mountOf[p]
             /\ \A q \in Cell : q # o /\ loop[q] = loop[p] => p = q
      BY <2>1, <2>3 DEF LoopHasSent
    <3>2. \A d \in Cell : at[d] = "sent" => mountOf'[d] = mountOf[d]
      BY <2>2 DEF UnchangedBut
    <3>3. \A p \in Cell : loop'[p] # None =>
             /\ at'[loop'[p]] = "sent" /\ mountOf'[loop'[p]] = mountOf'[p]
             /\ \A q \in Cell : loop'[q] = loop'[p] => p = q
      BY <2>2, <3>1, <3>2 DEF UnchangedBut
    <3> QED
      BY <3>3 DEF LoopHasSent
  <2>5. NoLoopBefore'
    BY <2>1, <2>2, Firsts DEF NoLoopBefore
  <2>6. BatchInOrder'
    <3>1. \A i \in 1 .. Len(batch) : batch[i] \in Cell
      BY <1>1, Fields
    <3> QED
      BY <2>2, <3>1 DEF BatchInOrder, batchVars
  <2> QED
    BY <2>4, <2>5, <2>6
<1>11. ASSUME NEW o \in Cell, NEW c \in Cell, Gets(o, c) PROVE LoopInv'
  <2>1. /\ \A p \in Cell : ~Draining(p)
        /\ Draining(o)' /\ \A p \in Cell : Draining(p)' => p = o
    BY <1>11 DEF Gets, Draining
  <2>2. /\ c = loop[o] /\ UNCHANGED loop /\ UNCHANGED batchVars
        /\ UnchangedBut(c) /\ at'[c] = "none" /\ (loop[c] # None => mountOf'[c] = mountOf[c])
    BY <1>11 DEF Gets
  <2>3. \A p \in Cell : loop[p] \in Cell \cup {None}
    BY <1>1, Fields
  <2>4. at[c] = "sent" /\ \A p \in Cell : loop[p] = c => p = o
    BY <2>1, <2>2, Firsts DEF LoopHasSent
  <2>5. LoopHasSent'
    BY <2>1, <2>2, <2>3, <2>4, Firsts DEF LoopHasSent, UnchangedBut
  <2>6. NoLoopBefore'
    BY <2>1, <2>2, <2>4, Firsts DEF NoLoopBefore, UnchangedBut
  <2>7. \A i \in 1 .. Len(batch) : batch[i] # c
    BY <2>4 DEF BatchInOrder
  <2> QED
    BY <1>1, <2>2, <2>5, <2>6, <2>7, BatchKept
<1> QED
  BY <1>1, <1>2, <1>3, <1>4, <1>5, <1>6, <1>7, <1>8, <1>9, <1>10, <1>11 DEF Step

-----------------------------------------------------------------------------
(* Turns. *)

\* A step that leaves the loops, and of the calls at most one that has none.
LEMMA TurnKept ==
    ASSUME TypeOK, OneLoop, LoopIsSeen, QueuedIsServed,
           UNCHANGED <<loop, raced, late, mount, executing, seen>>, NEW c \in Cell,
           loop[c] = None, UnchangedBut(c), at'[c] # "queued",
           task # "drain", task' # "drain"
    PROVE  OneLoop' /\ LoopIsSeen' /\ QueuedIsServed'
<1>1. \A o \in Cell : Looping(o)' = (loop[o] # None) /\ Looping(o) = (loop[o] # None)
  BY DEF Looping, Draining
<1>2. \A o \in Cell : loop[o] # None => mountOf'[o] = mountOf[o]
  BY DEF UnchangedBut
<1>3. OneLoop'
  BY <1>1, <1>2 DEF OneLoop
<1>4. LoopIsSeen'
  BY <1>1, <1>2 DEF LoopIsSeen
<1>5. QueuedIsServed'
  BY <1>2 DEF QueuedIsServed, HasLoop, UnchangedBut
<1> QED
  BY <1>3, <1>4, <1>5

\* A job joins a queue: its call starts a loop only when none is there, or is excused.
LEMMA TurnJoins ==
    ASSUME TypeOK, OneLoop, LoopIsSeen, QueuedIsServed, NEW c \in Cell, NEW t, NEW m \in Mount,
           Joins(c, t, m), UNCHANGED <<loop, mount>>, raced \subseteq raced',
           loop[c] = None, task # "drain", seen => seen',
           ~t.busy /\ m \notin raced' =>
               /\ \A o \in Cell : Looping(o) => mountOf[o] # m
               /\ m = mount => seen'
    PROVE  OneLoop' /\ LoopIsSeen' /\ QueuedIsServed'
<1>1. /\ \A o \in Cell : Looping(o) = (loop[o] # None)
      /\ \A o \in Cell : loop[o] # None => mountOf'[o] = mountOf[o] /\ o # c
      /\ mountOf'[c] = m /\ UNCHANGED loop
  BY DEF Looping, Draining, Joins, UnchangedBut
<1>2. \A d \in Cell : d # c => at'[d] = at[d] /\ mountOf'[d] = mountOf[d]
  BY DEF Joins, UnchangedBut
<1>3. \A n : HasLoop(n) => HasLoop(n)'
  BY <1>1 DEF HasLoop
<1>4. late \subseteq late' /\ who' = c
  BY DEF Joins
<1>5. CASE ~t.busy /\ task' = "drain" /\ executing' = IF m = mount THEN TRUE ELSE executing
  <2>1. \A o \in Cell : Looping(o)' = (loop[o] # None \/ o = c)
    BY <1>1, <1>4, <1>5 DEF Looping, Draining
  <2>2. m \notin raced' => \A o \in Cell : loop[o] # None => mountOf[o] # m
    BY <1>1, <1>5
  <2>3. OneLoop'
    BY <1>1, <2>1, <2>2 DEF OneLoop
  <2>4. LoopIsSeen'
    <3> SUFFICES ASSUME NEW o \in Cell, Looping(o)', mountOf'[o] = mount, mount \notin raced'
                 PROVE executing' /\ seen'
      BY DEF LoopIsSeen
    <3>1. CASE o = c
      BY <1>1, <1>5, <3>1
    <3>2. CASE o # c
      BY <1>1, <1>5, <2>1, <3>2 DEF LoopIsSeen
    <3> QED
      BY <3>1, <3>2
  <2>5. QueuedIsServed'
    BY <1>1, <1>2, <1>3, <1>4, <1>5 DEF QueuedIsServed
  <2> QED
    BY <2>3, <2>4, <2>5
<1>6. CASE /\ t.busy /\ task' = "return" /\ executing' = executing
           /\ (c \in late' \/ HasLoop(m))
  <2>1. \A o \in Cell : Looping(o)' = (loop[o] # None)
    BY <1>1, <1>6 DEF Looping, Draining
  <2>2. OneLoop'
    BY <1>1, <2>1 DEF OneLoop
  <2>3. LoopIsSeen'
    BY <1>1, <1>6, <2>1 DEF LoopIsSeen
  <2>4. QueuedIsServed'
    BY <1>1, <1>2, <1>3, <1>4, <1>6 DEF QueuedIsServed
  <2> QED
    BY <2>2, <2>3, <2>4
<1> QED
  BY <1>5, <1>6 DEF Joins

\* A call that begins.
LEMMA TurnBegins ==
    ASSUME TypeOK, OneLoop, LoopIsSeen, QueuedIsServed, NEW c \in Cell, NEW t, NEW m \in Mount,
           Begins(c, t, m), UNCHANGED <<loop, mount, raced>>,
           loop[c] = None, at[c] = "none", task # "drain", seen => seen',
           Runs(t) /\ m \notin raced =>
               /\ \A o \in Cell : Looping(o) => mountOf[o] # m
               /\ m = mount => seen'
    PROVE  OneLoop' /\ LoopIsSeen' /\ QueuedIsServed'
<1>1. CASE t.vm = None /\ t.plan = "run" /\ Joins(c, t, m)
  BY <1>1, TurnJoins DEF Runs
<1>2. CASE /\ task' # "drain" /\ at'[c] # "queued" /\ UnchangedBut(c)
           /\ UNCHANGED <<executing, late>>
  <2>1. \A o \in Cell : Looping(o)' = (loop[o] # None) /\ Looping(o) = (loop[o] # None)
    BY <1>2 DEF Looping, Draining
  <2>2. \A o \in Cell : loop[o] # None => mountOf'[o] = mountOf[o]
    BY <1>2 DEF UnchangedBut
  <2>3. OneLoop'
    BY <2>1, <2>2 DEF OneLoop
  <2>4. LoopIsSeen'
    BY <1>2, <2>1, <2>2 DEF LoopIsSeen
  <2>5. QueuedIsServed'
    BY <1>2, <2>2 DEF QueuedIsServed, HasLoop, UnchangedBut
  <2> QED
    BY <2>3, <2>4, <2>5
<1> QED
  BY <1>1, <1>2 DEF Begins, UnchangedBut

\* Every step keeps the turns.
LEMMA TurnStep ==
    Types /\ MountedBefore /\ QueueInv /\ LoopInv /\ TurnInv /\ [Next]_vars => TurnInv'
<1> SUFFICES ASSUME Types, MountedBefore, QueueInv, LoopInv, TurnInv, [Next]_vars PROVE TurnInv'
  OBVIOUS
<1>1. Step /\ TypeOK
  BY StepKinds DEF Types
<1>2. BatchAwaits /\ BatchGoesOn /\ OneLoop /\ LoopIsSeen /\ QueuedIsServed
  BY DEF TurnInv
<1>3. /\ \A o \in Cell : loop[o] \in Cell \cup {None} /\ mountOf[o] \in Mount
      /\ current \in Cell \cup {None} /\ mount \in Mount /\ who \in Cell
  BY <1>1, Fields
<1>4. CASE Still
  <2>1. /\ UNCHANGED <<at, mountOf, loop, late, raced, task, who>>
        /\ UNCHANGED <<batch, current, batchTab, batchMount>>
    BY <1>4 DEF Still, batchVars
  <2>2. \A o \in Cell : Looping(o)' = Looping(o)
    BY <2>1 DEF Looping, Draining
  <2>3. BatchAwaits' /\ OneLoop' /\ QueuedIsServed'
    BY <1>2, <2>1, <2>2
       DEF BatchAwaits, OneLoop, QueuedIsServed, HasLoop, Looping, Draining
  <2>4. CASE UNCHANGED <<mount, executing, seen>>
    BY <1>2, <2>1, <2>2, <2>3, <2>4 DEF TurnInv, BatchGoesOn, LoopIsSeen
  <2>5. CASE /\ task = "idle" /\ UNCHANGED <<mount, executing>> /\ seen' = executing
    <3>1. LoopIsSeen'
      BY <1>2, <2>1, <2>2, <2>5 DEF LoopIsSeen
    <3> QED
      BY <2>1, <2>3, <2>5, <3>1 DEF TurnInv, BatchGoesOn
  <2>6. CASE task = "idle" /\ mount' = mount + 1
    <3>1. \A o \in Cell : mountOf[o] # mount'
      BY <1>3, <2>6, Firsts DEF MountedBefore
    <3>2. LoopIsSeen'
      BY <2>1, <3>1 DEF LoopIsSeen
    <3> QED
      BY <2>1, <2>3, <2>6, <3>2 DEF TurnInv, BatchGoesOn
  <2> QED
    BY <1>4, <2>4, <2>5, <2>6 DEF Still
<1>5. ASSUME NEW c \in Cell, Goes(c) PROVE TurnInv'
  <2>1. /\ at[c] \in Away /\ loop[c] = None /\ UnchangedBut(c)
        /\ UNCHANGED <<loop, late, raced, mount, executing, seen>>
        /\ UNCHANGED <<batch, current, batchTab, batchMount>>
    BY <1>5 DEF Goes, LoopInv, NoLoopBefore, Away, batchVars
  <2>2. Runs(batchTab) => c # current
    BY <1>2, <1>3, <2>1, Firsts DEF BatchAwaits, Away
  <2>3. CASE at'[c] \in Away /\ mountOf'[c] = mountOf[c] /\ UNCHANGED <<task, who>>
    <3>1. \A d \in Cell : mountOf'[d] = mountOf[d] /\ (at'[d] = "queued" => at[d] = "queued")
      BY <2>1, <2>3 DEF UnchangedBut, Away
    <3>2. \A o \in Cell : Looping(o)' = Looping(o)
      BY <2>1, <2>3 DEF Looping, Draining
    <3>3. BatchAwaits' /\ BatchGoesOn'
      BY <1>2, <1>3, <2>1, <2>2, <2>3, <3>1, <3>2, Firsts
         DEF BatchAwaits, BatchGoesOn, Looping, Draining, Runs, UnchangedBut
    <3>4. OneLoop' /\ LoopIsSeen'
      BY <1>2, <2>1, <3>1, <3>2 DEF OneLoop, LoopIsSeen
    <3>5. QueuedIsServed'
      BY <1>2, <1>3, <2>1, <2>3, <3>1 DEF QueuedIsServed, HasLoop
    <3> QED
      BY <3>3, <3>4, <3>5 DEF TurnInv
  <2>4. CASE /\ at'[c] = "none" /\ task = "idle" /\ task' = "return" /\ who' = c
    <3>1. OneLoop' /\ LoopIsSeen' /\ QueuedIsServed'
      BY <1>1, <1>2, <2>1, <2>4, TurnKept
    <3>2. \A o \in Cell : Looping(o)' = (loop[o] # None) /\ Looping(o) = (loop[o] # None)
      BY <2>1, <2>4 DEF Looping, Draining
    <3>3. BatchAwaits' /\ BatchGoesOn'
      BY <1>2, <1>3, <2>1, <2>2, <2>4, <3>2, Firsts
         DEF BatchAwaits, BatchGoesOn, Looping, Draining, Runs, UnchangedBut
    <3> QED
      BY <3>1, <3>3 DEF TurnInv
  <2> QED
    BY <1>5, <2>3, <2>4 DEF Goes
<1>6. ASSUME NEW c \in Cell, NEW t \in TabType, Clicks(c, t)
      PROVE  /\ OneLoop' /\ LoopIsSeen' /\ QueuedIsServed'
             /\ task' = "return" => who' = c \/ ~Runs(t)
             /\ \A o \in Cell : Looping(o) => Looping(o)' /\ mountOf'[o] = mountOf[o] /\ o # c
             /\ Runs(t) => /\ task' = "drain" /\ who' = c
                           /\ mountOf'[c] = mount /\ at'[c] = "queued"
  <2>1. /\ task = "idle" /\ loop[c] = None /\ at[c] = "none" /\ Begins(c, t, mount)
        /\ UNCHANGED <<loop, raced, mount>> /\ (seen => seen') /\ (Runs(t) => ~seen /\ seen')
    BY <1>6 DEF Clicks
  <2>2. Runs(t) /\ mount \notin raced => \A o \in Cell : Looping(o) => mountOf[o] # mount
    BY <1>2, <2>1 DEF LoopIsSeen
  <2>3. OneLoop' /\ LoopIsSeen' /\ QueuedIsServed'
    BY <1>1, <1>2, <1>3, <2>1, <2>2, TurnBegins
  <2>4. \A o \in Cell : Looping(o) => Looping(o)' /\ mountOf'[o] = mountOf[o] /\ o # c
    BY <2>1 DEF Looping, Draining, Begins, Joins, UnchangedBut
  <2>5. Runs(t) => /\ task' = "drain" /\ who' = c
                   /\ mountOf'[c] = mount /\ at'[c] = "queued"
    BY <2>1 DEF Runs, Begins, Joins, Looping, Draining
  <2> QED
    BY <2>1, <2>3, <2>4, <2>5 DEF Begins, Joins
<1>7. ASSUME NEW c \in Cell, NEW t \in TabType, ClicksOne(c, t) PROVE TurnInv'
  <2>1. /\ Clicks(c, t) /\ c # current /\ task = "idle" /\ UNCHANGED <<raced, mount>>
        /\ UNCHANGED <<batch, current, batchTab, batchMount>>
    BY <1>7 DEF ClicksOne, Clicks, batchVars
  <2>2. UnchangedBut(c) /\ (task' = "return" => who' = c)
    BY <2>1 DEF Clicks, Begins, Joins, UnchangedBut
  <2>3. BatchAwaits' /\ BatchGoesOn'
    BY <1>2, <1>3, <1>6, <2>1, <2>2, Firsts
       DEF BatchAwaits, BatchGoesOn, Looping, Draining, Runs, UnchangedBut
  <2> QED
    BY <1>6, <2>1, <2>3 DEF TurnInv
<1>8. ASSUME NEW c \in Cell, NEW t \in TabType, ClicksFrom(c, t) PROVE TurnInv'
  <2>1. /\ Clicks(c, t) /\ current' = c /\ batchTab' = t /\ batchMount' = mount
        /\ UNCHANGED mount
    BY <1>8 DEF ClicksFrom, Clicks
  <2>2. Runs(t) => /\ task' = "drain" /\ who' = c
                   /\ mountOf'[c] = mount /\ at'[c] = "queued"
    BY <1>6, <2>1
  <2>3. BatchAwaits' /\ BatchGoesOn'
    BY <2>1, <2>2 DEF BatchAwaits, BatchGoesOn, Looping, Draining, Runs
  <2> QED
    BY <1>6, <2>1, <2>3 DEF TurnInv
<1>9. CASE TakesNext
  <2> DEFINE h == Head(batch)
  <2>1. /\ task = "return" /\ who = current /\ batch # <<>> /\ current' = h
        /\ Begins(h, batchTab, batchMount)
        /\ UNCHANGED <<loop, raced, mount, seen, batchTab, batchMount>>
    BY <1>9 DEF TakesNext
  <2>2. h \in Cell /\ at[h] = "none" /\ loop[h] = None /\ current \in Cell
    BY <1>1, <2>1, BatchHead DEF LoopInv
  <2>3. batchMount \in Mount
    BY <1>1, Fields
  <2>4. Runs(batchTab) /\ batchMount \notin raced =>
            /\ \A o \in Cell : Looping(o) => mountOf[o] # batchMount
            /\ batchMount = mount => seen
    BY <1>2, <2>1, <2>2, Firsts DEF BatchGoesOn
  <2> HIDE DEF h
  <2>5. OneLoop' /\ LoopIsSeen' /\ QueuedIsServed'
    BY <1>1, <1>2, <2>1, <2>2, <2>3, <2>4, TurnBegins
  <2>6. Runs(batchTab) => /\ task' = "drain" /\ who' = h
                          /\ mountOf'[h] = batchMount /\ at'[h] = "queued"
    BY <2>1 DEF Runs, Begins, Joins, Looping, Draining
  <2>7. BatchAwaits' /\ BatchGoesOn'
    BY <2>1, <2>6 DEF BatchAwaits, BatchGoesOn, Looping, Draining, Runs
  <2> QED
    BY <2>5, <2>7 DEF TurnInv
<1>10. CASE Returns
  <2>1. /\ task = "return" /\ task' = "idle"
        /\ UNCHANGED <<at, mountOf, loop, late, executing, raced, mount, seen>>
    BY <1>10 DEF Returns
  <2>2. \A o \in Cell : Looping(o)' = (loop[o] # None) /\ Looping(o) = (loop[o] # None)
    BY <2>1 DEF Looping, Draining
  <2>3. OneLoop' /\ LoopIsSeen' /\ QueuedIsServed'
    BY <1>2, <2>1, <2>2 DEF OneLoop, LoopIsSeen, QueuedIsServed, HasLoop
  <2>4. \/ who # current /\ UNCHANGED <<current, batchTab, batchMount>>
        \/ current' = None
    BY <1>10 DEF Returns, batchVars
  <2>5. BatchAwaits' /\ BatchGoesOn'
    BY <1>2, <2>1, <2>2, <2>4 DEF BatchAwaits, BatchGoesOn, Looping, Draining, Runs
  <2> QED
    BY <2>3, <2>5 DEF TurnInv
<1>11. ASSUME NEW c \in Cell, JoinsLate(c) PROVE TurnInv'
  <2>1. /\ task = "idle" /\ at[c] = "lookup" /\ loop[c] = None /\ mountOf[c] \in Mount
        /\ Joins(c, tabOf[c], mountOf[c])
        /\ raced' = raced \cup {mountOf[c]} /\ UNCHANGED <<loop, mount, seen>>
        /\ UNCHANGED <<batch, current, batchTab, batchMount>>
    BY <1>3, <1>11 DEF JoinsLate, LoopInv, NoLoopBefore, batchVars
  <2>2. raced \subseteq raced' /\ mountOf[c] \in raced'
    BY <2>1
  <2>3. OneLoop' /\ LoopIsSeen' /\ QueuedIsServed'
    BY <1>1, <1>2, <2>1, <2>2, TurnJoins
  <2>4. Runs(batchTab) => c # current
    BY <1>2, <1>3, <2>1, Firsts DEF BatchAwaits
  <2>5. /\ \A o \in Cell : Looping(o) => Looping(o)' /\ mountOf'[o] = mountOf[o] /\ o # c
        /\ who' = c /\ UnchangedBut(c)
    BY <2>1 DEF Looping, Draining, Joins, UnchangedBut
  <2>6. BatchAwaits' /\ BatchGoesOn'
    BY <1>2, <1>3, <2>1, <2>4, <2>5, Firsts
       DEF BatchAwaits, BatchGoesOn, Looping, Draining, Runs, UnchangedBut
  <2> QED
    BY <2>3, <2>6 DEF TurnInv
<1>12. ASSUME NEW o \in Cell, NEW h \in Cell, Sends(o, h) PROVE TurnInv'
  <2>1. /\ Draining(o) /\ task = "drain" /\ who = o /\ task' = "idle" /\ loop'[o] = h
        /\ \A p \in Cell : p # o => loop'[p] = loop[p]
        /\ at'[h] = "sent" /\ \A d \in Cell : d # h => at'[d] = at[d]
        /\ late' = late \ {h} /\ UNCHANGED <<mountOf, executing, raced, mount, seen>>
        /\ UNCHANGED <<batch, current, batchTab, batchMount>>
    BY <1>12 DEF Sends, Draining, batchVars
  <2>2. \A p \in Cell : Looping(p)' = Looping(p)
    BY <2>1, Firsts DEF Looping, Draining
  <2>3. OneLoop' /\ LoopIsSeen'
    BY <1>2, <2>1, <2>2 DEF OneLoop, LoopIsSeen
  <2>4. QueuedIsServed'
    <3> SUFFICES ASSUME NEW d \in Cell \ late', at'[d] = "queued" PROVE HasLoop(mountOf[d])'
      BY <2>1 DEF QueuedIsServed
    <3>1. d # h /\ d \in Cell \ late /\ at[d] = "queued"
      BY <2>1
    <3>2. CASE mountOf[o] = mountOf[d]
      BY <2>1, <3>2, Firsts DEF HasLoop
    <3>3. CASE mountOf[o] # mountOf[d]
      BY <1>2, <2>1, <3>1, <3>3 DEF QueuedIsServed, HasLoop
    <3> QED
      BY <3>2, <3>3
  <2>5. BatchAwaits' /\ BatchGoesOn'
    BY <1>2, <1>3, <2>1, <2>2, Firsts DEF BatchAwaits, BatchGoesOn, Looping, Draining, Runs
  <2> QED
    BY <2>3, <2>4, <2>5 DEF TurnInv
<1>13. ASSUME NEW o \in Cell, Ends(o) PROVE TurnInv'
  <2> DEFINE m == mountOf[o]
  <2>1. /\ Draining(o) /\ task = "drain" /\ who = o /\ task' = "return" /\ who' = o
        /\ queue[m] = <<>> /\ loop'[o] = None
        /\ \A p \in Cell : p # o => loop'[p] = loop[p]
        /\ UNCHANGED at /\ UnchangedBut(o) /\ (at[o] # "none" => mountOf'[o] = mountOf[o])
        /\ executing' = (IF m = mount THEN FALSE ELSE executing)
        /\ UNCHANGED <<late, mount, seen>>
        /\ UNCHANGED <<batch, current, batchTab, batchMount>>
    BY <1>13 DEF Ends, Draining, batchVars
  <2>2. raced' = IF \/ \E p \in Cell \ {o} : loop[p] # None /\ mountOf[p] = m
                    \/ o = current /\ batch # <<>>
                 THEN raced ELSE raced \ {m}
    BY <1>13 DEF Ends
  <2>3. /\ Looping(o) /\ ~Looping(o)'
        /\ \A p \in Cell :
              p # o => Looping(p) = (loop[p] # None) /\ Looping(p)' = (loop[p] # None)
    BY <2>1 DEF Looping, Draining
  <2>4. \A p \in Cell : p # o => mountOf'[p] = mountOf[p]
    BY <2>1 DEF UnchangedBut
  <2>5. \A p \in Cell : p # o /\ loop[p] # None /\ mountOf[p] \notin raced' =>
            mountOf[p] \notin raced /\ mountOf[p] # m
    <3> SUFFICES ASSUME NEW p \in Cell, p # o, loop[p] # None, mountOf[p] \notin raced'
                 PROVE  mountOf[p] \notin raced /\ mountOf[p] # m
      OBVIOUS
    <3>1. mountOf[p] \notin raced
      BY <2>2
    <3> QED
      BY <1>2, <2>3, <3>1 DEF OneLoop
  <2> HIDE DEF m
  <2>6. OneLoop'
    BY <1>2, <2>3, <2>4, <2>5 DEF OneLoop
  <2>7. LoopIsSeen'
    BY <1>2, <2>1, <2>3, <2>4, <2>5 DEF LoopIsSeen
  <2>8. QueuedIsServed'
    <3> SUFFICES ASSUME NEW d \in Cell \ late, at[d] = "queued" 
                 PROVE  \E p \in Cell : loop'[p] # None /\ mountOf'[p] = mountOf'[d]
      BY <2>1 DEF QueuedIsServed, HasLoop
    <3>1. mountOf'[d] = mountOf[d]
      BY <2>1, <2>4
    <3>2. mountOf[d] # m
      <4>1. PICK i \in 1 .. Len(queue[mountOf[d]]) : queue[mountOf[d]][i] = d
        BY DEF QueueInv, QueuedIsThere
      <4> QED
        BY <2>1, <4>1
    <3>3. PICK p \in Cell : loop[p] # None /\ mountOf[p] = mountOf[d]
      BY <1>2, <2>1, <3>2 DEF QueuedIsServed, HasLoop, m
    <3>4. p # o
      BY <3>2, <3>3 DEF m
    <3> QED
      BY <2>1, <2>4, <3>1, <3>3, <3>4
  <2>9. BatchAwaits'
    <3> SUFFICES ASSUME current # None, Runs(batchTab)
                 PROVE  /\ at[current] \in {"none", "queued", "sent"}
                        /\ \/ loop'[current] # None /\ mountOf'[current] = batchMount
                           \/ o = current
      BY <2>1 DEF BatchAwaits, Looping, Draining
    <3>1. /\ at[current] \in {"none", "queued", "sent"} /\ current \in Cell
          /\ Looping(current) /\ mountOf[current] = batchMount
      BY <1>2, <1>3, <2>1 DEF BatchAwaits
    <3> QED
      BY <2>1, <2>3, <2>4, <3>1
  <2>10. BatchGoesOn'
    <3> SUFFICES ASSUME current # None, Runs(batchTab), batch # <<>>, batchMount \notin raced',
                        o = current
                 PROVE  /\ \A p \in Cell : Looping(p)' => mountOf'[p] # batchMount
                        /\ batchMount = mount => seen
      BY <2>1 DEF BatchGoesOn, Runs
    <3>1. mountOf[o] = batchMount
      BY <1>2, <2>1 DEF BatchAwaits
    <3>2. batchMount \notin raced
      BY <2>2
    <3>3. \A p \in Cell : p # o /\ loop[p] # None => mountOf[p] # batchMount
      BY <1>2, <2>3, <3>1, <3>2 DEF OneLoop
    <3>4. batchMount = mount => seen
      BY <1>2, <2>3, <3>1, <3>2 DEF LoopIsSeen
    <3> QED
      BY <2>3, <2>4, <3>3, <3>4
  <2> QED
    BY <2>6, <2>7, <2>8, <2>9, <2>10 DEF TurnInv
<1>14. ASSUME NEW o \in Cell, NEW c \in Cell, Gets(o, c) PROVE TurnInv'
  <2>1. /\ task = "idle" /\ task' = "drain" /\ who' = o /\ c = loop[o] /\ c # None
        /\ UnchangedBut(c) /\ at'[c] = "none" /\ (loop[c] # None => mountOf'[c] = mountOf[c])
        /\ UNCHANGED <<loop, executing, late, raced, mount, seen>>
        /\ UNCHANGED <<batch, current, batchTab, batchMount>>
    BY <1>14 DEF Gets, batchVars
  <2>2. \A p \in Cell : Looping(p)' = (loop[p] # None) /\ Looping(p) = (loop[p] # None)
    BY <2>1 DEF Looping, Draining
  <2>3. \A p \in Cell : loop[p] # None => mountOf'[p] = mountOf[p]
    BY <2>1 DEF UnchangedBut
  <2>4. OneLoop' /\ LoopIsSeen'
    BY <1>2, <2>1, <2>2, <2>3 DEF OneLoop, LoopIsSeen
  <2>5. QueuedIsServed'
    BY <1>2, <2>1, <2>3 DEF QueuedIsServed, HasLoop, UnchangedBut
  <2>6. BatchAwaits' /\ BatchGoesOn'
    BY <1>2, <1>3, <2>1, <2>2, <2>3, Firsts
       DEF BatchAwaits, BatchGoesOn, Looping, Draining, Runs, UnchangedBut
  <2> QED
    BY <2>4, <2>5, <2>6 DEF TurnInv
<1> QED
  BY <1>1, <1>4, <1>5, <1>7, <1>8, <1>9, <1>10, <1>11, <1>12, <1>13, <1>14 DEF Step

-----------------------------------------------------------------------------
(* What is shown as running. *)

\* A step that shows nothing else, and moves no cell that is shown as running.
LEMMA RunningKept ==
    ASSUME RunningIsTrue, UNCHANGED <<spinning, orphan, mount>>,
           \A c \in Cell : at[c] \in {"asked", "up", "sent"} =>
               at'[c] \in {"asked", "up", "sent"} /\ mountOf'[c] = mountOf[c],
           spinning \subseteq Cell
    PROVE  RunningIsTrue'
  BY DEF RunningIsTrue

\* Every step keeps it: whoever leaves clears the spinner it has set.
LEMMA RunningStep ==
    Types /\ QueueInv /\ LoopInv /\ RunningIsTrue /\ [Next]_vars => RunningIsTrue'
<1> SUFFICES ASSUME Types, QueueInv, LoopInv, RunningIsTrue, [Next]_vars PROVE RunningIsTrue'
  OBVIOUS
<1>1. Step /\ TypeOK /\ spinning \subseteq Cell
  BY StepKinds DEF Types, TypeOK
<1>2. CASE Still
  BY <1>2 DEF Still, RunningIsTrue
<1>3. ASSUME NEW c \in Cell, Goes(c) PROVE RunningIsTrue'
  BY <1>1, <1>3 DEF Goes, UnchangedBut, Away, ShowRunning, ShowEnded, RunningIsTrue
<1>4. ASSUME NEW c \in Cell, NEW t, NEW m, Begins(c, t, m), at[c] \in {"none", "lookup"},
             UNCHANGED <<spinning, orphan, mount>>
      PROVE RunningIsTrue'
  BY <1>1, <1>4, RunningKept DEF Begins, Joins, UnchangedBut
<1>5. ASSUME NEW c \in Cell, NEW t \in TabType, ClicksOne(c, t) \/ ClicksFrom(c, t)
      PROVE RunningIsTrue'
  BY <1>4, <1>5 DEF ClicksOne, ClicksFrom, Clicks
<1>6. CASE TakesNext
  <2>1. Head(batch) \in Cell /\ at[Head(batch)] = "none"
    BY <1>1, <1>6, BatchHead DEF TakesNext, LoopInv
  <2> QED
    BY <1>4, <1>6, <2>1 DEF TakesNext
<1>7. CASE Returns
  BY <1>1, <1>7, RunningKept DEF Returns
<1>8. ASSUME NEW c \in Cell, JoinsLate(c) PROVE RunningIsTrue'
  BY <1>1, <1>8, RunningKept DEF JoinsLate, Joins, UnchangedBut
<1>9. ASSUME NEW o \in Cell, NEW h \in Cell, Sends(o, h) PROVE RunningIsTrue'
  <2>1. at[h] = "queued" /\ mountOf[h] = mountOf[o]
    BY <1>1, <1>9, QueueHead
  <2> QED
    BY <1>1, <1>9, <2>1 DEF Sends, ShowRunning, RunningIsTrue
<1>10. ASSUME NEW o \in Cell, Ends(o) PROVE RunningIsTrue'
  BY <1>1, <1>10, RunningKept DEF Ends, UnchangedBut
<1>11. ASSUME NEW o \in Cell, NEW c \in Cell, Gets(o, c) PROVE RunningIsTrue'
  <2>1. mountOf[c] = mountOf[o]
    BY <1>11 DEF Gets, LoopInv, LoopHasSent, Draining
  <2> QED
    BY <1>1, <1>11, <2>1 DEF Gets, UnchangedBut, ShowEnded, RunningIsTrue
<1> QED
  BY <1>1, <1>2, <1>3, <1>5, <1>6, <1>7, <1>8, <1>9, <1>10, <1>11 DEF Step

-----------------------------------------------------------------------------
(* The theorems. *)

\* At first nothing runs, waits or is shown.
LEMMA InitIInv == Init => IInv
<1> SUFFICES ASSUME Init PROVE IInv
  OBVIOUS
<1>1. Types
  BY TypeInit
<1>2. /\ \A c \in Cell : at[c] = "none" /\ mountOf[c] = 1 /\ loop[c] = None
      /\ \A m \in Mount : queue[m] = <<>>
      /\ mount = 1 /\ task = "idle" /\ batch = <<>> /\ current = None /\ batchMount = 1
      /\ raced = {} /\ spinning = {}
  BY DEF Init
<1>3. \A o \in Cell : ~Draining(o) /\ ~Looping(o)
  BY <1>2 DEF Draining, Looping
<1>4. MountedBefore
  BY <1>2 DEF MountedBefore
<1>5. QueueInv
  BY <1>2 DEF QueueInv, QueuedOnce, QueuedIsThere
<1>6. LoopInv
  BY <1>2, <1>3 DEF LoopInv, LoopHasSent, NoLoopBefore, BatchInOrder
<1>7. TurnInv
  BY <1>2, <1>3 DEF TurnInv, BatchAwaits, BatchGoesOn, OneLoop, LoopIsSeen, QueuedIsServed
<1>8. RunningIsTrue
  BY <1>2 DEF RunningIsTrue
<1> QED
  BY <1>1, <1>4, <1>5, <1>6, <1>7, <1>8 DEF IInv

\* The invariant holds in every reachable state.
LEMMA Inductive == Spec => []IInv
<1>1. IInv /\ [Next]_vars => IInv'
  BY TypeStep, MountedStep, QueueStep, LoopStep, TurnStep, RunningStep DEF IInv
<1> QED
  BY InitIInv, <1>1, PTL DEF Spec

\* Types, and what they say of a tab: a connected one has its endpoint, a disconnected
\* one that has one has had a restore that failed.
THEOREM TypeCorrect == Spec => []TypeOK
<1>1. IInv => TypeOK
  BY DEF IInv, Types
<1> QED
  BY <1>1, Inductive, PTL

\* executeCell's queue and loop: an instance of Notebook runs its cells one at a time and
\* leaves none in the queue, for any number of cells, batches and switches of tabs.
THEOREM CellsRunInTurn == Spec => []RunInTurn
<1>1. IInv => RunInTurn
  BY DEF IInv, TurnInv, OneLoop, Looping, QueuedIsServed, RunInTurn
<1> QED
  BY <1>1, Inductive, PTL

\* Each way out of executeCell clears the spinner it has set: a cell that is shown as
\* running runs, or its session is being restored.
THEOREM SpinnersAreTrue == Spec => []RunningIsTrue
<1>1. IInv => RunningIsTrue
  BY DEF IInv
<1> QED
  BY <1>1, Inductive, PTL

=============================================================================
