------------------------------ MODULE Lifecycle ------------------------------
(***************************************************************************)
(* The VMs of one session over time: launch, suspend, resume, terminate,   *)
(* listing, the timer that wakes a VM before its end, and a proxy that     *)
(* goes down and rebuilds its state from the table vm_sessions.            *)
(*                                                                         *)
(* AWS ends a VM at its maximum duration; the VM's /terminate hook, which  *)
(* saves the session, runs only if the VM is running then.  A rotation is  *)
(* one step here (Rotation has its own).  VMs are numbered in the order of *)
(* their launch.  Handlers on the event loop are atomic: nothing that      *)
(* changes state follows an await.  Time is counted in ticks.              *)
(***************************************************************************)
EXTENDS Naturals, FiniteSets

CONSTANTS
    Modes,         \* values of SESSION_PERSISTENCE_MODE
    Lifetime,      \* maximumDurationInSeconds
    Idle,          \* maxIdleDurationSeconds
    Margin, MinLead, MinDelay,     \* 10, 15 and 10 s of schedule_pre_terminate
    Buffer, MinRest, RestoredIdle, \* 30, 10 and 60 s of restore_timers_from_db
    Young, Lag,    \* 60 s of list_instances; how long AWS may not list a new VM
    MaxVm, MaxDowns  \* bounds: VMs, outages of the proxy

ASSUME LifecycleBounds ==
    /\ Modes \subseteq {"checkpoint", "eternal"}
    /\ {Lifetime, Idle, Margin, MinLead, MinDelay, Buffer, MinRest, RestoredIdle, Young, Lag,
        MaxVm, MaxDowns} \subseteq Nat
    /\ Lag <= Young

\* 10 s, 15 s and 30 + 10 s in the code, which leaves it to the client to ask for VMs
\* that live longer than 10 s.
ASSUME LifecycleTimes == 0 < MinLead /\ MinDelay < Lifetime /\ MinDelay <= Buffer + MinRest

Vm == 1 .. MaxVm
NoVm == 0
NoTimer == Lifetime + 1

VARIABLES
    mode,
    aws,        \* each VM at AWS: "none", "running", "suspended", "dead"
    age, quiet, \* ticks since its launch and since its last request
    up,         \* does the proxy run?
    registry,   \* _session_registry[session]
    active,     \* keys of active_microvms
    tracked,    \* the VM the rotator has for the session
    timer,      \* _pre_terminate_timers: ticks that are left
    row,        \* state of each row of vm_sessions
    hooked,     \* VMs whose payload says persistence_mode "checkpoint"
    end,        \* how each VM ended: "no", "user", "rotated", "saved", "unsaved"
    rung,       \* history: VMs whose timer fired
    roused,     \* history: VMs it found asleep, unless suspended again by the user
    excused,    \* history: VMs for which no timer is owed
    before,     \* history: the registry when the proxy went down
    unsure,     \* history: VMs AWS gave no answer about at the last start
    downs

proxy == <<up, registry, active, tracked, timer>>
history == <<rung, roused, excused, before, unsure>>
vars == <<mode, aws, age, quiet, proxy, row, hooked, end, history, downs>>

Init ==
    /\ mode \in Modes
    /\ aws = [v \in Vm |-> "none"]
    /\ age = [v \in Vm |-> 0] /\ quiet = [v \in Vm |-> 0]
    /\ up = TRUE /\ registry = NoVm /\ active = {} /\ tracked = NoVm
    /\ timer = [v \in Vm |-> NoTimer]
    /\ row = [v \in Vm |-> "none"] /\ hooked = {}
    /\ end = [v \in Vm |-> "no"]
    /\ rung = {} /\ roused = {} /\ excused = {} /\ before = NoVm /\ unsure = {}
    /\ downs = 0

Larger(a, b) == IF a > b THEN a ELSE b
\* Subtraction that stops at 0.
Less(a, b) == IF a > b THEN a - b ELSE 0

\* Bug: the margin is forgotten.
DelayTight(left, idle) == Larger(Less(left, Larger(idle, MinLead)), MinDelay)

\* schedule_pre_terminate: ticks until the timer fires.
Delay(left, idle) == Larger(Less(left, Larger(Less(idle, Margin), MinLead)), MinDelay)

Alive == {v \in Vm : aws[v] \in {"running", "suspended"}}
Oldest(vms) == CHOOSE v \in vms : \A w \in vms : v <= w
Newest(vms) == CHOOSE v \in vms : \A w \in vms : v >= w
Recorded == {v \in Vm : row[v] = "RUNNING"}   \* vm_session_list_active

\* The VM that AWS starts next.
Fresh(v) == aws[v] = "none" /\ \A w \in 1 .. v - 1 : aws[w] # "none"

-----------------------------------------------------------------------------
(* Requests of the client. *)

\* Bug: the rotator gets the session in either mode.
LaunchTracked(v) ==
    /\ up /\ Fresh(v)
    /\ aws' = [aws EXCEPT ![v] = "running"] /\ active' = active \cup {v}
    /\ hooked' = IF mode = "checkpoint" THEN hooked \cup {v} ELSE hooked
    /\ row' = [row EXCEPT ![v] = "RUNNING"]
    /\ registry' = v /\ tracked' = v
    /\ timer' = [timer EXCEPT ![v] = Delay(Lifetime, Idle)]
    /\ UNCHANGED <<mode, age, quiet, up, end, history, downs>>

\* POST /launch.  It may be answered 502 although all this happened (the poll that
\* follows fails), and the client launches again for the same session.
Launch(v) ==
    /\ up /\ Fresh(v)
    /\ aws' = [aws EXCEPT ![v] = "running"] /\ active' = active \cup {v}
    /\ hooked' = IF mode = "checkpoint" THEN hooked \cup {v} ELSE hooked
    /\ row' = [row EXCEPT ![v] = "RUNNING"]
    /\ registry' = v
    /\ IF mode = "eternal"
       THEN tracked' = v /\ timer' = [timer EXCEPT ![v] = Delay(Lifetime, Idle)]
       ELSE UNCHANGED <<tracked, timer>>
    /\ UNCHANGED <<mode, age, quiet, up, end, history, downs>>

\* The insert fails: 502, and a VM that only active_microvms knows.
LaunchUnrecorded(v) ==
    /\ up /\ Fresh(v)
    /\ aws' = [aws EXCEPT ![v] = "running"] /\ active' = active \cup {v}
    /\ hooked' = IF mode = "checkpoint" THEN hooked \cup {v} ELSE hooked
    /\ UNCHANGED <<mode, age, quiet, up, registry, tracked, timer, row, end, history, downs>>

\* A forwarded request; AWS resumes the VM for it.
Request ==
    /\ up /\ registry \in Alive
    /\ aws' = [aws EXCEPT ![registry] = "running"]
    /\ quiet' = [quiet EXCEPT ![registry] = 0]
    /\ UNCHANGED <<mode, age, proxy, row, hooked, end, history, downs>>

Suspend ==
    /\ up /\ registry \in Alive /\ aws[registry] = "running"
    /\ aws' = [aws EXCEPT ![registry] = "suspended"]
    /\ roused' = roused \ {registry}
    /\ UNCHANGED <<mode, age, quiet, proxy, row, hooked, end, rung, excused, before, unsure, downs>>

Resume ==
    /\ up /\ registry \in Alive /\ aws[registry] = "suspended"
    /\ aws' = [aws EXCEPT ![registry] = "running"]
    /\ quiet' = [quiet EXCEPT ![registry] = 0]
    /\ UNCHANGED <<mode, age, proxy, row, hooked, end, history, downs>>

\* The VM of the session: by the registry, else any of active_microvms, else a row.
Target ==
    CASE registry # NoVm -> registry
      [] registry = NoVm /\ active # {} -> Oldest(active)
      [] OTHER -> Newest(Recorded)

\* Bug: the timer is not cancelled.
TerminateTimed ==
    /\ up /\ (registry # NoVm \/ active # {} \/ Recorded # {})
    /\ LET t == Target IN
       \/ /\ aws' = [aws EXCEPT ![t] = "dead"] /\ active' = active \ {t}
          /\ end' = IF t \in Alive THEN [end EXCEPT ![t] = "user"] ELSE end
          /\ UNCHANGED excused
       \/ excused' = excused \cup {t} /\ UNCHANGED <<aws, active, end>>
    /\ registry' = NoVm /\ tracked' = NoVm
    /\ UNCHANGED <<mode, age, quiet, up, timer, row, hooked, rung, roused, before, unsure, downs>>

\* POST /terminate: forget the session, then call AWS, which may fail.
Terminate ==
    /\ up /\ (registry # NoVm \/ active # {} \/ Recorded # {})
    /\ LET t == Target IN
       /\ timer' = [timer EXCEPT ![t] = NoTimer]
       /\ \/ /\ aws' = [aws EXCEPT ![t] = "dead"] /\ active' = active \ {t}
             /\ end' = IF t \in Alive THEN [end EXCEPT ![t] = "user"] ELSE end
             /\ UNCHANGED excused
          \/ excused' = excused \cup {t} /\ UNCHANGED <<aws, active, end>>
    /\ registry' = NoVm /\ tracked' = NoVm
    /\ UNCHANGED <<mode, age, quiet, up, row, hooked, rung, roused, before, unsure, downs>>

\* Bug: VMs that AWS does not list yet are forgotten.
ListedByAws(missing) == Alive \ missing

\* What list_instances returns; AWS may not list a VM it has just launched.
Listed(missing) == (Alive \ missing) \cup {v \in active : age[v] <= Young}

\* GET /instances: rows of VMs that are not listed are marked.  (Its guard of 120 s
\* reads a column that does not exist, and so always holds.)
List ==
    /\ up
    /\ \E missing \in SUBSET {v \in Alive : age[v] <= Lag} :
         row' = [v \in Vm |-> IF v \in Recorded \ Listed(missing) THEN "TERMINATED" ELSE row[v]]
    /\ UNCHANGED <<mode, aws, age, quiet, proxy, hooked, end, history, downs>>

-----------------------------------------------------------------------------
(* The rotator, the timers, AWS. *)

\* A rotation that comes through.  The new VM has no row and no timer; that the old
\* one could not be terminated is only logged.
Rotate(v) ==
    /\ up /\ tracked # NoVm
    /\ Fresh(v)
    /\ hooked' = hooked \cup {v}
    /\ registry' = v /\ tracked' = v
    /\ \/ /\ aws' = [aws EXCEPT ![v] = "running", ![tracked] = "dead"]
          /\ active' = (active \cup {v}) \ {tracked}
          /\ timer' = [timer EXCEPT ![tracked] = NoTimer]
          /\ end' = IF tracked \in Alive THEN [end EXCEPT ![tracked] = "rotated"] ELSE end
       \/ /\ aws' = [aws EXCEPT ![v] = "running"] /\ active' = active \cup {v}
          /\ UNCHANGED <<timer, end>>
    /\ UNCHANGED <<mode, age, quiet, up, row, history, downs>>

\* _pre_terminate_vm: resume the VM, which does nothing if it is running.
Fire(v) ==
    /\ up /\ timer[v] = 0
    /\ timer' = [timer EXCEPT ![v] = NoTimer]
    /\ rung' = rung \cup {v}
    /\ IF aws[v] = "suspended"
       THEN /\ aws' = [aws EXCEPT ![v] = "running"] /\ quiet' = [quiet EXCEPT ![v] = 0]
            /\ roused' = roused \cup {v}
       ELSE UNCHANGED <<aws, quiet, roused>>
    /\ UNCHANGED <<mode, age, up, registry, active, tracked, row, hooked, end, excused, before,
                   unsure, downs>>

\* The idle policy.
FallAsleep(v) ==
    /\ aws[v] = "running" /\ quiet[v] = Idle
    /\ aws' = [aws EXCEPT ![v] = "suspended"]
    /\ UNCHANGED <<mode, age, quiet, proxy, row, hooked, end, history, downs>>

\* The maximum duration: the hook runs in a VM that is running.
Expire(v) ==
    /\ v \in Alive /\ age[v] = Lifetime
    /\ aws' = [aws EXCEPT ![v] = "dead"]
    /\ end' = [end EXCEPT ![v] = IF aws[v] = "running" /\ v \in hooked THEN "saved" ELSE "unsaved"]
    /\ excused' = IF up THEN excused ELSE excused \cup {v}
    /\ UNCHANGED <<mode, age, quiet, proxy, row, hooked, rung, roused, before, unsure, downs>>

Due(v) ==
    \/ up /\ timer[v] = 0
    \/ aws[v] = "running" /\ quiet[v] = Idle
    \/ v \in Alive /\ age[v] = Lifetime

Tick ==
    /\ ~ \E v \in Vm : Due(v)
    /\ Alive # {}
    /\ age' = [v \in Vm |-> IF aws[v] # "none" /\ age[v] < Lifetime THEN age[v] + 1 ELSE age[v]]
    /\ quiet' = [v \in Vm |-> IF aws[v] = "running" THEN quiet[v] + 1 ELSE 0]
    /\ timer' = [v \in Vm |-> IF timer[v] = NoTimer THEN NoTimer ELSE timer[v] - 1]
    /\ UNCHANGED <<mode, aws, up, registry, active, tracked, row, hooked, end, history, downs>>

-----------------------------------------------------------------------------
(* The proxy process. *)

Down ==
    /\ up /\ downs < MaxDowns
    /\ up' = FALSE /\ downs' = downs + 1
    /\ before' = registry
    /\ registry' = NoVm /\ active' = {} /\ tracked' = NoVm
    /\ timer' = [v \in Vm |-> NoTimer]
    /\ UNCHANGED <<mode, aws, age, quiet, row, hooked, end, rung, roused, excused, unsure>>

\* Bug: timers are restored for the VM that is routed only.
UpRouted ==
    /\ ~up /\ up' = TRUE
    /\ \E silent \in SUBSET Alive :
         LET found == (Recorded \cap Alive) \ silent
             late  == {v \in found : Lifetime <= Buffer + MinRest + age[v]}
             marked == {v \in Alive : row[v] = "TERMINATED"}
         IN  /\ registry' = IF found = {} THEN NoVm ELSE Oldest(found)
             /\ timer' = [v \in Vm |-> IF v \in found \ late /\ v = Oldest(found)
                                       THEN Delay(Lifetime - age[v], RestoredIdle) ELSE NoTimer]
             /\ unsure' = silent
             /\ excused' = excused \cup silent \cup late \cup marked
    /\ UNCHANGED <<mode, aws, age, quiet, active, tracked, row, hooked, end, rung, roused,
                   before, downs>>

\* restore_timers_from_db: rows newest first, so that the oldest VM is registered
\* last; VMs that are dead, or that AWS gives no answer about, are skipped.
Up ==
    /\ ~up /\ up' = TRUE
    /\ \E silent \in SUBSET Alive :
         LET found == (Recorded \cap Alive) \ silent
             late  == {v \in found : Lifetime <= Buffer + MinRest + age[v]}
             marked == {v \in Alive : row[v] = "TERMINATED"}
         IN  /\ registry' = IF found = {} THEN NoVm ELSE Oldest(found)
             /\ timer' = [v \in Vm |-> IF v \in found \ late
                                       THEN Delay(Lifetime - age[v], RestoredIdle) ELSE NoTimer]
             /\ unsure' = silent
             /\ excused' = excused \cup silent \cup late \cup marked
    /\ UNCHANGED <<mode, aws, age, quiet, active, tracked, row, hooked, end, rung, roused,
                   before, downs>>

Next ==
    \/ \E v \in Vm : Launch(v) \/ LaunchUnrecorded(v) \/ Rotate(v)
    \/ \E v \in Vm : Fire(v) \/ FallAsleep(v) \/ Expire(v)
    \/ Request \/ Suspend \/ Resume \/ Terminate \/ List
    \/ Tick \/ Down \/ Up

Spec == Init /\ [][Next]_vars

-----------------------------------------------------------------------------
(* Properties. *)

\* The type of the state; only an eternal session has a rotator, and a proxy that is
\* down knows nothing.
TypeOK ==
    /\ mode \in Modes /\ up \in BOOLEAN /\ downs \in 0 .. MaxDowns
    /\ aws \in [Vm -> {"none", "running", "suspended", "dead"}]
    /\ age \in [Vm -> 0 .. Lifetime] /\ quiet \in [Vm -> 0 .. Idle]
    /\ {registry, tracked, before} \subseteq Vm \cup {NoVm}
    /\ \A s \in {active, hooked, rung, roused, excused, unsure} : s \subseteq Vm
    /\ timer \in [Vm -> 0 .. NoTimer]
    /\ row \in [Vm -> {"none", "RUNNING", "TERMINATED"}]
    /\ end \in [Vm -> {"no", "user", "rotated", "saved", "unsaved"}]
    /\ tracked # NoVm => up /\ mode = "eternal" /\ tracked = registry
    /\ ~up => registry = NoVm /\ active = {} /\ \A v \in Vm : timer[v] = NoTimer

\* A VM that the user or a rotation terminated is not woken again: no timer is left
\* for it, whatever launches, failed terminations and restarts came between.
NoTimerForTerminated ==
    \A v \in Vm : end[v] \in {"user", "rotated"} => timer[v] = NoTimer

\* The timer of a VM of an eternal session rings before the VM ends, also when the
\* proxy restarted in between: the proxy owes every recorded VM a timer, except those
\* AWS did not answer about, those it came back too late for, and those whose row an
\* earlier proxy had marked while AWS did not list them yet.
EveryTimerRings ==
    \A v \in Vm \ excused :
        mode = "eternal" /\ row[v] # "none" /\ end[v] \in {"saved", "unsaved"} => v \in rung

\* A VM that its own timer woke is awake when it ends, for the idle policy cannot put
\* it to sleep in what is left.  This does not cover the timers of a restarted proxy,
\* which are computed for an idle time of 60 s.
RousedStaysAwake ==
    \A v \in roused : downs = 0 => aws[v] # "suspended"

\* A proxy that starts routes the session to the VM it was routed to before, if that
\* VM has a row, lives, is found and is the oldest such; and never to a VM that has
\* ended.  The row of a VM launched by the proxy that went down still says RUNNING,
\* although AWS lists a VM only some time after its launch; a later proxy knows its
\* VMs by their rows only, and may have marked one in that time.
RestartRoutes ==
    [][up' /\ ~up =>
        /\ registry' \in Alive \cup {NoVm}
        /\ (/\ before \in Alive \ unsure'
            /\ row[before] = "RUNNING" \/ (downs = 1 /\ row[before] # "none")
            /\ \A w \in Recorded \cap Alive : w >= before)
           => registry' = before]_vars

\* README.md:473: the proxy resumes a sleeping VM before its maximum lifetime so that
\* the hook fires and its state is saved.
SavedAtEnd == \A v \in Vm : end[v] # "unsaved"
==============================================================================
