--------------------------- MODULE LifecycleProofs ---------------------------
(***************************************************************************)
(* That timers, rows and routing agree with AWS over the whole lifetime of *)
(* a session, for any number of VMs and outages and any durations: a timer *)
(* is owed and rings before the end, none is left for a VM that was        *)
(* terminated, and a proxy that restarts finds the session's VM again.     *)
(***************************************************************************)
EXTENDS Lifecycle, WellFoundedInduction, TLAPS

-----------------------------------------------------------------------------
(* The inductive invariant, in named parts. *)

\* Nothing is known of a VM before AWS starts it.
NewIsBlank ==
    \A v \in Vm : aws[v] = "none" =>
        /\ age[v] = 0 /\ row[v] = "none" /\ end[v] = "no" /\ v \notin roused
        /\ v # tracked /\ timer[v] = NoTimer

\* What ended is dead.
EndedIsDead == \A v \in Vm : end[v] # "no" => aws[v] = "dead"

\* The proxy that is still the first keeps what it launched in active_microvms, so
\* that a listing does not mark it.
FirstProxy == downs = 0 \/ (downs = 1 /\ ~up)
UpFromTheStart == downs = 0 => up
ActiveIsListed ==
    /\ downs = 0 => Alive \subseteq active
    /\ FirstProxy => \A v \in Alive : row[v] # "none" => row[v] = "RUNNING"

\* A timer that is owed has rung or rings while the VM lives.
TimerIsOwed ==
    mode = "eternal" /\ up =>
        \A v \in Alive \ excused : row[v] # "none" =>
            v \in rung \/ (timer[v] # NoTimer /\ timer[v] + age[v] < Lifetime)

\* How long before its end a VM is woken at most.
Lead == Larger(Less(Idle, Margin), MinLead)

\* The timers of the first proxy are late enough, and who is woken is too close to
\* its end to fall asleep.
TimerIsLate ==
    downs = 0 => \A v \in Alive : timer[v] # NoTimer => Lifetime <= age[v] + timer[v] + Lead
AwakeToTheEnd ==
    downs = 0 => \A v \in roused \cap Alive :
        aws[v] = "running" /\ Lifetime + quiet[v] < age[v] + Idle

IInv == TypeOK /\ NewIsBlank /\ EndedIsDead /\ UpFromTheStart /\ ActiveIsListed
        /\ TimerIsOwed /\ NoTimerForTerminated /\ EveryTimerRings
LInv == TimerIsLate /\ AwakeToTheEnd

-----------------------------------------------------------------------------
(* Numbers, and the choice of a VM. *)

\* The durations and bounds are numbers.
LEMMA BoundsAreNumbers ==
    /\ Lifetime \in Nat /\ Idle \in Nat /\ Margin \in Nat /\ MinLead \in Nat /\ MinDelay \in Nat
    /\ Buffer \in Nat /\ MinRest \in Nat /\ RestoredIdle \in Nat /\ Young \in Nat /\ Lag \in Nat
    /\ MaxVm \in Nat /\ MaxDowns \in Nat /\ Lag <= Young
  BY LifecycleBounds

\* schedule_pre_terminate: the timer fires before the VM ends, if that is more than the
\* least delay away, and not long before.
LEMMA Delays ==
    ASSUME NEW left \in Nat, NEW idle \in Nat
    PROVE  /\ Delay(left, idle) \in Nat
           /\ left > MinDelay => Delay(left, idle) < left
           /\ left <= Delay(left, idle) + Larger(Less(idle, Margin), MinLead)
<1>1. Less(idle, Margin) \in Nat
  BY BoundsAreNumbers DEF Less
<1>2. /\ Larger(Less(idle, Margin), MinLead) \in Nat
      /\ Larger(Less(idle, Margin), MinLead) > 0
  BY <1>1, BoundsAreNumbers, LifecycleTimes DEF Larger
<1> DEFINE lead == Larger(Less(idle, Margin), MinLead)
<1> HIDE DEF lead
<1>3. Less(left, lead) \in Nat /\ (left > 0 => Less(left, lead) < left)
      /\ left <= Less(left, lead) + lead
  BY <1>2 DEF Less, lead
<1>4. Delay(left, idle) = Larger(Less(left, lead), MinDelay)
  BY DEF Delay, lead
<1> QED
  BY <1>2, <1>3, <1>4, BoundsAreNumbers DEF Larger, lead

\* The VM that was launched first.
LEMMA OldestIsThere ==
    ASSUME NEW S \in SUBSET Vm, S # {}
    PROVE  Oldest(S) \in S /\ \A w \in S : Oldest(S) <= w
<1>1. S \subseteq Nat
  BY BoundsAreNumbers DEF Vm
<1>2. PICK v \in S : \A w \in S : ~(<<w, v>> \in OpToRel(<, Nat))
  BY <1>1, NatLessThanWellFounded, WFMin
<1>3. \A w \in S : ~(w < v)
  BY <1>1, <1>2 DEF OpToRel
<1>4. \E u \in S : \A w \in S : u <= w
  BY <1>1, <1>3
<1> QED
  BY <1>4 DEF Oldest

\* The VM that was launched last.
LEMMA NewestIsThere ==
    ASSUME NEW S \in SUBSET Vm, S # {}
    PROVE  Newest(S) \in S
<1> DEFINE T == {w \in 0 .. MaxVm : \E v \in S : w = MaxVm - v}
<1>1. \A v \in S : MaxVm - v \in T
  BY BoundsAreNumbers DEF Vm
<1>2. T \subseteq Nat /\ T # {}
  <2>1. PICK v \in S : TRUE
    OBVIOUS
  <2>2. MaxVm - v \in T
    BY <1>1, <2>1
  <2> QED
    BY <2>2
<1>3. PICK t \in T : \A w \in T : ~(<<w, t>> \in OpToRel(<, Nat))
  BY <1>2, NatLessThanWellFounded, WFMin
<1>4. \A w \in T : ~(w < t)
  BY <1>2, <1>3 DEF OpToRel
<1>5. PICK v \in S : t = MaxVm - v
  OBVIOUS
<1>6. \A w \in S : ~(MaxVm - w < MaxVm - v)
  BY <1>1, <1>4, <1>5
<1>7. \E u \in S : \A w \in S : u >= w
  BY <1>6, BoundsAreNumbers DEF Vm
<1> QED
  BY <1>7 DEF Newest

-----------------------------------------------------------------------------
(* Types. *)

\* The type invariant, set by set.
Types ==
    /\ mode \in Modes /\ up \in BOOLEAN /\ downs \in 0 .. MaxDowns
    /\ aws \in [Vm -> {"none", "running", "suspended", "dead"}]
    /\ age \in [Vm -> 0 .. Lifetime] /\ quiet \in [Vm -> 0 .. Idle]
    /\ registry \in Vm \cup {NoVm} /\ tracked \in Vm \cup {NoVm} /\ before \in Vm \cup {NoVm}
    /\ active \subseteq Vm /\ hooked \subseteq Vm /\ rung \subseteq Vm /\ roused \subseteq Vm
    /\ excused \subseteq Vm /\ unsure \subseteq Vm
    /\ timer \in [Vm -> 0 .. NoTimer]
    /\ row \in [Vm -> {"none", "RUNNING", "TERMINATED"}]
    /\ end \in [Vm -> {"no", "user", "rotated", "saved", "unsaved"}]
    /\ tracked # NoVm => up /\ mode = "eternal" /\ tracked = registry
    /\ ~up => registry = NoVm /\ active = {} /\ \A v \in Vm : timer[v] = NoTimer

\* It is the same.
LEMMA TypesAreTypes == TypeOK <=> Types
  BY DEF TypeOK, Types

\* The VM that a termination is about exists.
LEMMA TargetIsThere ==
    ASSUME Types, registry # NoVm \/ active # {} \/ Recorded # {}
    PROVE  Target \in Vm
<1>1. CASE registry # NoVm
  BY <1>1 DEF Target, Types
<1>2. CASE registry = NoVm /\ active # {}
  BY <1>2, OldestIsThere DEF Target, Types
<1>3. CASE registry = NoVm /\ active = {}
  <2>1. Newest(Recorded) \in Vm
    BY <1>3, NewestIsThere DEF Recorded
  <2>2. Target = Newest(Recorded)
    BY <1>3 DEF Target
  <2> QED
    BY <2>1, <2>2
<1> QED
  BY <1>1, <1>2, <1>3

\* Every step keeps the types.
LEMMA TypesStep == Types /\ [Next]_vars => Types'
<1> SUFFICES ASSUME Types, [Next]_vars PROVE Types'
  OBVIOUS
<1> USE DEF Types, proxy, history
<1>1. ASSUME NEW v \in Vm, Launch(v) PROVE Types'
  <2>1. Delay(Lifetime, Idle) \in 0 .. NoTimer
    BY Delays, BoundsAreNumbers, LifecycleTimes DEF NoTimer
  <2>2. timer' \in [Vm -> 0 .. NoTimer]
    BY <1>1, <2>1 DEF Launch
  <2>3. /\ tracked' \in Vm \cup {NoVm} /\ registry' = v
        /\ tracked' # NoVm => mode = "eternal" /\ tracked' = registry'
    BY <1>1 DEF Launch
  <2>4. /\ aws' \in [Vm -> {"none", "running", "suspended", "dead"}]
        /\ row' \in [Vm -> {"none", "RUNNING", "TERMINATED"}]
        /\ active' \subseteq Vm /\ hooked' \subseteq Vm
    BY <1>1 DEF Launch
  <2>5. UNCHANGED <<mode, age, quiet, up, end, history, downs>> /\ up
    BY <1>1 DEF Launch
  <2> QED
    BY <2>2, <2>3, <2>4, <2>5
<1>2. ASSUME NEW v \in Vm, LaunchUnrecorded(v) PROVE Types'
  BY <1>2 DEF LaunchUnrecorded
<1>3. ASSUME NEW v \in Vm, Rotate(v) PROVE Types'
  <2>1. timer' \in [Vm -> 0 .. NoTimer]
    BY <1>3, BoundsAreNumbers DEF Rotate, NoTimer
  <2>2. tracked \in Vm
    BY <1>3 DEF Rotate
  <2>3. aws' \in [Vm -> {"none", "running", "suspended", "dead"}]
        /\ end' \in [Vm -> {"no", "user", "rotated", "saved", "unsaved"}]
    BY <1>3, <2>2 DEF Rotate
  <2> QED
    BY <1>3, <2>1, <2>2, <2>3 DEF Rotate
<1>4. ASSUME NEW v \in Vm, Fire(v) PROVE Types'
  <2>1. timer' \in [Vm -> 0 .. NoTimer]
    BY <1>4, BoundsAreNumbers DEF Fire, NoTimer
  <2>2. quiet' \in [Vm -> 0 .. Idle]
    BY <1>4, BoundsAreNumbers DEF Fire
  <2> QED
    BY <1>4, <2>1, <2>2 DEF Fire
<1>5. ASSUME NEW v \in Vm, FallAsleep(v) PROVE Types'
  BY <1>5 DEF FallAsleep
<1>6. ASSUME NEW v \in Vm, Expire(v) PROVE Types'
  BY <1>6 DEF Expire, Alive
<1>7. ASSUME Request PROVE Types'
  <2>1. registry \in Vm
    BY <1>7 DEF Request, Alive
  <2>2. quiet' \in [Vm -> 0 .. Idle]
    <3>1. quiet' = [quiet EXCEPT ![registry] = 0] /\ 0 \in 0 .. Idle
      BY <1>7, BoundsAreNumbers DEF Request
    <3> QED
      BY <2>1, <3>1
  <2> QED
    BY <1>7, <2>1, <2>2 DEF Request
<1>8. ASSUME Suspend PROVE Types'
  BY <1>8 DEF Suspend, Alive
<1>9. ASSUME Resume PROVE Types'
  <2>1. registry \in Vm
    BY <1>9 DEF Resume, Alive
  <2>2. quiet' \in [Vm -> 0 .. Idle]
    <3>1. quiet' = [quiet EXCEPT ![registry] = 0] /\ 0 \in 0 .. Idle
      BY <1>9, BoundsAreNumbers DEF Resume
    <3> QED
      BY <2>1, <3>1
  <2> QED
    BY <1>9, <2>1, <2>2 DEF Resume
<1>10. ASSUME Terminate PROVE Types'
  <2>1. Target \in Vm
    BY <1>10, TargetIsThere DEF Terminate, Types
  <2> DEFINE t == Target
  <2>2. /\ timer' = [timer EXCEPT ![t] = NoTimer]
        /\ \/ /\ aws' = [aws EXCEPT ![t] = "dead"] /\ active' = active \ {t}
              /\ end' = IF t \in Alive THEN [end EXCEPT ![t] = "user"] ELSE end
              /\ UNCHANGED excused
           \/ excused' = excused \cup {t} /\ UNCHANGED <<aws, active, end>>
        /\ registry' = NoVm /\ tracked' = NoVm /\ up
        /\ UNCHANGED <<mode, age, quiet, up, row, hooked, rung, roused, before, unsure, downs>>
    BY <1>10 DEF Terminate
  <2> HIDE DEF t
  <2>3. timer' \in [Vm -> 0 .. NoTimer]
    <3>1. NoTimer \in 0 .. NoTimer
      BY BoundsAreNumbers DEF NoTimer
    <3> QED
      BY <2>2, <3>1
  <2>4. t \in Vm
    BY <2>1 DEF t
  <2> QED
    BY <2>2, <2>3, <2>4
<1>11. ASSUME List PROVE Types'
  BY <1>11 DEF List
<1>12. ASSUME Tick PROVE Types'
  <2>1. age' \in [Vm -> 0 .. Lifetime]
    BY <1>12, BoundsAreNumbers DEF Tick
  <2>2. quiet' \in [Vm -> 0 .. Idle]
    <3>1. ASSUME NEW v \in Vm, aws[v] = "running" PROVE quiet[v] + 1 \in 0 .. Idle
      <4>1. quiet[v] # Idle
        BY <1>12, <3>1 DEF Tick, Due
      <4> QED
        BY <4>1, BoundsAreNumbers
    <3> QED
      BY <1>12, <3>1, BoundsAreNumbers DEF Tick
  <2>3. timer' \in [Vm -> 0 .. NoTimer] /\ (~up => \A v \in Vm : timer'[v] = NoTimer)
    <3>1. ASSUME NEW v \in Vm, timer[v] # NoTimer PROVE up /\ timer[v] - 1 \in 0 .. NoTimer
      <4>1. up
        BY <3>1
      <4>2. timer[v] # 0
        BY <1>12, <4>1 DEF Tick, Due
      <4> QED
        BY <4>1, <4>2, BoundsAreNumbers DEF NoTimer
    <3>2. NoTimer \in 0 .. NoTimer
      BY BoundsAreNumbers DEF NoTimer
    <3> QED
      BY <1>12, <3>1, <3>2 DEF Tick
  <2> QED
    BY <1>12, <2>1, <2>2, <2>3 DEF Tick
<1>13. ASSUME Down PROVE Types'
  <2>1. NoTimer \in 0 .. NoTimer
    BY BoundsAreNumbers DEF NoTimer
  <2>2. timer' \in [Vm -> 0 .. NoTimer] /\ (\A v \in Vm : timer'[v] = NoTimer)
    BY <1>13, <2>1 DEF Down
  <2>3. downs' \in 0 .. MaxDowns
    BY <1>13, BoundsAreNumbers DEF Down
  <2> QED
    BY <1>13, <2>2, <2>3 DEF Down
<1>14. ASSUME Up PROVE Types'
  <2>1. PICK silent \in SUBSET Alive :
            LET found == (Recorded \cap Alive) \ silent
                late  == {v \in found : Lifetime <= Buffer + MinRest + age[v]}
                marked == {v \in Alive : row[v] = "TERMINATED"}
            IN  /\ registry' = IF found = {} THEN NoVm ELSE Oldest(found)
                /\ timer' = [v \in Vm |-> IF v \in found \ late
                                          THEN Delay(Lifetime - age[v], RestoredIdle) ELSE NoTimer]
                /\ unsure' = silent
                /\ excused' = excused \cup silent \cup late \cup marked
    BY <1>14 DEF Up
  <2> DEFINE found == (Recorded \cap Alive) \ silent
             late  == {v \in found : Lifetime <= Buffer + MinRest + age[v]}
  <2>2. found \subseteq Vm
    BY DEF Alive
  <2>3. registry' \in Vm \cup {NoVm}
    BY <2>1, <2>2, OldestIsThere
  <2>4. excused' \subseteq Vm /\ unsure' \subseteq Vm
    BY <2>1, <2>2 DEF Alive
  <2>5. timer' \in [Vm -> 0 .. NoTimer]
    <3>1. ASSUME NEW v \in Vm, v \in found \ late
          PROVE  Delay(Lifetime - age[v], RestoredIdle) \in 0 .. NoTimer
      <4>1. Lifetime - age[v] \in Nat /\ Lifetime - age[v] > MinDelay
        BY <3>1, BoundsAreNumbers, LifecycleTimes
      <4>2. /\ Delay(Lifetime - age[v], RestoredIdle) \in Nat
            /\ Delay(Lifetime - age[v], RestoredIdle) < Lifetime - age[v]
        BY <4>1, Delays, BoundsAreNumbers
      <4>3. age[v] \in Nat
        BY BoundsAreNumbers
      <4> QED
        BY <4>2, <4>3, BoundsAreNumbers DEF NoTimer
    <3>2. NoTimer \in 0 .. NoTimer
      BY BoundsAreNumbers DEF NoTimer
    <3> QED
      BY <2>1, <3>1, <3>2
  <2>6. /\ up' = TRUE /\ tracked = NoVm
        /\ UNCHANGED <<mode, aws, age, quiet, active, tracked, row, hooked, end, rung, roused,
                       before, downs>>
    BY <1>14 DEF Up
  <2> QED
    BY <2>3, <2>4, <2>5, <2>6
<1>15. CASE UNCHANGED vars
  BY <1>15 DEF vars
<1> QED
  BY <1>1, <1>2, <1>3, <1>4, <1>5, <1>6, <1>7, <1>8, <1>9, <1>10, <1>11, <1>12,
     <1>13, <1>14, <1>15
     DEF Next

\* No VM has the number that stands for none.
LEMMA NoVmIsNoVm == NoVm \notin Vm
  BY DEF NoVm, Vm

-----------------------------------------------------------------------------
(* Beginnings and ends. *)

\* A VM is new until AWS starts it, and what ends is dead and stays so.
LEMMA BlankStep ==
    Types /\ NewIsBlank /\ EndedIsDead /\ [Next]_vars
        => (NewIsBlank /\ EndedIsDead)'
<1> SUFFICES ASSUME Types, NewIsBlank, EndedIsDead, [Next]_vars
             PROVE (NewIsBlank /\ EndedIsDead)'
  OBVIOUS
<1> USE DEF Types, proxy, history, NewIsBlank, EndedIsDead, Alive, Fresh
<1>1. ASSUME NEW v \in Vm, Launch(v) PROVE (NewIsBlank /\ EndedIsDead)'
  BY <1>1 DEF Launch, NoVm, Vm
<1>2. ASSUME NEW v \in Vm, LaunchUnrecorded(v) PROVE (NewIsBlank /\ EndedIsDead)'
  BY <1>2 DEF LaunchUnrecorded
<1>3. ASSUME NEW v \in Vm, Rotate(v) PROVE (NewIsBlank /\ EndedIsDead)'
  BY <1>3 DEF Rotate
<1>4. ASSUME NEW v \in Vm, Fire(v) PROVE (NewIsBlank /\ EndedIsDead)'
  BY <1>4 DEF Fire
<1>5. ASSUME NEW v \in Vm, FallAsleep(v) PROVE (NewIsBlank /\ EndedIsDead)'
  BY <1>5 DEF FallAsleep
<1>6. ASSUME NEW v \in Vm, Expire(v) PROVE (NewIsBlank /\ EndedIsDead)'
  BY <1>6 DEF Expire
<1>7. ASSUME Request PROVE (NewIsBlank /\ EndedIsDead)'
  BY <1>7 DEF Request
<1>8. ASSUME Suspend PROVE (NewIsBlank /\ EndedIsDead)'
  BY <1>8 DEF Suspend
<1>9. ASSUME Resume PROVE (NewIsBlank /\ EndedIsDead)'
  BY <1>9 DEF Resume
<1>10. ASSUME Terminate PROVE (NewIsBlank /\ EndedIsDead)'
  <2>1. Target \in Vm
    BY <1>10, TargetIsThere DEF Terminate
  <2> DEFINE t == Target
  <2>2. /\ timer' = [timer EXCEPT ![t] = NoTimer]
        /\ \/ /\ aws' = [aws EXCEPT ![t] = "dead"] /\ active' = active \ {t}
              /\ end' = IF t \in Alive THEN [end EXCEPT ![t] = "user"] ELSE end
              /\ UNCHANGED excused
           \/ excused' = excused \cup {t} /\ UNCHANGED <<aws, active, end>>
        /\ registry' = NoVm /\ tracked' = NoVm /\ up
        /\ UNCHANGED <<mode, age, quiet, up, row, hooked, rung, roused, before, unsure, downs>>
    BY <1>10 DEF Terminate
  <2> HIDE DEF t
  <2>3. t \in Vm
    BY <2>1 DEF t
  <2>4. CASE excused' = excused \cup {t} /\ UNCHANGED <<aws, active, end>>
    BY <2>2, <2>3, <2>4, NoVmIsNoVm
  <2>5. CASE /\ aws' = [aws EXCEPT ![t] = "dead"] /\ active' = active \ {t}
             /\ end' = IF t \in Alive THEN [end EXCEPT ![t] = "user"] ELSE end
    BY <2>2, <2>3, <2>5, NoVmIsNoVm
  <2> QED
    BY <2>2, <2>4, <2>5
<1>11. ASSUME List PROVE (NewIsBlank /\ EndedIsDead)'
  BY <1>11 DEF List, Recorded
<1>12. ASSUME Tick PROVE (NewIsBlank /\ EndedIsDead)'
  BY <1>12 DEF Tick
<1>13. ASSUME Down PROVE (NewIsBlank /\ EndedIsDead)'
  BY <1>13, NoVmIsNoVm DEF Down
<1>14. ASSUME Up PROVE (NewIsBlank /\ EndedIsDead)'
  BY <1>14 DEF Up
<1>15. CASE UNCHANGED vars
  BY <1>15 DEF vars
<1> QED
  BY <1>1, <1>2, <1>3, <1>4, <1>5, <1>6, <1>7, <1>8, <1>9, <1>10, <1>11, <1>12,
     <1>13, <1>14, <1>15
     DEF Next

\* The first proxy lists what it launched, and never marks its row while it lives.
LEMMA FirstStep ==
    Types /\ NewIsBlank /\ UpFromTheStart /\ ActiveIsListed /\ [Next]_vars
        => (UpFromTheStart /\ ActiveIsListed)'
<1> SUFFICES ASSUME Types, NewIsBlank, UpFromTheStart, ActiveIsListed, [Next]_vars
             PROVE (UpFromTheStart /\ ActiveIsListed)'
  OBVIOUS
<1> USE DEF Types, proxy, history, UpFromTheStart, ActiveIsListed, FirstProxy, Alive, NewIsBlank
<1>1. ASSUME NEW v \in Vm, Launch(v) PROVE (UpFromTheStart /\ ActiveIsListed)'
  BY <1>1 DEF Launch, Fresh
<1>2. ASSUME NEW v \in Vm, LaunchUnrecorded(v) PROVE (UpFromTheStart /\ ActiveIsListed)'
  BY <1>2 DEF LaunchUnrecorded, Fresh
<1>3. ASSUME NEW v \in Vm, Rotate(v) PROVE (UpFromTheStart /\ ActiveIsListed)'
  <2>1. /\ tracked \in Vm /\ aws[v] = "none" /\ v # tracked /\ row[v] = "none"
        /\ up /\ UNCHANGED <<up, row, downs>>
    BY <1>3, NoVmIsNoVm DEF Rotate, Fresh
  <2>2. \/ /\ aws' = [aws EXCEPT ![v] = "running", ![tracked] = "dead"]
           /\ active' = (active \cup {v}) \ {tracked}
        \/ aws' = [aws EXCEPT ![v] = "running"] /\ active' = active \cup {v}
    BY <1>3 DEF Rotate
  <2> QED
    BY <2>1, <2>2
<1>4. ASSUME NEW v \in Vm, Fire(v) PROVE (UpFromTheStart /\ ActiveIsListed)'
  BY <1>4 DEF Fire
<1>5. ASSUME NEW v \in Vm, FallAsleep(v) PROVE (UpFromTheStart /\ ActiveIsListed)'
  BY <1>5 DEF FallAsleep
<1>6. ASSUME NEW v \in Vm, Expire(v) PROVE (UpFromTheStart /\ ActiveIsListed)'
  BY <1>6 DEF Expire
<1>7. ASSUME Request PROVE (UpFromTheStart /\ ActiveIsListed)'
  BY <1>7 DEF Request
<1>8. ASSUME Suspend PROVE (UpFromTheStart /\ ActiveIsListed)'
  BY <1>8 DEF Suspend
<1>9. ASSUME Resume PROVE (UpFromTheStart /\ ActiveIsListed)'
  BY <1>9 DEF Resume
<1>10. ASSUME Terminate PROVE (UpFromTheStart /\ ActiveIsListed)'
  <2>1. Target \in Vm
    BY <1>10, TargetIsThere DEF Terminate
  <2> DEFINE t == Target
  <2>2. /\ timer' = [timer EXCEPT ![t] = NoTimer]
        /\ \/ /\ aws' = [aws EXCEPT ![t] = "dead"] /\ active' = active \ {t}
              /\ end' = IF t \in Alive THEN [end EXCEPT ![t] = "user"] ELSE end
              /\ UNCHANGED excused
           \/ excused' = excused \cup {t} /\ UNCHANGED <<aws, active, end>>
        /\ registry' = NoVm /\ tracked' = NoVm /\ up
        /\ UNCHANGED <<mode, age, quiet, up, row, hooked, rung, roused, before, unsure, downs>>
    BY <1>10 DEF Terminate
  <2> HIDE DEF t
  <2>3. t \in Vm
    BY <2>1 DEF t
  <2>4. CASE excused' = excused \cup {t} /\ UNCHANGED <<aws, active, end>>
    BY <2>2, <2>3, <2>4, NoVmIsNoVm
  <2>5. CASE /\ aws' = [aws EXCEPT ![t] = "dead"] /\ active' = active \ {t}
             /\ end' = IF t \in Alive THEN [end EXCEPT ![t] = "user"] ELSE end
    BY <2>2, <2>3, <2>5, NoVmIsNoVm
  <2> QED
    BY <2>2, <2>4, <2>5
<1>11. ASSUME List PROVE (UpFromTheStart /\ ActiveIsListed)'
  <2>1. PICK missing \in SUBSET {v \in Alive : age[v] <= Lag} :
            row' = [v \in Vm |-> IF v \in Recorded \ Listed(missing) THEN "TERMINATED" ELSE row[v]]
    BY <1>11 DEF List
  <2>2. up /\ UNCHANGED <<aws, active, up, downs>>
    BY <1>11 DEF List
  <2>3. ASSUME NEW v \in Alive, FirstProxy PROVE row'[v] = row[v]
    <3>1. v \in active
      BY <2>2, <2>3
    <3>2. v \in missing => age[v] <= Young
      BY <2>1, BoundsAreNumbers
    <3>3. v \in Listed(missing)
      BY <3>1, <3>2, <2>3 DEF Listed
    <3> QED
      BY <2>1, <3>3
  <2> QED
    BY <2>2, <2>3
<1>12. ASSUME Tick PROVE (UpFromTheStart /\ ActiveIsListed)'
  BY <1>12 DEF Tick
<1>13. ASSUME Down PROVE (UpFromTheStart /\ ActiveIsListed)'
  BY <1>13 DEF Down
<1>14. ASSUME Up PROVE (UpFromTheStart /\ ActiveIsListed)'
  BY <1>14 DEF Up
<1>15. CASE UNCHANGED vars
  BY <1>15 DEF vars
<1> QED
  BY <1>1, <1>2, <1>3, <1>4, <1>5, <1>6, <1>7, <1>8, <1>9, <1>10, <1>11, <1>12,
     <1>13, <1>14, <1>15
     DEF Next

-----------------------------------------------------------------------------
(* Timers. *)

\* A timer is set for a VM that lives, and cancelled when it is terminated.
LEMMA CancelStep ==
    Types /\ NewIsBlank /\ EndedIsDead /\ NoTimerForTerminated /\ [Next]_vars
        => NoTimerForTerminated'
<1> SUFFICES ASSUME Types, NewIsBlank, EndedIsDead, NoTimerForTerminated, [Next]_vars
             PROVE NoTimerForTerminated'
  OBVIOUS
<1> USE DEF Types, proxy, history, NoTimerForTerminated, NewIsBlank, EndedIsDead, Alive, Fresh
<1>1. ASSUME NEW v \in Vm, Launch(v) PROVE NoTimerForTerminated'
  BY <1>1 DEF Launch
<1>2. ASSUME NEW v \in Vm, LaunchUnrecorded(v) PROVE NoTimerForTerminated'
  BY <1>2 DEF LaunchUnrecorded
<1>3. ASSUME NEW v \in Vm, Rotate(v) PROVE NoTimerForTerminated'
  <2>1. tracked \in Vm /\ v # tracked /\ aws[v] = "none"
    BY <1>3, NoVmIsNoVm DEF Rotate
  <2>2. /\ timer' = [timer EXCEPT ![tracked] = NoTimer]
        /\ end' = IF tracked \in Alive THEN [end EXCEPT ![tracked] = "rotated"] ELSE end
        \/ UNCHANGED <<timer, end>>
    BY <1>3 DEF Rotate
  <2> QED
    BY <2>1, <2>2
<1>4. ASSUME NEW v \in Vm, Fire(v) PROVE NoTimerForTerminated'
  BY <1>4 DEF Fire
<1>5. ASSUME NEW v \in Vm, FallAsleep(v) PROVE NoTimerForTerminated'
  BY <1>5 DEF FallAsleep
<1>6. ASSUME NEW v \in Vm, Expire(v) PROVE NoTimerForTerminated'
  BY <1>6 DEF Expire
<1>7. ASSUME Request PROVE NoTimerForTerminated'
  BY <1>7 DEF Request
<1>8. ASSUME Suspend PROVE NoTimerForTerminated'
  BY <1>8 DEF Suspend
<1>9. ASSUME Resume PROVE NoTimerForTerminated'
  BY <1>9 DEF Resume
<1>10. ASSUME Terminate PROVE NoTimerForTerminated'
  <2>1. Target \in Vm
    BY <1>10, TargetIsThere DEF Terminate
  <2> DEFINE t == Target
  <2>2. /\ timer' = [timer EXCEPT ![t] = NoTimer]
        /\ \/ /\ aws' = [aws EXCEPT ![t] = "dead"] /\ active' = active \ {t}
              /\ end' = IF t \in Alive THEN [end EXCEPT ![t] = "user"] ELSE end
              /\ UNCHANGED excused
           \/ excused' = excused \cup {t} /\ UNCHANGED <<aws, active, end>>
        /\ registry' = NoVm /\ tracked' = NoVm /\ up
        /\ UNCHANGED <<mode, age, quiet, up, row, hooked, rung, roused, before, unsure, downs>>
    BY <1>10 DEF Terminate
  <2> HIDE DEF t
  <2>3. t \in Vm
    BY <2>1 DEF t
  <2>4. CASE excused' = excused \cup {t} /\ UNCHANGED <<aws, active, end>>
    BY <2>2, <2>3, <2>4
  <2>5. CASE /\ aws' = [aws EXCEPT ![t] = "dead"] /\ active' = active \ {t}
             /\ end' = IF t \in Alive THEN [end EXCEPT ![t] = "user"] ELSE end
             /\ UNCHANGED excused
    BY <2>2, <2>3, <2>5
  <2> QED
    BY <2>2, <2>4, <2>5
<1>11. ASSUME List PROVE NoTimerForTerminated'
  BY <1>11 DEF List
<1>12. ASSUME Tick PROVE NoTimerForTerminated'
  BY <1>12 DEF Tick
<1>13. ASSUME Down PROVE NoTimerForTerminated'
  BY <1>13 DEF Down
<1>14. ASSUME Up PROVE NoTimerForTerminated'
  <2>1. PICK silent \in SUBSET Alive :
            LET found == (Recorded \cap Alive) \ silent
                late  == {v \in found : Lifetime <= Buffer + MinRest + age[v]}
                marked == {v \in Alive : row[v] = "TERMINATED"}
            IN  /\ registry' = IF found = {} THEN NoVm ELSE Oldest(found)
                /\ timer' = [v \in Vm |-> IF v \in found \ late
                                          THEN Delay(Lifetime - age[v], RestoredIdle) ELSE NoTimer]
                /\ unsure' = silent
                /\ excused' = excused \cup silent \cup late \cup marked
    BY <1>14 DEF Up
  <2> DEFINE found == (Recorded \cap Alive) \ silent
             late  == {v \in found : Lifetime <= Buffer + MinRest + age[v]}
  <2>2. /\ timer' = [v \in Vm |-> IF v \in found \ late
                                  THEN Delay(Lifetime - age[v], RestoredIdle) ELSE NoTimer]
        /\ excused' = excused \cup silent \cup late \cup {v \in Alive : row[v] = "TERMINATED"}
    BY <2>1
  <2>3. /\ ~up /\ up' = TRUE
        /\ UNCHANGED <<mode, aws, age, quiet, active, tracked, row, hooked, end, rung, roused,
                       before, downs>>
    BY <1>14 DEF Up
  <2>4. \A v \in Vm : v \notin Alive => timer'[v] = NoTimer
    BY <2>2
  <2> QED
    BY <2>3, <2>4
<1>15. CASE UNCHANGED vars
  BY <1>15 DEF vars
<1> QED
  BY <1>1, <1>2, <1>3, <1>4, <1>5, <1>6, <1>7, <1>8, <1>9, <1>10, <1>11, <1>12,
     <1>13, <1>14, <1>15
     DEF Next

\* A timer that was set ticks until it fires, and the VM with it until its end.
LEMMA Ticking ==
    ASSUME Types, Tick, NEW v \in Alive
    PROVE  /\ age'[v] = age[v] + 1 /\ age[v] < Lifetime
           /\ timer[v] = NoTimer => timer'[v] = NoTimer
           /\ timer[v] # NoTimer => timer'[v] = timer[v] - 1 /\ timer[v] > 0
           /\ timer[v] # NoTimer => timer'[v] # NoTimer
           /\ quiet'[v] = IF aws[v] = "running" THEN quiet[v] + 1 ELSE 0
<1>1. v \in Vm /\ aws[v] # "none" /\ age[v] # Lifetime /\ age[v] < Lifetime
  BY BoundsAreNumbers DEF Alive, Tick, Due, Types
<1>2. ASSUME timer[v] # NoTimer PROVE timer[v] > 0 /\ timer[v] <= Lifetime
  <2>1. up
    BY <1>1, <1>2 DEF Types
  <2>2. timer[v] # 0
    BY <1>1, <2>1 DEF Tick, Due
  <2> QED
    BY <1>1, <1>2, <2>2, BoundsAreNumbers DEF Types, NoTimer
<1> QED
  BY <1>1, <1>2, BoundsAreNumbers DEF Tick, Types, NoTimer

\* Who is owed a timer has one that fires in time, or it fired; who ends was owed none
\* or it fired.
LEMMA OwedStep ==
    Types /\ NewIsBlank /\ EndedIsDead /\ TimerIsOwed /\ EveryTimerRings /\ [Next]_vars
        => (TimerIsOwed /\ EveryTimerRings)'
<1> SUFFICES ASSUME Types, NewIsBlank, EndedIsDead, TimerIsOwed, EveryTimerRings, [Next]_vars
             PROVE (TimerIsOwed /\ EveryTimerRings)'
  OBVIOUS
<1> USE DEF Types, proxy, history, NewIsBlank, EndedIsDead, TimerIsOwed, EveryTimerRings, Alive,
         Fresh
<1>1. ASSUME NEW v \in Vm, Launch(v) PROVE (TimerIsOwed /\ EveryTimerRings)'
  <2>1. Delay(Lifetime, Idle) \in Nat /\ Delay(Lifetime, Idle) < Lifetime
    BY Delays, BoundsAreNumbers, LifecycleTimes
  <2>2. Delay(Lifetime, Idle) # NoTimer
    BY <2>1, BoundsAreNumbers DEF NoTimer
  <2>3. /\ aws[v] = "none" /\ age[v] = 0 /\ end[v] = "no"
        /\ aws' = [aws EXCEPT ![v] = "running"] /\ row' = [row EXCEPT ![v] = "RUNNING"]
        /\ mode = "eternal" => timer' = [timer EXCEPT ![v] = Delay(Lifetime, Idle)]
        /\ UNCHANGED <<mode, age, up, end, rung, excused>>
    BY <1>1 DEF Launch
  <2> QED
    BY <2>1, <2>2, <2>3
<1>2. ASSUME NEW v \in Vm, LaunchUnrecorded(v) PROVE (TimerIsOwed /\ EveryTimerRings)'
  <2>1. /\ aws[v] = "none" /\ row[v] = "none"
        /\ aws' = [aws EXCEPT ![v] = "running"]
        /\ UNCHANGED <<mode, age, up, row, timer, end, rung, excused>>
    BY <1>2 DEF LaunchUnrecorded
  <2> QED
    BY <2>1
<1>3. ASSUME NEW v \in Vm, Rotate(v) PROVE (TimerIsOwed /\ EveryTimerRings)'
  <2>1. /\ tracked \in Vm /\ v # tracked /\ aws[v] = "none" /\ row[v] = "none" /\ end[v] = "no"
        /\ UNCHANGED <<mode, age, up, row, rung, excused>>
    BY <1>3, NoVmIsNoVm DEF Rotate
  <2>2. CASE /\ aws' = [aws EXCEPT ![v] = "running", ![tracked] = "dead"]
             /\ timer' = [timer EXCEPT ![tracked] = NoTimer]
             /\ end' = IF tracked \in Alive THEN [end EXCEPT ![tracked] = "rotated"] ELSE end
    BY <2>1, <2>2
  <2>3. CASE aws' = [aws EXCEPT ![v] = "running"] /\ UNCHANGED <<timer, end>>
    BY <2>1, <2>3
  <2> QED
    BY <1>3, <2>2, <2>3 DEF Rotate
<1>4. ASSUME NEW v \in Vm, Fire(v) PROVE (TimerIsOwed /\ EveryTimerRings)'
  BY <1>4 DEF Fire
<1>5. ASSUME NEW v \in Vm, FallAsleep(v) PROVE (TimerIsOwed /\ EveryTimerRings)'
  BY <1>5 DEF FallAsleep
<1>6. ASSUME NEW v \in Vm, Expire(v) PROVE (TimerIsOwed /\ EveryTimerRings)'
  <2>1. ASSUME v \notin excused', mode = "eternal", row[v] # "none" PROVE v \in rung
    <3>1. up /\ v \notin excused
      BY <1>6, <2>1 DEF Expire
    <3>2. v \in rung \/ (timer[v] # NoTimer /\ timer[v] + age[v] < Lifetime)
      BY <1>6, <2>1, <3>1 DEF Expire
    <3>3. age[v] = Lifetime /\ timer[v] \in Nat
      BY <1>6, BoundsAreNumbers DEF Expire, NoTimer
    <3> QED
      BY <3>2, <3>3, BoundsAreNumbers
  <2> QED
    BY <1>6, <2>1 DEF Expire
<1>7. ASSUME Request PROVE (TimerIsOwed /\ EveryTimerRings)'
  BY <1>7 DEF Request
<1>8. ASSUME Suspend PROVE (TimerIsOwed /\ EveryTimerRings)'
  BY <1>8 DEF Suspend
<1>9. ASSUME Resume PROVE (TimerIsOwed /\ EveryTimerRings)'
  BY <1>9 DEF Resume
<1>10. ASSUME Terminate PROVE (TimerIsOwed /\ EveryTimerRings)'
  <2>1. Target \in Vm
    BY <1>10, TargetIsThere DEF Terminate
  <2> DEFINE t == Target
  <2>2. /\ timer' = [timer EXCEPT ![t] = NoTimer]
        /\ \/ /\ aws' = [aws EXCEPT ![t] = "dead"] /\ active' = active \ {t}
              /\ end' = IF t \in Alive THEN [end EXCEPT ![t] = "user"] ELSE end
              /\ UNCHANGED excused
           \/ excused' = excused \cup {t} /\ UNCHANGED <<aws, active, end>>
        /\ registry' = NoVm /\ tracked' = NoVm /\ up
        /\ UNCHANGED <<mode, age, quiet, up, row, hooked, rung, roused, before, unsure, downs>>
    BY <1>10 DEF Terminate
  <2> HIDE DEF t
  <2>3. t \in Vm
    BY <2>1 DEF t
  <2>4. CASE excused' = excused \cup {t} /\ UNCHANGED <<aws, active, end>>
    BY <2>2, <2>3, <2>4
  <2>5. CASE /\ aws' = [aws EXCEPT ![t] = "dead"] /\ active' = active \ {t}
             /\ end' = IF t \in Alive THEN [end EXCEPT ![t] = "user"] ELSE end
             /\ UNCHANGED excused
    BY <2>2, <2>3, <2>5
  <2> QED
    BY <2>2, <2>4, <2>5
<1>11. ASSUME List PROVE (TimerIsOwed /\ EveryTimerRings)'
  BY <1>11 DEF List, Recorded
<1>12. ASSUME Tick PROVE (TimerIsOwed /\ EveryTimerRings)'
  <2>1. Alive' = Alive /\ Alive \subseteq Vm /\ \A v \in Alive :
             /\ age'[v] = age[v] + 1 /\ age[v] < Lifetime
             /\ timer[v] = NoTimer => timer'[v] = NoTimer
             /\ timer[v] # NoTimer => timer'[v] = timer[v] - 1 /\ timer[v] > 0
             /\ timer[v] # NoTimer => timer'[v] # NoTimer
             /\ quiet'[v] = IF aws[v] = "running" THEN quiet[v] + 1 ELSE 0
    BY <1>12, Ticking DEF Tick
  <2>2. \A v \in Vm : age[v] \in Nat /\ timer[v] \in Nat /\ quiet[v] \in Nat
    BY BoundsAreNumbers DEF NoTimer
  <2> HIDE DEF Alive
  <2> QED
    BY <1>12, <2>1, <2>2, BoundsAreNumbers DEF Tick
<1>13. ASSUME Down PROVE (TimerIsOwed /\ EveryTimerRings)'
  BY <1>13 DEF Down
<1>14. ASSUME Up PROVE (TimerIsOwed /\ EveryTimerRings)'
  <2>1. PICK silent \in SUBSET Alive :
            LET found == (Recorded \cap Alive) \ silent
                late  == {v \in found : Lifetime <= Buffer + MinRest + age[v]}
                marked == {v \in Alive : row[v] = "TERMINATED"}
            IN  /\ registry' = IF found = {} THEN NoVm ELSE Oldest(found)
                /\ timer' = [v \in Vm |-> IF v \in found \ late
                                          THEN Delay(Lifetime - age[v], RestoredIdle) ELSE NoTimer]
                /\ unsure' = silent
                /\ excused' = excused \cup silent \cup late \cup marked
    BY <1>14 DEF Up
  <2> DEFINE found == (Recorded \cap Alive) \ silent
             late  == {v \in found : Lifetime <= Buffer + MinRest + age[v]}
  <2>2. /\ timer' = [v \in Vm |-> IF v \in found \ late
                                  THEN Delay(Lifetime - age[v], RestoredIdle) ELSE NoTimer]
        /\ excused' = excused \cup silent \cup late \cup {v \in Alive : row[v] = "TERMINATED"}
    BY <2>1
  <2>3. /\ ~up /\ up' = TRUE
        /\ UNCHANGED <<mode, aws, age, quiet, active, tracked, row, hooked, end, rung, roused,
                       before, downs>>
    BY <1>14 DEF Up
  <2>4. ASSUME NEW v \in Alive, v \notin excused', row[v] # "none"
        PROVE  timer'[v] # NoTimer /\ timer'[v] + age[v] < Lifetime
    <3>1. v \in found \ late
      BY <2>2, <2>4 DEF Recorded
    <3>2. timer'[v] = Delay(Lifetime - age[v], RestoredIdle)
      BY <2>2, <3>1
    <3>3. Lifetime - age[v] \in Nat /\ Lifetime - age[v] > MinDelay /\ age[v] \in Nat
      BY <3>1, BoundsAreNumbers, LifecycleTimes
    <3>4. /\ Delay(Lifetime - age[v], RestoredIdle) \in Nat
          /\ Delay(Lifetime - age[v], RestoredIdle) < Lifetime - age[v]
      BY <3>3, Delays, BoundsAreNumbers
    <3> QED
      BY <3>2, <3>3, <3>4, BoundsAreNumbers DEF NoTimer
  <2> QED
    BY <2>2, <2>3, <2>4
<1>15. CASE UNCHANGED vars
  BY <1>15 DEF vars
<1> QED
  BY <1>1, <1>2, <1>3, <1>4, <1>5, <1>6, <1>7, <1>8, <1>9, <1>10, <1>11, <1>12,
     <1>13, <1>14, <1>15
     DEF Next

\* An idle policy longer than the least lead, and a margin: then a VM is woken less than
\* its idle time before its end.
LongIdle == MinLead < Idle /\ 0 < Margin

\* The lead of a timer is shorter than such an idle time.
LEMMA LeadIsShort == LongIdle => Lead \in Nat /\ Lead < Idle
  BY BoundsAreNumbers DEF LongIdle, Lead, Larger, Less

\* With such an idle policy the first proxy wakes nobody too early.
LEMMA LateStep ==
    LongIdle /\ Types /\ NewIsBlank /\ UpFromTheStart /\ TimerIsLate /\ AwakeToTheEnd /\ [Next]_vars
        => (TimerIsLate /\ AwakeToTheEnd)'
<1> SUFFICES ASSUME LongIdle, Types, NewIsBlank, UpFromTheStart, TimerIsLate, AwakeToTheEnd,
                    [Next]_vars
             PROVE (TimerIsLate /\ AwakeToTheEnd)'
  OBVIOUS
<1> USE DEF Types, proxy, history, NewIsBlank, UpFromTheStart, TimerIsLate, AwakeToTheEnd,
        Alive,
         Fresh
<1>1. ASSUME NEW v \in Vm, Launch(v) PROVE (TimerIsLate /\ AwakeToTheEnd)'
  <2>1. Delay(Lifetime, Idle) \in Nat /\ Lifetime <= Delay(Lifetime, Idle) + Lead
    BY Delays, BoundsAreNumbers DEF Lead
  <2>2. /\ aws[v] = "none" /\ age[v] = 0 /\ v \notin roused /\ timer[v] = NoTimer
        /\ aws' = [aws EXCEPT ![v] = "running"]
        /\ timer' = [timer EXCEPT ![v] = Delay(Lifetime, Idle)] \/ UNCHANGED timer
        /\ UNCHANGED <<age, quiet, roused, downs>>
    BY <1>1 DEF Launch
  <2>3. Lead \in Nat
    BY LeadIsShort
  <2> QED
    BY <2>1, <2>2, <2>3, BoundsAreNumbers
<1>2. ASSUME NEW v \in Vm, LaunchUnrecorded(v) PROVE (TimerIsLate /\ AwakeToTheEnd)'
  <2>2. /\ aws[v] = "none" /\ v \notin roused /\ timer[v] = NoTimer
        /\ aws' = [aws EXCEPT ![v] = "running"]
        /\ UNCHANGED <<age, quiet, roused, timer, downs>>
    BY <1>2 DEF LaunchUnrecorded
  <2> QED
    BY <2>2
<1>3. ASSUME NEW v \in Vm, Rotate(v) PROVE (TimerIsLate /\ AwakeToTheEnd)'
  <2>1. /\ tracked \in Vm /\ v # tracked /\ aws[v] = "none" /\ v \notin roused /\ timer[v] = NoTimer
        /\ UNCHANGED <<age, quiet, roused, downs>>
    BY <1>3, NoVmIsNoVm DEF Rotate
  <2>2. CASE /\ aws' = [aws EXCEPT ![v] = "running", ![tracked] = "dead"]
             /\ timer' = [timer EXCEPT ![tracked] = NoTimer]
    BY <2>1, <2>2
  <2>3. CASE aws' = [aws EXCEPT ![v] = "running"] /\ UNCHANGED <<timer, end>>
    BY <2>1, <2>3
  <2> QED
    BY <1>3, <2>2, <2>3 DEF Rotate
<1>4. ASSUME NEW v \in Vm, Fire(v) PROVE (TimerIsLate /\ AwakeToTheEnd)'
  <2>9. \A u \in Vm : age[u] \in 0 .. Lifetime /\ timer[u] \in Nat /\ quiet[u] \in 0 .. Idle
    BY BoundsAreNumbers DEF NoTimer
  <2>1. timer[v] = 0 /\ timer' = [timer EXCEPT ![v] = NoTimer] /\ UNCHANGED <<age, downs>>
    BY <1>4 DEF Fire
  <2>2. CASE aws[v] = "suspended"
    <3>1. downs = 0 => Lifetime <= age[v] + Lead
      BY <2>1, <2>2, <2>9, LeadIsShort, BoundsAreNumbers DEF NoTimer
    <3>2. downs = 0 => Lifetime < age[v] + Idle
      BY <3>1, <2>9, LeadIsShort, BoundsAreNumbers
    <3>3. /\ aws' = [aws EXCEPT ![v] = "running"] /\ quiet' = [quiet EXCEPT ![v] = 0]
          /\ roused' = roused \cup {v}
      BY <1>4, <2>2 DEF Fire
    <3> QED
      BY <2>1, <2>9, <3>2, <3>3, BoundsAreNumbers
  <2>3. CASE aws[v] # "suspended"
    BY <1>4, <2>1, <2>3 DEF Fire
  <2> QED
    BY <2>2, <2>3
<1>5. ASSUME NEW v \in Vm, FallAsleep(v) PROVE (TimerIsLate /\ AwakeToTheEnd)'
  <2>9. \A u \in Vm : age[u] \in 0 .. Lifetime /\ timer[u] \in Nat /\ quiet[u] \in 0 .. Idle
    BY BoundsAreNumbers DEF NoTimer
  <2>1. downs = 0 => v \notin roused
    BY <1>5, <2>9, BoundsAreNumbers DEF FallAsleep
  <2> QED
    BY <1>5, <2>1 DEF FallAsleep
<1>6. ASSUME NEW v \in Vm, Expire(v) PROVE (TimerIsLate /\ AwakeToTheEnd)'
  BY <1>6 DEF Expire
<1>7. ASSUME Request PROVE (TimerIsLate /\ AwakeToTheEnd)'
  <2>9. \A u \in Vm : age[u] \in 0 .. Lifetime /\ timer[u] \in Nat /\ quiet[u] \in 0 .. Idle
    BY BoundsAreNumbers DEF NoTimer
  <2>1. /\ registry \in Vm /\ aws' = [aws EXCEPT ![registry] = "running"]
        /\ quiet' = [quiet EXCEPT ![registry] = 0] /\ registry \in Alive
        /\ UNCHANGED <<age, timer, roused, downs>>
    BY <1>7 DEF Request
  <2> QED
    BY <2>1, <2>9, BoundsAreNumbers
<1>8. ASSUME Suspend PROVE (TimerIsLate /\ AwakeToTheEnd)'
  BY <1>8 DEF Suspend
<1>9. ASSUME Resume PROVE (TimerIsLate /\ AwakeToTheEnd)'
  <2>9. \A u \in Vm : age[u] \in 0 .. Lifetime /\ timer[u] \in Nat /\ quiet[u] \in 0 .. Idle
    BY BoundsAreNumbers DEF NoTimer
  <2>1. /\ registry \in Vm /\ aws' = [aws EXCEPT ![registry] = "running"]
        /\ quiet' = [quiet EXCEPT ![registry] = 0] /\ registry \in Alive
        /\ UNCHANGED <<age, timer, roused, downs>>
    BY <1>9 DEF Resume
  <2> QED
    BY <2>1, <2>9, BoundsAreNumbers
<1>10. ASSUME Terminate PROVE (TimerIsLate /\ AwakeToTheEnd)'
  <2>1. Target \in Vm
    BY <1>10, TargetIsThere DEF Terminate
  <2> DEFINE t == Target
  <2>2. /\ timer' = [timer EXCEPT ![t] = NoTimer]
        /\ \/ /\ aws' = [aws EXCEPT ![t] = "dead"] /\ active' = active \ {t}
              /\ end' = IF t \in Alive THEN [end EXCEPT ![t] = "user"] ELSE end
              /\ UNCHANGED excused
           \/ excused' = excused \cup {t} /\ UNCHANGED <<aws, active, end>>
        /\ registry' = NoVm /\ tracked' = NoVm /\ up
        /\ UNCHANGED <<mode, age, quiet, up, row, hooked, rung, roused, before, unsure, downs>>
    BY <1>10 DEF Terminate
  <2> HIDE DEF t
  <2>3. t \in Vm
    BY <2>1 DEF t
  <2>4. CASE excused' = excused \cup {t} /\ UNCHANGED <<aws, active, end>>
    BY <2>2, <2>3, <2>4
  <2>5. CASE /\ aws' = [aws EXCEPT ![t] = "dead"] /\ active' = active \ {t}
             /\ end' = IF t \in Alive THEN [end EXCEPT ![t] = "user"] ELSE end
             /\ UNCHANGED excused
    BY <2>2, <2>3, <2>5
  <2> QED
    BY <2>2, <2>4, <2>5
<1>11. ASSUME List PROVE (TimerIsLate /\ AwakeToTheEnd)'
  BY <1>11 DEF List
<1>12. ASSUME Tick PROVE (TimerIsLate /\ AwakeToTheEnd)'
  <2>1. Alive' = Alive /\ Alive \subseteq Vm /\ \A v \in Alive :
             /\ age'[v] = age[v] + 1 /\ age[v] < Lifetime
             /\ timer[v] = NoTimer => timer'[v] = NoTimer
             /\ timer[v] # NoTimer => timer'[v] = timer[v] - 1 /\ timer[v] > 0
             /\ timer[v] # NoTimer => timer'[v] # NoTimer
             /\ quiet'[v] = IF aws[v] = "running" THEN quiet[v] + 1 ELSE 0
    BY <1>12, Ticking DEF Tick
  <2>2. \A v \in Vm : age[v] \in Nat /\ timer[v] \in Nat /\ quiet[v] \in Nat
    BY BoundsAreNumbers DEF NoTimer
  <2> HIDE DEF Alive
  <2>3. UNCHANGED <<aws, roused, downs>>
    BY <1>12 DEF Tick
  <2>4. TimerIsLate'
    BY <2>1, <2>2, <2>3, LeadIsShort, BoundsAreNumbers
  <2>5. AwakeToTheEnd'
    BY <2>1, <2>2, <2>3, BoundsAreNumbers
  <2> QED
    BY <2>4, <2>5
<1>13. ASSUME Down PROVE (TimerIsLate /\ AwakeToTheEnd)'
  <2>1. downs' # 0
    BY <1>13, BoundsAreNumbers DEF Down
  <2> QED
    BY <2>1
<1>14. ASSUME Up PROVE (TimerIsLate /\ AwakeToTheEnd)'
  <2>1. downs' # 0
    BY <1>14 DEF Up
  <2> QED
    BY <2>1
<1>15. CASE UNCHANGED vars
  BY <1>15 DEF vars
<1> QED
  BY <1>1, <1>2, <1>3, <1>4, <1>5, <1>6, <1>7, <1>8, <1>9, <1>10, <1>11, <1>12,
     <1>13, <1>14, <1>15
     DEF Next

-----------------------------------------------------------------------------
(* The theorems. *)

\* The inductive invariant holds in every state.
LEMMA Inductive == Spec => []IInv
<1>1. Init => IInv
  <2> SUFFICES ASSUME Init PROVE IInv
    OBVIOUS
  <2>1. Types
    <3>1. NoTimer \in 0 .. NoTimer /\ 0 \in 0 .. Lifetime /\ 0 \in 0 .. Idle /\ 0 \in 0 .. MaxDowns
      BY BoundsAreNumbers DEF NoTimer
    <3> QED
      BY <3>1 DEF Init, Types
  <2>2. NewIsBlank /\ EndedIsDead /\ UpFromTheStart
    BY NoVmIsNoVm DEF Init, NewIsBlank, EndedIsDead, UpFromTheStart
  <2>3. ActiveIsListed /\ TimerIsOwed
    BY DEF Init, ActiveIsListed, TimerIsOwed, Alive
  <2>4. NoTimerForTerminated /\ EveryTimerRings
    BY DEF Init, NoTimerForTerminated, EveryTimerRings
  <2> QED
    BY <2>1, <2>2, <2>3, <2>4, TypesAreTypes DEF IInv
<1>2. IInv /\ [Next]_vars => IInv'
  <2> SUFFICES ASSUME IInv, [Next]_vars PROVE IInv'
    OBVIOUS
  <2>1. Types
    BY TypesAreTypes DEF IInv
  <2>2. Types'
    BY <2>1, TypesStep
  <2>3. TypeOK'
    BY <2>2 DEF TypeOK, Types
  <2>4. (NewIsBlank /\ EndedIsDead)' /\ (UpFromTheStart /\ ActiveIsListed)'
    BY <2>1, BlankStep, FirstStep DEF IInv
  <2>5. NoTimerForTerminated' /\ (TimerIsOwed /\ EveryTimerRings)'
    BY <2>1, CancelStep, OwedStep DEF IInv
  <2> QED
    BY <2>3, <2>4, <2>5 DEF IInv
<1> QED
  BY <1>1, <1>2, PTL DEF Spec

\* Every state is well typed; in particular only an eternal session has a rotator, and
\* a proxy that is down has no timers.
THEOREM TypeCorrect == Spec => []TypeOK
<1>1. IInv => TypeOK
  BY DEF IInv
<1> QED
  BY <1>1, Inductive, PTL

\* No timer is left for a VM that the user or a rotation terminated
\* (cancel_pre_terminate, restore_timers_from_db).
THEOREM TerminatedIsCancelled == Spec => []NoTimerForTerminated
<1>1. IInv => NoTimerForTerminated
  BY DEF IInv
<1> QED
  BY <1>1, Inductive, PTL

\* The timer a VM of an eternal session is owed rings before the VM ends, through any
\* number of outages.
THEOREM OwedTimersRing == Spec => []EveryTimerRings
<1>1. IInv => EveryTimerRings
  BY DEF IInv
<1> QED
  BY <1>1, Inductive, PTL

\* If the idle time is longer than the least lead of 15 s, a VM that its own timer
\* woke is awake when it ends; the comment at schedule_pre_terminate promises it of
\* every idle time.
THEOREM RousedIsAwake == ASSUME LongIdle PROVE Spec => []RousedStaysAwake
<1>1. Init => TimerIsLate /\ AwakeToTheEnd
  BY DEF Init, TimerIsLate, AwakeToTheEnd, Alive
<1>2. IInv /\ TimerIsLate /\ AwakeToTheEnd /\ [Next]_vars => (TimerIsLate /\ AwakeToTheEnd)'
  <2>1. IInv => Types /\ NewIsBlank /\ UpFromTheStart
    BY TypesAreTypes DEF IInv
  <2> QED
    BY <2>1, LateStep, LongIdle
<1>3. IInv /\ AwakeToTheEnd => RousedStaysAwake
  BY TypesAreTypes DEF IInv, Types, AwakeToTheEnd, RousedStaysAwake, Alive
<1> QED
  BY <1>1, <1>2, <1>3, Inductive, PTL DEF Spec

\* A proxy that starts does so by restore_timers_from_db.
LEMMA StartIsUp == ASSUME Next, up', ~up PROVE Up
  BY DEF Next, Launch, LaunchUnrecorded, Rotate, Fire, FallAsleep, Expire, Request, Suspend,
         Resume, Terminate, List, Tick, Down, proxy

\* A proxy that starts routes the session to the VM it was routed to before, if the
\* rows can tell, and to no VM that has ended.
THEOREM RestartFindsVm == Spec => RestartRoutes
<1>1. IInv /\ [Next]_vars =>
      [up' /\ ~up =>
        /\ registry' \in Alive \cup {NoVm}
        /\ (/\ before \in Alive \ unsure'
            /\ row[before] = "RUNNING" \/ (downs = 1 /\ row[before] # "none")
            /\ \A w \in Recorded \cap Alive : w >= before)
           => registry' = before]_vars
  <2> SUFFICES ASSUME IInv, Next, up', ~up
               PROVE  /\ registry' \in Alive \cup {NoVm}
                      /\ (/\ before \in Alive \ unsure'
                          /\ row[before] = "RUNNING" \/ (downs = 1 /\ row[before] # "none")
                          /\ \A w \in Recorded \cap Alive : w >= before)
                         => registry' = before
    OBVIOUS
  <2>1. Up
    BY StartIsUp
  <2>2. PICK silent \in SUBSET Alive :
            /\ registry' = IF (Recorded \cap Alive) \ silent = {} THEN NoVm
                           ELSE Oldest((Recorded \cap Alive) \ silent)
            /\ unsure' = silent
    BY <2>1 DEF Up
  <2> DEFINE found == (Recorded \cap Alive) \ silent
  <2>3. found \subseteq Vm /\ (found # {} => Oldest(found) \in found
            /\ \A w \in found : Oldest(found) <= w)
    BY OldestIsThere DEF Alive
  <2>4. registry' \in Alive \cup {NoVm}
    BY <2>2, <2>3
  <2>5. ASSUME before \in Alive \ unsure',
               row[before] = "RUNNING" \/ (downs = 1 /\ row[before] # "none"),
               \A w \in Recorded \cap Alive : w >= before
        PROVE  registry' = before
    <3>1. row[before] = "RUNNING"
      BY <2>5 DEF IInv, ActiveIsListed, FirstProxy
    <3>2. before \in found
      BY <2>2, <2>5, <3>1 DEF Alive, Recorded
    <3>3. Oldest(found) \in found /\ Oldest(found) <= before /\ Oldest(found) >= before
      BY <2>3, <2>5, <3>2
    <3>4. Oldest(found) \in Nat /\ before \in Nat
      BY <2>3, <3>2, <3>3, BoundsAreNumbers DEF Vm
    <3> HIDE DEF found
    <3>5. Oldest(found) = before
      BY <3>3, <3>4
    <3> QED
      BY <2>2, <3>2, <3>5 DEF found
  <2> QED
    BY <2>4, <2>5
<1> QED
  BY <1>1, Inductive, PTL DEF Spec, RestartRoutes
=============================================================================
