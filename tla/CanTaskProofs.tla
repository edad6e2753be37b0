--------------------------- MODULE CanTaskProofs ---------------------------
(***************************************************************************)
(* What TLAPS proves of CanTask, for every period, timeout and tick width,  *)
(* with tick counters that wrap.                                            *)
(***************************************************************************)
EXTENDS CanTask, TLAPS

\* What RunningIsRunning rests on: a command that halts the bus found it
\* running, and the task leaves init mode only while nobody asks for it.
Modes ==
  /\ caller # "idle" => mode = "running"
  /\ pc = "exitWait" => mode = "halted" /\ ~inrq

\* Ticks since the due tick; negative before it.
Late == tick - nextBroadcast

\* Far from the wrap both ticks count, the next broadcast lies one period after
\* the last, and how late an iteration can find it due depends on where the
\* task is: the sleep, the ticks lost, and what the loop of ExitInitMode took.
Paced ==
  /\ HalTick = tick + HalLead
  /\ tick + BroadcastPeriod < TickModulus /\ HalTick + BroadcastPeriod < TickModulus
  /\ elapsed = Late + BroadcastPeriod
  /\ pc = "delayed" => Late < TaskPeriod - delay + spent
  /\ pc = "assert" => Late < TaskPeriod + MaxWork + spent
  /\ pc = "exitWait" =>
       /\ deadline < TickModulus
       /\ Late < TaskPeriod + MaxWork + spent + InitTimeout + 1
       /\ Late < TaskPeriod + MaxWork + spent + InitTimeout + HalTick - deadline
  /\ pc = "decide" => Late <= TaskPeriod + MaxWork + spent + InitTimeout

Inv == TypeOK /\ Modes /\ RunningIsRunning /\ (~wrapped => Paced)

USE CanTaskAssumption

LEMMA PlusInTicks ==
  ASSUME NEW t \in Nat, NEW d \in Nat
  PROVE  Plus(t, d) \in Ticks
  BY DEF Plus, Ticks

LEMMA PlusBelowWrap ==
  ASSUME NEW t \in Nat, NEW d \in Nat, t + d < TickModulus
  PROVE  Plus(t, d) = t + d
  BY DEF Plus

LEMMA FarFromWrap ==
  ASSUME NEW t \in Nat, ~NearWrap(t)
  PROVE  t + BroadcastPeriod < TickModulus
  BY DEF NearWrap

LEMMA HalTickInTicks ==
  ASSUME tick \in Ticks
  PROVE  HalTick \in Ticks
<1>1. tick \in Nat /\ HalLead \in Nat
  BY DEF Ticks
<1> QED
  BY <1>1, PlusInTicks DEF HalTick

-----------------------------------------------------------------------------
(* Types *)

LEMMA TypeInit == Init => TypeOK
<1> SUFFICES ASSUME Init PROVE TypeOK
  OBVIOUS
<1>1. 0 \in Ticks /\ BroadcastPeriod \in 0..LongestGap + 1
  BY DEF Ticks, LongestGap
<1>2. {notify, inrq, inak, busFree, wrapped, refused} \subseteq BOOLEAN
  BY DEF Init
<1>3. 0 \in 0..TaskPeriod /\ 0 \in 0..MaxWork
  OBVIOUS
<1> QED
  BY <1>1, <1>2, <1>3 DEF Init, TypeOK

LEMMA TypeStep == TypeOK /\ [Next]_vars => TypeOK'
<1> SUFFICES ASSUME TypeOK, [Next]_vars PROVE TypeOK'
  OBVIOUS
<1> USE DEF TypeOK, taskVars, busVars, callVars
<1>1. HalTick \in Nat /\ tick \in Nat
  BY HalTickInTicks DEF Ticks
<1>2. Plus(HalTick, InitTimeout) \in Ticks
  BY <1>1, PlusInTicks
<1>3. Plus(tick, BroadcastPeriod) \in Ticks
  BY <1>1, PlusInTicks
<1>4. Plus(tick, 1) \in Ticks
  BY <1>1, PlusInTicks
<1>5. 0 \in Ticks
  BY DEF Ticks
<1>6. CASE TaskStep
  <2>1. CASE WakeUp
    BY <2>1 DEF WakeUp
  <2>2. CASE AssertNothing
    BY <2>2 DEF AssertNothing
  <2>3. CASE AssertRunning
    BY <2>3, <1>2 DEF AssertRunning
  <2>4. CASE ExitSucceeds
    BY <2>4, <1>5 DEF ExitSucceeds
  <2>5. CASE ExitTimesOut
    BY <2>5, <1>5 DEF ExitTimesOut
  <2>6. CASE Broadcast
    BY <2>6, <1>3 DEF Broadcast, GoToSleep, LongestGap
  <2>7. CASE NoBroadcast
    BY <2>7 DEF NoBroadcast, GoToSleep
  <2> QED
    BY <1>6, <2>1, <2>2, <2>3, <2>4, <2>5, <2>6, <2>7 DEF TaskStep
<1>7. CASE CallHalt
  BY <1>7 DEF CallHalt
<1>8. CASE CallStep
  <2>1. CASE HaltRequest
    BY <2>1, <1>2 DEF HaltRequest
  <2>2. CASE HaltAcknowledged
    BY <2>2, <1>5 DEF HaltAcknowledged
  <2>3. CASE HaltParks
    BY <2>3 DEF HaltParks
  <2>4. CASE HaltTimesOut
    BY <2>4, <1>5 DEF HaltTimesOut
  <2> QED
    BY <1>8, <2>1, <2>2, <2>3, <2>4 DEF CallStep
<1>9. CASE Acknowledge
  BY <1>9 DEF Acknowledge
<1>10. CASE BusChanges
  BY <1>10 DEF BusChanges
<1>11. CASE Tick
  <2>1. tick' \in Ticks
    BY <1>11, <1>4 DEF Tick
  <2>2. delay' \in 0..TaskPeriod /\ spent' \in 0..MaxWork
    BY <1>11 DEF Tick, Waiting
  <2>3. elapsed' \in 0..LongestGap + 1
    BY <1>11 DEF Tick, LongestGap
  <2>4. wrapped' \in BOOLEAN
    BY <1>11 DEF Tick
  <2> QED
    BY <1>11, <2>1, <2>2, <2>3, <2>4 DEF Tick
<1>12. CASE UNCHANGED vars
  BY <1>12 DEF vars
<1> QED
  BY <1>6, <1>7, <1>8, <1>9, <1>10, <1>11, <1>12 DEF Next

-----------------------------------------------------------------------------
(* The mode *)

LEMMA ModesInit == Init => Modes /\ RunningIsRunning
  BY DEF Init, Modes, RunningIsRunning

LEMMA ModesStep ==
  TypeOK /\ Modes /\ RunningIsRunning /\ [Next]_vars => Modes' /\ RunningIsRunning'
<1> SUFFICES ASSUME TypeOK, Modes, RunningIsRunning, [Next]_vars
             PROVE  Modes' /\ RunningIsRunning'
  OBVIOUS
<1> USE DEF Modes, RunningIsRunning, taskVars, busVars, callVars
<1>1. CASE TaskStep
  <2>1. CASE WakeUp
    BY <2>1 DEF WakeUp
  <2>2. CASE AssertNothing
    BY <2>2 DEF AssertNothing
  <2>3. CASE AssertRunning
    BY <2>3 DEF AssertRunning
  <2>4. CASE ExitSucceeds
    BY <2>4 DEF ExitSucceeds
  <2>5. CASE ExitTimesOut
    BY <2>5 DEF ExitTimesOut
  <2>6. CASE Broadcast
    BY <2>6 DEF Broadcast, GoToSleep
  <2>7. CASE NoBroadcast
    BY <2>7 DEF NoBroadcast, GoToSleep
  <2> QED
    BY <1>1, <2>1, <2>2, <2>3, <2>4, <2>5, <2>6, <2>7 DEF TaskStep
<1>2. CASE CallHalt
  BY <1>2 DEF CallHalt
<1>3. CASE CallStep
  <2>1. CASE HaltRequest
    BY <2>1 DEF HaltRequest
  <2>2. CASE HaltAcknowledged
    BY <2>2 DEF HaltAcknowledged
  <2>3. CASE HaltParks
    BY <2>3 DEF HaltParks
  <2>4. CASE HaltTimesOut
    BY <2>4 DEF HaltTimesOut
  <2> QED
    BY <1>3, <2>1, <2>2, <2>3, <2>4 DEF CallStep
<1>4. CASE Acknowledge
  BY <1>4 DEF Acknowledge
<1>5. CASE BusChanges
  BY <1>5 DEF BusChanges
<1>6. CASE Tick
  BY <1>6 DEF Tick
<1>7. CASE UNCHANGED vars
  BY <1>7 DEF vars
<1> QED
  BY <1>1, <1>2, <1>3, <1>4, <1>5, <1>6, <1>7 DEF Next

-----------------------------------------------------------------------------
(* The pace *)

LEMMA PacedInit == Init => Paced
<1> SUFFICES ASSUME Init PROVE Paced
  OBVIOUS
<1>1. HalTick = tick + HalLead
  BY PlusBelowWrap DEF Init, HalTick
<1> QED
  BY <1>1 DEF Init, Paced, Late

\* All but the ticks: the steps that leave time alone.
LEMMA PacedTaskStep ==
  ASSUME TypeOK, Paced, TaskStep
  PROVE  Paced'
<1> USE DEF Paced, Late, TypeOK
<1>1. HalTick' = HalTick /\ tick' = tick
  BY DEF TaskStep, WakeUp, AssertNothing, AssertRunning, ExitSucceeds, ExitTimesOut, Broadcast, NoBroadcast, HalTick
<1>2. HalTick \in Nat /\ tick \in Nat /\ nextBroadcast \in Nat
  BY HalTickInTicks DEF Ticks
<1>3. CASE WakeUp
  BY <1>1, <1>2, <1>3 DEF WakeUp
<1>4. CASE AssertNothing
  BY <1>1, <1>2, <1>4 DEF AssertNothing
<1>5. CASE AssertRunning
  <2>1. Plus(HalTick, InitTimeout) = HalTick + InitTimeout
    BY <1>2, PlusBelowWrap
  <2> QED
    BY <1>1, <1>2, <1>5, <2>1 DEF AssertRunning
<1>6. CASE ExitSucceeds
  BY <1>1, <1>2, <1>6 DEF ExitSucceeds
<1>7. CASE ExitTimesOut
  BY <1>1, <1>2, <1>7 DEF ExitTimesOut
<1>8. CASE Broadcast
  <2>1. Plus(tick, BroadcastPeriod) = tick + BroadcastPeriod
    BY <1>2, PlusBelowWrap
  <2> QED
    BY <1>1, <1>2, <1>8, <2>1 DEF Broadcast, GoToSleep
<1>9. CASE NoBroadcast
  BY <1>1, <1>2, <1>9 DEF NoBroadcast, GoToSleep, Due
<1> QED
  BY <1>3, <1>4, <1>5, <1>6, <1>7, <1>8, <1>9 DEF TaskStep

LEMMA PacedTick ==
  ASSUME TypeOK, ~wrapped, Paced, Tick, ~wrapped'
  PROVE  Paced'
<1> USE DEF TypeOK
<1>1. HalTick \in Nat /\ tick \in Nat /\ nextBroadcast \in Nat /\ deadline \in Nat
  BY HalTickInTicks DEF Ticks
<1>2. tick' = tick + 1
  BY <1>1, PlusBelowWrap DEF Tick, Paced
<1>3. HalTick' = tick' + HalLead
  <2>1. tick' + HalLead < TickModulus /\ tick' \in Nat
    BY <1>1, <1>2 DEF Paced
  <2> QED
    BY <2>1, PlusBelowWrap DEF HalTick
<1>4. tick' + BroadcastPeriod < TickModulus /\ HalTick' + BroadcastPeriod < TickModulus
  <2>1. wrapped' = (wrapped \/ NearWrap(tick') \/ NearWrap(HalTick'))
    BY DEF Tick
  <2>2. ~NearWrap(tick') /\ ~NearWrap(HalTick')
    BY Zenon, <2>1
  <2>3. HalTick' \in Nat /\ tick' \in Nat
    BY <1>1, <1>2, <1>3
  <2> QED
    BY <2>2, <2>3, FarFromWrap
<1>5. elapsed' = elapsed + 1 /\ elapsed' = Late' + BroadcastPeriod
  BY <1>1, <1>2 DEF Tick, Paced, Late, LongestGap
<1>6. HalTick' = HalTick + 1
  BY <1>1, <1>2, <1>3 DEF Paced
<1>7. Late' = Late + 1
  BY <1>1, <1>2 DEF Late, Tick
<1>8. CASE pc = "delayed"
  BY <1>1, <1>3, <1>4, <1>5, <1>7, <1>8 DEF Tick, Paced, Late, Waiting
<1>9. CASE pc = "assert"
  BY <1>1, <1>3, <1>4, <1>5, <1>7, <1>9 DEF Tick, Paced, Late, Waiting
<1>10. CASE pc = "exitWait"
  BY <1>1, <1>3, <1>4, <1>5, <1>6, <1>7, <1>10 DEF Tick, Paced, Late, Waiting
<1>11. CASE pc = "decide"
  BY <1>1, <1>3, <1>4, <1>5, <1>7, <1>11 DEF Tick, Paced, Late, Waiting
<1> QED
  BY <1>8, <1>9, <1>10, <1>11

LEMMA PacedStep == Inv /\ [Next]_vars => (~wrapped' => Paced')
<1> SUFFICES ASSUME Inv, [Next]_vars, ~wrapped' PROVE Paced'
  OBVIOUS
<1>1. ~wrapped /\ Paced /\ TypeOK
  <2>1. CASE Tick
    BY <2>1 DEF Inv, Tick
  <2>2. CASE ~Tick
    <3>1. wrapped' = wrapped
      BY <2>2 DEF Next, vars, TaskStep, WakeUp, AssertNothing, AssertRunning, ExitSucceeds, ExitTimesOut, Broadcast,
                  NoBroadcast, CallHalt, CallStep, HaltRequest, HaltAcknowledged, HaltParks, HaltTimesOut,
                  Acknowledge, BusChanges
    <3> QED
      BY <3>1 DEF Inv
  <2> QED
    BY <2>1, <2>2
<1>2. CASE TaskStep
  BY <1>1, <1>2, PacedTaskStep
<1>3. CASE Tick
  BY <1>1, <1>3, PacedTick
<1>4. CASE UNCHANGED <<tick, taskVars, elapsed>>
  BY <1>1, <1>4 DEF Paced, Late, HalTick, taskVars
<1> QED
  BY <1>2, <1>3, <1>4 DEF Next, CallHalt, CallStep, HaltRequest, HaltAcknowledged, HaltParks, HaltTimesOut,
                          Acknowledge, BusChanges, vars

-----------------------------------------------------------------------------
(* Theorems *)

LEMMA InvHolds == Spec => []Inv
<1>1. Init => Inv
  BY TypeInit, ModesInit, PacedInit DEF Inv
<1>2. Inv /\ [Next]_vars => Inv'
  BY TypeStep, ModesStep, PacedStep DEF Inv
<1> QED
  BY <1>1, <1>2, PTL DEF Spec

\* Ticks stay within their width, the sleep and the ticks lost within their bounds.
THEOREM CanTaskTypeCorrect == Spec => []TypeOK
<1>1. Inv => TypeOK
  BY DEF Inv
<1> QED
  BY <1>1, InvHolds, PTL

\* bus.cpp: when GetCanMode() says kRunning, the peripheral runs and its
\* interrupt is on, unless a halt is under way or was refused.
THEOREM ModeIsTrue == Spec => []RunningIsRunning
<1>1. Inv => RunningIsRunning
  BY DEF Inv
<1> QED
  BY <1>1, InvHolds, PTL

\* task_can.cpp: a broadcast is found due at most one iteration late.
THEOREM BroadcastsInTime == Spec => []NeverLate
<1>1. Inv => NeverLate
  <2> SUFFICES ASSUME Inv, ~wrapped PROVE elapsed <= LongestGap
    BY DEF NeverLate
  <2>1. tick \in Nat /\ nextBroadcast \in Nat /\ spent \in 0..MaxWork /\ delay \in 0..TaskPeriod
    BY DEF Inv, TypeOK, Ticks
  <2>2. Late <= TaskPeriod + 2 * MaxWork + InitTimeout
    BY <2>1 DEF Inv, Paced, TypeOK, Late
  <2> QED
    BY <2>1, <2>2 DEF Inv, Paced, LongestGap, Late
<1> QED
  BY <1>1, InvHolds, PTL

\* task_can.cpp: broadcasts are at least a period apart.
THEOREM BroadcastsApart == Spec => NeverEarly
<1>1. Inv /\ [Next]_vars => ((~wrapped /\ nextBroadcast' # nextBroadcast) => elapsed >= BroadcastPeriod)
  <2> SUFFICES ASSUME Inv, [Next]_vars, ~wrapped, nextBroadcast' # nextBroadcast
               PROVE  elapsed >= BroadcastPeriod
    OBVIOUS
  <2>1. Broadcast
    BY DEF Next, vars, taskVars, TaskStep, WakeUp, AssertNothing, AssertRunning, ExitSucceeds, ExitTimesOut,
           NoBroadcast, CallHalt, CallStep, HaltRequest, HaltAcknowledged, HaltParks, HaltTimesOut, Acknowledge,
           BusChanges, Tick
  <2>2. tick \in Nat /\ nextBroadcast \in Nat
    BY DEF Inv, TypeOK, Ticks
  <2> QED
    BY <2>1, <2>2 DEF Broadcast, Due, Inv, Paced, Late
<1>2. Inv /\ [Next]_vars => [(~wrapped /\ nextBroadcast' # nextBroadcast) => elapsed >= BroadcastPeriod]_vars
  BY <1>1
<1> QED
  BY <1>2, InvHolds, PTL DEF Spec, NeverEarly
=============================================================================
