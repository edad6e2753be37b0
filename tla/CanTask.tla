------------------------------ MODULE CanTask ------------------------------
(***************************************************************************)
(* The loop of the CAN task (src/src/tasks/task_can.cpp) and the run state  *)
(* of the bus it re-asserts (src/src/can/bus.cpp): each iteration calls     *)
(* SetCanMode(kRunning), then broadcasts if its 32-bit tick has reached     *)
(* next_broadcast_tick, then sleeps.                                        *)
(*                                                                         *)
(* Time is the kernel tick; the HAL tick runs HalLead ahead of it.  Both    *)
(* wrap.  A step of a task takes no time, but a task that is ready may be   *)
(* kept waiting by the other task and by interrupts, up to MaxWork ticks an *)
(* iteration.  The bus may be held dominant at any time, which delays the   *)
(* peripheral's answer to a mode request.  SetCanMode(kHalted), which the   *)
(* template itself never calls, is called from a command in the CLI task.   *)
(***************************************************************************)
EXTENDS Integers

CONSTANTS
  TickModulus,      \* 2^32
  TaskPeriod,       \* kCanTaskPeriodMsec
  BroadcastPeriod,  \* kCanBroadcastPeriodMsec
  InitTimeout,      \* 10 ms: EnterInitMode(10), ExitInitMode(10)
  HalLead,          \* HAL ticks counted before the kernel started
  MaxWork           \* bound: ticks an iteration may lose to the rest of the system

ASSUME CanTaskAssumption ==
  /\ TaskPeriod \in Nat \ {0} /\ InitTimeout \in Nat /\ HalLead \in Nat /\ MaxWork \in Nat
  /\ BroadcastPeriod \in Nat /\ BroadcastPeriod > TaskPeriod /\ BroadcastPeriod > InitTimeout
  /\ TickModulus \in Nat /\ TickModulus > 2 * BroadcastPeriod
  /\ HalLead + BroadcastPeriod < TickModulus

VARIABLES
  tick,      \* osKernelGetTickCount()
  pc,        \* the CAN task: "delayed", "assert", "exitWait", "decide"
  delay,     \* ticks left of its osDelay
  spent,     \* ticks this iteration has lost
  deadline,  \* of ExitInitMode
  nextBroadcast,      \* next_broadcast_tick
  mode,      \* can_mode
  notify,    \* the TX-mailbox-empty interrupt is enabled
  inrq,      \* MCR.INRQ, init mode requested
  inak,      \* MSR.INAK, init mode acknowledged
  busFree,   \* the bus is not held dominant
  caller,    \* the command: "idle", "halt", "enterWait", "park"
  limit,     \* deadline of EnterInitMode
  elapsed,   \* history: ticks since the last broadcast, as far as they matter
  wrapped,   \* history: a tick counter has come close to its wrap
  refused    \* history: a SetCanMode(kHalted) has failed

taskVars == <<pc, delay, spent, deadline, nextBroadcast>>
busVars == <<mode, notify, inrq>>
callVars == <<caller, limit>>
vars == <<tick, taskVars, busVars, inak, busFree, callVars, elapsed, wrapped, refused>>

Ticks == 0..TickModulus - 1
\* Seeded variant: arithmetic wider than the counter.
PlusUnbounded(t, d) == t + d

Plus(t, d) == (t + d) % TickModulus
HalTick == Plus(tick, HalLead)

\* A broadcast is due after BroadcastPeriod, and is found due at most one
\* iteration late: its sleep, the ticks two iterations lose, one mode timeout.
LongestGap == BroadcastPeriod + TaskPeriod + 2 * MaxWork + InitTimeout

NearWrap(t) == t + BroadcastPeriod >= TickModulus

Init ==
  /\ tick = 0
  /\ pc = "assert" /\ delay = 0 /\ spent = 0 /\ deadline = 0 /\ nextBroadcast = 0
  /\ mode = "halted" /\ notify = TRUE /\ inrq = TRUE /\ inak = TRUE
  /\ busFree \in BOOLEAN
  /\ caller = "idle" /\ limit = 0
  /\ elapsed = BroadcastPeriod /\ wrapped = FALSE /\ refused = FALSE

-----------------------------------------------------------------------------
(* The CAN task *)

WakeUp ==
  /\ pc = "delayed" /\ delay = 0
  /\ pc' = "assert"
  /\ spent' = 0
  /\ UNCHANGED <<tick, delay, deadline, nextBroadcast, busVars, inak, busFree, callVars, elapsed, wrapped, refused>>

\* SetCanMode(kRunning) when the mode is believed to be kRunning already.
AssertNothing ==
  /\ pc = "assert" /\ mode = "running"
  /\ pc' = "decide"
  /\ UNCHANGED <<tick, delay, spent, deadline, nextBroadcast, busVars, inak, busFree, callVars, elapsed, wrapped, refused>>

\* ExitInitMode up to its loop.
AssertRunning ==
  /\ pc = "assert" /\ mode = "halted"
  /\ inrq' = FALSE
  /\ deadline' = Plus(HalTick, InitTimeout)
  /\ pc' = "exitWait"
  /\ UNCHANGED <<tick, delay, spent, nextBroadcast, mode, notify, inak, busFree, callVars, elapsed, wrapped, refused>>

ExitSucceeds ==
  /\ pc = "exitWait" /\ ~inak
  /\ notify' = TRUE
  /\ mode' = "running"
  /\ pc' = "decide" /\ deadline' = 0
  /\ UNCHANGED <<tick, delay, spent, nextBroadcast, inrq, inak, busFree, callVars, elapsed, wrapped, refused>>

\* Seeded variant: a failed exit is not noticed.
ExitTimesOutUnnoticed ==
  /\ pc = "exitWait" /\ inak /\ HalTick > deadline
  /\ mode' = "running"
  /\ pc' = "decide" /\ deadline' = 0
  /\ UNCHANGED <<tick, delay, spent, nextBroadcast, notify, inrq, inak, busFree, callVars, elapsed, wrapped, refused>>

\* Seeded variant: a failed exit puts the request back.
ExitTimesOutReparks ==
  /\ pc = "exitWait" /\ inak /\ HalTick > deadline
  /\ inrq' = TRUE
  /\ pc' = "decide" /\ deadline' = 0
  /\ UNCHANGED <<tick, delay, spent, nextBroadcast, mode, notify, inak, busFree, callVars, elapsed, wrapped, refused>>

\* The request stays; the mode stays kHalted, so the next iteration tries again.
ExitTimesOut ==
  /\ pc = "exitWait" /\ inak /\ HalTick > deadline
  /\ pc' = "decide" /\ deadline' = 0
  /\ UNCHANGED <<tick, delay, spent, nextBroadcast, busVars, inak, busFree, callVars, elapsed, wrapped, refused>>

GoToSleep == pc' = "delayed" /\ delay' = TaskPeriod

\* Seeded variant: the comparison is strict.
DueStrictly == tick > nextBroadcast

Due == tick >= nextBroadcast

\* Seeded variant: the next broadcast is counted from when this one was due.
BroadcastFromDue ==
  /\ pc = "decide" /\ Due
  /\ nextBroadcast' = Plus(nextBroadcast, BroadcastPeriod)
  /\ elapsed' = 0
  /\ GoToSleep
  /\ UNCHANGED <<tick, spent, deadline, busVars, inak, busFree, callVars, wrapped, refused>>

Broadcast ==
  /\ pc = "decide" /\ Due
  /\ nextBroadcast' = Plus(tick, BroadcastPeriod)
  /\ elapsed' = 0
  /\ GoToSleep
  /\ UNCHANGED <<tick, spent, deadline, busVars, inak, busFree, callVars, wrapped, refused>>

NoBroadcast ==
  /\ pc = "decide" /\ ~Due
  /\ GoToSleep
  /\ UNCHANGED <<tick, spent, deadline, nextBroadcast, busVars, inak, busFree, callVars, elapsed, wrapped, refused>>

TaskStep ==
  WakeUp \/ AssertNothing \/ AssertRunning \/ ExitSucceeds \/ ExitTimesOut \/ Broadcast \/ NoBroadcast

-----------------------------------------------------------------------------
(* SetCanMode(kHalted) *)

CallHalt ==
  /\ caller = "idle" /\ mode = "running"
  /\ caller' = "halt"
  /\ UNCHANGED <<tick, taskVars, busVars, inak, busFree, limit, elapsed, wrapped, refused>>

\* Flush, abort of the mailboxes (module CanTxQueue), EnterInitMode up to its loop.
HaltRequest ==
  /\ caller = "halt"
  /\ inrq' = TRUE
  /\ limit' = Plus(HalTick, InitTimeout)
  /\ caller' = "enterWait"
  /\ UNCHANGED <<tick, taskVars, mode, notify, inak, busFree, elapsed, wrapped, refused>>

HaltAcknowledged ==
  /\ caller = "enterWait" /\ inak
  /\ notify' = FALSE
  /\ caller' = "park" /\ limit' = 0
  /\ UNCHANGED <<tick, taskVars, mode, inrq, inak, busFree, elapsed, wrapped, refused>>

HaltParks ==
  /\ caller = "park"
  /\ mode' = "halted"
  /\ caller' = "idle"
  /\ UNCHANGED <<tick, taskVars, notify, inrq, inak, busFree, limit, elapsed, wrapped, refused>>

HaltTimesOut ==
  /\ caller = "enterWait" /\ ~inak /\ HalTick > limit
  /\ caller' = "idle" /\ limit' = 0
  /\ refused' = TRUE
  /\ UNCHANGED <<tick, taskVars, busVars, inak, busFree, elapsed, wrapped>>

CallStep == HaltRequest \/ HaltAcknowledged \/ HaltParks \/ HaltTimesOut

-----------------------------------------------------------------------------
(* The peripheral, the bus and time *)

\* Both answers need the bus: recessive bits to leave, the end of a frame to enter.
Acknowledge ==
  /\ inak # inrq
  /\ busFree
  /\ inak' = inrq
  /\ UNCHANGED <<tick, taskVars, busVars, busFree, callVars, elapsed, wrapped, refused>>

BusChanges ==
  /\ busFree' = ~busFree
  /\ UNCHANGED <<tick, taskVars, busVars, inak, callVars, elapsed, wrapped, refused>>

\* The task is asleep, or in the loop of ExitInitMode with nothing to see yet.
Waiting ==
  \/ pc = "delayed" /\ delay > 0
  \/ pc = "exitWait" /\ inak /\ ~(HalTick > deadline)

Tick ==
  /\ Waiting \/ spent < MaxWork
  /\ tick' = Plus(tick, 1)
  /\ delay' = IF delay > 0 THEN delay - 1 ELSE 0
  /\ spent' = IF Waiting THEN spent ELSE spent + 1
  /\ elapsed' = IF elapsed > LongestGap THEN elapsed ELSE elapsed + 1
  /\ wrapped' = (wrapped \/ NearWrap(tick') \/ NearWrap(HalTick'))
  /\ UNCHANGED <<pc, deadline, nextBroadcast, busVars, inak, busFree, callVars, refused>>

Next == TaskStep \/ CallHalt \/ CallStep \/ Acknowledge \/ BusChanges \/ Tick

\* The scheduler runs both tasks, time passes, the peripheral answers in the end.
Fairness ==
  /\ WF_vars(TaskStep) /\ WF_vars(CallStep) /\ WF_vars(Tick) /\ WF_vars(Acknowledge)

Spec == Init /\ [][Next]_vars /\ Fairness

-----------------------------------------------------------------------------
(* Properties *)

TypeOK ==
  /\ tick \in Ticks
  /\ pc \in {"delayed", "assert", "exitWait", "decide"}
  /\ delay \in 0..TaskPeriod /\ spent \in 0..MaxWork
  /\ deadline \in Ticks /\ nextBroadcast \in Ticks /\ limit \in Ticks
  /\ mode \in {"running", "halted"}
  /\ caller \in {"idle", "halt", "enterWait", "park"}
  /\ {notify, inrq, inak, busFree, wrapped, refused} \subseteq BOOLEAN
  /\ elapsed \in 0..LongestGap + 1

\* When GetCanMode() says kRunning and no halt is under way or was refused, the
\* peripheral is asked to run, has left init mode, and its TX interrupt is on.
RunningIsRunning ==
  (mode = "running" /\ caller = "idle" /\ ~refused) => ~inrq /\ ~inak /\ notify

\* Before a tick counter nears its wrap, broadcasts are never closer than
\* BroadcastPeriod ...
NeverEarly ==
  [][(~wrapped /\ nextBroadcast' # nextBroadcast) => elapsed >= BroadcastPeriod]_vars

\* ... and never later than one iteration of the loop after they are due.
NeverLate == ~wrapped => elapsed <= LongestGap

\* A bus that is freed for good is joined, at boot or after a halt.
BusIsJoined ==
  <>[]busFree => []<>(refused \/ (mode = "running" /\ ~inak))

\* requirements.md, can.temperature: "Sampled at 1 Hz by the CAN task even when
\* the broadcast is gated off": an iteration that finds a period elapsed since
\* the last sample takes another.  False when the due tick lies just below the
\* wrap and no iteration falls between it and the wrap.
OneHertz == (pc = "decide" /\ ~Due) => elapsed < BroadcastPeriod
=============================================================================
