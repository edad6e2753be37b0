---------------------------- MODULE DebugStage ----------------------------
(***************************************************************************)
(* The debug streamers: the CAN task, the CAN receive interrupt and         *)
(* commands of the CLI task stage lines, and the CLI task prints a few of   *)
(* them each pass (can/debug_can.cpp, driver/adc1/debug_adc1.cpp,           *)
(* driver/i2c2/debug_i2c2.cpp, cli/cli_debug.cpp, tasks/task_cli.cpp).      *)
(* The tasks have one priority and are sliced: either may be stopped        *)
(* between any two accesses to what they share.  A CAN frame and an I2C     *)
(* line are their serial numbers, of an ADC sample's fields it is known     *)
(* whether they are the latest sample's; the debug flags are one; of the    *)
(* three fields of a sample, the two values are written as one.  A local    *)
(* variable that has gone out of scope is 0.                                *)
(***************************************************************************)
EXTENDS Integers

CONSTANTS
  RingSize,      \* kCanBufSize, 32: the ring holds one frame less
  I2cRingSize,   \* kI2cBufSize, 16
  Budget,        \* kMaxDebugLinesPerCycle, 8
  FramesPerBroadcast,  \* frames of CanBroadcast::Broadcast, 2
  MaxFrames,     \* bound: serial numbers of the CAN frames staged
  MaxLost,       \* bound: CAN frames dropped, until the count of them begins again
  MaxI2c,        \* bound: serial numbers of the I2C lines staged
  MaxSuppressed  \* bound: suppressed lines that are told apart

ASSUME DebugStageAssumption ==
  /\ RingSize \in Nat \ {0, 1} /\ I2cRingSize \in Nat \ {0, 1}
  /\ Budget \in Nat /\ Budget >= 3 /\ FramesPerBroadcast \in Nat \ {0}
  /\ MaxFrames \in Nat /\ MaxLost \in Nat /\ MaxI2c \in Nat
  /\ MaxSuppressed \in Nat

VARIABLES
  enabled,     \* debug_flags: the master and the source bits
  canPc,       \* the CAN task: "idle", the field it writes next, "pending", "gate", "stage"
  toSend,      \* frames its Broadcast has yet to stage
  adc,         \* adc1_tick, adc1_raw, adc1_temperature_c: which sample each is of
  pending,     \* adc1_pending_
  ring,        \* can_buf
  head,        \* can_head
  tail,        \* can_tail
  dropped,     \* can_dropped_count
  i2cStaged,   \* I2C lines put into i2c_buf
  i2cShown,    \* I2C lines taken out of it
  cliPc,       \* the CLI task: where it is in its pass
  budget,      \* lines it may still print in this call of DebugPrintPending
  toRead,      \* fields of the ADC sample it has yet to read
  seen,        \* dropped: its copy of the count
  entry,       \* its copy of the ring's oldest frame
  suppressed,  \* suppressed_count_
  requested,   \* cli_shutdown_requested
  final,       \* the last call of DebugPrintPending has begun
  printed,     \* history: which sample each of the fields printed last was of
  staged,      \* history: frames put into the ring
  shown,       \* history: the frame printed last
  lost,        \* history: frames that found the ring full
  reported,    \* history: the sum of all dropped-frame lines
  raced,       \* history: a frame was dropped while such a line was under way
  owed         \* history: lines staged when the shutdown was requested and not printed since

adcVars == <<canPc, toSend, adc>>
ringVars == <<ring, head, dropped, staged, lost>>
reader == <<tail, entry, shown>>
drops == <<seen, reported, raced>>
i2c == <<i2cStaged, i2cShown>>
shutdown == <<requested, final, owed>>
cli == <<cliPc, budget, suppressed>>
vars == <<enabled, adcVars, pending, ringVars, reader, drops, i2c, shutdown, cli, toRead, printed>>

Index == 0..RingSize - 1
Field == {"tick", "value"}

Init ==
  /\ enabled = FALSE
  /\ canPc = "idle" /\ toSend = 0 /\ adc = [f \in Field |-> "latest"] /\ pending = FALSE
  /\ ring = [i \in Index |-> 0] /\ head = 0 /\ tail = 0 /\ dropped = 0
  /\ i2cStaged = 0 /\ i2cShown = 0
  /\ cliPc = "commands" /\ budget = 0 /\ suppressed = 0
  /\ toRead = {} /\ printed = adc
  /\ seen = 0 /\ entry = 0
  /\ requested = FALSE /\ final = FALSE /\ owed = [can |-> 0, i2c |-> 0]
  /\ staged = 0 /\ shown = 0 /\ lost = 0 /\ reported = 0 /\ raced = FALSE

\* Seeded variant: the index is not masked.
NextIndexNoWrap(i) == i + 1

\* (i + 1) & kCanBufMask
NextIndex(i) == IF i + 1 = RingSize THEN 0 ELSE i + 1

Smaller(m, n) == IF m < n THEN m ELSE n

Less(m, n) == IF m < n THEN 0 ELSE m - n

-----------------------------------------------------------------------------
(* Staging *)

\* Seeded variant: nobody asks whether the ring is full.
HasRoomUnchecked == TRUE

HasRoom == NextIndex(head) # tail

\* DebugStageCanFrame after the test of the flags, with interrupts disabled.
StageFrame ==
  IF HasRoom
  THEN /\ staged < MaxFrames
       /\ ring' = [ring EXCEPT ![head] = staged + 1]
       /\ head' = NextIndex(head)
       /\ staged' = staged + 1
       /\ UNCHANGED <<dropped, lost>>
  ELSE /\ lost < MaxLost
       /\ dropped' = dropped + 1 /\ lost' = lost + 1
       /\ UNCHANGED <<ring, head, staged>>

\* HAL_CAN_RxFifo0MsgPendingCallback: no task runs before the interrupt is over.
RxInterrupt ==
  /\ enabled
  /\ StageFrame
  /\ UNCHANGED <<enabled, adcVars, pending, reader, drops, i2c, shutdown, cli, toRead, printed>>

canTaskOnly == <<enabled, reader, drops, i2c, shutdown, cli, toRead>>

\* What was staged and printed before is not of the latest sample.
Older == [f \in Field |-> "older"]

\* The CAN task calls DebugStageAdc1: the flags decide whether anything is staged.
BeginSample ==
  /\ canPc = "idle"
  /\ IF enabled
     THEN /\ canPc' = "tick"
          /\ adc' = Older /\ printed' = Older
          /\ UNCHANGED toSend
     ELSE /\ canPc' = "gate" /\ toSend' = FramesPerBroadcast
          /\ UNCHANGED <<adc, printed>>
  /\ UNCHANGED <<pending, ringVars, canTaskOnly>>

AfterField(f) == IF f = "tick" THEN "value" ELSE "pending"

WriteField(f) ==
  /\ canPc = f
  /\ adc' = [adc EXCEPT ![f] = "latest"]
  /\ canPc' = AfterField(f)
  /\ UNCHANGED <<toSend, pending, ringVars, canTaskOnly, printed>>

SetPending ==
  /\ canPc = "pending"
  /\ pending' = TRUE
  /\ canPc' = "gate" /\ toSend' = FramesPerBroadcast
  /\ UNCHANGED <<adc, ringVars, canTaskOnly, printed>>

\* Broadcast returns: it is disabled, or both frames are dealt with.
EndBroadcast ==
  /\ canPc = "gate" /\ toSend \in {0, FramesPerBroadcast}
  /\ canPc' = "idle" /\ toSend' = 0
  /\ UNCHANGED <<adc, pending, ringVars, canTaskOnly, printed>>

\* DebugStageCanFrame of the next frame of the broadcast reads the flags.
FrameGate ==
  /\ canPc = "gate" /\ toSend > 0
  /\ toSend' = toSend - 1
  /\ canPc' = IF enabled THEN "stage" ELSE "gate"
  /\ UNCHANGED <<adc, pending, ringVars, canTaskOnly, printed>>

StageTxFrame ==
  /\ canPc = "stage"
  /\ StageFrame
  /\ canPc' = "gate"
  /\ UNCHANGED <<toSend, adc, pending, canTaskOnly, printed>>

CanTask ==
  \/ BeginSample
  \/ \E f \in Field : WriteField(f)
  \/ SetPending \/ EndBroadcast \/ FrameGate \/ StageTxFrame

-----------------------------------------------------------------------------
(* The CLI task: commands *)

cliTaskOnly == <<adcVars, ringVars>>

\* (i2c_head - i2c_tail) & kI2cBufMask
I2cPending == i2cStaged - i2cShown

\* `debug`, SetDebugFlags
Toggle ==
  /\ cliPc = "commands"
  /\ enabled' = ~enabled
  /\ UNCHANGED <<cliTaskOnly, pending, reader, drops, i2c, shutdown, cli, toRead, printed>>

\* `i2c`: StageEntry drops the line without a trace when i2c_buf is full.
I2cTransaction ==
  /\ cliPc = "commands" /\ enabled
  /\ IF I2cPending = I2cRingSize - 1
     THEN UNCHANGED i2cStaged
     ELSE i2cStaged < MaxI2c /\ i2cStaged' = i2cStaged + 1
  /\ UNCHANGED <<enabled, cliTaskOnly, pending, reader, drops, i2cShown, shutdown, cli, toRead, printed>>

\* Seeded variant: a pass goes on with what the last one left of the budget.
PassBudgetKept == budget

PassBudget == Budget

\* embeddedCliProcess has emptied the input.
EndCommands ==
  /\ cliPc = "commands"
  /\ IF final
     THEN cliPc' = "parked" /\ UNCHANGED budget
     ELSE cliPc' = "adc" /\ budget' = PassBudget
  /\ UNCHANGED <<enabled, cliTaskOnly, pending, reader, drops, i2c, shutdown, suppressed, toRead, printed>>

-----------------------------------------------------------------------------
(* The CLI task: DebugPrintPending *)

\* Seeded variant: the flag is cleared after the values were read.
ClearPendingLate(pc) == pending' = IF pc = "sample" /\ toRead \subseteq {"tick"} THEN FALSE ELSE pending

\* The flag is cleared before the values are read.
ClearPending(pc) == pending' = IF pc = "adc" THEN FALSE ELSE pending

PrintAdc1 ==
  /\ cliPc = "adc"
  /\ IF pending
     THEN cliPc' = "sample" /\ toRead' = Field
     ELSE cliPc' = "dropped" /\ UNCHANGED toRead
  /\ ClearPending("adc")
  /\ UNCHANGED <<enabled, cliTaskOnly, reader, drops, i2c, shutdown, budget, suppressed, printed>>

\* The arguments of cli_printf are evaluated in an order the compiler chooses.
ReadField(f) ==
  /\ cliPc = "sample" /\ f \in toRead
  /\ printed' = [printed EXCEPT ![f] = adc[f]]
  /\ toRead' = toRead \ {f}
  /\ IF toRead = {f}
     THEN cliPc' = "dropped" /\ budget' = budget - 1
     ELSE UNCHANGED <<cliPc, budget>>
  /\ ClearPending("sample")
  /\ UNCHANGED <<enabled, cliTaskOnly, reader, drops, i2c, shutdown, suppressed>>

ReadDropped ==
  /\ cliPc = "dropped"
  /\ seen' = dropped
  /\ cliPc' = IF dropped > 0 THEN "summary" ELSE "frames"
  /\ UNCHANGED <<enabled, cliTaskOnly, pending, reader, reported, raced, i2c, shutdown, budget, suppressed,
                 toRead, printed>>

\* Seeded variant: the count is not reset once it was printed.
CountAfterSummaryKept == dropped

CountAfterSummary == 0

\* The count is reset although more frames may have been dropped since it was read.
PrintSummary ==
  /\ cliPc = "summary"
  /\ dropped' = CountAfterSummary
  /\ reported' = reported + seen /\ seen' = 0
  /\ raced' = (raced \/ dropped # seen)
  /\ budget' = budget - 1
  /\ cliPc' = "frames"
  /\ UNCHANGED <<enabled, adcVars, ring, head, staged, lost, pending, reader, i2c, shutdown, suppressed,
                 toRead, printed>>

TakeFrame ==
  /\ cliPc = "frames" /\ tail # head /\ budget > 0
  /\ entry' = ring[tail]
  /\ cliPc' = "release"
  /\ UNCHANGED <<enabled, cliTaskOnly, pending, tail, shown, drops, i2c, shutdown, budget, suppressed,
                 toRead, printed>>

\* The slot is given back once it was copied.
PrintFrame ==
  /\ cliPc = "release"
  /\ tail' = NextIndex(tail)
  /\ shown' = entry /\ entry' = 0 /\ owed' = [owed EXCEPT !.can = Less(@, 1)]
  /\ budget' = budget - 1
  /\ cliPc' = "frames"
  /\ UNCHANGED <<enabled, cliTaskOnly, pending, drops, i2c, requested, final, suppressed, toRead, printed>>

EndFrames ==
  /\ cliPc = "frames" /\ (tail = head \/ budget = 0)
  /\ cliPc' = "i2c"
  /\ UNCHANGED <<enabled, cliTaskOnly, pending, reader, drops, i2c, shutdown, budget, suppressed, toRead, printed>>

\* With no budget left the lines that wait are counted as suppressed.
PrintI2c2 ==
  /\ cliPc = "i2c"
  /\ i2cShown' = i2cShown + Smaller(budget, I2cPending)
  /\ owed' = [owed EXCEPT !.i2c = Less(@, budget)]
  /\ budget' = budget - Smaller(budget, I2cPending)
  /\ suppressed' = IF budget > 0 THEN suppressed ELSE Smaller(suppressed + I2cPending, MaxSuppressed)
  /\ cliPc' = "report"
  /\ UNCHANGED <<enabled, cliTaskOnly, pending, reader, drops, i2cStaged, requested, final, toRead, printed>>

\* The suppressed lines are reported once two seconds have passed.
ReportSuppressed ==
  /\ cliPc = "report"
  /\ suppressed' \in IF suppressed > 0 THEN {suppressed, 0} ELSE {0}
  /\ cliPc' = "check"
  /\ UNCHANGED <<enabled, cliTaskOnly, pending, reader, drops, i2c, shutdown, budget, toRead, printed>>

\* Seeded variant: the task parks without a last call of DebugPrintPending.
FinalPassMissing ==
  /\ final' = requested
  /\ cliPc' = "commands"
  /\ UNCHANGED budget

\* The last call of DebugPrintPending has a budget of its own.
FinalPass ==
  IF requested /\ ~final
  THEN final' = TRUE /\ cliPc' = "adc" /\ budget' = Budget
  ELSE cliPc' = "commands" /\ budget' = (IF final THEN budget ELSE 0) /\ UNCHANGED final

EndPrinting ==
  /\ cliPc = "check"
  /\ FinalPass
  /\ UNCHANGED <<enabled, cliTaskOnly, pending, reader, drops, i2c, requested, owed, suppressed, toRead, printed>>

DebugPrintPending ==
  \/ PrintAdc1
  \/ \E f \in Field : ReadField(f)
  \/ ReadDropped \/ PrintSummary
  \/ TakeFrame \/ PrintFrame \/ EndFrames
  \/ PrintI2c2 \/ ReportSuppressed

\* What the CLI task does by itself.
CliTask == EndCommands \/ DebugPrintPending \/ EndPrinting

\* From the code that is about to remove power.
RequestCliShutdown ==
  /\ ~requested
  /\ requested' = TRUE
  /\ owed' = [can |-> staged - shown, i2c |-> I2cPending]
  /\ UNCHANGED <<enabled, cliTaskOnly, pending, reader, drops, i2c, final, cli, toRead, printed>>

-----------------------------------------------------------------------------
(* No code: serial numbers and counts of the history that have reached their *)
(* bounds begin again when nothing of it is under way, so that the bounds    *)
(* never bring the staging of lines to an end.                               *)

\* With nothing between tail and head the cells of the ring are of no account.
RenumberFrames ==
  /\ staged = MaxFrames /\ shown = staged
  /\ staged' = 0 /\ shown' = 0 /\ ring' = [i \in Index |-> 0]
  /\ UNCHANGED <<enabled, adcVars, pending, head, dropped, lost, tail, entry, drops, i2c, shutdown, cli, toRead,
                 printed>>

RenumberDrops ==
  /\ lost = MaxLost /\ dropped = 0
  /\ lost' = 0 /\ reported' = 0 /\ raced' = FALSE
  /\ UNCHANGED <<enabled, adcVars, pending, ring, head, dropped, staged, reader, seen, i2c, shutdown, cli, toRead,
                 printed>>

RenumberI2c ==
  /\ i2cStaged = MaxI2c /\ i2cShown = i2cStaged
  /\ i2cStaged' = 0 /\ i2cShown' = 0
  /\ UNCHANGED <<enabled, cliTaskOnly, pending, reader, drops, shutdown, cli, toRead, printed>>

Renumber == RenumberFrames \/ RenumberDrops \/ RenumberI2c

Next ==
  \/ RxInterrupt \/ CanTask
  \/ Toggle \/ I2cTransaction \/ CliTask
  \/ RequestCliShutdown
  \/ Renumber

\* The scheduler runs the CLI task, and the input it processes ends.
Fairness == WF_vars(CliTask)

Spec == Init /\ [][Next]_vars /\ Fairness

-----------------------------------------------------------------------------
(* Properties *)

TypeOK ==
  /\ enabled \in BOOLEAN /\ pending \in BOOLEAN
  /\ canPc \in {"idle", "pending", "gate", "stage"} \cup Field
  /\ toSend \in 0..FramesPerBroadcast
  /\ adc \in [Field -> {"latest", "older"}] /\ printed \in [Field -> {"latest", "older"}]
  /\ ring \in [Index -> 0..MaxFrames] /\ head \in Index /\ tail \in Index
  /\ staged \in 0..MaxFrames /\ shown \in 0..MaxFrames /\ entry \in 0..MaxFrames
  /\ lost \in 0..MaxLost /\ dropped \in 0..MaxLost /\ seen \in 0..MaxLost /\ reported \in 0..MaxLost
  /\ raced \in BOOLEAN
  /\ i2cStaged \in 0..MaxI2c /\ i2cShown \in 0..MaxI2c
  /\ I2cPending \in 0..I2cRingSize - 1
  /\ cliPc \in {"commands", "adc", "sample", "dropped", "summary", "frames", "release", "i2c", "report",
                "check", "parked"}
  /\ budget \in 0..Budget /\ suppressed \in 0..MaxSuppressed
  /\ toRead \subseteq Field
  /\ requested \in BOOLEAN /\ final \in BOOLEAN
  /\ owed \in [can : 0..RingSize - 1, i2c : 0..I2cRingSize - 1]

\* The cell that lies j places after index i.
At(i, j) == IF i + j >= RingSize THEN i + j - RingSize ELSE i + j

\* Every frame that was put into the ring is printed once and in order: what
\* was staged and not yet printed lies between tail and head, oldest first,
\* and the copy being printed is the next one (debug_stage.h: "Safe to call
\* from both task and ISR context").
FramesConserved ==
  /\ staged - shown \in 0..RingSize - 1
  /\ head = At(tail, staged - shown)
  /\ \A j \in 0..RingSize - 1 : j < staged - shown => ring[At(tail, j)] = shown + 1 + j
  /\ cliPc = "release" => entry = shown + 1 /\ shown < staged

\* The dropped-frame lines never claim more than was dropped, and add up to it
\* with the count that is left, unless a frame was dropped between the reading
\* of the count and its reset.
DropsAccounted ==
  /\ reported + dropped <= lost
  /\ raced \/ reported + dropped = lost

\* A torn sample is not the last word: when nothing is pending and neither task
\* is busy with a sample, what was printed last is the latest sample staged,
\* all of its fields.
AdcSettled ==
  ~pending /\ canPc \notin Field \cup {"pending"} /\ cliPc # "sample" => \A f \in Field : printed[f] = "latest"

\* task_cli.h: what was staged before the request is printed before the task
\* reports that it is complete, unless the last pass used up its budget.
ShutdownDrains ==
  cliPc = "parked" => (owed.can = 0 /\ owed.i2c = 0) \/ budget = 0

\* A pass comes to the I2C lines with budget left for them.
I2cTurn == cliPc = "i2c" /\ budget > 0

\* Frames have their turn before I2C lines, and everything may be staged for
\* ever, so that what may keep a line waiting differs.  Frames that wait are
\* printed, whatever else is staged.  I2C lines that wait are printed unless
\* frames are printed for ever: ADC samples and dropped-frame lines alone do not
\* use up the budget.  And they do not wait unnoticed: a pass without budget for
\* them counts them as suppressed.  (Without its premise the second part fails:
\* with a budget's worth of frames in each pass no I2C line is ever printed.)
WaitingPrinted ==
  /\ []<>(staged = shown \/ cliPc \in {"release", "parked"})
  /\ <>[](cliPc # "release") => []<>(I2cPending = 0 \/ I2cTurn \/ cliPc = "parked")
  /\ []<>(I2cPending = 0 \/ I2cTurn \/ suppressed > 0 \/ cliPc = "parked")
=============================================================================
