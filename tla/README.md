# Formal models of the STM32F373 firmware template

TLA+ models of the firmware in `src/` (C++ on FreeRTOS), the TLC configurations
that check them on small instances, and theorems about them that TLAPS checks
for every value of the constants. Paths below are relative to the repository;
the application is `src/src/`.

- [The system](#the-system)
- [Modules](#modules)
- [Runs, bounds and what they show](#runs-bounds-and-what-they-show)
- [Fairness](#fairness)
- [What is proved](#what-is-proved)
- [Only model-checked, not modelled](#only-model-checked-not-modelled)
- [Disagreements between the code and its documents](#disagreements-between-the-code-and-its-documents)
- [What could come next](#what-could-come-next)

## The system

Two FreeRTOS tasks of equal priority, preemptive and time-sliced, run over a
handful of drivers; interrupts are the only other actors.

| part | state it keeps | operations | talks to |
|---|---|---|---|
| CLI task (`tasks/task_cli.cpp`, 50 ms) | statistics, reset flag, shutdown flags | drain UART, process commands, print debug lines, shut down | everything, through commands |
| CAN task (`tasks/task_can.cpp`, 100 ms) | `next_broadcast_tick`, latest die temperature, statistics | re-assert bus mode, sample and broadcast each second | bus mode, ADC, CAN queue, debug staging |
| Settings (`nvm/`) | RAM record, active slot; two flash pages | `Init`, `Get`, `Mutate`, `BeginEdit`/`~Edit`, `Write` | CLI task (`nvm set`, `save`), `main` before the scheduler |
| CAN transmit queue (`can/can_tx_queue.cpp`) | ring of 32 frames, head, tail | `Enqueue` (task), `DrainToMailboxes` (task **and** TX-complete interrupt), `Flush` | three bxCAN mailboxes |
| Bus mode (`can/bus.cpp`) | `can_mode`, MCR.INRQ, MSR.INAK | `SetCanMode` with bounded waits | CAN peripheral; called from the CAN task each iteration |
| Broadcaster (`can/can_broadcast.cpp`, `can_cli.cpp`) | gate flag | build two frames, enqueue them, kick the drain | CAN queue, debug staging |
| Task statistics (`tasks/task_stats.h`, `cli/cli_status.cpp`) | count, min, max, fixed-point mean, misses | `RecordTick`, `Reset`, getters | written by its task, read and reset from the CLI |
| Debug streamers (`can/debug_can.cpp`, `driver/adc1/debug_adc1.cpp`, `driver/i2c2/debug_i2c2.cpp`, `cli/cli_debug.cpp`) | staging rings, drop and suppression counts, flags | stage (tasks, RX interrupt), print with a budget of 8 lines | CLI task |
| UART (`platform/stm32f3xx_uart.cpp`, `cli/cli_setup.cpp`) | DMA ring of 256 bytes, read index, overrun count | drain, blocking write, error interrupt | DMA, embedded CLI's input FIFO |
| Embedded CLI (`lib/embedded-cli`) | FIFO, command line and cursor, 32-byte history, bindings | receive, process, print, navigate history, complete | UART, commands |
| I2C and ADG728 (`driver/i2c2`, `driver/adg728`) | shadow of the switch register | set, get, reset, scan | I2C peripheral |
| ADC1, SPI, ADS131M0x, filters, platform | little or none | sequential register access, arithmetic | hardware |

What is hard in it, and cannot be reached by the unit tests one would write:

- **power loss** at any halfword of a settings write, refused or silently failed
  flash operations, and whatever mix of failed and successful saves preceded;
- the **TX-complete interrupt** against the CAN task inside the drain of the
  transmit ring; a ring at its limit; completions that come late or not at all;
- a CAN peripheral that **answers a mode request late**, on a bus that may be
  stuck, while retries go on;
- **wrapping ticks** compared with `>=` and `>`;
- **flags raised between two steps** of the task that acts on them;
- fixed-point arithmetic that truncates in every step.

What makes each part correct: a save is atomic and its report true (settings);
every accepted frame is handed over once and in order, and the ring drains by
itself (queue); `can_mode` agrees with the peripheral, and a freed bus is joined
(mode); broadcasts are a period apart, neither earlier nor later (CAN task); no
request is lost and the printed figures agree with each other (statistics);
staged lines are printed once or counted as dropped, and nothing is lost at
shutdown (debug); bytes reach the parser in order or are counted (UART); cursor
and line stay consistent (CLI); the shadow equals the chip (ADG728). The complete
list of hazards, each at its line, is in `PROJECT.json`.

## Modules

| module | models | state and actions in the code |
|---|---|---|
| `SettingsStore` | what `nvm.h` promises: one durable setting, atomic saves | abstract specification, no flash and no slots |
| `Nvm` | `nvm/nvm.{h,cpp}`, its callers, the flash, power loss | `flash` = the pages as halfwords; `storage`, `active` = `storage_`, `active_slot_`; `phase`, `cell` = where `Write()` is |
| `NvmProofs` | theorems about `Nvm`, the refinement of `SettingsStore` among them | |
| `CanTxQueue` | `can_tx_queue.{h,cpp}`, `CanBroadcast::Broadcast`, the halt part of `SetCanMode`, the mailboxes, the interrupt | `buf`, `head`, `tail` as in the code; `pc`, `slot`, `box`, `oldHead` = the task inside the drain; `pending`, `done` = TSR |
| `CanTask` | the loop of `task_can.cpp`, `bus.cpp` | `nextBroadcast`, `mode`; `inrq`, `inak` = MCR.INRQ, MSR.INAK; `deadline`, `limit` = the two bounded waits |
| `CanTxQueueProofs`, `CanTaskProofs` | theorems about these two | |
| `TaskStats` | `task_stats.h`, the reset flag of both tasks, `status` | one variable per field |
| `TaskStatsProofs` | theorems about `TaskStats` | |
| `UartRx` | `stm32f3xx_uart.cpp` (reception), `uart_ring_drain.h`, FIFO of `embedded_cli.cpp`, `task_cli.cpp` (loop, shutdown) | `ring`, `readIndex` = `rx_ring_`, `rx_read_index_`; `writeIndex` = 256 - CNDTR; `upto` = the snapshot of it that a drain walks to; `fed`, `parsed` = what went into and came out of the FIFO |
| `UartRxProofs` | theorems about `UartRx` | |
| `DebugStage` | `debug_can.cpp`, `debug_adc1.cpp`, `debug_i2c2.cpp`, `debug_stage.h`, `cli_debug.cpp`, the output side of a shutdown in `task_cli.cpp` | `ring`, `head`, `tail`, `dropped`, `pending`, `adc` as in the code; `canPc`, `cliPc` = where the two tasks are; `seen`, `entry` = the printer's local copies; `budget`, `suppressed` = `cli_debug.cpp`'s |
| `DebugStageProofs` | theorems about `DebugStage` | |
| `CliHistory` | the history buffer of `embedded_cli.cpp` | operators on a record of bytes, count and current item; `Remember` = what a user expects of them |
| `CliEditor` | `embeddedCliProcess` and all it calls, `embeddedCliPrint`, `cli_simple.cpp` | `ed` = the line, cursor, lengths and flags, with the terminal's row; `history` |
| `CliEditorProofs` | theorems about `CliEditor` and `CliHistory` | |
| `AdgMux` | `adg728.cpp`, the transactions of `i2c_stm32.cpp`, `cli_i2c.cpp` | `shadow` = `shadow_`; `register` = the chip's; `owner`, `transfer` = the handle's state; `scan` = the loop's address |
| `AdgMuxProofs` | theorems about `AdgMux` | |
| `MC*` | instances for TLC | constants are in the `.cfg` files |

Some decisions that a reader of the code may ask about:

- **Nvm.** A record is three 32-bit words, six halfwords, magic last, written one
  by one. A halfword carries the value of the word it is half of, so that a
  partly programmed or torn word is *not* that value: an incomplete magic is
  invalid, an incomplete sequence reads all ones. `BeginWrite` is `Write()` up to
  the erase and includes the bump of `nvm_sequence` in RAM, which a failing
  `Write()` does not undo. `Init()` of a first boot is followed by the whole
  `Write()` it calls, step by step. The flash HAL's waits are reduced to their result.
- **CanTxQueue.** The interrupt is one step, since nothing preempts it but the
  UART error interrupt, which touches none of this; the task's drain is one step
  per access to shared state, and the increment of the volatile `head_` is a read
  and a write. Encoding of frames is left out: a frame is its serial number.
  `SetCanMode(kHalted)` is modelled although nothing in the template calls it,
  because it is the module's public interface.
- **CanTask.** Task steps take no time; time passes in `Tick`, during sleeps,
  during the bounded waits and, at most `MaxWork` ticks per iteration, anywhere
  else. The kernel tick and the HAL tick differ by a constant and both wrap.
- **TaskStats.** The fields are updated in one step, because their only other
  reader, `status`, changes nothing; its display race is one of the hazards in `PROJECT.json`.
- **UartRx.** The drain is one step per byte, because the DMA writes meanwhile. The
  parser's work on the FIFO is one step: nobody else touches the FIFO. A byte is
  its serial number, so that losing, repeating and reordering show. As the source's
  comments have it, a receiver with ORE set stores nothing. Whether CNDTR can be
  read as 0 is not known from the source; the model has it reload at once.
  `RequestCliShutdown` is modelled as a public operation, though the template
  does not call it yet.

- **DebugStage.** The two tasks interleave at every access to what they share, the
  receive interrupt is one step. A frame and an I2C line are serial numbers; of a
  field of an ADC sample it is known whether it is the latest sample's; the five debug
  flags are one, the two values of an ADC sample are written as one, and a local
  variable that has gone out of scope reads 0. `Renumber` is no code: it lets serial
  numbers and counts that have reached their bounds begin again, so that frames, drops,
  samples and I2C lines may come for ever and the question what can be kept
  waiting is a real one. `I2cTransaction` into a full ring changes nothing, as in the
  code, which drops the line without a count. The rate command is left out: it sets
  a period that nothing reads.
- **CliEditor.** One step is one character, or one line printed in between by
  something else. The terminal is the row the cursor is in, and does what the
  escape sequences say: insert, delete, move, erase. What commands do is reduced
  to switching autocompletion (`simple`), the only effect on the editor. The
  discarding after an overflow of the FIFO is left out, since `FifoSuffices` shows
  that there is no overflow.
- **AdgMux.** A transaction may fail before or after the chip took the byte, and is
  refused at once when the other task's is under way, as the HAL's lock and state
  have it. A reset of the processor clears the shadows and leaves the chips as
  they are. The template compiles the driver without instantiating it; one task
  is taken to own its objects, since they have no lock.

Definitions commented *Seeded variant* are plausible mistakes. They are not used by
the specifications: putting one in the place of the definition after it makes
the property listed with it in `PROJECT.json` fail, which shows that the run
could have caught it.

## Runs, bounds and what they show

| run | states | properties | bounds |
|---|---|---|---|
| `nvm` | 197 k | `TypeOK`, `ValidSlotIsWhole`, `ActiveIsNewest`, `OtherSlotIntact`, `ImplementsStore` | 2 settings, 3 calls of `Write()`, counter modulo 8, all flash faults |
| `nvm_verify_failure` | small | `FailedSaveChangesNothing` fails | 2 writes, silent faults only |
| `can_tx_queue` | 1.6 M | `TypeOK`, `FramesConserved`, `InOrder`, `QueueEmpties` | ring of 3 slots (2 usable), 2 mailboxes, 6 frames, 1 halt; no new broadcast beyond 2 frames after a race |
| `can_tx_drain_race` | small | `DrainSafeFromBothContexts` fails | ring of 4 slots, 2 mailboxes, 4 frames |
| `can_task` | 564 k | `TypeOK`, `RunningIsRunning`, `NeverLate`, `NeverEarly`, `BusIsJoined` | tick modulo 24, task period 2, broadcast period 5, timeout 1, 1 tick of delay per iteration |
| `can_task_wrap` | small | `OneHertz` fails | the same |
| `task_stats` | 9 k | `TypeOK`, `MeanInRange`, `ResetHonoured`, `MissesCounted` | durations 0..4, target 2, counting to 3 |
| `task_stats_mean` | small | `MeanSettles` fails | durations 0..2 |
| `uart_rx` | 243 k | `TypeOK`, `BytesInOrder`, `FifoNeverOverflows`, `ShutdownTakesAll`, `EverythingParsed`, `NeverSilenced` | ring and FIFO of 4, 10 bytes, 2 counted overruns |
| `debug_stage` | 2.0 M | `TypeOK`, `FramesConserved`, `DropsAccounted`, `AdcSettled`, `ShutdownDrains`, `WaitingPrinted` | CAN ring of 3 (2 usable), I2C ring of 2 (1 usable), budget 3, 1 frame per broadcast, serial numbers to 3 for frames and 1 for I2C lines, 2 drops, all of them reused; samples without bound |
| `cli_editor` | 729 k | `TypeOK`, `SizesAgree`, `ScreenShowsLine`, `HistoryIsRecent`, `CompletionIsCommon` | history of 4 bytes, line buffer of 6 (4 characters), 4 names over two letters |
| `i2c_mux` | 356 k | `TypeOK`, `ShadowInStep`, `OthersKept`, `SuccessIsTrue`, `ScanEnds` | 2 chips, 2 channels, 3 addresses, a scan of 2 |

Why the bounds are enough:

- Three writes reach the states that matter for the slots: both valid, either of
  them the active one, a write on top of any outcome of the previous one. (The
  theorems remove the bound.) `nvm` disables deadlock checking because the part
  is worn out after `MaxWrites` writes; the flash of the code is worn out after 10 000.
- Six frames and four places (ring and mailboxes) fill everything, drop a frame
  and wrap the ring. The limit after a race only cuts off states every property
  but `TypeOK` excuses. Broadcasts are two frames each, as in the code.
- In `can_task` the ratios of the code are kept in order (timeout < task period
  < broadcast period), and the tick wraps after a few broadcasts, so every
  alignment of the wrap with a due tick occurs.
- `task_stats` counts only to 3, since all that is said of `count` is whether it
  is zero and how it compares with `misses`; the moving average runs over its
  whole range, 0..64.
- Ten bytes go round the ring of `uart_rx` twice and a half, so that a drain meets every
  alignment of the two indices, and laps before, between and during drains. Ring and
  FIFO have the same size, as in the code, which is the tightest that works. The
  task parks for ever after a shutdown, hence no deadlock check.
- Three frames wrap the staging ring of `debug_stage` and fill it, two drops are one
  reported and one that races with the report. Numbers and counts are reused, so the bounds end no
  traffic: more frames than the budget may come in every pass. A budget of 3 is the
  smallest that lets a frame through in every pass (a sample and a dropped-frame line may come
  before the first frame). The task parks after a shutdown, hence no
  deadlock check.
- The history of `cli_editor` holds two one-letter commands, or one of up to three
  letters; one of four, the longest the line takes, does not fit. So items are
  dropped, moved, removed from the middle and refused. The names share prefixes of
  different lengths, one is a prefix of another, and they are not in order.
- In `i2c_mux` one chip lies inside the scanned range and one outside, so that a scan or
  probe meets both a device and an empty address, between any two steps of the driver.

What the passing properties say is stated at their definitions. In short:
the settings survive anything but flash that misbehaves silently; frames are
conserved and ordered unless somebody moves `head_` inside the task's drain, and
the ring drains by itself on a working bus; before a tick nears its wrap,
broadcasts are paced, and a freed bus is always joined; the statistics agree
with each other and no reset is lost; received bytes reach the parser one by one
and in order as long as the ring does not fill up between two drains, and the FIFO
never overflows in any case; staged frames are printed once and in order, dropped
ones counted but for those dropped while the count is being printed, a torn ADC
sample is corrected by the next pass; however much is staged, frames that wait are printed, while I2C lines
are kept waiting by a stream of frames, by nothing else, and not uncounted; what stands in the
terminal's row is what Enter will execute, with what all candidates for its completion have in
common, and the history holds the most recent
commands that fit; the shadow register equals the chip as long as nothing failed
and nobody else wrote.

## Fairness

- `CanTxQueue`: weak fairness of the task's steps inside a broadcast (the
  scheduler is time-sliced and nobody of higher priority runs for ever), of the
  interrupt (the NVIC runs it as long as it is enabled and pending), of the end
  of a transmission on a live bus (bxCAN ends each attempt, since retransmission is
  off), and of a halt that has begun. None for `JoinBus` (a bus can be stuck for
  ever), for starting a broadcast (the gate may be off) or for halting.
- `CanTask`: weak fairness of the task, of a halt that has begun, of time, and of
  the peripheral's answer while the bus is free. None for the bus becoming free:
  `BusIsJoined` assumes it in its premise.
- `TaskStats`: weak fairness of the task.
- `UartRx`: weak fairness of the task, none for the error interrupt (a drain has to do
  without it) nor for the DMA (the line may fall silent).
- `DebugStage`: weak fairness of the CLI task; none for what stages lines, which may go on
  for ever or stop at any point. `WaitingPrinted` has the end of the stream of frames as the premise
  of its second part. It is false without: TLC then shows pass after pass in
  which frames use up the budget and an I2C line waits.
- `AdgMux` (`FairSpec`): a transaction ends, since `i2c_stm32.cpp` bounds each by
  `kTimeoutMsec`, and the scan loop goes on. None for the application.
- `CliEditor` states no liveness: each character is handled at once.
- `Nvm` states no liveness: a part may lose power in every boot.

## What is proved

From `NvmAssumption` (the settings, magic words, erased and garbage values are
distinct; the number of writes stays below the range of the counter):

- `TypeCorrect`, and `OtherSlotStaysIntact` from it: whatever the flash does,
  including torn erases and silent failures, no step touches the active slot.
  The argument is that only steps with `phase` in a write touch flash, that they
  touch `Target`, and `Target # active`.
- `Inductive`, the invariant `IInv` behind the rest: `TypeOK`, and, as long as
  the flash has not misbehaved silently, `Sound`. `ActiveIsNewest` is not
  inductive by itself. A failed verification leaves a valid record in the slot
  that is not active; the invariant has to say that its sequence is smaller than
  the RAM record's (so the next bump passes it), that valid slots have distinct
  sequences, that the target holds exactly the prefix of the RAM record already
  programmed, and that sequences are bounded by the number of writes (so they do
  not wrap).
- `ValidSlotsAreWhole`, `BootFindsActive`: the two invariants of the run, from `IInv`.
- `NvmImplementsStore`: `Spec => Store!StoreSpec` under
  the mapping that reads the durable setting off the slot a boot would choose.
  Every step maps to a step of the store or to a stutter; the last halfword of
  the magic is where a save takes effect.

From `TaskStatsAssumption` (16 times the longest duration fits the word):

- `StatsTypeCorrect` (no overflow of the scaled mean), `MeanStaysInRange`,
  `MissesAreCounted`, `ResetIsHonoured`. The inductive invariant brackets the
  scaled mean between 16 times the minimum and 16 times the maximum plus what
  truncation can add, relates misses to the maximum, and says where a raised
  flag leaves the count of stale iterations.

From `UartRxAssumption` (the ring has at least two cells, the FIFO is no smaller
than the ring):

- `UartTypeCorrect` and `FifoSuffices`. The second holds whatever the DMA does: the
  walk goes to a snapshot, so what the FIFO holds and what is left of the walk
  together stay below the size of the ring. This is `FifoBound`.
- `UartKeepsOrder`, from the invariant `Ordered`. `BytesInOrder` speaks of bytes
  already handed on; to be inductive it needs `Window`: the unread bytes lie in order
  between the two indices, which are as far apart as there are unread bytes, and the
  walk that runs ends inside. Indices are compared by `Distance` and `At`, without
  division, and their arithmetic is a lemma each.
- `UartShutdownTakesAll`, from `Ordered` and `LastPass`, which says what the last
  pass has taken and is still to take.

From `CanTxQueueAssumption` (at least two slots and one mailbox):

- `QueueTypeCorrect`. That the mailboxes in use are distinct (`Distinct`) needs a proof
  about which ones a drain from the interrupt takes: the lowest free ones, by rank,
  which is a counting argument over finite sets (`RankTaken`).
- `QueueConservesFrames` and `QueueKeepsOrder`, from `QueueInv`: unless raced, the ring
  holds frames in ascending order; those the drains have yet to hand over are just
  the ones accepted and not loaded, and younger than all loaded ones (`Queued`);
  and what the task's drain has read is still true when it uses it (`Draining`).
  `HandsOver` and `MovesOn` are the two halves of a drain, stated once for both. The
  arithmetic modulo the capacity is reduced to `Cell` and `Gap`, without division.

From `CanTaskAssumption` (a task period and bounded wait shorter than the broadcast
period, ticks wide enough for the periods and for the lead of the HAL's tick):

- `CanTaskTypeCorrect`, and `ModeIsTrue` from `Modes`: a wait for the exit of init mode
  goes on only in mode halted with the request withdrawn.
- `BroadcastsInTime` and `BroadcastsApart`, from `Paced`: before the wrap, the due tick is a
  period after the last broadcast, and how late it can be found due is bounded at
  each point of the loop by the sleep, the ticks lost and the wait's deadline.

From `DebugStageAssumption` (rings of at least two cells, a budget of at least 3):

- `DebugTypeCorrect`, whose strengthening `BudgetLeft` says at each point of a pass how
  much of the budget is left at least, so that no source takes it below zero.
- `DebugFramesConserved` and `DebugDropsAccounted` (`DropCount`: between reading and reset
  the printer's copy and the count differ by what was dropped meanwhile).
- `DebugAdcSettles` (`SampleSettles`): a field that is stale is yet to be read, or the
  pending flag is up or about to be raised.
- `DebugShutdownDrains` (`LastPass`).

From `MuxAssumption` (devices and scanned range are addresses):

- `MuxTypeCorrect`, `MuxShadowInStep`, `MuxOthersKept`, `MuxSuccessIsTrue`. What makes
  `ShadowInStep` inductive is what a transaction under way knows: the shadow already
  equals its data, and its data differ from the chip's register, if the driver is
  sure of it, in its own channel only (`AppTransfer`, `CliTransfer`, `SwitchesOne`).

From `HistoryAssumption` (the buffer has at least one byte) and `EditorAssumption` (the
line buffer has room for its two reserved characters and is no longer than a line of the
terminal; NUL is no letter; each name, its space and the reserved characters fit the
buffer, since `Expand` does not check), for every prompt, every list of names and every alphabet:

- `EditorInductive`, the invariant `IInv` behind the rest, which TLC also finds to hold in
  the states of `cli_editor`. None of the run's properties is inductive. `ScreenShowsLine`
  says nothing of a step inside which the offer is stale: `Painted` says of the row what
  holds before the live completion is printed too, that it shows the prompt and the line
  and is blank from `Extent` on, the length of what was last written
  (`inputLineLength`, but the line's size while autocompletion is off, since backspace
  then does not shorten `inputLineLength`). `Lined` ties the three lengths and the
  column to the line; `Offered` adds the completion. Each operation has a lemma that
  takes `Lined` to `Lined` (`CharInputIsLined`, `BackspaceIsLined`, `ReplaceIsLined`,
  `RequestFacts`, ...), and one lemma, `LiveFacts`, restores `Offered` after all of them.
- `HistoryDecodes`. `HistoryIsRecent` is about decoded items; `Holds` is about the bytes:
  the n-th command lies at `Bytes(commands, n - 1)`, ended by a NUL, and what lies
  behind the last is anything. `Decode` shows that searching for NULs finds the items there,
  `RemoveKeepsHolding` and `PutKeepsHolding` that the two `memmove`s keep it so,
  whatever the lengths of the commands, and that as many are kept as fit.
- `CompletionIsSafe`, from `CompletionIsLongest`: narrowing one length against the first
  candidate, binding after binding, ends with the longest common prefix of all.
- `CliEditorTypes`, `LengthsAgree`, `TerminalShowsLine`, from `IInv`.

Induction over data, which these need (sums over commands, a fold over bindings), is done
without the library's induction theorems, whose operator parameter no installed prover
can instantiate: `SetInduction` states induction for a set of numbers, derived from
the well-foundedness of `<`, and each lemma gives the set. `RecursionExists` derives in the
same way that a function defined by recursion on 0..N exists, so that `LengthAfter`
may be unfolded (`LengthAfterStep`).

## Only model-checked, not modelled

Model-checked only: liveness, which TLAPS does not reach (`QueueEmpties`, `BusIsJoined`,
`EverythingParsed`, `NeverSilenced`, `WaitingPrinted`, `ScanEnds`). Every invariant, action
property and refinement of the passing runs is also proved. `MaxLineLength` is a bound
of the model, not the code's: with autocompletion off the code's `inputLineLength` grows
with every character typed and erased, has 16 bits and no check, and once it is longer than the
terminal is wide, `clearCurrentLine` writes blanks into the next row. `LengthBound` in `CharInput` stops before
that, and the row is as wide as the bound, so `ScreenShowsLine` and its theorem say nothing
of a row that wraps.

Not modelled:

- transmission over the UART, which polls registers and keeps no state; `WriteRead` of the
  I2C driver, which nothing calls; what commands print and how their arguments are
  split; the initialisation of the peripherals, straight-line register writes;
- ADC1, SPI and ADS131M0x: sequential register access that keeps next to no state; a
  failing ADC conversion returns 0, which is listed as a hazard. ADS131M0x is not
  instantiated;
- filters, platform, pins, startup: floating-point arithmetic, or run once;
- FreeRTOS, CMSIS and the ST HAL are vendored. The scheduler appears as fairness
  and interleaving, the HAL calls as what they do to the state that is modelled.
  They are also nearly all of the source lines: of some 169 000, the application,
  its drivers and the CLI library have about 10 000, so that the share of lines that is modelled
  looks small however much of the application is.
- Contents of frames, printed text, the encoding of versions and temperatures.

## Disagreements between the code and its documents

- `nvm_verify_failure`: `src/doc/requirements.md:68` has every write verified
  before it is promoted, but a slot that failed verification is promoted by the
  next boot, since its magic is valid and its sequence the higher one.
- `can_tx_drain_race`: `can_tx_queue.h:65` calls the drain safe from task and
  interrupt. The task's drain can be interrupted by another drain; a frame is then
  sent twice, and when `head_` passes `tail_`, the whole stale ring is resent.
- `can_task_wrap`: `src/doc/requirements.md:94` promises a sample each second; a due tick
  just below 2^32 that no iteration hits stops sampling and broadcasting for 49.7 days.
- `task_stats_mean`: `task_stats.h:54` promises a rounded mean; truncation holds
  it a millisecond too high after a single longer iteration.
- Without a run: `main.h:33` says the sequence is bumped on every *successful*
  `Write()`; it is bumped on failing ones too. `bus.h:38` calls the exit of init mode
  bounded; with a deadline of 0xFFFFFFFF and a stuck bus it is not. `bus.h:15` says
  that kHalted means init mode; after an exit that timed out the request to leave
  stands, and the peripheral joins while the mode still reads kHalted. `stm32f3xx_uart.h:26`
  speaks of a 512-byte ring; it has 256 bytes. `stm32f3xx_uart.h:40` has the drain hand on
  all bytes captured since the last call; of a whole lap of the ring (22 ms of a busy
  line, against a period of 50 ms) it hands on none, and nothing counts them.
- `debug_can.cpp:132` prints how many frames were dropped; those dropped between reading
  the count and zeroing it are in no line.
- `task_cli.h:40` has everything queued before a shutdown request reach the UART; two
  passes of 8 lines may leave lines behind. `task_cli.cpp:79` says lines are queued and
  pushed by a second `embeddedCliProcess()`; they are written before `cli_printf` returns.
- `cli_debug.cpp:87` calls lines suppressed that are only put off, and counts one again
  in each cycle it waits; CAN frames that wait are not counted.
- `debug_registry.h:12` has lines accounted for that are suppressed when the budget is exhausted. CAN frames
  are printed before I2C lines (`cli_debug.cpp:58`): while 8 frames come in each pass no I2C
  line is printed, and once 15 wait, `debug_i2c2.cpp:33` drops all others without a count.
- `embedded_cli.cpp:327` has the live completion printed "only if autocompletion is present
  and only one candidate exists". It is printed for several too: the row then shows what they have
  in common. `ScreenShowsLine` states what the code does.
- `embedded_cli.cpp:171` says `inputLineLength` is the length of the input line; backspace
  does not shorten it while autocompletion is off. `embedded_cli.cpp:844` takes `\r\n` for
  one line end; of `\r\n\r\n` three characters are ignored, so two line ends are one.
- `adg728.h:70` has the shadow updated on every successful write; it is updated before
  the write and keeps the value when the write fails. `cli_i2c.cpp:49` calls a probe of an
  ADG728 a safe no-op; it opens all switches behind the driver's back.
- `ads131m0x_spi.h:204`: the CRC runs over the cleared short-frame buffer, not over
  the received frame, and its result is ignored.

## What could come next

The modules planned at the start are written, checked and proved. What would add to them:

1. `CanTxQueue` and `CanTask` share `SetCanMode(kHalted)`, split between them at `Flush`;
   composing the two would let a halt's waits meet every step of a drain.
2. The four faces of the CLI task (`TaskStats`, `UartRx`, `DebugStage`, `CliEditor`) in one
   loop: today each module has the part of the loop that touches its state.
3. An abstract bounded queue that `CanTxQueue` implements as long as it is not raced.
