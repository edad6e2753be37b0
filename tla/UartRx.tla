------------------------------- MODULE UartRx -------------------------------
(***************************************************************************)
(* The receiving half of the CLI's serial line: DMA1 channel 5 copies every *)
(* byte into a ring, the CLI task drains the ring once a pass into the      *)
(* input FIFO of the embedded CLI and lets the parser empty it              *)
(* (platform/stm32f3xx_uart.cpp, platform/uart_ring_drain.h,                *)
(* cli/cli_setup.cpp, tasks/task_cli.cpp).  Nobody tells the task how often *)
(* the DMA went around.  A byte is its serial number among those the DMA    *)
(* stored.  What the parser does with a byte is not modelled here.          *)
(***************************************************************************)
EXTENDS Integers, Sequences

CONSTANTS
  RingSize,     \* kRxRingSize, 256
  FifoSize,     \* CLI_RX_BUFFER_SIZE, 256: the FIFO holds one byte less
  MaxBytes,     \* bound: bytes the DMA stores
  MaxOverruns   \* bound: overruns of the receiver

\* cli_setup.h: the FIFO is "sized to match kRxRingSize".
ASSUME UartRxAssumption ==
  /\ RingSize \in Nat \ {0, 1} /\ FifoSize \in Nat /\ RingSize <= FifoSize
  /\ MaxBytes \in Nat /\ MaxOverruns \in Nat

VARIABLES
  ring,        \* rx_ring_
  writeIndex,  \* kRxRingSize - CNDTR
  readIndex,   \* rx_read_index_
  upto,        \* write_index of the drain that is running
  fed,         \* all bytes pushed into the FIFO so far, in order
  parsed,      \* how many of them were popped: the FIFO holds the rest
  overflow,    \* CLI_FLAG_OVERFLOW
  ore,         \* USART_ISR_ORE
  overruns,    \* overrun_count_
  requested,   \* cli_shutdown_requested
  final,       \* the pass that runs is the last one
  pc,          \* the CLI task: "drain", "walk", "process", "check", "parked"
  written,     \* history: bytes the DMA stored
  missed,      \* history: unread bytes filled the ring when a drain began or another byte came
  askedAt      \* history: bytes stored when the shutdown was requested

dma == <<ring, writeIndex, written>>
line == <<ore, overruns>>
fifo == <<fed, parsed, overflow>>
shutdown == <<requested, final, askedAt>>
vars == <<dma, readIndex, upto, fifo, line, shutdown, pc, missed>>

Index == 0..RingSize - 1

Init ==
  /\ ring = [i \in Index |-> 0] /\ writeIndex = 0 /\ readIndex = 0 /\ upto = 0
  /\ fed = <<>> /\ parsed = 0 /\ overflow = FALSE
  /\ ore = FALSE /\ overruns = 0
  /\ requested = FALSE /\ final = FALSE
  /\ pc = "drain"
  /\ written = 0 /\ missed = FALSE /\ askedAt = 0

\* Every byte that the ring can hold is unread: the indices are equal again.
Lapping == written - Len(fed) >= RingSize

\* Seeded variant: the index does not wrap.
NextIndexNoWrap(i) == i + 1

\* (i + 1) % ring_size
NextIndex(i) == IF i + 1 = RingSize THEN 0 ELSE i + 1

\* How many bytes a walk from index r to index w takes.
Distance(r, w) == IF r <= w THEN w - r ELSE RingSize - r + w

-----------------------------------------------------------------------------
(* The line, the DMA and the error interrupt *)

\* The receiver gates its data register while ORE stands.
DmaReceive ==
  /\ written < MaxBytes /\ ~ore
  /\ ring' = [ring EXCEPT ![writeIndex] = written + 1]
  /\ writeIndex' = IF writeIndex + 1 = RingSize THEN 0 ELSE writeIndex + 1
  /\ written' = written + 1
  /\ missed' = (missed \/ Lapping)
  /\ UNCHANGED <<readIndex, upto, fifo, line, shutdown, pc>>

Overrun ==
  /\ ~ore /\ overruns < MaxOverruns
  /\ ore' = TRUE
  /\ UNCHANGED <<dma, readIndex, upto, fifo, overruns, shutdown, pc, missed>>

\* HandleErrorIsr; framing, noise and parity flags are cleared without a trace.
HandleErrorIsr ==
  /\ ore
  /\ ore' = FALSE /\ overruns' = overruns + 1
  /\ UNCHANGED <<dma, readIndex, upto, fifo, shutdown, pc, missed>>

-----------------------------------------------------------------------------
(* The CLI task *)

\* DrainRx reads CNDTR once.
DrainRx ==
  /\ pc = "drain"
  /\ upto' = writeIndex
  /\ missed' = (missed \/ Lapping)
  /\ pc' = "walk"
  /\ UNCHANGED <<dma, readIndex, fifo, line, shutdown>>

\* Seeded variant: the byte is read after the index has moved.
ByteReadLate == ring[NextIndex(readIndex)]

Byte == ring[readIndex]

\* embeddedCliReceiveChar: a byte the FIFO refuses raises the overflow flag.
ReceiveChar(byte) ==
  IF Len(fed) - parsed < FifoSize - 1
  THEN fed' = Append(fed, byte) /\ UNCHANGED overflow
  ELSE overflow' = TRUE /\ UNCHANGED fed

\* Seeded variant: the walk follows the DMA instead of stopping at the snapshot.
WalkEndLive == writeIndex

WalkEnd == upto

\* One turn of DrainRingTo's loop.
WalkByte ==
  /\ pc = "walk" /\ readIndex # WalkEnd
  /\ ReceiveChar(Byte)
  /\ readIndex' = NextIndex(readIndex)
  /\ UNCHANGED <<dma, upto, parsed, line, shutdown, pc, missed>>

\* Seeded variant: a latched overrun is left to the interrupt.
RearmNever == UNCHANGED ore

\* "Re-arm RX in the unlikely event ORE latched"; no overrun is counted here.
Rearm == ore' = FALSE

DrainDone ==
  /\ pc = "walk" /\ readIndex = WalkEnd
  /\ Rearm
  /\ pc' = "process"
  /\ UNCHANGED <<dma, readIndex, upto, fifo, overruns, shutdown, missed>>

\* Seeded variant: the last byte stays in the FIFO.
PoppedButLast == IF Len(fed) > parsed THEN Len(fed) - 1 ELSE parsed

\* while (fifoBufAvailable(...)) fifoBufPop(...)
Popped == Len(fed)

\* embeddedCliProcess; it drops the line being typed if the flag is up.
Process ==
  /\ pc = "process"
  /\ parsed' = Popped
  /\ overflow' = FALSE
  /\ pc' = IF final THEN "parked" ELSE "check"
  /\ UNCHANGED <<dma, readIndex, upto, fed, line, shutdown, missed>>

NextPass ==
  /\ pc = "check" /\ ~requested
  /\ pc' = "drain"
  /\ UNCHANGED <<dma, readIndex, upto, fifo, line, shutdown, missed>>

\* Seeded variant: the task parks without a last drain.
FinalPassMissing ==
  /\ pc = "check" /\ requested
  /\ final' = TRUE
  /\ pc' = "parked"
  /\ UNCHANGED <<dma, readIndex, upto, fifo, line, requested, askedAt, missed>>

\* A shutdown was requested: drain and process once more, then park for ever.
FinalPass ==
  /\ pc = "check" /\ requested
  /\ final' = TRUE
  /\ pc' = "drain"
  /\ UNCHANGED <<dma, readIndex, upto, fifo, line, requested, askedAt, missed>>

RequestCliShutdown ==
  /\ ~requested
  /\ requested' = TRUE
  /\ askedAt' = written
  /\ UNCHANGED <<dma, readIndex, upto, fifo, line, final, pc, missed>>

-----------------------------------------------------------------------------

TaskCli == DrainRx \/ WalkByte \/ DrainDone \/ Process \/ NextPass \/ FinalPass

Next == TaskCli \/ DmaReceive \/ Overrun \/ HandleErrorIsr \/ RequestCliShutdown

\* The scheduler runs the task.  Nothing is asked of the error interrupt, which
\* DrainRx does not rely on.
Fairness == WF_vars(TaskCli)

Spec == Init /\ [][Next]_vars /\ Fairness

-----------------------------------------------------------------------------
(* Properties *)

TypeOK ==
  /\ ring \in [Index -> 0..MaxBytes]
  /\ writeIndex \in Index /\ readIndex \in Index /\ upto \in Index
  /\ fed \in Seq(0..MaxBytes) /\ parsed \in 0..Len(fed)
  /\ overflow \in BOOLEAN /\ missed \in BOOLEAN
  /\ ore \in BOOLEAN /\ overruns \in 0..MaxOverruns
  /\ (ore => overruns < MaxOverruns)
  /\ requested \in BOOLEAN /\ final \in BOOLEAN
  /\ pc \in {"drain", "walk", "process", "check", "parked"}
  /\ written \in 0..MaxBytes /\ askedAt \in 0..MaxBytes

\* stm32f3xx_uart.h: DrainRx hands on the bytes "in receive order".  As long as
\* the ring never fills up between two drains, the parser is fed the bytes of
\* the line one by one, none missing, none twice, although the DMA goes on
\* writing during the walk.
BytesInOrder == ~missed => \A i \in 1..Len(fed) : fed[i] = i

\* cli_setup.h: "a full DMA ring can be drained in one pass without dropping
\* bytes at fifoBufPush".  Whatever the DMA does, also when it laps the ring
\* during a walk, one pass feeds no more than the FIFO holds, so a command that
\* is being typed is never discarded by an overflow.
FifoNeverOverflows == ~overflow

\* The last drain of a shutdown: when the task is parked, every byte that had
\* arrived when the shutdown was requested has been parsed.
ShutdownTakesAll == pc = "parked" /\ ~missed => parsed >= askedAt

\* A byte that has arrived is parsed in the end, also when the line then falls silent.
EverythingParsed ==
  \A n \in 1..MaxBytes : written >= n ~> (parsed >= n \/ missed \/ pc = "parked")

\* stm32f3xx_uart.h: DrainRx "clears any latched USART_ISR.ORE so a transient
\* overrun does not permanently silence further RX", without help of the interrupt.
NeverSilenced == ore ~> (~ore \/ pc = "parked")
=============================================================================
