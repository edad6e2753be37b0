----------------------------- MODULE CanTxQueue -----------------------------
(***************************************************************************)
(* The software CAN transmit queue (src/src/can/can_tx_queue.{h,cpp}), the  *)
(* bxCAN mailboxes it feeds, and its two users: the CAN task, which         *)
(* enqueues the frames of a broadcast and drains, and the TX-complete       *)
(* interrupt, which drains too.                                             *)
(*                                                                         *)
(* The interrupt may strike between any two steps of the task, except       *)
(* inside the critical sections of Enqueue and Flush, and it runs to its    *)
(* end.  A frame is its serial number; 0 is a slot never written.  The      *)
(* mailboxes transmit in request order (TransmitFifoPriority is enabled)    *)
(* and a failed transmission is not retried (AutoRetransmission is off).    *)
(*                                                                         *)
(* SetCanMode(kHalted), which the template itself never calls, is called    *)
(* from the CLI task, between any two steps of the CAN task; how long its   *)
(* waits last is the subject of module CanTask.                             *)
(***************************************************************************)
EXTENDS Integers, Sequences, FiniteSets

CONSTANTS
  Capacity,   \* kCapacity: 32 slots, of which 31 can be in use
  NBoxes,     \* 3 transmit mailboxes
  MaxFrames,  \* bound: frames ever built
  MaxRaced,   \* bound: no broadcast beyond these frames once a drain was raced
  MaxHalts    \* bound: calls of SetCanMode(kHalted)

ASSUME CanTxQueueAssumption ==
  /\ Capacity \in Nat /\ Capacity > 1
  /\ NBoxes \in Nat \ {0}
  /\ MaxFrames \in Nat /\ MaxRaced \in Nat /\ MaxHalts \in Nat

VARIABLES
  buf,       \* buf_
  head,      \* head_
  tail,      \* tail_
  pending,   \* mailboxes with a frame to transmit, oldest request first
  done,      \* per mailbox, the completion the interrupt has not seen yet
  onBus,     \* the peripheral has left init mode
  notify,    \* the TX-mailbox-empty interrupt is enabled
  halt,      \* SetCanMode(kHalted): "no", or its next step, "late" if it gave up
  enabled,   \* can_broadcast_enabled
  pc,        \* where the CAN task is in Broadcast()
  slot,      \* the slot its drain is reading
  box,       \* the mailbox HAL_CAN_AddTxMessage selected for it
  oldHead,   \* head_ as its drain read it in order to advance it
  built,     \* frames built so far
  halts,     \* calls of SetCanMode(kHalted) so far
  accepted,  \* history: frames enqueued and not flushed
  loaded,    \* history: frames put into a mailbox
  raced,     \* history: head_ was moved by somebody else inside the task's drain
  failed     \* history: some transmission has failed or was aborted

taskVars == <<pc, slot, box, oldHead>>
hwVars == <<pending, done, onBus, notify, halt>>
vars == <<buf, head, tail, hwVars, enabled, taskVars, built, halts, accepted, loaded, raced, failed>>

Index == 0..Capacity - 1
Box == 1..NBoxes
Frame == 1..MaxFrames

IsEmpty == head = tail
IsFull == (tail + 1) % Capacity = head
Count == (tail - head) % Capacity
At(i) == (head + i) % Capacity

BusyBoxes == {pending[i] : i \in 1..Len(pending)}
FreeBoxes == Box \ BusyBoxes
FirstFree == CHOOSE b \in FreeBoxes : \A c \in FreeBoxes : b <= c

\* The mailboxes the next n requests go to, in order: the lowest free ones.
FirstFreeBoxes(n) ==
  [i \in 1..n |-> CHOOSE b \in FreeBoxes : Cardinality({c \in FreeBoxes : c < b}) = i - 1]

\* Slots from head_ on that the queue still has to hand over: while the task
\* is advancing head_, the slot it has just loaded is not among them.
UnsentFrom == IF pc \in {"readHead", "writeHead"} THEN 1 ELSE 0
Unsent == {buf[At(i)] : i \in UnsentFrom..Count - 1}

Lesser(m, n) == IF m < n THEN m ELSE n

Init ==
  /\ buf = [i \in Index |-> 0]
  /\ head = 0 /\ tail = 0
  /\ pending = <<>>
  /\ done = [b \in Box |-> "none"]
  /\ onBus = FALSE /\ notify = TRUE /\ halt = "no"
  /\ enabled = TRUE
  /\ pc = "idle" /\ slot = 0 /\ box = 1 /\ oldHead = 0
  /\ built = 0 /\ halts = 0
  /\ accepted = {} /\ loaded = {}
  /\ raced = FALSE /\ failed = FALSE

-----------------------------------------------------------------------------
(* The CAN task: CanBroadcast::Broadcast                                    *)

\* The flag is read once; both frames are built before the first Enqueue.
StartBroadcast ==
  /\ pc = "idle"
  /\ enabled
  /\ built + 2 <= MaxFrames /\ (raced => built + 2 <= MaxRaced)
  /\ pc' = "enqueue1"
  /\ UNCHANGED <<buf, head, tail, hwVars, enabled, halts, slot, box, oldHead, built, accepted, loaded, raced, failed>>

\* Seeded variant: no check for a full ring.
EnqueueUnchecked ==
  /\ pc \in {"enqueue1", "enqueue2"}
  /\ pc' = IF pc = "enqueue1" THEN "enqueue2" ELSE "check"
  /\ built' = built + 1
  /\ buf' = [buf EXCEPT ![tail] = built + 1]
  /\ tail' = (tail + 1) % Capacity
  /\ accepted' = accepted \cup {built + 1}
  /\ UNCHANGED <<head, hwVars, enabled, halts, slot, box, oldHead, loaded, raced, failed>>

\* Enqueue, under a critical section: the newest frame is dropped when full.
Enqueue ==
  /\ pc \in {"enqueue1", "enqueue2"}
  /\ pc' = IF pc = "enqueue1" THEN "enqueue2" ELSE "check"
  /\ built' = built + 1
  /\ IF IsFull
     THEN UNCHANGED <<buf, tail, accepted>>
     ELSE /\ buf' = [buf EXCEPT ![tail] = built + 1]
          /\ tail' = (tail + 1) % Capacity
          /\ accepted' = accepted \cup {built + 1}
  /\ UNCHANGED <<head, hwVars, enabled, halts, slot, box, oldHead, loaded, raced, failed>>

\* DrainToMailboxes, the loop condition.
DrainCheck ==
  /\ pc = "check"
  /\ pc' = IF ~IsEmpty /\ FreeBoxes # {} THEN "pick" ELSE "idle"
  /\ UNCHANGED <<buf, head, tail, hwVars, enabled, halts, slot, box, oldHead, built, accepted, loaded, raced, failed>>

\* The slot is bound to head_, and AddTxMessage selects a mailbox from TSR.
DrainPick ==
  /\ pc = "pick"
  /\ slot' = head
  /\ IF FreeBoxes = {}
     THEN pc' = "idle" /\ UNCHANGED box
     ELSE pc' = "fill" /\ box' = FirstFree
  /\ UNCHANGED <<buf, head, tail, hwVars, enabled, halts, oldHead, built, accepted, loaded, raced, failed>>

\* AddTxMessage writes the mailbox and requests transmission.  A mailbox that
\* already has a request ignores the writes; the call succeeds all the same.
DrainFill ==
  /\ pc = "fill"
  /\ pc' = "readHead"
  /\ IF box \in FreeBoxes
     THEN /\ pending' = Append(pending, box)
          /\ done' = [done EXCEPT ![box] = "none"]
          /\ loaded' = loaded \cup {buf[slot]}
     ELSE UNCHANGED <<pending, done, loaded>>
  /\ UNCHANGED <<buf, head, tail, onBus, notify, halt, enabled, halts, slot, box, oldHead, built, accepted, raced, failed>>

\* head_ = (head_ + 1) % kCapacity is a volatile read and a volatile write.
DrainReadHead ==
  /\ pc = "readHead"
  /\ pc' = "writeHead"
  /\ oldHead' = head
  /\ UNCHANGED <<buf, head, tail, hwVars, enabled, halts, slot, box, built, accepted, loaded, raced, failed>>

\* Seeded variant: the index is not wrapped.
DrainWriteHeadNoWrap ==
  /\ pc = "writeHead"
  /\ pc' = "check"
  /\ head' = oldHead + 1
  /\ slot' = 0 /\ box' = 1 /\ oldHead' = 0
  /\ UNCHANGED <<buf, tail, hwVars, enabled, halts, built, accepted, loaded, raced, failed>>

\* ... and the write.
DrainWriteHead ==
  /\ pc = "writeHead"
  /\ pc' = "check"
  /\ head' = (oldHead + 1) % Capacity
  /\ slot' = 0 /\ box' = 1 /\ oldHead' = 0
  /\ UNCHANGED <<buf, tail, hwVars, enabled, halts, built, accepted, loaded, raced, failed>>

TaskStep ==
  Enqueue \/ DrainCheck \/ DrainPick \/ DrainFill \/ DrainReadHead \/ DrainWriteHead

-----------------------------------------------------------------------------
(* The CLI task: `can on|off`, and SetCanMode(kHalted)                      *)

\* `can on` and `can off`.
SetBroadcastEnabled ==
  /\ enabled' = ~enabled
  /\ UNCHANGED <<buf, head, tail, hwVars, taskVars, built, halts, accepted, loaded, raced, failed>>

InDrain == pc \in {"pick", "fill", "readHead", "writeHead"}

\* A call that is not a no-op, up to Flush, which is a critical section.
HaltFlush ==
  /\ halt = "late" \/ (halt = "no" /\ onBus /\ notify)
  /\ halts < MaxHalts /\ halts' = halts + 1
  /\ halt' = "abort"
  /\ head' = 0 /\ tail' = 0
  /\ accepted' = accepted \ Unsent
  /\ raced' = (raced \/ InDrain)
  /\ UNCHANGED <<buf, pending, done, onBus, notify, enabled, taskVars, built, loaded, failed>>

\* ABRQ: what waits in a mailbox is given up; a frame on the wire runs on.
HaltAbort ==
  /\ halt = "abort"
  /\ halt' = "enter"
  /\ \E kept \in {SubSeq(pending, 1, n) : n \in 0..Lesser(1, Len(pending))} :
       LET given == BusyBoxes \ {kept[i] : i \in 1..Len(kept)} IN
         /\ pending' = kept
         /\ done' = [b \in Box |-> IF b \in given THEN "fail" ELSE done[b]]
         /\ failed' = (failed \/ given # {})
  /\ UNCHANGED <<buf, head, tail, onBus, notify, enabled, halts, taskVars, built, accepted, loaded, raced>>

\* EnterInitMode sees the acknowledgement ...
HaltEnters ==
  /\ halt = "enter"
  /\ halt' = "mute"
  /\ onBus' = FALSE
  /\ UNCHANGED <<buf, head, tail, pending, done, notify, enabled, halts, taskVars, built, accepted, loaded, raced, failed>>

\* ... or times out, and leaves the request standing.
HaltTimesOut ==
  /\ halt = "enter"
  /\ halt' = "late"
  /\ UNCHANGED <<buf, head, tail, pending, done, onBus, notify, enabled, halts, taskVars, built, accepted, loaded, raced, failed>>

HaltMutes ==
  /\ halt = "mute"
  /\ halt' = "no"
  /\ notify' = FALSE
  /\ UNCHANGED <<buf, head, tail, pending, done, onBus, enabled, halts, taskVars, built, accepted, loaded, raced, failed>>

HaltStep == HaltAbort \/ HaltEnters \/ HaltTimesOut \/ HaltMutes

-----------------------------------------------------------------------------
(* The peripheral and its interrupt                                         *)

\* Init mode is left once the bus is free (bus.cpp, ExitInitMode) ...
JoinBus ==
  /\ ~onBus /\ halt = "no"
  /\ onBus' = TRUE
  /\ UNCHANGED <<buf, head, tail, pending, done, notify, halt, enabled, halts, taskVars, built, accepted, loaded, raced, failed>>

\* ... and SetCanMode(kRunning), at the start of the next iteration, activates
\* the interrupt again.
Activate ==
  /\ onBus /\ ~notify /\ halt = "no" /\ pc = "idle"
  /\ notify' = TRUE
  /\ UNCHANGED <<buf, head, tail, pending, done, onBus, halt, enabled, halts, taskVars, built, accepted, loaded, raced, failed>>

\* A refused halt may be acknowledged late: the bus is left all the same.
LateEntry ==
  /\ onBus /\ halt = "late"
  /\ onBus' = FALSE
  /\ UNCHANGED <<buf, head, tail, pending, done, notify, halt, enabled, halts, taskVars, built, accepted, loaded, raced, failed>>

EndTransmission(result) ==
  /\ onBus
  /\ pending # <<>>
  /\ pending' = Tail(pending)
  /\ done' = [done EXCEPT ![Head(pending)] = result]
  /\ UNCHANGED <<buf, head, tail, onBus, notify, halt, enabled, halts, taskVars, built, accepted, loaded, raced>>

TransmissionSucceeds == EndTransmission("ok") /\ UNCHANGED failed
TransmissionFails == EndTransmission("fail") /\ failed' = TRUE

\* Seeded variant: the drain takes the slot after head_.
DrainFromIsrOffByOne ==
  LET n == Lesser(Count, Cardinality(FreeBoxes)) IN
  /\ pending' = pending \o FirstFreeBoxes(n)
  /\ head' = At(n)
  /\ loaded' = loaded \cup {buf[At(i)] : i \in 1..n}
  /\ raced' = (raced \/ (n > 0 /\ InDrain))

\* Seeded variant: the TX-complete callback does nothing.
DrainFromIsrMissing == UNCHANGED <<pending, head, loaded, raced>>

\* DrainToMailboxes from the interrupt: the whole loop at once.
DrainFromIsr ==
  LET n == Lesser(Count, Cardinality(FreeBoxes)) IN
  /\ pending' = pending \o FirstFreeBoxes(n)
  /\ head' = At(n)
  /\ loaded' = loaded \cup {buf[At(i)] : i \in 0..n - 1}
  /\ raced' = (raced \/ (n > 0 /\ InDrain))

\* HAL_CAN_IRQHandler: acknowledge every completed mailbox; only a successful
\* transmission has a callback that drains.
TxInterrupt ==
  /\ notify
  /\ \E b \in Box : done[b] # "none"
  /\ done' = [b \in Box |-> "none"]
  /\ IF \E b \in Box : done[b] = "ok"
     THEN DrainFromIsr
     ELSE UNCHANGED <<pending, head, loaded, raced>>
  /\ UNCHANGED <<buf, tail, onBus, notify, halt, enabled, halts, taskVars, built, accepted, failed>>

Next ==
  \/ StartBroadcast
  \/ TaskStep
  \/ SetBroadcastEnabled
  \/ HaltFlush \/ HaltStep
  \/ JoinBus \/ Activate \/ LateEntry
  \/ TransmissionSucceeds
  \/ TransmissionFails
  \/ TxInterrupt

\* The scheduler runs the task, the NVIC the interrupt, and a peripheral that
\* is on the bus ends each transmission.  Nothing says when a stuck bus frees.
Fairness ==
  /\ WF_vars(TaskStep) /\ WF_vars(Activate) /\ WF_vars(HaltStep)
  /\ WF_vars(TransmissionSucceeds \/ TransmissionFails)
  /\ WF_vars(TxInterrupt)

Spec == Init /\ [][Next]_vars /\ Fairness

-----------------------------------------------------------------------------
(* Properties *)

TypeOK ==
  /\ buf \in [Index -> Frame \cup {0}]
  /\ head \in Index /\ tail \in Index
  /\ pending \in Seq(Box) /\ Len(pending) = Cardinality(BusyBoxes)
  /\ done \in [Box -> {"none", "ok", "fail"}]
  /\ {onBus, notify, enabled, raced, failed} \subseteq BOOLEAN
  /\ halt \in {"no", "abort", "enter", "mute", "late"}
  /\ pc \in {"idle", "enqueue1", "enqueue2", "check", "pick", "fill", "readHead", "writeHead"}
  /\ slot \in Index /\ box \in Box /\ oldHead \in Index
  /\ built \in 0..MaxFrames /\ halts \in 0..MaxHalts
  /\ accepted \subseteq Frame /\ loaded \subseteq Frame \cup {0}

\* Unless somebody moved head_ inside the task's drain: every accepted
\* frame is either in a mailbox (or has been) or waits in the ring, never
\* both and never neither, and no frame is handed over that was not accepted.
FramesConserved ==
  ~raced => accepted \ loaded = Unsent /\ loaded \cap Unsent = {} /\ loaded \subseteq 1..built

\* Unless so raced: frames reach the mailboxes in the order they were built.
InOrder ==
  [][~raced' => \A f \in loaded' \ loaded : \A g \in loaded : g < f]_vars

\* On the bus, the queue drains by itself after a broadcast: each successful
\* transmission makes room for the next frame.  (A failed one does not: then
\* the frames wait for the next broadcast.)
QueueEmpties ==
  ~IsEmpty ~> (IsEmpty \/ raced \/ failed \/ ~onBus)

\* can_tx_queue.h says of DrainToMailboxes "Safe to call from both task context
\* (initial kick after Enqueue) and ISR context (TX-complete callback)": then,
\* with no drain in progress, the ring holds only frames not yet handed over.
\* False: the drain is not protected against the interrupt.
DrainSafeFromBothContexts ==
  pc = "idle" => loaded \cap Unsent = {}
=============================================================================
