----------------------------- MODULE TaskStats -----------------------------
(***************************************************************************)
(* The loop statistics of a task (src/src/tasks/task_stats.h), as the loops *)
(* of task_can.cpp and task_cli.cpp keep them: the task alone writes them;  *)
(* `status reset` only raises a flag, which the task looks at once an       *)
(* iteration.  The flag may be raised between any two steps of the task.    *)
(***************************************************************************)
EXTENDS Integers

CONSTANTS
  WordMax,       \* 2^32 - 1: numeric_limits<uint32_t>::max()
  MaxDuration,   \* bound: ticks an iteration can take
  Target,        \* the period of the task
  MaxCount       \* bound: iterations between two resets that are told apart

\* avg_ms_x16_ does not overflow: an iteration takes less than 2^28 ms (3 days).
ASSUME TaskStatsAssumption ==
  /\ MaxDuration \in Nat /\ Target \in Nat /\ MaxCount \in Nat \ {0}
  /\ WordMax \in Nat /\ 16 * MaxDuration <= WordMax

VARIABLES
  count,     \* count_
  least,     \* min_ms_
  most,      \* max_ms_
  average,   \* avg_ms_x16_
  started,   \* avg_initialized_
  misses,    \* deadline_miss_count_
  pending,   \* stats_reset_pending
  pc,        \* the task: "check", "clear", "work"
  latest,    \* history: the duration recorded last
  stale      \* history: how many of the recorded iterations precede the latest request

stats == <<count, least, most, average, started, misses>>
vars == <<stats, pending, pc, latest, stale>>

Duration == 0..MaxDuration

Init ==
  /\ count = 0 /\ least = WordMax /\ most = 0 /\ average = 0 /\ started = FALSE /\ misses = 0
  /\ pending = FALSE
  /\ pc = "check"
  /\ latest = 0 /\ stale = 0

\* `status reset`, from the CLI task.
RequestReset ==
  /\ pending' = TRUE
  /\ stale' = count
  /\ UNCHANGED <<stats, pc, latest>>

NoReset ==
  /\ pc = "check" /\ ~pending
  /\ pc' = "work"
  /\ UNCHANGED <<stats, pending, latest, stale>>

\* Seeded variant: the deadline misses survive a reset.
ResetKeepsMisses ==
  /\ pc = "check" /\ pending
  /\ count' = 0 /\ least' = WordMax /\ most' = 0 /\ average' = 0 /\ started' = FALSE
  /\ stale' = 0
  /\ pc' = "clear"
  /\ UNCHANGED <<misses, pending, latest>>

Reset ==
  /\ pc = "check" /\ pending
  /\ count' = 0 /\ least' = WordMax /\ most' = 0 /\ average' = 0 /\ started' = FALSE /\ misses' = 0
  /\ stale' = 0
  /\ pc' = "clear"
  /\ UNCHANGED <<pending, latest>>

\* The flag is cleared after the reset, in a step of its own.
ClearRequest ==
  /\ pc = "clear"
  /\ pending' = FALSE
  /\ pc' = "work"
  /\ UNCHANGED <<stats, latest, stale>>

Smaller(m, n) == IF m < n THEN m ELSE n
Larger(m, n) == IF m < n THEN n ELSE m

\* Counting stops at the bound; the code's counters are 32 bits wide.
Counted(n) == Smaller(n + 1, MaxCount)

\* Seeded variant: the average starts from the plain duration.
MovingAverageUnscaled(d) == IF started THEN average - average \div 16 + d ELSE d

\* Seeded variant: the average accumulates without decaying.
MovingAverageNoDecay(d) == IF started THEN average + d ELSE 16 * d

\* Sixteen times the exponential moving average with alpha = 1/16.
MovingAverage(d) == IF started THEN average - average \div 16 + d ELSE 16 * d

\* Seeded variant: the request is cleared at the end of the iteration.
FinishClearing(d) == pc' = "check" /\ latest' = d /\ pending' = FALSE

Finish(d) == pc' = "check" /\ latest' = d /\ UNCHANGED pending

\* The work of the iteration, then RecordTick of its duration.
RecordTick(d) ==
  /\ pc = "work"
  /\ least' = Smaller(d, least)
  /\ most' = Larger(d, most)
  /\ misses' = IF d > Target THEN Counted(misses) ELSE misses
  /\ average' = MovingAverage(d)
  /\ started' = TRUE
  /\ count' = Counted(count)
  /\ Finish(d)
  /\ UNCHANGED stale

TaskStep ==
  \/ NoReset \/ Reset \/ ClearRequest
  \/ \E d \in Duration : RecordTick(d)

Next == RequestReset \/ TaskStep

\* The scheduler runs the task.
Fairness == WF_vars(TaskStep)

Spec == Init /\ [][Next]_vars /\ Fairness

GetAvgMs == IF started THEN (average + 8) \div 16 ELSE 0
GetMaxMs == most
GetMinMs == IF count = 0 THEN 0 ELSE least

-----------------------------------------------------------------------------
(* Properties *)

TypeOK ==
  /\ count \in 0..MaxCount /\ misses \in 0..MaxCount /\ stale \in 0..MaxCount
  /\ least \in Duration \cup {WordMax}
  /\ most \in Duration /\ latest \in Duration
  /\ average \in 0..WordMax
  /\ started \in BOOLEAN /\ pending \in BOOLEAN
  /\ pc \in {"check", "clear", "work"}

\* What `status` prints of a task that is not being preempted: the fixed-point
\* mean lies between the shortest and the longest iteration, in spite of its
\* truncations; before the first iteration all three are 0.
MeanInRange == GetMinMs <= GetAvgMs /\ GetAvgMs <= GetMaxMs

\* A request is never lost, whenever it is made: once the flag is down, no
\* iteration counted in the statistics precedes the latest request.
ResetHonoured == ~pending => stale = 0

\* Deadline misses are told from merely long iterations, also across resets.
MissesCounted == misses <= count /\ (most > Target <=> misses > 0)

\* task_stats.h: "Mean loop duration rounded to the nearest millisecond".  Read
\* as: when every iteration from some time on takes the same time, and nobody
\* asks for a reset, the mean becomes that time.  False: the truncation in
\* avg_ms_x16_ / 16 holds the average up to 15/16 ms above it.
MeanSettles ==
  \A d \in Duration : <>[](latest = d /\ ~pending) => <>[](GetAvgMs = d)
=============================================================================
