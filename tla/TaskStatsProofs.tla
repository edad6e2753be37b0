-------------------------- MODULE TaskStatsProofs --------------------------
(***************************************************************************)
(* What TLAPS proves of TaskStats, for every bound on durations and every   *)
(* target period.                                                           *)
(***************************************************************************)
EXTENDS TaskStats, TLAPS

\* The average is a fixed-point number between the extremes, and before the
\* first iteration everything is as Reset() leaves it.
Bracketed ==
  /\ started => count > 0 /\ least \in Duration /\ 16 * least <= average /\ average <= 16 * most
  /\ ~started => count = 0 /\ average = 0 /\ most = 0 /\ misses = 0
  /\ misses <= count
  /\ most > Target <=> misses > 0

IInv == TypeOK /\ Bracketed

USE TaskStatsAssumption

-----------------------------------------------------------------------------
(* Arithmetic *)

\* Bounds on a scaled number survive wider bounds.
LEMMA Wider ==
  ASSUME NEW a \in Nat, NEW lo \in Nat, NEW lo2 \in Nat, NEW hi \in Nat, NEW hi2 \in Nat,
         lo2 <= lo, hi <= hi2, 16 * lo <= a, a <= 16 * hi
  PROVE  16 * lo2 <= a /\ a <= 16 * hi2
  OBVIOUS

\* The scaled average of durations within the bound fits a word.
LEMMA Fits ==
  ASSUME NEW a \in Nat, NEW m \in Nat, m <= MaxDuration, a <= 16 * m
  PROVE  a \in 0..WordMax
  OBVIOUS

LEMMA Sixteenth ==
  ASSUME NEW a \in Int
  PROVE  a \div 16 \in Int /\ 16 * (a \div 16) <= a /\ a < 16 * (a \div 16) + 16
<1>1. a \div 16 \in Int
  BY SMT
<1>2. 16 * (a \div 16) <= a
  BY SMT
<1>3. a < 16 * (a \div 16) + 16
  BY SMT
<1> QED
  BY <1>1, <1>2, <1>3

\* One step of the moving average stays between bounds that hold of the
\* average and of the new duration, whatever the division truncates.
LEMMA AverageStep ==
  ASSUME NEW a \in Nat, NEW d \in Nat, NEW lo \in Nat, NEW hi \in Nat,
         16 * lo <= a, a <= 16 * hi, lo <= d, d <= hi
  PROVE  /\ a - a \div 16 + d \in Nat
         /\ 16 * lo <= a - a \div 16 + d
         /\ a - a \div 16 + d <= 16 * hi
<1>1. PICK q \in Int : q = a \div 16 /\ 16 * q <= a /\ a < 16 * q + 16
  BY Sixteenth
<1>2. lo <= q /\ q <= hi
  BY <1>1
<1>3. 16 * lo <= a - q + d /\ a - q + d <= 16 * hi
  BY <1>1, <1>2
<1> QED
  BY <1>1, <1>3

\* Rounding a scaled number to the nearest unit stays between whole bounds.
LEMMA Rounding ==
  ASSUME NEW a \in Nat, NEW lo \in Nat, NEW hi \in Nat, 16 * lo <= a, a <= 16 * hi
  PROVE  lo <= (a + 8) \div 16 /\ (a + 8) \div 16 <= hi
<1>1. PICK q \in Int : q = (a + 8) \div 16 /\ 16 * q <= a + 8 /\ a + 8 < 16 * q + 16
  BY Sixteenth
<1> QED
  BY <1>1

-----------------------------------------------------------------------------
(* The invariant *)

LEMMA StatsInit == Init => IInv
<1> SUFFICES ASSUME Init PROVE IInv
  OBVIOUS
<1>1. /\ count \in 0..MaxCount /\ misses \in 0..MaxCount /\ stale \in 0..MaxCount
      /\ most \in Duration /\ latest \in Duration /\ average \in 0..WordMax
      /\ misses <= count /\ (most > Target <=> misses > 0)
  BY DEF Init, Duration
<1>2. started \in BOOLEAN /\ pending \in BOOLEAN /\ ~started
  BY DEF Init
<1>3. Bracketed
  BY <1>1, <1>2 DEF Init, Bracketed
<1> QED
  BY <1>1, <1>2, <1>3 DEF Init, IInv, TypeOK

LEMMA RecordStep ==
  ASSUME IInv, NEW d \in Duration, RecordTick(d)
  PROVE  IInv'
<1>1. /\ count \in 0..MaxCount /\ misses \in 0..MaxCount /\ least \in Duration \cup {WordMax}
      /\ most \in Duration /\ average \in Nat /\ d \in 0..MaxDuration
  BY DEF IInv, TypeOK, Duration
<1>2. /\ least' = Smaller(d, least) /\ most' = Larger(d, most) /\ started' = TRUE
      /\ average' = MovingAverage(d) /\ count' = Counted(count)
      /\ misses' = IF d > Target THEN Counted(misses) ELSE misses
      /\ pc' = "check" /\ latest' = d /\ pending' = pending /\ stale' = stale
  BY DEF RecordTick, Finish
<1>3. /\ least' \in Duration /\ least' <= d /\ most' \in Duration /\ d <= most' /\ most <= most'
      /\ started => least' <= least
  BY <1>1, <1>2 DEF Smaller, Larger, Duration
<1>4. average' \in Nat /\ 16 * least' <= average' /\ average' <= 16 * most'
  <2>1. CASE started
    <3>1. 16 * least' <= average /\ average <= 16 * most'
      <4>1. /\ least \in Nat /\ least' \in Nat /\ most \in Nat /\ most' \in Nat
            /\ 16 * least <= average /\ average <= 16 * most
        <5>1. least \in Duration /\ 16 * least <= average /\ average <= 16 * most
          BY <2>1 DEF IInv, Bracketed
        <5> QED
          BY <1>1, <1>3, <5>1 DEF Duration
      <4>2. least' <= least /\ most <= most'
        BY <1>3, <2>1
      <4> QED
        BY <1>1, <4>1, <4>2, Wider
    <3>2. average' = average - average \div 16 + d
      BY <1>2, <2>1 DEF MovingAverage
    <3>3. least' \in Nat /\ most' \in Nat /\ d \in Nat
      BY <1>1, <1>3 DEF Duration
    <3> QED
      BY <1>1, <1>3, <3>1, <3>2, <3>3, AverageStep
  <2>2. CASE ~started
    BY <1>1, <1>2, <1>3, <2>2 DEF MovingAverage, Duration
  <2> QED
    BY <2>1, <2>2 DEF IInv, TypeOK
<1>5. count' \in 0..MaxCount /\ count' > 0 /\ misses' \in 0..MaxCount /\ misses' <= count'
  BY <1>1, <1>2 DEF Counted, Smaller, IInv, Bracketed
<1>6. most' > Target <=> misses' > 0
  BY <1>1, <1>2 DEF Counted, Smaller, Larger, IInv, Bracketed, Duration
<1>7. average' \in 0..WordMax
  <2>1. most' \in Nat /\ most' <= MaxDuration
    BY <1>3 DEF Duration
  <2>2. average' \in Nat /\ average' <= 16 * most'
    BY <1>4
  <2> QED
    BY <2>1, <2>2, Fits
<1> QED
  BY <1>2, <1>3, <1>4, <1>5, <1>6, <1>7 DEF IInv, TypeOK, Bracketed

LEMMA StatsStep == IInv /\ [Next]_vars => IInv'
<1> SUFFICES ASSUME IInv, [Next]_vars PROVE IInv'
  OBVIOUS
<1>1. CASE RequestReset
  BY <1>1 DEF RequestReset, stats, IInv, TypeOK, Bracketed
<1>2. CASE NoReset \/ ClearRequest
  <2>1. UNCHANGED <<stats, latest, stale>> /\ pc' = "work"
    BY <1>2 DEF NoReset, ClearRequest
  <2>2. pending' \in BOOLEAN
    BY <1>2 DEF NoReset, ClearRequest, IInv, TypeOK
  <2> QED
    BY <2>1, <2>2 DEF stats, IInv, TypeOK, Bracketed
<1>3. CASE Reset
  <2>1. /\ count' \in 0..MaxCount /\ misses' \in 0..MaxCount /\ stale' \in 0..MaxCount
        /\ most' \in Duration /\ latest' \in Duration /\ average' \in 0..WordMax
        /\ misses' <= count' /\ (most' > Target <=> misses' > 0)
    BY <1>3 DEF Reset, Duration, IInv, TypeOK
  <2>2. started' \in BOOLEAN /\ pending' \in BOOLEAN /\ ~started'
    BY <1>3 DEF Reset, IInv, TypeOK
  <2>3. Bracketed'
    BY <1>3, <2>1, <2>2 DEF Reset, Bracketed
  <2> QED
    BY <1>3, <2>1, <2>2, <2>3 DEF Reset, IInv, TypeOK
<1>4. ASSUME NEW d \in Duration, RecordTick(d) PROVE IInv'
  BY <1>4, RecordStep
<1>5. CASE UNCHANGED vars
  BY <1>5 DEF vars, stats, IInv, TypeOK, Bracketed
<1> QED
  BY <1>1, <1>2, <1>3, <1>4, <1>5 DEF Next, TaskStep

LEMMA StatsInvariant == Spec => []IInv
<1> QED
  BY StatsInit, StatsStep, PTL DEF Spec

\* The statistics keep their types; in particular the scaled average of
\* iterations shorter than 2^28 ms never overflows its 32 bits.
THEOREM StatsTypeCorrect == Spec => []TypeOK
<1>1. IInv => TypeOK
  BY DEF IInv
<1> QED
  BY <1>1, StatsInvariant, PTL

\* The mean that `status` prints lies between the minimum and the maximum.
THEOREM MeanStaysInRange == Spec => []MeanInRange
<1>1. IInv => MeanInRange
  <2> SUFFICES ASSUME IInv PROVE MeanInRange
    OBVIOUS
  <2>1. CASE started
    BY <2>1, Rounding DEF IInv, TypeOK, Bracketed, MeanInRange, GetMinMs, GetAvgMs, GetMaxMs, Duration
  <2>2. CASE ~started
    BY <2>2 DEF IInv, Bracketed, MeanInRange, GetMinMs, GetAvgMs, GetMaxMs
  <2> QED
    BY <2>1, <2>2
<1> QED
  BY <1>1, StatsInvariant, PTL

\* No deadline miss goes uncounted, and only misses are counted.
THEOREM MissesAreCounted == Spec => []MissesCounted
<1>1. IInv => MissesCounted
  BY DEF IInv, Bracketed, MissesCounted
<1> QED
  BY <1>1, StatsInvariant, PTL

\* A `status reset` is never lost, in whichever step of the task it comes.
THEOREM ResetIsHonoured == Spec => []ResetHonoured
<1> DEFINE Inv == ResetHonoured /\ (pc = "clear" => count = 0 /\ stale = 0)
<1>1. Init => Inv
  BY DEF Init, ResetHonoured
<1>2. Inv /\ [Next]_vars => Inv'
  <2> SUFFICES ASSUME Inv, [Next]_vars PROVE Inv'
    OBVIOUS
  <2>1. CASE RequestReset
    <3>1. pending' /\ count' = count /\ pc' = pc /\ stale' = count
      BY <2>1 DEF RequestReset, stats
    <3> QED
      BY <3>1 DEF ResetHonoured
  <2>2. CASE NoReset
    BY <2>2 DEF NoReset, stats, ResetHonoured
  <2>6. CASE ClearRequest
    <3>1. pc = "clear" /\ pc' = "work"
      BY <2>6 DEF ClearRequest
    <3>2. count' = count /\ stale' = stale
      BY <2>6 DEF ClearRequest, stats
    <3> QED
      BY <3>1, <3>2 DEF ResetHonoured
  <2>3. CASE Reset
    BY <2>3 DEF Reset, ResetHonoured
  <2>4. ASSUME NEW d \in Duration, RecordTick(d) PROVE Inv'
    BY <2>4 DEF RecordTick, Finish, ResetHonoured
  <2>5. CASE UNCHANGED vars
    BY <2>5 DEF vars, stats, ResetHonoured
  <2> QED
    BY <2>1, <2>2, <2>3, <2>4, <2>5, <2>6 DEF Next, TaskStep
<1>3. Inv => ResetHonoured
  OBVIOUS
<1> QED
  BY <1>1, <1>2, <1>3, PTL DEF Spec
=============================================================================
