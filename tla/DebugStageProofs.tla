------------------------- MODULE DebugStageProofs -------------------------
(***************************************************************************)
(* What TLAPS proves of DebugStage, for every size of the rings, every      *)
(* budget of at least three lines and any number of lines staged.           *)
(***************************************************************************)
EXTENDS DebugStage, TLAPS

\* What is left of the budget when so much of a pass is over.
BudgetLeft ==
  /\ cliPc \in {"adc", "sample"} => budget = Budget
  /\ cliPc \in {"dropped", "summary"} => budget >= Budget - 1
  /\ cliPc = "release" => budget > 0

\* The count that is about to be printed is not more than the one that stands.
DropCount ==
  /\ DropsAccounted
  /\ cliPc = "summary" => seen <= dropped

\* The samples: which fields the CAN task has written, and which of the fields
\* being printed are those of the latest sample.
CanSettled == canPc \notin Field \cup {"pending"}

SampleSettles ==
  /\ canPc # "tick" => adc["tick"] = "latest"
  /\ canPc \notin {"tick", "value"} => adc["value"] = "latest"
  /\ ~pending /\ CanSettled => \A f \in Field : f \in toRead \/ printed[f] = "latest"
  /\ cliPc # "sample" => toRead = {}

\* How far the last pass has come.
LastPass ==
  /\ owed.can <= staged - shown /\ owed.i2c <= I2cPending
  /\ final => requested
  /\ cliPc = "parked" => final
  /\ final /\ cliPc = "i2c" => owed.can = 0 \/ budget = 0
  /\ final /\ cliPc \in {"report", "check", "commands", "parked"} =>
       (owed.can = 0 /\ owed.i2c = 0) \/ budget = 0

\* The inductive invariant of the ring and the count of drops.
Inv == TypeOK /\ BudgetLeft /\ DropCount /\ FramesConserved

USE DebugStageAssumption

-----------------------------------------------------------------------------
(* The ring's arithmetic *)

LEMMA NextInRing ==
  ASSUME NEW i \in Index
  PROVE  NextIndex(i) \in Index
  BY DEF NextIndex, Index

LEMMA AtInRing ==
  ASSUME NEW i \in Index, NEW j \in Index
  PROVE  At(i, j) \in Index
  BY DEF At, Index

LEMMA AtFromNext ==
  ASSUME NEW i \in Index, NEW j \in Index
  PROVE  At(NextIndex(i), j) = At(i, j + 1)
  BY DEF At, NextIndex, Index

LEMMA NextOfAt ==
  ASSUME NEW i \in Index, NEW j \in Index
  PROVE  NextIndex(At(i, j)) = At(i, j + 1)
  BY DEF At, NextIndex, Index

LEMMA AtInjective ==
  ASSUME NEW i \in Index, NEW j \in Index, NEW k \in Index, j # k
  PROVE  At(i, j) # At(i, k)
  BY DEF At, Index

LEMMA AtZero ==
  ASSUME NEW i \in Index
  PROVE  At(i, 0) = i
  BY DEF At, Index

LEMMA AtFull ==
  ASSUME NEW i \in Index
  PROVE  At(i, RingSize) = i
  BY DEF At, Index

LEMMA SmallerOf ==
  ASSUME NEW m \in Nat, NEW n \in Nat
  PROVE  Smaller(m, n) \in 0..m /\ Smaller(m, n) \in 0..n /\ (Smaller(m, n) = m \/ Smaller(m, n) = n)
  BY DEF Smaller

-----------------------------------------------------------------------------
(* Types and counts *)

LEMMA InvInit == Init => Inv
<1> SUFFICES ASSUME Init PROVE Inv
  OBVIOUS
<1>1. TypeOK
  <2>1. /\ adc \in [Field -> {"latest", "older"}] /\ printed \in [Field -> {"latest", "older"}]
        /\ ring \in [Index -> 0..MaxFrames] /\ head \in Index /\ tail \in Index
    BY DEF Init, Index
  <2>2. /\ enabled \in BOOLEAN /\ pending \in BOOLEAN /\ raced \in BOOLEAN
        /\ requested \in BOOLEAN /\ final \in BOOLEAN
    BY DEF Init
  <2>3. owed \in [can : 0..RingSize - 1, i2c : 0..I2cRingSize - 1]
    BY DEF Init
  <2> QED
    BY <2>1, <2>2, <2>3 DEF Init, TypeOK, I2cPending
<1>2. BudgetLeft /\ DropCount
  BY DEF Init, BudgetLeft, DropCount, DropsAccounted
<1>3. FramesConserved
  <2>1. staged = 0 /\ shown = 0 /\ head = 0 /\ tail = 0 /\ cliPc = "commands"
    BY DEF Init
  <2>2. 0 \in Index
    BY DEF Index
  <2>3. At(0, 0) = 0
    BY <2>2, AtZero
  <2> QED
    BY <2>1, <2>3 DEF FramesConserved
<1> QED
  BY <1>1, <1>2, <1>3 DEF Inv

\* What StageFrame does to the variables of the ring.
LEMMA StageType ==
  ASSUME TypeOK, DropsAccounted, StageFrame
  PROVE  /\ ring' \in [Index -> 0..MaxFrames] /\ head' \in Index
         /\ staged' \in 0..MaxFrames /\ lost' \in 0..MaxLost /\ dropped' \in 0..MaxLost
         /\ staged <= staged' /\ dropped <= dropped'
         /\ \/ lost' = lost /\ dropped' = dropped
            \/ lost' = lost + 1 /\ dropped' = dropped + 1
<1>1. CASE HasRoom
  <2>1. NextIndex(head) \in Index
    BY NextInRing DEF TypeOK
  <2> QED
    BY <1>1, <2>1 DEF TypeOK, StageFrame
<1>2. CASE ~HasRoom
  BY <1>2 DEF TypeOK, StageFrame, DropsAccounted
<1> QED
  BY <1>1, <1>2

LEMMA TypeStep == Inv /\ [Next]_vars => TypeOK'
<1> SUFFICES ASSUME Inv, [Next]_vars PROVE TypeOK'
  OBVIOUS
<1> USE DEF TypeOK, Inv, I2cPending, DropCount, BudgetLeft
<1> USE DEF adcVars, ringVars, reader, drops, i2c, shutdown, cli, canTaskOnly, cliTaskOnly
<1>1. CASE RxInterrupt
  <2>1. StageFrame
    BY <1>1 DEF RxInterrupt
  <2> QED
    BY <1>1, <2>1, StageType DEF RxInterrupt
<1>2. CASE StageTxFrame
  <2>1. StageFrame
    BY <1>2 DEF StageTxFrame
  <2> QED
    BY <1>2, <2>1, StageType DEF StageTxFrame
<1>3. CASE BeginSample
  <2>0. Older \in [Field -> {"latest", "older"}]
    BY DEF Older
  <2>1. CASE enabled
    BY <1>3, <2>0, <2>1 DEF BeginSample, Field
  <2>2. CASE ~enabled
    BY <1>3, <2>2 DEF BeginSample, Field
  <2> QED
    BY <2>1, <2>2
<1>4. CASE \E f \in Field : WriteField(f)
  <2>1. PICK f \in Field : WriteField(f)
    BY <1>4
  <2>2. AfterField(f) \in Field \cup {"pending"}
    BY DEF AfterField, Field
  <2> QED
    BY <2>1, <2>2 DEF WriteField
<1>5. CASE SetPending
  <2>1. pending' \in BOOLEAN
    BY <1>5 DEF SetPending
  <2>2. toSend' \in 0..FramesPerBroadcast
    BY <1>5 DEF SetPending
  <2> QED
    BY <1>5, <2>1, <2>2 DEF SetPending
<1>19. CASE EndBroadcast
  BY <1>19 DEF EndBroadcast
<1>6. CASE FrameGate
  BY <1>6 DEF FrameGate
<1>7. CASE Toggle
  <2>1. enabled' \in BOOLEAN
    BY <1>7 DEF Toggle
  <2> QED
    BY <1>7, <2>1 DEF Toggle
<1>20. CASE I2cTransaction
  <2>1. i2cStaged' \in 0..MaxI2c /\ i2cStaged' - i2cShown \in 0..I2cRingSize - 1
    BY <1>20 DEF I2cTransaction
  <2> QED
    BY <1>20, <2>1 DEF I2cTransaction
<1>21. CASE EndCommands
  <2>1. cliPc' \in {"adc", "parked"} /\ budget' \in 0..Budget
    BY <1>21 DEF EndCommands, PassBudget
  <2> QED
    BY <1>21, <2>1 DEF EndCommands
<1>8. CASE PrintAdc1
  BY <1>8 DEF PrintAdc1, ClearPending
<1>9. CASE \E f \in Field : ReadField(f)
  <2>1. PICK f \in Field : ReadField(f)
    BY <1>9
  <2>2. printed' \in [Field -> {"latest", "older"}] /\ toRead' \subseteq Field
    BY <2>1 DEF ReadField
  <2>3. budget' \in 0..Budget
    BY <2>1 DEF ReadField
  <2>4. pending' \in BOOLEAN
    BY <2>1 DEF ReadField, ClearPending
  <2>5. cliPc' \in {"dropped", "sample"}
    BY <2>1 DEF ReadField
  <2> QED
    BY <2>1, <2>2, <2>3, <2>4, <2>5 DEF ReadField
<1>10. CASE ReadDropped
  BY <1>10 DEF ReadDropped
<1>11. CASE PrintSummary
  <2>1. seen <= dropped /\ reported + dropped <= lost
    BY <1>11 DEF PrintSummary, DropsAccounted
  <2>2. reported' \in 0..MaxLost /\ seen' \in 0..MaxLost /\ dropped' \in 0..MaxLost
    BY <1>11, <2>1 DEF PrintSummary, CountAfterSummary
  <2>3. raced' \in BOOLEAN
    BY <1>11 DEF PrintSummary
  <2>4. budget' \in 0..Budget
    BY <1>11 DEF PrintSummary
  <2> QED
    BY <1>11, <2>2, <2>3, <2>4 DEF PrintSummary
<1>12. CASE TakeFrame \/ EndFrames
  BY <1>12 DEF TakeFrame, EndFrames
<1>13. CASE PrintFrame
  <2>1. NextIndex(tail) \in Index
    BY NextInRing
  <2>2. Less(owed.can, 1) \in 0..RingSize - 1
    BY DEF Less
  <2>3. owed' \in [can : 0..RingSize - 1, i2c : 0..I2cRingSize - 1]
    BY <1>13, <2>2 DEF PrintFrame
  <2> QED
    BY <1>13, <2>1, <2>3 DEF PrintFrame
<1>14. CASE PrintI2c2
  <2> DEFINE n == Smaller(budget, i2cStaged - i2cShown)
  <2>0. budget \in Nat /\ i2cStaged - i2cShown \in Nat /\ MaxSuppressed \in Nat
        /\ suppressed + (i2cStaged - i2cShown) \in Nat
    OBVIOUS
  <2>1. n \in 0..budget /\ n \in 0..i2cStaged - i2cShown
    BY <2>0, SmallerOf
  <2>2. i2cShown' = i2cShown + n /\ budget' = budget - n /\ i2cStaged' = i2cStaged
    BY <1>14 DEF PrintI2c2
  <2>3. i2cShown' \in 0..MaxI2c /\ budget' \in 0..Budget /\ i2cStaged' - i2cShown' \in 0..I2cRingSize - 1
    BY <2>1, <2>2
  <2>4. Smaller(suppressed + (i2cStaged - i2cShown), MaxSuppressed) \in 0..MaxSuppressed
    BY <2>0, SmallerOf
  <2>5. suppressed' \in 0..MaxSuppressed
    BY <1>14, <2>4 DEF PrintI2c2
  <2>6. Less(owed.i2c, budget) \in 0..I2cRingSize - 1
    BY <2>0 DEF Less
  <2>7. owed' \in [can : 0..RingSize - 1, i2c : 0..I2cRingSize - 1]
    BY <1>14, <2>6 DEF PrintI2c2
  <2> QED
    BY <1>14, <2>3, <2>5, <2>7 DEF PrintI2c2
<1>15. CASE ReportSuppressed
  BY <1>15 DEF ReportSuppressed
<1>16. CASE EndPrinting
  <2>1. budget' \in 0..Budget
    BY <1>16 DEF EndPrinting, FinalPass
  <2>2. final' \in BOOLEAN
    BY <1>16 DEF EndPrinting, FinalPass
  <2>3. cliPc' \in {"adc", "commands"}
    BY <1>16 DEF EndPrinting, FinalPass
  <2> QED
    BY <1>16, <2>1, <2>2, <2>3 DEF EndPrinting
<1>17. CASE RequestCliShutdown
  <2>1. staged - shown \in 0..RingSize - 1
    BY DEF FramesConserved
  <2>2. owed' \in [can : 0..RingSize - 1, i2c : 0..I2cRingSize - 1]
    BY <1>17, <2>1 DEF RequestCliShutdown
  <2> QED
    BY <1>17, <2>2 DEF RequestCliShutdown
<1>18. CASE UNCHANGED vars
  BY <1>18 DEF vars
<1>22. CASE RenumberFrames
  <2>1. [i \in Index |-> 0] \in [Index -> 0..MaxFrames]
    OBVIOUS
  <2> QED
    BY <1>22, <2>1 DEF RenumberFrames
<1>23. CASE RenumberDrops
  <2>1. lost' = 0 /\ reported' = 0 /\ raced' \in BOOLEAN
    BY <1>23 DEF RenumberDrops
  <2> QED
    BY <1>23, <2>1 DEF RenumberDrops
<1>24. CASE RenumberI2c
  BY <1>24 DEF RenumberI2c
<1> QED
  BY <1>1, <1>2, <1>3, <1>4, <1>5, <1>6, <1>7, <1>8, <1>9, <1>10, <1>11, <1>12, <1>13, <1>14, <1>15, <1>16,
     <1>17, <1>18, <1>19, <1>20, <1>21, <1>22, <1>23, <1>24
     DEF Next, CanTask, CliTask, DebugPrintPending, Renumber

LEMMA BudgetStep == Inv /\ [Next]_vars => BudgetLeft'
<1> SUFFICES ASSUME Inv, [Next]_vars PROVE BudgetLeft'
  OBVIOUS
<1> USE DEF Inv, TypeOK, BudgetLeft
<1>1. CASE cliPc' = cliPc /\ budget' = budget
  BY <1>1
<1>2. CASE EndCommands \/ EndPrinting
  BY <1>2 DEF EndCommands, EndPrinting, FinalPass, PassBudget
<1>3. CASE PrintAdc1
  BY <1>3 DEF PrintAdc1
<1>4. CASE \E f \in Field : ReadField(f)
  BY <1>4 DEF ReadField
<1>5. CASE ReadDropped \/ PrintSummary
  BY <1>5 DEF ReadDropped, PrintSummary
<1>6. CASE TakeFrame \/ PrintFrame \/ EndFrames
  BY <1>6 DEF TakeFrame, PrintFrame, EndFrames
<1>7. CASE PrintI2c2 \/ ReportSuppressed
  BY <1>7 DEF PrintI2c2, ReportSuppressed
<1>8. CASE RxInterrupt \/ CanTask \/ Toggle \/ I2cTransaction \/ RequestCliShutdown \/ Renumber \/ UNCHANGED vars
  <2>1. UNCHANGED cli
    BY <1>8 DEF Renumber, RenumberFrames, RenumberDrops, RenumberI2c, RxInterrupt, CanTask, BeginSample, WriteField, SetPending, EndBroadcast, FrameGate, StageTxFrame,
                canTaskOnly, Toggle, I2cTransaction, RequestCliShutdown, vars
  <2> QED
    BY <2>1, <1>1 DEF cli
<1> QED
  BY <1>1, <1>2, <1>3, <1>4, <1>5, <1>6, <1>7, <1>8 DEF Next, CliTask, DebugPrintPending

LEMMA DropStep == Inv /\ [Next]_vars => DropCount'
<1> SUFFICES ASSUME Inv, [Next]_vars PROVE DropCount'
  OBVIOUS
<1> USE DEF Inv, TypeOK, DropCount, DropsAccounted
<1>1. CASE UNCHANGED <<dropped, lost, reported, raced, seen, cliPc>>
  BY <1>1
<1>2. ASSUME StageFrame, UNCHANGED <<drops, cli>>
      PROVE  DropCount'
  <2>1. dropped <= dropped' /\ ((lost' = lost /\ dropped' = dropped) \/ (lost' = lost + 1 /\ dropped' = dropped + 1))
    BY <1>2, StageType
  <2>2. seen' = seen /\ reported' = reported /\ raced' = raced /\ cliPc' = cliPc
    BY <1>2 DEF drops, cli
  <2>3. reported' + dropped' <= lost' /\ (reported + dropped = lost => reported' + dropped' = lost')
    BY <2>1, <2>2
  <2>4. cliPc' = "summary" => seen' <= dropped'
    BY <2>1, <2>2
  <2>5. raced' \/ reported' + dropped' = lost'
    BY <2>2, <2>3
  <2> QED
    BY <2>3, <2>4, <2>5
<1>3. CASE RxInterrupt
  BY <1>2, <1>3 DEF RxInterrupt
<1>4. CASE StageTxFrame
  BY <1>2, <1>4 DEF StageTxFrame, canTaskOnly
<1>5. CASE PrintSummary
  <2>1. dropped' = 0 /\ reported' = reported + seen /\ lost' = lost /\ cliPc' = "frames" /\ seen <= dropped
    BY <1>5 DEF PrintSummary, CountAfterSummary
  <2>2. raced' = (raced \/ dropped # seen)
    BY <1>5 DEF PrintSummary
  <2>3. reported' + dropped' <= lost' /\ (reported + dropped = lost /\ dropped = seen => reported' + dropped' = lost')
    BY <2>1
  <2>4. raced' \/ reported' + dropped' = lost'
    BY <2>2, <2>3
  <2> QED
    BY <2>1, <2>3, <2>4
<1>6. CASE ReadDropped
  <2>1. seen' = dropped /\ UNCHANGED <<dropped, lost, reported, raced>>
    BY <1>6 DEF ReadDropped, cliTaskOnly, ringVars
  <2> QED
    BY <2>1
<1>7. CASE \/ EndCommands \/ PrintAdc1 \/ (\E f \in Field : ReadField(f)) \/ TakeFrame \/ PrintFrame \/ EndFrames
           \/ PrintI2c2 \/ ReportSuppressed \/ EndPrinting
  <2>1. UNCHANGED <<dropped, lost>>
    BY <1>7 DEF EndCommands, PrintAdc1, ReadField, TakeFrame, PrintFrame, EndFrames, PrintI2c2, ReportSuppressed,
                EndPrinting, cliTaskOnly, ringVars
  <2>2. UNCHANGED drops
    BY <1>7 DEF EndCommands, PrintAdc1, ReadField, TakeFrame, PrintFrame, EndFrames, PrintI2c2, ReportSuppressed,
                EndPrinting
  <2>3. cliPc' # "summary"
    BY <1>7 DEF EndCommands, PrintAdc1, ReadField, TakeFrame, PrintFrame, EndFrames, PrintI2c2, ReportSuppressed,
                EndPrinting, FinalPass
  <2> QED
    BY <2>1, <2>2, <2>3 DEF drops
<1>8. CASE \/ BeginSample \/ (\E f \in Field : WriteField(f)) \/ SetPending \/ EndBroadcast \/ FrameGate
           \/ Toggle \/ I2cTransaction \/ RequestCliShutdown \/ UNCHANGED vars
  <2>1. UNCHANGED <<ringVars, drops, cli>>
    BY <1>8 DEF BeginSample, WriteField, SetPending, EndBroadcast, FrameGate, Toggle, I2cTransaction,
                RequestCliShutdown, canTaskOnly, cliTaskOnly, vars
  <2> QED
    BY <1>1, <2>1 DEF ringVars, drops, cli
<1>9. CASE RenumberFrames \/ RenumberI2c
  <2>1. UNCHANGED <<dropped, lost, drops, cli>>
    BY <1>9 DEF RenumberFrames, RenumberI2c, cliTaskOnly, ringVars
  <2> QED
    BY <1>1, <2>1 DEF drops, cli
<1>10. CASE RenumberDrops
  <2>1. dropped = 0 /\ lost' = 0 /\ reported' = 0 /\ raced' = FALSE /\ UNCHANGED <<dropped, seen, cliPc>>
    BY <1>10 DEF RenumberDrops, cli
  <2> QED
    BY <2>1
<1> QED
  BY <1>3, <1>4, <1>5, <1>6, <1>7, <1>8, <1>9, <1>10 DEF Next, CanTask, CliTask, DebugPrintPending, Renumber

-----------------------------------------------------------------------------
(* The ring *)

\* A frame that is put into the ring extends what lies between tail and head.
LEMMA FramesStage ==
  ASSUME Inv, StageFrame, UNCHANGED <<reader, cliPc>>
  PROVE  FramesConserved'
<1> DEFINE n == staged - shown
<1> USE DEF Inv, TypeOK, FramesConserved
<1>0. tail' = tail /\ shown' = shown /\ entry' = entry /\ cliPc' = cliPc
  BY DEF reader
<1>1. CASE ~HasRoom
  <2>1. ring' = ring /\ head' = head /\ staged' = staged
    BY <1>1 DEF StageFrame
  <2> QED
    BY <1>0, <2>1
<1>2. CASE HasRoom
  <2>1. ring' = [ring EXCEPT ![head] = staged + 1] /\ head' = NextIndex(head) /\ staged' = staged + 1
    BY <1>2 DEF StageFrame
  <2>2. n \in Index /\ head = At(tail, n)
    BY DEF Index
  <2>3. NextIndex(head) = At(tail, n + 1)
    BY <2>2, NextOfAt
  <2>4. n + 1 # RingSize
    BY <1>2, <2>3, AtFull DEF HasRoom
  <2>5. n + 1 \in Index /\ staged' - shown' = n + 1
    BY <1>0, <2>1, <2>2, <2>4 DEF Index
  <2>6. ASSUME NEW j \in 0..RingSize - 1, j < n + 1
        PROVE  ring'[At(tail, j)] = shown + 1 + j
    <3>1. j \in Index /\ At(tail, j) \in Index
      BY AtInRing DEF Index
    <3>2. CASE j = n
      <4>1. ring'[head] = staged + 1
        BY <2>1
      <4>2. staged + 1 = shown + 1 + n
        OBVIOUS
      <4> QED
        BY <2>2, <3>2, <4>1, <4>2
    <3>3. CASE j # n
      <4>1. At(tail, j) # head
        BY <2>2, <3>1, <3>3, AtInjective
      <4>2. j < n
        BY <2>6, <3>3
      <4>3. ring[At(tail, j)] = shown + 1 + j
        BY <4>2
      <4> QED
        BY <2>1, <3>1, <4>1, <4>3
    <3> QED
      BY <3>2, <3>3
  <2>7. cliPc' = "release" => entry' = shown' + 1 /\ shown' < staged'
    BY <1>0, <2>1
  <2>8. head' = At(tail', staged' - shown')
    BY <1>0, <2>1, <2>3, <2>5
  <2>9. \A j \in 0..RingSize - 1 : j < staged' - shown' => ring'[At(tail', j)] = shown' + 1 + j
    BY <1>0, <2>5, <2>6
  <2>10. staged' - shown' \in 0..RingSize - 1
    BY <2>5 DEF Index
  <2> QED
    BY <2>7, <2>8, <2>9, <2>10
<1> QED
  BY <1>1, <1>2

\* The copy that is taken is that of the oldest frame.
LEMMA FramesTake ==
  ASSUME Inv, TakeFrame
  PROVE  FramesConserved'
<1> USE DEF Inv, TypeOK, FramesConserved
<1>1. UNCHANGED <<ring, head, staged, tail, shown>> /\ entry' = ring[tail] /\ tail # head
  BY DEF TakeFrame, cliTaskOnly, ringVars
<1>2. staged - shown # 0
  BY <1>1, AtZero
<1>3. 0 < staged - shown /\ 0 \in 0..RingSize - 1
  BY <1>2
<1>4. ring[At(tail, 0)] = shown + 1 + 0
  BY <1>3
<1>5. entry' = shown + 1
  BY <1>1, <1>4, AtZero
<1>6. cliPc' = "release" => entry' = shown' + 1 /\ shown' < staged'
  BY <1>1, <1>3, <1>5
<1> QED
  BY <1>1, <1>6

\* A frame that was printed leaves the ring at its other end.
LEMMA FramesPrint ==
  ASSUME Inv, PrintFrame
  PROVE  FramesConserved'
<1> DEFINE n == staged - shown
<1> USE DEF Inv, TypeOK, FramesConserved
<1>1. /\ UNCHANGED <<ring, head, staged>>
      /\ tail' = NextIndex(tail) /\ shown' = entry /\ cliPc' = "frames" /\ cliPc = "release"
  BY DEF PrintFrame, cliTaskOnly, ringVars
<1>2. shown' = shown + 1 /\ shown < staged
  BY <1>1
<1>3. n - 1 \in Index /\ staged' - shown' = n - 1 /\ n \in Index
  BY <1>1, <1>2 DEF Index
<1>4. head' = At(tail', n - 1)
  <2>1. At(NextIndex(tail), n - 1) = At(tail, n - 1 + 1)
    BY <1>3, AtFromNext
  <2>2. n - 1 + 1 = n
    OBVIOUS
  <2> QED
    BY <1>1, <2>1, <2>2
<1>5. ASSUME NEW j \in 0..RingSize - 1, j < n - 1
      PROVE  ring[At(NextIndex(tail), j)] = shown + 1 + 1 + j
  <2>1. j \in Index /\ j + 1 \in 0..RingSize - 1 /\ j + 1 < n
    BY <1>3, <1>5 DEF Index
  <2>2. At(NextIndex(tail), j) = At(tail, j + 1)
    BY <2>1, AtFromNext
  <2>3. ring[At(tail, j + 1)] = shown + 1 + (j + 1)
    BY <2>1
  <2>4. shown + 1 + (j + 1) = shown + 1 + 1 + j
    OBVIOUS
  <2> QED
    BY <2>2, <2>3, <2>4
<1>6. staged' - shown' \in 0..RingSize - 1
  BY <1>3 DEF Index
<1>7. head' = At(tail', staged' - shown')
  BY <1>3, <1>4
<1>8. \A j \in 0..RingSize - 1 : j < staged' - shown' => ring'[At(tail', j)] = shown' + 1 + j
  BY <1>1, <1>2, <1>3, <1>5
<1>9. cliPc' # "release"
  BY <1>1
<1> QED
  BY <1>6, <1>7, <1>8, <1>9

LEMMA FramesStep == Inv /\ [Next]_vars => FramesConserved'
<1> SUFFICES ASSUME Inv, [Next]_vars PROVE FramesConserved'
  OBVIOUS
<1>1. ASSUME UNCHANGED <<ring, head, staged, reader>>, cliPc' = cliPc \/ cliPc' # "release"
      PROVE  FramesConserved'
  BY <1>1 DEF Inv, FramesConserved, reader
<1>2. CASE RxInterrupt
  BY <1>2, FramesStage DEF RxInterrupt, cli
<1>3. CASE StageTxFrame
  BY <1>3, FramesStage DEF StageTxFrame, canTaskOnly, cli
<1>4. CASE TakeFrame
  BY <1>4, FramesTake
<1>5. CASE PrintFrame
  BY <1>5, FramesPrint
<1>6. CASE \/ BeginSample \/ (\E f \in Field : WriteField(f)) \/ SetPending \/ EndBroadcast \/ FrameGate
           \/ Toggle \/ I2cTransaction \/ RequestCliShutdown \/ UNCHANGED vars
  <2>1. UNCHANGED <<ringVars, reader, cli>>
    BY <1>6 DEF BeginSample, WriteField, SetPending, EndBroadcast, FrameGate, Toggle, I2cTransaction,
                RequestCliShutdown, canTaskOnly, cliTaskOnly, vars
  <2> QED
    BY <1>1, <2>1 DEF ringVars, cli
<1>7. CASE \/ EndCommands \/ PrintAdc1 \/ (\E f \in Field : ReadField(f)) \/ ReadDropped \/ PrintSummary
           \/ EndFrames \/ PrintI2c2 \/ ReportSuppressed \/ EndPrinting
  <2>1. UNCHANGED <<ring, head, staged>>
    BY <1>7 DEF EndCommands, PrintAdc1, ReadField, ReadDropped, PrintSummary, EndFrames, PrintI2c2,
                ReportSuppressed, EndPrinting, cliTaskOnly, ringVars
  <2>2. UNCHANGED reader
    BY <1>7 DEF EndCommands, PrintAdc1, ReadField, ReadDropped, PrintSummary, EndFrames, PrintI2c2,
                ReportSuppressed, EndPrinting
  <2>3. cliPc' = cliPc \/ cliPc' # "release"
    BY <1>7 DEF EndCommands, PrintAdc1, ReadField, ReadDropped, PrintSummary, EndFrames, PrintI2c2,
                ReportSuppressed, EndPrinting, FinalPass
  <2> QED
    BY <1>1, <2>1, <2>2, <2>3
<1>8. CASE RenumberFrames
  <2>1. shown = staged /\ staged' = 0 /\ shown' = 0 /\ UNCHANGED <<head, tail, entry, cliPc>>
    BY <1>8 DEF RenumberFrames, cli
  <2>2. cliPc # "release"
    BY <2>1 DEF Inv, FramesConserved, TypeOK
  <2>3. staged - shown = staged' - shown'
    BY <2>1 DEF Inv, TypeOK
  <2>4. staged' - shown' = 0 /\ head' = At(tail', staged' - shown')
    BY <2>1, <2>3 DEF Inv, FramesConserved
  <2> QED
    BY <2>1, <2>2, <2>4 DEF FramesConserved
<1>9. CASE RenumberDrops \/ RenumberI2c
  <2>1. UNCHANGED <<ring, head, staged, reader, cliPc>>
    BY <1>9 DEF RenumberDrops, RenumberI2c, cliTaskOnly, ringVars, cli
  <2> QED
    BY <1>1, <2>1
<1> QED
  BY <1>2, <1>3, <1>4, <1>5, <1>6, <1>7, <1>8, <1>9 DEF Next, CanTask, CliTask, DebugPrintPending, Renumber

LEMMA InvStep == Inv /\ [Next]_vars => Inv'
  BY TypeStep, BudgetStep, DropStep, FramesStep DEF Inv

LEMMA InvHolds == Spec => []Inv
  BY InvInit, InvStep, PTL DEF Spec

\* All variables stay in their ranges: the indices never leave the rings, no
\* pass prints more than its budget.
THEOREM DebugTypeCorrect == Spec => []TypeOK
<1>1. Inv => TypeOK
  BY DEF Inv
<1> QED
  BY InvHolds, <1>1, PTL

\* The ring hands every frame on once and in order, whatever the size of the
\* ring and wherever the interrupt and the tasks stop each other.
THEOREM DebugFramesConserved == Spec => []FramesConserved
<1>1. Inv => FramesConserved
  BY DEF Inv
<1> QED
  BY InvHolds, <1>1, PTL

\* What the dropped-frame lines claim was dropped, and nothing is missing from
\* them but frames dropped while such a line was under way.
THEOREM DebugDropsAccounted == Spec => []DropsAccounted
<1>1. Inv => DropsAccounted
  BY DEF Inv, DropCount
<1> QED
  BY InvHolds, <1>1, PTL

-----------------------------------------------------------------------------
(* The samples *)

LEMMA SampleInit == Init => SampleSettles
  BY DEF Init, SampleSettles, Field

LEMMA SampleStep == TypeOK /\ SampleSettles /\ [Next]_vars => SampleSettles'
<1> SUFFICES ASSUME TypeOK, SampleSettles, [Next]_vars PROVE SampleSettles'
  OBVIOUS
<1> USE DEF SampleSettles, CanSettled, Field
<1> USE DEF adcVars, cli, canTaskOnly, cliTaskOnly
<1>0. adc \in [Field -> {"latest", "older"}] /\ printed \in [Field -> {"latest", "older"}] /\ toRead \subseteq Field
  BY DEF TypeOK
<1>1. CASE BeginSample
  BY <1>1 DEF BeginSample, Older
<1>2. CASE \E f \in Field : WriteField(f)
  <2>1. PICK f \in Field : WriteField(f)
    BY <1>2
  <2>2. CASE f = "tick"
    BY <2>1, <2>2, <1>0 DEF WriteField, AfterField
  <2>3. CASE f = "value"
    BY <2>1, <2>3, <1>0 DEF WriteField, AfterField
  <2> QED
    BY <2>2, <2>3
<1>3. CASE SetPending
  BY <1>3 DEF SetPending
<1>4. CASE EndBroadcast \/ FrameGate \/ StageTxFrame
  BY <1>4 DEF EndBroadcast, FrameGate, StageTxFrame
<1>5. CASE PrintAdc1
  BY <1>5 DEF PrintAdc1, ClearPending
<1>6. CASE \E f \in Field : ReadField(f)
  <2>1. PICK f \in Field : ReadField(f)
    BY <1>6
  <2>2. /\ printed' = [printed EXCEPT ![f] = adc[f]] /\ toRead' = toRead \ {f}
        /\ pending' = pending /\ canPc' = canPc /\ adc' = adc
    BY <2>1 DEF ReadField, ClearPending
  <2>3. ~pending /\ CanSettled => adc[f] = "latest"
    BY <2>1
  <2>4. ~pending' /\ CanSettled' => \A g \in Field : g \in toRead' \/ printed'[g] = "latest"
    BY <1>0, <2>1, <2>2, <2>3
  <2>5. cliPc' # "sample" => toRead' = {}
    BY <2>1 DEF ReadField
  <2> QED
    BY <2>2, <2>4, <2>5
<1>7. CASE EndCommands \/ ReadDropped \/ PrintSummary \/ TakeFrame \/ PrintFrame
  BY <1>7 DEF EndCommands, ReadDropped, PrintSummary, TakeFrame, PrintFrame
<1>8. CASE EndFrames \/ PrintI2c2 \/ ReportSuppressed \/ EndPrinting
  BY <1>8 DEF EndFrames, PrintI2c2, ReportSuppressed, EndPrinting
<1>9. CASE RxInterrupt \/ Toggle \/ I2cTransaction \/ RequestCliShutdown \/ Renumber \/ UNCHANGED vars
  BY <1>9 DEF RxInterrupt, Toggle, I2cTransaction, RequestCliShutdown, Renumber, RenumberFrames, RenumberDrops,
              RenumberI2c, vars
<1> QED
  BY <1>1, <1>2, <1>3, <1>4, <1>5, <1>6, <1>7, <1>8, <1>9 DEF Next, CanTask, CliTask, DebugPrintPending

\* A torn sample on the screen is always followed by a whole one: the flag is
\* cleared before the values are read and set after they were written.
THEOREM DebugAdcSettles == Spec => []AdcSettled
<1>1. SampleSettles => AdcSettled
  BY DEF SampleSettles, AdcSettled, CanSettled
<1>2. Inv /\ SampleSettles /\ [Next]_vars => SampleSettles'
  BY SampleStep DEF Inv
<1> QED
  BY InvHolds, SampleInit, <1>1, <1>2, PTL DEF Spec

-----------------------------------------------------------------------------
(* The shutdown *)

LEMMA LastPassInit == Init => LastPass
  BY DEF Init, LastPass, I2cPending

LEMMA LastPassStep == Inv /\ LastPass /\ [Next]_vars => LastPass'
<1> SUFFICES ASSUME Inv, LastPass, [Next]_vars PROVE LastPass'
  OBVIOUS
<1> USE DEF LastPass, I2cPending
<1> USE DEF shutdown, cli, canTaskOnly, cliTaskOnly, i2c, ringVars, reader
<1>0. /\ staged \in Nat /\ shown \in Nat /\ i2cStaged \in Nat /\ i2cShown \in Nat /\ budget \in Nat
      /\ shown <= staged /\ i2cShown <= i2cStaged /\ owed.can \in Nat /\ owed.i2c \in Nat
      /\ requested \in BOOLEAN /\ final \in BOOLEAN
  BY DEF Inv, TypeOK, FramesConserved
<1>1. ASSUME StageFrame, UNCHANGED <<reader, i2c, shutdown, cli>>
      PROVE  LastPass'
  <2>1. staged <= staged' /\ staged' \in Nat
    BY <1>1, StageType DEF Inv, DropCount
  <2>2. owed'.can <= staged' - shown'
    BY <1>0, <1>1, <2>1
  <2> QED
    BY <1>0, <1>1, <2>2
<1>2. CASE RxInterrupt
  BY <1>1, <1>2 DEF RxInterrupt
<1>3. CASE StageTxFrame
  BY <1>1, <1>3 DEF StageTxFrame
<1>4. CASE \/ BeginSample \/ (\E f \in Field : WriteField(f)) \/ SetPending \/ EndBroadcast \/ FrameGate
           \/ Toggle \/ UNCHANGED vars
  BY <1>4 DEF BeginSample, WriteField, SetPending, EndBroadcast, FrameGate, Toggle, vars
<1>5. CASE I2cTransaction
  <2>1. i2cStaged' \in {i2cStaged, i2cStaged + 1} /\ UNCHANGED <<staged, shown, i2cShown, shutdown, cli>>
    BY <1>5 DEF I2cTransaction
  <2> QED
    BY <1>0, <2>1
<1>6. CASE EndCommands
  BY <1>6 DEF EndCommands
<1>7. CASE PrintAdc1 \/ (\E f \in Field : ReadField(f)) \/ ReadDropped \/ PrintSummary \/ TakeFrame
  BY <1>7 DEF PrintAdc1, ReadField, ReadDropped, PrintSummary, TakeFrame
<1>8. CASE PrintFrame
  <2>1. /\ shown' = shown + 1 /\ shown < staged /\ cliPc' = "frames"
        /\ UNCHANGED <<staged, i2cStaged, i2cShown, requested, final>>
    BY <1>8 DEF PrintFrame, Inv, FramesConserved
  <2>2. owed'.can = Less(owed.can, 1) /\ owed'.i2c = owed.i2c
    BY <1>8 DEF PrintFrame, Inv, TypeOK
  <2>3. owed'.can <= staged' - shown'
    BY <1>0, <2>1, <2>2 DEF Less
  <2> QED
    BY <2>1, <2>2, <2>3
<1>9. CASE EndFrames
  <2>1. UNCHANGED <<staged, shown, i2cStaged, i2cShown, shutdown, budget>> /\ cliPc' = "i2c"
    BY <1>9 DEF EndFrames
  <2>2. CASE budget = 0
    BY <2>1, <2>2
  <2>3. CASE tail = head
    <3>1. staged - shown \in Index /\ tail \in Index /\ head = At(tail, staged - shown)
      BY DEF Inv, FramesConserved, TypeOK, Index
    <3>2. staged - shown = 0
      BY <2>3, <3>1, AtZero, AtInjective DEF Index
    <3>3. owed.can = 0
      BY <1>0, <3>2
    <3> QED
      BY <2>1, <3>3
  <2> QED
    BY <1>9, <2>2, <2>3 DEF EndFrames
<1>10. CASE PrintI2c2
  <2> DEFINE n == Smaller(budget, I2cPending)
  <2>1. i2cShown' = i2cShown + n /\ budget' = budget - n /\ cliPc' = "report" /\ cliPc = "i2c"
    BY <1>10 DEF PrintI2c2
  <2>2. UNCHANGED <<staged, shown, i2cStaged, requested, final>>
    BY <1>10 DEF PrintI2c2
  <2>3. owed'.i2c = Less(owed.i2c, budget) /\ owed'.can = owed.can
    BY <1>10 DEF PrintI2c2, Inv, TypeOK
  <2>4. I2cPending \in Nat /\ owed.i2c <= I2cPending /\ I2cPending' = I2cPending - n
    BY <1>0, <2>1, <2>2 DEF Smaller
  <2>5. CASE I2cPending <= budget
    <3>1. n = I2cPending
      BY <1>0, <2>4, <2>5 DEF Smaller
    <3>2. owed'.i2c = 0
      BY <1>0, <2>3, <2>4, <2>5 DEF Less
    <3>3. n = 0 \/ budget # 0
      BY <1>0, <2>4, <2>5, <3>1
    <3>4. final => owed'.can = 0 \/ budget' = 0
      BY <1>0, <2>1, <2>3, <3>3
    <3> QED
      BY <1>0, <2>1, <2>2, <2>3, <2>4, <3>1, <3>2, <3>4
  <2>6. CASE ~(I2cPending <= budget)
    <3>1. n = budget /\ budget' = 0
      BY <1>0, <2>1, <2>4, <2>6 DEF Smaller
    <3>2. owed'.i2c <= I2cPending'
      BY <1>0, <2>3, <2>4, <2>6, <3>1 DEF Less
    <3> QED
      BY <2>1, <2>2, <2>3, <3>1, <3>2
  <2> QED
    BY <2>5, <2>6
<1>11. CASE ReportSuppressed
  BY <1>11 DEF ReportSuppressed
<1>12. CASE EndPrinting
  <2>1. CASE requested /\ ~final
    BY <1>12, <2>1 DEF EndPrinting, FinalPass
  <2>2. CASE ~(requested /\ ~final)
    BY <1>12, <2>2 DEF EndPrinting, FinalPass
  <2> QED
    BY <2>1, <2>2
<1>13. CASE RequestCliShutdown
  <2>1. /\ ~requested /\ owed' = [can |-> staged - shown, i2c |-> I2cPending] /\ final' = final
        /\ UNCHANGED <<staged, shown, i2cStaged, i2cShown, cliPc>>
    BY <1>13 DEF RequestCliShutdown
  <2>2. ~final
    BY <2>1
  <2> QED
    BY <1>0, <2>1, <2>2
<1>14. CASE Renumber
  <2>1. UNCHANGED <<shutdown, cli>> /\ staged' - shown' = staged - shown /\ I2cPending' = I2cPending
    BY <1>0, <1>14 DEF Renumber, RenumberFrames, RenumberDrops, RenumberI2c
  <2> QED
    BY <2>1
<1> QED
  BY <1>2, <1>3, <1>4, <1>5, <1>6, <1>7, <1>8, <1>9, <1>10, <1>11, <1>12, <1>13, <1>14
     DEF Next, CanTask, CliTask, DebugPrintPending

\* A line that was staged before the shutdown was requested is printed before
\* the task parks, unless the last pass used up its budget.
THEOREM DebugShutdownDrains == Spec => []ShutdownDrains
<1>1. LastPass => ShutdownDrains
  BY DEF LastPass, ShutdownDrains
<1> QED
  BY InvHolds, LastPassInit, LastPassStep, <1>1, PTL DEF Spec

=============================================================================
