---------------------------- MODULE UartRxProofs ----------------------------
(***************************************************************************)
(* What TLAPS proves of UartRx, for every size of the ring and every FIFO   *)
(* that is no smaller, however often the DMA goes around.                   *)
(***************************************************************************)
EXTENDS UartRx, TLAPS

\* The cell that lies j places after index r.
At(r, j) == IF r + j >= RingSize THEN r + j - RingSize ELSE r + j

Unread == written - Len(fed)

\* What the FIFO still has to take in this pass fits.
FifoBound ==
  /\ overflow = FALSE
  /\ pc \in {"drain", "check", "parked"} => Len(fed) = parsed
  /\ pc = "walk" => Len(fed) - parsed + Distance(readIndex, upto) <= RingSize - 1

\* While no lap was missed: the indices are as far apart as there are unread
\* bytes, the cells between them hold these bytes in order, and the walk that
\* runs ends at one of them.
Window ==
  /\ Unread \in 0..RingSize
  /\ writeIndex = At(readIndex, Unread)
  /\ \A j \in 0..Unread - 1 : ring[At(readIndex, j)] = Len(fed) + 1 + j
  /\ pc = "walk" => Distance(readIndex, upto) <= Unread
  /\ \A i \in 1..Len(fed) : fed[i] = i

\* How far the last pass has come.
LastPass ==
  /\ askedAt <= written
  /\ final /\ pc = "walk" => Len(fed) + Distance(readIndex, upto) >= askedAt
  /\ final /\ pc \in {"process", "parked"} => Len(fed) >= askedAt
  /\ pc = "parked" => final
  /\ final => requested

\* The inductive invariant, apart from LastPass.
Ordered == TypeOK /\ FifoBound /\ (~missed => Window)

USE UartRxAssumption

-----------------------------------------------------------------------------
(* The ring's arithmetic *)

LEMMA NextInRing ==
  ASSUME NEW r \in Index
  PROVE  NextIndex(r) \in Index
  BY DEF NextIndex, Index

LEMMA DistanceInRing ==
  ASSUME NEW r \in Index, NEW w \in Index
  PROVE  Distance(r, w) \in Index
  BY DEF Distance, Index

\* One turn of the walk brings the end one byte nearer.
LEMMA DistanceStep ==
  ASSUME NEW r \in Index, NEW w \in Index, r # w
  PROVE  Distance(r, w) >= 1 /\ Distance(NextIndex(r), w) = Distance(r, w) - 1
  BY DEF Distance, NextIndex, Index

\* A drain that begins before the ring is full sees all that is unread.
LEMMA DistanceOfWindow ==
  ASSUME NEW r \in Index, NEW u \in Index
  PROVE  Distance(r, At(r, u)) = u
  BY DEF Distance, At, Index

LEMMA AtInRing ==
  ASSUME NEW r \in Index, NEW j \in Index
  PROVE  At(r, j) \in Index
  BY DEF At, Index

LEMMA AtFromNext ==
  ASSUME NEW r \in Index, NEW j \in Index
  PROVE  At(NextIndex(r), j) = At(r, j + 1)
  BY DEF At, NextIndex, Index

LEMMA NextOfAt ==
  ASSUME NEW r \in Index, NEW j \in Index
  PROVE  NextIndex(At(r, j)) = At(r, j + 1)
  BY DEF At, NextIndex, Index

LEMMA AtInjective ==
  ASSUME NEW r \in Index, NEW j \in Index, NEW k \in Index, j # k
  PROVE  At(r, j) # At(r, k)
  BY DEF At, Index

-----------------------------------------------------------------------------
(* Types *)

LEMMA TypeInit == Init => TypeOK
  BY DEF Init, TypeOK, Index

LEMMA TypeStep == TypeOK /\ [Next]_vars => TypeOK'
<1> SUFFICES ASSUME TypeOK, [Next]_vars PROVE TypeOK'
  OBVIOUS
<1> USE DEF TypeOK
<1>1. CASE DmaReceive
  <2>1. ring' \in [Index -> 0..MaxBytes] /\ written' \in 0..MaxBytes
    BY <1>1 DEF DmaReceive
  <2>2. writeIndex' \in Index
    BY <1>1 DEF DmaReceive, Index
  <2>3. missed' \in BOOLEAN
    BY <1>1 DEF DmaReceive
  <2> QED
    BY <1>1, <2>1, <2>2, <2>3 DEF DmaReceive, fifo, line, shutdown
<1>2. CASE Overrun
  BY <1>2 DEF Overrun, dma, fifo, shutdown
<1>3. CASE HandleErrorIsr
  <2>1. overruns < MaxOverruns
    BY <1>3, Zenon DEF HandleErrorIsr
  <2>2. ore' = FALSE /\ overruns' = overruns + 1
    BY <1>3 DEF HandleErrorIsr
  <2>3. overruns' \in 0..MaxOverruns
    BY <2>1, <2>2
  <2>4. UNCHANGED <<dma, readIndex, upto, fifo, shutdown, pc, missed>>
    BY <1>3 DEF HandleErrorIsr
  <2> QED
    BY <2>2, <2>3, <2>4 DEF dma, fifo, shutdown
<1>4. CASE RequestCliShutdown
  BY <1>4 DEF RequestCliShutdown, dma, fifo, line
<1>5. CASE DrainRx
  <2>1. missed' \in BOOLEAN
    BY <1>5 DEF DrainRx
  <2> QED
    BY <1>5, <2>1 DEF DrainRx, dma, fifo, line, shutdown
<1>6. CASE WalkByte
  <2>1. readIndex' \in Index
    BY <1>6, NextInRing DEF WalkByte
  <2>2. Byte \in 0..MaxBytes
    BY DEF Byte
  <2>3. fed' = fed \/ fed' = Append(fed, Byte)
    BY <1>6 DEF WalkByte, ReceiveChar
  <2>4. fed' \in Seq(0..MaxBytes) /\ Len(fed') >= Len(fed) /\ Len(fed') \in Nat
    <3>1. CASE fed' = fed
      BY <3>1
    <3>2. CASE fed' = Append(fed, Byte)
      <4>1. fed' \in Seq(0..MaxBytes)
        BY <2>2, <3>2
      <4>2. Len(fed') = Len(fed) + 1 /\ Len(fed) \in Nat
        BY <3>2
      <4> QED
        BY <4>1, <4>2
    <3> QED
      BY <2>3, <3>1, <3>2
  <2>5. parsed' = parsed
    BY <1>6 DEF WalkByte
  <2>6. overflow' \in BOOLEAN
    <3>1. overflow' = overflow \/ overflow' = TRUE
      BY <1>6, Zenon DEF WalkByte, ReceiveChar
    <3> QED
      BY <3>1
  <2>7. parsed' \in 0..Len(fed')
    BY <2>4, <2>5
  <2>8. UNCHANGED <<dma, upto, line, shutdown, pc, missed>>
    BY <1>6 DEF WalkByte
  <2> QED
    BY <2>1, <2>4, <2>6, <2>7, <2>8 DEF dma, line, shutdown
<1>7. CASE DrainDone
  BY <1>7 DEF DrainDone, Rearm, dma, fifo, shutdown
<1>8. CASE Process
  <2>1. fed' = fed /\ parsed' = Len(fed) /\ overflow' = FALSE
    BY <1>8 DEF Process, Popped
  <2>2. parsed' \in 0..Len(fed')
    BY <2>1
  <2>3. pc' \in {"check", "parked"}
    BY <1>8 DEF Process
  <2>4. UNCHANGED <<dma, readIndex, upto, line, shutdown, missed>>
    BY <1>8 DEF Process
  <2> QED
    BY <2>1, <2>2, <2>3, <2>4 DEF dma, line, shutdown
<1>9. CASE NextPass
  BY <1>9 DEF NextPass, dma, fifo, line, shutdown
<1>10. CASE FinalPass
  BY <1>10 DEF FinalPass, dma, fifo, line
<1>11. CASE UNCHANGED vars
  BY <1>11 DEF vars, dma, fifo, line, shutdown
<1> QED
  BY <1>1, <1>2, <1>3, <1>4, <1>5, <1>6, <1>7, <1>8, <1>9, <1>10, <1>11 DEF Next, TaskCli

\* All variables stay in their ranges; the indices never leave the ring.
THEOREM UartTypeCorrect == Spec => []TypeOK
  BY TypeInit, TypeStep, PTL DEF Spec

-----------------------------------------------------------------------------
(* The FIFO *)

LEMMA FifoInit == Init => FifoBound
  BY DEF Init, FifoBound

LEMMA FifoStep == TypeOK /\ FifoBound /\ [Next]_vars => FifoBound'
<1> SUFFICES ASSUME TypeOK, FifoBound, [Next]_vars PROVE FifoBound'
  OBVIOUS
<1>0. Distance(readIndex, upto) \in Index
  BY DistanceInRing DEF TypeOK
<1>1. CASE DrainRx
  <2>1. Distance(readIndex, writeIndex) \in Index
    BY DistanceInRing DEF TypeOK
  <2> QED
    BY <1>1, <2>1 DEF DrainRx, FifoBound, TypeOK, Index, fifo
<1>2. CASE WalkByte
  <2>1. Distance(readIndex, upto) >= 1 /\ Distance(readIndex', upto') = Distance(readIndex, upto) - 1
    BY <1>2, DistanceStep DEF WalkByte, WalkEnd, TypeOK
  <2>2. Len(fed) - parsed < FifoSize - 1
    BY <1>2, <1>0, <2>1 DEF WalkByte, FifoBound, TypeOK, Index
  <2>3. fed' = Append(fed, Byte) /\ overflow' = overflow
    BY <1>2, <2>2 DEF WalkByte, ReceiveChar
  <2>4. Len(fed') = Len(fed) + 1
    BY <2>3 DEF TypeOK
  <2>5. overflow' = FALSE
    BY <2>3 DEF FifoBound
  <2> QED
    BY <1>2, <1>0, <2>1, <2>4, <2>5 DEF WalkByte, FifoBound, TypeOK, Index
<1>3. CASE Process
  BY <1>3 DEF Process, Popped, FifoBound
<1>4. CASE DrainDone
  BY <1>4 DEF DrainDone, FifoBound, fifo
<1>5. CASE NextPass
  BY <1>5 DEF NextPass, FifoBound, fifo
<1>6. CASE FinalPass
  BY <1>6 DEF FinalPass, FifoBound, fifo
<1>7. CASE DmaReceive \/ Overrun \/ HandleErrorIsr \/ RequestCliShutdown \/ UNCHANGED vars
  BY <1>7 DEF DmaReceive, Overrun, HandleErrorIsr, RequestCliShutdown, vars, FifoBound, fifo
<1> QED
  BY <1>1, <1>2, <1>3, <1>4, <1>5, <1>6, <1>7 DEF Next, TaskCli

\* CLI_RX_BUFFER_SIZE = kRxRingSize is enough: a pass never overflows the FIFO,
\* whatever the DMA does, as long as the FIFO is no smaller than the ring.
THEOREM FifoSuffices == Spec => []FifoNeverOverflows
<1>1. FifoBound => FifoNeverOverflows
  BY DEF FifoBound, FifoNeverOverflows
<1>2. TypeOK /\ FifoBound /\ [Next]_vars => (TypeOK /\ FifoBound)'
  BY TypeStep, FifoStep
<1> QED
  BY TypeInit, FifoInit, <1>1, <1>2, PTL DEF Spec

-----------------------------------------------------------------------------
(* The order of the bytes *)

\* A byte that the FIFO takes in is the next one of the line.
LEMMA ByteIsNext ==
  ASSUME TypeOK, FifoBound, Window, WalkByte
  PROVE  /\ Unread >= 1
         /\ Distance(readIndex, upto) >= 1
         /\ Distance(readIndex', upto') = Distance(readIndex, upto) - 1
         /\ fed' = Append(fed, Len(fed) + 1)
         /\ Len(fed') = Len(fed) + 1
<1>1. /\ Distance(readIndex, upto) >= 1
      /\ Distance(readIndex', upto') = Distance(readIndex, upto) - 1
      /\ Distance(readIndex, upto) \in Index
  BY DistanceStep, DistanceInRing DEF WalkByte, WalkEnd, TypeOK
<1>2. Unread >= 1
  <2>1. Distance(readIndex, upto) <= Unread
    BY DEF WalkByte, Window
  <2> QED
    BY <1>1, <2>1 DEF TypeOK, Index, Window
<1>3. Byte = Len(fed) + 1
  <2>1. At(readIndex, 0) = readIndex
    BY DEF At, TypeOK, Index
  <2>2. 0 \in 0..Unread - 1
    BY <1>2 DEF Window
  <2>3. ring[At(readIndex, 0)] = Len(fed) + 1 + 0
    BY <2>2 DEF Window
  <2>4. Len(fed) + 1 + 0 = Len(fed) + 1
    BY DEF TypeOK
  <2> QED
    BY <2>1, <2>3, <2>4 DEF Byte
<1>4. Len(fed) - parsed < FifoSize - 1
  <2> DEFINE length == Len(fed)
             walk == Distance(readIndex, upto)
  <2>1. length \in Nat /\ parsed \in Nat /\ walk \in Nat /\ walk >= 1 /\ length - parsed + walk <= RingSize - 1
    BY <1>1 DEF WalkByte, FifoBound, TypeOK, Index
  <2>2. RingSize \in Nat /\ FifoSize \in Nat /\ RingSize <= FifoSize
    BY UartRxAssumption
  <2> HIDE DEF length, walk
  <2>3. length - parsed < FifoSize - 1
    BY <2>1, <2>2
  <2> QED
    BY <2>3 DEF length
<1>5. fed' = Append(fed, Len(fed) + 1)
  BY <1>3, <1>4 DEF WalkByte, ReceiveChar
<1>6. Len(fed') = Len(fed) + 1
  BY <1>5 DEF TypeOK
<1> QED
  BY <1>1, <1>2, <1>5, <1>6

\* A byte the DMA stores extends the window at its end.
LEMMA WindowReceive ==
  ASSUME TypeOK, Window, DmaReceive, ~missed'
  PROVE  Window'
<1>1. ~Lapping
  BY Zenon DEF DmaReceive
<1>2. Unread \in Index /\ Len(fed) \in Nat
  BY <1>1 DEF Lapping, Unread, Window, TypeOK, Index
<1>3. writeIndex = At(readIndex, Unread)
  BY DEF Window
<1>4. fed' = fed /\ readIndex' = readIndex /\ upto' = upto /\ pc' = pc
  BY DEF DmaReceive, fifo
<1>5. Unread' = Unread + 1
  BY <1>4 DEF DmaReceive, Unread, TypeOK
<1>6. writeIndex' = At(readIndex, Unread + 1)
  <2>1. writeIndex' = NextIndex(writeIndex)
    BY DEF DmaReceive, NextIndex
  <2> QED
    BY <1>2, <1>3, <2>1, NextOfAt DEF TypeOK
<1>7. ASSUME NEW j \in 0..Unread
      PROVE  ring'[At(readIndex, j)] = Len(fed) + 1 + j
  <2>0. j \in Index
    BY <1>2 DEF Index
  <2>1. At(readIndex, j) \in Index /\ j \in Index
    BY <2>0, AtInRing DEF TypeOK
  <2>2. ring' = [ring EXCEPT ![writeIndex] = written + 1]
    BY DEF DmaReceive
  <2>3. CASE j = Unread
    BY <1>2, <1>3, <2>1, <2>2, <2>3 DEF TypeOK, Unread
  <2>4. CASE j # Unread
    <3>1. At(readIndex, j) # writeIndex
      BY <1>2, <1>3, <2>1, <2>4, AtInjective DEF TypeOK
    <3>2. ring[At(readIndex, j)] = Len(fed) + 1 + j
      BY <1>2, <2>4 DEF Window, Index
    <3> QED
      BY <2>1, <2>2, <3>1, <3>2 DEF TypeOK
  <2> QED
    BY <2>3, <2>4
<1>8. Unread' \in 0..RingSize
  BY <1>2, <1>5 DEF Index
<1>9. writeIndex' = At(readIndex', Unread')
  BY <1>4, <1>5, <1>6
<1>10. \A j \in 0..Unread' - 1 : ring'[At(readIndex', j)] = Len(fed') + 1 + j
  BY <1>2, <1>4, <1>5, <1>7 DEF Index
<1>11. pc' = "walk" => Distance(readIndex', upto') <= Unread'
  <2>1. Distance(readIndex, upto) \in Index
    BY DistanceInRing DEF TypeOK
  <2> QED
    BY <1>2, <1>4, <1>5, <2>1 DEF Window, Index
<1>12. \A i \in 1..Len(fed') : fed'[i] = i
  BY <1>4 DEF Window
<1> QED
  BY <1>8, <1>9, <1>10, <1>11, <1>12 DEF Window

\* A byte the walk hands on leaves the window at its beginning.
LEMMA WindowWalk ==
  ASSUME TypeOK, FifoBound, Window, WalkByte
  PROVE  Window'
<1>1. /\ Unread >= 1 /\ Unread \in 0..RingSize
      /\ Distance(readIndex', upto') = Distance(readIndex, upto) - 1
      /\ fed' = Append(fed, Len(fed) + 1)
      /\ Len(fed') = Len(fed) + 1
  BY ByteIsNext DEF Window
<1>2. ring' = ring /\ writeIndex' = writeIndex /\ written' = written
  BY DEF WalkByte, dma
<1>3. readIndex' = NextIndex(readIndex)
  BY DEF WalkByte
<1>4. Unread' = Unread - 1 /\ Unread' \in Index
  BY <1>1, <1>2 DEF Unread, TypeOK, Index
<1>5. writeIndex' = At(readIndex', Unread')
  <2>1. At(NextIndex(readIndex), Unread - 1) = At(readIndex, Unread)
    BY <1>1, <1>4, AtFromNext DEF TypeOK
  <2> QED
    BY <1>2, <1>3, <1>4, <2>1 DEF Window
<1>6. ASSUME NEW j \in 0..Unread' - 1
      PROVE  ring'[At(readIndex', j)] = Len(fed') + 1 + j
  <2>1. j \in Index /\ j + 1 \in 0..Unread - 1
    BY <1>1, <1>4 DEF Index
  <2>2. At(readIndex', j) = At(readIndex, j + 1)
    BY <1>3, <2>1, AtFromNext DEF TypeOK
  <2>3. ring[At(readIndex, j + 1)] = Len(fed) + 1 + (j + 1)
    BY <2>1 DEF Window
  <2>4. Len(fed) \in Nat
    BY DEF TypeOK
  <2> QED
    BY <1>1, <1>2, <2>1, <2>2, <2>3, <2>4 DEF Index
<1>7. Distance(readIndex', upto') <= Unread'
  <2>1. Distance(readIndex, upto) <= Unread /\ Distance(readIndex, upto) \in Index
    BY DistanceInRing DEF WalkByte, Window, TypeOK
  <2> QED
    BY <1>1, <1>4, <2>1 DEF Index
<1>8. ASSUME NEW i \in 1..Len(fed')
      PROVE  fed'[i] = i
  <2>1. Len(fed) \in Nat /\ fed \in Seq(0..MaxBytes)
    BY DEF TypeOK
  <2>2. CASE i = Len(fed) + 1
    BY <1>1, <2>1, <2>2
  <2>3. CASE i \in 1..Len(fed)
    <3>1. fed[i] = i
      BY <2>3 DEF Window
    <3> QED
      BY <1>1, <2>1, <2>3, <3>1
  <2> QED
    BY <1>1, <2>1, <2>2, <2>3
<1>9. Unread' \in 0..RingSize
  BY <1>4 DEF Index
<1> QED
  BY <1>5, <1>6, <1>7, <1>8, <1>9 DEF Window

\* The other steps leave the window alone, and a drain that begins in time aims
\* at its end.
LEMMA WindowDrain ==
  ASSUME TypeOK, Window, DrainRx, ~missed'
  PROVE  Window' /\ Distance(readIndex', upto') = Unread'
<1>1. ~Lapping
  BY Zenon DEF DrainRx
<1>2. Unread \in Index
  BY <1>1 DEF Lapping, Unread, Window, TypeOK, Index
<1>3. /\ ring' = ring /\ writeIndex' = writeIndex /\ written' = written
      /\ fed' = fed /\ readIndex' = readIndex /\ upto' = writeIndex
  BY DEF DrainRx, dma, fifo
<1>4. Unread' = Unread
  BY <1>3 DEF Unread
<1>5. Distance(readIndex, writeIndex) = Unread
  BY <1>2, DistanceOfWindow DEF Window, TypeOK
<1>6. Distance(readIndex', upto') = Unread'
  BY <1>3, <1>4, <1>5
<1> QED
  BY <1>2, <1>3, <1>4, <1>6 DEF Window, Index

Elsewhere ==
  \/ Overrun \/ HandleErrorIsr \/ RequestCliShutdown
  \/ DrainDone \/ Process \/ NextPass \/ FinalPass \/ UNCHANGED vars

LEMMA WindowElsewhere ==
  ASSUME Window, Elsewhere
  PROVE  Window' /\ Unread' = Unread
<1>1. /\ ring' = ring /\ writeIndex' = writeIndex /\ written' = written
      /\ fed' = fed /\ readIndex' = readIndex /\ upto' = upto
  BY DEF Elsewhere, Overrun, HandleErrorIsr, RequestCliShutdown, DrainDone, Process,
         NextPass, FinalPass, vars, dma, fifo
<1>2. pc' = "walk" => pc = "walk"
  BY DEF Elsewhere, Overrun, HandleErrorIsr, RequestCliShutdown, DrainDone, Process,
         NextPass, FinalPass, vars
<1>3. Unread' = Unread
  BY <1>1 DEF Unread
<1> QED
  BY <1>1, <1>2, <1>3 DEF Window

\* Once a lap was missed, nothing is claimed any more.
LEMMA MissedForGood == missed /\ [Next]_vars => missed'
<1> SUFFICES ASSUME missed, [Next]_vars PROVE missed'
  OBVIOUS
<1>1. CASE DmaReceive \/ DrainRx
  BY <1>1, Zenon DEF DmaReceive, DrainRx
<1>2. CASE Overrun \/ HandleErrorIsr \/ RequestCliShutdown \/ WalkByte \/ DrainDone
           \/ Process \/ NextPass \/ FinalPass \/ UNCHANGED vars
  <2>1. missed' = missed
    BY <1>2 DEF Overrun, HandleErrorIsr, RequestCliShutdown, WalkByte, DrainDone, Process,
                NextPass, FinalPass, vars
  <2> QED
    BY <2>1
<1> QED
  BY <1>1, <1>2 DEF Next, TaskCli

LEMMA WindowStep == TypeOK /\ FifoBound /\ (~missed => Window) /\ [Next]_vars => (~missed => Window)'
<1> SUFFICES ASSUME TypeOK, FifoBound, ~missed => Window, [Next]_vars, ~missed' PROVE Window'
  OBVIOUS
<1>1. Window
  BY MissedForGood
<1>2. DmaReceive \/ WalkByte \/ DrainRx \/ Elsewhere
  BY DEF Next, TaskCli, Elsewhere
<1> QED
  BY <1>1, <1>2, WindowReceive, WindowWalk, WindowDrain, WindowElsewhere

LEMMA OrderedInvariant == Spec => []Ordered
<1>1. Init => Ordered
  <2>1. ASSUME Init PROVE Window
    <3>1. written = 0 /\ readIndex = 0 /\ writeIndex = 0 /\ pc = "drain"
      BY <2>1 DEF Init
    <3>2. Len(fed) = 0
      BY <2>1 DEF Init
    <3>3. Unread = 0
      BY <3>1, <3>2 DEF Unread
    <3>4. writeIndex = At(readIndex, Unread)
      BY <3>1, <3>3 DEF At
    <3> QED
      BY <3>1, <3>2, <3>3, <3>4 DEF Window
  <2> QED
    BY <2>1, TypeInit, FifoInit DEF Ordered
<1>2. Ordered /\ [Next]_vars => Ordered'
  BY TypeStep, FifoStep, WindowStep DEF Ordered
<1> QED
  BY <1>1, <1>2, PTL DEF Spec

\* As long as no lap of the DMA was missed, the parser is fed the bytes of the
\* line in order, none missing and none twice.
THEOREM UartKeepsOrder == Spec => []BytesInOrder
<1>1. Ordered => BytesInOrder
  BY DEF Ordered, Window, BytesInOrder
<1> QED
  BY <1>1, OrderedInvariant, PTL

-----------------------------------------------------------------------------
(* The last pass of a shutdown *)

LEMMA LastPassStep == Ordered /\ (~missed => LastPass) /\ [Next]_vars => (~missed => LastPass)'
<1> SUFFICES ASSUME Ordered, ~missed => LastPass, [Next]_vars, ~missed' PROVE LastPass'
  OBVIOUS
<1> DEFINE left == Distance(readIndex, upto)
<1>1. Window /\ LastPass /\ TypeOK /\ FifoBound
  BY MissedForGood DEF Ordered
<1>2. Len(fed) \in Nat /\ written \in Nat /\ askedAt \in Nat /\ left \in Nat
  <2>1. left \in Index
    BY <1>1, DistanceInRing DEF TypeOK
  <2>2. Len(fed) \in Nat /\ written \in Nat /\ askedAt \in Nat
    BY <1>1 DEF TypeOK
  <2> QED
    BY <2>1, <2>2 DEF Index
<1>3. CASE DmaReceive
  <2>1. written' = written + 1 /\ askedAt' = askedAt /\ fed' = fed /\ readIndex' = readIndex /\ upto' = upto
    BY <1>3 DEF DmaReceive, fifo, shutdown
  <2>2. UNCHANGED <<final, requested, pc>>
    BY <1>3 DEF DmaReceive, shutdown
  <2>3. askedAt' <= written'
    BY <1>1, <1>2, <2>1 DEF LastPass
  <2> QED
    BY <1>1, <2>1, <2>2, <2>3, Zenon DEF LastPass
<1>4. CASE WalkByte
  <2>1. Distance(readIndex', upto') = left - 1 /\ Len(fed') = Len(fed) + 1
    BY <1>1, <1>4, ByteIsNext
  <2>2. Len(fed') + Distance(readIndex', upto') = Len(fed) + left
    BY <1>2, <2>1
  <2>3. pc = "walk" /\ pc' = pc /\ final' = final /\ askedAt' = askedAt /\ written' = written
    BY <1>4 DEF WalkByte, dma, shutdown
  <2>4. final /\ pc = "walk" => Len(fed) + left >= askedAt
    BY <1>1, Zenon DEF LastPass
  <2>5. final' /\ pc' = "walk" => Len(fed') + Distance(readIndex', upto') >= askedAt'
    BY <2>2, <2>3, <2>4
  <2>6. askedAt' <= written' /\ pc' = "walk"
    BY <1>1, <2>3 DEF LastPass
  <2>7. final' => requested'
    BY <1>1, <1>4, Zenon DEF WalkByte, LastPass, shutdown
  <2> QED
    BY <2>5, <2>6, <2>7 DEF LastPass
<1>5. CASE DrainRx
  <2>1. Distance(readIndex', upto') = Unread'
    BY <1>1, <1>5, WindowDrain
  <2>2. fed' = fed /\ written' = written /\ askedAt' = askedAt /\ pc' = "walk"
    BY <1>5 DEF DrainRx, dma, fifo, shutdown
  <2>3. Len(fed') + Distance(readIndex', upto') = written
    BY <1>2, <2>1, <2>2 DEF Unread
  <2>4. askedAt <= written
    BY <1>1 DEF LastPass
  <2>5. askedAt' <= written' /\ Len(fed') + Distance(readIndex', upto') >= askedAt'
    BY <1>2, <2>2, <2>3, <2>4
  <2>6. final' => requested'
    BY <1>1, <1>5, Zenon DEF DrainRx, LastPass, shutdown
  <2> QED
    BY <2>2, <2>5, <2>6 DEF LastPass
<1>6. CASE DrainDone
  <2>1. left = 0
    BY <1>1, <1>6 DEF DrainDone, WalkEnd, Distance, TypeOK, Index
  <2>2. /\ pc = "walk" /\ pc' = "process" /\ fed' = fed /\ written' = written
        /\ final' = final /\ askedAt' = askedAt
    BY <1>6 DEF DrainDone, dma, fifo, shutdown
  <2>3. askedAt' <= written'
    BY <1>1, <2>2 DEF LastPass
  <2>4. final => Len(fed) + left >= askedAt
    BY <1>1, <2>2, Zenon DEF LastPass
  <2>5. final => Len(fed) >= askedAt
    BY <1>2, <2>1, <2>4
  <2>6. final' => Len(fed') >= askedAt'
    BY <2>2, <2>5
  <2>7. final' => requested'
    BY <1>1, <1>6, Zenon DEF DrainDone, LastPass, shutdown
  <2> QED
    BY <2>2, <2>3, <2>6, <2>7 DEF LastPass
<1>7. CASE Process
  <2>1. /\ pc = "process" /\ fed' = fed /\ written' = written
        /\ final' = final /\ askedAt' = askedAt
    BY <1>7 DEF Process, dma, shutdown
  <2>2. (pc' = "parked" /\ final) \/ pc' = "check"
    BY <1>7, Zenon DEF Process
  <2>3. askedAt' <= written'
    BY <1>1, <2>1 DEF LastPass
  <2>4. final => Len(fed) >= askedAt
    BY <1>1, <2>1, Zenon DEF LastPass
  <2>5. final' => Len(fed') >= askedAt'
    BY <2>1, <2>4
  <2>6. final' => requested'
    BY <1>1, <1>7, Zenon DEF Process, LastPass, shutdown
  <2>7. pc' = "parked" => final'
    BY <2>1, <2>2
  <2>8. pc' # "walk"
    BY <2>2
  <2> QED
    BY <2>3, <2>5, <2>6, <2>7, <2>8 DEF LastPass
<1>8. CASE RequestCliShutdown
  <2>1. ~final
    BY <1>1, <1>8 DEF RequestCliShutdown, LastPass
  <2> QED
    BY <1>1, <1>2, <1>8, <2>1 DEF RequestCliShutdown, LastPass, dma, fifo
<1>9. CASE FinalPass
  BY <1>1, <1>9 DEF FinalPass, LastPass, dma, fifo
<1>10. CASE NextPass
  BY <1>1, <1>10 DEF NextPass, LastPass, dma, fifo, shutdown
<1>11. CASE Overrun \/ HandleErrorIsr \/ UNCHANGED vars
  BY <1>1, <1>11 DEF Overrun, HandleErrorIsr, vars, LastPass, dma, fifo, shutdown
<1> QED
  BY <1>3, <1>4, <1>5, <1>6, <1>7, <1>8, <1>9, <1>10, <1>11 DEF Next, TaskCli

\* When the task has parked, every byte that had arrived when the shutdown was
\* requested has been parsed, unless a lap was missed.
THEOREM UartShutdownTakesAll == Spec => []ShutdownTakesAll
<1>1. Init => (~missed => LastPass)
  BY DEF Init, LastPass
<1>2. Ordered /\ (~missed => LastPass) => ShutdownTakesAll
  BY DEF Ordered, FifoBound, LastPass, ShutdownTakesAll
<1> QED
  BY <1>1, <1>2, OrderedInvariant, LastPassStep, PTL DEF Spec
=============================================================================
