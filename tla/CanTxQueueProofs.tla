-------------------------- MODULE CanTxQueueProofs --------------------------
(***************************************************************************)
(* What TLAPS proves of CanTxQueue, for every ring, any number of mailboxes *)
(* and any number of frames.                                                *)
(***************************************************************************)
EXTENDS CanTxQueue, FiniteSetTheorems, TLAPS

USE CanTxQueueAssumption

-----------------------------------------------------------------------------
(* The ring's arithmetic, without division *)

\* The slot that lies i places after slot h, and how far t lies behind h.
Cell(h, i) == IF h + i >= Capacity THEN h + i - Capacity ELSE h + i
Gap(h, t) == IF t >= h THEN t - h ELSE t - h + Capacity

LEMMA AtIsCell ==
  ASSUME head \in Index, NEW i \in Index
  PROVE  At(i) = Cell(head, i)
  BY DEF At, Cell, Index

LEMMA WrapsInRing ==
  ASSUME NEW x \in Int
  PROVE  x % Capacity \in Index
<1>1. Capacity \in Nat /\ Capacity > 0
  OBVIOUS
<1> QED
  BY <1>1 DEF Index

LEMMA CountIsGap ==
  ASSUME head \in Index, tail \in Index
  PROVE  Count = Gap(head, tail)
  BY DEF Count, Gap, Index

LEMMA NextIsCell ==
  ASSUME NEW t \in Index
  PROVE  (t + 1) % Capacity = Cell(t, 1)
  BY DEF Cell, Index

LEMMA CellInRing ==
  ASSUME NEW h \in Index, NEW i \in Index
  PROVE  Cell(h, i) \in Index
  BY DEF Cell, Index

LEMMA GapInRing ==
  ASSUME NEW h \in Index, NEW t \in Index
  PROVE  Gap(h, t) \in Index /\ (Gap(h, t) = 0 <=> h = t)
  BY DEF Gap, Index

\* What is between head and tail when the head moves n slots on.
LEMMA GapFromCell ==
  ASSUME NEW h \in Index, NEW t \in Index, NEW n \in 0..Gap(h, t)
  PROVE  Gap(Cell(h, n), t) = Gap(h, t) - n
  BY DEF Gap, Cell, Index

LEMMA CellFromCell ==
  ASSUME NEW h \in Index, NEW n \in Index, NEW i \in Index, n + i < Capacity
  PROVE  Cell(Cell(h, n), i) = Cell(h, n + i)
  BY DEF Cell, Index

\* What an enqueue adds: one place, the slot at the tail, which no other place is.
LEMMA GapGrows ==
  ASSUME NEW h \in Index, NEW t \in Index, Cell(t, 1) # h
  PROVE  /\ Gap(h, Cell(t, 1)) = Gap(h, t) + 1
         /\ Cell(h, Gap(h, t)) = t
         /\ \A i \in 0..Gap(h, t) - 1 : Cell(h, i) # t
  BY DEF Gap, Cell, Index

-----------------------------------------------------------------------------
(* The mailboxes *)

LEMMA BoxesFinite ==
  ASSUME NEW F \in SUBSET Box
  PROVE  IsFiniteSet(F) /\ Cardinality(F) \in Nat
<1>1. IsFiniteSet(Box)
  BY FS_Interval DEF Box
<1> QED
  BY <1>1, FS_Subset, FS_CardinalityType

\* For every number below their number there is a mailbox with that many of
\* them before it.
LEMMA RankTaken ==
  ASSUME NEW F \in SUBSET Box, NEW k \in 0..Cardinality(F) - 1
  PROVE  \E b \in F : Cardinality({c \in F : c < b}) = k
<1> DEFINE Before(b) == {c \in F : c < b}
           rank == [b \in F |-> Cardinality(Before(b))]
           Ranks == 0..Cardinality(F) - 1
<1>1. IsFiniteSet(F) /\ Cardinality(F) \in Nat
  BY BoxesFinite
<1>2. \A b \in F : IsFiniteSet(Before(b)) /\ Cardinality(Before(b)) \in Nat
  BY BoxesFinite
<1>3. \A b \in F : Cardinality(Before(b)) \in Ranks
  <2> TAKE b \in F
  <2>1. IsFiniteSet(F \ {b}) /\ Cardinality(F \ {b}) = Cardinality(F) - 1
    BY <1>1, FS_RemoveElement
  <2>2. Before(b) \in SUBSET (F \ {b})
    BY DEF Box
  <2>3. Cardinality(Before(b)) <= Cardinality(F \ {b})
    BY <2>1, <2>2, FS_Subset
  <2> HIDE DEF Before
  <2> QED
    BY <1>1, <1>2, <2>1, <2>3
<1>4. \A x, y \in F : x < y => Cardinality(Before(x)) < Cardinality(Before(y))
  <2> SUFFICES ASSUME NEW x \in F, NEW y \in F, x < y
               PROVE  Cardinality(Before(x)) < Cardinality(Before(y))
    OBVIOUS
  <2>1. Before(x) \in SUBSET (Before(y) \ {x}) /\ x \in Before(y)
    <3>1. \A c \in F : c < x => c < y /\ c # x
      BY DEF Box
    <3> QED
      BY <3>1
  <2>2. IsFiniteSet(Before(y) \ {x}) /\ Cardinality(Before(y) \ {x}) = Cardinality(Before(y)) - 1
    BY <1>2, <2>1, FS_RemoveElement
  <2>3. Cardinality(Before(x)) <= Cardinality(Before(y) \ {x})
    BY <2>1, <2>2, FS_Subset
  <2> HIDE DEF Before
  <2> QED
    BY <1>2, <2>2, <2>3
<1>5. rank \in Injection(F, Ranks)
  <2>1. rank \in [F -> Ranks]
    BY <1>3
  <2>2. \A x, y \in F : rank[x] = rank[y] => x = y
    <3> SUFFICES ASSUME NEW x \in F, NEW y \in F, x # y PROVE Cardinality(Before(x)) # Cardinality(Before(y))
      OBVIOUS
    <3>1. x < y \/ y < x
      BY DEF Box
    <3> HIDE DEF Before
    <3> QED
      BY <1>2, <1>4, <3>1
  <2> QED
    BY <2>1, <2>2 DEF Injection, IsInjective
<1>6. IsFiniteSet(Ranks) /\ Cardinality(Ranks) = Cardinality(F)
  BY <1>1, FS_Interval
<1>7. rank \in Surjection(F, Ranks)
  BY <1>5, <1>6, FS_Injection
<1>8. \E b \in F : rank[b] = k
  BY <1>7 DEF Surjection
<1> QED
  BY <1>8

LEMMA FreeBoxesFinite ==
  /\ FreeBoxes \in SUBSET Box
  /\ IsFiniteSet(FreeBoxes) /\ Cardinality(FreeBoxes) \in Nat
  /\ FreeBoxes # {} <=> Cardinality(FreeBoxes) > 0
<1>1. FreeBoxes \in SUBSET Box
  BY DEF FreeBoxes
<1>2. IsFiniteSet(FreeBoxes) /\ Cardinality(FreeBoxes) \in Nat
  BY <1>1, BoxesFinite
<1>3. Cardinality(FreeBoxes) = 0 <=> FreeBoxes = {}
  BY <1>2, FS_EmptySet
<1> QED
  BY <1>1, <1>2, <1>3

LEMMA FirstFreeIsFree ==
  ASSUME FreeBoxes # {}
  PROVE  FirstFree \in FreeBoxes
<1>1. PICK b \in FreeBoxes : Cardinality({c \in FreeBoxes : c < b}) = 0
  BY FreeBoxesFinite, RankTaken
<1>2. {c \in FreeBoxes : c < b} = {}
  <2>1. {c \in FreeBoxes : c < b} \in SUBSET Box
    BY FreeBoxesFinite
  <2>2. IsFiniteSet({c \in FreeBoxes : c < b})
    BY <2>1, BoxesFinite
  <2> QED
    BY <1>1, <2>2, FS_EmptySet
<1>3. \A c \in FreeBoxes : b <= c
  BY <1>2, FreeBoxesFinite DEF Box
<1> QED
  BY <1>3 DEF FirstFree

\* No mailbox has two requests.
Distinct(s) == \A i, j \in 1..Len(s) : s[i] = s[j] => i = j

LEMMA FirstFreeBoxesAreFree ==
  ASSUME NEW n \in 0..Cardinality(FreeBoxes)
  PROVE  /\ FirstFreeBoxes(n) \in Seq(Box) /\ Len(FirstFreeBoxes(n)) = n
         /\ \A i \in 1..n : FirstFreeBoxes(n)[i] \in FreeBoxes
         /\ Distinct(FirstFreeBoxes(n))
<1> DEFINE Before(b) == Cardinality({c \in FreeBoxes : c < b})
           Choice(i) == CHOOSE b \in FreeBoxes : Before(b) = i - 1
<1>1. \A i \in 1..n : Choice(i) \in FreeBoxes /\ Before(Choice(i)) = i - 1
  <2> TAKE i \in 1..n
  <2>1. \E b \in FreeBoxes : Before(b) = i - 1
    <3>1. i - 1 \in 0..Cardinality(FreeBoxes) - 1
      BY FreeBoxesFinite
    <3> QED
      BY <3>1, FreeBoxesFinite, RankTaken
  <2> HIDE DEF Before
  <2> QED
    BY <2>1
<1>2. FirstFreeBoxes(n) = [i \in 1..n |-> Choice(i)]
  BY DEF FirstFreeBoxes
<1>3. n \in Nat /\ FreeBoxes \subseteq Box
  BY FreeBoxesFinite
<1> HIDE DEF Choice, Before
<1>4. FirstFreeBoxes(n) \in Seq(Box) /\ Len(FirstFreeBoxes(n)) = n
  BY <1>1, <1>2, <1>3
<1>5. \A i \in 1..n : FirstFreeBoxes(n)[i] = Choice(i)
  BY <1>2
<1>6. \A i, j \in 1..n : Choice(i) = Choice(j) => i = j
  <2> SUFFICES ASSUME NEW i \in 1..n, NEW j \in 1..n, Choice(i) = Choice(j) PROVE i = j
    OBVIOUS
  <2>1. i - 1 = j - 1
    BY <1>1
  <2> QED
    BY <2>1
<1> QED
  BY <1>1, <1>4, <1>5, <1>6 DEF Distinct

LEMMA DistinctCounts ==
  ASSUME NEW s \in Seq(Box), Distinct(s)
  PROVE  Len(s) = Cardinality({s[i] : i \in 1..Len(s)})
<1> DEFINE S == {s[i] : i \in 1..Len(s)}
<1>1. s \in [1..Len(s) -> S] /\ Len(s) \in Nat /\ DOMAIN s = 1..Len(s)
  OBVIOUS
<1>2. s \in Bijection(1..Len(s), S)
  BY <1>1 DEF Bijection, Injection, Surjection, IsInjective, Distinct
<1>3. ExistsBijection(1..Len(s), S)
  BY <1>2 DEF ExistsBijection
<1> HIDE DEF S
<1>4. Cardinality(S) = Len(s)
  BY <1>1, <1>3, FS_CountingElements
<1> QED
  BY <1>4 DEF S

-----------------------------------------------------------------------------
(* Types *)

\* The bound on frames is tested once for the two that a broadcast builds.
Building ==
  /\ pc = "enqueue1" => built + 2 <= MaxFrames
  /\ pc = "enqueue2" => built + 1 <= MaxFrames

TypeInv == TypeOK /\ Distinct(pending) /\ Building

LEMMA TypeInit == Init => TypeInv
<1> SUFFICES ASSUME Init PROVE TypeInv
  OBVIOUS
<1>1. pending \in Seq(Box) /\ Len(pending) = 0
  BY DEF Init
<1>2. Distinct(pending)
  BY <1>1 DEF Distinct
<1>3. Len(pending) = Cardinality(BusyBoxes)
  BY <1>1, <1>2, DistinctCounts DEF BusyBoxes
<1>4. {onBus, notify, enabled, raced, failed} \subseteq BOOLEAN
  BY DEF Init
<1> QED
  BY <1>1, <1>2, <1>3, <1>4 DEF Init, TypeInv, TypeOK, Building, Index, Box

\* What a step has to keep of the mailboxes.
LEMMA BoxesKeepType ==
  ASSUME pending' \in Seq(Box), Distinct(pending)'
  PROVE  Len(pending)' = Cardinality(BusyBoxes)'
<1>1. Len(pending') = Cardinality({pending'[i] : i \in 1..Len(pending')})
  BY DistinctCounts DEF Distinct
<1> QED
  BY <1>1 DEF BusyBoxes

LEMMA AppendFree ==
  ASSUME pending \in Seq(Box), Distinct(pending), NEW b \in FreeBoxes
  PROVE  Append(pending, b) \in Seq(Box) /\ Distinct(Append(pending, b))
<1>1. b \in Box /\ \A i \in 1..Len(pending) : pending[i] # b
  BY DEF FreeBoxes, BusyBoxes
<1> QED
  BY <1>1 DEF Distinct

LEMMA AppendFreeBoxes ==
  ASSUME pending \in Seq(Box), Distinct(pending), NEW n \in 0..Cardinality(FreeBoxes)
  PROVE  /\ pending \o FirstFreeBoxes(n) \in Seq(Box)
         /\ Distinct(pending \o FirstFreeBoxes(n))
<1> DEFINE s == FirstFreeBoxes(n)
<1>1. s \in Seq(Box) /\ Len(s) = n /\ Distinct(s) /\ n \in Nat
  BY FirstFreeBoxesAreFree, FreeBoxesFinite
<1>2. \A i \in 1..Len(pending) : \A j \in 1..n : pending[i] # s[j]
  BY FirstFreeBoxesAreFree DEF FreeBoxes, BusyBoxes
<1> HIDE DEF s
<1>3. \A i \in 1..Len(pending \o s) : (pending \o s)[i] = IF i <= Len(pending) THEN pending[i] ELSE s[i - Len(pending)]
  BY <1>1
<1>4. pending \o s \in Seq(Box) /\ Len(pending \o s) = Len(pending) + n
  BY <1>1
<1>5. Distinct(pending \o s)
  <2> SUFFICES ASSUME NEW i \in 1..Len(pending \o s), NEW j \in 1..Len(pending \o s),
                      (pending \o s)[i] = (pending \o s)[j]
               PROVE  i = j
    BY DEF Distinct
  <2>1. CASE i <= Len(pending) /\ j <= Len(pending)
    BY <1>3, <1>4, <2>1 DEF Distinct
  <2>2. CASE i <= Len(pending) /\ j > Len(pending)
    BY <1>1, <1>2, <1>3, <1>4, <2>2
  <2>3. CASE i > Len(pending) /\ j <= Len(pending)
    BY <1>1, <1>2, <1>3, <1>4, <2>3
  <2>4. CASE i > Len(pending) /\ j > Len(pending)
    <3>1. i - Len(pending) \in 1..n /\ j - Len(pending) \in 1..n
      BY <1>1, <1>4, <2>4
    <3>2. s[i - Len(pending)] = s[j - Len(pending)]
      BY <1>3, <1>4, <2>4
    <3> QED
      BY <1>1, <1>4, <3>1, <3>2 DEF Distinct
  <2> QED
    BY <1>4, <2>1, <2>2, <2>3, <2>4
<1> QED
  BY <1>4, <1>5 DEF s

LEMMA AtInRing ==
  ASSUME head \in Index, NEW i \in Int
  PROVE  At(i) \in Index
<1>1. head + i \in Int
  BY DEF Index
<1> QED
  BY <1>1, WrapsInRing DEF At

LEMMA BusyAreBoxes ==
  ASSUME pending \in Seq(Box)
  PROVE  BusyBoxes \subseteq Box
<1>1. \A i \in 1..Len(pending) : pending[i] \in Box
  OBVIOUS
<1> QED
  BY <1>1 DEF BusyBoxes

LEMMA BoxesUnchanged ==
  ASSUME Len(pending) = Cardinality(BusyBoxes), Distinct(pending), UNCHANGED pending
  PROVE  Len(pending)' = Cardinality(BusyBoxes)' /\ Distinct(pending)'
<1>1. BusyBoxes' = BusyBoxes
  BY DEF BusyBoxes
<1>2. Distinct(pending)'
  BY DEF Distinct
<1> QED
  BY <1>1, <1>2

\* The steps that leave the ring, the mailboxes and the histories alone.
LEMMA TypeQuiet ==
  ASSUME TypeInv,
         \/ StartBroadcast \/ DrainCheck \/ DrainReadHead \/ SetBroadcastEnabled
         \/ HaltEnters \/ HaltTimesOut \/ HaltMutes \/ JoinBus \/ Activate \/ LateEntry \/ UNCHANGED vars
  PROVE  TypeInv'
<1> USE DEF TypeInv, TypeOK, Building, hwVars, taskVars, Index
<1>1. UNCHANGED <<buf, head, tail, pending, done, accepted, loaded, built, raced, failed>>
  BY DEF StartBroadcast, DrainCheck, DrainReadHead, SetBroadcastEnabled,
         HaltEnters, HaltTimesOut, HaltMutes, JoinBus, Activate, LateEntry, vars
<1>2. Len(pending)' = Cardinality(BusyBoxes)' /\ Distinct(pending)'
  BY <1>1, BoxesUnchanged
<1>3. CASE StartBroadcast
  BY <1>1, <1>2, <1>3 DEF StartBroadcast
<1>4. CASE DrainCheck
  BY <1>1, <1>2, <1>4 DEF DrainCheck
<1>5. CASE DrainReadHead
  BY <1>1, <1>2, <1>5 DEF DrainReadHead
<1>6. CASE SetBroadcastEnabled
  BY <1>1, <1>2, <1>6 DEF SetBroadcastEnabled
<1>7. CASE HaltEnters \/ HaltTimesOut \/ HaltMutes \/ JoinBus \/ Activate \/ LateEntry
  BY <1>1, <1>2, <1>7 DEF HaltEnters, HaltTimesOut, HaltMutes, JoinBus, Activate, LateEntry
<1>8. CASE UNCHANGED vars
  BY <1>1, <1>2, <1>8 DEF vars
<1> QED
  BY <1>3, <1>4, <1>5, <1>6, <1>7, <1>8

LEMMA TypeTask ==
  ASSUME TypeInv, Enqueue \/ DrainPick \/ DrainFill \/ DrainWriteHead
  PROVE  TypeInv'
<1> USE DEF TypeInv, TypeOK, Building, hwVars, Index
<1>1. CASE Enqueue \/ DrainPick \/ DrainWriteHead \/ (DrainFill /\ box \notin FreeBoxes)
  <2>1. Len(pending)' = Cardinality(BusyBoxes)' /\ Distinct(pending)'
    <3>1. UNCHANGED pending
      BY <1>1 DEF Enqueue, DrainPick, DrainWriteHead, DrainFill, hwVars
    <3> QED
      BY <3>1, BoxesUnchanged
  <2>2. CASE Enqueue
    <3>1. built + 1 \in Frame /\ built' \in 0..MaxFrames
      BY <2>2 DEF Enqueue, Frame
    <3>2. buf' \in [Index -> Frame \cup {0}] /\ accepted' \subseteq Frame
      BY <2>2, <3>1 DEF Enqueue
    <3>3. tail' \in Index
      <4>1. tail + 1 \in Int
        OBVIOUS
      <4> QED
        BY <2>2, <4>1, WrapsInRing DEF Enqueue
    <3> QED
      BY <2>1, <2>2, <3>1, <3>2, <3>3 DEF Enqueue
  <2>3. CASE DrainPick
    <3>1. box' \in Box
      BY <2>3, FirstFreeIsFree, FreeBoxesFinite DEF DrainPick
    <3> QED
      BY <2>1, <2>3, <3>1 DEF DrainPick
  <2>4. CASE DrainFill /\ box \notin FreeBoxes
    BY <2>1, <2>4 DEF DrainFill
  <2>5. CASE DrainWriteHead
    <3>1. 1 \in Box
      BY DEF Box
    <3> QED
      BY <2>1, <2>5, <3>1 DEF DrainWriteHead
  <2> QED
    BY <1>1, <2>2, <2>3, <2>4, <2>5
<1>2. CASE DrainFill /\ box \in FreeBoxes
  <2>1. pending' \in Seq(Box) /\ Distinct(pending)'
    BY <1>2, AppendFree DEF DrainFill, Distinct
  <2>2. Len(pending)' = Cardinality(BusyBoxes)'
    BY <2>1, BoxesKeepType
  <2>3. done' \in [Box -> {"none", "ok", "fail"}]
    BY <1>2 DEF DrainFill
  <2>4. loaded' \subseteq Frame \cup {0}
    BY <1>2 DEF DrainFill
  <2> QED
    BY <1>2, <2>1, <2>2, <2>3, <2>4 DEF DrainFill
<1> QED
  BY <1>1, <1>2

LEMMA TypeHalt ==
  ASSUME TypeInv, HaltFlush \/ HaltAbort
  PROVE  TypeInv'
<1> USE DEF TypeInv, TypeOK, Building, taskVars, Index
<1>1. CASE HaltFlush
  <2>1. Len(pending)' = Cardinality(BusyBoxes)' /\ Distinct(pending)'
    BY <1>1, BoxesUnchanged DEF HaltFlush
  <2>2. {onBus, notify, enabled, raced, failed}' \subseteq BOOLEAN
    BY <1>1 DEF HaltFlush
  <2>3. halts' \in 0..MaxHalts /\ head' \in Index /\ tail' \in Index
    BY <1>1 DEF HaltFlush
  <2> QED
    BY <1>1, <2>1, <2>2, <2>3 DEF HaltFlush
<1>2. CASE HaltAbort
  <2>1. PICK n \in 0..Lesser(1, Len(pending)) : pending' = SubSeq(pending, 1, n)
    BY <1>2 DEF HaltAbort
  <2>2. n \in 0..Len(pending) /\ Len(pending) \in Nat
    BY DEF Lesser
  <2>3. pending' \in Seq(Box) /\ Len(pending') = n /\ \A i \in 1..n : pending'[i] = pending[i]
    BY <2>1, <2>2
  <2>4. Distinct(pending)'
    BY <2>2, <2>3 DEF Distinct
  <2>5. Len(pending)' = Cardinality(BusyBoxes)'
    BY <2>3, <2>4, BoxesKeepType
  <2>6. PICK given \in SUBSET Box :
          /\ done' = [b \in Box |-> IF b \in given THEN "fail" ELSE done[b]]
          /\ failed' = (failed \/ given # {})
    <3>1. PICK kept \in {SubSeq(pending, 1, m) : m \in 0..Lesser(1, Len(pending))} :
            LET given == BusyBoxes \ {kept[i] : i \in 1..Len(kept)} IN
              /\ pending' = kept
              /\ done' = [b \in Box |-> IF b \in given THEN "fail" ELSE done[b]]
              /\ failed' = (failed \/ given # {})
      <4> HIDE DEF TypeInv, TypeOK, Building
      <4> QED
        BY <1>2 DEF HaltAbort
    <3> DEFINE given == BusyBoxes \ {kept[i] : i \in 1..Len(kept)}
    <3>2. given \in SUBSET Box
      <4>1. BusyBoxes \subseteq Box
        BY BusyAreBoxes
      <4> QED
        BY <4>1
    <3>3. /\ done' = [b \in Box |-> IF b \in given THEN "fail" ELSE done[b]]
          /\ failed' = (failed \/ given # {})
      BY <3>1
    <3> HIDE DEF given
    <3> QED
      BY <3>2, <3>3
  <2>7. done' \in [Box -> {"none", "ok", "fail"}]
    BY <2>6
  <2>8. {onBus, notify, enabled, raced, failed}' \subseteq BOOLEAN
    BY <1>2, <2>6 DEF HaltAbort
  <2> QED
    BY <1>2, <2>3, <2>4, <2>5, <2>7, <2>8 DEF HaltAbort
<1> QED
  BY <1>1, <1>2

LEMMA TypeTransmission ==
  ASSUME TypeInv, TransmissionSucceeds \/ TransmissionFails
  PROVE  TypeInv'
<1> USE DEF TypeInv, TypeOK, Building, taskVars, Index, TransmissionSucceeds, TransmissionFails
<1>1. PICK result \in {"ok", "fail"} : EndTransmission(result)
  OBVIOUS
<1>2. pending \in Seq(Box) /\ pending # <<>> /\ pending' = Tail(pending)
  BY <1>1 DEF EndTransmission
<1>3. /\ pending' \in Seq(Box) /\ Len(pending') = Len(pending) - 1 /\ Len(pending) \in Nat
      /\ \A i \in 1..Len(pending') : pending'[i] = pending[i + 1]
  BY <1>2
<1>4. Distinct(pending)'
  <2> SUFFICES ASSUME NEW i \in 1..Len(pending'), NEW j \in 1..Len(pending'), pending'[i] = pending'[j]
               PROVE  i = j
    BY DEF Distinct
  <2>1. i + 1 \in 1..Len(pending) /\ j + 1 \in 1..Len(pending) /\ pending[i + 1] = pending[j + 1]
    BY <1>3
  <2>2. i + 1 = j + 1
    BY <2>1 DEF Distinct
  <2> QED
    BY <2>2
<1>5. Len(pending)' = Cardinality(BusyBoxes)'
  BY <1>3, <1>4, BoxesKeepType
<1>6. done' \in [Box -> {"none", "ok", "fail"}]
  BY <1>1 DEF EndTransmission
<1>7. {onBus, notify, enabled, raced, failed}' \subseteq BOOLEAN
  BY <1>1 DEF EndTransmission
<1> QED
  BY <1>1, <1>3, <1>4, <1>5, <1>6, <1>7 DEF EndTransmission

\* How many frames a drain from the interrupt hands over, and which.
LEMMA DrainTakes ==
  ASSUME TypeOK
  PROVE  /\ Lesser(Count, Cardinality(FreeBoxes)) \in 0..Cardinality(FreeBoxes)
         /\ Lesser(Count, Cardinality(FreeBoxes)) \in 0..Count
         /\ Count = Gap(head, tail) /\ Count \in Index
<1>1. Count = Gap(head, tail) /\ Count \in Index
  BY CountIsGap, GapInRing DEF TypeOK
<1>2. Cardinality(FreeBoxes) \in Nat
  BY FreeBoxesFinite
<1> QED
  BY <1>1, <1>2 DEF Lesser, Index

LEMMA TypeInterrupt ==
  ASSUME TypeInv, TxInterrupt
  PROVE  TypeInv'
<1> USE DEF TypeInv, TypeOK, Building, taskVars
<1>1. done' \in [Box -> {"none", "ok", "fail"}]
  BY DEF TxInterrupt
<1>2. CASE DrainFromIsr
  <2> DEFINE n == Lesser(Count, Cardinality(FreeBoxes))
  <2>1. n \in 0..Cardinality(FreeBoxes) /\ n \in 0..Count /\ n \in Int /\ Count \in Index
    BY DrainTakes
  <2>2. pending' = pending \o FirstFreeBoxes(n) /\ head' = At(n)
    BY <1>2 DEF DrainFromIsr
  <2>3. pending' \in Seq(Box) /\ Distinct(pending)'
    BY <2>1, <2>2, AppendFreeBoxes DEF Distinct
  <2>4. Len(pending)' = Cardinality(BusyBoxes)'
    BY <2>3, BoxesKeepType
  <2>5. head' \in Index
    BY <2>1, <2>2, AtInRing
  <2>6. loaded' = loaded \cup {buf[At(i)] : i \in 0..n - 1}
    BY <1>2 DEF DrainFromIsr
  <2>7. \A i \in 0..n - 1 : At(i) \in Index
    BY AtInRing
  <2>8. loaded' \subseteq Frame \cup {0}
    BY <2>6, <2>7
  <2>9. {onBus, notify, enabled, raced, failed}' \subseteq BOOLEAN
    <3>1. raced' \in BOOLEAN
      BY <1>2 DEF DrainFromIsr
    <3> QED
      BY <3>1 DEF TxInterrupt
  <2> HIDE DEF n
  <2> QED
    BY <1>1, <2>3, <2>4, <2>5, <2>8, <2>9 DEF TxInterrupt
<1>3. CASE UNCHANGED <<pending, head, loaded, raced>>
  <2>1. Len(pending)' = Cardinality(BusyBoxes)' /\ Distinct(pending)'
    BY <1>3, BoxesUnchanged
  <2> QED
    BY <1>1, <1>3, <2>1 DEF TxInterrupt
<1> QED
  BY <1>2, <1>3 DEF TxInterrupt

LEMMA TypeStep == TypeInv /\ [Next]_vars => TypeInv'
<1> SUFFICES ASSUME TypeInv, [Next]_vars PROVE TypeInv'
  OBVIOUS
<1>1. \/ StartBroadcast \/ DrainCheck \/ DrainReadHead \/ SetBroadcastEnabled
      \/ HaltEnters \/ HaltTimesOut \/ HaltMutes \/ JoinBus \/ Activate \/ LateEntry \/ UNCHANGED vars
      \/ Enqueue \/ DrainPick \/ DrainFill \/ DrainWriteHead \/ HaltFlush \/ HaltAbort
      \/ TransmissionSucceeds \/ TransmissionFails \/ TxInterrupt
  BY DEF Next, TaskStep, HaltStep
<1> QED
  BY <1>1, TypeQuiet, TypeTask, TypeHalt, TypeTransmission, TypeInterrupt

\* The state of queue, mailboxes and drain stays in range, and no mailbox ever
\* holds two requests, whatever the interrupt interrupts (can_tx_queue.cpp).
THEOREM QueueTypeCorrect == Spec => []TypeOK
<1>1. TypeInv => TypeOK
  BY DEF TypeInv
<1> QED
  BY TypeInit, TypeStep, <1>1, PTL DEF Spec

-----------------------------------------------------------------------------
(* Frames are conserved, and handed over in order *)

\* The frame that waits i places behind the head, and how many places there are.
Waiting(i) == buf[Cell(head, i)]
Places == 0..Gap(head, tail) - 1
UnsentPlaces == UnsentFrom..Gap(head, tail) - 1

\* The ring holds frames built, oldest first; those unsent are just the ones
\* accepted and not loaded, and no loaded frame is younger than one of them.
Queued ==
  /\ \A i \in Places : Waiting(i) \in 1..built
  /\ \A i, j \in Places : i < j => Waiting(i) < Waiting(j)
  /\ \A i \in UnsentPlaces : \A g \in loaded : g < Waiting(i)
  /\ loaded \subseteq 1..built /\ accepted \subseteq 1..built
  /\ \A i \in UnsentPlaces : Waiting(i) \in accepted
  /\ \A f \in accepted \ loaded : \E i \in UnsentPlaces : f = Waiting(i)

\* What the task's drain relies on from one of its steps to the next.
Draining ==
  /\ InDrain => head # tail
  /\ pc = "fill" => slot = head /\ box \in FreeBoxes
  /\ pc = "writeHead" => oldHead = head

QueueInv == TypeInv /\ (~raced => Queued /\ Draining)

LEMMA FreshIsNotHandedOver ==
  ASSUME NEW b \in Nat, NEW S \in SUBSET (1..b)
  PROVE  b + 1 \notin S
  OBVIOUS

LEMMA UnsentIsWaiting ==
  ASSUME TypeOK
  PROVE  Unsent = {Waiting(i) : i \in UnsentPlaces}
<1>1. Count = Gap(head, tail) /\ Count \in Index
  BY CountIsGap, GapInRing DEF TypeOK
<1>2. UnsentFrom..Count - 1 = UnsentPlaces
  BY <1>1 DEF UnsentPlaces
<1>3. \A i \in UnsentPlaces : i \in Index
  BY <1>1 DEF UnsentPlaces, UnsentFrom, Index
<1>4. \A i \in UnsentPlaces : At(i) = Cell(head, i)
  BY <1>3, AtIsCell DEF TypeOK
<1> QED
  BY <1>2, <1>4 DEF Unsent, Waiting

LEMMA QueuedConserves ==
  ASSUME TypeOK, Queued
  PROVE  accepted \ loaded = Unsent /\ loaded \cap Unsent = {} /\ loaded \subseteq 1..built
<1>1. Unsent = {Waiting(i) : i \in UnsentPlaces}
  BY UnsentIsWaiting
<1>2. \A i \in UnsentPlaces : Waiting(i) \notin loaded
  <2> SUFFICES ASSUME NEW i \in UnsentPlaces, Waiting(i) \in loaded PROVE FALSE
    OBVIOUS
  <2>1. Waiting(i) < Waiting(i) /\ Waiting(i) \in 1..built
    BY DEF Queued
  <2>2. built \in Nat
    BY DEF TypeOK
  <2> HIDE DEF Waiting
  <2> QED
    BY <2>1, <2>2
<1> QED
  BY <1>1, <1>2 DEF Queued

LEMMA QueueInit == Init => QueueInv
<1> SUFFICES ASSUME Init PROVE QueueInv
  OBVIOUS
<1>1. Gap(head, tail) = 0
  BY DEF Init, Gap
<1>2. Places = {} /\ UnsentPlaces = {}
  BY <1>1 DEF Places, UnsentPlaces, UnsentFrom, Init
<1>3. Queued
  BY <1>2 DEF Queued, Init
<1> QED
  BY <1>3, TypeInit DEF QueueInv, Draining, InDrain, Init

\* A step that leaves the ring and the histories alone.
LEMMA QueuedUnchanged ==
  ASSUME Queued, UNCHANGED <<buf, head, tail, accepted, loaded, built>>, UnsentFrom' = UnsentFrom
  PROVE  Queued'
<1>1. \A i : Waiting(i)' = Waiting(i)
  BY DEF Waiting, Cell
<1>2. Places' = Places /\ UnsentPlaces' = UnsentPlaces
  BY DEF Places, UnsentPlaces, Gap
<1> QED
  BY <1>1, <1>2 DEF Queued

LEMMA QueueQuiet ==
  ASSUME QueueInv, ~raced',
         \/ StartBroadcast \/ DrainCheck \/ DrainPick \/ DrainReadHead \/ SetBroadcastEnabled
         \/ HaltEnters \/ HaltTimesOut \/ HaltMutes \/ JoinBus \/ Activate \/ LateEntry \/ UNCHANGED vars
  PROVE  (Queued /\ Draining)'
<1> USE DEF hwVars, taskVars
<1>1. UNCHANGED <<buf, head, tail, pending, accepted, loaded, built, raced>>
  BY DEF StartBroadcast, DrainCheck, DrainPick, DrainReadHead, SetBroadcastEnabled,
         HaltEnters, HaltTimesOut, HaltMutes, JoinBus, Activate, LateEntry, vars
<1>2. Queued /\ Draining
  BY <1>1 DEF QueueInv
<1>3. UnsentFrom' = UnsentFrom
  BY DEF StartBroadcast, DrainCheck, DrainPick, DrainReadHead, SetBroadcastEnabled,
         HaltEnters, HaltTimesOut, HaltMutes, JoinBus, Activate, LateEntry, vars, UnsentFrom
<1>4. Queued'
  BY <1>1, <1>2, <1>3, QueuedUnchanged
<1>5. FreeBoxes' = FreeBoxes
  BY <1>1 DEF FreeBoxes, BusyBoxes
<1>6. Draining'
  <2> USE DEF Draining, InDrain
  <2>1. CASE StartBroadcast
    BY <1>1, <1>2, <1>5, <2>1 DEF StartBroadcast
  <2>2. CASE DrainCheck
    BY <1>1, <1>2, <1>5, <2>2 DEF DrainCheck, IsEmpty
  <2>3. CASE DrainPick
    BY <1>1, <1>2, <1>5, <2>3, FirstFreeIsFree DEF DrainPick
  <2>4. CASE DrainReadHead
    BY <1>1, <1>2, <1>5, <2>4 DEF DrainReadHead
  <2>5. CASE SetBroadcastEnabled
    BY <1>1, <1>2, <1>5, <2>5 DEF SetBroadcastEnabled
  <2>6. CASE HaltEnters \/ HaltTimesOut \/ HaltMutes \/ JoinBus \/ Activate \/ LateEntry
    BY <1>1, <1>2, <1>5, <2>6 DEF HaltEnters, HaltTimesOut, HaltMutes, JoinBus, Activate, LateEntry
  <2>7. CASE UNCHANGED vars
    BY <1>1, <1>2, <1>5, <2>7 DEF vars
  <2> QED
    BY <2>1, <2>2, <2>3, <2>4, <2>5, <2>6, <2>7
<1> QED
  BY <1>4, <1>6

\* A step that frees mailboxes.
LEMMA QueueFrees ==
  ASSUME QueueInv, ~raced', HaltAbort \/ TransmissionSucceeds \/ TransmissionFails
  PROVE  (Queued /\ Draining)'
<1> USE DEF hwVars, taskVars, TransmissionSucceeds, TransmissionFails, EndTransmission
<1>1. UNCHANGED <<buf, head, tail, accepted, loaded, built, raced, pc, slot, box, oldHead>>
  BY DEF HaltAbort
<1>2. Queued /\ Draining
  BY <1>1 DEF QueueInv
<1>3. Queued'
  BY <1>1, <1>2, QueuedUnchanged DEF UnsentFrom
<1>4. pending \in Seq(Box)
  BY DEF QueueInv, TypeInv, TypeOK
<1>5. BusyBoxes' \subseteq BusyBoxes
  <2>1. CASE HaltAbort
    <3>1. PICK n \in 0..Lesser(1, Len(pending)) : pending' = SubSeq(pending, 1, n)
      BY <2>1 DEF HaltAbort
    <3>2. n \in 0..Len(pending) /\ Len(pending) \in Nat
      BY <1>4 DEF Lesser
    <3>3. Len(pending') = n /\ \A i \in 1..n : i \in 1..Len(pending) /\ pending'[i] = pending[i]
      BY <1>4, <3>1, <3>2
    <3> QED
      BY <3>3 DEF BusyBoxes
  <2>2. CASE TransmissionSucceeds \/ TransmissionFails
    <3>1. pending # <<>> /\ pending' = Tail(pending)
      BY <2>2
    <3>2. \A i \in 1..Len(pending') : i + 1 \in 1..Len(pending) /\ pending'[i] = pending[i + 1]
      BY <1>4, <3>1
    <3> QED
      BY <3>2 DEF BusyBoxes
  <2> QED
    BY <2>1, <2>2
<1>6. Draining'
  BY <1>1, <1>2, <1>5 DEF Draining, InDrain, FreeBoxes
<1> QED
  BY <1>3, <1>6

\* The numbers the following proofs calculate with.
LEMMA Ranges ==
  ASSUME TypeOK
  PROVE  /\ head \in Index /\ tail \in Index /\ built \in Nat
         /\ Gap(head, tail) \in Index /\ Gap(head, tail) \in Nat /\ Gap(head, tail) < Capacity
         /\ (Gap(head, tail) = 0 <=> head = tail)
         /\ \A i \in Places : i \in Index
         /\ UnsentPlaces \subseteq Places
         /\ UnsentFrom \in {0, 1}
<1>1. Gap(head, tail) \in Index /\ (Gap(head, tail) = 0 <=> head = tail)
  BY GapInRing DEF TypeOK
<1> QED
  BY <1>1 DEF TypeOK, Places, UnsentPlaces, UnsentFrom, Index

LEMMA QueueEnqueue ==
  ASSUME QueueInv, ~raced', Enqueue
  PROVE  (Queued /\ Draining)'
<1>1. Queued /\ Draining
  BY DEF QueueInv, Enqueue
<1>2. TypeOK
  BY DEF QueueInv, TypeInv
<1>3. UnsentFrom = 0 /\ UnsentFrom' = 0
  BY DEF Enqueue, UnsentFrom
<1>4. Draining'
  BY DEF Draining, InDrain, Enqueue
<1>5. built' = built + 1 /\ head' = head /\ loaded' = loaded
  BY DEF Enqueue
<1>6. CASE IsFull
  <2>1. UNCHANGED <<buf, head, tail, accepted, loaded>>
    BY <1>6 DEF Enqueue
  <2>2. \A i : Waiting(i)' = Waiting(i)
    BY <2>1 DEF Waiting, Cell
  <2>4. Places' = Places /\ UnsentPlaces' = UnsentPlaces
    BY <1>3, <2>1 DEF Places, UnsentPlaces, Gap
  <2>5. 1..built \subseteq 1..built'
    BY <1>2, <1>5, Ranges
  <2>6. Queued'
    <3> HIDE DEF Waiting
    <3> QED
      BY <1>1, <2>1, <2>2, <2>4, <2>5 DEF Queued
  <2> QED
    BY <1>4, <2>6
<1>7. CASE ~IsFull
  <2>1. /\ buf' = [buf EXCEPT ![tail] = built + 1] /\ tail' = (tail + 1) % Capacity
        /\ accepted' = accepted \cup {built + 1}
    BY <1>7 DEF Enqueue
  <2>2. tail' = Cell(tail, 1) /\ Cell(tail, 1) # head
    BY <1>2, <1>7, <2>1, NextIsCell DEF IsFull, TypeOK
  <2>3. PICK g : g = Gap(head, tail)
    OBVIOUS
  <2>4. /\ Gap(head, tail)' = g + 1 /\ Cell(head, g) = tail
        /\ \A i \in Places : Cell(head, i) # tail
    BY <1>2, <1>5, <2>2, <2>3, GapGrows DEF TypeOK, Places
  <2>5. g \in Nat /\ g \in Index
    BY <1>2, <2>3, Ranges
  <2>6. \A i : Waiting(i)' = buf'[Cell(head, i)]
    BY <1>5 DEF Waiting, Cell
  <2>7. \A i \in Places : Waiting(i)' = Waiting(i)
    <3> TAKE i \in Places
    <3>1. Cell(head, i) \in Index
      BY <1>2, Ranges, CellInRing
    <3> QED
      BY <1>2, <2>1, <2>4, <2>6, <3>1 DEF Waiting, TypeOK
  <2>8. Waiting(g)' = built + 1
    BY <1>2, <2>1, <2>4, <2>6 DEF TypeOK
  <2>9. Places' = Places \cup {g} /\ UnsentPlaces' = UnsentPlaces \cup {g} /\ UnsentPlaces = Places
    <3>1. Places' = 0..g /\ UnsentPlaces' = 0..g
      BY <1>3, <2>4, <2>5 DEF Places, UnsentPlaces
    <3>2. 0..g = (0..g - 1) \cup {g}
      BY <2>5
    <3> QED
      BY <1>3, <2>3, <3>1, <3>2 DEF Places, UnsentPlaces
  <2>10. built \in Nat /\ \A i \in Places : i \in Nat /\ i < g /\ Waiting(i) \in 1..built
    BY <1>1, <1>2, <2>5, <2>3, Ranges DEF Places, Queued
  <2>11. /\ \A i \in Places' : Waiting(i)' \in 1..built'
         /\ \A i, j \in Places' : i < j => Waiting(i)' < Waiting(j)'
    <3>1. \A i \in Places' : Waiting(i)' \in 1..built'
      BY <1>5, <2>7, <2>8, <2>9, <2>10
    <3>2. ASSUME NEW i \in Places', NEW j \in Places', i < j PROVE Waiting(i)' < Waiting(j)'
      <4>1. i \in Places
        BY <2>5, <2>9, <2>10, <3>2
      <4>2. CASE j \in Places
        BY <1>1, <2>7, <3>2, <4>1, <4>2 DEF Queued
      <4>3. CASE j = g
        BY <2>7, <2>8, <2>10, <4>1, <4>3
      <4> QED
        BY <2>9, <4>2, <4>3
    <3> QED
      BY <3>1, <3>2
  <2>12. loaded' \subseteq 1..built' /\ accepted' \subseteq 1..built'
    BY <1>1, <1>5, <2>1, <2>10 DEF Queued
  <2>13. \A i \in UnsentPlaces' : \A f \in loaded' : f < Waiting(i)'
    <3> SUFFICES ASSUME NEW i \in UnsentPlaces', NEW f \in loaded PROVE f < Waiting(i)'
      BY <1>5
    <3>1. CASE i \in UnsentPlaces
      BY <1>1, <2>7, <2>9, <3>1 DEF Queued
    <3>2. CASE i = g
      <4>1. f \in 1..built
        BY <1>1 DEF Queued
      <4> QED
        BY <2>8, <2>10, <3>2, <4>1
    <3> QED
      BY <2>9, <3>1, <3>2
  <2>14. \A i \in UnsentPlaces' : Waiting(i)' \in accepted'
    BY <1>1, <2>1, <2>7, <2>8, <2>9 DEF Queued
  <2>15. \A f \in accepted' \ loaded' : \E i \in UnsentPlaces' : f = Waiting(i)'
    <3> SUFFICES ASSUME NEW f \in accepted' \ loaded' PROVE \E i \in UnsentPlaces' : f = Waiting(i)'
      OBVIOUS
    <3>1. CASE f = built + 1
      BY <2>8, <2>9, <3>1
    <3>2. CASE f \in accepted \ loaded
      <4>1. PICK i \in UnsentPlaces : f = Waiting(i)
        BY <1>1, <3>2 DEF Queued
      <4> QED
        BY <2>7, <2>9, <4>1
    <3> QED
      BY <1>5, <2>1, <3>1, <3>2
  <2>16. Queued'
    BY <2>11, <2>12, <2>13, <2>14, <2>15 DEF Queued
  <2> QED
    BY <1>4, <2>16
<1> QED
  BY <1>6, <1>7

\* What both drains do with the oldest n places: to hand them over keeps order.
LEMMA HandsOver ==
  ASSUME TypeOK, Queued, UnsentFrom = 0, NEW n \in 0..Gap(head, tail),
         loaded' = loaded \cup {Waiting(i) : i \in 0..n - 1}, UNCHANGED <<accepted, built>>
  PROVE  /\ \A f \in loaded' \ loaded : \A g \in loaded : g < f
         /\ loaded' \subseteq 1..built /\ accepted' \subseteq 1..built
         /\ \A i \in n..Gap(head, tail) - 1 : \A g \in loaded' : g < Waiting(i)
         /\ \A i \in n..Gap(head, tail) - 1 : Waiting(i) \in accepted'
         /\ \A f \in accepted' \ loaded' : \E i \in n..Gap(head, tail) - 1 : f = Waiting(i)
<1> DEFINE m == Gap(head, tail)
           Given == 0..n - 1
           Rest == n..m - 1
<1>1. m \in Nat /\ n \in Nat /\ UnsentPlaces = Places /\ built \in Nat
  BY Ranges DEF Places, UnsentPlaces
<1>2. Places = Given \cup Rest
  BY <1>1 DEF Places
<1>3. \A i \in Given, j \in Rest : i < j
  BY <1>1
<1> HIDE DEF m, Given, Rest
<1>4. \A f \in loaded' \ loaded : \A g \in loaded : g < f
  <2> SUFFICES ASSUME NEW f \in loaded' \ loaded, NEW g \in loaded PROVE g < f
    OBVIOUS
  <2>1. PICK i \in Given : f = Waiting(i)
    BY DEF Given
  <2> QED
    BY <1>1, <1>2, <2>1 DEF Queued
<1>5. loaded' \subseteq 1..built /\ accepted' \subseteq 1..built
  BY <1>2 DEF Queued, Given
<1>6. \A i \in Rest : \A g \in loaded' : g < Waiting(i)
  <2> SUFFICES ASSUME NEW i \in Rest, NEW g \in loaded' PROVE g < Waiting(i)
    OBVIOUS
  <2>1. CASE g \in loaded
    BY <1>1, <1>2, <2>1 DEF Queued
  <2>2. CASE g \notin loaded
    <3>1. PICK j \in Given : g = Waiting(j)
      BY <2>2 DEF Given
    <3> QED
      BY <1>2, <1>3, <3>1 DEF Queued
  <2> QED
    BY <2>1, <2>2
<1>7. \A i \in Rest : Waiting(i) \in accepted'
  BY <1>1, <1>2 DEF Queued
<1>8. \A f \in accepted' \ loaded' : \E i \in Rest : f = Waiting(i)
  <2> SUFFICES ASSUME NEW f \in accepted' \ loaded' PROVE \E i \in Rest : f = Waiting(i)
    OBVIOUS
  <2>1. PICK i \in Places : f = Waiting(i)
    BY <1>1 DEF Queued
  <2>2. i \notin Given
    BY <2>1 DEF Given
  <2> QED
    BY <1>2, <2>1, <2>2
<1> QED
  BY <1>4, <1>5, <1>6, <1>7, <1>8 DEF Rest, m

\* The head moves n places on, past what was handed over.
LEMMA MovesOn ==
  ASSUME TypeOK, Queued, NEW n \in 0..Gap(head, tail),
         head' = Cell(head, n), UNCHANGED <<buf, tail, built>>, UnsentFrom' = 0,
         loaded' \subseteq 1..built, accepted' \subseteq 1..built,
         \A i \in n..Gap(head, tail) - 1 : \A g \in loaded' : g < Waiting(i),
         \A i \in n..Gap(head, tail) - 1 : Waiting(i) \in accepted',
         \A f \in accepted' \ loaded' : \E i \in n..Gap(head, tail) - 1 : f = Waiting(i)
  PROVE  Queued'
<1>1. PICK m : m = Gap(head, tail)
  OBVIOUS
<1>2. m \in Nat /\ n \in Nat /\ n <= m /\ m < Capacity /\ n \in Index /\ Capacity \in Nat
  BY <1>1, Ranges DEF Index
<1>3. Gap(head, tail)' = m - n
  BY <1>1, GapFromCell DEF TypeOK
<1>4. Places' = 0..m - n - 1 /\ UnsentPlaces' = 0..m - n - 1 /\ Places = 0..m - 1
  BY <1>1, <1>3 DEF Places, UnsentPlaces
<1>5. \A i \in Places' : n + i \in n..m - 1 /\ n + i \in Places /\ Waiting(i)' = Waiting(n + i)
  <2> TAKE i \in Places'
  <2>1. i \in Index /\ n + i < Capacity /\ n + i \in n..m - 1 /\ n + i \in Places
    BY <1>2, <1>4 DEF Index
  <2>2. Cell(Cell(head, n), i) = Cell(head, n + i)
    BY <1>2, <2>1, CellFromCell DEF TypeOK
  <2>3. Waiting(i)' = buf[Cell(Cell(head, n), i)]
    BY DEF Waiting, Cell
  <2> QED
    BY <2>1, <2>2, <2>3 DEF Waiting
<1>6. \A k \in n..m - 1 : k - n \in Places' /\ k = n + (k - n)
  BY <1>2, <1>4
<1>7. \A i, j \in Places' : i < j => n + i < n + j
  BY <1>2, <1>4
<1> HIDE DEF Waiting
<1>8. /\ \A i \in Places' : Waiting(i)' \in 1..built'
      /\ \A i, j \in Places' : i < j => Waiting(i)' < Waiting(j)'
  BY <1>5, <1>7 DEF Queued
<1>9. /\ \A i \in UnsentPlaces' : \A g \in loaded' : g < Waiting(i)'
      /\ \A i \in UnsentPlaces' : Waiting(i)' \in accepted'
  BY <1>1, <1>4, <1>5
<1>10. \A f \in accepted' \ loaded' : \E i \in UnsentPlaces' : f = Waiting(i)'
  <2> TAKE f \in accepted' \ loaded'
  <2>1. PICK k \in n..m - 1 : f = Waiting(k)
    BY <1>1
  <2>2. Waiting(k - n)' = Waiting(k)
    BY <1>5, <1>6
  <2> QED
    BY <1>4, <1>6, <2>1, <2>2
<1> QED
  BY <1>8, <1>9, <1>10 DEF Queued

\* The task's drain hands over the frame at the head.
LEMMA QueueFill ==
  ASSUME QueueInv, ~raced', DrainFill
  PROVE  (Queued /\ Draining)' /\ \A f \in loaded' \ loaded : \A g \in loaded : g < f
<1>1. Queued /\ Draining /\ TypeOK
  BY DEF QueueInv, TypeInv, DrainFill
<1>2. UnsentFrom = 0 /\ UnsentFrom' = 1
  BY DEF DrainFill, UnsentFrom
<1>3. Draining'
  BY <1>1 DEF Draining, InDrain, DrainFill
<1>4. box \in FreeBoxes /\ slot = head /\ head # tail
  BY <1>1 DEF Draining, InDrain, DrainFill
<1>5. Waiting(0) = buf[slot]
  BY <1>1, <1>4, Ranges DEF Waiting, Cell, Index
<1>6. 1 \in 0..Gap(head, tail)
  BY <1>1, <1>4, Ranges
<1>7. UNCHANGED <<buf, head, tail, accepted, built>>
  BY DEF DrainFill
<1>8. loaded' = loaded \cup {Waiting(i) : i \in 0..1 - 1}
  <2>1. 0..1 - 1 = {0}
    OBVIOUS
  <2> QED
    BY <1>4, <1>5, <2>1 DEF DrainFill
<1>9. /\ \A f \in loaded' \ loaded : \A g \in loaded : g < f
      /\ loaded' \subseteq 1..built /\ accepted' \subseteq 1..built
      /\ \A i \in 1..Gap(head, tail) - 1 : \A g \in loaded' : g < Waiting(i)
      /\ \A i \in 1..Gap(head, tail) - 1 : Waiting(i) \in accepted'
      /\ \A f \in accepted' \ loaded' : \E i \in 1..Gap(head, tail) - 1 : f = Waiting(i)
  BY <1>1, <1>2, <1>6, <1>7, <1>8, HandsOver
<1>10. \A i : Waiting(i)' = Waiting(i)
  BY <1>7 DEF Waiting, Cell
<1>11. Places' = Places /\ UnsentPlaces' = 1..Gap(head, tail) - 1
  BY <1>2, <1>7 DEF Places, UnsentPlaces, Gap
<1> HIDE DEF Waiting
<1>12. Queued'
  BY <1>1, <1>7, <1>9, <1>10, <1>11 DEF Queued
<1> QED
  BY <1>3, <1>9, <1>12

LEMMA QueueWriteHead ==
  ASSUME QueueInv, ~raced', DrainWriteHead
  PROVE  (Queued /\ Draining)'
<1>1. Queued /\ Draining /\ TypeOK
  BY DEF QueueInv, TypeInv, DrainWriteHead
<1>2. UnsentFrom = 1 /\ UnsentFrom' = 0
  BY DEF DrainWriteHead, UnsentFrom
<1>3. Draining'
  BY DEF Draining, InDrain, DrainWriteHead
<1>4. oldHead = head /\ head # tail
  BY <1>1 DEF Draining, InDrain, DrainWriteHead
<1>5. head' = Cell(head, 1)
  BY <1>1, <1>4, NextIsCell DEF DrainWriteHead, TypeOK
<1>6. 1 \in 0..Gap(head, tail)
  BY <1>1, <1>4, Ranges
<1>7. UNCHANGED <<buf, tail, accepted, loaded, built>>
  BY DEF DrainWriteHead
<1>8. UnsentPlaces = 1..Gap(head, tail) - 1
  BY <1>2 DEF UnsentPlaces
<1>9. /\ loaded' \subseteq 1..built /\ accepted' \subseteq 1..built
      /\ \A i \in 1..Gap(head, tail) - 1 : \A g \in loaded' : g < Waiting(i)
      /\ \A i \in 1..Gap(head, tail) - 1 : Waiting(i) \in accepted'
      /\ \A f \in accepted' \ loaded' : \E i \in 1..Gap(head, tail) - 1 : f = Waiting(i)
  BY <1>1, <1>7, <1>8 DEF Queued
<1>10. Queued'
  BY <1>1, <1>2, <1>5, <1>6, <1>7, <1>9, MovesOn
<1> QED
  BY <1>3, <1>10

\* Flush outside a drain gives up just what was accepted and not handed over.
LEMMA QueueFlush ==
  ASSUME QueueInv, ~raced', HaltFlush
  PROVE  (Queued /\ Draining)'
<1>1. Queued /\ Draining /\ TypeOK /\ ~InDrain
  BY DEF QueueInv, TypeInv, HaltFlush
<1>2. head' = 0 /\ tail' = 0 /\ UNCHANGED <<loaded, built, pc>> /\ accepted' = accepted \ Unsent
  BY DEF HaltFlush, taskVars
<1>3. Gap(head, tail)' = 0
  BY <1>2 DEF Gap
<1>4. Places' = {} /\ UnsentPlaces' = {}
  BY <1>1, <1>2, <1>3 DEF Places, UnsentPlaces, UnsentFrom, InDrain
<1>5. accepted' \subseteq loaded /\ accepted' \subseteq accepted
  BY <1>1, <1>2, QueuedConserves
<1>6. Queued'
  BY <1>1, <1>2, <1>4, <1>5 DEF Queued
<1>7. Draining'
  BY <1>1, <1>2 DEF Draining, InDrain
<1> QED
  BY <1>6, <1>7

\* The interrupt's drain: the whole loop, or nothing.
LEMMA QueueInterrupt ==
  ASSUME QueueInv, ~raced', TxInterrupt
  PROVE  (Queued /\ Draining)' /\ \A f \in loaded' \ loaded : \A g \in loaded : g < f
<1>1. UNCHANGED <<buf, tail, accepted, built, pc, slot, box, oldHead>>
  BY DEF TxInterrupt, taskVars
<1>2. Queued /\ Draining /\ TypeOK
  BY DEF QueueInv, TypeInv, TxInterrupt, DrainFromIsr
<1>3. UnsentFrom' = UnsentFrom
  BY <1>1 DEF UnsentFrom
<1>4. PICK n : n = Lesser(Count, Cardinality(FreeBoxes))
  OBVIOUS
<1>5. n \in 0..Cardinality(FreeBoxes) /\ n \in 0..Gap(head, tail) /\ n \in Nat /\ n \in Index
  BY <1>2, <1>4, DrainTakes, Ranges DEF Index
<1>6. CASE DrainFromIsr /\ n > 0
  <2>1. ~InDrain /\ UnsentFrom = 0
    BY <1>4, <1>6 DEF DrainFromIsr, InDrain, UnsentFrom
  <2>2. head' = Cell(head, n)
    BY <1>2, <1>4, <1>5, <1>6, AtIsCell DEF DrainFromIsr, TypeOK
  <2>3. \A i \in 0..n - 1 : At(i) = Cell(head, i)
    <3> TAKE i \in 0..n - 1
    <3>1. i \in Index
      BY <1>5 DEF Index
    <3> QED
      BY <1>2, <3>1, AtIsCell DEF TypeOK
  <2>4. loaded' = loaded \cup {Waiting(i) : i \in 0..n - 1}
    BY <1>4, <1>6, <2>3 DEF DrainFromIsr, Waiting
  <2>5. /\ \A f \in loaded' \ loaded : \A g \in loaded : g < f
        /\ loaded' \subseteq 1..built /\ accepted' \subseteq 1..built
        /\ \A i \in n..Gap(head, tail) - 1 : \A g \in loaded' : g < Waiting(i)
        /\ \A i \in n..Gap(head, tail) - 1 : Waiting(i) \in accepted'
        /\ \A f \in accepted' \ loaded' : \E i \in n..Gap(head, tail) - 1 : f = Waiting(i)
    BY <1>1, <1>2, <1>5, <2>1, <2>4, HandsOver
  <2>6. Queued'
    BY <1>1, <1>2, <1>3, <1>5, <2>1, <2>2, <2>5, MovesOn
  <2>7. Draining'
    BY <1>1, <2>1 DEF Draining, InDrain
  <2> QED
    BY <2>5, <2>6, <2>7
<1>7. CASE DrainFromIsr /\ n = 0
  <2>1. head' = head
    <3>1. At(0) = Cell(head, 0) /\ Cell(head, 0) = head
      <4>1. 0 \in Index
        BY DEF Index
      <4> QED
        BY <1>2, <4>1, AtIsCell DEF TypeOK, Cell, Index
    <3> QED
      BY <1>4, <1>7, <3>1 DEF DrainFromIsr
  <2>2. loaded' = loaded
    <3>1. 0..n - 1 = {}
      BY <1>7
    <3> QED
      BY <1>4, <1>7, <3>1 DEF DrainFromIsr
  <2>3. pending' = pending
    <3>1. FirstFreeBoxes(n) \in Seq(Box) /\ Len(FirstFreeBoxes(n)) = 0
      BY <1>5, <1>7, FirstFreeBoxesAreFree
    <3>2. pending \in Seq(Box)
      BY <1>2 DEF TypeOK
    <3>3. pending \o FirstFreeBoxes(n) = pending
      BY <3>1, <3>2
    <3> QED
      BY <1>4, <1>7, <3>3 DEF DrainFromIsr
  <2>4. Queued'
    BY <1>1, <1>2, <1>3, <2>1, <2>2, QueuedUnchanged
  <2>5. Draining'
    BY <1>1, <1>2, <2>1, <2>3 DEF Draining, InDrain, FreeBoxes, BusyBoxes
  <2> QED
    BY <2>2, <2>4, <2>5
<1>8. CASE UNCHANGED <<pending, head, loaded, raced>>
  <2>1. Queued'
    BY <1>1, <1>2, <1>3, <1>8, QueuedUnchanged
  <2>2. Draining'
    BY <1>1, <1>2, <1>8 DEF Draining, InDrain, FreeBoxes, BusyBoxes
  <2> QED
    BY <1>8, <2>1, <2>2
<1> QED
  BY <1>5, <1>6, <1>7, <1>8 DEF TxInterrupt

LEMMA QueueStep ==
  ASSUME QueueInv, [Next]_vars, ~raced'
  PROVE  (Queued /\ Draining)' /\ \A f \in loaded' \ loaded : \A g \in loaded : g < f
<1> DEFINE Ordered == \A f \in loaded' \ loaded : \A g \in loaded : g < f
<1>1. CASE \/ StartBroadcast \/ DrainCheck \/ DrainPick \/ DrainReadHead \/ SetBroadcastEnabled
           \/ HaltEnters \/ HaltTimesOut \/ HaltMutes \/ JoinBus \/ Activate \/ LateEntry \/ UNCHANGED vars
  <2>1. loaded' = loaded
    BY <1>1 DEF StartBroadcast, DrainCheck, DrainPick, DrainReadHead, SetBroadcastEnabled,
                HaltEnters, HaltTimesOut, HaltMutes, JoinBus, Activate, LateEntry, vars
  <2> QED
    BY <1>1, <2>1, QueueQuiet
<1>2. CASE HaltAbort \/ TransmissionSucceeds \/ TransmissionFails
  <2>1. loaded' = loaded
    BY <1>2 DEF HaltAbort, TransmissionSucceeds, TransmissionFails, EndTransmission
  <2> QED
    BY <1>2, <2>1, QueueFrees
<1>3. CASE Enqueue
  BY <1>3, QueueEnqueue DEF Enqueue
<1>4. CASE DrainFill
  BY <1>4, QueueFill
<1>5. CASE DrainWriteHead
  BY <1>5, QueueWriteHead DEF DrainWriteHead
<1>6. CASE HaltFlush
  BY <1>6, QueueFlush DEF HaltFlush
<1>7. CASE TxInterrupt
  BY <1>7, QueueInterrupt
<1> QED
  BY <1>1, <1>2, <1>3, <1>4, <1>5, <1>6, <1>7 DEF Next, TaskStep, HaltStep

LEMMA QueueInductive == Spec => []QueueInv
<1>1. QueueInv /\ [Next]_vars => QueueInv'
  <2> SUFFICES ASSUME QueueInv, [Next]_vars PROVE QueueInv'
    OBVIOUS
  <2>1. TypeInv'
    BY TypeStep DEF QueueInv
  <2>2. ~raced' => (Queued /\ Draining)'
    BY QueueStep
  <2> QED
    BY <2>1, <2>2 DEF QueueInv
<1> QED
  BY QueueInit, <1>1, PTL DEF Spec

\* As long as nobody moves head_ inside the task's drain, a frame that Enqueue
\* accepted is in the ring or was handed to a mailbox, never both and never
\* neither (can_tx_queue.cpp, both drains and Flush).
THEOREM QueueConservesFrames == Spec => []FramesConserved
<1>1. QueueInv => FramesConserved
  BY QueuedConserves DEF QueueInv, TypeInv, FramesConserved
<1> QED
  BY QueueInductive, <1>1, PTL

\* ... and the mailboxes are given the frames in the order they were built,
\* by whichever of the two drains.
THEOREM QueueKeepsOrder == Spec => InOrder
<1>1. QueueInv /\ [Next]_vars
        => [~raced' => \A f \in loaded' \ loaded : \A g \in loaded : g < f]_vars
  BY QueueStep
<1> QED
  BY QueueInductive, <1>1, PTL DEF Spec, InOrder
=============================================================================
