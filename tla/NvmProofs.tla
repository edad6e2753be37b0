----------------------------- MODULE NvmProofs -----------------------------
(***************************************************************************)
(* What TLAPS proves of Nvm, for every set of settings, every bound on the  *)
(* number of writes and every set of flash faults.                          *)
(***************************************************************************)
EXTENDS Nvm, TLAPS

\* A page on which ProgramPage has written the halfwords before cell c.
Partial(r, c) == [i \in Cell |-> IF i < c THEN Image(r)[i] ELSE Erased]

Writing == {"erase", "program", "verify"}

(* The parts of the inductive invariant, for flash that behaves.            *)

WholeSlots ==
  \A s \in Slot : SlotMagicValid(s) =>
    flash[s] = Image(RecordOf(flash[s])) /\ SlotSequence(s) <= writes

DistinctSequences ==
  SlotMagicValid(0) /\ SlotMagicValid(1) => SlotSequence(0) # SlotSequence(1)

LiveRecord ==
  /\ phase # "off" => storage.magic = Magic /\ storage.seq <= writes
  /\ phase = "off" => active = -1

BootsActive ==
  phase \in {"idle", "erase", "program"} => BootSlot = active

ActiveSequence ==
  active # -1 =>
    /\ phase # "off" => SlotMagicValid(active)
    /\ phase = "idle" => SlotSequence(active) <= storage.seq
    /\ phase \in Writing => SlotSequence(active) < storage.seq

FirstWrite == phase = "verify" /\ active = -1 => ~SlotMagicValid(1)

TargetContents ==
  /\ phase = "erase" => cell = 1
  /\ phase = "program" => flash[Target] = Partial(storage, cell)
  /\ phase = "verify" => flash[Target] = Image(storage)

Sound ==
  /\ WholeSlots
  /\ DistinctSequences
  /\ LiveRecord
  /\ BootsActive
  /\ ActiveSequence
  /\ FirstWrite
  /\ TargetContents

IInv == TypeOK /\ (~damaged => Sound)

-----------------------------------------------------------------------------
(* Pages and records *)

USE NvmAssumption

\* The halfwords of a record, field by field.
LEMMA CellFields ==
  ASSUME NEW r \in Record
  PROVE  /\ Image(r)[1] = r.test /\ Image(r)[2] = r.test
         /\ Image(r)[3] = r.seq /\ Image(r)[4] = r.seq
         /\ Image(r)[5] = r.magic /\ Image(r)[6] = r.magic
  BY DEF Image, Cell, FieldOf

\* No word of a record has an erased halfword.
LEMMA NotErased ==
  ASSUME NEW r \in Record
  PROVE  r.test # Erased /\ r.seq # Erased /\ r.magic # Erased
<1>1. r.test \in Setting /\ r.seq \in Seq32 /\ r.magic \in {Magic, NoMagic}
  BY DEF Record
<1>2. r.seq \in Int
  BY <1>1 DEF Seq32, AllOnes
<1> QED
  BY <1>1, <1>2 DEF Setting

\* Reading back a completely programmed record yields that record.
LEMMA ReadImage ==
  ASSUME NEW r \in Record
  PROVE  RecordOf(Image(r)) = r
<1>1. RecordOf(Image(r)) = [test |-> r.test, seq |-> r.seq, magic |-> r.magic]
  BY CellFields, NotErased DEF RecordOf, Word
<1>2. r = [test |-> r.test, seq |-> r.seq, magic |-> r.magic]
  BY DEF Record
<1> QED
  BY <1>1, <1>2

\* Whatever a page holds, reading it yields a record.
LEMMA ReadPage ==
  ASSUME NEW page, PageOK(page)
  PROVE  RecordOf(page) \in Record
<1>1. Word(page, 1, Garbage) \in Setting
  BY DEF PageOK, Word, Setting
<1>2. Word(page, 3, AllOnes) \in Seq32
  BY DEF PageOK, Word, Seq32, AllOnes
<1>3. Word(page, 5, NoMagic) \in {Magic, NoMagic}
  BY DEF PageOK, Word
<1> QED
  BY <1>1, <1>2, <1>3 DEF RecordOf, Record

LEMMA ImagePage ==
  ASSUME NEW r \in Record
  PROVE  PageOK(Image(r))
<1>1. Image(r) = [c \in Cell |-> Image(r)[c]]
  BY DEF Image
<1>2. r.test \in Setting /\ r.seq \in Seq32 /\ r.magic \in {Magic, NoMagic}
  BY DEF Record
<1> QED
  BY <1>1, <1>2, CellFields DEF PageOK

\* A record under construction is a page, and reads as invalid: its magic is
\* the last word programmed.
LEMMA PartialPage ==
  ASSUME NEW r \in Record, NEW c \in Cell
  PROVE  PageOK(Partial(r, c)) /\ RecordOf(Partial(r, c)).magic # Magic
<1>1. Partial(r, c) = [i \in Cell |-> Partial(r, c)[i]]
  BY DEF Partial
<1>2. \A i \in Cell : Partial(r, c)[i] = Image(r)[i] \/ Partial(r, c)[i] = Erased
  BY DEF Partial
<1>3. PageOK(Partial(r, c))
  BY <1>1, <1>2, ImagePage DEF PageOK, Cell
<1>4. Partial(r, c)[6] = Erased
  BY DEF Partial, Cell
<1>5. RecordOf(Partial(r, c)).magic = NoMagic
  BY <1>4 DEF RecordOf, Word
<1> QED
  BY <1>3, <1>5

\* Programming a halfword extends the record under construction, the sixth
\* completes it.
LEMMA PartialStep ==
  ASSUME NEW r, NEW c \in Cell
  PROVE  /\ c # 6 => [Partial(r, c) EXCEPT ![c] = Image(r)[c]] = Partial(r, c + 1)
         /\ c = 6 => [Partial(r, c) EXCEPT ![c] = Image(r)[c]] = Image(r)
<1> DEFINE after == [Partial(r, c) EXCEPT ![c] = Image(r)[c]]
<1>1. after = [i \in Cell |-> IF i = c THEN Image(r)[c] ELSE Partial(r, c)[i]]
  BY DEF Partial
<1>2. after = [i \in Cell |-> IF i < c + 1 THEN Image(r)[i] ELSE Erased]
  BY <1>1 DEF Partial, Cell
<1>3. c = 6 => after = [i \in Cell |-> Image(r)[i]]
  BY <1>2 DEF Cell
<1>4. Image(r) = [i \in Cell |-> Image(r)[i]]
  BY DEF Image
<1> QED
  BY <1>2, <1>3, <1>4 DEF Partial

LEMMA BlankPage ==
  /\ PageOK(Blank)
  /\ RecordOf(Blank).magic # Magic
  /\ \A r : Blank = Partial(r, 1)
<1>1. PageOK(Blank)
  BY DEF PageOK, Blank, Cell
<1>2. RecordOf(Blank).magic # Magic
  BY DEF RecordOf, Word, Blank, Cell
<1>3. \A r : Blank = Partial(r, 1)
  BY DEF Blank, Partial, Cell
<1> QED
  BY <1>1, <1>2, <1>3

-----------------------------------------------------------------------------
(* Type correctness *)

LEMMA Constants ==
  /\ DefaultRecord \in Record /\ DefaultRecord.magic = Magic
  /\ ZeroRecord \in Record
  /\ AllOnes \in Nat /\ MaxWrites < AllOnes
  /\ Target \in Slot /\ (active \in {-1, 0, 1} => Target # active)
  BY DEF DefaultRecord, ZeroRecord, Record, Setting, Seq32, AllOnes, Target, Slot

LEMMA BumpType ==
  ASSUME NEW n \in Seq32
  PROVE  Bump(n) \in Seq32 /\ (n < AllOnes => Bump(n) = n + 1)
  BY Constants DEF Bump, Seq32

\* Replacing one slot by a page keeps the flash well formed.
LEMMA FlashUpdate ==
  ASSUME TypeOK, NEW page, PageOK(page), flash' = [flash EXCEPT ![Target] = page]
  PROVE  /\ flash' = [s \in Slot |-> flash'[s]]
         /\ \A s \in Slot : PageOK(flash'[s])
         /\ flash'[Target] = page
         /\ \A s \in Slot : s # Target => flash'[s] = flash[s]
  BY Constants DEF TypeOK

\* So does replacing one halfword by another of its type.
LEMMA CellUpdate ==
  ASSUME TypeOK, flash' = [flash EXCEPT ![Target][cell] = Image(storage)[cell]]
  PROVE  /\ flash' = [flash EXCEPT ![Target] = [flash[Target] EXCEPT ![cell] = Image(storage)[cell]]]
         /\ PageOK([flash[Target] EXCEPT ![cell] = Image(storage)[cell]])
<1>1. PageOK(flash[Target]) /\ PageOK(Image(storage)) /\ cell \in Cell
  BY Constants, ImagePage DEF TypeOK
<1> DEFINE page == [flash[Target] EXCEPT ![cell] = Image(storage)[cell]]
<1>2. page = [c \in Cell |-> IF c = cell THEN Image(storage)[c] ELSE flash[Target][c]]
  BY <1>1 DEF PageOK
<1>3. PageOK(page)
  BY <1>1, <1>2 DEF PageOK, Cell
<1>4. flash' = [flash EXCEPT ![Target] = page]
  OBVIOUS
<1> QED
  BY <1>3, <1>4

LEMMA BeginWriteType ==
  ASSUME NEW r \in Record, BeginWrite(r), writes \in 0..MaxWrites
  PROVE  /\ storage' \in Record /\ storage'.magic = Magic
         /\ storage'.seq = Bump(r.seq) /\ storage'.test = r.test
         /\ writes' = writes + 1 /\ writes' \in 0..MaxWrites
         /\ cell' \in Cell /\ phase' = "erase"
<1>1. r.seq \in Seq32 /\ Bump(r.seq) \in Seq32
  BY BumpType DEF Record
<1>2. storage' \in Record /\ storage'.magic = Magic /\ storage'.seq = Bump(r.seq) /\ storage'.test = r.test
  BY <1>1 DEF BeginWrite, Record
<1> QED
  BY <1>2 DEF BeginWrite, Cell

LEMMA TypeStep == TypeOK /\ [Next]_vars => TypeOK'
<1> SUFFICES ASSUME TypeOK, [Next]_vars PROVE TypeOK'
  OBVIOUS
<1>1. CASE BootFromSlot
  <2>1. BootSlot \in Slot
    BY <1>1 DEF BootFromSlot, BootSlot, Slot
  <2>2. storage' \in Record
    BY <1>1, <2>1, ReadPage DEF BootFromSlot, TypeOK
  <2> QED
    BY <1>1, <2>1, <2>2 DEF BootFromSlot, TypeOK, Slot
<1>2. CASE BootFirstTime
  BY <1>2, BeginWriteType, Constants DEF BootFirstTime, TypeOK
<1>3. ASSUME NEW v \in Value, Set(v) PROVE TypeOK'
  <2>1. [storage EXCEPT !.test = v] \in Record
    BY DEF TypeOK, Record, Setting
  <2> QED
    BY <1>3, <2>1 DEF Set, TypeOK
<1>4. ASSUME NEW v \in Value, EditScope(v) PROVE TypeOK'
  <2>1. [storage EXCEPT !.test = v] \in Record
    BY DEF TypeOK, Record, Setting
  <2> QED
    BY <1>4, <2>1, BeginWriteType DEF EditScope, TypeOK
<1>5. CASE Save
  BY <1>5, BeginWriteType DEF Save, TypeOK
<1>6. CASE ErasePage
  <2>1. flash' = [s \in Slot |-> flash'[s]] /\ \A s \in Slot : PageOK(flash'[s])
    BY <1>6, FlashUpdate, BlankPage DEF ErasePage
  <2> QED
    BY <1>6, <2>1 DEF ErasePage, TypeOK
<1>7. CASE EraseRefused
  BY <1>7 DEF EraseRefused, ReturnFalse, TypeOK, Cell
<1>8. CASE ProgramHalfword
  <2>1. flash' = [s \in Slot |-> flash'[s]] /\ \A s \in Slot : PageOK(flash'[s])
    BY <1>8, FlashUpdate, CellUpdate DEF ProgramHalfword
  <2>2. cell' \in Cell /\ phase' \in {"off", "idle", "erase", "program", "verify"}
    BY <1>8 DEF ProgramHalfword, NextHalfword, TypeOK, Cell
  <2>3. UNCHANGED <<storage, active, outcome, writes, damaged>>
    BY <1>8 DEF ProgramHalfword
  <2> QED
    BY <2>1, <2>2, <2>3 DEF TypeOK
<1>9. CASE ProgramRefused
  BY <1>9 DEF ProgramRefused, ReturnFalse, TypeOK, Cell
<1>10. CASE ProgramLost
  BY <1>10 DEF ProgramLost, NextHalfword, TypeOK, Cell
<1>11. CASE Promote
  BY <1>11, Constants DEF Promote, TypeOK, Slot
<1>12. CASE VerifyFails
  BY <1>12 DEF VerifyFails, ReturnFalse, TypeOK, Cell
<1>13. CASE PowerLoss
  BY <1>13, Constants DEF PowerLoss, Restart, TypeOK, Cell
<1>14. CASE PowerLossAfterErase
  <2>1. flash' = [s \in Slot |-> flash'[s]] /\ \A s \in Slot : PageOK(flash'[s])
    BY <1>14, FlashUpdate, BlankPage DEF PowerLossAfterErase
  <2> QED
    BY <1>14, <2>1, Constants DEF PowerLossAfterErase, Restart, TypeOK, Cell
<1>15. CASE PowerLossTearsErase
  <2>1. PICK K \in SUBSET Cell : flash' = [flash EXCEPT ![Target] = ClearedAt(@, K)]
    BY <1>15 DEF PowerLossTearsErase
  <2>2. PageOK(ClearedAt(flash[Target], K))
    <3>1. PageOK(flash[Target])
      BY Constants DEF TypeOK
    <3> QED
      BY <3>1 DEF PageOK, ClearedAt, Cell
  <2>3. flash' = [s \in Slot |-> flash'[s]] /\ \A s \in Slot : PageOK(flash'[s])
    BY <2>1, <2>2, FlashUpdate
  <2> QED
    BY <1>15, <2>3, Constants DEF PowerLossTearsErase, Restart, TypeOK, Cell
<1>16. CASE UNCHANGED vars
  BY <1>16 DEF vars, TypeOK
<1> QED
  BY <1>1, <1>2, <1>3, <1>4, <1>5, <1>6, <1>7, <1>8, <1>9, <1>10, <1>11, <1>12, <1>13, <1>14,
     <1>15, <1>16 DEF Next

LEMMA TypeInit == Init => TypeOK
<1> SUFFICES ASSUME Init PROVE TypeOK
  OBVIOUS
<1>1. PageOK(OldLayout)
  <2>1. [test |-> Garbage, seq |-> AllOnes, magic |-> NoMagic] \in Record
    BY DEF Record, Setting, Seq32, AllOnes
  <2> QED
    BY <2>1, ImagePage DEF OldLayout
<1>2. \A s \in Slot : PageOK(flash[s])
  BY <1>1, BlankPage DEF Init
<1>3. flash = [s \in Slot |-> flash[s]]
  BY DEF Init
<1>4. writes \in 0..MaxWrites /\ cell \in Cell
  BY DEF Init, Cell
<1>5. storage \in Record
  BY Constants DEF Init
<1>6. damaged \in BOOLEAN
  BY DEF Init
<1> QED
  BY <1>2, <1>3, <1>4, <1>5, <1>6 DEF Init, TypeOK

\* The variables keep their types: in particular a record read back from a
\* damaged page, and a counter bumped past any number of writes, stay a record
\* and a 32-bit counter.
THEOREM TypeCorrect == Spec => []TypeOK
<1>1. Init => TypeOK
  BY TypeInit
<1>2. TypeOK /\ [Next]_vars => TypeOK'
  BY TypeStep
<1> QED
  BY <1>1, <1>2, PTL DEF Spec

-----------------------------------------------------------------------------
(* The slot the driver runs from is never written *)

\* Erasing, programming and a torn erase all hit the target, and the target is
\* not the active slot; promotion and boot change no flash.
LEMMA ActiveUntouched ==
  TypeOK /\ [Next]_vars => (active # -1 => flash'[active] = flash[active])
<1> SUFFICES ASSUME TypeOK, [Next]_vars, active # -1 PROVE flash'[active] = flash[active]
  OBVIOUS
<1>1. active \in Slot /\ Target # active
  BY Constants DEF TypeOK, Slot
<1>2. ASSUME NEW page, flash' = [flash EXCEPT ![Target] = page]
      PROVE  flash'[active] = flash[active]
  BY <1>1, <1>2 DEF TypeOK
<1>3. CASE flash' = flash
  BY <1>3
<1>4. CASE ErasePage \/ PowerLossAfterErase
  BY <1>2, <1>4 DEF ErasePage, PowerLossAfterErase
<1>5. CASE ProgramHalfword
  BY <1>2, <1>5, CellUpdate DEF ProgramHalfword
<1>6. CASE PowerLossTearsErase
  BY <1>2, <1>6 DEF PowerLossTearsErase
<1> QED
  BY <1>3, <1>4, <1>5, <1>6 DEF Next, vars, BootFromSlot, BootFirstTime, Set, EditScope, Save,
     EraseRefused, ProgramRefused, ProgramLost, Promote, VerifyFails, PowerLoss

\* "Power loss at any point during the write leaves the OTHER slot intact", for
\* every kind of flash fault and any number of writes.
THEOREM OtherSlotStaysIntact == Spec => OtherSlotIntact
<1>1. TypeOK /\ [Next]_vars => [active # -1 => flash'[active] = flash[active]]_vars
  BY ActiveUntouched
<1> QED
  BY <1>1, TypeCorrect, PTL DEF Spec, OtherSlotIntact

-----------------------------------------------------------------------------
(* The inductive invariant *)

LEMMA SlotTypes ==
  ASSUME TypeOK
  PROVE  \A s \in Slot : RecordOf(flash[s]) \in Record /\ SlotSequence(s) \in Nat
<1>1. \A s \in Slot : RecordOf(flash[s]) \in Record
  BY ReadPage DEF TypeOK
<1> QED
  BY <1>1 DEF SlotSequence, Record, Seq32

LEMMA FlashUnchanged ==
  ASSUME flash' = flash
  PROVE  /\ \A s \in Slot : SlotMagicValid(s)' = SlotMagicValid(s)
         /\ \A s \in Slot : SlotSequence(s)' = SlotSequence(s)
         /\ BootSlot' = BootSlot
         /\ WholeSlots /\ writes' = writes => WholeSlots'
         /\ DistinctSequences => DistinctSequences'
  BY DEF SlotMagicValid, SlotSequence, BootSlot, WholeSlots, DistinctSequences

\* What changes when the target slot becomes the given page.
LEMMA TargetUpdate ==
  ASSUME TypeOK, NEW page, PageOK(page), flash' = [flash EXCEPT ![Target] = page],
         writes \in Nat, writes' = writes
  PROVE  /\ flash'[Target] = page
         /\ \A s \in Slot : s = Target => (SlotMagicValid(s)' <=> RecordOf(page).magic = Magic)
         /\ \A s \in Slot : s = Target => SlotSequence(s)' = RecordOf(page).seq
         /\ \A s \in Slot : s # Target => flash'[s] = flash[s]
         /\ \A s \in Slot : s # Target => (SlotMagicValid(s)' <=> SlotMagicValid(s))
         /\ \A s \in Slot : s # Target => SlotSequence(s)' = SlotSequence(s)
<1>1. flash'[Target] = page /\ \A s \in Slot : s # Target => flash'[s] = flash[s]
  BY FlashUpdate
<1> QED
  BY <1>1 DEF SlotMagicValid, SlotSequence

\* A slot being erased or programmed is invalid, so a boot finds the other one.
LEMMA TargetInvalid ==
  ASSUME TypeOK, Sound, phase \in {"erase", "program"},
         NEW page, PageOK(page), RecordOf(page).magic # Magic,
         flash' = [flash EXCEPT ![Target] = page], writes' = writes
  PROVE  /\ WholeSlots' /\ DistinctSequences' /\ BootSlot' = active
         /\ \A s \in Slot : s = active => SlotMagicValid(s)' /\ SlotSequence(s)' = SlotSequence(s)
<1>1. /\ \A s \in Slot : s = Target => ~SlotMagicValid(s)'
      /\ \A s \in Slot : s # Target => flash'[s] = flash[s]
      /\ \A s \in Slot : s # Target => (SlotMagicValid(s)' <=> SlotMagicValid(s))
      /\ \A s \in Slot : s # Target => SlotSequence(s)' = SlotSequence(s)
  <2>1. writes \in Nat
    BY DEF TypeOK
  <2> QED
    BY <2>1, TargetUpdate
<1>2. WholeSlots'
  BY <1>1 DEF Sound, WholeSlots
<1>3. DistinctSequences'
  BY <1>1 DEF DistinctSequences, Slot, Target
<1>4. BootSlot' = active
  <2>1. BootSlot = active /\ (active # -1 => SlotMagicValid(active))
    BY DEF Sound, BootsActive, ActiveSequence
  <2>2. CASE active = -1
    <3>1. ~SlotMagicValid(0) /\ ~SlotMagicValid(1)
      BY <2>1, <2>2 DEF BootSlot
    <3>2. ~SlotMagicValid(0)' /\ ~SlotMagicValid(1)'
      BY <1>1, <3>1 DEF Slot
    <3> QED
      BY <2>2, <3>2 DEF BootSlot
  <2>3. CASE active = 0
    <3>1. SlotMagicValid(0)' /\ ~SlotMagicValid(1)'
      BY <1>1, <2>1, <2>3 DEF Slot, Target
    <3> QED
      BY <2>3, <3>1 DEF BootSlot
  <2>4. CASE active = 1
    <3>1. ~SlotMagicValid(0)' /\ SlotMagicValid(1)'
      BY <1>1, <2>1, <2>4 DEF Slot, Target
    <3> QED
      BY <2>4, <3>1 DEF BootSlot
  <2> QED
    BY <2>2, <2>3, <2>4 DEF TypeOK
<1>5. \A s \in Slot : s = active => SlotMagicValid(s)' /\ SlotSequence(s)' = SlotSequence(s)
  <2>1. \A s \in Slot : s = active => SlotMagicValid(s) /\ s # Target
    BY Constants DEF Sound, ActiveSequence, Slot, TypeOK
  <2> QED
    BY <1>1, <2>1
<1> QED
  BY <1>2, <1>3, <1>4, <1>5

\* The last halfword makes the target a valid record, newer than any other.
LEMMA TargetComplete ==
  ASSUME TypeOK, Sound, phase = "program",
         flash' = [flash EXCEPT ![Target] = Image(storage)], writes' = writes
  PROVE  /\ WholeSlots' /\ DistinctSequences'
         /\ flash'[Target] = Image(storage)
         /\ \A s \in Slot : s = active => SlotMagicValid(s)' /\ SlotSequence(s)' = SlotSequence(s)
         /\ active = -1 => ~SlotMagicValid(1)'
<1>1. storage \in Record /\ PageOK(Image(storage)) /\ RecordOf(Image(storage)) = storage /\ writes \in Nat
  BY ImagePage, ReadImage DEF TypeOK
<1>2. /\ flash'[Target] = Image(storage)
      /\ \A s \in Slot : s = Target => SlotSequence(s)' = storage.seq
      /\ \A s \in Slot : s # Target => flash'[s] = flash[s]
      /\ \A s \in Slot : s # Target => (SlotMagicValid(s)' <=> SlotMagicValid(s))
      /\ \A s \in Slot : s # Target => SlotSequence(s)' = SlotSequence(s)
  BY <1>1, TargetUpdate
<1>3. storage.seq <= writes
  BY DEF Sound, LiveRecord
<1>4. WholeSlots'
  <2>1. ASSUME NEW s \in Slot, SlotMagicValid(s)'
        PROVE  flash'[s] = Image(RecordOf(flash'[s])) /\ SlotSequence(s)' <= writes
    <3>1. CASE s = Target
      BY <1>1, <1>2, <1>3, <3>1
    <3>2. CASE s # Target
      BY <1>2, <2>1, <3>2 DEF Sound, WholeSlots
    <3> QED
      BY <3>1, <3>2
  <2> QED
    BY <2>1 DEF WholeSlots
<1>5. \A s \in Slot : s = active => SlotMagicValid(s) /\ SlotSequence(s) < storage.seq /\ s # Target
  BY Constants DEF Sound, ActiveSequence, Writing, Slot, TypeOK
<1>6. active = -1 => ~SlotMagicValid(1)' /\ Target = 0
  <2>1. active = -1 => ~SlotMagicValid(1)
    BY DEF Sound, BootsActive, BootSlot
  <2> QED
    BY <1>2, <2>1 DEF Slot, Target
<1>7. DistinctSequences'
  <2>1. CASE active = -1
    BY <1>6, <2>1 DEF DistinctSequences
  <2>2. CASE active \in Slot
    <3>1. PICK s \in Slot : s = active
      BY <2>2
    <3>2. SlotSequence(s)' < storage.seq
      BY <1>2, <1>5, <3>1
    <3>3. \A t \in Slot : t = Target => SlotSequence(t)' = storage.seq
      BY <1>2
    <3>4. SlotSequence(s) \in Nat /\ storage.seq \in Nat
      BY SlotTypes DEF TypeOK, Record, Seq32
    <3>5. \A t \in Slot : t # s => SlotSequence(t)' = storage.seq
      BY <1>5, <3>1, <3>3, Constants DEF Slot
    <3>6. SlotSequence(0)' # SlotSequence(1)'
      BY <1>2, <1>5, <3>1, <3>2, <3>4, <3>5 DEF Slot
    <3> QED
      BY <3>6 DEF DistinctSequences
  <2> QED
    BY <2>1, <2>2 DEF TypeOK, Slot
<1> QED
  BY <1>2, <1>4, <1>5, <1>6, <1>7

\* A save numbers its record above everything in flash: the counter does not
\* wrap within MaxWrites.
LEMMA BeginWriteSound ==
  ASSUME TypeOK, Sound, NEW r \in Record, BeginWrite(r), UNCHANGED flash, active' = active,
         r.seq <= writes, BootSlot = active,
         active # -1 => SlotMagicValid(active) /\ SlotSequence(active) <= r.seq
  PROVE  Sound'
<1>1. /\ storage'.magic = Magic /\ storage'.seq = Bump(r.seq)
      /\ writes' = writes + 1 /\ writes' \in 0..MaxWrites /\ phase' = "erase"
  BY BeginWriteType DEF TypeOK
<1>2. writes \in Nat /\ r.seq \in Nat /\ r.seq \in Seq32 /\ r.seq < AllOnes
  BY <1>1, Constants DEF TypeOK, Record, Seq32, BeginWrite
<1>3. storage'.seq = r.seq + 1
  BY <1>1, <1>2, BumpType
<1>4. WholeSlots'
  <2>1. \A s \in Slot : SlotSequence(s) \in Nat
    BY SlotTypes
  <2> QED
    BY <1>1, <1>2, <2>1 DEF Sound, WholeSlots, SlotMagicValid, SlotSequence
<1>5. DistinctSequences'
  BY FlashUnchanged DEF Sound
<1>6. LiveRecord'
  BY <1>1, <1>2, <1>3 DEF LiveRecord
<1>7. BootsActive'
  BY FlashUnchanged DEF BootsActive
<1>8. ActiveSequence'
  <2>1. active # -1 => SlotSequence(active) \in Nat
    BY SlotTypes DEF TypeOK, Slot
  <2> QED
    BY <1>1, <1>2, <1>3, <2>1 DEF ActiveSequence, SlotMagicValid, SlotSequence
<1>9. FirstWrite' /\ TargetContents'
  BY <1>1 DEF FirstWrite, TargetContents, BeginWrite
<1> QED
  BY <1>4, <1>5, <1>6, <1>7, <1>8, <1>9 DEF Sound

\* A page left alone, whatever else changes, stays as sound as it was.
LEMMA SoundFlash ==
  ASSUME Sound, UNCHANGED <<flash, writes>>
  PROVE  WholeSlots' /\ DistinctSequences' /\ BootSlot' = BootSlot
  BY FlashUnchanged DEF Sound

\* With the power off, only the flash has to be sound.
LEMMA OffSound ==
  ASSUME Restart, WholeSlots', DistinctSequences'
  PROVE  Sound'
  BY DEF Restart, Sound, LiveRecord, BootsActive, ActiveSequence, FirstWrite, TargetContents

LEMMA SoundStep == TypeOK /\ Sound /\ [Next]_vars => (damaged' \/ Sound')
<1> SUFFICES ASSUME TypeOK, Sound, [Next]_vars, ~damaged' PROVE Sound'
  OBVIOUS
<1>0. \A s \in Slot : RecordOf(flash[s]) \in Record /\ SlotSequence(s) \in Nat
  BY SlotTypes
<1>1. CASE BootFromSlot
  <2>1. WholeSlots' /\ DistinctSequences' /\ BootSlot' = BootSlot
    BY <1>1, SoundFlash DEF BootFromSlot
  <2>2. BootSlot \in Slot /\ SlotMagicValid(BootSlot)
    BY <1>1 DEF BootFromSlot, BootSlot, Slot
  <2>3. storage'.magic = Magic /\ storage'.seq = SlotSequence(BootSlot) /\ storage'.seq <= writes
    BY <1>1, <2>2 DEF BootFromSlot, SlotMagicValid, SlotSequence, Sound, WholeSlots
  <2>4. \A s \in Slot : SlotMagicValid(s)' = SlotMagicValid(s) /\ SlotSequence(s)' = SlotSequence(s)
    BY <1>1, FlashUnchanged DEF BootFromSlot
  <2>5. ActiveSequence'
    <3>1. flash' = flash /\ active' = BootSlot /\ phase' = "idle"
      BY <1>1 DEF BootFromSlot
    <3> QED
      BY <2>2, <2>3, <1>0, <3>1 DEF ActiveSequence, Writing, SlotMagicValid, SlotSequence
  <2> QED
    BY <1>1, <2>1, <2>3, <2>5
       DEF BootFromSlot, Sound, LiveRecord, BootsActive, FirstWrite, TargetContents
<1>2. CASE BootFirstTime
  <2>1. active = -1 /\ DefaultRecord.seq = 0 /\ writes \in Nat
    BY <1>2 DEF BootFirstTime, Sound, LiveRecord, DefaultRecord, TypeOK
  <2> QED
    BY <1>2, <2>1, BeginWriteSound, Constants DEF BootFirstTime
<1>3. ASSUME NEW v \in Value, Set(v) PROVE Sound'
  <2>1. WholeSlots' /\ DistinctSequences' /\ BootSlot' = BootSlot
    BY <1>3, SoundFlash DEF Set
  <2>2. storage'.seq = storage.seq /\ storage'.magic = storage.magic
    BY <1>3 DEF Set, TypeOK, Record
  <2>3. flash' = flash /\ active' = active /\ phase' = phase /\ phase = "idle" /\ writes' = writes
    BY <1>3 DEF Set
  <2>4. ActiveSequence'
    BY <2>2, <2>3 DEF Sound, ActiveSequence, SlotMagicValid, SlotSequence, Writing
  <2> QED
    BY <2>1, <2>2, <2>3, <2>4 DEF Sound, LiveRecord, BootsActive, FirstWrite, TargetContents
<1>4. phase = "idle" =>
        /\ storage.seq <= writes
        /\ BootSlot = active
        /\ active # -1 => SlotMagicValid(active) /\ SlotSequence(active) <= storage.seq
  BY DEF Sound, LiveRecord, BootsActive, ActiveSequence
<1>5. ASSUME NEW v \in Value, EditScope(v) PROVE Sound'
  <2> DEFINE r == [storage EXCEPT !.test = v]
  <2>1. r \in Record /\ r.seq = storage.seq
    BY DEF TypeOK, Record, Setting
  <2>2. BeginWrite(r) /\ UNCHANGED flash /\ active' = active /\ phase = "idle"
    BY <1>5 DEF EditScope
  <2> HIDE DEF r
  <2> QED
    BY <1>4, <2>1, <2>2, BeginWriteSound
<1>6. CASE Save
  BY <1>4, <1>6, BeginWriteSound DEF Save, TypeOK
<1>7. CASE ErasePage
  <2>1. /\ phase = "erase" /\ phase' = "program" /\ cell = 1 /\ cell' = 1
        /\ UNCHANGED <<storage, active, writes>>
        /\ flash' = [flash EXCEPT ![Target] = Blank]
    BY <1>7 DEF ErasePage, Sound, TargetContents
  <2>2. /\ WholeSlots' /\ DistinctSequences' /\ BootSlot' = active
        /\ \A s \in Slot : s = active => SlotMagicValid(s)' /\ SlotSequence(s)' = SlotSequence(s)
    BY <2>1, TargetInvalid, BlankPage
  <2>3. Target' = Target /\ flash'[Target] = Blank /\ Blank = Partial(storage, 1)
    BY <2>1, FlashUpdate, BlankPage DEF Target
  <2>4. ActiveSequence'
    BY <2>1, <2>2 DEF Sound, ActiveSequence, Writing, Slot, TypeOK
  <2> QED
    BY <2>1, <2>2, <2>3, <2>4 DEF Sound, LiveRecord, BootsActive, FirstWrite, TargetContents
<1>8. CASE EraseRefused \/ ProgramRefused
  <2>1. /\ phase \in {"erase", "program"} /\ phase' = "idle"
        /\ UNCHANGED <<flash, storage, active, writes>>
    BY <1>8 DEF EraseRefused, ProgramRefused, ReturnFalse
  <2>2. WholeSlots' /\ DistinctSequences' /\ BootSlot' = BootSlot
    BY <2>1, SoundFlash
  <2>3. active # -1 => SlotMagicValid(active) /\ SlotSequence(active) < storage.seq
    BY <2>1 DEF Sound, ActiveSequence, Writing
  <2>4. active # -1 => SlotSequence(active) \in Nat /\ storage.seq \in Nat
    BY <1>0 DEF TypeOK, Slot, Record, Seq32
  <2>5. ActiveSequence'
    BY <2>1, <2>3, <2>4 DEF ActiveSequence, Writing, SlotMagicValid, SlotSequence
  <2> QED
    BY <2>1, <2>2, <2>5 DEF Sound, LiveRecord, BootsActive, FirstWrite, TargetContents
<1>9. CASE ProgramHalfword
  <2> DEFINE page == [flash[Target] EXCEPT ![cell] = Image(storage)[cell]]
  <2>1. /\ phase = "program" /\ NextHalfword /\ UNCHANGED <<storage, active, writes>>
        /\ flash[Target] = Partial(storage, cell)
        /\ cell \in Cell /\ storage \in Record /\ Target' = Target
    BY <1>9 DEF ProgramHalfword, Sound, TargetContents, TypeOK, Target
  <2>2. flash' = [flash EXCEPT ![Target] = page] /\ PageOK(page)
    BY <1>9, CellUpdate DEF ProgramHalfword
  <2>3. flash'[Target] = page
    BY <2>2, FlashUpdate
  <2>4. CASE cell # 6
    <3>1. page = Partial(storage, cell + 1) /\ cell + 1 \in Cell /\ cell' = cell + 1 /\ phase' = "program"
      BY <2>1, <2>4, PartialStep DEF NextHalfword, Cell
    <3>2. RecordOf(page).magic # Magic
      BY <2>1, <3>1, PartialPage
    <3>3. /\ WholeSlots' /\ DistinctSequences' /\ BootSlot' = active
          /\ \A s \in Slot : s = active => SlotMagicValid(s)' /\ SlotSequence(s)' = SlotSequence(s)
      BY <2>1, <2>2, <3>2, TargetInvalid
    <3>4. ActiveSequence'
      BY <2>1, <3>1, <3>3 DEF Sound, ActiveSequence, Writing, Slot, TypeOK
    <3> QED
      BY <2>1, <2>3, <3>1, <3>3, <3>4
         DEF Sound, LiveRecord, BootsActive, FirstWrite, TargetContents
  <2>5. CASE cell = 6
    <3>1. page = Image(storage) /\ phase' = "verify"
      BY <2>1, <2>5, PartialStep DEF NextHalfword
    <3>2. /\ WholeSlots' /\ DistinctSequences' /\ flash'[Target] = Image(storage)
          /\ \A s \in Slot : s = active => SlotMagicValid(s)' /\ SlotSequence(s)' = SlotSequence(s)
          /\ active = -1 => ~SlotMagicValid(1)'
      BY <2>1, <2>2, <3>1, TargetComplete
    <3>3. ActiveSequence'
      BY <2>1, <3>1, <3>2 DEF Sound, ActiveSequence, Writing, Slot, TypeOK
    <3> QED
      BY <2>1, <3>1, <3>2, <3>3
         DEF Sound, LiveRecord, BootsActive, FirstWrite, TargetContents
  <2> QED
    BY <2>4, <2>5
<1>10. CASE Promote
  <2>1. /\ phase = "verify" /\ phase' = "idle" /\ active' = Target
        /\ flash[Target] = Image(storage) /\ UNCHANGED <<flash, storage, writes>>
        /\ Target \in Slot
    BY <1>10, Constants DEF Promote
  <2>2. /\ WholeSlots' /\ DistinctSequences' /\ BootSlot' = BootSlot
        /\ \A s \in Slot : SlotMagicValid(s)' = SlotMagicValid(s) /\ SlotSequence(s)' = SlotSequence(s)
    BY <2>1, SoundFlash, FlashUnchanged
  <2>3. storage \in Record /\ RecordOf(flash[Target]) = storage /\ storage.magic = Magic
        /\ storage.seq \in Nat
    BY <2>1, ReadImage DEF TypeOK, Sound, LiveRecord, Record, Seq32
  <2>4. SlotMagicValid(Target) /\ SlotSequence(Target) = storage.seq
    BY <2>3 DEF SlotMagicValid, SlotSequence
  <2>5. BootSlot = Target
    <3>1. CASE active = -1
      BY <2>1, <2>4, <3>1 DEF Sound, FirstWrite, BootSlot, Target
    <3>2. CASE active = 0
      BY <1>0, <2>1, <2>3, <2>4, <3>2 DEF Sound, ActiveSequence, Writing, BootSlot, Target, Slot
    <3>3. CASE active = 1
      BY <1>0, <2>1, <2>3, <2>4, <3>3 DEF Sound, ActiveSequence, Writing, BootSlot, Target, Slot
    <3> QED
      BY <3>1, <3>2, <3>3 DEF TypeOK
  <2>6. ActiveSequence'
    <3>1. flash' = flash /\ storage' = storage
      BY <2>1
    <3> QED
      BY <2>1, <2>3, <2>4, <3>1 DEF ActiveSequence, Writing, SlotMagicValid, SlotSequence
  <2> QED
    BY <2>1, <2>2, <2>5, <2>6 DEF Sound, LiveRecord, BootsActive, FirstWrite, TargetContents
<1>11. CASE VerifyFails
  BY <1>11 DEF VerifyFails, Sound, TargetContents
<1>12. CASE PowerLoss
  BY <1>12, SoundFlash, OffSound DEF PowerLoss, Restart
<1>13. CASE PowerLossAfterErase
  <2>1. WholeSlots' /\ DistinctSequences'
    BY <1>13, TargetInvalid, BlankPage DEF PowerLossAfterErase, Restart
  <2> QED
    BY <1>13, <2>1, OffSound DEF PowerLossAfterErase
<1>14. CASE ProgramLost \/ PowerLossTearsErase
  BY <1>14 DEF ProgramLost, PowerLossTearsErase
<1>15. CASE UNCHANGED vars
  <2>1. UNCHANGED <<flash, storage, active, phase, cell, outcome, writes>>
    BY <1>15 DEF vars
  <2>2. WholeSlots' /\ DistinctSequences' /\ BootSlot' = BootSlot
    BY <2>1, SoundFlash
  <2> QED
    BY <2>1, <2>2 DEF Sound, LiveRecord, BootsActive, ActiveSequence, FirstWrite, TargetContents,
       Target, SlotMagicValid, SlotSequence
<1> QED
  BY <1>1, <1>2, <1>3, <1>5, <1>6, <1>7, <1>8, <1>9, <1>10, <1>11, <1>12, <1>13, <1>14, <1>15
     DEF Next

\* A fresh or re-flashed part has no valid slot.
LEMMA NoValidSlot == Init => BootSlot = -1 /\ \A s \in Slot : ~SlotMagicValid(s)
<1> SUFFICES ASSUME Init PROVE BootSlot = -1 /\ \A s \in Slot : ~SlotMagicValid(s)
  OBVIOUS
<1>1. RecordOf(OldLayout).magic # Magic
  <2> DEFINE r == [test |-> Garbage, seq |-> AllOnes, magic |-> NoMagic]
  <2>1. r \in Record /\ r.magic = NoMagic
    BY DEF Record, Setting, Seq32, AllOnes
  <2>2. RecordOf(OldLayout) = r
    BY <2>1, ReadImage DEF OldLayout
  <2> QED
    BY <2>1, <2>2
<1>2. \A s \in Slot : ~SlotMagicValid(s)
  BY <1>1, BlankPage DEF Init, SlotMagicValid
<1> QED
  BY <1>2 DEF BootSlot, Slot

LEMMA SoundInit == Init => Sound
  BY NoValidSlot
     DEF Init, Sound, WholeSlots, DistinctSequences, LiveRecord, BootsActive, ActiveSequence,
         FirstWrite, TargetContents, Slot

\* Damage is never undone, so the invariant holds up to the first silent fault.
THEOREM Inductive == Spec => []IInv
<1>1. Init => IInv
  BY TypeInit, SoundInit DEF IInv
<1>2. IInv /\ [Next]_vars => IInv'
  <2> SUFFICES ASSUME IInv, [Next]_vars PROVE IInv'
    OBVIOUS
  <2>1. TypeOK'
    BY TypeStep DEF IInv
  <2>2. ~damaged' => ~damaged
    BY DEF IInv, TypeOK, Next, vars, BootFromSlot, BootFirstTime, Set, EditScope, Save, ErasePage,
       EraseRefused, ProgramHalfword, ProgramRefused, ProgramLost, Promote, VerifyFails, PowerLoss,
       PowerLossAfterErase, PowerLossTearsErase
  <2>3. ~damaged' => Sound'
    BY <2>2, SoundStep DEF IInv
  <2> QED
    BY <2>1, <2>3 DEF IInv
<1> QED
  BY <1>1, <1>2, PTL DEF Spec

\* Power can fail at any instant: unless the flash misbehaved silently, a slot
\* whose magic reads valid has every halfword programmed.
THEOREM ValidSlotsAreWhole == Spec => []ValidSlotIsWhole
<1>1. IInv => ValidSlotIsWhole
  <2> SUFFICES ASSUME IInv, ~damaged, NEW s \in Slot, SlotMagicValid(s), NEW c \in Cell
               PROVE  flash[s][c] # Erased
    BY DEF ValidSlotIsWhole
  <2>1. flash[s] = Image(RecordOf(flash[s])) /\ RecordOf(flash[s]) \in Record
    BY SlotTypes DEF IInv, Sound, WholeSlots
  <2> QED
    BY <2>1, CellFields, NotErased DEF Cell
<1> QED
  BY <1>1, Inductive, PTL

\* However many saves fail, and in whatever step, a reboot before the last
\* halfword of a save is programmed chooses the slot the driver runs from.
THEOREM BootFindsActive == Spec => []ActiveIsNewest
<1>1. IInv => ActiveIsNewest
  BY DEF IInv, Sound, BootsActive, ActiveIsNewest
<1> QED
  BY <1>1, Inductive, PTL

-----------------------------------------------------------------------------
(* Every behaviour of the dual-slot driver is a behaviour of the one-record *)
(* store: the steps of Nvm, one by one, as steps of SettingsStore.          *)

USE NvmAssumption

-----------------------------------------------------------------------------
(* What a boot would load *)

LEMMA BootSlotType == BootSlot \in {-1, 0, 1}
  BY DEF BootSlot

LEMMA DurableType ==
  ASSUME TypeOK
  PROVE  /\ Durable \in Setting \cup {None}
         /\ Durable = None <=> BootSlot = -1
<1>1. CASE BootSlot = -1
  BY <1>1 DEF Durable
<1>2. CASE BootSlot # -1
  <2>1. RecordOf(flash[BootSlot]) \in Record
    BY <1>2, BootSlotType, SlotTypes DEF Slot
  <2>2. RecordOf(flash[BootSlot]).test \in Setting
    BY <2>1 DEF Record
  <2> QED
    BY <1>2, <2>2 DEF Durable, Setting
<1> QED
  BY <1>1, <1>2

DurableOK == Durable \in Setting \cup {None}

LEMMA DurableTyped == TypeOK => DurableOK
  BY DurableType DEF DurableOK

\* WrittenIsDurable as a predicate, to be used of the state after a step.
WrittenOK == phase = "verify" => Durable = storage.test

LEMMA DurableKept ==
  ASSUME flash' = flash
  PROVE  Durable' = Durable
  BY FlashUnchanged DEF Durable, BootSlot, SlotMagicValid, SlotSequence

\* While a boot would choose the active slot, before and after a step that
\* leaves that slot alone, it would load the same setting.
LEMMA DurableActive ==
  ASSUME BootSlot = active, BootSlot' = active, active # -1 => flash'[active] = flash[active]
  PROVE  Durable' = Durable
  BY DEF Durable

\* Once the last halfword is programmed, a boot would load the new record.
LEMMA WrittenIsDurable ==
  ASSUME TypeOK, Sound, phase = "verify"
  PROVE  Durable = storage.test
<1>1. flash[Target] = Image(storage) /\ storage \in Record /\ RecordOf(flash[Target]) = storage
      /\ storage.magic = Magic /\ storage.seq \in Nat /\ Target \in Slot
  BY ReadImage, Constants DEF Sound, TargetContents, LiveRecord, TypeOK, Record, Seq32
<1>2. SlotMagicValid(Target) /\ SlotSequence(Target) = storage.seq
  BY <1>1 DEF SlotMagicValid, SlotSequence
<1>3. \A s \in Slot : SlotSequence(s) \in Nat
  BY SlotTypes
<1>4. BootSlot = Target
  <2>1. CASE active = -1
    BY <1>2, <2>1 DEF Sound, FirstWrite, BootSlot, Target
  <2>2. CASE active = 0
    BY <1>1, <1>2, <1>3, <2>2 DEF Sound, ActiveSequence, Writing, BootSlot, Target, Slot
  <2>3. CASE active = 1
    BY <1>1, <1>2, <1>3, <2>3 DEF Sound, ActiveSequence, Writing, BootSlot, Target, Slot
  <2> QED
    BY <2>1, <2>2, <2>3 DEF TypeOK
<1> QED
  BY <1>1, <1>4, Constants DEF Durable, Slot

LEMMA Written == TypeOK /\ Sound => WrittenOK
  BY WrittenIsDurable DEF WrittenOK

-----------------------------------------------------------------------------
(* The initial states *)

LEMMA RefinesInit == Init => Store!StoreInit
<1> SUFFICES ASSUME Init PROVE Store!StoreInit
  OBVIOUS
<1>1. Durable = None
  BY NoValidSlot DEF Durable
<1>2. storage.test = Zero /\ StorePhase = "off" /\ outcome = "none" /\ damaged = FALSE
  BY DEF Init, ZeroRecord, StorePhase
<1> QED
  BY <1>1, <1>2 DEF Store!StoreInit

-----------------------------------------------------------------------------
(* The steps, on flash that behaves and on flash that does not *)

StoreVars == <<Durable, storage.test, StorePhase, outcome, damaged>>

\* Within a save the active slot, and with it what a boot would load, stays.
LEMMA SaveKeepsDurable ==
  ASSUME TypeOK, Sound, Sound', [Next]_vars, active' = active,
         phase \in {"erase", "program"}, phase' \in {"idle", "erase", "program"}
  PROVE  Durable' = Durable
<1>1. BootSlot = active /\ BootSlot' = active
  BY DEF Sound, BootsActive
<1>2. active # -1 => flash'[active] = flash[active]
  BY ActiveUntouched
<1> QED
  BY <1>1, <1>2, DurableActive

\* Erasing and programming on flash that has misbehaved: anything may result.
LEMMA DamagedWork ==
  ASSUME TypeOK, TypeOK', phase \in {"erase", "program"}, damaged', UNCHANGED <<storage, outcome>>
  PROVE  /\ phase' \in {"erase", "program"} => Store!Work
         /\ phase' = "verify" => Store!TakeEffect
<1>1. Durable' \in Setting \cup {None}
  <2>1. DurableOK'
    BY DurableTyped, PTL
  <2> QED
    BY <2>1 DEF DurableOK
<1> QED
  BY <1>1 DEF Store!Work, Store!TakeEffect, Store!Arbitrary, Store!Setting, Setting, StorePhase

LEMMA RefinesStep == IInv /\ IInv' /\ [Next]_vars => [Store!StoreNext]_StoreVars
<1> SUFFICES ASSUME IInv, IInv', [Next]_vars PROVE [Store!StoreNext]_StoreVars
  OBVIOUS
<1> USE DEF Store!Setting
<1>0. /\ TypeOK /\ TypeOK' /\ (~damaged => Sound) /\ (~damaged' => Sound')
      /\ Durable \in Setting \cup {None} /\ (Durable = None <=> BootSlot = -1)
      /\ Durable' \in Setting \cup {None} /\ damaged \in BOOLEAN /\ damaged' \in BOOLEAN
  <2>1. TypeOK /\ TypeOK' /\ (~damaged => Sound) /\ (~damaged' => Sound')
    BY DEF IInv
  <2>2. DurableOK'
    BY <2>1, DurableTyped, PTL
  <2>3. damaged \in BOOLEAN /\ damaged' \in BOOLEAN
    BY <2>1 DEF TypeOK
  <2> QED
    BY <2>1, <2>2, <2>3, DurableType DEF DurableOK
<1>1. CASE BootFromSlot
  <2>1. Durable' = Durable /\ Durable # None /\ storage'.test = Durable
    BY <1>0, <1>1, DurableKept DEF BootFromSlot, Durable
  <2>2. StorePhase = "off" /\ StorePhase' = "idle" /\ UNCHANGED <<outcome, damaged>>
    BY <1>1 DEF BootFromSlot, StorePhase
  <2> QED
    BY <2>1, <2>2 DEF Store!StoreNext, Store!Boot
<1>2. CASE BootFirstTime
  <2>1. Durable' = Durable /\ Durable = None
    BY <1>0, <1>2, DurableKept DEF BootFirstTime
  <2>2. storage'.test = Default /\ phase' = "erase"
    BY <1>0, <1>2, BeginWriteType, Constants DEF BootFirstTime, TypeOK, DefaultRecord
  <2>3. StorePhase = "off" /\ StorePhase' = "saving" /\ UNCHANGED <<outcome, damaged>>
    BY <1>2, <2>2 DEF BootFirstTime, StorePhase
  <2> QED
    BY <2>1, <2>2, <2>3 DEF Store!StoreNext, Store!Boot
<1>3. ASSUME NEW v \in Value, Set(v) PROVE Store!StoreNext
  <2>1. Durable' = Durable /\ storage'.test = v
    BY <1>0, <1>3, DurableKept DEF Set, TypeOK, Record
  <2>2. StorePhase = "idle" /\ StorePhase' = "idle" /\ UNCHANGED <<outcome, damaged>>
    BY <1>3 DEF Set, StorePhase
  <2> QED
    BY <2>1, <2>2 DEF Store!StoreNext, Store!Change
<1>4. ASSUME Save \/ \E v \in Value : EditScope(v) PROVE Store!StoreNext
  <2>1. phase = "idle" /\ phase' = "erase" /\ UNCHANGED <<flash, outcome, damaged>>
    BY <1>4 DEF Save, EditScope, BeginWrite
  <2>2. storage'.test \in Setting
    BY <1>0 DEF TypeOK, Record
  <2>3. Durable' = Durable /\ StorePhase = "idle" /\ StorePhase' = "saving"
    BY <2>1, DurableKept DEF StorePhase
  <2> QED
    BY <2>1, <2>2, <2>3 DEF Store!StoreNext, Store!BeginSave, Setting
<1>5. CASE ErasePage
  <2>1. phase = "erase" /\ phase' = "program" /\ UNCHANGED <<storage, active, outcome, damaged>>
    BY <1>5 DEF ErasePage
  <2>2. CASE damaged
    BY <1>0, <2>1, <2>2, DamagedWork DEF Store!StoreNext
  <2>3. CASE ~damaged
    <3>1. Durable' = Durable
      BY <1>0, <2>1, <2>3, SaveKeepsDurable
    <3> QED
      BY <2>1, <3>1 DEF StoreVars, StorePhase
  <2> QED
    BY <2>2, <2>3
<1>6. CASE EraseRefused \/ ProgramRefused
  <2>1. /\ phase \in {"erase", "program"} /\ phase' = "idle" /\ outcome' = "failed"
        /\ UNCHANGED <<flash, storage, damaged>>
    BY <1>6 DEF EraseRefused, ProgramRefused, ReturnFalse
  <2>2. Durable' = Durable /\ StorePhase = "saving" /\ StorePhase' = "idle"
    BY <2>1, DurableKept DEF StorePhase
  <2> QED
    BY <2>1, <2>2 DEF Store!StoreNext, Store!ReportFailed
<1>7. CASE ProgramHalfword
  <2>1. /\ phase = "program" /\ phase' \in {"program", "verify"}
        /\ UNCHANGED <<storage, active, outcome, damaged>>
    BY <1>7 DEF ProgramHalfword, NextHalfword
  <2>2. CASE damaged
    BY <1>0, <2>1, <2>2, DamagedWork DEF Store!StoreNext
  <2>3. CASE ~damaged /\ phase' = "program"
    <3>1. Durable' = Durable
      BY <1>0, <2>1, <2>3, SaveKeepsDurable
    <3> QED
      BY <2>1, <2>3, <3>1 DEF StoreVars, StorePhase
  <2>4. CASE ~damaged /\ phase' = "verify"
    <3>1. WrittenOK'
      <4>1. TypeOK' /\ Sound'
        BY <1>0, <2>1, <2>4
      <4> QED
        BY <4>1, Written, PTL
    <3>2. Durable' = storage.test /\ StorePhase = "saving" /\ StorePhase' = "written"
      BY <2>1, <2>4, <3>1 DEF WrittenOK, StorePhase
    <3> QED
      BY <2>1, <3>2 DEF Store!StoreNext, Store!TakeEffect
  <2> QED
    BY <2>1, <2>2, <2>3, <2>4
<1>8. CASE ProgramLost
  <2>1. /\ phase = "program" /\ phase' \in {"program", "verify"} /\ damaged'
        /\ UNCHANGED <<storage, outcome>>
    BY <1>8 DEF ProgramLost, NextHalfword
  <2> QED
    BY <1>0, <2>1, DamagedWork DEF Store!StoreNext
<1>9. CASE Promote
  <2>1. /\ phase = "verify" /\ phase' = "idle" /\ outcome' = "saved"
        /\ UNCHANGED <<flash, storage, damaged>>
    BY <1>9 DEF Promote
  <2>2. Durable' = Durable /\ StorePhase = "written" /\ StorePhase' = "idle"
    BY <2>1, DurableKept DEF StorePhase
  <2>3. Durable = storage.test \/ damaged
    BY <1>0, <2>1, WrittenIsDurable
  <2> QED
    BY <2>1, <2>2, <2>3 DEF Store!StoreNext, Store!ReportSaved
<1>10. CASE VerifyFails
  <2>1. /\ phase = "verify" /\ phase' = "idle" /\ outcome' = "failed"
        /\ UNCHANGED <<flash, storage, damaged>>
    BY <1>10 DEF VerifyFails, ReturnFalse
  <2>2. Durable' = Durable /\ StorePhase = "written" /\ StorePhase' = "idle"
    BY <2>1, DurableKept DEF StorePhase
  <2>3. damaged
    BY <1>0, <1>10 DEF VerifyFails, Sound, TargetContents
  <2> QED
    BY <2>1, <2>2, <2>3 DEF Store!StoreNext, Store!ReportFailed
<1>11. ASSUME Restart, Durable' = Durable, damaged' = damaged PROVE Store!StoreNext
  <2>1. phase # "off" /\ storage'.test = Zero /\ outcome' = "none" /\ phase' = "off"
    BY <1>11 DEF Restart, ZeroRecord
  <2>2. StorePhase # "off" /\ StorePhase' = "off"
    BY <2>1 DEF StorePhase
  <2> QED
    BY <1>11, <2>1, <2>2 DEF Store!StoreNext, Store!PowerLoss
<1>12. CASE PowerLoss
  BY <1>11, <1>12, DurableKept DEF PowerLoss
<1>13. ASSUME Restart, phase = "erase", damaged' PROVE Store!StoreNext
  <2>1. StorePhase = "saving" /\ storage'.test = Zero /\ outcome' = "none" /\ StorePhase' = "off"
    BY <1>13 DEF Restart, ZeroRecord, StorePhase
  <2> QED
    BY <1>0, <1>13, <2>1 DEF Store!StoreNext, Store!PowerLoss, Store!Arbitrary, Setting
<1>14. CASE PowerLossTearsErase
  BY <1>13, <1>14 DEF PowerLossTearsErase
<1>15. CASE PowerLossAfterErase
  <2>1. CASE damaged
    BY <1>13, <1>15, <2>1 DEF PowerLossAfterErase
  <2>2. CASE ~damaged
    <3>1. BootSlot' = active /\ BootSlot = active
      BY <1>0, <1>15, <2>2, TargetInvalid, BlankPage
         DEF PowerLossAfterErase, Restart, Sound, BootsActive
    <3>2. active # -1 => flash'[active] = flash[active]
      BY <1>0, ActiveUntouched
    <3>3. Durable' = Durable
      BY <3>1, <3>2, DurableActive
    <3> QED
      BY <1>11, <1>15, <3>3 DEF PowerLossAfterErase
  <2> QED
    BY <2>1, <2>2
<1>16. CASE UNCHANGED vars
  <2>1. UNCHANGED <<flash, storage, phase, outcome, damaged>>
    BY <1>16 DEF vars
  <2> QED
    BY <2>1, DurableKept DEF StoreVars, StorePhase
<1> QED
  BY <1>1, <1>2, <1>3, <1>4, <1>5, <1>6, <1>7, <1>8, <1>9, <1>10, <1>12, <1>14, <1>15, <1>16
     DEF Next

\* Saves are atomic across power loss at any instant, their reports are true,
\* and nothing saved is lost, as long as the flash does what it reports.
THEOREM NvmImplementsStore == Spec => ImplementsStore
<1>1. Init => Store!StoreInit
  BY RefinesInit
<1>2. IInv /\ IInv' /\ [Next]_vars => [Store!StoreNext]_(Store!storeVars)
  BY RefinesStep DEF StoreVars, Store!storeVars
<1> QED
  BY <1>1, <1>2, Inductive, PTL DEF Spec, ImplementsStore, Store!StoreSpec
=============================================================================
