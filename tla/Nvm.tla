-------------------------------- MODULE Nvm --------------------------------
(***************************************************************************)
(* The dual-slot settings driver (src/src/nvm/nvm.{h,cpp}) over the STM32   *)
(* flash: Init() chooses a slot by magic and sequence, Write() erases,      *)
(* programs halfword by halfword and verifies the other slot, then promotes *)
(* it.  Power can fail between any two steps; the flash can refuse an       *)
(* operation (the HAL reports it) or misbehave without saying so.           *)
(*                                                                         *)
(* A slot is its six halfwords.  A halfword is Erased or carries the value  *)
(* of the word it is half of; a word whose halves disagree, or are erased,  *)
(* reads as the junk of its type, which for the sequence is 0xFFFFFFFF.     *)
(* Callers (Set, Save, EditScope) run in the CLI task, so Write() is never  *)
(* re-entered; other tasks do not touch the driver.                         *)
(***************************************************************************)
EXTENDS Integers

CONSTANTS
  Value,        \* settings: the bit patterns of test_value
  Default,      \* kTestValueDefault
  Zero,         \* test_value of the zero-initialised storage_
  Garbage,      \* test_value read from a word that is not whole
  Magic,        \* kNvmMagic
  NoMagic,      \* any other magic word
  Erased,       \* a halfword that reads 0xFFFF
  None,         \* no valid record (refinement mapping only)
  SeqModulus,   \* 2^32: nvm_sequence is a uint32_t
  MaxWrites,    \* bound: Write() calls in the life of the flash
  Faults        \* which of the fault kinds below the flash may show

FaultKinds == {"reported", "silent", "torn"}

\* The flash wears out (10 000 erase cycles) long before the counter wraps.
ASSUME NvmAssumption ==
  /\ Default \in Value /\ Zero \in Value
  /\ Garbage \notin Value /\ None \notin Value \cup {Garbage}
  /\ Magic # NoMagic /\ Magic # Erased /\ NoMagic # Erased
  /\ Erased \notin Value \cup {Garbage} /\ Erased \notin Int
  /\ SeqModulus \in Nat /\ MaxWrites \in Nat /\ MaxWrites < SeqModulus - 1
  /\ Faults \subseteq FaultKinds

VARIABLES
  flash,     \* the two slots, as halfwords
  storage,   \* storage_, the live record
  active,    \* active_slot_, -1 when no slot has been promoted or loaded
  phase,     \* "off", "idle", or where Write() is: "erase", "program", "verify"
  cell,      \* the halfword ProgramPage writes next
  outcome,   \* what the last Write() returned: "none", "saved", "failed"
  writes,    \* history: Write() calls so far
  damaged    \* history: the flash has misbehaved silently

vars == <<flash, storage, active, phase, cell, outcome, writes, damaged>>

Slot == {0, 1}
Cell == 1..6
AllOnes == SeqModulus - 1
Seq32 == 0..AllOnes
Setting == Value \cup {Garbage}
Record == [test : Setting, seq : Seq32, magic : {Magic, NoMagic}]

FieldOf(c) == IF c <= 2 THEN "test" ELSE IF c <= 4 THEN "seq" ELSE "magic"

\* The halfwords of a record in the order ProgramPage writes them: magic last.
Image(r) == [c \in Cell |-> r[FieldOf(c)]]
Blank == [c \in Cell |-> Erased]

Word(page, lo, junk) ==
  IF page[lo] # Erased /\ page[lo] = page[lo + 1] THEN page[lo] ELSE junk

RecordOf(page) ==
  [test |-> Word(page, 1, Garbage), seq |-> Word(page, 3, AllOnes), magic |-> Word(page, 5, NoMagic)]

SlotMagicValid(s) == RecordOf(flash[s]).magic = Magic
SlotSequence(s) == RecordOf(flash[s]).seq

\* Seeded variant: the older of two valid slots wins.
BootSlotOldest ==
  IF ~SlotMagicValid(0) /\ ~SlotMagicValid(1) THEN -1
  ELSE IF SlotMagicValid(0) /\ (SlotMagicValid(1) => SlotSequence(0) <= SlotSequence(1))
       THEN 0 ELSE 1

\* The slot Init() chooses, -1 when neither is valid; a tie goes to slot 0.
BootSlot ==
  IF ~SlotMagicValid(0) /\ ~SlotMagicValid(1) THEN -1
  ELSE IF SlotMagicValid(0) /\ (SlotMagicValid(1) => SlotSequence(0) >= SlotSequence(1))
       THEN 0 ELSE 1

\* Seeded variant: a write always goes to slot 0.
TargetAlwaysZero == 0

\* The slot Write() programs: the one that is not active, slot 0 the first time.
Target == IF active = 0 THEN 1 ELSE 0

DefaultRecord == [test |-> Default, seq |-> 0, magic |-> Magic]
ZeroRecord == [test |-> Zero, seq |-> 0, magic |-> NoMagic]

-----------------------------------------------------------------------------
(* A fresh or re-flashed part: each slot is erased or holds a record of     *)
(* another layout, that is, under another magic.                            *)

OldLayout == Image([test |-> Garbage, seq |-> AllOnes, magic |-> NoMagic])

Init ==
  /\ flash \in [Slot -> {Blank, OldLayout}]
  /\ storage = ZeroRecord
  /\ active = -1
  /\ phase = "off"
  /\ cell = 1
  /\ outcome = "none"
  /\ writes = 0
  /\ damaged = FALSE

-----------------------------------------------------------------------------
(* Callers *)

\* nvm_sequence += 1, in 32 bits.
Bump(n) == IF n = AllOnes THEN 0 ELSE n + 1

\* Seeded variant: the sequence is left alone.
BeginWriteNoBump(r) ==
  /\ writes < MaxWrites
  /\ writes' = writes + 1
  /\ storage' = [r EXCEPT !.magic = Magic]
  /\ phase' = "erase"
  /\ cell' = 1

\* Write() up to ErasePage: the RAM record is bumped before flash is touched.
BeginWrite(r) ==
  /\ writes < MaxWrites
  /\ writes' = writes + 1
  /\ storage' = [r EXCEPT !.seq = Bump(@), !.magic = Magic]
  /\ phase' = "erase"
  /\ cell' = 1

\* Init() with a valid slot: load it.
BootFromSlot ==
  /\ phase = "off"
  /\ BootSlot # -1
  /\ storage' = RecordOf(flash[BootSlot])
  /\ active' = BootSlot
  /\ phase' = "idle"
  /\ UNCHANGED <<flash, cell, outcome, writes, damaged>>

\* Init() with no valid slot: defaults, then a first Write() into slot 0.
BootFirstTime ==
  /\ phase = "off"
  /\ BootSlot = -1
  /\ active' = -1
  /\ BeginWrite(DefaultRecord)
  /\ UNCHANGED <<flash, outcome, damaged>>

\* Mutate() from `nvm set`: RAM only.
Set(v) ==
  /\ phase = "idle"
  /\ storage' = [storage EXCEPT !.test = v]
  /\ UNCHANGED <<flash, active, phase, cell, outcome, writes, damaged>>

\* The `save` command.
Save ==
  /\ phase = "idle"
  /\ BeginWrite(storage)
  /\ UNCHANGED <<flash, active, outcome, damaged>>

\* BeginEdit() ... ~Edit(): a change and its Write() in one scope.
EditScope(v) ==
  /\ phase = "idle"
  /\ BeginWrite([storage EXCEPT !.test = v])
  /\ UNCHANGED <<flash, active, outcome, damaged>>

-----------------------------------------------------------------------------
(* Write(), step by step.  A refusal by the HAL ends it at once.            *)

ReturnFalse ==
  /\ phase' = "idle"
  /\ cell' = 1
  /\ outcome' = "failed"

ErasePage ==
  /\ phase = "erase"
  /\ flash' = [flash EXCEPT ![Target] = Blank]
  /\ phase' = "program"
  /\ UNCHANGED <<storage, active, cell, outcome, writes, damaged>>

EraseRefused ==
  /\ "reported" \in Faults
  /\ phase = "erase"
  /\ ReturnFalse
  /\ UNCHANGED <<flash, storage, active, writes, damaged>>

\* Seeded variant: the programming loop runs one halfword too far.
NextHalfwordPastEnd ==
  IF cell > 6 THEN phase' = "verify" /\ cell' = 1
              ELSE phase' = phase /\ cell' = cell + 1

\* The loop of ProgramPage.
NextHalfword ==
  IF cell = 6 THEN phase' = "verify" /\ cell' = 1
              ELSE phase' = phase /\ cell' = cell + 1

\* Seeded variant: the record is programmed from its last halfword down.
ProgramMagicFirst ==
  /\ phase = "program"
  /\ flash' = [flash EXCEPT ![Target][7 - cell] = Image(storage)[7 - cell]]
  /\ NextHalfword
  /\ UNCHANGED <<storage, active, outcome, writes, damaged>>

ProgramHalfword ==
  /\ phase = "program"
  /\ flash' = [flash EXCEPT ![Target][cell] = Image(storage)[cell]]
  /\ NextHalfword
  /\ UNCHANGED <<storage, active, outcome, writes, damaged>>

ProgramRefused ==
  /\ "reported" \in Faults
  /\ phase = "program"
  /\ ReturnFalse
  /\ UNCHANGED <<flash, storage, active, writes, damaged>>

\* The HAL reports success, yet the halfword still reads erased.
ProgramLost ==
  /\ "silent" \in Faults
  /\ phase = "program"
  /\ NextHalfword
  /\ damaged' = TRUE
  /\ UNCHANGED <<flash, storage, active, outcome, writes>>

Promote ==
  /\ phase = "verify"
  /\ flash[Target] = Image(storage)
  /\ active' = Target
  /\ phase' = "idle"
  /\ outcome' = "saved"
  /\ UNCHANGED <<flash, storage, cell, writes, damaged>>

VerifyFails ==
  /\ phase = "verify"
  /\ flash[Target] # Image(storage)
  /\ ReturnFalse
  /\ UNCHANGED <<flash, storage, active, writes, damaged>>

-----------------------------------------------------------------------------
(* Power loss, a reset or a hard fault: RAM is lost, flash stays.  Caught   *)
(* during the erase, the page is either still whole or already blank; a     *)
(* torn erase leaves some halfwords erased and others not.                  *)

ClearedAt(page, K) == [c \in Cell |-> IF c \in K THEN Erased ELSE page[c]]

Restart ==
  /\ phase # "off"
  /\ phase' = "off"
  /\ storage' = ZeroRecord
  /\ active' = -1
  /\ cell' = 1
  /\ outcome' = "none"
  /\ UNCHANGED writes

PowerLoss ==
  /\ Restart
  /\ UNCHANGED <<flash, damaged>>

PowerLossAfterErase ==
  /\ phase = "erase"
  /\ Restart
  /\ flash' = [flash EXCEPT ![Target] = Blank]
  /\ UNCHANGED damaged

PowerLossTearsErase ==
  /\ "torn" \in Faults
  /\ phase = "erase"
  /\ Restart
  /\ \E K \in SUBSET Cell : flash' = [flash EXCEPT ![Target] = ClearedAt(@, K)]
  /\ damaged' = TRUE

Next ==
  \/ BootFromSlot
  \/ BootFirstTime
  \/ \E v \in Value : Set(v) \/ EditScope(v)
  \/ Save
  \/ ErasePage \/ EraseRefused
  \/ ProgramHalfword \/ ProgramRefused \/ ProgramLost
  \/ Promote \/ VerifyFails
  \/ PowerLoss \/ PowerLossAfterErase \/ PowerLossTearsErase

Spec == Init /\ [][Next]_vars

-----------------------------------------------------------------------------
(* Properties *)

PageOK(page) ==
  /\ page = [c \in Cell |-> page[c]]
  /\ \A c \in 1..2 : page[c] \in Setting \cup {Erased}
  /\ \A c \in 3..4 : page[c] \in Seq32 \cup {Erased}
  /\ \A c \in 5..6 : page[c] \in {Magic, NoMagic, Erased}

\* Every variable has its type; a record read from any page is a record.
TypeOK ==
  /\ flash = [s \in Slot |-> flash[s]]
  /\ \A s \in Slot : PageOK(flash[s])
  /\ storage \in Record
  /\ active \in {-1, 0, 1}
  /\ phase \in {"off", "idle", "erase", "program", "verify"}
  /\ cell \in Cell
  /\ outcome \in {"none", "saved", "failed"}
  /\ writes \in 0..MaxWrites
  /\ damaged \in BOOLEAN

\* nvm.h: "Power loss at any point during the write leaves the OTHER slot
\* intact".  Whatever the flash does, no step of the running driver, and no
\* power loss, changes the slot it last loaded or promoted.
OtherSlotIntact ==
  [][active # -1 => flash'[active] = flash[active]]_vars

\* Unless the flash misbehaved silently: a slot whose magic reads valid is
\* completely programmed, at every instant at which power could fail.
ValidSlotIsWhole ==
  ~damaged => \A s \in Slot : SlotMagicValid(s) => \A c \in Cell : flash[s][c] # Erased

\* Unless the flash misbehaved silently: up to the last halfword of a save,
\* a reboot would choose the slot the driver is running from, whatever saves
\* failed before; in particular two valid slots never tie.
ActiveIsNewest ==
  (~damaged /\ phase \in {"idle", "erase", "program"}) => BootSlot = active

\* What a boot would load, and the progress of a save as a caller sees it.
Durable == IF BootSlot = -1 THEN None ELSE RecordOf(flash[BootSlot]).test

StorePhase ==
  IF phase \in {"erase", "program"} THEN "saving" ELSE IF phase = "verify" THEN "written" ELSE phase

Store == INSTANCE SettingsStore WITH
  durable <- Durable, ram <- storage.test, phase <- StorePhase, unreliable <- damaged

\* The driver implements the one-record store of SettingsStore: saves are
\* atomic, their report is true, and power loss keeps what was saved.
ImplementsStore == Store!StoreSpec

\* requirements.md, nvm.persistence: "programs and verifies it, then promotes
\* it, so a partial write never corrupts the active record".  Read as: what a
\* reboot loads after a save has failed is still the record the driver runs
\* from.  False when verification is what failed.
FailedSaveChangesNothing ==
  (phase = "idle" /\ outcome = "failed" /\ active # -1) => BootSlot = active
=============================================================================
