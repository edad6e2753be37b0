--------------------------- MODULE SettingsStore ---------------------------
(***************************************************************************)
(* What the nonvolatile settings store promises its callers (the contract   *)
(* written in src/src/nvm/nvm.h), with the two flash pages, the magic word  *)
(* and the sequence counter hidden: there is one durable setting, a save    *)
(* replaces it in one step or not at all, a save that reports success has   *)
(* taken effect, one that reports failure has not, and a power loss at any  *)
(* moment costs at most what was not yet saved.                             *)
(*                                                                         *)
(* The promise is made for flash that does what it is told.  `unreliable`   *)
(* becomes TRUE when the flash itself misbehaved (a halfword silently not   *)
(* programmed, an erase torn by a power loss); from then on a save may      *)
(* leave any setting behind.  Module Nvm implements this specification.     *)
(***************************************************************************)

CONSTANTS
  Value,     \* the settings a caller can store
  Default,   \* kTestValueDefault, used when nothing is stored
  Zero,      \* what RAM holds before Nvm::Init() has run
  Garbage,   \* what a damaged record reads as
  None       \* durable: no valid record anywhere

VARIABLES
  durable,     \* what the next boot will load
  ram,         \* the live setting
  phase,       \* "off", "idle", "saving" (not yet in effect), "written"
  outcome,     \* what the last save reported: "none", "saved", "failed"
  unreliable   \* the flash has misbehaved at least once

storeVars == <<durable, ram, phase, outcome, unreliable>>

Setting == Value \cup {Garbage}

StoreInit ==
  /\ durable = None
  /\ ram = Zero
  /\ phase = "off"
  /\ outcome = "none"
  /\ unreliable = FALSE

\* Power on: load the durable setting, or fall back to the default and save it.
Boot ==
  /\ phase = "off"
  /\ \/ durable # None /\ ram' = durable /\ phase' = "idle"
     \/ durable = None /\ ram' = Default /\ phase' = "saving"
  /\ UNCHANGED <<durable, outcome, unreliable>>

Change(v) ==
  /\ phase = "idle"
  /\ ram' = v
  /\ UNCHANGED <<durable, phase, outcome, unreliable>>

\* A save of the live setting, or of a setting changed in the same call.
BeginSave ==
  /\ phase = "idle"
  /\ phase' = "saving"
  /\ ram' \in Setting
  /\ UNCHANGED <<durable, outcome, unreliable>>

\* Flash that misbehaves during a save can leave anything behind.
Arbitrary == unreliable' /\ durable' \in Setting \cup {None}

TakeEffect ==
  /\ phase = "saving"
  /\ phase' = "written"
  /\ unreliable => unreliable'
  /\ durable' = ram \/ Arbitrary
  /\ UNCHANGED <<ram, outcome>>

Work ==
  /\ phase = "saving"
  /\ unreliable => unreliable'
  /\ Arbitrary
  /\ UNCHANGED <<ram, phase, outcome>>

ReportSaved ==
  /\ phase = "written"
  /\ durable = ram \/ unreliable
  /\ phase' = "idle"
  /\ outcome' = "saved"
  /\ UNCHANGED <<durable, ram, unreliable>>

ReportFailed ==
  /\ phase = "saving" \/ (phase = "written" /\ unreliable)
  /\ phase' = "idle"
  /\ outcome' = "failed"
  /\ UNCHANGED <<durable, ram, unreliable>>

PowerLoss ==
  /\ phase # "off"
  /\ phase' = "off"
  /\ ram' = Zero
  /\ outcome' = "none"
  /\ unreliable => unreliable'
  /\ durable' = durable \/ (phase \in {"saving", "written"} /\ Arbitrary)

StoreNext ==
  \/ Boot
  \/ \E v \in Value : Change(v)
  \/ BeginSave
  \/ TakeEffect
  \/ Work
  \/ ReportSaved
  \/ ReportFailed
  \/ PowerLoss

StoreSpec == StoreInit /\ [][StoreNext]_storeVars
=============================================================================
