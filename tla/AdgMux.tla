------------------------------- MODULE AdgMux -------------------------------
(***************************************************************************)
(* The ADG728 switch driver (driver/adg728/adg728.cpp) on an I2C bus that   *)
(* it shares with the `i2c scan` and `i2c probe` commands of the CLI task   *)
(* (driver/i2c2/cli_i2c.cpp).  One application task owns the driver objects.*)
(* A transaction (driver/i2c2/i2c_stm32.cpp) blocks its task while the      *)
(* other one runs, may fail after or before the chip took the byte over,    *)
(* and is refused at once while the other task's one is under way.  A reset *)
(* of the processor clears the shadow registers and leaves the chips alone. *)
(***************************************************************************)
EXTENDS Integers, FiniteSets

CONSTANTS
  Address,   \* the 7-bit addresses
  Device,    \* those an ADG728 answers at
  First,     \* 0x08, where a scan begins
  Last,      \* 0x77, where it ends
  Channel    \* 0..7

ASSUME MuxAssumption ==
  /\ Address \subseteq Nat /\ Device \subseteq Address
  /\ First \in Nat /\ Last \in Nat /\ First <= Last /\ First..Last \subseteq Address

VARIABLES
  shadow,    \* shadow_ of each driver: the channels it takes for closed
  register,  \* the register of each chip: the channels that are closed
  owner,     \* which task's transaction the I2C handle is busy with
  transfer,  \* that transaction
  scan,      \* addr, the address the running scan is at, or NoScan
  answer,    \* what the last call of the application returned
  unsure     \* history variable: the devices written behind the driver's back,
             \* or with a failure, since the driver last heard from them

vars == <<shadow, register, owner, transfer, scan, answer, unsure>>

Mask == SUBSET Channel
NoScan == -1

Init ==
  /\ shadow = [d \in Device |-> {}]
  /\ register \in [Device -> Mask]
  /\ owner = "none"
  /\ transfer \in [call : {"Probe"}, address : Address, data : {{}}, channel : {{}}]
  /\ scan = NoScan
  /\ answer \in [device : Device, ok : {FALSE}, mask : {{}}]
  /\ unsure = Device

Start(task, call, address, data, channel) ==
  /\ owner' = task
  /\ transfer' = [call |-> call, address |-> address, data |-> data, channel |-> channel]

\* SetChannel returns nothing, so that the application learns of no failure.
Returns(call, device, ok, mask) ==
  answer' = IF call = "SetChannel" THEN answer ELSE [device |-> device, ok |-> ok, mask |-> mask]

-----------------------------------------------------------------------------
(* The application task *)

\* The shadow is changed before the write, and stays changed when it fails.
Write(d, call, mask, channel) ==
  /\ shadow' = [shadow EXCEPT ![d] = mask]
  /\ \/ owner = "none" /\ Start("app", call, d, mask, channel)
        /\ UNCHANGED <<answer, unsure>>
     \/ owner = "cli" /\ Returns(call, d, FALSE, mask) /\ unsure' = unsure \cup {d}
        /\ UNCHANGED <<owner, transfer>>
  /\ UNCHANGED <<register, scan>>

\* Seeded variant: the other channels' bits are not kept.
WithChannelAlone(mask, c, closed) == IF closed THEN {c} ELSE mask \ {c}

WithChannel(mask, c, closed) == IF closed THEN mask \cup {c} ELSE mask \ {c}

\* A channel above 7 is refused without any effect.
SetChannel(d, c, closed) ==
  /\ owner # "app" /\ c \in Channel
  /\ Write(d, "SetChannel", WithChannel(shadow[d], c, closed), {c})

SetChannels(d, mask) ==
  /\ owner # "app"
  /\ Write(d, "SetChannels", mask, Channel)

Reset(d) ==
  /\ owner # "app"
  /\ Write(d, "SetChannels", {}, Channel)

\* Refused, the read falls back to the shadow.
GetChannels(d) ==
  /\ owner # "app"
  /\ \/ owner = "none" /\ Start("app", "GetChannels", d, {}, {}) /\ UNCHANGED answer
     \/ owner = "cli" /\ Returns("GetChannels", d, FALSE, shadow[d]) /\ UNCHANGED <<owner, transfer>>
  /\ UNCHANGED <<shadow, register, scan, unsure>>

\* Seeded variant: what was read is returned, the shadow kept.
RefreshedNot(d) == shadow

Refreshed(d) == [shadow EXCEPT ![d] = register[d]]

\* Seeded variant: a read answers from the shadow as it was.
ReceivedShadow(d) == shadow[d]

Received(d) == register[d]

\* The application's transaction succeeds.
AppSucceeds ==
  /\ owner = "app" /\ owner' = "none"
  /\ LET d == transfer.address
     IN /\ \/ /\ transfer.call = "GetChannels"
              /\ shadow' = Refreshed(d) /\ Returns(transfer.call, d, TRUE, Received(d))
              /\ UNCHANGED register
           \/ /\ transfer.call # "GetChannels"
              /\ register' = [register EXCEPT ![d] = transfer.data]
              /\ Returns(transfer.call, d, TRUE, transfer.data)
              /\ UNCHANGED shadow
        /\ unsure' = unsure \ {d}
  /\ UNCHANGED <<transfer, scan>>

\* It fails or times out; of a write, the chip may have taken the byte over.
AppFails ==
  /\ owner = "app" /\ owner' = "none"
  /\ LET d == transfer.address
     IN /\ \/ transfer.call = "GetChannels" /\ UNCHANGED <<register, unsure>>
           \/ /\ transfer.call # "GetChannels"
              /\ unsure' = unsure \cup {d}
              /\ register' \in {register, [register EXCEPT ![d] = transfer.data]}
        /\ Returns(transfer.call, d, FALSE, shadow[d])
  /\ UNCHANGED <<shadow, transfer, scan>>

-----------------------------------------------------------------------------
(* The CLI task *)

\* Seeded variant: one address too many.
InScanTooFar(a) == a <= Last + 1

InScan(a) == a <= Last

\* Seeded variant: an address that does not answer is tried again.
AfterProbeRetried(a, ack) == IF ack THEN a + 1 ELSE a

AfterProbe(a, ack) == a + 1

\* The address the loop of ScanBus goes on with; nothing without a scan.
Advance(ack) ==
  scan' = IF scan = NoScan THEN NoScan
          ELSE IF InScan(AfterProbe(scan, ack)) THEN AfterProbe(scan, ack) ELSE NoScan

BeginScan ==
  /\ owner # "cli" /\ scan = NoScan
  /\ scan' = First
  /\ UNCHANGED <<shadow, register, owner, transfer, answer, unsure>>

\* ProbeAddress writes a byte of zeros; while the application's transaction is
\* under way it counts as not answered.
ProbeAddress(a) ==
  /\ \/ owner = "none" /\ Start("cli", "Probe", a, {}, {}) /\ UNCHANGED scan
     \/ owner = "app" /\ Advance(FALSE) /\ UNCHANGED <<owner, transfer>>
  /\ UNCHANGED <<shadow, register, answer, unsure>>

ScanStep == scan # NoScan /\ ProbeAddress(scan)

Probe == scan = NoScan /\ \E a \in Address : ProbeAddress(a)

ProbeAnswered ==
  /\ owner = "cli" /\ owner' = "none"
  /\ transfer.address \in Device
  /\ register' = [register EXCEPT ![transfer.address] = transfer.data]
  /\ unsure' = unsure \cup {transfer.address}
  /\ Advance(TRUE)
  /\ UNCHANGED <<shadow, transfer, answer>>

\* No device there, or a failure, after which the byte may have arrived.
ProbeFails ==
  /\ owner = "cli" /\ owner' = "none"
  /\ unsure' = unsure \cup ({transfer.address} \cap Device)
  /\ \/ UNCHANGED register
     \/ /\ transfer.address \in Device
        /\ register' = [register EXCEPT ![transfer.address] = transfer.data]
  /\ Advance(FALSE)
  /\ UNCHANGED <<shadow, transfer, answer>>

-----------------------------------------------------------------------------

\* The processor alone is reset: the drivers are constructed anew, without a
\* transaction; the byte that was on its way arrives or does not.
Restart ==
  /\ shadow' = [d \in Device |-> {}]
  /\ owner' = "none" /\ scan' = NoScan
  /\ unsure' = Device
  /\ \/ UNCHANGED register
     \/ /\ owner # "none" /\ transfer.call # "GetChannels" /\ transfer.address \in Device
        /\ register' = [register EXCEPT ![transfer.address] = transfer.data]
  /\ UNCHANGED <<transfer, answer>>

AppCall ==
  \E d \in Device :
    \/ \E c \in Channel, closed \in BOOLEAN : SetChannel(d, c, closed)
    \/ \E mask \in Mask : SetChannels(d, mask)
    \/ Reset(d)
    \/ GetChannels(d)

\* The HAL ends every transaction within kTimeoutMsec.
TransactionEnds == AppSucceeds \/ AppFails \/ ProbeAnswered \/ ProbeFails

Next == AppCall \/ BeginScan \/ ScanStep \/ Probe \/ TransactionEnds \/ Restart

Spec == Init /\ [][Next]_vars

\* The transactions end and the CLI task goes on with its loop.
FairSpec == Spec /\ WF_vars(TransactionEnds) /\ WF_vars(ScanStep)

-----------------------------------------------------------------------------
(* Properties *)

\* Every variable has its type; a scan stays within its addresses.
TypeOK ==
  /\ shadow \in [Device -> Mask] /\ register \in [Device -> Mask]
  /\ owner \in {"none", "app", "cli"}
  /\ transfer \in [call : {"SetChannel", "SetChannels", "GetChannels", "Probe"},
                   address : Address, data : Mask, channel : Mask]
  /\ scan \in First..Last \cup {NoScan}
  /\ answer \in [device : Device, ok : BOOLEAN, mask : Mask]
  /\ unsure \subseteq Device

\* But for a write under way, what GetShadow tells is what the chip has
\* closed, unless a write failed, the CLI probed the address or the processor
\* was reset since the driver last heard from it: any success sets that right.
ShadowInStep ==
  \A d \in Device : shadow[d] = register[d] \/ d \in unsure
                    \/ (owner = "app" /\ transfer.address = d /\ transfer.call # "GetChannels")

\* SetChannel switches its own channel "without affecting others" (adg728.h),
\* as long as the driver is not unsure of the chip, whatever the CLI does.
OthersKept ==
  [][\A d \in Device :
       (owner = "app" /\ owner' = "none" /\ transfer.call = "SetChannel" /\ transfer.address = d /\ d \notin unsure)
         => \A c \in Channel \ transfer.channel : c \in register'[d] <=> c \in register[d]]_vars

\* A call that reports success reports the chip: the mask it wrote or read is
\* what the chip then has closed.
SuccessIsTrue ==
  [][(owner = "app" /\ owner' = "none" /\ answer'.ok /\ answer'.device = transfer.address /\ answer' # answer)
       => register'[answer'.device] = answer'.mask /\ shadow'[answer'.device] = answer'.mask]_vars

\* A scan comes to its end, though every address may fail, the application
\* may hold the bus at any of them and the command is one long loop.
ScanEnds == scan # NoScan ~> scan = NoScan
=============================================================================
