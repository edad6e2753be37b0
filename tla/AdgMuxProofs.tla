--------------------------- MODULE AdgMuxProofs ---------------------------
(***************************************************************************)
(* Proofs about AdgMux, for any number of devices, addresses and channels.  *)
(* The inductive invariant Inv adds to the properties what the transaction  *)
(* under way carries: a write of the application carries the shadow, a      *)
(* SetChannel nothing of the other channels, a probe of the CLI zeros.      *)
(***************************************************************************)
EXTENDS AdgMux, TLAPS

AppTransfer ==
  owner = "app" =>
    /\ transfer.address \in Device /\ transfer.call # "Probe"
    /\ transfer.call # "GetChannels" => transfer.data = shadow[transfer.address]

CliTransfer == owner = "cli" => transfer.call = "Probe"

SwitchesOne ==
  (owner = "app" /\ transfer.call = "SetChannel" /\ transfer.address \notin unsure)
    => \A c \in Channel \ transfer.channel : c \in transfer.data <=> c \in register[transfer.address]

Inv == TypeOK /\ AppTransfer /\ CliTransfer /\ ShadowInStep /\ SwitchesOne

\* A mask with one channel changed is a mask, and differs in that channel alone.
LEMMA OneChannel ==
  ASSUME NEW mask \in Mask, NEW c \in Channel, NEW closed \in BOOLEAN
  PROVE  /\ WithChannel(mask, c, closed) \in Mask
         /\ \A e \in Channel \ {c} : e \in WithChannel(mask, c, closed) <=> e \in mask
  BY DEF WithChannel, Mask

\* The loop of a scan goes on within the addresses, or ends.
LEMMA AdvanceTyped ==
  ASSUME scan \in First..Last \cup {NoScan}, NEW ack \in BOOLEAN, Advance(ack)
  PROVE  scan' \in First..Last \cup {NoScan}
  BY MuxAssumption DEF Advance, AfterProbe, InScan, NoScan

LEMMA InitInv == Init => Inv
  <1> SUFFICES ASSUME Init PROVE Inv
    OBVIOUS
  <1>1. TypeOK
    BY DEF Init, TypeOK, Mask, NoScan
  <1>2. AppTransfer /\ CliTransfer /\ ShadowInStep /\ SwitchesOne
    BY DEF Init, AppTransfer, CliTransfer, ShadowInStep, SwitchesOne
  <1> QED
    BY <1>1, <1>2 DEF Inv

\* A write call of the application, whatever its mask: when the bus is free it
\* starts, when it is not the shadow alone changes and the device is unsure.
LEMMA WriteInv ==
  ASSUME Inv, NEW d \in Device, NEW call \in {"SetChannel", "SetChannels"}, NEW mask \in Mask,
         NEW channel \in SUBSET Channel, owner # "app", Write(d, call, mask, channel),
         call = "SetChannel" => \A e \in Channel \ channel : e \in mask <=> e \in shadow[d]
  PROVE  Inv'
  <1> USE DEF Inv
  <1>1. shadow' = [shadow EXCEPT ![d] = mask] /\ UNCHANGED <<register, scan>>
    BY DEF Write
  <1>2. CASE owner = "none" /\ Start("app", call, d, mask, channel) /\ UNCHANGED <<answer, unsure>>
    <2>1. TypeOK'
      BY <1>1, <1>2, MuxAssumption DEF TypeOK, Start, Mask
    <2>2. AppTransfer' /\ CliTransfer'
      BY <1>1, <1>2 DEF AppTransfer, CliTransfer, Start, TypeOK
    <2>3. ShadowInStep'
      BY <1>1, <1>2 DEF ShadowInStep, Start, TypeOK
    <2>4. d \notin unsure => shadow[d] = register[d]
      BY <1>2 DEF ShadowInStep
    <2>5. SwitchesOne'
      BY <1>1, <1>2, <2>4 DEF SwitchesOne, Start, TypeOK
    <2> QED
      BY <2>1, <2>2, <2>3, <2>5
  <1>3. CASE owner = "cli" /\ Returns(call, d, FALSE, mask) /\ unsure' = unsure \cup {d} /\ UNCHANGED <<owner, transfer>>
    <2>1. TypeOK'
      BY <1>1, <1>3 DEF TypeOK, Returns
    <2>2. AppTransfer' /\ CliTransfer' /\ SwitchesOne'
      BY <1>1, <1>3 DEF AppTransfer, CliTransfer, SwitchesOne
    <2>3. ShadowInStep'
      BY <1>1, <1>3 DEF ShadowInStep, TypeOK
    <2> QED
      BY <2>1, <2>2, <2>3
  <1> QED
    BY <1>2, <1>3 DEF Write

LEMMA AppCallInv == Inv /\ AppCall => Inv'
  <1> SUFFICES ASSUME Inv, AppCall PROVE Inv'
    OBVIOUS
  <1>1. PICK d \in Device : \/ \E c \in Channel, closed \in BOOLEAN : SetChannel(d, c, closed)
                            \/ \E mask \in Mask : SetChannels(d, mask)
                            \/ Reset(d)
                            \/ GetChannels(d)
    BY DEF AppCall
  <1>2. ASSUME NEW c \in Channel, NEW closed \in BOOLEAN, SetChannel(d, c, closed)
        PROVE  Inv'
    <2>1. shadow[d] \in Mask /\ {c} \in SUBSET Channel
      BY DEF Inv, TypeOK
    <2>2. /\ WithChannel(shadow[d], c, closed) \in Mask
          /\ \A e \in Channel \ {c} : e \in WithChannel(shadow[d], c, closed) <=> e \in shadow[d]
      BY <2>1, OneChannel
    <2>3. owner # "app" /\ Write(d, "SetChannel", WithChannel(shadow[d], c, closed), {c})
      BY <1>2 DEF SetChannel
    <2> QED
      BY <2>1, <2>2, <2>3, WriteInv
  <1>3. ASSUME NEW mask \in Mask, SetChannels(d, mask)
        PROVE  Inv'
    BY <1>3, WriteInv DEF SetChannels
  <1>4. CASE Reset(d)
    <2>1. {} \in Mask
      BY DEF Mask
    <2> QED
      BY <1>4, <2>1, WriteInv DEF Reset
  <1>5. CASE GetChannels(d)
    <2> USE DEF Inv
    <2>1. owner # "app" /\ UNCHANGED <<shadow, register, scan, unsure>>
      BY <1>5 DEF GetChannels
    <2>2. CASE owner = "none" /\ Start("app", "GetChannels", d, {}, {}) /\ UNCHANGED answer
      <3>1. TypeOK'
        BY <2>1, <2>2, MuxAssumption DEF TypeOK, Start, Mask
      <3>2. AppTransfer' /\ CliTransfer' /\ ShadowInStep' /\ SwitchesOne'
        BY <2>1, <2>2 DEF AppTransfer, CliTransfer, ShadowInStep, SwitchesOne, Start
      <3> QED
        BY <3>1, <3>2
    <2>3. CASE owner = "cli" /\ Returns("GetChannels", d, FALSE, shadow[d]) /\ UNCHANGED <<owner, transfer>>
      <3>1. TypeOK'
        BY <2>1, <2>3 DEF TypeOK, Returns
      <3>2. AppTransfer' /\ CliTransfer' /\ ShadowInStep' /\ SwitchesOne'
        BY <2>1, <2>3 DEF AppTransfer, CliTransfer, ShadowInStep, SwitchesOne
      <3> QED
        BY <3>1, <3>2
    <2> QED
      BY <1>5, <2>2, <2>3 DEF GetChannels
  <1> QED
    BY <1>1, <1>2, <1>3, <1>4, <1>5

LEMMA TransactionEndsInv == Inv /\ TransactionEnds => Inv'
  <1> SUFFICES ASSUME Inv, TransactionEnds PROVE Inv'
    OBVIOUS
  <1> USE DEF Inv
  <1> DEFINE d == transfer.address
  <1>1. CASE AppSucceeds
    <2>1. d \in Device
      BY <1>1 DEF AppSucceeds, AppTransfer
    <2>2. TypeOK'
      <3>1. transfer.data \in Mask /\ register[d] \in Mask
        BY <2>1 DEF TypeOK
      <3>2. shadow' \in [Device -> Mask] /\ register' \in [Device -> Mask]
        BY <1>1, <2>1, <3>1 DEF AppSucceeds, TypeOK, Refreshed
      <3>3. answer' \in [device : Device, ok : BOOLEAN, mask : Mask]
        <4>1. CASE Returns(transfer.call, d, TRUE, register[d])
          BY <4>1, <2>1, <3>1 DEF TypeOK, Returns
        <4>2. CASE Returns(transfer.call, d, TRUE, transfer.data)
          BY <4>2, <2>1, <3>1 DEF TypeOK, Returns
        <4> QED
          BY <1>1, <4>1, <4>2 DEF AppSucceeds, Received
      <3> QED
        BY <1>1, <3>2, <3>3 DEF AppSucceeds, TypeOK
    <2>3. AppTransfer' /\ CliTransfer' /\ SwitchesOne'
      BY <1>1 DEF AppSucceeds, AppTransfer, CliTransfer, SwitchesOne
    <2>4. shadow'[d] = register'[d]
      <3>1. CASE transfer.call = "GetChannels"
        <4>1. shadow' = [shadow EXCEPT ![d] = register[d]] /\ register' = register
          BY <1>1, <3>1 DEF AppSucceeds, Refreshed
        <4> QED
          BY <4>1, <2>1 DEF TypeOK
      <3>2. CASE transfer.call # "GetChannels"
        <4>1. register' = [register EXCEPT ![d] = transfer.data] /\ shadow' = shadow
          BY <1>1, <3>2 DEF AppSucceeds
        <4>2. transfer.data = shadow[d]
          BY <1>1, <3>2 DEF AppSucceeds, AppTransfer
        <4> QED
          BY <4>1, <4>2, <2>1 DEF TypeOK
      <3> QED
        BY <3>1, <3>2
    <2>5. \A e \in Device \ {d} : shadow'[e] = shadow[e] /\ register'[e] = register[e]
      BY <1>1, <2>1 DEF AppSucceeds, TypeOK, Refreshed
    <2>6. ShadowInStep'
      BY <1>1, <2>4, <2>5 DEF AppSucceeds, ShadowInStep
    <2> QED
      BY <2>2, <2>3, <2>6
  <1>2. CASE AppFails
    <2>1. d \in Device
      BY <1>2 DEF AppFails, AppTransfer
    <2>2. TypeOK'
      BY <1>2, <2>1 DEF AppFails, TypeOK, Returns
    <2>3. AppTransfer' /\ CliTransfer' /\ SwitchesOne'
      BY <1>2 DEF AppFails, AppTransfer, CliTransfer, SwitchesOne
    <2>4. \A e \in Device \ {d} : register'[e] = register[e]
      BY <1>2, <2>1 DEF AppFails, TypeOK
    <2>5. shadow'[d] = register'[d] \/ d \in unsure'
      BY <1>2, <2>1 DEF AppFails, ShadowInStep
    <2>6. ShadowInStep'
      BY <1>2, <2>4, <2>5 DEF AppFails, ShadowInStep
    <2> QED
      BY <2>2, <2>3, <2>6
  <1>3. CASE ProbeAnswered
    <2>1. TypeOK'
      BY <1>3, AdvanceTyped DEF ProbeAnswered, TypeOK
    <2>2. AppTransfer' /\ CliTransfer' /\ SwitchesOne'
      BY <1>3 DEF ProbeAnswered, AppTransfer, CliTransfer, SwitchesOne
    <2>3. ShadowInStep'
      BY <1>3 DEF ProbeAnswered, ShadowInStep, TypeOK
    <2> QED
      BY <2>1, <2>2, <2>3
  <1>4. CASE ProbeFails
    <2>1. TypeOK'
      BY <1>4, AdvanceTyped DEF ProbeFails, TypeOK
    <2>2. AppTransfer' /\ CliTransfer' /\ SwitchesOne'
      BY <1>4 DEF ProbeFails, AppTransfer, CliTransfer, SwitchesOne
    <2>3. ShadowInStep'
      BY <1>4 DEF ProbeFails, ShadowInStep, TypeOK
    <2> QED
      BY <2>1, <2>2, <2>3
  <1> QED
    BY <1>1, <1>2, <1>3, <1>4 DEF TransactionEnds

\* A probe starts a transaction of zeros, or counts as not answered.
LEMMA ProbeInv ==
  ASSUME Inv, NEW a \in Address, ProbeAddress(a)
  PROVE  Inv'
  <1> USE DEF Inv
  <1>1. UNCHANGED <<shadow, register, answer, unsure>>
    BY DEF ProbeAddress
  <1>2. CASE owner = "none" /\ Start("cli", "Probe", a, {}, {}) /\ UNCHANGED scan
    <2>1. TypeOK'
      BY <1>1, <1>2 DEF TypeOK, Start, Mask
    <2>2. AppTransfer' /\ CliTransfer' /\ ShadowInStep' /\ SwitchesOne'
      BY <1>1, <1>2 DEF AppTransfer, CliTransfer, ShadowInStep, SwitchesOne, Start
    <2> QED
      BY <2>1, <2>2
  <1>3. CASE owner = "app" /\ Advance(FALSE) /\ UNCHANGED <<owner, transfer>>
    <2>1. TypeOK'
      BY <1>1, <1>3, AdvanceTyped DEF TypeOK
    <2>2. AppTransfer' /\ CliTransfer' /\ ShadowInStep' /\ SwitchesOne'
      BY <1>1, <1>3 DEF AppTransfer, CliTransfer, ShadowInStep, SwitchesOne
    <2> QED
      BY <2>1, <2>2
  <1> QED
    BY <1>2, <1>3 DEF ProbeAddress

LEMMA NextInv == Inv /\ [Next]_vars => Inv'
  <1> SUFFICES ASSUME Inv, [Next]_vars PROVE Inv'
    OBVIOUS
  <1>1. CASE AppCall
    BY <1>1, AppCallInv
  <1>2. CASE BeginScan
    BY <1>2, MuxAssumption
    DEF BeginScan, Inv, TypeOK, AppTransfer, CliTransfer, ShadowInStep, SwitchesOne
  <1>3. CASE ScanStep
    <2>1. scan \in Address /\ ProbeAddress(scan)
      BY <1>3, MuxAssumption DEF ScanStep, Inv, TypeOK
    <2> QED
      BY <2>1, ProbeInv
  <1>4. CASE Probe
    BY <1>4, ProbeInv DEF Probe
  <1>5. CASE TransactionEnds
    BY <1>5, TransactionEndsInv
  <1>6. CASE Restart
    <2>1. TypeOK'
      BY <1>6 DEF Restart, Inv, TypeOK, Mask
    <2>2. AppTransfer' /\ CliTransfer' /\ SwitchesOne'
      BY <1>6 DEF Restart, AppTransfer, CliTransfer, SwitchesOne
    <2>3. ShadowInStep'
      BY <1>6 DEF Restart, ShadowInStep
    <2> QED
      BY <2>1, <2>2, <2>3 DEF Inv
  <1>7. CASE UNCHANGED vars
    BY <1>7 DEF vars, Inv, TypeOK, AppTransfer, CliTransfer, ShadowInStep, SwitchesOne
  <1> QED
    BY <1>1, <1>2, <1>3, <1>4, <1>5, <1>6, <1>7 DEF Next

LEMMA InvHolds == Spec => []Inv
  BY InitInv, NextInv, PTL DEF Spec

\* Every variable keeps its type; a scan stays within its addresses.
THEOREM MuxTypeCorrect == Spec => []TypeOK
  <1>1. Inv => TypeOK
    BY DEF Inv
  <1> QED
    BY <1>1, InvHolds, PTL

\* GetShadow tells what the chip has closed, but for a write under way and for
\* the devices the driver has reason to be unsure of.
THEOREM MuxShadowInStep == Spec => []ShadowInStep
  <1>1. Inv => ShadowInStep
    BY DEF Inv
  <1> QED
    BY <1>1, InvHolds, PTL

\* SetChannel leaves the other channels of a chip in step as they are.
THEOREM MuxOthersKept == Spec => OthersKept
  <1> DEFINE Kept ==
        \A d \in Device :
          (owner = "app" /\ owner' = "none" /\ transfer.call = "SetChannel" /\ transfer.address = d /\ d \notin unsure)
            => \A c \in Channel \ transfer.channel : c \in register'[d] <=> c \in register[d]
  <1>1. Inv /\ [Next]_vars => [Kept]_vars
    <2> SUFFICES ASSUME Inv, Next, NEW d \in Device,
                        owner = "app", owner' = "none", transfer.call = "SetChannel",
                        transfer.address = d, d \notin unsure
                 PROVE  \A c \in Channel \ transfer.channel : c \in register'[d] <=> c \in register[d]
      OBVIOUS
    <2>1. register' = register \/ register' = [register EXCEPT ![d] = transfer.data]
      BY DEF Next, AppCall, SetChannel, SetChannels, Reset, GetChannels, BeginScan, ScanStep, Probe,
             ProbeAddress, TransactionEnds, AppSucceeds, AppFails, ProbeAnswered, ProbeFails, Restart
    <2>2. \A c \in Channel \ transfer.channel : c \in transfer.data <=> c \in register[d]
      BY DEF Inv, SwitchesOne
    <2> QED
      BY <2>1, <2>2 DEF Inv, TypeOK
  <1> QED
    BY <1>1, InvHolds, PTL DEF Spec, OthersKept

\* A call that reports success reports what the chip then has closed.
THEOREM MuxSuccessIsTrue == Spec => SuccessIsTrue
  <1> DEFINE True ==
        (owner = "app" /\ owner' = "none" /\ answer'.ok /\ answer'.device = transfer.address /\ answer' # answer)
          => register'[answer'.device] = answer'.mask /\ shadow'[answer'.device] = answer'.mask
  <1>1. Inv /\ [Next]_vars => [True]_vars
    <2> SUFFICES ASSUME Inv, Next, owner = "app", owner' = "none", answer'.ok,
                        answer'.device = transfer.address, answer' # answer
                 PROVE  register'[answer'.device] = answer'.mask /\ shadow'[answer'.device] = answer'.mask
      OBVIOUS
    <2>1. ~AppFails
      BY DEF AppFails, Returns
    <2>2. AppSucceeds
      BY <2>1 DEF Next, AppCall, SetChannel, SetChannels, Reset, GetChannels, BeginScan, ScanStep, Probe,
             ProbeAddress, TransactionEnds, ProbeAnswered, ProbeFails, Restart
    <2>3. transfer.address \in Device
      BY DEF Inv, AppTransfer
    <2> QED
      BY <2>2, <2>3 DEF AppSucceeds, Returns, Refreshed, Received, Inv, AppTransfer, TypeOK
  <1> QED
    BY <1>1, InvHolds, PTL DEF Spec, SuccessIsTrue
=============================================================================
