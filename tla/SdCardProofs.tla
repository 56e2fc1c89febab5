---------------------------- MODULE SdCardProofs ----------------------------
(***************************************************************************)
(* The SD card's driver, for every kind of card, size of buffer, box, and  *)
(* number of faults: the power it relies on, what a successful call has    *)
(* moved and where, the types, the clock, and why no card gets through the *)
(* initialisation behind a controller that works.                          *)
(***************************************************************************)
EXTENDS SdCard, TLAPS

-----------------------------------------------------------------------------
(* Commands and their results.                                             *)

\* A result has the fields that Result gives it, and counts one fault at most.
IsResult(r) ==
  /\ r = [success |-> r.success, error |-> r.error, card |-> r.card, late |-> r.late,
          fault |-> r.fault, stale |-> r.stale, moved |-> r.moved]
  /\ r.fault \in {0, 1}

LEMMA CommandSent ==
  ASSUME NEW c, NEW r \in Sent(c) \cup Lost(c)
  PROVE  IsResult(r)
<1> USE DEF IsResult, Result
<1>1. \A f \in {0, 1} : IsResult(Unanswered(f)) /\ Unanswered(f).fault = f
  BY DEF Unanswered, Silence
<1>2. CASE r \in Sent(c)
  BY <1>1, <1>2 DEF Sent
<1>3. CASE r \in Lost(c)
  BY <1>1, <1>3 DEF Lost, Silence
<1> QED
  BY <1>2, <1>3

LEMMA DataStageResult ==
  ASSUME NEW c, NEW s, IsResult(s), NEW r \in DataStage(c, s)
  PROVE  r.fault \in {0, 1} /\ (r.success = TRUE => r.moved = device.blocks)
<1> DEFINE busy == [s.card EXCEPT !.state = IF c \in WriteCommands THEN "rcv" ELSE "data"]
           failed(crd, k) == [s EXCEPT !.success = FALSE, !.error = "err", !.fault = 1,
                                       !.card = crd, !.moved = k]
           Failures == {failed(crd, k) : crd \in {s.card, busy},
                                         k \in {0, device.blocks - 1, device.blocks}}
<1>1. CASE s.stale \/ s.card.wide # host_wide
  <2>1. r = [s EXCEPT !.success = FALSE, !.error = "err"]
    BY <1>1, SMT DEF DataStage
  <2> QED
    BY <2>1 DEF IsResult
<1>2. CASE r = [s EXCEPT !.moved = device.blocks]
  BY <1>2 DEF IsResult
<1>3. CASE r \in Failures
  <2> HIDE DEF failed, busy
  <2>1. PICK crd \in {s.card, busy}, k \in {0, device.blocks - 1, device.blocks} :
          r = failed(crd, k)
    BY <1>3
  <2> HIDE DEF Failures
  <2>2. r = [success |-> FALSE, error |-> "err", card |-> crd, late |-> s.late, fault |-> 1,
             stale |-> s.stale, moved |-> k]
    BY <2>1 DEF failed, IsResult
  <2> QED
    BY <2>2
<1>4. CASE ~(s.stale \/ s.card.wide # host_wide)
  <2>1. r \in {[s EXCEPT !.moved = device.blocks]} \cup Failures
    BY <1>4, SMT DEF DataStage
  <2> HIDE DEF Failures
  <2> QED
    BY <1>2, <1>3, <2>1
<1> HIDE DEF Failures
<1> QED
  BY <1>1, <1>4

\* The result of a data command that has succeeded counts all its blocks.
LEMMA CommandResult ==
  ASSUME NEW c, NEW r \in sd_issue_command_int(c)
  PROVE  r.fault \in {0, 1} /\ (r.success = TRUE /\ c \in DataCommands => r.moved = device.blocks)
<1>1. CASE device.blocks > MaxBlocks
  BY <1>1 DEF sd_issue_command_int, Result
<1>2. CASE /\ ~(device.blocks > MaxBlocks) /\ r \in Sent(c) \cup Lost(c)
           /\ ~r.success \/ c \notin DataCommands
  BY <1>2, CommandSent DEF IsResult
<1>3. ASSUME NEW s \in Sent(c) \cup Lost(c), s.success, c \in DataCommands, r \in DataStage(c, s)
      PROVE  r.fault \in {0, 1} /\ (r.success = TRUE => r.moved = device.blocks)
  BY <1>3, CommandSent, DataStageResult
<1> QED
  BY <1>1, <1>2, <1>3 DEF sd_issue_command_int

LEMMA FaultBit ==
  ASSUME NEW c
  PROVE  /\ \A r \in sd_issue_command(c) : r.fault \in {0, 1}
         /\ \A r \in sd_issue_command_int(c) : r.fault \in {0, 1}
BY CommandResult DEF sd_issue_command

-----------------------------------------------------------------------------
(* The steps of the driver, sorted by what they do to the call.            *)

\* A step within a call leaves the mailboxes alone and returns, goes on, or goes to
\* switch the power.
InCall ==
  /\ at \in Steps /\ at' \in Steps \cup {"return", "power", "power_off"}
  /\ faults' = faults \/ (faults > 0 /\ faults' = faults - 1)
  /\ DOMAIN device' = DOMAIN device
  /\ UNCHANGED <<mailVars, call, base, kind, ctrl>>

\* It comes to a data command, or ends a call well, only in the steps for data.
Early  == {"GO_IDLE_STATE", "SEND_IF_COND", "IO_SET_OP_COND"}
Passes ==
  /\ InCall
  /\ at' # "try" /\ result' \in {result, "failed", "initialised"}
  /\ at \in Early => GoIdle \/ SendIfCond \/ IoSetOpCond

LEMMA StepCases ==
  ASSUME DriverStep, faults \in Nat
  PROVE  Passes \/ CountBlocks \/ TryData \/ PowerOn \/ PowerOff \/ ResetController
<1> USE DEF Same, Goto, GotoWith, Here, Answered, Issued, InitFails, ForgetsCard, Return, Passes,
            InCall, Early, Steps, drvVars, AppCommands
<1>0. /\ \A c : \A r \in sd_issue_command(c) : r.fault \in {0, 1}
      /\ \A c : \A r \in sd_issue_command_int(c) : r.fault \in {0, 1}
  BY FaultBit
<1>1. CASE Announce
  BY <1>0, <1>1 DEF Announce
<1>2. CASE GoIdle
  BY <1>0, <1>2 DEF GoIdle
<1>3. CASE SendIfCond
  BY <1>0, <1>3 DEF SendIfCond
<1>4. CASE IoSetOpCond
  BY <1>0, <1>4 DEF IoSetOpCond
<1>5. CASE Inquiry
  BY <1>0, <1>5 DEF Inquiry
<1>6. CASE SendOpCond
  <2>1. PICK r \in sd_issue_command(at) : /\ Answered(r)
                                           /\ \/ InitFails \/ Here
                                              \/ \E sdhc, s18 : Identified(sdhc, s18)
    BY <1>6 DEF SendOpCond
  <2>2. /\ at' \in {"return", at, "VOLTAGE_SWITCH", "ALL_SEND_CID"}
        /\ result' \in {result, "failed"} /\ DOMAIN device' = DOMAIN device
    BY <2>1 DEF Identified
  <2> QED
    BY <1>0, <1>6, <2>1, <2>2 DEF SendOpCond
<1>7. CASE VoltageSwitch
  BY <1>0, <1>7 DEF VoltageSwitch, SwitchFails
<1>8. CASE CheckSignals
  BY <1>0, <1>8 DEF CheckSignals, SwitchFails
<1>9. CASE AllSendCid
  BY <1>0, <1>9 DEF AllSendCid
<1>10. CASE SendRelativeAddr
  <2>1. PICK r \in sd_issue_command(at) :
          /\ Answered(r)
          /\ \/ InitFails
             \/ \E rca : /\ device' = [device EXCEPT !.rca = rca]
                        /\ \/ at' = "SELECT_CARD" /\ result' = result
                           \/ at' = "return" /\ result' = "failed"
    BY <1>10 DEF SendRelativeAddr
  <2>2. /\ at' \in {"return", "SELECT_CARD"}
        /\ result' \in {result, "failed"} /\ DOMAIN device' = DOMAIN device
    BY <2>1
  <2> QED
    BY <1>0, <1>10, <2>1, <2>2 DEF SendRelativeAddr
<1>11. CASE SelectCard
  BY <1>0, <1>11 DEF SelectCard, GotoScr
<1>12. CASE SetBlocklen
  BY <1>0, <1>12 DEF SetBlocklen, GotoScr
<1>13. CASE SendScr
  BY <1>0, <1>13 DEF SendScr
<1>14. CASE SetBusWidth
  BY <1>0, <1>14 DEF SetBusWidth
<1>15. CASE InitSucceeds
  BY <1>0, <1>15 DEF InitSucceeds
<1>16. CASE SendStatus
  BY <1>0, <1>16 DEF SendStatus
<1>17. CASE Select
  BY <1>0, <1>17 DEF Select
<1>18. CASE StopTransmission
  BY <1>0, <1>18 DEF StopTransmission
<1>19. CASE SendStatusAgain
  BY <1>0, <1>19 DEF SendStatusAgain
<1> QED
  BY <1>1, <1>2, <1>3, <1>4, <1>5, <1>6, <1>7, <1>8, <1>9, <1>10, <1>11, <1>12, <1>13, <1>14,
     <1>15, <1>16, <1>17, <1>18, <1>19, Zenon DEF DriverStep, InitStep

LEMMA DataSteps ==
  ASSUME CountBlocks \/ TryData, faults \in Nat
  PROVE  InCall
<1> USE DEF Same, Answered, Issued, Return, InCall, Steps
<1>1. CASE CountBlocks
  BY <1>1 DEF CountBlocks
<1>2. CASE TryData
  BY <1>2, FaultBit DEF TryData, Tried
<1> QED
  BY <1>1, <1>2

LEMMA NextCases ==
  ASSUME [Next]_vars, faults \in Nat
  PROVE  \/ MailStep /\ UNCHANGED <<hostVars, at, caller, call, base, drvVars>>
         \/ usb_init \/ GpuStep
         \/ sd_card_init \/ \E w \in BOOLEAN, size \in Sizes : sd_read_write(w, size)
         \/ Passes \/ CountBlocks \/ TryData \/ PowerOn \/ PowerOff \/ ResetController
         \/ ChangeCard \/ UNCHANGED vars
BY StepCases, Zenon DEF Next, Mail

-----------------------------------------------------------------------------
(* Power.                                                                  *)

PowerMessage(d) == [channel |-> MAILBOX_CHANNEL_POWER_MGMT, data |-> d]

\* One message is on its way for the call in progress: the mask the driver wants, or
\* what the GPU has made of it.
InFlight ==
  /\ mail \in {"boot", "framebuffer", "power", "none"}
  /\ mail \in {"boot", "none"} => to_gpu = <<>> /\ from_gpu = <<>>
  /\ mail = "framebuffer" => \E m : \/ to_gpu = <<m>> /\ from_gpu = <<>>
                                    \/ to_gpu = <<>> /\ from_gpu = <<m>>
  /\ mail = "power" => \/ to_gpu = <<PowerMessage(newmask)>> /\ from_gpu = <<>>
                       \/ to_gpu = <<>> /\ from_gpu = <<PowerMessage(power)>>

\* After the boot the driver remembers what is on, between its calls to the GPU.
PowerInv ==
  /\ at = "boot" => mail # "power" /\ bcm2835_power_mask = {} /\ device.rca = NoRca
  /\ at # "boot" => mail \in {"power", "none"}
  /\ at # "boot" /\ mail = "none" => power = bcm2835_power_mask
  /\ at = "reset" => "POWER_SD" \in IF mail = "none" THEN power ELSE newmask
  /\ at \in Steps \/ (at = "return" /\ device.rca # NoRca) => mail = "none" /\ "POWER_SD" \in power

LEMMA OneMessage ==
  /\ \A m : Append(<<>>, m) = <<m>>
  /\ \A m : Tail(<<m>>) = <<>> /\ Head(<<m>>) = m
  /\ \A m : DOMAIN <<m>> = {1} /\ <<m>>[1] = m /\ SubSeq(<<m>>, 2, Len(<<m>>)) = <<>>
  /\ DOMAIN <<>> = {}
OBVIOUS

LEMMA PowerNext ==
  ASSUME faults \in Nat, InFlight, PowerInv, [Next]_vars
  PROVE  InFlight' /\ PowerInv'
<1> USE DEF InFlight, PowerInv, mailVars, hostVars
<1>1. CASE MailStep /\ UNCHANGED <<hostVars, at, caller, call, base, drvVars>>
  <2>1. CASE framebuffer_init
    BY <1>1, <2>1, OneMessage DEF framebuffer_init, mailbox_send
  <2>2. CASE FramebufferReply
    BY <1>1, <2>2, OneMessage DEF FramebufferReply, mailbox_read
  <2>3. CASE PowerReply
    <3>1. to_gpu = <<>> /\ from_gpu = <<PowerMessage(power)>>
      BY <2>3, OneMessage DEF PowerReply, bcm2835_mailbox_read
    <3>2. /\ bcm2835_power_mask' = power /\ from_gpu' = <<>>
          /\ IF power = newmask THEN to_gpu' = <<>> /\ mail' = "none"
             ELSE to_gpu' = <<PowerMessage(newmask)>> /\ mail' = mail
          /\ UNCHANGED <<power, newmask>>
      BY <2>3, <3>1, OneMessage DEF PowerReply, bcm2835_mailbox_read, mailbox_send, PowerMessage
    <3> QED
      BY <1>1, <2>3, <3>2 DEF PowerReply
  <2> QED
    BY <1>1, <2>1, <2>2, <2>3 DEF MailStep
<1>2. CASE usb_init \/ PowerOn \/ PowerOff
  <2>1. \A f, on : bcm2835_setpower(f, on) =>
          /\ UNCHANGED <<from_gpu, power, bcm2835_power_mask>> /\ mail = "none"
          /\ \/ (f \in bcm2835_power_mask) = on /\ UNCHANGED <<to_gpu, newmask, mail>>
             \/ /\ (f \in bcm2835_power_mask) # on
                /\ newmask' = IF on THEN bcm2835_power_mask \cup {f}
                              ELSE bcm2835_power_mask \ {f}
                /\ to_gpu' = <<PowerMessage(newmask')>> /\ mail' = "power"
    BY OneMessage DEF bcm2835_setpower, mailbox_send, PowerMessage
  <2>2. CASE usb_init
    BY <2>1, <2>2 DEF usb_init, Steps, hostVars
  <2>3. CASE PowerOn
    BY <2>1, <2>3 DEF PowerOn, Steps
  <2>4. CASE PowerOff
    BY <2>1, <2>4 DEF PowerOff, Steps
  <2> QED
    BY <1>2, <2>2, <2>3, <2>4
<1>3. CASE GpuStep
  <2>1. \E m : to_gpu = <<m>> /\ from_gpu = <<>>
    BY <1>3 DEF GpuStep, Gpu
  <2>2. /\ to_gpu' = <<>> /\ \E m : from_gpu' = <<m>>
        /\ UNCHANGED <<bcm2835_power_mask, newmask, mail, at, device>>
    BY <1>3, <2>1, OneMessage DEF GpuStep, Gpu
  <2>3. mail = "power" => from_gpu' = <<PowerMessage(power')>>
    BY <1>3, <2>1, OneMessage DEF GpuStep, Gpu, PowerMessage
  <2> QED
    BY <2>1, <2>2, <2>3
<1>4. CASE sd_card_init \/ \E w \in BOOLEAN, size \in Sizes : sd_read_write(w, size)
  <2>1. /\ at = "return" /\ at' \in {"power", "status"} /\ mail = "none"
        /\ at' = "status" => device.rca # NoRca
        /\ UNCHANGED mailVars
    BY <1>4 DEF sd_card_init, sd_read_write, Begin
  <2> QED
    BY <2>1 DEF Steps
<1>5. CASE Passes \/ CountBlocks \/ TryData
  BY <1>5, DataSteps DEF Passes, InCall, Steps
<1>6. CASE ResetController
  BY <1>6 DEF ResetController, InitFails, Return, Same, Steps
<1>7. CASE ChangeCard \/ UNCHANGED vars
  BY <1>7 DEF ChangeCard, vars
<1> QED
  BY <1>1, <1>2, <1>3, <1>4, <1>5, <1>6, <1>7, NextCases, Zenon

LEMMA FaultsFall ==
  ASSUME faults \in Nat, [Next]_vars
  PROVE  /\ faults' \in Nat /\ faults' <= faults
         /\ faults' = faults \/ faults' = faults - 1
<1>1. CASE MailStep
  BY <1>1 DEF MailStep, framebuffer_init, FramebufferReply, PowerReply
<1>2. CASE usb_init \/ PowerOn \/ PowerOff
  BY <1>2 DEF usb_init, PowerOn, PowerOff, bcm2835_setpower
<1>3. CASE GpuStep
  <2>1. faults' = faults \/ (faults > 0 /\ faults' = faults - 1)
    BY <1>3 DEF GpuStep, Gpu
  <2> QED
    BY <2>1
<1>4. CASE sd_card_init \/ \E w \in BOOLEAN, size \in Sizes : sd_read_write(w, size)
  BY <1>4 DEF sd_card_init, sd_read_write, Begin
<1>5. CASE Passes \/ CountBlocks \/ TryData
  BY <1>5, DataSteps DEF Passes, InCall
<1>6. CASE ResetController
  BY <1>6 DEF ResetController
<1>7. CASE ChangeCard \/ UNCHANGED vars
  BY <1>7 DEF ChangeCard, vars
<1> QED
  BY <1>1, <1>2, <1>3, <1>4, <1>5, <1>6, <1>7, NextCases, Zenon

\* The driver and the GPU agree on what is on when the mailboxes are empty, and the
\* card has power at every command (board_power.c:85-102, sd_card.c:705).
THEOREM CardPowered == Spec => []PoweredWhenUsed
<1> DEFINE IInv == faults \in Nat /\ InFlight /\ PowerInv
<1>1. Init => IInv
  BY CallsAssumption DEF Init, MailInit, InFlight, PowerInv, Steps
<1>2. IInv /\ [Next]_vars => IInv'
  BY PowerNext, FaultsFall
<1>3. IInv => PoweredWhenUsed
  BY DEF PowerInv, PoweredWhenUsed, Steps
<1> QED
  BY <1>1, <1>2, <1>3, PTL DEF Spec

-----------------------------------------------------------------------------
(* Blocks.                                                                 *)

LEMMA WholeBlocks ==
  ASSUME NEW n \in Nat, NEW b \in Nat \ {0}, n % b = 0
  PROVE  n = (n \div b) * b
OBVIOUS

\* While a command is tried, the driver counts the blocks of the buffer.
CallInv ==
  /\ faults \in Nat /\ "blocks" \in DOMAIN device /\ call.size \in Nat
  /\ at # "return" => result # "done"
  /\ at = "try" => call.size = device.blocks * BlockSize
  /\ MovesItsBlocks

LEMMA CallNext ==
  ASSUME CallInv, [Next]_vars
  PROVE  CallInv'
<1> USE DEF CallInv, MovesItsBlocks, hostVars, drvVars
<1>0. faults' \in Nat
  BY FaultsFall
<1>1. CASE MailStep /\ UNCHANGED <<hostVars, at, caller, call, base, drvVars>>
  BY <1>0, <1>1
<1>2. CASE usb_init \/ PowerOn \/ PowerOff \/ GpuStep
  BY <1>0, <1>2 DEF usb_init, PowerOn, PowerOff, GpuStep
<1>3. CASE sd_card_init \/ \E w \in BOOLEAN, size \in Sizes : sd_read_write(w, size)
  <2>1. /\ call'.size \in Nat /\ at' \in {"power", "status"} /\ result' = "none"
        /\ UNCHANGED device
    BY <1>3, CallsAssumption DEF sd_card_init, sd_read_write, Begin, NoCall
  <2> QED
    BY <1>0, <2>1
<1>4. CASE Passes
  BY <1>0, <1>4 DEF Passes, InCall, Steps
<1>5. CASE CountBlocks
  <2>1. DOMAIN device' = DOMAIN device
    BY <1>5 DEF CountBlocks
  <2>2. CASE at' = "return" /\ result' = "failed"
    BY <1>0, <1>5, <2>1, <2>2 DEF CountBlocks, Same
  <2>3. CASE at' = "try" /\ UNCHANGED result
    <3>1. /\ call.size % BlockSize = 0 /\ device'.blocks = call.size \div BlockSize
          /\ at = "data" /\ call' = call
      <4>1. call.size >= BlockSize /\ call.size % BlockSize = 0 /\ at = "data" /\ call' = call
        BY <1>5, <2>3 DEF CountBlocks, Return, Same
      <4>2. device' = [device EXCEPT !.blocks = call.size \div BlockSize]
        BY <1>5, <4>1, CallsAssumption DEF CountBlocks
      <4> QED
        BY <4>1, <4>2
    <3>2. call.size = (call.size \div BlockSize) * BlockSize
      BY <3>1, CallsAssumption, WholeBlocks
    <3> QED
      BY <1>0, <2>1, <2>3, <3>1, <3>2
  <2> QED
    BY <1>5, <2>2, <2>3 DEF CountBlocks, Return
<1>6. CASE TryData
  <2>1. PICK r \in sd_issue_command(DataCommand) :
          Tried(r) /\ moved'.blocks = r.moved /\ call' = call
    BY <1>6 DEF TryData, Answered, Same
  <2>2. DataCommand \in DataCommands \ AppCommands
    BY DEF DataCommand, DataCommands, ReadCommands, WriteCommands, AppCommands
  <2>3. r.success = TRUE => r.moved = device.blocks
    BY <2>1, <2>2, CommandResult DEF sd_issue_command
  <2>4. at = "try"
    BY <1>6 DEF TryData
  <2>5. \/ r.success /\ at' = "return" /\ result' = "done" /\ device' = device
        \/ at' = "return" /\ result' = "failed" /\ device' = [device EXCEPT !.rca = NoRca]
        \/ UNCHANGED <<at, result, device>>
    BY <2>1 DEF Tried, Return
  <2> QED
    BY <1>0, <2>1, <2>3, <2>4, <2>5
<1>7. CASE ResetController
  BY <1>0, <1>7 DEF ResetController, InitFails, Return, Same
<1>8. CASE ChangeCard \/ UNCHANGED vars
  BY <1>0, <1>8 DEF ChangeCard, vars
<1> QED
  BY <1>1, <1>2, <1>3, <1>4, <1>5, <1>6, <1>7, <1>8, NextCases, Zenon

\* A read or write that returns the size of its buffer has moved just that many
\* blocks with its last command, after any faults and tries (sd_card.c:1225-1307).
THEOREM SuccessMovesBlocks == Spec => []MovesItsBlocks
<1>1. Init => CallInv
  BY CallsAssumption DEF Init, CallInv, MovesItsBlocks, NoCall
<1>2. CallInv /\ [Next]_vars => CallInv'
  BY CallNext
<1>3. CallInv => MovesItsBlocks
  BY DEF CallInv
<1> QED
  BY <1>1, <1>2, <1>3, PTL DEF Spec

-----------------------------------------------------------------------------
(* Silence.                                                                *)

\* Behind a prompt controller, before anything fails, the driver comes as far as CMD5.
Unfailing == ctrl = "prompt" /\ faults = MaxFaults

SilenceInv ==
  /\ faults \in Nat /\ faults <= MaxFaults
  /\ {"rca", "blocks"} \subseteq DOMAIN device
  /\ Unfailing => /\ ~late /\ device.rca = NoRca /\ device.blocks = 0
                  /\ at \in {"boot", "return", "power", "reset"} \cup Early

\* Without a fault each of the three commands is answered or reported, and CMD5 is
\* reported.
LEMMA EarlyCommand ==
  ASSUME NEW c \in Early, device.blocks = 0, ctrl = "prompt",
         NEW r \in sd_issue_command(c), r.fault = 0
  PROVE  /\ r.late = FALSE
         /\ c = "IO_SET_OP_COND" => r.success = FALSE /\ r.error = "cto"
<1>1. r \in Sent(c) \cup Lost(c)
  <2>1. c \notin AppCommands /\ c \notin DataCommands
    BY DEF Early, AppCommands, DataCommands, ReadCommands, WriteCommands
  <2>2. r \in sd_issue_command_int(c) /\ ~(device.blocks > MaxBlocks)
    BY <2>1, SdAssumption DEF sd_issue_command
  <2> QED
    BY <2>1, <2>2 DEF sd_issue_command_int
<1>2. r \in Sent(c)
  <2>1. \A x \in Lost(c) : x.fault = 1
    BY DEF Lost, Unanswered, Silence, Result
  <2> QED
    BY <1>1, <2>1
<1>3. Legal["IO_SET_OP_COND"] = {}
  BY DEF Legal
<1>4. ~Obeys("IO_SET_OP_COND") /\ ~MayIgnore("SEND_IF_COND")
  BY <1>3 DEF Obeys, MayIgnore
<1> QED
  BY <1>2, <1>4 DEF Sent, Unanswered, Result, Early

LEMMA SilenceNext ==
  ASSUME SilenceInv, [Next]_vars
  PROVE  SilenceInv'
<1> USE DEF SilenceInv, Unfailing, hostVars, drvVars
<1>0. faults' \in Nat /\ faults' <= faults
  BY FaultsFall
<1> USE <1>0, CallsAssumption
<1>1. CASE MailStep /\ UNCHANGED <<hostVars, at, caller, call, base, drvVars>>
  BY <1>1, SMTT(30)
<1>2. CASE usb_init \/ PowerOn \/ PowerOff \/ GpuStep
  <2>1. CASE usb_init
    BY <2>1 DEF usb_init
  <2>2. CASE PowerOn
    BY <2>2 DEF PowerOn
  <2>3. CASE PowerOff
    BY <2>3 DEF PowerOff, Early
  <2>4. CASE GpuStep
    BY <2>4 DEF GpuStep
  <2> QED
    BY <1>2, <2>1, <2>2, <2>3, <2>4
<1>3. CASE sd_card_init \/ \E w \in BOOLEAN, size \in Sizes : sd_read_write(w, size)
  <2>1. /\ at' \in {"power", "status"}
        /\ at' = "status" => device.rca # NoRca
        /\ UNCHANGED <<faults, hostVars>>
    BY <1>3 DEF sd_card_init, sd_read_write, Begin
  <2> QED
    BY <2>1
<1>4. CASE Passes \/ CountBlocks \/ TryData
  <2>1. InCall
    BY <1>4, DataSteps DEF Passes
  <2>2. ASSUME Unfailing'
        PROVE  /\ ~late' /\ device'.rca = NoRca /\ device'.blocks = 0
               /\ at' \in {"return"} \cup Early
    <3>1. Unfailing /\ faults' = faults /\ at \in Early
      BY <2>1, <2>2 DEF InCall, Steps, Early
    <3>2. GoIdle \/ SendIfCond \/ IoSetOpCond
      BY <1>4, <3>1 DEF Passes, CountBlocks, TryData, Early
    <3>3. PICK r \in sd_issue_command(at) : /\ r.fault = 0 /\ Issued(r)
            /\ \/ InitFails
               \/ at = "GO_IDLE_STATE" /\ Goto("SEND_IF_COND")
               \/ /\ at = "SEND_IF_COND"
                  /\ \E b \in BOOLEAN : GotoWith("IO_SET_OP_COND", [device EXCEPT !.v2 = b])
               \/ at = "IO_SET_OP_COND" /\ NotTaken(r)
      <4>1. CASE GoIdle
        BY <3>1, <4>1, FaultBit DEF GoIdle, Answered, Issued
      <4>2. CASE SendIfCond
        <5>1. PICK r \in sd_issue_command("SEND_IF_COND") : /\ Issued(r) /\ at = "SEND_IF_COND"
                /\ \/ GotoWith("IO_SET_OP_COND", [device EXCEPT !.v2 = FALSE])
                   \/ GotoWith("IO_SET_OP_COND", [device EXCEPT !.v2 = TRUE])
                   \/ InitFails
          BY <4>2 DEF SendIfCond, Answered
        <5>2. r.fault = 0
          BY <3>1, <5>1, FaultBit DEF Issued
        <5> QED
          BY <5>1, <5>2
      <4>3. CASE IoSetOpCond
        BY <3>1, <4>3, FaultBit DEF IoSetOpCond, Answered, Issued
      <4> QED
        BY <3>2, <4>1, <4>2, <4>3
    <3>4. r.late = FALSE /\ (at = "IO_SET_OP_COND" => ~NotTaken(r))
      BY <3>1, <3>3, EarlyCommand DEF NotTaken, TIMEOUT, CMD_TIMEOUT, sd_reset_cmd
    <3> QED
      BY <3>1, <3>3, <3>4 DEF Issued, InitFails, Return, Goto, GotoWith, Early
  <2> QED
    BY <2>1, <2>2 DEF InCall
<1>5. CASE ResetController
  BY <1>5 DEF ResetController, InitFails, Return, Same, Early
<1>6. CASE ChangeCard \/ UNCHANGED vars
  BY <1>6 DEF ChangeCard, vars
<1> QED
  BY <1>1, <1>2, <1>3, <1>4, <1>5, <1>6, NextCases, Zenon

\* Behind such a controller the initialisation cannot succeed, however often it is called
\* and whatever card is in: sd_reset_cmd returns -1 when the line has been reset
\* (sd_card.c:166-179, 836), and CMD5 is never answered.
THEOREM PromptControllerFails == Spec => []InitNeedsSilence
<1>1. Init => SilenceInv
  BY CallsAssumption DEF Init, SilenceInv, Unfailing, Early
<1>2. SilenceInv /\ [Next]_vars => SilenceInv'
  BY SilenceNext
<1>3. SilenceInv => InitNeedsSilence
  BY DEF SilenceInv, Unfailing, InitNeedsSilence
<1> QED
  BY <1>1, <1>2, <1>3, PTL DEF Spec

-----------------------------------------------------------------------------
(* What a command does to the card.                                        *)

CardType == [state : CardStates, rca : {NoRca, Rca}, app : BOOLEAN, wide : BOOLEAN,
             len512 : BOOLEAN, v18 : BOOLEAN]

\* The states of a card that has been identified.
Addressed == {"ident", "stby", "tran", "data", "rcv"}

LEMMA FreshIs ==
  /\ FreshCard \in CardType /\ FreshCard.state = "idle"
  /\ \A c \in CardType : Idled(c) \in CardType /\ Idled(c).state = "idle"
BY DEF FreshCard, CardType, Idled, CardStates, NoRca

LEMMA MovesIs ==
  /\ DOMAIN Moves = {"VOLTAGE_SWITCH", "ALL_SEND_CID", "SEND_RELATIVE_ADDR", "SELECT_CARD",
                     "STOP_TRANSMISSION", "READ_MULTIPLE_BLOCK", "WRITE_MULTIPLE_BLOCK"}
  /\ Moves["VOLTAGE_SWITCH"] = "ready"
  /\ \A c \in DOMAIN Moves : c # "VOLTAGE_SWITCH" => Moves[c] \in Addressed
BY DEF Moves, Addressed

LEMMA AfterIs ==
  ASSUME card \in CardType, NEW c, c # "GO_IDLE_STATE"
  PROVE  /\ After(c) \in CardType
         /\ After(c).len512 = (card.len512 \/ c = "SET_BLOCKLEN")
         /\ \/ c \in DOMAIN Moves /\ After(c).state = Moves[c]
            \/ c = "SD_SEND_OP_COND" /\ After(c).state = "ready"
            \/ c \notin DOMAIN Moves /\ After(c).state = card.state
<1> DEFINE st == CASE c \in DOMAIN Moves -> Moves[c] [] Ready(c) -> "ready" [] OTHER -> card.state
<1>1. \/ c \in DOMAIN Moves /\ st = Moves[c]
      \/ c = "SD_SEND_OP_COND" /\ st = "ready"
      \/ c \notin DOMAIN Moves /\ st = card.state
  <2>1. CASE c \in DOMAIN Moves
    <3>1. ~Ready(c)
      BY <2>1, MovesIs DEF Ready
    <3> HIDE DEF Moves, Ready
    <3> QED
      BY <2>1, <3>1
  <2>2. CASE c \notin DOMAIN Moves /\ Ready(c)
    BY <2>2 DEF Ready
  <2>3. CASE c \notin DOMAIN Moves /\ ~Ready(c)
    BY <2>3
  <2> QED
    BY <2>1, <2>2, <2>3
<1>2. st \in CardStates
  BY <1>1, MovesIs DEF CardType, CardStates, Addressed
<1>3. After(c) = [card EXCEPT !.state = st,
                              !.rca = IF c = "SEND_RELATIVE_ADDR" THEN Rca ELSE @,
                              !.app = (c = "APP_CMD"),
                              !.wide = @ \/ c = "SET_BUS_WIDTH",
                              !.len512 = @ \/ c = "SET_BLOCKLEN",
                              !.v18 = @ \/ c = "VOLTAGE_SWITCH"]
  BY Zenon DEF After
<1> HIDE DEF st
<1>4. After(c) = [state |-> st, rca |-> IF c = "SEND_RELATIVE_ADDR" THEN Rca ELSE card.rca,
                  app |-> (c = "APP_CMD"), wide |-> (card.wide \/ c = "SET_BUS_WIDTH"),
                  len512 |-> (card.len512 \/ c = "SET_BLOCKLEN"),
                  v18 |-> (card.v18 \/ c = "VOLTAGE_SWITCH")]
  BY <1>3 DEF CardType
<1>5. After(c) \in CardType
  BY <1>2, <1>4 DEF CardType
<1>6. After(c).state = st /\ After(c).len512 = (card.len512 \/ c = "SET_BLOCKLEN")
  BY <1>4
<1> QED
  BY <1>1, <1>5, <1>6

\* The card has taken the command c; ACMD41 may need another turn.
Taken(c, crd) ==
  /\ Obeys(c)
  /\ crd = After(c) \/ (c = "SD_SEND_OP_COND" /\ crd = [card EXCEPT !.app = FALSE])

\* A late answer looks like success and leaves its flag only for a fault; what it
\* says is not of this command.
Outcome(c, r) ==
  /\ r.success \in BOOLEAN /\ r.late \in BOOLEAN /\ r.stale \in BOOLEAN /\ r.fault \in {0, 1}
  /\ r.moved = 0
  /\ r.card = card \/ Taken(c, r.card)
  /\ r.stale = TRUE => late = TRUE /\ (r.fault = 0 => r.card = card)
  /\ r.late = TRUE => r.fault = 1 /\ (r.success = TRUE => late = TRUE)
  /\ r.success = TRUE /\ r.stale = FALSE =>
       Taken(c, r.card) \/ (c = "GO_IDLE_STATE" /\ (~Obeys(c) \/ r.fault = 1))

LEMMA SilenceOutcome ==
  ASSUME late \in BOOLEAN, NEW c, NEW f \in {0, 1}
  PROVE  Outcome(c, Silence(card, FALSE, f))
<1>1. CASE late = TRUE
  BY <1>1 DEF Outcome, Silence, Result
<1>2. CASE late = FALSE
  BY <1>2 DEF Outcome, Silence, Result
<1> QED
  BY <1>1, <1>2

LEMMA SilentOutcome ==
  ASSUME late \in BOOLEAN, NEW c, NEW f \in {0, 1}
  PROVE  Outcome(c, Unanswered(f))
<1>1. CASE ctrl = "quiet"
  BY <1>1, SilenceOutcome DEF Unanswered
<1>2. CASE ctrl # "quiet"
  <2>1. Outcome(c, Result(FALSE, "cto", card, FALSE, f))
    BY DEF Outcome, Result
  <2> QED
    BY <1>2, <2>1 DEF Unanswered
<1> QED
  BY <1>1, <1>2

LEMMA TakenOutcome ==
  ASSUME late \in BOOLEAN, NEW c, NEW crd, crd = card \/ Taken(c, crd)
  PROVE  /\ Outcome(c, Result(FALSE, "err", crd, FALSE, 1))
         /\ Outcome(c, Silence(crd, TRUE, 1))
         /\ Taken(c, crd) /\ c # "GO_IDLE_STATE" => Outcome(c, Result(TRUE, "none", crd, FALSE, 0))
         /\ Taken(c, crd) /\ c # "GO_IDLE_STATE" => Outcome(c, Result(TRUE, "none", crd, FALSE, 1))
<1>1. Outcome(c, Result(FALSE, "err", crd, FALSE, 1))
  BY DEF Outcome, Result
<1>2. CASE late = TRUE
  BY <1>2 DEF Outcome, Silence, Result
<1>3. CASE late = FALSE
  BY <1>3 DEF Outcome, Silence, Result
<1>4. ASSUME Taken(c, crd), c # "GO_IDLE_STATE", NEW f \in {0, 1}
      PROVE  Outcome(c, Result(TRUE, "none", crd, FALSE, f))
  BY <1>4 DEF Outcome, Result
<1> QED
  BY <1>1, <1>2, <1>3, <1>4

LEMMA SentOutcome ==
  ASSUME late \in BOOLEAN, NEW c, NEW r \in Sent(c) \cup Lost(c)
  PROVE  Outcome(c, r)
<1> DEFINE taken == IF Obeys(c) THEN After(c) ELSE card
<1>0. taken = card \/ Taken(c, taken)
  BY DEF Taken
<1>1. Outcome(c, Unanswered(0)) /\ Outcome(c, Unanswered(1)) /\ Outcome(c, Silence(card, FALSE, 1))
  BY SilentOutcome, SilenceOutcome
<1>2. Outcome(c, Result(FALSE, "err", taken, FALSE, 1)) /\ Outcome(c, Silence(taken, TRUE, 1))
  BY <1>0, TakenOutcome
<1>3. ASSUME Obeys(c), c # "GO_IDLE_STATE"
      PROVE  /\ Outcome(c, Result(TRUE, "none", After(c), FALSE, 0))
             /\ c = "SD_SEND_OP_COND" =>
                  Outcome(c, Result(TRUE, "none", [card EXCEPT !.app = FALSE], FALSE, 1))
  <2>1. Taken(c, After(c))
    BY <1>3 DEF Taken
  <2>2. c = "SD_SEND_OP_COND" => Taken(c, [card EXCEPT !.app = FALSE])
    BY <1>3 DEF Taken
  <2> QED
    BY <1>3, <2>1, <2>2, TakenOutcome
<1>4. c = "GO_IDLE_STATE" => /\ Outcome(c, Result(TRUE, "none", taken, FALSE, 0))
                             /\ Outcome(c, Result(TRUE, "none", card, FALSE, 1))
  BY <1>0 DEF Outcome, Result, Taken
<1>5. CASE r \in Sent(c)
  <2>1. CASE c = "GO_IDLE_STATE"
    BY <1>4, <1>5, <2>1 DEF Sent
  <2>2. CASE c # "GO_IDLE_STATE"
    <3>1. \/ Obeys(c) /\ r = Result(TRUE, "none", After(c), FALSE, 0)
          \/ r = Unanswered(0)
      BY <1>5, <2>2, Zenon DEF Sent
    <3> QED
      BY <1>1, <1>3, <2>2, <3>1
  <2> QED
    BY <2>1, <2>2
<1>6. CASE r \in Lost(c)
  <2>1. \/ r = Unanswered(1) \/ r = Silence(card, FALSE, 1)
        \/ r = Result(FALSE, "err", taken, FALSE, 1) \/ r = Silence(taken, TRUE, 1)
        \/ /\ c = "SD_SEND_OP_COND" /\ Obeys(c)
           /\ r = Result(TRUE, "none", [card EXCEPT !.app = FALSE], FALSE, 1)
        \/ c = "GO_IDLE_STATE" /\ r = Result(TRUE, "none", card, FALSE, 1)
    BY <1>6 DEF Lost
  <2> HIDE DEF taken
  <2> QED
    BY <1>1, <1>2, <1>3, <1>4, <2>1
<1> QED
  BY <1>5, <1>6

\* The data stage leaves the card where the command took it, or takes it to where it
\* sends or waits for data; only a true answer moves data.
DataOutcome(c, r) ==
  /\ r.success \in BOOLEAN /\ r.late \in BOOLEAN /\ r.fault \in {0, 1}
  /\ r.moved \in {0, device.blocks - 1, device.blocks}
  /\ \/ r.card = card \/ Taken(c, r.card)
     \/ \E crd : /\ Taken(c, crd)
                 /\ r.card \in {[crd EXCEPT !.state = "rcv"], [crd EXCEPT !.state = "data"]}
  /\ r.late = TRUE => r.fault = 1 /\ (r.success = TRUE => late = TRUE)
  /\ r.success = TRUE => r.stale = FALSE /\ Taken(c, r.card)

LEMMA StageOutcome ==
  ASSUME late \in BOOLEAN, NEW c \in DataCommands, NEW s, IsResult(s), Outcome(c, s), s.success,
         NEW r \in DataStage(c, s)
  PROVE  DataOutcome(c, r)
<1> DEFINE busy == [s.card EXCEPT !.state = IF c \in WriteCommands THEN "rcv" ELSE "data"]
           failed(crd, k) == [s EXCEPT !.success = FALSE, !.error = "err", !.fault = 1,
                                       !.card = crd, !.moved = k]
           Failures == {failed(crd, k) : crd \in {s.card, busy},
                                         k \in {0, device.blocks - 1, device.blocks}}
<1>0. s.success = TRUE /\ c # "GO_IDLE_STATE"
  BY DEF Outcome, DataCommands, ReadCommands, WriteCommands
<1>1. CASE s.stale \/ s.card.wide # host_wide
  <2>1. r = [s EXCEPT !.success = FALSE, !.error = "err"]
    BY <1>1, SMT DEF DataStage
  <2>2. r = [success |-> FALSE, error |-> "err", card |-> s.card, late |-> s.late,
               fault |-> s.fault, stale |-> s.stale, moved |-> s.moved]
    BY <2>1 DEF IsResult
  <2> QED
    BY <1>0, <2>2 DEF Outcome, DataOutcome
<1>2. CASE ~(s.stale \/ s.card.wide # host_wide)
  <2>0. s.stale = FALSE /\ Taken(c, s.card)
    BY <1>0, <1>2 DEF Outcome
  <2>1. r \in {[s EXCEPT !.moved = device.blocks]} \cup Failures
    BY <1>2, SMT DEF DataStage
  <2>2. CASE r = [s EXCEPT !.moved = device.blocks]
    <3>1. r = [success |-> TRUE, error |-> s.error, card |-> s.card, late |-> s.late,
               fault |-> s.fault, stale |-> FALSE, moved |-> device.blocks]
      BY <1>0, <2>0, <2>2 DEF IsResult
    <3> QED
      BY <1>0, <2>0, <3>1 DEF Outcome, DataOutcome
  <2>3. CASE r \in Failures
    <3> HIDE DEF failed, busy
    <3>1. PICK crd \in {s.card, busy}, k \in {0, device.blocks - 1, device.blocks} :
            r = failed(crd, k)
      BY <2>3
    <3> HIDE DEF Failures
    <3>2. r = [success |-> FALSE, error |-> "err", card |-> crd, late |-> s.late, fault |-> 1,
               stale |-> s.stale, moved |-> k]
      BY <3>1 DEF failed, IsResult
    <3>3. \/ crd = s.card
          \/ crd \in {[s.card EXCEPT !.state = "rcv"], [s.card EXCEPT !.state = "data"]}
      BY <3>1 DEF busy
    <3>4. /\ r.success = FALSE /\ r.late = s.late /\ r.fault = 1 /\ r.card = crd /\ r.moved = k
      BY <3>2
    <3> QED
      BY <1>0, <2>0, <3>1, <3>3, <3>4, Zenon DEF Outcome, DataOutcome
  <2> HIDE DEF Failures
  <2> QED
    BY <2>1, <2>2, <2>3
<1> QED
  BY <1>1, <1>2

\* What any command does to the card's state: it goes on in the identification, or
\* changes among the states behind it.
Moved(c, crd) ==
  /\ crd \in CardType
  /\ c = "GO_IDLE_STATE" => crd = card \/ crd.state = "idle"
  /\ c # "GO_IDLE_STATE" =>
       /\ card.len512 = TRUE => crd.len512 = TRUE
       /\ \/ crd.state = card.state
          \/ c = "SD_SEND_OP_COND" /\ card.state = "idle" /\ crd.state = "ready"
          \/ c = "ALL_SEND_CID" /\ card.state = "ready" /\ crd.state = "ident"
          \/ card.state \in Addressed /\ crd.state \in Addressed

\* In which states the card obeys.
LEMMA LegalIs ==
  ASSUME NEW c \in DOMAIN Moves, Obeys(c)
  PROVE  /\ c = "VOLTAGE_SWITCH" => card.state = "ready"
         /\ c = "ALL_SEND_CID" => card.state = "ready"
         /\ c \notin {"VOLTAGE_SWITCH", "ALL_SEND_CID"} => card.state \in Addressed
         /\ c \in {"READ_MULTIPLE_BLOCK", "WRITE_MULTIPLE_BLOCK"} => card.state = "tran"
BY MovesIs DEF Obeys, Legal, Addressed

LEMMA OpCondIdle ==
  ASSUME Obeys("SD_SEND_OP_COND") PROVE card.state = "idle"
BY DEF Obeys, Legal

LEMMA DataInTran ==
  ASSUME NEW c \in DataCommands, Obeys(c) PROVE card.state = "tran"
BY DEF Obeys, Legal, DataCommands, ReadCommands, WriteCommands

LEMMA TakenMoved ==
  ASSUME card \in CardType, NEW c, NEW crd, Taken(c, crd)
  PROVE  Moved(c, crd)
<1>1. CASE c = "GO_IDLE_STATE"
  <2>1. crd = Idled(card)
    BY <1>1 DEF Taken, After
  <2> QED
    BY <1>1, <2>1, FreshIs DEF Moved
<1>2. CASE c # "GO_IDLE_STATE" /\ crd = After(c)
  <2>0. Obeys(c)
    BY DEF Taken
  <2>1. /\ crd \in CardType /\ crd.len512 = (card.len512 \/ c = "SET_BLOCKLEN")
        /\ \/ c \in DOMAIN Moves /\ crd.state = Moves[c]
           \/ c = "SD_SEND_OP_COND" /\ crd.state = "ready"
           \/ c \notin DOMAIN Moves /\ crd.state = card.state
    BY <1>2, AfterIs, Zenon
  <2>2. card.len512 = TRUE => crd.len512 = TRUE
    BY <2>1
  <2>3. CASE c \in DOMAIN Moves /\ crd.state = Moves[c]
    <3>1. CASE c = "VOLTAGE_SWITCH"
      BY <1>2, <2>0, <2>1, <2>2, <2>3, <3>1, LegalIs, MovesIs DEF Moved
    <3>2. CASE c = "ALL_SEND_CID"
      <4>1. Moves["ALL_SEND_CID"] = "ident"
        BY DEF Moves
      <4> QED
        BY <1>2, <2>0, <2>1, <2>2, <2>3, <3>2, <4>1, LegalIs DEF Moved
    <3>3. CASE c \notin {"VOLTAGE_SWITCH", "ALL_SEND_CID"}
      BY <1>2, <2>0, <2>1, <2>2, <2>3, <3>3, LegalIs, MovesIs DEF Moved
    <3> QED
      BY <3>1, <3>2, <3>3
  <2>4. CASE c = "SD_SEND_OP_COND" /\ crd.state = "ready"
    BY <1>2, <2>0, <2>1, <2>2, <2>4, OpCondIdle DEF Moved
  <2>5. CASE crd.state = card.state
    BY <1>2, <2>1, <2>2, <2>5 DEF Moved
  <2> QED
    BY <2>1, <2>3, <2>4, <2>5
<1>3. CASE c # "GO_IDLE_STATE" /\ crd = [card EXCEPT !.app = FALSE]
  <2>1. crd = [state |-> card.state, rca |-> card.rca, app |-> FALSE, wide |-> card.wide,
               len512 |-> card.len512, v18 |-> card.v18]
    BY <1>3 DEF CardType
  <2>2. crd \in CardType /\ crd.state = card.state /\ crd.len512 = card.len512
    BY <2>1 DEF CardType
  <2> QED
    BY <1>3, <2>2 DEF Moved
<1> QED
  BY <1>1, <1>2, <1>3 DEF Taken

LEMMA BusyMoved ==
  ASSUME card \in CardType, NEW c \in DataCommands, NEW crd, Taken(c, crd),
         NEW st \in {"rcv", "data"}
  PROVE  Moved(c, [crd EXCEPT !.state = st])
<1> DEFINE new == [crd EXCEPT !.state = st]
<1>0. c # "GO_IDLE_STATE" /\ c # "SD_SEND_OP_COND"
  BY DEF DataCommands, ReadCommands, WriteCommands
<1>1. Moved(c, crd) /\ Obeys(c)
  BY TakenMoved DEF Taken
<1>2. card.state = "tran"
  BY <1>1, DataInTran
<1>3. crd \in CardType /\ (card.len512 = TRUE => crd.len512 = TRUE)
  BY <1>0, <1>1 DEF Moved
<1>4. new = [state |-> st, rca |-> crd.rca, app |-> crd.app, wide |-> crd.wide,
             len512 |-> crd.len512, v18 |-> crd.v18]
  BY <1>3 DEF CardType
<1>5. new \in CardType /\ new.state \in Addressed /\ new.len512 = crd.len512
  BY <1>3, <1>4 DEF CardType, CardStates, Addressed
<1>6. Moved(c, new)
  <2> HIDE DEF new
  <2> QED
    BY <1>0, <1>2, <1>3, <1>5 DEF Moved, Addressed
<1> QED
  BY <1>6

\* What a step knows of the result of the command c.
Effect(c, r) ==
  /\ r.success \in BOOLEAN /\ r.late \in BOOLEAN /\ r.fault \in {0, 1}
  /\ c \in DataCommands => r.moved \in {0, device.blocks - 1, device.blocks}
  /\ Moved(c, r.card)
  /\ r.late = TRUE => \/ r.fault = 1 /\ (r.success = TRUE => late = TRUE)
                      \/ r.success = FALSE /\ late = TRUE
  /\ r.success = TRUE => \/ r.stale = FALSE /\ Taken(c, r.card)
                         \/ r.stale = FALSE /\ c = "GO_IDLE_STATE" /\ (~Obeys(c) \/ r.fault = 1)
                         \/ /\ c \notin DataCommands /\ r.stale = TRUE /\ late = TRUE
                            /\ r.fault = 0 => r.card = card

LEMMA MovedSame == ASSUME card \in CardType, NEW c PROVE Moved(c, card)
BY DEF Moved

LEMMA OutcomeEffect ==
  ASSUME late \in BOOLEAN, card \in CardType, NEW c, NEW r, Outcome(c, r),
         c \in DataCommands => r.success = FALSE
  PROVE  Effect(c, r)
<1>1. Moved(c, r.card)
  BY TakenMoved, MovedSame DEF Outcome
<1>2. r.moved = 0
  BY DEF Outcome
<1> QED
  BY <1>1, <1>2 DEF Effect, Outcome

LEMMA DataEffect ==
  ASSUME late \in BOOLEAN, card \in CardType, NEW c \in DataCommands, NEW r, DataOutcome(c, r)
  PROVE  Effect(c, r)
<1>1. Moved(c, r.card)
  <2>1. CASE r.card = card \/ Taken(c, r.card)
    BY <2>1, TakenMoved, MovedSame
  <2>2. ASSUME NEW crd, Taken(c, crd)
        PROVE  Moved(c, [crd EXCEPT !.state = "rcv"]) /\ Moved(c, [crd EXCEPT !.state = "data"])
    BY <2>2, BusyMoved
  <2> QED
    BY <2>1, <2>2 DEF DataOutcome
<1> QED
  BY <1>1 DEF Effect, DataOutcome

\* sd_issue_command_int, whatever happens in it.
LEMMA CommandEffect ==
  ASSUME late \in BOOLEAN, card \in CardType, NEW c, NEW r \in sd_issue_command_int(c)
  PROVE  Effect(c, r)
<1>1. CASE device.blocks > MaxBlocks
  <2>1. PICK err : r = Result(FALSE, err, card, late, 0)
    BY <1>1 DEF sd_issue_command_int
  <2>2. r.success = FALSE /\ r.late = late /\ r.fault = 0 /\ r.moved = 0 /\ r.card = card
    BY <2>1 DEF Result
  <2> QED
    BY <2>2, MovedSame DEF Effect
<1>2. CASE r \in Sent(c) \cup Lost(c) /\ (~r.success \/ c \notin DataCommands)
  <2>1. Outcome(c, r)
    BY <1>2, SentOutcome
  <2>2. c \in DataCommands => r.success = FALSE
    BY <1>2, <2>1 DEF Outcome
  <2> QED
    BY <2>1, <2>2, OutcomeEffect
<1>3. ASSUME NEW s \in Sent(c) \cup Lost(c), s.success, c \in DataCommands, r \in DataStage(c, s)
      PROVE  Effect(c, r)
  BY <1>3, SentOutcome, CommandSent, StageOutcome, DataEffect
<1> QED
  BY <1>1, <1>2, <1>3 DEF sd_issue_command_int

\* An application command is another one when its APP_CMD fails.
LEMMA IssuedEffect ==
  ASSUME late \in BOOLEAN, card \in CardType, NEW c, NEW r \in sd_issue_command(c)
  PROVE  \/ Effect(c, r)
         \/ c \in AppCommands /\ app # TRUE /\ r.success = FALSE /\ Effect("APP_CMD", r)
<1>1. CASE c \in AppCommands /\ ~app
  <2>1. r \in sd_issue_command_int("APP_CMD") /\ ~r.success
    BY <1>1 DEF sd_issue_command
  <2>2. Effect("APP_CMD", r)
    BY <2>1, CommandEffect
  <2> QED
    BY <1>1, <2>1, <2>2 DEF Effect
<1>2. CASE ~(c \in AppCommands /\ ~app)
  BY <1>2, CommandEffect DEF sd_issue_command
<1> QED
  BY <1>1, <1>2

-----------------------------------------------------------------------------
(* The clock's divider.                                                    *)

LEMMA SmallPower ==
  ASSUME NEW b \in 0 .. 10
  PROVE  2^b \in 1 .. 1024 /\ DividedBy(b) = 2^b
<1>1. b = 0 \/ b = 1 \/ b = 2 \/ b = 3 \/ b = 4 \/ b = 5 \/ b = 6 \/ b = 7
      \/ b = 8 \/ b = 9 \/ b = 10
  OBVIOUS
<1>2. CASE b = 0
  BY <1>2 DEF DividedBy
<1>3. CASE b = 1
  BY <1>3 DEF DividedBy
<1>4. CASE b = 2
  BY <1>4 DEF DividedBy
<1>5. CASE b = 3
  BY <1>5 DEF DividedBy
<1>6. CASE b = 4
  BY <1>6 DEF DividedBy
<1>7. CASE b = 5
  BY <1>7 DEF DividedBy
<1>8. CASE b = 6
  BY <1>8 DEF DividedBy
<1>9. CASE b = 7
  BY <1>9 DEF DividedBy
<1>10. CASE b = 8
  BY <1>10 DEF DividedBy
<1>11. CASE b = 9
  BY <1>11 DEF DividedBy
<1>12. CASE b = 10
  BY <1>12 DEF DividedBy
<1> QED
  BY <1>1, <1>2, <1>3, <1>4, <1>5, <1>6, <1>7, <1>8, <1>9, <1>10, <1>11, <1>12

\* The exponent of the smallest power of two that is large enough.
LEMMA Smallest ==
  ASSUME NEW E \in SUBSET (0 .. 30), 10 \in E
  PROVE  \E b \in E : b \in 0 .. 10 /\ \A e \in E : b <= e
<1>1. CASE 0 \in E
  BY <1>1
<1>2. CASE 0 \notin E /\ 1 \in E
  BY <1>2
<1>3. CASE 0 \notin E /\ 1 \notin E /\ 2 \in E
  BY <1>3
<1>4. CASE {0, 1, 2} \cap E = {} /\ 3 \in E
  BY <1>4
<1>5. CASE {0, 1, 2, 3} \cap E = {} /\ 4 \in E
  BY <1>5
<1>6. CASE {0, 1, 2, 3, 4} \cap E = {} /\ 5 \in E
  BY <1>6
<1>7. CASE {0, 1, 2, 3, 4, 5} \cap E = {} /\ 6 \in E
  BY <1>7
<1>8. CASE {0, 1, 2, 3, 4, 5, 6} \cap E = {} /\ 7 \in E
  BY <1>8
<1>9. CASE {0, 1, 2, 3, 4, 5, 6, 7} \cap E = {} /\ 8 \in E
  BY <1>9
<1>10. CASE {0, 1, 2, 3, 4, 5, 6, 7, 8} \cap E = {} /\ 9 \in E
  BY <1>10
<1>11. CASE {0, 1, 2, 3, 4, 5, 6, 7, 8, 9} \cap E = {}
  BY <1>11
<1> QED
  BY <1>1, <1>2, <1>3, <1>4, <1>5, <1>6, <1>7, <1>8, <1>9, <1>10, <1>11

LEMMA BaseIs ==
  ASSUME base \in BaseClocks
  PROVE  BaseClock \in 10 .. 2550
<1>1. PICK mhz \in 0 .. 255 : base = 10 * mhz
  BY ClockAssumption
<1> QED
  BY <1>1 DEF BaseClock

\* The divisor fits its register, and is large enough when the quotient is exact.
LEMMA DividerCovers ==
  ASSUME base \in BaseClocks, NEW target \in {ClockId, ClockNormal}
  PROVE  /\ sd_get_clock_divider(target) \in 1 .. 2 * 1023
         /\ BaseClock % target = 0 => BaseClock <= target * sd_get_clock_divider(target)
<1> DEFINE B == BaseClock
           quotient == IF target > B THEN 1 ELSE B \div target - (IF B % target = 0 THEN 0 ELSE 1)
           enough   == {b \in 0 .. 30 : 2 ^ b >= quotient}
           least    == CHOOSE b \in enough : \A e \in enough : b <= e
<1>0. B \in 10 .. 2550 /\ target \in {4, 250}
  BY BaseIs DEF ClockId, ClockNormal
<1>1. sd_get_clock_divider(target) = DividedBy(IF quotient = 0 THEN 31 ELSE least)
  BY DEF sd_get_clock_divider
<1> HIDE DEF B
<1>2. quotient \in 0 .. 640
  BY <1>0
<1>3. B % target = 0 => B = target * quotient /\ quotient # 0
  BY <1>0
<1> HIDE DEF quotient
<1>4. enough \in SUBSET (0 .. 30) /\ 10 \in enough
  BY <1>2
<1>5. least \in enough /\ least \in 0 .. 10
  <2> HIDE DEF enough
  <2>1. \E b \in enough : b \in 0 .. 10 /\ \A e \in enough : b <= e
    BY <1>4, Smallest
  <2>2. least \in enough /\ \A e \in enough : least <= e
    BY <2>1
  <2> HIDE DEF least
  <2> QED
    BY <1>4, <2>1, <2>2
<1>6. 2 ^ least >= quotient
  <2> HIDE DEF least
  <2> QED
    BY <1>5
<1> HIDE DEF least, enough
<1>7. 2 ^ least \in 1 .. 1024 /\ DividedBy(least) = 2 ^ least
  BY <1>5, SmallPower
<1>8. CASE quotient = 0
  <2>1. sd_get_clock_divider(target) = 2 * 1023
    BY <1>1, <1>8 DEF DividedBy
  <2> QED
    BY <1>3, <1>8, <2>1 DEF B
<1>9. CASE quotient # 0
  <2>1. sd_get_clock_divider(target) = 2 ^ least
    BY <1>1, <1>7, <1>9
  <2> DEFINE p == 2 ^ least
  <2>2. p \in 1 .. 1024 /\ p >= quotient
    BY <1>6, <1>7
  <2> HIDE DEF p
  <2>3. B % target = 0 => B <= target * p
    BY <1>0, <1>2, <1>3, <2>2
  <2> QED
    BY <2>1, <2>2, <2>3 DEF B, p
<1> QED
  BY <1>8, <1>9

-----------------------------------------------------------------------------
(* Types.                                                                  *)

DeviceType == [rca : {NoRca, Rca, BadRca}, sdhc : BOOLEAN, s18 : BOOLEAN,
               failed : BOOLEAN, v2 : BOOLEAN, blocks : Nat]

\* While a data command is tried there are blocks to move, and a try left.
TypeInv == TypeOK /\ (at = "try" => device.blocks # 0 /\ tries # 3)

\* What a step of the driver leaves of the card and of the call.
CardTypes ==
  /\ card' \in CardType /\ late' \in BOOLEAN /\ app' \in BOOLEAN
  /\ caller' \in {"user", "rca", "state"}

CallTypes ==
  /\ device' \in DeviceType /\ host_wide' \in BOOLEAN
  /\ at' \in Steps \cup {"boot", "return", "power", "power_off", "reset"}
  /\ tries' \in 0 .. 3 /\ result' \in {"none", "done", "failed", "initialised"}
  /\ divisor' \in 1 .. 2 * 1023
  /\ moved' \in [blocks : Nat, unit_fits : BOOLEAN, len_fits : BOOLEAN]
  /\ cut_short' \in BOOLEAN
  /\ at' = "try" => device'.blocks # 0 /\ tries' # 3

\* The step ends the call with a failure, or goes on with the device as d.
Goes ==
  \/ InitFails \/ ForgetsCard
  \/ \E step \in (Steps \ {"try"}) \cup {"power", "power_off"}, d \in DeviceType : GotoWith(step, d)

LEMMA Unfolded ==
  ASSUME TypeInv
  PROVE  /\ faults \in Nat /\ kind \in Kinds
         /\ card \in CardType /\ device \in DeviceType
         /\ late \in BOOLEAN /\ host_wide \in BOOLEAN /\ app \in BOOLEAN
         /\ at \in Steps \cup {"boot", "return", "power", "power_off", "reset"}
         /\ caller \in {"user", "rca", "state"} /\ call.size \in Nat
         /\ tries \in 0 .. 3 /\ result \in {"none", "done", "failed", "initialised"}
         /\ base \in BaseClocks /\ divisor \in 1 .. 2 * 1023
         /\ moved \in [blocks : Nat, unit_fits : BOOLEAN, len_fits : BOOLEAN]
         /\ cut_short \in BOOLEAN
         /\ at = "try" => device.blocks # 0 /\ tries # 3
<1>1. call.size \in Nat
  <2>1. call \in [write : BOOLEAN, size : Sizes \cup {0}]
    BY DEF TypeInv, TypeOK
  <2>2. call.size \in Sizes \cup {0}
    BY <2>1
  <2>3. call.size \in Sizes => call.size \in Nat
    BY CallsAssumption, Zenon
  <2> QED
    BY <2>2, <2>3
<1> QED
  BY <1>1 DEF TypeInv, TypeOK, MailTypeOK, HostTypeOK, CardType, DeviceType

\* The struct with one field assigned.
LEMMA DeviceFields ==
  ASSUME device \in DeviceType
  PROVE  /\ \A x \in BOOLEAN : /\ [device EXCEPT !.v2 = x] \in DeviceType
                               /\ [device EXCEPT !.failed = x] \in DeviceType
         /\ \A x, y \in BOOLEAN : [device EXCEPT !.sdhc = x, !.s18 = y] \in DeviceType
         /\ \A x \in {NoRca, Rca, BadRca} : [device EXCEPT !.rca = x] \in DeviceType
         /\ \A x \in Nat : [device EXCEPT !.blocks = x] \in DeviceType
BY DEF DeviceType

LEMMA FlagsAre ==
  ASSUME device \in DeviceType
  PROVE  device.s18 \in BOOLEAN /\ device.sdhc \in BOOLEAN /\ device.rca \in {NoRca, Rca, BadRca}
         /\ device.blocks \in Nat
BY DEF DeviceType

\* A command leaves a card, a flag and an error count.
LEMMA CommandTypes ==
  ASSUME late \in BOOLEAN, card \in CardType
  PROVE  \A c : /\ \A r \in sd_issue_command(c) :
                     r.card \in CardType /\ r.late \in BOOLEAN /\ r.success \in BOOLEAN
                /\ \A r \in sd_issue_command_int(c) :
                     r.card \in CardType /\ r.late \in BOOLEAN /\ r.success \in BOOLEAN
BY CommandEffect, IssuedEffect DEF Effect, Moved

LEMMA GoesTypes ==
  ASSUME TypeInv, Goes
  PROVE  CallTypes
<1> USE Unfolded DEF CallTypes, Steps, drvVars
<1>1. CASE InitFails
  <2>1. cut_short' \in BOOLEAN
    BY <1>1 DEF InitFails
  <2> QED
    BY <1>1, <2>1 DEF InitFails, Return
<1>2. CASE ForgetsCard
  <2>1. device' \in DeviceType
    BY <1>2, DeviceFields DEF ForgetsCard
  <2> QED
    BY <1>2, <2>1 DEF ForgetsCard, Return
<1>3. ASSUME NEW step \in (Steps \ {"try"}) \cup {"power", "power_off"}, NEW d \in DeviceType,
             GotoWith(step, d)
      PROVE  CallTypes
  BY <1>3 DEF GotoWith
<1> QED
  BY <1>1, <1>2, <1>3 DEF Goes

LEMMA IssuedTypes ==
  ASSUME TypeInv, NEW c, NEW r \in sd_issue_command(c), Answered(r)
  PROVE  CardTypes
BY Unfolded, CommandTypes DEF Answered, Issued, Same, CardTypes

LEMMA GotoGoes ==
  ASSUME TypeInv, NEW step \in (Steps \ {"try"}) \cup {"power", "power_off"}
  PROVE  /\ Goto(step) => Goes
         /\ \A x \in BOOLEAN : GotoWith(step, [device EXCEPT !.v2 = x]) => Goes
         /\ \A x \in BOOLEAN : GotoWith(step, [device EXCEPT !.failed = x]) => Goes
         /\ \A x \in Nat : GotoWith(step, [device EXCEPT !.blocks = x]) => Goes
<1>1. device \in DeviceType
  BY Unfolded
<1> QED
  BY <1>1, DeviceFields DEF Goto, Goes

LEMMA InitStepTypes ==
  ASSUME TypeInv, InitStep
  PROVE  CardTypes /\ CallTypes
<1> USE DEF Steps
<1>a. \A c : \A r \in sd_issue_command(c) : Answered(r) => CardTypes
  BY IssuedTypes
<1>b. device \in DeviceType /\ device.s18 \in BOOLEAN
  BY Unfolded, FlagsAre
<1>1. CASE Announce
  <2>1. CardTypes
    BY <1>1, Unfolded, CommandTypes DEF Announce, Issued, Same, CardTypes
  <2>2. at \in (Steps \ {"try"}) /\ Goto(at)
    BY <1>1 DEF Announce, Here, AppCommands
  <2> QED
    BY <2>1, <2>2, GotoGoes, GoesTypes
<1>2. CASE GoIdle
  <2>1. CardTypes
    BY <1>a, <1>2 DEF GoIdle
  <2>2. Goes
    BY <1>2, GotoGoes DEF GoIdle, Goes
  <2> QED
    BY <2>1, <2>2, GoesTypes
<1>3. CASE SendIfCond
  <2>1. CardTypes
    BY <1>a, <1>3 DEF SendIfCond
  <2>2. Goes
    <3>1. \/ InitFails \/ GotoWith("IO_SET_OP_COND", [device EXCEPT !.v2 = TRUE])
          \/ GotoWith("IO_SET_OP_COND", [device EXCEPT !.v2 = FALSE])
      BY <1>3, Zenon DEF SendIfCond
    <3> QED
      BY <3>1, GotoGoes DEF Goes
  <2> QED
    BY <2>1, <2>2, GoesTypes
<1>4. CASE IoSetOpCond
  <2>1. CardTypes
    BY <1>a, <1>4 DEF IoSetOpCond
  <2>2. Goes
    BY <1>4, GotoGoes DEF IoSetOpCond, Goes
  <2> QED
    BY <2>1, <2>2, GoesTypes
<1>5. CASE Inquiry
  <2>1. CardTypes
    BY <1>a, <1>5 DEF Inquiry
  <2>2. Goes
    BY <1>5, GotoGoes DEF Inquiry, Goes
  <2> QED
    BY <2>1, <2>2, GoesTypes
<1>6. CASE SendOpCond
  <2>1. CardTypes
    BY <1>a, <1>6 DEF SendOpCond
  <2>2. CASE Goes
    BY <2>1, <2>2, GoesTypes
  <2>3. ASSUME NEW sdhc \in BOOLEAN, NEW s18 \in BOOLEAN, Identified(sdhc, s18)
        PROVE  CallTypes
    <3>1. /\ at' \in {"VOLTAGE_SWITCH", "ALL_SEND_CID"} /\ device' \in DeviceType
          /\ divisor' = sd_get_clock_divider(ClockNormal)
          /\ UNCHANGED <<host_wide, tries, result, moved, cut_short>>
      BY <1>b, <2>3, DeviceFields DEF Identified
    <3>2. divisor' \in 1 .. 2 * 1023
      BY <3>1, Unfolded, DividerCovers
    <3> QED
      BY <3>1, <3>2, Unfolded DEF CallTypes
  <2>4. \/ Goes \/ \E sdhc \in BOOLEAN, s18 \in BOOLEAN : Identified(sdhc, s18)
    <3>1. PICK r \in sd_issue_command(at) : \/ InitFails \/ Goto(at)
            \/ \E sdhc \in Says(r, kind.sdhc, BOOLEAN),
                  s18 \in Says(r, kind.s18 /\ ~card.v18, BOOLEAN) : Identified(sdhc, s18)
      BY <1>6, Zenon DEF SendOpCond, Here
    <3>2. kind.sdhc \in BOOLEAN /\ kind.s18 \in BOOLEAN
      BY Unfolded DEF Kinds
    <3>3. /\ Says(r, kind.sdhc, BOOLEAN) \subseteq BOOLEAN
          /\ Says(r, kind.s18 /\ ~card.v18, BOOLEAN) \subseteq BOOLEAN
      BY <3>2 DEF Says
    <3>4. Goto(at) => Goes
      BY <1>6, GotoGoes DEF SendOpCond
    <3> QED
      BY <3>1, <3>3, <3>4, Zenon DEF Goes
  <2> QED
    BY <2>1, <2>2, <2>3, <2>4
<1>7. CASE VoltageSwitch
  <2>1. CardTypes
    BY <1>a, <1>7 DEF VoltageSwitch
  <2>2. Goes
    BY <1>7, GotoGoes DEF VoltageSwitch, SwitchFails
  <2> QED
    BY <2>1, <2>2, GoesTypes
<1>8. CASE CheckSignals
  <2>1. CardTypes
    BY <1>8, Unfolded DEF CheckSignals, Same, CardTypes
  <2>2. Goes
    BY <1>8, GotoGoes DEF CheckSignals, SwitchFails
  <2> QED
    BY <2>1, <2>2, GoesTypes
<1>9. CASE AllSendCid
  <2>1. CardTypes
    BY <1>a, <1>9 DEF AllSendCid
  <2>2. Goes
    BY <1>9, GotoGoes DEF AllSendCid, Goes
  <2> QED
    BY <2>1, <2>2, GoesTypes
<1>10. CASE SendRelativeAddr
  <2>1. CardTypes
    BY <1>a, <1>10 DEF SendRelativeAddr
  <2>2. CASE InitFails
    BY <2>1, <2>2, GoesTypes DEF Goes
  <2>3. ASSUME NEW rca \in {NoRca, Rca, BadRca}, device' = [device EXCEPT !.rca = rca],
               \/ at' = "SELECT_CARD" /\ UNCHANGED <<result, cut_short>>
               \/ Return("failed") /\ cut_short' = TRUE,
               UNCHANGED <<host_wide, divisor, tries, moved>>
        PROVE  CallTypes
    <3>1. device' \in DeviceType
      BY <1>b, <2>3, DeviceFields
    <3> QED
      BY <2>3, <3>1, Unfolded DEF CallTypes, Return
  <2>4. PICK r \in sd_issue_command(at) :
          \/ InitFails
          \/ \E rca \in Says(r, Rca, {NoRca, Rca, BadRca}), good \in Says(r, TRUE, BOOLEAN) :
                 /\ device' = [device EXCEPT !.rca = rca]
                 /\ IF good THEN at' = "SELECT_CARD" /\ UNCHANGED <<result, cut_short>>
                    ELSE Return("failed") /\ cut_short' = TRUE
                 /\ UNCHANGED <<host_wide, divisor, tries, moved>>
    BY <1>10, Zenon DEF SendRelativeAddr
  <2>5. Says(r, Rca, {NoRca, Rca, BadRca}) \subseteq {NoRca, Rca, BadRca}
    BY DEF Says
  <2> QED
    BY <2>1, <2>2, <2>3, <2>4, <2>5
<1>11. CASE SelectCard
  <2>1. CardTypes
    BY <1>a, <1>11 DEF SelectCard
  <2>2. Goes
    BY <1>11, GotoGoes DEF SelectCard, GotoScr, Goes
  <2> QED
    BY <2>1, <2>2, GoesTypes
<1>12. CASE SetBlocklen
  <2>1. CardTypes
    BY <1>a, <1>12 DEF SetBlocklen
  <2>2. Goes
    BY <1>12, GotoGoes DEF SetBlocklen, GotoScr, Goes
  <2> QED
    BY <2>1, <2>2, GoesTypes
<1>13. CASE SendScr
  <2>1. CardTypes
    BY <1>a, <1>13 DEF SendScr
  <2>2. Goes
    BY <1>13, GotoGoes DEF SendScr, Goes
  <2> QED
    BY <2>1, <2>2, GoesTypes
<1>14. CASE SetBusWidth
  <2>1. CardTypes
    BY <1>a, <1>14 DEF SetBusWidth
  <2>2. at' = "finish" /\ host_wide' \in BOOLEAN /\ UNCHANGED <<device, drvVars>>
    BY <1>14, Unfolded, CommandTypes DEF SetBusWidth
  <2> QED
    BY <2>1, <2>2, Unfolded DEF CallTypes, drvVars
<1>15. CASE InitSucceeds
  BY <1>15, Unfolded DEF InitSucceeds, CardTypes, CallTypes, Same
<1>16. CASE PowerOn \/ PowerOff
  <2>1. UNCHANGED <<hostVars, caller, drvVars>> /\ at' \in {"reset", "power"}
    BY <1>16 DEF PowerOn, PowerOff
  <2> QED
    BY <2>1, Unfolded DEF CardTypes, CallTypes, hostVars, drvVars
<1>17. CASE ResetController
  <2>1. CardTypes
    BY <1>17, Unfolded DEF ResetController, CardTypes, Same
  <2>2. CASE InitFails
    BY <2>1, <2>2, GoesTypes DEF Goes
  <2>3. CASE /\ divisor' = sd_get_clock_divider(ClockId)
             /\ host_wide' = FALSE /\ late' = FALSE
             /\ at' = "GO_IDLE_STATE"
             /\ UNCHANGED <<faults, device, tries, result, moved, cut_short>>
    <3>1. divisor' \in 1 .. 2 * 1023
      BY <2>3, Unfolded, DividerCovers
    <3> QED
      BY <2>1, <2>3, <3>1, Unfolded DEF CallTypes
  <2> QED
    BY <1>17, <2>2, <2>3 DEF ResetController
<1> QED
  BY <1>1, <1>2, <1>3, <1>4, <1>5, <1>6, <1>7, <1>8, <1>9, <1>10, <1>11, <1>12, <1>13, <1>14,
     <1>15, <1>16, <1>17, Zenon DEF InitStep

LEMMA WholeBlocksCount ==
  ASSUME NEW n \in Nat, NEW b \in Nat \ {0}
  PROVE  n \div b \in Nat /\ (n >= b => n \div b # 0)
OBVIOUS

LEMMA DataModeTypes ==
  ASSUME TypeInv, SendStatus \/ Select \/ StopTransmission \/ SendStatusAgain
  PROVE  CardTypes /\ CallTypes
<1> USE DEF Steps
<1>a. \A c : \A r \in sd_issue_command(c) : Answered(r) => CardTypes
  BY IssuedTypes
<1>1. CASE SendStatus
  <2>1. PICK r \in sd_issue_command("SEND_STATUS") :
          /\ Issued(r)
          /\ \/ ForgetsCard /\ UNCHANGED caller
             \/ /\ \E step \in {"select", "stop", "data", "power"} : Goto(step)
                /\ caller' = "state"
    BY <1>1, Zenon DEF SendStatus
  <2>2. CardTypes
    BY <1>1, <2>1, Unfolded, CommandTypes DEF SendStatus, Issued, CardTypes
  <2>3. Goes
    BY <2>1, GotoGoes DEF Goes
  <2> QED
    BY <2>2, <2>3, GoesTypes
<1>2. CASE Select
  <2>1. CardTypes
    BY <1>a, <1>2 DEF Select
  <2>2. Goes
    BY <1>2, GotoGoes DEF Select, Goes
  <2> QED
    BY <2>1, <2>2, GoesTypes
<1>3. CASE StopTransmission
  <2>1. CardTypes
    BY <1>a, <1>3 DEF StopTransmission
  <2>2. Goes
    BY <1>3, GotoGoes DEF StopTransmission, Goes
  <2> QED
    BY <2>1, <2>2, GoesTypes
<1>4. CASE SendStatusAgain
  <2>1. CardTypes
    BY <1>a, <1>4 DEF SendStatusAgain
  <2>2. Goes
    BY <1>4, GotoGoes DEF SendStatusAgain, Goes
  <2> QED
    BY <2>1, <2>2, GoesTypes
<1> QED
  BY <1>1, <1>2, <1>3, <1>4

LEMMA DataStepTypes ==
  ASSUME TypeInv, CountBlocks \/ TryData
  PROVE  CardTypes /\ CallTypes
<1> USE DEF Steps
<1>1. CASE CountBlocks
  <2>1. CardTypes
    BY <1>1, Unfolded DEF CountBlocks, Same, CardTypes
  <2> DEFINE n == call.size \div BlockSize
             d == IF call.size < BlockSize THEN device ELSE [device EXCEPT !.blocks = n]
  <2>2. n \in Nat /\ (call.size >= BlockSize => n # 0)
    BY Unfolded, CallsAssumption, WholeBlocksCount
  <2> HIDE DEF n
  <2>3. d \in DeviceType
    BY <2>2, Unfolded, DeviceFields
  <2>4. call.size >= BlockSize => d.blocks # 0
    <3>1. call.size >= BlockSize => d = [device EXCEPT !.blocks = n]
      BY Unfolded, CallsAssumption
    <3>2. device \in DeviceType
      BY Unfolded
    <3> HIDE DEF d
    <3> QED
      BY <2>2, <3>1, <3>2 DEF DeviceType
  <2>5. /\ device' = d /\ UNCHANGED <<host_wide, divisor, moved, cut_short>>
        /\ \/ call.size >= BlockSize /\ at' = "try" /\ tries' = 0 /\ UNCHANGED result
           \/ at' = "return" /\ result' = "failed" /\ UNCHANGED tries
    BY <1>1, Zenon DEF CountBlocks, Return, n
  <2> HIDE DEF d
  <2> QED
    BY <2>1, <2>3, <2>4, <2>5, Unfolded DEF CallTypes
<1>2. CASE TryData
  <2>1. PICK r \in sd_issue_command(DataCommand) :
          /\ Answered(r) /\ Tried(r)
          /\ moved' = [blocks |-> r.moved, unit_fits |-> device.sdhc = kind.sdhc,
                       len_fits |-> kind.sdhc \/ r.card.len512]
          /\ UNCHANGED <<host_wide, divisor, cut_short>>
    BY <1>2 DEF TryData
  <2>2. CardTypes /\ at = "try"
    BY <1>2, <2>1, IssuedTypes DEF TryData
  <2>3. DataCommand \in DataCommands \ AppCommands
    BY DEF DataCommand, DataCommands, ReadCommands, WriteCommands, AppCommands
  <2>4. Effect(DataCommand, r)
    BY <2>1, <2>3, IssuedEffect, Unfolded
  <2>5. r.moved \in Nat /\ r.card \in CardType
    <3>1. r.moved \in {0, device.blocks - 1, device.blocks} /\ r.card \in CardType
      BY <2>3, <2>4 DEF Effect, Moved
    <3>2. device.blocks \in Nat \ {0}
      BY <2>2, Unfolded, FlagsAre
    <3> QED
      BY <3>1, <3>2
  <2>6. moved' \in [blocks : Nat, unit_fits : BOOLEAN, len_fits : BOOLEAN]
    <3>1. kind.sdhc \in BOOLEAN /\ r.card.len512 \in BOOLEAN
      BY <2>5, Unfolded DEF Kinds, CardType
    <3> QED
      BY <2>1, <2>5, <3>1
  <2>7. /\ device' \in DeviceType /\ at' \in {"return", at} /\ tries' \in 0 .. 3
        /\ result' \in {result, "done", "failed"}
        /\ at' = at => device' = device /\ tries' # 3
    <3>0. tries \in 0 .. 3 /\ tries # 3 /\ device \in DeviceType
      BY <2>2, Unfolded
    <3>1. tries \in 0 .. 2 /\ [device EXCEPT !.rca = NoRca] \in DeviceType
      <4>1. tries \in 0 .. 2
        BY <3>0
      <4>2. \A x \in {NoRca, Rca, BadRca} : [device EXCEPT !.rca = x] \in DeviceType
        BY <3>0, DeviceFields
      <4> QED
        BY <4>1, <4>2
    <3>2. \/ /\ at' = "return" /\ result' = "done" /\ UNCHANGED <<tries, device>>
          \/ /\ tries' = tries + 1
             /\ \/ /\ tries' = 3 /\ at' = "return" /\ result' = "failed"
                   /\ device' = [device EXCEPT !.rca = NoRca]
                \/ tries' # 3 /\ UNCHANGED <<at, result, device>>
      BY <2>1, Zenon DEF Tried, Return
    <3> QED
      BY <2>2, <3>0, <3>1, <3>2
  <2> QED
    BY <2>1, <2>2, <2>6, <2>7, Unfolded DEF CallTypes
<1> QED
  BY <1>1, <1>2

\* The messages of each channel: the GPU answers the framebuffer with its buffer or 0.
Letters == [channel : {MAILBOX_CHANNEL_POWER_MGMT}, data : SUBSET Features]
             \cup [channel : {FRAMEBUFFER_CHANNEL}, data : {{}, Buffer}]

MailInv ==
  /\ to_gpu \in Seq(Letters) /\ from_gpu \in Seq(Letters)
  /\ power \in SUBSET Features /\ bcm2835_power_mask \in SUBSET Features
  /\ newmask \in SUBSET Features
  /\ mail \in {"boot", "framebuffer", "power", "none"}
  /\ faults \in Nat

LEMMA LettersAre ==
  /\ \A d \in SUBSET Features : [channel |-> MAILBOX_CHANNEL_POWER_MGMT, data |-> d] \in Letters
  /\ \A d \in {{}, Buffer} : [channel |-> FRAMEBUFFER_CHANNEL, data |-> d] \in Letters
BY DEF Letters

LEMMA LetterIs ==
  ASSUME NEW m \in Letters
  PROVE  /\ m \in Messages
         /\ m.channel \in {MAILBOX_CHANNEL_POWER_MGMT, FRAMEBUFFER_CHANNEL}
         /\ m.channel = MAILBOX_CHANNEL_POWER_MGMT => m.data \in SUBSET Features
         /\ m.channel # MAILBOX_CHANNEL_POWER_MGMT => m.data \in {{}, Buffer}
BY DEF Letters, Messages, FRAMEBUFFER_CHANNEL, MAILBOX_CHANNEL_POWER_MGMT

LEMMA LetterSeqs == Seq(Letters) \subseteq Seq(Messages)
<1>1. Letters \subseteq Messages
  BY LetterIs
<1> QED
  BY <1>1

\* With one message on its way no mailbox is overrun.
LEMMA MailTypes ==
  ASSUME MailInv, InFlight
  PROVE  MailTypeOK
<1>1. \A m : Len(<<m>>) = 1 /\ Head(<<m>>) = m /\ <<m>> # <<>>
  OBVIOUS
<1>2. Len(<<>>) = 0
  OBVIOUS
<1>3. (to_gpu = <<>> \/ \E m : to_gpu = <<m>>) /\ (from_gpu = <<>> \/ \E m : from_gpu = <<m>>)
  BY DEF InFlight
<1>4. Len(to_gpu) <= BoxSize /\ Len(from_gpu) <= BoxSize
  <2>1. Len(to_gpu) \in {0, 1} /\ Len(from_gpu) \in {0, 1}
    BY <1>1, <1>2, <1>3
  <2>2. \A k \in {0, 1}, b \in Nat \ {0} : k <= b
    OBVIOUS
  <2> QED
    BY <2>1, <2>2, BoxAssumption
<1>5. mail = "power" /\ from_gpu # <<>> => Head(from_gpu).channel = MAILBOX_CHANNEL_POWER_MGMT
  BY <1>1 DEF InFlight, PowerMessage
<1> QED
  BY <1>4, <1>5, LetterSeqs DEF MailInv, MailTypeOK

LEMMA Appended ==
  ASSUME NEW S, NEW s \in Seq(S), NEW m \in S
  PROVE  Append(s, m) \in Seq(S)
OBVIOUS

LEMMA Dropped ==
  ASSUME NEW S, NEW s \in Seq(S), NEW i \in DOMAIN s
  PROVE  SubSeq(s, i + 1, Len(s)) \in Seq(S)
<1>1. i \in 1 .. Len(s) /\ Len(s) \in Nat
  OBVIOUS
<1> QED
  BY <1>1

LEMMA Rest ==
  ASSUME NEW S, NEW s \in Seq(S), s # <<>>
  PROVE  Tail(s) \in Seq(S) /\ Head(s) \in S
OBVIOUS

LEMMA SendTypes ==
  ASSUME MailInv, NEW d \in SUBSET Features, mailbox_send(MAILBOX_CHANNEL_POWER_MGMT, d)
  PROVE  to_gpu' \in Seq(Letters)
<1>1. [channel |-> MAILBOX_CHANNEL_POWER_MGMT, data |-> d] \in Letters
  BY LettersAre
<1> QED
  BY <1>1, Appended DEF mailbox_send, MailInv

LEMMA ReadTypes ==
  ASSUME MailInv, bcm2835_mailbox_read(MAILBOX_CHANNEL_POWER_MGMT)
  PROVE  from_gpu' \in Seq(Letters) /\ Head(from_gpu).data \in SUBSET Features
<1>1. from_gpu \in Seq(Letters) /\ from_gpu # <<>> /\ from_gpu' = Tail(from_gpu)
      /\ Head(from_gpu).channel = MAILBOX_CHANNEL_POWER_MGMT
  BY DEF MailInv, bcm2835_mailbox_read
<1> QED
  BY <1>1, Rest, LetterIs

LEMMA MailStepTypes ==
  ASSUME MailInv, MailStep
  PROVE  MailInv'
<1>1. CASE framebuffer_init
  <2>1. [channel |-> FRAMEBUFFER_CHANNEL, data |-> Buffer] \in Letters
    BY LettersAre
  <2>2. to_gpu' \in Seq(Letters)
    BY <1>1, <2>1, Appended DEF framebuffer_init, mailbox_send, MailInv
  <2> QED
    BY <1>1, <2>2 DEF framebuffer_init, MailInv
<1>2. CASE FramebufferReply
  BY <1>2, Dropped DEF FramebufferReply, mailbox_read, MailInv
<1>3. CASE PowerReply
  <2>1. from_gpu' \in Seq(Letters) /\ bcm2835_power_mask' \in SUBSET Features
    BY <1>3, ReadTypes DEF PowerReply
  <2>2. CASE UNCHANGED to_gpu /\ mail' = "none"
    BY <1>3, <2>1, <2>2 DEF PowerReply, MailInv
  <2>3. CASE mailbox_send(MAILBOX_CHANNEL_POWER_MGMT, newmask) /\ UNCHANGED mail
    <3>1. to_gpu' \in Seq(Letters)
      BY <2>3, SendTypes DEF MailInv
    <3> QED
      BY <1>3, <2>1, <2>3, <3>1 DEF PowerReply, MailInv
  <2> QED
    BY <1>3, <2>2, <2>3 DEF PowerReply
<1> QED
  BY <1>1, <1>2, <1>3 DEF MailStep

LEMMA SetPowerTypes ==
  ASSUME MailInv, usb_init \/ PowerOn \/ PowerOff
  PROVE  MailInv'
<1>1. PICK f \in Features, on \in BOOLEAN : bcm2835_setpower(f, on)
  BY DEF usb_init, PowerOn, PowerOff, Features
<1>2. /\ bcm2835_power_mask \cup {f} \in SUBSET Features
      /\ bcm2835_power_mask \ {f} \in SUBSET Features
  BY DEF MailInv
<1>3. CASE UNCHANGED <<to_gpu, newmask, mail>>
  BY <1>1, <1>3 DEF bcm2835_setpower, MailInv
<1>4. CASE /\ newmask' \in SUBSET Features
           /\ mailbox_send(MAILBOX_CHANNEL_POWER_MGMT, newmask')
           /\ mail' = "power"
  BY <1>1, <1>4, SendTypes DEF bcm2835_setpower, MailInv
<1> QED
  BY <1>1, <1>2, <1>3, <1>4 DEF bcm2835_setpower

LEMMA GpuTypes ==
  ASSUME MailInv, Gpu
  PROVE  MailInv'
<1>1. to_gpu' \in Seq(Letters) /\ Head(to_gpu) \in Letters
  BY Rest DEF Gpu, MailInv
<1>2. faults' \in Nat
  BY DEF Gpu, MailInv
<1>3. PICK m : from_gpu' = Append(from_gpu, m) /\ m \in Letters /\ power' \in SUBSET Features
  <2>1. CASE Head(to_gpu).channel = MAILBOX_CHANNEL_POWER_MGMT
    <3>1. Head(to_gpu).data \in SUBSET Features
      BY <1>1, <2>1, LetterIs
    <3>2. power' \in SUBSET Features
      BY <2>1, <3>1 DEF Gpu, MailInv
    <3>3. from_gpu' = Append(from_gpu, [channel |-> MAILBOX_CHANNEL_POWER_MGMT, data |-> power'])
      BY <2>1 DEF Gpu
    <3> QED
      BY <3>2, <3>3, LettersAre
  <2>2. CASE Head(to_gpu).channel # MAILBOX_CHANNEL_POWER_MGMT
    <3>1. Head(to_gpu).channel = FRAMEBUFFER_CHANNEL /\ Head(to_gpu).data \in {{}, Buffer}
      BY <1>1, <2>2, LetterIs
    <3>2. PICK d \in {Head(to_gpu).data, {}} :
            from_gpu' = Append(from_gpu, [channel |-> Head(to_gpu).channel, data |-> d])
      BY <2>2 DEF Gpu
    <3>3. UNCHANGED power
      BY <2>2 DEF Gpu
    <3> QED
      BY <3>1, <3>2, <3>3, LettersAre DEF MailInv
  <2> QED
    BY <2>1, <2>2
<1>4. from_gpu' \in Seq(Letters)
  BY <1>3, Appended DEF MailInv
<1> QED
  BY <1>1, <1>2, <1>3, <1>4 DEF Gpu, MailInv

\* Types are inductive, with the letters of each channel and the one on its way.
AllTypes == TypeInv /\ MailInv /\ InFlight /\ PowerInv

LEMMA TypesStep ==
  ASSUME AllTypes, MailInv', InFlight', PowerInv', CardTypes, CallTypes, UNCHANGED <<kind, ctrl, call, base>>
  PROVE  AllTypes'
<1>1. MailTypeOK'
  BY MailTypes, PTL
<1> QED
  BY <1>1 DEF AllTypes, TypeInv, TypeOK, HostTypeOK, CardTypes, CallTypes, CardType, DeviceType

LEMMA TypesNext ==
  ASSUME AllTypes, [Next]_vars
  PROVE  AllTypes'
<1> USE DEF AllTypes
<1>m. ASSUME UNCHANGED mailVars, faults' \in Nat
      PROVE  MailInv'
  BY <1>m DEF MailInv, mailVars
<1>f. faults' \in Nat
  BY FaultsFall, Unfolded
<1>p. InFlight' /\ PowerInv'
  BY PowerNext, Unfolded
<1>1. CASE MailStep /\ UNCHANGED <<hostVars, at, caller, call, base, drvVars>>
  <2>1. MailInv'
    BY <1>1, MailStepTypes
  <2>2. CardTypes /\ CallTypes
    BY <1>1, Unfolded DEF CardTypes, CallTypes, hostVars, drvVars
  <2> QED
    BY <1>1, <2>1, <2>2, <1>p, TypesStep DEF hostVars
<1>2. CASE usb_init
  <2>1. MailInv'
    BY <1>2, SetPowerTypes
  <2>2. /\ CardTypes /\ CallTypes
        /\ UNCHANGED <<kind, ctrl, call, base>>
    <3>1. UNCHANGED <<hostVars, caller, call, base, drvVars>> /\ at' = "return"
      BY <1>2 DEF usb_init
    <3> QED
      BY <3>1, Unfolded DEF CardTypes, CallTypes, hostVars, drvVars
  <2> QED
    BY <2>1, <2>2, <1>p, TypesStep
<1>3. CASE GpuStep
  <2>1. MailInv'
    BY <1>3, GpuTypes DEF GpuStep
  <2>2. card' \in CardType
    BY <1>3, Unfolded, FreshIs DEF GpuStep
  <2>3. UNCHANGED <<kind, late, host_wide, device, app, ctrl, at, caller, call, base, drvVars>>
    BY <1>3 DEF GpuStep
  <2>4. CardTypes /\ CallTypes
    BY <2>2, <2>3, Unfolded DEF CardTypes, CallTypes, drvVars
  <2> QED
    BY <2>1, <2>3, <2>4, <1>p, TypesStep
<1>4. CASE sd_card_init \/ \E w \in BOOLEAN, size \in Sizes : sd_read_write(w, size)
  <2>1. /\ at' \in {"power", "status"} /\ caller' \in {"user", "rca"}
        /\ call' \in [write : BOOLEAN, size : Sizes \cup {0}]
        /\ tries' = 0 /\ result' = "none" /\ moved' = Nothing
        /\ UNCHANGED <<mailVars, faults, hostVars, base, divisor, cut_short>>
    <3>1. CASE sd_card_init
      <4>1. NoCall \in [write : BOOLEAN, size : Sizes \cup {0}]
        BY DEF NoCall
      <4> QED
        BY <3>1, <4>1 DEF sd_card_init, Begin
    <3>2. ASSUME NEW w \in BOOLEAN, NEW size \in Sizes, sd_read_write(w, size)
          PROVE  /\ at' \in {"power", "status"} /\ caller' \in {"user", "rca"}
                 /\ call' \in [write : BOOLEAN, size : Sizes \cup {0}]
                 /\ tries' = 0 /\ result' = "none" /\ moved' = Nothing
                 /\ UNCHANGED <<mailVars, faults, hostVars, base, divisor, cut_short>>
      BY <3>2 DEF sd_read_write, Begin
    <3>3. \A w \in BOOLEAN, size \in Sizes :
            [write |-> w, size |-> size] \in [write : BOOLEAN, size : Sizes \cup {0}]
      OBVIOUS
    <3> QED
      BY <1>4, <3>1, <3>2, <3>3, Zenon
  <2>2. CardTypes /\ CallTypes
    BY <2>1, Unfolded DEF CardTypes, CallTypes, hostVars, Nothing, Steps
  <2>3. MailInv'
    BY <1>m, <1>f, <2>1
  <2>4. MailTypeOK'
    BY <2>3, <1>p, MailTypes, PTL
  <2> QED
    BY <1>p, <2>1, <2>2, <2>3, <2>4
       DEF TypeInv, TypeOK, HostTypeOK, CardTypes, CallTypes, CardType, DeviceType, hostVars
<1>5. CASE \/ InitStep \/ SendStatus \/ Select \/ StopTransmission \/ SendStatusAgain
           \/ CountBlocks \/ TryData
  <2>1. CardTypes /\ CallTypes
    BY <1>5, InitStepTypes, DataModeTypes, DataStepTypes
  <2>2. CASE PowerOn \/ PowerOff
    <3>1. MailInv' /\ UNCHANGED <<kind, ctrl, call, base>>
      BY <2>2, SetPowerTypes DEF PowerOn, PowerOff, hostVars
    <3> QED
      BY <2>1, <3>1, <1>p, TypesStep
  <2>3. CASE Passes \/ CountBlocks \/ TryData \/ ResetController
    <3>1. UNCHANGED mailVars /\ UNCHANGED <<kind, ctrl, call, base>>
      BY <2>3, Unfolded, DataSteps DEF Passes, InCall, ResetController, Same
    <3> QED
      BY <1>m, <1>f, <2>1, <3>1, <1>p, TypesStep
  <2> QED
    BY <1>5, <2>2, <2>3, StepCases, Unfolded DEF DriverStep
<1>6. CASE ChangeCard
  <2>1. card' \in CardType /\ kind' \in Kinds
    BY <1>6, FreshIs DEF ChangeCard
  <2>2. UNCHANGED <<mailVars, late, host_wide, device, app, ctrl, at, caller, call, base, drvVars>>
    BY <1>6 DEF ChangeCard
  <2>3. CardTypes /\ CallTypes
    BY <2>1, <2>2, Unfolded DEF CardTypes, CallTypes, drvVars
  <2>4. MailInv'
    BY <1>m, <1>f, <2>2
  <2>5. MailTypeOK'
    BY <2>4, <1>p, MailTypes, PTL
  <2> QED
    BY <1>p, <2>1, <2>2, <2>3, <2>4, <2>5
       DEF TypeInv, TypeOK, HostTypeOK, CardTypes, CallTypes, CardType, DeviceType
<1>7. CASE UNCHANGED vars
  <2>1. MailInv'
    BY <1>m, <1>f, <1>7 DEF vars
  <2>2. CardTypes /\ CallTypes
    BY <1>7, Unfolded DEF CardTypes, CallTypes, drvVars, hostVars, vars
  <2> QED
    BY <1>7, <2>1, <2>2, <1>p, TypesStep DEF vars, hostVars
<1> QED
  BY <1>1, <1>2, <1>3, <1>4, <1>5, <1>6, <1>7, Zenon DEF Next, Mail, DriverStep

LEMMA InitTypes ==
  ASSUME Init
  PROVE  AllTypes
<1>1. MailInv
  BY CallsAssumption DEF Init, MailInit, MailInv
<1>p. InFlight /\ PowerInv
  BY DEF Init, MailInit, InFlight, PowerInv, Steps
<1>2. MailTypeOK
  BY <1>1, <1>p, MailTypes
<1>3. HostTypeOK
  BY FreshIs DEF Init, HostTypeOK, CardType, NoRca
<1>4. TypeOK /\ at # "try"
  <2>1. NoCall \in [write : BOOLEAN, size : Sizes \cup {0}]
    BY DEF NoCall
  <2>2. Nothing \in [blocks : Nat, unit_fits : BOOLEAN, len_fits : BOOLEAN]
    BY DEF Nothing
  <2>3. /\ at = "boot" /\ caller = "user" /\ call = NoCall /\ tries = 0 /\ result = "none"
        /\ base \in BaseClocks /\ divisor = 1 /\ moved = Nothing /\ cut_short = FALSE
    BY DEF Init
  <2>4. /\ at \in Steps \cup {"boot", "return", "power", "power_off", "reset"} /\ at # "try"
        /\ caller \in {"user", "rca", "state"} /\ tries \in 0 .. 3 /\ divisor \in 1 .. 2 * 1023
        /\ result \in {"none", "done", "failed", "initialised"} /\ cut_short \in BOOLEAN
    <3>1. at \in Steps \cup {"boot", "return", "power", "power_off", "reset"}
      BY <2>3, Zenon
    <3>2. divisor \in 1 .. 2 * 1023 /\ tries \in 0 .. 3
      BY <2>3
    <3>3. at # "try" /\ caller \in {"user", "rca", "state"}
      BY <2>3
    <3>4. result \in {"none", "done", "failed", "initialised"} /\ cut_short \in BOOLEAN
      BY <2>3
    <3> QED
      BY <3>1, <3>2, <3>3, <3>4
  <2>5. /\ call \in [write : BOOLEAN, size : Sizes \cup {0}] /\ base \in BaseClocks
        /\ moved \in [blocks : Nat, unit_fits : BOOLEAN, len_fits : BOOLEAN]
    BY <2>1, <2>2, <2>3, Zenon
  <2> QED
    BY <1>2, <1>3, <2>4, <2>5, Zenon DEF TypeOK
<1> QED
  BY <1>1, <1>p, <1>4 DEF AllTypes, TypeInv

\* Every variable keeps its type, whatever commands come to what and whenever the
\* card is changed; the divisor fits its register (sd_card.c:205-254).
THEOREM CardTypeOK == Spec => []TypeOK
<1>1. Init => AllTypes
  BY InitTypes
<1>2. AllTypes /\ [Next]_vars => AllTypes'
  BY TypesNext
<1>3. AllTypes => TypeOK
  BY DEF AllTypes, TypeInv
<1> QED
  BY <1>1, <1>2, <1>3, PTL DEF Spec

-----------------------------------------------------------------------------
(* The clock.                                                              *)

Slow == {"GO_IDLE_STATE", "SEND_IF_COND", "IO_SET_OP_COND", "INQUIRY", "SD_SEND_OP_COND"}

\* The steps of the identification come one after the other with the slow clock; the
\* others, and an address that is kept, come with it or with the fast one.
Exact == BaseClock % ClockId = 0 /\ BaseClock % ClockNormal = 0
SlowServed == BaseClock <= ClockId * divisor
FastServed == BaseClock <= ClockNormal * divisor

ClockInv ==
  Exact =>
    /\ at \in Slow => SlowServed
    /\ at \in Steps \/ (at # "boot" /\ device.rca # NoRca) \/ (at = "return" /\ result = "done") =>
         FastServed

\* The divisor stays, and the slow steps go on; or the fast clock ends them.
KeepsClock == UNCHANGED divisor /\ (at' \in Slow => at \in Slow)
FastClock  == divisor' = sd_get_clock_divider(ClockNormal) /\ at' \notin Slow

LEMMA DivisorSteps ==
  ASSUME DriverStep
  PROVE  KeepsClock \/ FastClock \/ PowerOn \/ PowerOff \/ ResetController
<1> USE DEF Goto, GotoWith, Here, InitFails, ForgetsCard, Return, KeepsClock, Slow, drvVars
<1>1. CASE Announce
  BY <1>1 DEF Announce
<1>2. CASE GoIdle \/ SendIfCond \/ IoSetOpCond \/ Inquiry
  BY <1>2 DEF GoIdle, SendIfCond, IoSetOpCond, Inquiry
<1>3. CASE SendOpCond
  <2>1. \/ InitFails \/ (Goto(at) /\ at = "SD_SEND_OP_COND") \/ \E sdhc, s18 : Identified(sdhc, s18)
    BY <1>3, Zenon DEF SendOpCond
  <2>2. ASSUME NEW sdhc, NEW s18, Identified(sdhc, s18)
        PROVE  FastClock
    BY <2>2 DEF Identified, FastClock
  <2> QED
    BY <2>1, <2>2
<1>4. CASE VoltageSwitch \/ CheckSignals \/ AllSendCid \/ SetBlocklen \/ SendScr
  BY <1>4 DEF VoltageSwitch, SwitchFails, CheckSignals, AllSendCid, SetBlocklen, GotoScr, SendScr
<1>5. CASE SendRelativeAddr
  <2>1. UNCHANGED divisor /\ at' \in {"return", "SELECT_CARD"}
    BY <1>5 DEF SendRelativeAddr
  <2> QED
    BY <2>1
<1>6. CASE SelectCard \/ SetBusWidth \/ InitSucceeds
  BY <1>6 DEF SelectCard, GotoScr, SetBusWidth, InitSucceeds
<1>7. CASE SendStatus \/ Select \/ StopTransmission \/ SendStatusAgain
  BY <1>7 DEF SendStatus, Select, StopTransmission, SendStatusAgain
<1>8. CASE CountBlocks \/ TryData
  BY <1>8 DEF CountBlocks, TryData, Tried
<1> QED
  BY <1>1, <1>2, <1>3, <1>4, <1>5, <1>6, <1>7, <1>8, Zenon DEF DriverStep, InitStep

LEMMA SlowIsFast ==
  ASSUME base \in BaseClocks, divisor \in 1 .. 2 * 1023, SlowServed
  PROVE  FastServed
<1>1. BaseClock \in 10 .. 2550
  BY BaseIs
<1>2. BaseClock <= 4 * divisor
  BY DEF SlowServed, ClockId
<1>3. BaseClock <= 250 * divisor
  BY <1>1, <1>2
<1> QED
  BY <1>3 DEF FastServed, ClockNormal

LEMMA SetDivisor ==
  ASSUME base \in BaseClocks, base' = base, Exact, divisor' \in 1 .. 2 * 1023
  PROVE  /\ divisor' = sd_get_clock_divider(ClockId) => SlowServed' /\ FastServed'
         /\ divisor' = sd_get_clock_divider(ClockNormal) => FastServed'
<1>1. BaseClock' = BaseClock
  BY DEF BaseClock
<1>2. /\ BaseClock <= ClockId * sd_get_clock_divider(ClockId)
      /\ BaseClock <= ClockNormal * sd_get_clock_divider(ClockNormal)
  BY DividerCovers DEF Exact
<1>3. divisor' = sd_get_clock_divider(ClockId) => SlowServed'
  BY <1>1, <1>2 DEF SlowServed
<1>4. divisor' = sd_get_clock_divider(ClockNormal) => FastServed'
  BY <1>1, <1>2 DEF FastServed
<1>5. SlowServed' => FastServed'
  <2>1. BaseClock \in 10 .. 2550
    BY BaseIs
  <2>2. \A d \in 1 .. 2 * 1023 : BaseClock <= 4 * d => BaseClock <= 250 * d
    BY <2>1
  <2>3. BaseClock <= 4 * divisor' => BaseClock <= 250 * divisor'
    BY <2>2
  <2> QED
    BY <1>1, <2>3 DEF SlowServed, FastServed, ClockId, ClockNormal
<1> QED
  BY <1>3, <1>4, <1>5

LEMMA KeepDivisor ==
  ASSUME UNCHANGED <<base, divisor>>
  PROVE  (Exact' <=> Exact) /\ (SlowServed' <=> SlowServed) /\ (FastServed' <=> FastServed)
<1>1. BaseClock' = BaseClock
  BY DEF BaseClock
<1> QED
  BY <1>1 DEF Exact, SlowServed, FastServed

LEMMA ClockNext ==
  ASSUME AllTypes, AllTypes', PowerInv, CallInv, ClockInv, [Next]_vars
  PROVE  ClockInv'
<1>0. /\ base \in BaseClocks /\ faults \in Nat
      /\ divisor \in 1 .. 2 * 1023 /\ divisor' \in 1 .. 2 * 1023
  BY DEF AllTypes, MailInv, TypeInv, TypeOK
<1>b. base' = base => (Exact' <=> Exact)
  BY DEF Exact, BaseClock
<1> USE DEF ClockInv
<1>1. CASE MailStep /\ UNCHANGED <<hostVars, at, caller, call, base, drvVars>>
  <2>1. UNCHANGED <<base, divisor, at, device, result>>
    BY <1>1 DEF hostVars, drvVars
  <2> QED
    BY <2>1, KeepDivisor
<1>2. CASE usb_init \/ PowerOn \/ PowerOff
  <2>1. UNCHANGED <<base, divisor, device, result>> /\ at' \in {"return", "reset", "power"}
    BY <1>2 DEF usb_init, PowerOn, PowerOff, hostVars, drvVars
  <2>2. \/ at = "boot" /\ device.rca = NoRca /\ result # "done"
        \/ at' \in {"reset", "power"} /\ at \in {"power", "power_off"}
    BY <1>2 DEF usb_init, PowerOn, PowerOff, PowerInv, CallInv
  <2>3. at' \notin Steps /\ at' \notin Slow
    BY <2>1 DEF Steps, Slow
  <2> QED
    BY <2>1, <2>2, <2>3, KeepDivisor
<1>3. CASE GpuStep \/ ChangeCard \/ UNCHANGED vars
  <2>1. UNCHANGED <<base, divisor, at, device, result>>
    BY <1>3 DEF GpuStep, ChangeCard, vars, hostVars, drvVars
  <2> QED
    BY <2>1, KeepDivisor
<1>4. CASE sd_card_init \/ \E w \in BOOLEAN, size \in Sizes : sd_read_write(w, size)
  <2>1. /\ UNCHANGED <<base, divisor, device>> /\ result' = "none" /\ at = "return"
        /\ at' = "power" \/ (at' = "status" /\ device.rca # NoRca)
    BY <1>4 DEF sd_card_init, sd_read_write, Begin, hostVars
  <2>2. at' \notin Slow /\ (at' = "power" => at' \notin Steps)
    BY <2>1 DEF Steps, Slow
  <2> QED
    BY <2>1, <2>2, KeepDivisor
<1>5. CASE DriverStep /\ (Passes \/ CountBlocks \/ TryData)
  <2>1. InCall
    BY <1>0, <1>5, DataSteps DEF Passes
  <2>2. base' = base /\ at \in Steps
    BY <2>1 DEF InCall
  <2>3. at \notin {"power", "power_off", "reset"}
    BY <2>2 DEF Steps
  <2>4. CASE KeepsClock
    BY <2>2, <2>4, KeepDivisor DEF KeepsClock
  <2>5. CASE FastClock
    BY <1>0, <1>b, <2>2, <2>5, SetDivisor DEF FastClock
  <2> QED
    BY <1>5, <2>3, <2>4, <2>5, DivisorSteps DEF PowerOn, PowerOff, ResetController
<1>6. CASE ResetController
  <2>1. base' = base
    BY <1>6 DEF ResetController, Same
  <2>2. CASE InitFails
    <3>1. UNCHANGED <<divisor, device>> /\ at' = "return" /\ result' = "failed" /\ at = "reset"
      BY <1>6, <2>2 DEF InitFails, Return, ResetController
    <3>2. at' \notin Slow /\ at' \notin Steps
      BY <3>1 DEF Slow, Steps
    <3> QED
      BY <2>1, <3>1, <3>2, KeepDivisor
  <2>3. CASE divisor' = sd_get_clock_divider(ClockId)
    BY <1>0, <1>b, <2>1, <2>3, SetDivisor
  <2> QED
    BY <1>6, <2>2, <2>3 DEF ResetController
<1> QED
  BY <1>0, <1>1, <1>2, <1>3, <1>4, <1>5, <1>6, StepCases, Zenon DEF Next, Mail

\* Of a base clock that the two clocks divide the card gets at most 400 kHz until it is
\* identified, and at most 25 MHz when data has moved, whatever has failed or was kept
\* from an initialisation before (sd_card.c:205-254, 752, 909).
THEOREM ClockServed == Spec => []ClockInRange
<1> DEFINE IInv == AllTypes /\ InFlight /\ PowerInv /\ CallInv /\ ClockInv
<1>1. Init => IInv
  <2> SUFFICES ASSUME Init PROVE IInv
    OBVIOUS
  <2>1. AllTypes
    BY InitTypes
  <2>2. InFlight /\ PowerInv /\ CallInv
    BY CallsAssumption
    DEF Init, MailInit, InFlight, PowerInv, Steps, CallInv, MovesItsBlocks, NoCall
  <2>3. ClockInv
    BY DEF Init, ClockInv, Slow, Steps
  <2> QED
    BY <2>1, <2>2, <2>3
<1>2. IInv /\ [Next]_vars => IInv'
  <2> SUFFICES ASSUME IInv, [Next]_vars PROVE IInv'
    OBVIOUS
  <2>1. AllTypes'
    BY TypesNext
  <2>2. InFlight' /\ PowerInv' /\ CallInv'
    BY PowerNext, CallNext DEF CallInv
  <2>3. ClockInv'
    BY <2>1, ClockNext
  <2> QED
    BY <2>1, <2>2, <2>3
<1>3. IInv => ClockInRange
  BY DEF ClockInv, ClockInRange, Exact, SlowServed, FastServed, Slow
<1> QED
  BY <1>1, <1>2, <1>3, PTL DEF Spec

-----------------------------------------------------------------------------
(* The flag of a late answer.                                              *)

Used == MaxFaults - faults

Asking      == {"SEND_IF_COND", "IO_SET_OP_COND", "INQUIRY", "SD_SEND_OP_COND"}
Identifying == {"VOLTAGE_SWITCH", "signals", "ALL_SEND_CID"}
Addressing  == {"SEND_RELATIVE_ADDR", "SELECT_CARD", "SET_BLOCKLEN"}

\* A card that is asked and is not idle has not heard GO_IDLE_STATE, which was a fault;
\* the others are left for the flag.
Unheard == at \in Asking /\ card.state # "idle"
Spare   == IF Unheard THEN Used - 1 ELSE Used

\* The flag comes only with a fault, and stays only with one more at each command
\* that succeeds; after few faults it is gone before the voltage is switched.
NoFlag ==
  at \in {"GO_IDLE_STATE", "SEND_IF_COND", "SEND_SCR", "SET_BUS_WIDTH"} \cup Identifying
          \cup Addressing => late # TRUE

Risks ==
  /\ late = TRUE /\ at \in {"IO_SET_OP_COND", "INQUIRY"} => Spare >= 1
  /\ late = TRUE /\ at = "INQUIRY" /\ app = TRUE => Spare >= 2
  /\ late = TRUE /\ at = "SD_SEND_OP_COND" => Spare >= 3
  /\ late = TRUE /\ at = "SD_SEND_OP_COND" /\ app = TRUE => Spare >= 4

LateInv == NoFlag /\ Risks /\ Spare >= 0

\* What a step knows of the result it has seen.
Seen(c, r) ==
  /\ r.success \in BOOLEAN /\ r.fault \in {0, 1}
  /\ faults' = faults - r.fault /\ late' = r.late /\ card' = r.card
  /\ late' = TRUE => \/ r.fault = 1 /\ (r.success = TRUE => late = TRUE)
                     \/ r.success = FALSE /\ late = TRUE
  /\ Moved(c, card') \/ (c \in AppCommands /\ Moved("APP_CMD", card'))
  /\ r.success = TRUE /\ c \in AppCommands => app = TRUE
  /\ r.success = TRUE => \/ r.stale = FALSE /\ Taken(c, card')
                         \/ r.stale = FALSE /\ c = "GO_IDLE_STATE" /\ (~Obeys(c) \/ r.fault = 1)
                         \/ /\ c \notin DataCommands /\ r.stale = TRUE /\ late = TRUE
                            /\ r.fault = 0 => card' = card

LEMMA ResultSeen ==
  ASSUME TypeInv, NEW c, NEW r \in sd_issue_command(c), Issued(r)
  PROVE  Seen(c, r)
<1>0. late \in BOOLEAN /\ card \in CardType /\ app \in BOOLEAN
  BY Unfolded
<1>1. faults' = faults - r.fault /\ late' = r.late /\ card' = r.card
  BY DEF Issued
<1>2. CASE Effect(c, r)
  <2>1. r.success = TRUE /\ c \in AppCommands => app = TRUE
    BY <1>0, Zenon DEF sd_issue_command
  <2> QED
    BY <1>1, <1>2, <2>1 DEF Effect, Seen
<1>3. CASE c \in AppCommands /\ app # TRUE /\ r.success = FALSE /\ Effect("APP_CMD", r)
  BY <1>1, <1>3 DEF Effect, Seen
<1> QED
  BY <1>0, <1>2, <1>3, IssuedEffect

LEMMA AnnounceSeen ==
  ASSUME TypeInv, Announce
  PROVE  \E r : /\ Seen("APP_CMD", r) /\ r.success = TRUE /\ app' = TRUE
                /\ at \in AppCommands /\ Here /\ Same
<1>0. late \in BOOLEAN /\ card \in CardType
  BY Unfolded
<1>1. PICK r \in sd_issue_command_int("APP_CMD") : r.success /\ Issued(r)
  BY DEF Announce
<1>2. Effect("APP_CMD", r)
  BY <1>0, CommandEffect
<1>3. r.success = TRUE
  BY <1>1, <1>2 DEF Effect
<1>4. Seen("APP_CMD", r)
  <2>1. "APP_CMD" \notin AppCommands
    BY DEF AppCommands
  <2> QED
    BY <1>1, <1>2, <2>1 DEF Effect, Seen, Issued
<1>5. app' = TRUE /\ at \in AppCommands /\ Here /\ Same
  BY DEF Announce
<1> QED
  BY <1>3, <1>4, <1>5

\* Steps at which LateInv says nothing.
LateFree == {"boot", "return", "power", "power_off", "reset", "finish",
             "status", "select", "stop", "again", "data", "try"}

LEMMA FreeOfLate ==
  ASSUME at' \in LateFree, Used' >= 0
  PROVE  LateInv'
BY DEF LateFree, LateInv, NoFlag, Risks, Identifying, Addressing, Spare, Unheard, Asking

\* The end of a call, or of the power.
LEMMA EndsFree ==
  /\ InitFails => at' \in LateFree
  /\ ForgetsCard => at' \in LateFree
  /\ SwitchFails => at' \in LateFree
  /\ \A step, d : GotoWith(step, d) => at' = step
  /\ \A step : Goto(step) => at' = step
BY DEF InitFails, ForgetsCard, SwitchFails, Return, Goto, GotoWith, LateFree

\* How the steps of the initialisation that send a command follow one another: where
\* it goes on from, whether the command has to succeed for that, and where.
Onward(ok) ==
  \/ at = "GO_IDLE_STATE" /\ ok /\ at' = "SEND_IF_COND"
  \/ at = "SEND_IF_COND" /\ at' = "IO_SET_OP_COND"
  \/ at = "IO_SET_OP_COND" /\ ~ok /\ at' = "INQUIRY"
  \/ at = "INQUIRY" /\ ok /\ at' = "SD_SEND_OP_COND"
  \/ at = "VOLTAGE_SWITCH" /\ at' = IF ok THEN "signals" ELSE "power_off"
  \/ at = "ALL_SEND_CID" /\ ok /\ at' = "SEND_RELATIVE_ADDR"
  \/ at = "SEND_RELATIVE_ADDR" /\ ok /\ at' = "SELECT_CARD"
  \/ at = "SELECT_CARD" /\ ok /\ at' = IF device.sdhc THEN "SEND_SCR" ELSE "SET_BLOCKLEN"
  \/ at = "SET_BLOCKLEN" /\ ok /\ at' = "SEND_SCR"
  \/ at = "SEND_SCR" /\ ok /\ at' \in {"SET_BUS_WIDTH", "finish"}
  \/ at = "SET_BUS_WIDTH" /\ at' = "finish"

\* A command of the initialisation ends it, leaving no address or having set
\* cut_short; or it goes on.
Turn(ok) ==
  /\ UNCHANGED <<mailVars, kind, moved, caller>> /\ device'.sdhc = device.sdhc
  /\ \/ /\ at' = "return" /\ result' = "failed"
        /\ device'.rca = NoRca \/ cut_short' = TRUE
     \/ Onward(ok) /\ UNCHANGED <<result, cut_short>>

\* The answer of ACMD41 with the bit for busy, the type of the card, or neither.
OpCondTurn(r) ==
  /\ at = "SD_SEND_OP_COND" /\ r.success = TRUE
  /\ UNCHANGED <<mailVars, kind, moved, caller, result, cut_short>>
  /\ \/ /\ at' = at /\ device' = device
        /\ r.stale = FALSE => r.card.state # "ready"
     \/ /\ at' \in {"VOLTAGE_SWITCH", "ALL_SEND_CID"}
        /\ r.stale = FALSE => device'.sdhc = kind.sdhc

Asks == GoIdle \/ SendIfCond \/ IoSetOpCond \/ Inquiry \/ VoltageSwitch \/ AllSendCid
          \/ SendRelativeAddr \/ SelectCard \/ SetBlocklen \/ SendScr \/ SetBusWidth

LEMMA Ends ==
  ASSUME TypeInv, InitFails, Same, NEW ok
  PROVE  Turn(ok)
BY DEF InitFails, Return, Same, Turn

LEMMA GoesOn ==
  ASSUME TypeInv, Same, NEW ok \in BOOLEAN, Onward(ok),
         UNCHANGED <<result, cut_short, moved>>,
         device' = device \/ (\E x : \/ device' = [device EXCEPT !.v2 = x]
                                     \/ device' = [device EXCEPT !.failed = x]
                                     \/ device' = [device EXCEPT !.blocks = x]
                                     \/ device' = [device EXCEPT !.rca = x])
  PROVE  Turn(ok)
<1>1. device'.sdhc = device.sdhc
  <2>1. device \in DeviceType
    BY Unfolded
  <2> QED
    BY <2>1 DEF DeviceType
<1> QED
  BY <1>1 DEF Same, Turn

LEMMA AskTurns ==
  ASSUME TypeInv, Asks
  PROVE  \E r \in sd_issue_command(at) : Answered(r) /\ Turn(r.success)
<1>0. \A c : \A r \in sd_issue_command(c) : r.success \in BOOLEAN
  BY Unfolded, CommandTypes
<1> USE DEF Goto, GotoWith, drvVars
<1>1. CASE GoIdle
  <2>1. PICK r \in sd_issue_command(at) :
          /\ Answered(r)
          /\ \/ InitFails
             \/ /\ Onward(r.success) /\ UNCHANGED <<result, cut_short, moved>>
                /\ device' = device \/ \E x : \/ device' = [device EXCEPT !.v2 = x]
                                             \/ device' = [device EXCEPT !.failed = x]
                                             \/ device' = [device EXCEPT !.blocks = x]
    BY <1>0, <1>1 DEF GoIdle, Onward
  <2> QED
    BY <1>0, <2>1, Ends, GoesOn DEF Answered
<1>2. CASE SendIfCond
  <2>1. PICK r \in sd_issue_command(at) :
          /\ Answered(r)
          /\ \/ InitFails
             \/ /\ Onward(r.success) /\ UNCHANGED <<result, cut_short, moved>>
                /\ device' = device \/ \E x : \/ device' = [device EXCEPT !.v2 = x]
                                             \/ device' = [device EXCEPT !.failed = x]
                                             \/ device' = [device EXCEPT !.blocks = x]
    BY <1>0, <1>2 DEF SendIfCond, Onward
  <2> QED
    BY <1>0, <2>1, Ends, GoesOn DEF Answered
<1>3. CASE IoSetOpCond
  <2>1. PICK r \in sd_issue_command(at) :
          /\ Answered(r)
          /\ \/ InitFails
             \/ /\ Onward(r.success) /\ UNCHANGED <<result, cut_short, moved>>
                /\ device' = device \/ \E x : \/ device' = [device EXCEPT !.v2 = x]
                                             \/ device' = [device EXCEPT !.failed = x]
                                             \/ device' = [device EXCEPT !.blocks = x]
    BY <1>0, <1>3 DEF IoSetOpCond, NotTaken, TIMEOUT, CMD_TIMEOUT, Onward
  <2> QED
    BY <1>0, <2>1, Ends, GoesOn DEF Answered
<1>4. CASE Inquiry
  <2>1. PICK r \in sd_issue_command(at) :
          /\ Answered(r)
          /\ \/ InitFails
             \/ /\ Onward(r.success) /\ UNCHANGED <<result, cut_short, moved>>
                /\ device' = device \/ \E x : \/ device' = [device EXCEPT !.v2 = x]
                                             \/ device' = [device EXCEPT !.failed = x]
                                             \/ device' = [device EXCEPT !.blocks = x]
    BY <1>0, <1>4 DEF Inquiry, Onward
  <2> QED
    BY <1>0, <2>1, Ends, GoesOn DEF Answered
<1>5. CASE VoltageSwitch
  <2>1. PICK r \in sd_issue_command(at) :
          /\ Answered(r)
          /\ \/ InitFails
             \/ /\ Onward(r.success) /\ UNCHANGED <<result, cut_short, moved>>
                /\ device' = device \/ \E x : \/ device' = [device EXCEPT !.v2 = x]
                                             \/ device' = [device EXCEPT !.failed = x]
                                             \/ device' = [device EXCEPT !.blocks = x]
    BY <1>0, <1>5 DEF VoltageSwitch, SwitchFails, Onward
  <2> QED
    BY <1>0, <2>1, Ends, GoesOn DEF Answered
<1>6. CASE AllSendCid
  <2>1. PICK r \in sd_issue_command(at) :
          /\ Answered(r)
          /\ \/ InitFails
             \/ /\ Onward(r.success) /\ UNCHANGED <<result, cut_short, moved>>
                /\ device' = device \/ \E x : \/ device' = [device EXCEPT !.v2 = x]
                                             \/ device' = [device EXCEPT !.failed = x]
                                             \/ device' = [device EXCEPT !.blocks = x]
    BY <1>0, <1>6 DEF AllSendCid, Onward
  <2> QED
    BY <1>0, <2>1, Ends, GoesOn DEF Answered
<1>7. CASE SelectCard
  <2>1. PICK r \in sd_issue_command(at) :
          /\ Answered(r)
          /\ \/ InitFails
             \/ /\ Onward(r.success) /\ UNCHANGED <<result, cut_short, moved>>
                /\ device' = device \/ \E x : \/ device' = [device EXCEPT !.v2 = x]
                                             \/ device' = [device EXCEPT !.failed = x]
                                             \/ device' = [device EXCEPT !.blocks = x]
    BY <1>0, <1>7 DEF SelectCard, GotoScr, Onward
  <2> QED
    BY <1>0, <2>1, Ends, GoesOn DEF Answered
<1>8. CASE SetBlocklen
  <2>1. PICK r \in sd_issue_command(at) :
          /\ Answered(r)
          /\ \/ InitFails
             \/ /\ Onward(r.success) /\ UNCHANGED <<result, cut_short, moved>>
                /\ device' = device \/ \E x : \/ device' = [device EXCEPT !.v2 = x]
                                             \/ device' = [device EXCEPT !.failed = x]
                                             \/ device' = [device EXCEPT !.blocks = x]
    BY <1>0, <1>8 DEF SetBlocklen, GotoScr, Onward
  <2> QED
    BY <1>0, <2>1, Ends, GoesOn DEF Answered
<1>9. CASE SendScr
  <2>1. PICK r \in sd_issue_command(at) :
          /\ Answered(r)
          /\ \/ InitFails
             \/ /\ Onward(r.success) /\ UNCHANGED <<result, cut_short, moved>>
                /\ device' = device \/ \E x : \/ device' = [device EXCEPT !.v2 = x]
                                             \/ device' = [device EXCEPT !.failed = x]
                                             \/ device' = [device EXCEPT !.blocks = x]
    BY <1>0, <1>9 DEF SendScr, Onward
  <2> QED
    BY <1>0, <2>1, Ends, GoesOn DEF Answered
<1>10. CASE SetBusWidth
  <2>1. PICK r \in sd_issue_command(at) :
          /\ Answered(r)
          /\ \/ InitFails
             \/ /\ Onward(r.success) /\ UNCHANGED <<result, cut_short, moved>>
                /\ device' = device \/ \E x : \/ device' = [device EXCEPT !.v2 = x]
                                             \/ device' = [device EXCEPT !.failed = x]
                                             \/ device' = [device EXCEPT !.blocks = x]
    BY <1>0, <1>10 DEF SetBusWidth, Onward
  <2> QED
    BY <1>0, <2>1, Ends, GoesOn DEF Answered
<1>11. CASE SendRelativeAddr
  <2>1. PICK r \in sd_issue_command(at) :
          /\ Answered(r) /\ at = "SEND_RELATIVE_ADDR"
          /\ \/ InitFails
             \/ /\ r.success /\ \E rca : device' = [device EXCEPT !.rca = rca]
                /\ UNCHANGED moved
                /\ \/ at' = "SELECT_CARD" /\ UNCHANGED <<result, cut_short>>
                   \/ Return("failed") /\ cut_short' = TRUE
    BY <1>11 DEF SendRelativeAddr
  <2>2. CASE InitFails
    BY <2>1, <2>2, Ends DEF Answered
  <2>3. CASE r.success /\ at' = "SELECT_CARD" /\ UNCHANGED <<result, cut_short, moved>>
             /\ \E rca : device' = [device EXCEPT !.rca = rca]
    BY <1>0, <2>1, <2>3, GoesOn DEF Answered, Onward
  <2>4. CASE /\ Return("failed") /\ cut_short' = TRUE /\ UNCHANGED moved
             /\ \E rca : device' = [device EXCEPT !.rca = rca]
    <3>1. device'.sdhc = device.sdhc
      BY <2>4, Unfolded DEF DeviceType
    <3> QED
      BY <2>1, <2>4, <3>1 DEF Turn, Answered, Same, Return
  <2> QED
    BY <2>1, <2>2, <2>3, <2>4
<1> QED
  BY <1>1, <1>2, <1>3, <1>4, <1>5, <1>6, <1>7, <1>8, <1>9, <1>10, <1>11 DEF Asks

LEMMA OpCondTurns ==
  ASSUME TypeInv, SendOpCond
  PROVE  \E r \in sd_issue_command(at) :
           /\ Answered(r)
           /\ Turn(r.success) \/ OpCondTurn(r)
<1>0. \A c : \A r \in sd_issue_command(c) : r.success \in BOOLEAN
  BY Unfolded, CommandTypes
<1>1. PICK r \in sd_issue_command(at) :
        /\ Answered(r)
        /\ \/ InitFails
           \/ /\ r.success = TRUE
              /\ \E ready \in Says(r, r.card.state = "ready", BOOLEAN) :
                   \/ /\ ready
                      /\ \E sdhc \in Says(r, kind.sdhc, BOOLEAN) : \E s18 : Identified(sdhc, s18)
                   \/ ~ready /\ Here
  BY <1>0, Zenon DEF SendOpCond
<1>2. CASE InitFails
  BY <1>1, <1>2, Ends DEF Answered
<1>3. ASSUME r.success = TRUE, Here, r.stale = FALSE => r.card.state # "ready"
      PROVE  OpCondTurn(r)
  BY <1>1, <1>3 DEF SendOpCond, OpCondTurn, Here, Goto, GotoWith, drvVars, Answered, Same
<1>4. ASSUME r.success = TRUE, NEW sdhc, NEW s18, Identified(sdhc, s18),
             r.stale = FALSE => sdhc = kind.sdhc
      PROVE  OpCondTurn(r)
  <2>1. device'.sdhc = sdhc
    BY <1>4, Unfolded DEF Identified, DeviceType
  <2> QED
    BY <1>1, <1>4, <2>1 DEF SendOpCond, OpCondTurn, Identified, Answered, Same
<1> QED
  BY <1>1, <1>2, <1>3, <1>4, Zenon DEF Says

LEMMA UsedRises ==
  ASSUME TypeInv
  PROVE  /\ Used \in Int /\ (FewFaults <=> Used < 5) /\ (FewFaults' <=> Used' < 5)
         /\ faults' = faults => Used' = Used /\ Used' \in Int
         /\ faults' = faults - 1 => Used' = Used + 1 /\ Used' \in Int
<1>0. faults \in Nat /\ MaxFaults \in Nat
  BY Unfolded, CallsAssumption
<1>1. Used' = MaxFaults - faults'
  BY DEF Used
<1>2. FewFaults' <=> MaxFaults - faults' < 5
  BY DEF FewFaults
<1>3. faults' = faults - 1 => MaxFaults - faults' = (MaxFaults - faults) + 1
  BY <1>0
<1> QED
  BY <1>0, <1>1, <1>2, <1>3 DEF Used, FewFaults

\* A card behind the identification stays so; any other stays as it is.
Shifts ==
  /\ card.len512 = TRUE => card'.len512 = TRUE
  /\ card'.state = card.state \/ (card.state \in Addressed /\ card'.state \in Addressed)

LEMMA SeenShifts ==
  ASSUME NEW c, NEW r, Seen(c, r),
         c \notin {"GO_IDLE_STATE", "SD_SEND_OP_COND", "ALL_SEND_CID"}
  PROVE  Shifts
BY DEF Seen, Moved, Shifts

\* The faults that are left follow those that are used as long as the card stays idle,
\* or stays what it is instead.
LEMMA SpareRises ==
  ASSUME TypeInv, Used >= 0, Used' \in {Used, Used + 1}
  PROVE  /\ Spare \in Int /\ Spare' \in Int /\ Spare <= Used /\ Used' >= 0
         /\ Unheard' => Spare' = Used' - 1
         /\ ~Unheard' => Spare' = Used'
         /\ (Unheard' => Unheard) => Spare' >= Spare
         /\ (Unheard' <=> Unheard) /\ Used' = Used + 1 => Spare' = Spare + 1
<1>1. Used \in Int
  BY UsedRises
<1>2. /\ Unheard => Spare = Used - 1
      /\ ~Unheard => Spare = Used
      /\ Unheard' => Spare' = Used' - 1
      /\ ~Unheard' => Spare' = Used'
  BY Zenon DEF Spare
<1>3. Used' = Used \/ Used' = Used + 1
  OBVIOUS
<1>4. Used' \in Int /\ Used' >= 0 /\ Used' >= Used
  BY <1>1, <1>3
<1>5. Spare \in Int /\ Spare' \in Int /\ Spare <= Used /\ (Unheard => Spare = Used - 1)
  BY <1>1, <1>2, <1>4
<1>6. \A u, v, x \in Int : v >= u /\ x <= u => v >= x
  OBVIOUS
<1>7. (Unheard' => Unheard) => Spare' >= Spare
  <2>1. CASE ~Unheard'
    BY <1>1, <1>2, <1>4, <1>5, <1>6, <2>1
  <2>2. CASE Unheard' /\ Unheard
    <3>1. Spare' = Used' - 1 /\ Spare = Used - 1
      BY <1>2, <2>2
    <3>2. \A u, v \in Int : v >= u => v - 1 >= u - 1
      OBVIOUS
    <3>3. Used' - 1 >= Used - 1
      BY <1>1, <1>4, <3>2
    <3> QED
      BY <3>1, <3>3
  <2> QED
    BY <2>1, <2>2, Zenon
<1>8. (Unheard' <=> Unheard) /\ Used' = Used + 1 => Spare' = Spare + 1
  <2>1. CASE Unheard
    BY <1>1, <1>2, <2>1
  <2>2. CASE ~Unheard
    BY <1>1, <1>2, <2>2
  <2> QED
    BY <2>1, <2>2
<1> QED
  BY <1>2, <1>4, <1>5, <1>7, <1>8

LEMMA StaysIdle ==
  ASSUME Shifts
  PROVE  card'.state = "idle" <=> card.state = "idle"
BY DEF Shifts, Addressed

\* GO_IDLE_STATE makes an idle card of any with power, unless it is not heard.
LEMMA GoneIdle ==
  ASSUME card \in CardType, "POWER_SD" \in power, late # TRUE, NEW r, Seen("GO_IDLE_STATE", r),
         r.success = TRUE, r.fault # 1
  PROVE  card'.state = "idle"
<1>1. Obeys("GO_IDLE_STATE")
  BY DEF Obeys, Legal, CardType, AppCommands
<1>2. Taken("GO_IDLE_STATE", card')
  BY <1>1 DEF Seen
<1>3. card' = Idled(card)
  BY <1>2 DEF Taken, After
<1> QED
  BY <1>3, FreshIs

\* What a command does to the flag, after few faults.
LEMMA LateTurns ==
  ASSUME TypeInv, PowerInv, Used >= 0, LateInv, FewFaults', at \in Steps,
         NEW r \in sd_issue_command(at), Answered(r), Turn(r.success) \/ OpCondTurn(r)
  PROVE  LateInv'
<1>0. faults \in Nat /\ r.success \in BOOLEAN /\ Used \in Int
  BY Unfolded, CommandTypes, UsedRises
<1>1. Seen(at, r) /\ app' = FALSE
  BY ResultSeen DEF Answered
<1>2. /\ late' = TRUE => \/ Used' = Used + 1 /\ (r.success = TRUE => late = TRUE)
                         \/ r.success = FALSE /\ late = TRUE
      /\ r.success = TRUE /\ at \in AppCommands => app = TRUE
      /\ Used' \in {Used, Used + 1} /\ (r.fault = 1 => Used' = Used + 1)
  BY <1>0, <1>1, UsedRises DEF Seen
<1>s. /\ Spare \in Int /\ Spare' \in Int /\ Spare <= Used /\ Used' >= 0
      /\ Unheard' => Spare' = Used' - 1
      /\ ~Unheard' => Spare' = Used'
      /\ (Unheard' => Unheard) => Spare' >= Spare
      /\ (Unheard' <=> Unheard) /\ Used' = Used + 1 => Spare' = Spare + 1
  BY <1>2, SpareRises
<1>3. CASE at' = "return" /\ result' = "failed"
  BY <1>3, <1>s, FreeOfLate DEF LateFree
<1>4. CASE Onward(r.success)
  <2> USE DEF Onward, LateInv
  <2>1. NoFlag'
    <3>1. at' \in Identifying \cup Addressing \cup {"SEND_IF_COND", "SEND_SCR", "SET_BUS_WIDTH"} =>
            late # TRUE /\ r.success = TRUE
      BY <1>0, <1>4 DEF NoFlag, Identifying, Addressing
    <3>2. at' # "GO_IDLE_STATE"
      BY <1>4
    <3> QED
      BY <1>2, <3>1, <3>2 DEF NoFlag, Identifying, Addressing
  <2>2. at \in Asking => at # "SD_SEND_OP_COND" /\ at' \in Asking /\ (Unheard' <=> Unheard)
    <3>1. at \in Asking => at # "SD_SEND_OP_COND" /\ at' \in Asking
      BY <1>4 DEF Asking
    <3>2. at \in Asking => (card'.state = "idle" <=> card.state = "idle")
      BY <1>1, <3>1, SeenShifts, StaysIdle DEF Asking
    <3> QED
      BY <3>1, <3>2 DEF Unheard
  <2>3. late' = TRUE /\ at \in Asking => Spare' >= IF late = TRUE /\ r.success = FALSE
                                                  THEN Spare ELSE Spare + 1
    <3>1. \A u, v \in Int : v = u + 1 => v >= u + 1
      OBVIOUS
    <3> QED
      BY <1>2, <1>s, <2>2, <3>1
  <2>4. Risks'
    <3>1. CASE at = "SEND_IF_COND"
      <4>1. at' = "IO_SET_OP_COND" /\ late # TRUE
        BY <1>4, <3>1 DEF NoFlag
      <4>2. late' = TRUE => Spare' >= 1
        <5>1. late' = TRUE => Spare' >= Spare + 1
          BY <2>3, <3>1, <4>1 DEF Asking
        <5>2. \A u, v \in Int : u >= 0 /\ v >= u + 1 => v >= 1
          OBVIOUS
        <5> QED
          BY <1>s, <5>1, <5>2
      <4> QED
        BY <4>1, <4>2 DEF Risks
    <3>2. CASE at = "IO_SET_OP_COND"
      BY <1>0, <1>1, <1>2, <1>4, <1>s, <2>3, <3>2 DEF Risks, Asking
    <3>3. CASE at = "INQUIRY"
      BY <1>0, <1>1, <1>2, <1>4, <1>s, <2>3, <3>3 DEF Risks, Asking, AppCommands
    <3>4. CASE at' \notin {"IO_SET_OP_COND", "INQUIRY", "SD_SEND_OP_COND"}
      BY <3>4 DEF Risks
    <3> QED
      BY <1>4, <3>1, <3>2, <3>3, <3>4
  <2>5. Spare' >= 0
    <3>1. CASE at \in Asking
      BY <1>s, <2>2, <3>1
    <3>2. CASE ~Unheard'
      BY <1>s, <3>2
    <3>3. CASE at \notin Asking /\ Unheard'
      <4>1. at = "GO_IDLE_STATE" /\ r.success = TRUE /\ card'.state # "idle"
        BY <1>0, <1>4, <3>3 DEF Asking, Unheard
      <4>2. "POWER_SD" \in power /\ late # TRUE /\ card \in CardType
        BY <4>1, Unfolded DEF PowerInv, NoFlag
      <4>3. r.fault = 1
        BY <1>1, <4>1, <4>2, GoneIdle
      <4> QED
        BY <1>0, <1>2, <1>s, <3>3, <4>3
    <3> QED
      BY <3>1, <3>2, <3>3
  <2> QED
    BY <2>1, <2>4, <2>5
<1>5. CASE OpCondTurn(r)
  <2>1. at = "SD_SEND_OP_COND" /\ r.success = TRUE /\ app = TRUE
    BY <1>2, <1>5 DEF OpCondTurn, AppCommands
  <2>2. late' # TRUE
    <3>0. Used \in Int /\ Used' \in Int /\ Spare \in Int
      BY <1>0, <1>2, <1>s
    <3>1. Spare >= 4 \/ late # TRUE
      BY <2>1 DEF LateInv, Risks
    <3>2. Used' < 5
      BY UsedRises
    <3>3. late' = TRUE => late = TRUE /\ Used' = Used + 1
      BY <1>2, <2>1
    <3>4. \A u, v, w \in Int : v = u + 1 /\ v < 5 /\ w <= u => ~(w >= 4)
      OBVIOUS
    <3>5. late' = TRUE => ~(Spare >= 4) /\ late = TRUE
      BY <1>s, <3>0, <3>2, <3>3, <3>4
    <3> QED
      BY <3>1, <3>5, Zenon
  <2>3. Spare' >= 0
    <3>1. CASE Unheard' => Unheard
      BY <1>s, <3>1 DEF LateInv
    <3>2. CASE Unheard' /\ ~Unheard
      <4>1. at' = at /\ card.state = "idle" /\ card'.state # "idle"
        BY <1>5, <2>1, <3>2 DEF OpCondTurn, Unheard, Asking
      <4>2. card'.state = "ready" /\ r.card = card'
        BY <1>1, <2>1, <4>1 DEF Seen, Moved, AppCommands, Addressed, Answered, Issued
      <4>3. r.stale # FALSE
        BY <1>5, <2>1, <4>1, <4>2 DEF OpCondTurn
      <4>4. Spare >= 4
        BY <1>1, <2>1, <4>3 DEF Seen, LateInv, Risks
      <4>5. Used' \in Int /\ Used' >= Used /\ Spare' = Used' - 1
        BY <1>0, <1>2, <1>s, <3>2
      <4>6. \A u, v, w, x \in Int : w >= 4 /\ w <= u /\ v >= u /\ x = v - 1 => x >= 0
        OBVIOUS
      <4> QED
        BY <1>0, <1>s, <4>4, <4>5, <4>6
    <3> QED
      BY <3>1, <3>2
  <2> QED
    BY <2>2, <2>3 DEF LateInv, NoFlag, Risks
<1> QED
  BY <1>3, <1>4, <1>5 DEF Turn

LEMMA LateNext ==
  ASSUME TypeInv, PowerInv, Used >= 0, LateInv, FewFaults', [Next]_vars
  PROVE  LateInv'
<1>0. faults \in Nat /\ Used \in Int /\ Used' \in {Used, Used + 1}
  BY Unfolded, UsedRises, FaultsFall
<1>s. /\ Spare \in Int /\ Spare' \in Int /\ Spare <= Used /\ Used' >= 0
      /\ Unheard' => Spare' = Used' - 1
      /\ ~Unheard' => Spare' = Used'
      /\ (Unheard' => Unheard) => Spare' >= Spare
      /\ (Unheard' <=> Unheard) /\ Used' = Used + 1 => Spare' = Spare + 1
  BY <1>0, SpareRises
<1>1. CASE Announce
  <2>1. PICK r : /\ Seen("APP_CMD", r) /\ r.success = TRUE
                 /\ at \in AppCommands /\ at' = at
    BY <1>1, AnnounceSeen DEF Here, Goto, GotoWith
  <2>2. late' = TRUE => late = TRUE /\ Used' = Used + 1
    BY <2>1, UsedRises DEF Seen
  <2>3. app # TRUE
    BY <1>1 DEF Announce
  <2>4. NoFlag'
    BY <2>1, <2>2 DEF LateInv, NoFlag, Identifying, Addressing
  <2>5. Unheard' <=> Unheard
    BY <2>1, SeenShifts, StaysIdle DEF Unheard
  <2>6. late' = TRUE => Spare' = Spare + 1
    BY <1>s, <2>2, <2>5
  <2>7. Risks'
    BY <1>s, <2>1, <2>2, <2>3, <2>6 DEF LateInv, Risks, AppCommands
  <2>8. Spare' >= 0
    BY <1>s, <2>5 DEF LateInv
  <2> QED
    BY <2>4, <2>7, <2>8 DEF LateInv
<1>2. CASE Asks
  <2>1. at \in Steps
    BY <1>2 DEF Asks, GoIdle, SendIfCond, IoSetOpCond, Inquiry, VoltageSwitch, AllSendCid,
                SendRelativeAddr, SelectCard, SetBlocklen, SendScr, SetBusWidth, Steps
  <2> QED
    BY <1>2, <2>1, AskTurns, LateTurns
<1>3. CASE SendOpCond
  <2>1. at \in Steps
    BY <1>3 DEF SendOpCond, Steps
  <2> QED
    BY <1>3, <2>1, OpCondTurns, LateTurns
<1>4. CASE PowerOn \/ PowerOff \/ InitSucceeds
  BY <1>4, <1>s, FreeOfLate DEF PowerOn, PowerOff, InitSucceeds, LateFree
<1>5. CASE ResetController
  <2>1. (late' = FALSE /\ at' = "GO_IDLE_STATE") \/ InitFails
    BY <1>5 DEF ResetController
  <2>2. CASE late' = FALSE /\ at' = "GO_IDLE_STATE"
    <3>1. ~Unheard'
      BY <2>2 DEF Unheard, Asking
    <3> QED
      BY <1>s, <2>2, <3>1 DEF LateInv, NoFlag, Risks
  <2> QED
    BY <1>s, <2>1, <2>2, FreeOfLate, EndsFree
<1>6. CASE CheckSignals
  <2>1. at = "signals" /\ UNCHANGED late /\ (at' = "ALL_SEND_CID" \/ SwitchFails)
    BY <1>6 DEF CheckSignals, Goto, GotoWith
  <2>2. CASE at' = "ALL_SEND_CID"
    <3>1. ~Unheard'
      BY <2>2 DEF Unheard, Asking
    <3> QED
      BY <1>s, <2>1, <2>2, <3>1 DEF LateInv, NoFlag, Risks, Identifying, Addressing
  <2> QED
    BY <1>s, <2>1, <2>2, FreeOfLate, EndsFree
<1>7. CASE SendStatus \/ Select \/ StopTransmission \/ SendStatusAgain \/ CountBlocks \/ TryData
  <2>1. at' \in LateFree
    <3> USE DEF LateFree
    <3>1. CASE SendStatus
      BY <3>1, EndsFree DEF SendStatus
    <3>2. CASE Select \/ StopTransmission \/ SendStatusAgain
      BY <3>2, EndsFree DEF Select, StopTransmission, SendStatusAgain
    <3>3. CASE CountBlocks \/ TryData
      BY <3>3 DEF CountBlocks, TryData, Tried, Return
    <3> QED
      BY <1>7, <3>1, <3>2, <3>3
  <2> QED
    BY <1>s, <2>1, FreeOfLate
<1>8. CASE usb_init \/ sd_card_init \/ \E w \in BOOLEAN, size \in Sizes : sd_read_write(w, size)
  BY <1>8, <1>s, FreeOfLate DEF usb_init, sd_card_init, sd_read_write, Begin, LateFree
<1>9. CASE Mail \/ GpuStep \/ ChangeCard \/ UNCHANGED vars
  <2>1. UNCHANGED <<at, late, app>> /\ (card' = card \/ card' = FreshCard)
    BY <1>9 DEF Mail, GpuStep, ChangeCard, vars, hostVars
  <2>2. NoFlag'
    BY <2>1 DEF LateInv, NoFlag, Identifying, Addressing
  <2>3. Unheard' => Unheard
    BY <2>1, FreshIs DEF Unheard
  <2>4. Risks' /\ Spare' >= 0
    BY <1>s, <2>1, <2>3 DEF LateInv, Risks
  <2> QED
    BY <2>2, <2>4 DEF LateInv
<1> QED
  BY <1>1, <1>2, <1>3, <1>4, <1>5, <1>6, <1>7, <1>8, <1>9, Zenon
  DEF Next, DriverStep, InitStep, Asks

-----------------------------------------------------------------------------
(* The unit of the addresses.                                              *)

\* Once the card is past ACMD41, the driver knows whether it is SDHC.
UnitInv ==
  card.state \in Addressed \/ (card.state = "ready" /\ at \in Identifying) =>
       device.sdhc = kind.sdhc

LEMMA ShiftsUnit ==
  ASSUME UnitInv, Shifts, UNCHANGED kind, device'.sdhc = device.sdhc,
         at' \in Identifying => at \in Identifying
  PROVE  UnitInv'
<1>1. "idle" \notin Addressed /\ "ready" \notin Addressed
  BY DEF Addressed
<1>2. card'.state \in Addressed \/ (card'.state = "ready" /\ at' \in Identifying) =>
        device'.sdhc = kind'.sdhc
  BY <1>1 DEF UnitInv, Shifts
<1> QED
  BY <1>2 DEF UnitInv, Addressed, Identifying

LEMMA UnitTurns ==
  ASSUME TypeInv, UnitInv,
         NEW r \in sd_issue_command(at), Answered(r), Turn(r.success), at \in Steps
  PROVE  UnitInv'
<1>0. card \in CardType /\ r.success \in BOOLEAN
  BY Unfolded, CommandTypes
<1>1. Seen(at, r) /\ UNCHANGED kind /\ device'.sdhc = device.sdhc
  BY ResultSeen DEF Answered, Turn
<1>3. CASE at = "GO_IDLE_STATE"
  <2>1. card' = card \/ card'.state = "idle"
    BY <1>1, <1>3 DEF Seen, Moved, AppCommands
  <2>2. at' \in {"SEND_IF_COND", "return"}
    BY <1>3 DEF Turn, Onward
  <2> QED
    BY <1>1, <2>1, <2>2 DEF UnitInv, Addressed, Identifying
<1>4. CASE at \in {"ALL_SEND_CID", "SD_SEND_OP_COND"}
  <2>1. at' \notin Identifying
    BY <1>4 DEF Turn, Onward, Identifying
  <2>2. \/ card'.state = card.state
        \/ card'.state = "ready"
        \/ at = "ALL_SEND_CID" /\ card.state = "ready"
        \/ card.state \in Addressed
    BY <1>1, <1>4 DEF Seen, Moved
  <2>3. card'.state \in Addressed => device'.sdhc = kind'.sdhc
    BY <1>1, <2>2 DEF UnitInv, Addressed, Identifying
  <2> QED
    BY <2>1, <2>3 DEF UnitInv, Addressed, Identifying
<1>5. CASE at \notin {"GO_IDLE_STATE", "ALL_SEND_CID", "SD_SEND_OP_COND"}
  <2>1. Shifts
    BY <1>1, <1>5, SeenShifts
  <2>2. at' \in Identifying => at \in Identifying
    BY <1>5 DEF Turn, Onward, Identifying
  <2> QED
    BY <1>1, <2>1, <2>2, ShiftsUnit
<1> QED
  BY <1>3, <1>4, <1>5

\* An answer of ACMD41 that is that of an earlier command costs the fifth fault, or has
\* not changed an idle card.
LEMMA UnitOpCond ==
  ASSUME TypeInv, LateInv, Used >= 0, FewFaults', UnitInv,
         NEW r \in sd_issue_command(at), Answered(r), OpCondTurn(r)
  PROVE  UnitInv'
<1>0. Used \in Int
  BY UsedRises
<1>1. Seen(at, r) /\ UNCHANGED kind /\ at = "SD_SEND_OP_COND" /\ r.success = TRUE
  BY ResultSeen DEF Answered, OpCondTurn
<1>2. "idle" \notin Addressed /\ "ready" \notin Addressed
  BY DEF Addressed
<1>3. app = TRUE
  BY <1>1 DEF Seen, AppCommands
<1>4. CASE r.stale # FALSE
  <2>1. late = TRUE /\ (r.fault = 0 => card' = card) /\ r.fault \in {0, 1}
        /\ faults' = faults - r.fault
    BY <1>1, <1>4 DEF Seen
  <2>2. Spare >= 4
    BY <1>1, <1>3, <2>1 DEF LateInv, Risks
  <2>3. Used >= 4 /\ (Unheard => Used >= 5)
    BY <1>0, <2>2 DEF Spare
  <2>4. CASE r.fault = 1
    <3>1. \A u, v \in Int : v = u + 1 /\ v < 5 => ~(u >= 4)
      OBVIOUS
    <3>2. Used' = Used + 1 /\ Used' \in Int /\ Used' < 5
      BY <2>1, <2>4, UsedRises
    <3> QED
      BY <1>0, <2>3, <3>1, <3>2
  <2>5. CASE r.fault = 0
    <3>1. Used' = Used /\ Used' < 5
      BY <2>1, <2>5, Unfolded, UsedRises
    <3>2. card' = card /\ card.state = "idle"
      BY <1>0, <1>1, <2>1, <2>3, <2>5, <3>1 DEF Unheard, Asking
    <3> QED
      BY <1>2, <3>2 DEF UnitInv
  <2> QED
    BY <2>1, <2>4, <2>5
<1>5. CASE r.stale = FALSE
  <2>1. card.state = "idle"
    BY <1>1, <1>5, OpCondIdle DEF Seen, Taken
  <2>2. card'.state \in {"idle", "ready"} /\ r.card = card'
    BY <1>1, <1>2, <2>1 DEF Seen, Moved, AppCommands, Answered, Issued
  <2>3. CASE at' = at /\ r.card.state # "ready"
    BY <1>1, <1>2, <2>2, <2>3 DEF UnitInv, Identifying
  <2>4. CASE at' \in {"VOLTAGE_SWITCH", "ALL_SEND_CID"} /\ device'.sdhc = kind.sdhc
    BY <1>1, <2>4 DEF UnitInv
  <2> QED
    BY <1>5, <2>3, <2>4 DEF OpCondTurn
<1> QED
  BY <1>4, <1>5

Serve == {"status", "select", "stop", "again", "data", "try"}

\* A command on the way to the data forgets the address, or goes on.
ServeTurn ==
  /\ Shifts /\ at \in Serve
  /\ UNCHANGED <<kind, cut_short, moved>> /\ device'.sdhc = device.sdhc
  /\ \/ at' = "return" /\ result' = "failed" /\ device'.rca = NoRca
     \/ at' \in Serve \cup {"power"} /\ result' = result

LEMMA Forgotten ==
  ASSUME TypeInv, ForgetsCard
  PROVE  /\ at' = "return" /\ result' = "failed" /\ UNCHANGED <<cut_short, moved>>
         /\ device'.rca = NoRca /\ device'.sdhc = device.sdhc
<1>1. device' = [device EXCEPT !.rca = NoRca]
  BY DEF ForgetsCard
<1>2. device'.rca = NoRca /\ device'.sdhc = device.sdhc
  BY <1>1, Unfolded DEF DeviceType
<1> QED
  BY <1>2 DEF ForgetsCard, Return

LEMMA ServeTurns ==
  ASSUME TypeInv, SendStatus \/ Select \/ StopTransmission \/ SendStatusAgain
  PROVE  ServeTurn
<1> USE DEF Goto, GotoWith, drvVars, Serve
<1>a. \A c : \A r \in sd_issue_command(c) :
        c \in {"SEND_STATUS", "SELECT_CARD", "STOP_TRANSMISSION"} /\ Issued(r) => Shifts
  BY ResultSeen, SeenShifts
<1>1. CASE SendStatus
  <2>1. Shifts /\ at = "status" /\ UNCHANGED kind
    BY <1>1, <1>a DEF SendStatus
  <2>2. \/ ForgetsCard
        \/ /\ at' \in {"select", "stop", "data", "power"}
           /\ UNCHANGED <<device, result, cut_short, moved>>
    BY <1>1 DEF SendStatus
  <2> QED
    BY <2>1, <2>2, Forgotten DEF ServeTurn
<1>2. CASE Select
  <2>1. Shifts /\ at = "select" /\ UNCHANGED kind
    BY <1>2, <1>a DEF Select, Answered, Same
  <2>2. ForgetsCard \/ (at' = "again" /\ UNCHANGED <<device, result, cut_short, moved>>)
    BY <1>2 DEF Select
  <2> QED
    BY <2>1, <2>2, Forgotten DEF ServeTurn
<1>3. CASE StopTransmission
  <2>1. Shifts /\ at = "stop" /\ UNCHANGED kind
    BY <1>3, <1>a DEF StopTransmission, Answered, Same
  <2>2. ForgetsCard \/ (at' = "again" /\ UNCHANGED <<device, result, cut_short, moved>>)
    BY <1>3 DEF StopTransmission
  <2> QED
    BY <2>1, <2>2, Forgotten DEF ServeTurn
<1>4. CASE SendStatusAgain
  <2>1. Shifts /\ at = "again" /\ UNCHANGED kind
    BY <1>4, <1>a DEF SendStatusAgain, Answered, Same
  <2>2. ForgetsCard \/ (at' = "data" /\ UNCHANGED <<device, result, cut_short, moved>>)
    BY <1>4 DEF SendStatusAgain
  <2> QED
    BY <2>1, <2>2, Forgotten DEF ServeTurn
<1> QED
  BY <1>1, <1>2, <1>3, <1>4

LEMMA DataCommandIs ==
  DataCommand \in DataCommands /\ DataCommand \notin AppCommands
    /\ DataCommand \notin {"GO_IDLE_STATE", "SD_SEND_OP_COND", "ALL_SEND_CID"}
BY DEF DataCommand, DataCommands, ReadCommands, WriteCommands, AppCommands

\* A data command that succeeds has found the card in its transfer state.
DataTurn ==
  /\ Shifts /\ at = "try" /\ UNCHANGED <<kind, cut_short>> /\ device'.sdhc = device.sdhc
  /\ \/ /\ at' = "return" /\ result' = "done" /\ card.state = "tran" /\ UNCHANGED device
        /\ moved'.unit_fits = (device.sdhc = kind.sdhc)
        /\ moved'.len_fits = (kind.sdhc \/ card'.len512)
     \/ at' = "return" /\ result' = "failed" /\ device'.rca = NoRca
     \/ at' = at /\ UNCHANGED <<device, result>>

LEMMA DataTurns ==
  ASSUME TypeInv, TryData
  PROVE  DataTurn
<1>1. PICK r \in sd_issue_command(DataCommand) :
        /\ Answered(r) /\ Tried(r) /\ at = "try" /\ UNCHANGED cut_short
        /\ moved' = [blocks |-> r.moved, unit_fits |-> device.sdhc = kind.sdhc,
                     len_fits |-> kind.sdhc \/ r.card.len512]
  BY DEF TryData
<1>2. Seen(DataCommand, r) /\ UNCHANGED kind /\ card' = r.card
  BY <1>1, ResultSeen DEF Answered, Same, Issued
<1>3. Shifts
  BY <1>2, SeenShifts, DataCommandIs
<1>4. /\ moved'.unit_fits = (device.sdhc = kind.sdhc)
      /\ moved'.len_fits = (kind.sdhc \/ card'.len512)
  BY <1>1, <1>2
<1>5. CASE r.success /\ Return("done") /\ UNCHANGED device
  <2>1. r.success = TRUE
    BY <1>2, <1>5 DEF Seen
  <2>2. Taken(DataCommand, card')
    <3> HIDE DEF DataCommand
    <3> QED
      BY <1>2, <2>1, DataCommandIs DEF Seen, DataCommands, ReadCommands, WriteCommands
  <2>3. card.state = "tran"
    BY <2>2, DataCommandIs, DataInTran DEF Taken
  <2> QED
    BY <1>1, <1>2, <1>3, <1>4, <1>5, <2>3 DEF DataTurn, Return
<1>6. CASE Return("failed") /\ device' = [device EXCEPT !.rca = NoRca]
  <2>1. device'.rca = NoRca /\ device'.sdhc = device.sdhc
    BY <1>6, Unfolded DEF DeviceType
  <2> QED
    BY <1>1, <1>2, <1>3, <1>6, <2>1 DEF DataTurn, Return
<1>7. CASE UNCHANGED <<at, result, device>>
  BY <1>1, <1>2, <1>3, <1>7 DEF DataTurn
<1> QED
  BY <1>1, <1>5, <1>6, <1>7 DEF Tried

\* The count of the blocks.
CountTurn ==
  /\ Shifts /\ at = "data" /\ at' \in {"try", "return"} /\ (at' = "return" => result' = "failed")
  /\ UNCHANGED <<kind, cut_short, moved>>
  /\ device'.sdhc = device.sdhc /\ device'.rca = device.rca

LEMMA CountTurns ==
  ASSUME TypeInv, CountBlocks
  PROVE  CountTurn
<1>1. device' = device \/ \E n : device' = [device EXCEPT !.blocks = n]
  BY DEF CountBlocks
<1>2. device'.sdhc = device.sdhc /\ device'.rca = device.rca
  BY <1>1, Unfolded DEF DeviceType
<1>3. UNCHANGED <<kind, card, cut_short, moved>> /\ at = "data"
  BY DEF CountBlocks, Same
<1>4. at' = "try" \/ (at' = "return" /\ result' = "failed")
  BY DEF CountBlocks, Return
<1> QED
  BY <1>2, <1>3, <1>4 DEF CountTurn, Shifts

\* The steps that leave the card alone.
LEMMA StillShifts == ASSUME UNCHANGED card PROVE Shifts
BY DEF Shifts

LEMMA UnitNext ==
  ASSUME TypeInv, Used >= 0, LateInv, FewFaults', UnitInv, [Next]_vars
  PROVE  UnitInv'
<1> USE DEF Identifying
<1>1. CASE Announce
  <2>1. PICK r : Seen("APP_CMD", r) /\ UNCHANGED <<at, device, kind>>
    BY <1>1, AnnounceSeen DEF Here, Goto, GotoWith, Same
  <2>2. Shifts
    BY <2>1, SeenShifts
  <2> QED
    BY <2>1, <2>2, ShiftsUnit
<1>2. CASE Asks
  <2>1. at \in Steps
    BY <1>2 DEF Asks, GoIdle, SendIfCond, IoSetOpCond, Inquiry, VoltageSwitch, AllSendCid,
                SendRelativeAddr, SelectCard, SetBlocklen, SendScr, SetBusWidth, Steps
  <2> QED
    BY <1>2, <2>1, AskTurns, UnitTurns
<1>3. CASE SendOpCond
  <2>1. at \in Steps
    BY <1>3 DEF SendOpCond, Steps
  <2> QED
    BY <1>3, <2>1, OpCondTurns, UnitTurns, UnitOpCond
<1>4. CASE PowerOn \/ PowerOff \/ InitSucceeds \/ CheckSignals \/ ResetController
  <2>1. UNCHANGED <<card, kind>> /\ device'.sdhc = device.sdhc
    <3>1. \A x : [device EXCEPT !.failed = x].sdhc = device.sdhc
      BY Unfolded DEF DeviceType
    <3>2. CASE CheckSignals
      BY <3>1, <3>2 DEF CheckSignals, SwitchFails, Goto, GotoWith, Same
    <3>3. CASE PowerOn \/ PowerOff \/ InitSucceeds \/ ResetController
      BY <3>3 DEF PowerOn, PowerOff, InitSucceeds, ResetController, InitFails, Same, hostVars
    <3> QED
      BY <1>4, <3>2, <3>3
  <2>2. at' \in Identifying => at \in Identifying
    <3>1. CASE CheckSignals
      BY <3>1 DEF CheckSignals, SwitchFails, Goto, GotoWith
    <3>2. CASE PowerOn \/ PowerOff \/ ResetController
      BY <3>2 DEF PowerOn, PowerOff, ResetController, InitFails, Return
    <3>3. CASE InitSucceeds
      BY <3>3 DEF InitSucceeds
    <3> QED
      BY <1>4, <3>1, <3>2, <3>3
  <2> QED
    BY <2>1, <2>2, StillShifts, ShiftsUnit
<1>5. CASE SendStatus \/ Select \/ StopTransmission \/ SendStatusAgain
  BY <1>5, ServeTurns, ShiftsUnit DEF ServeTurn, Serve
<1>6. CASE CountBlocks \/ TryData
  BY <1>6, CountTurns, DataTurns, ShiftsUnit DEF CountTurn, DataTurn
<1>7. CASE usb_init \/ sd_card_init \/ \E w \in BOOLEAN, size \in Sizes : sd_read_write(w, size)
  <2>1. UNCHANGED <<card, kind, device>> /\ at' \in {"return", "power", "status"}
    BY <1>7 DEF usb_init, sd_card_init, sd_read_write, Begin, hostVars
  <2> QED
    BY <2>1, StillShifts, ShiftsUnit
<1>8. CASE Mail \/ UNCHANGED vars
  <2>1. UNCHANGED <<card, kind, device, at>>
    BY <1>8 DEF Mail, vars, hostVars
  <2> QED
    BY <2>1, StillShifts, ShiftsUnit
<1>9. CASE GpuStep \/ ChangeCard
  <2>1. CASE card' = card /\ UNCHANGED <<kind, device, at>>
    BY <2>1, StillShifts, ShiftsUnit
  <2>2. CASE card' = FreshCard
    BY <2>2, FreshIs DEF UnitInv, Addressed
  <2> QED
    BY <1>9, <2>1, <2>2 DEF GpuStep, ChangeCard
<1> QED
  BY <1>1, <1>2, <1>3, <1>4, <1>5, <1>6, <1>7, <1>8, <1>9, Zenon
  DEF Next, DriverStep, InitStep, Asks

-----------------------------------------------------------------------------
(* The length of the blocks.                                               *)

LenFits == card.state \in Addressed /\ kind.sdhc = FALSE => card.len512 = TRUE

\* The card of a driver that goes on to data, or has an address, has its block length,
\* unless an initialisation has failed behind that address.
LenInv ==
  /\ at \in {"SEND_SCR", "SET_BUS_WIDTH", "finish"} => LenFits
  /\ cut_short = FALSE /\ (at \in Serve \/ (at = "return" /\ device.rca # NoRca)) => LenFits

\* What the last data command has moved was of the card that was in.
MovedInv ==
  at = "return" /\ result = "done" =>
    moved.unit_fits = TRUE /\ (moved.len_fits = TRUE \/ cut_short = TRUE)

LEMMA ShiftsLen ==
  ASSUME LenFits, Shifts, UNCHANGED kind
  PROVE  LenFits'
BY DEF LenFits, Shifts, Addressed

LEMMA FreshLen ==
  ASSUME card' = FreshCard
  PROVE  LenFits'
BY FreshIs DEF LenFits, Addressed

\* Before the address is selected for the first time the length does not matter.
LEMMA LenTurns ==
  ASSUME TypeInv, LateInv, UnitInv, LenInv,
         NEW r \in sd_issue_command(at), Answered(r), Turn(r.success)
  PROVE  LenInv'
<1>0. card \in CardType /\ r.success \in BOOLEAN /\ kind.sdhc \in BOOLEAN
  BY Unfolded, CommandTypes DEF Kinds
<1>1. Seen(at, r) /\ UNCHANGED kind /\ device'.sdhc = device.sdhc
  BY ResultSeen DEF Answered, Turn
<1>2. CASE at' = "return" /\ (device'.rca = NoRca \/ cut_short' = TRUE)
  BY <1>2 DEF LenInv, Serve
<1>3. CASE at = "SELECT_CARD" /\ at' = "SEND_SCR"
  <2>1. r.success = TRUE /\ device.sdhc
    BY <1>0, <1>3 DEF Turn, Onward
  <2>2. Taken(at, card')
    BY <1>1, <1>3, <2>1 DEF Seen, LateInv, NoFlag, Addressing
  <2>3. card.state \in Addressed
    BY <1>3, <2>2, LegalIs, MovesIs DEF Taken
  <2>4. kind.sdhc = TRUE
    BY <1>0, <2>1, <2>3 DEF UnitInv
  <2> QED
    BY <1>1, <1>3, <2>4 DEF LenInv, LenFits, Serve
<1>4. CASE at = "SET_BLOCKLEN" /\ at' = "SEND_SCR"
  <2>1. r.success = TRUE
    BY <1>0, <1>4 DEF Turn, Onward
  <2>2. Taken(at, card')
    BY <1>1, <1>4, <2>1 DEF Seen, LateInv, NoFlag, Addressing
  <2>3. card' = After("SET_BLOCKLEN")
    BY <1>4, <2>2 DEF Taken
  <2>4. card'.len512 = TRUE
    BY <1>0, <2>3, AfterIs
  <2> QED
    BY <1>4, <2>4 DEF LenInv, LenFits, Serve
<1>5. CASE at \in {"SEND_SCR", "SET_BUS_WIDTH"} /\ at' \in {"SET_BUS_WIDTH", "finish"}
  <2>1. LenFits'
    BY <1>1, <1>5, SeenShifts, ShiftsLen DEF LenInv
  <2> QED
    BY <1>5, <2>1 DEF LenInv, Serve
<1>6. CASE at' \notin {"SEND_SCR", "SET_BUS_WIDTH", "finish", "return"} \cup Serve
  BY <1>6 DEF LenInv
<1> QED
  BY <1>2, <1>3, <1>4, <1>5, <1>6 DEF Turn, Onward, Serve

LEMMA LenNext ==
  ASSUME TypeInv, PowerInv, LateInv, UnitInv, LenInv, [Next]_vars
  PROVE  LenInv'
<1>1. CASE Announce
  <2>1. PICK r : Seen("APP_CMD", r) /\ UNCHANGED <<at, device, kind, cut_short>>
    BY <1>1, AnnounceSeen DEF Here, Goto, GotoWith, Same, drvVars
  <2>2. LenFits => LenFits'
    BY <2>1, SeenShifts, ShiftsLen
  <2> QED
    BY <2>1, <2>2 DEF LenInv, Serve
<1>2. CASE Asks
  BY <1>2, AskTurns, LenTurns
<1>3. CASE SendOpCond
  <2>1. PICK r \in sd_issue_command(at) : Answered(r) /\ (Turn(r.success) \/ OpCondTurn(r))
    BY <1>3, OpCondTurns
  <2>2. CASE OpCondTurn(r)
    BY <2>2 DEF OpCondTurn, LenInv, Serve
  <2> QED
    BY <2>1, <2>2, LenTurns
<1>4. CASE PowerOn \/ PowerOff \/ CheckSignals
  <2>1. at' \in {"power", "reset", "power_off", "ALL_SEND_CID"}
    BY <1>4 DEF PowerOn, PowerOff, CheckSignals, SwitchFails, Goto, GotoWith
  <2> QED
    BY <2>1 DEF LenInv, Serve
<1>5. CASE ResetController
  <2>1. \/ at' = "GO_IDLE_STATE"
        \/ at' = "return" /\ (device'.rca = NoRca \/ cut_short' = TRUE)
    BY <1>5 DEF ResetController, InitFails, Return
  <2> QED
    BY <2>1 DEF LenInv, Serve
<1>6. CASE InitSucceeds
  <2>1. LenFits' /\ at' \in {"status", "again", "return"}
    BY <1>6, StillShifts, ShiftsLen DEF InitSucceeds, LenInv, Same
  <2> QED
    BY <2>1 DEF LenInv, Serve
<1>7. CASE SendStatus \/ Select \/ StopTransmission \/ SendStatusAgain
  <2>1. ServeTurn
    BY <1>7, ServeTurns
  <2>2. LenFits => LenFits'
    BY <2>1, ShiftsLen DEF ServeTurn
  <2> QED
    BY <2>1, <2>2 DEF ServeTurn, LenInv, Serve
<1>8. CASE CountBlocks
  <2>1. CountTurn
    BY <1>8, CountTurns
  <2>2. LenFits => LenFits'
    BY <2>1, ShiftsLen DEF CountTurn
  <2> QED
    BY <2>1, <2>2 DEF CountTurn, LenInv, Serve
<1>9. CASE TryData
  <2>1. DataTurn
    BY <1>9, DataTurns
  <2>2. LenFits => LenFits'
    BY <2>1, ShiftsLen DEF DataTurn
  <2> QED
    BY <2>1, <2>2 DEF DataTurn, LenInv, Serve
<1>10. CASE sd_card_init \/ \E w \in BOOLEAN, size \in Sizes : sd_read_write(w, size)
  <2>1. /\ UNCHANGED <<card, kind, device, cut_short>> /\ at = "return"
        /\ at' = "power" \/ (at' = "status" /\ device.rca # NoRca)
    BY <1>10 DEF sd_card_init, sd_read_write, Begin, hostVars
  <2>2. LenFits => LenFits'
    BY <2>1, StillShifts, ShiftsLen
  <2> QED
    BY <2>1, <2>2 DEF LenInv, Serve
<1>11. CASE Mail \/ UNCHANGED vars
  <2>1. UNCHANGED <<card, kind, device, at, cut_short>>
    BY <1>11 DEF Mail, vars, hostVars, drvVars
  <2>2. LenFits => LenFits'
    BY <2>1, StillShifts, ShiftsLen
  <2> QED
    BY <2>1, <2>2 DEF LenInv, Serve
<1>12. CASE GpuStep \/ ChangeCard
  <2>1. UNCHANGED <<device, at, cut_short>> /\ (card' = FreshCard \/ UNCHANGED <<card, kind>>)
    BY <1>12 DEF GpuStep, ChangeCard, drvVars
  <2>2. LenFits => LenFits'
    BY <2>1, StillShifts, ShiftsLen, FreshLen
  <2> QED
    BY <2>1, <2>2 DEF LenInv, Serve
<1>13. CASE usb_init
  <2>1. at = "boot" /\ at' = "return" /\ UNCHANGED <<device, card, kind, cut_short>>
    BY <1>13 DEF usb_init, hostVars, drvVars
  <2> QED
    BY <2>1 DEF LenInv, PowerInv, Serve
<1> QED
  BY <1>1, <1>2, <1>3, <1>4, <1>5, <1>6, <1>7, <1>8, <1>9, <1>10, <1>11, <1>12, <1>13, Zenon
  DEF Next, DriverStep, InitStep, Asks

LEMMA MovedNext ==
  ASSUME TypeInv, CallInv, UnitInv, LenInv, MovedInv, [Next]_vars
  PROVE  MovedInv'
<1>0. faults \in Nat /\ cut_short \in BOOLEAN /\ kind.sdhc \in BOOLEAN
  BY Unfolded DEF Kinds
<1>1. CASE MailStep /\ UNCHANGED <<hostVars, at, caller, call, base, drvVars>>
  BY <1>1 DEF MovedInv, drvVars
<1>2. CASE usb_init \/ PowerOn \/ PowerOff
  <2>1. result' # "done"
    BY <1>2 DEF usb_init, PowerOn, PowerOff, drvVars, CallInv
  <2> QED
    BY <2>1 DEF MovedInv
<1>3. CASE GpuStep \/ ChangeCard \/ UNCHANGED vars
  BY <1>3 DEF GpuStep, ChangeCard, vars, drvVars, MovedInv
<1>4. CASE sd_card_init \/ \E w \in BOOLEAN, size \in Sizes : sd_read_write(w, size)
  <2>1. result' = "none"
    BY <1>4 DEF sd_card_init, sd_read_write, Begin
  <2> QED
    BY <2>1 DEF MovedInv
<1>5. CASE Passes
  <2>1. result' # "done"
    BY <1>5 DEF Passes, InCall, Steps, CallInv
  <2> QED
    BY <2>1 DEF MovedInv
<1>6. CASE CountBlocks
  BY <1>6, CountTurns DEF CountTurn, MovedInv
<1>7. CASE TryData
  <2>1. DataTurn
    BY <1>7, DataTurns
  <2>2. CASE at' = "return" /\ result' = "done"
    <3>1. /\ card.state = "tran" /\ UNCHANGED <<kind, cut_short>> /\ at = "try"
          /\ moved'.unit_fits = (device.sdhc = kind.sdhc)
          /\ moved'.len_fits = (kind.sdhc \/ card'.len512)
          /\ card.len512 = TRUE => card'.len512 = TRUE
      BY <2>1, <2>2 DEF DataTurn, Shifts
    <3>2. card.state \in Addressed
      BY <3>1 DEF Addressed
    <3>3. moved'.unit_fits = TRUE
      BY <3>1, <3>2 DEF UnitInv
    <3>4. cut_short = FALSE /\ kind.sdhc = FALSE => card'.len512 = TRUE
      BY <3>1, <3>2 DEF LenInv, LenFits, Serve
    <3>5. cut_short = TRUE \/ moved'.len_fits = TRUE
      BY <1>0, <3>1, <3>4
    <3> QED
      BY <3>1, <3>3, <3>5 DEF MovedInv
  <2>3. CASE ~(at' = "return" /\ result' = "done")
    BY <2>3 DEF MovedInv
  <2> QED
    BY <2>2, <2>3
<1>8. CASE ResetController
  BY <1>8 DEF ResetController, InitFails, Return, MovedInv
<1> QED
  BY <1>0, <1>1, <1>2, <1>3, <1>4, <1>5, <1>6, <1>7, <1>8, NextCases, Zenon

\* What holds of the card after few faults.
CardInv == FewFaults => LateInv /\ UnitInv /\ LenInv /\ MovedInv

LEMMA CardNext ==
  ASSUME TypeInv, PowerInv, CallInv, Used >= 0, CardInv, [Next]_vars
  PROVE  CardInv'
<1>1. FewFaults' => FewFaults
  <2>1. faults \in Nat /\ faults' \in Nat /\ faults' <= faults /\ MaxFaults \in Nat
    BY Unfolded, FaultsFall, CallsAssumption
  <2>2. \A f, g, m \in Nat : g <= f /\ m - g < 5 => m - f < 5
    OBVIOUS
  <2>3. FewFaults' <=> MaxFaults - faults' < 5
    BY DEF FewFaults
  <2> QED
    BY <2>1, <2>2, <2>3 DEF FewFaults
<1>2. ASSUME FewFaults' PROVE LateInv' /\ UnitInv' /\ LenInv' /\ MovedInv'
  <2>1. LateInv /\ UnitInv /\ LenInv /\ MovedInv
    BY <1>1, <1>2 DEF CardInv
  <2> QED
    BY <1>2, <2>1, LateNext, UnitNext, LenNext, MovedNext
<1> QED
  BY <1>2 DEF CardInv

\* A read or write that returns the size of its buffer has moved just its blocks; after
\* at most four faults, or changes of the card, also in the unit of the card that is in,
\* and with its block length unless a failed initialisation has left an address
\* (sd_card.c:705-1108, 1225-1307).
THEOREM SuccessMoves == Spec => []SuccessMovesAll
<1> DEFINE IInv == AllTypes /\ InFlight /\ PowerInv /\ CallInv /\ Used >= 0 /\ CardInv
<1>1. Init => IInv
  <2> SUFFICES ASSUME Init PROVE IInv
    OBVIOUS
  <2>1. AllTypes
    BY InitTypes
  <2>2. InFlight /\ PowerInv /\ CallInv
    BY CallsAssumption
    DEF Init, MailInit, InFlight, PowerInv, Steps, CallInv, MovesItsBlocks, NoCall
  <2>3. Used >= 0
    BY CallsAssumption DEF Init, Used
  <2>4. LateInv /\ UnitInv /\ LenInv /\ MovedInv
    <3>1. card.state = "idle" /\ at = "boot" /\ late = FALSE
      BY FreshIs DEF Init
    <3> QED
      BY <2>3, <3>1 DEF LateInv, NoFlag, Risks, Spare, Unheard, UnitInv, LenInv, MovedInv,
                        Addressed, Identifying, Addressing, Asking, Serve
  <2> QED
    BY <2>1, <2>2, <2>3, <2>4 DEF CardInv
<1>2. IInv /\ [Next]_vars => IInv'
  <2> SUFFICES ASSUME IInv, [Next]_vars PROVE IInv'
    OBVIOUS
  <2>0. TypeInv
    BY DEF AllTypes
  <2>1. AllTypes'
    BY TypesNext
  <2>2. InFlight' /\ PowerInv' /\ CallInv'
    BY PowerNext, CallNext DEF CallInv
  <2>3. Used' >= 0
    <3>1. faults \in Nat /\ faults' \in Nat /\ faults' <= faults /\ MaxFaults \in Nat
      BY <2>0, Unfolded, FaultsFall, CallsAssumption
    <3>2. \A f, g, m \in Nat : g <= f /\ m - f >= 0 => m - g >= 0
      OBVIOUS
    <3>3. MaxFaults - faults >= 0
      BY DEF Used
    <3>4. MaxFaults - faults' >= 0
      BY <3>1, <3>2, <3>3
    <3> QED
      BY <3>4 DEF Used
  <2>4. CardInv'
    BY <2>0, CardNext
  <2> QED
    BY <2>1, <2>2, <2>3, <2>4
<1>3. IInv => SuccessMovesAll
  BY DEF CallInv, CardInv, MovedInv, SuccessMovesAll
<1> QED
  BY <1>1, <1>2, <1>3, PTL DEF Spec
=============================================================================
