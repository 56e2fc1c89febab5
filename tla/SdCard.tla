------------------------------- MODULE SdCard -------------------------------
(***************************************************************************)
(* The driver of src/kernel/sd_card.c: sd_card_init, which powers the card *)
(* and takes it to the transfer state, and sd_read_write, which checks the *)
(* state, gets back to it, and tries a data command three times.  A step   *)
(* is one command, whatever becomes of it.                                 *)
(***************************************************************************)
EXTENDS SdHost

CONSTANTS
  Sizes,       \* bound: the sizes of the buffers that callers pass
  BlockSize,   \* 512, in the unit of Sizes
  MaxFaults,   \* bound: the faults of the hardware, and changes of the card
  BaseClocks   \* the base clocks a controller may report, in units of 100 kHz

ASSUME CallsAssumption == Sizes \subseteq Nat /\ BlockSize \in Nat \ {0}
                            /\ MaxFaults \in Nat

\* The controller tells its base clock in MHz, in eight bits.
ASSUME ClockAssumption == BaseClocks \subseteq {10 * mhz : mhz \in 0 .. 255}

VARIABLES
  at,        \* the step of the call in progress: "return" between two calls
  caller,    \* who called sd_card_init: "user", or "rca" and "state" of
             \* sd_ensure_data_mode
  call,      \* the arguments of sd_read_write
  tries,     \* retry_count
  result,    \* of the last call
  base,      \* the base clock of the controller
  divisor,   \* by which the card's clock is divided
  moved,     \* what the last data command moved, and how
  cut_short  \* an initialisation has failed and left an address

drvVars == <<tries, result, divisor, moved, cut_short>>
vars    == <<mailVars, faults, hostVars, at, caller, call, base, drvVars>>

NoCall  == [write |-> FALSE, size |-> 0]
Nothing == [blocks |-> 0, unit_fits |-> TRUE, len_fits |-> TRUE]

Init ==
  /\ MailInit /\ faults = MaxFaults
  /\ kind \in Kinds /\ card = FreshCard
  /\ ctrl \in {"quiet", "prompt", "slow"}
  /\ late = FALSE /\ host_wide = FALSE /\ app = FALSE
  /\ device = [rca |-> NoRca, sdhc |-> FALSE, s18 |-> FALSE, failed |-> FALSE,
               v2 |-> FALSE, blocks |-> 0]
  /\ at = "boot" /\ caller = "user" /\ call = NoCall /\ tries = 0 /\ result = "none"
  /\ base \in BaseClocks /\ divisor = 1
  /\ moved = Nothing /\ cut_short = FALSE

-----------------------------------------------------------------------------
(* The clock. *)

ClockId     == 4     \* SD_CLOCK_ID
ClockNormal == 250   \* SD_CLOCK_NORMAL

\* sd_get_base_clock_hz, with the 100 MHz assumed for 0.
BaseClock == IF base = 0 THEN 1000 ELSE base

\* The field of the register for a power of two, in ten bits: half of it.  The
\* controller divides by twice the field, and not at all when it is 0.
DividedBy(exponent) ==
  IF exponent = 0 THEN 1 ELSE IF exponent > 10 THEN 2 * 1023 ELSE 2 ^ exponent

\* Mutant of sd_get_clock_divider: rounded to the power of two below.
divider_rounds_down(target) ==
  LET quotient == BaseClock \div target
      below    == {b \in 0 .. 30 : 2 ^ b <= quotient}
  IN  DividedBy(CHOOSE b \in below : \A e \in below : e <= b)

\* sd_get_clock_divider: the quotient, one less if it is not exact, and the next
\* power of two.
sd_get_clock_divider(target) ==
  LET quotient == IF target > BaseClock THEN 1
                  ELSE BaseClock \div target - (IF BaseClock % target = 0 THEN 0 ELSE 1)
      enough   == {b \in 0 .. 30 : 2 ^ b >= quotient}
  IN  DividedBy(IF quotient = 0 THEN 31 ELSE CHOOSE b \in enough : \A e \in enough : b <= e)

-----------------------------------------------------------------------------
(* The end of a call, and of a step within one. *)

Return(res) == at' = "return" /\ result' = res

\* return -1 of sd_card_init, which keeps the address of this time or the last.
InitFails ==
  /\ Return("failed")
  /\ cut_short' = (cut_short \/ device.rca # NoRca)
  /\ UNCHANGED <<device, host_wide, divisor, tries, moved>>

\* Mutant of ForgetsCard: the address is kept.
KeepsCard == Return("failed") /\ UNCHANGED <<device, host_wide, divisor, tries, moved, cut_short>>

\* return -1 of sd_ensure_data_mode, which forgets the address.
ForgetsCard ==
  /\ Return("failed")
  /\ device' = [device EXCEPT !.rca = NoRca]
  /\ UNCHANGED <<host_wide, divisor, tries, moved, cut_short>>

\* The next step, which finds the device as d.
GotoWith(step, d) == at' = step /\ device' = d /\ UNCHANGED <<host_wide, drvVars>>
Goto(step)        == GotoWith(step, device)
Here              == Goto(at)

\* What an answer says: the truth, or anything when it is that of another command.
Says(r, truth, all) == IF r.stale THEN all ELSE {truth}

\* What no step within a call of sd_card_init changes.
Same == UNCHANGED <<mailVars, kind, ctrl, caller, call, base>>

\* The APP_CMD before an application command has succeeded.
Announce ==
  /\ at \in AppCommands /\ ~app
  /\ \E r \in sd_issue_command_int("APP_CMD") : r.success /\ Issued(r)
  /\ app' = TRUE /\ Here /\ Same

\* The end of sd_issue_command.
Answered(r) == Issued(r) /\ app' = FALSE /\ Same

-----------------------------------------------------------------------------
(* sd_card_init *)

\* bcm2835_setpower, of which the next step awaits the end.
PowerOn == /\ at = "power"
           /\ bcm2835_setpower("POWER_SD", TRUE)
           /\ at' = "reset"
           /\ UNCHANGED <<hostVars, caller, call, base, drvVars>>

\* The version, the reset of the controller and its clock, each of which may fail;
\* then the flags are cleared.
ResetController ==
  /\ at = "reset" /\ mail = "none"
  /\ \/ /\ divisor' = sd_get_clock_divider(ClockId)
        /\ host_wide' = FALSE /\ late' = FALSE
        /\ at' = "GO_IDLE_STATE"
        /\ UNCHANGED <<faults, device, tries, result, moved, cut_short>>
     \/ /\ faults > 0 /\ faults' = faults - 1
        /\ InitFails
        /\ UNCHANGED late
  /\ Same /\ UNCHANGED <<card, app>>

GoIdle == /\ at = "GO_IDLE_STATE"
          /\ \E r \in sd_issue_command(at) :
               /\ Answered(r)
               /\ IF r.success THEN Goto("SEND_IF_COND") ELSE InitFails

\* Mutant of sd_reset_cmd: the test of the bit as its message has it.
reset_cmd_works == ctrl # "slow"

\* sd_reset_cmd: -1 when the bit is 0 after a second, as it should be.
sd_reset_cmd == ctrl = "slow"

\* CMD8 or CMD5 may stay without an answer.
NotTaken(r) == TIMEOUT(r) \/ (CMD_TIMEOUT(r) /\ sd_reset_cmd)

SendIfCond ==
  /\ at = "SEND_IF_COND"
  /\ \E r \in sd_issue_command(at) :
       /\ Answered(r)
       /\ IF NotTaken(r)
          THEN GotoWith("IO_SET_OP_COND", [device EXCEPT !.v2 = FALSE])
          ELSE \/ r.success /\ GotoWith("IO_SET_OP_COND", [device EXCEPT !.v2 = TRUE])
               \/ (~r.success \/ r.stale) /\ InitFails

\* Only an SDIO card should answer.
IoSetOpCond ==
  /\ at = "IO_SET_OP_COND"
  /\ \E r \in sd_issue_command(at) :
       /\ Answered(r)
       /\ IF NotTaken(r) THEN Goto("INQUIRY") ELSE InitFails

Inquiry == /\ at = "INQUIRY"
           /\ \E r \in sd_issue_command(at) :
                /\ Answered(r)
                /\ IF r.success THEN Goto("SD_SEND_OP_COND") ELSE InitFails

\* The loop of ACMD41.  The bit for 1.8V is only believed until a switch has failed.
Identified(sdhc, s18) ==
  LET believed == IF device.failed THEN device.s18 ELSE s18
  IN  /\ at' = IF believed THEN "VOLTAGE_SWITCH" ELSE "ALL_SEND_CID"
      /\ device' = [device EXCEPT !.sdhc = sdhc, !.s18 = believed]
      /\ divisor' = sd_get_clock_divider(ClockNormal)
      /\ UNCHANGED <<host_wide, tries, result, moved, cut_short>>

SendOpCond ==
  /\ at = "SD_SEND_OP_COND"
  /\ \E r \in sd_issue_command(at) :
       /\ Answered(r)
       /\ IF ~r.success THEN InitFails
          ELSE \E ready \in Says(r, r.card.state = "ready", BOOLEAN) :
                 IF ready
                 THEN \E sdhc \in Says(r, kind.sdhc, BOOLEAN),
                         s18 \in Says(r, kind.s18 /\ ~card.v18, BOOLEAN) : Identified(sdhc, s18)
                 ELSE Here

SwitchFails == GotoWith("power_off", [device EXCEPT !.failed = TRUE])

VoltageSwitch == /\ at = "VOLTAGE_SWITCH"
                 /\ \E r \in sd_issue_command(at) :
                      /\ Answered(r)
                      /\ IF r.success THEN Goto("signals") ELSE SwitchFails

\* The data lines and the enable of 1.8V, tested three times.
CheckSignals ==
  /\ at = "signals"
  /\ \/ Goto("ALL_SEND_CID") /\ UNCHANGED faults
     \/ faults > 0 /\ faults' = faults - 1 /\ SwitchFails
  /\ Same /\ UNCHANGED <<card, late, app>>

\* sd_card_init calls itself after that.
PowerOff == /\ at = "power_off"
            /\ bcm2835_setpower("POWER_SD", FALSE)
            /\ at' = "power"
            /\ UNCHANGED <<hostVars, caller, call, base, drvVars>>

AllSendCid ==
  /\ at = "ALL_SEND_CID"
  /\ \E r \in sd_issue_command(at) :
       /\ Answered(r)
       /\ IF r.success THEN Goto("SEND_RELATIVE_ADDR") ELSE InitFails

\* The address is stored before the errors in the answer are looked at.
SendRelativeAddr ==
  /\ at = "SEND_RELATIVE_ADDR"
  /\ \E r \in sd_issue_command(at) :
       /\ Answered(r)
       /\ IF ~r.success THEN InitFails
          ELSE \E rca \in Says(r, Rca, {NoRca, Rca, BadRca}), good \in Says(r, TRUE, BOOLEAN) :
                 /\ device' = [device EXCEPT !.rca = rca]
                 /\ IF good THEN at' = "SELECT_CARD" /\ UNCHANGED <<result, cut_short>>
                    ELSE Return("failed") /\ cut_short' = TRUE
                 /\ UNCHANGED <<host_wide, divisor, tries, moved>>

GotoScr == GotoWith("SEND_SCR", [device EXCEPT !.blocks = 1])

SelectCard ==
  /\ at = "SELECT_CARD"
  /\ \E r \in sd_issue_command(at) :
       /\ Answered(r)
       /\ \/ r.success /\ IF device.sdhc THEN GotoScr ELSE Goto("SET_BLOCKLEN")
          \/ (~r.success \/ r.stale) /\ InitFails

SetBlocklen == /\ at = "SET_BLOCKLEN"
               /\ \E r \in sd_issue_command(at) :
                    /\ Answered(r)
                    /\ IF r.success THEN GotoScr ELSE InitFails

\* The SCR says whether the card has four data lines.
SendScr ==
  /\ at = "SEND_SCR"
  /\ \E r \in sd_issue_command(at) :
       /\ Answered(r)
       /\ IF r.success THEN Goto("SET_BUS_WIDTH") \/ Goto("finish") ELSE InitFails

\* A failure is only reported.
SetBusWidth ==
  /\ at = "SET_BUS_WIDTH"
  /\ \E r \in sd_issue_command(at) :
       /\ Answered(r)
       /\ at' = "finish"
       /\ host_wide' = (host_wide \/ r.success)
       /\ UNCHANGED <<device, drvVars>>

\* The flags are cleared, and the caller goes on.
InitSucceeds ==
  /\ at = "finish"
  /\ late' = FALSE /\ cut_short' = FALSE
  /\ at' = CASE caller = "rca" -> "status" [] caller = "state" -> "again" [] OTHER -> "return"
  /\ result' = IF caller = "user" THEN "initialised" ELSE result
  /\ Same /\ UNCHANGED <<faults, card, host_wide, device, app, tries, divisor, moved>>

InitStep ==
  \/ Announce
  \/ PowerOn \/ ResetController \/ GoIdle \/ SendIfCond \/ IoSetOpCond \/ Inquiry \/ SendOpCond
  \/ VoltageSwitch \/ CheckSignals \/ PowerOff \/ AllSendCid \/ SendRelativeAddr \/ SelectCard
  \/ SetBlocklen \/ SendScr \/ SetBusWidth \/ InitSucceeds

-----------------------------------------------------------------------------
(* sd_ensure_data_mode *)

\* The answer holds the state before the command.
SendStatus ==
  /\ at = "status"
  /\ \E r \in sd_issue_command("SEND_STATUS") :
       /\ Issued(r)
       /\ IF ~r.success THEN ForgetsCard /\ UNCHANGED caller
          ELSE \E state \in Says(r, card.state, CardStates) :
                 /\ Goto(CASE state = "stby" -> "select" [] state = "data" -> "stop"
                           [] state = "tran" -> "data" [] OTHER -> "power")
                 /\ caller' = "state"
  /\ UNCHANGED <<mailVars, kind, ctrl, call, base, app>>

Select == /\ at = "select"
          /\ \E r \in sd_issue_command("SELECT_CARD") :
               /\ Answered(r)
               /\ IF r.success THEN Goto("again") ELSE ForgetsCard

\* sd_reset_dat follows, whose result is not used.
StopTransmission ==
  /\ at = "stop"
  /\ \E r \in sd_issue_command("STOP_TRANSMISSION") :
       /\ Answered(r)
       /\ IF r.success THEN Goto("again") ELSE ForgetsCard

SendStatusAgain ==
  /\ at = "again"
  /\ \E r \in sd_issue_command("SEND_STATUS") :
       /\ Answered(r)
       /\ \/ /\ r.success /\ "tran" \in Says(r, card.state, CardStates)
             /\ Goto("data")
          \/ /\ ~r.success \/ Says(r, card.state, CardStates) # {"tran"}
             /\ ForgetsCard

-----------------------------------------------------------------------------
(* sd_do_data_command *)

\* The blocks are counted before the size is found to be no multiple.
CountBlocks ==
  /\ at = "data"
  /\ LET blocks == call.size \div BlockSize
         d == IF call.size < BlockSize THEN device ELSE [device EXCEPT !.blocks = blocks]
     IN  IF call.size >= BlockSize /\ call.size % BlockSize = 0
         THEN /\ at' = "try" /\ tries' = 0 /\ UNCHANGED result /\ device' = d
         ELSE /\ Return("failed") /\ UNCHANGED tries /\ device' = d
  /\ Same /\ UNCHANGED <<faults, card, late, app, host_wide, divisor, moved, cut_short>>

DataCommand ==
  IF call.write
  THEN IF device.blocks > 1 THEN "WRITE_MULTIPLE_BLOCK" ELSE "WRITE_BLOCK"
  ELSE IF device.blocks > 1 THEN "READ_MULTIPLE_BLOCK" ELSE "READ_SINGLE_BLOCK"

\* Mutant of Tried: giving up is not told from success.
TriedForgets(r) ==
  IF r.success \/ tries + 1 = 3 THEN Return("done") /\ UNCHANGED <<tries, device>>
  ELSE /\ tries' = tries + 1
       /\ UNCHANGED <<at, result, device>>

\* Mutant of Tried: one try too many.
TriedOnceMore(r) ==
  IF r.success THEN Return("done") /\ UNCHANGED <<tries, device>>
  ELSE /\ tries' = tries + 1
       /\ IF tries = 3
          THEN Return("failed") /\ device' = [device EXCEPT !.rca = NoRca]
          ELSE UNCHANGED <<at, result, device>>

\* Three tries, after which the card is initialised again by the next call.
Tried(r) ==
  IF r.success THEN Return("done") /\ UNCHANGED <<tries, device>>
  ELSE /\ tries' = tries + 1
       /\ IF tries' = 3
          THEN Return("failed") /\ device' = [device EXCEPT !.rca = NoRca]
          ELSE UNCHANGED <<at, result, device>>

\* An SDSC card gets the number of the byte for that of the block.
TryData ==
  /\ at = "try"
  /\ \E r \in sd_issue_command(DataCommand) :
       /\ Answered(r)
       /\ Tried(r)
       /\ moved' = [blocks |-> r.moved, unit_fits |-> device.sdhc = kind.sdhc,
                    len_fits |-> kind.sdhc \/ r.card.len512]
       /\ UNCHANGED <<host_wide, divisor, cut_short>>

DriverStep ==
  \/ InitStep
  \/ SendStatus \/ Select \/ StopTransmission \/ SendStatusAgain
  \/ CountBlocks \/ TryData

-----------------------------------------------------------------------------
(* The boot, the callers, the GPU and the hand that changes the card. *)

\* gpu_init, then usb_init.
Mail == MailStep /\ UNCHANGED <<hostVars, at, caller, call, base, drvVars>>

usb_init == /\ at = "boot"
            /\ bcm2835_setpower("POWER_USB", TRUE)
            /\ at' = "return"
            /\ UNCHANGED <<hostVars, caller, call, base, drvVars>>

\* A new call finds nothing of the last one but the device.
Begin(step, who, arguments) ==
  /\ at = "return" /\ mail = "none"
  /\ at' = step /\ caller' = who /\ call' = arguments
  /\ tries' = 0 /\ result' = "none" /\ moved' = Nothing
  /\ UNCHANGED <<mailVars, faults, hostVars, base, divisor, cut_short>>

sd_card_init == Begin("power", "user", NoCall)

sd_read_write(is_write, buf_size) ==
  Begin(IF device.rca = NoRca THEN "power" ELSE "status", "rca",
        [write |-> is_write, size |-> buf_size])

\* Without power the card forgets.
GpuStep == /\ Gpu
           /\ card' = IF "POWER_SD" \in power' THEN card ELSE FreshCard
           /\ UNCHANGED <<kind, ctrl, late, host_wide, device, app, at, caller, call, base, drvVars>>

ChangeCard ==
  /\ at # "boot" /\ faults > 0 /\ faults' = faults - 1
  /\ kind' \in Kinds /\ card' = FreshCard
  /\ UNCHANGED <<mailVars, ctrl, late, host_wide, device, app, at, caller, call, base, drvVars>>

Next ==
  \/ Mail \/ usb_init \/ GpuStep
  \/ sd_card_init
  \/ \E w \in BOOLEAN, size \in Sizes : sd_read_write(w, size)
  \/ DriverStep
  \/ ChangeCard

Spec == Init /\ [][Next]_vars

\* A call of a size that the driver can serve.
ServedCall == \E w \in BOOLEAN, blocks \in 1 .. MaxBlocks :
                blocks * BlockSize \in Sizes /\ sd_read_write(w, blocks * BlockSize)

\* The thread that makes a call gets its turns, the GPU answers, and a thread that
\* reads or writes does so again.
FairSpec == /\ Spec
            /\ WF_vars(Mail) /\ WF_vars(usb_init) /\ WF_vars(GpuStep) /\ WF_vars(DriverStep)
            /\ WF_vars(ServedCall)

-----------------------------------------------------------------------------
Steps == {"GO_IDLE_STATE", "SEND_IF_COND", "IO_SET_OP_COND", "INQUIRY", "SD_SEND_OP_COND",
          "VOLTAGE_SWITCH", "signals", "ALL_SEND_CID", "SEND_RELATIVE_ADDR", "SELECT_CARD",
          "SET_BLOCKLEN", "SEND_SCR", "SET_BUS_WIDTH", "finish",
          "status", "select", "stop", "again", "data", "try"}

\* Every variable has its type.
TypeOK ==
  /\ MailTypeOK /\ HostTypeOK
  /\ at \in Steps \cup {"boot", "return", "power", "power_off", "reset"}
  /\ caller \in {"user", "rca", "state"}
  /\ call \in [write : BOOLEAN, size : Sizes \cup {0}]
  /\ tries \in 0 .. 3 /\ result \in {"none", "done", "failed", "initialised"}
  /\ base \in BaseClocks /\ divisor \in 1 .. 2 * 1023
  /\ moved \in [blocks : Nat, unit_fits : BOOLEAN, len_fits : BOOLEAN]
  /\ cut_short \in BOOLEAN

\* Fewer faults than it takes to keep the flag of a late answer set from CMD5 to ACMD41,
\* whose answer then is that of an earlier command.
FewFaults == MaxFaults - faults < 5

\* A call that returns the size of its buffer has moved just its blocks, with one
\* command, whatever has failed.
MovesItsBlocks == at = "return" /\ result = "done" => moved.blocks * BlockSize = call.size

\* After few faults it has also moved them to or from the addresses of the card that
\* is in, and the card has the block length of the driver, unless an initialisation
\* has failed and left an address: the next call takes such a card for initialised.
SuccessMovesAll ==
  /\ MovesItsBlocks
  /\ at = "return" /\ result = "done" /\ FewFaults =>
       moved.unit_fits /\ (moved.len_fits \/ cut_short)

\* As long as nothing fails, no card ever gets an address behind a controller that
\* resets its command line as it should and reports a command without an answer.
InitNeedsSilence ==
  ctrl = "prompt" /\ faults = MaxFaults => device.rca = NoRca

\* The driver knows what is switched on, and talks to no card without power.
PoweredWhenUsed ==
  mail = "none" /\ at \in Steps => power = bcm2835_power_mask /\ "POWER_SD" \in power

\* Of a base clock that the two clocks divide, the card gets at most 400 kHz until
\* it is identified, and at most 25 MHz when data has moved, whatever has failed on
\* the way.  A failure may leave it at the slow clock for data too.
ClockInRange ==
  BaseClock % ClockId = 0 /\ BaseClock % ClockNormal = 0 =>
    /\ at \in {"GO_IDLE_STATE", "SEND_IF_COND", "IO_SET_OP_COND", "INQUIRY", "SD_SEND_OP_COND"} =>
         BaseClock <= ClockId * divisor
    /\ at = "return" /\ result = "done" => BaseClock <= ClockNormal * divisor

\* A buffer of more than 0xffff blocks makes every later command fail.
Poisoned == device.blocks > MaxBlocks

\* An SDHC card whose answer to CMD8 was missed is not asked for SDHC, and is busy
\* for ever.
WaitsForBusy == at = "SD_SEND_OP_COND" /\ kind.sdhc /\ ~device.v2

\* A call of a size that the driver can serve is in progress.
Serving == \E blocks \in 1 .. MaxBlocks : call.size = blocks * BlockSize

\* When the hardware fails no more and only such calls are made, they succeed again
\* and again, unless the driver is poisoned, waits for ever, or calls sd_card_init
\* from itself for ever.
Recovery ==
  ctrl # "prompt" /\ <>[](at # "return" => Serving) =>
    \/ []<>(at = "return" /\ result = "done")
    \/ <>[]Poisoned
    \/ <>[]WaitsForBusy
    \/ []<>(at = "power_off")
=============================================================================
