------------------------------- MODULE SdHost -------------------------------
(***************************************************************************)
(* One command of the SD card: sd_issue_command of src/kernel/sd_card.c,   *)
(* with the host controller and the card it talks to.  The controller      *)
(* shows an answer, an error, or nothing in time: then the answer may come *)
(* late and leave its flag for the next command.                           *)
(*                                                                         *)
(* The waits for the command and data lines to become free are taken to    *)
(* end, and the words of a block are not modelled.                         *)
(***************************************************************************)
EXTENDS Mailbox

CONSTANT MaxBlocks   \* 0xffff

ASSUME SdAssumption == MaxBlocks \in Nat \ {0}

NoRca  == 0
Rca    == 1      \* the address that a card publishes
BadRca == 2      \* what a stale answer may hold instead

VARIABLES
  kind,     \* the card that is in: is it of version 2, is it SDHC, and does it
            \* offer 1.8V unasked?  The driver asks only after a switch has failed
  card,     \* its state
  ctrl,     \* the controller: "quiet" shows nothing when a command is not
            \* answered; the others show an error, and a "slow" one takes more than
            \* a second to reset its command line
  late,     \* the flag of a late answer is set
  host_wide, \* the controller uses four data lines
  device,   \* the driver's struct
  app       \* the APP_CMD before an application command has been answered

hostVars == <<kind, card, ctrl, late, host_wide, device, app>>

\* Only SDHC cards have 1.8V, and only cards of version 2 are SDHC.
Kinds == {k \in [v2 : BOOLEAN, sdhc : BOOLEAN, s18 : BOOLEAN] :
            (k.s18 => k.sdhc) /\ (k.sdhc => k.v2)}

CardStates == {"idle", "ready", "ident", "stby", "tran", "data", "rcv"}

FreshCard == [state |-> "idle", rca |-> NoRca, app |-> FALSE, wide |-> FALSE,
              len512 |-> FALSE, v18 |-> FALSE]

\* After GO_IDLE_STATE only the voltage stays.
Idled(c) == [FreshCard EXCEPT !.v18 = c.v18]

ReadCommands  == {"READ_SINGLE_BLOCK", "READ_MULTIPLE_BLOCK", "SEND_SCR"}
WriteCommands == {"WRITE_BLOCK", "WRITE_MULTIPLE_BLOCK"}
AppCommands   == {"INQUIRY", "SD_SEND_OP_COND", "SET_BUS_WIDTH", "SEND_SCR"}
DataCommands  == ReadCommands \cup WriteCommands

\* The states of the card in which it takes a command.  The inquiry is ACMD41
\* with an empty voltage window.
Legal ==
  [GO_IDLE_STATE |-> CardStates, SEND_IF_COND |-> {"idle"}, IO_SET_OP_COND |-> {},
   APP_CMD |-> {"idle", "stby", "tran", "data", "rcv"},
   INQUIRY |-> {"idle"}, SD_SEND_OP_COND |-> {"idle"},
   VOLTAGE_SWITCH |-> {"ready"}, ALL_SEND_CID |-> {"ready"},
   SEND_RELATIVE_ADDR |-> {"ident", "stby"}, SELECT_CARD |-> {"stby"},
   SET_BLOCKLEN |-> {"tran"}, SEND_SCR |-> {"tran"}, SET_BUS_WIDTH |-> {"tran"},
   SEND_STATUS |-> {"stby", "tran", "data", "rcv"},
   STOP_TRANSMISSION |-> {"data", "rcv"},
   READ_SINGLE_BLOCK |-> {"tran"}, READ_MULTIPLE_BLOCK |-> {"tran"},
   WRITE_BLOCK |-> {"tran"}, WRITE_MULTIPLE_BLOCK |-> {"tran"}]

Commands == DOMAIN Legal

\* The card obeys a command that is addressed to it, is legal in its state, and
\* is announced when it is an application command.  An idle card may or may not
\* mind an address before it has one.
Obeys(c) ==
  /\ "POWER_SD" \in power
  /\ card.state \in Legal[c]
  /\ c \in AppCommands => card.app
  /\ c = "SEND_IF_COND" => kind.v2
  /\ c \in {"SELECT_CARD", "SEND_STATUS"} => device.rca = card.rca
  /\ c = "APP_CMD" /\ card.state # "idle" => device.rca = card.rca
  /\ c = "VOLTAGE_SWITCH" => kind.s18 /\ ~card.v18

MayIgnore(c) == c = "APP_CMD" /\ card.state = "idle" /\ device.rca # NoRca

\* ACMD41 with the host's support of SDHC: only a card of version 2 is asked,
\* and an SDHC card that is not asked stays busy.
Ready(c) == c = "SD_SEND_OP_COND" /\ (kind.sdhc => device.v2)

Moves ==
  [VOLTAGE_SWITCH |-> "ready", ALL_SEND_CID |-> "ident", SEND_RELATIVE_ADDR |-> "stby",
   SELECT_CARD |-> "tran", STOP_TRANSMISSION |-> "tran",
   READ_MULTIPLE_BLOCK |-> "data", WRITE_MULTIPLE_BLOCK |-> "rcv"]

\* The card after a command it has obeyed.
After(c) ==
  IF c = "GO_IDLE_STATE" THEN Idled(card)
  ELSE [card EXCEPT
    !.state  = CASE c \in DOMAIN Moves -> Moves[c] [] Ready(c) -> "ready" [] OTHER -> @,
    !.rca    = IF c = "SEND_RELATIVE_ADDR" THEN Rca ELSE @,
    !.app    = (c = "APP_CMD"),
    !.wide   = @ \/ c = "SET_BUS_WIDTH",
    !.len512 = @ \/ c = "SET_BLOCKLEN",
    !.v18    = @ \/ c = "VOLTAGE_SWITCH"]

-----------------------------------------------------------------------------
\* What sd_issue_command_int may leave: last_cmd_success and last_error, the
\* card, the flag, the faults, whether the answer is that of an earlier command,
\* and the blocks it has moved.
Result(ok, err, crd, flag, fault) ==
  [success |-> ok, error |-> err, card |-> crd, late |-> flag, fault |-> fault,
   stale |-> FALSE, moved |-> 0]

\* TIMEOUT and CMD_TIMEOUT of sd_host_defs.h
TIMEOUT(r)     == ~r.success /\ r.error = "none"
CMD_TIMEOUT(r) == ~r.success /\ r.error = "cto"

\* Nothing shows in time: with the flag of a late answer this looks like success.
Silence(crd, flag, fault) ==
  [Result(late, "none", crd, flag, fault) EXCEPT !.stale = late]

\* A command to which the card does not answer.
Unanswered(fault) ==
  IF ctrl = "quiet" THEN Silence(card, FALSE, fault) ELSE Result(FALSE, "cto", card, FALSE, fault)

\* The command itself, when nothing goes wrong.
Sent(c) ==
  IF c = "GO_IDLE_STATE"
  THEN {Result(TRUE, "none", IF Obeys(c) THEN After(c) ELSE card, FALSE, 0)}
  ELSE (IF Obeys(c) THEN {Result(TRUE, "none", After(c), FALSE, 0)} ELSE {})
         \cup (IF ~Obeys(c) \/ MayIgnore(c) THEN {Unanswered(0)} ELSE {})

\* It is lost, or its answer is: garbled or late.  A GO_IDLE_STATE the card does
\* not hear succeeds, for it has no answer.  Or the card needs more time.
Lost(c) ==
  LET taken == IF Obeys(c) THEN After(c) ELSE card
  IN  {Unanswered(1), Silence(card, FALSE, 1), Result(FALSE, "err", taken, FALSE, 1),
       Silence(taken, TRUE, 1)}
        \cup (IF c = "GO_IDLE_STATE" THEN {Result(TRUE, "none", card, FALSE, 1)} ELSE {})
        \cup (IF c = "SD_SEND_OP_COND" /\ Obeys(c)
              THEN {Result(TRUE, "none", [card EXCEPT !.app = FALSE], FALSE, 1)} ELSE {})

\* The data stage, after the command r has succeeded: every block, or a failure
\* before the first, in the middle, or in the end.  A read that fails leaves the
\* card where it was or still sending, a write waiting for more.
DataStage(c, r) ==
  IF r.stale \/ r.card.wide # host_wide
  THEN {[r EXCEPT !.success = FALSE, !.error = "err"]}
  ELSE LET busy == [r.card EXCEPT !.state = IF c \in WriteCommands THEN "rcv" ELSE "data"]
       IN  {[r EXCEPT !.moved = device.blocks]}
             \cup (IF r.fault > 0 THEN {} ELSE
                   {[r EXCEPT !.success = FALSE, !.error = "err", !.fault = 1,
                              !.card = crd, !.moved = k] :
                      crd \in {r.card, busy}, k \in {0, device.blocks - 1, device.blocks}})

\* sd_issue_command_int.  Too many blocks refuse every command, also one
\* without data, and leave last_error as some earlier command did.
sd_issue_command_int(c) ==
  IF device.blocks > MaxBlocks
  THEN {Result(FALSE, err, card, late, 0) : err \in {"none", "cto", "err"}}
  ELSE LET sent == Sent(c) \cup Lost(c)
       IN  {r \in sent : ~r.success \/ c \notin DataCommands}
             \cup UNION {DataStage(c, r) : r \in {s \in sent : s.success /\ c \in DataCommands}}

\* One command has had the result r.
Issued(r) ==
  /\ r.fault <= faults /\ faults' = faults - r.fault
  /\ card' = r.card /\ late' = r.late

\* sd_issue_command: APP_CMD goes before an application command, which follows
\* only when it has succeeded.
sd_issue_command(c) ==
  IF c \in AppCommands /\ ~app
  THEN {r \in sd_issue_command_int("APP_CMD") : ~r.success}
  ELSE sd_issue_command_int(c)

HostTypeOK ==
  /\ kind \in Kinds
  /\ card \in [state : CardStates, rca : {NoRca, Rca}, app : BOOLEAN, wide : BOOLEAN,
               len512 : BOOLEAN, v18 : BOOLEAN]
  /\ ctrl \in {"quiet", "prompt", "slow"}
  /\ {late, host_wide, app} \subseteq BOOLEAN
  /\ device \in [rca : {NoRca, Rca, BadRca}, sdhc : BOOLEAN, s18 : BOOLEAN,
                 failed : BOOLEAN, v2 : BOOLEAN, blocks : Nat]
=============================================================================
