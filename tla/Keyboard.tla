------------------------------ MODULE Keyboard ------------------------------
(***************************************************************************)
(* The USB keyboard driver of src/kernel/usb.c: kernel_main's thread runs  *)
(* keyboard_enum once and then get_line for ever, with IRQs enabled, one   *)
(* step per access of what the interrupt handler shares; an interrupt runs *)
(* the clearer and the handler with IRQs masked, in one step.              *)
(*                                                                         *)
(* The host channel executes one stage of a transfer at a time and halts.  *)
(* A stage has no other outcome here: the handler does not look for one.   *)
(* What a channel does that is programmed while it executes a stage        *)
(* (clash), the hardware leaves open: there the model stops.               *)
(***************************************************************************)
EXTENDS Integers, SequencesExt

CONSTANTS
  Key,       \* the printable characters but LF
  LF, NUL,   \* enter, and ASCII_NULL
  RepLen,    \* keys in a report (6)
  Leftover,  \* what byte 8 of transfer_buffer, left from enumeration, means
  BufLen,    \* the size of line_buffer (256)
  LineLen,   \* len, the size of get_line's caller's buffer
  MaxTyped,  \* bound: characters accepted in one call of get_line before LF
  Patient    \* bound: do the thread's delays of 2 s outlast the request in progress?

Char   == Key \cup {LF}
Report == UNION {[1 .. n -> Char] : n \in 0 .. RepLen}

ASSUME CharAssumption == LF \notin Key /\ NUL \notin Char /\ Leftover \in Char \cup {NUL}
ASSUME SizeAssumption == RepLen \in Nat /\ BufLen \in Nat \ {0} /\ LineLen \in Nat \ {0}
ASSUME BoundAssumption == MaxTyped \in Nat /\ Patient \in BOOLEAN

\* keyboard_enum's requests of usb_poll: the device descriptor (7), twice the
\* configuration descriptor (4), set configuration (2).
Enumeration == <<"device", "config", "config", "set_config">>
HasData     == {"device", "config", "report", "torn_data"}   \* those with a wLength
\* A torn packet is half stored; without the length or the value that a descriptor
\* should have given, "config" asks for nothing and "set_config" for configuration 0.
Setup       == {"set_address", "report", "none", "torn", "torn_data", "empty_config", "unconfigure"}
                 \cup {Enumeration[i] : i \in DOMAIN Enumeration}

DeviceStatus == {"POWERED", "RESET", "ADDRESSED", "CONFIGURED", "COUNT"}
ControlStage == {"setup", "data", "status"}
Stage        == ControlStage \cup {"out", "in"}
EnumPoint    == {"poll", "prev", "unset", "rewind", "activate", "packet", "packet_end",
                 "mask", "switch", "store", "program", "clear", "settle", "configure"}
LinePoint    == {"line", "reset_cursor", "reset_buffer", "loop", "test", "test_active",
                 "claim", "start", "go", "copy"}

VARIABLES
  \* usb.c
  dev_stat, control_phase, interrupt_phase, transfer_active,
  interrupt_poll_active, can_poll,
  request,        \* what setup_data asks for
  prev_transfer,  \* the request of usb_poll, "none" for 255
  config_val,     \* has the handler read it from the descriptor?
  config_desc_len,   \* is it not 0?
  descriptor,     \* what transfer_buffer holds: "device", "config" or "none", zeros
  report,         \* the keys in transfer_buffer
  enter_pressed, line_buffer, cursor,
  wiped,          \* the byte bzero clears next
  \* the thread
  at, polls, returned,
  stage,          \* control_transfer's local: the case of its switch
  \* the host controller, its port and the keyboard
  channel,        \* the stage it executes, or "idle"
  mask,           \* is interrupt_mask of the channel set?
  halted,         \* the channel's interrupt
  port_intr, connected,
  host_port_status,  \* connected, as the clearer last read it
  device,         \* "default", "addressed" or "configured"
  asked,          \* the request of the last setup stage
  \* history
  clash,          \* the channel was programmed while it executed a stage
  untimely,       \* see Untimely
  echoed          \* reports put on the screen since get_line was called

statVars    == <<dev_stat, control_phase, interrupt_phase, transfer_active,
                 interrupt_poll_active, can_poll>>
enumVars    == <<request, prev_transfer, config_val, config_desc_len>>
lineVars    == <<enter_pressed, line_buffer, cursor, wiped, echoed>>
threadVars  == <<at, polls, returned, stage, untimely>>
channelVars == <<channel, mask, halted, clash>>
portVars    == <<port_intr, connected, host_port_status>>
deviceVars  == <<device, asked, descriptor>>
transferVars == <<statVars, channelVars, request, report, descriptor>>
vars == <<statVars, enumVars, report, lineVars, threadVars, channelVars,
          portVars, deviceVars>>

TypeOK ==
  /\ dev_stat \in DeviceStatus
  /\ control_phase \in 0 .. 2 /\ interrupt_phase \in 0 .. 3
  /\ {transfer_active, interrupt_poll_active, can_poll, config_val,
      config_desc_len, enter_pressed, mask, halted, port_intr, connected, host_port_status,
      clash, untimely} \subseteq BOOLEAN
  /\ {request, prev_transfer, asked} \subseteq Setup
  /\ descriptor \in {"none", "device", "config"} /\ stage \in ControlStage
  /\ report \in Report /\ echoed \in Seq(Seq(Char \cup {NUL}))
  /\ line_buffer \in [0 .. BufLen - 1 -> Char \cup {NUL}] /\ cursor \in 0 .. BufLen
  /\ wiped \in 0 .. BufLen - 1
  /\ at \in EnumPoint \cup LinePoint /\ polls \in DOMAIN Enumeration
  /\ returned \in Nat
  /\ channel \in Stage \cup {"idle"}
  /\ device \in {"default", "addressed", "configured"}

\* usb_init has powered the port; a keyboard may be plugged in at any time.
Init ==
  /\ dev_stat = "COUNT"
  /\ control_phase = 0 /\ interrupt_phase = 0
  /\ transfer_active = FALSE /\ interrupt_poll_active = FALSE /\ can_poll = FALSE
  /\ request = "none" /\ prev_transfer = "none" /\ config_val = FALSE
  /\ config_desc_len = TRUE /\ descriptor = "none" /\ asked = "none"
  /\ report = <<>> /\ echoed = <<>>
  /\ enter_pressed = FALSE
  /\ line_buffer = [i \in 0 .. BufLen - 1 |-> NUL] /\ cursor = 0 /\ wiped = 0
  /\ at = "poll" /\ polls = 1 /\ returned = 0 /\ stage = "setup" /\ untimely = FALSE
  /\ channel = "idle" /\ mask = FALSE /\ halted = FALSE /\ clash = FALSE
  /\ port_intr = FALSE /\ connected = FALSE /\ host_port_status = FALSE
  /\ device = "default"

-----------------------------------------------------------------------------
(* Programming the channel.                                                *)

\* The characteristics are stored, at first without the bit that enables the channel
\* (usb.c:209, 666): a channel that executes a stage is disturbed.
Disturb == clash' = (clash \/ channel # "idle")

Program(g) == channel' = g /\ Disturb

\* Stage g of a control transfer, of request r.
Transfer(g, r) == Program(g) /\ asked' = IF g = "setup" THEN r ELSE asked

StageOf(p) == IF p = 0 THEN "setup" ELSE IF p = 1 THEN "data" ELSE "status"
NextPhase(g, r) ==
  CASE g = "setup"  -> IF r \in HasData THEN 1 ELSE 2
    [] g = "data"   -> 2
    [] g = "status" -> 0

\* control_transfer at phase p of request r, called by the handler.
control_transfer(p, r) ==
  Transfer(StageOf(p), r) /\ control_phase' = NextPhase(StageOf(p), r)

-----------------------------------------------------------------------------
(* The line buffer.                                                        *)

\* The loop of buf_key_data_check looks at 7 keys of a report of 6.
KeysRead == IF Len(report) = RepLen /\ Leftover # NUL
            THEN Append(report, Leftover) ELSE report

\* Mutant: no test that the line buffer has room.
buf_key_data_check_unbounded ==
  IF enter_pressed
  THEN UNCHANGED lineVars
  ELSE /\ line_buffer' = [i \in 0 .. BufLen - 1 |->
                            IF i - cursor + 1 \in DOMAIN KeysRead
                            THEN KeysRead[i - cursor + 1] ELSE line_buffer[i]]
       /\ cursor' = cursor + Len(KeysRead)
       /\ enter_pressed' = \E i \in DOMAIN KeysRead : KeysRead[i] = LF
       /\ echoed' = IF KeysRead = <<>> THEN echoed ELSE Append(echoed, KeysRead)
       /\ UNCHANGED wiped

buf_key_data_check ==
  IF enter_pressed
  THEN UNCHANGED lineVars
  ELSE LET n == IF Len(KeysRead) < BufLen - cursor THEN Len(KeysRead) ELSE BufLen - cursor
       IN  /\ line_buffer' = [i \in 0 .. BufLen - 1 |->
                                IF i \in cursor .. cursor + n - 1
                                THEN KeysRead[i - cursor + 1] ELSE line_buffer[i]]
           /\ cursor' = cursor + n
           /\ enter_pressed' = \E i \in DOMAIN KeysRead : KeysRead[i] = LF
           /\ echoed' = IF KeysRead = <<>> THEN echoed ELSE Append(echoed, KeysRead)
           /\ UNCHANGED wiped

\* Mutant: the newline is copied too.
CopiedWithLF(len) == IF cursor <= len THEN cursor ELSE len + 1

\* The characters get_line copies to a buffer of len, and where it puts '\0'.
Copied(len) == IF cursor = 0 THEN 0 ELSE IF cursor - 1 <= len THEN cursor - 1
               ELSE len - 1

-----------------------------------------------------------------------------
(* The interrupt.                                                          *)

Pending == port_intr \/ (halted /\ mask)

\* usb_interrupt_clearer: dev_stat and transfer_active as the handler finds
\* them, from the port status s.
PluggedIn(s)  == s /\ dev_stat = "COUNT"
\* Mutant: a disconnect is not taken note of.
ClearedStatKept(s) == IF PluggedIn(s) THEN "POWERED" ELSE dev_stat

ClearedStat(s) == IF PluggedIn(s) THEN "POWERED" ELSE IF s THEN dev_stat ELSE "COUNT"
ClearedActive(s) == PluggedIn(s) \/ (s /\ transfer_active)

\* The clearer masks the channel when that is what interrupts.
MaskAfterClear == mask /\ ~halted

\* The branches of usb_interrupt_handler, with s the port status.
PowerUp == \* reset the port, which enables it
  /\ dev_stat' = "RESET" /\ transfer_active' = TRUE
  /\ port_intr' = TRUE /\ device' = "default"
  /\ mask' = MaskAfterClear
  /\ UNCHANGED <<control_phase, interrupt_phase, can_poll, enumVars, report,
                 lineVars, channel, clash, asked, descriptor>>

Address ==
  LET done == control_phase = 2 IN
  /\ dev_stat' = IF done THEN "ADDRESSED" ELSE "RESET"
  /\ transfer_active' = TRUE
  /\ request' = "set_address"
  /\ mask' = TRUE /\ control_transfer(control_phase, "set_address")
  /\ port_intr' = FALSE
  /\ UNCHANGED <<interrupt_phase, can_poll, prev_transfer, config_val, config_desc_len,
                 report, lineVars, device, descriptor>>

\* Mutant: usb_poll is not told that the request is over.
ControlForgets ==
  /\ dev_stat' = "ADDRESSED" /\ transfer_active' = (control_phase # 2)
  /\ mask' = TRUE /\ control_transfer(control_phase, request)
  /\ port_intr' = FALSE
  /\ can_poll' = (can_poll \/ (control_phase = 2 /\ request = "set_address"))
  /\ UNCHANGED <<interrupt_phase, enumVars, report, lineVars, device, descriptor>>

Control ==
  LET done == control_phase = 2 IN
  /\ dev_stat' = "ADDRESSED"
  /\ transfer_active' = ~done
  /\ can_poll' = (can_poll \/ done)
  /\ mask' = TRUE /\ control_transfer(control_phase, request)
  /\ port_intr' = FALSE
  /\ UNCHANGED <<interrupt_phase, enumVars, report, lineVars, device, descriptor>>

\* Mutant: phase 2 is not followed by phase 0.
PollPhaseKept ==
  /\ dev_stat' = "CONFIGURED"
  /\ interrupt_phase' = 2
  /\ IF interrupt_phase = 1 THEN transfer_active' = TRUE /\ report' = <<>> /\ Program("in")
                            ELSE transfer_active' = FALSE /\ UNCHANGED <<report, channel, clash>>
  /\ mask' = TRUE
  /\ UNCHANGED <<control_phase, can_poll, enumVars, lineVars, deviceVars>>
  /\ port_intr' = FALSE

\* Mutant: case 1 has no break and falls through to case 2.
PollFallsThrough ==
  /\ dev_stat' = "CONFIGURED"
  /\ interrupt_phase' = 0 /\ transfer_active' = FALSE /\ report' = <<>>
  /\ IF interrupt_phase = 1 THEN UNCHANGED lineVars /\ Program("in")
                            ELSE buf_key_data_check /\ UNCHANGED <<channel, clash>>
  /\ mask' = TRUE /\ port_intr' = FALSE
  /\ UNCHANGED <<control_phase, can_poll, enumVars, deviceVars>>

\* Mutant: the transfer stays active after the report.
PollStaysActive ==
  /\ dev_stat' = "CONFIGURED"
  /\ IF interrupt_phase = 1
     THEN /\ interrupt_phase' = 2 /\ report' = <<>> /\ Program("in")
          /\ UNCHANGED lineVars
     ELSE /\ interrupt_phase' = 0 /\ buf_key_data_check
          /\ UNCHANGED <<report, channel, clash>>
  /\ transfer_active' = TRUE /\ mask' = TRUE /\ port_intr' = FALSE
  /\ UNCHANGED <<control_phase, can_poll, enumVars, deviceVars>>

\* key_poll(0) and buf_key_data_check
Poll ==
  /\ dev_stat' = "CONFIGURED"
  /\ \/ /\ interrupt_phase \notin {1, 2}
        /\ mask' = MaskAfterClear
        /\ UNCHANGED <<interrupt_phase, transfer_active, report, lineVars, channel, clash>>
     \/ /\ interrupt_phase = 1
        /\ interrupt_phase' = 2 /\ transfer_active' = TRUE /\ report' = <<>>
        /\ mask' = TRUE /\ Program("in")
        /\ UNCHANGED lineVars
     \/ /\ interrupt_phase = 2
        /\ interrupt_phase' = 0 /\ transfer_active' = FALSE
        /\ buf_key_data_check
        /\ mask' = MaskAfterClear
        /\ UNCHANGED <<report, channel, clash>>
  /\ port_intr' = FALSE
  /\ UNCHANGED <<control_phase, can_poll, enumVars, deviceVars>>

\* Nothing is active: the last stage of a request of usb_poll has completed, and
\* prev_transfer says what transfer_buffer is to be read as.
Finish(s) ==
  /\ dev_stat' = ClearedStat(s) /\ transfer_active' = FALSE
  /\ IF prev_transfer = "config"
     THEN /\ config_val' = (descriptor = "config")
          /\ config_desc_len' = (descriptor # "none")
     ELSE UNCHANGED <<config_val, config_desc_len>>
  /\ prev_transfer' = "none"
  /\ mask' = MaskAfterClear
  /\ port_intr' = FALSE
  /\ UNCHANGED <<control_phase, interrupt_phase, can_poll, request, report,
                 lineVars, channel, clash, deviceVars>>

Interrupt ==
  LET s == IF port_intr THEN connected ELSE host_port_status IN
  /\ Pending /\ ~clash
  /\ host_port_status' = s
  /\ interrupt_poll_active' = (interrupt_poll_active /\ s)
  /\ halted' = (halted /\ ~mask)
  /\ \/ ~ClearedActive(s) /\ Finish(s)
     \/ ClearedActive(s) /\ ClearedStat(s) = "POWERED"    /\ PowerUp
     \/ ClearedActive(s) /\ ClearedStat(s) = "RESET"      /\ Address
     \/ ClearedActive(s) /\ ClearedStat(s) = "ADDRESSED"  /\ Control
     \/ ClearedActive(s) /\ ClearedStat(s) = "CONFIGURED" /\ Poll
  /\ UNCHANGED <<threadVars, connected>>

-----------------------------------------------------------------------------
(* keyboard_enum, with IRQs enabled.                                       *)

StageOver == channel = "idle" /\ ~Pending

\* A transfer is started before the last one is over: usb_poll finds can_poll set
\* at the start of its last stage (usb.c:335), or key_poll finds transfer_active reset
\* by a disconnect since it tested interrupt_poll_active (usb.c:628).
Untimely == \/ at = "poll" /\ ~StageOver
            \/ at = "test_active" /\ ~interrupt_poll_active

\* A step of usb_poll and of the control_transfer it calls, which leaves kept alone.
pollVars == <<can_poll, prev_transfer, control_phase, transfer_active, request, mask,
              stage, channel, asked, clash>>
Polls(from, to, kept) ==
  /\ at = from /\ at' = to
  /\ UNCHANGED <<kept, dev_stat, interrupt_phase, interrupt_poll_active, config_val,
                 config_desc_len, report, lineVars, polls, returned, halted, portVars,
                 device, descriptor>>
  /\ untimely' = (untimely \/ Untimely)

\* What setup_data is to ask for.
Packet == LET r == Enumeration[polls] IN
  IF r = "config" /\ ~config_desc_len THEN "empty_config"
  ELSE IF r = "set_config" /\ ~config_val THEN "unconfigure" ELSE r

\* poll_wait's call that finds can_poll set; its delays are between the others.
usb_poll ==
  \/ can_poll /\ Polls("poll", "prev", pollVars)
  \/ /\ prev_transfer' = Enumeration[polls]
     /\ Polls("prev", "unset", <<can_poll, control_phase, transfer_active, request, mask,
                                stage, channel, asked, clash>>)
  \/ /\ can_poll' = FALSE
     /\ Polls("unset", "rewind", <<prev_transfer, control_phase, transfer_active, request,
                                  mask, stage, channel, asked, clash>>)
  \/ /\ control_phase' = 0
     /\ Polls("rewind", "activate", <<can_poll, prev_transfer, transfer_active, request,
                                     mask, stage, channel, asked, clash>>)
  \/ /\ transfer_active' = TRUE
     /\ Polls("activate", "packet", <<can_poll, prev_transfer, control_phase, request,
                                     mask, stage, channel, asked, clash>>)

\* setup_data, wLength last.
SetupData ==
  /\ \/ at = "packet" /\ request' = IF request \in HasData THEN "torn_data" ELSE "torn"
     \/ at = "packet_end" /\ request' = Packet
  /\ Polls(at, IF at = "packet" THEN "packet_end" ELSE "mask",
           <<can_poll, prev_transfer, control_phase, transfer_active, mask, stage,
             channel, asked, clash>>)

Unmask ==
  /\ mask' = TRUE
  /\ Polls("mask", "switch", <<can_poll, prev_transfer, control_phase, transfer_active,
                              request, stage, channel, asked, clash>>)

\* control_transfer in the thread: the characteristics are stored and control_phase is
\* read, then set; then the channel is programmed.
Switch ==
  /\ stage' = StageOf(control_phase) /\ Disturb
  /\ Polls("switch", "store", <<can_poll, prev_transfer, control_phase, transfer_active,
                               request, mask, channel, asked>>)

StorePhase ==
  /\ control_phase' = NextPhase(stage, request)
  /\ Polls("store", "program", <<can_poll, prev_transfer, transfer_active, request, mask,
                                stage, channel, asked, clash>>)

StartRequest ==
  /\ Transfer(stage, request) /\ stage' = "setup"
  /\ Polls("program", IF polls = 1 THEN "clear" ELSE "settle",
           <<can_poll, prev_transfer, control_phase, transfer_active, request, mask>>)

\* The bzero of transfer_buffer after the first request.
ClearBuffer ==
  /\ at = "clear" /\ at' = "poll" /\ polls' = 2
  /\ descriptor' = "none" /\ report' = <<>>
  /\ UNCHANGED <<statVars, enumVars, lineVars, returned, stage, untimely, channelVars,
                 portVars, device, asked>>

\* The delays of 2 s after the others.
Settle ==
  /\ at = "settle" /\ (Patient => StageOver)
  /\ IF polls = Len(Enumeration) THEN at' = "configure" /\ UNCHANGED polls
                                 ELSE at' = "poll" /\ polls' = polls + 1
  /\ UNCHANGED <<statVars, enumVars, report, lineVars, returned, stage, untimely, channelVars,
                 portVars, deviceVars>>

\* The three flags: after 2 s nothing of the enumeration can interrupt.
Configure ==
  /\ at = "configure"
  /\ dev_stat' = "CONFIGURED" /\ interrupt_poll_active' = TRUE /\ interrupt_phase' = 0
  /\ at' = "line"
  /\ UNCHANGED <<control_phase, transfer_active, can_poll, enumVars, report, lineVars,
                 polls, returned, stage, untimely, channelVars, portVars, deviceVars>>

keyboard_enum ==
  /\ ~clash
  /\ \/ usb_poll \/ SetupData \/ Unmask \/ Switch \/ StorePhase \/ StartRequest
     \/ ClearBuffer \/ Settle \/ Configure

-----------------------------------------------------------------------------
(* get_line and key_poll(1), with IRQs enabled.                            *)

Goes(from, to) == /\ at = from /\ at' = to
                  /\ untimely' = (untimely \/ (to = "claim" /\ Untimely))
                  /\ UNCHANGED <<polls, stage, prev_transfer, config_val, config_desc_len,
                                portVars, device, asked>>

\* The three statements that empty the line buffer.
get_line ==
  /\ Goes("line", "reset_cursor")
  /\ enter_pressed' = FALSE /\ echoed' = <<>>
  /\ UNCHANGED <<line_buffer, cursor, wiped, returned, transferVars>>

\* Mutant: the cursor is left where it is.
LeaveCursor ==
  /\ Goes("reset_cursor", "reset_buffer")
  /\ UNCHANGED <<lineVars, returned, transferVars>>

ResetCursor ==
  /\ Goes("reset_cursor", "reset_buffer")
  /\ cursor' = 0
  /\ UNCHANGED <<enter_pressed, line_buffer, wiped, echoed, returned, transferVars>>

\* bzero, byte by byte
ResetBuffer ==
  /\ Goes("reset_buffer", IF wiped = BufLen - 1 THEN "loop" ELSE "reset_buffer")
  /\ line_buffer' = [line_buffer EXCEPT ![wiped] = NUL] /\ wiped' = (wiped + 1) % BufLen
  /\ UNCHANGED <<enter_pressed, cursor, echoed, returned, transferVars>>

Loop ==
  /\ Goes("loop", IF enter_pressed THEN "copy" ELSE "test")
  /\ UNCHANGED <<lineVars, returned, transferVars>>

\* key_poll: the test of two flags, the claim of the transfer, and its start.  Only
\* the thread moves interrupt_phase between the switch on it (usb.c:640) and its
\* increment.
key_poll ==
  /\ Goes("test", IF interrupt_poll_active THEN "test_active" ELSE "loop")
  /\ UNCHANGED <<lineVars, returned, transferVars>>

TestActive ==
  /\ Goes("test_active", IF transfer_active THEN "loop" ELSE "claim")
  /\ UNCHANGED <<lineVars, returned, transferVars>>

Claim ==
  /\ Goes("claim", "start")
  /\ report' = <<>> /\ descriptor' = "none" /\ transfer_active' = TRUE
  /\ UNCHANGED <<lineVars, returned, dev_stat, control_phase, interrupt_phase,
                 interrupt_poll_active, can_poll, request, channelVars>>

UnmaskPoll ==
  /\ Goes("start", "go")
  /\ mask' = TRUE /\ Disturb
  /\ UNCHANGED <<lineVars, returned, statVars, request, report, descriptor, channel,
                 halted>>

StartPoll ==
  /\ Goes("go", "loop")
  /\ Program(IF interrupt_phase = 1 THEN "in" ELSE "out")
  /\ request' = IF interrupt_phase = 0 THEN "report" ELSE request
  /\ interrupt_phase' = interrupt_phase + 1
  /\ UNCHANGED <<lineVars, returned, report, descriptor, dev_stat, control_phase,
                 transfer_active, interrupt_poll_active, can_poll, mask, halted>>

\* The caller gets the line, uses it and calls get_line again.
Copy ==
  /\ Goes("copy", "line")
  /\ returned' = Copied(LineLen)
  /\ UNCHANGED <<lineVars, transferVars>>

Line == /\ ~clash
        /\ \/ get_line \/ ResetCursor \/ ResetBuffer \/ Loop \/ key_poll \/ TestActive
           \/ Claim \/ UnmaskPoll \/ StartPoll \/ Copy

-----------------------------------------------------------------------------
(* The controller, the keyboard and its user.                              *)

Typed == FoldLeft(LAMBDA n, r : n + Len(r), 0, echoed)

\* A stage ends and the channel halts.  The keyboard has taken the setup packet,
\* as it was or as it is by now, has answered with the descriptor asked for, has
\* done what was asked, or has filled the report, empty if no key is pressed.
ChannelDone ==
  /\ channel # "idle" /\ ~clash
  /\ channel' = "idle" /\ halted' = TRUE
  /\ asked' \in IF channel = "setup" THEN {asked, request}
                ELSE IF channel = "status" THEN {"none"} ELSE {asked}
  /\ descriptor' = IF channel = "data" /\ asked \in {"device", "config"} THEN asked
                   ELSE descriptor
  /\ IF channel = "in" /\ device = "configured"
     THEN report' \in {r \in Report : Typed + Len(r) <= MaxTyped \/ r = <<LF>>}
     ELSE UNCHANGED report
  /\ device' = IF channel # "status" \/ ~connected THEN device
               ELSE IF asked = "set_address" THEN "addressed"
               ELSE IF asked = "set_config" THEN "configured"
               ELSE device
  /\ UNCHANGED <<statVars, enumVars, lineVars, threadVars, mask, clash, portVars>>

\* Bounds: the keyboard is not pulled out during the enumeration, nor put in
\* again before the driver has noticed, nor within a stage or a call of key_poll.
Unplug ==
  /\ connected /\ dev_stat = "CONFIGURED" /\ ~clash
  /\ connected' = FALSE /\ port_intr' = TRUE /\ device' = "default" /\ asked' = "none"
  /\ UNCHANGED <<statVars, enumVars, report, lineVars, threadVars, channelVars,
                 host_port_status, descriptor>>

Plug ==
  /\ ~connected /\ ~port_intr /\ StageOver /\ ~clash
  /\ at \notin {"test_active", "claim", "start", "go"}
  /\ connected' = TRUE /\ port_intr' = TRUE
  /\ UNCHANGED <<statVars, enumVars, report, lineVars, threadVars, channelVars,
                 host_port_status, deviceVars>>

Next == keyboard_enum \/ Line \/ Interrupt \/ ChannelDone \/ Unplug \/ Plug

Spec == Init /\ [][Next]_vars

\* The thread gets the CPU again and again (RoundRobin in Kernel), an interrupt
\* is served and a stage ends.  Nobody has to plug in or to type.
FairSpec == Spec /\ WF_vars(keyboard_enum \/ Line) /\ WF_vars(Interrupt)
                 /\ WF_vars(ChannelDone)

-----------------------------------------------------------------------------
\* The thread and the handler both program the one channel (usb.c:220-263,
\* 634-679), and take turns by transfer_active and can_poll: neither does so while
\* it executes a stage, unless the thread has started a transfer untimely.
OneTransfer == clash => untimely

\* key_poll begins with the out stage (usb.c:640-656), but for the poll of a keyboard
\* pulled out between its tests: phase 2, left by a transfer that was cut off,
\* would give the controller a null address.
PollStartsFresh ==
  at \in {"claim", "start", "go"} => interrupt_phase = 0 \/ ~interrupt_poll_active

\* The driver takes the keyboard to be where it is in the USB's states: it never
\* polls one that has not taken its address and configuration (usb.c:319-335,
\* 616-621), even when it has been pulled out and put in again.  A transfer
\* started untimely spoils this: the end of the request before may be taken for the
\* end of the next, and config_val be read before the descriptor is there (usb.c:372,
\* 478).
KnowsDevice ==
  connected /\ ~port_intr /\ channel = "idle" /\ ~untimely =>
    /\ dev_stat = "ADDRESSED"  => device # "default"
    /\ dev_stat = "CONFIGURED" => device = "configured"

\* What the user sees on the screen (usb.c:88) is what get_line returns, but for
\* the first report after the call: it may come among the statements that empty
\* the buffer (usb.c:684-686) and be lost or become zeros from some character
\* on.  What the buffer has no room for is cut off (usb.c:84).
FirstReportAtMost ==
  at = "copy" =>
    LET line == [i \in 1 .. cursor |-> line_buffer[i - 1]]
        cut(q) == SubSeq(q, 1, IF Len(q) < BufLen THEN Len(q) ELSE BufLen)
        wipedFrom(j, r) == [i \in DOMAIN r |-> IF i < j THEN r[i] ELSE NUL]
    IN  /\ echoed # <<>>
        /\ \/ line = cut(FlattenSeq(Tail(echoed)))
           \/ \E j \in 1 .. Len(Head(echoed)) + 1 :
                line = cut(wipedFrom(j, Head(echoed)) \o FlattenSeq(Tail(echoed)))

\* get_line puts its '\0' at most one past the end of the caller's buffer: there
\* when the line has just len characters (usb.c:695-708).
AtMostOnePast == returned <= LineLen

\* A keyboard that is plugged in is enumerated: poll_wait (usb.c:547) does not wait
\* for ever for the handler's last stage, however the two meet, unless usb_poll
\* programs the channel while it executes that stage.
EnumEnds == connected ~> at \in LinePoint \/ clash

\* While the keyboard stays in and its user presses enter again and again, get_line
\* returns again and again (usb.c:687): its polls do not come to a stop, and no
\* moment at which the key comes makes the loop miss it for good.
EnterReported == halted /\ interrupt_phase = 2 /\ \E i \in DOMAIN report : report[i] = LF
EnterReturns ==
  /\ <>[](interrupt_poll_active /\ ~untimely)
  /\ []<>(channel = "in") => []<>EnterReported
  => []<>(at = "copy")
=============================================================================
