--------------------------- MODULE KeyboardProofs ---------------------------
(***************************************************************************)
(* The keyboard driver, for every size of reports and buffers: types, the  *)
(* sharing of the one host channel and of the driver's phases between the  *)
(* thread and the interrupt handler, and the line that the two make.       *)
(*                                                                         *)
(* PhaseInv says why key_poll finds phase 0.  ChannelInv, DeviceInv and    *)
(* EnumInv hold until the thread starts a transfer untimely: they say who  *)
(* may program the channel when, what the keyboard has taken when the      *)
(* driver believes so, and where the enumeration is; they need that the    *)
(* delays of 2 s outlast a request (Patient).  LineInv says which part of  *)
(* the reports the line buffer shows.                                      *)
(***************************************************************************)
EXTENDS Keyboard, TLAPS, SequenceTheorems, WellFoundedInduction, NaturalsInduction

PhaseInv ==
  /\ at \in LinePoint /\ interrupt_poll_active =>
       /\ dev_stat = "CONFIGURED"
       /\ transfer_active \/ interrupt_phase = 0
       /\ at \in {"start", "go"} => transfer_active
  /\ at \in LinePoint /\ ~interrupt_poll_active => dev_stat # "CONFIGURED"
  /\ at \in {"claim", "start", "go"} => interrupt_phase = 0 \/ ~interrupt_poll_active
  /\ interrupt_phase = 3 => /\ at \in LinePoint \ {"test_active", "claim", "start", "go"}
                            /\ ~interrupt_poll_active

Quiet == channel = "idle" /\ ~halted

\* usb_poll has found can_poll set and has not programmed the channel yet.
Between == {"prev", "unset", "rewind", "activate", "packet", "packet_end", "mask",
            "switch", "store", "program"}

ChannelInv ==
  /\ ~clash
  /\ channel # "idle" => mask /\ ~halted
  /\ halted => mask
  /\ port_intr /\ connected => channel = "idle"
  /\ at \in EnumPoint =>
       /\ dev_stat # "CONFIGURED"
       /\ ~connected => at = "poll" /\ Quiet /\ ~port_intr /\ ~can_poll
  /\ at \in Between \cup {"configure"} => Quiet /\ ~port_intr /\ connected
  /\ at \in {"switch", "store", "program", "go"} => mask
  /\ at \in LinePoint /\ interrupt_poll_active =>
       /\ port_intr = ~connected
       /\ transfer_active \/ Quiet
  /\ at \in {"claim", "start", "go"} => Quiet
  /\ at \in {"test_active", "claim", "start", "go"} => interrupt_poll_active \/ ~connected

DeviceInv ==
  /\ ~port_intr => host_port_status = connected
  /\ ~connected => dev_stat \in {"COUNT", "CONFIGURED"}
  /\ ~connected /\ ~port_intr => dev_stat = "COUNT"
  /\ dev_stat \in {"COUNT", "POWERED", "CONFIGURED"} => control_phase = 0
  /\ dev_stat = "RESET" =>
       /\ channel # "status" /\ control_phase \in {0, 2}
       /\ control_phase = 2 => asked = "set_address" /\ request = "set_address"
  /\ dev_stat = "ADDRESSED" =>
       \/ device # "default"
       \/ channel = "status" /\ asked = "set_address"
  /\ dev_stat = "CONFIGURED" =>
       /\ at \in LinePoint
       /\ connected => device = "configured"
       /\ channel \notin ControlStage

\* The request from its setup stage to the interrupt after its last.
InProgress ==
  /\ request = Enumeration[polls] /\ prev_transfer \in {request, "none"}
  /\ prev_transfer = "none" => config_val
  /\ channel # "idle" => asked = request
  /\ ~can_poll =>
       /\ transfer_active /\ ~Quiet /\ prev_transfer = request /\ asked = request
       /\ \/ control_phase = 1 /\ polls # 4 /\ channel \in {"setup", "idle"}
          \/ control_phase = 2 /\ polls # 4 /\ channel = "data"
          \/ control_phase = 2 /\ polls # 4 /\ channel = "idle" /\ descriptor = "config"
          \/ control_phase = 2 /\ polls = 4 /\ channel \in {"setup", "idle"}
  /\ can_poll =>
       /\ ~transfer_active /\ control_phase = 0 /\ channel \in {"status", "idle"}
       /\ channel = "status" \/ halted \/ prev_transfer = "none"
       /\ polls # 4 => descriptor = "config"
       /\ polls = 4 => channel = "status" \/ device = "configured"

EnumInv ==
  /\ at \in EnumPoint /\ can_poll => dev_stat = "ADDRESSED"
  /\ at \in EnumPoint /\ (polls > 1 \/ at # "poll") => dev_stat = "ADDRESSED"
  /\ at \in EnumPoint => config_desc_len /\ (polls > 2 => config_val)
  /\ at \in {"settle", "configure"} => polls > 1
  /\ at \in {"poll", "clear"} => prev_transfer # "config"
  /\ at \in Between \ {"prev"} => prev_transfer = Enumeration[polls]
  /\ at \in Between \ {"prev", "unset"} => ~can_poll
  /\ at \in {"activate", "packet", "packet_end", "mask", "switch", "store"} => control_phase = 0
  /\ at \in {"packet", "packet_end", "mask", "switch", "store", "program"} => transfer_active
  /\ at \in {"mask", "switch", "store", "program"} => request = Enumeration[polls]
  /\ at \in {"store", "program"} => stage = "setup"
  /\ at = "program" => control_phase = NextPhase("setup", request)
  /\ at = "settle" => InProgress
  /\ at = "configure" => device = "configured" /\ control_phase = 0

-----------------------------------------------------------------------------
(* Types.                                                                  *)

LEMMA Requests ==
  /\ DOMAIN Enumeration = 1 .. 4 /\ Len(Enumeration) = 4
  /\ Enumeration[1] = "device" /\ Enumeration[2] = "config"
  /\ Enumeration[3] = "config" /\ Enumeration[4] = "set_config"
  /\ Setup = {"set_address", "report", "none", "torn", "torn_data", "empty_config",
              "unconfigure", "device", "config", "set_config"}
<1>1. /\ DOMAIN Enumeration = 1 .. 4 /\ Len(Enumeration) = 4
      /\ Enumeration[1] = "device" /\ Enumeration[2] = "config"
      /\ Enumeration[3] = "config" /\ Enumeration[4] = "set_config"
  BY DEF Enumeration
<1>2. {Enumeration[i] : i \in DOMAIN Enumeration} = {"device", "config", "set_config"}
  <2>1. \A i \in 1 .. 4 : i = 1 \/ i = 2 \/ i = 3 \/ i = 4
    OBVIOUS
  <2> QED
    BY <1>1, <2>1
<1> QED
  BY <1>1, <1>2 DEF Setup

\* The variables that are flags.
Flags ==
  /\ transfer_active \in BOOLEAN /\ interrupt_poll_active \in BOOLEAN /\ can_poll \in BOOLEAN
  /\ config_val \in BOOLEAN /\ config_desc_len \in BOOLEAN /\ enter_pressed \in BOOLEAN
  /\ mask \in BOOLEAN /\ halted \in BOOLEAN /\ port_intr \in BOOLEAN /\ connected \in BOOLEAN
  /\ host_port_status \in BOOLEAN /\ clash \in BOOLEAN /\ untimely \in BOOLEAN

\* Those with few values, and those of the line.
Points ==
  /\ dev_stat \in DeviceStatus
  /\ control_phase \in 0 .. 2 /\ interrupt_phase \in 0 .. 3
  /\ request \in Setup /\ prev_transfer \in Setup /\ asked \in Setup
  /\ descriptor \in {"none", "device", "config"} /\ stage \in ControlStage
  /\ at \in EnumPoint \cup LinePoint /\ polls \in 1 .. 4
  /\ channel \in Stage \cup {"idle"}
  /\ device \in {"default", "addressed", "configured"}

LineTypes ==
  /\ report \in Report /\ echoed \in Seq(Seq(Char \cup {NUL}))
  /\ line_buffer \in [0 .. BufLen - 1 -> Char \cup {NUL}] /\ cursor \in 0 .. BufLen
  /\ wiped \in 0 .. BufLen - 1
  /\ returned \in 0 .. LineLen

TypeInv == Flags /\ Points /\ LineTypes

LEMMA TypeInvGivesTypeOK == TypeInv => TypeOK /\ AtMostOnePast
BY Requests, SizeAssumption DEF TypeInv, Flags, Points, LineTypes, TypeOK, AtMostOnePast

\* The interrupt, with its branches named.
PortStatus == IF port_intr THEN connected ELSE host_port_status

Serves ==
  /\ Pending
  /\ host_port_status' = PortStatus
  /\ interrupt_poll_active' = (interrupt_poll_active /\ PortStatus)
  /\ halted' = (halted /\ ~mask)
  /\ UNCHANGED <<threadVars, connected>>

LEMMA InterruptCases ==
  ASSUME Interrupt
  PROVE  /\ Serves
         /\ \/ ~ClearedActive(PortStatus) /\ Finish(PortStatus)
            \/ ClearedActive(PortStatus) /\ ClearedStat(PortStatus) = "POWERED"    /\ PowerUp
            \/ ClearedActive(PortStatus) /\ ClearedStat(PortStatus) = "RESET"      /\ Address
            \/ ClearedActive(PortStatus) /\ ClearedStat(PortStatus) = "ADDRESSED"  /\ Control
            \/ ClearedActive(PortStatus) /\ ClearedStat(PortStatus) = "CONFIGURED" /\ Poll
BY Zenon DEF Interrupt, Serves, PortStatus

\* The steps of usb_poll and of its control_transfer, and those of get_line and
\* key_poll that leave the host channel alone.
EnumPolls == usb_poll \/ SetupData \/ Unmask \/ Switch \/ StorePhase \/ StartRequest
GetLine == get_line \/ ResetCursor \/ ResetBuffer \/ Loop \/ key_poll \/ TestActive \/ Copy

LEMMA NextCases ==
  ASSUME [Next]_vars
  PROVE  \/ EnumPolls \/ ClearBuffer \/ Settle \/ Configure
         \/ GetLine \/ Claim \/ UnmaskPoll \/ StartPoll
         \/ Interrupt \/ ChannelDone \/ Unplug \/ Plug
         \/ UNCHANGED vars
BY Zenon DEF Next, keyboard_enum, Line, GetLine, EnumPolls

\* What all steps of usb_poll leave alone.
PollFrame ==
  /\ at \in {"poll"} \cup Between /\ at' \in Between \cup {"clear", "settle"}
  /\ untimely' = (untimely \/ Untimely)
  /\ UNCHANGED <<dev_stat, interrupt_phase, interrupt_poll_active, config_val,
                 config_desc_len, report, lineVars, polls, returned, halted, portVars,
                 device, descriptor>>

LEMMA PollFrames ==
  ASSUME EnumPolls
  PROVE  PollFrame
<1> USE DEF PollFrame, Polls, Between
<1>1. CASE usb_poll
  BY <1>1 DEF usb_poll
<1>2. CASE SetupData
  BY <1>2 DEF SetupData
<1>3. CASE Unmask
  BY <1>3 DEF Unmask
<1>4. CASE Switch
  BY <1>4 DEF Switch
<1>5. CASE StorePhase
  BY <1>5 DEF StorePhase
<1>6. CASE StartRequest
  BY <1>6 DEF StartRequest
<1> QED
  BY <1>1, <1>2, <1>3, <1>4, <1>5, <1>6 DEF EnumPolls

LEMMA GetLineSteps ==
  ASSUME GetLine
  PROVE  /\ at \in LinePoint \ {"claim", "start", "go"} /\ at' \in LinePoint \ {"start", "go"}
         /\ at' = "claim" => at = "test_active" /\ ~transfer_active
         /\ at' = "test_active" => interrupt_poll_active
         /\ enter_pressed' = enter_pressed \/ enter_pressed' = FALSE
         /\ untimely' = (untimely \/ (at' = "claim" /\ ~interrupt_poll_active))
         /\ UNCHANGED <<statVars, enumVars, report, polls, stage, channelVars, portVars,
                        deviceVars>>
<1> USE DEF LinePoint, Goes, lineVars, transferVars, enumVars, deviceVars, Untimely
<1>1. CASE get_line
  BY <1>1 DEF get_line
<1>2. CASE ResetCursor
  BY <1>2 DEF ResetCursor
<1>3. CASE ResetBuffer
  BY <1>3 DEF ResetBuffer
<1>4. CASE Loop
  BY <1>4 DEF Loop
<1>5. CASE key_poll
  BY <1>5 DEF key_poll
<1>6. CASE TestActive
  BY <1>6 DEF TestActive
<1>7. CASE Copy
  BY <1>7 DEF Copy
<1> QED
  BY <1>1, <1>2, <1>3, <1>4, <1>5, <1>6, <1>7 DEF GetLine

LEMMA FlagsNext ==
  ASSUME Flags, [Next]_vars
  PROVE  Flags'
<1> USE DEF Flags, Disturb, statVars, enumVars, lineVars, threadVars, channelVars, portVars, Program,
            Transfer, control_transfer, Untimely
<1>1. CASE EnumPolls
  <2>0. PollFrame
    BY <1>1, PollFrames
  <2>1. UNCHANGED <<interrupt_poll_active, config_val, config_desc_len, enter_pressed, halted,
                    port_intr, connected, host_port_status>>
    BY <2>0 DEF PollFrame
  <2>2. untimely' \in BOOLEAN
    BY <2>0 DEF PollFrame
  <2>3. /\ can_poll' \in BOOLEAN /\ transfer_active' \in BOOLEAN
        /\ mask' \in BOOLEAN /\ clash' \in BOOLEAN
    <3> USE DEF Polls, pollVars
    <3>1. CASE usb_poll
      BY <3>1 DEF usb_poll
    <3>2. CASE SetupData
      BY <3>2 DEF SetupData
    <3>3. CASE Unmask
      BY <3>3 DEF Unmask
    <3>4. CASE Switch \/ StorePhase
      BY <3>4 DEF Switch, StorePhase
    <3>5. CASE StartRequest
      BY <3>5 DEF StartRequest
    <3> QED
      BY <1>1, <3>1, <3>2, <3>3, <3>4, <3>5 DEF EnumPolls
  <2> QED
    BY <2>1, <2>2, <2>3
<1>2. CASE ClearBuffer
  BY <1>2 DEF ClearBuffer
<1>3. CASE Settle
  BY <1>3 DEF Settle
<1>4. CASE Configure
  BY <1>4 DEF Configure
<1>5. CASE GetLine
  <2>1. /\ enter_pressed' = enter_pressed \/ enter_pressed' = FALSE
        /\ untimely' = (untimely \/ (at' = "claim" /\ ~interrupt_poll_active))
        /\ UNCHANGED <<statVars, enumVars, channelVars, portVars>>
    BY <1>5, GetLineSteps
  <2> QED
    BY <2>1
<1>6. CASE Claim \/ UnmaskPoll \/ StartPoll
  <2> USE DEF Goes
  <2>1. CASE Claim
    BY <2>1 DEF Claim
  <2>2. CASE UnmaskPoll
    BY <2>2 DEF UnmaskPoll
  <2>3. CASE StartPoll
    BY <2>3 DEF StartPoll
  <2> QED
    BY <1>6, <2>1, <2>2, <2>3
<1>7. CASE Interrupt
  <2> USE DEF Serves, PortStatus, MaskAfterClear
  <2>1. CASE Serves /\ Finish(PortStatus)
    BY <2>1 DEF Finish
  <2>2. CASE Serves /\ PowerUp
    BY <2>2 DEF PowerUp
  <2>3. CASE Serves /\ Address
    BY <2>3 DEF Address
  <2>4. CASE Serves /\ Control
    BY <2>4 DEF Control
  <2>5. CASE Serves /\ Poll
    BY <2>5 DEF Poll, buf_key_data_check
  <2> QED
    BY <1>7, <2>1, <2>2, <2>3, <2>4, <2>5, InterruptCases, Zenon
<1>8. CASE ChannelDone
  BY <1>8 DEF ChannelDone
<1>9. CASE Unplug
  BY <1>9 DEF Unplug
<1>10. CASE Plug
  BY <1>10 DEF Plug
<1>11. CASE UNCHANGED vars
  BY <1>11 DEF vars
<1> QED
  BY <1>1, <1>2, <1>3, <1>4, <1>5, <1>6, <1>7, <1>8, <1>9, <1>10, <1>11, NextCases, Zenon

\* The switch of control_transfer.
LEMMA Phases ==
  /\ \A r : /\ NextPhase("setup", r) = IF r \in HasData THEN 1 ELSE 2
            /\ NextPhase("data", r) = 2 /\ NextPhase("status", r) = 0
  /\ \A g \in ControlStage : \A r : NextPhase(g, r) \in 0 .. 2
  /\ \A p \in 0 .. 2 : StageOf(p) \in ControlStage
  /\ StageOf(0) = "setup" /\ StageOf(1) = "data" /\ StageOf(2) = "status"
<1>1. \A r : /\ NextPhase("setup", r) = IF r \in HasData THEN 1 ELSE 2
             /\ NextPhase("data", r) = 2 /\ NextPhase("status", r) = 0
  BY DEF NextPhase
<1>2. ASSUME NEW g \in ControlStage, NEW r PROVE NextPhase(g, r) \in 0 .. 2
  BY <1>1 DEF ControlStage
<1>3. ASSUME NEW p \in 0 .. 2 PROVE StageOf(p) \in ControlStage
  BY DEF StageOf, ControlStage
<1>4. StageOf(0) = "setup" /\ StageOf(1) = "data" /\ StageOf(2) = "status"
  BY DEF StageOf
<1> QED
  BY <1>1, <1>2, <1>3, <1>4

LEMMA PointsNext ==
  ASSUME Points, PhaseInv, [Next]_vars
  PROVE  Points'
<1> USE Requests
    DEF Points, statVars, enumVars, lineVars, threadVars, channelVars, portVars, deviceVars,
        Program, Disturb, Transfer, control_transfer, DeviceStatus, EnumPoint, LinePoint, Stage,
        ControlStage
<1>0. /\ \A g \in ControlStage : \A r : NextPhase(g, r) \in 0 .. 2
      /\ \A q \in 0 .. 2 : StageOf(q) \in ControlStage
  BY Phases
<1>1. CASE EnumPolls
  <2>0. PollFrame
    BY <1>1, PollFrames
  <2>1. Enumeration[polls] \in Setup /\ Packet \in Setup
    BY DEF Packet
  <2> USE <2>0 DEF PollFrame, Polls, pollVars, Between
  <2>2. CASE usb_poll
    BY <2>1, <2>2 DEF usb_poll
  <2>3. CASE SetupData \/ Unmask
    BY <2>1, <2>3 DEF SetupData, Unmask
  <2>4. CASE Switch \/ StorePhase
    BY <1>0, <2>4 DEF Switch, StorePhase
  <2>5. CASE StartRequest
    BY <2>5 DEF StartRequest
  <2> QED
    BY <1>1, <2>2, <2>3, <2>4, <2>5 DEF EnumPolls
<1>2. CASE ClearBuffer
  BY <1>2 DEF ClearBuffer
<1>3. CASE Settle
  BY <1>3 DEF Settle
<1>4. CASE Configure
  BY <1>4 DEF Configure
<1>5. CASE GetLine
  BY <1>5, GetLineSteps
<1>6. CASE Claim \/ UnmaskPoll
  BY <1>6 DEF Claim, UnmaskPoll, Goes
<1>11. CASE StartPoll
  <2>1. interrupt_phase \in 0 .. 2
    BY <1>11 DEF StartPoll, Goes, PhaseInv
  <2> QED
    BY <1>11, <2>1 DEF StartPoll, Goes
<1>7. CASE Interrupt
  <2> USE DEF Serves
  <2>1. CASE Serves /\ Finish(PortStatus)
    BY <2>1 DEF Finish, ClearedStat
  <2>2. CASE Serves /\ PowerUp
    BY <2>2 DEF PowerUp
  <2>3. CASE Serves /\ Address
    BY <1>0, <2>3 DEF Address
  <2>4. CASE Serves /\ Control
    BY <1>0, <2>4 DEF Control
  <2>5. CASE Serves /\ Poll
    <3>1. /\ dev_stat' = "CONFIGURED" /\ interrupt_phase' \in 0 .. 3
          /\ channel' \in {channel, "in"}
          /\ UNCHANGED <<control_phase, enumVars, threadVars, deviceVars>>
      BY <2>5 DEF Poll
    <3> QED
      BY <3>1
  <2> QED
    BY <1>7, <2>1, <2>2, <2>3, <2>4, <2>5, InterruptCases, Zenon
<1>8. CASE ChannelDone
  BY <1>8 DEF ChannelDone
<1>9. CASE Unplug \/ Plug
  BY <1>9 DEF Unplug, Plug
<1>10. CASE UNCHANGED vars
  BY <1>10 DEF vars
<1> QED
  BY <1>1, <1>2, <1>3, <1>4, <1>5, <1>6, <1>7, <1>8, <1>9, <1>10, <1>11, NextCases, Zenon


LEMMA ReportKeys ==
  /\ <<>> \in Report
  /\ report \in Report => KeysRead \in Seq(Char \cup {NUL})
<1>1. <<>> \in Report
  <2>1. <<>> \in [1 .. 0 -> Char] /\ 0 \in 0 .. RepLen
    BY SizeAssumption
  <2> QED
    BY <2>1 DEF Report
<1>2. ASSUME report \in Report
      PROVE  KeysRead \in Seq(Char \cup {NUL})
  <2>1. report \in Seq(Char)
    BY <1>2, SizeAssumption DEF Report
  <2>2. report \in Seq(Char \cup {NUL})
    BY <2>1
  <2> QED
    BY <2>2, CharAssumption DEF KeysRead
<1> QED
  BY <1>1, <1>2

LEMMA LineTypesNext ==
  ASSUME LineTypes, Points, [Next]_vars
  PROVE  LineTypes'
<1> USE DEF LineTypes, lineVars, threadVars
<1>1. CASE EnumPolls
  BY <1>1, PollFrames DEF PollFrame
<1>2. CASE ClearBuffer
  BY <1>2, ReportKeys DEF ClearBuffer
<1>3. CASE Settle
  BY <1>3 DEF Settle
<1>4. CASE Configure
  BY <1>4 DEF Configure
<1>5. CASE GetLine
  <2> UNCHANGED report
    BY <1>5, GetLineSteps
  <2>1. CASE get_line
    BY <2>1 DEF get_line
  <2>2. CASE ResetCursor
    BY <2>2, SizeAssumption DEF ResetCursor
  <2>3. CASE ResetBuffer
    <3>1. (wiped + 1) % BufLen \in 0 .. BufLen - 1
      BY SizeAssumption
    <3> QED
      BY <2>3, <3>1 DEF ResetBuffer
  <2>4. CASE Loop \/ key_poll \/ TestActive
    BY <2>4 DEF Loop, key_poll, TestActive
  <2>5. CASE Copy
    <3>1. Copied(LineLen) \in 0 .. LineLen
      BY SizeAssumption DEF Copied
    <3> QED
      BY <2>5, <3>1 DEF Copy
  <2> QED
    BY <1>5, <2>1, <2>2, <2>3, <2>4, <2>5 DEF GetLine
<1>6. CASE Claim \/ UnmaskPoll \/ StartPoll
  BY <1>6, ReportKeys DEF Claim, UnmaskPoll, StartPoll
<1>7. CASE Interrupt
  <2>1. CASE Serves /\ Finish(PortStatus)
    BY <2>1 DEF Serves, Finish
  <2>2. CASE Serves /\ PowerUp
    BY <2>2 DEF Serves, PowerUp
  <2>3. CASE Serves /\ Address
    BY <2>3 DEF Serves, Address
  <2>4. CASE Serves /\ Control
    BY <2>4 DEF Serves, Control
  <2>5. CASE Serves /\ Poll
    <3>1. /\ UNCHANGED lineVars \/ buf_key_data_check
          /\ report' = report \/ report' = <<>>
          /\ UNCHANGED returned
      BY <2>5 DEF Serves, Poll
    <3>2. report' \in Report
      BY <3>1, ReportKeys
    <3>3. CASE UNCHANGED lineVars
      BY <3>1, <3>2, <3>3
    <3>4. CASE buf_key_data_check /\ ~enter_pressed
      <4> DEFINE n == IF Len(KeysRead) < BufLen - cursor THEN Len(KeysRead) ELSE BufLen - cursor
      <4>1. KeysRead \in Seq(Char \cup {NUL})
        BY ReportKeys
      <4>2. n \in 0 .. BufLen - cursor /\ n <= Len(KeysRead)
        BY <4>1, SizeAssumption
      <4>3. /\ line_buffer' = [i \in 0 .. BufLen - 1 |->
                                IF i \in cursor .. cursor + n - 1
                                THEN KeysRead[i - cursor + 1] ELSE line_buffer[i]]
            /\ cursor' = cursor + n /\ wiped' = wiped
            /\ echoed' = IF KeysRead = <<>> THEN echoed ELSE Append(echoed, KeysRead)
        BY <3>4 DEF buf_key_data_check
      <4> HIDE DEF n
      <4>4. cursor' \in 0 .. BufLen
        BY <4>2, <4>3, SizeAssumption
      <4>5. \A i \in cursor .. cursor + n - 1 : KeysRead[i - cursor + 1] \in Char \cup {NUL}
        BY <4>1, <4>2
      <4>6. line_buffer' \in [0 .. BufLen - 1 -> Char \cup {NUL}]
        BY <4>3, <4>5
      <4>7. echoed' \in Seq(Seq(Char \cup {NUL}))
        BY <4>1, <4>3
      <4> QED
        BY <3>1, <3>2, <4>3, <4>4, <4>6, <4>7
    <3> QED
      BY <3>1, <3>3, <3>4 DEF buf_key_data_check
  <2> QED
    BY <1>7, <2>1, <2>2, <2>3, <2>4, <2>5, InterruptCases, Zenon
<1>8. CASE ChannelDone
  BY <1>8 DEF ChannelDone
<1>9. CASE Unplug \/ Plug
  BY <1>9 DEF Unplug, Plug
<1>10. CASE UNCHANGED vars
  BY <1>10 DEF vars
<1> QED
  BY <1>1, <1>2, <1>3, <1>4, <1>5, <1>6, <1>7, <1>8, <1>9, <1>10, NextCases, Zenon

LEMMA PhaseNext ==
  ASSUME TypeInv, PhaseInv, [Next]_vars
  PROVE  PhaseInv'
<1> USE DEF PhaseInv, TypeInv, Flags, Points, statVars, threadVars, EnumPoint, LinePoint
<1>1. CASE EnumPolls
  BY <1>1, PollFrames DEF PollFrame, Between
<1>2. CASE ClearBuffer
  BY <1>2 DEF ClearBuffer
<1>3. CASE Settle
  BY <1>3 DEF Settle
<1>4. CASE Configure
  BY <1>4 DEF Configure
<1>5. CASE GetLine
  BY <1>5, GetLineSteps
<1>6. CASE Claim \/ UnmaskPoll
  BY <1>6 DEF Claim, UnmaskPoll, Goes
<1>11. CASE StartPoll
  <2>1. /\ at = "go" /\ at' = "loop" /\ interrupt_phase' = interrupt_phase + 1
        /\ UNCHANGED <<dev_stat, transfer_active, interrupt_poll_active>>
    BY <1>11 DEF StartPoll, Goes
  <2>2. interrupt_phase \in 0 .. 2
    BY <2>1 DEF Points
  <2> QED
    BY <2>1, <2>2
<1>7. CASE Interrupt
  <2> USE DEF Serves, PortStatus, ClearedActive, ClearedStat, PluggedIn
  <2>1. CASE Serves /\ ~ClearedActive(PortStatus) /\ Finish(PortStatus)
    BY <2>1 DEF Finish
  <2>2. CASE Serves /\ ClearedStat(PortStatus) = "POWERED" /\ PowerUp
    BY <2>2 DEF PowerUp
  <2>3. CASE Serves /\ ClearedStat(PortStatus) = "RESET" /\ Address
    BY <2>3 DEF Address
  <2>4. CASE Serves /\ ClearedStat(PortStatus) = "ADDRESSED" /\ Control
    BY <2>4 DEF Control
  <2>5. CASE Serves /\ ClearedActive(PortStatus) /\ ClearedStat(PortStatus) = "CONFIGURED" /\ Poll
    <3>0. /\ dev_stat = "CONFIGURED" /\ at' = at
          /\ interrupt_poll_active' = interrupt_poll_active
      BY <2>5
    <3>1. /\ dev_stat' = "CONFIGURED"
          /\ \/ interrupt_phase' = interrupt_phase /\ transfer_active' = transfer_active
             \/ interrupt_phase = 1 /\ interrupt_phase' = 2 /\ transfer_active' = TRUE
             \/ interrupt_phase = 2 /\ interrupt_phase' = 0
      BY <2>5 DEF Poll
    <3> QED
      BY <3>0, <3>1
  <2> QED
    BY <1>7, <2>1, <2>2, <2>3, <2>4, <2>5, InterruptCases, Zenon
<1>8. CASE ChannelDone
  BY <1>8 DEF ChannelDone
<1>9. CASE Unplug \/ Plug
  BY <1>9 DEF Unplug, Plug
<1>10. CASE UNCHANGED vars
  BY <1>10 DEF vars
<1> QED
  BY <1>1, <1>2, <1>3, <1>4, <1>5, <1>6, <1>7, <1>8, <1>9, <1>10, <1>11, NextCases, Zenon

-----------------------------------------------------------------------------
(* The channel, the keyboard and the enumeration, as long as no transfer    *)
(* is started untimely and the delays suffice.                             *)

Timely == ChannelInv /\ DeviceInv /\ EnumInv
Inv == TypeInv /\ PhaseInv /\ (~untimely => Timely)

\* Before and after a step that is not untimely.
Safe == TypeInv /\ PhaseInv /\ Timely /\ ~untimely'

\* Untimely transfers are not forgotten, and which steps they begin with.
LEMMA UntimelyIs ==
  ASSUME [Next]_vars, ~untimely'
  PROVE  /\ ~untimely
         /\ at = "poll" /\ at' # "poll" => StageOver
         /\ at' = "claim" => at = "claim" \/ interrupt_poll_active
<1> USE DEF threadVars, Goes
<1>1. CASE EnumPolls
  BY <1>1, PollFrames DEF PollFrame, Untimely, Between
<1>2. CASE ClearBuffer \/ Settle \/ Configure
  BY <1>2 DEF ClearBuffer, Settle, Configure
<1>3. CASE GetLine
  <2>1. ~untimely /\ (at' = "claim" => interrupt_poll_active) /\ at \in LinePoint
    BY <1>3, GetLineSteps
  <2> QED
    BY <2>1 DEF LinePoint
<1>4. CASE Claim \/ UnmaskPoll \/ StartPoll
  BY <1>4 DEF Claim, UnmaskPoll, StartPoll
<1>5. CASE Interrupt
  BY <1>5 DEF Interrupt
<1>6. CASE ChannelDone \/ Unplug \/ Plug
  BY <1>6 DEF ChannelDone, Unplug, Plug
<1>7. CASE UNCHANGED vars
  BY <1>7 DEF vars
<1> QED
  BY <1>1, <1>2, <1>3, <1>4, <1>5, <1>6, <1>7, NextCases, Zenon

\* What every interrupt finds and leaves.
ServesFacts ==
  /\ PortStatus = connected /\ connected' = connected /\ host_port_status' = connected
  /\ Pending /\ ~halted'
  /\ ClearedActive(PortStatus) => connected /\ channel = "idle"
  /\ interrupt_poll_active' = (interrupt_poll_active /\ connected)
  /\ UNCHANGED threadVars

LEMMA InterruptFacts ==
  ASSUME TypeInv, ChannelInv, DeviceInv, Serves
  PROVE  ServesFacts
<1> USE DEF TypeInv, Flags, ChannelInv, DeviceInv, Serves
<1>1. PortStatus = connected
  BY DEF PortStatus
<1>2. ~halted'
  OBVIOUS
<1>3. ClearedActive(PortStatus) => connected /\ channel = "idle"
  BY <1>1 DEF ClearedActive, PluggedIn, Pending
<1> QED
  BY <1>1, <1>2, <1>3 DEF ServesFacts

LEMMA PollSteps ==
  ASSUME Poll
  PROVE  /\ dev_stat' = "CONFIGURED" /\ port_intr' = FALSE
         /\ \/ /\ interrupt_phase \notin {1, 2} /\ mask' = MaskAfterClear
               /\ UNCHANGED <<transfer_active, channel, clash>>
            \/ interrupt_phase = 1 /\ transfer_active' /\ mask' /\ Program("in")
            \/ /\ interrupt_phase = 2 /\ ~transfer_active' /\ mask' = MaskAfterClear
               /\ UNCHANGED <<channel, clash>>
         /\ UNCHANGED <<control_phase, can_poll, enumVars, deviceVars>>
BY DEF Poll

\* The test of can_poll.
LEMMA EnumPollsTest ==
  ASSUME EnumPolls, at = "poll"
  PROVE  can_poll /\ at' # "poll"
<1> USE DEF Polls
<1>1. ~SetupData /\ ~Unmask /\ ~Switch /\ ~StorePhase /\ ~StartRequest
  BY DEF SetupData, Unmask, Switch, StorePhase, StartRequest
<1> QED
  BY <1>1 DEF EnumPolls, usb_poll

\* usb_poll from its test to its programming of the channel.
LEMMA EnumPollsChannel ==
  ASSUME Safe, [Next]_vars, EnumPolls
  PROVE  ChannelInv'
<1> USE DEF Safe, Timely, TypeInv, Flags, ChannelInv, Between, EnumPoint, LinePoint, portVars,
            Polls, pollVars
<1>0. /\ PollFrame /\ at \in EnumPoint /\ at' \in EnumPoint \ {"poll", "configure", "go"}
      /\ at' \notin LinePoint
  BY PollFrames DEF PollFrame
<1>1. connected /\ ~port_intr /\ Quiet
  <2>1. CASE at \in Between
    BY <2>1
  <2>2. CASE at = "poll"
    <3>1. StageOver /\ can_poll
      BY <2>2, EnumPollsTest, UntimelyIs, Zenon DEF Safe
    <3> QED
      BY <2>2, <3>1 DEF StageOver, Pending, Quiet
  <2> QED
    BY <1>0, <2>1, <2>2 DEF PollFrame
<1>2. /\ UNCHANGED <<connected, port_intr, halted, dev_stat>>
      /\ at \in EnumPoint /\ at' \in EnumPoint \ {"poll", "configure", "go"}
  BY <1>0 DEF PollFrame
<1>3. CASE usb_poll \/ SetupData
  <2>1. UNCHANGED <<channel, mask, clash>> /\ at' \notin {"switch", "store", "program", "clear", "settle"}
    <3>1. CASE usb_poll
      BY <3>1 DEF usb_poll
    <3>2. CASE SetupData
      BY <3>2 DEF SetupData
    <3> QED
      BY <1>3, <3>1, <3>2
  <2> QED
    BY <1>1, <1>2, <2>1 DEF Quiet
<1>4. CASE Unmask \/ Switch \/ StorePhase
  <2>1. /\ clash' = clash \/ clash' = (clash \/ channel # "idle")
        /\ UNCHANGED channel /\ mask' /\ at' \in {"switch", "store", "program"}
    <3>1. CASE Unmask
      BY <3>1 DEF Unmask
    <3>2. CASE Switch
      BY <3>2 DEF Switch, Disturb
    <3>3. CASE StorePhase
      BY <3>3 DEF StorePhase
    <3> QED
      BY <1>4, <3>1, <3>2, <3>3
  <2> QED
    BY <1>1, <1>2, <2>1 DEF Quiet
<1>5. CASE StartRequest
  <2>1. at' \in {"clear", "settle"} /\ mask' = mask /\ at = "program" /\ clash' = (clash \/ channel # "idle")
    BY <1>5 DEF StartRequest, Transfer, Program, Disturb
  <2> QED
    BY <1>1, <1>2, <2>1 DEF Quiet
<1> QED
  BY <1>3, <1>4, <1>5 DEF EnumPolls

LEMMA ChannelNext ==
  ASSUME Patient, Safe, [Next]_vars
  PROVE  ChannelInv'
<1> USE DEF Safe, Timely, ChannelInv, Quiet, TypeInv, Flags, Points, statVars, enumVars,
            threadVars, channelVars, portVars, deviceVars, EnumPoint, LinePoint, Between,
            Stage, ControlStage, Pending, PhaseInv, DeviceInv
<1>1. CASE EnumPolls
  BY <1>1, EnumPollsChannel
<1>2. CASE ClearBuffer
  BY <1>2 DEF ClearBuffer
<1>3. CASE Settle
  <2>1. channel = "idle" /\ ~halted /\ ~port_intr /\ at = "settle" /\ connected
    BY <1>3 DEF Settle, StageOver
  <2>2. /\ at' \in {"configure", "poll"}
        /\ UNCHANGED <<statVars, channelVars, portVars>>
    BY <1>3 DEF Settle
  <2> QED
    BY <2>1, <2>2
<1>4. CASE Configure
  BY <1>4 DEF Configure
<1>5. CASE GetLine
  BY <1>5, GetLineSteps
<1>6. CASE Claim
  BY <1>6 DEF Claim, Goes
<1>11. CASE UnmaskPoll
  BY <1>11 DEF UnmaskPoll, Goes, Disturb
<1>12. CASE StartPoll
  BY <1>12 DEF StartPoll, Goes, Program, Disturb
<1>7. CASE Interrupt
  <2>0. Serves /\ ServesFacts
    BY <1>7, InterruptCases, InterruptFacts
  <2>6. at \in {"claim", "start", "go"} => ~connected
    BY <2>0 DEF ServesFacts
  <2> USE <2>0, <2>6 DEF ServesFacts, MaskAfterClear
  <2>1. CASE ~ClearedActive(PortStatus) /\ Finish(PortStatus)
    BY <2>1 DEF Finish, ClearedActive, ClearedStat, PluggedIn
  <2>2. CASE ClearedActive(PortStatus) /\ ClearedStat(PortStatus) = "POWERED" /\ PowerUp
    BY <2>2 DEF PowerUp, ClearedStat, PluggedIn
  <2>3. CASE ClearedActive(PortStatus) /\ ClearedStat(PortStatus) = "RESET" /\ Address
    BY <2>3 DEF Address, ClearedStat, PluggedIn, control_transfer, Transfer, Program, Disturb
  <2>4. CASE ClearedActive(PortStatus) /\ ClearedStat(PortStatus) = "ADDRESSED" /\ Control
    BY <2>4 DEF Control, ClearedStat, PluggedIn, control_transfer, Transfer, Program, Disturb
  <2>5. CASE ClearedActive(PortStatus) /\ ClearedStat(PortStatus) = "CONFIGURED" /\ Poll
    <3>1. connected /\ channel = "idle" /\ dev_stat = "CONFIGURED" /\ at \in LinePoint
      BY <2>5 DEF ClearedStat, PluggedIn
    <3>2. at \notin {"claim", "start", "go"}
      BY <3>1
    <3>3. /\ dev_stat' = "CONFIGURED" /\ port_intr' = FALSE /\ ~clash' /\ at' = at
      BY <2>5, <3>1, PollSteps DEF Program, Disturb
    <3>4. channel' # "idle" => mask' /\ transfer_active'
      BY <2>5, <3>1, PollSteps DEF Program, Disturb
    <3> QED
      BY <3>1, <3>2, <3>3, <3>4
  <2> QED
    BY <1>7, <2>1, <2>2, <2>3, <2>4, <2>5, InterruptCases, Zenon
<1>8. CASE ChannelDone
  BY <1>8 DEF ChannelDone
<1>9. CASE Unplug \/ Plug
  <2>1. CASE Unplug
    BY <2>1 DEF Unplug
  <2>2. CASE Plug
    <3>1. at \in LinePoint => ~interrupt_poll_active /\ at \notin {"claim", "start", "go"}
      BY <2>2 DEF Plug
    <3>2. channel = "idle" /\ ~halted /\ at \notin Between \cup {"configure"}
      BY <2>2 DEF Plug, StageOver
    <3> QED
      BY <2>2, <3>1, <3>2 DEF Plug
  <2> QED
    BY <1>9, <2>1, <2>2
<1>10. CASE UNCHANGED vars
  BY <1>10 DEF vars
<1> QED
  BY <1>1, <1>2, <1>3, <1>4, <1>5, <1>6, <1>7, <1>8, <1>9, <1>10, <1>11, <1>12, NextCases, Zenon

\* Address and Control in the handler: the stages of a request one after the other.
LEMMA ControlSteps ==
  ASSUME NEW r, control_transfer(control_phase, r), control_phase \in 0 .. 2
  PROVE  /\ control_phase = 0 => /\ channel' = "setup" /\ asked' = r
                                 /\ control_phase' = IF r \in HasData THEN 1 ELSE 2
         /\ control_phase = 1 => channel' = "data" /\ asked' = asked /\ control_phase' = 2
         /\ control_phase = 2 => channel' = "status" /\ asked' = asked /\ control_phase' = 0
<1>1. control_phase = 0 \/ control_phase = 1 \/ control_phase = 2
  OBVIOUS
<1>2. /\ channel' = StageOf(control_phase)
      /\ asked' = IF StageOf(control_phase) = "setup" THEN r ELSE asked
      /\ control_phase' = NextPhase(StageOf(control_phase), r)
  BY DEF control_transfer, Transfer, Program
<1>3. CASE control_phase = 0
  BY <1>2, <1>3, Phases
<1>4. CASE control_phase = 1
  BY <1>2, <1>4, Phases
<1>5. CASE control_phase = 2
  BY <1>2, <1>5, Phases
<1> QED
  BY <1>1, <1>3, <1>4, <1>5

\* usb_poll waits for an address, and programs an idle channel.
LEMMA EnumPollsIdle ==
  ASSUME Safe, [Next]_vars, EnumPolls
  PROVE  dev_stat = "ADDRESSED" /\ channel = "idle" /\ connected
<1>0. PollFrame
  BY PollFrames
<1>1. CASE at \in Between
  BY <1>1 DEF Safe, Timely, ChannelInv, EnumInv, Quiet, Between, EnumPoint
<1>2. CASE at = "poll"
  <2>1. StageOver /\ can_poll
    BY <1>2, EnumPollsTest, UntimelyIs, Zenon DEF Safe
  <2> QED
    <3>1. at \in EnumPoint
      BY <1>2 DEF EnumPoint
    <3>2. dev_stat = "ADDRESSED"
      BY <2>1, <3>1, Zenon DEF Safe, Timely, EnumInv
    <3>3. connected
      BY <2>1, <3>1, Zenon DEF Safe, Timely, ChannelInv
    <3> QED
      BY <2>1, <3>2, <3>3 DEF StageOver
<1> QED
  BY <1>0, <1>1, <1>2 DEF PollFrame

LEMMA DeviceNext ==
  ASSUME Patient, Safe, [Next]_vars
  PROVE  DeviceInv'
<1> USE DEF Safe, Timely, DeviceInv, Quiet, TypeInv, Flags, Points, statVars, enumVars,
            threadVars, channelVars, portVars, deviceVars, EnumPoint, LinePoint, Between,
            Stage, ControlStage
<1>1. CASE EnumPolls
  <2>1. dev_stat = "ADDRESSED" /\ channel = "idle" /\ connected
    BY <1>1, EnumPollsIdle
  <2>2. UNCHANGED <<dev_stat, portVars, device>>
    BY <1>1, PollFrames DEF PollFrame
  <2> QED
    BY <2>1, <2>2
<1>2. CASE ClearBuffer
  BY <1>2 DEF ClearBuffer
<1>3. CASE Settle
  BY <1>3 DEF Settle, ChannelInv
<1>4. CASE Configure
  BY <1>4 DEF Configure, ChannelInv, EnumInv
<1>5. CASE GetLine
  <2>1. at' \in LinePoint /\ UNCHANGED <<statVars, enumVars, channelVars, portVars, deviceVars>>
    BY <1>5, GetLineSteps
  <2> QED
    BY <2>1
<1>6. CASE Claim
  BY <1>6 DEF Claim, Goes
<1>11. CASE UnmaskPoll
  BY <1>11 DEF UnmaskPoll, Goes, Disturb
<1>12. CASE StartPoll
  <2>1. channel = "idle" /\ channel' \in {"in", "out"} /\ at' \in LinePoint
    BY <1>12 DEF StartPoll, Goes, Program, ChannelInv, Disturb
  <2>2. UNCHANGED <<dev_stat, control_phase, portVars, device, asked>>
    BY <1>12 DEF StartPoll, Goes
  <2>3. dev_stat # "RESET"
    <3>1. at = "go" /\ (interrupt_poll_active \/ ~connected)
      BY <1>12 DEF StartPoll, Goes, ChannelInv
    <3> QED
      BY <3>1 DEF PhaseInv
  <2> QED
    BY <2>1, <2>2, <2>3
<1>7. CASE Interrupt
  <2>0. Serves /\ ServesFacts
    BY <1>7, InterruptCases, InterruptFacts
  <2> USE <2>0 DEF ServesFacts
  <2>1. CASE ~ClearedActive(PortStatus) /\ Finish(PortStatus)
    BY <2>1 DEF Finish, ClearedActive, ClearedStat, PluggedIn
  <2>2. CASE ClearedActive(PortStatus) /\ ClearedStat(PortStatus) = "POWERED" /\ PowerUp
    BY <2>2 DEF PowerUp, ClearedStat, PluggedIn
  <2>3. CASE ClearedActive(PortStatus) /\ ClearedStat(PortStatus) = "RESET" /\ Address
    <3>1. dev_stat = "RESET" /\ control_phase \in {0, 2} /\ channel = "idle" /\ connected
      BY <2>3 DEF ClearedStat, PluggedIn
    <3>2. /\ control_phase = 0 => channel' = "setup" /\ asked' = "set_address" /\ control_phase' = 2
          /\ control_phase = 2 => channel' = "status" /\ asked' = asked /\ control_phase' = 0
      BY <2>3, ControlSteps DEF Address, HasData
    <3>3. /\ dev_stat' = IF control_phase = 2 THEN "ADDRESSED" ELSE "RESET"
          /\ request' = "set_address" /\ port_intr' = FALSE
      BY <2>3 DEF Address
    <3> QED
      BY <3>1, <3>2, <3>3
  <2>4. CASE ClearedActive(PortStatus) /\ ClearedStat(PortStatus) = "ADDRESSED" /\ Control
    <3>1. dev_stat = "ADDRESSED" /\ channel = "idle" /\ connected
      BY <2>4 DEF ClearedStat, PluggedIn
    <3>2. dev_stat' = "ADDRESSED" /\ port_intr' = FALSE /\ device' = device
      BY <2>4 DEF Control
    <3> QED
      BY <3>1, <3>2
  <2>5. CASE ClearedActive(PortStatus) /\ ClearedStat(PortStatus) = "CONFIGURED" /\ Poll
    <3>1. connected /\ channel = "idle" /\ dev_stat = "CONFIGURED" /\ at \in LinePoint
      BY <2>5 DEF ClearedStat, PluggedIn
    <3>2. /\ dev_stat' = "CONFIGURED" /\ port_intr' = FALSE /\ at' = at /\ device' = device
          /\ channel' \in {"idle", "in"} /\ control_phase' = control_phase
      BY <2>5, <3>1, PollSteps DEF Program, Disturb
    <3> QED
      BY <3>1, <3>2
  <2> QED
    BY <1>7, <2>1, <2>2, <2>3, <2>4, <2>5, InterruptCases, Zenon
<1>8. CASE ChannelDone
  BY <1>8 DEF ChannelDone
<1>9. CASE Unplug \/ Plug
  <2>1. CASE Unplug
    BY <2>1 DEF Unplug
  <2>2. CASE Plug
    BY <2>2 DEF Plug, StageOver
  <2> QED
    BY <1>9, <2>1, <2>2
<1>10. CASE UNCHANGED vars
  BY <1>10 DEF vars
<1> QED
  BY <1>1, <1>2, <1>3, <1>4, <1>5, <1>6, <1>7, <1>8, <1>9, <1>10, <1>11, <1>12, NextCases, Zenon

LEMMA EnumPollsEnum ==
  ASSUME Safe, [Next]_vars, EnumPolls
  PROVE  EnumInv'
<1> USE DEF EnumInv, EnumPoint, Between
<1>0. /\ EnumInv /\ dev_stat' = "ADDRESSED" /\ at \in EnumPoint /\ at' \in Between \cup {"clear", "settle"}
      /\ config_desc_len /\ (polls > 2 => config_val)
      /\ polls \in 1 .. 4 /\ control_phase \in 0 .. 2 /\ can_poll \in BOOLEAN
      /\ transfer_active \in BOOLEAN
  BY EnumPollsIdle, PollFrames DEF PollFrame, Safe, Timely, TypeInv, Flags, Points
<1>1. UNCHANGED <<dev_stat, config_val, config_desc_len, polls, descriptor, device>>
  BY PollFrames DEF PollFrame
<1> USE DEF Polls, pollVars
<1>2. CASE usb_poll
  BY <1>0, <1>1, <1>2 DEF usb_poll
<1>3. CASE SetupData
  <2>1. Packet = Enumeration[polls]
    BY <1>0, Requests DEF Packet
  <2> QED
    BY <1>0, <1>1, <1>3, <2>1 DEF SetupData
<1>4. CASE Unmask
  BY <1>0, <1>1, <1>4 DEF Unmask
<1>5. CASE Switch
  BY <1>0, <1>1, <1>5, Phases DEF Switch
<1>6. CASE StorePhase
  BY <1>0, <1>1, <1>6 DEF StorePhase
<1>7. CASE StartRequest
  <2>1. /\ at = "program" /\ at' = IF polls = 1 THEN "clear" ELSE "settle"
        /\ channel' = "setup" /\ asked' = request
        /\ UNCHANGED <<can_poll, prev_transfer, control_phase, transfer_active, request>>
    BY <1>0, <1>7 DEF StartRequest, Transfer, Program
  <2>2. /\ ~can_poll /\ transfer_active /\ request = Enumeration[polls]
        /\ prev_transfer = request /\ control_phase = NextPhase("setup", request)
    BY <1>0, <2>1
  <2>3. CASE polls = 1
    <3>1. prev_transfer' # "config" /\ at' = "clear"
      BY <2>1, <2>2, <2>3, Requests
    <3> QED
      BY <1>0, <1>1, <2>1, <2>2, <2>3, <3>1
  <2>4. CASE polls # 1
    <3>1. /\ polls = 4 => request = "set_config"
          /\ polls # 4 => request = "config"
      BY <1>0, <2>2, <2>4, Requests
    <3>2. /\ polls = 4 => control_phase = 2
          /\ polls # 4 => control_phase = 1
      BY <2>2, <3>1, Phases DEF HasData
    <3>3. InProgress'
      <4>1. request' # "none"
        BY <2>1, <3>1
      <4> QED
        BY <1>0, <1>1, <2>1, <2>2, <3>2, <4>1 DEF InProgress, Quiet
    <3> QED
      BY <1>0, <1>1, <2>1, <2>2, <2>4, <3>3
  <2> QED
    BY <2>3, <2>4
<1> QED
  BY <1>2, <1>3, <1>4, <1>5, <1>6, <1>7 DEF EnumPolls

\* A stage ends between the request and its end.
LEMMA StageDone ==
  ASSUME InProgress, polls \in 2 .. 4, connected, ChannelDone
  PROVE  InProgress'
<1> USE DEF InProgress, Quiet
<1>1. /\ channel # "idle" /\ channel' = "idle" /\ halted' = TRUE /\ asked = request
      /\ request = Enumeration[polls]
      /\ UNCHANGED <<can_poll, transfer_active, control_phase, enumVars, polls>>
  BY DEF ChannelDone, statVars, threadVars
<1>2. /\ polls = 4 => request = "set_config"
      /\ polls # 4 => request = "config"
  BY <1>1, Requests
<1>3. /\ channel # "status" => asked' = request
      /\ channel = "data" /\ polls # 4 => descriptor' = "config"
      /\ channel # "data" => descriptor' = descriptor
      /\ channel = "status" /\ polls = 4 => device' = "configured"
  BY <1>1, <1>2 DEF ChannelDone
<1> HIDE DEF InProgress
<1>4. CASE ~can_poll
  BY <1>1, <1>3, <1>4 DEF InProgress, enumVars
<1>5. CASE can_poll
  BY <1>1, <1>3, <1>5 DEF InProgress, enumVars
<1> QED
  BY <1>4, <1>5

\* The handler starts the next stage.
LEMMA StageNext ==
  ASSUME InProgress, polls \in 2 .. 4, control_phase \in 0 .. 2, can_poll \in BOOLEAN,
         transfer_active, channel = "idle", Control, UNCHANGED threadVars
  PROVE  InProgress'
<1>1. /\ ~can_poll /\ request = Enumeration[polls] /\ asked = request
      /\ prev_transfer = request /\ request # "none"
      /\ \/ control_phase = 1 /\ polls # 4
         \/ control_phase = 2 /\ polls # 4 /\ descriptor = "config"
         \/ control_phase = 2 /\ polls = 4
  BY Requests DEF InProgress
<1>2. /\ transfer_active' = (control_phase # 2) /\ can_poll' = (control_phase = 2)
      /\ control_transfer(control_phase, request)
      /\ UNCHANGED <<enumVars, device, descriptor, polls>>
  BY <1>1 DEF Control, deviceVars, threadVars
<1>3. /\ control_phase = 1 => channel' = "data" /\ asked' = asked /\ control_phase' = 2
      /\ control_phase = 2 => channel' = "status" /\ asked' = asked /\ control_phase' = 0
  BY <1>2, ControlSteps
<1> QED
  BY <1>1, <1>2, <1>3 DEF InProgress, Quiet, enumVars

\* The end of a request, and of all of them.
LEMMA RequestEnds ==
  ASSUME InProgress, polls \in 2 .. 4, polls > 2 => config_val, config_desc_len, ~transfer_active,
         can_poll \in BOOLEAN, Finish(PortStatus), at' = at, polls' = polls
  PROVE  InProgress' /\ config_val' /\ config_desc_len'
<1>1. /\ can_poll /\ request = Enumeration[polls] /\ prev_transfer \in {request, "none"}
      /\ prev_transfer = "none" => config_val
      /\ polls # 4 => descriptor = "config"
  BY DEF InProgress
<1>2. /\ prev_transfer' = "none" /\ transfer_active' = FALSE
      /\ prev_transfer = "config" => /\ config_val' = (descriptor = "config")
                                     /\ config_desc_len' = (descriptor # "none")
      /\ prev_transfer # "config" => UNCHANGED <<config_val, config_desc_len>>
      /\ UNCHANGED <<control_phase, can_poll, request, channel, deviceVars>>
  BY DEF Finish
<1>3. polls # 4 => request = "config"
  BY <1>1, Requests
<1>4. polls = 4 => request = "set_config"
  BY <1>1, Requests
<1>5. config_val' /\ config_desc_len'
  <2>1. CASE prev_transfer = "config"
    <3>1. polls # 4
      BY <1>1, <1>4, <2>1
    <3> QED
      BY <1>1, <1>2, <2>1, <3>1
  <2>2. CASE prev_transfer # "config"
    <3>1. config_val
      BY <1>1, <1>3, <2>2
    <3> QED
      BY <1>2, <2>2, <3>1
  <2> QED
    BY <2>1, <2>2
<1>6. UNCHANGED <<device, asked, descriptor>>
  BY <1>2 DEF deviceVars
<1> QED
  BY <1>1, <1>2, <1>5, <1>6 DEF InProgress

LEMMA EnumNext ==
  ASSUME Patient, Safe, [Next]_vars
  PROVE  EnumInv'
<1> USE DEF EnumInv, EnumPoint, Between
<1>0. /\ EnumInv /\ TypeInv /\ Flags /\ Points /\ ChannelInv /\ DeviceInv /\ polls \in 1 .. 4
      /\ at = "settle" => polls \in 2 .. 4 /\ InProgress /\ connected
      /\ at \in Between \cup {"configure"} => Quiet /\ ~port_intr
      /\ at \notin EnumPoint => at \in LinePoint
  BY DEF Safe, Timely, TypeInv, Points, ChannelInv
<1>1. CASE EnumPolls
  BY <1>1, EnumPollsEnum
<1>2. CASE ClearBuffer
  BY <1>0, <1>2 DEF ClearBuffer, statVars, enumVars
<1>3. CASE Settle
  <2>1. channel = "idle" /\ ~halted
    BY <1>0, <1>3 DEF Settle, StageOver, Pending, ChannelInv, Flags
  <2>2. /\ can_poll /\ prev_transfer = "none" /\ config_val /\ control_phase = 0
        /\ polls = 4 => device = "configured"
        /\ at = "settle" /\ dev_stat = "ADDRESSED" /\ config_desc_len
    BY <1>0, <1>3, <2>1 DEF Settle, InProgress, Quiet
  <2>3. \/ polls = 4 /\ at' = "configure" /\ polls' = polls
        \/ polls # 4 /\ at' = "poll" /\ polls' = polls + 1
    BY <1>3, Requests DEF Settle
  <2>4. UNCHANGED <<dev_stat, can_poll, prev_transfer, config_val, config_desc_len, control_phase,
                    device>>
    BY <1>3 DEF Settle, statVars, enumVars, deviceVars
  <2> QED
    BY <1>0, <2>2, <2>3, <2>4
<1>4. CASE Configure
  BY <1>4 DEF Configure
<1>5. CASE GetLine \/ Claim \/ UnmaskPoll \/ StartPoll
  <2>1. at' \in LinePoint
    BY <1>5, GetLineSteps DEF Claim, UnmaskPoll, StartPoll, Goes, LinePoint
  <2> QED
    BY <2>1 DEF LinePoint
<1>7. CASE Interrupt
  <2>0. Serves /\ ServesFacts /\ at' = at /\ polls' = polls /\ Pending /\ PortStatus = connected
    BY <1>0, <1>7, InterruptCases, InterruptFacts DEF ServesFacts, threadVars
  <2>6. at \notin Between \cup {"configure"}
    BY <1>0, <2>0 DEF Pending, Quiet
  <2>7. CASE at \in LinePoint
    BY <2>0, <2>7 DEF LinePoint
  <2>8. ASSUME at \in EnumPoint
        PROVE  at \in {"poll", "clear", "settle"} /\ dev_stat # "CONFIGURED"
    BY <1>0, <2>6, <2>8 DEF ChannelInv
  <2>1. CASE at \in EnumPoint /\ ~ClearedActive(PortStatus) /\ Finish(PortStatus)
    <3>1. /\ ~transfer_active /\ connected /\ dev_stat' = dev_stat
      BY <1>0, <2>0, <2>1, <2>8 DEF Finish, ClearedActive, ClearedStat, PluggedIn, ChannelInv, Flags,
                              Pending, Quiet
    <3>2. CASE at = "settle"
      <4>1. InProgress' /\ config_val' /\ config_desc_len'
        BY <1>0, <2>0, <2>1, <3>1, <3>2, RequestEnds DEF Flags
      <4>2. can_poll' = can_poll
        BY <2>1 DEF Finish
      <4> QED
        BY <1>0, <2>0, <3>1, <3>2, <4>1, <4>2
    <3>3. CASE at \in {"poll", "clear"}
      <4>1. /\ prev_transfer' = "none"
            /\ UNCHANGED <<config_val, config_desc_len, can_poll>>
        BY <1>0, <2>1, <3>3 DEF Finish
      <4> QED
        BY <1>0, <2>0, <3>1, <3>3, <4>1
    <3> QED
      BY <2>1, <2>8, <3>2, <3>3
  <2>2. CASE at \in EnumPoint /\ ClearedStat(PortStatus) = "POWERED" /\ PowerUp
    <3>1. dev_stat # "ADDRESSED"
      BY <2>2 DEF ClearedStat, PluggedIn
    <3>2. at = "poll" /\ polls = 1 /\ ~can_poll
      BY <1>0, <2>2, <3>1
    <3> QED
      BY <1>0, <2>0, <2>2, <3>2 DEF PowerUp, enumVars
  <2>3. CASE at \in EnumPoint /\ ClearedStat(PortStatus) = "RESET" /\ Address
    <3>1. dev_stat # "ADDRESSED"
      BY <2>3 DEF ClearedStat, PluggedIn
    <3>2. at = "poll" /\ polls = 1 /\ ~can_poll
      BY <1>0, <2>3, <3>1
    <3> QED
      BY <1>0, <2>0, <2>3, <3>2 DEF Address
  <2>4. CASE /\ at \in EnumPoint /\ ClearedActive(PortStatus) /\ ClearedStat(PortStatus) = "ADDRESSED"
             /\ Control
    <3>1. /\ transfer_active /\ channel = "idle" /\ UNCHANGED threadVars
          /\ dev_stat' = "ADDRESSED" /\ UNCHANGED <<enumVars, device>>
      BY <2>0, <2>4 DEF ClearedActive, ClearedStat, PluggedIn, ServesFacts, Control
    <3>2. CASE at = "settle"
      <4>1. InProgress'
        BY <1>0, <2>4, <3>1, <3>2, StageNext DEF Flags, Points
      <4> QED
        BY <1>0, <2>0, <3>1, <3>2, <4>1 DEF enumVars
    <3>3. CASE at \in {"poll", "clear"}
      BY <1>0, <2>0, <3>1, <3>3 DEF enumVars
    <3> QED
      BY <2>4, <2>8, <3>2, <3>3
  <2>5. CASE at \in EnumPoint /\ ClearedStat(PortStatus) = "CONFIGURED" /\ Poll
    BY <2>5, <2>8 DEF ClearedStat, PluggedIn
  <2>9. at \in EnumPoint \/ at \in LinePoint
    BY <1>0
  <2> QED
    BY <1>7, <2>1, <2>2, <2>3, <2>4, <2>5, <2>7, <2>9, InterruptCases, Zenon
<1>8. CASE ChannelDone
  <2>1. UNCHANGED <<statVars, enumVars, at, polls, stage>> /\ channel # "idle"
    BY <1>8 DEF ChannelDone, threadVars
  <2>2. CASE at = "settle"
    <3>1. InProgress'
      BY <1>0, <1>8, <2>2, StageDone
    <3> QED
      BY <1>0, <2>1, <2>2, <3>1 DEF statVars, enumVars
  <2>3. CASE at # "settle"
    <3>1. at # "configure"
      BY <1>0, <2>1 DEF Quiet
    <3> QED
      BY <1>0, <2>1, <2>3, <3>1 DEF statVars, enumVars
  <2> QED
    BY <2>2, <2>3
<1>9. CASE Unplug
  <2>1. at' = at /\ at \notin EnumPoint
    BY <1>0, <1>9 DEF Unplug, ChannelInv, threadVars
  <2> QED
    BY <2>1
<1>10. CASE Plug
  <2>1. at \notin EnumPoint \/ at = "poll"
    BY <1>0, <1>10 DEF Plug, ChannelInv
  <2> QED
    BY <1>0, <1>10, <2>1 DEF Plug, statVars, enumVars, threadVars
<1>11. CASE UNCHANGED vars
  <2>1. UNCHANGED <<statVars, enumVars, at, polls, stage, channel, halted, deviceVars>>
    BY <1>11 DEF vars, threadVars, channelVars
  <2>2. InProgress' = InProgress
    BY <2>1 DEF InProgress, Quiet, statVars, enumVars, deviceVars
  <2> QED
    BY <1>0, <2>1, <2>2 DEF statVars, enumVars, deviceVars
<1> QED
  BY <1>1, <1>2, <1>3, <1>4, <1>5, <1>7, <1>8, <1>9, <1>10, <1>11, NextCases, Zenon

-----------------------------------------------------------------------------
(* The theorems.                                                           *)

LEMMA InitInv == Init => Inv
<1> SUFFICES ASSUME Init PROVE Inv
  OBVIOUS
<1> USE DEF Init
<1>1. Flags
  BY DEF Flags
<1>2. Points
  BY Requests DEF Points, DeviceStatus, EnumPoint, ControlStage
<1>3. LineTypes
  BY ReportKeys, SizeAssumption DEF LineTypes
<1>4. PhaseInv
  BY DEF PhaseInv, LinePoint
<1>5. ChannelInv
  BY DEF ChannelInv, Quiet, LinePoint, Between
<1>6. DeviceInv
  BY DEF DeviceInv
<1>7. EnumInv
  BY DEF EnumInv, Between
<1> QED
  BY <1>1, <1>2, <1>3, <1>4, <1>5, <1>6, <1>7 DEF Inv, TypeInv, Timely

LEMMA DriverTyped == Spec => [](TypeInv /\ PhaseInv)
<1>1. Init => TypeInv /\ PhaseInv
  BY InitInv DEF Inv
<1>2. TypeInv /\ PhaseInv /\ [Next]_vars => (TypeInv /\ PhaseInv)'
  BY FlagsNext, PointsNext, LineTypesNext, PhaseNext DEF TypeInv
<1> QED
  BY <1>1, <1>2, PTL DEF Spec

\* The types of the driver's state, of the line buffer above all: cursor stays in
\* it however many keys a report adds (usb.c:84), and wiped wraps (usb.c:686).
THEOREM KeyboardTypes == Spec => []TypeOK
<1>1. TypeInv => TypeOK
  BY TypeInvGivesTypeOK
<1> QED
  BY <1>1, DriverTyped, PTL

\* get_line never writes further than one past the caller's buffer, for a line and
\* a buffer of any size (usb.c:695-708).
THEOREM LinesFit == Spec => []AtMostOnePast
<1>1. TypeInv => AtMostOnePast
  BY TypeInvGivesTypeOK
<1> QED
  BY <1>1, DriverTyped, PTL

\* key_poll starts from phase 0 (usb.c:640-656), but for a keyboard pulled out between
\* its tests, whatever the handler does between its statements, however long a stage
\* lasts, and also after an untimely call.
THEOREM PollsStartFresh == Spec => []PollStartsFresh
<1>1. PhaseInv => PollStartsFresh
  BY DEF PhaseInv, PollStartsFresh
<1> QED
  BY <1>1, DriverTyped, PTL

LEMMA DriverInv ==
  ASSUME Patient
  PROVE  Spec => []Inv
<1>1. Init => Inv
  BY InitInv
<1>2. Inv /\ [Next]_vars => Inv'
  <2> SUFFICES ASSUME Inv, [Next]_vars PROVE Inv'
    OBVIOUS
  <2>1. TypeInv'
    BY FlagsNext, PointsNext, LineTypesNext DEF Inv, TypeInv
  <2>2. PhaseInv'
    BY PhaseNext DEF Inv
  <2>3. ASSUME ~untimely'
        PROVE  Timely'
    <3>1. Safe
      BY <2>3, UntimelyIs DEF Inv, Safe
    <3> QED
      BY <3>1, ChannelNext, DeviceNext, EnumNext DEF Timely
  <2> QED
    BY <2>1, <2>2, <2>3 DEF Inv
<1> QED
  BY <1>1, <1>2, PTL DEF Spec

\* The channel is never programmed while it executes a stage (usb.c:220-263,
\* 634-679), unless the thread has started a transfer before the last one was over:
\* usb_poll in the window from can_poll = 1 (335) to the end of the last stage, or
\* key_poll after a disconnect between its two tests (628).  That is, these two are
\* the only ways to it.  Nothing is assumed of poll_wait's delays (547-551); those of
\* 2 s between the requests (559-614) outlast a request.
THEOREM ChannelShared ==
  ASSUME Patient
  PROVE  Spec => []OneTransfer
<1>1. Inv => OneTransfer
  BY DEF Inv, Timely, ChannelInv, OneTransfer
<1> QED
  BY <1>1, DriverInv, PTL

\* The driver's idea of the keyboard is never ahead of the keyboard (usb.c:319-335,
\* 616-621), through a disconnect and a new connection, until a transfer is started
\* untimely, and under the same condition.
THEOREM DeviceKnown ==
  ASSUME Patient
  PROVE  Spec => []KnowsDevice
<1>1. Inv => KnowsDevice
  BY DEF Inv, Timely, DeviceInv, KnowsDevice
<1> QED
  BY <1>1, DriverInv, PTL

-----------------------------------------------------------------------------
(* Reports one after the other.                                            *)

\* Every set of naturals has a least member.
LEMMA LeastNat ==
  ASSUME NEW S \in SUBSET Nat, S # {}
  PROVE  \E x \in S : \A y \in S : ~(y < x)
<1>1. IsWellFoundedOn(OpToRel(<, Nat), Nat)
  BY NatLessThanWellFounded
<1>2. \E x \in S : \A y \in S : ~(<<y, x>> \in OpToRel(<, Nat))
  BY <1>1, WFMin
<1> QED
  BY <1>2 DEF OpToRel

\* f[i] is the first i sequences of s one after the other.
IsFlat(f, s, C) ==
  /\ f \in [1 .. Len(s) -> Seq(C)]
  /\ \A i \in 1 .. Len(s) : f[i] = IF i = 1 THEN s[i] ELSE f[i - 1] \o s[i]

LEMMA FlatUnique ==
  ASSUME NEW C, NEW s \in Seq(Seq(C)), NEW f, NEW g, IsFlat(f, s, C),
         \A i \in 1 .. Len(s) : g[i] = IF i = 1 THEN s[i] ELSE g[i - 1] \o s[i],
         NEW k \in 1 .. Len(s)
  PROVE  f[k] = g[k]
<1> DEFINE Bad == {i \in Nat : i \in 1 .. Len(s) /\ f[i] # g[i]}
<1>0. Len(s) \in Nat /\ k \in Nat
  BY LenProperties
<1>1. SUFFICES Bad = {}
  BY <1>0, Zenon
<1>2. SUFFICES ASSUME Bad # {} PROVE FALSE
  OBVIOUS
<1>3. PICK x \in Bad : \A y \in Bad : ~(y < x)
  <2>1. Bad \in SUBSET Nat
    OBVIOUS
  <2> HIDE DEF Bad
  <2> QED
    BY <2>1, <1>2, LeastNat
<1>4. x \in Nat /\ x \in 1 .. Len(s) /\ f[x] # g[x]
  OBVIOUS
<1>5. x # 1
  BY <1>4 DEF IsFlat
<1>6. x - 1 \in 1 .. Len(s) /\ x - 1 \in Nat /\ x - 1 < x
  BY <1>4, <1>5, LenProperties
<1>7. f[x - 1] = g[x - 1]
  BY <1>3, <1>6
<1> QED
  BY <1>4, <1>5, <1>7 DEF IsFlat

LEMMA FlatGrows ==
  ASSUME NEW C, NEW s \in Seq(Seq(C)), NEW x \in Seq(C), NEW f, IsFlat(f, s, C)
  PROVE  LET n == Len(s)
             y == IF n = 0 THEN x ELSE f[n] \o x
             g == [i \in 1 .. n + 1 |-> IF i = n + 1 THEN y ELSE f[i]]
         IN  IsFlat(g, Append(s, x), C)
<1> DEFINE n == Len(s)
           y == IF n = 0 THEN x ELSE f[n] \o x
           g == [i \in 1 .. n + 1 |-> IF i = n + 1 THEN y ELSE f[i]]
           t == Append(s, x)
<1>1. /\ n \in Nat /\ Len(t) = n + 1 /\ t[n + 1] = x
      /\ \A i \in 1 .. n : t[i] = s[i]
  BY AppendProperties, LenProperties
<1>2. f \in [1 .. n -> Seq(C)] /\ \A i \in 1 .. n : f[i] = IF i = 1 THEN s[i] ELSE f[i - 1] \o s[i]
  BY DEF IsFlat
<1>3. y \in Seq(C)
  <2>1. CASE n = 0
    BY <2>1
  <2>2. CASE n # 0
    <3>1. f[n] \in Seq(C)
      <4>1. n \in 1 .. n
        BY <1>1, <2>2
      <4> HIDE DEF n, y, g, t
      <4> QED
        BY <4>1, <1>2
    <3>2. f[n] \o x \in Seq(C)
      BY <3>1, ConcatProperties
    <3> QED
      BY <3>2, <2>2
  <2> QED
    BY <2>1, <2>2
<1> HIDE DEF n, t, y
<1>4. g \in [1 .. n + 1 -> Seq(C)]
  BY <1>1, <1>2, <1>3
<1>5. ASSUME NEW i \in 1 .. n + 1
      PROVE  g[i] = IF i = 1 THEN t[i] ELSE g[i - 1] \o t[i]
  <2>1. CASE i = n + 1 /\ n = 0
    BY <2>1, <1>1 DEF y
  <2>2. CASE i = n + 1 /\ n # 0
    <3>1. g[i] = f[n] \o x /\ i # 1 /\ i - 1 \in 1 .. n + 1 /\ i - 1 # n + 1 /\ i - 1 = n
      BY <2>2, <1>1 DEF y
    <3>2. g[i - 1] = f[n]
      BY <3>1
    <3> QED
      BY <3>1, <3>2, <2>2, <1>1
  <2>3. CASE i # n + 1
    <3>1. i \in 1 .. n /\ g[i] = f[i] /\ t[i] = s[i]
      BY <2>3, <1>1
    <3>2. CASE i = 1
      BY <3>1, <3>2, <1>2
    <3>3. CASE i # 1
      <4>1. i - 1 \in 1 .. n + 1 /\ i - 1 # n + 1 /\ i - 1 \in 1 .. n
        BY <3>1, <3>3, <1>1
      <4>2. g[i - 1] = f[i - 1]
        BY <4>1
      <4> QED
        BY <3>1, <3>3, <4>2, <1>2
    <3> QED
      BY <3>2, <3>3
  <2> QED
    BY <2>1, <2>2, <2>3
<1>6. IsFlat(g, t, C)
  <2> HIDE DEF g
  <2> QED
    BY <1>1, <1>4, <1>5 DEF IsFlat
<1> QED
  BY <1>6 DEF g, t, y, n

LEMMA FlatExists ==
  ASSUME NEW C, NEW s \in Seq(Seq(C))
  PROVE  \E f : IsFlat(f, s, C)
<1> DEFINE Bad == {k \in Nat : \E q \in Seq(Seq(C)) : Len(q) = k /\ ~\E f : IsFlat(f, q, C)}
<1>1. SUFFICES Bad = {}
  <2>1. Len(s) \in Nat
    BY LenProperties
  <2> QED
    BY <2>1, Zenon
<1>2. SUFFICES ASSUME Bad # {} PROVE FALSE
  OBVIOUS
<1>3. PICK x \in Bad : \A y \in Bad : ~(y < x)
  <2>1. Bad \in SUBSET Nat
    OBVIOUS
  <2> HIDE DEF Bad
  <2> QED
    BY <2>1, <1>2, LeastNat
<1>4. PICK q \in Seq(Seq(C)) : Len(q) = x /\ ~\E f : IsFlat(f, q, C)
  BY Zenon
<1>5. CASE x = 0
  <2>1. \A f : 1 .. 0 = {} /\ ([i \in 1 .. 0 |-> f] \in [1 .. 0 -> Seq(C)])
    OBVIOUS
  <2>2. IsFlat([i \in 1 .. 0 |-> <<>>], q, C)
    BY <2>1, <1>4, <1>5 DEF IsFlat
  <2> QED
    BY <2>2, <1>4
<1>6. CASE x # 0
  <2>1. PICK r \in Seq(Seq(C)), e \in Seq(C) : q = Append(r, e) /\ Len(r) = x - 1
    <3>1. q # <<>>
      BY <1>4, <1>6
    <3>2. \E r \in Seq(Seq(C)), e \in Seq(C) : q = Append(r, e)
      BY <3>1, SequenceEmptyOrAppend
    <3>3. PICK r \in Seq(Seq(C)), e \in Seq(C) : q = Append(r, e)
      BY <3>2
    <3>4. Len(q) = Len(r) + 1 /\ Len(r) \in Nat
      BY <3>3, AppendProperties, LenProperties
    <3>5. Len(r) = x - 1
      BY <3>4, <1>4
    <3> QED
      BY <3>3, <3>5, Zenon
  <2>2. x - 1 \in Nat /\ x - 1 < x
    BY <1>6, <1>3
  <2>3. \E f : IsFlat(f, r, C)
    BY <1>3, <2>1, <2>2
  <2>4. PICK f : IsFlat(f, r, C)
    BY <2>3
  <2>5. \E g : IsFlat(g, Append(r, e), C)
    BY <2>4, FlatGrows
  <2> QED
    BY <2>1, <2>5, <1>4
<1> QED
  BY <1>5, <1>6

\* The recursive function that FlattenSeq chooses.
IsChosen(h, s) == h = [i \in 1 .. Len(s) |-> IF i = 1 THEN s[i] ELSE h[i - 1] \o s[i]]

LEMMA FlattenChooses ==
  ASSUME NEW s, Len(s) # 0
  PROVE  FlattenSeq(s) = (CHOOSE h : IsChosen(h, s))[Len(s)]
BY Zenon DEF FlattenSeq, IsChosen

LEMMA FlattenIs ==
  ASSUME NEW C, NEW s \in Seq(Seq(C)), NEW f, IsFlat(f, s, C), Len(s) # 0
  PROVE  FlattenSeq(s) = f[Len(s)] /\ f[Len(s)] \in Seq(C)
<1>1. f \in [1 .. Len(s) -> Seq(C)]
      /\ \A i \in 1 .. Len(s) : f[i] = IF i = 1 THEN s[i] ELSE f[i - 1] \o s[i]
  BY DEF IsFlat
<1>2. IsChosen(f, s)
  <2>1. f = [i \in 1 .. Len(s) |-> f[i]]
    BY <1>1
  <2> QED
    BY <1>1, <2>1, Zenon DEF IsChosen
<1>3. PICK h : h = (CHOOSE g : IsChosen(g, s)) /\ IsChosen(h, s)
  BY <1>2, Zenon
<1>4. \A i \in 1 .. Len(s) : h[i] = IF i = 1 THEN s[i] ELSE h[i - 1] \o s[i]
  BY <1>3, Zenon DEF IsChosen
<1>5. Len(s) \in 1 .. Len(s)
  BY LenProperties
<1>6. f[Len(s)] = h[Len(s)]
  BY <1>4, <1>5, FlatUnique
<1> QED
  BY <1>1, <1>3, <1>5, <1>6, FlattenChooses

\* What a report adds to the text of those before it.
LEMMA FlattenAppend ==
  ASSUME NEW C, NEW s \in Seq(Seq(C)), NEW x \in Seq(C)
  PROVE  /\ FlattenSeq(s) \in Seq(C)
         /\ FlattenSeq(Append(s, x)) = FlattenSeq(s) \o x
<1> DEFINE n == Len(s)
           t == Append(s, x)
<1>1. PICK f : IsFlat(f, s, C)
  BY FlatExists
<1> DEFINE y == IF n = 0 THEN x ELSE f[n] \o x
           g == [i \in 1 .. n + 1 |-> IF i = n + 1 THEN y ELSE f[i]]
<1>2. n \in Nat /\ t \in Seq(Seq(C)) /\ Len(t) = n + 1 /\ Len(t) # 0
  BY AppendProperties, LenProperties
<1>3. IsFlat(g, t, C)
  BY <1>1, FlatGrows
<1>4. FlattenSeq(t) = g[n + 1]
  <2> HIDE DEF g, t, n
  <2> QED
    BY <1>2, <1>3, FlattenIs
<1>5. g[n + 1] = y
  <2>1. n + 1 \in 1 .. n + 1
    BY <1>2
  <2> HIDE DEF y, n
  <2> QED
    BY <2>1
<1>6. CASE n = 0
  <2>1. s = <<>> /\ FlattenSeq(s) = s
    BY <1>6, EmptySeq DEF FlattenSeq
  <2>2. <<>> \o x = x /\ <<>> \in Seq(C)
    BY ConcatEmptySeq, EmptySeq
  <2> QED
    BY <1>4, <1>5, <1>6, <2>1, <2>2
<1>7. CASE n # 0
  <2>1. FlattenSeq(s) = f[n] /\ f[n] \in Seq(C)
    BY <1>1, <1>7, FlattenIs
  <2> QED
    BY <1>4, <1>5, <1>7, <2>1
<1> QED
  BY <1>6, <1>7

-----------------------------------------------------------------------------
(* The line that get_line collects.                                        *)

Least(a, b) == IF a < b THEN a ELSE b

\* A buffer b filled up to c shows the text q, as far as there is room.
Shows(c, b, q) == /\ c = Least(Len(q), BufLen)
                  /\ \A i \in 0 .. c - 1 : b[i] = q[i + 1]

WipedFrom(j, r) == [i \in DOMAIN r |-> IF i < j THEN r[i] ELSE NUL]

\* It shows the reports e, the first of which is whole, lost or wiped from some
\* character on.
Collects(c, b, e) ==
  IF e = <<>> THEN c = 0
  ELSE \/ Shows(c, b, FlattenSeq(Tail(e)))
       \/ \E j \in 1 .. Len(Head(e)) + 1 :
            Shows(c, b, WipedFrom(j, Head(e)) \o FlattenSeq(Tail(e)))

\* After the first report no poll is in progress while the buffer is emptied.
Late == at \in {"reset_cursor", "reset_buffer"} /\ echoed # <<>> =>
          ~(dev_stat = "CONFIGURED" /\ transfer_active)

Entered == /\ at \in LinePoint \ {"line"} /\ enter_pressed => echoed # <<>>
           /\ at = "copy" => enter_pressed

\* A report that came when the byte w was next loses its characters from w on,
\* as far as bzero has got.
Wipes(c, b, r, w, z) ==
  /\ c = Least(Len(r), BufLen)
  /\ \A i \in 0 .. c - 1 : b[i] = IF w <= i /\ i < z THEN NUL ELSE r[i + 1]

Wiping ==
  /\ at # "reset_buffer" => wiped = 0
  /\ at = "reset_cursor" => echoed = <<>> \/ \E r \in Seq(Char \cup {NUL}) : echoed = <<r>>
  /\ at = "reset_buffer" =>
       \/ echoed = <<>> /\ cursor = 0
       \/ \E r \in Seq(Char \cup {NUL}) :
            /\ echoed = <<r>>
            /\ cursor = 0 \/ \E w \in 0 .. wiped : Wipes(cursor, line_buffer, r, w, wiped)

Polling == {"loop", "test", "test_active", "claim", "start", "go", "copy"}
Collecting == at \in Polling =>
                Collects(cursor, line_buffer, echoed)

LineInv == Late /\ Entered /\ Wiping /\ Collecting

\* buf_key_data_check with room for n keys of k.
Filled(c, b, k) ==
  LET n == Least(Len(k), BufLen - c)
  IN  [i \in 0 .. BufLen - 1 |-> IF i \in c .. c + n - 1 THEN k[i - c + 1] ELSE b[i]]

LEMMA FilledShows ==
  ASSUME NEW C, NEW q \in Seq(C), NEW k \in Seq(C), NEW c \in 0 .. BufLen, NEW b,
         Shows(c, b, q)
  PROVE  Shows(c + Least(Len(k), BufLen - c), Filled(c, b, k), q \o k)
<1> DEFINE n == Least(Len(k), BufLen - c)
           f == Filled(c, b, k)
           p == q \o k
<1> SUFFICES Shows(c + n, f, p)
  OBVIOUS
<1>1. /\ Len(q) \in Nat /\ Len(k) \in Nat /\ Len(p) = Len(q) + Len(k)
      /\ \A i \in 1 .. Len(q) + Len(k) :
           p[i] = IF i <= Len(q) THEN q[i] ELSE k[i - Len(q)]
  BY ConcatProperties, LenProperties
<1>2. c = Least(Len(q), BufLen) /\ \A i \in 0 .. c - 1 : b[i] = q[i + 1]
  BY DEF Shows
<1>3. /\ c \in Nat /\ n \in Nat /\ c + n = Least(Len(q) + Len(k), BufLen) /\ c + n <= BufLen
      /\ c <= Len(q) /\ c + n <= Len(q) + Len(k) /\ n <= Len(k) /\ (n > 0 => c = Len(q))
  <2>1. n = Least(Len(k), BufLen - c) /\ BufLen \in Nat
    BY SizeAssumption
  <2> DEFINE x == Len(q)
             y == Len(k)
  <2>2. x \in Nat /\ y \in Nat /\ c = Least(x, BufLen) /\ n = Least(y, BufLen - c)
    BY <1>1, <1>2, <2>1
  <2> HIDE DEF n, x, y
  <2>3. c \in Nat /\ c <= x /\ c <= BufLen /\ (c = x \/ c = BufLen)
    BY <2>1, <2>2 DEF Least
  <2>4. BufLen - c \in Nat
    BY <2>1, <2>3
  <2>5. n \in Nat /\ n <= y /\ n <= BufLen - c /\ (n = y \/ n = BufLen - c)
    BY <2>2, <2>4 DEF Least
  <2>6. c + n <= BufLen /\ c + n <= x + y /\ (n > 0 => c = x)
    BY <2>1, <2>2, <2>3, <2>5
  <2>7. c + n = Least(x + y, BufLen)
    <3>1. ASSUME x + y < BufLen PROVE c + n = x + y
      <4>1. x < BufLen
        BY <2>1, <2>2, <3>1
      <4>2. c = x
        BY <2>2, <4>1 DEF Least
      <4>3. y < BufLen - c
        BY <2>1, <2>2, <3>1, <4>2
      <4> QED
        BY <2>2, <4>2, <4>3 DEF Least
    <3>2. ASSUME ~(x + y < BufLen) PROVE c + n = BufLen
      <4>1. CASE x < BufLen
        <5>1. c = x
          BY <2>2, <4>1 DEF Least
        <5>2. ~(y < BufLen - c)
          BY <2>1, <2>2, <3>2, <5>1
        <5>3. n = BufLen - c
          BY <2>2, <5>2 DEF Least
        <5> QED
          BY <2>1, <2>2, <5>1, <5>3
      <4>2. CASE ~(x < BufLen)
        <5>1. c = BufLen
          BY <2>2, <4>2 DEF Least
        <5> QED
          BY <2>1, <2>5, <5>1
      <4> QED
        BY <4>1, <4>2
    <3> QED
      BY <3>1, <3>2 DEF Least
  <2> QED
    BY <2>3, <2>5, <2>6, <2>7 DEF x, y
<1>4. f = [i \in 0 .. BufLen - 1 |-> IF i \in c .. c + n - 1 THEN k[i - c + 1] ELSE b[i]]
  BY Zenon DEF Filled
<1> HIDE DEF n, f, p
<1>5. ASSUME NEW i \in 0 .. c + n - 1
      PROVE  f[i] = p[i + 1]
  <2>1. i \in 0 .. BufLen - 1 /\ i + 1 \in 1 .. Len(q) + Len(k)
    BY <1>1, <1>3, SizeAssumption
  <2>2. CASE i < c
    <3>1. i \in 0 .. c - 1 /\ ~(i \in c .. c + n - 1) /\ i + 1 <= Len(q)
      BY <1>1, <1>3, <2>2
    <3>2. f[i] = b[i]
      BY <1>4, <2>1, <3>1
    <3> QED
      BY <1>1, <1>2, <2>1, <3>1, <3>2
  <2>3. CASE ~(i < c)
    <3>1. c = Len(q) /\ i \in c .. c + n - 1
      BY <1>1, <1>3, <2>3
    <3>2. f[i] = k[i - c + 1]
      BY <1>4, <2>1, <3>1
    <3>3. i + 1 - Len(q) = i - c + 1 /\ ~(i + 1 <= Len(q))
      BY <1>1, <1>3, <3>1
    <3>4. p[i + 1] = k[i + 1 - Len(q)]
      BY <1>1, <2>1, <3>3
    <3> QED
      BY <3>2, <3>3, <3>4
  <2> QED
    BY <2>2, <2>3
<1> QED
  BY <1>1, <1>3, <1>5 DEF Shows

LEMMA WipedIsText ==
  ASSUME NEW C, NUL \in C, NEW r \in Seq(C), NEW j \in 1 .. Len(r) + 1
  PROVE  /\ WipedFrom(j, r) \in Seq(C) /\ Len(WipedFrom(j, r)) = Len(r)
         /\ WipedFrom(Len(r) + 1, r) = r /\ Len(r) + 1 \in 1 .. Len(r) + 1
<1>1. Len(r) \in Nat /\ DOMAIN r = 1 .. Len(r) /\ r \in [1 .. Len(r) -> C]
  BY LenProperties
<1>2. WipedFrom(j, r) \in [1 .. Len(r) -> C]
  BY <1>1 DEF WipedFrom
<1>3. WipedFrom(j, r) \in Seq(C)
  BY <1>1, <1>2
<1>4. DOMAIN WipedFrom(j, r) = 1 .. Len(r)
  BY <1>1 DEF WipedFrom
<1>5. Len(WipedFrom(j, r)) = Len(r)
  BY <1>1, <1>3, <1>4, LenProperties
<1>6. WipedFrom(Len(r) + 1, r) = r
  <2>1. \A i \in 1 .. Len(r) : i < Len(r) + 1
    BY <1>1
  <2> QED
    BY <1>1, <2>1 DEF WipedFrom
<1> QED
  BY <1>1, <1>3, <1>5, <1>6

LEMMA CollectsWiped ==
  ASSUME NEW c, NEW b, NEW e, e # <<>>, NEW j \in 1 .. Len(Head(e)) + 1,
         Shows(c, b, WipedFrom(j, Head(e)) \o FlattenSeq(Tail(e)))
  PROVE  Collects(c, b, e)
BY Zenon DEF Collects

LEMMA CollectsFirst ==
  ASSUME NEW C, NUL \in C, NEW k \in Seq(C), NEW c, NEW b, Shows(c, b, k)
  PROVE  Collects(c, b, <<k>>)
<1>1. Head(<<k>>) = k /\ Tail(<<k>>) = <<>> /\ <<k>> # <<>>
  OBVIOUS
<1>2. FlattenSeq(<<>>) = <<>>
  BY EmptySeq DEF FlattenSeq
<1>3. WipedFrom(Len(k) + 1, k) \o <<>> = k /\ Len(k) + 1 \in 1 .. Len(k) + 1
  BY WipedIsText, ConcatEmptySeq, LenProperties
<1> DEFINE e == <<k>>
<1>4. /\ Head(e) = k /\ Tail(e) = <<>> /\ e # <<>>
  BY <1>1
<1> SUFFICES Collects(c, b, e)
  OBVIOUS
<1> HIDE DEF e
<1> QED
  BY <1>2, <1>3, <1>4, CollectsWiped

LEMMA FilledShowsBoth ==
  ASSUME NEW C, NEW r \in Seq(C), NEW q \in Seq(C), NEW k \in Seq(C),
         NEW c \in 0 .. BufLen, NEW b, Shows(c, b, r \o q)
  PROVE  Shows(c + Least(Len(k), BufLen - c), Filled(c, b, k), r \o (q \o k))
<1>1. r \o q \in Seq(C)
  BY ConcatProperties
<1>2. Shows(c + Least(Len(k), BufLen - c), Filled(c, b, k), (r \o q) \o k)
  BY <1>1, FilledShows
<1>3. (r \o q) \o k = r \o (q \o k)
  BY ConcatAssociative
<1> QED
  BY <1>2, <1>3

LEMMA CollectsMore ==
  ASSUME NEW C, NUL \in C, NEW e \in Seq(Seq(C)), NEW k \in Seq(C), NEW c \in 0 .. BufLen, NEW b,
         Collects(c, b, e)
  PROVE  Collects(c + Least(Len(k), BufLen - c), Filled(c, b, k), Append(e, k))
<1> DEFINE d == c + Least(Len(k), BufLen - c)
           f == Filled(c, b, k)
           t == Append(e, k)
<1> SUFFICES Collects(d, f, t)
  OBVIOUS
<1>1. CASE e = <<>>
  <2>1. t = <<k>>
    BY <1>1
  <2>3. <<>> \in Seq(C) /\ Len(<<>>) = 0 /\ <<>> \o k = k
    BY EmptySeq, ConcatEmptySeq
  <2>4. Shows(c, b, <<>>)
    BY <1>1, <2>3, SizeAssumption DEF Collects, Shows, Least
  <2>5. Shows(d, f, <<>> \o k)
    BY <2>3, <2>4, FilledShows
  <2> HIDE DEF d, f, t
  <2>6. Shows(d, f, k)
    BY <2>3, <2>5
  <2> QED
    BY <2>1, <2>6, CollectsFirst
<1>2. CASE e # <<>>
  <2>0. t \in Seq(Seq(C)) /\ t # <<>>
    BY AppendProperties
  <2>1. Head(t) = Head(e) /\ Tail(t) = Append(Tail(e), k)
    BY <1>2, HeadTailAppend
  <2>2. Tail(e) \in Seq(Seq(C)) /\ Head(e) \in Seq(C)
    BY <1>2, HeadTailProperties
  <2>3. /\ FlattenSeq(Tail(e)) \in Seq(C)
        /\ FlattenSeq(Tail(t)) = FlattenSeq(Tail(e)) \o k
    BY <2>1, <2>2, FlattenAppend
  <2>4. ASSUME Shows(c, b, FlattenSeq(Tail(e)))
        PROVE  Collects(d, f, t)
    <3>1. Shows(d, f, FlattenSeq(Tail(e)) \o k)
      BY <2>3, <2>4, FilledShows
    <3> HIDE DEF d, f, t
    <3>2. Shows(d, f, FlattenSeq(Tail(t)))
      BY <2>3, <3>1
    <3> QED
      BY <2>0, <3>2, Zenon DEF Collects
  <2>5. ASSUME NEW j \in 1 .. Len(Head(e)) + 1,
               Shows(c, b, WipedFrom(j, Head(e)) \o FlattenSeq(Tail(e)))
        PROVE  Collects(d, f, t)
    <3>1. WipedFrom(j, Head(e)) \in Seq(C)
      BY <2>2, WipedIsText
    <3>2. Shows(d, f, WipedFrom(j, Head(e)) \o (FlattenSeq(Tail(e)) \o k))
      BY <2>3, <2>5, <3>1, FilledShowsBoth
    <3> HIDE DEF d, f, t
    <3>3. Shows(d, f, WipedFrom(j, Head(t)) \o FlattenSeq(Tail(t))) /\ j \in 1 .. Len(Head(t)) + 1
      BY <2>1, <2>3, <3>2
    <3> QED
      BY <2>0, <3>3, CollectsWiped
  <2> HIDE DEF d, f, t
  <2> QED
    BY <1>2, <2>4, <2>5, Zenon DEF Collects
<1> HIDE DEF d, f, t
<1> QED
  BY <1>1, <1>2

Emptying == {"reset_cursor", "reset_buffer"}

\* The handler takes a report.
Receives ==
  /\ ~enter_pressed /\ dev_stat = "CONFIGURED" /\ transfer_active
  /\ transfer_active' = FALSE /\ at' = at /\ wiped' = wiped
  /\ line_buffer' = Filled(cursor, line_buffer, KeysRead)
  /\ cursor' = cursor + Least(Len(KeysRead), BufLen - cursor)
  /\ enter_pressed' = \E i \in DOMAIN KeysRead : KeysRead[i] = LF
  /\ echoed' = IF KeysRead = <<>> THEN echoed ELSE Append(echoed, KeysRead)

\* No line is touched.
LeavesLine ==
  /\ UNCHANGED lineVars
  /\ \/ at' = at
     \/ at \notin Emptying /\ at' \in EnumPoint \cup {"line"}
     \/ at \in Polling /\ at' \in Polling /\ (at' = "copy" => enter_pressed)
  /\ at \in Emptying /\ dev_stat' = "CONFIGURED" /\ transfer_active' =>
       dev_stat = "CONFIGURED" /\ transfer_active

LEMMA ReceivesOrNot ==
  ASSUME buf_key_data_check
  PROVE  \/ enter_pressed /\ UNCHANGED lineVars
         \/ /\ ~enter_pressed /\ wiped' = wiped
            /\ line_buffer' = Filled(cursor, line_buffer, KeysRead)
            /\ cursor' = cursor + Least(Len(KeysRead), BufLen - cursor)
            /\ enter_pressed' = \E i \in DOMAIN KeysRead : KeysRead[i] = LF
            /\ echoed' = IF KeysRead = <<>> THEN echoed ELSE Append(echoed, KeysRead)
BY Zenon DEF buf_key_data_check, Filled, Least

LEMMA LineSteps ==
  ASSUME TypeInv, [Next]_vars
  PROVE  LeavesLine \/ Receives \/ get_line \/ ResetCursor \/ ResetBuffer
<1> USE DEF TypeInv, Flags, Points, LeavesLine, statVars, threadVars, EnumPoint, LinePoint,
            Emptying, Polling
<1>1. CASE EnumPolls
  BY <1>1, PollFrames DEF PollFrame, Between
<1>2. CASE ClearBuffer
  BY <1>2 DEF ClearBuffer
<1>3. CASE Settle
  BY <1>3 DEF Settle
<1>4. CASE Configure
  BY <1>4 DEF Configure
<1>5. CASE Loop \/ key_poll \/ TestActive \/ Copy
  BY <1>5 DEF Loop, key_poll, TestActive, Copy, Goes, transferVars
<1>6. CASE Claim \/ UnmaskPoll \/ StartPoll
  BY <1>6 DEF Claim, UnmaskPoll, StartPoll, Goes
<1>7. CASE Interrupt
  <2> USE DEF Serves, ClearedActive, ClearedStat, PluggedIn
  <2>1. CASE Serves /\ Finish(PortStatus)
    BY <2>1 DEF Finish
  <2>2. CASE Serves /\ PowerUp
    BY <2>2 DEF PowerUp
  <2>3. CASE Serves /\ Address
    BY <2>3 DEF Address
  <2>4. CASE Serves /\ Control
    BY <2>4 DEF Control
  <2>5. CASE Serves /\ ClearedActive(PortStatus) /\ ClearedStat(PortStatus) = "CONFIGURED" /\ Poll
    <3>1. at' = at /\ dev_stat = "CONFIGURED" /\ transfer_active
      BY <2>5
    <3>2. \/ UNCHANGED lineVars
          \/ transfer_active' = FALSE /\ buf_key_data_check
      BY <2>5, Zenon DEF Poll
    <3>3. CASE UNCHANGED lineVars
      BY <3>1, <3>3
    <3>4. CASE transfer_active' = FALSE /\ buf_key_data_check
      BY <3>1, <3>4, ReceivesOrNot DEF Receives
    <3> QED
      BY <3>2, <3>3, <3>4
  <2> HIDE DEF TypeInv, Flags, Points, LeavesLine, ClearedActive, ClearedStat
  <2> QED
    BY <1>7, <2>1, <2>2, <2>3, <2>4, <2>5, InterruptCases, Zenon
<1>8. CASE ChannelDone
  BY <1>8 DEF ChannelDone
<1>9. CASE Unplug \/ Plug
  BY <1>9 DEF Unplug, Plug
<1>10. CASE UNCHANGED vars
  BY <1>10 DEF vars
<1> QED
  BY <1>1, <1>2, <1>3, <1>4, <1>5, <1>6, <1>7, <1>8, <1>9, <1>10, NextCases, Zenon DEF GetLine

\* What a report is, to the lemmas.
LEMMA KeysAre ==
  ASSUME TypeInv
  PROVE  /\ KeysRead \in Seq(Char \cup {NUL}) /\ echoed \in Seq(Seq(Char \cup {NUL}))
         /\ NUL \in Char \cup {NUL} /\ cursor \in 0 .. BufLen /\ wiped \in 0 .. BufLen - 1
         /\ line_buffer \in [0 .. BufLen - 1 -> Char \cup {NUL}]
         /\ BufLen \in Nat /\ BufLen > 0
BY ReportKeys, SizeAssumption DEF TypeInv, LineTypes

\* A report without keys changes nothing.
LEMMA NoKeys ==
  ASSUME TypeInv, KeysRead = <<>>, Receives
  PROVE  UNCHANGED <<line_buffer, cursor, echoed, wiped>> /\ enter_pressed' = FALSE
<1>1. cursor \in 0 .. BufLen /\ BufLen \in Nat /\ line_buffer \in [0 .. BufLen - 1 -> Char \cup {NUL}]
  BY KeysAre
<1>2. Len(KeysRead) = 0 /\ DOMAIN KeysRead = {}
  OBVIOUS
<1>3. Least(Len(KeysRead), BufLen - cursor) = 0
  BY <1>1, <1>2 DEF Least
<1>4. cursor' = cursor
  BY <1>1, <1>3 DEF Receives
<1>5. \A i \in 0 .. BufLen - 1 : ~(i \in cursor .. cursor + 0 - 1)
  BY <1>1
<1>6. Filled(cursor, line_buffer, KeysRead) = line_buffer
  BY <1>1, <1>3, <1>5 DEF Filled
<1> QED
  BY <1>2, <1>4, <1>6 DEF Receives

LEMMA LateNext ==
  ASSUME TypeInv, Late, [Next]_vars
  PROVE  Late'
<1> USE DEF Late
<1>1. CASE LeavesLine
  BY <1>1 DEF LeavesLine, Emptying, Polling, EnumPoint, lineVars
<1>2. CASE Receives
  BY <1>2 DEF Receives
<1>3. CASE get_line
  BY <1>3 DEF get_line
<1>4. CASE ResetCursor \/ ResetBuffer
  BY <1>4 DEF ResetCursor, ResetBuffer, Goes, statVars, transferVars
<1> QED
  BY <1>1, <1>2, <1>3, <1>4, LineSteps

LEMMA KeepsReports ==
  ASSUME NEW s \in Seq(Seq(Char \cup {NUL})), NEW k \in Seq(Char \cup {NUL})
  PROVE  Append(s, k) # <<>>
BY AppendProperties

LEMMA EnteredNext ==
  ASSUME TypeInv, Entered, [Next]_vars
  PROVE  Entered'
<1> USE DEF Entered, TypeInv, Points, EnumPoint, LinePoint
<1>1. CASE LeavesLine
  BY <1>1 DEF LeavesLine, Emptying, Polling, lineVars
<1>2. CASE Receives
  <2>1. KeysRead = <<>> => enter_pressed' = FALSE
    BY <1>2, NoKeys
  <2>2. KeysRead # <<>> => echoed' # <<>>
    <3> HIDE DEF TypeInv
    <3>1. ASSUME NEW k \in Seq(Char \cup {NUL}) PROVE Append(echoed, k) # <<>>
      BY KeysAre, KeepsReports
    <3>2. ASSUME KeysRead # <<>> PROVE echoed' = Append(echoed, KeysRead)
      BY <1>2, <3>2 DEF Receives
    <3> QED
      BY <3>1, <3>2, KeysAre
  <2> QED
    BY <1>2, <2>1, <2>2 DEF Receives
<1>3. CASE get_line
  BY <1>3 DEF get_line, Goes
<1>4. CASE ResetCursor \/ ResetBuffer
  BY <1>4 DEF ResetCursor, ResetBuffer, Goes
<1> QED
  BY <1>1, <1>2, <1>3, <1>4, LineSteps

\* The text of the first report, when it comes after the statement that resets
\* the cursor.
LEMMA WipesFirst ==
  ASSUME NEW k \in Seq(Char \cup {NUL}), NEW b, NEW w \in 0 .. BufLen - 1
  PROVE  Wipes(0 + Least(Len(k), BufLen - 0), Filled(0, b, k), k, w, w)
<1> DEFINE n == Least(Len(k), BufLen - 0)
<1>1. n \in Nat /\ 0 + n = Least(Len(k), BufLen) /\ n <= BufLen /\ BufLen \in Nat
  BY SizeAssumption, LenProperties DEF Least
<1>2. \A i \in 0 .. 0 + n - 1 : i \in 0 .. BufLen - 1 /\ i \in 0 .. 0 + n - 1 /\ i - 0 + 1 = i + 1
                             /\ ~(w <= i /\ i < w)
  BY <1>1
<1>3. \A i \in 0 .. BufLen - 1 :
        Filled(0, b, k)[i] = IF i \in 0 .. 0 + n - 1 THEN k[i - 0 + 1] ELSE b[i]
  BY DEF Filled
<1> HIDE DEF n
<1>4. \A i \in 0 .. 0 + n - 1 : Filled(0, b, k)[i] = IF w <= i /\ i < w THEN NUL ELSE k[i + 1]
  BY <1>2, <1>3
<1>5. Wipes(0 + n, Filled(0, b, k), k, w, w)
  BY <1>1, <1>4 DEF Wipes
<1> QED
  BY <1>5 DEF n

LEMMA WipesOn ==
  ASSUME NEW r \in Seq(Char \cup {NUL}), NEW c, NEW z \in 0 .. BufLen - 1, NEW w \in 0 .. z,
         NEW b \in [0 .. BufLen - 1 -> Char \cup {NUL}], Wipes(c, b, r, w, z)
  PROVE  Wipes(c, [b EXCEPT ![z] = NUL], r, w, z + 1)
<1>1. c \in Nat /\ c <= BufLen /\ BufLen \in Nat
  BY SizeAssumption, LenProperties DEF Wipes, Least
<1>2. ASSUME NEW i \in 0 .. c - 1
      PROVE  [b EXCEPT ![z] = NUL][i] = IF w <= i /\ i < z + 1 THEN NUL ELSE r[i + 1]
  <2>1. i \in 0 .. BufLen - 1 /\ b[i] = IF w <= i /\ i < z THEN NUL ELSE r[i + 1]
    BY <1>1 DEF Wipes
  <2>2. CASE i = z
    BY <2>1, <2>2
  <2>3. CASE i # z
    <3>1. i < z + 1 <=> i < z
      BY <2>3
    <3> QED
      BY <2>1, <2>3, <3>1
  <2> QED
    BY <2>2, <2>3
<1> QED
  BY <1>2 DEF Wipes

\* When bzero is done, the first report is wiped from some character on.
LEMMA WipedAtLast ==
  ASSUME NEW r \in Seq(Char \cup {NUL}), NEW c, NEW b, NEW w \in 0 .. BufLen - 1,
         Wipes(c, b, r, w, BufLen)
  PROVE  Collects(c, b, <<r>>)
<1>1. /\ Len(r) \in Nat /\ BufLen \in Nat /\ c \in Nat /\ c <= BufLen /\ c <= Len(r)
      /\ c = Least(Len(r), BufLen)
  BY SizeAssumption, LenProperties DEF Wipes, Least
<1> DEFINE j == 1 + Least(w, Len(r))
           q == WipedFrom(j, r)
           e == <<r>>
<1>2. j \in 1 .. Len(r) + 1
  BY <1>1 DEF Least
<1>3. \A i \in 1 .. Len(r) : i < j <=> i <= w
  BY <1>1 DEF Least
<1> HIDE DEF j
<1>4. q \in Seq(Char \cup {NUL}) /\ Len(q) = Len(r)
  BY <1>2, WipedIsText
<1>5. \A i \in 1 .. Len(r) : q[i] = IF i < j THEN r[i] ELSE NUL
  BY <1>1, LenProperties DEF WipedFrom
<1> HIDE DEF q
<1>6. ASSUME NEW i \in 0 .. c - 1
      PROVE  b[i] = q[i + 1]
  <2>1. i + 1 \in 1 .. Len(r) /\ i < BufLen
    BY <1>1
  <2>2. b[i] = IF w <= i /\ i < BufLen THEN NUL ELSE r[i + 1]
    BY DEF Wipes
  <2>3. i + 1 < j <=> ~(w <= i)
    BY <1>3, <2>1
  <2> QED
    BY <1>5, <2>1, <2>2, <2>3
<1>7. Shows(c, b, q)
  BY <1>1, <1>4, <1>6 DEF Shows
<1>8. Head(e) = r /\ Tail(e) = <<>> /\ e # <<>>
  OBVIOUS
<1>9. FlattenSeq(<<>>) = <<>> /\ q \o <<>> = q
  BY <1>4, EmptySeq, ConcatEmptySeq DEF FlattenSeq
<1> SUFFICES Collects(c, b, e)
  OBVIOUS
<1> HIDE DEF e
<1>10. Shows(c, b, WipedFrom(j, Head(e)) \o FlattenSeq(Tail(e))) /\ j \in 1 .. Len(Head(e)) + 1
  BY <1>2, <1>7, <1>8, <1>9 DEF q
<1> QED
  BY <1>8, <1>10, CollectsWiped

\* What the handler makes of the line, with a report that has keys.
LEMMA ReceivesKeys ==
  ASSUME TypeInv, Receives, KeysRead # <<>>
  PROVE  /\ line_buffer' = Filled(cursor, line_buffer, KeysRead)
         /\ cursor' = cursor + Least(Len(KeysRead), BufLen - cursor)
         /\ echoed' = Append(echoed, KeysRead) /\ wiped' = wiped /\ at' = at
         /\ dev_stat = "CONFIGURED" /\ transfer_active
BY Zenon DEF Receives

LEMMA WipingNext ==
  ASSUME TypeInv, Late, Wiping, [Next]_vars
  PROVE  Wiping'
<1> DEFINE C == Char \cup {NUL}
<1>0. at \in Emptying \cup Polling \cup EnumPoint \cup {"line"}
  BY DEF TypeInv, Points, LinePoint, Emptying, Polling
<1>1. CASE LeavesLine
  <2>1. CASE at' = at
    BY <1>1, <2>1 DEF LeavesLine, lineVars, Wiping
  <2>2. CASE at' # at
    BY <1>1, <2>2 DEF LeavesLine, lineVars, Wiping, Emptying, Polling, EnumPoint
  <2> QED
    BY <2>1, <2>2
<1>2. CASE Receives /\ KeysRead = <<>>
  BY <1>2, NoKeys DEF Wiping, Receives
<1>3. CASE Receives /\ KeysRead # <<>>
  <2>0. /\ line_buffer' = Filled(cursor, line_buffer, KeysRead)
        /\ cursor' = cursor + Least(Len(KeysRead), BufLen - cursor)
        /\ echoed' = Append(echoed, KeysRead) /\ wiped' = wiped /\ at' = at
        /\ dev_stat = "CONFIGURED" /\ transfer_active
    BY <1>3, ReceivesKeys
  <2>1. CASE at \in Emptying
    <3>1. echoed = <<>>
      BY <2>0, <2>1 DEF Late, Emptying
    <3>2. echoed' = <<KeysRead>> /\ KeysRead \in Seq(C)
      BY <2>0, <3>1, KeysAre
    <3>3. CASE at = "reset_cursor"
      <4>1. \E r \in Seq(C) : echoed' = <<r>>
        BY <3>2, Zenon
      <4> QED
        BY <2>0, <3>3, <4>1 DEF Wiping
    <3>4. CASE at = "reset_buffer"
      <4>1. cursor = 0 /\ wiped \in 0 .. wiped /\ wiped \in 0 .. BufLen - 1
        BY <3>1, <3>4, KeysAre DEF Wiping
      <4>2. Wipes(cursor', line_buffer', KeysRead, wiped, wiped')
        BY <2>0, <4>1, KeysAre, WipesFirst
      <4>3. \E r \in Seq(C) :
              /\ echoed' = <<r>>
              /\ cursor' = 0 \/ \E w \in 0 .. wiped' : Wipes(cursor', line_buffer', r, w, wiped')
        BY <2>0, <3>2, <4>1, <4>2, Zenon
      <4> QED
        BY <2>0, <3>4, <4>3 DEF Wiping
    <3> QED
      BY <2>1, <3>3, <3>4 DEF Emptying
  <2>2. CASE at \notin Emptying
    BY <2>0, <2>2 DEF Wiping, Emptying
  <2> QED
    BY <2>1, <2>2
<1>4. CASE get_line
  BY <1>4 DEF get_line, Goes, Wiping
<1>5. CASE ResetCursor
  BY <1>5, KeysAre DEF ResetCursor, Goes, Wiping
<1>6. CASE ResetBuffer
  <2>1. /\ at = "reset_buffer" /\ at' = IF wiped = BufLen - 1 THEN "loop" ELSE "reset_buffer"
        /\ line_buffer' = [line_buffer EXCEPT ![wiped] = NUL] /\ wiped' = (wiped + 1) % BufLen
        /\ cursor' = cursor /\ echoed' = echoed
    BY <1>6 DEF ResetBuffer, Goes
  <2>2. wiped \in 0 .. BufLen - 1 /\ BufLen \in Nat \ {0}
    BY KeysAre, SizeAssumption
  <2>3. CASE wiped = BufLen - 1
    <3>1. (BufLen - 1 + 1) % BufLen = 0
      BY <2>2
    <3>2. wiped' = 0 /\ at' = "loop"
      BY <2>1, <2>3, <3>1
    <3> QED
      BY <3>2 DEF Wiping
  <2>4. CASE wiped # BufLen - 1
    <3>1. (wiped + 1) % BufLen = wiped + 1
      BY <2>2, <2>4
    <3>2. wiped' = wiped + 1 /\ at' = "reset_buffer"
      BY <2>1, <2>4, <3>1
    <3>3. ASSUME NEW r \in Seq(C), NEW w \in 0 .. wiped, Wipes(cursor, line_buffer, r, w, wiped)
          PROVE  w \in 0 .. wiped' /\ Wipes(cursor', line_buffer', r, w, wiped')
      <4>1. w \in 0 .. wiped'
        BY <2>2, <3>2
      <4>2. Wipes(cursor, [line_buffer EXCEPT ![wiped] = NUL], r, w, wiped + 1)
        BY <2>2, <3>3, KeysAre, WipesOn
      <4> QED
        BY <2>1, <3>2, <4>1, <4>2
    <3> QED
      BY <2>1, <3>2, <3>3, Zenon DEF Wiping
  <2> QED
    BY <2>3, <2>4
<1> QED
  BY <1>1, <1>2, <1>3, <1>4, <1>5, <1>6, LineSteps

LEMMA CollectingNext ==
  ASSUME TypeInv, Late, Wiping, Collecting, [Next]_vars
  PROVE  Collecting'
<1>0. at \in Emptying \cup Polling \cup EnumPoint \cup {"line"}
  BY DEF TypeInv, Points, LinePoint, Emptying, Polling
<1>1. CASE LeavesLine
  BY <1>1 DEF LeavesLine, lineVars, Collecting, Polling, EnumPoint
<1>2. CASE Receives /\ KeysRead = <<>>
  BY <1>2, NoKeys DEF Collecting, Receives
<1>3. CASE Receives /\ KeysRead # <<>>
  <2>1. /\ line_buffer' = Filled(cursor, line_buffer, KeysRead)
        /\ cursor' = cursor + Least(Len(KeysRead), BufLen - cursor)
        /\ echoed' = Append(echoed, KeysRead) /\ at' = at
    BY <1>3, ReceivesKeys
  <2>2. ASSUME Collects(cursor, line_buffer, echoed)
        PROVE  Collects(cursor', line_buffer', echoed')
    BY <2>1, <2>2, KeysAre, CollectsMore
  <2> QED
    BY <2>1, <2>2, Zenon DEF Collecting
<1>4. CASE get_line \/ ResetCursor
  BY <1>4 DEF get_line, ResetCursor, Goes, Collecting, Polling
<1>5. CASE ResetBuffer
  <2>1. /\ at = "reset_buffer" /\ at' = IF wiped = BufLen - 1 THEN "loop" ELSE "reset_buffer"
        /\ line_buffer' = [line_buffer EXCEPT ![wiped] = NUL]
        /\ cursor' = cursor /\ echoed' = echoed
    BY <1>5 DEF ResetBuffer, Goes
  <2>2. wiped \in 0 .. BufLen - 1 /\ BufLen \in Nat \ {0}
    BY KeysAre, SizeAssumption
  <2>3. CASE wiped # BufLen - 1
    BY <2>1, <2>3 DEF Collecting, Polling
  <2>4. CASE wiped = BufLen - 1
    <3>1. CASE echoed = <<>> /\ cursor = 0
      BY <2>1, <3>1 DEF Collecting, Collects
    <3>2. ASSUME NEW r \in Seq(Char \cup {NUL}), echoed = <<r>>, cursor = 0
          PROVE  Collects(cursor', line_buffer', echoed')
      <4> DEFINE e == <<r>>
      <4>1. e # <<>> /\ Tail(e) = <<>>
        OBVIOUS
      <4>2. FlattenSeq(<<>>) = <<>> /\ Len(<<>>) = 0
        BY EmptySeq DEF FlattenSeq
      <4>3. Shows(0, line_buffer', <<>>)
        BY <2>2, <4>2 DEF Shows, Least
      <4> HIDE DEF e
      <4>4. Collects(0, line_buffer', e)
        BY <4>1, <4>2, <4>3, Zenon DEF Collects
      <4> QED
        BY <2>1, <3>2, <4>4 DEF e
    <3>3. ASSUME NEW r \in Seq(Char \cup {NUL}), echoed = <<r>>,
                 NEW w \in 0 .. wiped, Wipes(cursor, line_buffer, r, w, wiped)
          PROVE  Collects(cursor', line_buffer', echoed')
      <4>1. Wipes(cursor, [line_buffer EXCEPT ![wiped] = NUL], r, w, wiped + 1)
        BY <2>2, <3>3, KeysAre, WipesOn
      <4>2. wiped + 1 = BufLen /\ w \in 0 .. BufLen - 1
        BY <2>2, <2>4
      <4>3. Collects(cursor, line_buffer', <<r>>)
        BY <2>1, <4>1, <4>2, WipedAtLast
      <4> QED
        BY <2>1, <3>3, <4>3
    <3> QED
      BY <2>1, <3>1, <3>2, <3>3, Zenon DEF Collecting, Wiping
  <2> QED
    BY <2>3, <2>4
<1> QED
  BY <1>1, <1>2, <1>3, <1>4, <1>5, LineSteps

\* What is copied.
LEMMA CollectedIs ==
  ASSUME TypeInv, LineInv
  PROVE  FirstReportAtMost
<1> DEFINE C == Char \cup {NUL}
           line == [i \in 1 .. cursor |-> line_buffer[i - 1]]
<1> SUFFICES ASSUME at = "copy" PROVE FirstReportAtMost
  BY DEF FirstReportAtMost
<1>1. echoed # <<>> /\ Collects(cursor, line_buffer, echoed)
  BY DEF LineInv, Entered, LinePoint, Collecting, Polling
<1>2. Head(echoed) \in Seq(C) /\ Tail(echoed) \in Seq(Seq(C))
  BY <1>1, KeysAre, HeadTailProperties
<1>3. FlattenSeq(Tail(echoed)) \in Seq(C)
  BY <1>2, FlattenAppend, EmptySeq
<1>4. ASSUME NEW q \in Seq(C), Shows(cursor, line_buffer, q)
      PROVE  line = SubSeq(q, 1, IF Len(q) < BufLen THEN Len(q) ELSE BufLen)
  <2>1. /\ Len(q) \in Nat /\ BufLen \in Nat /\ cursor \in Nat /\ cursor <= Len(q)
        /\ cursor = IF Len(q) < BufLen THEN Len(q) ELSE BufLen
        /\ \A i \in 0 .. cursor - 1 : line_buffer[i] = q[i + 1]
    BY <1>4, SizeAssumption, LenProperties DEF Shows, Least
  <2>2. SubSeq(q, 1, cursor) = [i \in 1 .. cursor |-> q[i]]
    BY <2>1
  <2>3. \A i \in 1 .. cursor : line_buffer[i - 1] = q[i]
    <3> TAKE i \in 1 .. cursor
    <3>1. i - 1 \in 0 .. cursor - 1 /\ i - 1 + 1 = i
      BY <2>1
    <3> QED
      BY <2>1, <3>1
  <2>4. line = SubSeq(q, 1, cursor)
    BY <2>2, <2>3
  <2> QED
    BY <2>1, <2>4
<1>5. ASSUME NEW j \in 1 .. Len(Head(echoed)) + 1
      PROVE  WipedFrom(j, Head(echoed)) \o FlattenSeq(Tail(echoed)) \in Seq(C)
  BY <1>2, <1>3, WipedIsText, ConcatProperties
<1> QED
  BY <1>1, <1>3, <1>4, <1>5, Zenon DEF FirstReportAtMost, Collects, WipedFrom

\* Whatever the handler does among the statements of get_line, the line it returns
\* is what was typed but for the first report, which may be lost or wiped from some
\* character on (usb.c:78-92, 682-709): for every size of reports and buffers,
\* disconnects included, and without any assumption on time.
THEOREM LineIsTyped == Spec => []FirstReportAtMost
<1>1. Init => LineInv
  <2> SUFFICES ASSUME Init PROVE LineInv
    OBVIOUS
  <2>1. at = "poll" /\ wiped = 0
    BY DEF Init
  <2> QED
    BY <2>1 DEF LineInv, Late, Entered, Wiping, Collecting, LinePoint, Polling
<1>2. TypeInv /\ LineInv /\ [Next]_vars => LineInv'
  BY LateNext, EnteredNext, WipingNext, CollectingNext DEF LineInv
<1>3. TypeInv /\ LineInv => FirstReportAtMost
  BY CollectedIs
<1> QED
  BY <1>1, <1>2, <1>3, DriverTyped, PTL DEF Spec
=============================================================================
