------------------------------- MODULE Mailbox -------------------------------
(***************************************************************************)
(* The mailboxes between the processor and the GPU, and their two users:   *)
(* framebuffer_init of src/kernel/framebuffer.c, which the boot repeats    *)
(* until it succeeds, and bcm2835_setpower of src/kernel/board_power.c.    *)
(* Both send a message on a channel of their own and wait for the next one *)
(* on that channel, throwing away those of others.                         *)
(*                                                                         *)
(* The data of a message is a set: the features of a power mask, or the    *)
(* buffer the GPU describes, where the empty set is 0.                     *)
(***************************************************************************)
EXTENDS Integers, Sequences

CONSTANT BoxSize   \* the messages that a mailbox holds

ASSUME BoxAssumption == BoxSize \in Nat \ {0}

FRAMEBUFFER_CHANNEL        == 1
MAILBOX_CHANNEL_POWER_MGMT == 0

Features == {"POWER_SD", "POWER_USB"}
Buffer   == {"buffer"}

VARIABLES
  to_gpu, from_gpu,     \* the two mailboxes
  power,                \* what the GPU has switched on
  bcm2835_power_mask,   \* what the driver remembers of it
  newmask,              \* what setpower waits for
  mail,                 \* "boot", the call in progress, or "none"
  faults                \* bound: what may still go wrong in the hardware

mailVars == <<to_gpu, from_gpu, power, bcm2835_power_mask, newmask, mail>>

Messages == [channel : {FRAMEBUFFER_CHANNEL, MAILBOX_CHANNEL_POWER_MGMT},
             data : (SUBSET Features) \cup {Buffer}]

\* The firmware may leave features on, of which the driver knows nothing.
MailInit == /\ to_gpu = <<>> /\ from_gpu = <<>>
            /\ power \in SUBSET Features
            /\ bcm2835_power_mask = {} /\ newmask = {}
            /\ mail = "boot"

-----------------------------------------------------------------------------
\* mailbox_send and bcm2835_mailbox_write wait while the status of the mailbox that
\* the processor reads, not of the one they write, says full.
mailbox_send(ch, d) == /\ Len(from_gpu') < BoxSize
                       /\ to_gpu' = Append(to_gpu, [channel |-> ch, data |-> d])

\* mailbox_read waits for a message of the channel; i is the place of the first.
mailbox_read(ch, i) == /\ i \in DOMAIN from_gpu /\ from_gpu[i].channel = ch
                       /\ \A j \in 1 .. i - 1 : from_gpu[j].channel # ch
                       /\ from_gpu' = SubSeq(from_gpu, i + 1, Len(from_gpu))

\* bcm2835_mailbox_read waits for a message of any channel.  After one of another
\* channel it would read on without a test; MailTypeOK says there is none.
bcm2835_mailbox_read(ch) == /\ from_gpu # <<>> /\ Head(from_gpu).channel = ch
                            /\ from_gpu' = Tail(from_gpu)

framebuffer_init == /\ mail = "boot"
                    /\ UNCHANGED from_gpu
                    /\ mailbox_send(FRAMEBUFFER_CHANNEL, Buffer)
                    /\ mail' = "framebuffer"
                    /\ UNCHANGED <<power, bcm2835_power_mask, newmask, faults>>

\* gpu_init calls it again when the answer is 0.
FramebufferReply ==
  /\ mail = "framebuffer"
  /\ \E i \in DOMAIN from_gpu :
       /\ mailbox_read(FRAMEBUFFER_CHANNEL, i)
       /\ mail' = IF from_gpu[i].data = {} THEN "boot" ELSE "none"
  /\ UNCHANGED <<to_gpu, power, bcm2835_power_mask, newmask, faults>>

\* bcm2835_setpower sends nothing when the mask it remembers is right.
bcm2835_setpower(feature, on) ==
  /\ mail = "none"
  /\ UNCHANGED from_gpu
  /\ IF (feature \in bcm2835_power_mask) = on
     THEN UNCHANGED <<to_gpu, newmask, mail>>
     ELSE /\ newmask' = IF on THEN bcm2835_power_mask \cup {feature}
                              ELSE bcm2835_power_mask \ {feature}
          /\ mailbox_send(MAILBOX_CHANNEL_POWER_MGMT, newmask')
          /\ mail' = "power"
  /\ UNCHANGED <<power, bcm2835_power_mask, faults>>

\* Mutant of PowerReply: the loop runs once.
PowerReplyOnce ==
  /\ mail = "power"
  /\ bcm2835_mailbox_read(MAILBOX_CHANNEL_POWER_MGMT)
  /\ bcm2835_power_mask' = Head(from_gpu).data
  /\ UNCHANGED to_gpu /\ mail' = "none"
  /\ UNCHANGED <<power, newmask, faults>>

\* The loop sends the mask again until the answer is the mask.
PowerReply ==
  /\ mail = "power"
  /\ bcm2835_mailbox_read(MAILBOX_CHANNEL_POWER_MGMT)
  /\ bcm2835_power_mask' = Head(from_gpu).data
  /\ IF Head(from_gpu).data = newmask
     THEN UNCHANGED to_gpu /\ mail' = "none"
     ELSE mailbox_send(MAILBOX_CHANNEL_POWER_MGMT, newmask) /\ UNCHANGED mail
  /\ UNCHANGED <<power, newmask, faults>>

MailStep == framebuffer_init \/ FramebufferReply \/ PowerReply

-----------------------------------------------------------------------------
\* The GPU, in the order of the messages: it may not do what it is asked, and
\* says so.
Gpu ==
  /\ to_gpu # <<>> /\ Len(from_gpu) < BoxSize
  /\ to_gpu' = Tail(to_gpu)
  /\ LET ch == Head(to_gpu).channel
         asked == Head(to_gpu).data
     IN  \E obeys \in BOOLEAN :
           /\ obeys \/ faults > 0
           /\ faults' = IF obeys THEN faults ELSE faults - 1
           /\ IF ch = MAILBOX_CHANNEL_POWER_MGMT
              THEN /\ power' = IF obeys THEN asked ELSE power
                   /\ from_gpu' = Append(from_gpu, [channel |-> ch, data |-> power'])
              ELSE /\ from_gpu' = Append(from_gpu, [channel |-> ch,
                                                    data |-> IF obeys THEN asked ELSE {}])
                   /\ UNCHANGED power
  /\ UNCHANGED <<bcm2835_power_mask, newmask, mail>>

\* No mailbox overflows, and a message to a call on power is of its channel.
MailTypeOK ==
  /\ to_gpu \in Seq(Messages) /\ Len(to_gpu) <= BoxSize
  /\ from_gpu \in Seq(Messages) /\ Len(from_gpu) <= BoxSize
  /\ mail = "power" /\ from_gpu # <<>>
       => Head(from_gpu).channel = MAILBOX_CHANNEL_POWER_MGMT
  /\ {power, bcm2835_power_mask, newmask} \subseteq SUBSET Features
  /\ mail \in {"boot", "framebuffer", "power", "none"}
  /\ faults \in Nat
=============================================================================
