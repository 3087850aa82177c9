------------------------------- MODULE UartRx -------------------------------
(***************************************************************************)
(* The receive path of one port: USART -> circular DMA -> rx_buf -> USB IN *)
(* endpoint, RTS flow control, and the serial state notifications, outside *)
(* configuration mode.  The main loop runs usb_cdc_poll while the DMA      *)
(* channel keeps writing into rx_buf without ever asking, the USART        *)
(* interrupt reports parity errors, and the host reads two endpoints.      *)
(*                                                                         *)
(* Received characters are numbered; a slot of the buffer holds a number   *)
(* and whether bit 7 is still as received (with 7 data bits that bit is    *)
(* the parity bit).  DSR stands for the polled inputs DSR, DCD and RI.     *)
(***************************************************************************)
EXTENDS CircBuf, Sequences, FiniteSets

CONSTANTS
  Size,         \* USB_CDC_BUF_SIZE
  PacketSize,   \* tx_size of the data endpoint
  FlowControl,  \* does the sender observe RTS?
  Burst,        \* characters that arrive at most in one turn of the main loop
  MaxBytes,     \* bound: characters sent to the port in a behaviour
  MaxEvents     \* bound: parity errors, requests and input changes

ASSUME SizeAssumption   == Size \in Nat /\ Size > 3 /\ Size % 2 = 0
ASSUME PacketAssumption == PacketSize \in 1..(Size - 1)
ASSUME BoundsAssumption == {Burst, MaxBytes, MaxEvents} \subseteq Nat
ASSUME FlowAssumption   == FlowControl \in BOOLEAN

VARIABLES
  \* usb_cdc_states[port]
  head, tail,         \* rx_buf.head, rx_buf.tail
  data,               \* rx_buf.data
  seven,              \* line_coding.bDataBits = 7
  rx_zlp_pending,
  rts_active,         \* RTS as the host set it
  serial_state, serial_state_prev,
  \* hardware
  cndtr,              \* the DMA channel's counter
  rts,                \* the RTS pin
  dsr,                \* the input pins
  ep,                 \* the IN endpoint of the data interface
  notification,       \* the interrupt IN endpoint
  \* execution state of the main loop
  pc,
  dma_head,           \* local of usb_cdc_sync_rx_buffer
  state,              \* local of usb_cdc_notify_port_state_change
  left,               \* bytes left to mask, then to copy
  masked,             \* bytes masked
  \* environment and history
  line,               \* characters the sender has started
  burst,              \* characters since the counter was last read
  written,            \* characters received
  received,           \* what the host has read
  reported,           \* the last notification the host has read
  errors,             \* parity errors, and notifications of one
  events,
  spilled             \* was memory beyond rx_buf changed?

rx_buf == <<head, tail, data>>
serial == <<serial_state, serial_state_prev>>
env    == <<line, burst, written, received, reported, errors, events>>
local  == <<dma_head, state, left, masked>>
vars   == <<rx_buf, serial, local, env, seven, rx_zlp_pending, rts_active, cndtr,
            rts, dsr, ep, notification, pc, spilled>>

Errors  == {"parity", "overrun"}
Flags   == Errors \cup {"dsr"}
AllOnes == Flags \cup {"undefined"}     \* ~(serial_state_prev & 0)
Bytes   == [n: Nat, bit7: BOOLEAN]

Count == circ_buf_count(head, tail, Size)

TypeOK ==
  /\ head \in 0..(Size - 1) /\ tail \in 0..(Size - 1) /\ dma_head \in 0..(Size - 1)
  /\ data \in [0..(Size - 1) -> Bytes]
  /\ {seven, rx_zlp_pending, rts_active, rts, dsr, spilled} \subseteq BOOLEAN
  /\ serial_state \subseteq Flags /\ state \subseteq Flags
  /\ serial_state_prev \subseteq Flags \/ serial_state_prev = AllOnes
  /\ cndtr \in 1..Size
  /\ ep \in [busy: BOOLEAN, packet: Seq(Bytes)] /\ Len(ep.packet) <= PacketSize
  /\ notification \in [busy: BOOLEAN, flags: SUBSET Flags]
  /\ pc \in {"event", "sync", "synced", "notify", "changed", "clear", "send",
             "mask", "copy"}
  /\ left \in 0..PacketSize /\ masked \in 0..PacketSize
  /\ line \in 0..1 /\ burst \in 0..Burst /\ written \in 0..MaxBytes
  /\ received \in Seq(Bytes) /\ reported \subseteq Flags
  /\ errors \in [seen: Nat, told: Nat] /\ events \in 0..MaxEvents

-----------------------------------------------------------------------------
\* After usb_cdc_reset and usb_cdc_enable; setting the default line coding has
\* forced a first notification.
Init ==
  /\ head = 0 /\ tail = 0 /\ dma_head = 0
  /\ data = [i \in 0..(Size - 1) |-> [n |-> 0, bit7 |-> FALSE]]
  /\ seven = FALSE /\ rx_zlp_pending = FALSE /\ rts_active = FALSE
  /\ serial_state = {} /\ serial_state_prev = AllOnes /\ state = {}
  /\ cndtr = Size /\ rts = FALSE /\ dsr = FALSE
  /\ ep = [busy |-> FALSE, packet |-> << >>]
  /\ notification = [busy |-> FALSE, flags |-> {}]
  /\ pc = "event" /\ left = 0 /\ masked = 0
  /\ line = 0 /\ burst = 0 /\ written = 0
  /\ received = << >> /\ reported = {}
  /\ errors = [seen |-> 0, told |-> 0] /\ events = 0
  /\ spilled = FALSE

Go(from, to) == pc = from /\ pc' = to

\* Faulty variant: the fill level is ignored.
RtsIgnoresFill(h, t, active) == active

\* Faulty variant: half the buffer counts as full.
RtsNeverEnough(h, t, active) ==
  circ_buf_space(h, t, Size) > Size - 1 /\ active

\* usb_cdc_update_port_rts: the level for given indices
RtsLevel(h, t, active) == circ_buf_space(h, t, Size) > Size \div 2 /\ active

-----------------------------------------------------------------------------
(* The events in front of the poll.                                         *)

\* usb_cdc_set_control_line_state, the RTS bit
SetControlLineState(active) ==
  /\ Go("event", "sync")
  /\ events < MaxEvents /\ events' = events + 1
  /\ rts_active' = active
  /\ rts' = RtsLevel(head, tail, active)
  /\ UNCHANGED <<rx_buf, serial, local, line, burst, written, received, reported,
                 errors, seven, rx_zlp_pending, cndtr, dsr, ep, notification,
                 spilled>>

\* usb_cdc_set_line_coding, the data bits: a dry run stores them too, but only
\* the real run forces a notification.
SetLineCoding(bits7) ==
  /\ Go("event", "sync")
  /\ events < MaxEvents /\ events' = events + 1
  /\ seven' = bits7
  /\ serial_state_prev' \in {serial_state_prev, AllOnes}
  /\ UNCHANGED <<rx_buf, serial_state, local, line, burst, written, received,
                 reported, errors, rx_zlp_pending, rts_active, cndtr, rts, dsr, ep,
                 notification, spilled>>

\* usb_cdc_frame: the inputs are copied with a compare-and-swap, so an error the
\* interrupt reports meanwhile stays.
Frame ==
  /\ Go("event", "sync")
  /\ serial_state' = IF dsr THEN serial_state \cup {"dsr"} ELSE serial_state \ {"dsr"}
  /\ UNCHANGED <<rx_buf, serial_state_prev, local, env, seven, rx_zlp_pending,
                 rts_active, cndtr, rts, dsr, ep, notification, spilled>>

OtherEvent ==
  /\ Go("event", "sync")
  /\ UNCHANGED <<rx_buf, serial, local, env, seven, rx_zlp_pending, rts_active, cndtr,
                 rts, dsr, ep, notification, spilled>>

-----------------------------------------------------------------------------
(* usb_cdc_sync_rx_buffer                                                   *)

\* CNDTR is read once ...
ReadCounter ==
  /\ Go("sync", "synced")
  /\ dma_head' = Size - cndtr
  /\ burst' = 0
  /\ UNCHANGED <<rx_buf, serial, state, left, masked, line, written, received,
                 reported, errors, events, seven, rx_zlp_pending, rts_active, cndtr,
                 rts, dsr, ep, notification, spilled>>

\* The DMA head has overtaken the tail if the buffer seems to have shrunk.
Overtaken(h, t, new) == circ_buf_count(new, t, Size) < circ_buf_count(h, t, Size)

\* ... RTS is updated with the old head, and only then the head is moved.
SyncHead ==
  /\ Go("synced", "notify")
  /\ rts' = RtsLevel(head, tail, rts_active)
  /\ serial_state' = serial_state \cup {f \in {"overrun"} : Overtaken(head, tail, dma_head)}
  /\ head' = dma_head
  /\ UNCHANGED <<tail, data, serial_state_prev, local, env, seven, rx_zlp_pending,
                 rts_active, cndtr, dsr, ep, notification, spilled>>

-----------------------------------------------------------------------------
(* usb_cdc_notify_port_state_change                                         *)

ReadState ==
  /\ state' = serial_state
  /\ \/ serial_state # serial_state_prev /\ Go("notify", "changed")
     \/ serial_state = serial_state_prev /\ Go("notify", "send")
  /\ UNCHANGED <<rx_buf, serial, dma_head, left, masked, env, seven, rx_zlp_pending,
                 rts_active, cndtr, rts, dsr, ep, notification, spilled>>

\* Faulty variant: the new state counts as sent although the endpoint is busy.
SendStateBusy ==
  /\ \/ /\ notification.busy /\ Go("changed", "clear")
        /\ UNCHANGED <<notification, errors>>
     \/ /\ ~notification.busy /\ Go("changed", "clear")
        /\ notification' = [busy |-> TRUE, flags |-> state]
        /\ errors' = [errors EXCEPT !.told = @ + Cardinality(state \cap {"parity"})]
  /\ UNCHANGED <<rx_buf, serial, local, line, burst, written, received, reported,
                 events, seven, rx_zlp_pending, rts_active, cndtr, rts, dsr, ep,
                 spilled>>

\* usb_cdc_send_port_state: -1 if the endpoint is still busy
SendState ==
  /\ \/ /\ notification.busy /\ Go("changed", "send")
        /\ UNCHANGED <<notification, errors>>
     \/ /\ ~notification.busy /\ Go("changed", "clear")
        /\ notification' = [busy |-> TRUE, flags |-> state]
        /\ errors' = [errors EXCEPT !.told = @ + Cardinality(state \cap {"parity"})]
  /\ UNCHANGED <<rx_buf, serial, local, line, burst, written, received, reported,
                 events, seven, rx_zlp_pending, rts_active, cndtr, rts, dsr, ep,
                 spilled>>

Toggle(set, mask) == (set \ mask) \cup (mask \ set)

\* Faulty variant: the errors are cleared as they are now, not as they were sent.
ClearErrorsNow ==
  /\ Go("clear", "send")
  /\ LET mask == serial_state \cap Errors
     IN  /\ serial_state' = Toggle(serial_state, mask)
         /\ serial_state_prev' = state \ Errors
  /\ UNCHANGED <<rx_buf, local, env, seven, rx_zlp_pending, rts_active, cndtr, rts,
                 dsr, ep, notification, spilled>>

\* Faulty variant: the errors stay in the state once they are sent.
ClearErrorsForgotten ==
  /\ Go("clear", "send")
  /\ serial_state_prev' = state
  /\ UNCHANGED <<rx_buf, serial_state, local, env, seven, rx_zlp_pending, rts_active,
                 cndtr, rts, dsr, ep, notification, spilled>>

\* The errors that were sent are cleared with a compare-and-swap.
ClearErrors ==
  /\ Go("clear", "send")
  /\ LET mask == state \cap Errors
     IN  /\ serial_state' = Toggle(serial_state, mask)
         /\ serial_state_prev' = Toggle(state, mask)
  /\ UNCHANGED <<rx_buf, local, env, seven, rx_zlp_pending, rts_active, cndtr, rts,
                 dsr, ep, notification, spilled>>

-----------------------------------------------------------------------------
(* usb_cdc_port_send_rx_usb                                                 *)

BeginSend ==
  /\ pc = "send" /\ ~ep.busy /\ Count > 0
  /\ left' = IF Count < PacketSize THEN Count ELSE PacketSize
  /\ masked' = 0
  /\ pc' = IF seven THEN "mask" ELSE "copy"
  /\ UNCHANGED <<rx_buf, serial, dma_head, state, env, seven, rx_zlp_pending,
                 rts_active, cndtr, rts, dsr, ep, notification, spilled>>

\* The parity bit is masked from the tail on; the pointer does not wrap.
MaskByte ==
  /\ pc = "mask" /\ masked < left
  /\ masked' = masked + 1
  /\ \/ /\ tail + masked < Size
        /\ data' = [data EXCEPT ![tail + masked].bit7 = FALSE]
        /\ UNCHANGED spilled
     \/ /\ tail + masked >= Size
        /\ spilled' = TRUE
        /\ UNCHANGED data
  /\ UNCHANGED <<head, tail, serial, dma_head, state, left, env, seven, rx_zlp_pending,
                 rts_active, cndtr, rts, dsr, ep, notification, pc>>

EndMask ==
  /\ masked = left /\ Go("mask", "copy")
  /\ UNCHANGED <<rx_buf, serial, local, env, seven, rx_zlp_pending, rts_active, cndtr,
                 rts, dsr, ep, notification, spilled>>

\* usb_circ_buf_send, byte by byte
CopyByte ==
  /\ pc = "copy" /\ left > 0
  /\ ep' = [ep EXCEPT !.packet = Append(@, data[tail])]
  /\ tail' = Advance(tail, 1, Size)
  /\ left' = left - 1
  /\ UNCHANGED <<head, data, serial, dma_head, state, masked, env, seven,
                 rx_zlp_pending, rts_active, cndtr, rts, dsr, notification, pc, spilled>>

\* Faulty variant: a full packet that empties the buffer counts as the last one.
EndSendNoZlp ==
  /\ left = 0 /\ Go("copy", "event")
  /\ ep' = [ep EXCEPT !.busy = TRUE]
  /\ rx_zlp_pending' = (Len(ep.packet) = PacketSize /\ Count > 0)
  /\ rts' = RtsLevel(head, tail, rts_active)
  /\ UNCHANGED <<rx_buf, serial, local, env, seven, rts_active, cndtr, dsr,
                 notification, spilled>>

\* STAT_TX := VALID; a full packet needs a zero-length one if nothing follows.
EndSend ==
  /\ left = 0 /\ Go("copy", "event")
  /\ ep' = [ep EXCEPT !.busy = TRUE]
  /\ rx_zlp_pending' = (Len(ep.packet) = PacketSize)
  /\ rts' = RtsLevel(head, tail, rts_active)
  /\ UNCHANGED <<rx_buf, serial, local, env, seven, rts_active, cndtr, dsr,
                 notification, spilled>>

SendNothing ==
  /\ ep.busy \/ (Count = 0 /\ ~rx_zlp_pending)
  /\ Go("send", "event")
  /\ UNCHANGED <<rx_buf, serial, local, env, seven, rx_zlp_pending, rts_active, cndtr,
                 rts, dsr, ep, notification, spilled>>

SendZlp ==
  /\ ~ep.busy /\ Count = 0 /\ rx_zlp_pending
  /\ Go("send", "event")
  /\ rx_zlp_pending' = FALSE
  /\ ep' = [busy |-> TRUE, packet |-> << >>]
  /\ UNCHANGED <<rx_buf, serial, local, env, seven, rts_active, cndtr, rts, dsr,
                 notification, spilled>>

-----------------------------------------------------------------------------
(* The USART interrupt, the hardware, the sender and the host.              *)

\* usb_cdc_usart_irq_handler with PE set
UsartIrq ==
  /\ events < MaxEvents /\ events' = events + 1
  /\ serial_state' = serial_state \cup {"parity"}
  /\ errors' = [errors EXCEPT !.seen = @ + 1]
  /\ UNCHANGED <<rx_buf, serial_state_prev, local, line, burst, written, received,
                 reported, seven, rx_zlp_pending, rts_active, cndtr, rts, dsr, ep,
                 notification, pc, spilled>>

\* The sender starts a character, with RTS if it observes it.
StartCharacter ==
  /\ line = 0 /\ written < MaxBytes
  /\ rts \/ ~FlowControl
  /\ line' = 1
  /\ UNCHANGED <<rx_buf, serial, local, burst, written, received, reported, errors,
                 events, seven, rx_zlp_pending, rts_active, cndtr, rts, dsr, ep,
                 notification, pc, spilled>>

\* The DMA channel stores a character and reloads its counter at the end.
StoreCharacter ==
  /\ line = 1 /\ burst < Burst
  /\ line' = 0 /\ burst' = burst + 1
  /\ written' = written + 1
  /\ data' = [data EXCEPT ![Size - cndtr] = [n |-> written + 1, bit7 |-> TRUE]]
  /\ cndtr' = IF cndtr = 1 THEN Size ELSE cndtr - 1
  /\ UNCHANGED <<head, tail, serial, local, received, reported, errors, events, seven,
                 rx_zlp_pending, rts_active, rts, dsr, ep, notification, pc, spilled>>

ChangeInputs ==
  /\ events < MaxEvents /\ events' = events + 1
  /\ dsr' = ~dsr
  /\ UNCHANGED <<rx_buf, serial, local, line, burst, written, received, reported,
                 errors, seven, rx_zlp_pending, rts_active, cndtr, rts, ep,
                 notification, pc, spilled>>

HostReadsData ==
  /\ ep.busy
  /\ received' = received \o ep.packet
  /\ ep' = [busy |-> FALSE, packet |-> << >>]
  /\ UNCHANGED <<rx_buf, serial, local, line, burst, written, reported, errors, events,
                 seven, rx_zlp_pending, rts_active, cndtr, rts, dsr, notification, pc,
                 spilled>>

HostReadsNotification ==
  /\ notification.busy
  /\ reported' = notification.flags
  /\ notification' = [notification EXCEPT !.busy = FALSE]
  /\ UNCHANGED <<rx_buf, serial, local, line, burst, written, received, errors, events,
                 seven, rx_zlp_pending, rts_active, cndtr, rts, dsr, ep, pc, spilled>>

-----------------------------------------------------------------------------
Event ==
  \/ \E b \in BOOLEAN : SetControlLineState(b) \/ SetLineCoding(b)
  \/ Frame \/ OtherEvent

Poll ==
  \/ ReadCounter \/ SyncHead \/ ReadState \/ SendState \/ ClearErrors
  \/ BeginSend \/ MaskByte \/ EndMask \/ CopyByte \/ EndSend \/ SendNothing \/ SendZlp

Next ==
  \/ Event \/ Poll \/ UsartIrq \/ StartCharacter \/ StoreCharacter \/ ChangeInputs
  \/ HostReadsData \/ HostReadsNotification

\* The main loop keeps turning, a started character arrives, the start-of-frame
\* interrupt flag is served again and again, and the host reads both endpoints.
Fairness ==
  /\ WF_vars(Event \/ Poll) /\ SF_vars(Frame)
  /\ WF_vars(StoreCharacter)
  /\ WF_vars(HostReadsData) /\ WF_vars(HostReadsNotification)

Spec == Init /\ [][Next]_vars /\ Fairness

-----------------------------------------------------------------------------
(* Properties.                                                              *)

\* What has been read from rx_buf, in order.
Taken == [i \in 1..Len(received \o ep.packet) |-> (received \o ep.packet)[i].n]

\* With a sender that observes RTS the received characters reach the endpoint
\* once and in order, and an overrun is never reported: RTS, which lags behind
\* the buffer by a turn of the main loop, goes inactive early enough.
FlowControlled ==
  /\ Taken = [i \in 1..Len(Taken) |-> i]
  /\ "overrun" \notin serial_state

\* RTS held back by a filling buffer is given back to the sender as the host
\* reads: the sender, the port and the host never all wait for each other.
FlowResumes == rts_active /\ ~rts ~> rts \/ ~rts_active

\* A transfer is never left open: the host, which waits for a packet shorter than
\* the endpoint's size, gets one in the end (a zero-length one if need be).
Open == Len(ep.packet) = PacketSize /\ ep.busy
TransferEnds == Open ~> ep.busy /\ Len(ep.packet) < PacketSize

\* A parity error is reported to the host, even if it strikes while a
\* notification is being sent; only one that strikes between sending the same
\* error and clearing it is merged with that.
ErrorReported ==
  "parity" \in serial_state /\ ~(pc = "clear" /\ "parity" \in state)
    ~> notification.busy /\ "parity" \in notification.flags

\* An error is never reported twice.
NoFalseError == errors.told <= errors.seen

\* The host gets to know the inputs, however its reads of the interrupt endpoint
\* and the changes fall.
InputsReported == dsr # ("dsr" \in reported) ~> dsr = ("dsr" \in reported)

\* README, "as soon as the UART RX buffer is half-full, RTS is forced to the
\* inactive state": at the end of each poll.
RtsAsSoonAs == pc = "event" /\ rts => circ_buf_space(head, tail, Size) > Size \div 2

\* README, "7 or 8 bit word length": with 7 data bits set before the packet was
\* begun, the host gets no eighth bit.
SevenBitWords ==
  pc = "copy" /\ masked > 0 => \A i \in 1..Len(ep.packet) : ~ep.packet[i].bit7

\* README, "UART DMA RX/TX buffer size is 1024 bytes": what lies behind the
\* receive buffer (the head index of the transmit buffer) is not touched.
MaskStaysInBuffer == ~spilled
=============================================================================
