------------------------------- MODULE UartTx -------------------------------
(***************************************************************************)
(* The transmit path of one port: USB OUT endpoint -> tx_buf -> DMA ->     *)
(* USART, outside configuration mode.  Four actors share its state:        *)
(*                                                                         *)
(*  - the main loop (usb_poll): the OUT endpoint's event handler, the      *)
(*    SET_LINE_CODING request, usb_cdc_poll;                               *)
(*  - the DMA transfer-complete interrupt (priority HIGH), which preempts  *)
(*    the main loop between any two of its steps;                          *)
(*  - the USART interrupt (priority CRITICAL), which preempts both;        *)
(*  - the hardware: the DMA channel, the USART's data and shift registers, *)
(*    the endpoint's packet buffer, and the host behind it.                *)
(*                                                                         *)
(* Bytes are numbered in the order the host sends them: byte k is the k-th *)
(* of the stream, and 0 stands for "no byte" in a register.                *)
(*                                                                         *)
(* Delays = FALSE describes a port that is used alone: the few             *)
(* instructions between two steps of the code take less than a character   *)
(* time (5 us at 2 Mbaud).  With Delays = TRUE the interrupts of the other *)
(* two ports, or a stall of the flash, may hold the main loop or this      *)
(* port's DMA interrupt back for longer than that.                         *)
(***************************************************************************)
EXTENDS CircBuf, Sequences, FiniteSets

CONSTANTS
  Size,          \* USB_CDC_BUF_SIZE
  PacketSizes,   \* lengths of the OUT packets the host sends (0: a ZLP)
  Codings,       \* line codings (valid ones: set_line_coding acknowledges them)
  DefaultCoding, \* usb_cdc_default_line_coding
  MaxBytes,      \* bound: bytes the host sends in a behaviour
  MaxRequests,   \* bound: SET_LINE_CODING requests in a behaviour
  Delays         \* may the CPU be held back for longer than a character?

ASSUME SizeAssumption     == Size \in Nat /\ Size > 1
ASSUME PacketAssumption   == PacketSizes \subseteq 0..(Size - 1)
ASSUME CodingAssumption   == DefaultCoding \in Codings
ASSUME BoundsAssumption   == MaxBytes \in Nat /\ MaxRequests \in Nat
ASSUME DelaysAssumption   == Delays \in BOOLEAN

VARIABLES
  \* usb_cdc_states[port]
  head, tail,          \* tx_buf.head, tx_buf.tail
  data,                \* tx_buf.data
  last_dma_tx_size,
  pending,             \* line_state_change_pending
  ready,               \* line_state_change_ready
  line_coding,         \* the stored line coding
  rx_pending,          \* usb_rx_pending_ep # 0
  \* hardware registers
  dma,                 \* the port's DMA TX channel
  usart,               \* dr, shift register, TC flag, TCIE, line parameters
  txa,                 \* the TXA pin
  ep,                  \* the OUT endpoint: STAT_RX, CTR_RX, rx_count
  \* execution state
  pc,                  \* where the main loop and the DMA interrupt are
  avail,               \* the local tx_bytes_available of start_tx, per context
  call,                \* bytes left to copy, and which code called the routine
  asked,               \* the local line_coding argument of set_line_coding
  cr1,                 \* TCIE in the value of CR1 read before writing it back
  \* environment and history
  sent,                \* bytes the host has sent
  requests,            \* SET_LINE_CODING requests so far
  fetched,             \* has the DMA moved a byte since the packet was copied?
  wire                 \* the bytes that left the shift register, in order

buffer == <<head, tail, data, last_dma_tx_size>>
coding == <<pending, ready, line_coding, asked, cr1, requests>>
vars == <<buffer, coding, rx_pending, dma, usart, txa, ep, pc, avail, call,
          sent, fetched, wire>>

Contexts == {"main", "isr"}
StartTxPcs == {"start", "busy", "txa", "enable", "size", "tc", "tcie"}
MainPcs == StartTxPcs \cup
           {"event", "copy", "defer", "apply", "cr1", "poll", "applied",
            "deferred", "received"}

ProgramCounters == [main: MainPcs, isr: StartTxPcs \cup {"idle"}]
DmaChannel == [en: BOOLEAN, src: Nat, cndtr: Nat, tcif: BOOLEAN]
Usart == [dr: Nat, shift: Nat, tc: {"clear", "set", "seen"}, tcie: BOOLEAN,
          coding: Codings]
Endpoint == [valid: BOOLEAN, ctr: BOOLEAN, rx_count: Nat]

Count == circ_buf_count(head, tail, Size)
Space == circ_buf_space(head, tail, Size)

\* Memory that holds no byte of the stream: the buffer after reset, and what
\* lies beyond it.
Stray == MaxBytes + 1

TypeOK ==
  /\ head \in 0..(Size - 1) /\ tail \in 0..(Size - 1)
  /\ data \in [0..(Size - 1) -> Nat]
  /\ last_dma_tx_size \in Nat
  /\ pending \in BOOLEAN /\ ready \in BOOLEAN /\ rx_pending \in BOOLEAN
  /\ line_coding \in Codings /\ asked \in Codings
  /\ dma \in DmaChannel
  /\ usart \in Usart
  /\ txa \in BOOLEAN
  /\ ep \in Endpoint
  /\ pc \in ProgramCounters
  /\ avail \in [main: Nat, isr: Nat]
  /\ call \in [left: Nat, from: {"event", "poll"}]
  /\ cr1 \in BOOLEAN
  /\ sent \in Nat /\ requests \in Nat
  /\ fetched \in BOOLEAN
  /\ wire \in Seq(Nat)

-----------------------------------------------------------------------------
(* State after usb_cdc_reset, usb_cdc_enable and the endpoint's set-up.     *)

Init ==
  /\ head = 0 /\ tail = 0 /\ data = [i \in 0..(Size - 1) |-> Stray]
  /\ last_dma_tx_size = 0
  /\ pending = FALSE /\ ready = FALSE /\ rx_pending = FALSE
  /\ line_coding = DefaultCoding /\ asked = DefaultCoding /\ cr1 = FALSE
  /\ dma = [en |-> FALSE, src |-> 0, cndtr |-> 0, tcif |-> FALSE]
  /\ usart = [dr |-> 0, shift |-> 0, tc |-> "set", tcie |-> FALSE,
              coding |-> DefaultCoding]
  /\ txa = FALSE
  /\ ep = [valid |-> TRUE, ctr |-> FALSE, rx_count |-> 0]
  /\ pc = [main |-> "event", isr |-> "idle"]
  /\ avail = [main |-> 0, isr |-> 0]
  /\ call = [left |-> 0, from |-> "event"]
  /\ sent = 0 /\ requests = 0 /\ fetched = FALSE
  /\ wire = << >>

-----------------------------------------------------------------------------
(* Interrupt priorities.                                                    *)

UsartIrqPending == usart.tcie /\ usart.tc # "clear"

\* Interrupt entry takes longer than the single store that follows the write
\* of CCR in start_tx, so only another interrupt can separate the two.
DmaIrqHeldOff == ~Delays /\ pc.main = "size"

Runs(ctx) ==
  /\ ~UsartIrqPending
  /\ ctx = "main" => pc.isr = "idle" /\ (~dma.tcif \/ DmaIrqHeldOff)

At(ctx, label) == Runs(ctx) /\ pc[ctx] = label
Goto(ctx, label) == pc' = [pc EXCEPT ![ctx] = label]

-----------------------------------------------------------------------------
(* usb_cdc_port_start_tx, in the main loop and in the DMA interrupt.        *)

\* The statement after the call: the interrupt returns; the main loop goes on
\* with the poll, or, if the poll made the call, clears usb_rx_pending_ep.
Return(ctx) ==
  Goto(ctx, IF ctx = "isr" THEN "idle"
            ELSE IF call.from = "event" THEN "poll" ELSE "received")

\* tx_bytes_available = circ_buf_count_to_end(...)
ReadCount(ctx) ==
  /\ At(ctx, "start")
  /\ avail' = [avail EXCEPT ![ctx] = circ_buf_count_to_end(head, tail, Size)]
  /\ Goto(ctx, "busy")
  /\ UNCHANGED <<buffer, coding, rx_pending, dma, usart, txa, ep, call, sent,
                 fetched, wire>>

\* dma_ch_busy = CCR & EN, and the two tests
TestBusy(ctx) ==
  /\ At(ctx, "busy")
  /\ \/ dma.en /\ Return(ctx)
     \/ ~dma.en /\ avail[ctx] > 0 /\ Goto(ctx, "txa")
     \/ ~dma.en /\ avail[ctx] = 0 /\ Goto(ctx, "tc")
  /\ fetched' = (fetched /\ ctx = "isr")
  /\ UNCHANGED <<buffer, coding, rx_pending, dma, usart, txa, ep, avail, call,
                 sent, wire>>

\* usb_cdc_set_port_txa(port, 1)
ActivateTxa(ctx) ==
  /\ At(ctx, "txa")
  /\ txa' = TRUE
  /\ Goto(ctx, "enable")
  /\ UNCHANGED <<buffer, coding, rx_pending, dma, usart, ep, avail, call, sent,
                 fetched, wire>>

\* CMAR, CNDTR, then CCR |= EN
EnableDma(ctx) ==
  /\ At(ctx, "enable")
  /\ dma' = [dma EXCEPT !.en = TRUE, !.src = tail, !.cndtr = avail[ctx]]
  /\ Goto(ctx, "size")
  /\ UNCHANGED <<buffer, coding, rx_pending, usart, txa, ep, avail, call, sent,
                 fetched, wire>>

\* last_dma_tx_size = tx_bytes_available, after the channel was enabled
SaveSize(ctx) ==
  /\ At(ctx, "size")
  /\ last_dma_tx_size' = avail[ctx]
  /\ Return(ctx)
  /\ UNCHANGED <<head, tail, data, coding, rx_pending, dma, usart, txa, ep,
                 avail, call, sent, fetched, wire>>

\* SR &= ~TC
ClearTc(ctx) ==
  /\ At(ctx, "tc")
  /\ usart' = [usart EXCEPT !.tc = "clear"]
  /\ Goto(ctx, "tcie")
  /\ UNCHANGED <<buffer, coding, rx_pending, dma, txa, ep, avail, call, sent,
                 fetched, wire>>

\* Faulty variant: TCIE is left as it is, as if it stayed enabled.
EnableTcieForgotten(ctx) ==
  /\ At(ctx, "tcie")
  /\ Return(ctx)
  /\ UNCHANGED <<buffer, coding, rx_pending, dma, usart, txa, ep, avail, call, sent,
                 fetched, wire>>

\* CR1 |= TCIE
EnableTcie(ctx) ==
  /\ At(ctx, "tcie")
  /\ usart' = [usart EXCEPT !.tcie = TRUE]
  /\ Return(ctx)
  /\ UNCHANGED <<buffer, coding, rx_pending, dma, txa, ep, avail, call, sent,
                 fetched, wire>>

StartTx(ctx) ==
  \/ ReadCount(ctx) \/ TestBusy(ctx) \/ ActivateTxa(ctx) \/ EnableDma(ctx)
  \/ SaveSize(ctx) \/ ClearTc(ctx) \/ EnableTcie(ctx)

-----------------------------------------------------------------------------
(* usb_circ_buf_read, byte by byte: the interrupt may look in between.      *)

BeginCopy(from) ==
  /\ call' = [left |-> ep.rx_count, from |-> from]
  /\ ep' = [ep EXCEPT !.ctr = FALSE, !.rx_count = 0]
  /\ fetched' = FALSE
  /\ Goto("main", "copy")

CopyByte ==
  /\ At("main", "copy") /\ call.left > 0
  /\ data' = [data EXCEPT ![head] = sent - call.left + 1]
  /\ head' = Advance(head, 1, Size)
  /\ call' = [call EXCEPT !.left = @ - 1]
  /\ fetched' = FALSE
  /\ UNCHANGED <<tail, last_dma_tx_size, coding, rx_pending, dma, usart, txa, ep,
                 pc, avail, sent, wire>>

\* STAT_RX := VALID, return to the caller, which calls start_tx
EndCopy ==
  /\ At("main", "copy") /\ call.left = 0
  /\ ep' = [ep EXCEPT !.valid = TRUE]
  /\ Goto("main", "start")
  /\ UNCHANGED <<buffer, coding, rx_pending, dma, usart, txa, avail, call, sent,
                 fetched, wire>>

-----------------------------------------------------------------------------
(* The event handlers, called by usb_poll.                                  *)

\* Faulty variant: the space in tx_buf is off by one, as if no slot stayed empty.
DataReceivedOffByOne ==
  /\ At("main", "event") /\ ep.ctr
  /\ IF Space + 1 < ep.rx_count \/ pending
     THEN /\ rx_pending' = TRUE
          /\ ep' = [ep EXCEPT !.ctr = FALSE]
          /\ Goto("main", "poll")
          /\ UNCHANGED <<call, fetched>>
     ELSE BeginCopy("event") /\ UNCHANGED rx_pending
  /\ UNCHANGED <<buffer, coding, dma, usart, txa, avail, sent, wire>>

\* usb_cdc_data_endpoint_event_handler
DataReceived ==
  /\ At("main", "event") /\ ep.ctr
  /\ \/ /\ Space < ep.rx_count \/ pending
        /\ rx_pending' = TRUE
        /\ ep' = [ep EXCEPT !.ctr = FALSE]
        /\ Goto("main", "poll")
        /\ UNCHANGED <<call, fetched>>
     \/ /\ Space >= ep.rx_count /\ ~pending
        /\ BeginCopy("event")
        /\ UNCHANGED rx_pending
  /\ UNCHANGED <<buffer, coding, dma, usart, txa, avail, sent, wire>>

\* usb_cdc_ctrl_process_request: SET_LINE_CODING reads the count ...
SetLineCoding(c) ==
  /\ At("main", "event") /\ requests < MaxRequests
  /\ requests' = requests + 1
  /\ asked' = c
  /\ call' = [call EXCEPT !.from = "event"]
  /\ Goto("main", IF Count # 0 THEN "defer" ELSE "apply")
  /\ UNCHANGED <<buffer, pending, ready, line_coding, cr1, rx_pending, dma, usart,
                 txa, ep, avail, sent, fetched, wire>>

\* Faulty variant: the dry run stores the coding but leaves no request behind.
DeferLineCodingForgotten ==
  /\ At("main", "defer")
  /\ line_coding' = asked
  /\ Goto("main", "poll")
  /\ UNCHANGED <<buffer, pending, ready, asked, cr1, requests, rx_pending, dma,
                 usart, txa, ep, avail, call, sent, fetched, wire>>

\* ... and, in a later instruction, defers the change (a dry run stores it)
DeferLineCoding ==
  /\ At("main", "defer")
  /\ pending' = TRUE
  /\ line_coding' = asked
  /\ Goto("main", "poll")
  /\ UNCHANGED <<buffer, ready, asked, cr1, requests, rx_pending, dma, usart, txa,
                 ep, avail, call, sent, fetched, wire>>

\* usb_cdc_set_line_coding: BRR and CR2 are written, CR1 is read ...
WriteBrr ==
  /\ At("main", "apply")
  /\ usart' = [usart EXCEPT !.coding = asked]
  /\ line_coding' = asked
  /\ cr1' = usart.tcie
  /\ Goto("main", "cr1")
  /\ UNCHANGED <<buffer, pending, ready, asked, requests, rx_pending, dma, txa, ep,
                 avail, call, sent, fetched, wire>>

\* ... and CR1 is written back, with the TCIE it had when it was read
WriteCr1 ==
  /\ At("main", "cr1")
  /\ usart' = [usart EXCEPT !.tcie = cr1]
  /\ Goto("main", IF call.from = "event" THEN "poll" ELSE "applied")
  /\ UNCHANGED <<buffer, coding, rx_pending, dma, txa, ep, avail, call, sent,
                 fetched, wire>>

\* No event, or one of another endpoint: usb_poll goes on to usb_device_poll.
OtherEvent ==
  /\ At("main", "event")
  /\ Goto("main", "poll")
  /\ UNCHANGED <<buffer, coding, rx_pending, dma, usart, txa, ep, avail, call, sent,
                 fetched, wire>>

-----------------------------------------------------------------------------
(* usb_cdc_poll, the part that concerns transmission.                       *)

PollReady ==
  /\ At("main", "poll")
  /\ \/ /\ ready
        /\ asked' = line_coding
        /\ call' = [call EXCEPT !.from = "poll"]
        /\ Goto("main", "apply")
     \/ /\ ~ready
        /\ Goto("main", "deferred")
        /\ UNCHANGED <<asked, call>>
  /\ UNCHANGED <<buffer, pending, ready, line_coding, cr1, requests, rx_pending, dma,
                 usart, txa, ep, avail, sent, fetched, wire>>

PollApplied ==
  /\ At("main", "applied")
  /\ pending' = FALSE
  /\ ready' = FALSE
  /\ Goto("main", "deferred")
  /\ UNCHANGED <<buffer, line_coding, asked, cr1, requests, rx_pending, dma, usart,
                 txa, ep, avail, call, sent, fetched, wire>>

\* Faulty variant: the poll, too, waits for the end of a pending line state
\* change, as the comment in the event handler would have it.
PollDeferredWaits ==
  /\ At("main", "deferred")
  /\ IF rx_pending /\ Space >= ep.rx_count /\ ~pending
     THEN BeginCopy("poll")
     ELSE Goto("main", "event") /\ UNCHANGED <<call, ep, fetched>>
  /\ UNCHANGED <<buffer, coding, rx_pending, dma, usart, txa, avail, sent, wire>>

\* The packet left in the endpoint is read as soon as it fits.
PollDeferred ==
  /\ At("main", "deferred")
  /\ \/ /\ rx_pending /\ Space >= ep.rx_count
        /\ BeginCopy("poll")
     \/ /\ ~rx_pending \/ Space < ep.rx_count
        /\ Goto("main", "event")
        /\ UNCHANGED <<call, ep, fetched>>
  /\ UNCHANGED <<buffer, coding, rx_pending, dma, usart, txa, avail, sent, wire>>

PollReceived ==
  /\ At("main", "received")
  /\ rx_pending' = FALSE
  /\ Goto("main", "event")
  /\ UNCHANGED <<buffer, coding, dma, usart, txa, ep, avail, call, sent, fetched,
                 wire>>

-----------------------------------------------------------------------------
(* The interrupt handlers.                                                  *)

\* Faulty variant: the handler does not start the next chunk.
DmaIrqNoRestart ==
  /\ dma.tcif /\ At("isr", "idle") /\ ~DmaIrqHeldOff
  /\ tail' = Advance(tail, last_dma_tx_size, Size)
  /\ dma' = [dma EXCEPT !.en = FALSE, !.tcif = FALSE]
  /\ ready' = (ready \/ (pending /\ circ_buf_count(head, tail', Size) = 0))
  /\ UNCHANGED <<head, data, last_dma_tx_size, pending, line_coding, asked, cr1,
                 requests, rx_pending, usart, txa, ep, pc, avail, call, sent, fetched,
                 wire>>

\* DMA1_Channel*_IRQHandler and usb_cdc_port_tx_complete up to start_tx: no
\* other actor observes the steps in between.
DmaIrq ==
  /\ dma.tcif /\ At("isr", "idle") /\ ~DmaIrqHeldOff
  /\ tail' = Advance(tail, last_dma_tx_size, Size)
  /\ dma' = [dma EXCEPT !.en = FALSE, !.tcif = FALSE]
  /\ ready' = (ready \/ (pending /\ circ_buf_count(head, tail', Size) = 0))
  /\ Goto("isr", "start")
  /\ UNCHANGED <<head, data, last_dma_tx_size, pending, line_coding, asked, cr1,
                 requests, rx_pending, usart, txa, ep, avail, call, sent, fetched,
                 wire>>

\* USART*_IRQHandler: taken for TC, or for a receive event (line idle, parity
\* error) while the TC flag happens to be set; it does not ask which it was.
UsartIrq ==
  /\ usart.tc # "clear"
  /\ txa' = FALSE
  /\ usart' = [usart EXCEPT !.tcie = FALSE, !.tc = "seen"]
  /\ UNCHANGED <<buffer, coding, rx_pending, dma, ep, pc, avail, call, sent, fetched,
                 wire>>

-----------------------------------------------------------------------------
(* The hardware and the host.                                               *)

\* Between storing a packet's last byte and testing the channel there is no
\* time for two characters.
InWindow == pc.main \in {"start", "busy"} \/ (pc.main = "copy" /\ call.left = 0)

\* The channel moves a byte to DR.  Writing DR clears TC if SR was read with TC
\* set; the last byte of the chunk raises the channel's interrupt.
FetchByte ==
  /\ dma.en /\ dma.cndtr > 0 /\ usart.dr = 0
  /\ Delays \/ ~(InWindow /\ fetched)
  /\ dma' = [dma EXCEPT !.src = @ + 1, !.cndtr = @ - 1, !.tcif = dma.cndtr = 1]
  /\ usart' = [usart EXCEPT !.dr = IF dma.src < Size THEN data[dma.src] ELSE Stray,
                            !.tc = IF @ = "seen" THEN "clear" ELSE @]
  /\ fetched' = (~Delays /\ InWindow)
  /\ UNCHANGED <<buffer, coding, rx_pending, txa, ep, pc, avail, call, sent, wire>>

LoadShift ==
  /\ usart.shift = 0 /\ usart.dr # 0
  /\ usart' = [usart EXCEPT !.shift = usart.dr, !.dr = 0]
  /\ UNCHANGED <<buffer, coding, rx_pending, dma, txa, ep, pc, avail, call, sent,
                 fetched, wire>>

\* A character is complete; TC rises when none follows.  Without delays the
\* DMA interrupt is over before the last character is.
ShiftOut ==
  /\ usart.shift # 0
  /\ Delays \/ usart.dr # 0 \/ (~dma.tcif /\ pc.isr = "idle")
  /\ wire' = Append(wire, usart.shift)
  /\ usart' = [usart EXCEPT !.shift = 0, !.tc = IF usart.dr = 0 THEN "set" ELSE @]
  /\ UNCHANGED <<buffer, coding, rx_pending, dma, txa, ep, pc, avail, call, sent,
                 fetched>>

\* The host sends a packet to an endpoint that accepts one.
HostSend(n) ==
  /\ ep.valid /\ sent + n <= MaxBytes
  /\ ep' = [valid |-> FALSE, ctr |-> TRUE, rx_count |-> n]
  /\ sent' = sent + n
  /\ UNCHANGED <<buffer, coding, rx_pending, dma, usart, txa, pc, avail, call,
                 fetched, wire>>

-----------------------------------------------------------------------------
MainLoop ==
  \/ StartTx("main") \/ CopyByte \/ EndCopy
  \/ DataReceived \/ (\E c \in Codings : SetLineCoding(c)) \/ OtherEvent
  \/ DeferLineCoding \/ WriteBrr \/ WriteCr1
  \/ PollReady \/ PollApplied \/ PollDeferred \/ PollReceived

DmaInterrupt == DmaIrq \/ StartTx("isr")

Next ==
  \/ MainLoop \/ DmaInterrupt \/ UsartIrq
  \/ FetchByte \/ LoadShift \/ ShiftOut
  \/ \E n \in PacketSizes : HostSend(n)

\* The loop and the interrupts keep running, the hardware keeps moving bytes
\* (CTS permitting).  A packet the endpoint holds is not passed over for ever:
\* the events of the other endpoints in front of it are finitely many, as each
\* of them waits for the host in turn.  The host owes nothing.
Fairness ==
  /\ WF_vars(MainLoop) /\ SF_vars(DataReceived)
  /\ WF_vars(DmaInterrupt)
  /\ WF_vars(UsartIrqPending /\ UsartIrq)
  /\ WF_vars(FetchByte) /\ WF_vars(LoadShift) /\ WF_vars(ShiftOut)

Spec == Init /\ [][Next]_vars /\ Fairness

-----------------------------------------------------------------------------
(* Properties.                                                              *)

\* Bytes read from the endpoint so far.
Accepted == sent - ep.rx_count - call.left

Register(r) == IF r = 0 THEN << >> ELSE <<r>>

\* What tx_buf holds and the DMA channel has not moved yet.
Unfetched ==
  LET from == IF dma.en THEN dma.src % Size ELSE tail
  IN  [i \in 1..circ_buf_count(head, from, Size) |->
         data[Advance(from, i - 1, Size)]]

\* Wire, shift register, data register and buffer together hold exactly the
\* bytes read from the endpoint, in order: nothing is lost, repeated,
\* overtaken or overwritten, wherever the interrupts fall (usb_io.c:138 only
\* assumes "enough buffer space is available").
StreamIntact ==
  wire \o Register(usart.shift) \o Register(usart.dr) \o Unfetched
    = [i \in 1..Accepted |-> i]

\* The channel only ever reads stored bytes: its window lies between tail and
\* head without wrapping, starts where the last chunk ended, and its length is
\* what the completion interrupt will advance tail by, although it was computed
\* several interruptible steps before the channel was enabled.
DmaWindow ==
  dma.en =>
    /\ dma.src + dma.cndtr <= Size
    /\ dma.src + dma.cndtr - tail <= Count
    /\ dma.tcif /\ pc.isr = "idle" /\ ~DmaIrqHeldOff
         => last_dma_tx_size = dma.src - tail

\* Unless a change is pending the USART uses the line coding that
\* GET_LINE_CODING reports, and the poll is told to apply a change only while
\* one is pending.
CodingConsistent ==
  /\ pending \/ line_coding = usart.coding
  /\ ready => pending

\* A packet in the endpoint is eventually read and the endpoint accepts the
\* next one: deferring it for lack of space or for a coding change never wedges
\* the port.
EndpointReopens == ~ep.valid ~> ep.valid

\* TXA does not stay active for ever as long as the line coding is left alone:
\* after every transmission the TC interrupt is enabled and finds TC rising (the
\* race of usb_cdc.c:453 is not lost).
TxaReleased == txa ~> ~txa \/ requests > 0

\* README, "TXA goes inactive within 0.6 us after the transmission is complete":
\* whatever is asked of the port meanwhile.
TxaAlwaysReleased == txa ~> ~txa

\* Comment usb_cdc.c:696, "Do not receive data until line state change is
\* complete": no byte enters tx_buf while a change is pending.
NoReceiveWhilePending == [][pending => head' = head]_vars

\* Comment usb_cdc.c:723-726, "defer setting line coding until all data are sent
\* over the serial port": the USART's parameters never change under a character.
NoChangeUnderCharacter ==
  [][usart'.coding # usart.coding => usart.shift = 0 /\ usart.dr = 0]_vars

\* Comment circ_buf.h:18, "Returns number of bytes in buffer": what was sent, what
\* is in the registers and what the buffer counts add up to the bytes accepted.
CountTruthful ==
  Len(wire \o Register(usart.shift) \o Register(usart.dr) \o Unfetched) = Accepted

\* Comment usb_cdc.c:723-726 again: a deferred change is made eventually.
DeferredChangeMade == pending ~> ~pending

\* README, "TXA is active when UART is transmitting data".
TxaWhileTransmitting == usart.shift # 0 => txa
=============================================================================
