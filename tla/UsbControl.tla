----------------------------- MODULE UsbControl -----------------------------
(***************************************************************************)
(* The control endpoint: usb_core.c and the endpoint routines of usb_io.c, *)
(* between the main loop, which handles one endpoint event per turn, and   *)
(* the host, whose transactions the hardware completes on its own whenever *)
(* the endpoint's status bits allow it.                                    *)
(*                                                                         *)
(* A request is a record: direction, wLength, what the device will make of *)
(* it (ok, never for data that does not fit payload_buf; reply: the size   *)
(* of the payload the request handler provides), and whether it is         *)
(* SET_ADDRESS. The n-th request has the number n; the packets of the data *)
(* stage carry the number of the request they belong to and their length.  *)
(***************************************************************************)
EXTENDS Integers, FiniteSets

CONSTANTS
  Requests,     \* the requests the host may make
  PacketSize,   \* tx_size and rx_size of endpoint 0
  MaxPayload,   \* USB_SETUP_MAX_PAYLOAD_SIZE
  MaxRequests,  \* bound: requests in a behaviour
  GivenUp,      \* those it may give up (time-out, unloaded driver)
  None

ASSUME SizeAssumption ==
  /\ PacketSize \in Nat \ {0} /\ MaxPayload \in Nat /\ MaxRequests \in Nat
ASSUME RequestAssumption ==
  /\ Requests \subseteq
       [in: BOOLEAN, wLength: Nat, ok: BOOLEAN, reply: Nat, address: BOOLEAN]
  /\ \A r \in Requests : r.address => ~r.in /\ r.wLength = 0 /\ r.ok
  /\ \A r \in Requests : r.ok /\ ~r.in => r.wLength <= MaxPayload
  /\ GivenUp \subseteq Requests
  /\ None \notin Requests

VARIABLES
  \* usb_control_ep_struct
  state,          \* state
  setup,          \* the request in setup_buf: [id, r]
  payload_size,
  callback,       \* tx_complete_callback: the SET_ADDRESS that set it, or 0
  \* usb_device and the address register
  address,        \* usb_device.address: the SET_ADDRESS it is from, or 0
  daddr,          \* DADDR, likewise
  \* the endpoint
  stat_rx, stat_tx, ctr_rx, ctr_tx,
  rx,             \* packet in the receive buffer: [setup, id, r, n]
  tx,             \* packet in the transmit buffer: [id, n]
  \* the main loop
  pc,
  executed,       \* number of the last request carried out
  finished,       \* the request in setup_buf when the callback was called last
  \* the host
  host            \* [phase, id, r, left, got, answer, addr, foreign]

ep    == <<stat_rx, stat_tx, ctr_rx, ctr_tx, rx, tx>>
dev   == <<callback, address, daddr, executed, finished>>
ctl   == <<state, setup, payload_size>>
vars  == <<ctl, dev, ep, pc, host>>

Status == {"valid", "nak", "stall"}
States == {"idle", "rx", "tx", "tx_zlp", "tx_last", "status_in", "status_out"}
Phases == {"idle", "cut", "data_in", "data_out", "status_in", "status_out"}
Ids    == 0..MaxRequests

TypeOK ==
  /\ state \in States
  /\ setup \in [id: Ids, r: Requests \cup {None}]
  /\ payload_size \in Nat
  /\ {callback, address, daddr, executed, finished} \subseteq Ids
  /\ stat_rx \in Status /\ stat_tx \in Status
  /\ ctr_rx \in BOOLEAN /\ ctr_tx \in BOOLEAN
  /\ rx \in [setup: BOOLEAN, id: Ids, r: Requests \cup {None}, n: 0..PacketSize]
  /\ tx \in [id: Ids, n: 0..PacketSize]
  /\ pc \in {"poll", "sent", "received", "process", "panic"}
  /\ host \in [phase: Phases, id: Ids, r: Requests \cup {None}, left: Int, got: Nat,
               answer: Nat \cup {None}, addr: Ids, foreign: BOOLEAN]
  /\ host.phase \in {"idle", "cut"} <=> host.r = None

NoPacket == [setup |-> FALSE, id |-> 0, r |-> None, n |-> 0]

\* After usb_io_reset
Init ==
  /\ state = "idle" /\ setup = [id |-> 0, r |-> None] /\ payload_size = 0
  /\ callback = 0 /\ address = 0 /\ daddr = 0 /\ executed = 0 /\ finished = 0
  /\ stat_rx = "valid" /\ stat_tx = "nak" /\ ctr_rx = FALSE /\ ctr_tx = FALSE
  /\ rx = NoPacket /\ tx = [id |-> 0, n |-> 0]
  /\ pc = "poll"
  /\ host = [phase |-> "idle", id |-> 0, r |-> None, left |-> 0, got |-> 0,
             answer |-> 0, addr |-> 0, foreign |-> FALSE]

Go(from, to) == pc = from /\ pc' = to
Smaller(a, b) == IF a < b THEN a ELSE b

-----------------------------------------------------------------------------
(* usb_poll: the event is acknowledged, then handled.                       *)

\* Faulty variant: reception is looked at first.
PollRxFirst ==
  \/ /\ ctr_rx /\ Go("poll", "received")
     /\ ctr_rx' = FALSE
     /\ state' = IF rx.setup THEN "idle" ELSE state
     /\ UNCHANGED ctr_tx
  \/ /\ ~ctr_rx /\ ctr_tx /\ Go("poll", "sent")
     /\ ctr_tx' = FALSE
     /\ UNCHANGED <<ctr_rx, state>>

\* Faulty variant: a SETUP does not reset the state machine.
PollNoRestart ==
  \/ /\ ctr_tx /\ Go("poll", "sent")
     /\ ctr_tx' = FALSE
     /\ UNCHANGED <<ctr_rx, state>>
  \/ /\ ~ctr_tx /\ ctr_rx /\ Go("poll", "received")
     /\ ctr_rx' = FALSE
     /\ UNCHANGED <<ctr_tx, state>>

PollEvent ==
  \/ /\ ctr_tx /\ Go("poll", "sent")
     /\ ctr_tx' = FALSE
     /\ UNCHANGED <<ctr_rx, state>>
  \/ /\ ~ctr_tx /\ ctr_rx /\ Go("poll", "received")
     /\ ctr_rx' = FALSE
     /\ state' = IF rx.setup THEN "idle" ELSE state
     /\ UNCHANGED ctr_tx

Poll ==
  /\ PollEvent
  /\ UNCHANGED <<setup, payload_size, dev, stat_rx, stat_tx, rx, tx, host>>

\* usb_control_endpoint_stall
Stall ==
  /\ stat_rx' = "stall" /\ stat_tx' = "stall"
  /\ state' = "idle"
  /\ pc' = "poll"

\* usb_control_endpoint_process_callback
Callback ==
  \/ /\ callback # 0
     /\ daddr' = address
     /\ callback' = 0
     /\ finished' = setup.id
  \/ /\ callback = 0
     /\ UNCHANGED <<daddr, callback, finished>>

-----------------------------------------------------------------------------
(* usb_control_endpoint_process_tx                                          *)

\* Faulty variant: the last packet is not followed by a zero-length one.
SendPartNoZlp(size, mode) ==
  LET n == Smaller(size, PacketSize)
  IN  /\ tx' = [id |-> setup.id, n |-> n]
      /\ stat_tx' = "valid"
      /\ payload_size' = size - n
      /\ state' = IF size = n THEN "tx_last" ELSE mode

\* States tx and tx_zlp: one more packet; in state tx_zlp a full one is not the
\* last.
SendPart(size, mode) ==
  LET n == Smaller(size, PacketSize)
  IN  /\ tx' = [id |-> setup.id, n |-> n]
      /\ stat_tx' = "valid"
      /\ payload_size' = size - n
      /\ state' = IF size = n /\ (mode = "tx" \/ n # PacketSize)
                  THEN "tx_last" ELSE mode

SendMore ==
  /\ state \in {"tx", "tx_zlp"} /\ Go("sent", "poll")
  /\ SendPart(payload_size, state)
  /\ UNCHANGED <<setup, dev, stat_rx, ctr_rx, ctr_tx, rx, host>>

LastSent ==
  /\ state = "tx_last" /\ Go("sent", "poll")
  /\ state' = "status_out"
  /\ UNCHANGED <<setup, payload_size, dev, ep, host>>

\* In any state in which nothing can have been sent: usb_panic
StatusSent ==
  /\ pc = "sent" /\ state \notin {"tx", "tx_zlp", "tx_last"}
  /\ \/ /\ state = "status_in"
        /\ pc' = "poll" /\ state' = "idle"
        /\ Callback
     \/ /\ state # "status_in"
        /\ pc' = "panic"
        /\ UNCHANGED <<state, callback, daddr, finished>>
  /\ UNCHANGED <<setup, payload_size, address, executed, ep, host>>

-----------------------------------------------------------------------------
(* usb_control_endpoint_process_rx                                          *)

\* State idle: usb_read of a usb_setup_t.  Data too long for payload_buf are
\* refused before any of them arrives.
ReceiveSetup ==
  /\ pc = "received" /\ state = "idle" /\ rx.setup
  /\ setup' = [id |-> rx.id, r |-> rx.r]
  /\ payload_size' = rx.r.wLength
  /\ rx' = NoPacket
  /\ \/ /\ rx.r.in \/ rx.r.wLength = 0
        /\ pc' = "process" /\ stat_rx' = "valid"
        /\ UNCHANGED <<state, stat_tx>>
     \/ /\ ~rx.r.in /\ rx.r.wLength \in 1..MaxPayload
        /\ pc' = "poll" /\ stat_rx' = "valid"
        /\ state' = "rx"
        /\ UNCHANGED stat_tx
     \/ /\ ~rx.r.in /\ rx.r.wLength > MaxPayload
        /\ Stall
  /\ UNCHANGED <<dev, ctr_rx, ctr_tx, tx, host>>

\* Faulty variant: the first packet of the data stage counts as all of it.
ReceiveDataOnce ==
  /\ pc = "received" /\ state = "rx"
  /\ rx' = NoPacket /\ stat_rx' = "valid"
  /\ payload_size' = payload_size - rx.n
  /\ pc' = "process"
  /\ UNCHANGED <<state, setup, dev, stat_tx, ctr_rx, ctr_tx, tx, host>>

\* State rx: the data stage, packet by packet
ReceiveData ==
  /\ pc = "received" /\ state = "rx"
  /\ rx' = NoPacket /\ stat_rx' = "valid"
  /\ payload_size' = payload_size - rx.n
  /\ pc' = IF payload_size = rx.n THEN "process" ELSE "poll"
  /\ UNCHANGED <<state, setup, dev, stat_tx, ctr_rx, ctr_tx, tx, host>>

\* State status_out: usb_read with an empty buffer, which leaves a packet with
\* content (the next request) where it is
ReceiveStatus ==
  /\ state = "status_out" /\ Go("received", "poll")
  /\ \/ rx.n = 0 /\ ~rx.setup /\ stat_rx' = "valid"
     \/ rx.setup /\ UNCHANGED stat_rx
  /\ state' = "idle"
  /\ Callback
  /\ UNCHANGED <<setup, payload_size, address, executed, stat_tx, ctr_rx, ctr_tx, rx,
                 tx, host>>

\* Anything else is stalled.
ReceiveUnexpected ==
  /\ pc = "received"
  /\ state \notin {"idle", "rx", "status_out"} \/ (state = "idle" /\ ~rx.setup)
  /\ Stall
  /\ UNCHANGED <<setup, payload_size, dev, ctr_rx, ctr_tx, rx, tx, host>>

-----------------------------------------------------------------------------
(* usb_control_endpoint_process_request and what follows it                 *)

\* Faulty variant: the new address is used at once.
ExecuteAtOnce(id, r) ==
  /\ executed' = id
  /\ IF r.address THEN address' = id /\ daddr' = id ELSE UNCHANGED <<address, daddr>>
  /\ UNCHANGED <<callback, finished>>

\* SET_ADDRESS is carried out by the callback.
Execute(id, r) ==
  /\ executed' = id
  /\ IF r.address THEN address' = id /\ callback' = id ELSE UNCHANGED <<address, callback>>
  /\ UNCHANGED <<daddr, finished>>

\* usb_status_ack for a device-to-host request
ReplyWithData ==
  /\ Go("process", "poll") /\ setup.r.ok /\ setup.r.in
  /\ Execute(setup.id, setup.r)
  /\ \/ setup.r.reply < setup.r.wLength /\ SendPart(setup.r.reply, "tx_zlp")
     \/ setup.r.reply >= setup.r.wLength /\ SendPart(setup.r.wLength, "tx")
  /\ UNCHANGED <<setup, stat_rx, ctr_rx, ctr_tx, rx, host>>

\* usb_status_ack for a host-to-device request
ReplyWithStatus ==
  /\ Go("process", "poll") /\ setup.r.ok /\ ~setup.r.in
  /\ Execute(setup.id, setup.r)
  /\ tx' = [id |-> setup.id, n |-> 0]
  /\ stat_tx' = "valid"
  /\ state' = "status_in"
  /\ UNCHANGED <<setup, payload_size, stat_rx, ctr_rx, ctr_tx, rx, host>>

\* usb_status_fail
Refuse ==
  /\ pc = "process" /\ ~setup.r.ok
  /\ Stall
  /\ UNCHANGED <<setup, payload_size, dev, ctr_rx, ctr_tx, rx, tx, host>>

-----------------------------------------------------------------------------
(* The host and the hardware.                                               *)

Idle(h) == [h EXCEPT !.phase = "idle", !.r = None, !.left = 0, !.got = 0]

\* The device answers only under its address.
Addressed == daddr = host.addr

\* The host is through with its request, which has not come to its end.
CutShort(h) == [Idle(h) EXCEPT !.phase = "cut", !.answer = None]

\* A host that has cut a request short begins the next one milliseconds later at
\* the least, when the main loop has long handled what there was to handle.
Quiescent == pc = "poll" /\ ~ctr_rx /\ ~ctr_tx

\* A SETUP is accepted whatever STAT_RX, and makes both directions NAK; it is
\* dropped only while CTR_RX is set.
HostSetup(r) ==
  /\ host.phase = "idle" \/ (host.phase = "cut" /\ Quiescent)
  /\ host.id < MaxRequests /\ Addressed /\ ~ctr_rx
  /\ host' = [host EXCEPT !.id = @ + 1, !.r = r, !.left = r.wLength, !.got = 0,
                          !.phase = IF r.wLength = 0 THEN "status_in"
                                    ELSE IF r.in THEN "data_in" ELSE "data_out"]
  /\ rx' = [setup |-> TRUE, id |-> host.id + 1, r |-> r, n |-> 0]
  /\ ctr_rx' = TRUE
  /\ stat_rx' = "nak" /\ stat_tx' = "nak"
  /\ UNCHANGED <<ctl, dev, ctr_tx, tx, pc>>

\* An IN transaction of the data stage, over with a short packet or the last byte
HostDataIn ==
  /\ host.phase = "data_in" /\ Addressed /\ stat_tx = "valid"
  /\ host' = [host EXCEPT !.got = @ + tx.n, !.left = @ - tx.n,
                          !.phase = IF tx.n < PacketSize \/ host.left = tx.n
                                    THEN "status_out" ELSE @,
                          !.foreign = @ \/ tx.id # host.id]
  /\ stat_tx' = "nak" /\ ctr_tx' = TRUE
  /\ UNCHANGED <<ctl, dev, stat_rx, ctr_rx, rx, tx, pc>>

\* The status stage of a request without data or with data to the device
HostStatusIn ==
  /\ host.phase = "status_in" /\ Addressed /\ stat_tx = "valid"
  /\ host' = [Idle(host) EXCEPT !.answer = 0,
                                !.addr = IF host.r.address THEN host.id ELSE @,
                                !.foreign = @ \/ tx.id # host.id]
  /\ stat_tx' = "nak" /\ ctr_tx' = TRUE
  /\ UNCHANGED <<ctl, dev, stat_rx, ctr_rx, rx, tx, pc>>

HostDataOut ==
  /\ host.phase = "data_out" /\ Addressed /\ stat_rx = "valid"
  /\ LET n == Smaller(host.left, PacketSize)
     IN  /\ host' = [host EXCEPT !.left = @ - n,
                                 !.phase = IF @ = "data_out" /\ host.left = n
                                           THEN "status_in" ELSE @]
         /\ rx' = [setup |-> FALSE, id |-> host.id, r |-> None, n |-> n]
  /\ stat_rx' = "nak" /\ ctr_rx' = TRUE
  /\ UNCHANGED <<ctl, dev, stat_tx, ctr_tx, tx, pc>>

\* The status packet of a request for data
StatusPacket ==
  /\ Addressed /\ stat_rx = "valid"
  /\ rx' = [setup |-> FALSE, id |-> host.id, r |-> None, n |-> 0]
  /\ stat_rx' = "nak" /\ ctr_rx' = TRUE
  /\ UNCHANGED <<ctl, dev, stat_tx, ctr_tx, tx, pc>>

HostStatusOut ==
  /\ host.phase = "status_out" /\ StatusPacket
  /\ host' = [Idle(host) EXCEPT !.answer = host.got]

\* A host may begin the status stage before it has got all data.
HostEndsEarly ==
  /\ host.phase = "data_in" /\ host.r \in GivenUp /\ StatusPacket
  /\ host' = CutShort(host)

HostGivesUp ==
  /\ host.r \in GivenUp
  /\ host' = CutShort(host)
  /\ UNCHANGED <<ctl, dev, ep, pc>>

HostSeesStall ==
  /\ Addressed
  /\ \/ host.phase \in {"data_in", "status_in"} /\ stat_tx = "stall"
     \/ host.phase \in {"data_out", "status_out"} /\ stat_rx = "stall"
  /\ host' = Idle(host)
  /\ UNCHANGED <<ctl, dev, ep, pc>>

-----------------------------------------------------------------------------
MainLoop ==
  \/ Poll \/ SendMore \/ LastSent \/ StatusSent
  \/ ReceiveSetup \/ ReceiveData \/ ReceiveStatus \/ ReceiveUnexpected
  \/ ReplyWithData \/ ReplyWithStatus \/ Refuse

Transaction ==
  HostDataIn \/ HostStatusIn \/ HostDataOut \/ HostStatusOut \/ HostSeesStall

Next ==
  \/ MainLoop \/ Transaction \/ HostEndsEarly \/ HostGivesUp
  \/ \E r \in Requests : HostSetup(r)

\* The main loop keeps turning and the host goes on with what it has begun, unless
\* it cuts it short.
Spec == Init /\ [][Next]_vars /\ WF_vars(MainLoop) /\ WF_vars(Transaction)

-----------------------------------------------------------------------------
(* Properties.                                                              *)

\* The endpoint implements ControlPipe: with the stages of a transfer overlapping
\* (the host may be done, and have sent the next request, before the main loop
\* has seen the end of the last), each request is carried out once, answered
\* with exactly the bytes it asks for and there are, or refused.
Pipe == INSTANCE ControlPipe
          WITH request <- host.r, executed <- host.r # None /\ executed = host.id,
               answer <- host.answer
PipeSpec == Pipe!Spec
PipeSafety == Pipe!Safety

\* No packet left over from one request is taken for an answer to another.
NoForeignPacket == ~host.foreign

\* usb_panic (interrupts off, for ever) is out of reach: no packet is ever
\* reported as sent that the state machine does not wait for.
NoPanic == pc # "panic"

\* A request the device can serve is never met with a STALL: whatever became of
\* the requests before it, refused, cut short or given up, a SETUP starts anew.
NoFalseRefusal ==
  host.r # None /\ host.r.ok => "stall" \notin {stat_rx, stat_tx}

\* The device changes its address only once the status stage of SET_ADDRESS is
\* over for the host, and from the next request on it answers under the new one.
AddressChange ==
  /\ daddr # host.addr => callback # 0 /\ address = host.addr
  /\ ctr_rx /\ rx.setup /\ pc = "poll" /\ ~ctr_tx => daddr = host.addr

\* The comment usb_core.h:27 calls the callback "Exchange Complete Callback": it
\* is called at the end of the exchange that set it.
CallbackOfExchange == [][callback # 0 /\ callback' = 0 => finished' = callback]_vars
=============================================================================
