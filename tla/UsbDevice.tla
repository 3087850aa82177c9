------------------------------ MODULE UsbDevice ------------------------------
(***************************************************************************)
(* The life of the device on the bus: reset, suspend, address,             *)
(* configuration, halted endpoints (usb_core.c:19-166), the event order of *)
(* usb_poll and the STAT bits that usb_io.c writes by toggling, between    *)
(* the main loop and a host that may reset or suspend the bus at any time. *)
(* A register is loaded and stored in two steps; the hardware changes STAT *)
(* in between.                                                             *)
(*                                                                         *)
(* One port stands for the three, with its bulk endpoint.  A control       *)
(* request is three steps: SETUP, the device's answer, the host's last     *)
(* transaction; module UsbControl has the stages between them.             *)
(***************************************************************************)
EXTENDS Naturals

CONSTANTS
  Addresses,        \* addresses the host may assign
  MaxDisturbances,  \* bound: resets and suspends nobody asked for
  None

ASSUME AddressAssumption ==
  0 \notin Addresses /\ None \notin Addresses \cup {0} /\ MaxDisturbances \in Nat

VARIABLES
  device,    \* usb_device: [state, address, configuration]
  callback,  \* tx_complete_callback is set
  enabled,   \* usb_cdc_enabled
  pending,   \* usb_rx_pending_ep is set
  daddr,     \* address the hardware answers to, None if EF is clear
  flags,     \* RESET and SUSP in ISTR
  stat,      \* STAT bits of both directions of the two endpoints
  write,     \* the main loop's access to them: [step, side, to, ones]
  done,      \* CTR flags
  request,   \* the request in setup_buf
  pc,        \* main loop
  host,      \* [phase, addr, asked, halted]
  calm       \* disturbances left

ports == <<enabled, pending>>
ep    == <<stat, done>>
vars  == <<device, callback, ports, daddr, flags, ep, request, pc, write, host, calm>>

\* The two STAT bits as a set; writing ones toggles them.
Disabled == {}
Stall    == {0}
Nak      == {1}
Valid    == {0, 1}
Toggled(bits, ones) == (bits \ ones) \cup (ones \ bits)

Receiving == {"ctl_rx", "data_rx"}
Data      == {"data_rx", "data_tx"}
Sides     == Data \cup {"ctl_rx", "ctl_tx"}

Ask(kind, arg) == [kind |-> kind, arg |-> arg]
GetStatus == Ask("get_status", "none")
\* What the host may ask for in each phase, and what it asks to get on.
Requests ==
  [off |-> {}, suspended |-> {}, resumed |-> {GetStatus},
   default |-> {GetStatus} \cup {Ask("set_address", a) : a \in Addresses},
   addressed |-> {GetStatus, Ask("set_configuration", "1")},
   configured |-> {Ask("set_configuration", c) : c \in {"0", "1"}} \cup
     {Ask(kind, side) : kind \in {"set_feature", "clear_feature"}, side \in Data}]
Needed ==
  [Requests EXCEPT !.default = @ \ {GetStatus}, !.addressed = @ \ {GetStatus},
                   !.configured = {}]
Phases == DOMAIN Requests
AnyRequest == UNION {Requests[p] : p \in Phases}

ASSUME NameAssumption == None \notin AnyRequest /\ Addresses \cap Data = {}

TypeOK ==
  /\ device \in [state: {"reset", "address_set", "configured"},
                 address: Addresses \cup {0}, configuration: {0, 1}]
  /\ {callback, pending, enabled} \subseteq BOOLEAN
  /\ daddr \in Addresses \cup {0, None}
  /\ flags \subseteq {"RESET", "SUSP"}
  /\ stat \in [Sides -> SUBSET {0, 1}] /\ done \subseteq Sides
  /\ request \in AnyRequest \cup {None}
  /\ "ctl_rx" \in done => request # None
  /\ pc \in {"event", "execute", "refuse", "reply", "poll", "deferred"}
  /\ pc = "execute" => request # None
  /\ write \in [step: {"none", "load", "store"}, side: Sides,
                to: SUBSET {0, 1}, ones: SUBSET {0, 1}]
  /\ host \in [phase: Phases, addr: Addresses \cup {0},
               asked: AnyRequest \cup {None}, halted: SUBSET Data]
  /\ calm \in 0..MaxDisturbances

NoWrite == [step |-> "none", side |-> "ctl_rx", to |-> {}, ones |-> {}]

\* After usb_io_init: only the reset interrupt is of interest.
Init ==
  /\ device = [state |-> "reset", address |-> 0, configuration |-> 0]
  /\ callback = FALSE /\ enabled = FALSE /\ pending = FALSE
  /\ daddr = None /\ flags = {} /\ done = {} /\ request = None
  /\ stat = [s \in Sides |-> Disabled]
  /\ pc = "event" /\ write = NoWrite
  /\ host = [phase |-> "off", addr |-> 0, asked |-> None, halted |-> {}]
  /\ calm = MaxDisturbances

Go(from, to) == write.step = "none" /\ pc = from /\ pc' = to
Main == UNCHANGED <<host, calm>>

-----------------------------------------------------------------------------
(* A write of STAT bits: the register is loaded, the bits to toggle are     *)
(* made from what was read, and stored.  The main loop does nothing else    *)
(* until then; its next step waits at pc.                                   *)

Begin(side, to) ==
  write' = [step |-> "load", side |-> side, to |-> to, ones |-> {}]

Load ==
  /\ write.step = "load"
  /\ write' = [write EXCEPT !.step = "store", !.ones = Toggled(stat[write.side], write.to)]
  /\ Main /\ UNCHANGED <<device, callback, ports, daddr, flags, ep, request, pc>>

Store ==
  /\ write.step = "store"
  /\ stat' = [stat EXCEPT ![write.side] = Toggled(@, write.ones)]
  /\ write' = NoWrite
  /\ Main /\ UNCHANGED <<device, callback, ports, daddr, flags, done, request, pc>>

-----------------------------------------------------------------------------
(* usb_poll: one event a turn, endpoint 0 first, sent before received.      *)

\* usb_assign_device_address_cb, after the status stage
ControlSent ==
  /\ "ctl_tx" \in done /\ Go("event", "poll")
  /\ done' = done \ {"ctl_tx"}
  /\ callback' = FALSE
  /\ daddr' = IF callback THEN device.address ELSE daddr
  /\ device' = IF callback THEN [device EXCEPT !.state = "address_set"] ELSE device
  /\ Main /\ UNCHANGED <<ports, flags, stat, request, write>>

\* Faulty variant: the address is changed before the status stage.
SetAddressAtOnce(a) ==
  /\ device' = [device EXCEPT !.address = a, !.state = "address_set"]
  /\ daddr' = a
  /\ UNCHANGED <<callback, enabled>>

SetAddress(a) ==
  /\ device' = [device EXCEPT !.address = a]
  /\ callback' = TRUE
  /\ UNCHANGED <<daddr, enabled>>

\* The caller tests for configuration 1; usb_device_handle_configured.
SetConfiguration ==
  /\ device' = [device EXCEPT !.configuration = 1]
  /\ enabled' = (enabled \/ device.state # "configured")
  /\ UNCHANGED <<callback, daddr>>

\* What usb_endpoint_set_stall toggles the bits towards.  Clearing on the
\* receiving side XORs with the bits of the sending side, which leaves none.
Wanted(kind, side) ==
  IF kind = "set_feature" THEN Stall
  ELSE IF side \in Receiving THEN Disabled ELSE Nak

\* usb_endpoint_set_stall tests the bits before it loads them again.
SetStall(kind, side) ==
  IF stat[side] = Disabled THEN UNCHANGED write ELSE Begin(side, Wanted(kind, side))

\* usb_read opens endpoint 0 again, ...
ServeSetup ==
  /\ "ctl_rx" \in done /\ "ctl_tx" \notin done /\ Go("event", "execute")
  /\ done' = done \ {"ctl_rx"}
  /\ Begin("ctl_rx", Valid)
  /\ Main /\ UNCHANGED <<device, callback, ports, daddr, flags, stat, request>>

\* ... then the request is carried out, ...
Execute ==
  /\ Go("execute", "reply")
  /\ \/ /\ request.kind = "set_address" /\ SetAddress(request.arg)
        /\ UNCHANGED write
     \/ request = Ask("set_configuration", "1") /\ SetConfiguration /\ UNCHANGED write
     \/ /\ request.kind \in {"set_feature", "clear_feature"}
        /\ SetStall(request.kind, request.arg)
        /\ UNCHANGED <<device, callback, daddr, enabled>>
     \/ request = GetStatus /\ UNCHANGED <<device, callback, daddr, enabled, write>>
  /\ Main /\ UNCHANGED <<pending, flags, ep, request>>

\* ... or both sides of endpoint 0 are stalled, one after the other.
Refuse ==
  /\ \/ request = Ask("set_configuration", "0") /\ Go("execute", "refuse")
        /\ SetStall("set_feature", "ctl_rx")
     \/ Go("refuse", "poll") /\ SetStall("set_feature", "ctl_tx")
  /\ Main /\ UNCHANGED <<device, callback, ports, daddr, flags, ep, request>>

\* usb_send of the status packet or of the data
Reply ==
  /\ Go("reply", "poll") /\ Begin("ctl_tx", Valid)
  /\ Main /\ UNCHANGED <<device, callback, ports, daddr, flags, ep, request>>

\* The port reads its packet, or puts it off for lack of space or a coding.
ServeData ==
  /\ done = {"data_rx"} /\ Go("event", "poll")
  /\ done' = {}
  /\ \/ Begin("data_rx", Valid) /\ UNCHANGED pending
     \/ pending' = TRUE /\ UNCHANGED write
  /\ Main /\ UNCHANGED <<device, callback, enabled, daddr, flags, stat, request>>

\* Faulty variant: the address survives a reset.
AddressKept == [device EXCEPT !.state = "reset", !.configuration = 0]

Cleared == [state |-> "reset", address |-> 0, configuration |-> 0]

\* Faulty variant: the ports go on.
PortsKept == pending' = FALSE /\ UNCHANGED enabled

\* usb_cdc_reset
PortsReset == pending' = FALSE /\ enabled' = FALSE

\* usb_device_handle_reset.  usb_io_reset takes the STAT bits to be clear, as
\* the hardware left them, and clears the CTR flags.
ServeReset ==
  /\ done = {} /\ "RESET" \in flags /\ Go("event", "poll")
  /\ flags' = flags \ {"RESET"}
  /\ device' = Cleared
  /\ PortsReset
  /\ stat' = [s \in Sides |-> Toggled(stat[s], IF s \in Receiving THEN Valid ELSE Nak)]
  /\ daddr' = 0
  /\ Main /\ UNCHANGED <<callback, done, request, write>>

ServeSuspend ==
  /\ done = {} /\ flags = {"SUSP"} /\ Go("event", "poll")
  /\ flags' = {}
  /\ enabled' = (enabled /\ device.state # "configured")
  /\ daddr' = 0
  /\ device' = [device EXCEPT !.state = "reset"]
  /\ Main /\ UNCHANGED <<callback, pending, ep, request, write>>

\* Wake-up, start of frame or nothing at all
ServeOther ==
  /\ done = {} /\ flags = {} /\ Go("event", "poll")
  /\ Main /\ UNCHANGED <<device, callback, ports, daddr, flags, ep, request, write>>

\* Faulty variant: a halted endpoint counts as free.
SpaceUnlessValid == stat.data_tx # Valid

\* usb_space_available
SpaceAvailable == stat.data_tx = Nak

\* usb_cdc_port_send_rx_usb, run whether or not the ports are enabled.  The
\* packet is copied between the test and the write.
PollTest ==
  /\ Go("poll", "deferred")
  /\ \/ SpaceAvailable /\ Begin("data_tx", Valid)
     \/ UNCHANGED write
  /\ Main /\ UNCHANGED <<device, callback, ports, daddr, flags, ep, request>>

PollDeferred ==
  /\ Go("deferred", "event")
  /\ \/ pending /\ pending' = FALSE /\ Begin("data_rx", Valid)
     \/ UNCHANGED <<pending, write>>
  /\ Main /\ UNCHANGED <<device, callback, enabled, daddr, flags, ep, request>>

MainLoop ==
  \/ ControlSent \/ ServeSetup \/ Execute \/ Refuse \/ Reply \/ ServeData
  \/ ServeReset \/ ServeSuspend \/ ServeOther \/ PollTest \/ PollDeferred
  \/ Load \/ Store

-----------------------------------------------------------------------------
(* The host, and what the hardware does on its own.                         *)

Software == <<device, callback, ports, request, pc, write>>
Answers  == daddr = host.addr
\* What the host waits for (milliseconds) when it has to give up.
CaughtUp ==
  /\ done = {} /\ flags = {} /\ pc \notin {"execute", "refuse", "reply"}
  /\ write.step = "none" \/ write.side \in Data

\* The hardware disables the endpoints and the address, and keeps CTR.
BusReset ==
  /\ flags' = flags \cup {"RESET"}
  /\ daddr' = None
  /\ stat' = [s \in Sides |-> Disabled]
  /\ host' = [phase |-> "default", addr |-> 0, asked |-> None, halted |-> {}]
  /\ UNCHANGED <<Software, done>>

Attach == host.phase = "off" /\ BusReset /\ UNCHANGED calm

SpuriousReset == host.phase # "off" /\ calm > 0 /\ BusReset /\ calm' = calm - 1

\* Nothing answers, or nothing more comes.
GiveUp ==
  /\ CaughtUp
  /\ IF host.asked = None
     THEN Needed[host.phase] # {} /\ ~(Answers /\ stat.ctl_rx # Disabled)
     ELSE ~(Answers /\ stat.ctl_tx \in {Valid, Stall})
  /\ BusReset /\ UNCHANGED calm

\* The host leaves the device 10 ms after a reset.
HostSetup(rs) ==
  /\ host.asked = None /\ Answers /\ flags = {}
  /\ stat.ctl_rx # Disabled /\ "ctl_rx" \notin done
  /\ stat' = [stat EXCEPT !.ctl_rx = Nak, !.ctl_tx = Nak]
  /\ done' = done \cup {"ctl_rx"}
  /\ \E r \in rs :
       /\ request' = r
       /\ host' = [host EXCEPT !.asked = r,
                    !.halted = IF r.kind = "clear_feature" THEN @ \ {r.arg} ELSE @]
  /\ UNCHANGED <<device, callback, ports, daddr, flags, pc, write, calm>>

AfterRequest(r) ==
  [host EXCEPT
     !.asked = None,
     !.addr = IF r.kind = "set_address" THEN r.arg ELSE @,
     !.phase = IF r.kind = "set_address" THEN "addressed"
               ELSE IF r.kind = "set_configuration" \/ @ = "resumed" THEN "configured"
               ELSE @,
     !.halted = IF r.kind = "set_feature" THEN @ \cup {r.arg} ELSE @]

HostCollects ==
  /\ host.asked # None /\ Answers /\ stat.ctl_tx = Valid
  /\ stat' = [stat EXCEPT !.ctl_tx = Nak]
  /\ done' = done \cup {"ctl_tx"}
  /\ host' = AfterRequest(host.asked)
  /\ UNCHANGED <<Software, daddr, flags, calm>>

HostSeesStall ==
  /\ host.asked # None /\ Answers /\ stat.ctl_tx = Stall
  /\ host' = [host EXCEPT !.asked = None]
  /\ UNCHANGED <<Software, daddr, flags, ep, calm>>

Open == host.phase = "configured" /\ Answers

HostSends ==
  /\ Open /\ stat.data_rx = Valid
  /\ stat' = [stat EXCEPT !.data_rx = Nak]
  /\ done' = done \cup {"data_rx"}
  /\ UNCHANGED <<Software, daddr, flags, host, calm>>

\* The event handler of a port takes no notice of a packet that was sent.
HostReads ==
  /\ Open /\ stat.data_tx = Valid
  /\ stat' = [stat EXCEPT !.data_tx = Nak]
  /\ UNCHANGED <<Software, daddr, flags, done, host, calm>>

\* The bus is idle for 3 ms.
Suspend ==
  /\ calm > 0 /\ calm' = calm - 1
  /\ host.phase = "configured" /\ host.asked = None
  /\ flags' = flags \cup {"SUSP"}
  /\ host' = [host EXCEPT !.phase = "suspended"]
  /\ UNCHANGED <<Software, daddr, ep>>

\* Resuming takes 30 ms, longer than a turn; the host then looks whether the
\* device is still there.
Resume ==
  /\ host.phase = "suspended" /\ flags = {}
  /\ host' = [host EXCEPT !.phase = "resumed"]
  /\ UNCHANGED <<Software, daddr, flags, ep, calm>>

HostAnswered == HostCollects \/ HostSeesStall \/ GiveUp \/ Attach \/ Resume
Asking == HostSetup(Requests[host.phase])
Bus == SpuriousReset \/ Suspend \/ HostSends \/ HostReads

Next == MainLoop \/ HostAnswered \/ Asking \/ Bus

Fairness ==
  /\ WF_vars(MainLoop)
  /\ WF_vars(HostAnswered)
  /\ SF_vars(HostSetup(Needed[host.phase]))

Spec == Init /\ [][Next]_vars /\ Fairness

-----------------------------------------------------------------------------
(* Properties.                                                              *)

Settled == CaughtUp /\ host.asked = None

\* A device the host has not suspended answers at the address the host gave
\* it last, 0 after a reset, however resets and the deferred change of DADDR
\* (usb_core.c:98-101, 115-118) interleave.
Reachable ==
  Settled /\ host.phase \in {"default", "addressed", "configured"}
    => daddr = host.addr

\* The ports are enabled when the host has configured the device, and no
\* reset leaves them enabled for a host that has not (usb_core.c:27-39).
PortsFollowHost ==
  Settled => /\ host.phase = "configured" => enabled
             /\ enabled => host.phase \in {"configured", "suspended", "resumed"}

\* An IN endpoint the host has halted sends nothing until the host clears
\* the halt or resets the bus: no write of the poll, tested against bits read
\* before, makes it valid again (usb_io.c:83-90, 182).
HaltedInSilent == "data_tx" \in host.halted => stat.data_tx \in {Stall, Disabled}

\* A host that resets a device which does not answer gets it configured in
\* the end, whatever an event handled late made of the STAT bits
\* (usb_io.c:49, 224-247).
Enumerates ==
  <>[](host.phase = "configured" /\ daddr = host.addr /\ enabled)

\* "USB Initialization After Reset" (usb_io.c:17): every endpoint is open
\* after a reset.  It is not: a packet, a request or a poll handled between
\* the reset of the bus and its event sets STAT bits that usb_io_reset then
\* toggles (usb_io.c:49).
OpenAfterReset ==
  Settled /\ host.phase = "default" =>
    /\ stat.ctl_rx # Disabled
    /\ stat.data_rx = Valid \/ pending
    /\ stat.data_tx \in {Nak, Valid}

\* usb_cdc_suspend exists to stop the ports (usb_cdc.c:638-644).
SuspendStopsPorts == host.phase = "suspended" /\ flags = {} => ~enabled

\* An OUT endpoint that is not halted takes packets: the test of
\* usb_endpoint_set_stall (usb_io.c:200) says it never disables one.
OutOpen ==
  Settled /\ host.phase = "configured" /\ host.halted = {}
    => stat.data_rx # Disabled \/ pending

\* An IN endpoint the host has halted answers with STALL: it does not if the
\* hardware takes VALID to NAK between the load and the store of line 194.
HaltedInStays == "data_tx" \in host.halted => stat.data_tx = Stall

\* An OUT endpoint the host has halted stays halted.
HaltedOutStays == "data_rx" \in host.halted => stat.data_rx = Stall
=============================================================================
