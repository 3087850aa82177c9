--------------------------- MODULE UsbDeviceProofs ---------------------------
(***************************************************************************)
(* Proofs about UsbDevice: the types, and that a halted IN endpoint sends  *)
(* nothing, the ports follow the host and the device answers at the        *)
(* address the host gave it, for every set of addresses and every number   *)
(* of resets and suspends.                                                 *)
(*                                                                         *)
(* Between a reset of the bus and the event that tells the main loop of it *)
(* a stale SETUP packet may still be served, so nothing relates the        *)
(* device to the host then; the invariants speak of the other times, and   *)
(* of what that one request can leave behind.                              *)
(***************************************************************************)
EXTENDS UsbDevice, TLAPS

Bits == SUBSET {0, 1}

\* The STAT values differ, and what toggling makes of them.
LEMMA BitFacts ==
  /\ {Disabled, Stall, Nak, Valid} \subseteq Bits
  /\ Disabled # Stall /\ Disabled # Nak /\ Disabled # Valid
  /\ Stall # Nak /\ Stall # Valid /\ Nak # Valid
  /\ Toggled(Disabled, Valid) = Valid /\ Toggled(Disabled, Nak) = Nak
  /\ Toggled(Valid, Nak) = Stall /\ Toggled(Valid, Valid) = Disabled
  /\ \A b, c \in Bits : Toggled(b, c) \in Bits /\ Toggled(b, Toggled(b, c)) = c
  BY DEF Bits, Disabled, Stall, Nak, Valid, Toggled

\* A store that halts an endpoint as it was loaded silences it at least if
\* the endpoint has sent its packet since.
LEMMA SentMeanwhile ==
  ASSUME NEW ones \in Bits, Toggled(Valid, ones) \in {Stall, Disabled}
  PROVE  Toggled(Nak, ones) \in {Stall, Disabled}
  BY DEF Bits, Disabled, Stall, Nak, Valid, Toggled

\* A request is told by its kind and argument.
LEMMA RequestFacts ==
  /\ None \notin AnyRequest
  /\ \A p \in Phases : Requests[p] \subseteq AnyRequest
  /\ \A r \in AnyRequest :
       /\ r = Ask(r.kind, r.arg)
       /\ r.kind = "set_address" => r.arg \in Addresses /\ r.arg \notin Data
       /\ r.kind = "set_configuration" => r.arg \in {"0", "1"}
       /\ r.kind \in {"set_feature", "clear_feature"} => r.arg \in Data
       /\ r.kind = "get_status" => r.arg = "none"
       /\ r.kind \in {"set_address", "set_configuration", "set_feature",
                     "clear_feature", "get_status"}
<1>1. None \notin AnyRequest  BY NameAssumption
<1>2. \A p \in Phases : Requests[p] \subseteq AnyRequest  BY DEF AnyRequest
<1>3. ASSUME NEW r \in AnyRequest
      PROVE  \/ \E a \in Addresses : r = Ask("set_address", a)
             \/ r \in {GetStatus, Ask("set_configuration", "0"), Ask("set_configuration", "1")}
             \/ \E kind \in {"set_feature", "clear_feature"}, side \in Data
                  : r = Ask(kind, side)
  <2>1. PICK p \in Phases : r \in Requests[p]  BY DEF AnyRequest
  <2>2. p \in {"off", "suspended", "resumed", "default", "addressed", "configured"}
    BY DEF Phases, Requests
  <2> QED  BY <2>1, <2>2 DEF Requests
<1>4. Addresses \cap Data = {}  BY NameAssumption
<1> QED  BY <1>1, <1>2, <1>3, <1>4 DEF Ask, GetStatus, Data

-----------------------------------------------------------------------------
(* Types                                                                    *)

\* A reset of the bus, for whatever reason
LEMMA BusResets ==
  ASSUME Attach \/ SpuriousReset \/ GiveUp, TypeOK
  PROVE  BusReset /\ calm' \in 0..MaxDisturbances
<1>1. SpuriousReset => calm' \in 0..MaxDisturbances
  BY AddressAssumption DEF SpuriousReset, TypeOK
<1> QED  BY <1>1 DEF Attach, SpuriousReset, GiveUp, TypeOK

\* The phases of the host
LEMMA PhaseFacts ==
  Phases = {"off", "suspended", "resumed", "default", "addressed", "configured"}
  BY DEF Phases, Requests

\* The device starts in a state of the right types.
LEMMA TypeInit == Init => TypeOK
<1> SUFFICES ASSUME Init PROVE TypeOK
  OBVIOUS
<1>1. calm \in 0..MaxDisturbances  BY AddressAssumption DEF Init
<1>2. stat \in [Sides -> SUBSET {0, 1}]  BY BitFacts DEF Init, Bits
<1>3. host \in [phase: Phases, addr: Addresses \cup {0},
                asked: AnyRequest \cup {None}, halted: SUBSET Data]
  BY PhaseFacts DEF Init
<1>4. NoWrite \in [step: {"none", "load", "store"}, side: Sides,
                   to: SUBSET {0, 1}, ones: SUBSET {0, 1}]
  BY DEF NoWrite, Sides
<1> QED  BY <1>1, <1>2, <1>3, <1>4 DEF Init, TypeOK

\* The host asks for r.
HostAsks(r) ==
  /\ host.asked = None /\ Answers /\ flags = {}
  /\ stat.ctl_rx # Disabled /\ "ctl_rx" \notin done
  /\ stat' = [stat EXCEPT !.ctl_rx = Nak, !.ctl_tx = Nak]
  /\ done' = done \cup {"ctl_rx"}
  /\ request' = r
  /\ host' = [host EXCEPT !.asked = r,
                !.halted = IF r.kind = "clear_feature" THEN @ \ {r.arg} ELSE @]
  /\ UNCHANGED <<device, callback, ports, daddr, flags, pc, write, calm>>

\* Starting a write keeps its type.
LEMMA BeginType ==
  ASSUME NEW side \in Sides, NEW to \in Bits, Begin(side, to)
  PROVE  write' \in [step: {"none", "load", "store"}, side: Sides,
                    to: SUBSET {0, 1}, ones: SUBSET {0, 1}]
  BY DEF Begin, Bits

\* So does halting or releasing an endpoint.
LEMMA SetStallType ==
  ASSUME TypeOK, NEW kind, NEW side \in Sides, SetStall(kind, side)
  PROVE  write' \in [step: {"none", "load", "store"}, side: Sides,
                    to: SUBSET {0, 1}, ones: SUBSET {0, 1}]
<1>1. Wanted(kind, side) \in Bits  BY BitFacts DEF Wanted
<1> QED  BY <1>1, BeginType DEF SetStall, TypeOK

\* Every step of the main loop, the host and the bus keeps the types.
LEMMA TypeStep == ASSUME TypeOK, [Next]_vars PROVE TypeOK'
<1> USE BitFacts, PhaseFacts
<1>1. CASE ControlSent
  BY <1>1 DEF ControlSent, TypeOK, Go, Main, ports
<1>2. CASE ServeSetup
  <2>1. write' \in [step: {"none", "load", "store"}, side: Sides,
                    to: SUBSET {0, 1}, ones: SUBSET {0, 1}]
    BY <1>2, BeginType DEF ServeSetup, Sides
  <2> QED  BY <1>2, <2>1 DEF ServeSetup, TypeOK, Go, Main, ports
<1>3. CASE Execute
  <2>1. request \in AnyRequest  BY <1>3 DEF Execute, Go, TypeOK
  <2>2. write' \in [step: {"none", "load", "store"}, side: Sides,
                    to: SUBSET {0, 1}, ones: SUBSET {0, 1}]
    <3>1. CASE UNCHANGED write  BY <3>1 DEF TypeOK
    <3>2. CASE request.kind \in {"set_feature", "clear_feature"}
               /\ SetStall(request.kind, request.arg)
      BY <2>1, <3>2, RequestFacts, SetStallType DEF Sides
    <3> QED  BY <1>3, <3>1, <3>2 DEF Execute
  <2>3. /\ device' \in [state: {"reset", "address_set", "configured"},
                         address: Addresses \cup {0}, configuration: {0, 1}]
        /\ daddr' = daddr /\ {callback', enabled'} \subseteq BOOLEAN
    <3>1. CASE request.kind = "set_address" /\ SetAddress(request.arg)
      <4>1. request.arg \in Addresses  BY <2>1, <3>1, RequestFacts
      <4> QED  BY <3>1, <4>1 DEF SetAddress, TypeOK
    <3>2. CASE SetConfiguration
      BY <3>2 DEF SetConfiguration, TypeOK
    <3>3. CASE UNCHANGED <<device, callback, daddr, enabled>>
      BY <3>3 DEF TypeOK
    <3> QED  BY <1>3, <3>1, <3>2, <3>3 DEF Execute
  <2>4. pc' = "reply" /\ UNCHANGED <<pending, flags, ep, request, host, calm>>
    BY <1>3 DEF Execute, Go, Main
  <2> QED  BY <2>2, <2>3, <2>4 DEF TypeOK, ep
<1>4. CASE Refuse
  <2>1. write' \in [step: {"none", "load", "store"}, side: Sides,
                    to: SUBSET {0, 1}, ones: SUBSET {0, 1}]
    BY <1>4, SetStallType DEF Refuse, Sides
  <2>2. pc' \in {"refuse", "poll"}  BY <1>4 DEF Refuse, Go
  <2> QED  BY <1>4, <2>1, <2>2 DEF Refuse, TypeOK, Main, ports, ep
<1>5. CASE Reply
  <2>1. write' \in [step: {"none", "load", "store"}, side: Sides,
                    to: SUBSET {0, 1}, ones: SUBSET {0, 1}]
    BY <1>5, BeginType DEF Reply, Sides
  <2> QED  BY <1>5, <2>1 DEF Reply, TypeOK, Go, Main, ports, ep
<1>6. CASE ServeData
  <2>1. write' \in [step: {"none", "load", "store"}, side: Sides,
                    to: SUBSET {0, 1}, ones: SUBSET {0, 1}]
    BY <1>6, BeginType DEF ServeData, Sides, Data, TypeOK
  <2>2. pending' \in BOOLEAN /\ pc' = "poll" /\ done' = {}
    BY <1>6 DEF ServeData, Go, TypeOK
  <2> QED  BY <1>6, <2>1, <2>2 DEF ServeData, TypeOK, Main
<1>7. CASE ServeReset
  BY <1>7 DEF ServeReset, TypeOK, PortsReset, Cleared, Go, Main, Bits
<1>8. CASE ServeSuspend
  BY <1>8 DEF ServeSuspend, TypeOK, Go, Main, ports, ep
<1>9. CASE ServeOther
  BY <1>9 DEF ServeOther, TypeOK, Go, Main, ports, ep
<1>10. CASE PollTest
  <2>1. write' \in [step: {"none", "load", "store"}, side: Sides,
                    to: SUBSET {0, 1}, ones: SUBSET {0, 1}]
    BY <1>10, BeginType DEF PollTest, Sides, Data, TypeOK
  <2> QED  BY <1>10, <2>1 DEF PollTest, TypeOK, Go, Main, ports, ep
<1>11. CASE PollDeferred
  <2>1. write' \in [step: {"none", "load", "store"}, side: Sides,
                    to: SUBSET {0, 1}, ones: SUBSET {0, 1}]
    BY <1>11, BeginType DEF PollDeferred, Sides, Data, TypeOK
  <2>2. pending' \in BOOLEAN /\ pc' = "event"  BY <1>11 DEF PollDeferred, Go, TypeOK
  <2> QED  BY <1>11, <2>1, <2>2 DEF PollDeferred, TypeOK, Main, ep
<1>12. CASE Load
  <2>1. Toggled(stat[write.side], write.to) \in Bits  BY DEF TypeOK, Bits
  <2> QED  BY <1>12, <2>1 DEF Load, TypeOK, Main, ports, ep, Bits
<1>13. CASE Store
  <2>1. stat' \in [Sides -> SUBSET {0, 1}]
    BY <1>13 DEF Store, TypeOK, Bits
  <2>2. NoWrite \in [step: {"none", "load", "store"}, side: Sides,
                     to: SUBSET {0, 1}, ones: SUBSET {0, 1}]
    BY DEF NoWrite, Sides
  <2> QED  BY <1>13, <2>1, <2>2 DEF Store, TypeOK, Main, ports
<1>14. CASE Asking
  <2>1. PICK r \in Requests[host.phase] : HostAsks(r)
    BY <1>14 DEF Asking, HostSetup, HostAsks
  <2>2. r \in AnyRequest  BY <2>1, RequestFacts DEF TypeOK
  <2>3. host' \in [phase: Phases, addr: Addresses \cup {0},
                  asked: AnyRequest \cup {None}, halted: SUBSET Data]
    BY <2>1, <2>2 DEF HostAsks, TypeOK
  <2>4. stat' \in [Sides -> SUBSET {0, 1}]  BY <2>1 DEF HostAsks, TypeOK, Bits
  <2> QED  BY <2>1, <2>2, <2>3, <2>4, RequestFacts
    DEF HostAsks, TypeOK, ports, Sides
<1>15. CASE HostCollects
  <2>1. host.asked \in AnyRequest  BY <1>15 DEF HostCollects, TypeOK
  <2>2. /\ host.asked.kind = "set_address" => host.asked.arg \in Addresses
        /\ host.asked.kind = "set_feature" => host.asked.arg \in Data
    BY <2>1, RequestFacts
  <2>3. host' \in [phase: Phases, addr: Addresses \cup {0},
                  asked: AnyRequest \cup {None}, halted: SUBSET Data]
    BY <1>15, <2>2 DEF HostCollects, AfterRequest, TypeOK
  <2>4. stat' \in [Sides -> SUBSET {0, 1}]  BY <1>15 DEF HostCollects, TypeOK, Bits
  <2> QED  BY <1>15, <2>3, <2>4 DEF HostCollects, TypeOK, Software, ports, Sides
<1>16. CASE HostSeesStall
  BY <1>16 DEF HostSeesStall, TypeOK, Software, ports, ep
<1>17. CASE HostSends
  BY <1>17 DEF HostSends, TypeOK, Software, ports, Bits, Sides, Data
<1>18. CASE HostReads
  BY <1>18 DEF HostReads, TypeOK, Software, ports, Bits
<1>19. CASE Suspend
  <2>1. calm' \in 0..MaxDisturbances  BY <1>19, AddressAssumption
    DEF Suspend, TypeOK
  <2>2. host' \in [phase: Phases, addr: Addresses \cup {0},
                  asked: AnyRequest \cup {None}, halted: SUBSET Data]
    BY <1>19 DEF Suspend, TypeOK
  <2> QED  BY <1>19, <2>1, <2>2 DEF Suspend, TypeOK, Software, ports, ep
<1>20. CASE Resume
  BY <1>20 DEF Resume, TypeOK, Software, ports, ep
<1>21. CASE Attach \/ SpuriousReset \/ GiveUp
  <2>1. BusReset /\ calm' \in 0..MaxDisturbances  BY <1>21, BusResets
  <2>2. stat' \in [Sides -> SUBSET {0, 1}]  BY <2>1 DEF BusReset, Bits
  <2>3. host' \in [phase: Phases, addr: Addresses \cup {0},
                  asked: AnyRequest \cup {None}, halted: SUBSET Data]
    BY <2>1 DEF BusReset
  <2> QED  BY <2>1, <2>2, <2>3 DEF BusReset, TypeOK, Software, ports
<1>22. CASE UNCHANGED vars
  BY <1>22 DEF TypeOK, vars, ports, ep
<1> QED
  BY <1>1, <1>2, <1>3, <1>4, <1>5, <1>6, <1>7, <1>8, <1>9, <1>10, <1>11, <1>12,
     <1>13, <1>14, <1>15, <1>16, <1>17, <1>18, <1>19, <1>20, <1>21, <1>22
  DEF Next, MainLoop, HostAnswered, Bus

\* Every variable keeps its type, the STAT bits under every toggling write of
\* usb_io.c among them.
THEOREM TypeCorrect == Spec => []TypeOK
<1> QED  BY TypeInit, TypeStep, PTL DEF Spec

-----------------------------------------------------------------------------
(* The write in progress and the request the host waits for                *)

\* The bus was reset, and the main loop has not seen it.
ResetPending == "RESET" \in flags

Enable  == Ask("set_configuration", "1")
Disable == Ask("set_configuration", "0")
Halt    == Ask("set_feature", "data_tx")
Release == Ask("clear_feature", "data_tx")

\* What the main loop makes of the sending side of endpoint 0 in answer to r
Answer(r) == IF r = Disable THEN Stall ELSE Valid

\* Which write is in progress is told by where the main loop is; those of
\* endpoint 0 store what they were to store unless the bus is reset.
WriteInv ==
  /\ pc = "refuse" => request = Disable
  /\ pc = "reply" => request # Disable
  /\ write.step # "none" =>
       \/ write.side = "ctl_rx" /\ pc = "execute" /\ write.to = Valid
       \/ write.side = "ctl_rx" /\ pc = "refuse" /\ write.to = Stall
       \/ write.side = "ctl_tx" /\ pc = "poll" /\ write.to = Answer(request)
       \/ write.side = "data_tx" /\ pc = "deferred"
       \/ write.side = "data_tx" /\ pc = "reply"
          /\ request \in {Halt, Release} /\ write.to = Wanted(request.kind, "data_tx")
       \/ write.side = "data_rx"
  /\ ~ResetPending /\ write.step = "store" /\ write.side \notin Data
       => Toggled(stat[write.side], write.ones) = write.to

\* The host waits for the answer to a request the main loop has read.
Read == host.asked # None /\ "ctl_rx" \notin done

\* The main loop is not done with the request it has read.
Serving ==
  \/ pc \in {"execute", "refuse", "reply"}
  \/ write.step # "none" /\ write.side = "ctl_tx"

\* The request being served is the one the host waits for, but for a SETUP
\* packet that a reset of the bus has overtaken.
RequestInv ==
  /\ ResetPending => host.phase = "default" /\ host.asked = None
                     /\ host.halted = {} /\ host.addr = 0
  /\ ~ResetPending /\ "ctl_rx" \in done => host.asked = request /\ stat.ctl_tx = Nak
  /\ ~ResetPending /\ Serving => host.asked = request /\ Read /\ stat.ctl_tx = Nak
  /\ host.asked # None => /\ host.asked = request /\ host.asked \in Requests[host.phase]
                          /\ stat.ctl_rx # Disabled
                          /\ stat.ctl_tx \in {Nak, Answer(request)}

\* The request the host waits for has been carried out.
Executed == Read /\ pc # "execute"

\* No request is the absence of one.
LEMMA NoneFacts ==
  None \notin {Halt, Release, Enable, Disable} /\ Halt # Release
<1>1. {Halt, Release, Enable, Disable} \subseteq AnyRequest
  BY PhaseFacts DEF AnyRequest, Requests, Data, Halt, Release, Enable, Disable
<1>2. Halt # Release  BY DEF Halt, Release, Ask
<1> QED  BY <1>1, <1>2, RequestFacts

\* What a request makes of the device, and the write it starts
LEMMA Executes ==
  ASSUME TypeOK, Execute
  PROVE  /\ request \in AnyRequest /\ request # Disable /\ write.step = "none"
         /\ pc = "execute" /\ pc' = "reply"
         /\ UNCHANGED <<pending, flags, ep, request, host, calm>>
         /\ \/ write' = write
            \/ /\ request.kind \in {"set_feature", "clear_feature"} /\ request.arg \in Data
               /\ Begin(request.arg, Wanted(request.kind, request.arg))
         /\ request = Halt /\ write' = write => stat.data_tx = Disabled
<1>1. request \in AnyRequest  BY DEF Execute, Go, TypeOK
<1>2. write.step = "none" /\ pc = "execute" /\ pc' = "reply"
      /\ UNCHANGED <<pending, flags, ep, request, host, calm>>
  BY DEF Execute, Go, Main
<1>3. CASE request.kind = "set_address" /\ UNCHANGED write
  BY <1>1, <1>2, <1>3 DEF Halt, Disable, Ask
<1>4. CASE request = Ask("set_configuration", "1") /\ UNCHANGED write
  BY <1>1, <1>2, <1>4 DEF Halt, Disable, Ask
<1>5. CASE request = GetStatus /\ UNCHANGED write
  BY <1>1, <1>2, <1>5 DEF Halt, Disable, GetStatus, Ask
<1>6. CASE request.kind \in {"set_feature", "clear_feature"}
           /\ SetStall(request.kind, request.arg)
  <2>1. request.arg \in Data /\ request # Disable
    BY <1>1, <1>6, RequestFacts DEF Disable, Ask
  <2>2. \/ write' = write /\ stat[request.arg] = Disabled
        \/ Begin(request.arg, Wanted(request.kind, request.arg))
           /\ stat[request.arg] # Disabled
    BY <1>6 DEF SetStall
  <2>3. request = Halt => request.arg = "data_tx" /\ request.kind = "set_feature"
    BY DEF Halt, Ask
  <2>4. CASE write' = write /\ stat[request.arg] = Disabled
    BY <1>1, <1>2, <2>1, <2>3, <2>4
  <2>5. CASE Begin(request.arg, Wanted(request.kind, request.arg))
             /\ stat[request.arg] # Disabled
    <3>1. write'.step = "load"  BY <2>5 DEF Begin
    <3>2. write' # write  BY <1>2, <3>1
    <3> QED  BY <1>1, <1>2, <1>6, <2>1, <2>5, <3>2
  <2> QED  BY <2>2, <2>4, <2>5
<1> QED  BY <1>3, <1>4, <1>5, <1>6 DEF Execute

\* Every step keeps WriteInv.
LEMMA WriteStep ==
  ASSUME TypeOK, WriteInv, RequestInv, [Next]_vars
  PROVE  WriteInv'
<1> USE BitFacts
<1>1. CASE ControlSent
  BY <1>1 DEF ControlSent, Go, Main, ports, WriteInv, ResetPending
<1>2. CASE ServeSetup
  BY <1>2 DEF ServeSetup, Begin, Go, Main, ports, WriteInv, ResetPending
<1>3. CASE Execute
  <2>1. request.kind \in {"set_feature", "clear_feature"} /\ request.arg = "data_tx"
          => request \in {Halt, Release}
    BY <1>3, Executes, RequestFacts DEF Halt, Release
  <2>2. CASE write' = write
    BY <1>3, <2>2, Executes DEF WriteInv, ep
  <2>3. CASE /\ request.kind \in {"set_feature", "clear_feature"} /\ request.arg \in Data
             /\ Begin(request.arg, Wanted(request.kind, request.arg))
    BY <1>3, <2>1, <2>3, Executes DEF WriteInv, Begin, Data
  <2> QED  BY <1>3, <2>2, <2>3, Executes
<1>4. CASE Refuse
  BY <1>4 DEF Refuse, SetStall, Begin, Wanted, Go, Main, ports, ep, WriteInv,
      ResetPending, Answer, Disable
<1>5. CASE Reply
  BY <1>5 DEF Reply, Begin, Go, Main, ports, ep, WriteInv, ResetPending, Answer
<1>6. CASE ServeData
  BY <1>6 DEF ServeData, Begin, Go, Main, WriteInv, ResetPending
<1>7. CASE ServeReset
  BY <1>7 DEF ServeReset, PortsReset, Cleared, Go, Main, WriteInv,
      ResetPending
<1>8. CASE ServeSuspend
  BY <1>8 DEF ServeSuspend, Go, Main, ep, WriteInv, ResetPending
<1>9. CASE ServeOther
  BY <1>9 DEF ServeOther, Go, Main, ports, ep, WriteInv, ResetPending
<1>10. CASE PollTest
  BY <1>10 DEF PollTest, Begin, Go, Main, ports, ep, WriteInv, ResetPending
<1>11. CASE PollDeferred
  BY <1>11 DEF PollDeferred, Begin, Go, Main, ep, WriteInv, ResetPending
<1>12. CASE Load
  <2>1. /\ UNCHANGED <<request, pc, stat, flags>>
        /\ write'.side = write.side /\ write'.to = write.to /\ write'.step = "store"
        /\ write'.ones = Toggled(stat[write.side], write.to)
    BY <1>12 DEF Load, TypeOK, ep
  <2>2. stat[write.side] \in Bits /\ write.to \in Bits  BY DEF TypeOK, Bits
  <2> QED  BY <1>12, <2>1, <2>2 DEF Load, WriteInv
<1>13. CASE Store
  BY <1>13 DEF Store, NoWrite, Main, ports, WriteInv, ResetPending
<1>14. CASE Asking
  <2>1. PICK r \in Requests[host.phase] : HostAsks(r)
    BY <1>14 DEF Asking, HostSetup, HostAsks
  <2>2. ~Serving  BY <2>1 DEF HostAsks, RequestInv, Read, ResetPending
  <2>3. \/ write.step = "none"
        \/ write.side = "data_tx" /\ pc = "deferred"
        \/ write.side = "data_rx"
    BY <2>2 DEF WriteInv, Serving
  <2> QED  BY <2>1, <2>2, <2>3 DEF HostAsks, WriteInv, Serving, Data
<1>15. CASE HostCollects
  <2>1. ~Serving
    BY <1>15 DEF HostCollects, RequestInv, ResetPending
  <2>2. write.step # "none" => write.side \in Data
    BY <2>1 DEF WriteInv, Serving, Data
  <2> QED  BY <1>15, <2>2 DEF HostCollects, Software, WriteInv, ResetPending
<1>16. CASE HostSeesStall
  BY <1>16 DEF HostSeesStall, Software, ports, ep, WriteInv, ResetPending
<1>17. CASE HostSends
  BY <1>17 DEF HostSends, Software, WriteInv, ResetPending, Data, TypeOK, Sides
<1>18. CASE HostReads
  BY <1>18 DEF HostReads, Software, WriteInv, ResetPending, Data, TypeOK, Sides
<1>19. CASE Suspend
  BY <1>19 DEF Suspend, Software, ports, ep, WriteInv, ResetPending
<1>20. CASE Resume
  BY <1>20 DEF Resume, Software, ports, ep, WriteInv, ResetPending
<1>21. CASE Attach \/ SpuriousReset \/ GiveUp
  BY <1>21, BusResets DEF BusReset, Software, ports, WriteInv, ResetPending
<1>22. CASE UNCHANGED vars
  BY <1>22 DEF vars, ports, ep, WriteInv, ResetPending
<1> QED
  BY <1>1, <1>2, <1>3, <1>4, <1>5, <1>6, <1>7, <1>8, <1>9, <1>10, <1>11, <1>12,
     <1>13, <1>14, <1>15, <1>16, <1>17, <1>18, <1>19, <1>20, <1>21, <1>22
  DEF Next, MainLoop, HostAnswered, Bus

\* What a store makes of endpoint 0 while the host waits
LEMMA Stored ==
  ASSUME TypeOK, WriteInv, Store
  PROVE  /\ UNCHANGED <<device, callback, ports, daddr, flags, done, request, pc, host, calm>>
         /\ write.step = "store" /\ write'.step = "none"
         /\ \A side \in Sides :
              stat'[side] = IF side = write.side THEN Toggled(stat[side], write.ones)
                                                 ELSE stat[side]
<1> QED  BY DEF Store, NoWrite, Main, TypeOK

\* Every step keeps RequestInv.
LEMMA RequestStep ==
  ASSUME TypeOK, WriteInv, RequestInv, [Next]_vars
  PROVE  RequestInv'
<1> USE BitFacts
<1>1. CASE ControlSent
  BY <1>1 DEF ControlSent, Go, Main, ports, RequestInv, ResetPending,
      Serving, Read
<1>2. CASE ServeSetup
  BY <1>2 DEF ServeSetup, Begin, Go, Main, RequestInv, ResetPending, Serving, Read, TypeOK
<1>3. CASE Execute
  <2>1. write'.step # "none" => write'.side # "ctl_tx"
    BY <1>3, Executes DEF Begin, Data
  <2> QED  BY <1>3, <2>1, Executes DEF RequestInv, ResetPending, Serving, Read, ep
<1>4. CASE Refuse
  <2>1. pc \in {"execute", "refuse"}  BY <1>4 DEF Refuse, Go
  <2> QED  BY <1>4, <2>1
    DEF Refuse, Main, ep, RequestInv, ResetPending, Serving, Read
<1>5. CASE Reply
  <2>1. pc = "reply"  BY <1>5 DEF Reply, Go
  <2> QED  BY <1>5, <2>1 DEF Reply, Main, ep, RequestInv, ResetPending, Serving, Read
<1>6. CASE ServeData
  <2>1. ~Serving'
    BY <1>6 DEF ServeData, Begin, Go, Serving
  <2> QED  BY <1>6, <2>1 DEF ServeData, Main, RequestInv, ResetPending
<1>7. CASE ServeReset
  <2>1. ~Serving' /\ done' = {} /\ ResetPending /\ host' = host /\ ~ResetPending'
    BY <1>7 DEF ServeReset, Go, Main, Serving, ResetPending
  <2> QED  BY <2>1 DEF RequestInv, ResetPending
<1>8. CASE ServeSuspend
  BY <1>8 DEF ServeSuspend, Go, Main, ep, RequestInv, ResetPending, Serving,
      Read
<1>9. CASE ServeOther
  BY <1>9 DEF ServeOther, Go, Main, ports, ep, RequestInv, ResetPending,
      Serving, Read
<1>10. CASE PollTest
  <2>1. ~Serving'
    BY <1>10 DEF PollTest, Begin, Go, Serving
  <2> QED  BY <1>10, <2>1 DEF PollTest, Main, ep, RequestInv, ResetPending
<1>11. CASE PollDeferred
  <2>1. ~Serving'
    BY <1>11 DEF PollDeferred, Begin, Go, Serving
  <2> QED  BY <1>11, <2>1 DEF PollDeferred, Main, ep, RequestInv, ResetPending
<1>12. CASE Load
  <2>1. /\ UNCHANGED <<request, pc, stat, done, flags, host>>
        /\ write'.side = write.side /\ write.step # "none"
    BY <1>12 DEF Load, TypeOK, ep, Main
  <2> QED  BY <2>1 DEF RequestInv, ResetPending, Serving, Read
<1>13. CASE Store
  <2>1. CASE write.side \in Data
    <3>1. stat'.ctl_rx = stat.ctl_rx /\ stat'.ctl_tx = stat.ctl_tx
      BY <1>13, <2>1, Stored DEF Sides, Data
    <3> QED  BY <1>13, <2>1, <3>1, Stored DEF RequestInv, ResetPending, Serving, Read
  <2>2. CASE ResetPending
    BY <1>13, <2>2, Stored DEF RequestInv, ResetPending
  <2>3. CASE write.side = "ctl_rx" /\ ~ResetPending
    <3>1. stat'.ctl_rx = write.to /\ stat'.ctl_tx = stat.ctl_tx
      BY <1>13, <2>3, Stored DEF Sides, WriteInv, Data
    <3>2. write.to # Disabled
      BY <1>13, <2>3, Stored DEF WriteInv
    <3> QED  BY <1>13, <2>3, <3>1, <3>2, Stored DEF RequestInv, ResetPending, Serving, Read
  <2>4. CASE write.side = "ctl_tx" /\ ~ResetPending
    <3>1. stat'.ctl_tx = Answer(request) /\ stat'.ctl_rx = stat.ctl_rx /\ pc = "poll"
      BY <1>13, <2>4, Stored DEF Sides, WriteInv, Data
    <3>2. Serving  BY <1>13, <2>4, Stored DEF Serving
    <3> QED  BY <1>13, <2>4, <3>1, <3>2, Stored DEF RequestInv, ResetPending, Serving, Read
  <2>5. write.side \in Data \cup {"ctl_rx", "ctl_tx"}  BY DEF TypeOK, Sides
  <2> QED  BY <2>1, <2>2, <2>3, <2>4, <2>5
<1>14. CASE Asking
  <2>1. PICK r \in Requests[host.phase] : HostAsks(r)
    BY <1>14 DEF Asking, HostSetup, HostAsks
  <2>2. ~Serving /\ ~Serving'
    BY <2>1 DEF HostAsks, RequestInv, Read, ResetPending, Serving
  <2>3. stat' = [stat EXCEPT !.ctl_rx = Nak, !.ctl_tx = Nak] /\ host'.phase = host.phase
        /\ host'.asked = r /\ request' = r /\ ~ResetPending'
    BY <2>1 DEF HostAsks, ResetPending
  <2>4. stat'.ctl_rx = Nak /\ stat'.ctl_tx = Nak  BY <2>3 DEF TypeOK, Sides
  <2> QED  BY <2>1, <2>2, <2>3, <2>4 DEF RequestInv
<1>15. CASE HostCollects
  <2>1. ~Serving /\ "ctl_rx" \notin done /\ ~ResetPending
    BY <1>15 DEF HostCollects, RequestInv, ResetPending
  <2>2. ~Serving'  BY <1>15, <2>1 DEF HostCollects, Software, Serving
  <2>3. host'.asked = None /\ "ctl_rx" \notin done' /\ ~ResetPending'
    BY <1>15, <2>1 DEF HostCollects, AfterRequest, ResetPending
  <2> QED  BY <2>2, <2>3 DEF RequestInv
<1>16. CASE HostSeesStall
  <2>1. ~Serving /\ "ctl_rx" \notin done /\ ~ResetPending
    BY <1>16 DEF HostSeesStall, RequestInv, ResetPending
  <2>2. ~Serving'  BY <1>16, <2>1 DEF HostSeesStall, Software, Serving
  <2>3. host'.asked = None /\ "ctl_rx" \notin done' /\ ~ResetPending'
    BY <1>16, <2>1 DEF HostSeesStall, ep, ResetPending
  <2> QED  BY <2>2, <2>3 DEF RequestInv
<1>17. CASE HostSends
  <2>1. stat'.ctl_rx = stat.ctl_rx /\ stat'.ctl_tx = stat.ctl_tx
    BY <1>17 DEF HostSends, TypeOK, Sides
  <2> QED  BY <1>17, <2>1
    DEF HostSends, Software, RequestInv, ResetPending, Serving, Read
<1>18. CASE HostReads
  <2>1. stat'.ctl_rx = stat.ctl_rx /\ stat'.ctl_tx = stat.ctl_tx
    BY <1>18 DEF HostReads, TypeOK, Sides
  <2> QED  BY <1>18, <2>1
    DEF HostReads, Software, RequestInv, ResetPending, Serving, Read
<1>19. CASE Suspend
  BY <1>19 DEF Suspend, Software, ports, ep, RequestInv, ResetPending,
      Serving, Read
<1>20. CASE Resume
  <2>1. host.asked = None  BY <1>20 DEF Resume, RequestInv, Requests
  <2> QED  BY <1>20, <2>1
    DEF Resume, Software, ports, ep, RequestInv, ResetPending, Serving, Read
<1>21. CASE Attach \/ SpuriousReset \/ GiveUp
  BY <1>21, BusResets DEF BusReset, Software, ports, RequestInv,
      ResetPending, Serving, Read
<1>22. CASE UNCHANGED vars
  BY <1>22 DEF vars, ports, ep, RequestInv, ResetPending, Serving, Read
<1> QED
  BY <1>1, <1>2, <1>3, <1>4, <1>5, <1>6, <1>7, <1>8, <1>9, <1>10, <1>11, <1>12,
     <1>13, <1>14, <1>15, <1>16, <1>17, <1>18, <1>19, <1>20, <1>21, <1>22
  DEF Next, MainLoop, HostAnswered, Bus

-----------------------------------------------------------------------------
(* The halted endpoint                                                     *)

\* Nothing is sent, and no write under way changes that.
Silent ==
  /\ stat.data_tx \in {Stall, Disabled}
  /\ write.step = "none" \/ write.side # "data_tx"

\* The write of a SET_FEATURE, which leaves STALL, or DISABLED if the endpoint
\* has sent its packet since the register was loaded
Halting ==
  /\ write.step # "none" /\ write.side = "data_tx" /\ pc = "reply" /\ request = Halt
  /\ write.step = "store" => Toggled(stat.data_tx, write.ones) \in {Stall, Disabled}

HaltInv ==
  /\ Executed /\ host.asked = Halt => Silent \/ Halting
  /\ host.asked = Release => "data_tx" \notin host.halted
  /\ "data_tx" \in host.halted =>
       Silent \/ (Halting /\ stat.data_tx \in {Stall, Disabled})

\* Steps that leave the sending side and its writes alone
LEMMA HaltFrame ==
  ASSUME HaltInv, UNCHANGED <<request, host>>,
         stat'.data_tx = stat.data_tx, Executed' => Executed,
         write' = write \/ (write.step = "none" /\ write'.side # "data_tx"),
         pc' = pc \/ write.step = "none"
  PROVE  HaltInv'
<1>1. Silent => Silent'  BY DEF Silent
<1>2. Halting => write' = write /\ pc' = pc  BY DEF Halting
<1>3. Halting => Halting'  BY <1>2 DEF Halting
<1> QED  BY <1>1, <1>3 DEF HaltInv

\* Every step keeps HaltInv.
LEMMA HaltStep ==
  ASSUME TypeOK, WriteInv, RequestInv, HaltInv, [Next]_vars
  PROVE  HaltInv'
<1> USE BitFacts
<1>1. CASE ControlSent
  <2>1. /\ UNCHANGED <<request, host>> /\ stat'.data_tx = stat.data_tx
        /\ Executed' => Executed
        /\ write' = write \/ (write.step = "none" /\ write'.side # "data_tx")
        /\ pc' = pc \/ write.step = "none"
    BY <1>1 DEF ControlSent, Go, Main, ports, Executed, Read
  <2> QED  BY <2>1, HaltFrame
<1>2. CASE ServeSetup
  <2>1. /\ UNCHANGED <<request, host>> /\ stat'.data_tx = stat.data_tx
        /\ Executed' => Executed
        /\ write' = write \/ (write.step = "none" /\ write'.side # "data_tx")
        /\ pc' = pc \/ write.step = "none"
    BY <1>2 DEF ServeSetup, Begin, Go, Main, ports, Executed, Read
  <2> QED  BY <2>1, HaltFrame
<1>3. CASE Execute
  <2>1. CASE ResetPending
    <3>1. host.asked = None /\ host.halted = {}  BY <2>1 DEF RequestInv
    <3> QED  BY <1>3, <3>1, Executes, NoneFacts DEF HaltInv, Executed, Read
  <2>2. CASE ~ResetPending
    <3>1. host.asked = request
      BY <1>3, <2>2, Executes DEF RequestInv, Serving
    <3>2. request = Halt \/ request.arg # "data_tx" \/ request = Release
      BY <1>3, Executes, RequestFacts DEF Halt, Release, Data
    <3>3. ~Halting /\ (Silent => stat.data_tx \in {Stall, Disabled})
          /\ stat' = stat /\ host' = host /\ request' = request
      BY <1>3, Executes DEF Halting, Silent, ep
    <3>4. CASE write' = write
      <4>1. (Silent \/ stat.data_tx = Disabled) => Silent'
        BY <1>3, <3>3, <3>4, Executes DEF Silent
      <4> QED  BY <1>3, <3>1, <3>3, <3>4, <4>1, Executes DEF HaltInv
    <3>5. CASE /\ request.kind \in {"set_feature", "clear_feature"} /\ request.arg \in Data
               /\ Begin(request.arg, Wanted(request.kind, request.arg))
      <4>1. write'.step = "load" /\ write'.side = request.arg  BY <3>5 DEF Begin
      <4>2. CASE request = Halt
        <5>1. Halting' /\ host.asked # Release
          BY <1>3, <3>1, <3>3, <4>1, <4>2, Executes, NoneFacts DEF Halting, Halt, Ask
        <5> QED  BY <3>3, <4>2, <5>1 DEF HaltInv
      <4>3. CASE request = Release
        BY <3>1, <3>3, <4>3, NoneFacts DEF HaltInv
      <4>4. CASE request.arg # "data_tx"
        <5>1. Silent => Silent'  BY <3>3, <4>1, <4>4 DEF Silent
        <5>2. host.asked # Halt  BY <3>1, <4>4 DEF Halt, Ask
        <5> QED  BY <3>1, <3>3, <5>1, <5>2 DEF HaltInv
      <4> QED  BY <3>2, <4>2, <4>3, <4>4
    <3> QED  BY <1>3, <3>4, <3>5, Executes
  <2> QED  BY <2>1, <2>2
<1>4. CASE Refuse
  <2>1. /\ UNCHANGED <<request, host>> /\ stat'.data_tx = stat.data_tx
        /\ Executed' => Executed \/ host.asked = Disable
        /\ write' = write \/ (write.step = "none" /\ write'.side # "data_tx")
        /\ pc' = pc \/ write.step = "none"
    BY <1>4 DEF Refuse, SetStall, Begin, Go, Main, ports, ep, Executed, Read,
       RequestInv, Disable
  <2>2. CASE host.asked = Disable
    <3>1. Disable \notin {Halt, Release}  BY DEF Disable, Halt, Release, Ask
    <3>2. Silent => Silent'  BY <2>1 DEF Silent
    <3>3. ~Halting  BY <1>4 DEF Refuse, Go, Halting
    <3> QED  BY <2>1, <2>2, <3>1, <3>2, <3>3 DEF HaltInv
  <2> QED  BY <2>1, <2>2, HaltFrame
<1>5. CASE Reply
  <2>1. /\ UNCHANGED <<request, host>> /\ stat'.data_tx = stat.data_tx
        /\ Executed' => Executed
        /\ write' = write \/ (write.step = "none" /\ write'.side # "data_tx")
        /\ pc' = pc \/ write.step = "none"
    BY <1>5 DEF Reply, Begin, Go, Main, ports, ep, Executed, Read
  <2> QED  BY <2>1, HaltFrame
<1>6. CASE ServeData
  <2>1. /\ UNCHANGED <<request, host>> /\ stat'.data_tx = stat.data_tx
        /\ Executed' => Executed
        /\ write' = write \/ (write.step = "none" /\ write'.side # "data_tx")
        /\ pc' = pc \/ write.step = "none"
    BY <1>6 DEF ServeData, Begin, Go, Main, Executed, Read
  <2> QED  BY <2>1, HaltFrame
<1>7. CASE ServeReset
  <2>1. host.asked = None /\ host.halted = {}
    BY <1>7 DEF ServeReset, RequestInv, ResetPending
  <2>2. host' = host  BY <1>7 DEF ServeReset, Main
  <2> QED  BY <2>1, <2>2, NoneFacts DEF HaltInv, Executed, Read
<1>8. CASE ServeSuspend
  <2>1. /\ UNCHANGED <<request, host>> /\ stat'.data_tx = stat.data_tx
        /\ Executed' => Executed
        /\ write' = write \/ (write.step = "none" /\ write'.side # "data_tx")
        /\ pc' = pc \/ write.step = "none"
    BY <1>8 DEF ServeSuspend, Go, Main, ep, Executed, Read
  <2> QED  BY <2>1, HaltFrame
<1>9. CASE ServeOther
  <2>1. /\ UNCHANGED <<request, host>> /\ stat'.data_tx = stat.data_tx
        /\ Executed' => Executed
        /\ write' = write \/ (write.step = "none" /\ write'.side # "data_tx")
        /\ pc' = pc \/ write.step = "none"
    BY <1>9 DEF ServeOther, Go, Main, ports, ep, Executed, Read
  <2> QED  BY <2>1, HaltFrame
<1>10. CASE PollTest
  <2>1. /\ UNCHANGED <<request, host, stat, done>>
        /\ Executed' => Executed
        /\ write.step = "none" /\ pc' # "execute"
    BY <1>10 DEF PollTest, Go, Main, ep, Executed, Read
  <2>2. CASE SpaceAvailable
    <3>1. ~Silent /\ ~Halting  BY <2>1, <2>2 DEF SpaceAvailable, Silent, Halting
    <3> QED  BY <2>1, <3>1 DEF HaltInv
  <2>3. CASE UNCHANGED write
    BY <2>1, <2>3, HaltFrame
  <2> QED  BY <1>10, <2>2, <2>3 DEF PollTest
<1>11. CASE PollDeferred
  <2>1. /\ UNCHANGED <<request, host>> /\ stat'.data_tx = stat.data_tx
        /\ Executed' => Executed
        /\ write' = write \/ (write.step = "none" /\ write'.side # "data_tx")
        /\ pc' = pc \/ write.step = "none"
    BY <1>11 DEF PollDeferred, Begin, Go, Main, ep, Executed, Read
  <2> QED  BY <2>1, HaltFrame
<1>12. CASE Load
  <2>1. /\ UNCHANGED <<request, pc, stat, done, host>>
        /\ write.step = "load" /\ write'.side = write.side /\ write'.step = "store"
        /\ write'.ones = Toggled(stat[write.side], write.to)
    BY <1>12 DEF Load, TypeOK, ep, Main
  <2>2. Silent => Silent'  BY <2>1 DEF Silent
  <2>3. Halting => Halting'
    <3> SUFFICES ASSUME Halting PROVE Halting'
      OBVIOUS
    <3>1. write.to = Stall
      BY <2>1, NoneFacts DEF Halting, WriteInv, Wanted, Halt, Ask
    <3>2. stat.data_tx \in Bits  BY DEF TypeOK, Sides, Data, Bits
    <3>3. Toggled(stat'.data_tx, write'.ones) = Stall
      BY <2>1, <3>1, <3>2 DEF Halting
    <3> QED  BY <2>1, <3>3 DEF Halting
  <2> QED  BY <2>1, <2>2, <2>3 DEF HaltInv, Executed, Read
<1>13. CASE Store
  <2>1. Silent => Silent'
    BY <1>13, Stored DEF Silent, Sides, Data
  <2>2. Halting => Silent'
    BY <1>13, Stored DEF Halting, Silent, Sides, Data
  <2>3. UNCHANGED <<host, done, pc>>  BY <1>13, Stored
  <2> QED  BY <2>1, <2>2, <2>3 DEF HaltInv, Executed, Read
<1>14. CASE Asking
  <2>1. PICK r \in Requests[host.phase] : HostAsks(r)
    BY <1>14 DEF Asking, HostSetup, HostAsks
  <2>2. ~Executed' /\ stat'.data_tx = stat.data_tx /\ UNCHANGED <<write, pc>>
    BY <2>1 DEF HostAsks, Executed, Read, TypeOK, Sides, Data
  <2>3. /\ host'.halted \subseteq host.halted /\ host'.asked = r
        /\ r = Release => "data_tx" \notin host'.halted
    BY <2>1 DEF HostAsks, Release, Ask
  <2>4. ~Halting
    BY <2>1 DEF HostAsks, Halting, RequestInv, Serving, Read, ResetPending
  <2>5. Silent => Silent'  BY <2>2 DEF Silent
  <2> QED  BY <2>2, <2>3, <2>4, <2>5 DEF HaltInv
<1>15. CASE HostCollects
  <2>1. ~Serving /\ Executed /\ host.asked \in AnyRequest
    BY <1>15 DEF HostCollects, RequestInv, Serving, Executed, Read, ResetPending, TypeOK
  <2>2. ~Halting  BY <2>1 DEF Halting, Serving
  <2>3. stat'.data_tx = stat.data_tx /\ UNCHANGED <<write, pc>> /\ host'.asked = None
    BY <1>15 DEF HostCollects, Software, AfterRequest, TypeOK, Sides, Data
  <2>4. "data_tx" \in host'.halted => "data_tx" \in host.halted \/ host.asked = Halt
    BY <1>15, <2>1, RequestFacts DEF HostCollects, AfterRequest, Halt
  <2>5. Silent => Silent'  BY <2>3 DEF Silent
  <2> QED  BY <2>1, <2>2, <2>3, <2>4, <2>5, NoneFacts DEF HaltInv, Executed, Read
<1>16. CASE HostSeesStall
  <2>1. /\ host'.asked = None /\ host'.halted = host.halted
        /\ UNCHANGED <<request, stat, write, pc>>
    BY <1>16 DEF HostSeesStall, Software, ep
  <2> QED  BY <2>1, NoneFacts DEF HaltInv, Silent, Halting, Executed, Read
<1>17. CASE HostSends
  <2>1. /\ UNCHANGED <<request, host>> /\ stat'.data_tx = stat.data_tx
        /\ Executed' => Executed
        /\ write' = write \/ (write.step = "none" /\ write'.side # "data_tx")
        /\ pc' = pc \/ write.step = "none"
    BY <1>17 DEF HostSends, Software, Executed, Read, TypeOK, Sides, Data
  <2> QED  BY <2>1, HaltFrame
<1>18. CASE HostReads
  <2>1. /\ stat.data_tx = Valid /\ stat'.data_tx = Nak
        /\ UNCHANGED <<request, host, done, write, pc>>
    BY <1>18 DEF HostReads, Software, TypeOK, Sides, Data
  <2>2. ~Silent /\ stat.data_tx \notin {Stall, Disabled}  BY <2>1 DEF Silent
  <2>3. Halting => Halting'
    BY <2>1, SentMeanwhile DEF Halting, TypeOK, Bits
  <2> QED  BY <2>1, <2>2, <2>3 DEF HaltInv, Executed, Read
<1>19. CASE Suspend
  <2>1. /\ host'.asked = host.asked /\ host'.halted = host.halted
        /\ UNCHANGED <<request, stat, done, write, pc>>
    BY <1>19 DEF Suspend, Software, ep
  <2> QED  BY <2>1 DEF HaltInv, Silent, Halting, Executed, Read
<1>20. CASE Resume
  <2>1. /\ host'.asked = host.asked /\ host'.halted = host.halted
        /\ UNCHANGED <<request, stat, done, write, pc>>
    BY <1>20 DEF Resume, Software, ep
  <2> QED  BY <2>1 DEF HaltInv, Silent, Halting, Executed, Read
<1>21. CASE Attach \/ SpuriousReset \/ GiveUp
  <2>1. host'.asked = None /\ host'.halted = {}  BY <1>21, BusResets DEF BusReset
  <2> QED  BY <2>1, NoneFacts DEF HaltInv, Executed, Read
<1>22. CASE UNCHANGED vars
  BY <1>22 DEF vars, ports, ep, HaltInv, Silent, Halting, Executed, Read
<1> QED
  BY <1>1, <1>2, <1>3, <1>4, <1>5, <1>6, <1>7, <1>8, <1>9, <1>10, <1>11, <1>12,
     <1>13, <1>14, <1>15, <1>16, <1>17, <1>18, <1>19, <1>20, <1>21, <1>22
  DEF Next, MainLoop, HostAnswered, Bus

-----------------------------------------------------------------------------
(* The ports                                                               *)

\* Who has enabled the ports
PortInv ==
  /\ device.state # "configured"
  /\ ~ResetPending /\ host.phase \in {"configured", "suspended", "resumed"} => enabled
  /\ ~ResetPending /\ enabled
       => host.phase \in {"configured", "suspended", "resumed"} \/ host.asked = Enable
  /\ Executed /\ host.asked = Enable => enabled

\* Every step keeps PortInv.
LEMMA PortStep ==
  ASSUME TypeOK, WriteInv, RequestInv, PortInv, [Next]_vars
  PROVE  PortInv'
<1> USE BitFacts
<1>1. CASE ControlSent
  <2>1. device'.state # "configured"  BY <1>1 DEF ControlSent, PortInv, TypeOK
  <2> QED  BY <1>1, <2>1
    DEF ControlSent, Go, Main, ports, PortInv, ResetPending, Executed, Read
<1>2. CASE ServeSetup
  BY <1>2 DEF ServeSetup, Begin, Go, Main, ports, PortInv, ResetPending,
      Executed, Read
<1>3. CASE Execute
  <2>1. device'.state # "configured"
    BY <1>3 DEF Execute, SetAddress, SetConfiguration, PortInv, TypeOK
  <2>2. CASE ResetPending
    BY <1>3, <2>1, <2>2, Executes, NoneFacts
    DEF PortInv, RequestInv, ResetPending, Executed, Read
  <2>3. CASE ~ResetPending
    <3>1. host.asked = request
      BY <1>3, <2>3, Executes DEF RequestInv, Serving
    <3>2. CASE request = Enable
      <4>1. request.kind = "set_configuration" /\ request # GetStatus
        BY <3>2 DEF Enable, GetStatus, Ask
      <4>2. SetConfiguration  BY <1>3, <4>1 DEF Execute
      <4>3. enabled'  BY <4>2 DEF SetConfiguration, PortInv
      <4> QED  BY <1>3, <2>1, <2>3, <3>1, <3>2, <4>3, Executes DEF PortInv, ResetPending
    <3>3. CASE request # Enable
      <4>1. enabled' = enabled  BY <1>3, <3>3 DEF Execute, SetAddress, Enable
      <4> QED  BY <1>3, <2>1, <2>3, <3>1, <3>3, <4>1, Executes DEF PortInv, ResetPending
    <3> QED  BY <3>2, <3>3
  <2> QED  BY <2>2, <2>3
<1>4. CASE Refuse
  <2>1. /\ UNCHANGED <<device, ports, flags, done, host>>
        /\ Executed' => Executed \/ request = Disable
        /\ pc = "execute" \/ pc = "refuse"
    BY <1>4 DEF Refuse, Go, Main, ep, Executed, Read, Disable
  <2>2. host.asked = Enable => ~Executed'
    <3> SUFFICES ASSUME host.asked = Enable PROVE ~Executed'
      OBVIOUS
    <3>1. request = Enable /\ Enable # Disable
      BY NoneFacts DEF RequestInv, Enable, Disable, Ask
    <3> QED  BY <1>4, <3>1 DEF Refuse, Go, WriteInv, Disable, Enable
  <2> QED  BY <2>1, <2>2 DEF PortInv, ports, ResetPending
<1>5. CASE Reply
  BY <1>5 DEF Reply, Begin, Go, Main, ports, ep, PortInv, ResetPending,
      Executed, Read
<1>6. CASE ServeData
  BY <1>6 DEF ServeData, Begin, Go, Main, PortInv, ResetPending, Executed,
      Read
<1>7. CASE ServeReset
  <2>1. /\ device'.state = "reset" /\ ~enabled' /\ host' = host /\ ResetPending
    BY <1>7 DEF ServeReset, Cleared, PortsReset, Main, ResetPending
  <2>2. host.asked = None /\ host.phase = "default"  BY <2>1 DEF RequestInv
  <2> QED  BY <2>1, <2>2, NoneFacts DEF PortInv
<1>8. CASE ServeSuspend
  <2>1. device'.state = "reset"  BY <1>8 DEF ServeSuspend, TypeOK
  <2> QED  BY <1>8, <2>1
    DEF ServeSuspend, Go, Main, ep, PortInv, ResetPending, Executed, Read
<1>9. CASE ServeOther
  BY <1>9 DEF ServeOther, Go, Main, ports, ep, PortInv, ResetPending,
      Executed, Read
<1>10. CASE PollTest
  BY <1>10 DEF PollTest, Begin, Go, Main, ports, ep, PortInv, ResetPending,
      Executed, Read
<1>11. CASE PollDeferred
  BY <1>11 DEF PollDeferred, Begin, Go, Main, ep, PortInv, ResetPending,
      Executed, Read
<1>12. CASE Load
  BY <1>12 DEF Load, Main, ports, ep, PortInv, ResetPending, Executed, Read
<1>13. CASE Store
  BY <1>13 DEF Store, NoWrite, Main, ports, PortInv, ResetPending, Executed,
      Read
<1>14. CASE Asking
  <2>1. PICK r \in Requests[host.phase] : HostAsks(r)
    BY <1>14 DEF Asking, HostSetup, HostAsks
  <2>2. host'.phase = host.phase /\ ~Executed' /\ host.asked = None
    BY <2>1 DEF HostAsks, Executed, Read
  <2> QED  BY <2>1, <2>2, NoneFacts DEF HostAsks, PortInv, ResetPending, ports
<1>15. CASE HostCollects
  <2>1. /\ ~ResetPending /\ Executed /\ host.asked \in Requests[host.phase]
        /\ host.asked \in AnyRequest /\ host.asked # Disable
    BY <1>15
    DEF HostCollects, RequestInv, Serving, Executed, Read, ResetPending, TypeOK, Answer
  <2>2. host.asked.kind = "set_configuration" => host.asked = Enable /\ enabled
    BY <2>1, RequestFacts DEF PortInv, Enable, Disable
  <2>3. /\ ~ResetPending' /\ ~Executed' /\ host'.asked = None
        /\ UNCHANGED <<device, enabled>>
    BY <1>15, <2>1
    DEF HostCollects, AfterRequest, Software, ports, ResetPending, Executed, Read
  <2>4. host'.phase \in {"configured", "suspended", "resumed"} => enabled
    BY <1>15, <2>1, <2>2 DEF HostCollects, AfterRequest, PortInv
  <2>5. enabled => host'.phase \in {"configured", "suspended", "resumed"}
    BY <1>15, <2>1, <2>2
    DEF HostCollects, AfterRequest, PortInv, Requests, GetStatus, Ask, Enable
  <2> QED  BY <2>1, <2>3, <2>4, <2>5 DEF PortInv
<1>16. CASE HostSeesStall
  <2>1. host.asked # Enable /\ ~ResetPending
    BY <1>16 DEF HostSeesStall, RequestInv, ResetPending, Answer, Enable, Disable, Ask
  <2> QED  BY <1>16, <2>1, NoneFacts
    DEF HostSeesStall, Software, ports, ep, PortInv, ResetPending, Executed, Read
<1>17. CASE HostSends
  BY <1>17 DEF HostSends, Software, ports, PortInv, ResetPending, Executed,
      Read
<1>18. CASE HostReads
  BY <1>18 DEF HostReads, Software, ports, PortInv, ResetPending, Executed,
      Read
<1>19. CASE Suspend
  BY <1>19 DEF Suspend, Software, ports, ep, PortInv, ResetPending,
      Executed, Read
<1>20. CASE Resume
  BY <1>20 DEF Resume, Software, ports, ep, PortInv, ResetPending, Executed,
      Read
<1>21. CASE Attach \/ SpuriousReset \/ GiveUp
  <2>1. ResetPending' /\ ~Executed' /\ device' = device
    BY <1>21, BusResets DEF BusReset, Software, ResetPending, Executed, Read
  <2> QED  BY <2>1 DEF PortInv
<1>22. CASE UNCHANGED vars
  BY <1>22 DEF vars, ports, ep, PortInv, ResetPending, Executed, Read
<1> QED
  BY <1>1, <1>2, <1>3, <1>4, <1>5, <1>6, <1>7, <1>8, <1>9, <1>10, <1>11, <1>12,
     <1>13, <1>14, <1>15, <1>16, <1>17, <1>18, <1>19, <1>20, <1>21, <1>22
  DEF Next, MainLoop, HostAnswered, Bus

-----------------------------------------------------------------------------
(* The address                                                             *)

\* The host is assigning an address.
Addressing == host.asked # None /\ host.asked.kind = "set_address"

\* Where the address is on its way from the request by usb_device and the
\* callback to DADDR.
AddressInv ==
  /\ ~ResetPending /\ host.phase \in {"default", "addressed", "configured"}
       => (callback /\ "ctl_tx" \in done) \/ daddr = host.addr
  /\ ~ResetPending /\ host.phase # "off" /\ callback
       => device.address = host.addr \/ (Executed /\ Addressing)
  /\ Executed /\ Addressing => callback /\ device.address = host.asked.arg
  /\ Read => "ctl_tx" \notin done
  /\ ~ResetPending /\ "SUSP" \in flags
       => host.asked = None /\ (host.phase = "suspended" \/ host.addr = 0)

\* Every step keeps AddressInv.
LEMMA AddressStep ==
  ASSUME TypeOK, WriteInv, RequestInv, AddressInv, [Next]_vars
  PROVE  AddressInv'
<1> USE BitFacts
<1>1. CASE ControlSent
  <2>1. ~Read /\ ~Read' /\ ~callback' /\ UNCHANGED <<flags, host>>
        /\ (callback => daddr' = device.address /\ device'.address = device.address)
        /\ (~callback => daddr' = daddr)
    BY <1>1 DEF ControlSent, AddressInv, Main, Read, TypeOK
  <2> QED  BY <2>1, PhaseFacts DEF AddressInv, Executed, ResetPending
<1>2. CASE ServeSetup
  BY <1>2 DEF ServeSetup, Begin, Go, Main, ports, AddressInv, Addressing,
      ResetPending, Executed, Read
<1>3. CASE Execute
  <2>1. CASE ResetPending
    BY <1>3, <2>1, Executes
    DEF AddressInv, Addressing, Executed, Read, RequestInv, ResetPending, ep
  <2>2. CASE ~ResetPending /\ request.kind = "set_address"
    <3>1. host.asked = request /\ Read /\ ~ResetPending' /\ Executed' /\ Addressing'
      BY <1>3, <2>2, Executes
      DEF RequestInv, ResetPending, Serving, Executed, Read, Addressing, ep
    <3>2. request # Enable /\ request # GetStatus  BY <2>2 DEF Enable, GetStatus, Ask
    <3>3. SetAddress(request.arg)
      BY <1>3, <2>2, <3>2 DEF Execute, Enable
    <3>4. device'.address = request.arg /\ callback' /\ daddr' = daddr
      BY <3>3 DEF SetAddress, TypeOK
    <3> QED  BY <1>3, <2>2, <3>1, <3>4, Executes, RequestFacts
      DEF AddressInv, Addressing, ResetPending, Read, ep
  <2>3. CASE ~ResetPending /\ request.kind # "set_address"
    <3>1. host.asked = request /\ ~ResetPending' /\ ~Addressing
      BY <1>3, <2>3, Executes DEF RequestInv, ResetPending, Serving, Addressing
    <3>2. device'.address = device.address /\ callback' = callback /\ daddr' = daddr
      BY <1>3, <2>3 DEF Execute, SetConfiguration, TypeOK
    <3> QED  BY <1>3, <2>3, <3>1, <3>2, Executes
      DEF AddressInv, Addressing, ResetPending, Executed, Read, ep
  <2> QED  BY <2>1, <2>2, <2>3
<1>4. CASE Refuse
  <2>1. /\ UNCHANGED <<device, callback, daddr, flags, done, host, request>>
        /\ pc = "execute" => request = Disable
    BY <1>4 DEF Refuse, Go, Main, ep, Disable
  <2>2. Executed' /\ Addressing => Executed
    <3> SUFFICES ASSUME Executed', Addressing, ~Executed PROVE FALSE
      OBVIOUS
    <3>1. host.asked = request /\ request = Disable
      BY <2>1 DEF RequestInv, Addressing, Executed, Read
    <3> QED  BY <3>1 DEF Addressing, Disable, Ask
  <2>3. Executed => Executed'  BY <1>4, <2>1 DEF Refuse, Go, Executed, Read
  <2> QED  BY <2>1, <2>2, <2>3 DEF AddressInv, Addressing, ResetPending, Read
<1>5. CASE Reply
  BY <1>5 DEF Reply, Begin, Go, Main, ports, ep, AddressInv, Addressing,
      ResetPending, Executed, Read
<1>6. CASE ServeData
  BY <1>6 DEF ServeData, Begin, Go, Main, AddressInv, Addressing,
      ResetPending, Executed, Read
<1>7. CASE ServeReset
  <2>1. /\ host' = host /\ ResetPending /\ daddr' = 0 /\ device'.address = 0
        /\ callback' = callback /\ done' = {} /\ flags' = flags \ {"RESET"}
    BY <1>7 DEF ServeReset, Cleared, Main, ResetPending
  <2>2. host.asked = None /\ host.addr = 0  BY <2>1 DEF RequestInv
  <2> QED  BY <2>1, <2>2 DEF AddressInv, Executed, Read
<1>8. CASE ServeSuspend
  <2>1. /\ host' = host /\ daddr' = 0 /\ device'.address = device.address
        /\ UNCHANGED <<callback, done>> /\ ~ResetPending /\ "SUSP" \in flags
        /\ flags' = {}
    BY <1>8 DEF ServeSuspend, Main, ep, ResetPending, TypeOK
  <2> QED  BY <2>1 DEF AddressInv, Addressing, ResetPending, Executed, Read
<1>9. CASE ServeOther
  BY <1>9 DEF ServeOther, Go, Main, ports, ep, AddressInv, Addressing,
      ResetPending, Executed, Read
<1>10. CASE PollTest
  BY <1>10 DEF PollTest, Begin, Go, Main, ports, ep, AddressInv, Addressing,
      ResetPending, Executed, Read
<1>11. CASE PollDeferred
  BY <1>11 DEF PollDeferred, Begin, Go, Main, ep, AddressInv, Addressing,
      ResetPending, Executed, Read
<1>12. CASE Load
  BY <1>12 DEF Load, Main, ports, ep, AddressInv, Addressing, ResetPending,
      Executed, Read
<1>13. CASE Store
  BY <1>13 DEF Store, NoWrite, Main, ports, AddressInv, Addressing,
      ResetPending, Executed, Read
<1>14. CASE Asking
  <2>1. PICK r \in Requests[host.phase] : HostAsks(r)
    BY <1>14 DEF Asking, HostSetup, HostAsks
  <2>2. ~Read' /\ ~Read /\ host'.phase = host.phase /\ host'.addr = host.addr
    BY <2>1 DEF HostAsks, Read
  <2> QED  BY <2>1, <2>2 DEF HostAsks, AddressInv, ResetPending, Executed
<1>15. CASE HostCollects
  <2>1. /\ Read /\ Executed /\ ~ResetPending /\ ~ResetPending' /\ host.phase # "off"
        /\ host.asked \in Requests[host.phase] /\ host.asked \in AnyRequest
        /\ daddr = host.addr
    BY <1>15, RequestFacts, PhaseFacts
    DEF HostCollects, RequestInv, Serving, ResetPending, Executed, Read, Answers, Requests,
        TypeOK
  <2>2. ~Read' /\ "ctl_tx" \in done' /\ UNCHANGED <<device, callback, daddr, flags>>
    BY <1>15 DEF HostCollects, AfterRequest, Software, Read
  <2>3. "SUSP" \notin flags  BY <2>1 DEF AddressInv, Read
  <2>4. CASE Addressing
    <3>1. callback /\ device.address = host.asked.arg  BY <2>1, <2>4 DEF AddressInv
    <3>2. host'.addr = host.asked.arg /\ host'.phase = "addressed"
      BY <1>15, <2>4 DEF HostCollects, AfterRequest, Addressing
    <3> QED  BY <2>1, <2>2, <2>3, <2>4, <3>1, <3>2 DEF AddressInv, ResetPending, Executed
  <2>5. CASE ~Addressing
    <3>1. host'.addr = host.addr
      BY <1>15, <2>1, <2>5 DEF HostCollects, AfterRequest, Addressing
    <3> QED  BY <2>1, <2>2, <2>3, <2>5, <3>1 DEF AddressInv, ResetPending, Executed
  <2> QED  BY <2>4, <2>5
<1>16. CASE HostSeesStall
  <2>1. host.asked = Disable /\ ~ResetPending
    BY <1>16 DEF HostSeesStall, RequestInv, ResetPending, Answer
  <2>2. ~Addressing  BY <2>1 DEF Addressing, Disable, Ask
  <2>3. ~Read' /\ host'.addr = host.addr /\ host'.phase = host.phase /\ host'.asked = None
    BY <1>16 DEF HostSeesStall, Read
  <2> QED  BY <1>16, <2>2, <2>3
    DEF HostSeesStall, Software, ep, AddressInv, ResetPending, Executed
<1>17. CASE HostSends
  BY <1>17 DEF HostSends, Software, ports, AddressInv, Addressing,
      ResetPending, Executed, Read
<1>18. CASE HostReads
  BY <1>18 DEF HostReads, Software, ports, AddressInv, Addressing,
      ResetPending, Executed, Read
<1>19. CASE Suspend
  BY <1>19 DEF Suspend, Software, ports, ep, AddressInv, Addressing,
      ResetPending, Executed, Read
<1>20. CASE Resume
  BY <1>20 DEF Resume, Software, ports, ep, AddressInv, Addressing,
      ResetPending, Executed, Read
<1>21. CASE Attach \/ SpuriousReset \/ GiveUp
  <2>1. ResetPending' /\ ~Read' /\ host'.asked = None
    BY <1>21, BusResets DEF BusReset, ResetPending, Read
  <2> QED  BY <2>1 DEF AddressInv, Executed
<1>22. CASE UNCHANGED vars
  BY <1>22 DEF vars, ports, ep, AddressInv, Addressing, ResetPending,
      Executed, Read
<1> QED
  BY <1>1, <1>2, <1>3, <1>4, <1>5, <1>6, <1>7, <1>8, <1>9, <1>10, <1>11, <1>12,
     <1>13, <1>14, <1>15, <1>16, <1>17, <1>18, <1>19, <1>20, <1>21, <1>22
  DEF Next, MainLoop, HostAnswered, Bus

-----------------------------------------------------------------------------
(* The theorems                                                            *)

Inv == TypeOK /\ WriteInv /\ RequestInv /\ HaltInv /\ PortInv /\ AddressInv

\* The invariants hold before the first event.
LEMMA InvInit == Init => Inv
<1> SUFFICES ASSUME Init PROVE Inv
  OBVIOUS
<1>1. TypeOK  BY TypeInit
<1>2. WriteInv /\ RequestInv /\ PortInv /\ AddressInv
  BY NoneFacts
  DEF Init, NoWrite, WriteInv, RequestInv, Serving, PortInv, AddressInv, Addressing,
      ResetPending, Read, Executed
<1>3. HaltInv
  BY NoneFacts DEF Init, HaltInv, Executed, Read
<1> QED  BY <1>1, <1>2, <1>3 DEF Inv

\* The invariants together are inductive.
LEMMA Inductive == Spec => []Inv
<1>1. Inv /\ [Next]_vars => Inv'
  <2> SUFFICES ASSUME Inv, [Next]_vars PROVE Inv'
    OBVIOUS
  <2>1. TypeOK'  BY TypeStep DEF Inv
  <2>2. WriteInv'  BY WriteStep DEF Inv
  <2>3. RequestInv'  BY RequestStep DEF Inv
  <2>4. HaltInv'  BY HaltStep DEF Inv
  <2>5. PortInv'  BY PortStep DEF Inv
  <2>6. AddressInv'  BY AddressStep DEF Inv
  <2> QED  BY <2>1, <2>2, <2>3, <2>4, <2>5, <2>6 DEF Inv
<1> QED  BY InvInit, <1>1, PTL DEF Spec

\* An IN endpoint the host has halted sends nothing until the host clears the
\* halt or resets the bus, whatever the hardware does between the loading and
\* the storing of its register (usb_io.c:83-90, 182, 192-194).
THEOREM HaltedInIsSilent == Spec => []HaltedInSilent
<1>1. Inv => HaltedInSilent  BY DEF Inv, HaltInv, Silent, Halting, HaltedInSilent
<1> QED  BY <1>1, Inductive, PTL

\* The ports are enabled when the host has configured the device, and only
\* then, however resets interleave with the requests (usb_core.c:27-49).
THEOREM PortsFollow == Spec => []PortsFollowHost
<1>1. Inv => PortsFollowHost
  <2> SUFFICES ASSUME Inv, Settled PROVE PortsFollowHost
    BY DEF PortsFollowHost
  <2>1. ~ResetPending /\ host.asked # Enable
    BY NoneFacts DEF Settled, CaughtUp, ResetPending, Enable
  <2> QED  BY <2>1 DEF Inv, PortInv, PortsFollowHost
<1> QED  BY <1>1, Inductive, PTL

\* A device that is not suspended answers at the address the host gave it
\* last, although DADDR changes only after the status stage and a reset may
\* come in between (usb_core.c:98-101, 115-118).
THEOREM DeviceReachable == Spec => []Reachable
<1>1. Inv => Reachable
  BY DEF Inv, AddressInv, Reachable, Settled, CaughtUp, ResetPending
<1> QED  BY <1>1, Inductive, PTL
==============================================================================
