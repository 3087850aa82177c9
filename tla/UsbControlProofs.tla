-------------------------- MODULE UsbControlProofs --------------------------
(***************************************************************************)
(* Proofs about the control endpoint, for all requests, packet sizes and   *)
(* payload limits.  The inductive invariant says which stage of the        *)
(* transfer host and device are in: for each, what the state machine, the  *)
(* status bits, the packets in the buffers and the bytes still to come are.*)
(***************************************************************************)
EXTENDS UsbControl, TLAPS

\* States in which a packet may be on its way to the host
Sending == {"tx", "tx_zlp", "tx_last", "status_in"}

\* What holds whatever the host does
Sound ==
  /\ pc # "panic"
  /\ ctr_tx \/ pc = "sent" => state \in Sending
  /\ pc # "poll" => ~ctr_tx
  /\ rx.setup => rx.r \in Requests
  /\ pc = "process" \/ state = "rx" => setup.r \in Requests
  /\ pc = "received" =>
       /\ state = "idle" => ~ctr_rx
       /\ state = "rx" => ~rx.setup
  /\ state = "rx" /\ ~rx.setup /\ (ctr_rx \/ pc = "received") => rx.n <= payload_size
  /\ {setup.id, rx.id, executed} \subseteq 0..host.id

Current  == setup = [id |-> host.id, r |-> host.r]
Executed == executed = host.id
Wanted   == Pipe!Answer(host.r)

\* The host has sent the SETUP packet of its request and nothing else.
Begun ==
  /\ host.left = host.r.wLength /\ host.got = 0
  /\ host.phase = IF host.r.wLength = 0 THEN "status_in"
                  ELSE IF host.r.in THEN "data_in" ELSE "data_out"
  /\ ~Executed
SetupHere == rx.setup /\ rx.id = host.id /\ rx.r = host.r /\ Begun

\* The SETUP packet is in the endpoint; the end of the last exchange may be as well.
Waiting ==
  /\ ctr_rx /\ SetupHere /\ stat_rx = "nak" /\ stat_tx = "nak"
  /\ pc \in {"poll", "sent"} \/ (pc = "received" /\ state = "status_out")
  /\ ctr_tx \/ pc = "sent" => state \in {"status_in", "tx_last"}

Taken ==
  /\ pc = "received" /\ state = "idle" /\ ~ctr_rx /\ SetupHere
  /\ stat_rx = "nak" /\ stat_tx = "nak"

Processing ==
  /\ pc = "process" /\ Current /\ ~Executed
  /\ ~ctr_rx /\ stat_rx = "valid" /\ stat_tx = "nak"
  /\ \/ Begun /\ (host.r.in \/ host.r.wLength = 0)
     \/ ~host.r.in /\ host.phase = "status_in"

Receiving ==
  /\ state = "rx" /\ Current /\ ~host.r.in /\ ~Executed /\ stat_tx = "nak" /\ ~ctr_tx
  /\ host.left >= 0 /\ host.phase = IF host.left > 0 THEN "data_out" ELSE "status_in"
  /\ \/ /\ pc = "poll" /\ ~ctr_rx /\ stat_rx = "valid"
        /\ payload_size = host.left /\ host.left > 0
     \/ /\ (pc = "poll" /\ ctr_rx) \/ (pc = "received" /\ ~ctr_rx)
        /\ ~rx.setup /\ stat_rx = "nak" /\ payload_size = host.left + rx.n

Replying ==
  /\ state \in {"tx", "tx_zlp", "tx_last"} /\ Current /\ host.r.in /\ Executed
  /\ ~ctr_rx /\ stat_rx = "valid"
  /\ host.left \in Nat /\ host.got + host.left = host.r.wLength
  /\ state = "tx_last" => payload_size = 0

\* A packet is ready for the host.
Offered ==
  /\ Replying /\ pc = "poll" /\ stat_tx = "valid" /\ ~ctr_tx /\ tx.id = host.id
  /\ host.phase = IF host.r.wLength = 0 THEN "status_in" ELSE "data_in"
  /\ host.got + tx.n + payload_size = Wanted
  /\ host.r.wLength = 0 => state = "tx_last"
  /\ state = "tx"      => Wanted = host.r.wLength /\ payload_size > 0
  /\ state = "tx_zlp"  => Wanted < host.r.wLength
  /\ state # "tx_last" => tx.n = PacketSize
  /\ state = "tx_last" => Wanted = host.r.wLength \/ tx.n < PacketSize

\* The host has it, the main loop does not know or is about to go on.
Fetched ==
  /\ Replying /\ stat_tx = "nak"
  /\ (pc = "poll" /\ ctr_tx) \/ pc = "sent"
  /\ host.phase = IF state = "tx_last" THEN "status_out" ELSE "data_in"
  /\ host.got + payload_size = Wanted
  /\ host.r.wLength > 0
  /\ state = "tx"      => Wanted = host.r.wLength /\ payload_size > 0
  /\ state = "tx_zlp"  => Wanted < host.r.wLength

Ending ==
  /\ state = "status_out" /\ pc = "poll" /\ ~ctr_rx /\ ~ctr_tx
  /\ stat_rx = "valid" /\ stat_tx = "nak" /\ host.phase = "status_out"
  /\ Executed /\ host.got = Wanted

Acknowledging ==
  /\ state = "status_in" /\ pc = "poll" /\ Current /\ ~host.r.in /\ ~ctr_rx /\ ~ctr_tx
  /\ stat_tx = "valid" /\ stat_rx # "stall" /\ tx.id = host.id /\ host.phase = "status_in"
  /\ Executed

Stalled ==
  /\ state = "idle" /\ pc = "poll" /\ ~ctr_rx /\ ~ctr_tx
  /\ stat_rx = "stall" /\ stat_tx = "stall"
  /\ ~host.r.ok /\ ~Executed

\* Between two requests only the end of the last one can be left to handle.
Rest ==
  /\ pc \in {"poll",
     "sent"} \/ (pc = "received" /\ state = "status_out" /\ ~ctr_rx /\ ~rx.setup)
  /\ ctr_tx \/ pc = "sent" => state \in {"status_in", "tx_last"}
  /\ ctr_rx => /\ ~rx.setup /\ rx.n = 0
               /\ \/ state = "status_out"
                  \/ state = "tx_last" /\ (ctr_tx \/ pc = "sent")

Stage ==
  \/ host.phase = "cut"
  \/ host.phase = "idle" /\ Rest
  \/ /\ host.phase \notin {"idle", "cut"}
     /\ \/ Waiting \/ Taken \/ Processing \/ Receiving \/ Offered \/ Fetched \/ Ending
        \/ Acknowledging \/ Stalled

Inv == TypeOK /\ Sound /\ Stage /\ ~host.foreign

-----------------------------------------------------------------------------
(* Facts about the operators the steps are built from.                      *)

LEMMA SmallerFacts ==
  ASSUME NEW a \in Nat
  PROVE  /\ Smaller(a, PacketSize) \in 0..PacketSize /\ Smaller(a, PacketSize) <= a
         /\ Smaller(a, PacketSize) # a =>
              Smaller(a, PacketSize) = PacketSize /\ a > PacketSize
  BY SizeAssumption DEF Smaller

LEMMA RequestTypes ==
  ASSUME NEW r \in Requests
  PROVE  /\ r.in \in BOOLEAN /\ r.ok \in BOOLEAN /\ r.address \in BOOLEAN
         /\ r.wLength \in Nat /\ r.reply \in Nat
         /\ r.address => ~r.in /\ r.wLength = 0 /\ r.ok
         /\ r.ok /\ ~r.in => r.wLength <= MaxPayload
         /\ r # None
  BY RequestAssumption

\* The answer to a request is as long as asked for or shorter.
LEMMA AnswerFacts ==
  ASSUME NEW r \in Requests
  PROVE  /\ Pipe!Answer(r) \in 0..r.wLength
         /\ ~r.in => Pipe!Answer(r) = 0
         /\ r.in /\ r.reply < r.wLength => Pipe!Answer(r) = r.reply
         /\ r.in /\ r.reply >= r.wLength => Pipe!Answer(r) = r.wLength
  BY RequestTypes DEF Pipe!Answer

HostRecords ==
  [phase: Phases, id: Ids, r: Requests \cup {None}, left: Int, got: Nat,
   answer: Nat \cup {None}, addr: Ids, foreign: BOOLEAN]

LEMMA HostTypes ==
  ASSUME TypeOK
  PROVE  /\ host.phase \in Phases /\ host.id \in Ids /\ host.left \in Int /\ host.got \in Nat
         /\ host.addr \in Ids /\ host.foreign \in BOOLEAN /\ host.answer \in Nat \cup {None}
         /\ host.r \in Requests \cup {None}
         /\ host.phase \notin {"idle", "cut"} => host.r \in Requests
         /\ host.phase \in {"idle", "cut"} => host.r = None
  BY DEF TypeOK

LEMMA PacketTypes ==
  ASSUME TypeOK
  PROVE  /\ rx.setup \in BOOLEAN /\ rx.id \in Ids /\ rx.n \in 0..PacketSize
         /\ rx.r \in Requests \cup {None}
         /\ tx.id \in Ids /\ tx.n \in 0..PacketSize
         /\ setup.id \in Ids /\ setup.r \in Requests \cup {None}
  BY DEF TypeOK

LEMMA NoPacketType ==
  /\ NoPacket \in [setup: BOOLEAN, id: Ids, r: Requests \cup {None}, n: 0..PacketSize]
  /\ NoPacket.setup = FALSE /\ NoPacket.id = 0 /\ NoPacket.n = 0
  BY SizeAssumption DEF NoPacket, Ids

-----------------------------------------------------------------------------
(* The main loop.                                                           *)

LEMMA PollStep ==
  ASSUME Inv, Poll
  PROVE  Inv'
<1>1. TypeOK'
  BY ZenonT(60) DEF Inv, TypeOK, Poll, PollEvent, Go, States, dev
<1>2. Sound'
  BY HostTypes, PacketTypes DEF Inv, Sound, TypeOK, Poll, PollEvent, Go, dev, Sending
<1>3. Stage'
  <2>1. CASE host.phase = "cut"
    BY <2>1 DEF Stage, Poll
  <2>2. CASE host.phase = "idle"
    <3>1. Rest
      BY <2>2 DEF Inv, Stage
    <3>2. Rest'
      BY <3>1 DEF Inv, Rest, Sound, Poll, PollEvent, Go, dev
    <3> QED  BY <2>2, <3>2 DEF Stage, Poll
  <2>3. CASE host.phase \notin {"idle", "cut"}
    <3>1. CASE Waiting
      <4>1. Waiting' \/ Taken'
        BY <3>1 DEF Inv, Sound, Waiting, Taken, SetupHere, Begun, Executed, Poll,
           PollEvent, Go, dev, Sending
      <4> QED  BY <2>3, <4>1 DEF Stage, Poll
    <3>2. CASE Receiving
      <4>1. Receiving'
        BY <3>2 DEF Inv, Sound, Receiving, Current, Executed, Poll, PollEvent, Go, dev
      <4> QED  BY <2>3, <4>1 DEF Stage, Poll
    <3>3. CASE Fetched
      <4>1. Fetched'
        BY <3>3 DEF Inv, Sound, Fetched, Replying, Current, Executed, Wanted,
           Pipe!Answer, Poll, PollEvent, Go, dev
      <4> QED  BY <2>3, <4>1 DEF Stage, Poll
    <3>4. ~(Taken \/ Processing \/ Offered \/ Ending \/ Acknowledging \/ Stalled)
      BY DEF Poll, PollEvent, Go, Taken, Processing, Offered, Replying, Ending,
         Acknowledging, Stalled
    <3> QED  BY <2>3, <3>1, <3>2, <3>3, <3>4 DEF Inv, Stage
  <2> QED  BY <2>1, <2>2, <2>3
<1> QED  BY <1>1, <1>2, <1>3 DEF Inv, Poll

LEMMA SendMoreStep ==
  ASSUME Inv, SendMore
  PROVE  Inv'
<1> DEFINE n == Smaller(payload_size, PacketSize)
<1>0. n \in 0..PacketSize /\ n <= payload_size /\ (n # payload_size => n = PacketSize)
  BY SmallerFacts DEF Inv, TypeOK
<1>1. TypeOK'
  BY <1>0, PacketTypes DEF Inv, TypeOK, SendMore, SendPart, Go, States, Status, dev
<1>2. Sound'
  BY DEF Inv, Sound, TypeOK, SendMore, SendPart, Go, dev, Sending
<1>3. Stage'
  <2>1. CASE host.phase = "cut"
    BY <2>1 DEF Stage, SendMore
  <2>2. host.phase # "idle"
    BY DEF Inv, Stage, Rest, SendMore, Go
  <2>3. CASE host.phase \notin {"idle", "cut"}
    <3>1. Fetched
      BY <2>3 DEF Inv, Stage, SendMore, Go, Waiting, Taken, Processing, Receiving, Offered,
                  Ending, Acknowledging, Stalled
    <3>2. Replying'
      BY <3>1, <1>0, HostTypes DEF Inv, TypeOK, Fetched, Replying, Current, Executed,
         SendMore, SendPart, Go, dev
    <3>3. Wanted' = Wanted /\ Wanted \in Nat
      BY <2>3, HostTypes, AnswerFacts DEF Inv, Wanted, Pipe!Answer, SendMore
    <3>4. /\ pc' = "poll" /\ stat_tx' = "valid" /\ ~ctr_tx' /\ tx'.id = host'.id /\ tx'.n = n
          /\ payload_size' = payload_size - n /\ host' = host
          /\ state' = IF payload_size = n /\ (state = "tx" \/ n # PacketSize)
                      THEN "tx_last" ELSE state
      BY <3>1 DEF Inv, Sound, Fetched, Replying, Current, SendMore, SendPart, Go
    <3>5. Offered'
      <4>1. host'.got + tx'.n + payload_size' = Wanted'
        BY <3>1, <3>3, <3>4, <1>0, HostTypes DEF Inv, TypeOK, Fetched
      <4>2. host.phase = "data_in" /\ host.r.wLength > 0 /\ state \in {"tx", "tx_zlp"}
        BY <3>1 DEF Fetched, SendMore
      <4>3. CASE state = "tx"
        BY <4>1, <4>2, <4>3, <3>1, <3>2, <3>3, <3>4, <1>0, SizeAssumption
           DEF Inv, TypeOK, Offered, Fetched
      <4>4. CASE state = "tx_zlp"
        BY <4>1, <4>2, <4>4, <3>1, <3>2, <3>3, <3>4, <1>0, SizeAssumption
           DEF Inv, TypeOK, Offered, Fetched
      <4> QED  BY <4>2, <4>3, <4>4
    <3> QED  BY <2>3, <3>5 DEF Stage, SendMore
  <2> QED  BY <2>1, <2>2, <2>3
<1> QED  BY <1>1, <1>2, <1>3 DEF Inv, SendMore

LEMMA LastSentStep ==
  ASSUME Inv, LastSent
  PROVE  Inv'
<1>1. TypeOK'
  BY DEF Inv, TypeOK, LastSent, Go, States, dev, ep
<1>2. Sound'
  BY DEF Inv, Sound, TypeOK, LastSent, Go, dev, ep, Sending
<1>3. Stage'
  <2>1. CASE host.phase = "cut"
    BY <2>1 DEF Stage, LastSent
  <2>2. CASE host.phase = "idle"
    <3>1. Rest'
      BY <2>2 DEF Inv, Stage, Rest, Sound, LastSent, Go, dev, ep
    <3> QED  BY <2>2, <3>1 DEF Stage, LastSent
  <2>3. CASE host.phase \notin {"idle", "cut"}
    <3>1. Waiting \/ Fetched
      BY <2>3 DEF Inv, Stage, LastSent, Go, Taken, Processing, Receiving, Offered,
                  Ending, Acknowledging, Stalled
    <3>2. CASE Waiting
      <4>1. Waiting'
        BY <3>2 DEF Inv, Sound, Waiting, SetupHere, Begun, Executed, LastSent, Go, dev, ep
      <4> QED  BY <2>3, <4>1 DEF Stage, LastSent
    <3>3. CASE Fetched
      <4>1. Ending'
        BY <3>3, HostTypes DEF Inv, Sound, TypeOK, Fetched, Replying, Ending, Executed,
           Wanted, Pipe!Answer, LastSent, Go, dev, ep
      <4> QED  BY <2>3, <4>1 DEF Stage, LastSent
    <3> QED  BY <3>1, <3>2, <3>3
  <2> QED  BY <2>1, <2>2, <2>3 DEF Inv, Stage
<1> QED  BY <1>1, <1>2, <1>3 DEF Inv, LastSent

LEMMA StatusSentStep ==
  ASSUME Inv, StatusSent
  PROVE  Inv'
<1>0. /\ state = "status_in" /\ pc' = "poll" /\ state' = "idle"
      /\ daddr' \in {daddr, address} /\ callback' \in {callback, 0}
      /\ finished' \in {finished, setup.id}
  BY DEF Inv, Sound, StatusSent, Sending, Callback
<1>1. TypeOK'
  BY <1>0, PacketTypes, SizeAssumption DEF Inv, TypeOK, StatusSent, Ids, States, ep
<1>2. Sound'
  BY <1>0 DEF Inv, Sound, StatusSent, ep, Sending
<1>3. Stage'
  <2>1. CASE host.phase = "cut"
    BY <2>1 DEF Stage, StatusSent
  <2>2. CASE host.phase = "idle"
    <3>1. Rest'
      BY <2>2, <1>0 DEF Inv, Stage, Rest, Sound, StatusSent, ep
    <3> QED  BY <2>2, <3>1 DEF Stage, StatusSent
  <2>3. CASE host.phase \notin {"idle", "cut"}
    <3>1. Waiting
      BY <2>3, <1>0 DEF Inv, Stage, StatusSent, Taken, Processing, Receiving, Offered,
         Fetched, Replying, Ending, Acknowledging, Stalled
    <3>2. Waiting'
      BY <3>1, <1>0 DEF Inv, Sound, Waiting, SetupHere, Begun, Executed, StatusSent, ep
    <3> QED  BY <2>3, <3>2 DEF Stage, StatusSent
  <2> QED  BY <2>1, <2>2, <2>3 DEF Inv, Stage
<1> QED  BY <1>1, <1>2, <1>3 DEF Inv, StatusSent

LEMMA ReceiveSetupStep ==
  ASSUME Inv, ReceiveSetup
  PROVE  Inv'
<1>0. rx.r \in Requests /\ ~ctr_rx /\ ~ctr_tx
  BY DEF Inv, Sound, ReceiveSetup
<1>1. TypeOK'
  BY <1>0, RequestTypes, PacketTypes, NoPacketType
     DEF Inv, TypeOK, ReceiveSetup, Stall, States, Status, dev
<1>2. Sound'
  BY <1>0, NoPacketType, PacketTypes, HostTypes
     DEF Inv, Sound, TypeOK, Ids, ReceiveSetup, Stall, dev, Sending
<1>3. Stage'
  <2>1. CASE host.phase = "cut"
    BY <2>1 DEF Stage, ReceiveSetup
  <2>2. host.phase # "idle"
    BY DEF Inv, Stage, Rest, ReceiveSetup
  <2>3. CASE host.phase \notin {"idle", "cut"}
    <3>1. Taken
      BY <2>3 DEF Inv, Stage, ReceiveSetup, Waiting, Processing, Receiving, Offered,
         Fetched, Replying, Ending, Acknowledging, Stalled
    <3>2. Current' /\ rx.r = host.r /\ Begun'
      BY <3>1 DEF Taken, SetupHere, Begun, Executed, Current, ReceiveSetup, dev
    <3>3. CASE rx.r.in \/ rx.r.wLength = 0
      <4>0. pc' = "process" /\ stat_rx' = "valid" /\ UNCHANGED <<stat_tx, ctr_rx, host>>
        BY <1>0, <3>3, RequestTypes, SizeAssumption DEF ReceiveSetup
      <4>1. Processing'
        BY <1>0, <3>1, <3>2, <3>3, <4>0 DEF Taken, Processing, Begun
      <4> QED  BY <2>3, <4>1 DEF Stage, ReceiveSetup
    <3>4. CASE ~rx.r.in /\ rx.r.wLength \in 1..MaxPayload
      <4>1. Receiving'
        BY <1>0, <3>1, <3>2, <3>4, RequestTypes, SizeAssumption
           DEF ReceiveSetup, Stall, Taken, Receiving, Begun, Executed, dev
      <4> QED  BY <2>3, <4>1 DEF Stage, ReceiveSetup
    <3>5. CASE ~rx.r.in /\ rx.r.wLength > MaxPayload
      <4>1. Stalled'
        BY <1>0, <3>1, <3>2, <3>5, RequestTypes, SizeAssumption
           DEF ReceiveSetup, Stall, Taken, Stalled, Begun, Executed, dev
      <4> QED  BY <2>3, <4>1 DEF Stage, ReceiveSetup
    <3> QED  BY <3>3, <3>4, <3>5 DEF ReceiveSetup
  <2> QED  BY <2>1, <2>2, <2>3
<1> QED  BY <1>1, <1>2, <1>3 DEF Inv, ReceiveSetup

LEMMA ReceiveDataStep ==
  ASSUME Inv, ReceiveData
  PROVE  Inv'
<1>0. rx.n <= payload_size /\ ~rx.setup
  BY DEF Inv, Sound, ReceiveData
<1>1. TypeOK'
  BY <1>0, PacketTypes, NoPacketType DEF Inv, TypeOK, ReceiveData, Status, dev
<1>2. Sound'
  BY <1>0, <1>1, NoPacketType, PacketTypes, HostTypes
     DEF Inv, TypeOK, Ids, Sound, ReceiveData, Sending, dev
<1>3. Stage'
  <2>1. CASE host.phase = "cut"
    BY <2>1 DEF Stage, ReceiveData
  <2>2. host.phase # "idle"
    BY DEF Inv, Stage, Rest, ReceiveData
  <2>3. CASE host.phase \notin {"idle", "cut"}
    <3>1. Receiving
      BY <2>3 DEF Inv, Stage, ReceiveData, Waiting, Taken, Processing, Offered, Fetched,
                  Replying, Ending, Acknowledging, Stalled
    <3>2. payload_size' = host.left /\ (payload_size = rx.n <=> host.left = 0)
      BY <3>1, HostTypes, PacketTypes DEF Inv, TypeOK, Receiving, ReceiveData
    <3>3. CASE host.left = 0
      <4>1. Processing'
        BY <3>1, <3>2, <3>3 DEF ReceiveData, Receiving, Processing, Current, Executed, dev
      <4> QED  BY <2>3, <4>1 DEF Stage, ReceiveData
    <3>4. CASE host.left # 0
      <4>1. Receiving'
        BY <3>1, <3>2, <3>4, HostTypes
           DEF Inv, ReceiveData, Receiving, Current, Executed, dev
      <4> QED  BY <2>3, <4>1 DEF Stage, ReceiveData
    <3> QED  BY <3>3, <3>4
  <2> QED  BY <2>1, <2>2, <2>3
<1> QED  BY <1>1, <1>2, <1>3 DEF Inv, ReceiveData

LEMMA ReceiveStatusStep ==
  ASSUME Inv, ReceiveStatus
  PROVE  Inv'
<1>0. /\ state = "status_out" /\ pc = "received" /\ pc' = "poll" /\ state' = "idle"
      /\ daddr' \in {daddr, address} /\ callback' \in {callback, 0}
      /\ finished' \in {finished, setup.id} /\ stat_rx' \in {stat_rx, "valid"}
      /\ rx.setup => stat_rx' = stat_rx
  BY DEF ReceiveStatus, Callback, Go
<1>1. TypeOK'
  BY <1>0, PacketTypes, SizeAssumption DEF Inv, TypeOK, ReceiveStatus, Ids, States, Status
<1>2. Sound'
  BY <1>0 DEF Inv, Sound, ReceiveStatus, Sending
<1>3. Stage'
  <2>1. CASE host.phase = "cut"
    BY <2>1 DEF Stage, ReceiveStatus
  <2>2. CASE host.phase = "idle"
    <3>1. Rest'
      BY <2>2, <1>0 DEF Inv, Sound, Stage, Rest, ReceiveStatus
    <3> QED  BY <2>2, <3>1 DEF Stage, ReceiveStatus
  <2>3. CASE host.phase \notin {"idle", "cut"}
    <3>1. Waiting
      BY <2>3, <1>0 DEF Inv, Stage, Taken, Processing, Receiving, Offered, Fetched,
                  Replying, Ending, Acknowledging, Stalled
    <3>2. Waiting'
      BY <3>1, <1>0 DEF Inv, Sound, Waiting, SetupHere, Begun, Executed, ReceiveStatus
    <3> QED  BY <2>3, <3>2 DEF Stage, ReceiveStatus
  <2> QED  BY <2>1, <2>2, <2>3 DEF Inv, Stage
<1> QED  BY <1>1, <1>2, <1>3 DEF Inv, ReceiveStatus

\* While the host waits nothing is unexpected: this happens only after it has cut
\* a request short.
LEMMA ReceiveUnexpectedStep ==
  ASSUME Inv, ReceiveUnexpected
  PROVE  Inv'
<1>1. TypeOK'
  BY DEF Inv, TypeOK, ReceiveUnexpected, Stall, States, Status, dev
<1>2. Sound'
  BY DEF Inv, Sound, ReceiveUnexpected, Stall, Sending, dev
<1>3. host.phase = "cut"
  BY DEF Inv, Stage, ReceiveUnexpected, Rest, Waiting, Taken, SetupHere, Processing,
     Receiving, Offered, Fetched, Replying, Ending, Acknowledging, Stalled
<1> QED  BY <1>1, <1>2, <1>3 DEF Inv, Stage, ReceiveUnexpected

LEMMA ReplyWithDataStep ==
  ASSUME Inv, ReplyWithData
  PROVE  Inv'
<1>0. setup.r \in Requests /\ ~ctr_tx /\ setup.r.in
  BY DEF Inv, Sound, ReplyWithData, Go
<1>1. PICK size \in Nat, mode \in {"tx", "tx_zlp"} :
        /\ SendPart(size, mode)
        /\ size = Pipe!Answer(setup.r)
        /\ mode = "tx" => size = setup.r.wLength
        /\ mode = "tx_zlp" => size < setup.r.wLength
  BY <1>0, RequestTypes, AnswerFacts DEF ReplyWithData
<1> DEFINE n == Smaller(size, PacketSize)
<1>2. n \in 0..PacketSize /\ n <= size /\ (n # size => n = PacketSize)
  BY SmallerFacts
<1>3. /\ tx' = [id |-> setup.id, n |-> n] /\ stat_tx' = "valid" /\ payload_size' = size - n
      /\ state' = IF size = n /\ (mode = "tx" \/ n # PacketSize) THEN "tx_last" ELSE mode
  BY <1>1 DEF SendPart
<1>4. /\ pc' = "poll" /\ executed' = setup.id
      /\ UNCHANGED <<setup, stat_rx, ctr_rx, ctr_tx, rx, host, address, callback, daddr,
         finished>>
  BY <1>0, RequestTypes DEF ReplyWithData, Go, Execute
<1>5. TypeOK'
  BY <1>2, <1>3, <1>4, PacketTypes DEF Inv, TypeOK, States, Status
<1>6. Sound'
  BY <1>0, <1>1, <1>3, <1>4 DEF Inv, Sound, Sending
<1>7. Stage'
  <2>1. CASE host.phase = "cut"
    BY <1>4, <2>1 DEF Stage
  <2>2. host.phase # "idle"
    BY DEF Inv, Stage, Rest, ReplyWithData, Go
  <2>3. CASE host.phase \notin {"idle", "cut"}
    <3>1. Processing
      BY <2>3 DEF Inv, Stage, ReplyWithData, Go, Waiting, Taken, Receiving, Offered,
         Fetched, Replying, Ending, Acknowledging, Stalled
    <3>2. /\ setup.id = host.id /\ setup.r = host.r /\ Begun
      BY <1>0, <3>1 DEF Processing, Current
    <3>3. Wanted' = size /\ size <= host.r.wLength /\ host.r.wLength \in Nat
      BY <1>0, <1>1, <1>4, <3>2, RequestTypes, AnswerFacts DEF Wanted, Pipe!Answer
    <3>4. Replying'
      BY <1>0, <1>1, <1>2, <1>3, <1>4, <3>1, <3>2, <3>3
         DEF Replying, Processing, Current, Executed, Begun
    <3>5. host'.got + tx'.n + payload_size' = Wanted'
      BY <1>2, <1>3, <1>4, <3>2, <3>3 DEF Begun
    <3>6. /\ pc' = "poll" /\ stat_tx' = "valid" /\ ~ctr_tx' /\ tx'.id = host'.id /\ tx'.n = n
          /\ host'.phase = IF host'.r.wLength = 0 THEN "status_in" ELSE "data_in"
      BY <1>0, <1>3, <1>4, <3>2 DEF Begun
    <3>7. ASSUME mode = "tx" PROVE Offered'
      BY <1>1, <1>2, <1>3, <1>4, <3>2, <3>3, <3>4, <3>5, <3>6, <3>7, SizeAssumption
         DEF Offered
    <3>8. ASSUME mode = "tx_zlp" PROVE Offered'
      BY <1>1, <1>2, <1>3, <1>4, <3>2, <3>3, <3>4, <3>5, <3>6, <3>8, SizeAssumption
         DEF Offered
    <3> QED  BY <1>4, <2>3, <3>7, <3>8 DEF Stage
  <2> QED  BY <2>1, <2>2, <2>3
<1> QED  BY <1>4, <1>5, <1>6, <1>7 DEF Inv

LEMMA ReplyWithStatusStep ==
  ASSUME Inv, ReplyWithStatus
  PROVE  Inv'
<1>0. setup.r \in Requests /\ ~ctr_tx
  BY DEF Inv, Sound, ReplyWithStatus, Go
<1>1. /\ executed' = setup.id /\ address' \in {address, setup.id}
      /\ callback' \in {callback, setup.id} /\ UNCHANGED <<daddr, finished>>
  BY DEF ReplyWithStatus, Execute
<1>2. TypeOK'
  BY <1>1, PacketTypes, SizeAssumption DEF Inv, TypeOK, ReplyWithStatus, Go, States, Status
<1>3. Sound'
  BY <1>0, <1>1 DEF Inv, Sound, ReplyWithStatus, Go, Sending
<1>4. Stage'
  <2>1. CASE host.phase = "cut"
    BY <2>1 DEF Stage, ReplyWithStatus
  <2>2. host.phase # "idle"
    BY DEF Inv, Stage, Rest, ReplyWithStatus, Go
  <2>3. CASE host.phase \notin {"idle", "cut"}
    <3>1. Processing
      BY <2>3 DEF Inv, Stage, ReplyWithStatus, Go, Waiting, Taken, Receiving, Offered,
         Fetched, Replying, Ending, Acknowledging, Stalled
    <3>2. Acknowledging'
      BY <1>0, <1>1, <3>1
         DEF ReplyWithStatus, Go, Processing, Begun, Current, Executed, Acknowledging
    <3> QED  BY <2>3, <3>2 DEF Stage, ReplyWithStatus
  <2> QED  BY <2>1, <2>2, <2>3
<1> QED  BY <1>2, <1>3, <1>4 DEF Inv, ReplyWithStatus

LEMMA RefuseStep ==
  ASSUME Inv, Refuse
  PROVE  Inv'
<1>1. TypeOK'
  BY DEF Inv, TypeOK, Refuse, Stall, States, Status, dev
<1>2. Sound'
  BY DEF Inv, Sound, Refuse, Stall, Sending, dev
<1>3. Stage'
  <2>1. CASE host.phase = "cut"
    BY <2>1 DEF Stage, Refuse
  <2>2. host.phase # "idle"
    BY DEF Inv, Stage, Rest, Refuse
  <2>3. CASE host.phase \notin {"idle", "cut"}
    <3>1. Processing
      BY <2>3 DEF Inv, Stage, Refuse, Waiting, Taken, Receiving, Offered, Fetched,
                  Replying, Ending, Acknowledging, Stalled
    <3>2. Stalled'
      BY <3>1 DEF Inv, Sound, Refuse, Stall, Processing, Current, Executed, Stalled, dev
    <3> QED  BY <2>3, <3>2 DEF Stage, Refuse
  <2> QED  BY <2>1, <2>2, <2>3
<1> QED  BY <1>1, <1>2, <1>3 DEF Inv, Refuse

-----------------------------------------------------------------------------
(* The host and the hardware.                                               *)

LEMMA HostSetupStep ==
  ASSUME Inv, NEW r \in Requests, HostSetup(r)
  PROVE  Inv'
<1>0. /\ host'.id = host.id + 1 /\ host'.r = r /\ host'.left = r.wLength /\ host'.got = 0
      /\ host'.phase = IF r.wLength = 0 THEN "status_in" ELSE IF r.in THEN "data_in" ELSE "data_out"
      /\ host'.foreign = host.foreign
      /\ host'.id \in Ids /\ host.id \in Nat
  BY HostTypes, SizeAssumption DEF Inv, TypeOK, HostSetup, Ids
<1>1. TypeOK'
  <2>1. host' \in HostRecords
    <3>1. (IF r.wLength = 0 THEN "status_in" ELSE IF r.in THEN "data_in" ELSE "data_out") \in Phases
      BY DEF Phases
    <3>2. host.id + 1 \in Ids /\ r.wLength \in Int /\ r \in Requests \cup {None} /\ 0 \in Nat
      BY <1>0, RequestTypes
    <3> QED  BY <3>1, <3>2 DEF Inv, TypeOK, HostRecords, HostSetup
  <2>2. rx' \in [setup: BOOLEAN, id: Ids, r: Requests \cup {None}, n: 0..PacketSize]
    BY <1>0, SizeAssumption DEF HostSetup
  <2> QED  BY <1>0, <2>1, <2>2, RequestTypes DEF Inv, TypeOK, HostRecords, HostSetup,
     Status, ctl, dev
<1>2. pc \in {"poll", "sent"} \/ (pc = "received" /\ state = "status_out")
  BY DEF Inv, Stage, Rest, HostSetup, Quiescent
<1>3. ctr_tx \/ pc = "sent" => state \in {"status_in", "tx_last"}
  BY DEF Inv, Stage, Rest, HostSetup, Quiescent
<1>4. Sound'
  BY <1>0, <1>2 DEF Inv, Sound, HostSetup, Sending, ctl, dev
<1>5. Waiting'
  BY <1>0, <1>2, <1>3, RequestTypes
     DEF Inv, Sound, HostSetup, Waiting, SetupHere, Begun, Executed, ctl, dev
<1> QED  BY <1>0, <1>1, <1>4, <1>5 DEF Inv, Stage

LEMMA HostDataInStep ==
  ASSUME Inv, HostDataIn
  PROVE  Inv'
<1>0. Offered
  BY DEF Inv, Stage, HostDataIn, Rest, Waiting, Taken, Processing, Receiving, Fetched,
         Ending, Acknowledging, Stalled
<1>1. host.r \in Requests /\ Wanted \in 0..host.r.wLength
  BY HostTypes, AnswerFacts DEF Inv, HostDataIn, Wanted
<1>2. /\ host'.got = host.got + tx.n /\ host'.left = host.left - tx.n /\ host'.r = host.r
      /\ host'.id = host.id /\ ~host'.foreign
      /\ host'.phase = IF tx.n < PacketSize \/ host.left = tx.n THEN "status_out" ELSE "data_in"
  BY <1>0 DEF Inv, TypeOK, HostDataIn, Offered
<1>3. tx.n \in 0..PacketSize /\ host.got \in Nat /\ host.left \in Nat /\ payload_size \in Nat
  BY <1>0, PacketTypes, HostTypes DEF Inv, TypeOK, Offered, Replying
<1>4. TypeOK'
  <2>1. host' \in HostRecords
    <3>1. \A p \in Phases :
            (IF tx.n < PacketSize \/ host.left = tx.n THEN "status_out" ELSE p) \in Phases
      BY DEF Phases
    <3>2. host.got + tx.n \in Nat /\ host.left - tx.n \in Int
      BY <1>3
    <3>3. (host.foreign \/ tx.id # host.id) \in BOOLEAN
      OBVIOUS
    <3> QED  BY <3>1, <3>2, <3>3 DEF Inv, TypeOK, HostRecords, HostDataIn
  <2> QED  BY <1>1, <1>2, <2>1, RequestTypes DEF Inv, TypeOK, HostRecords, HostDataIn,
     Status, ctl, dev
<1>5. Sound'
  BY <1>0, <1>2 DEF Inv, Sound, HostDataIn, Offered, Replying, Sending, ctl, dev
<1>6. Wanted' = Wanted
  BY <1>2 DEF Wanted, Pipe!Answer
<1>7. Fetched'
  <2>1. host.r.wLength \in Nat /\ host.r.wLength > 0
    BY <1>0, <1>1, RequestTypes DEF Offered, HostDataIn
  <2>2. Replying'
    BY <1>0, <1>1, <1>2, <1>3, <2>1
       DEF HostDataIn, Offered, Replying, Current, Executed, ctl, dev
  <2>3. host'.phase = IF state = "tx_last" THEN "status_out" ELSE "data_in"
    <3>1. CASE state = "tx_last"
      BY <1>0, <1>1, <1>2, <1>3, <2>1, <3>1, SizeAssumption DEF Offered, Replying
    <3>2. CASE state = "tx"
      BY <1>0, <1>1, <1>2, <1>3, <2>1, <3>2, SizeAssumption DEF Offered, Replying
    <3>3. CASE state = "tx_zlp"
      BY <1>0, <1>1, <1>2, <1>3, <2>1, <3>3, SizeAssumption DEF Offered, Replying
    <3> QED  BY <1>0, <3>1, <3>2, <3>3 DEF Offered, Replying
  <2> QED  BY <1>0, <1>1, <1>2, <1>3, <1>6, <2>1, <2>2, <2>3
              DEF HostDataIn, Offered, Fetched, ctl, dev
<1> QED  BY <1>2, <1>4, <1>5, <1>7 DEF Inv, Stage, Fetched

\* What the host is when it is through with its request
IsThrough(h, phase, answer) ==
  /\ h \in HostRecords
  /\ h.phase = phase /\ h.r = None /\ h.answer = answer
  /\ h.id = host.id /\ h.foreign = host.foreign

LEMMA IdleFacts ==
  ASSUME TypeOK
  PROVE  /\ IsThrough(Idle(host), "idle", host.answer)
         /\ IsThrough(CutShort(host), "cut", None)
         /\ \A n \in Nat : IsThrough([Idle(host) EXCEPT !.answer = n], "idle", n)
<1>0. {"idle", "cut"} \subseteq Phases
  BY DEF Phases
<1>1. IsThrough(Idle(host), "idle", host.answer)
  <2>1. host \in HostRecords
    BY DEF TypeOK, HostRecords
  <2>2. Idle(host) \in HostRecords
    <3>1. "idle" \in Phases /\ None \in Requests \cup {None} /\ 0 \in Int /\ 0 \in Nat
      BY <1>0
    <3> QED  BY <2>1, <3>1 DEF Idle, HostRecords
  <2>3. /\ Idle(host).phase = "idle" /\ Idle(host).r = None
        /\ Idle(host).answer = host.answer /\ Idle(host).id = host.id
        /\ Idle(host).foreign = host.foreign
    BY <2>1 DEF Idle, HostRecords
  <2> QED  BY <2>2, <2>3 DEF IsThrough
<1>2. IsThrough(CutShort(host), "cut", None)
  BY <1>0, <1>1 DEF CutShort, IsThrough, HostRecords
<1>3. \A n \in Nat : IsThrough([Idle(host) EXCEPT !.answer = n], "idle", n)
  BY <1>1 DEF IsThrough, HostRecords
<1> QED  BY <1>1, <1>2, <1>3

LEMMA HostStatusInStep ==
  ASSUME Inv, HostStatusIn
  PROVE  Inv'
<1>0. /\ pc = "poll" /\ ~ctr_rx /\ tx.id = host.id /\ state \in {"status_in", "tx_last"}
      /\ host.r \in Requests
  BY HostTypes DEF Inv, Stage, HostStatusIn, Waiting, Taken, Processing, Receiving, Fetched,
     Offered, Replying, Ending, Acknowledging, Stalled
<1>1. IsThrough(host', "idle", 0)
  <2>1. (host.foreign \/ tx.id # host.id) = host.foreign
    BY <1>0 DEF Inv, TypeOK
  <2>2. IsThrough(Idle(host), "idle", host.answer)
    BY IdleFacts DEF Inv
  <2>3. \A a \in Ids : (IF host.r.address THEN host.id ELSE a) \in Ids
    BY HostTypes DEF Inv
  <2> QED  BY <2>1, <2>2, <2>3 DEF Inv, HostStatusIn, IsThrough, HostRecords
<1>2. TypeOK'
  BY <1>1, HostTypes DEF Inv, IsThrough, HostRecords, TypeOK, HostStatusIn, Phases,
     Status, ctl, dev
<1>3. Sound'
  BY <1>0, <1>1 DEF Inv, IsThrough, HostRecords, Sound, HostStatusIn, Sending, ctl, dev
<1>4. Rest'
  BY <1>0 DEF HostStatusIn, Rest, ctl
<1> QED  BY <1>1, <1>2, <1>3, <1>4 DEF Inv, IsThrough, HostRecords, Stage

LEMMA HostDataOutStep ==
  ASSUME Inv, HostDataOut
  PROVE  Inv'
<1>0. Receiving /\ pc = "poll" /\ ~ctr_rx /\ host.left > 0 /\ payload_size = host.left
  BY DEF Inv, Stage, HostDataOut, Rest, Waiting, Taken, Processing, Begun, Receiving,
     Fetched, Offered, Replying, Ending, Acknowledging, Stalled
<1> DEFINE n == Smaller(host.left, PacketSize)
<1>1. host.left \in Nat /\ n \in 0..PacketSize /\ n <= host.left
  BY <1>0, HostTypes, SmallerFacts DEF Inv
<1>2. /\ host'.left = host.left - n /\ host'.id = host.id /\ host'.r = host.r
      /\ host'.foreign = host.foreign
      /\ host'.phase = IF host.left = n THEN "status_in" ELSE "data_out"
  BY <1>0 DEF Inv, TypeOK, HostDataOut
<1>3. rx' = [setup |-> FALSE, id |-> host.id, r |-> None, n |-> n]
  BY DEF HostDataOut
<1>4. TypeOK'
  <2>1. host' \in HostRecords
    <3>1. \A p \in Phases :
            (IF p = "data_out" /\ host.left = n THEN "status_in" ELSE p) \in Phases
      BY DEF Phases
    <3>2. host.left - n \in Int
      BY <1>1
    <3> QED  BY <3>1, <3>2 DEF Inv, TypeOK, HostRecords, HostDataOut
  <2>2. rx' \in [setup: BOOLEAN, id: Ids, r: Requests \cup {None}, n: 0..PacketSize]
    BY <1>1, <1>3, HostTypes DEF Inv
  <2> QED  BY <1>0, <1>2, <2>1, <2>2, HostTypes, RequestTypes
           DEF Inv, TypeOK, HostRecords, HostDataOut, Status, ctl, dev
<1>5. Sound'
  BY <1>0, <1>1, <1>2, <1>3, HostTypes
     DEF Inv, TypeOK, Ids, Sound, HostDataOut, Receiving, Sending, ctl, dev
<1>6. Receiving'
  BY <1>0, <1>1, <1>2, <1>3 DEF Receiving, Current, Executed, HostDataOut, ctl, dev
<1> QED  BY <1>2, <1>4, <1>5, <1>6 DEF Inv, Stage, Receiving

\* A status packet reaches an endpoint that has nothing else to handle but the
\* packet it has sent.
LEMMA StatusPacketFacts ==
  ASSUME Inv, StatusPacket, host.phase \in {"status_out", "data_in"},
         NEW phase \in {"idle", "cut"}, NEW answer, IsThrough(host', phase, answer)
  PROVE  /\ TypeOK' /\ Sound'
         /\ host.phase = "status_out" => (Fetched /\ state = "tx_last") \/ Ending
<1>1. Offered \/ Fetched \/ Ending \/ Processing
  BY DEF Inv, Stage, StatusPacket, Rest, Waiting, Taken, Receiving, Acknowledging, Stalled
<1>2. (pc # "received" /\ state # "rx") \/ pc = "process"
  BY <1>1 DEF Offered, Fetched, Replying, Ending, Processing
<1>3. rx' = [setup |-> FALSE, id |-> host.id, r |-> None, n |-> 0]
  BY DEF StatusPacket
<1>4. TypeOK'
  BY <1>3, HostTypes, SizeAssumption DEF Inv, IsThrough, HostRecords, TypeOK,
     StatusPacket, Status, ctl, dev
<1>5. Sound'
  BY <1>2, <1>3, HostTypes DEF Inv, IsThrough, HostRecords, TypeOK, Ids, Sound,
     StatusPacket, Sending, ctl, dev
<1>6. host.phase = "status_out" => (Fetched /\ state = "tx_last") \/ Ending
  BY <1>1 DEF Offered, Fetched, Processing, Begun
<1> QED  BY <1>4, <1>5, <1>6

LEMMA HostStatusOutStep ==
  ASSUME Inv, HostStatusOut
  PROVE  Inv'
<1>1. IsThrough(host', "idle", host.got)
  BY IdleFacts, HostTypes DEF Inv, HostStatusOut
<1>2. TypeOK' /\ Sound' /\ ((Fetched /\ state = "tx_last") \/ Ending)
  BY <1>1, StatusPacketFacts DEF HostStatusOut
<1>3. Rest'
  BY <1>2 DEF Inv, Sound, HostStatusOut, StatusPacket, Rest, Fetched, Ending, ctl
<1> QED  BY <1>1, <1>2, <1>3 DEF Inv, IsThrough, HostRecords, Stage

LEMMA HostEndsEarlyStep ==
  ASSUME Inv, HostEndsEarly
  PROVE  Inv'
<1>1. IsThrough(host', "cut", None)
  BY IdleFacts DEF Inv, HostEndsEarly
<1>2. TypeOK' /\ Sound'
  BY <1>1, StatusPacketFacts DEF HostEndsEarly
<1> QED  BY <1>1, <1>2 DEF Inv, IsThrough, HostRecords, Stage

LEMMA HostGivesUpStep ==
  ASSUME Inv, HostGivesUp
  PROVE  Inv'
<1>1. IsThrough(host', "cut", None)
  BY IdleFacts DEF Inv, HostGivesUp
<1>2. TypeOK'
  BY <1>1, HostTypes DEF Inv, IsThrough, HostRecords, TypeOK, HostGivesUp, Phases, ctl,
     dev, ep
<1>3. Sound'
  BY <1>1 DEF Inv, IsThrough, HostRecords, Sound, HostGivesUp, ctl, dev, ep
<1> QED  BY <1>1, <1>2, <1>3 DEF Inv, IsThrough, HostRecords, Stage

\* The host sees a STALL only when the device has refused its request.
LEMMA HostSeesStallStep ==
  ASSUME Inv, HostSeesStall
  PROVE  Inv' /\ Stalled
<1>0. Stalled
  BY DEF Inv, Stage, HostSeesStall, Waiting, Taken, Processing, Receiving, Offered, Fetched,
     Replying, Begun, Ending, Acknowledging
<1>1. IsThrough(host', "idle", host.answer)
  BY IdleFacts DEF Inv, HostSeesStall
<1>2. TypeOK'
  BY <1>1, HostTypes DEF Inv, IsThrough, HostRecords, TypeOK, HostSeesStall, Phases, ctl,
     dev, ep
<1>3. Sound'
  BY <1>1 DEF Inv, IsThrough, HostRecords, Sound, HostSeesStall, ctl, dev, ep
<1>4. Rest'
  BY <1>0 DEF Stalled, Rest, HostSeesStall, ctl, ep
<1> QED  BY <1>0, <1>1, <1>2, <1>3, <1>4 DEF Inv, IsThrough, HostRecords, Stage

-----------------------------------------------------------------------------
(* The invariant always holds.                                              *)

LEMMA InitInv == Init => Inv
<1> SUFFICES ASSUME Init PROVE Inv
  OBVIOUS
<1>1. TypeOK
  <2>1. 0 \in Ids /\ "idle" \in Phases /\ "idle" \in States
    BY SizeAssumption DEF Ids, Phases, States
  <2>2. setup \in [id: Ids, r: Requests \cup {None}] /\ tx \in [id: Ids, n: 0..PacketSize]
    BY <2>1, SizeAssumption DEF Init
  <2>3. host \in HostRecords /\ host.phase = "idle" /\ host.r = None
    BY <2>1 DEF Init, HostRecords
  <2> QED  BY <2>1, <2>2, <2>3, NoPacketType DEF Init, TypeOK, Status, HostRecords
<1> QED  BY <1>1, NoPacketType DEF Init, Inv, Sound, Stage, Rest, Sending

LEMMA NextInv == Inv /\ [Next]_vars => Inv'
<1> SUFFICES ASSUME Inv, [Next]_vars PROVE Inv'
  OBVIOUS
<1>1. CASE MainLoop
  BY <1>1, PollStep, SendMoreStep, LastSentStep, StatusSentStep, ReceiveSetupStep,
     ReceiveDataStep, ReceiveStatusStep, ReceiveUnexpectedStep, ReplyWithDataStep,
     ReplyWithStatusStep, RefuseStep DEF MainLoop
<1>2. CASE Transaction
  BY <1>2, HostDataInStep, HostStatusInStep, HostDataOutStep, HostStatusOutStep,
     HostSeesStallStep DEF Transaction
<1>3. CASE HostEndsEarly \/ HostGivesUp
  BY <1>3, HostEndsEarlyStep, HostGivesUpStep
<1>4. CASE \E r \in Requests : HostSetup(r)
  BY <1>4, HostSetupStep
<1>5. CASE UNCHANGED vars
  BY <1>5 DEF vars, ctl, dev, ep, Inv, TypeOK, Sound, Stage, Rest, Waiting, Taken,
     Processing,
     Receiving, Offered, Fetched, Ending, Acknowledging, Stalled, Replying, SetupHere,
        Begun, Current, Executed, Wanted, Pipe!Answer
<1> QED  BY <1>1, <1>2, <1>3, <1>4, <1>5 DEF Next

LEMMA InvAlways == Spec => []Inv
  BY InitInv, NextInv, PTL DEF Spec

\* Every variable, the packets in the buffers and the host's record included, keeps
\* its type: what is left of the payload never goes below zero.
THEOREM TypeCorrect == Spec => []TypeOK
<1>1. Inv => TypeOK
  BY DEF Inv
<1> QED  BY <1>1, InvAlways, PTL

\* The host never gets a packet that was meant for an earlier request.
THEOREM PacketsAreOwn == Spec => []NoForeignPacket
<1>1. Inv => NoForeignPacket
  BY DEF Inv, NoForeignPacket
<1> QED  BY <1>1, InvAlways, PTL

\* usb_panic in the transmit handler (usb_core.c) is never reached.
THEOREM NeverPanics == Spec => []NoPanic
<1>1. Inv => NoPanic
  BY DEF Inv, Sound, NoPanic
<1> QED  BY <1>1, InvAlways, PTL

\* While the host waits for a request the device can serve, neither direction of
\* the endpoint is stalled.
THEOREM NeverRefusedFalsely == Spec => []NoFalseRefusal
<1>1. ASSUME Inv PROVE NoFalseRefusal
  <2>1. CASE host.r = None
    BY <2>1 DEF NoFalseRefusal
  <2>2. CASE host.r # None
    <3>1. host.phase \notin {"idle", "cut"}
      BY <1>1, <2>2, HostTypes DEF Inv
    <3> QED  BY <1>1, <3>1 DEF Inv, Stage, NoFalseRefusal, Waiting, Taken, Processing,
       Receiving, Offered, Fetched, Replying, Ending, Acknowledging, Stalled
  <2> QED  BY <2>1, <2>2
<1> QED  BY <1>1, InvAlways, PTL

-----------------------------------------------------------------------------
(* The endpoint implements ControlPipe.                                     *)

LEMMA AtRest == ASSUME TypeOK PROVE host.r = None <=> host.phase \in {"idle", "cut"}
  BY DEF TypeOK

\* A step that leaves the host and `executed' alone is none of the pipe's.
LEMMA Stutter ==
  ASSUME UNCHANGED <<host.r, host.id, host.answer, executed>>
  PROVE  UNCHANGED Pipe!vars
  BY DEF Pipe!vars

LEMMA ExecuteRefines ==
  ASSUME Inv, ReplyWithData \/ ReplyWithStatus
  PROVE  [Pipe!Next]_(Pipe!vars)
<1>1. host' = host /\ executed' = setup.id /\ setup.r.ok /\ pc = "process"
  BY DEF ReplyWithData, ReplyWithStatus, Execute, Go
<1>2. CASE host.r = None
  BY <1>1, <1>2 DEF Pipe!vars
<1>3. CASE host.r # None
  <2>1. Processing
    BY <1>1, <1>3, AtRest DEF Inv, Stage, Waiting, Taken, Receiving, Offered, Fetched,
       Replying, Ending, Acknowledging, Stalled
  <2>2. Pipe!Execute
    BY <1>1, <1>3, <2>1 DEF Processing, Current, Executed, Pipe!Execute
  <2> QED  BY <2>2 DEF Pipe!Next
<1> QED  BY <1>2, <1>3

LEMMA AskRefines ==
  ASSUME Inv, NEW r \in Requests, HostSetup(r)
  PROVE  Pipe!Ask(r)
<1>1. host.r = None
  BY AtRest DEF Inv, HostSetup
<1>2. host'.r = r /\ host'.id = host.id + 1 /\ host'.answer = host.answer /\ executed' = executed
  BY DEF Inv, TypeOK, HostSetup, dev
<1>3. executed # host.id + 1
  BY HostTypes DEF Inv, Sound, TypeOK, Ids
<1> QED  BY <1>1, <1>2, <1>3 DEF Pipe!Ask

LEMMA CompleteRefines ==
  ASSUME Inv, HostStatusIn \/ HostStatusOut
  PROVE  Pipe!Complete
<1>1. host.r \in Requests /\ host.r # None
  BY HostTypes, RequestTypes DEF Inv, HostStatusIn, HostStatusOut
<1>2. CASE HostStatusIn
  <2>1. Acknowledging \/ (Offered /\ host.r.wLength = 0)
    BY <1>2 DEF Inv, Stage, HostStatusIn, Waiting, Taken, Processing, Receiving, Fetched,
       Offered, Ending, Stalled
  <2>2. Executed /\ Pipe!Answer(host.r) = 0
    BY <1>1, <2>1, AnswerFacts, RequestTypes DEF Acknowledging, Offered, Replying
  <2>3. host'.r = None /\ host'.answer = 0
    BY <1>2 DEF Inv, TypeOK, HostStatusIn, Idle
  <2> QED  BY <1>1, <2>2, <2>3 DEF Pipe!Complete, Executed
<1>3. CASE HostStatusOut
  <2>1. (Fetched /\ state = "tx_last") \/ Ending
    BY <1>3, IdleFacts, HostTypes, StatusPacketFacts DEF Inv, HostStatusOut
  <2>2. Executed /\ host.got = Pipe!Answer(host.r)
    BY <2>1, HostTypes DEF Inv, Fetched, Replying, Ending, Wanted
  <2>3. host'.r = None /\ host'.answer = host.got
    BY <1>3 DEF Inv, TypeOK, HostStatusOut, Idle
  <2> QED  BY <1>1, <2>2, <2>3 DEF Pipe!Complete, Executed
<1> QED  BY <1>2, <1>3

LEMMA CutShortRefines ==
  ASSUME Inv, HostEndsEarly \/ HostGivesUp
  PROVE  Pipe!CutShort
<1>1. host.r # None
  BY RequestAssumption DEF HostEndsEarly, HostGivesUp
<1>2. host'.r = None /\ host'.answer = None
  BY IdleFacts DEF Inv, HostEndsEarly, HostGivesUp, IsThrough
<1> QED  BY <1>1, <1>2 DEF Pipe!CutShort

LEMMA RefuseRefines ==
  ASSUME Inv, HostSeesStall
  PROVE  Pipe!Refuse
<1>1. Stalled /\ host.r # None
  BY HostSeesStallStep, AtRest DEF Inv, HostSeesStall
<1>2. host'.r = None /\ host'.answer = host.answer
  BY IdleFacts DEF Inv, HostSeesStall, IsThrough
<1> QED  BY <1>1, <1>2 DEF Pipe!Refuse, Stalled, Executed

\* Each request is carried out at most once, and answered only then and with as
\* many bytes as the host asks for and the device has, or refused without having
\* been carried out, whatever the order in which the main loop and the host see
\* the ends of the stages.
THEOREM EndpointIsPipe == Spec => PipeSafety
<1>1. Init => Pipe!Init
  BY DEF Init, Pipe!Init
<1>2. Inv /\ [Next]_vars => [Pipe!Next]_(Pipe!vars)
  <2> SUFFICES ASSUME Inv, [Next]_vars PROVE [Pipe!Next]_(Pipe!vars)
    OBVIOUS
  <2>1. CASE ReplyWithData \/ ReplyWithStatus
    BY <2>1, ExecuteRefines
  <2>2. CASE Poll \/ SendMore \/ LastSent \/ StatusSent \/ ReceiveSetup \/ ReceiveData
               \/ ReceiveStatus \/ ReceiveUnexpected \/ Refuse \/ UNCHANGED vars
    BY <2>2, Stutter DEF Poll, SendMore, LastSent, StatusSent, ReceiveSetup, ReceiveData,
       ReceiveStatus, ReceiveUnexpected, Refuse, vars, dev
  <2>3. CASE HostDataIn \/ HostDataOut
    BY <2>3, Stutter, ZenonT(60) DEF Inv, TypeOK, HostDataIn, HostDataOut, dev
  <2>4. CASE HostStatusIn \/ HostStatusOut
    BY <2>4, CompleteRefines DEF Pipe!Next
  <2>5. CASE HostSeesStall
    BY <2>5, RefuseRefines DEF Pipe!Next
  <2>6. CASE HostEndsEarly \/ HostGivesUp
    BY <2>6, CutShortRefines DEF Pipe!Next
  <2>7. CASE \E r \in Requests : HostSetup(r)
    BY <2>7, AskRefines DEF Pipe!Next
  <2> QED  BY <2>1, <2>2, <2>3, <2>4, <2>5, <2>6, <2>7 DEF Next, MainLoop, Transaction
<1> QED  BY <1>1, <1>2, InvAlways, PTL DEF Spec, PipeSafety, Pipe!Safety

-----------------------------------------------------------------------------
(* The address, as long as the host does not give up SET_ADDRESS.           *)

AddressKept == \A r \in GivenUp : ~r.address

\* SET_ADDRESS is acknowledged under the old address and not yet in force ...
Announced ==
  /\ Acknowledging /\ host.r.address
  /\ address = host.id /\ daddr = host.addr

\* ... or the host has the acknowledgement and the main loop is about to see it.
Confirmed == state = "status_in" /\ (ctr_tx \/ pc = "sent") /\ address = host.addr

AddressInv ==
  /\ host.r # None => host.id # 0
  /\ IF callback = 0 THEN daddr = host.addr ELSE Announced \/ Confirmed
  /\ Acknowledging /\ host.r.address => callback # 0
  /\ state = "rx" => ~setup.r.address
  /\ host.phase = "cut" =>
       /\ pc = "process" => ~setup.r.address
       /\ rx.setup /\ (ctr_rx \/ pc = "received") => ~rx.r.address

LEMMA InitAddress == Init => AddressInv
  BY NoPacketType DEF Init, AddressInv, Acknowledging

\* A step of the main loop that changes neither addresses nor the host
LEMMA MainLoopAddress ==
  ASSUME Inv, AddressInv, MainLoop
  PROVE  AddressInv'
<1>1. ASSUME Poll PROVE AddressInv'
  BY <1>1 DEF Inv, Sound, AddressInv, Announced, Confirmed, Acknowledging, Poll,
     PollEvent, Go, dev
<1>2. ASSUME SendMore PROVE AddressInv'
  BY <1>2 DEF Inv, Sound, AddressInv, Announced, Confirmed, Acknowledging, SendMore,
     SendPart, Go, dev
<1>3. ASSUME LastSent PROVE AddressInv'
  BY <1>3 DEF Inv, Sound, AddressInv, Announced, Confirmed, Acknowledging, LastSent, Go,
     dev, ep
<1>4. ASSUME StatusSent PROVE AddressInv'
  BY <1>4 DEF Inv, Sound, Sending, AddressInv, Announced, Confirmed, Acknowledging,
     StatusSent, Callback, ep
<1>5. ASSUME ReceiveSetup PROVE AddressInv'
  <2>1. callback = 0 /\ rx.r \in Requests
    BY <1>5 DEF Inv, Sound, AddressInv, Announced, Confirmed, Acknowledging, ReceiveSetup
  <2> QED  BY <1>5, <2>1, RequestTypes, NoPacketType
           DEF Inv, Sound, AddressInv, Acknowledging, ReceiveSetup, Stall, dev
<1>6. ASSUME ReceiveData PROVE AddressInv'
  BY <1>6, NoPacketType DEF Inv, Sound, AddressInv, Announced, Confirmed, Acknowledging,
     ReceiveData, dev
<1>7. ASSUME ReceiveStatus PROVE AddressInv'
  BY <1>7 DEF Inv, Sound, AddressInv, Announced, Confirmed, Acknowledging, ReceiveStatus,
     Callback, Go
<1>8. ASSUME ReceiveUnexpected PROVE AddressInv'
  BY <1>8 DEF Inv, Sound, AddressInv, Announced, Confirmed, Acknowledging,
     ReceiveUnexpected, Stall, dev
<1>9. ASSUME ReplyWithData PROVE AddressInv'
  BY <1>9, RequestTypes DEF Inv, Sound, AddressInv, Announced, Confirmed, Acknowledging,
     ReplyWithData, Execute, SendPart, Go
<1>10. ASSUME ReplyWithStatus PROVE AddressInv'
  <2>1. callback = 0 /\ pc = "process" /\ setup.r \in Requests /\ ~ctr_tx
    BY <1>10 DEF Inv, Sound, AddressInv, Announced, Confirmed, Acknowledging,
       ReplyWithStatus, Go
  <2>2. CASE host.phase = "cut"
    BY <1>10, <2>1, <2>2, AtRest
       DEF Inv, AddressInv, Acknowledging, ReplyWithStatus, Execute, Go
  <2>3. CASE host.phase # "cut"
    <3>1. Processing
      BY <2>1, <2>3 DEF Inv, Stage, Rest, Waiting, Taken, Receiving, Offered, Fetched,
         Replying, Ending, Acknowledging, Stalled
    <3>2. Acknowledging'
      BY <1>10, <2>1, <3>1
         DEF ReplyWithStatus, Execute, Go, Processing, Begun, Current, Executed,
            Acknowledging
    <3> QED  BY <1>10, <2>1, <2>3, <3>1, <3>2, HostTypes, RequestTypes
             DEF Inv, AddressInv, Announced, Processing, Current, ReplyWithStatus,
                Execute, Go
  <2> QED  BY <2>2, <2>3
<1>11. ASSUME Refuse PROVE AddressInv'
  BY <1>11 DEF Inv, Sound, AddressInv, Announced, Confirmed, Acknowledging, Refuse,
     Stall, dev
<1> QED  BY <1>1, <1>2, <1>3, <1>4, <1>5, <1>6, <1>7, <1>8, <1>9, <1>10, <1>11 DEF MainLoop

LEMMA TransactionAddress ==
  ASSUME Inv, AddressInv, Transaction
  PROVE  AddressInv'
<1>1. ASSUME HostDataIn PROVE AddressInv'
  <2>1. Offered
    BY <1>1 DEF Inv, Stage, HostDataIn, Rest, Waiting, Taken, Processing, Receiving,
       Fetched, Ending, Acknowledging, Stalled
  <2>2. host'.r = host.r /\ host'.id = host.id /\ host'.addr = host.addr /\ host'.phase # "cut"
    BY <1>1 DEF Inv, TypeOK, HostRecords, HostDataIn
  <2> QED  BY <1>1, <2>1, <2>2 DEF AddressInv, Announced, Confirmed, Offered, Replying,
              Acknowledging, HostDataIn, ctl, dev
<1>2. ASSUME HostStatusIn PROVE AddressInv'
  <2>1. Acknowledging \/ (Offered /\ host.r.wLength = 0)
    BY <1>2 DEF Inv, Stage, HostStatusIn, Waiting, Taken, Processing, Receiving, Fetched,
       Offered, Ending, Stalled
  <2>2. /\ host'.r = None /\ host'.phase = "idle" /\ host.r \in Requests
        /\ host'.addr = IF host.r.address THEN host.id ELSE host.addr
    BY <1>2, HostTypes DEF Inv, TypeOK, HostStatusIn, Idle
  <2>3. CASE host.r.address
    <3>1. Announced /\ callback # 0
      BY <2>1, <2>2, <2>3, RequestTypes DEF AddressInv, Announced, Confirmed, Acknowledging,
         Offered, Replying
    <3> QED  BY <1>2, <2>2, <2>3, <3>1
             DEF AddressInv, Announced, Confirmed, Acknowledging, HostStatusIn, ctl, dev
  <2>4. CASE ~host.r.address
    <3>1. callback = 0
      BY <2>1, <2>4 DEF AddressInv, Announced, Confirmed, Acknowledging, Offered, Replying
    <3> QED  BY <1>2, <2>2, <2>4, <3>1 DEF AddressInv, Acknowledging, HostStatusIn, ctl, dev
  <2> QED  BY <2>3, <2>4
<1>3. ASSUME HostDataOut PROVE AddressInv'
  <2>1. Receiving
    BY <1>3 DEF Inv, Stage, HostDataOut, Rest, Waiting, Taken, Processing, Begun, Fetched,
       Offered, Replying, Ending, Acknowledging, Stalled
  <2>2. host'.r = host.r /\ host'.id = host.id /\ host'.addr = host.addr /\ host'.phase # "cut"
    BY <1>3 DEF Inv, TypeOK, HostDataOut
  <2> QED  BY <1>3, <2>1, <2>2
           DEF AddressInv, Announced, Confirmed, Receiving, Acknowledging, HostDataOut,
              ctl, dev
<1>4. ASSUME HostStatusOut PROVE AddressInv'
  <2>1. (Fetched /\ state = "tx_last") \/ Ending
    BY <1>4, IdleFacts, HostTypes, StatusPacketFacts DEF Inv, HostStatusOut
  <2>2. host'.r = None /\ host'.addr = host.addr /\ host'.phase = "idle"
    BY <1>4 DEF Inv, TypeOK, HostStatusOut, Idle
  <2> QED  BY <1>4, <2>1, <2>2 DEF AddressInv, Announced, Confirmed, Acknowledging, Fetched,
              Ending, HostStatusOut, StatusPacket, ctl, dev
<1>5. ASSUME HostSeesStall PROVE AddressInv'
  <2>1. Stalled
    BY <1>5, HostSeesStallStep
  <2>2. host'.r = None /\ host'.addr = host.addr /\ host'.phase = "idle"
    BY <1>5 DEF Inv, TypeOK, HostSeesStall, Idle
  <2> QED  BY <1>5, <2>1, <2>2 DEF AddressInv, Announced, Confirmed, Acknowledging, Stalled,
              HostSeesStall, ctl, dev, ep
<1> QED  BY <1>1, <1>2, <1>3, <1>4, <1>5 DEF Transaction

LEMMA SetupAddress ==
  ASSUME Inv, AddressInv, NEW r \in Requests, HostSetup(r)
  PROVE  AddressInv'
<1>1. host.r = None /\ ~Acknowledging
  BY AtRest DEF Inv, HostSetup, Acknowledging
<1>2. /\ host'.id = host.id + 1 /\ host'.addr = host.addr /\ host'.phase # "cut"
      /\ host.id \in Nat
  BY HostTypes DEF Inv, TypeOK, Ids, HostSetup
<1>3. ~Acknowledging'
  BY DEF HostSetup, Acknowledging
<1> QED  BY <1>1, <1>2, <1>3
         DEF AddressInv, Announced, Confirmed, HostSetup, ctl, dev

\* The request given up is not SET_ADDRESS.
LEMMA CutAddress ==
  ASSUME Inv, AddressInv, AddressKept, HostEndsEarly \/ HostGivesUp
  PROVE  AddressInv'
<1>1. /\ host.r \in Requests /\ ~host.r.address /\ host.phase \notin {"idle", "cut"}
      /\ host'.r = None /\ host'.addr = host.addr /\ host'.phase = "cut"
  BY RequestAssumption, AtRest, ZenonT(60)
     DEF Inv, TypeOK, AddressKept, HostEndsEarly, HostGivesUp, CutShort, Idle
<1>2. ~Announced /\ ~Acknowledging'
  BY <1>1 DEF Announced, Acknowledging
<1>3. pc = "process" => ~setup.r.address
  BY <1>1 DEF Inv, Stage, Waiting, Taken, Processing, Current, Receiving, Offered, Fetched,
     Ending, Acknowledging, Stalled
<1>4. rx.setup /\ (ctr_rx \/ pc = "received") => ~rx.r.address
  BY <1>1 DEF Inv, Stage, Waiting, Taken, SetupHere, Processing, Receiving, Offered,
     Fetched, Replying, Ending, Acknowledging, Stalled
<1>5. CASE HostEndsEarly
  <2>1. ~rx'.setup
    BY <1>5 DEF HostEndsEarly, StatusPacket
  <2> QED  BY <1>1, <1>2, <1>3, <1>5, <2>1
           DEF AddressInv, Confirmed, HostEndsEarly, StatusPacket, ctl, dev
<1>6. CASE HostGivesUp
  BY <1>1, <1>2, <1>3, <1>4, <1>6 DEF AddressInv, Confirmed, HostGivesUp, ctl, dev, ep
<1> QED  BY <1>5, <1>6

\* The device takes its new address only when the host has the acknowledgement of
\* SET_ADDRESS, and before it looks at the next request, provided that the host
\* never gives up that request.
THEOREM AddressFollows ==
  ASSUME AddressKept
  PROVE  Spec => []AddressChange
<1>1. Inv /\ AddressInv /\ [Next]_vars => AddressInv'
  <2> SUFFICES ASSUME Inv, AddressInv, [Next]_vars PROVE AddressInv'
    OBVIOUS
  <2>1. CASE UNCHANGED vars
    BY <2>1 DEF vars, ctl, dev, ep, AddressInv, Announced, Confirmed, Acknowledging,
       Current, Executed
  <2> QED  BY <2>1, MainLoopAddress, TransactionAddress, SetupAddress, CutAddress DEF Next
<1>2. AddressInv => AddressChange
  BY DEF AddressInv, AddressChange, Announced, Confirmed, Acknowledging
<1> QED  BY <1>1, <1>2, InitAddress, InvAlways, PTL DEF Spec
=============================================================================
