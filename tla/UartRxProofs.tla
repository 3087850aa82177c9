---------------------------- MODULE UartRxProofs ----------------------------
(***************************************************************************)
(* Theorems about UartRx: its types and the bookkeeping of parity errors,  *)
(* for all values of the constants; and that a sender which observes RTS   *)
(* never overruns the buffer, whose content reaches the endpoint once and  *)
(* in order, for every buffer size of at least six times the characters    *)
(* that arrive in a turn of the main loop (Paced), which is exact: TLC     *)
(* finds the overrun for Size = 10 and Burst = 2.                          *)
(***************************************************************************)
EXTENDS UartRx, FiniteSetTheorems, TLAPS

Paced == FlowControl /\ 6 * Burst <= Size

-----------------------------------------------------------------------------
(* The content of a circular buffer as its ends move, for every size.       *)

\* The remainder of a difference of two indices.
LEMMA RemainderOfDifference ==
  ASSUME NEW size \in Nat \ {0}, NEW a \in 0..(size - 1), NEW b \in 0..(size - 1)
  PROVE  (a - b) % size = IF a >= b THEN a - b ELSE a - b + size
<1>1. CASE a >= b
  <2>1. a - b \in Int /\ 0 <= a - b /\ a - b < size  BY <1>1, SMT
  <2>2. (a - b) % size = a - b  BY <2>1, SMT
  <2> QED  BY <1>1, <2>2
<1>2. CASE a < b
  <2>1. a - b \in Int /\ -size <= a - b /\ a - b < 0  BY <1>2, SMT
  <2>2. (a - b) % size = a - b + size  BY <2>1, SMT
  <2> QED  BY <1>2, <2>2, SMT
<1> QED  BY <1>1, <1>2, SMT

\* The remainder of an index moved forward by at most the size.
LEMMA RemainderOfSum ==
  ASSUME NEW size \in Nat \ {0}, NEW a \in 0..(size - 1), NEW n \in 0..size
  PROVE  (a + n) % size = IF a + n < size THEN a + n ELSE a + n - size
<1>1. CASE a + n < size
  <2>1. (a + n) % size = a + n  BY <1>1, SMT
  <2> QED  BY <1>1, <2>1
<1>2. CASE a + n >= size
  <2>1. a + n \in Int /\ size <= a + n /\ a + n < 2 * size  BY <1>2, SMT
  <2>2. (a + n) % size = a + n - size  BY <2>1, SMT
  <2> QED  BY <1>2, <2>2, SMT
<1> QED  BY <1>1, <1>2, SMT

\* circ_buf_count and circ_buf_space add up to size - 1: a buffer of size bytes
\* holds at most size - 1.
LEMMA CountAndSpace ==
  ASSUME NEW size \in Nat \ {0},
         NEW h \in 0..(size - 1), NEW t \in 0..(size - 1)
  PROVE  /\ circ_buf_count(h, t, size) \in 0..(size - 1)
         /\ circ_buf_space(h, t, size)
              = size - 1 - circ_buf_count(h, t, size)
<1>1. circ_buf_count(h, t, size)
        = IF h >= t THEN h - t ELSE h - t + size
  BY RemainderOfDifference DEF circ_buf_count
<1>2. (t - (h + 1)) % size
        = IF t > h THEN t - h - 1 ELSE t - h - 1 + size
  <2>1. CASE t > h
    <3>1. t - (h + 1) \in Int /\ 0 <= t - (h + 1)
            /\ t - (h + 1) < size
      BY <2>1, SMT
    <3>2. (t - (h + 1)) % size = t - (h + 1)  BY <3>1, SMT
    <3> QED  BY <2>1, <3>2, SMT
  <2>2. CASE t <= h
    <3>1. t - (h + 1) \in Int /\ -size <= t - (h + 1)
            /\ t - (h + 1) < 0
      BY <2>2, SMT
    <3>2. (t - (h + 1)) % size = t - (h + 1) + size  BY <3>1, SMT
    <3> QED  BY <2>2, <3>2, SMT
  <2> QED  BY <2>1, <2>2, SMT
<1> QED  BY <1>1, <1>2, SMT DEF circ_buf_space, circ_buf_count

\* The remainder of circ_buf_count, written out.
LEMMA CountCases ==
  ASSUME NEW size \in Nat \ {0},
         NEW h \in 0..(size - 1), NEW t \in 0..(size - 1)
  PROVE  /\ circ_buf_count(h, t, size)
              = IF h >= t THEN h - t ELSE h - t + size
         /\ circ_buf_count(h, t, size) \in 0..(size - 1)
<1>1. circ_buf_count(h, t, size) = IF h >= t THEN h - t ELSE h - t + size
  BY RemainderOfDifference DEF circ_buf_count
<1> QED  BY <1>1, SMT

\* The remainder of Advance, written out.
LEMMA AdvanceCases ==
  ASSUME NEW size \in Nat \ {0}, NEW index \in 0..(size - 1), NEW n \in 0..size
  PROVE  /\ Advance(index, n, size)
              = IF index + n < size THEN index + n ELSE index + n - size
         /\ Advance(index, n, size) \in 0..(size - 1)
<1>1. Advance(index, n, size)
        = IF index + n < size THEN index + n ELSE index + n - size
  BY RemainderOfSum DEF Advance
<1> QED  BY <1>1, SMT

\* Two contents end to end are one, if they fit.
THEOREM CountJoined ==
  ASSUME NEW size \in Nat \ {0}, NEW i \in 0..(size - 1), NEW j \in 0..(size - 1),
         NEW k \in 0..(size - 1),
         circ_buf_count(j, i, size) + circ_buf_count(k, j, size) < size
  PROVE  circ_buf_count(k, i, size)
           = circ_buf_count(j, i, size) + circ_buf_count(k, j, size)
<1>1. circ_buf_count(j, i, size) = IF j >= i THEN j - i ELSE j - i + size
  BY CountCases
<1>2. circ_buf_count(k, j, size) = IF k >= j THEN k - j ELSE k - j + size
  BY CountCases
<1>3. circ_buf_count(k, i, size) = IF k >= i THEN k - i ELSE k - i + size
  BY CountCases
<1> QED  BY <1>1, <1>2, <1>3, SMT

\* Reading n bytes leaves n less.
THEOREM CountAfterRead ==
  ASSUME NEW size \in Nat \ {0},
         NEW h \in 0..(size - 1), NEW t \in 0..(size - 1),
         NEW n \in 0..circ_buf_count(h, t, size)
  PROVE  /\ Advance(t, n, size) \in 0..(size - 1)
         /\ circ_buf_count(h, Advance(t, n, size), size)
              = circ_buf_count(h, t, size) - n
<1> DEFINE k == Advance(t, n, size)
<1>1. /\ circ_buf_count(h, t, size)
          = IF h >= t THEN h - t ELSE h - t + size
      /\ circ_buf_count(h, t, size) \in 0..(size - 1)
  BY CountCases
<1>2. n \in 0..size  BY <1>1, SMT
<1>3. k = (IF t + n < size THEN t + n ELSE t + n - size) /\ k \in 0..(size - 1)
  BY <1>2, AdvanceCases
<1> HIDE DEF k
<1>4. circ_buf_count(h, k, size) = IF h >= k THEN h - k ELSE h - k + size
  BY <1>3, CountCases
<1> QED  BY <1>1, <1>3, <1>4, SMT DEF k

\* Storing a byte adds one, as long as one more slot stays empty.
THEOREM CountAfterStore ==
  ASSUME NEW size \in Nat \ {0},
         NEW h \in 0..(size - 1), NEW t \in 0..(size - 1),
         circ_buf_count(h, t, size) < size - 1
  PROVE  /\ Advance(h, 1, size) \in 0..(size - 1)
         /\ circ_buf_count(Advance(h, 1, size), t, size)
              = circ_buf_count(h, t, size) + 1
<1> DEFINE k == Advance(h, 1, size)
<1>1. circ_buf_count(h, t, size)
        = IF h >= t THEN h - t ELSE h - t + size
  BY CountCases
<1>2. 1 \in 0..size  BY SMT
<1>3. k = (IF h + 1 < size THEN h + 1 ELSE h + 1 - size) /\ k \in 0..(size - 1)
  BY <1>2, AdvanceCases
<1> HIDE DEF k
<1>4. circ_buf_count(k, t, size) = IF k >= t THEN k - t ELSE k - t + size
  BY <1>3, CountCases
<1> QED  BY <1>1, <1>3, <1>4, SMT DEF k

\* Slots are told apart by how far they are from the t.
THEOREM CountSeparates ==
  ASSUME NEW size \in Nat \ {0}, NEW t \in 0..(size - 1),
         NEW i \in 0..(size - 1), NEW j \in 0..(size - 1),
         circ_buf_count(i, t, size) = circ_buf_count(j, t, size)
  PROVE  i = j
<1>1. circ_buf_count(i, t, size) = IF i >= t THEN i - t ELSE i - t + size
  BY CountCases
<1>2. circ_buf_count(j, t, size) = IF j >= t THEN j - t ELSE j - t + size
  BY CountCases
<1>3. (IF i >= t THEN i - t ELSE i - t + size)
        = (IF j >= t THEN j - t ELSE j - t + size)
  BY <1>1, <1>2
<1>4. i \in Int /\ j \in Int /\ t \in Int /\ size \in Int
      /\ 0 <= i /\ i < size /\ 0 <= j /\ j < size
  BY SMT
<1> QED  BY <1>3, <1>4, SMT

-----------------------------------------------------------------------------
(* The inductive invariant.                                                 *)

\* The slot the channel stores into next, and what has been stored and not read
Slot   == Size - cndtr
Unread == circ_buf_count(Slot, tail, Size)
Passed == Len(received) + Len(ep.packet)

\* The endpoint's buffer is written only while the host may not read it, and holds
\* nothing unless a packet is under way.
TransferInv ==
  /\ pc \in {"mask", "copy"} => ~ep.busy /\ Len(ep.packet) + left <= PacketSize
  /\ pc = "mask" => masked <= left /\ ep.packet = << >>
  /\ ~ep.busy /\ pc # "copy" => ep.packet = << >>
  /\ line = 1 => written < MaxBytes

\* A parity error in serial_state which no notification has reported yet
Untold == "parity" \in serial_state /\ ~(pc = "clear" /\ "parity" \in state)

\* What is about to be sent, then cleared, is still set: only ClearErrors clears it.
ErrorInv ==
  /\ pc \in {"changed", "clear"} => state \cap Errors \subseteq serial_state
  /\ errors.told + (IF Untold THEN 1 ELSE 0) <= errors.seen

\* The head index is behind the channel by the characters since the counter was
\* read, and by those of the turn before while the new head is not yet stored.
LagInv ==
  IF pc = "synced"
  THEN /\ circ_buf_count(Slot, dma_head, Size) = burst
       /\ circ_buf_count(dma_head, head, Size) <= Burst
       /\ Unread = Count + circ_buf_count(dma_head, head, Size) + burst
  ELSE circ_buf_count(Slot, head, Size) = burst /\ Unread = Count + burst

\* RTS was set for a head index that has moved by at most one turn's characters
\* since; with the lag that leaves room for a character that has been started.
RoomInv ==
  /\ rts => Count + 2 <= Size \div 2 + Burst
  /\ Unread + line <= Size - 1
  /\ pc \in {"mask", "copy"} => left <= Count

\* Each character is where its number says it is.
ContentInv ==
  /\ Passed + Unread = written
  /\ \A i \in 0..(Size - 1) :
       circ_buf_count(i, tail, Size) < Unread
         => data[i].n = Passed + circ_buf_count(i, tail, Size) + 1
  /\ \A k \in 1..Len(received) : received[k].n = k
  /\ \A k \in 1..Len(ep.packet) : ep.packet[k].n = Len(received) + k
  /\ "overrun" \notin serial_state

Inv  == TypeOK /\ TransferInv /\ ErrorInv
Flow == LagInv /\ RoomInv /\ ContentInv

-----------------------------------------------------------------------------
(* Facts for the provers.                                                   *)

LEMMA Sizes ==
  /\ Size \in Nat \ {0} /\ Size > 3 /\ 0 \in 0..(Size - 1)
  /\ 2 * (Size \div 2) = Size /\ Size \div 2 \in Nat
  /\ PacketSize \in 1..(Size - 1)
  /\ Burst \in Nat /\ MaxBytes \in Nat /\ MaxEvents \in Nat
<1>1. Size \in Nat /\ Size > 3 /\ Size % 2 = 0  BY SizeAssumption
<1>2. Burst \in Nat /\ MaxBytes \in Nat /\ MaxEvents \in Nat  BY BoundsAssumption
<1>3. 2 * (Size \div 2) = Size /\ Size \div 2 \in Nat  BY <1>1, SMT
<1> QED  BY <1>1, <1>2, <1>3, PacketAssumption, SMT

\* The types of the parts of the state (cited as Fields!2 below)
LEMMA Fields ==
  ASSUME TypeOK
  PROVE  /\ head \in 0..(Size - 1) /\ tail \in 0..(Size - 1) /\ dma_head \in 0..(Size - 1)
         /\ Slot \in 0..(Size - 1) /\ cndtr \in 1..Size
         /\ left \in 0..PacketSize /\ masked \in 0..PacketSize
         /\ line \in 0..1 /\ burst \in 0..Burst /\ written \in 0..MaxBytes
         /\ errors.seen \in Nat /\ errors.told \in Nat
         /\ ep.busy \in BOOLEAN /\ Len(ep.packet) \in Nat /\ Len(received) \in Nat
         /\ Count \in 0..(Size - 1) /\ Unread \in 0..(Size - 1)
<1>1. Slot \in 0..(Size - 1)
  <2>1. cndtr \in 1..Size  BY DEF TypeOK
  <2> QED  BY <2>1, Sizes, SMT DEF Slot
<1>2. ep.packet \in Seq(Bytes) /\ received \in Seq(Bytes)  BY DEF TypeOK
<1>3. head \in 0..(Size - 1) /\ tail \in 0..(Size - 1) /\ dma_head \in 0..(Size - 1)
  BY DEF TypeOK
<1>4. Count \in 0..(Size - 1) /\ Unread \in 0..(Size - 1)
  BY <1>1, <1>3, Sizes, CountCases DEF Count, Unread
<1> QED  BY <1>1, <1>2, <1>3, <1>4 DEF TypeOK

-----------------------------------------------------------------------------
(* Type correctness.                                                        *)

LEMMA TypeInit == Init => TypeOK /\ TransferInv
<1> SUFFICES ASSUME Init PROVE TypeOK /\ TransferInv
  OBVIOUS
<1>1. data \in [0..(Size - 1) -> Bytes]  BY DEF Init, Bytes
<1>2. ep \in [busy: BOOLEAN, packet: Seq(Bytes)] /\ Len(ep.packet) = 0 /\ ep.packet = << >>
  BY DEF Init
<1>3. errors \in [seen: Nat, told: Nat]  BY DEF Init
<1>4. received \in Seq(Bytes)  BY DEF Init
<1>5. /\ 0 \in 0..(Size - 1) /\ 0 \in 0..PacketSize /\ 0 <= PacketSize
      /\ Size \in 1..Size /\ 0 \in 0..1
      /\ 0 \in 0..Burst /\ 0 \in 0..MaxBytes /\ 0 \in 0..MaxEvents
  BY Sizes, SMT
<1>6. TypeOK
  BY <1>1, <1>2, <1>3, <1>4, <1>5 DEF Init, TypeOK
<1>7. TransferInv  BY <1>2 DEF Init, TransferInv
<1> QED  BY <1>6, <1>7

\* The events in front of the poll.
LEMMA TypeEvent == TypeOK /\ Event => TypeOK'
<1> SUFFICES ASSUME TypeOK, Event PROVE TypeOK'
  OBVIOUS
<1>1. ASSUME NEW b \in BOOLEAN, SetControlLineState(b) PROVE TypeOK'
  BY <1>1, Sizes, SMT DEF TypeOK, SetControlLineState, Go, RtsLevel, rx_buf, serial, local
<1>2. ASSUME NEW b \in BOOLEAN, SetLineCoding(b) PROVE TypeOK'
  BY <1>2, Sizes, SMT DEF TypeOK, SetLineCoding, Go, rx_buf, local
<1>3. CASE Frame
  BY <1>3 DEF TypeOK, Frame, Go, Flags, rx_buf, local, env
<1>4. CASE OtherEvent
  BY <1>4 DEF TypeOK, OtherEvent, Go, rx_buf, serial, local, env
<1> QED  BY <1>1, <1>2, <1>3, <1>4 DEF Event

\* Synchronising the buffer and notifying the host.
LEMMA TypeNotify ==
  ASSUME TypeOK, ReadCounter \/ SyncHead \/ ReadState \/ SendState \/ ClearErrors
  PROVE  TypeOK'
<1>1. CASE ReadCounter
  <2>1. Slot \in 0..(Size - 1)  BY Fields
  <2> QED  BY <1>1, <2>1, Sizes, SMT DEF TypeOK, ReadCounter, Go, Slot, rx_buf, serial
<1>2. CASE SyncHead
  BY <1>2 DEF TypeOK, SyncHead, Go, RtsLevel, Flags, Errors, local, env
<1>3. CASE ReadState
  BY <1>3 DEF TypeOK, ReadState, Go, rx_buf, serial, env
<1>4. CASE SendState
  <2>1. state \in SUBSET Flags  BY DEF TypeOK
  <2>2. notification' \in [busy: BOOLEAN, flags: SUBSET Flags]
    <3>1. notification \in [busy: BOOLEAN, flags: SUBSET Flags]  BY DEF TypeOK
    <3>2. notification' = notification \/ notification' = [busy |-> TRUE, flags |-> state]
      BY <1>4 DEF SendState
    <3>3. [busy |-> TRUE, flags |-> state] \in [busy: BOOLEAN, flags: SUBSET Flags]
      BY <2>1
    <3> QED  BY <3>1, <3>2, <3>3
  <2>3. Cardinality(state \cap {"parity"}) \in Nat
    <3>1. IsFiniteSet({"parity"})  BY FS_Singleton
    <3>2. IsFiniteSet(state \cap {"parity"})  BY <3>1, FS_Subset
    <3> QED  BY <3>2, FS_CardinalityType
  <2>4. errors' \in [seen: Nat, told: Nat]
    BY <1>4, <2>3 DEF TypeOK, SendState
  <2> QED  BY <1>4, <2>2, <2>4 DEF TypeOK, SendState, Go, rx_buf, serial, local
<1>5. CASE ClearErrors
  BY <1>5 DEF TypeOK, ClearErrors, Toggle, Go, Flags, Errors, rx_buf, local, env
<1> QED  BY <1>1, <1>2, <1>3, <1>4, <1>5

\* Sending a packet: usb_cdc_port_send_rx_usb
LEMMA TypeSend ==
  ASSUME TypeOK, TransferInv,
         BeginSend \/ MaskByte \/ EndMask \/ CopyByte \/ EndSend \/ SendNothing \/ SendZlp
  PROVE  TypeOK'
<1>0. Fields!2  BY Fields
<1>1. CASE BeginSend
  <2>1. left' \in 0..PacketSize /\ masked' \in 0..PacketSize
    BY <1>0, <1>1, Sizes, SMT DEF BeginSend
  <2> QED  BY <1>1, <2>1 DEF TypeOK, BeginSend, rx_buf, serial, env
<1>2. CASE MaskByte
  <2>1. masked' \in 0..PacketSize
    <3>1. masked' = masked + 1 /\ masked < left  BY <1>2 DEF MaskByte
    <3> QED  BY <1>0, <3>1, Sizes, SMT
  <2>2. data' \in [0..(Size - 1) -> Bytes]
    <3>1. data \in [0..(Size - 1) -> [n: Nat, bit7: BOOLEAN]]  BY DEF TypeOK, Bytes
    <3>2. data' = data \/ data' = [data EXCEPT ![tail + masked].bit7 = FALSE]
      BY <1>2 DEF MaskByte
    <3> QED  BY <3>1, <3>2 DEF Bytes
  <2>3. spilled' \in BOOLEAN  BY <1>2 DEF TypeOK, MaskByte
  <2> QED  BY <1>2, <2>1, <2>2, <2>3 DEF TypeOK, MaskByte, serial, env
<1>3. CASE EndMask
  BY <1>3 DEF TypeOK, EndMask, Go, rx_buf, serial, local, env
<1>4. CASE CopyByte
  <2>1. tail' \in 0..(Size - 1)
    <3>1. 1 \in 0..Size  BY Sizes, SMT
    <3>2. tail' = Advance(tail, 1, Size)  BY <1>4 DEF CopyByte
    <3> QED  BY <1>0, <3>1, <3>2, Sizes, AdvanceCases
  <2>2. left' \in 0..PacketSize
    <3>1. left' = left - 1 /\ left > 0  BY <1>4 DEF CopyByte
    <3> QED  BY <1>0, <3>1, Sizes, SMT
  <2>3. data[tail] \in Bytes  BY <1>0 DEF TypeOK
  <2>4. ep.packet \in Seq(Bytes) /\ ep \in [busy: BOOLEAN, packet: Seq(Bytes)]
    BY DEF TypeOK
  <2>5. Append(ep.packet, data[tail]) \in Seq(Bytes)
        /\ Len(Append(ep.packet, data[tail])) = Len(ep.packet) + 1
    BY <2>3, <2>4
  <2>6. ep' \in [busy: BOOLEAN, packet: Seq(Bytes)] /\ Len(ep'.packet) = Len(ep.packet) + 1
    BY <1>4, <2>4, <2>5 DEF CopyByte
  <2>7. Len(ep'.packet) <= PacketSize
    <3>1. Len(ep.packet) + left <= PacketSize /\ left > 0
      BY <1>4 DEF CopyByte, TransferInv
    <3> QED  BY <1>0, <2>6, <3>1, Sizes, SMT
  <2> QED  BY <1>4, <2>1, <2>2, <2>6, <2>7 DEF TypeOK, CopyByte, serial, env
<1>5. CASE EndSend
  <2>1. ep' \in [busy: BOOLEAN, packet: Seq(Bytes)] /\ ep'.packet = ep.packet
    BY <1>5 DEF TypeOK, EndSend
  <2>2. rts' \in BOOLEAN /\ rx_zlp_pending' \in BOOLEAN
    BY <1>5 DEF TypeOK, EndSend, RtsLevel
  <2> QED  BY <1>5, <2>1, <2>2 DEF TypeOK, EndSend, Go, rx_buf, serial, local, env
<1>6. CASE SendNothing
  BY <1>6 DEF TypeOK, SendNothing, Go, rx_buf, serial, local, env
<1>7. CASE SendZlp
  <2>1. ep' \in [busy: BOOLEAN, packet: Seq(Bytes)] /\ Len(ep'.packet) <= PacketSize
    BY <1>7, Sizes, SMT DEF SendZlp
  <2> QED  BY <1>7, <2>1 DEF TypeOK, SendZlp, Go, rx_buf, serial, local, env
<1> QED  BY <1>1, <1>2, <1>3, <1>4, <1>5, <1>6, <1>7

\* The interrupt, the sender, the channel, the inputs and the host.
LEMMA TypeOthers ==
  ASSUME TypeOK, TransferInv,
         UsartIrq \/ StartCharacter \/ StoreCharacter \/ ChangeInputs \/ HostReadsData
           \/ HostReadsNotification
  PROVE  TypeOK'
<1>0. Fields!2  BY Fields
<1>1. CASE UsartIrq
  <2>1. events' \in 0..MaxEvents
    <3>1. events \in 0..MaxEvents  BY DEF TypeOK
    <3> QED  BY <1>1, <3>1, Sizes, SMT DEF UsartIrq
  <2>2. errors' \in [seen: Nat, told: Nat]
    <3>1. errors \in [seen: Nat, told: Nat]  BY DEF TypeOK
    <3>2. errors' = [errors EXCEPT !.seen = @ + 1]  BY <1>1 DEF UsartIrq
    <3> QED  BY <3>1, <3>2, SMT
  <2> QED  BY <1>1, <2>1, <2>2 DEF TypeOK, UsartIrq, Flags, Errors, rx_buf, local
<1>2. CASE StartCharacter
  <2>1. line' \in 0..1  BY <1>2 DEF StartCharacter
  <2> QED  BY <1>2, <2>1 DEF TypeOK, StartCharacter, rx_buf, serial, local
<1>3. CASE StoreCharacter
  <2>1. line' \in 0..1 /\ burst' \in 0..Burst
    BY <1>0, <1>3, Sizes, SMT DEF StoreCharacter
  <2>2. written' \in 0..MaxBytes
    BY <1>0, <1>3, Sizes, SMT DEF StoreCharacter, TransferInv
  <2>3. cndtr' \in 1..Size  BY <1>0, <1>3, Sizes, SMT DEF StoreCharacter
  <2>4. [n |-> written + 1, bit7 |-> TRUE] \in Bytes  BY <1>0, Sizes, SMT DEF Bytes
  <2>5. data' \in [0..(Size - 1) -> Bytes]  BY <1>3, <2>4 DEF TypeOK, StoreCharacter
  <2> QED  BY <1>3, <2>1, <2>2, <2>3, <2>5 DEF TypeOK, StoreCharacter, serial, local
<1>4. CASE ChangeInputs
  <2>1. events' \in 0..MaxEvents
    <3>1. events \in 0..MaxEvents  BY DEF TypeOK
    <3> QED  BY <1>4, <3>1, Sizes, SMT DEF ChangeInputs
  <2> QED  BY <1>4, <2>1 DEF TypeOK, ChangeInputs, rx_buf, serial, local
<1>5. CASE HostReadsData
  <2>1. received \in Seq(Bytes) /\ ep.packet \in Seq(Bytes)  BY DEF TypeOK
  <2>2. received' \in Seq(Bytes)  BY <1>5, <2>1 DEF HostReadsData
  <2>3. ep' \in [busy: BOOLEAN, packet: Seq(Bytes)] /\ Len(ep'.packet) <= PacketSize
    BY <1>5, Sizes, SMT DEF HostReadsData
  <2> QED  BY <1>5, <2>2, <2>3 DEF TypeOK, HostReadsData, rx_buf, serial, local
<1>6. CASE HostReadsNotification
  <2>1. notification \in [busy: BOOLEAN, flags: SUBSET Flags]  BY DEF TypeOK
  <2>2. notification' \in [busy: BOOLEAN, flags: SUBSET Flags] /\ reported' \subseteq Flags
    BY <1>6, <2>1 DEF HostReadsNotification
  <2> QED  BY <1>6, <2>2 DEF TypeOK, HostReadsNotification, rx_buf, serial, local
<1> QED  BY <1>1, <1>2, <1>3, <1>4, <1>5, <1>6

LEMMA TypeStep == TypeOK /\ TransferInv /\ [Next]_vars => TypeOK'
<1> SUFFICES ASSUME TypeOK, TransferInv, [Next]_vars PROVE TypeOK'
  OBVIOUS
<1>1. CASE UNCHANGED vars
  BY <1>1 DEF TypeOK, vars, rx_buf, serial, local, env
<1> QED  BY <1>1, TypeEvent, TypeNotify, TypeSend, TypeOthers DEF Next, Poll

-----------------------------------------------------------------------------
(* The packet under way.                                                    *)

LEMMA TransferUnaffected ==
  ASSUME TransferInv, UNCHANGED <<ep, left, masked, line, written>>,
         pc' = pc \/ (pc # "copy" /\ pc' \notin {"mask", "copy"})
  PROVE  TransferInv'
  BY DEF TransferInv

LEMMA TransferStep == TypeOK /\ TransferInv /\ [Next]_vars => TransferInv'
<1> SUFFICES ASSUME TypeOK, TransferInv, [Next]_vars PROVE TransferInv'
  OBVIOUS
<1>0. Fields!2  BY Fields
<1>1. CASE \/ Event \/ ReadCounter \/ SyncHead \/ ReadState \/ SendState \/ ClearErrors
           \/ SendNothing
  <2>1. UNCHANGED <<ep, left, masked, line, written>>
    BY <1>1 DEF Event, SetControlLineState, SetLineCoding, Frame, OtherEvent, ReadCounter,
                SyncHead, ReadState, SendState, ClearErrors, SendNothing, local, env
  <2>2. pc # "copy" /\ pc' \notin {"mask", "copy"}
    BY <1>1 DEF Event, SetControlLineState, SetLineCoding, Frame, OtherEvent, ReadCounter,
                SyncHead, ReadState, SendState, ClearErrors, SendNothing, Go
  <2> QED  BY <2>1, <2>2, TransferUnaffected
<1>2. CASE UsartIrq \/ ChangeInputs \/ HostReadsNotification \/ UNCHANGED vars
  <2>1. UNCHANGED <<ep, left, masked, line, written, pc>>
    BY <1>2 DEF UsartIrq, ChangeInputs, HostReadsNotification, local, env, vars
  <2> QED  BY <2>1, TransferUnaffected
<1>3. CASE BeginSend
  <2>1. /\ pc = "send" /\ ~ep.busy /\ masked' = 0 /\ pc' \in {"mask", "copy"}
        /\ UNCHANGED <<ep, line, written>>
        /\ left' = IF Count < PacketSize THEN Count ELSE PacketSize
    BY <1>3 DEF BeginSend, env
  <2>2. ep.packet = << >>  BY <2>1 DEF TransferInv
  <2>3. Len(ep.packet) = 0  BY <2>2
  <2>4. Len(ep.packet) + left' <= PacketSize /\ 0 <= left'
    BY <1>0, <2>1, <2>3, Sizes, SMT
  <2> QED  BY <2>1, <2>2, <2>4 DEF TransferInv
<1>4. CASE MaskByte
  <2>1. /\ pc = "mask" /\ pc' = pc /\ masked < left /\ masked' = masked + 1
        /\ UNCHANGED <<ep, left, line, written>>
    BY <1>4 DEF MaskByte, env
  <2>2. masked' <= left'  BY <1>0, <2>1, Sizes, SMT
  <2> QED  BY <2>1, <2>2 DEF TransferInv
<1>5. CASE EndMask
  BY <1>5 DEF EndMask, Go, TransferInv, local, env
<1>6. CASE CopyByte
  <2>1. /\ pc = "copy" /\ pc' = pc /\ left > 0 /\ left' = left - 1
        /\ UNCHANGED <<line, written>>
        /\ ep' = [ep EXCEPT !.packet = Append(@, data[tail])]
    BY <1>6 DEF CopyByte, env
  <2>2. ep \in [busy: BOOLEAN, packet: Seq(Bytes)] /\ data[tail] \in Bytes
    BY <1>0 DEF TypeOK
  <2>3. ep'.busy = ep.busy /\ Len(ep'.packet) = Len(ep.packet) + 1
    BY <2>1, <2>2
  <2>4. Len(ep.packet) + left <= PacketSize  BY <2>1 DEF TransferInv
  <2>5. Len(ep'.packet) + left' <= PacketSize
    <3>1. Len(ep.packet) \in Int /\ left \in Int /\ PacketSize \in Int  BY <1>0, Sizes, SMT
    <3>2. Len(ep'.packet) = Len(ep.packet) + 1 /\ left' = left - 1  BY <2>1, <2>3
    <3> QED  BY <2>4, <3>1, <3>2, SMT
  <2> QED  BY <2>1, <2>3, <2>5 DEF TransferInv
<1>7. CASE EndSend
  <2>1. ep'.busy /\ pc' = "event" /\ UNCHANGED <<line, written>>
    BY <1>7 DEF TypeOK, EndSend, Go, env
  <2> QED  BY <2>1 DEF TransferInv
<1>8. CASE SendZlp
  BY <1>8 DEF SendZlp, Go, TransferInv, env
<1>9. CASE StartCharacter
  BY <1>9 DEF StartCharacter, TransferInv, local
<1>10. CASE StoreCharacter
  BY <1>10 DEF StoreCharacter, TransferInv, local
<1>11. CASE HostReadsData
  <2>1. /\ ep.busy /\ ~ep'.busy /\ ep'.packet = << >>
        /\ UNCHANGED <<pc, left, masked, line, written>>
    BY <1>11 DEF HostReadsData, local
  <2> QED  BY <2>1 DEF TransferInv
<1> QED
  BY <1>1, <1>2, <1>3, <1>4, <1>5, <1>6, <1>7, <1>8, <1>9, <1>10, <1>11 DEF Next, Poll

\* Every variable has its type; what is copied fits the packet, and no character
\* arrives that was not sent.
THEOREM TypeCorrect == Spec => []TypeOK
<1>1. Init => TypeOK /\ TransferInv  BY TypeInit
<1>2. TypeOK /\ TransferInv /\ [Next]_vars => (TypeOK /\ TransferInv)'
  BY TypeStep, TransferStep
<1> QED  BY <1>1, <1>2, PTL DEF Spec

-----------------------------------------------------------------------------
(* Parity errors.                                                           *)

LEMMA ErrorUnaffected ==
  ASSUME ErrorInv, UNCHANGED <<serial_state, state, errors>>,
         pc' = pc \/ {pc, pc'} \cap {"changed", "clear"} = {}
  PROVE  ErrorInv'
  BY DEF ErrorInv, Untold

\* Reading, sending and clearing the state.
LEMMA ErrorNotify ==
  ASSUME TypeOK, ErrorInv, ReadState \/ SendState \/ ClearErrors
  PROVE  ErrorInv'
<1>0. Fields!2  BY Fields
<1>1. CASE ReadState
  <2>1. /\ pc = "notify" /\ pc' \in {"changed", "send"} /\ state' = serial_state
        /\ UNCHANGED <<serial_state, errors>>
    BY <1>1 DEF ReadState, Go, serial, env
  <2> QED  BY <2>1 DEF ErrorInv, Untold
<1>2. CASE SendState
  <2>1. /\ pc = "changed" /\ UNCHANGED <<serial_state, state>>
        /\ \/ pc' = "send" /\ errors' = errors
           \/ /\ pc' = "clear"
              /\ errors' = [errors EXCEPT !.told = @ + Cardinality(state \cap {"parity"})]
    BY <1>2 DEF SendState, Go, serial, local
  <2>2. CASE pc' = "send" /\ errors' = errors
    BY <2>1, <2>2 DEF ErrorInv, Untold
  <2>3. CASE /\ pc' = "clear"
             /\ errors' = [errors EXCEPT !.told = @ + Cardinality(state \cap {"parity"})]
    <3>1. Cardinality(state \cap {"parity"}) = IF "parity" \in state THEN 1 ELSE 0
      <4>1. CASE "parity" \in state
        <5>1. state \cap {"parity"} = {"parity"}  BY <4>1
        <5> QED  BY <4>1, <5>1, FS_Singleton
      <4>2. CASE "parity" \notin state
        <5>1. state \cap {"parity"} = {}  BY <4>2
        <5> QED  BY <4>2, <5>1, FS_EmptySet
      <4> QED  BY <4>1, <4>2
    <3>2. errors'.seen = errors.seen
          /\ errors'.told = errors.told + (IF "parity" \in state THEN 1 ELSE 0)
      BY <2>1, <2>3, <3>1 DEF TypeOK
    <3>3. state \cap Errors \subseteq serial_state  BY <2>1 DEF ErrorInv
    <3>4. "parity" \in state => "parity" \in serial_state  BY <3>3 DEF Errors
    <3>5. Untold <=> "parity" \in serial_state  BY <2>1 DEF Untold
    <3>6. Untold' <=> "parity" \in serial_state /\ "parity" \notin state
      BY <2>1, <2>3 DEF Untold
    <3>7. errors'.told + (IF Untold' THEN 1 ELSE 0) <= errors'.seen
      <4>1. errors.told + (IF Untold THEN 1 ELSE 0) <= errors.seen  BY DEF ErrorInv
      <4>2. errors.told \in Nat /\ errors.seen \in Nat  BY <1>0
      <4>3. CASE "parity" \in state
        <5>1. Untold /\ ~Untold'  BY <3>4, <3>5, <3>6, <4>3
        <5>2. errors'.told = errors.told + 1 /\ errors.told + 1 <= errors.seen
          BY <3>2, <4>1, <4>3, <5>1
        <5> QED  BY <3>2, <4>2, <5>1, <5>2, SMT
      <4>4. CASE "parity" \notin state
        <5>1. Untold' <=> Untold  BY <3>5, <3>6, <4>4
        <5>2. errors'.told = errors.told + 0  BY <3>2, <4>4
        <5> QED  BY <3>2, <4>1, <4>2, <5>1, <5>2, SMT
      <4> QED  BY <4>3, <4>4
    <3> QED  BY <2>1, <3>3, <3>7 DEF ErrorInv
  <2> QED  BY <2>1, <2>2, <2>3
<1>3. CASE ClearErrors
  <2>1. /\ pc = "clear" /\ pc' = "send" /\ UNCHANGED <<state, errors>>
        /\ serial_state' = Toggle(serial_state, state \cap Errors)
    BY <1>3 DEF ClearErrors, Go, local, env
  <2>2. state \cap Errors \subseteq serial_state  BY <2>1 DEF ErrorInv
  <2>3. serial_state' = serial_state \ (state \cap Errors)  BY <2>1, <2>2 DEF Toggle
  <2>4. Untold' => Untold  BY <2>1, <2>3 DEF Untold, Errors
  <2>5. errors'.told + (IF Untold' THEN 1 ELSE 0) <= errors'.seen
    BY <1>0, <2>1, <2>4, SMTT(30) DEF ErrorInv
  <2> QED  BY <2>1, <2>5 DEF ErrorInv
<1> QED  BY <1>1, <1>2, <1>3

LEMMA ErrorStep == TypeOK /\ ErrorInv /\ [Next]_vars => ErrorInv'
<1> SUFFICES ASSUME TypeOK, ErrorInv, [Next]_vars PROVE ErrorInv'
  OBVIOUS
<1>0. Fields!2  BY Fields
<1>1. CASE ReadState \/ SendState \/ ClearErrors  BY <1>1, ErrorNotify
<1>2. CASE Frame \/ SyncHead
  <2>1. /\ {pc, pc'} \cap {"changed", "clear"} = {} /\ UNCHANGED <<state, errors>>
        /\ "parity" \in serial_state' <=> "parity" \in serial_state
    BY <1>2 DEF Frame, SyncHead, Go, local, env
  <2>2. Untold' = Untold  BY <2>1 DEF Untold
  <2> QED  BY <2>1, <2>2 DEF ErrorInv
<1>3. CASE UsartIrq
  <2>1. errors \in [seen: Nat, told: Nat]  BY DEF TypeOK
  <2>2. errors'.seen = errors.seen + 1 /\ errors'.told = errors.told
    BY <1>3, <2>1 DEF UsartIrq
  <2>3. UNCHANGED <<pc, state>> /\ serial_state \subseteq serial_state'
    BY <1>3 DEF UsartIrq, local
  <2>4. errors'.told + (IF Untold' THEN 1 ELSE 0) <= errors'.seen
    <3>1. errors.told + (IF Untold THEN 1 ELSE 0) <= errors.seen  BY DEF ErrorInv
    <3>2. errors.told \in Nat /\ errors.seen \in Nat  BY <1>0
    <3>3. (Untold \/ ~Untold) /\ (Untold' \/ ~Untold')  OBVIOUS
    <3> QED  BY <2>2, <3>1, <3>2, <3>3, SMT
  <2> QED  BY <2>3, <2>4 DEF ErrorInv
<1>4. CASE \/ (\E b \in BOOLEAN : SetControlLineState(b) \/ SetLineCoding(b))
           \/ OtherEvent \/ ReadCounter \/ BeginSend \/ EndMask \/ EndSend
           \/ SendNothing \/ SendZlp
  <2>1. UNCHANGED <<serial_state, state, errors>>
    BY <1>4 DEF SetControlLineState, SetLineCoding, OtherEvent, ReadCounter, BeginSend,
                EndMask, EndSend, SendNothing, SendZlp, serial, local, env
  <2>2. {pc, pc'} \cap {"changed", "clear"} = {}
    BY <1>4 DEF SetControlLineState, SetLineCoding, OtherEvent, ReadCounter, BeginSend,
                EndMask, EndSend, SendNothing, SendZlp, Go
  <2> QED  BY <2>1, <2>2, ErrorUnaffected
<1>5. CASE \/ MaskByte \/ CopyByte \/ StartCharacter \/ StoreCharacter \/ ChangeInputs
           \/ HostReadsData \/ HostReadsNotification \/ UNCHANGED vars
  <2>1. UNCHANGED <<serial_state, state, errors, pc>>
    BY <1>5 DEF MaskByte, CopyByte, StartCharacter, StoreCharacter, ChangeInputs,
                HostReadsData, HostReadsNotification, vars, serial, local, env
  <2> QED  BY <2>1, ErrorUnaffected
<1> QED  BY <1>1, <1>2, <1>3, <1>4, <1>5 DEF Next, Event, Poll

LEMMA InvHolds == Spec => []Inv
<1>1. Init => Inv
  <2>1. Init => ErrorInv
    <3> SUFFICES ASSUME Init PROVE ErrorInv
      OBVIOUS
    <3>1. errors.seen = 0 /\ errors.told = 0 /\ ~Untold  BY DEF Init, Untold
    <3> QED  BY <3>1, SMT DEF Init, ErrorInv
  <2> QED  BY <2>1, TypeInit DEF Inv
<1>2. Inv /\ [Next]_vars => Inv'  BY TypeStep, TransferStep, ErrorStep DEF Inv
<1> QED  BY <1>1, <1>2, PTL DEF Spec

\* No parity error is reported twice or invented, wherever the USART interrupt falls
\* between reading the state, sending it and clearing it.
THEOREM ErrorsCounted == Spec => []NoFalseError
<1>1. Inv => NoFalseError
  <2> SUFFICES ASSUME Inv PROVE NoFalseError
    OBVIOUS
  <2>1. Fields!2  BY Fields DEF Inv
  <2> QED  BY <2>1, SMT DEF Inv, ErrorInv, NoFalseError
<1> QED  BY <1>1, InvHolds, PTL

-----------------------------------------------------------------------------
(* RTS, the lag of the head index and the content of the buffer.            *)

\* A level computed for the present indices asserts RTS for less than half the
\* buffer only.
LEMMA RtsMeansRoom ==
  ASSUME TypeOK, NEW active, RtsLevel(head, tail, active)
  PROVE  Count + 2 <= Size \div 2
<1>1. Fields!2  BY Fields
<1>2. circ_buf_space(head, tail, Size) = Size - 1 - Count
  BY <1>1, Sizes, CountAndSpace DEF Count
<1>3. circ_buf_space(head, tail, Size) > Size \div 2  BY DEF RtsLevel
<1> HIDE DEF Count
<1>4. Size = 2 * (Size \div 2) /\ Size \div 2 \in Nat /\ Count \in Nat  BY <1>1, Sizes
<1> QED  BY <1>2, <1>3, <1>4, SMT

\* The head is never behind the channel by more than two turns' characters.
LEMMA UnreadBound ==
  ASSUME TypeOK, LagInv
  PROVE  /\ Count <= Unread /\ Unread <= Count + 2 * Burst
         /\ pc # "synced" => Unread = Count + burst
<1>1. Fields!2  BY Fields
<1>2. circ_buf_count(dma_head, head, Size) \in Nat
  <2>1. circ_buf_count(dma_head, head, Size) \in 0..(Size - 1)
    BY <1>1, Sizes, CountCases
  <2> QED  BY <2>1, SMT
<1>3. burst \in Nat /\ burst <= Burst /\ Count \in Nat /\ Unread \in Nat /\ Burst \in Nat
  BY <1>1, Sizes, SMT
<1>4. CASE pc = "synced"
  <2>1. /\ circ_buf_count(dma_head, head, Size) <= Burst
        /\ Unread = Count + circ_buf_count(dma_head, head, Size) + burst
    BY <1>4 DEF LagInv
  <2> QED  BY <1>2, <1>3, <1>4, <2>1, SMT
<1>5. CASE pc # "synced"
  <2>1. Unread = Count + burst  BY <1>5 DEF LagInv
  <2> QED  BY <1>3, <2>1, SMT
<1> QED  BY <1>4, <1>5

\* Steps that move no index and no character, and assert RTS at most for a buffer
\* that is less than half full.
LEMMA FlowUnaffected ==
  ASSUME Paced, TypeOK, Flow,
         UNCHANGED <<head, tail, dma_head, cndtr, burst, line, left, data, received,
                     written>>,
         ep'.packet = ep.packet, "overrun" \notin serial_state',
         rts' => rts \/ Count + 2 <= Size \div 2,
         pc' = "synced" <=> pc = "synced",
         pc' \in {"mask", "copy"} => pc \in {"mask", "copy"}
  PROVE  Flow'
<1>1. Count' = Count /\ Unread' = Unread /\ Slot' = Slot /\ Passed' = Passed
  BY DEF Count, Unread, Slot, Passed
<1>2. LagInv'  BY <1>1 DEF Flow, LagInv
<1>3. RoomInv'
  <2>1. rts' => Count + 2 <= Size \div 2 + Burst
    <3>1. Count \in Nat /\ Burst \in Nat /\ Size \div 2 \in Nat  BY Fields, Sizes
    <3>2. rts => Count + 2 <= Size \div 2 + Burst  BY DEF Flow, RoomInv
    <3> QED  BY <3>1, <3>2, SMT
  <2> QED  BY <1>1, <2>1 DEF Flow, RoomInv
<1>4. ContentInv'  BY <1>1 DEF Flow, ContentInv
<1> QED  BY <1>2, <1>3, <1>4 DEF Flow

\* The events, the notification, the ends of the routines, the interrupt and the
\* inputs.
LEMMA FlowElsewhere ==
  ASSUME Paced, Inv, Flow,
         \/ Event \/ ReadState \/ SendState \/ ClearErrors \/ EndMask \/ EndSend
         \/ SendNothing \/ SendZlp \/ UsartIrq \/ ChangeInputs \/ HostReadsNotification
         \/ UNCHANGED vars
  PROVE  Flow'
<1>0. TypeOK /\ "overrun" \notin serial_state  BY DEF Inv, Flow, ContentInv
<1>1. UNCHANGED <<head, tail, dma_head, cndtr, burst, line, left, data, received, written>>
  BY DEF Event, SetControlLineState, SetLineCoding, Frame, OtherEvent, ReadState,
         SendState, ClearErrors, EndMask, EndSend, SendNothing, SendZlp, UsartIrq,
         ChangeInputs, HostReadsNotification, vars, rx_buf, serial, local, env
<1>2. ep'.packet = ep.packet
  <2>1. CASE SendZlp
    <3>1. pc = "send" /\ ~ep.busy /\ ep'.packet = << >>  BY <2>1 DEF SendZlp, Go
    <3> QED  BY <3>1 DEF Inv, TransferInv
  <2>2. CASE EndSend  BY <1>0, <2>2 DEF EndSend, TypeOK
  <2>3. CASE ~SendZlp /\ ~EndSend
    BY <2>3 DEF Event, SetControlLineState, SetLineCoding, Frame, OtherEvent, ReadState,
                SendState, ClearErrors, EndMask, SendNothing, UsartIrq, ChangeInputs,
                HostReadsNotification, vars, local, env
  <2> QED  BY <2>1, <2>2, <2>3
<1>3. "overrun" \notin serial_state'
  <2>1. CASE ClearErrors
    <3>1. pc = "clear" /\ serial_state' = Toggle(serial_state, state \cap Errors)
      BY <2>1 DEF ClearErrors, Go
    <3>2. state \cap Errors \subseteq serial_state  BY <3>1 DEF Inv, ErrorInv
    <3> QED  BY <1>0, <3>1, <3>2 DEF Toggle
  <2>2. CASE Frame \/ UsartIrq  BY <1>0, <2>2 DEF Frame, UsartIrq
  <2>3. CASE ~ClearErrors /\ ~Frame /\ ~UsartIrq
    <3>1. serial_state' = serial_state
      BY <2>3 DEF Event, SetControlLineState, SetLineCoding, OtherEvent, ReadState,
                  SendState, EndMask, EndSend, SendNothing, SendZlp, ChangeInputs,
                  HostReadsNotification, vars, serial
    <3> QED  BY <1>0, <3>1
  <2> QED  BY <2>1, <2>2, <2>3
<1>4. rts' => rts \/ Count + 2 <= Size \div 2
  <2>1. CASE EndSend \/ \E b \in BOOLEAN : SetControlLineState(b)
    <3>1. \E active : rts' = RtsLevel(head, tail, active)
      BY <2>1 DEF EndSend, SetControlLineState
    <3> QED  BY <1>0, <3>1, RtsMeansRoom
  <2>2. CASE ~EndSend /\ ~\E b \in BOOLEAN : SetControlLineState(b)
    <3>1. rts' = rts
      BY <2>2 DEF Event, SetLineCoding, Frame, OtherEvent, ReadState, SendState,
                  ClearErrors, EndMask, SendNothing, SendZlp, UsartIrq, ChangeInputs,
                  HostReadsNotification, vars
    <3> QED  BY <3>1
  <2> QED  BY <2>1, <2>2
<1>5. /\ pc' = "synced" <=> pc = "synced"
      /\ pc' \in {"mask", "copy"} => pc \in {"mask", "copy"}
  BY DEF Event, SetControlLineState, SetLineCoding, Frame, OtherEvent, ReadState,
         SendState, ClearErrors, EndMask, EndSend, SendNothing, SendZlp, UsartIrq,
         ChangeInputs, HostReadsNotification, vars, Go
<1> QED  BY <1>0, <1>1, <1>2, <1>3, <1>4, <1>5, FlowUnaffected

\* The counter is read: the head to be is where the channel stores next.
LEMMA ReadCounterStep == ASSUME Paced, Inv, Flow, ReadCounter PROVE Flow'
<1>0. Fields!2 /\ TypeOK  BY Fields DEF Inv
<1>1. /\ pc = "sync" /\ pc' = "synced" /\ dma_head' = Slot /\ burst' = 0
      /\ UNCHANGED <<head, tail, data, cndtr, line, left, rts, serial_state, received,
                     written, ep>>
  BY DEF ReadCounter, Go, Slot, rx_buf, serial
<1>2. Count' = Count /\ Unread' = Unread /\ Slot' = Slot /\ Passed' = Passed
  BY <1>1 DEF Count, Unread, Slot, Passed
<1>3. circ_buf_count(Slot, head, Size) = burst /\ Unread = Count + burst
  BY <1>1 DEF Flow, LagInv
<1>4. circ_buf_count(Slot, Slot, Size) = 0
  <2>1. circ_buf_count(Slot, Slot, Size)
          = IF Slot >= Slot THEN Slot - Slot ELSE Slot - Slot + Size
    BY <1>0, Sizes, CountCases
  <2>2. Slot \in Int  BY <1>0, SMT
  <2> HIDE DEF Slot
  <2> QED  BY <2>1, <2>2, SMT
<1>5. LagInv'
  <2>1. burst <= Burst /\ Count + burst = Count + burst + 0  BY <1>0, Sizes, SMT
  <2> QED  BY <1>1, <1>2, <1>3, <1>4, <2>1 DEF LagInv
<1>6. RoomInv'  BY <1>1, <1>2 DEF Flow, RoomInv
<1>7. ContentInv'  BY <1>1, <1>2 DEF Flow, ContentInv
<1> QED  BY <1>5, <1>6, <1>7 DEF Flow

\* RTS is set for the old head; the new one is further on by a turn's characters at
\* the most, so it has not overtaken the tail.
LEMMA SyncHeadStep == ASSUME Paced, Inv, Flow, SyncHead PROVE Flow'
<1>0. Fields!2 /\ TypeOK  BY Fields DEF Inv
<1>1. /\ pc = "synced" /\ pc' = "notify" /\ head' = dma_head
      /\ rts' = RtsLevel(head, tail, rts_active)
      /\ serial_state' = serial_state \cup {f \in {"overrun"} : Overtaken(head, tail, dma_head)}
      /\ UNCHANGED <<tail, data, dma_head, cndtr, line, burst, left, received, written, ep>>
  BY DEF SyncHead, Go, local, env
<1> DEFINE step == circ_buf_count(dma_head, head, Size)
<1>2. /\ circ_buf_count(Slot, dma_head, Size) = burst /\ step <= Burst
      /\ Unread = Count + step + burst
  BY <1>1 DEF Flow, LagInv
<1>3. step \in Nat
  <2>1. step \in 0..(Size - 1)  BY <1>0, Sizes, CountCases
  <2> HIDE DEF step
  <2> QED  BY <2>1, SMT
<1>4. circ_buf_count(dma_head, tail, Size) = Count + step
  <2>1. circ_buf_count(head, tail, Size) + step < Size
    BY <1>0, <1>2, <1>3, Sizes, SMT DEF Count
  <2> QED  BY <1>0, <2>1, Sizes, CountJoined DEF Count
<1>5. Count' = Count + step /\ Unread' = Unread /\ Slot' = Slot /\ Passed' = Passed
  BY <1>1, <1>4 DEF Count, Unread, Slot, Passed
<1> HIDE DEF step
<1>6. LagInv'  BY <1>1, <1>2, <1>5 DEF LagInv
<1>7. RoomInv'
  <2>1. rts' => Count' + 2 <= Size \div 2 + Burst
    <3>1. rts' => Count + 2 <= Size \div 2  BY <1>0, <1>1, RtsMeansRoom
    <3>2. Count \in Nat /\ Burst \in Nat /\ Size \div 2 \in Nat  BY <1>0, Sizes
    <3> QED  BY <1>2, <1>3, <1>5, <3>1, <3>2, SMT
  <2> QED  BY <1>1, <1>5, <2>1 DEF Flow, RoomInv
<1>8. ContentInv'
  <2>1. ~Overtaken(head, tail, dma_head)
    <3>1. circ_buf_count(head, tail, Size) = Count  BY DEF Count
    <3> QED  BY <1>0, <1>3, <1>4, <3>1, SMT DEF Overtaken
  <2>2. "overrun" \notin serial_state'  BY <1>1, <2>1 DEF Flow, ContentInv
  <2> QED  BY <1>1, <1>5, <2>2 DEF Flow, ContentInv
<1> QED  BY <1>6, <1>7, <1>8 DEF Flow

\* A character is started while RTS is asserted only: there is room for it.
LEMMA StartCharacterStep == ASSUME Paced, Inv, Flow, StartCharacter PROVE Flow'
<1>0. Fields!2 /\ TypeOK  BY Fields DEF Inv
<1>1. /\ line' = 1 /\ rts
      /\ UNCHANGED <<head, tail, data, dma_head, cndtr, burst, left, rts, serial_state,
                     received, written, ep, pc>>
  BY DEF Paced, StartCharacter, rx_buf, serial, local
<1>2. Count' = Count /\ Unread' = Unread /\ Slot' = Slot /\ Passed' = Passed
  BY <1>1 DEF Count, Unread, Slot, Passed
<1>3. Unread + 1 <= Size - 1
  <2>1. Unread <= Count + 2 * Burst  BY <1>0, UnreadBound DEF Flow
  <2>2. Count + 2 <= Size \div 2 + Burst  BY <1>1 DEF Flow, RoomInv
  <2>3. 6 * Burst <= Size  BY DEF Paced
  <2>4. /\ Count \in Nat /\ Unread \in Nat /\ Burst \in Nat /\ Size \div 2 \in Nat
        /\ Size = 2 * (Size \div 2)
    BY <1>0, Sizes
  <2> QED  BY <2>1, <2>2, <2>3, <2>4, SMT
<1>4. LagInv' /\ ContentInv'  BY <1>1, <1>2 DEF Flow, LagInv, ContentInv
<1>5. RoomInv'  BY <1>1, <1>2, <1>3 DEF Flow, RoomInv
<1> QED  BY <1>4, <1>5 DEF Flow

\* The channel stores a character in a slot that holds none which is still to be read.
LEMMA StoreCharacterStep == ASSUME Paced, Inv, Flow, StoreCharacter PROVE Flow'
<1>0. Fields!2 /\ TypeOK  BY Fields DEF Inv
<1>1. /\ line = 1 /\ line' = 0 /\ burst' = burst + 1 /\ written' = written + 1
      /\ data' = [data EXCEPT ![Slot] = [n |-> written + 1, bit7 |-> TRUE]]
      /\ cndtr' = (IF cndtr = 1 THEN Size ELSE cndtr - 1)
      /\ UNCHANGED <<head, tail, dma_head, left, rts, serial_state, received, ep, pc>>
  BY DEF StoreCharacter, Slot, serial, local
<1>2. Slot' = Advance(Slot, 1, Size)
  <2>1. 1 \in 0..Size /\ Slot = Size - cndtr  BY Sizes, SMT DEF Slot
  <2>2. Advance(Slot, 1, Size) = IF Slot + 1 < Size THEN Slot + 1 ELSE Slot + 1 - Size
    BY <1>0, <2>1, Sizes, AdvanceCases
  <2>3. Slot' = IF cndtr = 1 THEN Size - Size ELSE Size - (cndtr - 1)  BY <1>1 DEF Slot
  <2>4. cndtr \in Int /\ 1 <= cndtr /\ Size \in Int  BY <1>0, Sizes, SMT
  <2> HIDE DEF Slot
  <2> QED  BY <2>1, <2>2, <2>3, <2>4, SMT
<1>3. Unread < Size - 1
  <2>1. Unread + line <= Size - 1  BY DEF Flow, RoomInv
  <2>2. Unread \in Int /\ Size \in Int  BY <1>0, Sizes, SMT
  <2> QED  BY <1>1, <2>1, <2>2, SMT
<1>4. Unread' = Unread + 1
  <2>1. circ_buf_count(Advance(Slot, 1, Size), tail, Size) = circ_buf_count(Slot, tail, Size) + 1
    BY <1>0, <1>3, Sizes, CountAfterStore DEF Unread
  <2> QED  BY <1>1, <1>2, <2>1 DEF Unread
<1>5. Count' = Count /\ Passed' = Passed  BY <1>1 DEF Count, Passed
<1>6. LagInv'
  <2>1. Count \in Nat /\ Unread \in Nat /\ burst \in Nat /\ Size \in Nat
    BY <1>0, Sizes, SMT
  <2>2. CASE pc = "synced"
    <3> DEFINE step == circ_buf_count(dma_head, head, Size)
    <3>1. /\ circ_buf_count(Slot, dma_head, Size) = burst /\ step <= Burst
          /\ Unread = Count + step + burst
      BY <2>2 DEF Flow, LagInv
    <3>2. step \in Nat
      <4>1. step \in 0..(Size - 1)  BY <1>0, Sizes, CountCases
      <4> HIDE DEF step
      <4> QED  BY <4>1, SMT
    <3>3. step' = step  BY <1>1
    <3> HIDE DEF step
    <3>4. burst < Size - 1  BY <1>3, <2>1, <3>1, <3>2, SMT
    <3>5. circ_buf_count(Slot', dma_head, Size) = burst + 1
      BY <1>0, <1>2, <3>1, <3>4, Sizes, CountAfterStore
    <3>6. Unread' = Count + step + (burst + 1)  BY <1>4, <2>1, <3>1, <3>2, SMT
    <3> QED  BY <1>1, <1>5, <2>2, <3>1, <3>3, <3>5, <3>6 DEF LagInv, step
  <2>3. CASE pc # "synced"
    <3>1. circ_buf_count(Slot, head, Size) = burst /\ Unread = Count + burst
      BY <2>3 DEF Flow, LagInv
    <3>2. burst < Size - 1  BY <1>3, <2>1, <3>1, SMT
    <3>3. circ_buf_count(Slot', head, Size) = burst + 1
      BY <1>0, <1>2, <3>1, <3>2, Sizes, CountAfterStore
    <3>4. Unread' = Count + (burst + 1)  BY <1>4, <2>1, <3>1, SMT
    <3> QED  BY <1>1, <1>5, <2>3, <3>3, <3>4 DEF LagInv
  <2> QED  BY <2>2, <2>3
<1>7. RoomInv'
  <2>1. Unread' + line' <= Size - 1
    <3>1. Unread \in Int /\ Size \in Int  BY <1>0, Sizes, SMT
    <3> QED  BY <1>1, <1>3, <1>4, <3>1, SMT
  <2> QED  BY <1>1, <1>5, <2>1 DEF Flow, RoomInv
<1>8. ContentInv'
  <2>1. Passed \in Int /\ Unread \in Nat /\ written \in Nat
    BY <1>0, SMT DEF Passed
  <2>2. Passed + Unread = written  BY DEF Flow, ContentInv
  <2>3. Passed' + Unread' = written'  BY <1>1, <1>4, <1>5, <2>1, <2>2, SMT
  <2>4. ASSUME NEW i \in 0..(Size - 1), circ_buf_count(i, tail, Size) < Unread + 1
        PROVE  data'[i].n = Passed + circ_buf_count(i, tail, Size) + 1
    <3>1. data \in [0..(Size - 1) -> Bytes]  BY <1>0 DEF TypeOK
    <3>2. CASE i = Slot
      <4>1. data'[i].n = written + 1  BY <1>0, <1>1, <3>1, <3>2
      <4>2. circ_buf_count(i, tail, Size) = Unread  BY <3>2 DEF Unread
      <4> QED  BY <2>2, <4>1, <4>2
    <3>3. CASE i # Slot
      <4>1. data'[i] = data[i]  BY <1>1, <3>1, <3>3
      <4>2. circ_buf_count(i, tail, Size) # Unread
        BY <1>0, <3>3, Sizes, CountSeparates DEF Unread
      <4>3. circ_buf_count(i, tail, Size) \in 0..(Size - 1)  BY <1>0, Sizes, CountCases
      <4>4. circ_buf_count(i, tail, Size) < Unread  BY <2>1, <2>4, <4>2, <4>3, SMT
      <4> QED  BY <4>1, <4>4 DEF Flow, ContentInv
    <3> QED  BY <3>2, <3>3
  <2>5. \A i \in 0..(Size - 1) :
          circ_buf_count(i, tail', Size) < Unread'
            => data'[i].n = Passed' + circ_buf_count(i, tail', Size) + 1
    BY <1>1, <1>4, <1>5, <2>4
  <2> QED  BY <1>1, <2>3, <2>5 DEF Flow, ContentInv
<1> QED  BY <1>6, <1>7, <1>8 DEF Flow

LEMMA BeginSendStep == ASSUME Paced, Inv, Flow, BeginSend PROVE Flow'
<1>0. Fields!2 /\ TypeOK  BY Fields DEF Inv
<1>1. /\ pc = "send" /\ pc' \in {"mask", "copy"}
      /\ left' = (IF Count < PacketSize THEN Count ELSE PacketSize)
      /\ UNCHANGED <<head, tail, data, dma_head, cndtr, line, burst, rts, serial_state,
                     received, written, ep>>
  BY DEF BeginSend, rx_buf, serial, env
<1>2. Count' = Count /\ Unread' = Unread /\ Slot' = Slot /\ Passed' = Passed
  BY <1>1 DEF Count, Unread, Slot, Passed
<1>3. left' <= Count
  <2>1. Count \in Int /\ PacketSize \in Int  BY <1>0, Sizes, SMT
  <2> QED  BY <1>1, <2>1, SMT
<1>4. LagInv'  BY <1>1, <1>2 DEF Flow, LagInv
<1>5. RoomInv'  BY <1>1, <1>2, <1>3 DEF Flow, RoomInv
<1>6. ContentInv'  BY <1>1, <1>2 DEF Flow, ContentInv
<1> QED  BY <1>4, <1>5, <1>6 DEF Flow

\* Masking changes bit 7 only.
LEMMA MaskByteStep == ASSUME Paced, Inv, Flow, MaskByte PROVE Flow'
<1>0. Fields!2 /\ TypeOK  BY Fields DEF Inv
<1>1. /\ UNCHANGED <<head, tail, dma_head, cndtr, line, left, burst, rts, serial_state,
                     received, written, ep, pc>>
      /\ data' = data \/ data' = [data EXCEPT ![tail + masked].bit7 = FALSE]
  BY DEF MaskByte, serial, env
<1>2. Count' = Count /\ Unread' = Unread /\ Slot' = Slot /\ Passed' = Passed
  BY <1>1 DEF Count, Unread, Slot, Passed
<1>3. ASSUME NEW i \in 0..(Size - 1) PROVE data'[i].n = data[i].n
  <2>1. data \in [0..(Size - 1) -> [n: Nat, bit7: BOOLEAN]]  BY <1>0 DEF TypeOK, Bytes
  <2> QED  BY <1>1, <2>1, ZenonT(60)
<1>4. LagInv' /\ RoomInv'  BY <1>1, <1>2 DEF Flow, LagInv, RoomInv
<1>5. ContentInv'  BY <1>1, <1>2, <1>3 DEF Flow, ContentInv
<1> QED  BY <1>4, <1>5 DEF Flow

\* The oldest character moves from the buffer to the packet.
LEMMA CopyByteStep == ASSUME Paced, Inv, Flow, CopyByte PROVE Flow' /\ Passed' = Passed + 1
<1>0. Fields!2 /\ TypeOK  BY Fields DEF Inv
<1>1. /\ pc = "copy" /\ left > 0 /\ left' = left - 1
      /\ ep' = [ep EXCEPT !.packet = Append(@, data[tail])]
      /\ tail' = Advance(tail, 1, Size)
      /\ UNCHANGED <<head, data, dma_head, cndtr, line, burst, rts, serial_state, received,
                     written, pc>>
  BY DEF CopyByte, serial, env
<1>2. left <= Count /\ Count > 0 /\ Count <= Unread /\ Unread = Count + burst
  <2>1. left <= Count  BY <1>1 DEF Flow, RoomInv
  <2>2. Count <= Unread /\ Unread = Count + burst
    BY <1>0, <1>1, UnreadBound DEF Flow
  <2>3. left \in Int /\ Count \in Int  BY <1>0, Sizes, SMT
  <2> QED  BY <1>1, <2>1, <2>2, <2>3, SMT
<1>3. ASSUME NEW i \in 0..(Size - 1), circ_buf_count(i, tail, Size) > 0
      PROVE  circ_buf_count(i, tail', Size) = circ_buf_count(i, tail, Size) - 1
  <2>1. circ_buf_count(i, tail, Size) \in 0..(Size - 1)  BY <1>0, Sizes, CountCases
  <2>2. 1 \in 0..circ_buf_count(i, tail, Size)  BY <1>3, <2>1, SMT
  <2> QED  BY <1>0, <1>1, <2>2, Sizes, CountAfterRead, ZenonT(60)
<1>4. Count' = Count - 1
  <2>1. circ_buf_count(head, tail, Size) > 0  BY <1>2 DEF Count
  <2> QED  BY <1>0, <1>1, <1>3, <2>1 DEF Count
<1>5. Unread' = Unread - 1 /\ Slot' = Slot
  <2>1. circ_buf_count(Slot, tail, Size) > 0
    <3>1. Count \in Int /\ Unread \in Int  BY <1>0, SMT
    <3>2. Unread > 0  BY <1>2, <3>1, SMT
    <3> QED  BY <3>2 DEF Unread
  <2>2. Slot' = Slot  BY <1>1 DEF Slot
  <2> QED  BY <1>0, <1>3, <2>1, <2>2 DEF Unread
<1>6. /\ Len(ep'.packet) = Len(ep.packet) + 1
      /\ \A k \in 1..Len(ep.packet) : ep'.packet[k] = ep.packet[k]
      /\ ep'.packet[Len(ep.packet) + 1] = data[tail]
  <2>1. /\ ep \in [busy: BOOLEAN, packet: Seq(Bytes)] /\ ep.packet \in Seq(Bytes)
        /\ data[tail] \in Bytes
    BY <1>0 DEF TypeOK
  <2>2. ep'.packet = Append(ep.packet, data[tail])  BY <1>1, <2>1
  <2> HIDE <2>2
  <2> QED  BY <2>1, <2>2, SMT
<1>7. Passed' = Passed + 1
  <2>1. Len(ep.packet) \in Int /\ Len(received) \in Int  BY <1>0, SMT
  <2>2. Passed' = Len(received) + Len(ep'.packet)  BY <1>1 DEF Passed
  <2> QED  BY <1>6, <2>1, <2>2, SMT DEF Passed
<1>8. LagInv'
  <2>1. circ_buf_count(Slot, head, Size) = burst  BY <1>1 DEF Flow, LagInv
  <2>2. Count \in Int /\ Unread \in Int /\ burst \in Int  BY <1>0, SMT
  <2>3. Unread' = Count' + burst  BY <1>2, <1>4, <1>5, <2>2, SMT
  <2> QED  BY <1>1, <1>5, <2>1, <2>3 DEF LagInv
<1>9. RoomInv'
  <2>1. /\ Count \in Int /\ Unread \in Int /\ line \in Int /\ Size \in Int /\ left \in Int
        /\ Size \div 2 \in Int /\ Burst \in Int
    BY <1>0, Sizes, SMT
  <2>2. rts => Count + 2 <= Size \div 2 + Burst  BY DEF Flow, RoomInv
  <2>3. Unread + line <= Size - 1  BY DEF Flow, RoomInv
  <2>4. rts' => Count' + 2 <= Size \div 2 + Burst  BY <1>1, <1>4, <2>1, <2>2, SMT
  <2>5. Unread' + line' <= Size - 1  BY <1>1, <1>5, <2>1, <2>3, SMT
  <2>6. left' <= Count'  BY <1>1, <1>2, <1>4, <2>1, SMT
  <2> QED  BY <2>4, <2>5, <2>6 DEF RoomInv
<1>10. ContentInv'
  <2>1. Passed \in Int /\ Unread \in Int /\ written \in Int  BY <1>0, SMT DEF Passed
  <2>2. Passed + Unread = written  BY DEF Flow, ContentInv
  <2>3. Passed' + Unread' = written'  BY <1>1, <1>5, <1>7, <2>1, <2>2, SMT
  <2>4. ASSUME NEW i \in 0..(Size - 1), circ_buf_count(i, tail', Size) < Unread - 1
        PROVE  data[i].n = (Passed + 1) + circ_buf_count(i, tail', Size) + 1
    <3> DEFINE c == circ_buf_count(i, tail, Size)
    <3>1. c > 0
      <4>1. c = (IF i >= tail THEN i - tail ELSE i - tail + Size) /\ c \in 0..(Size - 1)
        BY <1>0, Sizes, CountCases
      <4>2. CASE c = 0
        <5>1. i = tail
          <6>1. i \in Int /\ 0 <= i /\ tail \in Int /\ tail < Size /\ Size \in Int
            BY <1>0, Sizes, SMT
          <6> HIDE DEF c
          <6> QED  BY <4>1, <4>2, <6>1, SMT
        <5>2. tail' \in 0..(Size - 1) /\ tail' = IF tail + 1 < Size THEN tail + 1 ELSE tail + 1 - Size
          <6>1. 1 \in 0..Size  BY Sizes, SMT
          <6> QED  BY <1>0, <1>1, <6>1, Sizes, AdvanceCases
        <5>3. circ_buf_count(i, tail', Size) = IF i >= tail' THEN i - tail' ELSE i - tail' + Size
          BY <5>2, Sizes, CountCases
        <5>4. circ_buf_count(i, tail', Size) = Size - 1
          <6>1. tail \in 0..(Size - 1) /\ Size \in Nat /\ Size > 3  BY <1>0, Sizes
          <6> QED  BY <5>1, <5>2, <5>3, <6>1, SMT
        <5>5. Unread <= Size - 1 /\ Size \in Int  BY <1>0, Sizes, SMT
        <5> QED  BY <2>1, <2>4, <5>4, <5>5, SMT
      <4>3. CASE c # 0
        <5> HIDE DEF c
        <5> QED  BY <4>1, <4>3, SMT
      <4> QED  BY <4>2, <4>3
    <3>2. circ_buf_count(i, tail', Size) = c - 1 /\ c \in Int
      <4>1. c \in 0..(Size - 1)  BY <1>0, Sizes, CountCases
      <4>2. circ_buf_count(i, tail', Size) = c - 1  BY <1>3, <3>1
      <4> HIDE DEF c
      <4> QED  BY <4>1, <4>2, SMT
    <3> HIDE DEF c
    <3>3. c < Unread  BY <2>1, <2>4, <3>2, SMT
    <3>4. data[i].n = Passed + c + 1  BY <3>3 DEF Flow, ContentInv, c
    <3>5. (Passed + 1) + (c - 1) + 1 = Passed + c + 1  BY <2>1, <3>2, SMT
    <3> QED  BY <3>2, <3>4, <3>5
  <2>5. \A i \in 0..(Size - 1) :
          circ_buf_count(i, tail', Size) < Unread'
            => data'[i].n = Passed' + circ_buf_count(i, tail', Size) + 1
    BY <1>1, <1>5, <1>7, <2>4
  <2>6. data[tail].n = Len(received) + (Len(ep.packet) + 1)
    <3>1. circ_buf_count(tail, tail, Size) = 0
      <4>1. circ_buf_count(tail, tail, Size)
              = IF tail >= tail THEN tail - tail ELSE tail - tail + Size
        BY <1>0, Sizes, CountCases
      <4>2. tail \in Int  BY <1>0, SMT
      <4> QED  BY <4>1, <4>2, SMT
    <3>2. 0 < Unread
      <4>1. Count \in Int  BY <1>0, SMT
      <4> QED  BY <1>2, <2>1, <4>1, SMT
    <3>3. data[tail].n = Passed + 0 + 1  BY <1>0, <3>1, <3>2 DEF Flow, ContentInv
    <3>4. Len(ep.packet) \in Int /\ Len(received) \in Int  BY <1>0, SMT
    <3> QED  BY <3>3, <3>4, SMT DEF Passed
  <2>7. \A k \in 1..Len(ep'.packet) : ep'.packet[k].n = Len(received) + k
    <3> SUFFICES ASSUME NEW k \in 1..Len(ep'.packet)
                 PROVE  ep'.packet[k].n = Len(received) + k
      OBVIOUS
    <3>1. Len(ep.packet) \in Nat  BY <1>0
    <3>2. CASE k = Len(ep.packet) + 1  BY <1>6, <2>6, <3>2
    <3>3. CASE k # Len(ep.packet) + 1
      <4>1. k \in 1..Len(ep.packet)  BY <1>6, <3>1, <3>3, SMT
      <4> QED  BY <1>6, <4>1 DEF Flow, ContentInv
    <3> QED  BY <3>2, <3>3
  <2> QED  BY <1>1, <2>3, <2>5, <2>7 DEF Flow, ContentInv
<1> QED  BY <1>7, <1>8, <1>9, <1>10 DEF Flow

\* The host takes the packet as it is.
LEMMA HostReadsDataStep ==
  ASSUME Paced, Inv, Flow, HostReadsData PROVE Flow' /\ Passed' = Passed
<1>0. Fields!2 /\ TypeOK  BY Fields DEF Inv
<1>1. /\ ep.busy /\ ep'.packet = << >> /\ received' = received \o ep.packet
      /\ UNCHANGED <<head, tail, data, dma_head, cndtr, line, burst, left, rts,
                     serial_state, written, pc>>
  BY DEF HostReadsData, rx_buf, serial, local
<1>2. received \in Seq(Bytes) /\ ep.packet \in Seq(Bytes)  BY <1>0 DEF TypeOK
<1>3. Len(received') = Passed /\ Len(ep'.packet) = 0 /\ Passed \in Nat
  BY <1>1, <1>2, SMT DEF Passed
<1>4. Passed' = Passed
  <2>1. Passed' = Len(received') + Len(ep'.packet)  BY DEF Passed
  <2> HIDE DEF Passed
  <2> QED  BY <1>3, <2>1, SMT
<1>5. Count' = Count /\ Unread' = Unread /\ Slot' = Slot
  BY <1>1 DEF Count, Unread, Slot
<1>6. LagInv' /\ RoomInv'  BY <1>1, <1>5 DEF Flow, LagInv, RoomInv
<1>7. ContentInv'
  <2>1. ASSUME NEW k \in 1..Len(received') PROVE received'[k].n = k
    <3>1. CASE k \in 1..Len(received)
      <4>1. received'[k] = received[k]  BY <1>1, <1>2, <3>1, SMT
      <4> QED  BY <3>1, <4>1 DEF Flow, ContentInv
    <3>2. CASE k \notin 1..Len(received)
      <4>1. /\ k - Len(received) \in 1..Len(ep.packet)
            /\ received'[k] = ep.packet[k - Len(received)]
            /\ Len(received) + (k - Len(received)) = k
        BY <1>1, <1>2, <3>2, SMT
      <4> QED  BY <4>1 DEF Flow, ContentInv
    <3> QED  BY <3>1, <3>2
  <2>2. 1..Len(ep'.packet) = {}  BY <1>3, SMT
  <2> QED  BY <1>1, <1>4, <1>5, <2>1, <2>2 DEF Flow, ContentInv
<1> QED  BY <1>4, <1>6, <1>7 DEF Flow

LEMMA FlowInit == Paced /\ Init => Flow
<1> SUFFICES ASSUME Paced, Init PROVE Flow
  OBVIOUS
<1>1. Slot = 0  BY Sizes, SMT DEF Init, Slot
<1>2. circ_buf_count(0, 0, Size) = 0
  <2>1. circ_buf_count(0, 0, Size) = IF 0 >= 0 THEN 0 - 0 ELSE 0 - 0 + Size
    BY Sizes, CountCases
  <2> QED  BY <2>1, SMT
<1>3. Count = 0 /\ Unread = 0  BY <1>1, <1>2 DEF Init, Count, Unread
<1>4. Len(received) = 0 /\ Len(ep.packet) = 0  BY DEF Init
<1>5. LagInv  BY <1>1, <1>2, <1>3, SMT DEF Init, LagInv
<1>6. RoomInv  BY <1>3, Sizes, SMT DEF Init, RoomInv
<1>7. ContentInv
  <2>1. Passed = 0 /\ Passed + Unread = written  BY <1>3, <1>4, SMT DEF Init, Passed
  <2>2. \A i \in 0..(Size - 1) : ~(circ_buf_count(i, tail, Size) < Unread)
    <3> SUFFICES ASSUME NEW i \in 0..(Size - 1)
                 PROVE  ~(circ_buf_count(i, tail, Size) < 0)
      BY <1>3
    <3>1. circ_buf_count(i, tail, Size) \in 0..(Size - 1)
      BY Sizes, CountCases DEF Init
    <3> QED  BY <3>1, SMT
  <2>3. 1..Len(received) = {} /\ 1..Len(ep.packet) = {}  BY <1>4, SMT
  <2> QED  BY <2>1, <2>2, <2>3 DEF Init, ContentInv
<1> QED  BY <1>5, <1>6, <1>7 DEF Flow

LEMMA FlowStep == Paced /\ Inv /\ Flow /\ [Next]_vars => Flow'
<1> SUFFICES ASSUME Paced, Inv, Flow, [Next]_vars PROVE Flow'
  OBVIOUS
<1> QED
  BY FlowElsewhere, ReadCounterStep, SyncHeadStep, StartCharacterStep,
     StoreCharacterStep, BeginSendStep, MaskByteStep, CopyByteStep, HostReadsDataStep
  DEF Next, Poll

LEMMA FlowHolds == ASSUME Paced PROVE Spec => [](Inv /\ Flow)
<1>1. Init => Flow  BY FlowInit
<1>2. Inv /\ Flow /\ [Next]_vars => Flow'  BY FlowStep
<1> QED  BY <1>1, <1>2, InvHolds, PTL DEF Spec

\* What has been read from the buffer is what arrived first, in order.
LEMMA TakenNumbers ==
  ASSUME TypeOK, ContentInv
  PROVE  Taken = [i \in 1..Passed |-> i] /\ Len(Taken) = Passed /\ Passed \in Nat
<1> DEFINE all == received \o ep.packet
<1>1. received \in Seq(Bytes) /\ ep.packet \in Seq(Bytes)  BY DEF TypeOK
<1>2. Len(all) = Passed /\ Passed \in Nat  BY <1>1, SMT DEF Passed
<1>3. ASSUME NEW k \in 1..Passed PROVE all[k].n = k
  <2>1. CASE k \in 1..Len(received)
    <3>1. all[k] = received[k]  BY <1>1, <2>1, SMT
    <3> QED  BY <2>1, <3>1 DEF ContentInv
  <2>2. CASE k \notin 1..Len(received)
    <3>1. /\ k - Len(received) \in 1..Len(ep.packet)
          /\ all[k] = ep.packet[k - Len(received)]
          /\ Len(received) + (k - Len(received)) = k
      BY <1>1, <2>2, SMT DEF Passed
    <3> QED  BY <3>1 DEF ContentInv
  <2> QED  BY <2>1, <2>2
<1>4. Taken = [i \in 1..Len(all) |-> all[i].n]  BY DEF Taken
<1> HIDE DEF all
<1>5. Taken = [i \in 1..Passed |-> i]  BY <1>2, <1>3, <1>4
<1>6. Len([i \in 1..Passed |-> i]) = Passed  BY <1>2, SMT
<1> QED  BY <1>2, <1>5, <1>6

\* The same of the state after a step
InOrder == Taken = [i \in 1..Passed |-> i]

LEMMA TakenNumbersAfter == TypeOK' /\ ContentInv' => InOrder'
<1>1. TypeOK /\ ContentInv => InOrder  BY TakenNumbers DEF InOrder
<1> QED  BY <1>1, PTL

\* A sender that observes RTS never overruns the buffer, although RTS lags behind it,
\* and the characters reach the endpoint once and in order.
THEOREM FlowControlWorks == ASSUME Paced PROVE Spec => []FlowControlled
<1>1. Inv /\ Flow => FlowControlled
  BY TakenNumbers DEF Inv, Flow, ContentInv, FlowControlled
<1> QED  BY <1>1, FlowHolds, PTL

-----------------------------------------------------------------------------
(* The port as a bounded FIFO.                                              *)

Pipe == INSTANCE SerialPipe WITH Capacity <- Size - 1, accepted <- written, wire <- Taken

\* A character that is stored is accepted: there is room for it.
LEMMA StoreCharacterAccepts ==
  ASSUME Paced, Inv, Flow, StoreCharacter
  PROVE  Pipe!Accept
<1>0. Fields!2 /\ TypeOK /\ ContentInv  BY Fields DEF Inv, Flow
<1>1. /\ line = 1 /\ written' = written + 1 /\ UNCHANGED <<received, ep>>
  BY DEF StoreCharacter
<1>2. Taken' = Taken  BY <1>1 DEF Taken
<1>3. written < Len(Taken) + (Size - 1)
  <2>1. Passed + Unread = written /\ Unread + line <= Size - 1
    BY DEF Flow, ContentInv, RoomInv
  <2>2. Len(Taken) = Passed /\ Passed \in Nat  BY <1>0, TakenNumbers
  <2>3. Unread \in Int /\ Size \in Int  BY <1>0, Sizes, SMT
  <2> QED  BY <1>1, <2>1, <2>2, <2>3, SMT
<1> QED  BY <1>1, <1>2, <1>3 DEF Pipe!Accept

\* A character that is copied to the endpoint is the next one of the stream.
LEMMA CopyByteTransmits ==
  ASSUME Paced, Inv, Flow, Inv', CopyByte
  PROVE  Pipe!Transmit
<1>0. Fields!2 /\ TypeOK /\ ContentInv  BY Fields DEF Inv, Flow
<1>1. TypeOK' /\ ContentInv' /\ Passed' = Passed + 1  BY CopyByteStep DEF Inv, Flow
<1>2. Taken = [i \in 1..Passed |-> i] /\ Len(Taken) = Passed /\ Passed \in Nat
  BY <1>0, TakenNumbers
<1>3. Taken' = [i \in 1..(Passed + 1) |-> i]
  BY <1>1, TakenNumbersAfter DEF InOrder
<1>4. [i \in 1..(Passed + 1) |-> i] = Append([i \in 1..Passed |-> i], Passed + 1)
  <2> HIDE DEF Passed
  <2> QED  BY <1>2, SMT
<1>5. Len(Taken) < written
  <2>1. /\ pc = "copy" /\ left > 0  BY DEF CopyByte
  <2>2. left <= Count /\ Count <= Unread
    BY <1>0, <2>1, UnreadBound DEF Flow, RoomInv
  <2>3. Passed + Unread = written  BY <1>0 DEF ContentInv
  <2>4. left \in Int /\ Count \in Int /\ Unread \in Int  BY <1>0, Sizes, SMT
  <2> HIDE DEF Passed, Count, Unread
  <2> QED  BY <1>2, <2>1, <2>2, <2>3, <2>4, SMT
<1>6. written' = written  BY DEF CopyByte, env
<1> QED  BY <1>2, <1>3, <1>4, <1>5, <1>6 DEF Pipe!Transmit

\* The other steps neither accept a character nor hand one on.
LEMMA OthersStutter ==
  ASSUME Paced, Inv, Flow, [Next]_vars, ~StoreCharacter, ~CopyByte
  PROVE  UNCHANGED <<written, Taken>>
<1>0. TypeOK  BY DEF Inv
<1>1. CASE HostReadsData
  <2>1. received \in Seq(Bytes) /\ ep.packet \in Seq(Bytes)  BY <1>0 DEF TypeOK
  <2>2. received' = received \o ep.packet /\ ep'.packet = << >> /\ written' = written
    BY <1>1 DEF HostReadsData
  <2>3. received' \o ep'.packet = received \o ep.packet
    <3>1. received \o ep.packet \in Seq(Bytes)  BY <2>1
    <3> QED  BY <2>2, <3>1, SMT
  <2> QED  BY <2>2, <2>3 DEF Taken
<1>2. CASE SendZlp
  <2>1. /\ pc = "send" /\ ~ep.busy /\ ep'.packet = << >> /\ UNCHANGED <<written, received>>
    BY <1>2 DEF SendZlp, Go, env
  <2>2. ep.packet = << >>  BY <2>1 DEF Inv, TransferInv
  <2> QED  BY <2>1, <2>2 DEF Taken
<1>3. CASE EndSend
  <2>1. ep'.packet = ep.packet /\ UNCHANGED <<written, received>>
    BY <1>0, <1>3 DEF EndSend, TypeOK, env
  <2> QED  BY <2>1 DEF Taken
<1>4. CASE UNCHANGED <<written, received, ep>>
  BY <1>4 DEF Taken
<1> QED
  BY <1>1, <1>2, <1>3, <1>4
  DEF Next, Event, Poll, vars, env, local, SetControlLineState, SetLineCoding, Frame,
      OtherEvent, ReadCounter, SyncHead, ReadState, SendState, ClearErrors, BeginSend,
      MaskByte, EndMask, SendNothing, UsartIrq, StartCharacter, ChangeInputs,
      HostReadsNotification

\* The way from the RX pin to the endpoint is a FIFO for Size - 1 characters: each
\* step of the port is one of SerialPipe or leaves what was received and handed on
\* alone.
THEOREM PortIsPipe ==
  ASSUME Paced
  PROVE  Spec => Pipe!Init /\ [][Pipe!Next]_<<written, Taken>>
<1>1. Init => Pipe!Init
  <2> SUFFICES ASSUME Init PROVE Pipe!Init
    OBVIOUS
  <2>1. written = 0 /\ received = << >> /\ ep.packet = << >>  BY DEF Init
  <2>2. Len(received \o ep.packet) = 0  BY <2>1
  <2>3. Taken = << >>  BY <2>2, SMT DEF Taken
  <2> QED  BY <2>1, <2>3 DEF Pipe!Init
<1>2. Inv /\ Flow /\ Inv' /\ [Next]_vars => [Pipe!Next]_<<written, Taken>>
  <2> SUFFICES ASSUME Inv, Flow, Inv', [Next]_vars PROVE [Pipe!Next]_<<written, Taken>>
    OBVIOUS
  <2>1. CASE StoreCharacter  BY <2>1, StoreCharacterAccepts DEF Pipe!Next
  <2>2. CASE CopyByte  BY <2>2, CopyByteTransmits DEF Pipe!Next
  <2>3. CASE ~StoreCharacter /\ ~CopyByte  BY <2>3, OthersStutter
  <2> QED  BY <2>1, <2>2, <2>3
<1> QED  BY <1>1, <1>2, FlowHolds, PTL DEF Spec
=============================================================================
