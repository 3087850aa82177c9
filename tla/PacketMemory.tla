---------------------------- MODULE PacketMemory ----------------------------
(***************************************************************************)
(* The packet memory: where usb_io_reset puts the buffers of the endpoints *)
(* (usb_io.c:19-53), and the copying of packets in and out of it by half-  *)
(* words (97-184) while the hardware moves those of other endpoints.       *)
(*                                                                         *)
(* When an endpoint is used, and for what, is in the other modules.        *)
(***************************************************************************)
EXTENDS Integers, Sequences, CircBuf

CONSTANTS
  ControlSize, InterruptSize, SmallSize, LargeSize,  \* sizes of endpoints
  Memory,      \* bytes of packet memory
  Size,        \* of the software's buffers
  Rooms,       \* sizes of the buffers that usb_read is given
  MaxPackets   \* bound

ASSUME SizeAssumption ==
  /\ {ControlSize, InterruptSize, SmallSize, LargeSize, Memory, MaxPackets} \subseteq Nat
  /\ Size \in Nat \ {0} /\ LargeSize < Size - 1 /\ Rooms \subseteq 0..Size

VARIABLES
  btable,   \* the buffer table, NoTable before the first reset
  memory,   \* half-words behind it, as pairs of bytes
  stat,     \* direction and endpoint: "nak" or "valid"
  arrived,  \* endpoints with CTR_RX set
  op,       \* what the software copies, or Idle
  packet,   \* direction and endpoint: the bytes handed over there
  last,     \* the last packet that got through: [want, got]
  used      \* packets so far

vars == <<btable, memory, stat, arrived, op, packet, last, used>>

\* usb_endpoints: control, then notifications and data of each port
Table ==
  LET interrupt  == [tx |-> InterruptSize, rx |-> 0]
      both(size) == [tx |-> size, rx |-> size]
  IN  <<both(ControlSize), interrupt, both(SmallSize), interrupt, both(LargeSize),
        interrupt, both(LargeSize)>>

Endpoints == 0..Len(Table) - 1
usb_endpoints == [e \in Endpoints |-> Table[e + 1]]
Flat(e) == e % 2 = 1 \/ e = 0
Sides == {"tx", "rx"} \X Endpoints
Index == 0..Size - 1
Words == 0..Memory \div 2 - 1

NoTable == << >>
Idle == [kind |-> "idle"]

-----------------------------------------------------------------------------
(* usb_io_reset                                                             *)

\* The table takes 8 bytes an endpoint and is given its size in the address
\* space of the processor, which has a gap after each half-word.
BtableSize == 16 * Len(Table)

SmallBlock == 2
LargeBlock == 32
SmallLimit == 62

\* Faulty variant: NUM_BLOCK as if it were counted from one.
LimitOneMore(size) ==
  IF size > SmallLimit THEN (size \div LargeBlock + 1) * LargeBlock
  ELSE (size \div SmallBlock) * SmallBlock

\* What the hardware may store, by BL_SIZE and NUM_BLOCK
Limit(size) ==
  IF size > SmallLimit THEN ((size \div LargeBlock - 1) + 1) * LargeBlock
  ELSE (size \div SmallBlock) * SmallBlock

Offset[e \in Endpoints] ==
  IF e = 0 THEN BtableSize
  ELSE Offset[e - 1] + usb_endpoints[e - 1].tx + usb_endpoints[e - 1].rx

Layout ==
  [e \in Endpoints |->
     [tx_offset |-> Offset[e], tx_count |-> 0,
      rx_offset |-> Offset[e] + usb_endpoints[e].tx, rx_count |-> 0,
      limit |-> Limit(usb_endpoints[e].rx)]]

Init ==
  /\ btable = NoTable /\ memory = [w \in Words |-> <<0, 0>>]
  /\ stat = [s \in Sides |-> "nak"] /\ arrived = {} /\ op = Idle
  /\ packet = [s \in Sides |-> << >>]
  /\ last = [want |-> << >>, got |-> << >>] /\ used = 0

Reset ==
  /\ btable = NoTable /\ btable' = Layout
  /\ stat' = [s \in Sides |-> IF s[1] = "rx" THEN "valid" ELSE "nak"]
  /\ UNCHANGED <<memory, arrived, op, packet, last, used>>

-----------------------------------------------------------------------------
(* Copying.  What the buffer of the program holds is numbered bytes.        *)

\* Lengths that matter: the odd and even ends, and more than fits.
Lengths(size) == {n \in {1, size - 1, size} : 0 < n /\ n <= size}
Fresh(n) == [k \in 1..n |-> 100 * (used + 1) + k]
Word(base, k) == base \div 2 + k
Starts(e) == IF Flat(e) THEN {0} ELSE {0, Size - 1}
Slice(buf, start, n) == [k \in 1..n |-> buf[Advance(start, k - 1, Size)]]
Filled(start, bytes) ==
  [i \in Index |-> LET k == circ_buf_count(i, start, Size) + 1
                   IN  IF k <= Len(bytes) THEN bytes[k] ELSE 0]

\* usb_send, usb_circ_buf_send: no more than the endpoint takes
BeginSend(e, start, n) ==
  /\ op = Idle /\ stat[<<"tx", e>>] = "nak"
  /\ LET count == IF n > usb_endpoints[e].tx THEN usb_endpoints[e].tx ELSE n
     IN  /\ op' = [kind |-> "send", ep |-> e, start |-> start, count |-> count, done |-> 0,
                   base |-> btable[e].tx_offset, buf |-> Filled(start, Fresh(n))]
         /\ packet' = [packet EXCEPT ![<<"tx", e>>] = SubSeq(Fresh(n), 1, count)]
  /\ used' = used + 1
  /\ UNCHANGED <<btable, memory, stat, arrived, last>>

\* usb_read, for a buffer of room bytes, and usb_circ_buf_read
BeginRead(e, start, room) ==
  /\ op = Idle /\ e \in arrived /\ arrived' = arrived \ {e}
  /\ LET count == btable[e].rx_count
     IN  \/ /\ count <= room
            /\ btable' = [btable EXCEPT ![e].rx_count = 0]
            /\ op' = [kind |-> "read", ep |-> e, start |-> start, count |-> count, done |-> 0,
                      base |-> btable[e].rx_offset, buf |-> [i \in Index |-> 0]]
         \/ count > room /\ UNCHANGED <<btable, op>>
  /\ UNCHANGED <<memory, stat, packet, last, used>>

\* Faulty variant: half-words alone, without the odd byte.
WholeWords(count) == 2 * (count \div 2)

\* Half-words, then the odd byte
ToCopy(count) == count

Here == Word(op.base, op.done \div 2)
Place(k) == Advance(op.start, op.done + k, Size)
Copying(kind) == op.kind = kind /\ op.done < ToCopy(op.count)
Odd == op.count - op.done = 1

SendWord ==
  /\ Copying("send")
  /\ memory' = [memory EXCEPT ![Here] = <<op.buf[Place(0)], IF Odd THEN 0 ELSE op.buf[Place(1)]>>]
  /\ op' = [op EXCEPT !.done = @ + (IF Odd THEN 1 ELSE 2)]
  /\ UNCHANGED <<btable, stat, arrived, packet, last, used>>

ReadWord ==
  /\ Copying("read")
  /\ op' = [op EXCEPT !.done = @ + (IF Odd THEN 1 ELSE 2),
                      !.buf  = IF Odd THEN [@ EXCEPT ![Place(0)] = memory[Here][1]]
                               ELSE [@ EXCEPT ![Place(0)] = memory[Here][1],
                                              ![Place(1)] = memory[Here][2]]]
  /\ UNCHANGED <<btable, memory, stat, arrived, packet, last, used>>

EndSend ==
  /\ op.kind = "send" /\ ~Copying("send") /\ op' = Idle
  /\ btable' = [btable EXCEPT ![op.ep].tx_count = op.count]
  /\ stat' = [stat EXCEPT ![<<"tx", op.ep>>] = "valid"]
  /\ UNCHANGED <<memory, arrived, packet, last, used>>

EndRead ==
  /\ op.kind = "read" /\ ~Copying("read") /\ op' = Idle
  /\ stat' = [stat EXCEPT ![<<"rx", op.ep>>] = "valid"]
  /\ last' = [want |-> packet[<<"rx", op.ep>>], got |-> Slice(op.buf, op.start, op.count)]
  /\ UNCHANGED <<btable, memory, arrived, packet, used>>

-----------------------------------------------------------------------------
(* Host and hardware                                                        *)

HostSends(e, n) ==
  /\ stat[<<"rx", e>>] = "valid" /\ n <= btable[e].limit
  /\ stat' = [stat EXCEPT ![<<"rx", e>>] = "nak"]
  /\ memory' = [w \in Words |->
                  LET k == 2 * (w - btable[e].rx_offset \div 2) + 1
                  IN  IF k \in 1..n THEN <<Fresh(n)[k], IF k < n THEN Fresh(n)[k + 1] ELSE 0>>
                      ELSE memory[w]]
  /\ btable' = [btable EXCEPT ![e].rx_count = n]
  /\ arrived' = arrived \cup {e}
  /\ packet' = [packet EXCEPT ![<<"rx", e>>] = Fresh(n)]
  /\ used' = used + 1
  /\ UNCHANGED <<op, last>>

HostReads(e) ==
  /\ stat[<<"tx", e>>] = "valid"
  /\ stat' = [stat EXCEPT ![<<"tx", e>>] = "nak"]
  /\ last' = [want |-> packet[<<"tx", e>>],
              got  |-> [k \in 1..btable[e].tx_count |->
                          memory[Word(btable[e].tx_offset, (k - 1) \div 2)][2 - (k % 2)]]]
  /\ UNCHANGED <<btable, memory, arrived, op, packet, used>>

Next ==
  \/ Reset
  \/ /\ btable # NoTable
     /\ \/ SendWord \/ ReadWord \/ EndSend \/ EndRead
        \/ \E e \in Endpoints :
             \/ HostReads(e)
             \/ \E start \in Starts(e), room \in (IF Flat(e) THEN Rooms ELSE {Size}) :
                  BeginRead(e, start, room)
             \/ /\ used < MaxPackets
                /\ \/ \E n \in Lengths(usb_endpoints[e].rx) : HostSends(e, n)
                   \/ \E start \in Starts(e),
                         n \in Lengths(usb_endpoints[e].tx) \cup {usb_endpoints[e].tx + 1} :
                        BeginSend(e, start, n)

Spec == Init /\ [][Next]_vars

-----------------------------------------------------------------------------
(* Properties.                                                              *)

Region(s) ==
  LET e == btable[s[2]]
  IN  IF s[1] = "tx" THEN [from |-> e.tx_offset, to |-> e.tx_offset + usb_endpoints[s[2]].tx]
      ELSE [from |-> e.rx_offset, to |-> e.rx_offset + e.limit]

\* The copying loops stay within the buffer they began in (usb_io.c:97-184).
TypeOK ==
  /\ stat \in [Sides -> {"nak", "valid"}] /\ arrived \subseteq Endpoints
  /\ op # Idle => /\ op.done \in 0..op.count /\ op.start \in Index
                  /\ op.count <= (IF op.kind = "send" THEN usb_endpoints[op.ep].tx
                                  ELSE btable[op.ep].limit)

\* The hardware and the copying loops write as much as an endpoint's size
\* and its block count allow.  No buffer reaches into another, into the
\* buffer table or behind the memory, which the table of endpoints fills to
\* the last byte (usb_io.c:20-35); and a longest packet fits.
BuffersApart ==
  btable # NoTable =>
    /\ \A s \in Sides : Region(s).from >= 8 * Len(Table) /\ Region(s).to <= Memory
    /\ \A s, t \in Sides :
         s # t => Region(s).to <= Region(t).from \/ Region(t).to <= Region(s).from
    /\ \A e \in Endpoints : btable[e].limit >= usb_endpoints[e].rx

\* What one side hands over is what the other gets, odd lengths and packets
\* that wrap in a circular buffer included, while packets of other endpoints
\* come, go and wait to be read (usb_io.c:97-184).
PacketsWhole == last.got = last.want
=============================================================================
