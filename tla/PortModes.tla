----------------------------- MODULE PortModes -----------------------------
(***************************************************************************)
(* Port 0 through the modes of the device: reset, enabled, configuration   *)
(* mode and back, with its two buffers shared by the UART, its DMA         *)
(* channels and the shell (usb_cdc.c:321-477, 573-636, 646-706, 752-776).  *)
(*                                                                         *)
(* Chunks, packets and the poll are steps; the completion interrupt may    *)
(* fall between any two.  UartTx and UartRx have what happens within them. *)
(* Bytes are numbered in each direction, 0 is what nobody sent.            *)
(***************************************************************************)
EXTENDS Integers, Sequences, SequencesExt, CircBuf

CONSTANTS
  Size,         \* of both buffers
  Packet,       \* size of the endpoints
  MaxOut,       \* bound: bytes the host sends
  MaxIn,        \* bound: characters and bytes the shell writes
  MaxSwitches,  \* bound: changes of the configuration pin
  MaxRestarts,  \* bound: resets of the bus
  Quiet,        \* the pin changes only while the channel is idle ...
  Handled,      \* ... and no packet is put off
  Repeats       \* the host may configure a configured device again

ASSUME SizeAssumption ==
  /\ Packet \in Nat \ {0} /\ Size \in Nat /\ Packet < Size
  /\ {MaxOut, MaxIn, MaxSwitches, MaxRestarts} \subseteq Nat
  /\ {Quiet, Handled, Repeats} \subseteq BOOLEAN

VARIABLES
  tx,        \* tx_buf with last_dma_tx_size, the channel that empties it and TXA
  rx,        \* rx_buf, the channel that fills it (at: where it stores next), RE
  put_off,   \* usb_rx_pending_ep is set
  enabled,   \* usb_cdc_enabled
  config,    \* usb_cdc_config_mode
  pc,        \* main loop
  out,       \* [bytes, arrived]: OUT endpoint and its CTR flag
  full,      \* IN endpoint
  due,       \* [wire, host]: bytes accepted and still to come out, in order
  wrong,     \* who got a byte that was not due to it
  used       \* [out, in, pin, restart]: counts for the bounds

vars == <<tx, rx, put_off, enabled, config, pc, out, full, due, wrong, used>>

Index == 0..Size - 1

TypeOK ==
  /\ tx \in [head: Index, tail: Index, mem: [Index -> 0..MaxOut], last: Index,
             en: BOOLEAN, src: Index, left: 0..Size, txa: BOOLEAN]
  /\ rx \in [head: Index, tail: Index, mem: [Index -> 0..MaxIn], at: Index,
             en: BOOLEAN, re: BOOLEAN]
  /\ {put_off, enabled, config, full} \subseteq BOOLEAN
  /\ pc \in {"event", "enter", "sync", "send", "deferred", "panic"}
  /\ out \in [bytes: Seq(1..MaxOut), arrived: BOOLEAN] /\ Len(out.bytes) <= Packet
  /\ put_off => out.bytes # << >> /\ ~out.arrived
  /\ due \in [wire: Seq(1..MaxOut), host: Seq(1..MaxIn)]
  /\ wrong \subseteq {"wire", "host", "shell"}

Init ==
  /\ tx = [head |-> 0, tail |-> 0, mem |-> [i \in Index |-> 0], last |-> 0,
           en |-> FALSE, src |-> 0, left |-> 0, txa |-> FALSE]
  /\ rx = [head |-> 0, tail |-> 0, mem |-> [i \in Index |-> 0], at |-> 0,
           en |-> FALSE, re |-> FALSE]
  /\ put_off = FALSE /\ enabled = FALSE /\ config = FALSE /\ pc = "event"
  /\ out = [bytes |-> << >>, arrived |-> FALSE] /\ full = FALSE
  /\ due = [wire |-> << >>, host |-> << >>] /\ wrong = {}
  /\ used = [out |-> 0, in |-> 0, pin |-> 0, restart |-> 0]

-----------------------------------------------------------------------------
(* Buffers                                                                  *)

Count(b) == circ_buf_count(b.head, b.tail, Size)
Space(b) == circ_buf_space(b.head, b.tail, Size)
Oldest(b, n) == [k \in 1..n |-> b.mem[Advance(b.tail, k - 1, Size)]]
Rewound(b) == [b EXCEPT !.head = 0, !.tail = 0]

\* usb_circ_buf_read
Stored(b, bytes) ==
  [b EXCEPT !.head = Advance(@, Len(bytes), Size),
            !.mem  = [i \in Index |->
                        LET k == circ_buf_count(i, b.head, Size) + 1
                        IN  IF k <= Len(bytes) THEN bytes[k] ELSE @[i]]]

\* Bytes for `who' who waits for `queue': [queue, wrong]
Taken(who, queue, bytes) ==
  IF IsPrefix(bytes, queue)
  THEN [queue |-> SubSeq(queue, Len(bytes) + 1, Len(queue)), wrong |-> wrong]
  ELSE [queue |-> queue, wrong |-> wrong \cup {who}]

\* usb_cdc_port_start_tx; TXA ends with the last character.
StartTx(t) ==
  LET n == circ_buf_count_to_end(t.head, t.tail, Size)
  IN  IF t.en THEN t
      ELSE IF n = 0 THEN [t EXCEPT !.txa = FALSE]
      ELSE [t EXCEPT !.en = TRUE, !.src = t.tail, !.left = n, !.last = n, !.txa = TRUE]

\* cdc_shell_write: bytes that find the buffer full take the place of what is in it.
\* (They are fewer than Size, so that happens at most once.)
Written(r, queue, bytes) ==
  LET room == Space(r)
      part == Stored(r, SubSeq(bytes, 1, room))
      rest == SubSeq(bytes, room + 1, Len(bytes))
  IN  IF Len(bytes) <= room
      THEN [rx |-> Stored(r, bytes), queue |-> queue \o bytes]
      ELSE [rx |-> Stored([part EXCEPT !.tail = part.head], rest), queue |-> rest]

\* The shell answers with n bytes, as far as the bound goes.
ShellWrite(r, d, n) ==
  LET most == IF used.in + n > MaxIn THEN MaxIn - used.in ELSE n
      s    == Written(r, d.host, [k \in 1..most |-> used.in + k])
  IN  /\ rx' = s.rx /\ due' = [d EXCEPT !.host = s.queue]
      /\ used' = [used EXCEPT !.in = @ + most]

\* Faulty variant: one call, up to the end of the buffer.
ToTheEnd(b) == circ_buf_count_to_end(b.head, b.tail, Size)

\* What the loop hands to the shell: up to the end, then from the start
ForShell(b) == Count(b)

\* usb_cdc_config_mode_process_tx with tx_buf as t: the packet, if it fits, and
\* whatever else is in the buffer goes to the shell.
ProcessTx(t, next) ==
  IF Len(out.bytes) < Space(t)
  THEN LET read == Stored(t, out.bytes)
           n    == ForShell(read)
       IN  /\ tx' = [read EXCEPT !.tail = Advance(@, n, Size)]
           /\ wrong' = IF Oldest(read, n) = out.bytes THEN wrong
                       ELSE wrong \cup {"shell"}
           /\ out' = [bytes |-> << >>, arrived |-> FALSE]
           /\ ShellWrite(rx, due, n)
           /\ pc' = next
  ELSE /\ pc' = "panic" /\ tx' = t
       /\ UNCHANGED <<rx, out, due, wrong, used>>

-----------------------------------------------------------------------------
(* DMA channels and their interrupt                                         *)

TxDone == tx.en /\ tx.left = 0

Fetch ==
  /\ tx.en /\ tx.left > 0
  /\ tx' = [tx EXCEPT !.src = Advance(@, 1, Size), !.left = @ - 1]
  /\ LET s == Taken("wire", due.wire, <<tx.mem[tx.src]>>)
     IN  due' = [due EXCEPT !.wire = s.queue] /\ wrong' = s.wrong
  /\ UNCHANGED <<rx, put_off, enabled, config, pc, out, full, used>>

\* usb_cdc_port_tx_complete: the highest priority there is here
TxComplete ==
  /\ TxDone /\ pc # "panic"
  /\ LET t == [tx EXCEPT !.tail = Advance(@, tx.last, Size), !.en = FALSE]
     IN  \/ /\ ~config /\ tx' = StartTx(t)
            /\ UNCHANGED <<rx, pc, out, due, wrong, used>>
         \/ config /\ ProcessTx([t EXCEPT !.txa = FALSE], pc)
  /\ UNCHANGED <<put_off, enabled, config, full>>

\* The sender observes RTS (UartRx): there is always room.
Character ==
  /\ rx.re /\ rx.en /\ used.in < MaxIn
  /\ circ_buf_space(rx.at, rx.tail, Size) > 1
  /\ rx' = [rx EXCEPT !.mem[rx.at] = used.in + 1, !.at = Advance(@, 1, Size)]
  /\ used' = [used EXCEPT !.in = @ + 1]
  /\ due' = IF config \/ pc = "enter" THEN due
            ELSE [due EXCEPT !.host = Append(@, used.in + 1)]
  /\ UNCHANGED <<tx, put_off, enabled, config, pc, out, full, wrong>>

-----------------------------------------------------------------------------
(* Main loop: an event, ...                                                 *)

Go(from, to) == pc = from /\ ~TxDone /\ pc' = to

\* Bytes for the wire go into tx_buf and are started.
Transmit ==
  /\ tx' = StartTx(Stored(tx, out.bytes))
  /\ due' = [due EXCEPT !.wire = @ \o out.bytes]
  /\ out' = [bytes |-> << >>, arrived |-> FALSE]

\* Faulty variant: the space is not looked at.
AlwaysFits == TRUE

Fits == Len(out.bytes) <= Space(tx)

DataReceived ==
  /\ out.arrived /\ ~TxDone
  /\ \/ config /\ pc = "event" /\ ProcessTx(tx, "sync") /\ UNCHANGED put_off
     \/ /\ ~config /\ ~Fits /\ Go("event", "sync")
        /\ put_off' = TRUE /\ out' = [out EXCEPT !.arrived = FALSE]
        /\ UNCHANGED <<tx, rx, due, wrong, used>>
     \/ /\ ~config /\ Fits /\ Go("event", "sync")
        /\ Transmit
        /\ UNCHANGED <<rx, put_off, wrong, used>>
  /\ UNCHANGED <<enabled, config, full>>

\* usb_cdc_config_mode_enter: the buffers, ...
Enter ==
  /\ ~out.arrived /\ enabled /\ ~config /\ used.pin < MaxSwitches /\ Go("event", "enter")
  /\ Quiet => ~tx.en
  /\ Handled => ~put_off
  /\ used' = [used EXCEPT !.pin = @ + 1]
  /\ rx' = Rewound(rx) /\ tx' = Rewound(tx)
  /\ due' = [due EXCEPT !.host = << >>]
  /\ UNCHANGED <<put_off, enabled, config, out, full, wrong>>

\* ... then receiver and channel, and the shell starts with its banner.
Entered ==
  /\ Go("enter", "sync")
  /\ ShellWrite([rx EXCEPT !.re = FALSE], [due EXCEPT !.wire = << >>], 1)
  /\ tx' = [tx EXCEPT !.en = FALSE]
  /\ config' = TRUE
  /\ UNCHANGED <<put_off, enabled, out, full, wrong>>

\* Faulty variant: the receive buffer begins at 0 again.
FromStart(r) == 0

\* Where the channel has got to
FromHead(r) == r.at

\* usb_cdc_config_mode_leave; what is in the buffers is given up.
Leave ==
  /\ ~out.arrived /\ enabled /\ config /\ used.pin < MaxSwitches /\ Go("event", "sync")
  /\ used' = [used EXCEPT !.pin = @ + 1]
  /\ rx' = [rx EXCEPT !.head = FromHead(rx), !.tail = FromHead(rx), !.re = TRUE]
  /\ tx' = Rewound(tx)
  /\ due' = [wire |-> << >>, host |-> << >>]
  /\ config' = FALSE
  /\ UNCHANGED <<put_off, enabled, out, full, wrong>>

\* Faulty variant: the size of the last chunk survives.
LastSurvives(t) == [Rewound(t) EXCEPT !.mem = [i \in Index |-> 0]]

\* memset of the port's state
Zeroed(t) == [Rewound(t) EXCEPT !.last = 0, !.mem = [i \in Index |-> 0]]

\* A reset of the bus, handled: usb_cdc_reset clears the state, resets the
\* USARTs and leaves the DMA channels enabled; CNDTR cannot be written then.
Reset ==
  /\ ~out.arrived /\ enabled /\ used.restart < MaxRestarts /\ Go("event", "sync")
  /\ used' = [used EXCEPT !.restart = @ + 1]
  /\ enabled' = FALSE /\ put_off' = FALSE /\ full' = FALSE
  /\ tx' = [Zeroed(tx) EXCEPT !.txa = FALSE]
  /\ rx' = [Rewound(rx) EXCEPT !.mem = [i \in Index |-> 0], !.re = FALSE]
  /\ out' = [bytes |-> << >>, arrived |-> FALSE]
  /\ due' = [wire |-> << >>, host |-> << >>]
  /\ UNCHANGED <<config, wrong>>

\* SET_CONFIGURATION: usb_cdc_enable, usb_cdc_port_start_rx
Enable ==
  /\ ~out.arrived /\ Go("event", "sync")
  /\ ~enabled \/ (Repeats /\ used.restart < MaxRestarts)
  /\ used' = IF enabled THEN [used EXCEPT !.restart = @ + 1] ELSE used
  /\ enabled' = TRUE
  /\ rx' = [rx EXCEPT !.at = 0, !.en = TRUE, !.re = TRUE]
  /\ UNCHANGED <<tx, put_off, config, out, full, due, wrong>>

OtherEvent ==
  /\ ~out.arrived /\ Go("event", "sync")
  /\ UNCHANGED <<tx, rx, put_off, enabled, config, out, full, due, wrong, used>>

(* ... then the poll.                                                       *)

\* Faulty variant: the head follows the channel in configuration mode too.
SyncAlways == TRUE

SyncAllowed == ~config

Sync ==
  /\ Go("sync", "send")
  /\ rx' = IF SyncAllowed THEN [rx EXCEPT !.head = rx.at] ELSE rx
  /\ UNCHANGED <<tx, put_off, enabled, config, out, full, due, wrong, used>>

SendRx ==
  /\ Go("send", "deferred")
  /\ \/ /\ ~full /\ Count(rx) > 0 /\ full' = TRUE
        /\ LET n == IF Count(rx) < Packet THEN Count(rx) ELSE Packet
               s == Taken("host", due.host, Oldest(rx, n))
           IN  /\ rx' = [rx EXCEPT !.tail = Advance(@, n, Size)]
               /\ due' = [due EXCEPT !.host = s.queue] /\ wrong' = s.wrong
     \/ (full \/ Count(rx) = 0) /\ UNCHANGED <<full, rx, due, wrong>>
  /\ UNCHANGED <<tx, put_off, enabled, config, out, used>>

PollDeferred ==
  /\ Go("deferred", "event")
  /\ \/ /\ put_off /\ Fits
        /\ Transmit /\ put_off' = FALSE
     \/ /\ ~put_off \/ ~Fits
        /\ UNCHANGED <<tx, put_off, out, due>>
  /\ UNCHANGED <<rx, enabled, config, full, wrong, used>>

-----------------------------------------------------------------------------
HostSends ==
  /\ enabled /\ out.bytes = << >> /\ used.out < MaxOut
  /\ \E n \in 1..(IF MaxOut - used.out < Packet THEN MaxOut - used.out ELSE Packet) :
       /\ out' = [bytes |-> [k \in 1..n |-> used.out + k], arrived |-> TRUE]
       /\ used' = [used EXCEPT !.out = @ + n]
  /\ UNCHANGED <<tx, rx, put_off, enabled, config, pc, full, due, wrong>>

HostReads ==
  /\ enabled /\ full /\ full' = FALSE
  /\ UNCHANGED <<tx, rx, put_off, enabled, config, pc, out, due, wrong, used>>

MainLoop ==
  \/ DataReceived \/ Enter \/ Entered \/ Leave \/ Reset \/ Enable \/ OtherEvent
  \/ Sync \/ SendRx \/ PollDeferred

Next == MainLoop \/ Fetch \/ TxComplete \/ Character \/ HostSends \/ HostReads

Fairness ==
  WF_vars(MainLoop) /\ WF_vars(Fetch) /\ WF_vars(TxComplete) /\ WF_vars(HostReads)

Spec == Init /\ [][Next]_vars /\ Fairness

-----------------------------------------------------------------------------
(* Properties.                                                              *)

\* The shell gets the bytes of each packet that arrives in configuration
\* mode and nothing else, and the device does not stop for want of space
\* (usb_cdc.c:402-416).
ShellGetsTyped == "shell" \notin wrong /\ pc # "panic"

\* The wire gets the bytes accepted for it, in order and once: nothing typed
\* for the shell, nothing that the buffer held before (usb_cdc.c:378, 391).
WireGetsSent == "wire" \notin wrong

\* The host gets characters received and bytes the shell wrote, in order and
\* once, and nothing that the buffer held before (usb_cdc.c:377, 390, 756).
HostGetsReceived == "host" \notin wrong

\* Shell, wire and host share port 0's two buffers ("buffers are reused for
\* the config shell", usb_cdc.c:396-400), and none of them gets a byte of
\* another, or one that the buffer held before, in or after either mode.
NothingAstray == ShellGetsTyped /\ WireGetsSent /\ HostGetsReceived

\* What is accepted for either side comes out in the end, in order.
AllComesOut == []<>(due.wire = << >> /\ due.host = << >>)

\* However a change of mode or a reset comes upon a transmission, what is
\* accepted for the wire comes out in order, if not alone, unless the device
\* is left in configuration mode or has stopped (usb_cdc.c:379-381, 391, 597-619).
WireComesOut == []<>(due.wire = << >> \/ config \/ pc = "panic")

\* TXA is active only while the channel works (README.md:86).
TxaWithChannel == tx.txa => tx.en
=============================================================================
