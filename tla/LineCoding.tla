----------------------------- MODULE LineCoding -----------------------------
(***************************************************************************)
(* SET_LINE_CODING and GET_LINE_CODING of one port: which codings are      *)
(* accepted, what each step of usb_cdc_set_line_coding has stored and      *)
(* written when a later one refuses, and the coding that waits until the   *)
(* data are out (usb_cdc.c:250-317, 708-750, 761-765).                     *)
(*                                                                         *)
(* Whether tx_buf is empty is all that is left of the transmit path; the   *)
(* completion interrupt may empty it between the test of the count and     *)
(* what is made of it.  Module UartTx has the other interleavings of the   *)
(* two.                                                                    *)
(***************************************************************************)
EXTENDS Integers

CONSTANTS
  Fck,       \* clock of the port's USART, in Hz
  Rates,     \* values of dwDTERate
  DataBits,  \* values of bDataBits
  BrrSize    \* 2^16: values of the baud rate register

ASSUME RateAssumption ==
  /\ Fck \in Nat /\ BrrSize \in Nat \ {0}
  /\ Rates \subseteq Nat /\ 9600 \in Rates
  /\ DataBits \subseteq Nat /\ 8 \in DataBits

VARIABLES
  stored,   \* line_coding
  usart,    \* [brr, stop, m, pce, ps]: BRR, and bits of CR2 and CR1
  pending,  \* line_state_change_pending
  ready,    \* line_state_change_ready
  notify,   \* serial_state_prev was made to differ from serial_state
  busy,     \* tx_buf is not empty
  test,     \* what a request found of that, or "none" between requests
  answer    \* what the host got for its last coding

coding_vars == <<stored, usart, pending, ready, notify, busy, test, answer>>

StopBits == {"1", "1.5", "2"}
Parities == {"none", "odd", "even"}
Codings  == [rate: Rates, stop: StopBits \cup {"other"}, bits: DataBits,
             parity: Parities \cup {"mark"}]

CodingTypeOK ==
  /\ stored \in Codings
  /\ stored.stop # "other" /\ stored.parity # "mark" /\ stored.rate # 0
  /\ usart \in [brr: 0..BrrSize - 1, stop: 0..3, m: BOOLEAN, pce: BOOLEAN, ps: BOOLEAN]
  /\ {pending, ready, notify, busy} \subseteq BOOLEAN
  /\ test \in {"none", "empty", "filled"}
  /\ answer \in {"ack", "stall"}

\* Faulty variant: the whole quotient.
BrrWide(rate) == Fck \div rate

\* The register has 16 bits.
Brr(rate) == (Fck \div rate) % BrrSize

StopCode(stop) == CASE stop = "1" -> 0 [] stop = "1.5" -> 3 [] stop = "2" -> 2

-----------------------------------------------------------------------------
(* usb_cdc_set_line_coding: each step changes what is stored and, unless    *)
(* dry, the registers, before the next one may refuse.                      *)

Both(s, u) == [stored |-> s, usart |-> u]

SetRate(b, c, dry) ==
  IF c.rate = 0 THEN b
  ELSE Both([b.stored EXCEPT !.rate = c.rate],
            IF dry THEN b.usart ELSE [b.usart EXCEPT !.brr = Brr(c.rate)])

SetStop(b, c, dry) ==
  Both([b.stored EXCEPT !.stop = c.stop],
       IF dry THEN b.usart ELSE [b.usart EXCEPT !.stop = StopCode(c.stop)])

SetBits(b, c) == [b EXCEPT !.stored.bits = c.bits]

NinthBit(c) == c.parity # "none" /\ c.bits = 8

SetParity(b, c, dry) ==
  Both([b.stored EXCEPT !.parity = c.parity],
       IF dry THEN b.usart
       ELSE [b.usart EXCEPT !.m = NinthBit(c), !.pce = c.parity # "none",
                            !.ps = c.parity = "odd"])

set_line_coding(b, c, dry) ==
  LET rated   == SetRate(b, c, dry)
      stopped == SetStop(rated, c, dry)
      sized   == SetBits(stopped, c)
  IN  IF c.stop \notin StopBits
      THEN [ok |-> FALSE, now |-> rated]
      ELSE IF c.bits \notin {7, 8} /\ c.parity # "none"
      THEN [ok |-> FALSE, now |-> stopped]
      ELSE IF c.parity \notin Parities
      THEN [ok |-> FALSE, now |-> sized]
      ELSE [ok |-> TRUE, now |-> SetParity(sized, c, dry)]

\* The default coding, as usb_cdc_reset leaves it after clearing the port
Default == [rate |-> 9600, stop |-> "1", bits |-> 8, parity |-> "none"]

AfterReset ==
  set_line_coding(
    Both(Default, [brr |-> 0, stop |-> 0, m |-> FALSE, pce |-> FALSE, ps |-> FALSE]),
    Default, FALSE).now

CodingInit ==
  /\ stored = AfterReset.stored /\ usart = AfterReset.usart
  /\ pending = FALSE /\ ready = FALSE /\ notify = TRUE /\ busy = FALSE
  /\ test = "none" /\ answer = "ack"

CodingReset ==
  /\ test = "none" /\ UNCHANGED test
  /\ stored' = AfterReset.stored /\ usart' = AfterReset.usart
  /\ pending' = FALSE /\ ready' = FALSE /\ notify' = TRUE /\ busy' = FALSE
  /\ answer' = "ack"

\* The buffer is tested, ...
TestCount ==
  /\ test = "none" /\ test' = IF busy THEN "filled" ELSE "empty"
  /\ UNCHANGED <<stored, usart, pending, ready, notify, busy, answer>>

\* Faulty variant: the flag is set only for a coding that is accepted.
DeferAccepted(ok) == pending' = (pending \/ (test = "filled" /\ ok))

\* The flag is set before the coding is looked at.
Defer(ok) == pending' = (pending \/ test = "filled")

\* ... and the coding is set, or only stored if there were data then.
SetLineCoding(c) ==
  LET dry  == test = "filled"
      done == set_line_coding(Both(stored, usart), c, dry)
  IN  /\ test # "none" /\ test' = "none"
      /\ stored' = done.now.stored /\ usart' = done.now.usart
      /\ Defer(done.ok)
      /\ notify' = (notify \/ (done.ok /\ ~dry))
      /\ answer' = IF done.ok THEN "ack" ELSE "stall"
      /\ UNCHANGED <<ready, busy>>

\* A request of another length is refused before it is looked at.
WrongLength ==
  /\ test = "none" /\ answer' = "stall"
  /\ UNCHANGED <<stored, usart, pending, ready, notify, busy, test>>

Notify ==
  /\ test = "none" /\ notify /\ notify' = FALSE
  /\ UNCHANGED <<stored, usart, pending, ready, busy, test, answer>>

Apply == set_line_coding(Both(stored, usart), stored, FALSE).now

\* usb_cdc_poll
PollReady ==
  /\ test = "none" /\ ready
  /\ stored' = Apply.stored /\ usart' = Apply.usart
  /\ pending' = FALSE /\ ready' = FALSE /\ notify' = TRUE
  /\ UNCHANGED <<busy, test, answer>>

\* A packet is read by its event unless a change is pending, and otherwise by
\* the poll, which does not look at the flag.
Receive ==
  /\ test = "none" /\ busy' = TRUE
  /\ UNCHANGED <<stored, usart, pending, ready, notify, test, answer>>

\* Faulty variant: nobody is told.
NotTold == FALSE

\* usb_cdc_port_tx_complete, an interrupt
Told == pending

CodingTxComplete ==
  /\ busy /\ busy' = FALSE
  /\ ready' = (ready \/ Told)
  /\ UNCHANGED <<stored, usart, pending, notify, test, answer>>

CodingNext ==
  \/ TestCount \/ \E c \in Codings : SetLineCoding(c)
  \/ WrongLength \/ CodingReset \/ Notify \/ PollReady \/ Receive \/ CodingTxComplete

\* A request that was begun is carried out, and every turn ends with the poll.
Finish == test # "none" /\ test' = "none"

CodingFairness == WF_test(Finish) /\ SF_coding_vars(PollReady)

CodingSpec == CodingInit /\ [][CodingNext]_coding_vars /\ CodingFairness

-----------------------------------------------------------------------------
(* What the registers mean (reference manual, not the code).                *)

FrameBits(u) == (IF u.m THEN 9 ELSE 8) - (IF u.pce THEN 1 ELSE 0)
FrameParity(u) == IF ~u.pce THEN "none" ELSE IF u.ps THEN "odd" ELSE "even"
FrameStop(u) == CASE u.stop = 0 -> "1" [] u.stop = 1 -> "0.5"
                  [] u.stop = 2 -> "2" [] u.stop = 3 -> "1.5"
\* BRR = fck / rate, rounded down
RateIs(u, rate) == u.brr * rate <= Fck /\ Fck < (u.brr + 1) * rate

Frame(u, c) == FrameBits(u) = c.bits /\ FrameParity(u) = c.parity

(* Properties.                                                              *)

\* While nothing is pending, the stop bits, the parity and (within reach of
\* BRR) the rate that GET_LINE_CODING reports are the USART's, whatever
\* refused requests have left behind (usb_cdc.c:279, 283, 310) and whether
\* they were applied at once or late.  The next request that is accepted
\* puts the word length right as well: 8 bits, or 7 with parity.
WireFormat ==
  ~pending =>
    /\ FrameStop(usart) = stored.stop
    /\ FrameParity(usart) = stored.parity
    /\ Fck \div stored.rate < BrrSize => RateIs(usart, stored.rate)
    /\ answer = "ack" /\ (stored.bits = 8 \/ (stored.bits = 7 /\ stored.parity # "none"))
         => FrameBits(usart) = stored.bits

\* A change that is pending while data are still to be sent gets into the
\* registers and is followed by a notification of the port's state (312-315,
\* 761-765), provided the buffer runs empty time and again.  A change whose
\* last completion fell between lines 728 and 730 waits until there are data
\* again: DeferredChangeMade of UartTx, which it violates.
Announced == ([]<>~busy) => ((pending /\ busy) ~> (~pending /\ notify))

\* "Supports all baud rates up to 2 MBaud" (README.md:30): an accepted rate
\* is the USART's rate.
RateAsAsked == answer = "ack" /\ ~pending => RateIs(usart, stored.rate)

\* "7 or 8 bit word length", "None, even, odd parity" (README.md:26-27).
FrameAsAsked ==
  answer = "ack" /\ ~pending /\ stored.bits \in {7, 8} => Frame(usart, stored)

\* Requests that are refused leave the word length on the wire alone: it does
\* not change as long as nothing but refused requests comes after a time when
\* nothing was pending.
RefusedLeavesFrame ==
  \A n \in {7, 8, 9} :
    [](~pending /\ FrameBits(usart) = n /\ [](answer = "stall")
         => [](FrameBits(usart) = n))
=============================================================================
