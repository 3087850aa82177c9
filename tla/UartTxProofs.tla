---------------------------- MODULE UartTxProofs ----------------------------
(***************************************************************************)
(* Theorems about UartTx: its types and codings, for all values of the     *)
(* constants; and that it neither loses, repeats, reorders nor overwrites  *)
(* a byte, for every buffer size, every set of packet sizes and streams of *)
(* any length, as long as the port is used alone (~Delays) and no zero-    *)
(* length packet arrives.  Without either condition it is false:           *)
(* UartTx_size.cfg and UartTx_zlp.cfg show how.                            *)
(***************************************************************************)
EXTENDS UartTx, TLAPS

-----------------------------------------------------------------------------
(* What the macros of circ_buf.h compute, for every buffer size.            *)

\* The remainder of a difference of two indices.
LEMMA RemainderOfDifference ==
  ASSUME NEW size \in Nat \ {0}, NEW a \in 0..(size - 1), NEW b \in 0..(size - 1)
  PROVE  (a - b) % size = IF a >= b THEN a - b ELSE a - b + size
<1>1. CASE a >= b
  <2>1. a - b \in Int /\ 0 <= a - b /\ a - b < size  BY <1>1, SMT
  <2>2. (a - b) % size = a - b  BY <2>1, SMT
  <2> QED  BY <1>1, <2>2
<1>2. CASE a < b
  <2>1. a - b \in Int /\ -size <= a - b /\ a - b < 0  BY <1>2, SMT
  <2>2. (a - b) % size = a - b + size  BY <2>1, SMT
  <2> QED  BY <1>2, <2>2, SMT
<1> QED  BY <1>1, <1>2, SMT

\* The remainder of an index moved forward by at most the size.
LEMMA RemainderOfSum ==
  ASSUME NEW size \in Nat \ {0}, NEW a \in 0..(size - 1), NEW n \in 0..size
  PROVE  (a + n) % size = IF a + n < size THEN a + n ELSE a + n - size
<1>1. CASE a + n < size
  <2>1. (a + n) % size = a + n  BY <1>1, SMT
  <2> QED  BY <1>1, <2>1
<1>2. CASE a + n >= size
  <2>1. a + n \in Int /\ size <= a + n /\ a + n < 2 * size  BY <1>2, SMT
  <2>2. (a + n) % size = a + n - size  BY <2>1, SMT
  <2> QED  BY <1>2, <2>2, SMT
<1> QED  BY <1>1, <1>2, SMT

\* circ_buf_count and circ_buf_space add up to size - 1: a buffer of size bytes
\* holds at most size - 1.
THEOREM CountAndSpace ==
  ASSUME NEW size \in Nat \ {0},
         NEW h \in 0..(size - 1), NEW t \in 0..(size - 1)
  PROVE  /\ circ_buf_count(h, t, size) \in 0..(size - 1)
         /\ circ_buf_space(h, t, size)
              = size - 1 - circ_buf_count(h, t, size)
<1>1. circ_buf_count(h, t, size)
        = IF h >= t THEN h - t ELSE h - t + size
  BY RemainderOfDifference DEF circ_buf_count
<1>2. (t - (h + 1)) % size
        = IF t > h THEN t - h - 1 ELSE t - h - 1 + size
  <2>1. CASE t > h
    <3>1. t - (h + 1) \in Int /\ 0 <= t - (h + 1)
            /\ t - (h + 1) < size
      BY <2>1, SMT
    <3>2. (t - (h + 1)) % size = t - (h + 1)  BY <3>1, SMT
    <3> QED  BY <2>1, <3>2, SMT
  <2>2. CASE t <= h
    <3>1. t - (h + 1) \in Int /\ -size <= t - (h + 1)
            /\ t - (h + 1) < 0
      BY <2>2, SMT
    <3>2. (t - (h + 1)) % size = t - (h + 1) + size  BY <3>1, SMT
    <3> QED  BY <2>2, <3>2, SMT
  <2> QED  BY <2>1, <2>2, SMT
<1> QED  BY <1>1, <1>2, SMT DEF circ_buf_space, circ_buf_count

\* circ_buf_count_to_end is the part of the content before the wrap: a read of
\* that many bytes from t stays inside the array and inside the content, and
\* it is zero only when the buffer is empty.
THEOREM CountToEnd ==
  ASSUME NEW size \in Nat \ {0},
         NEW h \in 0..(size - 1), NEW t \in 0..(size - 1)
  PROVE  circ_buf_count_to_end(h, t, size)
           = IF h >= t THEN h - t ELSE size - t
<1> DEFINE end == size - t
<1>1. end \in 0..size /\ end > 0  BY SMT
<1>2. (h + end) % size = IF h + end < size THEN h + end ELSE h + end - size
  <2> HIDE DEF end
  <2> QED  BY <1>1, RemainderOfSum
<1>3. CASE h >= t
  <2>1. (h + end) % size = h - t /\ h - t < end
    BY <1>2, <1>3, SMT
  <2> QED  BY <2>1, <1>3 DEF circ_buf_count_to_end
<1>4. CASE h < t
  <2>1. (h + end) % size = h + end /\ ~(h + end < end)
    BY <1>2, <1>4, SMT
  <2> QED  BY <2>1, <1>4, SMT DEF circ_buf_count_to_end
<1> QED  BY <1>3, <1>4, SMT

\* An index stays an index.
LEMMA AdvanceIndex ==
  ASSUME NEW size \in Nat \ {0}, NEW index \in Nat, NEW n \in Nat
  PROVE  Advance(index, n, size) \in 0..(size - 1)
<1>1. index + n \in Int  BY SMT
<1> QED  BY <1>1, SMT DEF Advance

-----------------------------------------------------------------------------
(* The path.                                                                *)

\* The assumptions in the form the lemmas on indices ask for.
LEMMA SizeFacts == Size \in Nat \ {0} /\ 0 \in 0..(Size - 1)
  BY SizeAssumption, SMT

LEMMA StrayIsNat == Stray \in Nat
  BY BoundsAssumption, SMT DEF Stray

\* The routine that copies a packet never has more bytes left than the host sent.
CopyFits == call.left + ep.rx_count <= sent

-----------------------------------------------------------------------------
(* Moving a program counter.                                                *)

LEMMA GotoMain ==
  ASSUME TypeOK, NEW label \in MainPcs, Goto("main", label)
  PROVE  pc' \in ProgramCounters
  BY DEF TypeOK, ProgramCounters, Goto

LEMMA GotoIsr ==
  ASSUME TypeOK, NEW label \in StartTxPcs \cup {"idle"}, Goto("isr", label)
  PROVE  pc' \in ProgramCounters
  BY DEF TypeOK, ProgramCounters, Goto

LEMMA GotoStartTx ==
  ASSUME TypeOK, NEW ctx \in Contexts, NEW label \in StartTxPcs, Goto(ctx, label)
  PROVE  pc' \in ProgramCounters
<1>1. label \in MainPcs  BY DEF MainPcs
<1>2. CASE ctx = "main"  BY <1>1, <1>2, GotoMain
<1>3. CASE ctx = "isr"   BY <1>3, GotoIsr
<1> QED  BY <1>2, <1>3 DEF Contexts

LEMMA ReturnFromStartTx ==
  ASSUME TypeOK, NEW ctx \in Contexts, Return(ctx)
  PROVE  pc' \in ProgramCounters
<1>1. {"poll", "received"} \subseteq MainPcs  BY DEF MainPcs
<1>2. CASE ctx = "main"
  <2>1. \E label \in {"poll", "received"} : Goto("main", label)
    BY <1>2 DEF Return
  <2> QED  BY <1>1, <2>1, GotoMain
<1>3. CASE ctx = "isr"
  <2>1. Goto("isr", "idle")  BY <1>3 DEF Return
  <2> QED  BY <2>1, GotoIsr
<1> QED  BY <1>2, <1>3 DEF Contexts

-----------------------------------------------------------------------------
(* Type correctness.                                                        *)

LEMMA TypeInit == Init => TypeOK
<1> SUFFICES ASSUME Init PROVE TypeOK
  OBVIOUS
<1>1. data \in [0..(Size - 1) -> Nat]  BY StrayIsNat DEF Init
<1>2. dma \in DmaChannel /\ ep \in Endpoint  BY DEF Init, DmaChannel, Endpoint
<1>3. usart \in Usart  BY CodingAssumption DEF Init, Usart
<1>4. pc \in ProgramCounters  BY DEF Init, ProgramCounters, MainPcs
<1>5. wire \in Seq(Nat)  BY DEF Init
<1> QED  BY <1>1, <1>2, <1>3, <1>4, <1>5, SizeFacts, CodingAssumption
         DEF Init, TypeOK

LEMMA BeginCopyEndpoint ==
  ASSUME TypeOK, NEW from, BeginCopy(from)
  PROVE  ep' \in Endpoint /\ ep'.rx_count = 0
<1> DEFINE cleared == [ep EXCEPT !.ctr = FALSE]
<1>1. cleared \in Endpoint  BY DEF TypeOK, Endpoint
<1>2. ep' = [cleared EXCEPT !.rx_count = 0]  BY DEF BeginCopy
<1> HIDE DEF cleared
<1>3. [cleared EXCEPT !.rx_count = 0] \in Endpoint
      /\ [cleared EXCEPT !.rx_count = 0].rx_count = 0
  BY <1>1 DEF Endpoint
<1> QED  BY <1>2, <1>3

\* start_tx, in either context.
LEMMA TypeStartTx ==
  ASSUME TypeOK, NEW ctx \in Contexts, StartTx(ctx)
  PROVE  TypeOK'
<1> USE DEF buffer, coding
<1>0. /\ {"busy", "txa", "enable", "size", "tc", "tcie"} \subseteq StartTxPcs
      /\ avail[ctx] \in Nat /\ tail \in Nat
  BY SizeFacts DEF StartTxPcs, Contexts, TypeOK
<1>1. CASE ReadCount(ctx)
  <2>1. circ_buf_count_to_end(head, tail, Size) \in Nat
    <3>1. circ_buf_count_to_end(head, tail, Size)
            = IF head >= tail THEN head - tail ELSE Size - tail
      BY SizeFacts, CountToEnd DEF TypeOK
    <3> QED  BY <3>1, SizeFacts, SMT DEF TypeOK
  <2>2. avail' \in [main: Nat, isr: Nat]
    BY <1>1, <2>1 DEF ReadCount, TypeOK, Contexts
  <2>3. pc' \in ProgramCounters  BY <1>0, <1>1, GotoStartTx DEF ReadCount
  <2> QED  BY <1>1, <2>2, <2>3 DEF ReadCount, TypeOK
<1>2. CASE TestBusy(ctx)
  <2>1. pc' \in ProgramCounters
    BY <1>0, <1>2, GotoStartTx, ReturnFromStartTx DEF TestBusy
  <2> QED  BY <1>2, <2>1 DEF TestBusy, TypeOK
<1>3. CASE ActivateTxa(ctx)
  <2>1. pc' \in ProgramCounters  BY <1>0, <1>3, GotoStartTx DEF ActivateTxa
  <2> QED  BY <1>3, <2>1 DEF ActivateTxa, TypeOK
<1>4. CASE EnableDma(ctx)
  <2>1. pc' \in ProgramCounters  BY <1>0, <1>4, GotoStartTx DEF EnableDma
  <2>2. dma' \in DmaChannel  BY <1>0, <1>4 DEF EnableDma, TypeOK, DmaChannel
  <2> QED  BY <1>4, <2>1, <2>2 DEF EnableDma, TypeOK
<1>5. CASE SaveSize(ctx)
  <2>1. pc' \in ProgramCounters  BY <1>5, ReturnFromStartTx DEF SaveSize
  <2> QED  BY <1>0, <1>5, <2>1 DEF SaveSize, TypeOK
<1>6. CASE ClearTc(ctx)
  <2>1. pc' \in ProgramCounters  BY <1>0, <1>6, GotoStartTx DEF ClearTc
  <2>2. usart' \in Usart  BY <1>6 DEF ClearTc, TypeOK, Usart
  <2> QED  BY <1>6, <2>1, <2>2 DEF ClearTc, TypeOK
<1>7. CASE EnableTcie(ctx)
  <2>1. pc' \in ProgramCounters  BY <1>7, ReturnFromStartTx DEF EnableTcie
  <2>2. usart' \in Usart  BY <1>7 DEF EnableTcie, TypeOK, Usart
  <2> QED  BY <1>7, <2>1, <2>2 DEF EnableTcie, TypeOK
<1> QED  BY <1>1, <1>2, <1>3, <1>4, <1>5, <1>6, <1>7 DEF StartTx

\* The other steps of the main loop.
LEMMA TypeMainLoop ==
  ASSUME TypeOK, CopyFits, MainLoop
  PROVE  TypeOK'
<1> USE DEF buffer, coding
<1>0. {"event", "copy", "defer", "apply", "cr1", "poll", "applied", "deferred",
       "received", "start"} \subseteq MainPcs
  BY DEF MainPcs, StartTxPcs
<1>1. CASE StartTx("main")
  BY <1>1, TypeStartTx DEF Contexts
<1>2. CASE CopyByte
  <2>1. head' \in 0..(Size - 1)
    <3>1. head \in Nat  BY SizeFacts, SMT DEF TypeOK
    <3> QED  BY <1>2, <3>1, SizeFacts, AdvanceIndex DEF CopyByte
  <2>2. call.left - 1 \in Nat /\ sent - call.left + 1 \in Nat
    <3>1. call.left \in Nat /\ sent \in Nat /\ ep.rx_count \in Nat
      BY DEF TypeOK, Endpoint
    <3>2. call.left > 0  BY <1>2 DEF CopyByte
    <3> QED  BY <3>1, <3>2, SMT DEF CopyFits
  <2>3. call' \in [left: Nat, from: {"event", "poll"}]
    BY <1>2, <2>2 DEF CopyByte, TypeOK
  <2>4. data' \in [0..(Size - 1) -> Nat]
    BY <1>2, <2>2 DEF CopyByte, TypeOK
  <2> QED  BY <1>2, <2>1, <2>3, <2>4 DEF CopyByte, TypeOK
<1>3. CASE EndCopy
  <2>1. pc' \in ProgramCounters  BY <1>0, <1>3, GotoMain DEF EndCopy
  <2>2. ep' \in Endpoint
    BY <1>3 DEF EndCopy, TypeOK, Endpoint
  <2> QED  BY <1>3, <2>1, <2>2 DEF EndCopy, TypeOK
<1>4. CASE DataReceived
  <2>1. pc' \in ProgramCounters  BY <1>0, <1>4, GotoMain DEF DataReceived, BeginCopy
  <2>2. ep' \in Endpoint
    <3>1. CASE BeginCopy("event")  BY <3>1, BeginCopyEndpoint
    <3>2. CASE ep' = ep \/ ep' = [ep EXCEPT !.ctr = FALSE]
      BY <3>2 DEF TypeOK, Endpoint
    <3> QED  BY <1>4, <3>1, <3>2 DEF DataReceived
  <2>3. call' \in [left: Nat, from: {"event", "poll"}]
    <3>1. ep.rx_count \in Nat  BY DEF TypeOK, Endpoint
    <3>2. call' = call \/ call' = [left |-> ep.rx_count, from |-> "event"]
      BY <1>4 DEF DataReceived, BeginCopy
    <3> QED  BY <3>1, <3>2 DEF TypeOK
  <2> QED  BY <1>4, <2>1, <2>2, <2>3 DEF DataReceived, BeginCopy, TypeOK
<1>5. CASE \E c \in Codings : SetLineCoding(c)
  <2>0. PICK c \in Codings : SetLineCoding(c)  BY <1>5
  <2>1. pc' \in ProgramCounters  BY <1>0, <2>0, GotoMain DEF SetLineCoding
  <2>2. call' \in [left: Nat, from: {"event", "poll"}]
    BY <2>0 DEF SetLineCoding, TypeOK
  <2> QED  BY <2>0, <2>1, <2>2 DEF SetLineCoding, TypeOK
<1>6. CASE OtherEvent
  <2>1. pc' \in ProgramCounters  BY <1>0, <1>6, GotoMain DEF OtherEvent
  <2> QED  BY <1>6, <2>1 DEF OtherEvent, TypeOK
<1>7. CASE DeferLineCoding
  <2>1. pc' \in ProgramCounters  BY <1>0, <1>7, GotoMain DEF DeferLineCoding
  <2> QED  BY <1>7, <2>1 DEF DeferLineCoding, TypeOK
<1>8. CASE WriteBrr
  <2>1. pc' \in ProgramCounters  BY <1>0, <1>8, GotoMain DEF WriteBrr
  <2>2. usart' \in Usart
    BY <1>8 DEF WriteBrr, TypeOK, Usart
  <2>3. usart.tcie \in BOOLEAN  BY DEF TypeOK, Usart
  <2> QED  BY <1>8, <2>1, <2>2, <2>3 DEF WriteBrr, TypeOK
<1>9. CASE WriteCr1
  <2>1. pc' \in ProgramCounters  BY <1>0, <1>9, GotoMain DEF WriteCr1
  <2>2. usart' \in Usart
    BY <1>9 DEF WriteCr1, TypeOK, Usart
  <2> QED  BY <1>9, <2>1, <2>2 DEF WriteCr1, TypeOK
<1>10. CASE PollReady
  <2>1. pc' \in ProgramCounters  BY <1>0, <1>10, GotoMain DEF PollReady
  <2>2. call' \in [left: Nat, from: {"event", "poll"}]
    BY <1>10 DEF PollReady, TypeOK
  <2> QED  BY <1>10, <2>1, <2>2 DEF PollReady, TypeOK
<1>11. CASE PollApplied
  <2>1. pc' \in ProgramCounters  BY <1>0, <1>11, GotoMain DEF PollApplied
  <2> QED  BY <1>11, <2>1 DEF PollApplied, TypeOK
<1>12. CASE PollDeferred
  <2>1. pc' \in ProgramCounters  BY <1>0, <1>12, GotoMain DEF PollDeferred, BeginCopy
  <2>2. ep' \in Endpoint
    <3>1. CASE BeginCopy("poll")  BY <3>1, BeginCopyEndpoint
    <3>2. CASE ep' = ep \/ ep' = [ep EXCEPT !.ctr = FALSE]
      BY <3>2 DEF TypeOK, Endpoint
    <3> QED  BY <1>12, <3>1, <3>2 DEF PollDeferred
  <2>3. call' \in [left: Nat, from: {"event", "poll"}]
    <3>1. ep.rx_count \in Nat  BY DEF TypeOK, Endpoint
    <3>2. call' = call \/ call' = [left |-> ep.rx_count, from |-> "poll"]
      BY <1>12 DEF PollDeferred, BeginCopy
    <3> QED  BY <3>1, <3>2 DEF TypeOK
  <2> QED  BY <1>12, <2>1, <2>2, <2>3 DEF PollDeferred, BeginCopy, TypeOK
<1>13. CASE PollReceived
  <2>1. pc' \in ProgramCounters  BY <1>0, <1>13, GotoMain DEF PollReceived
  <2> QED  BY <1>13, <2>1 DEF PollReceived, TypeOK
<1> QED  BY <1>1, <1>2, <1>3, <1>4, <1>5, <1>6, <1>7, <1>8, <1>9, <1>10, <1>11, <1>12, <1>13 DEF MainLoop

\* Every step.
LEMMA TypeStep == TypeOK /\ CopyFits /\ [Next]_vars => TypeOK'
<1> SUFFICES ASSUME TypeOK, CopyFits, [Next]_vars PROVE TypeOK'
  OBVIOUS
<1> USE DEF buffer, coding
<1>1. CASE MainLoop  BY <1>1, TypeMainLoop
<1>2. CASE StartTx("isr")  BY <1>2, TypeStartTx DEF Contexts
<1>3. CASE DmaIrq
  <2>1. tail' \in 0..(Size - 1)
    <3>1. tail \in Nat  BY SizeFacts, SMT DEF TypeOK
    <3> QED  BY <1>3, <3>1, SizeFacts, AdvanceIndex DEF DmaIrq, TypeOK
  <2>2. pc' \in ProgramCounters
    BY <1>3, GotoIsr DEF DmaIrq, StartTxPcs
  <2>3. dma' \in DmaChannel  BY <1>3 DEF DmaIrq, TypeOK, DmaChannel
  <2>4. ready' \in BOOLEAN  BY <1>3 DEF DmaIrq, TypeOK
  <2> QED  BY <1>3, <2>1, <2>2, <2>3, <2>4 DEF DmaIrq, TypeOK
<1>4. CASE UsartIrq
  <2>1. usart' \in Usart  BY <1>4 DEF UsartIrq, TypeOK, Usart
  <2> QED  BY <1>4, <2>1 DEF UsartIrq, TypeOK
<1>5. CASE FetchByte
  <2>1. (IF dma.src < Size THEN data[dma.src] ELSE Stray) \in Nat
    BY StrayIsNat, SizeAssumption, SMT DEF TypeOK, DmaChannel
  <2>2. usart' \in Usart  BY <1>5, <2>1 DEF FetchByte, TypeOK, Usart
  <2>3. dma.src + 1 \in Nat /\ dma.cndtr - 1 \in Nat
    BY <1>5, SMT DEF FetchByte, TypeOK, DmaChannel
  <2>4. dma' \in DmaChannel  BY <1>5, <2>3 DEF FetchByte, TypeOK, DmaChannel
  <2>5. fetched' \in BOOLEAN  BY <1>5 DEF FetchByte
  <2> QED  BY <1>5, <2>2, <2>4, <2>5 DEF FetchByte, TypeOK
<1>6. CASE LoadShift
  <2>1. usart' \in Usart  BY <1>6 DEF LoadShift, TypeOK, Usart
  <2> QED  BY <1>6, <2>1 DEF LoadShift, TypeOK
<1>7. CASE ShiftOut
  <2>1. usart' \in Usart  BY <1>7 DEF ShiftOut, TypeOK, Usart
  <2>2. wire' \in Seq(Nat)  BY <1>7, SMT DEF ShiftOut, TypeOK, Usart
  <2> QED  BY <1>7, <2>1, <2>2 DEF ShiftOut, TypeOK
<1>8. CASE \E n \in PacketSizes : HostSend(n)
  <2>1. PICK n \in PacketSizes : HostSend(n)  BY <1>8
  <2>2. n \in Nat /\ sent + n \in Nat
    BY PacketAssumption, SizeAssumption, SMT DEF TypeOK
  <2>3. ep' \in Endpoint  BY <2>1, <2>2 DEF HostSend, Endpoint
  <2> QED  BY <2>1, <2>2, <2>3 DEF HostSend, TypeOK
<1>9. CASE UNCHANGED vars  BY <1>9 DEF vars, TypeOK
<1> QED
  BY <1>1, <1>2, <1>3, <1>4, <1>5, <1>6, <1>7, <1>8, <1>9 DEF Next, DmaInterrupt

LEMMA CopyFitsStep == TypeOK /\ CopyFits /\ [Next]_vars => CopyFits'
<1> SUFFICES ASSUME TypeOK, CopyFits, [Next]_vars PROVE CopyFits'
  OBVIOUS
<1> USE DEF CopyFits
<1>0. ep.rx_count \in Nat /\ call.left \in Nat /\ sent \in Nat
      /\ call.left <= sent /\ ep.rx_count <= sent
  BY SMT DEF TypeOK, Endpoint
<1>1. CASE CopyByte
  <2>1. call'.left = call.left - 1 /\ ep' = ep /\ sent' = sent
    BY <1>1 DEF CopyByte, TypeOK
  <2> QED  BY <1>0, <2>1, SMT
<1>2. CASE DataReceived \/ PollDeferred
  <2>1. \/ call' = call /\ ep'.rx_count = ep.rx_count
        \/ call'.left = ep.rx_count /\ ep'.rx_count = 0
    <3>1. ep \in Endpoint  BY DEF TypeOK
    <3>2. CASE UNCHANGED call /\ (ep' = ep \/ ep' = [ep EXCEPT !.ctr = FALSE])
      BY <3>1, <3>2 DEF Endpoint
    <3>3. CASE BeginCopy("event") \/ BeginCopy("poll")
      <4>1. call'.left = ep.rx_count  BY <3>3 DEF BeginCopy
      <4> QED  BY <3>3, <4>1, BeginCopyEndpoint
    <3> QED  BY <1>2, <3>2, <3>3 DEF DataReceived, PollDeferred
  <2>2. sent' = sent  BY <1>2 DEF DataReceived, PollDeferred
  <2> QED  BY <1>0, <2>1, <2>2, SMT
<1>3. CASE \E n \in PacketSizes : HostSend(n)
  <2>1. PICK n \in PacketSizes : HostSend(n)  BY <1>3
  <2>2. n \in Nat  BY PacketAssumption, SizeAssumption, SMT
  <2>3. call' = call /\ ep'.rx_count = n /\ sent' = sent + n
    BY <2>1 DEF HostSend
  <2> QED  BY <1>0, <2>2, <2>3, SMT
<1>4. CASE EndCopy
  BY <1>4 DEF EndCopy, TypeOK, Endpoint
<1>5. CASE (\E c \in Codings : SetLineCoding(c)) \/ PollReady
  <2>1. call'.left = call.left /\ ep' = ep /\ sent' = sent
    BY <1>5 DEF SetLineCoding, PollReady, TypeOK
  <2> QED  BY <2>1
<1>6. CASE UNCHANGED <<call, ep, sent>>
  BY <1>6
<1> QED
  BY <1>1, <1>2, <1>3, <1>4, <1>5, <1>6
  DEF Next, MainLoop, DmaInterrupt, StartTx, vars, ReadCount, TestBusy, ActivateTxa,
      EnableDma, SaveSize, ClearTc, EnableTcie, OtherEvent, DeferLineCoding,
      WriteBrr, WriteCr1, PollApplied, PollReceived, DmaIrq, UsartIrq, FetchByte,
      LoadShift, ShiftOut

\* Every variable keeps its type; in particular both indices of tx_buf stay
\* inside the buffer under any interleaving of their two writers.
THEOREM TypeCorrect == Spec => []TypeOK
<1>1. Init => TypeOK /\ CopyFits
  <2>1. Init => CopyFits  BY DEF Init, CopyFits
  <2> QED  BY <2>1, TypeInit
<1>2. TypeOK /\ CopyFits /\ [Next]_vars => (TypeOK /\ CopyFits)'
  BY TypeStep, CopyFitsStep
<1> QED  BY <1>1, <1>2, PTL DEF Spec
-----------------------------------------------------------------------------
(* Line codings.  What makes CodingConsistent inductive is that between the *)
(* register writes and the clearing of line_state_change_pending nobody else *)
(* changes the stored coding: requests are handled by the same main loop.   *)

CodingInv ==
  /\ CodingConsistent
  /\ pc.main \in {"cr1", "applied"} => line_coding = usart.coding

\* The steps that change neither coding, nor the two flags, and leave the main
\* loop where it is or send it to a label outside set_line_coding.
LEMMA CodingUnaffected ==
  ASSUME CodingInv, UNCHANGED <<line_coding, pending, ready>>,
         usart'.coding = usart.coding,
         pc'.main = pc.main \/ pc'.main \notin {"cr1", "applied"}
  PROVE  CodingInv'
  BY DEF CodingInv, CodingConsistent

LEMMA CodingStep == TypeOK /\ CodingInv /\ [Next]_vars => CodingInv'
<1> SUFFICES ASSUME TypeOK, CodingInv, [Next]_vars PROVE CodingInv'
  OBVIOUS
<1> USE DEF coding
<1>0. pc \in ProgramCounters /\ usart \in Usart  BY DEF TypeOK
<1>1. CASE \E ctx \in Contexts : StartTx(ctx)
  <2>1. PICK ctx \in Contexts : StartTx(ctx)  BY <1>1
  <2>2. UNCHANGED <<line_coding, pending, ready>>
    BY <2>1 DEF StartTx, ReadCount, TestBusy, ActivateTxa, EnableDma, SaveSize,
                ClearTc, EnableTcie
  <2>3. usart'.coding = usart.coding
    BY <1>0, <2>1 DEF Usart, StartTx, ReadCount, TestBusy, ActivateTxa, EnableDma,
                SaveSize, ClearTc, EnableTcie
  <2>4. \E label \in StartTxPcs \cup {"idle", "poll", "received"} : Goto(ctx, label)
    BY <2>1 DEF StartTxPcs, Return, StartTx, ReadCount, TestBusy, ActivateTxa,
                EnableDma, SaveSize, ClearTc, EnableTcie
  <2>5. pc'.main = pc.main \/ pc'.main \notin {"cr1", "applied"}
    <3>1. CASE ctx = "isr"
      BY <1>0, <2>4, <3>1 DEF Goto, ProgramCounters
    <3>2. CASE ctx = "main"
      BY <1>0, <2>4, <3>2 DEF Goto, ProgramCounters, StartTxPcs
    <3> QED  BY <3>1, <3>2 DEF Contexts
  <2> QED  BY <2>2, <2>3, <2>5, CodingUnaffected
<1>2. CASE EndCopy \/ DataReceived \/ OtherEvent \/ PollDeferred \/ PollReceived
  <2>1. UNCHANGED <<line_coding, pending, ready, usart>>
    BY <1>2 DEF EndCopy, DataReceived, OtherEvent, PollDeferred, PollReceived
  <2>2. pc'.main \notin {"cr1", "applied"}
    BY <1>0, <1>2 DEF EndCopy, DataReceived, BeginCopy, OtherEvent, PollDeferred,
                      PollReceived, Goto, ProgramCounters
  <2> QED  BY <2>1, <2>2, CodingUnaffected
<1>3. CASE \E c \in Codings : SetLineCoding(c)
  <2>1. UNCHANGED <<line_coding, pending, ready, usart>>
        /\ pc'.main \notin {"cr1", "applied"}
    BY <1>0, <1>3 DEF SetLineCoding, Goto, ProgramCounters
  <2> QED  BY <2>1, CodingUnaffected
<1>4. CASE DeferLineCoding
  <2>1. pending' /\ pc'.main = "poll"
    BY <1>0, <1>4 DEF DeferLineCoding, Goto, ProgramCounters
  <2> QED  BY <2>1 DEF CodingInv, CodingConsistent
<1>5. CASE WriteBrr
  <2>1. /\ line_coding' = asked /\ usart'.coding = asked
        /\ UNCHANGED <<pending, ready>>
    BY <1>0, <1>5 DEF WriteBrr, Usart
  <2> QED  BY <2>1 DEF CodingInv, CodingConsistent
<1>6. CASE WriteCr1
  <2>1. /\ UNCHANGED <<line_coding, pending, ready>>
        /\ usart'.coding = usart.coding /\ pc.main = "cr1"
    BY <1>0, <1>6 DEF WriteCr1, Usart, At
  <2> QED  BY <2>1 DEF CodingInv, CodingConsistent
<1>7. CASE PollReady
  <2>1. UNCHANGED <<line_coding, pending, ready, usart>>
        /\ pc'.main \notin {"cr1", "applied"}
    BY <1>0, <1>7 DEF PollReady, Goto, ProgramCounters
  <2> QED  BY <2>1, CodingUnaffected
<1>8. CASE PollApplied
  <2>1. /\ pc.main = "applied" /\ pc'.main = "deferred"
        /\ ~ready' /\ UNCHANGED <<line_coding, usart>>
    BY <1>0, <1>8 DEF PollApplied, At, Goto, ProgramCounters
  <2> QED  BY <2>1 DEF CodingInv, CodingConsistent
<1>9. CASE DmaIrq
  <2>1. /\ ready' = (ready \/ (pending /\ circ_buf_count(head, tail', Size) = 0))
        /\ UNCHANGED <<line_coding, pending, usart>> /\ pc'.main = pc.main
    BY <1>0, <1>9 DEF DmaIrq, Goto, ProgramCounters
  <2> QED  BY <2>1 DEF CodingInv, CodingConsistent
<1>10. CASE \/ CopyByte \/ UsartIrq \/ FetchByte \/ LoadShift \/ ShiftOut
            \/ (\E n \in PacketSizes : HostSend(n)) \/ UNCHANGED vars
  <2>1. UNCHANGED <<line_coding, pending, ready, pc>>
    BY <1>10 DEF CopyByte, UsartIrq, FetchByte, LoadShift, ShiftOut, HostSend, vars
  <2>2. usart'.coding = usart.coding
    BY <1>0, <1>10 DEF CopyByte, UsartIrq, FetchByte, LoadShift, ShiftOut, HostSend,
                       vars, Usart
  <2> QED  BY <2>1, <2>2, CodingUnaffected
<1> QED
  BY <1>1, <1>2, <1>3, <1>4, <1>5, <1>6, <1>7, <1>8, <1>9, <1>10
  DEF Next, MainLoop, DmaInterrupt, Contexts

\* The USART works with the coding GET_LINE_CODING reports unless a change is
\* pending, wherever interrupts fall, and a change is announced as ready only
\* while one is pending.
THEOREM CodingStaysConsistent == Spec => []CodingConsistent
<1>1. Init => TypeOK /\ CodingInv
  <2>1. Init => CodingInv
    BY DEF Init, CodingInv, CodingConsistent
  <2> QED  BY <2>1, TypeInit
<1>2. TypeOK /\ CodingInv /\ [Next]_vars => CodingInv'  BY CodingStep
<1>3. CodingInv => CodingConsistent  BY DEF CodingInv
<1> QED  BY <1>1, <1>2, <1>3, TypeCorrect, PTL DEF Spec

-----------------------------------------------------------------------------
(* The stream of bytes.                                                     *)

Undisturbed == ~Delays /\ 0 \notin PacketSizes

-----------------------------------------------------------------------------
(* The inductive invariant.                                                 *)

\* The number of bytes from index i up to, not including, index j
Dist(i, j) == IF j >= i THEN j - i ELSE j - i + Size

\* What start_tx reads: the content of tx_buf before the wrap
ToEnd == IF head >= tail THEN head - tail ELSE Size - tail

\* The chunk the channel was enabled for, moved or not
Chunk == dma.src + dma.cndtr - tail

\* The endpoint holds a packet from CTR or from its being put off until it is read.
PacketInv ==
  /\ ep.ctr => ep.rx_count > 0
  /\ ep.valid => ep.rx_count = 0 /\ ~ep.ctr
  /\ call.left > 0 => pc.main = "copy"
  /\ pc.main = "copy" => ep.rx_count = 0 /\ ~ep.valid /\ ~ep.ctr /\ call.left <= Space
  /\ pc.main = "received" => call.from = "poll"
  /\ rx_pending =>
       \/ ep.rx_count > 0 /\ ~ep.valid /\ ~ep.ctr
       \/ call.from = "poll" /\ pc.main \in StartTxPcs \cup {"copy", "received"}

\* An enabled channel works on stored bytes only, and its completion will advance
\* tail by what it was enabled for, or the store that says so is the next step.
ChannelInv ==
  /\ dma.en =>
       /\ tail <= dma.src /\ 0 < Chunk /\ Chunk <= Count /\ dma.src + dma.cndtr <= Size
       /\ dma.tcif <=> dma.cndtr = 0
       /\ Chunk = IF pc.isr = "size" THEN avail.isr
                  ELSE IF pc.main = "size" THEN avail.main ELSE last_dma_tx_size
  /\ ~dma.en => ~dma.tcif

\* start_tx in the interrupt: the channel is off from the interrupt on, and the
\* main loop, held up, stores nothing.
IsrInv ==
  /\ pc.isr \in {"start", "busy", "txa", "enable", "tc", "tcie"} => ~dma.en
  /\ pc.isr = "size" => dma.en
  /\ pc.isr \in {"busy", "txa", "enable"} => avail.isr = ToEnd
  /\ pc.isr \in {"txa", "enable"} => avail.isr > 0

\* start_tx in the main loop: between storing a packet's last byte and testing the
\* channel one byte at the most is moved, so a chunk that ends there was enabled
\* before that byte was stored.  The interrupt then finds the byte and enables the
\* channel, so the main loop uses its count only if no interrupt came in between.
MainInv ==
  /\ InWindow =>
       /\ Count > 0
       /\ dma.tcif \/ ~fetched => pc.isr = "idle" /\ (dma.en => Chunk < Count)
       /\ ~fetched => ~dma.tcif
       /\ fetched => dma.en \/ pc.isr # "idle"
       /\ pc.isr # "idle" => pc.isr \in {"start", "busy", "txa", "enable", "size"}
  /\ pc.main = "busy" /\ ~fetched => avail.main = ToEnd
  /\ pc.main \in {"txa", "enable"} =>
       ~dma.en /\ pc.isr = "idle" /\ avail.main = ToEnd /\ avail.main > 0
  /\ pc.main = "size" => dma.en /\ pc.isr = "idle"

\* Where the bytes that the channel has not moved begin, and how many there are
From == IF dma.en THEN IF dma.src = Size THEN 0 ELSE dma.src ELSE tail
Held == Dist(From, head)

InRegister(r) == IF r = 0 THEN 0 ELSE 1
Moved == Len(wire) + InRegister(usart.shift) + InRegister(usart.dr)

\* Each byte is where its number says it is.
BytesInv ==
  /\ \A i \in 1..Len(wire) : wire[i] = i
  /\ usart.shift # 0 => usart.shift = Len(wire) + 1
  /\ usart.dr # 0 => usart.dr = Len(wire) + InRegister(usart.shift) + 1
  /\ \A j \in 0..(Size - 1) : Dist(From, j) < Held => data[j] = Moved + 1 + Dist(From, j)
  /\ Moved + Held = Accepted

\* What the bytes' way depends on, and what is inductive together with it
Stream == PacketInv /\ ChannelInv /\ IsrInv /\ MainInv /\ BytesInv
Inv == TypeOK /\ CopyFits /\ Stream

-----------------------------------------------------------------------------
(* Indices, types and turns.                                                *)

\* The arithmetic modulo Size without the modulus.
LEMMA Indices ==
  ASSUME TypeOK
  PROVE  /\ Count = Dist(tail, head) /\ Count \in 0..(Size - 1)
         /\ Space = Size - 1 - Count
         /\ circ_buf_count_to_end(head, tail, Size) = ToEnd
         /\ \A i \in 0..(Size - 1), n \in 0..Size :
              Advance(i, n, Size) = IF i + n < Size THEN i + n ELSE i + n - Size
<1>1. head \in 0..(Size - 1) /\ tail \in 0..(Size - 1)  BY DEF TypeOK
<1>2. Count = Dist(tail, head) /\ Count \in 0..(Size - 1)
  BY <1>1, SizeFacts, CountAndSpace, RemainderOfDifference DEF Count, Dist, circ_buf_count
<1>3. Space = Size - 1 - Count  BY <1>1, SizeFacts, CountAndSpace DEF Space, Count
<1>4. circ_buf_count_to_end(head, tail, Size) = ToEnd
  BY <1>1, SizeFacts, CountToEnd DEF ToEnd
<1>5. \A i \in 0..(Size - 1), n \in 0..Size :
        Advance(i, n, Size) = IF i + n < Size THEN i + n ELSE i + n - Size
  BY SizeFacts, RemainderOfSum DEF Advance
<1> QED  BY <1>2, <1>3, <1>4, <1>5

\* The types of the parts of the state, for the provers (cited as Fields!2 below)
LEMMA Fields ==
  ASSUME TypeOK
  PROVE  /\ Size \in Nat /\ Size > 1 /\ head \in 0..(Size - 1) /\ tail \in 0..(Size - 1)
         /\ dma.en \in BOOLEAN /\ dma.src \in Nat /\ dma.cndtr \in Nat /\ dma.tcif \in BOOLEAN
         /\ usart.dr \in Nat /\ usart.shift \in Nat
         /\ ep.valid \in BOOLEAN /\ ep.ctr \in BOOLEAN /\ ep.rx_count \in Nat
         /\ avail.main \in Nat /\ avail.isr \in Nat /\ last_dma_tx_size \in Nat
         /\ call.left \in Nat /\ call.from \in {"event", "poll"} /\ sent \in Nat
         /\ Len(wire) \in Nat
  BY SizeAssumption DEF TypeOK, DmaChannel, Usart, Endpoint

LEMMA Moves ==
  ASSUME TypeOK, NEW label
  PROVE  /\ Goto("main", label) => pc'.main = label /\ pc'.isr = pc.isr
         /\ Goto("isr", label)  => pc'.isr = label /\ pc'.main = pc.main
  BY DEF TypeOK, ProgramCounters, Goto

\* The main loop takes a step only while no interrupt is being served or due.
LEMMA Turns ==
  ASSUME Undisturbed, NEW label
  PROVE  /\ At("main", label) =>
              pc.main = label /\ pc.isr = "idle" /\ (dma.tcif => label = "size")
         /\ At("isr", label) => pc.isr = label
  BY DEF Undisturbed, At, Runs, DmaIrqHeldOff

\* Where the call of start_tx returns to
LEMMA Returns ==
  ASSUME TypeOK
  PROVE  /\ Return("main") =>
              /\ pc'.main = IF call.from = "event" THEN "poll" ELSE "received"
              /\ pc'.isr = pc.isr
         /\ Return("isr") => pc'.isr = "idle" /\ pc'.main = pc.main
  BY Moves DEF Return

\* The number of bytes between two indices, and what becomes of it when one of
\* them moves forward.
LEMMA DistIsCount ==
  ASSUME NEW i \in 0..(Size - 1), NEW j \in 0..(Size - 1)
  PROVE  circ_buf_count(j, i, Size) = Dist(i, j) /\ Dist(i, j) \in 0..(Size - 1)
<1>1. Size \in Nat \ {0}  BY SizeFacts
<1>2. circ_buf_count(j, i, Size) = Dist(i, j)
  BY <1>1, RemainderOfDifference DEF circ_buf_count, Dist
<1> QED  BY <1>1, <1>2, SMT DEF Dist

LEMMA DistShorter ==
  ASSUME NEW i \in 0..(Size - 1), NEW j \in 0..(Size - 1), NEW n \in 0..Dist(i, j),
         NEW k, k = IF i + n < Size THEN i + n ELSE i + n - Size
  PROVE  k \in 0..(Size - 1) /\ Dist(k, j) = Dist(i, j) - n
<1>1. Size \in Nat \ {0}  BY SizeFacts
<1> QED  BY <1>1, SMT DEF Dist

LEMMA DistAdvanced ==
  ASSUME NEW i \in 0..(Size - 1), NEW n \in 0..(Size - 1),
         NEW k, k = IF i + n < Size THEN i + n ELSE i + n - Size
  PROVE  k \in 0..(Size - 1) /\ Dist(i, k) = n
<1>1. Size \in Nat \ {0}  BY SizeFacts
<1> QED  BY <1>1, SMT DEF Dist

LEMMA DistNext ==
  ASSUME NEW i \in 0..(Size - 1), NEW j \in 0..(Size - 1), j # i,
         NEW k, k = IF i + 1 < Size THEN i + 1 ELSE i + 1 - Size
  PROVE  Dist(i, j) = Dist(k, j) + 1 /\ Dist(k, j) \in Nat
<1>1. Size \in Nat \ {0}  BY SizeFacts
<1> QED  BY <1>1, SMT DEF Dist

LEMMA DistLonger ==
  ASSUME NEW i \in 0..(Size - 1), NEW j \in 0..(Size - 1), Dist(i, j) < Size - 1,
         NEW k, k = IF j + 1 < Size THEN j + 1 ELSE 0
  PROVE  k \in 0..(Size - 1) /\ Dist(i, k) = Dist(i, j) + 1
<1>1. Size \in Nat \ {0}  BY SizeFacts
<1> QED  BY <1>1, SMT DEF Dist

\* Advancing tail by last_dma_tx_size releases the chunk and nothing else.
LEMMA ChunkReleased ==
  ASSUME Undisturbed, Inv, DmaIrq
  PROVE  /\ dma.en /\ dma.tcif /\ pc.isr = "idle" /\ pc.main # "size" /\ dma.cndtr = 0
         /\ tail' = From /\ Count' = Count - Chunk /\ Chunk \in 1..Count /\ head' = head
<1>0. TypeOK /\ ChannelInv  BY DEF Inv, Stream
<1>1. dma.en /\ dma.tcif /\ pc.isr = "idle" /\ pc.main # "size" /\ dma.cndtr = 0
  BY <1>0, Turns DEF Undisturbed, ChannelInv, DmaIrq, DmaIrqHeldOff
<1>2. Fields!2  BY <1>0, Fields
<1>3. Count = Dist(tail, head) /\ Count \in 0..(Size - 1)  BY <1>0, Indices
<1>4. /\ last_dma_tx_size = Chunk /\ Chunk \in 1..Count /\ tail + Chunk = dma.src
      /\ dma.src \in 1..Size
  <2>1. /\ last_dma_tx_size = Chunk /\ 0 < Chunk /\ Chunk <= Count
        /\ dma.src + dma.cndtr <= Size
    BY <1>0, <1>1 DEF ChannelInv
  <2> QED  BY <1>1, <1>2, <1>3, <2>1, SMTT(30) DEF Chunk
<1>5. Advance(tail, Chunk, Size)
        = IF tail + Chunk < Size THEN tail + Chunk ELSE tail + Chunk - Size
  <2>1. Chunk \in 0..Size  BY <1>2, <1>3, <1>4, SMT
  <2> QED  BY <1>0, <1>2, <2>1, Indices
<1>6. tail' = Advance(tail, Chunk, Size) /\ head' = head  BY <1>4 DEF DmaIrq
<1>7. tail' = From  BY <1>1, <1>2, <1>4, <1>5, <1>6, SMT DEF From
<1>8. tail' \in 0..(Size - 1)  BY <1>2, <1>4, <1>5, <1>6, SMT
<1>9. Count' = Dist(tail', head)  BY <1>2, <1>6, <1>8, DistIsCount DEF Count
<1>10. Dist(tail', head) = Dist(tail, head) - Chunk
  <2>1. Chunk \in 0..Dist(tail, head)  BY <1>3, <1>4, SMT
  <2> QED  BY <1>2, <1>5, <1>6, <2>1, DistShorter
<1> QED  BY <1>1, <1>3, <1>4, <1>6, <1>7, <1>9, <1>10

\* Storing a byte makes the content one longer.
LEMMA ByteStored ==
  ASSUME Undisturbed, Inv, CopyByte
  PROVE  /\ pc.main = "copy" /\ pc.isr = "idle" /\ ~dma.tcif /\ call.left > 0
         /\ call'.left = call.left - 1 /\ call'.from = call.from
         /\ head' = (IF head + 1 < Size THEN head + 1 ELSE 0) /\ head' \in 0..(Size - 1)
         /\ tail' = tail /\ Count' = Count + 1 /\ Space' = Space - 1 /\ Space >= call.left
<1>0. TypeOK /\ PacketInv  BY DEF Inv, Stream
<1>1. pc.main = "copy" /\ pc.isr = "idle" /\ ~dma.tcif /\ call.left > 0
  BY Turns DEF CopyByte
<1>2. Fields!2  BY <1>0, Fields
<1>3. Count = Dist(tail, head) /\ Count \in 0..(Size - 1) /\ Space = Size - 1 - Count
  BY <1>0, Indices
<1>4. call'.left = call.left - 1 /\ call'.from = call.from
  BY <1>0 DEF CopyByte, TypeOK
<1>5. head' = IF head + 1 < Size THEN head + 1 ELSE 0
  <2>1. head' = Advance(head, 1, Size)  BY DEF CopyByte
  <2>2. 1 \in 0..Size  BY <1>2, SMT
  <2>3. Advance(head, 1, Size) = IF head + 1 < Size THEN head + 1 ELSE head + 1 - Size
    BY <1>0, <1>2, <2>2, Indices
  <2> QED  BY <1>2, <2>1, <2>3, SMT
<1>6. head' \in 0..(Size - 1) /\ tail' = tail
  <2>1. tail' = tail  BY DEF CopyByte
  <2> QED  BY <1>2, <1>5, <2>1, SMT
<1>7. Space >= call.left
  <2>1. call.left <= Space  BY <1>0, <1>1 DEF PacketInv
  <2> QED  BY <1>2, <1>3, <2>1, SMT
<1>8. Count' = Count + 1
  <2>1. Dist(tail, head) < Size - 1  BY <1>1, <1>2, <1>3, <1>7, SMT
  <2>2. Dist(tail, head') = Dist(tail, head) + 1
    BY <1>2, <1>5, <2>1, DistLonger
  <2>3. Count' = Dist(tail, head')  BY <1>2, <1>6, DistIsCount DEF Count
  <2> QED  BY <1>3, <2>2, <2>3
<1>9. Space' = Size - 1 - Count'
  BY <1>2, <1>6, SizeFacts, CountAndSpace DEF Space, Count
<1>10. Space' = Space - 1  BY <1>2, <1>3, <1>8, <1>9, SMT
<1> QED  BY <1>1, <1>4, <1>5, <1>6, <1>7, <1>8, <1>10

\* Where the bytes the channel has not moved lie.
LEMMA HeldFacts ==
  ASSUME TypeOK, ChannelInv
  PROVE  /\ From \in 0..(Size - 1) /\ Held \in 0..Count
         /\ dma.en => dma.src \in tail..Size /\ Held = Count - (dma.src - tail)
         /\ ~dma.en => Held = Count
<1>1. Fields!2  BY Fields
<1>2. Count = Dist(tail, head) /\ Count \in 0..(Size - 1)  BY Indices
<1>3. CASE ~dma.en
  <2>1. From = tail  BY <1>3 DEF From
  <2> QED  BY <1>1, <1>2, <1>3, <2>1, SMT DEF Held
<1>4. CASE dma.en
  <2> DEFINE n == dma.src - tail
  <2>1. /\ tail <= dma.src /\ 0 < Chunk /\ Chunk <= Count /\ dma.src + dma.cndtr <= Size
    BY <1>4 DEF ChannelInv
  <2>2. n \in 0..Count /\ tail + n = dma.src /\ dma.src \in tail..Size
    <3>1. /\ dma.src \in Nat /\ dma.cndtr \in Nat /\ tail \in Nat /\ Size \in Nat
          /\ Count \in Nat
      BY <1>1, <1>2, SMT
    <3>2. dma.src + dma.cndtr - tail <= Count  BY <2>1 DEF Chunk
    <3>3. dma.src - tail <= Count /\ dma.src <= Size  BY <2>1, <3>1, <3>2, SMT
    <3>4. dma.src - tail >= 0 /\ tail + (dma.src - tail) = dma.src  BY <2>1, <3>1, SMT
    <3> QED  BY <2>1, <3>1, <3>3, <3>4, SMT
  <2>3. From = IF tail + n < Size THEN tail + n ELSE tail + n - Size
    BY <1>1, <1>4, <2>2, SMT DEF From
  <2>4. From \in 0..(Size - 1) /\ Dist(From, head) = Dist(tail, head) - n
    <3>1. n \in 0..Dist(tail, head)  BY <1>2, <2>2
    <3> HIDE DEF n
    <3> QED  BY <1>1, <2>3, <3>1, DistShorter
  <2> QED  BY <1>2, <1>4, <2>2, <2>4, SMT DEF Held
<1> QED  BY <1>3, <1>4

\* What start_tx reads is not more than the content and does not wrap.
LEMMA ToEndFacts ==
  ASSUME TypeOK
  PROVE  ToEnd \in 0..Count /\ tail + ToEnd <= Size /\ (Count > 0 => ToEnd > 0)
<1>1. Fields!2  BY Fields
<1>2. Count = Dist(tail, head)  BY Indices
<1> QED  BY <1>1, <1>2, SMT DEF ToEnd, Dist

-----------------------------------------------------------------------------
(* What a step that leaves some of the state alone keeps.                   *)

LEMMA SameContent ==
  ASSUME UNCHANGED <<head, tail>>
  PROVE  Count' = Count /\ Space' = Space /\ ToEnd' = ToEnd
  BY DEF Count, Space, ToEnd

LEMMA SameBytes ==
  ASSUME BytesInv, UNCHANGED <<head, data, wire>>, From' = From,
         usart'.dr = usart.dr, usart'.shift = usart.shift, Accepted' = Accepted
  PROVE  BytesInv'
<1>1. Held' = Held /\ Moved' = Moved
  BY DEF Held, Moved, Dist, InRegister
<1> QED  BY <1>1 DEF BytesInv, InRegister, Dist

LEMMA SamePackets ==
  ASSUME PacketInv, UNCHANGED <<ep, call, rx_pending>>, Space' = Space,
         pc'.main = pc.main
  PROVE  PacketInv'
  BY DEF PacketInv

\* A step of the main loop outside the window and start_tx.
LEMMA Elsewhere ==
  ASSUME Stream, UNCHANGED <<buffer, dma, avail, wire>>, Accepted' = Accepted,
         usart'.dr = usart.dr, usart'.shift = usart.shift,
         pc'.isr = pc.isr, pc.main # "size",
         pc'.main \notin {"start", "busy", "txa", "enable", "size"},
         pc'.main # "copy" \/ call'.left # 0
  PROVE  ChannelInv' /\ IsrInv' /\ MainInv' /\ BytesInv'
<1>1. Count' = Count /\ ToEnd' = ToEnd  BY SameContent DEF buffer
<1>2. Chunk' = Chunk /\ From' = From  BY DEF buffer, Chunk, From
<1>3. ChannelInv'  BY <1>1, <1>2 DEF buffer, Stream, ChannelInv
<1>4. IsrInv'  BY <1>1 DEF Stream, IsrInv
<1>5. MainInv'  BY DEF MainInv, InWindow
<1>6. BytesInv'  BY <1>2, SameBytes DEF buffer, Stream
<1> QED  BY <1>3, <1>4, <1>5, <1>6

-----------------------------------------------------------------------------
(* start_tx.                                                                *)

\* Called by the main loop, it leaves the endpoint and the packet alone.
LEMMA StartTxPackets ==
  ASSUME TypeOK, PacketInv, UNCHANGED <<ep, call, rx_pending, head, tail>>,
         pc.main \in StartTxPcs,
         pc'.main \in StartTxPcs
           \/ pc'.main = (IF call.from = "event" THEN "poll" ELSE "received")
  PROVE  PacketInv'
<1>1. Space' = Space  BY SameContent
<1>2. call.from \in {"event", "poll"} /\ call.left \in Nat  BY Fields
<1>3. pc.main # "copy" /\ pc'.main # "copy"  BY DEF StartTxPcs
<1>4. pc'.main = "received" => call.from = "poll"  BY <1>2 DEF StartTxPcs
<1>5. call.from = "poll" /\ pc.main \in StartTxPcs
        => pc'.main \in StartTxPcs \cup {"copy", "received"}
  OBVIOUS
<1> QED  BY <1>1, <1>2, <1>3, <1>4, <1>5 DEF PacketInv, StartTxPcs

LEMMA StartTxMain ==
  ASSUME Undisturbed, Inv, StartTx("main")
  PROVE  Stream'
<1> USE DEF buffer, coding
<1>0. TypeOK /\ Stream  BY DEF Inv
<1>1. Fields!2  BY <1>0, Fields
<1>2. pc.isr = "idle" /\ (dma.tcif => pc.main = "size") /\ pc.main \in StartTxPcs
  BY Turns DEF StartTx, ReadCount, TestBusy, ActivateTxa, EnableDma, SaveSize,
               ClearTc, EnableTcie, StartTxPcs
<1>3. UNCHANGED <<head, tail, data, ep, call, rx_pending, wire, sent>>
  BY DEF StartTx, ReadCount, TestBusy, ActivateTxa, EnableDma, SaveSize,
         ClearTc, EnableTcie
<1>4. /\ pc'.isr = pc.isr
      /\ \/ pc'.main \in StartTxPcs
         \/ pc'.main = (IF call.from = "event" THEN "poll" ELSE "received")
  BY <1>0, Moves, Returns
     DEF StartTx, ReadCount, TestBusy, ActivateTxa, EnableDma, SaveSize,
         ClearTc, EnableTcie, StartTxPcs
<1>5. PacketInv'  BY <1>0, <1>2, <1>3, <1>4, StartTxPackets DEF Stream
<1>6. Accepted' = Accepted  BY <1>3 DEF Accepted
<1>7. Count' = Count /\ ToEnd' = ToEnd  BY <1>3, SameContent
<1>8. usart'.dr = usart.dr /\ usart'.shift = usart.shift
  BY <1>0 DEF TypeOK, Usart, StartTx, ReadCount, TestBusy, ActivateTxa, EnableDma,
              SaveSize, ClearTc, EnableTcie
<1>9. CASE ReadCount("main")
  <2>1. /\ pc.main = "start" /\ pc'.main = "busy" /\ dma' = dma /\ fetched' = fetched
        /\ last_dma_tx_size' = last_dma_tx_size
    BY <1>0, <1>9, Moves, Turns DEF ReadCount
  <2>2. avail'.main = ToEnd /\ avail'.isr = avail.isr
    BY <1>0, <1>9, Indices DEF ReadCount, TypeOK
  <2>3. Chunk' = Chunk /\ From' = From  BY <1>3, <2>1 DEF Chunk, From
  <2>4. ChannelInv'
    BY <1>0, <1>3, <1>4, <1>7, <2>1, <2>2, <2>3 DEF Stream, ChannelInv
  <2>5. IsrInv'  BY <1>0, <1>2, <1>4, <2>1 DEF IsrInv
  <2>6. MainInv'
    BY <1>0, <1>2, <1>4, <1>7, <2>1, <2>2, <2>3 DEF Stream, MainInv, InWindow
  <2>7. BytesInv'  BY <1>0, <1>3, <1>6, <1>8, <2>3, SameBytes DEF Stream
  <2> QED  BY <1>5, <2>4, <2>5, <2>6, <2>7 DEF Stream
<1>10. CASE TestBusy("main")
  <2>1. /\ pc.main = "busy" /\ dma' = dma /\ avail' = avail
        /\ last_dma_tx_size' = last_dma_tx_size /\ ~fetched'
    BY <1>10, Turns DEF TestBusy
  <2>2. CASE ~dma.en /\ avail.main > 0 /\ Goto("main", "txa")
    <3>1. pc'.main = "txa"  BY <1>0, <2>2, Moves
    <3>2. ~fetched /\ avail.main = ToEnd
      BY <1>0, <1>2, <2>1, <2>2 DEF Stream, MainInv, InWindow
    <3>3. Chunk' = Chunk /\ From' = From  BY <1>3, <2>1 DEF Chunk, From
    <3>4. ChannelInv'  BY <1>0, <2>1, <2>2 DEF Stream, ChannelInv
    <3>5. IsrInv'  BY <1>2, <1>4 DEF IsrInv
    <3>6. MainInv'
      BY <1>2, <1>4, <1>7, <2>1, <2>2, <3>1, <3>2 DEF MainInv, InWindow
    <3>7. BytesInv'  BY <1>0, <1>3, <1>6, <1>8, <3>3, SameBytes DEF Stream
    <3> QED  BY <1>5, <3>4, <3>5, <3>6, <3>7 DEF Stream
  <2>3. CASE Return("main") \/ Goto("main", "tc")
    <3>1. pc'.main \notin {"start", "busy", "txa", "enable", "size", "copy"}
      BY <1>0, <2>3, Moves, Returns
    <3> QED  BY <1>0, <1>3, <1>4, <1>5, <1>6, <1>8, <2>1, <3>1, Elsewhere DEF Stream
  <2> QED  BY <1>10, <2>2, <2>3 DEF TestBusy
<1>11. CASE ActivateTxa("main")
  <2>1. /\ pc.main = "txa" /\ pc'.main = "enable" /\ dma' = dma /\ avail' = avail
        /\ last_dma_tx_size' = last_dma_tx_size
    BY <1>0, <1>11, Moves, Turns DEF ActivateTxa
  <2>2. From' = From  BY <1>3, <2>1 DEF From
  <2>3. ~dma.en /\ avail.main = ToEnd /\ avail.main > 0
    BY <1>0, <2>1 DEF Stream, MainInv
  <2>4. ChannelInv'  BY <1>0, <2>1, <2>3 DEF Stream, ChannelInv
  <2>5. IsrInv'  BY <1>2, <1>4 DEF IsrInv
  <2>6. MainInv'  BY <1>2, <1>4, <1>7, <2>1, <2>3 DEF MainInv, InWindow
  <2>7. BytesInv'  BY <1>0, <1>3, <1>6, <1>8, <2>2, SameBytes DEF Stream
  <2> QED  BY <1>5, <2>4, <2>5, <2>6, <2>7 DEF Stream
<1>12. CASE EnableDma("main")
  <2>1. pc.main = "enable" /\ pc'.main = "size" /\ avail' = avail
    BY <1>0, <1>12, Moves, Turns DEF EnableDma
  <2>2. /\ dma'.en /\ dma'.src = tail /\ dma'.cndtr = avail.main /\ dma'.tcif = dma.tcif
    BY <1>0, <1>12 DEF EnableDma, TypeOK, DmaChannel
  <2>3. ~dma.en /\ ~dma.tcif /\ avail.main = ToEnd /\ avail.main > 0
    BY <1>0, <2>1 DEF Stream, MainInv, ChannelInv
  <2>4. From' = From  BY <1>1, <1>3, <2>2, <2>3, SMT DEF From
  <2>5. Chunk' = avail.main
    <3>1. Chunk' = tail + avail.main - tail  BY <1>3, <2>2 DEF Chunk
    <3> QED  BY <1>1, <3>1, SMT
  <2>6. ChannelInv'
    <3>1. avail.main \in 0..Count /\ tail + avail.main <= Size /\ tail <= tail
      BY <1>0, <1>1, <2>3, ToEndFacts
    <3>2. 0 < avail.main /\ avail.main <= Count /\ avail.main # 0
      BY <1>1, <2>3, <3>1, SMT
    <3> QED
      BY <1>2, <1>3, <1>4, <1>7, <2>1, <2>2, <2>3, <2>5, <3>1, <3>2 DEF ChannelInv
  <2>7. IsrInv'  BY <1>2, <1>4 DEF IsrInv
  <2>8. MainInv'  BY <1>2, <1>4, <2>1, <2>2 DEF MainInv, InWindow
  <2>9. BytesInv'  BY <1>0, <1>3, <1>6, <1>8, <2>4, SameBytes DEF Stream
  <2> QED  BY <1>5, <2>6, <2>7, <2>8, <2>9 DEF Stream
<1>13. CASE SaveSize("main")
  <2>1. /\ pc.main = "size" /\ dma' = dma /\ last_dma_tx_size' = avail.main
        /\ pc'.main \in {"poll", "received"}
    BY <1>0, <1>13, Returns, Turns DEF SaveSize
  <2>2. Chunk' = Chunk /\ From' = From  BY <1>3, <2>1 DEF Chunk, From
  <2>3. ChannelInv'
    BY <1>0, <1>2, <1>3, <1>4, <1>7, <2>1, <2>2 DEF Stream, ChannelInv
  <2>4. IsrInv'  BY <1>2, <1>4 DEF IsrInv
  <2>5. MainInv'  BY <2>1 DEF MainInv, InWindow
  <2>6. BytesInv'  BY <1>0, <1>3, <1>6, <1>8, <2>2, SameBytes DEF Stream
  <2> QED  BY <1>5, <2>3, <2>4, <2>5, <2>6 DEF Stream
<1>14. CASE ClearTc("main") \/ EnableTcie("main")
  <2>1. /\ pc.main # "size"
        /\ pc'.main \notin {"start", "busy", "txa", "enable", "size", "copy"}
        /\ UNCHANGED <<buffer, dma, avail, wire>>
    BY <1>0, <1>14, Moves, Returns, Turns DEF ClearTc, EnableTcie
  <2> QED  BY <1>0, <1>4, <1>5, <1>6, <1>8, <2>1, Elsewhere DEF Stream
<1> QED  BY <1>9, <1>10, <1>11, <1>12, <1>13, <1>14 DEF StartTx

LEMMA StartTxIsr ==
  ASSUME Undisturbed, Inv, StartTx("isr")
  PROVE  Stream'
<1> USE DEF buffer, coding
<1>0. TypeOK /\ Stream  BY DEF Inv
<1>1. Fields!2  BY <1>0, Fields
<1>2. pc.isr # "idle"
  BY Turns DEF StartTx, ReadCount, TestBusy, ActivateTxa, EnableDma, SaveSize,
               ClearTc, EnableTcie
<1>3. UNCHANGED <<head, tail, data, ep, call, rx_pending, wire, sent>>
  BY DEF StartTx, ReadCount, TestBusy, ActivateTxa, EnableDma, SaveSize,
         ClearTc, EnableTcie
<1>4. pc'.main = pc.main /\ avail'.main = avail.main
  BY <1>0, Moves, Returns
     DEF TypeOK, StartTx, ReadCount, TestBusy, ActivateTxa, EnableDma, SaveSize,
         ClearTc, EnableTcie
<1>5. Accepted' = Accepted  BY <1>3 DEF Accepted
<1>6. Count' = Count /\ ToEnd' = ToEnd /\ Space' = Space  BY <1>3, SameContent
<1>7. PacketInv'  BY <1>0, <1>3, <1>4, <1>6, SamePackets DEF Stream
<1>8. usart'.dr = usart.dr /\ usart'.shift = usart.shift
  BY <1>0 DEF TypeOK, Usart, StartTx, ReadCount, TestBusy, ActivateTxa, EnableDma,
              SaveSize, ClearTc, EnableTcie
<1>9. pc.main \notin {"txa", "enable", "size"} /\ InWindow' = InWindow
  BY <1>0, <1>2, <1>3, <1>4 DEF Stream, MainInv, InWindow
<1>10. InWindow => /\ Count > 0 /\ ~dma.tcif /\ fetched
                   /\ pc.isr \in {"start", "busy", "txa", "enable", "size"}
  BY <1>0, <1>2 DEF Stream, MainInv
\* What is left of MainInv for a step of the interrupt
<1>11. ASSUME dma'.tcif = dma.tcif, fetched' = fetched,
              dma'.en \/ pc'.isr # "idle",
              pc'.isr \in {"start", "busy", "txa", "enable", "size", "idle"} \/ ~InWindow
       PROVE  MainInv'
  <2>1. InWindow =>
          /\ Count' > 0 /\ ~dma'.tcif /\ fetched' /\ (dma'.en \/ pc'.isr # "idle")
          /\ pc'.isr # "idle" => pc'.isr \in {"start", "busy", "txa", "enable", "size"}
    BY <1>6, <1>10, <1>11
  <2>2. pc'.main = "busy" => InWindow  BY <1>4 DEF InWindow
  <2> QED  BY <1>4, <1>9, <2>1, <2>2 DEF MainInv
<1>12. CASE ReadCount("isr")
  <2>1. /\ pc.isr = "start" /\ pc'.isr = "busy" /\ dma' = dma /\ fetched' = fetched
    BY <1>0, <1>12, Moves, Turns DEF ReadCount
  <2>2. avail'.isr = ToEnd  BY <1>0, <1>12, Indices DEF ReadCount, TypeOK
  <2>3. ~dma.en /\ From' = From  BY <1>0, <1>3, <2>1 DEF Stream, IsrInv, From
  <2>4. ChannelInv'  BY <1>0, <2>1, <2>3 DEF Stream, ChannelInv
  <2>5. IsrInv'  BY <1>6, <2>1, <2>2, <2>3 DEF IsrInv
  <2>6. MainInv'  BY <1>11, <2>1
  <2>7. BytesInv'  BY <1>0, <1>3, <1>5, <1>8, <2>3, SameBytes DEF Stream
  <2> QED  BY <1>7, <2>4, <2>5, <2>6, <2>7 DEF Stream
<1>13. CASE TestBusy("isr")
  <2>1. /\ pc.isr = "busy" /\ dma' = dma /\ avail' = avail /\ fetched' = (fetched /\ TRUE)
    BY <1>13, Turns DEF TestBusy
  <2>2. ~dma.en /\ avail.isr = ToEnd  BY <1>0, <2>1 DEF Stream, IsrInv
  <2>3. /\ \/ avail.isr > 0 /\ pc'.isr = "txa"
           \/ avail.isr = 0 /\ pc'.isr = "tc"
    BY <1>0, <1>13, <2>2, Moves DEF TestBusy
  <2>4. From' = From  BY <1>3, <2>1 DEF From
  <2>5. ChannelInv'  BY <1>0, <2>1, <2>2 DEF Stream, ChannelInv
  <2>6. IsrInv'  BY <1>6, <2>1, <2>2, <2>3 DEF IsrInv
  <2>7. InWindow => pc'.isr = "txa"
    <3>1. InWindow => ToEnd > 0  BY <1>0, <1>10, ToEndFacts
    <3>2. ToEnd > 0 => avail.isr # 0  BY <1>1, <2>2, SMT
    <3> QED  BY <2>3, <3>1, <3>2
  <2>8. fetched' = fetched  BY <1>0, <2>1 DEF TypeOK
  <2>9. MainInv'  BY <1>11, <2>1, <2>3, <2>7, <2>8
  <2>10. BytesInv'  BY <1>0, <1>3, <1>5, <1>8, <2>4, SameBytes DEF Stream
  <2> QED  BY <1>7, <2>5, <2>6, <2>9, <2>10 DEF Stream
<1>14. CASE ActivateTxa("isr")
  <2>1. /\ pc.isr = "txa" /\ pc'.isr = "enable" /\ dma' = dma /\ avail' = avail
        /\ fetched' = fetched
    BY <1>0, <1>14, Moves, Turns DEF ActivateTxa
  <2>2. ~dma.en /\ avail.isr = ToEnd /\ avail.isr > 0
    BY <1>0, <2>1 DEF Stream, IsrInv
  <2>3. From' = From  BY <1>3, <2>1 DEF From
  <2>4. ChannelInv'  BY <1>0, <2>1, <2>2 DEF Stream, ChannelInv
  <2>5. IsrInv'  BY <1>6, <2>1, <2>2 DEF IsrInv
  <2>6. MainInv'  BY <1>11, <2>1
  <2>7. BytesInv'  BY <1>0, <1>3, <1>5, <1>8, <2>3, SameBytes DEF Stream
  <2> QED  BY <1>7, <2>4, <2>5, <2>6, <2>7 DEF Stream
<1>15. CASE EnableDma("isr")
  <2>1. pc.isr = "enable" /\ pc'.isr = "size" /\ avail' = avail /\ fetched' = fetched
    BY <1>0, <1>15, Moves, Turns DEF EnableDma
  <2>2. /\ dma'.en /\ dma'.src = tail /\ dma'.cndtr = avail.isr /\ dma'.tcif = dma.tcif
    BY <1>0, <1>15 DEF EnableDma, TypeOK, DmaChannel
  <2>3. ~dma.en /\ ~dma.tcif /\ avail.isr = ToEnd /\ avail.isr > 0
    BY <1>0, <2>1 DEF Stream, IsrInv, ChannelInv
  <2>4. From' = From  BY <1>1, <1>3, <2>2, <2>3, SMT DEF From
  <2>5. Chunk' = avail.isr
    <3>1. Chunk' = tail + avail.isr - tail  BY <1>3, <2>2 DEF Chunk
    <3> QED  BY <1>1, <3>1, SMT
  <2>6. ChannelInv'
    <3>1. avail.isr \in 0..Count /\ tail + avail.isr <= Size /\ tail <= tail
      BY <1>0, <1>1, <2>3, ToEndFacts
    <3>2. 0 < avail.isr /\ avail.isr <= Count /\ avail.isr # 0
      BY <1>1, <2>3, <3>1, SMT
    <3> QED
      BY <1>3, <1>6, <2>1, <2>2, <2>3, <2>5, <3>1, <3>2 DEF ChannelInv
  <2>7. IsrInv'  BY <2>1, <2>2 DEF IsrInv
  <2>8. MainInv'  BY <1>11, <2>1, <2>2
  <2>9. BytesInv'  BY <1>0, <1>3, <1>5, <1>8, <2>4, SameBytes DEF Stream
  <2> QED  BY <1>7, <2>6, <2>7, <2>8, <2>9 DEF Stream
<1>16. CASE SaveSize("isr")
  <2>1. /\ pc.isr = "size" /\ dma' = dma /\ last_dma_tx_size' = avail.isr
        /\ pc'.isr = "idle" /\ fetched' = fetched
    BY <1>0, <1>16, Returns, Turns DEF SaveSize
  <2>2. Chunk' = Chunk /\ From' = From  BY <1>3, <2>1 DEF Chunk, From
  <2>3. dma.en  BY <1>0, <2>1 DEF Stream, IsrInv
  <2>4. ChannelInv'
    BY <1>0, <1>3, <1>4, <1>6, <1>9, <2>1, <2>2 DEF Stream, ChannelInv
  <2>5. IsrInv'  BY <2>1 DEF IsrInv
  <2>6. MainInv'  BY <1>11, <2>1, <2>3
  <2>7. BytesInv'  BY <1>0, <1>3, <1>5, <1>8, <2>2, SameBytes DEF Stream
  <2> QED  BY <1>7, <2>4, <2>5, <2>6, <2>7 DEF Stream
<1>17. CASE ClearTc("isr") \/ EnableTcie("isr")
  <2>1. /\ pc.isr \in {"tc", "tcie"} /\ pc'.isr \in {"tcie", "idle"} /\ dma' = dma
    BY <1>0, <1>17, Moves, Returns, Turns DEF ClearTc, EnableTcie
  <2>2. ~dma.en /\ From' = From  BY <1>0, <1>3, <2>1 DEF Stream, IsrInv, From
  <2>3. ChannelInv'  BY <1>0, <2>1, <2>2 DEF Stream, ChannelInv
  <2>4. IsrInv'  BY <2>1, <2>2 DEF IsrInv
  <2>5. ~InWindow  BY <1>10, <2>1
  <2>6. pc'.main # "busy"  BY <1>4, <2>5 DEF InWindow
  <2>7. MainInv'  BY <1>4, <1>9, <2>5, <2>6 DEF MainInv
  <2>8. BytesInv'  BY <1>0, <1>3, <1>5, <1>8, <2>2, SameBytes DEF Stream
  <2> QED  BY <1>7, <2>3, <2>4, <2>7, <2>8 DEF Stream
<1> QED  BY <1>12, <1>13, <1>14, <1>15, <1>16, <1>17 DEF StartTx

-----------------------------------------------------------------------------
(* The other steps of the main loop.                                        *)

\* The handlers that move no byte.
LEMMA HandlerStep ==
  ASSUME Undisturbed, Inv,
         \/ \E c \in Codings : SetLineCoding(c)
         \/ OtherEvent \/ DeferLineCoding \/ WriteBrr \/ WriteCr1
         \/ PollReady \/ PollApplied \/ PollReceived
  PROVE  Stream'
<1> USE DEF buffer, coding
<1>0. TypeOK /\ Stream  BY DEF Inv
<1>1. UNCHANGED <<buffer, dma, avail, wire, sent, ep, fetched>>
  BY DEF SetLineCoding, OtherEvent, DeferLineCoding, WriteBrr, WriteCr1, PollReady,
         PollApplied, PollReceived
<1>2. usart'.dr = usart.dr /\ usart'.shift = usart.shift /\ call'.left = call.left
  BY <1>0 DEF TypeOK, Usart, SetLineCoding, OtherEvent, DeferLineCoding, WriteBrr,
              WriteCr1, PollReady, PollApplied, PollReceived
<1>3. /\ pc'.isr = pc.isr
      /\ pc.main \in {"event", "defer", "apply", "cr1", "poll", "applied", "received"}
      /\ pc'.main \in {"event", "defer", "apply", "cr1", "poll", "applied", "deferred"}
  BY <1>0, Moves, Turns
     DEF SetLineCoding, OtherEvent, DeferLineCoding, WriteBrr, WriteCr1, PollReady,
         PollApplied, PollReceived
<1>4. Accepted' = Accepted  BY <1>1, <1>2 DEF Accepted
<1>5. ChannelInv' /\ IsrInv' /\ MainInv' /\ BytesInv'
  BY <1>0, <1>1, <1>2, <1>3, <1>4, Elsewhere
<1>6. rx_pending' => ep.rx_count > 0 /\ ~ep.valid /\ ~ep.ctr
  <2>1. rx_pending' => rx_pending /\ pc.main # "received"
    BY <1>0, Turns
       DEF SetLineCoding, OtherEvent, DeferLineCoding, WriteBrr, WriteCr1, PollReady,
           PollApplied, PollReceived
  <2> QED  BY <1>0, <1>3, <2>1 DEF Stream, PacketInv, StartTxPcs
<1>7. PacketInv'  BY <1>0, <1>1, <1>2, <1>3, <1>6 DEF Stream, PacketInv
<1> QED  BY <1>5, <1>7 DEF Stream

\* A packet is put off, or its copying begins.
LEMMA PacketStep ==
  ASSUME Undisturbed, Inv, DataReceived \/ PollDeferred
  PROVE  Stream' /\ Accepted' = Accepted
<1> USE DEF buffer, coding
<1>0. TypeOK /\ Stream  BY DEF Inv
<1>1. Fields!2  BY <1>0, Fields
<1>2. UNCHANGED <<buffer, dma, avail, wire, sent, usart>>
  BY DEF DataReceived, PollDeferred
<1>3. /\ pc.main \in {"event", "deferred"}
      /\ DataReceived => pc.main = "event" /\ ep.ctr
  BY Turns DEF DataReceived, PollDeferred
<1>4. call.left = 0  BY <1>0, <1>1, <1>3, SMT DEF Stream, PacketInv
<1>5. rx_pending => ep.rx_count > 0 /\ ~ep.valid /\ ~ep.ctr
  BY <1>0, <1>3 DEF Stream, PacketInv, StartTxPcs
<1>6. Space' = Space  BY <1>2, SameContent
<1>7. CASE BeginCopy("event") \/ BeginCopy("poll")
  <2>1. PICK from \in {"event", "poll"} :
          BeginCopy(from) /\ (rx_pending => from = "poll") /\ rx_pending' = rx_pending
          /\ ep.rx_count <= Space /\ ep.rx_count > 0 /\ ~ep.valid
    <3>1. CASE DataReceived
      <4>1. ep.rx_count > 0 /\ ~ep.valid /\ ~rx_pending
        BY <1>0, <1>3, <1>5, <3>1 DEF Stream, PacketInv
      <4>2. /\ BeginCopy("event") /\ rx_pending' = rx_pending
            /\ Space >= ep.rx_count
        <5>1. pc'.main = "copy"  BY <1>0, <1>7, Moves DEF BeginCopy
        <5>2. ~Goto("main", "poll")  BY <1>0, <5>1, Moves
        <5> QED  BY <3>1, <5>2 DEF DataReceived
      <4>3. ep.rx_count <= Space  BY <1>0, <1>1, <4>2, Indices, SMT
      <4> QED  BY <4>1, <4>2, <4>3
    <3>2. CASE PollDeferred
      <4>1. /\ BeginCopy("poll") /\ rx_pending' = rx_pending
            /\ rx_pending /\ Space >= ep.rx_count
        <5>1. pc'.main = "copy"  BY <1>0, <1>7, Moves DEF BeginCopy
        <5>2. ~Goto("main", "event")  BY <1>0, <5>1, Moves
        <5> QED  BY <3>2, <5>2 DEF PollDeferred
      <4>2. ep.rx_count > 0 /\ ~ep.valid  BY <1>5, <4>1
      <4>3. ep.rx_count <= Space  BY <1>0, <1>1, <4>1, Indices, SMT
      <4> QED  BY <4>1, <4>2, <4>3
    <3> QED  BY <3>1, <3>2
  <2>2. /\ call'.left = ep.rx_count /\ call'.from = from
        /\ ep'.rx_count = 0 /\ ep'.valid = ep.valid /\ ~ep'.ctr
    <3>1. call' = [left |-> ep.rx_count, from |-> from]  BY <2>1 DEF BeginCopy
    <3>2. ep' = [ep EXCEPT !.ctr = FALSE, !.rx_count = 0]  BY <2>1 DEF BeginCopy
    <3>3. ep'.rx_count = 0 /\ ep'.valid = ep.valid /\ ~ep'.ctr
      BY <1>0, <3>2 DEF TypeOK, Endpoint
    <3> QED  BY <3>1, <3>3
  <2>3. pc'.main = "copy" /\ pc'.isr = pc.isr  BY <1>0, <2>1, Moves DEF BeginCopy
  <2>4. Accepted' = Accepted
    <3>1. Accepted' = sent - 0 - ep.rx_count  BY <1>2, <2>2 DEF Accepted
    <3> QED  BY <1>1, <1>4, <3>1, SMT DEF Accepted
  <2>5. call'.left # 0  BY <1>1, <2>1, <2>2, SMT
  <2>6. ChannelInv' /\ IsrInv' /\ MainInv' /\ BytesInv'
    BY <1>0, <1>2, <1>3, <2>3, <2>4, <2>5, Elsewhere
  <2>7. PacketInv'
    BY <1>6, <2>1, <2>2, <2>3 DEF PacketInv
  <2> QED  BY <2>4, <2>6, <2>7 DEF Stream
<1>8. CASE /\ UNCHANGED call /\ ep' \in {ep, [ep EXCEPT !.ctr = FALSE]}
           /\ ep'.ctr => ep.ctr
           /\ pc'.main \in {"poll", "event"} /\ pc'.isr = pc.isr
           /\ rx_pending' => rx_pending \/ ep.ctr
           /\ rx_pending' => ~ep'.ctr
  <2>1. ep'.rx_count = ep.rx_count /\ ep'.valid = ep.valid
    BY <1>0, <1>8 DEF TypeOK, Endpoint
  <2>2. Accepted' = Accepted  BY <1>2, <1>8, <2>1 DEF Accepted
  <2>3. ChannelInv' /\ IsrInv' /\ MainInv' /\ BytesInv'
    BY <1>0, <1>2, <1>3, <1>8, <2>2, Elsewhere
  <2>4. rx_pending' => ep.rx_count > 0 /\ ~ep.valid
    BY <1>0, <1>5, <1>8 DEF Stream, PacketInv
  <2>5. PacketInv'
    BY <1>0, <1>4, <1>8, <2>1, <2>4, <1>1 DEF Stream, PacketInv
  <2> QED  BY <2>2, <2>3, <2>5 DEF Stream
<1>9. ASSUME ~BeginCopy("event"), ~BeginCopy("poll") PROVE <1>8!1
  <2>1. CASE DataReceived
    <3>1. /\ rx_pending' = TRUE /\ ep' = [ep EXCEPT !.ctr = FALSE] /\ ep.ctr
          /\ Goto("main", "poll") /\ call' = call
      BY <1>9, <2>1 DEF DataReceived
    <3>2. ~ep'.ctr  BY <1>0, <3>1 DEF TypeOK, Endpoint
    <3> QED  BY <1>0, <3>1, <3>2, Moves
  <2>2. CASE PollDeferred
    <3>1. rx_pending' = rx_pending /\ ep' = ep /\ Goto("main", "event") /\ call' = call
      BY <1>9, <2>2 DEF PollDeferred
    <3> QED  BY <1>0, <1>5, <3>1, Moves
  <2> QED  BY <2>1, <2>2
<1> QED  BY <1>7, <1>8, <1>9

\* One byte goes into the buffer.
LEMMA CopyByteStep ==
  ASSUME Undisturbed, Inv, CopyByte
  PROVE  Stream'
<1> USE DEF buffer, coding
<1>0. TypeOK /\ Stream  BY DEF Inv
<1>1. Fields!2  BY <1>0, Fields
<1>2. ByteStored!4  BY ByteStored
<1>3. UNCHANGED <<tail, last_dma_tx_size, rx_pending, dma, usart, ep, pc, avail, sent,
                  wire>>
      /\ ~fetched'
  BY DEF CopyByte
<1>4. Count = Dist(tail, head) /\ Count \in 0..(Size - 1) /\ Space = Size - 1 - Count
  BY <1>0, Indices
<1>5. Chunk' = Chunk /\ From' = From  BY <1>3 DEF Chunk, From
<1>6. PacketInv'
  <2>1. call'.left = call.left - 1 /\ Space' = Space - 1 /\ Space >= call.left
    BY <1>2
  <2>2. call'.left <= Space'  BY <1>1, <1>4, <2>1, SMT
  <2> QED  BY <1>0, <1>2, <1>3, <2>2 DEF Stream, PacketInv
<1>7. dma.en => Chunk \in Int /\ Chunk <= Count  BY <1>0, <1>1 DEF Stream, ChannelInv, Chunk
<1>8. dma.en => Chunk < Count' /\ Chunk <= Count'  BY <1>2, <1>4, <1>7, SMT
<1>9. ChannelInv'  BY <1>0, <1>3, <1>5, <1>8 DEF Stream, ChannelInv
<1>10. IsrInv'  BY <1>2, <1>3 DEF IsrInv
<1>11. MainInv'
  <2>1. Count' > 0  BY <1>2, <1>4, SMT
  <2> QED  BY <1>2, <1>3, <1>5, <1>8, <2>1 DEF MainInv
<1>12. BytesInv'
  <2>1. From \in 0..(Size - 1) /\ Held \in 0..Count  BY <1>0, HeldFacts DEF Stream
  <2>2. Held < Size - 1  BY <1>1, <1>2, <1>4, <2>1, SMTT(30)
  <2>3. Held' = Held + 1
    <3>1. Dist(From, head') = Dist(From, head) + 1
      BY <1>1, <1>2, <2>1, <2>2, DistLonger DEF Held
    <3>2. Held' = Dist(From, head')  BY <1>5 DEF Held, Dist
    <3> QED  BY <3>1, <3>2 DEF Held
  <2>4. Moved' = Moved  BY <1>3 DEF Moved, InRegister
  <2>5. Moved + Held = Accepted /\ Moved \in Nat
    <3>1. Moved + Held = Accepted  BY <1>0 DEF Stream, BytesInv
    <3>2. Moved \in Nat
      <4>1. InRegister(usart.shift) \in Nat /\ InRegister(usart.dr) \in Nat
        BY DEF InRegister
      <4> QED  BY <1>1, <4>1, SMT DEF Moved
    <3> QED  BY <3>1, <3>2
  <2>6. ep.rx_count = 0  BY <1>0, <1>2 DEF Stream, PacketInv
  <2>7. Accepted' = Accepted + 1 /\ sent - call.left + 1 = Moved + 1 + Held
    <3>1. Accepted' = sent - 0 - (call.left - 1) /\ Accepted = sent - 0 - call.left
      BY <1>2, <1>3, <2>6 DEF Accepted
    <3> QED  BY <1>1, <2>1, <2>5, <3>1, SMTT(30)
  <2>8. data' = [data EXCEPT ![head] = Moved + 1 + Held]  BY <2>7 DEF CopyByte
  <2>9. ASSUME NEW j \in 0..(Size - 1), Dist(From, j) < Held + 1
        PROVE  data'[j] = Moved + 1 + Dist(From, j)
    <3>1. CASE j = head  BY <1>0, <1>1, <2>8, <3>1 DEF TypeOK, Held
    <3>2. CASE j # head
      <4>1. Dist(From, j) # Dist(From, head)
        BY <1>1, <2>1, <3>2, SMT DEF Dist
      <4>2. Dist(From, j) < Held
        <5>1. Dist(From, j) \in 0..(Size - 1)  BY <2>1, DistIsCount
        <5>2. Dist(From, j) # Held  BY <4>1 DEF Held
        <5>3. Held \in Nat /\ Dist(From, j) \in Nat  BY <1>1, <1>4, <2>1, <5>1, SMT
        <5> QED  BY <2>9, <5>2, <5>3, SMT
      <4> QED  BY <1>0, <2>8, <3>2, <4>2 DEF Stream, BytesInv, TypeOK
    <3> QED  BY <3>1, <3>2
  <2>10. Moved + (Held + 1) = Accepted + 1  BY <1>4, <2>1, <2>5, SMT
  <2>11. \A j \in 0..(Size - 1) : Dist(From, j)' = Dist(From, j)
    BY <1>5 DEF Dist
  <2>12. BytesInv!4'
    BY <1>5, <2>3, <2>4, <2>9 DEF Dist
  <2> QED
    BY <1>0, <1>3, <2>3, <2>4, <2>7, <2>10, <2>12 DEF Stream, BytesInv, InRegister
<1> QED  BY <1>6, <1>9, <1>10, <1>11, <1>12 DEF Stream

LEMMA EndCopyStep ==
  ASSUME Undisturbed, Inv, EndCopy
  PROVE  Stream'
<1> USE DEF buffer, coding
<1>0. TypeOK /\ Stream  BY DEF Inv
<1>1. UNCHANGED <<buffer, rx_pending, dma, usart, avail, call, sent, fetched, wire>>
      /\ pc.main = "copy" /\ pc.isr = "idle" /\ call.left = 0
  BY Turns DEF EndCopy
<1>2. pc'.main = "start" /\ pc'.isr = "idle"  BY <1>0, <1>1, Moves DEF EndCopy
<1>3. ep.rx_count = 0 /\ ~ep.ctr  BY <1>0, <1>1 DEF Stream, PacketInv
<1>4. ep'.valid /\ ep'.rx_count = ep.rx_count /\ ep'.ctr = ep.ctr
  BY <1>0 DEF EndCopy, TypeOK, Endpoint
<1>5. Count' = Count  BY <1>1, SameContent
<1>6. Chunk' = Chunk /\ From' = From  BY <1>1 DEF Chunk, From
<1>7. Accepted' = Accepted  BY <1>1, <1>4 DEF Accepted
<1>8. PacketInv'
  BY <1>0, <1>1, <1>2, <1>3, <1>4 DEF Stream, PacketInv, StartTxPcs
<1>9. ChannelInv'  BY <1>0, <1>1, <1>2, <1>5, <1>6 DEF Stream, ChannelInv
<1>10. IsrInv'  BY <1>2 DEF IsrInv
<1>11. MainInv'
  BY <1>0, <1>1, <1>2, <1>5, <1>6 DEF Stream, MainInv, InWindow
<1>12. BytesInv'  BY <1>0, <1>1, <1>6, <1>7, SameBytes DEF Stream
<1> QED  BY <1>8, <1>9, <1>10, <1>11, <1>12 DEF Stream

-----------------------------------------------------------------------------
(* The interrupts, the hardware and the host.                               *)

\* In the window the chunk that completed was enabled before the packet's last
\* byte was stored, so the interrupt leaves that byte for the next chunk.
LEMMA DmaIrqStep ==
  ASSUME Undisturbed, Inv, DmaIrq
  PROVE  Stream'
<1> USE DEF buffer, coding
<1>0. TypeOK /\ Stream  BY DEF Inv
<1>1. Fields!2  BY <1>0, Fields
<1>2. ChunkReleased!4  BY ChunkReleased
<1>3. UNCHANGED <<head, data, last_dma_tx_size, rx_pending, usart, ep, avail, call,
                  sent, fetched, wire>>
  BY DEF DmaIrq
<1>4. pc'.isr = "start" /\ pc'.main = pc.main  BY <1>0, Moves DEF DmaIrq
<1>5. ~dma'.en /\ ~dma'.tcif  BY <1>0 DEF DmaIrq, TypeOK, DmaChannel
<1>6. Count = Dist(tail, head) /\ Count \in 0..(Size - 1) /\ Space = Size - 1 - Count
  BY <1>0, Indices
<1>7. From' = From  BY <1>2, <1>5 DEF From
<1>8. Space' >= Space /\ Space \in Int /\ Space' \in Int
  <2>1. From \in 0..(Size - 1)  BY <1>0, HeldFacts DEF Stream
  <2>2. tail' \in 0..(Size - 1)  BY <1>2, <2>1
  <2>3. Space' = Size - 1 - Count'
    BY <1>1, <1>2, <2>2, SizeFacts, CountAndSpace DEF Space, Count
  <2>4. Count' = Count - Chunk /\ Chunk \in 1..Count  BY <1>2
  <2>5. Count' \in Int /\ Count' <= Count /\ Count \in Int  BY <1>6, <2>4, SMT
  <2>6. Size \in Int  BY <1>1, SMT
  <2> QED  BY <1>6, <2>3, <2>5, <2>6, SMT
<1>9. PacketInv'
  <2>1. pc.main = "copy" => call.left <= Space'
    <3>1. pc.main = "copy" => call.left <= Space  BY <1>0 DEF Stream, PacketInv
    <3> QED  BY <1>1, <1>8, <3>1, SMT
  <2> QED  BY <1>0, <1>3, <1>4, <2>1 DEF Stream, PacketInv
<1>10. ChannelInv'  BY <1>5 DEF ChannelInv
<1>11. IsrInv'  BY <1>4, <1>5 DEF IsrInv
<1>12. MainInv'
  <2>1. pc.main \notin {"txa", "enable", "size"}  BY <1>0, <1>2 DEF Stream, MainInv
  <2>2. InWindow => fetched /\ Count' > 0
    <3>1. InWindow => fetched /\ Chunk < Count  BY <1>0, <1>2 DEF Stream, MainInv
    <3>2. Count' = Count - Chunk /\ Chunk \in 1..Count  BY <1>2
    <3>3. Chunk < Count => Count' > 0  BY <1>6, <3>2, SMT
    <3> QED  BY <3>1, <3>3
  <2>3. InWindow' = InWindow /\ (pc.main = "busy" => InWindow)
    BY <1>3, <1>4 DEF InWindow
  <2> QED  BY <1>3, <1>4, <1>5, <2>1, <2>2, <2>3 DEF MainInv
<1>13. BytesInv'
  <2>1. Accepted' = Accepted  BY <1>3 DEF Accepted
  <2> QED  BY <1>0, <1>3, <1>7, <2>1, SameBytes DEF Stream
<1> QED  BY <1>9, <1>10, <1>11, <1>12, <1>13 DEF Stream

\* The channel moves the byte at dma.src into the empty data register.
LEMMA FetchByteStep ==
  ASSUME Undisturbed, Inv, FetchByte
  PROVE  Stream'
<1> USE DEF buffer, coding
<1>0. TypeOK /\ Stream  BY DEF Inv
<1>1. Fields!2  BY <1>0, Fields
<1>2. /\ dma.en /\ dma.cndtr > 0 /\ usart.dr = 0 /\ ~(InWindow /\ fetched)
      /\ fetched' = InWindow
      /\ UNCHANGED <<head, tail, data, last_dma_tx_size, rx_pending, ep, pc, avail, call,
                     sent, wire>>
  <2>1. ~Delays  BY DEF Undisturbed
  <2>2. InWindow \in BOOLEAN  BY DEF InWindow
  <2> QED  BY <2>1, <2>2 DEF FetchByte
<1>3. /\ dma'.en /\ dma'.src = dma.src + 1 /\ dma'.cndtr = dma.cndtr - 1
      /\ dma'.tcif = (dma.cndtr = 1)
  BY <1>0, <1>2 DEF FetchByte, TypeOK, DmaChannel
<1>4. Count' = Count /\ Space' = Space /\ ToEnd' = ToEnd  BY <1>2, SameContent
<1>5. Count = Dist(tail, head) /\ Count \in 0..(Size - 1)  BY <1>0, Indices
<1>6. Chunk' = Chunk
  <2>1. Chunk' = dma.src + 1 + (dma.cndtr - 1) - tail /\ Chunk = dma.src + dma.cndtr - tail
    BY <1>2, <1>3 DEF Chunk
  <2> QED  BY <1>1, <2>1, SMT
<1>7. /\ tail <= dma.src /\ 0 < Chunk /\ Chunk <= Count /\ dma.src + dma.cndtr <= Size
  BY <1>0, <1>2 DEF Stream, ChannelInv
<1>8. dma.src \in 0..(Size - 1)  BY <1>1, <1>2, <1>7, SMT
<1>9. Held = Count - (dma.src - tail) /\ Held \in 0..Count /\ Held > 0
  <2>1. Held = Count - (dma.src - tail) /\ Held \in 0..Count
    BY <1>0, <1>2, HeldFacts DEF Stream
  <2>2. Chunk = dma.src + dma.cndtr - tail  BY DEF Chunk
  <2>3. dma.src - tail < Count  BY <1>1, <1>2, <1>5, <1>7, <2>2, SMT
  <2> QED  BY <1>1, <1>5, <2>1, <2>3, SMT
<1>10. PacketInv'  BY <1>0, <1>2, <1>4, SamePackets DEF Stream
<1>11. ChannelInv'
  <2>1. /\ tail <= dma.src + 1 /\ dma.src + 1 + (dma.cndtr - 1) <= Size
        /\ (dma.cndtr = 1 <=> dma.cndtr - 1 = 0)
    BY <1>1, <1>7, SMT
  <2> QED
    BY <1>0, <1>2, <1>3, <1>4, <1>6, <2>1 DEF Stream, ChannelInv
<1>12. IsrInv'  BY <1>0, <1>2, <1>3, <1>4 DEF Stream, IsrInv
<1>13. MainInv'
  <2>1. InWindow' = InWindow /\ (pc.main = "busy" => InWindow)  BY <1>2 DEF InWindow
  <2>2. pc.main \notin {"txa", "enable"}  BY <1>0, <1>2 DEF Stream, MainInv
  <2>3. pc.main = "size" => pc.isr = "idle"  BY <1>0 DEF Stream, MainInv
  <2>4. InWindow => Count > 0 /\ pc.isr = "idle" /\ Chunk < Count
    BY <1>0, <1>2 DEF Stream, MainInv
  <2> QED
    BY <1>2, <1>3, <1>4, <1>6, <2>1, <2>2, <2>3, <2>4 DEF MainInv
<1>14. BytesInv'
  <2>1. From = dma.src  BY <1>1, <1>2, <1>8, SMT DEF From
  <2>2. From' = IF dma.src + 1 < Size THEN dma.src + 1 ELSE dma.src + 1 - Size
    <3>1. From' = IF dma.src + 1 = Size THEN 0 ELSE dma.src + 1  BY <1>3 DEF From
    <3> QED  BY <1>1, <1>8, <3>1, SMT
  <2>3. From' \in 0..(Size - 1) /\ Held' = Held - 1
    <3>0. head \in 0..(Size - 1)  BY <1>1
    <3>1. 1 \in 0..Dist(dma.src, head)  BY <1>1, <1>5, <1>9, <2>1, SMT DEF Held
    <3>2. ASSUME NEW k, k = IF dma.src + 1 < Size THEN dma.src + 1 ELSE dma.src + 1 - Size
          PROVE  k \in 0..(Size - 1) /\ Dist(k, head) = Dist(dma.src, head) - 1
      BY <1>8, <3>0, <3>1, <3>2, DistShorter
    <3>3. Held' = Dist(From', head)  BY <1>2 DEF Held, Dist
    <3>4. From' \in 0..(Size - 1) /\ Dist(From', head) = Dist(dma.src, head) - 1
      BY <2>2, <3>2
    <3> QED  BY <2>1, <3>3, <3>4 DEF Held
  <2>4. InRegister(usart.shift) \in {0, 1} /\ Moved \in Nat
        /\ Moved = Len(wire) + InRegister(usart.shift)
    <3>1. InRegister(usart.shift) \in {0, 1} /\ InRegister(usart.dr) = 0
      BY <1>2 DEF InRegister
    <3> QED  BY <1>1, <3>1, SMT DEF Moved
  <2>5. data[dma.src] = Moved + 1
    <3>1. Dist(From, dma.src) = 0  BY <1>1, <2>1, SMT DEF Dist
    <3>2. 0 < Held  BY <1>5, <1>9, SMT
    <3>3. data[dma.src] = Moved + 1 + 0
      BY <1>0, <1>8, <3>1, <3>2 DEF Stream, BytesInv
    <3> QED  BY <2>4, <3>3, SMT
  <2>6. usart'.dr = Moved + 1 /\ usart'.shift = usart.shift
    <3>1. dma.src < Size  BY <1>1, <1>8, SMT
    <3> QED  BY <1>0, <2>5, <3>1 DEF FetchByte, TypeOK, Usart
  <2>7. Moved' = Moved + 1 /\ Moved + 1 # 0
    <3>1. Moved + 1 # 0  BY <2>4, SMT
    <3>2. Moved' = Len(wire) + InRegister(usart.shift) + 1
      BY <1>2, <2>6, <3>1 DEF Moved, InRegister
    <3> QED  BY <2>4, <3>1, <3>2
  <2>8. ASSUME NEW j \in 0..(Size - 1), Dist(From', j) < Held - 1
        PROVE  data[j] = Moved + 1 + 1 + Dist(From', j)
    <3>1. j # dma.src
      <4>1. Dist(From', dma.src) = Size - 1  BY <1>1, <1>8, <2>2, SMT DEF Dist
      <4>2. ~(Size - 1 < Held - 1)  BY <1>1, <1>5, <1>9, SMT
      <4> QED  BY <2>8, <4>1, <4>2
    <3>2. Dist(From, j) = Dist(From', j) + 1 /\ Dist(From', j) \in Nat
      BY <1>8, <2>1, <2>2, <3>1, DistNext
    <3>3. Dist(From, j) < Held  BY <1>1, <1>5, <1>9, <2>8, <3>2, SMT
    <3>4. data[j] = Moved + 1 + Dist(From, j)  BY <1>0, <3>3 DEF Stream, BytesInv
    <3> QED  BY <2>4, <3>2, <3>4, SMT
  <2>9. Moved + 1 + (Held - 1) = Accepted /\ Accepted' = Accepted
    <3>1. Moved + Held = Accepted  BY <1>0 DEF Stream, BytesInv
    <3>2. Accepted' = Accepted  BY <1>2 DEF Accepted
    <3> QED  BY <1>5, <1>9, <2>4, <3>1, <3>2, SMT
  <2>10. BytesInv!4'  BY <1>2, <2>3, <2>7, <2>8 DEF Dist
  <2> QED
    BY <1>0, <1>2, <2>3, <2>4, <2>6, <2>7, <2>9, <2>10 DEF Stream, BytesInv, InRegister
<1> QED  BY <1>10, <1>11, <1>12, <1>13, <1>14 DEF Stream

\* The steps that leave the channel, the buffer and the program alone.
LEMMA UsartStep ==
  ASSUME Undisturbed, Inv, UsartIrq \/ LoadShift \/ ShiftOut
  PROVE  Stream'
<1> USE DEF buffer, coding
<1>0. TypeOK /\ Stream  BY DEF Inv
<1>1. Fields!2  BY <1>0, Fields
<1>2. UNCHANGED <<buffer, rx_pending, dma, ep, pc, avail, call, sent, fetched>>
  BY DEF UsartIrq, LoadShift, ShiftOut
<1>3. Count' = Count /\ Space' = Space /\ ToEnd' = ToEnd  BY <1>2, SameContent
<1>4. Chunk' = Chunk /\ From' = From /\ Held' = Held /\ Accepted' = Accepted
      /\ InWindow' = InWindow
  BY <1>2 DEF Chunk, From, Held, Dist, Accepted, InWindow
<1>5. PacketInv'  BY <1>0, <1>2, <1>3, SamePackets DEF Stream
<1>6. ChannelInv'  BY <1>0, <1>2, <1>3, <1>4 DEF Stream, ChannelInv
<1>7. IsrInv'  BY <1>0, <1>2, <1>3 DEF Stream, IsrInv
<1>8. MainInv'  BY <1>0, <1>2, <1>3, <1>4 DEF Stream, MainInv
<1>9. BytesInv'
  <2>1. CASE UsartIrq
    <3>1. usart'.dr = usart.dr /\ usart'.shift = usart.shift /\ wire' = wire
      BY <1>0, <2>1 DEF UsartIrq, TypeOK, Usart
    <3> QED  BY <1>0, <1>2, <1>4, <3>1, SameBytes DEF Stream
  <2>2. CASE LoadShift
    <3>1. /\ usart.shift = 0 /\ usart.dr # 0 /\ usart'.shift = usart.dr /\ usart'.dr = 0
          /\ wire' = wire
      BY <1>0, <2>2 DEF LoadShift, TypeOK, Usart
    <3>2. Moved' = Moved /\ usart'.shift = Len(wire) + 1
      <4>1. Moved' = Len(wire) + 1 + 0 /\ Moved = Len(wire) + 0 + 1
        BY <3>1 DEF Moved, InRegister
      <4>2. usart.dr = Len(wire) + 0 + 1
        BY <1>0, <3>1 DEF Stream, BytesInv, InRegister
      <4> QED  BY <1>1, <3>1, <4>1, <4>2, SMT
    <3>3. BytesInv!4'  BY <1>0, <1>2, <1>4, <3>2 DEF Stream, BytesInv, Dist
    <3> QED
      BY <1>0, <1>4, <3>1, <3>2, <3>3 DEF Stream, BytesInv
  <2>3. CASE ShiftOut
    <3>1. /\ usart.shift # 0 /\ usart'.shift = 0 /\ usart'.dr = usart.dr
          /\ wire' = Append(wire, usart.shift)
      BY <1>0, <2>3 DEF ShiftOut, TypeOK, Usart
    <3>2. usart.shift = Len(wire) + 1  BY <1>0, <3>1 DEF Stream, BytesInv
    <3>3. /\ Len(wire') = Len(wire) + 1 /\ wire'[Len(wire) + 1] = Len(wire) + 1
          /\ \A i \in 1..Len(wire) : wire'[i] = wire[i]
      <4>1. wire \in Seq(Nat)  BY <1>0 DEF TypeOK
      <4> QED  BY <1>1, <3>1, <3>2, <4>1, SMT
    <3>4. \A i \in 1..Len(wire') : wire'[i] = i
      <4>1. \A i \in 1..Len(wire) : wire[i] = i  BY <1>0 DEF Stream, BytesInv
      <4>2. \A i \in 1..(Len(wire) + 1) : i \in 1..Len(wire) \/ i = Len(wire) + 1
        BY <1>1, SMT
      <4> QED  BY <3>3, <4>1, <4>2
    <3>5. Moved' = Moved
      <4>1. /\ Moved' = Len(wire) + 1 + 0 + InRegister(usart.dr)
            /\ Moved = Len(wire) + 1 + InRegister(usart.dr)
        BY <3>1, <3>3 DEF Moved, InRegister
      <4>2. InRegister(usart.dr) \in Int  BY DEF InRegister
      <4> QED  BY <1>1, <4>1, <4>2, SMT
    <3>6. usart.dr # 0 => usart.dr = Len(wire) + 1 + 0 + 1
      <4>1. usart.dr # 0 => usart.dr = Len(wire) + 1 + 1
        BY <1>0, <3>1 DEF Stream, BytesInv, InRegister
      <4> QED  BY <1>1, <4>1, SMT
    <3>7. BytesInv!4'  BY <1>0, <1>2, <1>4, <3>5 DEF Stream, BytesInv, Dist
    <3> QED
      BY <1>0, <1>4, <3>1, <3>3, <3>4, <3>5, <3>6, <3>7 DEF Stream, BytesInv, InRegister
  <2> QED  BY <2>1, <2>2, <2>3
<1> QED  BY <1>5, <1>6, <1>7, <1>8, <1>9 DEF Stream

LEMMA HostStep ==
  ASSUME Undisturbed, Inv, NEW n \in PacketSizes, HostSend(n)
  PROVE  Stream' /\ Accepted' = Accepted
<1> USE DEF buffer, coding
<1>0. TypeOK /\ Stream  BY DEF Inv
<1>1. Fields!2  BY <1>0, Fields
<1>2. /\ UNCHANGED <<buffer, rx_pending, dma, usart, pc, avail, call, fetched, wire>>
      /\ ep' = [valid |-> FALSE, ctr |-> TRUE, rx_count |-> n]
      /\ ep.valid /\ sent' = sent + n
  BY DEF HostSend
<1>3. n \in Nat /\ n > 0
  <2>1. n \in 0..(Size - 1) /\ n # 0  BY PacketAssumption DEF Undisturbed
  <2> QED  BY <1>1, <2>1, SMT
<1>4. ep.rx_count = 0 /\ pc.main # "copy" /\ (rx_pending =>
        call.from = "poll" /\ pc.main \in StartTxPcs \cup {"copy", "received"})
  BY <1>0, <1>2 DEF Stream, PacketInv
<1>5. Count' = Count /\ Space' = Space /\ ToEnd' = ToEnd  BY <1>2, SameContent
<1>6. Accepted' = Accepted
  <2>1. Accepted' = sent' - ep'.rx_count - call'.left  BY DEF Accepted
  <2>2. sent' = sent + n /\ ep'.rx_count = n /\ call'.left = call.left  BY <1>2
  <2>3. Accepted = sent - 0 - call.left  BY <1>4 DEF Accepted
  <2> QED  BY <1>1, <1>3, <2>1, <2>2, <2>3, SMT
<1>7. Chunk' = Chunk /\ From' = From /\ InWindow' = InWindow
  BY <1>2 DEF Chunk, From, InWindow
<1>8. PacketInv'  BY <1>0, <1>2, <1>3, <1>4 DEF Stream, PacketInv
<1>9. ChannelInv'  BY <1>0, <1>2, <1>5, <1>7 DEF Stream, ChannelInv
<1>10. IsrInv'  BY <1>0, <1>2, <1>5 DEF Stream, IsrInv
<1>11. MainInv'  BY <1>0, <1>2, <1>5, <1>7 DEF Stream, MainInv
<1>12. BytesInv'  BY <1>0, <1>2, <1>6, <1>7, SameBytes DEF Stream
<1> QED  BY <1>6, <1>8, <1>9, <1>10, <1>11, <1>12 DEF Stream

-----------------------------------------------------------------------------
(* The theorems.                                                            *)

LEMMA StreamInit == Init => Stream
<1> SUFFICES ASSUME Init PROVE Stream
  OBVIOUS
<1>0. TypeOK  BY TypeInit
<1>1. Fields!2  BY <1>0, Fields
<1>2. PacketInv  BY <1>1, SMT DEF Init, PacketInv
<1>3. ChannelInv /\ IsrInv  BY DEF Init, ChannelInv, IsrInv
<1>4. MainInv  BY DEF Init, MainInv, InWindow
<1>5. BytesInv
  <2>1. Len(wire) = 0 /\ 1..Len(wire) = {}  BY SMT DEF Init
  <2>2. From = 0 /\ Held = 0  BY DEF Init, From, Held, Dist
  <2>3. Moved = 0 /\ Accepted = 0  BY <2>1, SMT DEF Init, Moved, InRegister, Accepted
  <2>4. \A j \in 0..(Size - 1) : ~(Dist(From, j) < Held)
    BY <1>1, <2>2, SMT DEF Dist
  <2> QED  BY <2>1, <2>2, <2>3, <2>4 DEF Init, BytesInv
<1> QED  BY <1>2, <1>3, <1>4, <1>5 DEF Stream

LEMMA StreamStep == Undisturbed /\ Inv /\ [Next]_vars => Stream'
<1> SUFFICES ASSUME Undisturbed, Inv, [Next]_vars PROVE Stream'
  OBVIOUS
<1>1. CASE StartTx("main")  BY <1>1, StartTxMain
<1>2. CASE StartTx("isr")  BY <1>2, StartTxIsr
<1>3. CASE \/ \E c \in Codings : SetLineCoding(c)
           \/ OtherEvent \/ DeferLineCoding \/ WriteBrr \/ WriteCr1
           \/ PollReady \/ PollApplied \/ PollReceived
  BY <1>3, HandlerStep
<1>4. CASE DataReceived \/ PollDeferred  BY <1>4, PacketStep
<1>5. CASE CopyByte  BY <1>5, CopyByteStep
<1>6. CASE EndCopy  BY <1>6, EndCopyStep
<1>7. CASE DmaIrq  BY <1>7, DmaIrqStep
<1>8. CASE FetchByte  BY <1>8, FetchByteStep
<1>9. CASE UsartIrq \/ LoadShift \/ ShiftOut  BY <1>9, UsartStep
<1>10. CASE \E n \in PacketSizes : HostSend(n)  BY <1>10, HostStep
<1>11. CASE UNCHANGED vars
  <2>1. /\ Count' = Count /\ Space' = Space /\ ToEnd' = ToEnd /\ Chunk' = Chunk
        /\ From' = From /\ Accepted' = Accepted /\ InWindow' = InWindow
    BY <1>11 DEF vars, buffer, Count, Space, ToEnd, Chunk, From, Accepted, InWindow
  <2>2. PacketInv' /\ ChannelInv' /\ IsrInv' /\ MainInv'
    BY <1>11, <2>1
       DEF Inv, Stream, vars, buffer, PacketInv, ChannelInv, IsrInv, MainInv
  <2>3. BytesInv'  BY <1>11, <2>1, SameBytes DEF Inv, Stream, vars, buffer
  <2> QED  BY <2>2, <2>3 DEF Stream
<1> QED
  BY <1>1, <1>2, <1>3, <1>4, <1>5, <1>6, <1>7, <1>8, <1>9, <1>10, <1>11
  DEF Next, MainLoop, DmaInterrupt

LEMMA InvHolds == ASSUME Undisturbed PROVE Spec => []Inv
<1>1. Init => Inv
  <2>1. Init => CopyFits  BY DEF Init, CopyFits
  <2> QED  BY <2>1, TypeInit, StreamInit DEF Inv
<1>2. Inv /\ [Next]_vars => Inv'
  BY TypeStep, CopyFitsStep, StreamStep DEF Inv
<1> QED  BY <1>1, <1>2, PTL DEF Spec

\* The consecutive numbers up to a are those up to n, followed by the next one, by
\* none, or by a row of them.
LEMMA NumbersJoined ==
  ASSUME NEW n \in Nat, NEW m \in Nat
  PROVE  [i \in 1..n |-> i] \o [i \in 1..m |-> n + i] = [i \in 1..(n + m) |-> i]
<1> DEFINE s == [i \in 1..n |-> i]
           t == [i \in 1..m |-> n + i]
           u == [i \in 1..(n + m) |-> i]
<1>1. s \in Seq(Nat) /\ Len(s) = n /\ t \in Seq(Nat) /\ Len(t) = m
      /\ u \in Seq(Nat) /\ Len(u) = n + m
  BY SMT
<1>2. s \o t \in Seq(Nat) /\ Len(s \o t) = n + m  BY <1>1, SMT
<1>3. \A i \in 1..(n + m) : (s \o t)[i] = u[i]
  <2> TAKE i \in 1..(n + m)
  <2>1. (s \o t)[i] = IF i <= n THEN s[i] ELSE t[i - n]  BY <1>1, SMT
  <2>2. CASE i <= n  BY <2>1, <2>2, SMT
  <2>3. CASE i > n
    <3>1. i - n \in 1..m /\ n + (i - n) = i  BY <2>3, SMT
    <3> QED  BY <2>1, <2>3, <3>1, SMT
  <2> QED  BY <2>2, <2>3, SMT
<1> HIDE DEF s, t, u
<1> QED  BY <1>1, <1>2, <1>3, SMT

LEMMA RegisterNumbers ==
  ASSUME NEW r \in Nat, NEW n \in Nat, r # 0 => r = n + 1
  PROVE  Register(r) = [i \in 1..InRegister(r) |-> n + i] /\ InRegister(r) \in Nat
<1>1. CASE r = 0
  <2>1. [i \in 1..0 |-> n + i] = << >>
    <3>1. 1..0 = {}  BY SMT
    <3> QED  BY <3>1, SMT
  <2> QED  BY <1>1, <2>1 DEF Register, InRegister
<1>2. CASE r # 0
  <2>1. [i \in 1..1 |-> n + i] = <<n + 1>>
    <3>1. 1..1 = {1}  BY SMT
    <3> QED  BY <3>1, SMT
  <2> QED  BY <1>2, <2>1 DEF Register, InRegister
<1> QED  BY <1>1, <1>2

LEMMA UnfetchedNumbers ==
  ASSUME Inv
  PROVE  Unfetched = [i \in 1..Held |-> Moved + i] /\ Held \in Nat
<1>0. TypeOK /\ Stream  BY DEF Inv
<1>1. Fields!2  BY <1>0, Fields
<1>2. /\ From \in 0..(Size - 1) /\ Held \in 0..Count
      /\ dma.en => dma.src \in tail..Size
  BY <1>0, HeldFacts DEF Stream
<1>3. Count \in 0..(Size - 1)  BY <1>0, Indices
<1>4. Moved \in Nat
  <2>1. InRegister(usart.shift) \in Nat /\ InRegister(usart.dr) \in Nat
    BY DEF InRegister
  <2> QED  BY <1>1, <2>1, SMT DEF Moved
<1>5. (IF dma.en THEN dma.src % Size ELSE tail) = From
  <2>1. ASSUME NEW k \in 0..Size PROVE k % Size = IF k = Size THEN 0 ELSE k
    BY SizeAssumption, SMT
  <2>2. dma.en => dma.src \in 0..Size  BY <1>1, <1>2, SMT
  <2> QED  BY <2>1, <2>2 DEF From
<1>6. circ_buf_count(head, From, Size) = Held
  BY <1>1, <1>2, DistIsCount DEF Held
<1>7. ASSUME NEW i \in 1..Held
      PROVE  data[Advance(From, i - 1, Size)] = Moved + i
  <2> DEFINE n == i - 1
             k == Advance(From, n, Size)
  <2>1. n \in 0..Size /\ n \in 0..(Size - 1) /\ n < Held  BY <1>1, <1>2, <1>3, SMT
  <2> HIDE DEF n
  <2>2. k = IF From + n < Size THEN From + n ELSE From + n - Size
    BY <1>0, <1>2, <2>1, Indices
  <2> HIDE DEF k
  <2>3. k \in 0..(Size - 1) /\ Dist(From, k) = n
    BY <1>2, <2>1, <2>2, DistAdvanced
  <2>4. data[k] = Moved + 1 + n  BY <1>0, <2>1, <2>3 DEF Stream, BytesInv
  <2> QED  BY <1>3, <1>4, <2>4, SMT DEF k, n
<1>8. Unfetched = [i \in 1..Held |-> data[Advance(From, i - 1, Size)]]
  BY <1>5, <1>6 DEF Unfetched
<1> QED  BY <1>2, <1>3, <1>7, <1>8

\* Nothing is lost, repeated, overtaken or overwritten on the way from the endpoint
\* to the wire, wherever the interrupts fall.
THEOREM NothingLost == ASSUME Undisturbed PROVE Spec => []StreamIntact
<1>1. Inv => StreamIntact
  <2> SUFFICES ASSUME Inv PROVE StreamIntact
    OBVIOUS
  <2>0. TypeOK /\ BytesInv  BY DEF Inv, Stream
  <2>1. Fields!2  BY <2>0, Fields
  <2> DEFINE l == Len(wire)
             s == l + InRegister(usart.shift)
             d == s + InRegister(usart.dr)
  <2>2. InRegister(usart.shift) \in Nat /\ InRegister(usart.dr) \in Nat  BY DEF InRegister
  <2>3. l \in Nat /\ s \in Nat /\ d \in Nat /\ Moved = d
    BY <2>1, <2>2, SMTT(30) DEF Moved
  <2>4. wire = [i \in 1..l |-> i]
    <3>1. wire \in Seq(Nat) /\ \A i \in 1..Len(wire) : wire[i] = i
      BY <2>0 DEF TypeOK, BytesInv
    <3> QED  BY <3>1, SMT
  <2>5. Register(usart.shift) = [i \in 1..InRegister(usart.shift) |-> l + i]
    <3>1. usart.shift # 0 => usart.shift = l + 1  BY <2>0 DEF BytesInv
    <3> QED  BY <2>1, <2>3, <3>1, RegisterNumbers
  <2>6. Register(usart.dr) = [i \in 1..InRegister(usart.dr) |-> s + i]
    <3>1. usart.dr # 0 => usart.dr = s + 1  BY <2>0 DEF BytesInv
    <3> QED  BY <2>1, <2>3, <3>1, RegisterNumbers
  <2>7. Unfetched = [i \in 1..Held |-> d + i] /\ Held \in Nat
    BY <2>3, UnfetchedNumbers
  <2>8. d + Held = Accepted  BY <2>0, <2>3 DEF BytesInv
  <2> HIDE DEF l, s, d
  <2>9. wire \o Register(usart.shift) = [i \in 1..(l + InRegister(usart.shift)) |-> i]
    BY <2>2, <2>3, <2>4, <2>5, NumbersJoined
  <2>10. wire \o Register(usart.shift) \o Register(usart.dr)
           = [i \in 1..(s + InRegister(usart.dr)) |-> i]
    BY <2>2, <2>3, <2>6, <2>9, NumbersJoined DEF s
  <2>11. wire \o Register(usart.shift) \o Register(usart.dr) \o Unfetched
           = [i \in 1..(d + Held) |-> i]
    BY <2>3, <2>7, <2>10, NumbersJoined DEF d
  <2> QED  BY <2>8, <2>11 DEF StreamIntact
<1> QED  BY <1>1, InvHolds, PTL

\* The channel reads stored bytes only, and what its completion interrupt advances
\* tail by is what it has moved.
THEOREM WindowHolds == ASSUME Undisturbed PROVE Spec => []DmaWindow
<1>1. Undisturbed /\ Inv => DmaWindow
  <2> SUFFICES ASSUME Undisturbed, Inv, dma.en
               PROVE  /\ dma.src + dma.cndtr <= Size
                      /\ dma.src + dma.cndtr - tail <= Count
                      /\ dma.tcif /\ pc.isr = "idle" /\ ~DmaIrqHeldOff
                           => last_dma_tx_size = dma.src - tail
    BY DEF DmaWindow
  <2>0. TypeOK /\ ChannelInv  BY DEF Inv, Stream
  <2>1. Fields!2  BY <2>0, Fields
  <2>2. dma.src + dma.cndtr <= Size /\ dma.src + dma.cndtr - tail <= Count
    BY <2>0 DEF ChannelInv, Chunk
  <2>3. ASSUME dma.tcif, pc.isr = "idle", ~DmaIrqHeldOff
        PROVE  last_dma_tx_size = dma.src - tail
    <3>1. dma.cndtr = 0 /\ last_dma_tx_size = Chunk
      BY <2>0, <2>3 DEF ChannelInv, DmaIrqHeldOff, Undisturbed
    <3>2. Chunk = dma.src + 0 - tail  BY <3>1 DEF Chunk
    <3> QED  BY <2>1, <3>1, <3>2, SMT
  <2> QED  BY <2>2, <2>3
<1> QED  BY <1>1, InvHolds, PTL

-----------------------------------------------------------------------------
(* The port as a bounded FIFO.  Two of its bytes are in the USART.          *)

Pipe == INSTANCE SerialPipe WITH Capacity <- Size + 1, accepted <- Accepted

\* Storing a byte accepts it.
LEMMA CopyByteAccepts ==
  ASSUME Undisturbed, Inv, CopyByte
  PROVE  Pipe!Accept
<1>0. TypeOK /\ Stream  BY DEF Inv
<1>1. Fields!2  BY <1>0, Fields
<1>2. call'.left = call.left - 1 /\ call.left > 0 /\ Space >= call.left  BY ByteStored
<1>3. UNCHANGED <<sent, ep, wire>>  BY DEF CopyByte
<1>4. Accepted' = Accepted + 1
  <2>1. Accepted' = sent - ep.rx_count - (call.left - 1)  BY <1>2, <1>3 DEF Accepted
  <2>2. Accepted = sent - ep.rx_count - call.left  BY DEF Accepted
  <2> QED  BY <1>1, <2>1, <2>2, SMT
<1>5. Accepted < Len(wire) + (Size + 1)
  <2>1. Held \in 0..Count  BY <1>0, HeldFacts DEF Stream
  <2>2. Count \in 0..(Size - 1) /\ Space = Size - 1 - Count  BY <1>0, Indices
  <2>3. Held < Size - 1  BY <1>1, <1>2, <2>1, <2>2, SMT
  <2>4. Accepted = Moved + Held  BY <1>0 DEF Stream, BytesInv
  <2>5. InRegister(usart.shift) \in 0..1 /\ InRegister(usart.dr) \in 0..1
    BY SMT DEF InRegister
  <2>6. Accepted = Len(wire) + InRegister(usart.shift) + InRegister(usart.dr) + Held
    BY <2>4 DEF Moved
  <2>7. Held \in Int /\ Size \in Int /\ Len(wire) \in Int  BY <1>1, <2>1, <2>2, SMT
  <2> QED  BY <2>3, <2>5, <2>6, <2>7, SMT
<1> QED  BY <1>3, <1>4, <1>5 DEF Pipe!Accept

\* A character that leaves the shift register is the next byte of the stream.
LEMMA ShiftOutTransmits ==
  ASSUME Undisturbed, Inv, ShiftOut
  PROVE  Pipe!Transmit
<1>0. TypeOK /\ Stream  BY DEF Inv
<1>1. Fields!2  BY <1>0, Fields
<1>2. usart.shift # 0 /\ wire' = Append(wire, usart.shift) /\ UNCHANGED <<sent, ep, call>>
  BY DEF ShiftOut
<1>3. usart.shift = Len(wire) + 1  BY <1>0, <1>2 DEF Stream, BytesInv
<1>4. Len(wire) < Accepted
  <2>1. InRegister(usart.shift) = 1 /\ InRegister(usart.dr) \in 0..1
    BY <1>2, SMT DEF InRegister
  <2>2. Held \in 0..Count /\ Count \in 0..(Size - 1)
    BY <1>0, HeldFacts, Indices DEF Stream
  <2>3. Accepted = Len(wire) + InRegister(usart.shift) + InRegister(usart.dr) + Held
    BY <1>0 DEF Stream, BytesInv, Moved
  <2>4. Held \in Nat /\ Len(wire) \in Int  BY <1>1, <2>2, SMT
  <2> QED  BY <2>1, <2>3, <2>4, SMT
<1>5. Accepted' = Accepted  BY <1>2 DEF Accepted
<1> QED  BY <1>2, <1>3, <1>4, <1>5 DEF Pipe!Transmit

\* The other steps neither accept a byte nor transmit one.
LEMMA OthersStutter ==
  ASSUME Undisturbed, Inv, [Next]_vars, ~CopyByte, ~ShiftOut
  PROVE  UNCHANGED <<Accepted, wire>>
<1>0. TypeOK  BY DEF Inv
<1>1. CASE DataReceived \/ PollDeferred
  BY <1>1, PacketStep DEF DataReceived, PollDeferred
<1>2. CASE \E n \in PacketSizes : HostSend(n)
  BY <1>2, HostStep DEF HostSend
<1>3. CASE EndCopy
  <2>1. ep'.rx_count = ep.rx_count  BY <1>0, <1>3 DEF EndCopy, TypeOK, Endpoint
  <2> QED  BY <1>3, <2>1 DEF EndCopy, Accepted
<1>4. CASE (\E c \in Codings : SetLineCoding(c)) \/ PollReady
  <2>1. call'.left = call.left  BY <1>0, <1>4 DEF SetLineCoding, PollReady, TypeOK
  <2> QED  BY <1>4, <2>1 DEF SetLineCoding, PollReady, Accepted
<1>5. CASE UNCHANGED <<sent, ep, call, wire>>
  BY <1>5 DEF Accepted
<1> QED
  BY <1>1, <1>2, <1>3, <1>4, <1>5
  DEF Next, MainLoop, DmaInterrupt, StartTx, vars, ReadCount, TestBusy, ActivateTxa,
      EnableDma, SaveSize, ClearTc, EnableTcie, OtherEvent, DeferLineCoding,
      WriteBrr, WriteCr1, PollApplied, PollReceived, DmaIrq, UsartIrq, FetchByte,
      LoadShift

\* The way from the endpoint to the wire is a FIFO for Size + 1 bytes: each step of
\* the port is one of SerialPipe or leaves the bytes accepted and sent alone.
THEOREM PortIsPipe ==
  ASSUME Undisturbed
  PROVE  Spec => Pipe!Init /\ [][Pipe!Next]_<<Accepted, wire>>
<1>1. Init => Pipe!Init
  BY SMT DEF Init, Accepted, Pipe!Init
<1>2. Inv /\ [Next]_vars => [Pipe!Next]_<<Accepted, wire>>
  <2> SUFFICES ASSUME Inv, [Next]_vars PROVE [Pipe!Next]_<<Accepted, wire>>
    OBVIOUS
  <2>1. CASE CopyByte  BY <2>1, CopyByteAccepts DEF Pipe!Next
  <2>2. CASE ShiftOut  BY <2>2, ShiftOutTransmits DEF Pipe!Next
  <2>3. CASE ~CopyByte /\ ~ShiftOut  BY <2>3, OthersStutter
  <2> QED  BY <2>1, <2>2, <2>3
<1> QED  BY <1>1, <1>2, InvHolds, PTL DEF Spec
=============================================================================
