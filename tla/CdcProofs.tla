----------------------------- MODULE CdcProofs -----------------------------
(***************************************************************************)
(* Proofs about usb_cdc.c beyond its transmit and receive paths.           *)
(*                                                                         *)
(* LineCoding: whatever codings are asked for, in whatever order, accepted *)
(* or refused half way, what is stored can be applied, and while nothing   *)
(* is pending it is what the USART does; for every clock, set of rates and *)
(* sizes of words and of BRR.                                              *)
(*                                                                         *)
(* PortModes: what lies in port 0's two buffers, through both modes; for   *)
(* every size of buffers and packets and any number of bytes and changes.  *)
(***************************************************************************)
EXTENDS LineCoding, PortModes, SequenceTheorems, TLAPS

-----------------------------------------------------------------------------
(* Line codings                                                             *)

Settings == [rate: Rates \ {0}, stop: StopBits, bits: DataBits, parity: Parities]
Registers == [brr: 0..BrrSize - 1, stop: 0..3, m: BOOLEAN, pce: BOOLEAN, ps: BOOLEAN]

\* s is a coding that usb_cdc_set_line_coding would accept.
Settable(s) == s \in Settings /\ (s.bits \notin {7, 8} => s.parity = "none")

\* Of the coding s, the registers u say all but the word length.
Says(u, s) ==
  /\ u.brr = Brr(s.rate) /\ u.stop = StopCode(s.stop)
  /\ u.pce = (s.parity # "none") /\ u.ps = (s.parity = "odd")

\* A stored coding and registers, as they are between two requests
Good(b) == b = Both(b.stored, b.usart) /\ Settable(b.stored) /\ b.usart \in Registers

\* What a step of usb_cdc_set_line_coding makes of b
Kept(b, new, dry) ==
  /\ Good(new)
  /\ dry => new.usart = b.usart
  /\ ~dry /\ Says(b.usart, b.stored) => Says(new.usart, new.stored)

CodingInv ==
  /\ CodingTypeOK
  /\ Settable(stored)
  /\ ~pending => /\ Says(usart, stored)
                 /\ answer = "ack" => usart.m = NinthBit(stored)

\* BRR holds a number of its width.
LEMMA BrrFits == ASSUME NEW rate \in Rates, rate # 0 PROVE Brr(rate) \in 0..BrrSize - 1
<1>1. rate \in Nat \ {0} /\ Fck \in Nat /\ BrrSize \in Nat \ {0}  BY RateAssumption
<1>2. Fck \div rate \in Int  BY <1>1
<1> QED  BY <1>1, <1>2 DEF Brr

\* A quotient that fits is the one wanted.
LEMMA Quotient ==
  ASSUME NEW rate \in Rates, rate # 0, Fck \div rate < BrrSize
  PROVE  Brr(rate) * rate <= Fck /\ Fck < (Brr(rate) + 1) * rate
<1>1. rate \in Nat \ {0} /\ Fck \in Nat /\ BrrSize \in Nat \ {0}  BY RateAssumption
<1> DEFINE q == Fck \div rate
<1>2. q \in Nat  BY <1>1
<1>3. Fck = q * rate + (Fck % rate) /\ Fck % rate \in 0..rate - 1  BY <1>1
<1>4. q % BrrSize = q  BY <1>1, <1>2
<1> HIDE DEF q
<1>5. q * rate \in Int /\ (q + 1) * rate = q * rate + rate  BY <1>1, <1>2
<1>6. q * rate <= Fck /\ Fck < (q + 1) * rate  BY <1>1, <1>3, <1>5
<1> QED  BY <1>4, <1>6 DEF Brr, q

-----------------------------------------------------------------------------
(* The steps of usb_cdc_set_line_coding                                     *)

\* The rate: stored, and written to BRR
LEMMA RateStep ==
  ASSUME NEW b, Good(b), NEW c \in Codings, NEW dry \in BOOLEAN
  PROVE  Kept(b, SetRate(b, c, dry), dry)
<1>1. c.rate # 0 => Brr(c.rate) \in 0..BrrSize - 1 /\ c.rate \in Rates \ {0}
  BY BrrFits DEF Codings
<1> HIDE DEF Brr
<1>2. CASE c.rate = 0
  BY <1>2 DEF SetRate, Kept
<1>3. CASE c.rate # 0 /\ dry
  <2>1. SetRate(b, c, dry) = Both([b.stored EXCEPT !.rate = c.rate], b.usart)
    BY <1>3 DEF SetRate
  <2>2. Settable([b.stored EXCEPT !.rate = c.rate])
    BY <1>1, <1>3 DEF Good, Settable, Settings
  <2>4. Good(SetRate(b, c, dry))  BY <2>1, <2>2 DEF Good, Both
  <2>3. SetRate(b, c, dry).usart = b.usart  BY <2>1 DEF Both
  <2> QED  BY <1>3, <2>4, <2>3 DEF Kept
<1>4. CASE c.rate # 0 /\ ~dry
  <2>1. SetRate(b, c, dry)
          = Both([b.stored EXCEPT !.rate = c.rate], [b.usart EXCEPT !.brr = Brr(c.rate)])
    BY <1>4 DEF SetRate
  <2> QED  BY <1>1, <1>4, <2>1 DEF Kept, Good, Both, Settable, Settings, Registers, Says
<1> QED  BY <1>2, <1>3, <1>4

\* The stop bits, if there are such
LEMMA StopStep ==
  ASSUME NEW b, Good(b), NEW c \in Codings, NEW dry \in BOOLEAN, c.stop \in StopBits
  PROVE  Kept(b, SetStop(b, c, dry), dry)
<1>1. StopCode(c.stop) \in 0..3  BY DEF StopCode, StopBits
<1>2. CASE dry
  <2>1. SetStop(b, c, dry) = Both([b.stored EXCEPT !.stop = c.stop], b.usart)
    BY <1>2 DEF SetStop
  <2>2. Good(SetStop(b, c, dry))
    BY <2>1 DEF Good, Both, Settable, Settings
  <2>3. SetStop(b, c, dry).usart = b.usart  BY <2>1 DEF Both
  <2> QED  BY <1>2, <2>2, <2>3 DEF Kept
<1>3. CASE ~dry
  <2>1. SetStop(b, c, dry)
          = Both([b.stored EXCEPT !.stop = c.stop], [b.usart EXCEPT !.stop = StopCode(c.stop)])
    BY <1>3 DEF SetStop
  <2> QED  BY <1>1, <1>3, <2>1 DEF Kept, Good, Both, Settable, Settings, Registers, Says
<1> QED  BY <1>2, <1>3

\* The word length, which waits for the parity to be written
LEMMA BitsStep ==
  ASSUME NEW b, Good(b), NEW c \in Codings, NEW dry \in BOOLEAN, c.bits \in {7, 8}
  PROVE  Kept(b, SetBits(b, c), dry)
<1>1. SetBits(b, c) = Both([b.stored EXCEPT !.bits = c.bits], b.usart)
  BY DEF SetBits, Good, Both
<1> QED  BY <1>1 DEF Kept, Good, Both, Settable, Settings, Says, Codings

\* The parity, and the word length with it
LEMMA ParityStep ==
  ASSUME NEW b, Good(b), NEW c \in Codings, NEW dry \in BOOLEAN,
         c.parity \in Parities, c.bits \notin {7, 8} => c.parity = "none"
  PROVE  LET new == SetParity(SetBits(b, c), c, dry)
         IN  /\ Kept(b, new, dry)
             /\ ~dry => new.usart.m = NinthBit(new.stored)
<1> DEFINE s == [b.stored EXCEPT !.bits = c.bits, !.parity = c.parity]
           u == [b.usart EXCEPT !.m = NinthBit(c), !.pce = c.parity # "none",
                                !.ps = c.parity = "odd"]
<1>1. SetParity(SetBits(b, c), c, dry) = Both(s, IF dry THEN b.usart ELSE u)
  BY DEF SetParity, SetBits, Good, Both, Settable, Settings
<1>2. Settable(s) /\ s.parity = c.parity /\ s.bits = c.bits
      /\ s.rate = b.stored.rate /\ s.stop = b.stored.stop
  BY DEF Good, Settable, Settings, Codings
<1>3. u \in Registers /\ u.m = NinthBit(c) /\ u.pce = (c.parity # "none")
      /\ u.ps = (c.parity = "odd") /\ u.brr = b.usart.brr /\ u.stop = b.usart.stop
  BY DEF Good, Registers, NinthBit
<1> HIDE DEF s, u
<1> QED  BY <1>1, <1>2, <1>3 DEF Kept, Good, Both, Says, NinthBit

\* Whatever the request, accepted or refused, what it leaves can be applied;
\* and when it writes the registers they say what is stored.
LEMMA Request ==
  ASSUME NEW s, Settable(s), NEW u \in Registers, NEW c \in Codings, NEW dry \in BOOLEAN
  PROVE  LET done == set_line_coding(Both(s, u), c, dry)
         IN  /\ Kept(Both(s, u), done.now, dry)
             /\ done.ok /\ ~dry => done.now.usart.m = NinthBit(done.now.stored)
<1> DEFINE b       == Both(s, u)
           rated   == SetRate(b, c, dry)
           stopped == SetStop(rated, c, dry)
           sized   == SetBits(stopped, c)
<1>1. Good(b)  BY DEF Good, Both
<1>2. Kept(b, rated, dry)  BY <1>1, RateStep
<1>3. c.stop \in StopBits => Kept(rated, stopped, dry)  BY <1>2, StopStep DEF Kept
<1>4. c.stop \in StopBits /\ c.bits \in {7, 8} => Kept(stopped, sized, dry)
  BY <1>3, BitsStep DEF Kept
<1>5. c.stop \in StopBits /\ (c.bits \in {7, 8} \/ c.parity = "none") /\ c.parity \in Parities
        => /\ Kept(stopped, SetParity(sized, c, dry), dry)
           /\ ~dry => SetParity(sized, c, dry).usart.m
                        = NinthBit(SetParity(sized, c, dry).stored)
  BY <1>3, ParityStep DEF Kept
<1>6. "none" \in Parities  BY DEF Parities
<1> HIDE DEF b, rated, stopped, sized
<1>7. \/ c.stop \notin StopBits
         /\ set_line_coding(b, c, dry) = [ok |-> FALSE, now |-> rated]
      \/ c.stop \in StopBits /\ c.bits \notin {7, 8} /\ c.parity # "none"
         /\ set_line_coding(b, c, dry) = [ok |-> FALSE, now |-> stopped]
      \/ c.stop \in StopBits /\ c.bits \in {7, 8} /\ c.parity \notin Parities
         /\ set_line_coding(b, c, dry) = [ok |-> FALSE, now |-> sized]
      \/ c.stop \in StopBits /\ (c.bits \in {7, 8} \/ c.parity = "none") /\ c.parity \in Parities
         /\ set_line_coding(b, c, dry) = [ok |-> TRUE, now |-> SetParity(sized, c, dry)]
  BY <1>6 DEF set_line_coding, rated, stopped, sized
<1>8. Kept(b, set_line_coding(b, c, dry).now, dry)
  <2>1. \A v, w : Kept(b, v, dry) /\ Kept(v, w, dry) => Kept(b, w, dry)
    BY DEF Kept
  <2>2. CASE c.stop \notin StopBits
    BY <1>2, <1>7, <2>2
  <2>3. CASE c.stop \in StopBits /\ c.bits \notin {7, 8} /\ c.parity # "none"
    BY <1>2, <1>3, <1>7, <2>1, <2>3
  <2>4. CASE c.stop \in StopBits /\ c.bits \in {7, 8} /\ c.parity \notin Parities
    <3>1. Kept(b, stopped, dry)  BY <1>2, <1>3, <2>1, <2>4
    <3> QED  BY <1>4, <1>7, <2>1, <2>4, <3>1
  <2>5. CASE c.stop \in StopBits /\ (c.bits \in {7, 8} \/ c.parity = "none") /\ c.parity \in Parities
    <3>1. Kept(b, stopped, dry)  BY <1>2, <1>3, <2>1, <2>5
    <3> QED  BY <1>5, <1>7, <2>1, <2>5, <3>1
  <2> QED  BY <1>7, <2>2, <2>3, <2>4, <2>5
<1>9. set_line_coding(b, c, dry).ok /\ ~dry
         => set_line_coding(b, c, dry).now.usart.m
              = NinthBit(set_line_coding(b, c, dry).now.stored)
  BY <1>5, <1>7
<1> QED  BY <1>8, <1>9 DEF b

\* What is stored is accepted, and applying it writes all of the registers.
LEMMA Reapplied ==
  ASSUME NEW s, Settable(s), NEW u \in Registers
  PROVE  LET now == set_line_coding(Both(s, u), s, FALSE).now
         IN  /\ now.stored = s /\ now.usart \in Registers
             /\ Says(now.usart, s) /\ now.usart.m = NinthBit(s)
<1> DEFINE v == [brr |-> Brr(s.rate), stop |-> StopCode(s.stop), m |-> NinthBit(s),
                 pce |-> s.parity # "none", ps |-> s.parity = "odd"]
<1>1. s.rate # 0 /\ s.stop \in StopBits /\ s.parity \in Parities
      /\ (s.bits \in {7, 8} \/ s.parity = "none")
  BY DEF Settable, Settings
<1>2. Brr(s.rate) \in 0..BrrSize - 1 /\ StopCode(s.stop) \in 0..3
  BY <1>1, BrrFits DEF Settable, Settings, StopCode, StopBits
<1>3. v \in Registers  BY <1>2 DEF Registers, NinthBit
<1>4. set_line_coding(Both(s, u), s, FALSE).now = Both(s, v)
  <2>1. SetRate(Both(s, u), s, FALSE) = Both(s, [u EXCEPT !.brr = Brr(s.rate)])
    BY <1>1 DEF SetRate, Both, Settable, Settings
  <2>2. SetStop(Both(s, [u EXCEPT !.brr = Brr(s.rate)]), s, FALSE)
          = Both(s, [u EXCEPT !.brr = Brr(s.rate), !.stop = StopCode(s.stop)])
    BY DEF SetStop, Both, Settable, Settings, Registers
  <2>3. \A w : SetBits(Both(s, w), s) = Both(s, w)
    BY DEF SetBits, Both, Settable, Settings
  <2>4. SetParity(Both(s, [u EXCEPT !.brr = Brr(s.rate), !.stop = StopCode(s.stop)]), s, FALSE)
          = Both(s, v)
    BY DEF SetParity, Both, Settable, Settings, Registers
  <2> QED  BY <1>1, <2>1, <2>2, <2>3, <2>4 DEF set_line_coding
<1>5. v.m = NinthBit(s) /\ Says(v, s)  BY DEF Says
<1> HIDE DEF v
<1>6. set_line_coding(Both(s, u), s, FALSE).now.stored = s
      /\ set_line_coding(Both(s, u), s, FALSE).now.usart = v
  <2>1. Both(s, v).stored = s /\ Both(s, v).usart = v  BY DEF Both
  <2> QED  BY <1>4, <2>1
<1> QED  BY <1>3, <1>5, <1>6

\* The default coding is in the registers after a reset.
LEMMA AfterResetFits ==
  /\ Settable(AfterReset.stored) /\ AfterReset.usart \in Registers
  /\ Says(AfterReset.usart, AfterReset.stored)
  /\ AfterReset.usart.m = NinthBit(AfterReset.stored)
<1> DEFINE u == [brr |-> 0, stop |-> 0, m |-> FALSE, pce |-> FALSE, ps |-> FALSE]
<1>1. Settable(Default)
  BY RateAssumption DEF Default, Settable, Settings, StopBits, Parities
<1>2. u \in Registers  BY RateAssumption DEF Registers
<1>3. AfterReset = set_line_coding(Both(Default, u), Default, FALSE).now  BY DEF AfterReset
<1> HIDE DEF u
<1> QED  BY <1>1, <1>2, <1>3, Reapplied, ZenonT(60)

\* A coding that can be applied is one of the codings.
LEMMA SettableTyped ==
  ASSUME NEW s, Settable(s)
  PROVE  s \in Codings /\ s.stop # "other" /\ s.parity # "mark" /\ s.rate # 0
  BY DEF Settable, Settings, Codings, StopBits, Parities

-----------------------------------------------------------------------------
(* The invariant                                                            *)

\* Requests, the poll and the end of the data keep the invariant.
LEMMA CodingStep == ASSUME CodingInv, [CodingNext]_coding_vars PROVE CodingInv'
<1> USE DEF CodingInv
<1>1. ASSUME NEW c \in Codings, SetLineCoding(c) PROVE CodingInv'
  <2> DEFINE dry  == test = "filled"
             done == set_line_coding(Both(stored, usart), c, dry)
  <2>1. Kept(Both(stored, usart), done.now, dry)
        /\ (done.ok /\ ~dry => done.now.usart.m = NinthBit(done.now.stored))
    BY Request DEF CodingTypeOK, Registers
  <2>2. stored' = done.now.stored /\ usart' = done.now.usart
        /\ pending' = (pending \/ dry) /\ notify' = (notify \/ (done.ok /\ ~dry))
        /\ answer' = (IF done.ok THEN "ack" ELSE "stall")
        /\ test' = "none" /\ UNCHANGED <<ready, busy>>
    BY <1>1 DEF SetLineCoding, Defer
  <2> HIDE DEF done, dry
  <2>3. Settable(stored') /\ usart' \in Registers  BY <2>1, <2>2 DEF Kept, Good
  <2>4. CodingTypeOK'
    <3>1. {pending', notify'} \subseteq BOOLEAN  BY <2>2 DEF CodingTypeOK, dry
    <3> QED  BY <2>2, <2>3, <3>1, SettableTyped DEF CodingTypeOK, Registers
  <2>5. ~pending' => Says(usart', stored')
    BY <2>1, <2>2 DEF Kept, Both, CodingTypeOK
  <2>6. ~pending' /\ answer' = "ack" => usart'.m = NinthBit(stored')
    BY <2>1, <2>2 DEF CodingTypeOK
  <2> QED  BY <2>3, <2>4, <2>5, <2>6
<1>2. CASE WrongLength
  BY <1>2 DEF WrongLength, CodingTypeOK
<1>3. CASE CodingReset
  BY <1>3, AfterResetFits, SettableTyped DEF CodingReset, CodingTypeOK, Registers
<1>4. CASE Notify
  BY <1>4 DEF Notify, CodingTypeOK
<1>5. CASE PollReady
  <2>1. usart \in Registers  BY DEF CodingTypeOK, Registers
  <2>2. Apply.stored = stored /\ Apply.usart \in Registers /\ Says(Apply.usart, stored)
        /\ Apply.usart.m = NinthBit(stored)
    BY <2>1, Reapplied DEF Apply
  <2> QED  BY <1>5, <2>2 DEF PollReady, CodingTypeOK, Registers
<1>6. CASE Receive
  BY <1>6 DEF Receive, CodingTypeOK
<1>7. CASE CodingTxComplete
  BY <1>7 DEF CodingTxComplete, Told, CodingTypeOK
<1>8. CASE TestCount
  BY <1>8 DEF TestCount, CodingTypeOK
<1>9. CASE UNCHANGED coding_vars
  BY <1>9 DEF coding_vars, CodingTypeOK
<1> QED  BY <1>1, <1>2, <1>3, <1>4, <1>5, <1>6, <1>7, <1>8, <1>9 DEF CodingNext

\* What the registers mean on the wire
LEMMA CodingOnWire == CodingInv => WireFormat
<1> SUFFICES ASSUME CodingInv, ~pending PROVE WireFormat
  BY DEF WireFormat
<1>1. Settable(stored) /\ Says(usart, stored)
      /\ (answer = "ack" => usart.m = NinthBit(stored))
  BY DEF CodingInv
<1>2. stored.stop \in StopBits /\ stored.parity \in Parities
      /\ stored.rate \in Rates /\ stored.rate # 0
  BY <1>1 DEF Settable, Settings
<1>3. FrameStop(usart) = stored.stop
  BY <1>1, <1>2 DEF FrameStop, StopCode, Says, StopBits
<1>4. FrameParity(usart) = stored.parity
  BY <1>1, <1>2 DEF FrameParity, Says, Parities
<1>5. Fck \div stored.rate < BrrSize => RateIs(usart, stored.rate)
  BY <1>1, <1>2, Quotient DEF RateIs, Says
<1>6. answer = "ack" /\ (stored.bits = 8 \/ (stored.bits = 7 /\ stored.parity # "none"))
        => FrameBits(usart) = stored.bits
  <2>1. usart.m \in BOOLEAN /\ usart.pce \in BOOLEAN  BY DEF CodingInv, CodingTypeOK
  <2>2. CASE stored.parity = "none"
    <3>1. ~usart.pce /\ (answer = "ack" => ~usart.m)
      BY <1>1, <2>2 DEF Says, NinthBit
    <3> QED  BY <2>1, <2>2, <3>1 DEF FrameBits
  <2>3. CASE stored.parity # "none"
    <3>1. usart.pce /\ (answer = "ack" => usart.m = (stored.bits = 8))
      BY <1>1, <2>1, <2>3 DEF Says, NinthBit
    <3> QED  BY <2>1, <2>3, <3>1 DEF FrameBits
  <2> QED  BY <2>2, <2>3
<1> QED  BY <1>3, <1>4, <1>5, <1>6 DEF WireFormat

\* The invariant holds from the first reset on.
LEMMA CodingInvariant == CodingSpec => []CodingInv
<1>1. CodingInit => CodingInv
  BY AfterResetFits, SettableTyped DEF CodingInit, CodingInv, CodingTypeOK, Registers
<1> QED  BY <1>1, CodingStep, PTL DEF CodingSpec

\* What is stored is always a coding that applying it accepts, although a
\* refused request stores a part of itself (usb_cdc.c:279, 283, 285, 310).
THEOREM CodingTypeCorrect == CodingSpec => []CodingTypeOK
<1>1. CodingInv => CodingTypeOK  BY DEF CodingInv
<1> QED  BY <1>1, CodingInvariant, PTL

\* While nothing is pending the coding reported is the one on the wire,
\* whatever was asked for and refused before (usb_cdc.c:250-317, 708-765).
THEOREM ReportedIsUsed == CodingSpec => []WireFormat
<1> QED  BY CodingOnWire, CodingInvariant, PTL

-----------------------------------------------------------------------------
(* Circular buffers: what lies from one index on, as a sequence.            *)

LEMMA RemainderOfDifference ==
  ASSUME NEW size \in Nat \ {0}, NEW a \in 0..(size - 1), NEW b \in 0..(size - 1)
  PROVE  (a - b) % size = IF a >= b THEN a - b ELSE a - b + size
<1>1. CASE a >= b
  <2>1. a - b \in Int /\ 0 <= a - b /\ a - b < size  BY <1>1, SMT
  <2>2. (a - b) % size = a - b  BY <2>1, SMT
  <2> QED  BY <1>1, <2>2
<1>2. CASE a < b
  <2>1. a - b \in Int /\ -size <= a - b /\ a - b < 0  BY <1>2, SMT
  <2>2. (a - b) % size = a - b + size  BY <2>1, SMT
  <2> QED  BY <1>2, <2>2, SMT
<1> QED  BY <1>1, <1>2, SMT

LEMMA RemainderOfSum ==
  ASSUME NEW size \in Nat \ {0}, NEW a \in 0..(size - 1), NEW n \in 0..size
  PROVE  (a + n) % size = IF a + n < size THEN a + n ELSE a + n - size
<1>1. CASE a + n < size
  <2>1. (a + n) % size = a + n  BY <1>1, SMT
  <2> QED  BY <1>1, <2>1
<1>2. CASE a + n >= size
  <2>1. a + n \in Int /\ size <= a + n /\ a + n < 2 * size  BY <1>2, SMT
  <2>2. (a + n) % size = a + n - size  BY <2>1, SMT
  <2> QED  BY <1>2, <2>2, SMT
<1> QED  BY <1>1, <1>2, SMT

LEMMA Sizes ==
  /\ Size \in Nat \ {0} /\ Packet \in Nat \ {0} /\ Packet < Size
  /\ 0 \in Index /\ 1 \in 0..Size
  /\ MaxOut \in Nat /\ MaxIn \in Nat
  BY SizeAssumption, SMT DEF Index

\* How far index i is from another one, in the direction of the buffer
Dist(i, from) == circ_buf_count(i, from, Size)

LEMMA DistCases ==
  ASSUME NEW i \in Index, NEW from \in Index
  PROVE  /\ Dist(i, from) = IF i >= from THEN i - from ELSE i - from + Size
         /\ Dist(i, from) \in Index
<1>1. Dist(i, from) = IF i >= from THEN i - from ELSE i - from + Size
  BY Sizes, RemainderOfDifference DEF Dist, circ_buf_count, Index
<1> QED  BY <1>1, Sizes, SMT DEF Index

LEMMA AdvanceCases ==
  ASSUME NEW i \in Index, NEW n \in 0..Size
  PROVE  /\ Advance(i, n, Size) = IF i + n < Size THEN i + n ELSE i + n - Size
         /\ Advance(i, n, Size) \in Index
<1>1. Advance(i, n, Size) = IF i + n < Size THEN i + n ELSE i + n - Size
  BY Sizes, RemainderOfSum DEF Advance, Index
<1> QED  BY <1>1, Sizes, SMT DEF Index

LEMMA SpaceLeft ==
  ASSUME NEW h \in Index, NEW t \in Index
  PROVE  circ_buf_space(h, t, Size) = Size - 1 - Dist(h, t)
<1>1. CASE t > h
  <2>1. t - (h + 1) \in Int /\ 0 <= t - (h + 1) /\ t - (h + 1) < Size
    BY <1>1, Sizes, SMT DEF Index
  <2>2. (t - (h + 1)) % Size = t - (h + 1)  BY <2>1, Sizes, SMT
  <2> QED  BY <1>1, <2>2, DistCases, Sizes, SMT DEF circ_buf_space, circ_buf_count, Index
<1>2. CASE t <= h
  <2>1. t - (h + 1) \in Int /\ -Size <= t - (h + 1) /\ t - (h + 1) < 0
    BY <1>2, Sizes, SMT DEF Index
  <2>2. (t - (h + 1)) % Size = t - (h + 1) + Size  BY <2>1, Sizes, SMT
  <2> QED  BY <1>2, <2>2, DistCases, Sizes, SMT DEF circ_buf_space, circ_buf_count, Index
<1> QED  BY <1>1, <1>2, SMT DEF Index

\* What start_tx hands to the channel: all of the content up to the array's end
LEMMA Chunk ==
  ASSUME NEW h \in Index, NEW t \in Index
  PROVE  /\ circ_buf_count_to_end(h, t, Size) \in Index
         /\ circ_buf_count_to_end(h, t, Size) <= Dist(h, t)
         /\ circ_buf_count_to_end(h, t, Size) = 0 <=> Dist(h, t) = 0
<1> DEFINE n == (h + (Size - t)) % Size
<1>1. Size - t \in 0..Size  BY Sizes, SMT DEF Index
<1>2. n = IF h + (Size - t) < Size THEN h + (Size - t) ELSE h + (Size - t) - Size
  BY <1>1, Sizes, RemainderOfSum DEF Index
<1> HIDE DEF n
<1>0. /\ Dist(h, t) = IF h >= t THEN h - t ELSE h - t + Size
      /\ Dist(h, t) \in Index
  BY DistCases
<1>3. n = Dist(h, t)  BY <1>0, <1>2, Sizes, SMT DEF Index
<1>4. circ_buf_count_to_end(h, t, Size)
        = IF Dist(h, t) < Size - t THEN Dist(h, t) ELSE Size - t
  BY <1>3 DEF circ_buf_count_to_end, n
<1>5. Size - t > 0 /\ Size - t \in Int  BY Sizes, SMT DEF Index
<1> QED  BY <1>0, <1>4, <1>5, Sizes, SMT DEF Index

\* Moving one of two indices changes their distance by as much.
LEMMA DistAhead ==
  ASSUME NEW i \in Index, NEW from \in Index, NEW n \in 0..Size, Dist(i, from) + n < Size
  PROVE  /\ Advance(i, n, Size) \in Index
         /\ Dist(Advance(i, n, Size), from) = Dist(i, from) + n
<1> DEFINE j == Advance(i, n, Size)
<1>1. j = (IF i + n < Size THEN i + n ELSE i + n - Size) /\ j \in Index  BY AdvanceCases
<1> HIDE DEF j
<1>2. Dist(i, from) = IF i >= from THEN i - from ELSE i - from + Size  BY DistCases
<1>3. Dist(j, from) = IF j >= from THEN j - from ELSE j - from + Size  BY <1>1, DistCases
<1>4. Dist(j, from) = Dist(i, from) + n  BY <1>1, <1>2, <1>3, Sizes, SMT DEF Index
<1> QED  BY <1>1, <1>4 DEF j

LEMMA DistBehind ==
  ASSUME NEW i \in Index, NEW from \in Index, NEW n \in 0..Dist(i, from)
  PROVE  /\ Advance(from, n, Size) \in Index
         /\ Dist(i, Advance(from, n, Size)) = Dist(i, from) - n
<1> DEFINE j == Advance(from, n, Size)
<1>0. n \in 0..Size  BY DistCases, Sizes, SMT DEF Index
<1>1. j = (IF from + n < Size THEN from + n ELSE from + n - Size) /\ j \in Index
  BY <1>0, AdvanceCases
<1> HIDE DEF j
<1>2. Dist(i, from) = IF i >= from THEN i - from ELSE i - from + Size  BY DistCases
<1>3. Dist(i, j) = IF i >= j THEN i - j ELSE i - j + Size  BY <1>1, DistCases
<1>4. Dist(i, j) = Dist(i, from) - n  BY <1>1, <1>2, <1>3, Sizes, SMT DEF Index
<1> QED  BY <1>1, <1>4 DEF j

\* The bytes of queue lie in mem from an index on.
Stretch(mem, from, queue) ==
  \A i \in Index : Dist(i, from) < Len(queue) => mem[i] = queue[Dist(i, from) + 1]

\* mem with bytes stored from head on
Overlaid(mem, head, bytes) ==
  [i \in Index |-> LET k == Dist(i, head) + 1
                   IN  IF k <= Len(bytes) THEN bytes[k] ELSE mem[i]]

LEMMA StretchLonger ==
  ASSUME NEW S, NEW mem, NEW from \in Index, NEW head \in Index,
         NEW queue \in Seq(S), NEW bytes \in Seq(S),
         Stretch(mem, from, queue), Dist(head, from) = Len(queue),
         Len(queue) + Len(bytes) < Size
  PROVE  /\ Stretch(Overlaid(mem, head, bytes), from, queue \o bytes)
         /\ Advance(head, Len(bytes), Size) \in Index
         /\ Dist(Advance(head, Len(bytes), Size), from) = Len(queue) + Len(bytes)
<1>1. Len(queue) \in Nat /\ Len(bytes) \in Nat  OBVIOUS
<1>2. /\ Advance(head, Len(bytes), Size) \in Index
      /\ Dist(Advance(head, Len(bytes), Size), from) = Len(queue) + Len(bytes)
  <2>1. Len(bytes) \in 0..Size  BY <1>1, Sizes, SMT
  <2>2. Dist(head, from) + Len(bytes) < Size  OBVIOUS
  <2> QED  BY <2>1, <2>2, DistAhead, ZenonT(60)
<1>3. ASSUME NEW i \in Index, Dist(i, from) < Len(queue \o bytes)
      PROVE  Overlaid(mem, head, bytes)[i] = (queue \o bytes)[Dist(i, from) + 1]
  <2> DEFINE d == Dist(i, from)
             e == Dist(i, head)
  <2>1. d = (IF i >= from THEN i - from ELSE i - from + Size) /\ d \in Index  BY DistCases
  <2>2. e = (IF i >= head THEN i - head ELSE i - head + Size) /\ e \in Index  BY DistCases
  <2>3. Len(queue) = IF head >= from THEN head - from ELSE head - from + Size  BY DistCases
  <2>4. d < Len(queue) + Len(bytes)  BY <1>3
  <2>5. Overlaid(mem, head, bytes)[i] = IF e + 1 <= Len(bytes) THEN bytes[e + 1] ELSE mem[i]
    BY DEF Overlaid
  <2>6. mem[i] = queue[d + 1] \/ ~(d < Len(queue))  BY DEF Stretch
  <2> HIDE DEF d, e
  <2>7. CASE d < Len(queue)
    <3>1. ~(e + 1 <= Len(bytes))  BY <1>1, <2>1, <2>2, <2>3, <2>7, Sizes, SMT DEF Index
    <3>2. d + 1 \in 1..Len(queue)  BY <1>1, <2>1, <2>7, SMT DEF Index
    <3>3. (queue \o bytes)[d + 1] = queue[d + 1]  BY <3>2, <1>1, SMT
    <3> QED  BY <2>5, <2>6, <2>7, <3>1, <3>3 DEF d
  <2>8. CASE ~(d < Len(queue))
    <3>1. e = d - Len(queue)  BY <1>1, <2>1, <2>2, <2>3, <2>8, Sizes, SMT DEF Index
    <3>2. e + 1 <= Len(bytes) /\ e + 1 = (d + 1) - Len(queue)
      BY <1>1, <2>1, <2>4, <2>8, <3>1, SMT DEF Index
    <3>3. d + 1 \in 1..Len(queue) + Len(bytes) /\ d + 1 > Len(queue)
      BY <1>1, <2>1, <2>4, <2>8, SMT DEF Index
    <3>4. (queue \o bytes)[d + 1] = bytes[(d + 1) - Len(queue)]
      <4>1. \A k \in 1..Len(queue) + Len(bytes) :
              (queue \o bytes)[k] = IF k <= Len(queue) THEN queue[k] ELSE bytes[k - Len(queue)]
        BY ConcatProperties
      <4>2. ~(d + 1 <= Len(queue))  BY <1>1, <2>1, <3>3, SMT DEF Index
      <4> QED  BY <3>3, <4>1, <4>2
    <3> QED  BY <2>5, <3>2, <3>4 DEF d
  <2> QED  BY <2>7, <2>8
<1> QED  BY <1>2, <1>3 DEF Stretch

LEMMA StretchShorter ==
  ASSUME NEW S, NEW mem, NEW from \in Index, NEW queue \in Seq(S), NEW n \in 0..Len(queue),
         Stretch(mem, from, queue), Len(queue) < Size
  PROVE  /\ Stretch(mem, Advance(from, n, Size), SubSeq(queue, n + 1, Len(queue)))
         /\ Advance(from, n, Size) \in Index
         /\ Len(SubSeq(queue, n + 1, Len(queue))) = Len(queue) - n
         /\ SubSeq(queue, n + 1, Len(queue)) \in Seq(S)
<1> DEFINE rest == SubSeq(queue, n + 1, Len(queue))
           to   == Advance(from, n, Size)
<1>1. Len(queue) \in Nat  OBVIOUS
<1>2. n \in 0..Size  BY <1>1, Sizes, SMT
<1>3. to = (IF from + n < Size THEN from + n ELSE from + n - Size) /\ to \in Index
  BY <1>2, AdvanceCases
<1>4. /\ rest \in Seq(S) /\ Len(rest) = Len(queue) - n
      /\ \A k \in 1..Len(rest) : rest[k] = queue[n + k]
  <2>1. n + 1 \in Int /\ Len(queue) \in Int  BY <1>1, SMT
  <2>2. \A i \in n + 1..Len(queue) : queue[i] \in S  BY <1>1, ElementOfSeq, SMT
  <2>3. /\ rest \in Seq(S)
        /\ Len(rest) = IF n + 1 <= Len(queue) THEN Len(queue) - (n + 1) + 1 ELSE 0
        /\ \A i \in 1..Len(queue) - (n + 1) + 1 : rest[i] = queue[n + 1 + i - 1]
    BY <2>1, <2>2, SubSeqProperties
  <2> HIDE DEF rest
  <2>4. Len(rest) = Len(queue) - n  BY <1>1, <2>3, SMT
  <2>5. ASSUME NEW k \in 1..Len(rest) PROVE rest[k] = queue[n + k]
    <3>1. k \in 1..Len(queue) - (n + 1) + 1 /\ n + 1 + k - 1 = n + k  BY <1>1, <2>4, SMT
    <3> QED  BY <2>3, <3>1
  <2> QED  BY <2>3, <2>4, <2>5
<1> HIDE DEF rest, to
<1>5. ASSUME NEW i \in Index, Dist(i, to) < Len(rest)
      PROVE  mem[i] = rest[Dist(i, to) + 1]
  <2> DEFINE d == Dist(i, from)
             e == Dist(i, to)
  <2>1. d = (IF i >= from THEN i - from ELSE i - from + Size) /\ d \in Index  BY DistCases
  <2>2. e = (IF i >= to THEN i - to ELSE i - to + Size) /\ e \in Index  BY <1>3, DistCases
  <2>3. e < Len(queue) - n  BY <1>4, <1>5
  <2>4. d < Len(queue) => mem[i] = queue[d + 1]  BY DEF Stretch
  <2>5. e + 1 \in 1..Len(rest) => rest[e + 1] = queue[n + (e + 1)]  BY <1>4
  <2> HIDE DEF d, e
  <2>6. d = e + n  BY <1>1, <1>3, <2>1, <2>2, <2>3, Sizes, SMT DEF Index
  <2>7. d < Len(queue) /\ e + 1 \in 1..Len(rest) /\ d + 1 = n + (e + 1)
    BY <1>1, <1>4, <2>2, <2>3, <2>6, SMTT(30) DEF Index
  <2> QED  BY <2>4, <2>5, <2>7 DEF e
<1> QED  BY <1>3, <1>4, <1>5 DEF Stretch, rest, to

\* The oldest bytes of a buffer are the first ones of what lies in it.
LEMMA OldestFirst ==
  ASSUME NEW S, NEW b, b.tail \in Index, NEW queue \in Seq(S), NEW n \in 0..Len(queue),
         Stretch(b.mem, b.tail, queue), Len(queue) < Size
  PROVE  /\ Oldest(b, n) = SubSeq(queue, 1, n)
         /\ Oldest(b, n) \in Seq(S) /\ Len(Oldest(b, n)) = n
         /\ IsPrefix(Oldest(b, n), queue)
<1>1. Len(queue) \in Nat /\ n \in Nat  BY SMT
<1>2. /\ SubSeq(queue, 1, n) \in Seq(S) /\ Len(SubSeq(queue, 1, n)) = n
      /\ \A k \in 1..n : SubSeq(queue, 1, n)[k] = queue[k]
  <2>1. 1 \in Int /\ n \in Int  BY <1>1, SMT
  <2>2. \A i \in 1..n : queue[i] \in S  BY <1>1, ElementOfSeq, SMT
  <2>3. /\ SubSeq(queue, 1, n) \in Seq(S)
        /\ Len(SubSeq(queue, 1, n)) = IF 1 <= n THEN n - 1 + 1 ELSE 0
        /\ \A i \in 1..n - 1 + 1 : SubSeq(queue, 1, n)[i] = queue[1 + i - 1]
    BY <2>1, <2>2, SubSeqProperties
  <2>4. Len(SubSeq(queue, 1, n)) = n  BY <1>1, <2>3, SMT
  <2>5. ASSUME NEW k \in 1..n PROVE SubSeq(queue, 1, n)[k] = queue[k]
    <3>1. k \in 1..n - 1 + 1 /\ 1 + k - 1 = k  BY <1>1, SMT
    <3> QED  BY <2>3, <3>1
  <2> QED  BY <2>3, <2>4, <2>5
<1>3. ASSUME NEW k \in 1..n PROVE b.mem[Advance(b.tail, k - 1, Size)] = queue[k]
  <2> DEFINE i == Advance(b.tail, k - 1, Size)
  <2>1. k - 1 \in 0..Size /\ k - 1 < Len(queue) /\ k - 1 + 1 = k /\ 0 + (k - 1) < Size
    BY <1>1, Sizes, SMT
  <2>2. Dist(b.tail, b.tail) = 0  BY DistCases, SMT DEF Index
  <2>3. i \in Index /\ Dist(i, b.tail) = Dist(b.tail, b.tail) + (k - 1)
    BY <2>1, <2>2, DistAhead
  <2>4. Dist(i, b.tail) = k - 1  BY <2>1, <2>2, <2>3, SMT
  <2> HIDE DEF i
  <2>5. b.mem[i] = queue[Dist(i, b.tail) + 1]  BY <2>1, <2>3, <2>4 DEF Stretch
  <2> QED  BY <2>1, <2>4, <2>5 DEF i
<1>4. Oldest(b, n) = [k \in 1..n |-> queue[k]]  BY <1>3 DEF Oldest
<1>5. SubSeq(queue, 1, n) = [k \in 1..n |-> queue[k]]
  <2>1. DOMAIN SubSeq(queue, 1, n) = 1..n  BY <1>2, LenProperties
  <2>2. SubSeq(queue, 1, n) = [k \in DOMAIN SubSeq(queue, 1, n) |-> SubSeq(queue, 1, n)[k]]
    BY <1>2, LenProperties
  <2> QED  BY <1>2, <2>1, <2>2
<1>6. Oldest(b, n) = SubSeq(queue, 1, n)  BY <1>4, <1>5
<1>7. IsPrefix(Oldest(b, n), queue)
  <2>1. SubSeq(SubSeq(queue, 1, n), 1, n) = SubSeq(queue, 1, n)
    BY <1>2, SubSeqFull
  <2> QED  BY <1>1, <1>2, <1>6, <2>1, SMT DEF IsPrefix
<1> QED  BY <1>2, <1>6, <1>7

-----------------------------------------------------------------------------
(* Types                                                                    *)

TxRecord == [head: Index, tail: Index, mem: [Index -> 0..MaxOut], last: Index,
             en: BOOLEAN, src: Index, left: 0..Size, txa: BOOLEAN]
RxRecord == [head: Index, tail: Index, mem: [Index -> 0..MaxIn], at: Index,
             en: BOOLEAN, re: BOOLEAN]
Outgoing == Seq(1..MaxOut)
Incoming == Seq(1..MaxIn)
Counted  == used \in [out: 0..MaxOut, in: 0..MaxIn, pin: 0..MaxSwitches, restart: 0..MaxRestarts]

\* In configuration mode the channel works only on what had been put off.
Resumed == config /\ tx.en => ~put_off

Types == TypeOK /\ Counted

LEMMA Fields ==
  ASSUME TypeOK
  PROVE  /\ tx \in TxRecord /\ rx \in RxRecord
         /\ {put_off, enabled, config, full} \subseteq BOOLEAN
         /\ pc \in {"event", "enter", "sync", "send", "deferred", "panic"}
         /\ out.bytes \in Outgoing /\ out.arrived \in BOOLEAN /\ Len(out.bytes) <= Packet
         /\ put_off => out.bytes # << >> /\ ~out.arrived
         /\ due.wire \in Outgoing /\ due.host \in Incoming
         /\ due = [wire |-> due.wire, host |-> due.host]
         /\ out = [bytes |-> out.bytes, arrived |-> out.arrived]
         /\ wrong \subseteq {"wire", "host", "shell"}
  BY DEF TypeOK, TxRecord, RxRecord, Outgoing, Incoming

LEMMA AdvanceType == ASSUME NEW i \in Index, NEW n \in Nat PROVE Advance(i, n, Size) \in Index
<1>1. i + n \in Int  BY SMT DEF Index
<1> QED  BY <1>1, Sizes, SMT DEF Advance, Index

\* usb_circ_buf_read, field by field
LEMMA StoredTx ==
  ASSUME NEW t \in TxRecord, NEW bytes \in Outgoing
  PROVE  /\ Stored(t, bytes) = [t EXCEPT !.head = Advance(t.head, Len(bytes), Size),
                                         !.mem = Overlaid(t.mem, t.head, bytes)]
         /\ Stored(t, bytes) \in TxRecord
<1>1. Stored(t, bytes) = [t EXCEPT !.head = Advance(t.head, Len(bytes), Size),
                                   !.mem = Overlaid(t.mem, t.head, bytes)]
  BY DEF Stored, Overlaid, Dist, TxRecord
<1>2. Len(bytes) \in Nat /\ \A k \in 1..Len(bytes) : bytes[k] \in 0..MaxOut
  <2>1. bytes \in Seq(1..MaxOut)  BY DEF Outgoing
  <2>2. Len(bytes) \in Nat  BY <2>1
  <2>3. \A k \in 1..Len(bytes) : bytes[k] \in 1..MaxOut  BY <2>1, ElementOfSeq
  <2> QED  BY <2>2, <2>3, SMT
<1>3. Advance(t.head, Len(bytes), Size) \in Index  BY <1>2, AdvanceType DEF TxRecord
<1>4. Overlaid(t.mem, t.head, bytes) \in [Index -> 0..MaxOut]
  <2>1. ASSUME NEW i \in Index
        PROVE  (LET k == Dist(i, t.head) + 1
                IN  IF k <= Len(bytes) THEN bytes[k] ELSE t.mem[i]) \in 0..MaxOut
    <3>0. Dist(i, t.head) \in Index  BY DistCases DEF TxRecord
    <3>1. Dist(i, t.head) + 1 <= Len(bytes) => Dist(i, t.head) + 1 \in 1..Len(bytes)
      BY <1>2, <3>0, SMT DEF Index
    <3>2. t.mem[i] \in 0..MaxOut  BY DEF TxRecord
    <3> QED  BY <1>2, <3>1, <3>2
  <2> QED  BY <2>1 DEF Overlaid
<1> QED  BY <1>1, <1>3, <1>4 DEF TxRecord

LEMMA StoredRx ==
  ASSUME NEW r \in RxRecord, NEW bytes \in Incoming
  PROVE  /\ Stored(r, bytes) = [r EXCEPT !.head = Advance(r.head, Len(bytes), Size),
                                         !.mem = Overlaid(r.mem, r.head, bytes)]
         /\ Stored(r, bytes) \in RxRecord
<1>1. Stored(r, bytes) = [r EXCEPT !.head = Advance(r.head, Len(bytes), Size),
                                   !.mem = Overlaid(r.mem, r.head, bytes)]
  BY DEF Stored, Overlaid, Dist, RxRecord
<1>2. Len(bytes) \in Nat /\ \A k \in 1..Len(bytes) : bytes[k] \in 0..MaxIn
  <2>1. bytes \in Seq(1..MaxIn)  BY DEF Incoming
  <2>2. Len(bytes) \in Nat  BY <2>1
  <2>3. \A k \in 1..Len(bytes) : bytes[k] \in 1..MaxIn  BY <2>1, ElementOfSeq
  <2> QED  BY <2>2, <2>3, SMT
<1>3. Advance(r.head, Len(bytes), Size) \in Index  BY <1>2, AdvanceType DEF RxRecord
<1>4. Overlaid(r.mem, r.head, bytes) \in [Index -> 0..MaxIn]
  <2>1. ASSUME NEW i \in Index
        PROVE  (LET k == Dist(i, r.head) + 1
                IN  IF k <= Len(bytes) THEN bytes[k] ELSE r.mem[i]) \in 0..MaxIn
    <3>0. Dist(i, r.head) \in Index  BY DistCases DEF RxRecord
    <3>1. Dist(i, r.head) + 1 <= Len(bytes) => Dist(i, r.head) + 1 \in 1..Len(bytes)
      BY <1>2, <3>0, SMT DEF Index
    <3>2. r.mem[i] \in 0..MaxIn  BY DEF RxRecord
    <3> QED  BY <1>2, <3>1, <3>2
  <2> QED  BY <2>1 DEF Overlaid
<1> QED  BY <1>1, <1>3, <1>4 DEF RxRecord

\* usb_cdc_port_start_tx
LEMMA StartTxCases ==
  ASSUME NEW t \in TxRecord
  PROVE  LET n == circ_buf_count_to_end(t.head, t.tail, Size)
         IN  /\ StartTx(t) \in TxRecord
             /\ n \in Index /\ n <= Dist(t.head, t.tail) /\ (n = 0 <=> Dist(t.head, t.tail) = 0)
             /\ t.en => StartTx(t) = t
             /\ ~t.en /\ n = 0 => StartTx(t) = [t EXCEPT !.txa = FALSE]
             /\ ~t.en /\ n # 0 => StartTx(t) = [t EXCEPT !.en = TRUE, !.src = t.tail, !.left = n,
                                                         !.last = n, !.txa = TRUE]
<1> DEFINE n == circ_buf_count_to_end(t.head, t.tail, Size)
<1>1. t.head \in Index /\ t.tail \in Index  BY DEF TxRecord
<1>2. n \in Index /\ n <= Dist(t.head, t.tail) /\ (n = 0 <=> Dist(t.head, t.tail) = 0)
  BY <1>1, Chunk
<1>3. n \in 0..Size  BY <1>2, Sizes, SMT DEF Index
<1>4. /\ t.en => StartTx(t) = t
      /\ ~t.en /\ n = 0 => StartTx(t) = [t EXCEPT !.txa = FALSE]
      /\ ~t.en /\ n # 0 => StartTx(t) = [t EXCEPT !.en = TRUE, !.src = t.tail, !.left = n,
                                                  !.last = n, !.txa = TRUE]
  BY DEF StartTx
<1> HIDE DEF n
<1>5. StartTx(t) \in TxRecord  BY <1>1, <1>2, <1>3, <1>4 DEF TxRecord
<1> QED  BY <1>2, <1>4, <1>5 DEF n

LEMMA Cut ==
  ASSUME NEW S, NEW s \in Seq(S), NEW m \in Nat, NEW n \in Nat, 1 <= m, n <= Len(s)
  PROVE  SubSeq(s, m, n) \in Seq(S) /\ Len(SubSeq(s, m, n)) = IF m <= n THEN n - m + 1 ELSE 0
<1>1. \A i \in m..n : s[i] \in S
  <2>1. \A i \in m..n : i \in 1..Len(s)  BY SMT
  <2> QED  BY <2>1, ElementOfSeq
<1> QED  BY <1>1, SubSeqProperties

\* cdc_shell_write: either there is room, or what the buffer holds is given up when
\* it is full.
LEMMA WrittenType ==
  ASSUME NEW r \in RxRecord, NEW queue \in Incoming, NEW bytes \in Incoming
  PROVE  Written(r, queue, bytes).rx \in RxRecord /\ Written(r, queue, bytes).queue \in Incoming
<1> DEFINE room == Space(r)
           part == Stored(r, SubSeq(bytes, 1, room))
           rest == SubSeq(bytes, room + 1, Len(bytes))
<1>1. bytes \in Seq(1..MaxIn) /\ queue \in Seq(1..MaxIn) /\ Len(bytes) \in Nat  BY DEF Incoming
<1>2. room \in Nat
  <2>1. r.head \in Index /\ r.tail \in Index  BY DEF RxRecord
  <2>2. room = Size - 1 - Dist(r.head, r.tail) /\ Dist(r.head, r.tail) \in Index
    BY <2>1, SpaceLeft, DistCases DEF Space
  <2> QED  BY <2>2, Sizes, SMT DEF Index
<1>3. CASE Len(bytes) <= room
  <2>1. Written(r, queue, bytes) = [rx |-> Stored(r, bytes), queue |-> queue \o bytes]
    BY <1>3 DEF Written
  <2>2. queue \o bytes \in Incoming  BY <1>1 DEF Incoming
  <2>3. Stored(r, bytes) \in RxRecord  BY StoredRx
  <2> QED  BY <2>1, <2>2, <2>3
<1>4. CASE ~(Len(bytes) <= room)
  <2>1. Written(r, queue, bytes)
          = [rx |-> Stored([part EXCEPT !.tail = part.head], rest), queue |-> rest]
    BY <1>4 DEF Written
  <2>2. SubSeq(bytes, 1, room) \in Incoming
    <3>1. room <= Len(bytes) /\ 1 \in Nat /\ 1 <= 1  BY <1>1, <1>2, <1>4, SMT
    <3> HIDE DEF room
    <3>2. SubSeq(bytes, 1, room) \in Seq(1..MaxIn)  BY <1>1, <1>2, <3>1, Cut
    <3> QED  BY <3>2 DEF Incoming, room
  <2>3. rest \in Incoming
    <3>1. room + 1 \in Nat /\ 1 <= room + 1  BY <1>2, SMT
    <3> HIDE DEF room
    <3>2. Len(bytes) <= Len(bytes)  BY <1>1, SMT
    <3>3. SubSeq(bytes, room + 1, Len(bytes)) \in Seq(1..MaxIn)  BY <1>1, <3>1, <3>2, Cut
    <3> QED  BY <3>3 DEF Incoming, room
  <2>4. part \in RxRecord  BY <2>2, StoredRx
  <2> HIDE DEF part, rest
  <2>5. [part EXCEPT !.tail = part.head] \in RxRecord  BY <2>4 DEF RxRecord
  <2>6. Stored([part EXCEPT !.tail = part.head], rest) \in RxRecord  BY <2>3, <2>5, StoredRx
  <2> QED  BY <2>1, <2>3, <2>6 DEF part, rest
<1> QED  BY <1>3, <1>4

\* What the shell writes, as far as the bound goes
NewBytes(n) == [k \in 1..(IF used.in + n > MaxIn THEN MaxIn - used.in ELSE n) |-> used.in + k]

LEMMA NewBytesType ==
  ASSUME Counted, NEW n \in Nat
  PROVE  /\ NewBytes(n) \in Incoming /\ Len(NewBytes(n)) <= n
         /\ Len(NewBytes(n)) = IF used.in + n > MaxIn THEN MaxIn - used.in ELSE n
         /\ used.in + Len(NewBytes(n)) \in 0..MaxIn
<1> DEFINE most == IF used.in + n > MaxIn THEN MaxIn - used.in ELSE n
<1>1. used.in \in 0..MaxIn  BY DEF Counted
<1>2. most \in Nat /\ most <= n /\ used.in + most \in 0..MaxIn  BY <1>1, Sizes, SMT
<1>3. \A k \in 1..most : used.in + k \in 1..MaxIn  BY <1>1, <1>2, Sizes, SMT
<1>4. NewBytes(n) = [k \in 1..most |-> used.in + k]  BY DEF NewBytes
<1> HIDE DEF most
<1>5. NewBytes(n) \in Seq(1..MaxIn) /\ Len(NewBytes(n)) = most  BY <1>2, <1>3, <1>4
<1> QED  BY <1>2, <1>5 DEF Incoming, most

LEMMA ShellWriteCases ==
  ASSUME Counted, NEW r, NEW d, NEW n \in Nat, ShellWrite(r, d, n)
  PROVE  /\ rx' = Written(r, d.host, NewBytes(n)).rx
         /\ due' = [d EXCEPT !.host = Written(r, d.host, NewBytes(n)).queue]
         /\ used' = [used EXCEPT !.in = used.in + Len(NewBytes(n))]
         /\ Counted'
<1>1. Len(NewBytes(n)) = IF used.in + n > MaxIn THEN MaxIn - used.in ELSE n  BY NewBytesType
<1>2. used.in + Len(NewBytes(n)) \in 0..MaxIn  BY NewBytesType
<1>3. /\ rx' = Written(r, d.host, NewBytes(n)).rx
      /\ due' = [d EXCEPT !.host = Written(r, d.host, NewBytes(n)).queue]
      /\ used' = [used EXCEPT !.in = used.in + Len(NewBytes(n))]
  BY <1>1 DEF ShellWrite, NewBytes
<1> QED  BY <1>2, <1>3 DEF Counted

\* What is taken is taken off the queue, unless it is wrong.
LEMMA TakenCases ==
  ASSUME NEW S, NEW who, NEW queue \in Seq(S), NEW bytes, Len(bytes) \in Nat
  PROVE  /\ Taken(who, queue, bytes).queue \in Seq(S)
         /\ Taken(who, queue, bytes).wrong \subseteq wrong \cup {who}
         /\ IsPrefix(bytes, queue)
              => /\ Taken(who, queue, bytes).queue = SubSeq(queue, Len(bytes) + 1, Len(queue))
                 /\ Taken(who, queue, bytes).wrong = wrong
<1>1. CASE IsPrefix(bytes, queue)
  <2>1. Taken(who, queue, bytes)
          = [queue |-> SubSeq(queue, Len(bytes) + 1, Len(queue)), wrong |-> wrong]
    BY <1>1 DEF Taken
  <2>2. SubSeq(queue, Len(bytes) + 1, Len(queue)) \in Seq(S)
    <3>1. Len(bytes) + 1 \in Nat /\ Len(queue) \in Nat /\ 1 <= Len(bytes) + 1
          /\ Len(queue) <= Len(queue)
      BY SMT
    <3> QED  BY <3>1, Cut
  <2> QED  BY <2>1, <2>2
<1>2. CASE ~IsPrefix(bytes, queue)
  <2>1. Taken(who, queue, bytes) = [queue |-> queue, wrong |-> wrong \cup {who}]
    BY <1>2 DEF Taken
  <2> QED  BY <1>2, <2>1
<1> QED  BY <1>1, <1>2

LEMMA TypeInit == Init => Types
<1> SUFFICES ASSUME Init PROVE Types
  OBVIOUS
<1>1. [i \in Index |-> 0] \in [Index -> 0..MaxOut] /\ [i \in Index |-> 0] \in [Index -> 0..MaxIn]
      /\ 0 \in 0..Size
  BY Sizes, SMT
<1>2. << >> \in Seq(1..MaxOut) /\ << >> \in Seq(1..MaxIn) /\ Len(<< >>) <= Packet  BY Sizes, SMT
<1>3. Counted  BY SizeAssumption, SMT DEF Init, Counted
<1> QED  BY <1>1, <1>2, <1>3, Sizes DEF Init, Types, TypeOK

\* What each step changes has its type; TypeOK is put together from that.
LEMMA TypesFrom ==
  ASSUME Counted', tx' \in TxRecord, rx' \in RxRecord,
         {put_off', enabled', config', full'} \subseteq BOOLEAN,
         pc' \in {"event", "enter", "sync", "send", "deferred", "panic"},
         out'.bytes \in Outgoing, out'.arrived \in BOOLEAN, Len(out'.bytes) <= Packet,
         out' = [bytes |-> out'.bytes, arrived |-> out'.arrived],
         put_off' => out'.bytes # << >> /\ ~out'.arrived,
         due'.wire \in Outgoing, due'.host \in Incoming,
         due' = [wire |-> due'.wire, host |-> due'.host],
         wrong' \subseteq {"wire", "host", "shell"}
  PROVE  Types'
<1>1. out' \in [bytes: Seq(1..MaxOut), arrived: BOOLEAN]  BY DEF Outgoing
<1>2. due' \in [wire: Seq(1..MaxOut), host: Seq(1..MaxIn)]  BY DEF Outgoing, Incoming
<1> QED  BY <1>1, <1>2 DEF Types, TypeOK, TxRecord, RxRecord

LEMMA NoBytes ==
  ASSUME out' = [bytes |-> << >>, arrived |-> FALSE]
  PROVE  /\ out'.bytes = << >> /\ out'.arrived = FALSE
         /\ out'.bytes \in Outgoing /\ out'.arrived \in BOOLEAN /\ Len(out'.bytes) <= Packet
         /\ out' = [bytes |-> out'.bytes, arrived |-> out'.arrived]
<1>1. << >> \in Outgoing /\ Len(<< >>) <= Packet  BY Sizes, SMT DEF Outgoing
<1> QED  BY <1>1

\* usb_cdc_config_mode_process_tx
LEMMA ProcessTxTypes ==
  ASSUME Types, NEW t \in TxRecord, NEW next \in {"event", "enter", "sync", "send", "deferred"},
         ProcessTx(t, next)
  PROVE  /\ tx' \in TxRecord /\ rx' \in RxRecord /\ pc' \in {next, "panic"}
         /\ Counted' /\ wrong' \subseteq {"wire", "host", "shell"}
         /\ due'.wire \in Outgoing /\ due'.host \in Incoming
         /\ due' = [wire |-> due'.wire, host |-> due'.host]
         /\ out' = [bytes |-> << >>, arrived |-> FALSE] \/ UNCHANGED out
<1> DEFINE read == Stored(t, out.bytes)
           n    == ForShell(read)
<1>0. Fields!2  BY Fields DEF Types
<1>1. read \in TxRecord  BY <1>0, StoredTx
<1>2. n \in Nat
  <2>1. read.head \in Index /\ read.tail \in Index  BY <1>1 DEF TxRecord
  <2>2. Dist(read.head, read.tail) \in Index  BY <2>1, DistCases
  <2> QED  BY <2>2, Sizes, SMT DEF ForShell, Count, Dist, Index
<1>3. CASE Len(out.bytes) < Space(t)
  <2>1. /\ tx' = [read EXCEPT !.tail = Advance(read.tail, n, Size)]
        /\ wrong' = (IF Oldest(read, n) = out.bytes THEN wrong ELSE wrong \cup {"shell"})
        /\ out' = [bytes |-> << >>, arrived |-> FALSE]
        /\ ShellWrite(rx, due, n) /\ pc' = next
    BY <1>3 DEF ProcessTx
  <2> HIDE DEF read, n
  <2>2. Advance(read.tail, n, Size) \in Index  BY <1>1, <1>2, AdvanceType DEF TxRecord
  <2>3. tx' \in TxRecord  BY <1>1, <2>1, <2>2 DEF TxRecord
  <2>4. /\ rx' = Written(rx, due.host, NewBytes(n)).rx /\ Counted'
        /\ due' = [due EXCEPT !.host = Written(rx, due.host, NewBytes(n)).queue]
    BY <1>2, <2>1, ShellWriteCases DEF Types
  <2>5. NewBytes(n) \in Incoming  BY <1>2, NewBytesType DEF Types
  <2>6. /\ Written(rx, due.host, NewBytes(n)).rx \in RxRecord
        /\ Written(rx, due.host, NewBytes(n)).queue \in Incoming
    BY <1>0, <2>5, WrittenType
  <2>7. /\ due'.wire = due.wire /\ due'.host = Written(rx, due.host, NewBytes(n)).queue
        /\ due' = [wire |-> due'.wire, host |-> due'.host]
    BY <1>0, <2>4
  <2> QED  BY <1>0, <2>1, <2>3, <2>4, <2>6, <2>7
<1>4. CASE ~(Len(out.bytes) < Space(t))
  <2>1. pc' = "panic" /\ tx' = t /\ UNCHANGED <<rx, out, due, wrong, used>>
    BY <1>4 DEF ProcessTx
  <2> QED  BY <1>0, <2>1 DEF Types, Counted
<1> QED  BY <1>3, <1>4

\* Bytes for the wire
LEMMA TransmitTypes ==
  ASSUME Types, Transmit
  PROVE  /\ tx' \in TxRecord /\ out' = [bytes |-> << >>, arrived |-> FALSE]
         /\ due'.wire = due.wire \o out.bytes /\ due'.host = due.host
         /\ due'.wire \in Outgoing /\ due'.host \in Incoming
         /\ due' = [wire |-> due'.wire, host |-> due'.host]
<1>0. Fields!2  BY Fields DEF Types
<1>1. Stored(tx, out.bytes) \in TxRecord  BY <1>0, StoredTx
<1>2. tx' \in TxRecord  BY <1>1, StartTxCases DEF Transmit
<1>3. due.wire \o out.bytes \in Outgoing  BY <1>0 DEF Outgoing
<1>4. due' = [due EXCEPT !.wire = due.wire \o out.bytes]  BY DEF Transmit
<1> QED  BY <1>0, <1>2, <1>3, <1>4 DEF Transmit

LEMMA TypesChannels ==
  ASSUME Types, Resumed, Fetch \/ TxComplete \/ Character
  PROVE  Types'
<1>0. Fields!2 /\ Counted  BY Fields DEF Types
<1>1. CASE Fetch
  <2> DEFINE s == Taken("wire", due.wire, <<tx.mem[tx.src]>>)
  <2>1. /\ tx.left > 0 /\ tx' = [tx EXCEPT !.src = Advance(tx.src, 1, Size), !.left = tx.left - 1]
        /\ due' = [due EXCEPT !.wire = s.queue] /\ wrong' = s.wrong
        /\ UNCHANGED <<rx, put_off, enabled, config, pc, out, full, used>>
    BY <1>1 DEF Fetch
  <2>2. s.queue \in Outgoing /\ s.wrong \subseteq wrong \cup {"wire"}
    <3> DEFINE byte == <<tx.mem[tx.src]>>
    <3>1. Len(byte) \in Nat  OBVIOUS
    <3> HIDE DEF byte
    <3>2. due.wire \in Seq(1..MaxOut)  BY <1>0 DEF Outgoing
    <3>3. /\ Taken("wire", due.wire, byte).queue \in Seq(1..MaxOut)
          /\ Taken("wire", due.wire, byte).wrong \subseteq wrong \cup {"wire"}
      BY <3>1, <3>2, TakenCases
    <3> QED  BY <3>3 DEF Outgoing, byte
  <2> HIDE DEF s
  <2>3. Advance(tx.src, 1, Size) \in Index  BY <1>0, AdvanceType DEF TxRecord
  <2>4. tx.left - 1 \in 0..Size  BY <1>0, <2>1, Sizes, SMT DEF TxRecord
  <2>5. tx' \in TxRecord  BY <1>0, <2>1, <2>3, <2>4 DEF TxRecord
  <2>6. /\ due'.wire = s.queue /\ due'.host = due.host
        /\ due' = [wire |-> due'.wire, host |-> due'.host]
    BY <1>0, <2>1
  <2>7. Counted'  BY <1>0, <2>1 DEF Counted
  <2>8. wrong' \subseteq {"wire", "host", "shell"}  BY <1>0, <2>1, <2>2
  <2> QED  BY <1>0, <2>1, <2>2, <2>5, <2>6, <2>7, <2>8, TypesFrom
<1>2. CASE TxComplete
  <2> DEFINE t == [tx EXCEPT !.tail = Advance(tx.tail, tx.last, Size), !.en = FALSE]
             u == [t EXCEPT !.txa = FALSE]
  <2>1. /\ pc # "panic" /\ tx.en /\ UNCHANGED <<put_off, enabled, config, full>>
        /\ \/ tx' = StartTx(t) /\ UNCHANGED <<rx, pc, out, due, wrong, used>>
           \/ config /\ ProcessTx(u, pc)
    BY <1>2 DEF TxComplete, TxDone
  <2>2. Advance(tx.tail, tx.last, Size) \in Index
    <3>1. tx.tail \in Index /\ tx.last \in Nat  BY <1>0, SMT DEF TxRecord, Index
    <3> QED  BY <3>1, AdvanceType
  <2>3. t \in TxRecord /\ u \in TxRecord  BY <1>0, <2>2 DEF TxRecord
  <2> HIDE DEF t, u
  <2>4. CASE tx' = StartTx(t) /\ UNCHANGED <<rx, pc, out, due, wrong, used>>
    <3>1. tx' \in TxRecord  BY <2>3, <2>4, StartTxCases
    <3>2. Counted'  BY <1>0, <2>4 DEF Counted
    <3> QED  BY <1>0, <2>1, <2>4, <3>1, <3>2, TypesFrom
  <2>5. CASE config /\ ProcessTx(u, pc)
    <3>1. pc \in {"event", "enter", "sync", "send", "deferred"}  BY <1>0, <2>1
    <3>2. /\ tx' \in TxRecord /\ rx' \in RxRecord /\ pc' \in {pc, "panic"}
          /\ Counted' /\ wrong' \subseteq {"wire", "host", "shell"}
          /\ due'.wire \in Outgoing /\ due'.host \in Incoming
          /\ due' = [wire |-> due'.wire, host |-> due'.host]
          /\ out' = [bytes |-> << >>, arrived |-> FALSE] \/ UNCHANGED out
      BY <2>3, <2>5, <3>1, ProcessTxTypes
    <3>3. ~put_off  BY <2>1, <2>5 DEF Resumed
    <3> QED  BY <1>0, <2>1, <3>2, <3>3, NoBytes, TypesFrom
  <2> QED  BY <2>1, <2>4, <2>5
<1>3. CASE Character
  <2>1. /\ used.in < MaxIn
        /\ rx' = [rx EXCEPT !.mem[rx.at] = used.in + 1, !.at = Advance(rx.at, 1, Size)]
        /\ used' = [used EXCEPT !.in = used.in + 1]
        /\ due' = due \/ due' = [due EXCEPT !.host = Append(due.host, used.in + 1)]
        /\ UNCHANGED <<tx, put_off, enabled, config, pc, out, full, wrong>>
    BY <1>3 DEF Character
  <2>2. used.in + 1 \in 1..MaxIn /\ used.in + 1 \in 0..MaxIn
    BY <1>0, <2>1, Sizes, SMT DEF Counted
  <2>3. rx' \in RxRecord
    <3>1. rx.at \in Index /\ rx.mem \in [Index -> 0..MaxIn]  BY <1>0 DEF RxRecord
    <3>2. Advance(rx.at, 1, Size) \in Index  BY <3>1, AdvanceType
    <3>3. [rx.mem EXCEPT ![rx.at] = used.in + 1] \in [Index -> 0..MaxIn]  BY <2>2, <3>1
    <3>4. rx' = [rx EXCEPT !.mem = [rx.mem EXCEPT ![rx.at] = used.in + 1],
                           !.at = Advance(rx.at, 1, Size)]
      BY <2>1
    <3> QED  BY <1>0, <3>2, <3>3, <3>4 DEF RxRecord
  <2>4. Append(due.host, used.in + 1) \in Incoming  BY <1>0, <2>2 DEF Incoming
  <2>5. /\ due'.wire \in Outgoing /\ due'.host \in Incoming
        /\ due' = [wire |-> due'.wire, host |-> due'.host]
    BY <1>0, <2>1, <2>4
  <2>6. Counted'  BY <1>0, <2>1, <2>2 DEF Counted
  <2> QED  BY <1>0, <2>1, <2>3, <2>5, <2>6, TypesFrom
<1> QED  BY <1>1, <1>2, <1>3

LEMMA TypesModes ==
  ASSUME Types, Enter \/ Entered \/ Leave \/ Reset \/ Enable
  PROVE  Types'
<1>0. Fields!2 /\ Counted  BY Fields DEF Types
<1>1. ASSUME NEW b \in TxRecord PROVE Rewound(b) \in TxRecord
  BY Sizes DEF Rewound, TxRecord
<1>2. ASSUME NEW b \in RxRecord PROVE Rewound(b) \in RxRecord
  BY Sizes DEF Rewound, RxRecord
<1>3. << >> \in Outgoing /\ << >> \in Incoming  BY DEF Outgoing, Incoming
<1>4. CASE Enter
  <2>1. /\ used.pin < MaxSwitches /\ used' = [used EXCEPT !.pin = used.pin + 1]
        /\ rx' = Rewound(rx) /\ tx' = Rewound(tx) /\ due' = [due EXCEPT !.host = << >>]
        /\ pc' = "enter"
        /\ UNCHANGED <<put_off, enabled, config, out, full, wrong>>
    BY <1>4 DEF Enter, Go
  <2>2. Counted'
    <3>1. used.pin + 1 \in 0..MaxSwitches  BY <1>0, <2>1, SizeAssumption, SMT DEF Counted
    <3> QED  BY <1>0, <2>1, <3>1 DEF Counted
  <2>3. due'.wire = due.wire /\ due'.host = << >> /\ due' = [wire |-> due'.wire, host |-> due'.host]
    BY <1>0, <2>1
  <2>4. tx' \in TxRecord /\ rx' \in RxRecord  BY <1>0, <1>1, <1>2, <2>1
  <2> QED  BY <1>0, <1>3, <2>1, <2>2, <2>3, <2>4, TypesFrom
<1>5. CASE Entered
  <2> DEFINE r == [rx EXCEPT !.re = FALSE]
             d == [due EXCEPT !.wire = << >>]
  <2>1. /\ ShellWrite(r, d, 1) /\ tx' = [tx EXCEPT !.en = FALSE] /\ config' = TRUE /\ pc' = "sync"
        /\ UNCHANGED <<put_off, enabled, out, full, wrong>>
    BY <1>5 DEF Entered, Go
  <2>2. r \in RxRecord  BY <1>0 DEF RxRecord
  <2>3. d.host = due.host /\ d = [wire |-> << >>, host |-> due.host]  BY <1>0
  <2> HIDE DEF r, d
  <2>4. /\ rx' = Written(r, d.host, NewBytes(1)).rx /\ Counted'
        /\ due' = [d EXCEPT !.host = Written(r, d.host, NewBytes(1)).queue]
    BY <1>0, <2>1, ShellWriteCases
  <2>5. NewBytes(1) \in Incoming  BY <1>0, NewBytesType
  <2>6. /\ Written(r, d.host, NewBytes(1)).rx \in RxRecord
        /\ Written(r, d.host, NewBytes(1)).queue \in Incoming
    BY <1>0, <2>2, <2>3, <2>5, WrittenType
  <2>7. /\ due'.wire = << >> /\ due'.host = Written(r, d.host, NewBytes(1)).queue
        /\ due' = [wire |-> due'.wire, host |-> due'.host]
    BY <2>3, <2>4
  <2>8. tx' \in TxRecord  BY <1>0, <2>1 DEF TxRecord
  <2> QED  BY <1>0, <1>3, <2>1, <2>4, <2>6, <2>7, <2>8, TypesFrom
<1>6. CASE Leave
  <2>1. /\ used.pin < MaxSwitches /\ used' = [used EXCEPT !.pin = used.pin + 1]
        /\ rx' = [rx EXCEPT !.head = rx.at, !.tail = rx.at, !.re = TRUE]
        /\ tx' = Rewound(tx) /\ due' = [wire |-> << >>, host |-> << >>]
        /\ config' = FALSE /\ pc' = "sync"
        /\ UNCHANGED <<put_off, enabled, out, full, wrong>>
    BY <1>6 DEF Leave, Go, FromHead
  <2>2. Counted'
    <3>1. used.pin + 1 \in 0..MaxSwitches  BY <1>0, <2>1, SizeAssumption, SMT DEF Counted
    <3> QED  BY <1>0, <2>1, <3>1 DEF Counted
  <2>3. tx' \in TxRecord  BY <1>0, <1>1, <2>1
  <2>4. rx' \in RxRecord  BY <1>0, <2>1 DEF RxRecord
  <2> QED  BY <1>0, <1>3, <2>1, <2>2, <2>3, <2>4, TypesFrom
<1>7. CASE Reset
  <2>1. /\ used.restart < MaxRestarts /\ used' = [used EXCEPT !.restart = used.restart + 1]
        /\ enabled' = FALSE /\ put_off' = FALSE /\ full' = FALSE /\ pc' = "sync"
        /\ tx' = [Zeroed(tx) EXCEPT !.txa = FALSE]
        /\ rx' = [Rewound(rx) EXCEPT !.mem = [i \in Index |-> 0], !.re = FALSE]
        /\ out' = [bytes |-> << >>, arrived |-> FALSE]
        /\ due' = [wire |-> << >>, host |-> << >>]
        /\ UNCHANGED <<config, wrong>>
    BY <1>7 DEF Reset, Go
  <2>2. Counted'
    <3>1. used.restart + 1 \in 0..MaxRestarts  BY <1>0, <2>1, SizeAssumption, SMT DEF Counted
    <3> QED  BY <1>0, <2>1, <3>1 DEF Counted
  <2>3. /\ [i \in Index |-> 0] \in [Index -> 0..MaxOut]
        /\ [i \in Index |-> 0] \in [Index -> 0..MaxIn]
    BY Sizes, SMT
  <2>4. tx' \in TxRecord
    <3>1. Rewound(tx) \in TxRecord  BY <1>0, <1>1
    <3> QED  BY <2>1, <2>3, <3>1, Sizes DEF Zeroed, TxRecord
  <2>5. rx' \in RxRecord
    <3>1. Rewound(rx) \in RxRecord  BY <1>0, <1>2
    <3> QED  BY <2>1, <2>3, <3>1 DEF RxRecord
  <2> QED  BY <1>0, <1>3, <2>1, <2>2, <2>4, <2>5, NoBytes, TypesFrom
<1>8. CASE Enable
  <2>1. /\ \/ used' = [used EXCEPT !.restart = used.restart + 1] /\ used.restart < MaxRestarts
           \/ used' = used
        /\ enabled' = TRUE /\ rx' = [rx EXCEPT !.at = 0, !.en = TRUE, !.re = TRUE] /\ pc' = "sync"
        /\ UNCHANGED <<tx, put_off, config, out, full, due, wrong>>
    BY <1>8 DEF Enable, Go
  <2>2. Counted'
    <3>1. used.restart < MaxRestarts => used.restart + 1 \in 0..MaxRestarts
      BY <1>0, SizeAssumption, SMT DEF Counted
    <3> QED  BY <1>0, <2>1, <3>1 DEF Counted
  <2>3. rx' \in RxRecord  BY <1>0, <2>1, Sizes DEF RxRecord
  <2>4. enabled' = TRUE /\ pc' = "sync" /\ UNCHANGED <<tx, put_off, config, out, full, due, wrong>>
    BY <2>1
  <2> QED  BY <1>0, <2>2, <2>3, <2>4, TypesFrom
<1> QED  BY <1>4, <1>5, <1>6, <1>7, <1>8

LEMMA TypesLoop ==
  ASSUME Types, DataReceived \/ OtherEvent \/ Sync \/ SendRx \/ PollDeferred
  PROVE  Types'
<1>0. Fields!2 /\ Counted  BY Fields DEF Types
<1>1. CASE DataReceived
  <2>0. out.arrived /\ ~put_off /\ UNCHANGED <<enabled, config, full>>  BY <1>0, <1>1 DEF DataReceived
  <2>1. CASE ProcessTx(tx, "sync") /\ UNCHANGED put_off
    <3>2. /\ tx' \in TxRecord /\ rx' \in RxRecord /\ pc' \in {"sync", "panic"}
          /\ Counted' /\ wrong' \subseteq {"wire", "host", "shell"}
          /\ due'.wire \in Outgoing /\ due'.host \in Incoming
          /\ due' = [wire |-> due'.wire, host |-> due'.host]
          /\ out' = [bytes |-> << >>, arrived |-> FALSE] \/ UNCHANGED out
      BY <1>0, <2>1, ProcessTxTypes
    <3> QED  BY <1>0, <2>0, <2>1, <3>2, NoBytes, TypesFrom
  <2>2. CASE /\ pc' = "sync" /\ put_off' = TRUE /\ out' = [out EXCEPT !.arrived = FALSE]
             /\ ~Fits /\ UNCHANGED <<tx, rx, due, wrong, used>>
    <3>1. Counted'  BY <1>0, <2>2 DEF Counted
    <3>2. out.bytes # << >>
      <4>1. 0 <= Space(tx)
        <5>1. tx.head \in Index /\ tx.tail \in Index  BY <1>0 DEF TxRecord
        <5>2. Space(tx) = Size - 1 - Dist(tx.head, tx.tail) /\ Dist(tx.head, tx.tail) \in Index
          BY <5>1, SpaceLeft, DistCases DEF Space
        <5> QED  BY <5>2, Sizes, SMT DEF Index
      <4>2. ~(Len(out.bytes) <= Space(tx))  BY <2>2 DEF Fits
      <4>3. Len(<< >>) = 0  OBVIOUS
      <4> QED  BY <4>1, <4>2, <4>3
    <3>3. out' = [bytes |-> out.bytes, arrived |-> FALSE]  BY <1>0, <2>2
    <3> QED  BY <1>0, <2>0, <2>2, <3>1, <3>2, <3>3, TypesFrom
  <2>3. CASE Transmit /\ pc' = "sync" /\ UNCHANGED <<rx, put_off, wrong, used>>
    <3>1. Counted'  BY <1>0, <2>3 DEF Counted
    <3> QED  BY <1>0, <2>0, <2>3, <3>1, TransmitTypes, NoBytes, TypesFrom
  <2> QED  BY <1>1, <2>1, <2>2, <2>3 DEF DataReceived, Go
<1>2. CASE OtherEvent
  <2>1. pc' = "sync" /\ UNCHANGED <<tx, rx, put_off, enabled, config, out, full, due, wrong, used>>
    BY <1>2 DEF OtherEvent, Go
  <2>2. Counted'  BY <1>0, <2>1 DEF Counted
  <2> QED  BY <1>0, <2>1, <2>2, TypesFrom
<1>3. CASE Sync
  <2>1. /\ pc' = "send"
        /\ rx' = rx \/ rx' = [rx EXCEPT !.head = rx.at]
        /\ UNCHANGED <<tx, put_off, enabled, config, out, full, due, wrong, used>>
    BY <1>3 DEF Sync, Go
  <2>2. Counted'  BY <1>0, <2>1 DEF Counted
  <2>3. rx' \in RxRecord  BY <1>0, <2>1 DEF RxRecord
  <2> QED  BY <1>0, <2>1, <2>2, <2>3, TypesFrom
<1>4. CASE SendRx
  <2> DEFINE n == IF Count(rx) < Packet THEN Count(rx) ELSE Packet
             s == Taken("host", due.host, Oldest(rx, n))
  <2>1. /\ pc' = "deferred" /\ UNCHANGED <<tx, put_off, enabled, config, out, used>>
        /\ \/ /\ full' = TRUE /\ rx' = [rx EXCEPT !.tail = Advance(rx.tail, n, Size)]
              /\ due' = [due EXCEPT !.host = s.queue] /\ wrong' = s.wrong
           \/ UNCHANGED <<full, rx, due, wrong>>
    BY <1>4 DEF SendRx, Go
  <2>2. n \in Nat
    <3>1. rx.head \in Index /\ rx.tail \in Index  BY <1>0 DEF RxRecord
    <3>2. Dist(rx.head, rx.tail) \in Index  BY <3>1, DistCases
    <3>3. Count(rx) \in Nat  BY <3>2, SMT DEF Count, Dist, Index
    <3> QED  BY <3>3, Sizes
  <2> HIDE DEF n
  <2>3. Len(Oldest(rx, n)) \in Nat
    <3>1. Oldest(rx, n) = [k \in 1..n |-> rx.mem[Advance(rx.tail, k - 1, Size)]]  BY DEF Oldest
    <3> QED  BY <2>2, <3>1
  <2>4. s.queue \in Incoming /\ s.wrong \subseteq wrong \cup {"host"}
    BY <1>0, <2>3, TakenCases DEF Incoming
  <2> HIDE DEF s
  <2>5. Advance(rx.tail, n, Size) \in Index  BY <1>0, <2>2, AdvanceType DEF RxRecord
  <2>6. rx' \in RxRecord  BY <1>0, <2>1, <2>5 DEF RxRecord
  <2>7. /\ due'.wire \in Outgoing /\ due'.host \in Incoming
        /\ due' = [wire |-> due'.wire, host |-> due'.host]
    BY <1>0, <2>1, <2>4
  <2>8. Counted'  BY <1>0, <2>1 DEF Counted
  <2>9. full' \in BOOLEAN /\ wrong' \subseteq {"wire", "host", "shell"}  BY <1>0, <2>1, <2>4
  <2> QED  BY <1>0, <2>1, <2>6, <2>7, <2>8, <2>9, TypesFrom
<1>5. CASE PollDeferred
  <2>1. pc' = "event" /\ UNCHANGED <<rx, enabled, config, full, wrong, used>>
    BY <1>5 DEF PollDeferred, Go
  <2>2. Counted'  BY <1>0, <2>1 DEF Counted
  <2>3. CASE Transmit /\ put_off' = FALSE
    BY <1>0, <2>1, <2>2, <2>3, TransmitTypes, NoBytes, TypesFrom
  <2>4. CASE UNCHANGED <<tx, put_off, out, due>>
    BY <1>0, <2>1, <2>2, <2>4, TypesFrom
  <2> QED  BY <1>5, <2>3, <2>4 DEF PollDeferred
<1> QED  BY <1>1, <1>2, <1>3, <1>4, <1>5

LEMMA TypesHost ==
  ASSUME Types, HostSends \/ HostReads \/ UNCHANGED vars
  PROVE  Types'
<1>0. Fields!2 /\ Counted  BY Fields DEF Types
<1>1. CASE HostSends
  <2>1. PICK n \in 1..(IF MaxOut - used.out < Packet THEN MaxOut - used.out ELSE Packet) :
          /\ out' = [bytes |-> [k \in 1..n |-> used.out + k], arrived |-> TRUE]
          /\ used' = [used EXCEPT !.out = used.out + n]
    BY <1>1 DEF HostSends
  <2>2. /\ out.bytes = << >>
        /\ UNCHANGED <<tx, rx, put_off, enabled, config, pc, full, due, wrong>>
    BY <1>1 DEF HostSends
  <2>3. used.out \in 0..MaxOut  BY <1>0 DEF Counted
  <2>4. n \in Nat /\ n <= Packet /\ used.out + n \in 0..MaxOut  BY <2>3, Sizes, SMT
  <2>5. ASSUME NEW k \in 1..n PROVE used.out + k \in 1..MaxOut
    <3>1. k \in Nat /\ 1 <= k /\ k <= n  BY <2>4, SMT
    <3>2. used.out \in Nat /\ used.out + n <= MaxOut  BY <2>3, <2>4, SMT
    <3> QED  BY <2>4, <3>1, <3>2, Sizes, SMT
  <2> DEFINE bytes == [k \in 1..n |-> used.out + k]
  <2>6. bytes \in Outgoing /\ Len(bytes) = n  BY <2>4, <2>5 DEF Outgoing
  <2> HIDE DEF bytes
  <2>7. out' = [bytes |-> bytes, arrived |-> TRUE]  BY <2>1 DEF bytes
  <2>8. Counted'  BY <1>0, <2>1, <2>4 DEF Counted
  <2> QED  BY <1>0, <2>2, <2>4, <2>6, <2>7, <2>8, TypesFrom
<1>2. CASE HostReads
  <2>1. /\ full' = FALSE
        /\ UNCHANGED <<tx, rx, put_off, enabled, config, pc, out, due, wrong, used>>
    BY <1>2 DEF HostReads
  <2>2. Counted'  BY <1>0, <2>1 DEF Counted
  <2> QED  BY <1>0, <2>1, <2>2, TypesFrom
<1>3. CASE UNCHANGED vars
  BY <1>3 DEF vars, Types, TypeOK, Counted
<1> QED  BY <1>1, <1>2, <1>3

LEMMA ResumedStep == Types /\ Resumed /\ [Next]_vars => Resumed'
<1> SUFFICES ASSUME Types, Resumed, [Next]_vars PROVE Resumed'
  OBVIOUS
<1>0. Fields!2  BY Fields DEF Types
<1>1. CASE DataReceived
  <2>1. out.arrived /\ config' = config  BY <1>1 DEF DataReceived
  <2>2. ~put_off  BY <1>0, <2>1
  <2> QED  BY <1>1, <2>1, <2>2 DEF DataReceived, Resumed
<1>2. CASE TxComplete
  <2>1. tx.en /\ UNCHANGED <<put_off, config>>  BY <1>2 DEF TxComplete, TxDone
  <2> QED  BY <2>1 DEF Resumed
<1>3. CASE Entered
  <2>1. tx' = [tx EXCEPT !.en = FALSE]  BY <1>3 DEF Entered
  <2>2. tx'.en = FALSE  BY <1>0, <2>1 DEF TxRecord
  <2> QED  BY <2>2 DEF Resumed
<1>4. CASE Enter
  <2>1. config' = FALSE  BY <1>0, <1>4 DEF Enter
  <2> QED  BY <2>1 DEF Resumed
<1>5. CASE Leave \/ Reset
  <2>1. config' = FALSE \/ put_off' = FALSE  BY <1>5 DEF Leave, Reset
  <2> QED  BY <2>1 DEF Resumed
<1>6. CASE PollDeferred
  <2>1. config' = config /\ (put_off' = FALSE \/ UNCHANGED <<tx, put_off>>)
    BY <1>6 DEF PollDeferred
  <2> QED  BY <2>1 DEF Resumed
<1>7. CASE Fetch
  <2>1. UNCHANGED <<put_off, config>> /\ tx.en  BY <1>7 DEF Fetch
  <2> QED  BY <2>1 DEF Resumed
<1>8. CASE Enable \/ OtherEvent \/ Sync \/ SendRx \/ Character \/ HostSends \/ HostReads
           \/ UNCHANGED vars
  <2>1. UNCHANGED <<tx, put_off, config>>
    BY <1>8 DEF Enable, OtherEvent, Sync, SendRx, Character, HostSends, HostReads, vars
  <2> QED  BY <2>1 DEF Resumed
<1> QED  BY <1>1, <1>2, <1>3, <1>4, <1>5, <1>6, <1>7, <1>8 DEF Next, MainLoop

LEMMA TypesStep == Types /\ Resumed /\ [Next]_vars => Types'
  BY TypesChannels, TypesModes, TypesLoop, TypesHost DEF Next, MainLoop

LEMMA TypesHold == Spec => [](Types /\ Resumed)
<1>1. Init => Types /\ Resumed  BY TypeInit DEF Init, Resumed
<1>2. Types /\ Resumed /\ [Next]_vars => (Types /\ Resumed)'  BY TypesStep, ResumedStep
<1> QED  BY <1>1, <1>2, PTL DEF Spec

\* Indices and channels stay in their buffers, a packet put off is there to be read, and the
\* numbers are those of bytes that were sent, in either mode and through every reset.
THEOREM TypeCorrect == Spec => []TypeOK
  BY TypesHold, PTL DEF Types

-----------------------------------------------------------------------------
(* What lies in the buffers                                                 *)

\* The shell has the receive buffer to itself.
Apart == config \/ pc = "enter"

\* queue is what the channel has still to fetch: the rest of its chunk and what was stored
\* behind that.
TxSound(t, queue) ==
  /\ t.en => /\ t.left <= t.last /\ t.last <= Count(t)
             /\ t.src = Advance(t.tail, t.last - t.left, Size)
             /\ Len(queue) = Count(t) - (t.last - t.left)
  /\ ~t.en => Count(t) = 0 /\ queue = << >>
  /\ Stretch(t.mem, t.src, queue)

\* queue is what lies between tail and the index up to which bytes have been stored.
RxSound(r, upto, queue) ==
  /\ Dist(r.head, r.tail) + Dist(upto, r.head) = Len(queue)
  /\ Dist(upto, r.tail) = Len(queue)
  /\ Stretch(r.mem, r.tail, queue)

Wire == TxSound(tx, due.wire)
Host == RxSound(rx, IF Apart THEN rx.head ELSE rx.at, due.host)

\* In configuration mode the channel and the main loop leave tx_buf to the shell.
TxModes ==
  /\ Apart => ~tx.en /\ ~put_off
  /\ pc # "panic" /\ "wire" \notin wrong /\ "shell" \notin wrong

\* The receiver works only where its characters are expected.
RxModes ==
  /\ pc = "enter" => ~config /\ due.host = << >>
  /\ Apart => enabled
  /\ config => ~rx.re
  /\ ~enabled => ~rx.re /\ rx.at = 0 /\ rx.head = 0 /\ rx.tail = 0
  /\ "host" \notin wrong

LEMMA NoDistance == ASSUME NEW i \in Index PROVE Dist(i, i) = 0 /\ Count([head |-> i, tail |-> i]) = 0
<1>1. Dist(i, i) = 0  BY DistCases, SMT DEF Index
<1> QED  BY <1>1 DEF Count, Dist

LEMMA NothingLies == ASSUME NEW mem, NEW from \in Index PROVE Stretch(mem, from, << >>)
<1>1. Len(<< >>) = 0  OBVIOUS
<1>2. ASSUME NEW i \in Index PROVE ~(Dist(i, from) < 0)  BY DistCases, Sizes, SMT DEF Index
<1> QED  BY <1>1, <1>2 DEF Stretch

LEMMA AdvanceNone == ASSUME NEW i \in Index PROVE Advance(i, 0, Size) = i
<1>1. 0 \in 0..Size  BY Sizes, SMT
<1>2. Advance(i, 0, Size) = IF i + 0 < Size THEN i + 0 ELSE i + 0 - Size  BY <1>1, AdvanceCases
<1> QED  BY <1>2, Sizes, SMT DEF Index

LEMMA AdvanceTwice ==
  ASSUME NEW i \in Index, NEW m \in Nat, NEW n \in Nat, m + n <= Size
  PROVE  Advance(Advance(i, m, Size), n, Size) = Advance(i, m + n, Size)
<1> DEFINE j == Advance(i, m, Size)
<1>1. m \in 0..Size /\ n \in 0..Size /\ m + n \in 0..Size  BY Sizes, SMT
<1>2. j = (IF i + m < Size THEN i + m ELSE i + m - Size) /\ j \in Index  BY <1>1, AdvanceCases
<1> HIDE DEF j
<1>3. Advance(j, n, Size) = IF j + n < Size THEN j + n ELSE j + n - Size
  BY <1>1, <1>2, AdvanceCases
<1>4. Advance(i, m + n, Size) = IF i + (m + n) < Size THEN i + (m + n) ELSE i + (m + n) - Size
  BY <1>1, AdvanceCases
<1> QED  BY <1>1, <1>2, <1>3, <1>4, Sizes, SMT DEF Index, j

\* What lies between tail and head is put to work.
LEMMA StartSound ==
  ASSUME NEW t \in TxRecord, ~t.en, NEW queue \in Outgoing,
         Dist(t.head, t.tail) = Len(queue), Stretch(t.mem, t.tail, queue)
  PROVE  TxSound(StartTx(t), queue)
<1> DEFINE n == circ_buf_count_to_end(t.head, t.tail, Size)
           u == StartTx(t)
<1>1. t.head \in Index /\ t.tail \in Index /\ t.src \in Index  BY DEF TxRecord
<1>2. /\ n \in Index /\ n <= Dist(t.head, t.tail) /\ (n = 0 <=> Dist(t.head, t.tail) = 0)
      /\ n = 0 => u = [t EXCEPT !.txa = FALSE]
      /\ n # 0 => u = [t EXCEPT !.en = TRUE, !.src = t.tail, !.left = n, !.last = n, !.txa = TRUE]
  BY StartTxCases
<1>3. Dist(t.head, t.tail) \in Index  BY <1>1, DistCases
<1> HIDE DEF n, u
<1>4. CASE n = 0
  <2>1. /\ u.en = t.en /\ u.head = t.head /\ u.tail = t.tail /\ u.mem = t.mem /\ u.src = t.src
    BY <1>2, <1>4 DEF TxRecord
  <2>2. Count(u) = 0  BY <1>2, <1>4, <2>1 DEF Count, Dist
  <2>3. queue = << >>
    <3>1. queue \in Seq(1..MaxOut) /\ Len(queue) = 0  BY <1>2, <1>4 DEF Outgoing
    <3> QED  BY <3>1, EmptySeq
  <2>4. Stretch(u.mem, u.src, queue)  BY <1>1, <2>1, <2>3, NothingLies
  <2> QED  BY <2>1, <2>2, <2>3, <2>4 DEF TxSound, u
<1>5. CASE n # 0
  <2>1. /\ u.en = TRUE /\ u.head = t.head /\ u.tail = t.tail /\ u.mem = t.mem /\ u.src = t.tail
        /\ u.left = n /\ u.last = n
    BY <1>2, <1>5 DEF TxRecord
  <2>2. Count(u) = Dist(t.head, t.tail)  BY <2>1 DEF Count, Dist
  <2>3. n - n = 0 /\ Dist(t.head, t.tail) - 0 = Dist(t.head, t.tail) /\ n <= n
    BY <1>2, <1>3, SMT DEF Index
  <2>4. Advance(t.tail, 0, Size) = t.tail  BY <1>1, AdvanceNone
  <2> QED  BY <1>2, <2>1, <2>2, <2>3, <2>4 DEF TxSound, u
<1> QED  BY <1>4, <1>5

\* What is stored in an empty buffer is all that lies in it.
LEMMA StoredFirst ==
  ASSUME NEW t \in TxRecord, NEW bytes \in Outgoing, Dist(t.head, t.tail) = 0, Len(bytes) < Size
  PROVE  LET u == Stored(t, bytes)
         IN  Stretch(u.mem, u.tail, bytes) /\ Dist(u.head, u.tail) = Len(bytes)
<1> DEFINE u     == Stored(t, bytes)
           mem   == t.mem
           head  == t.head
           tail  == t.tail
           queue == << >>
<1>0. /\ head \in Index /\ tail \in Index /\ bytes \in Seq(1..MaxOut) /\ Len(bytes) \in Nat
      /\ Dist(head, tail) = 0
  BY DEF TxRecord, Outgoing
<1>1. /\ u.head = Advance(head, Len(bytes), Size) /\ u.mem = Overlaid(mem, head, bytes)
      /\ u.tail = tail
  <2>1. u = [t EXCEPT !.head = Advance(t.head, Len(bytes), Size),
                      !.mem = Overlaid(t.mem, t.head, bytes)]
    BY StoredTx
  <2> HIDE DEF u
  <2> QED  BY <2>1 DEF TxRecord
<1> HIDE DEF u, mem, head, tail
<1>2. /\ queue \in Seq(1..MaxOut) /\ Len(queue) = 0 /\ queue \o bytes = bytes
      /\ Stretch(mem, tail, queue)
  BY <1>0, NothingLies, ConcatEmptySeq
<1>3. Len(bytes) \in 0..Size /\ 0 + Len(bytes) < Size /\ 0 + Len(bytes) = Len(bytes)
  BY <1>0, Sizes, SMT
<1> HIDE DEF queue
<1>4. Dist(head, tail) = Len(queue) /\ Len(queue) + Len(bytes) < Size  BY <1>0, <1>2, <1>3
<1>5. Stretch(Overlaid(mem, head, bytes), tail, queue \o bytes)  BY <1>0, <1>2, <1>4, StretchLonger
<1>6. Dist(Advance(head, Len(bytes), Size), tail) = Dist(head, tail) + Len(bytes)
  BY <1>0, <1>3, DistAhead
<1> QED  BY <1>0, <1>1, <1>2, <1>3, <1>5, <1>6 DEF u

\* A packet goes behind what the channel has still to fetch.
LEMMA StoreSound ==
  ASSUME NEW t \in TxRecord, NEW queue \in Outgoing, NEW bytes \in Outgoing,
         TxSound(t, queue), Len(bytes) <= Space(t)
  PROVE  TxSound(StartTx(Stored(t, bytes)), queue \o bytes)
<1> DEFINE u == Stored(t, bytes)
<1>0. /\ t.head \in Index /\ t.tail \in Index /\ t.src \in Index
      /\ t.last \in Index /\ t.left \in 0..Size /\ t.en \in BOOLEAN
      /\ queue \in Seq(1..MaxOut) /\ bytes \in Seq(1..MaxOut)
      /\ Len(queue) \in Nat /\ Len(bytes) \in Nat
  BY DEF TxRecord, Outgoing
<1>1. /\ u \in TxRecord /\ u.head = Advance(t.head, Len(bytes), Size)
      /\ u.mem = Overlaid(t.mem, t.head, bytes)
      /\ u.tail = t.tail /\ u.src = t.src /\ u.en = t.en /\ u.last = t.last /\ u.left = t.left
  <2>1. /\ u \in TxRecord
        /\ u = [t EXCEPT !.head = Advance(t.head, Len(bytes), Size),
                         !.mem = Overlaid(t.mem, t.head, bytes)]
    BY StoredTx
  <2> HIDE DEF u
  <2> QED  BY <2>1 DEF TxRecord
<1>2. Count(t) = Dist(t.head, t.tail) /\ Count(u) = Dist(u.head, t.tail)  BY <1>1 DEF Count, Dist
<1>3. Dist(t.head, t.tail) \in Index /\ Len(bytes) <= Size - 1 - Dist(t.head, t.tail)
  BY <1>0, DistCases, SpaceLeft DEF Space
<1> HIDE DEF u
<1>4. CASE t.en
  <2> DEFINE m == t.last - t.left
  <2>1. /\ t.left <= t.last /\ t.last <= Count(t) /\ t.src = Advance(t.tail, m, Size)
        /\ Len(queue) = Count(t) - m /\ Stretch(t.mem, t.src, queue)
    BY <1>4 DEF TxSound
  <2>2. m \in 0..Dist(t.head, t.tail)  BY <1>0, <1>2, <1>3, <2>1, SMT DEF Index
  <2>3. Dist(t.head, t.src) = Len(queue)  BY <1>0, <1>2, <2>1, <2>2, DistBehind
  <2>4. Len(queue) + Len(bytes) < Size
    BY <1>0, <1>2, <1>3, <2>1, <2>2, Sizes, SMT DEF Index
  <2>5. Stretch(u.mem, t.src, queue \o bytes)
    BY <1>0, <1>1, <2>1, <2>3, <2>4, StretchLonger
  <2>6. Dist(u.head, t.tail) = Dist(t.head, t.tail) + Len(bytes)
    <3>1. Len(bytes) \in 0..Size /\ Dist(t.head, t.tail) + Len(bytes) < Size
      BY <1>0, <1>3, Sizes, SMT DEF Index
    <3> QED  BY <1>0, <1>1, <3>1, DistAhead
  <2>7. Len(queue \o bytes) = Len(queue) + Len(bytes)  BY <1>0, ConcatProperties
  <2>8. t.last <= Count(u) /\ Len(queue \o bytes) = Count(u) - m
    BY <1>0, <1>2, <1>3, <2>1, <2>2, <2>6, <2>7, SMTT(30) DEF Index
  <2>9. StartTx(u) = u  BY <1>1, <1>4, StartTxCases
  <2> QED  BY <1>1, <1>4, <2>1, <2>5, <2>8, <2>9 DEF TxSound, u
<1>5. CASE ~t.en
  <2>1. Dist(t.head, t.tail) = 0 /\ queue = << >>  BY <1>2, <1>5 DEF TxSound
  <2>2. Len(bytes) < Size  BY <1>0, <1>3, <2>1, Sizes, SMT
  <2>3. Stretch(u.mem, u.tail, bytes) /\ Dist(u.head, u.tail) = Len(bytes)
    BY <2>1, <2>2, StoredFirst DEF u
  <2>4. queue \o bytes = bytes  BY <1>0, <2>1, ConcatEmptySeq
  <2>5. TxSound(StartTx(u), bytes)  BY <1>1, <1>5, <2>3, StartSound
  <2> QED  BY <2>4, <2>5 DEF u
<1> QED  BY <1>4, <1>5

\* The channel fetches the first byte of queue.
LEMMA FetchSound ==
  ASSUME NEW t \in TxRecord, NEW queue \in Outgoing, TxSound(t, queue), t.en, t.left > 0
  PROVE  /\ IsPrefix(<<t.mem[t.src]>>, queue)
         /\ TxSound([t EXCEPT !.src = Advance(t.src, 1, Size), !.left = t.left - 1],
                    SubSeq(queue, 2, Len(queue)))
<1> DEFINE m == t.last - t.left
           u == [t EXCEPT !.src = Advance(t.src, 1, Size), !.left = t.left - 1]
<1>0. /\ t.head \in Index /\ t.tail \in Index /\ t.src \in Index
      /\ t.last \in Index /\ t.left \in 0..Size
      /\ queue \in Seq(1..MaxOut) /\ Len(queue) \in Nat
  BY DEF TxRecord, Outgoing
<1>1. /\ t.left <= t.last /\ t.last <= Count(t) /\ t.src = Advance(t.tail, m, Size)
      /\ Len(queue) = Count(t) - m /\ Stretch(t.mem, t.src, queue)
  BY DEF TxSound
<1>2. Count(t) = Dist(t.head, t.tail) /\ Dist(t.head, t.tail) \in Index
  BY <1>0, DistCases DEF Count, Dist
<1>3. m \in Nat /\ m + 1 <= Count(t) /\ Len(queue) >= 1 /\ Len(queue) < Size /\ 1 \in 0..Len(queue)
  <2>1. t.left \in Nat /\ t.last \in Nat /\ Count(t) \in Nat /\ Count(t) < Size
    BY <1>0, <1>2, Sizes, SMT DEF Index
  <2> QED  BY <1>0, <1>1, <2>1, Sizes, SMTT(30)
<1>4. /\ Stretch(t.mem, Advance(t.src, 1, Size), SubSeq(queue, 1 + 1, Len(queue)))
      /\ Len(SubSeq(queue, 1 + 1, Len(queue))) = Len(queue) - 1
  <2> DEFINE one == 1
  <2>1. one \in 0..Len(queue) /\ Len(queue) < Size  BY <1>3
  <2>2. t.src \in Index /\ queue \in Seq(1..MaxOut) /\ Stretch(t.mem, t.src, queue)  BY <1>0, <1>1
  <2> HIDE DEF one
  <2>3. Stretch(t.mem, Advance(t.src, one, Size), SubSeq(queue, one + 1, Len(queue)))
    BY <2>1, <2>2, StretchShorter
  <2>4. Len(SubSeq(queue, one + 1, Len(queue))) = Len(queue) - one
    BY <2>1, <2>2, StretchShorter
  <2> QED  BY <2>3, <2>4 DEF one
<1>5. Advance(t.src, 1, Size) = Advance(t.tail, m + 1, Size)
  <2>1. m + 1 <= Size /\ 1 \in Nat  BY <1>0, <1>2, <1>3, Sizes, SMT DEF Index
  <2> HIDE DEF m
  <2> QED  BY <1>0, <1>1, <1>3, <2>1, AdvanceTwice
<1>6. t.last - (t.left - 1) = m + 1 /\ t.left - 1 <= t.last /\ Len(queue) - 1 = Count(t) - (m + 1)
  BY <1>0, <1>1, <1>2, <1>3, SMTT(30) DEF Index
<1>7. /\ u.en = t.en /\ u.head = t.head /\ u.tail = t.tail /\ u.mem = t.mem /\ u.last = t.last
      /\ u.src = Advance(t.src, 1, Size) /\ u.left = t.left - 1
  BY DEF TxRecord
<1>8. Count(u) = Count(t)  BY <1>7 DEF Count
<1>9. IsPrefix(<<t.mem[t.src]>>, queue)
  <2>1. t.mem[t.src] = queue[1]
    <3>1. Dist(t.src, t.src) = 0  BY <1>0, NoDistance
    <3>2. 0 < Len(queue) /\ 0 + 1 = 1  BY <1>3, SMT
    <3> QED  BY <1>0, <1>1, <3>1, <3>2 DEF Stretch
  <2>2. queue[1] \in 1..MaxOut
    <3>1. 1 \in 1..Len(queue)  BY <1>0, <1>3, SMT
    <3> QED  BY <1>0, <3>1, ElementOfSeq
  <2>3. /\ <<queue[1]>> \in Seq(1..MaxOut) /\ Len(<<queue[1]>>) = 1
        /\ <<queue[1]>>[1] = queue[1]
    BY <2>2
  <2>4. SubSeq(<<queue[1]>>, 1, 1) = <<queue[1]>>  BY <2>3, SubSeqFull
  <2>5. SubSeq(queue, 1, 1) = <<queue[1]>>
    <3>1. 1 \in Int /\ \A i \in 1..1 : queue[i] \in 1..MaxOut  BY <2>2, SMT
    <3>2. /\ SubSeq(queue, 1, 1) \in Seq(1..MaxOut)
          /\ Len(SubSeq(queue, 1, 1)) = IF 1 <= 1 THEN 1 - 1 + 1 ELSE 0
          /\ \A i \in 1..1 - 1 + 1 : SubSeq(queue, 1, 1)[i] = queue[1 + i - 1]
      BY <3>1, SubSeqProperties
    <3>3. Len(SubSeq(queue, 1, 1)) = 1 /\ SubSeq(queue, 1, 1)[1] = queue[1]  BY <3>2, SMT
    <3>4. \A i \in 1..1 : i = 1  BY SMT
    <3>5. \A i \in 1..Len(SubSeq(queue, 1, 1)) : SubSeq(queue, 1, 1)[i] = <<queue[1]>>[i]
      BY <2>3, <3>3, <3>4
    <3>6. Len(SubSeq(queue, 1, 1)) = Len(<<queue[1]>>)  BY <2>3, <3>3
    <3> QED  BY <2>3, <3>2, <3>5, <3>6, SeqEqual
  <2> QED  BY <1>0, <1>3, <2>1, <2>3, <2>4, <2>5 DEF IsPrefix
<1>10. 1 + 1 = 2  BY SMT
<1> HIDE DEF u
<1>11. TxSound(u, SubSeq(queue, 2, Len(queue)))
  BY <1>1, <1>4, <1>5, <1>6, <1>7, <1>8, <1>10, <1>3 DEF TxSound
<1> QED  BY <1>9, <1>11 DEF u

\* The chunk is given back, and what has come behind it is started.
LEMMA CompleteSound ==
  ASSUME NEW t \in TxRecord, NEW queue \in Outgoing, TxSound(t, queue), t.en, t.left = 0
  PROVE  TxSound(StartTx([t EXCEPT !.tail = Advance(t.tail, t.last, Size), !.en = FALSE]), queue)
<1> DEFINE u == [t EXCEPT !.tail = Advance(t.tail, t.last, Size), !.en = FALSE]
<1>0. t.head \in Index /\ t.tail \in Index /\ t.src \in Index /\ t.last \in Index
  BY DEF TxRecord
<1>1. t.last - t.left = t.last  BY <1>0, SMT DEF Index
<1>2. /\ t.last <= Count(t) /\ t.src = Advance(t.tail, t.last, Size)
      /\ Len(queue) = Count(t) - t.last /\ Stretch(t.mem, t.src, queue)
  BY <1>1 DEF TxSound
<1>3. Count(t) = Dist(t.head, t.tail) /\ Dist(t.head, t.tail) \in Index
  BY <1>0, DistCases DEF Count, Dist
<1>4. t.last \in 0..Dist(t.head, t.tail)  BY <1>0, <1>2, <1>3, SMT DEF Index
<1>5. Dist(t.head, t.src) = Len(queue)  BY <1>0, <1>2, <1>3, <1>4, DistBehind
<1>6. u \in TxRecord /\ ~u.en /\ u.head = t.head /\ u.tail = t.src /\ u.mem = t.mem
  BY <1>0, <1>2 DEF TxRecord
<1> HIDE DEF u
<1> QED  BY <1>2, <1>5, <1>6, StartSound DEF u

\* Bytes for the host go behind what the buffer holds, ...
LEMMA StoredBehind ==
  ASSUME NEW r \in RxRecord, NEW queue \in Incoming, NEW bytes \in Incoming,
         Dist(r.head, r.tail) = Len(queue), Stretch(r.mem, r.tail, queue),
         Len(queue) + Len(bytes) < Size
  PROVE  /\ Dist(Stored(r, bytes).head, Stored(r, bytes).tail) = Len(queue \o bytes)
         /\ Stretch(Stored(r, bytes).mem, Stored(r, bytes).tail, queue \o bytes)
         /\ Stored(r, bytes).at = r.at /\ Stored(r, bytes).re = r.re
<1> DEFINE u    == Stored(r, bytes)
           mem  == r.mem
           head == r.head
           tail == r.tail
<1>0. /\ head \in Index /\ tail \in Index
      /\ queue \in Seq(1..MaxIn) /\ bytes \in Seq(1..MaxIn)
      /\ Len(queue) \in Nat /\ Len(bytes) \in Nat
      /\ Dist(head, tail) = Len(queue) /\ Stretch(mem, tail, queue)
  BY DEF RxRecord, Incoming
<1>1. /\ u.head = Advance(head, Len(bytes), Size) /\ u.mem = Overlaid(mem, head, bytes)
      /\ u.tail = tail /\ u.at = r.at /\ u.re = r.re
  <2>1. u = [r EXCEPT !.head = Advance(r.head, Len(bytes), Size),
                      !.mem = Overlaid(r.mem, r.head, bytes)]
    BY StoredRx
  <2> HIDE DEF u
  <2> QED  BY <2>1 DEF RxRecord
<1> HIDE DEF u, mem, head, tail
<1>2. Stretch(Overlaid(mem, head, bytes), tail, queue \o bytes)  BY <1>0, StretchLonger
<1>3. Dist(Advance(head, Len(bytes), Size), tail) = Dist(head, tail) + Len(bytes)
  <2>1. Len(bytes) \in 0..Size /\ Dist(head, tail) + Len(bytes) < Size
    BY <1>0, Sizes, SMT
  <2> QED  BY <1>0, <2>1, DistAhead
<1>4. Len(queue \o bytes) = Len(queue) + Len(bytes)  BY <1>0, ConcatProperties
<1> QED  BY <1>0, <1>1, <1>2, <1>3, <1>4 DEF u

\* ... and when it is full, what they leave of it is what they have put there.
LEMMA WrittenSound ==
  ASSUME NEW r \in RxRecord, NEW queue \in Incoming, NEW bytes \in Incoming,
         Dist(r.head, r.tail) = Len(queue), Stretch(r.mem, r.tail, queue), Len(bytes) < Size
  PROVE  LET w == Written(r, queue, bytes)
         IN  /\ Dist(w.rx.head, w.rx.tail) = Len(w.queue)
             /\ Stretch(w.rx.mem, w.rx.tail, w.queue)
             /\ w.rx.at = r.at /\ w.rx.re = r.re
<1> DEFINE w    == Written(r, queue, bytes)
           room == Space(r)
           part == Stored(r, SubSeq(bytes, 1, room))
           rest == SubSeq(bytes, room + 1, Len(bytes))
           left == [part EXCEPT !.tail = part.head]
<1>0. /\ r.head \in Index /\ r.tail \in Index
      /\ queue \in Seq(1..MaxIn) /\ bytes \in Seq(1..MaxIn)
      /\ Len(queue) \in Nat /\ Len(bytes) \in Nat
  BY DEF RxRecord, Incoming
<1>1. room = Size - 1 - Dist(r.head, r.tail) /\ Dist(r.head, r.tail) \in Index
  BY <1>0, SpaceLeft, DistCases DEF Space
<1>2. room \in Nat  BY <1>1, Sizes, SMT DEF Index
<1>3. CASE Len(bytes) <= room
  <2>1. w = [rx |-> Stored(r, bytes), queue |-> queue \o bytes]  BY <1>3 DEF Written
  <2>2. Len(queue) + Len(bytes) < Size  BY <1>0, <1>1, <1>3, Sizes, SMT DEF Index
  <2>3. /\ Dist(Stored(r, bytes).head, Stored(r, bytes).tail) = Len(queue \o bytes)
        /\ Stretch(Stored(r, bytes).mem, Stored(r, bytes).tail, queue \o bytes)
        /\ Stored(r, bytes).at = r.at /\ Stored(r, bytes).re = r.re
    BY <2>2, StoredBehind
  <2> HIDE DEF w
  <2> QED  BY <2>1, <2>3 DEF w
<1>4. CASE ~(Len(bytes) <= room)
  <2>1. w = [rx |-> Stored(left, rest), queue |-> rest]  BY <1>4 DEF Written
  <2>2. SubSeq(bytes, 1, room) \in Incoming
    <3>1. room <= Len(bytes) /\ 1 \in Nat /\ 1 <= 1  BY <1>0, <1>2, <1>4, SMT
    <3> HIDE DEF room
    <3>2. SubSeq(bytes, 1, room) \in Seq(1..MaxIn)  BY <1>0, <1>2, <3>1, Cut
    <3> QED  BY <3>2 DEF Incoming, room
  <2>3. rest \in Incoming /\ Len(rest) < Size
    <3>1. room + 1 \in Nat /\ 1 <= room + 1 /\ room + 1 <= Len(bytes)  BY <1>0, <1>2, <1>4, SMT
    <3>2. Len(bytes) <= Len(bytes)  BY <1>0, SMT
    <3> HIDE DEF room
    <3>3. SubSeq(bytes, room + 1, Len(bytes)) \in Seq(1..MaxIn)  BY <1>0, <3>1, <3>2, Cut
    <3>4. Len(SubSeq(bytes, room + 1, Len(bytes)))
            = IF room + 1 <= Len(bytes) THEN Len(bytes) - (room + 1) + 1 ELSE 0
      BY <1>0, <3>1, <3>2, Cut
    <3>5. Len(SubSeq(bytes, room + 1, Len(bytes))) < Size
      BY <1>0, <1>2, <3>1, <3>4, Sizes, SMT
    <3> QED  BY <3>3, <3>5 DEF Incoming, room
  <2>4. /\ part \in RxRecord
        /\ part = [r EXCEPT !.head = Advance(r.head, Len(SubSeq(bytes, 1, room)), Size),
                            !.mem = Overlaid(r.mem, r.head, SubSeq(bytes, 1, room))]
    <3> DEFINE first == SubSeq(bytes, 1, room)
    <3>1. first \in Incoming  BY <2>2
    <3> HIDE DEF first
    <3>2. Stored(r, first) \in RxRecord  BY <3>1, StoredRx
    <3>3. Stored(r, first) = [r EXCEPT !.head = Advance(r.head, Len(first), Size),
                                       !.mem = Overlaid(r.mem, r.head, first)]
      BY <3>1, StoredRx
    <3> QED  BY <3>2, <3>3 DEF first
  <2>5. part.at = r.at /\ part.re = r.re
    <3> HIDE DEF part
    <3> QED  BY <2>4 DEF RxRecord
  <2> HIDE DEF part
  <2>6. left \in RxRecord /\ left.head = left.tail /\ left.at = r.at /\ left.re = r.re
    BY <2>4, <2>5 DEF RxRecord
  <2> DEFINE none == << >>
  <2>7. none \in Incoming /\ Len(none) = 0 /\ none \o rest = rest /\ Stretch(left.mem, left.tail, none)
    <3>1. left.tail \in Index  BY <2>6 DEF RxRecord
    <3>2. none \in Incoming  BY DEF Incoming
    <3>3. none \o rest = rest  BY <2>3, ConcatEmptySeq DEF Incoming
    <3>4. Stretch(left.mem, left.tail, none)  BY <3>1, NothingLies
    <3> QED  BY <3>2, <3>3, <3>4
  <2> HIDE DEF left, none, rest
  <2>8. Dist(left.head, left.tail) = Len(none)
    BY <2>6, <2>7, NoDistance DEF RxRecord
  <2>9. Len(none) + Len(rest) < Size
    <3>1. Len(rest) \in Nat  BY <2>3 DEF Incoming
    <3>2. 0 + Len(rest) < Size  BY <2>3, <3>1, Sizes, SMT
    <3> QED  BY <2>7, <3>2
  <2>10. /\ Dist(Stored(left, rest).head, Stored(left, rest).tail) = Len(none \o rest)
         /\ Stretch(Stored(left, rest).mem, Stored(left, rest).tail, none \o rest)
         /\ Stored(left, rest).at = left.at /\ Stored(left, rest).re = left.re
    BY <2>3, <2>6, <2>7, <2>8, <2>9, StoredBehind
  <2> HIDE DEF w
  <2> QED  BY <2>1, <2>6, <2>7, <2>10 DEF w
<1> QED  BY <1>3, <1>4

\* The device sends the first n bytes of queue.
LEMMA SendSound ==
  ASSUME NEW r \in RxRecord, NEW upto \in Index, NEW queue \in Incoming,
         RxSound(r, upto, queue), NEW n \in 0..Count(r)
  PROVE  /\ IsPrefix(Oldest(r, n), queue) /\ Len(Oldest(r, n)) = n
         /\ RxSound([r EXCEPT !.tail = Advance(r.tail, n, Size)], upto,
                    SubSeq(queue, n + 1, Len(queue)))
<1> DEFINE u    == [r EXCEPT !.tail = Advance(r.tail, n, Size)]
           mem  == r.mem
           head == r.head
           tail == r.tail
           rest == SubSeq(queue, n + 1, Len(queue))
<1>0. /\ head \in Index /\ tail \in Index /\ queue \in Seq(1..MaxIn) /\ Len(queue) \in Nat
      /\ Dist(head, tail) + Dist(upto, head) = Len(queue)
      /\ Dist(upto, tail) = Len(queue) /\ Stretch(mem, tail, queue)
      /\ n \in 0..Dist(head, tail)
  BY DEF RxRecord, Incoming, RxSound, Count, Dist
<1>1. /\ u.head = head /\ u.mem = mem /\ u.tail = Advance(tail, n, Size)
  BY DEF RxRecord
<1>2. Dist(head, tail) \in Index /\ Dist(upto, head) \in Index /\ Dist(upto, tail) \in Index
  BY <1>0, DistCases
<1>3. n \in 0..Len(queue) /\ n \in 0..Dist(upto, tail) /\ Len(queue) < Size
  BY <1>0, <1>2, Sizes, SMT DEF Index
<1>4. IsPrefix(Oldest(r, n), queue)  BY <1>0, <1>3, OldestFirst
<1>5. Len(Oldest(r, n)) = n  BY <1>0, <1>3, OldestFirst
<1> HIDE DEF u, mem, head, tail
<1>6. Stretch(mem, Advance(tail, n, Size), rest)  BY <1>0, <1>3, StretchShorter
<1>7. Len(rest) = Len(queue) - n  BY <1>0, <1>3, StretchShorter
<1>8. Dist(head, Advance(tail, n, Size)) = Dist(head, tail) - n  BY <1>0, DistBehind
<1>9. Dist(upto, Advance(tail, n, Size)) = Dist(upto, tail) - n  BY <1>0, <1>3, DistBehind
<1> HIDE DEF rest
<1>10. (Dist(head, tail) - n) + Dist(upto, head) = Len(rest) /\ Dist(upto, tail) - n = Len(rest)
  BY <1>0, <1>2, <1>3, <1>7, SMT DEF Index
<1>11. RxSound(u, upto, rest)  BY <1>1, <1>6, <1>8, <1>9, <1>10 DEF RxSound
<1> QED  BY <1>4, <1>5, <1>11 DEF u, rest

\* A character goes where the channel has got to.
LEMMA CharacterSound ==
  ASSUME NEW r \in RxRecord, NEW queue \in Incoming, NEW byte \in 1..MaxIn,
         RxSound(r, r.at, queue), circ_buf_space(r.at, r.tail, Size) > 1
  PROVE  RxSound([r EXCEPT !.mem = [r.mem EXCEPT ![r.at] = byte], !.at = Advance(r.at, 1, Size)],
                 Advance(r.at, 1, Size), Append(queue, byte))
<1> DEFINE at   == r.at
           mem  == r.mem
           head == r.head
           tail == r.tail
           to   == Advance(at, 1, Size)
           u    == [r EXCEPT !.mem = [mem EXCEPT ![at] = byte], !.at = to]
           bytes == <<byte>>
<1>0. /\ head \in Index /\ tail \in Index /\ at \in Index /\ mem \in [Index -> 0..MaxIn]
      /\ queue \in Seq(1..MaxIn) /\ Len(queue) \in Nat
      /\ Dist(head, tail) + Dist(at, head) = Len(queue)
      /\ Dist(at, tail) = Len(queue) /\ Stretch(mem, tail, queue)
      /\ circ_buf_space(at, tail, Size) > 1
  BY DEF RxRecord, Incoming, RxSound
<1>1. u.head = head /\ u.mem = [mem EXCEPT ![at] = byte] /\ u.tail = tail
  BY DEF RxRecord
<1>2. /\ bytes \in Seq(1..MaxIn) /\ Len(bytes) = 1 /\ bytes[1] = byte
      /\ queue \o bytes = Append(queue, byte)
  BY <1>0, AppendIsConcat
<1> HIDE DEF u, mem, head, tail, at
<1>3. Dist(head, tail) \in Index /\ Dist(at, head) \in Index /\ Dist(at, tail) \in Index
  BY <1>0, DistCases
<1>4. circ_buf_space(at, tail, Size) = Size - 1 - Dist(at, tail)  BY <1>0, SpaceLeft
<1>5. /\ Len(queue) + 1 < Size /\ Dist(at, tail) + 1 < Size /\ Dist(at, head) + 1 < Size
      /\ 1 \in 0..Size
  <2>1. Size - 1 - Dist(at, tail) > 1  BY <1>0, <1>4
  <2>2. Dist(at, tail) = Len(queue) /\ Dist(head, tail) + Dist(at, head) = Len(queue)  BY <1>0
  <2>3. Len(queue) + 1 < Size  BY <1>3, <2>1, <2>2, Sizes, SMT DEF Index
  <2>4. Dist(at, tail) + 1 < Size  BY <1>3, <2>1, Sizes, SMT DEF Index
  <2>5. Dist(at, head) + 1 < Size  BY <1>3, <2>1, <2>2, Sizes, SMT DEF Index
  <2> QED  BY <2>3, <2>4, <2>5, Sizes
<1>6. Overlaid(mem, at, bytes) = [mem EXCEPT ![at] = byte]
  <2>1. ASSUME NEW i \in Index
        PROVE  (LET k == Dist(i, at) + 1 IN IF k <= Len(bytes) THEN bytes[k] ELSE mem[i])
                  = IF i = at THEN byte ELSE mem[i]
    <3>1. Dist(i, at) = (IF i >= at THEN i - at ELSE i - at + Size) /\ Dist(i, at) \in Index
      BY <1>0, DistCases
    <3>2. Dist(i, at) + 1 <= 1 <=> i = at  BY <1>0, <3>1, Sizes, SMTT(30) DEF Index
    <3>3. i = at => Dist(i, at) + 1 = 1  BY <1>0, <3>1, Sizes, SMT DEF Index
    <3> QED  BY <1>2, <3>2, <3>3
  <2>2. Overlaid(mem, at, bytes) = [i \in Index |-> IF i = at THEN byte ELSE mem[i]]
    BY <2>1 DEF Overlaid
  <2> HIDE DEF bytes
  <2> QED  BY <1>0, <2>2
<1> HIDE DEF bytes
<1>7. Stretch(Overlaid(mem, at, bytes), tail, queue \o bytes)
  <2>1. Len(queue) + Len(bytes) < Size  BY <1>2, <1>5
  <2> QED  BY <1>0, <1>2, <2>1, StretchLonger
<1>8. Dist(to, tail) = Dist(at, tail) + 1  BY <1>0, <1>5, DistAhead
<1>9. Dist(to, head) = Dist(at, head) + 1  BY <1>0, <1>5, DistAhead
<1>10. Len(Append(queue, byte)) = Len(queue) + 1  BY <1>0
<1> HIDE DEF to
<1>11. RxSound(u, to, Append(queue, byte))
  <2>1. Dist(head, tail) + Dist(to, head) = Len(Append(queue, byte))
    BY <1>0, <1>3, <1>9, <1>10, SMT DEF Index
  <2> QED  BY <1>0, <1>1, <1>2, <1>6, <1>7, <1>8, <1>10, <2>1 DEF RxSound
<1> QED  BY <1>11 DEF u, to, at, mem, head, tail

-----------------------------------------------------------------------------
(* The host's side                                                          *)

LEMMA HostFrame ==
  ASSUME Host, rx'.head = rx.head, rx'.tail = rx.tail, rx'.mem = rx.mem, rx'.at = rx.at,
         due'.host = due.host, Apart' <=> Apart
  PROVE  Host'
  BY DEF Host, RxSound

\* In configuration mode both ends of the receive buffer are the shell's.
LEMMA HostApart ==
  ASSUME Types, Host, Apart
  PROVE  Dist(rx.head, rx.tail) = Len(due.host) /\ Stretch(rx.mem, rx.tail, due.host)
  BY DEF Host, RxSound

LEMMA ApartSound ==
  ASSUME NEW r \in RxRecord, NEW queue,
         Dist(r.head, r.tail) = Len(queue), Stretch(r.mem, r.tail, queue)
  PROVE  RxSound(r, r.head, queue)
<1>1. r.head \in Index /\ r.tail \in Index  BY DEF RxRecord
<1>2. Dist(r.head, r.head) = 0  BY <1>1, NoDistance
<1>3. Dist(r.head, r.tail) + 0 = Dist(r.head, r.tail)  BY <1>1, DistCases, SMT DEF Index
<1> QED  BY <1>2, <1>3 DEF RxSound

LEMMA HostInit == Init => RxModes /\ Host
<1> SUFFICES ASSUME Init PROVE RxModes /\ Host
  OBVIOUS
<1>1. Dist(0, 0) = 0  BY Sizes, NoDistance
<1>2. rx.head = 0 /\ rx.tail = 0 /\ rx.at = 0 /\ rx.re = FALSE /\ due.host = << >>
      /\ config = FALSE /\ pc = "event" /\ wrong = {}
  BY DEF Init
<1>3. Len(due.host) = 0 /\ 0 + 0 = 0 /\ Stretch(rx.mem, rx.tail, due.host)
  BY <1>2, Sizes, NothingLies
<1>4. Host  BY <1>1, <1>2, <1>3 DEF Host, RxSound
<1>5. RxModes  BY <1>2 DEF RxModes, Apart
<1> QED  BY <1>4, <1>5

\* The shell answers, however much it has read; or the device stops.
LEMMA ProcessHost ==
  ASSUME Types, RxModes, Host, config, NEW t \in TxRecord, NEW next, ProcessTx(t, next)
  PROVE  /\ pc' \in {next, "panic"} /\ wrong' \subseteq wrong \cup {"shell"}
         /\ RxSound(rx', rx'.head, due'.host) /\ rx'.at = rx.at /\ rx'.re = rx.re
<1> DEFINE read == Stored(t, out.bytes)
           n    == ForShell(read)
<1>0. Fields!2 /\ Counted  BY Fields DEF Types
<1>1. Dist(rx.head, rx.tail) = Len(due.host) /\ Stretch(rx.mem, rx.tail, due.host)
  BY HostApart DEF Apart
<1>2. CASE Len(out.bytes) < Space(t)
  <2>1. /\ wrong' = (IF Oldest(read, n) = out.bytes THEN wrong ELSE wrong \cup {"shell"})
        /\ ShellWrite(rx, due, n) /\ pc' = next
    BY <1>2 DEF ProcessTx
  <2>2. n \in Nat /\ n < Size
    <3>1. read \in TxRecord  BY <1>0, StoredTx
    <3>2. read.head \in Index /\ read.tail \in Index  BY <3>1 DEF TxRecord
    <3>3. Dist(read.head, read.tail) \in Index  BY <3>2, DistCases
    <3>4. n = Dist(read.head, read.tail)  BY DEF ForShell, Count, Dist
    <3> HIDE DEF n
    <3> QED  BY <3>3, <3>4, Sizes, SMT DEF Index
  <2> HIDE DEF read, n
  <2>3. /\ rx' = Written(rx, due.host, NewBytes(n)).rx
        /\ due' = [due EXCEPT !.host = Written(rx, due.host, NewBytes(n)).queue]
    BY <1>0, <2>1, <2>2, ShellWriteCases
  <2>4. due'.host = Written(rx, due.host, NewBytes(n)).queue  BY <1>0, <2>3
  <2>5. NewBytes(n) \in Incoming /\ Len(NewBytes(n)) < Size
    <3>1. NewBytes(n) \in Incoming /\ Len(NewBytes(n)) <= n  BY <1>0, <2>2, NewBytesType
    <3>2. Len(NewBytes(n)) \in Nat  BY <3>1 DEF Incoming
    <3> QED  BY <2>2, <3>1, <3>2, Sizes, SMT
  <2>6. /\ Dist(rx'.head, rx'.tail) = Len(due'.host) /\ Stretch(rx'.mem, rx'.tail, due'.host)
        /\ rx'.at = rx.at /\ rx'.re = rx.re
    BY <1>0, <1>1, <2>3, <2>4, <2>5, WrittenSound
  <2>7. rx' \in RxRecord  BY <1>0, <2>3, <2>5, WrittenType
  <2>8. RxSound(rx', rx'.head, due'.host)  BY <2>6, <2>7, ApartSound
  <2> QED  BY <2>1, <2>6, <2>8
<1>3. CASE ~(Len(out.bytes) < Space(t))
  <2>1. pc' = "panic" /\ UNCHANGED <<rx, due, wrong>>  BY <1>3 DEF ProcessTx
  <2>2. RxSound(rx, rx.head, due.host)  BY <1>0, <1>1, ApartSound
  <2> QED  BY <2>1, <2>2
<1> QED  BY <1>2, <1>3

LEMMA HostChannels ==
  ASSUME Types, Resumed, RxModes, Host, Fetch \/ TxComplete \/ Character
  PROVE  (RxModes /\ Host)'
<1>0. Fields!2 /\ Counted  BY Fields DEF Types
<1>1. CASE Fetch
  <2> DEFINE s == Taken("wire", due.wire, <<tx.mem[tx.src]>>)
  <2>1. /\ due' = [due EXCEPT !.wire = s.queue] /\ wrong' = s.wrong
        /\ UNCHANGED <<rx, put_off, enabled, config, pc, out, full, used>>
    BY <1>1 DEF Fetch
  <2>2. s.wrong \subseteq wrong \cup {"wire"}  BY DEF Taken
  <2> HIDE DEF s
  <2>3. due'.host = due.host /\ "host" \notin wrong'  BY <1>0, <2>1, <2>2 DEF RxModes
  <2>4. Apart' <=> Apart  BY <2>1 DEF Apart
  <2>5. Host'  BY <2>1, <2>3, <2>4, HostFrame
  <2>6. RxModes'  BY <2>1, <2>3, <2>4 DEF RxModes
  <2> QED  BY <2>5, <2>6
<1>2. CASE TxComplete
  <2> DEFINE t == [[tx EXCEPT !.tail = Advance(tx.tail, tx.last, Size), !.en = FALSE]
                     EXCEPT !.txa = FALSE]
  <2>1. UNCHANGED <<put_off, enabled, config, full>> /\ pc # "panic"  BY <1>2 DEF TxComplete
  <2>2. CASE UNCHANGED <<rx, pc, out, due, wrong, used>>
    <3>1. Apart' <=> Apart  BY <2>1, <2>2 DEF Apart
    <3>2. Host'  BY <2>2, <3>1, HostFrame
    <3>3. RxModes'  BY <2>1, <2>2, <3>1 DEF RxModes
    <3> QED  BY <3>2, <3>3
  <2>3. CASE config /\ ProcessTx(t, pc)
    <3>1. t \in TxRecord
      <4>1. tx.tail \in Index /\ tx.last \in Nat  BY <1>0, SMT DEF TxRecord, Index
      <4>2. Advance(tx.tail, tx.last, Size) \in Index  BY <4>1, AdvanceType
      <4> QED  BY <1>0, <4>2 DEF TxRecord
    <3> HIDE DEF t
    <3>2. /\ pc' \in {pc, "panic"} /\ wrong' \subseteq wrong \cup {"shell"}
          /\ RxSound(rx', rx'.head, due'.host) /\ rx'.at = rx.at /\ rx'.re = rx.re
      BY <2>3, <3>1, ProcessHost
    <3>3. Host'  BY <2>1, <2>3, <3>2 DEF Host, Apart
    <3>4. RxModes'  BY <2>1, <2>3, <3>2 DEF RxModes, Apart
    <3> QED  BY <3>3, <3>4
  <2> QED  BY <1>2, <2>2, <2>3 DEF TxComplete
<1>3. CASE Character
  <2> DEFINE byte == used.in + 1
             to   == Advance(rx.at, 1, Size)
  <2>1. /\ rx.re /\ used.in < MaxIn /\ circ_buf_space(rx.at, rx.tail, Size) > 1
        /\ rx' = [rx EXCEPT !.mem = [rx.mem EXCEPT ![rx.at] = byte], !.at = to]
        /\ due' = IF Apart THEN due ELSE [due EXCEPT !.host = Append(due.host, byte)]
        /\ UNCHANGED <<tx, put_off, enabled, config, pc, out, full, wrong>>
    BY <1>3 DEF Character, Apart
  <2>2. byte \in 1..MaxIn  BY <1>0, <2>1, Sizes, SMT DEF Counted
  <2> HIDE DEF byte, to
  <2>3. ~config /\ enabled  BY <2>1 DEF RxModes
  <2>4. rx'.re = rx.re /\ rx'.head = rx.head /\ rx'.tail = rx.tail /\ rx'.at = to
    BY <1>0, <2>1 DEF RxRecord
  <2>5. CASE Apart
    <3>1. due' = due /\ Apart' /\ due.host = << >>  BY <2>1, <2>3, <2>5 DEF RxModes, Apart
    <3>2. RxModes'  BY <2>1, <2>3, <3>1 DEF RxModes
    <3>3. RxSound(rx', rx'.head, << >>)
      <4>1. Dist(rx.head, rx.tail) = Len(due.host)  BY <2>5, HostApart
      <4>2. Dist(rx'.head, rx'.tail) = Len(<< >>)  BY <2>4, <3>1, <4>1
      <4>3. rx' \in RxRecord
        <5>1. Types'  BY <1>3, TypesChannels
        <5> QED  BY <5>1 DEF Types, TypeOK, RxRecord
      <4>4. Stretch(rx'.mem, rx'.tail, << >>)
        <5>1. rx'.tail \in Index  BY <4>3 DEF RxRecord
        <5> QED  BY <5>1, NothingLies
      <4> QED  BY <4>2, <4>3, <4>4, ApartSound
    <3>4. Host'  BY <3>1, <3>3 DEF Host
    <3> QED  BY <3>2, <3>4
  <2>6. CASE ~Apart
    <3>1. due'.host = Append(due.host, byte) /\ ~Apart'  BY <1>0, <2>1, <2>6 DEF Apart
    <3>2. RxModes'  BY <2>1, <2>3, <3>1 DEF RxModes, Apart
    <3>3. RxSound(rx, rx.at, due.host)  BY <2>6 DEF Host
    <3>4. RxSound([rx EXCEPT !.mem = [rx.mem EXCEPT ![rx.at] = byte], !.at = Advance(rx.at, 1, Size)],
                  Advance(rx.at, 1, Size), Append(due.host, byte))
      BY <1>0, <2>1, <2>2, <3>3, CharacterSound
    <3>5. RxSound(rx', rx'.at, due'.host)  BY <2>1, <2>4, <3>1, <3>4 DEF to
    <3>6. Host'  BY <3>1, <3>5 DEF Host
    <3> QED  BY <3>2, <3>6
  <2> QED  BY <2>5, <2>6
<1> QED  BY <1>1, <1>2, <1>3

LEMMA HostModes ==
  ASSUME MaxRestarts = 0, Types, RxModes, Host, Enter \/ Entered \/ Leave \/ Reset \/ Enable
  PROVE  (RxModes /\ Host)'
<1>0. Fields!2 /\ Counted  BY Fields DEF Types
<1>1. Dist(0, 0) = 0 /\ 0 \in Index /\ Len(<< >>) = 0 /\ 0 + 0 = 0
  <2>1. Dist(0, 0) = 0 /\ 0 \in Index  BY Sizes, NoDistance
  <2>2. Len(<< >>) = 0 /\ 0 + 0 = 0  OBVIOUS
  <2> QED  BY <2>1, <2>2
<1>2. ~(used.restart < MaxRestarts)
  <2>1. used.restart \in Nat  BY <1>0, SizeAssumption, SMT DEF Counted
  <2> QED  BY <2>1, SMT
<1>3. CASE Enter
  <2>1. /\ enabled /\ ~config /\ pc' = "enter"
        /\ rx' = Rewound(rx) /\ due' = [due EXCEPT !.host = << >>]
        /\ UNCHANGED <<put_off, enabled, config, out, full, wrong>>
    BY <1>3 DEF Enter, Go
  <2>2. due'.host = << >>  BY <1>0, <2>1
  <2>3. rx'.head = 0 /\ rx'.tail = 0  BY <1>0, <2>1 DEF Rewound, RxRecord
  <2>4. Apart'  BY <2>1 DEF Apart
  <2>5. Stretch(rx'.mem, rx'.tail, << >>)  BY <1>1, <2>3, NothingLies
  <2>6. Host'  BY <1>1, <2>2, <2>3, <2>4, <2>5 DEF Host, RxSound
  <2>7. RxModes'  BY <2>1, <2>2 DEF RxModes, Apart
  <2> QED  BY <2>6, <2>7
<1>4. CASE Entered
  <2> DEFINE r == [rx EXCEPT !.re = FALSE]
             d == [due EXCEPT !.wire = << >>]
  <2>1. /\ pc = "enter" /\ pc' = "sync" /\ ShellWrite(r, d, 1) /\ config' = TRUE
        /\ UNCHANGED <<put_off, enabled, out, full, wrong>>
    BY <1>4 DEF Entered, Go
  <2>2. /\ r \in RxRecord /\ r.re = FALSE /\ r.head = rx.head /\ r.tail = rx.tail
        /\ r.mem = rx.mem /\ r.at = rx.at
    BY <1>0 DEF RxRecord
  <2>3. d.host = due.host /\ d = [wire |-> << >>, host |-> due.host]  BY <1>0
  <2> HIDE DEF r, d
  <2>4. Apart /\ enabled  BY <2>1 DEF RxModes, Apart
  <2>5. /\ rx' = Written(r, due.host, NewBytes(1)).rx
        /\ due' = [d EXCEPT !.host = Written(r, due.host, NewBytes(1)).queue]
    BY <1>0, <2>1, <2>3, ShellWriteCases
  <2>6. due'.host = Written(r, due.host, NewBytes(1)).queue  BY <2>3, <2>5
  <2>7. NewBytes(1) \in Incoming /\ Len(NewBytes(1)) < Size
    <3>1. NewBytes(1) \in Incoming /\ Len(NewBytes(1)) <= 1  BY <1>0, NewBytesType
    <3>2. Len(NewBytes(1)) \in Nat  BY <3>1 DEF Incoming
    <3> QED  BY <3>1, <3>2, Sizes, SMT
  <2>8. Dist(r.head, r.tail) = Len(due.host) /\ Stretch(r.mem, r.tail, due.host)
    BY <2>2, <2>4, HostApart
  <2>9. /\ Dist(rx'.head, rx'.tail) = Len(due'.host) /\ Stretch(rx'.mem, rx'.tail, due'.host)
        /\ rx'.at = r.at /\ rx'.re = r.re
    BY <1>0, <2>2, <2>5, <2>6, <2>7, <2>8, WrittenSound
  <2>10. rx' \in RxRecord  BY <1>0, <2>2, <2>5, <2>7, WrittenType
  <2>11. RxSound(rx', rx'.head, due'.host)  BY <2>9, <2>10, ApartSound
  <2>12. Host'  BY <2>1, <2>11 DEF Host, Apart
  <2>13. RxModes'  BY <2>1, <2>2, <2>4, <2>9 DEF RxModes
  <2> QED  BY <2>12, <2>13
<1>5. CASE Leave
  <2>1. /\ enabled /\ rx' = [rx EXCEPT !.head = rx.at, !.tail = rx.at, !.re = TRUE]
        /\ due' = [wire |-> << >>, host |-> << >>] /\ config' = FALSE /\ pc' = "sync"
        /\ UNCHANGED <<put_off, enabled, out, full, wrong>>
    BY <1>5 DEF Leave, Go, FromHead
  <2>2. rx'.head = rx.at /\ rx'.tail = rx.at /\ rx'.at = rx.at /\ rx.at \in Index
    BY <1>0, <2>1 DEF RxRecord
  <2>3. Dist(rx.at, rx.at) = 0  BY <2>2, NoDistance
  <2>4. Stretch(rx'.mem, rx'.tail, << >>)  BY <2>2, NothingLies
  <2>5. Host'  BY <1>1, <2>1, <2>2, <2>3, <2>4 DEF Host, RxSound
  <2>6. RxModes'  BY <2>1 DEF RxModes, Apart
  <2> QED  BY <2>5, <2>6
<1>6. CASE Reset
  BY <1>2, <1>6 DEF Reset
<1>7. CASE Enable
  <2>1. /\ ~enabled /\ enabled' = TRUE /\ rx' = [rx EXCEPT !.at = 0, !.en = TRUE, !.re = TRUE]
        /\ pc = "event" /\ pc' = "sync"
        /\ UNCHANGED <<tx, put_off, config, out, full, due, wrong>>
    BY <1>2, <1>7 DEF Enable, Go
  <2>2. ~Apart /\ rx.at = 0  BY <2>1 DEF RxModes
  <2>3. ~Apart'  BY <2>1, <2>2 DEF Apart
  <2>4. rx'.head = rx.head /\ rx'.tail = rx.tail /\ rx'.mem = rx.mem /\ rx'.at = 0
    BY <1>0, <2>1 DEF RxRecord
  <2>5. Host'  BY <2>1, <2>2, <2>3, <2>4, HostFrame
  <2>6. RxModes'  BY <2>1, <2>3 DEF RxModes, Apart
  <2> QED  BY <2>5, <2>6
<1> QED  BY <1>3, <1>4, <1>5, <1>6, <1>7

LEMMA HostLoop ==
  ASSUME Types, RxModes, Host, DataReceived \/ OtherEvent \/ Sync \/ SendRx \/ PollDeferred
  PROVE  (RxModes /\ Host)'
<1>0. Fields!2 /\ Counted  BY Fields DEF Types
<1>1. CASE DataReceived
  <2>0. UNCHANGED <<enabled, config, full>>  BY <1>1 DEF DataReceived
  <2>1. CASE config /\ ProcessTx(tx, "sync")
    <3>1. /\ pc' \in {"sync", "panic"} /\ wrong' \subseteq wrong \cup {"shell"}
          /\ RxSound(rx', rx'.head, due'.host) /\ rx'.at = rx.at /\ rx'.re = rx.re
      BY <1>0, <2>1, ProcessHost
    <3>2. Host'  BY <2>0, <2>1, <3>1 DEF Host, Apart
    <3>3. RxModes'  BY <2>0, <2>1, <3>1 DEF RxModes, Apart
    <3> QED  BY <3>2, <3>3
  <2>2. CASE ~config /\ pc = "event" /\ pc' = "sync" /\ due'.host = due.host /\ UNCHANGED <<rx, wrong>>
    <3>1. ~Apart /\ ~Apart'  BY <2>0, <2>2 DEF Apart
    <3>2. Host'  BY <2>2, <3>1, HostFrame
    <3>3. RxModes'  BY <2>0, <2>2, <3>1 DEF RxModes
    <3> QED  BY <3>2, <3>3
  <2> QED  BY <1>1, <2>1, <2>2, TransmitTypes DEF DataReceived, Go
<1>2. CASE OtherEvent
  <2>1. pc = "event" /\ pc' = "sync" /\ UNCHANGED <<rx, enabled, config, due, wrong>>
    BY <1>2 DEF OtherEvent, Go
  <2>2. Apart' <=> Apart  BY <2>1 DEF Apart
  <2>3. Host'  BY <2>1, <2>2, HostFrame
  <2>4. RxModes'  BY <2>1, <2>2 DEF RxModes
  <2> QED  BY <2>3, <2>4
<1>3. CASE Sync
  <2>1. /\ pc = "sync" /\ pc' = "send"
        /\ rx' = IF config THEN rx ELSE [rx EXCEPT !.head = rx.at]
        /\ UNCHANGED <<enabled, config, due, wrong>>
    BY <1>3 DEF Sync, Go, SyncAllowed
  <2>2. Apart' <=> Apart  BY <2>1 DEF Apart
  <2>3. CASE config
    <3>1. rx' = rx  BY <2>1, <2>3
    <3>2. Host'  BY <2>1, <2>2, <3>1, HostFrame
    <3>3. RxModes'  BY <2>1, <2>2, <3>1 DEF RxModes
    <3> QED  BY <3>2, <3>3
  <2>4. CASE ~config
    <3>1. /\ rx'.head = rx.at /\ rx'.tail = rx.tail /\ rx'.at = rx.at /\ rx'.mem = rx.mem
          /\ rx'.re = rx.re /\ rx.at \in Index /\ rx.tail \in Index
      BY <1>0, <2>1, <2>4 DEF RxRecord
    <3>2. ~Apart /\ ~Apart'  BY <2>1, <2>2, <2>4 DEF Apart
    <3>3. Dist(rx.at, rx.tail) = Len(due.host) /\ Stretch(rx.mem, rx.tail, due.host)
      BY <3>2 DEF Host, RxSound
    <3>4. Dist(rx.at, rx.at) = 0 /\ Dist(rx.at, rx.tail) + 0 = Dist(rx.at, rx.tail)
      BY <3>1, NoDistance, DistCases, SMT DEF Index
    <3>5. RxSound(rx', rx'.at, due'.host)  BY <2>1, <3>1, <3>3, <3>4 DEF RxSound
    <3>6. Host'  BY <3>2, <3>5 DEF Host
    <3>7. RxModes'  BY <2>1, <2>2, <3>1 DEF RxModes
    <3> QED  BY <3>6, <3>7
  <2> QED  BY <2>3, <2>4
<1>4. CASE SendRx
  <2> DEFINE n    == IF Count(rx) < Packet THEN Count(rx) ELSE Packet
             s    == Taken("host", due.host, Oldest(rx, n))
             upto == IF Apart THEN rx.head ELSE rx.at
  <2>1. pc = "send" /\ pc' = "deferred" /\ UNCHANGED <<enabled, config>>
    BY <1>4 DEF SendRx, Go
  <2>2. Apart' <=> Apart  BY <2>1 DEF Apart
  <2>3. CASE UNCHANGED <<full, rx, due, wrong>>
    <3>1. Host'  BY <2>2, <2>3, HostFrame
    <3>2. RxModes'  BY <2>1, <2>2, <2>3 DEF RxModes
    <3> QED  BY <3>1, <3>2
  <2>4. CASE /\ Count(rx) > 0 /\ rx' = [rx EXCEPT !.tail = Advance(rx.tail, n, Size)]
             /\ due' = [due EXCEPT !.host = s.queue] /\ wrong' = s.wrong
    <3>1. rx.head \in Index /\ rx.tail \in Index /\ rx.at \in Index  BY <1>0 DEF RxRecord
    <3>2. Count(rx) \in Nat
      <4>1. Dist(rx.head, rx.tail) \in Index  BY <3>1, DistCases
      <4> QED  BY <4>1, SMT DEF Count, Dist, Index
    <3>3. n \in 0..Count(rx)  BY <3>2, Sizes, SMT
    <3>4. upto \in Index /\ RxSound(rx, upto, due.host)  BY <3>1 DEF Host
    <3> HIDE DEF n, upto
    <3>5. /\ IsPrefix(Oldest(rx, n), due.host) /\ Len(Oldest(rx, n)) = n
          /\ RxSound([rx EXCEPT !.tail = Advance(rx.tail, n, Size)], upto,
                     SubSeq(due.host, n + 1, Len(due.host)))
      BY <1>0, <3>3, <3>4, SendSound
    <3>6. s.queue = SubSeq(due.host, n + 1, Len(due.host)) /\ s.wrong = wrong
      <4>1. s = [queue |-> SubSeq(due.host, Len(Oldest(rx, n)) + 1, Len(due.host)), wrong |-> wrong]
        BY <3>5 DEF Taken
      <4> HIDE DEF s
      <4> QED  BY <3>5, <4>1
    <3> HIDE DEF s
    <3>7. due'.host = SubSeq(due.host, n + 1, Len(due.host))  BY <1>0, <2>4, <3>6
    <3>8. rx'.head = rx.head /\ rx'.at = rx.at /\ rx'.re = rx.re  BY <1>0, <2>4 DEF RxRecord
    <3>9. RxSound(rx', upto, due'.host)  BY <2>4, <3>5, <3>7
    <3>10. Host'  BY <2>2, <3>8, <3>9 DEF Host, upto
    <3>11. enabled
      <4>1. ~enabled => Count(rx) = 0
        <5>1. Dist(0, 0) = 0  BY Sizes, NoDistance
        <5> QED  BY <5>1 DEF RxModes, Count, Dist
      <4> QED  BY <2>4, <3>2, <4>1, SMT
    <3>12. RxModes'  BY <2>1, <2>2, <2>4, <3>6, <3>8, <3>11 DEF RxModes
    <3> QED  BY <3>10, <3>12
  <2> QED  BY <1>4, <2>3, <2>4 DEF SendRx
<1>5. CASE PollDeferred
  <2>1. pc = "deferred" /\ pc' = "event" /\ UNCHANGED <<rx, enabled, config, wrong>>
    BY <1>5 DEF PollDeferred, Go
  <2>2. Apart' <=> Apart  BY <2>1 DEF Apart
  <2>3. due'.host = due.host  BY <1>5, TransmitTypes DEF PollDeferred
  <2>4. Host'  BY <2>1, <2>2, <2>3, HostFrame
  <2>5. RxModes'  BY <2>1, <2>2 DEF RxModes
  <2> QED  BY <2>4, <2>5
<1> QED  BY <1>1, <1>2, <1>3, <1>4, <1>5

LEMMA HostsHost ==
  ASSUME RxModes, Host, HostSends \/ HostReads \/ UNCHANGED vars
  PROVE  (RxModes /\ Host)'
<1>1. UNCHANGED <<rx, enabled, config, pc, due, wrong>>
  BY DEF HostSends, HostReads, vars
<1>2. Apart' <=> Apart  BY <1>1 DEF Apart
<1>3. Host'  BY <1>1, <1>2, HostFrame
<1>4. RxModes'  BY <1>1, <1>2 DEF RxModes
<1> QED  BY <1>3, <1>4

\* While the device is configured once, nothing that happens to port 0 disturbs what goes to
\* the host: it gets the characters received and the bytes the shell wrote, in order, once and
\* nothing else, even if a change of mode comes in the middle of a transmission or upon a
\* packet that was put off, and even if the shell gets what is not meant for it.
THEOREM HostUndisturbed == ASSUME MaxRestarts = 0 PROVE Spec => []HostGetsReceived
<1>1. Init => Types /\ Resumed /\ RxModes /\ Host
  BY TypeInit, HostInit DEF Init, Resumed
<1>2. Types /\ Resumed /\ RxModes /\ Host /\ [Next]_vars => (Types /\ Resumed /\ RxModes /\ Host)'
  <2> SUFFICES ASSUME Types, Resumed, RxModes, Host, [Next]_vars
               PROVE  (Types /\ Resumed /\ RxModes /\ Host)'
    OBVIOUS
  <2>1. Types' /\ Resumed'  BY TypesStep, ResumedStep
  <2>2. (RxModes /\ Host)'
    BY HostChannels, HostModes, HostLoop, HostsHost DEF Next, MainLoop
  <2> QED  BY <2>1, <2>2
<1>3. RxModes => HostGetsReceived  BY DEF RxModes, HostGetsReceived
<1> QED  BY <1>1, <1>2, <1>3, PTL DEF Spec

-----------------------------------------------------------------------------
(* The wire's and the shell's side                                          *)

\* The device is configured once, the pin changes while the channel is idle and nothing is put
\* off, and a packet leaves room in an empty buffer: without any of the first three, the model
\* finds bytes that go astray.
Lone == Quiet /\ Handled /\ MaxRestarts = 0 /\ Packet + 1 < Size

LEMMA WireFrame == ASSUME Wire, UNCHANGED tx, due'.wire = due.wire PROVE Wire'
  BY DEF Wire

LEMMA WireInit == Init => TxModes /\ Wire
<1> SUFFICES ASSUME Init PROVE TxModes /\ Wire
  OBVIOUS
<1>1. Dist(0, 0) = 0  BY Sizes, NoDistance
<1>2. /\ tx.en = FALSE /\ tx.head = 0 /\ tx.tail = 0 /\ tx.src = 0 /\ due.wire = << >>
      /\ config = FALSE /\ pc = "event" /\ wrong = {}
  BY DEF Init
<1>3. Count(tx) = 0  BY <1>1, <1>2 DEF Count, Dist
<1>4. Wire  BY <1>2, <1>3, Sizes, NothingLies DEF Wire, TxSound
<1>5. TxModes  BY <1>2 DEF TxModes, Apart
<1> QED  BY <1>4, <1>5

\* The packet that arrives in configuration mode is all that the shell reads, there is room
\* for it, and the wire is left alone.
LEMMA ProcessWire ==
  ASSUME Lone, Types, TxModes, Wire, config, ProcessTx(tx, "sync")
  PROVE  pc' = "sync" /\ wrong' = wrong /\ tx'.en = FALSE /\ Wire'
<1> DEFINE bytes == out.bytes
           read  == Stored(tx, bytes)
           n     == ForShell(read)
<1>0. Fields!2 /\ Counted  BY Fields DEF Types
<1>1. /\ ~tx.en /\ Dist(tx.head, tx.tail) = 0 /\ due.wire = << >>
      /\ tx.head \in Index /\ tx.tail \in Index /\ tx.src \in Index
  <2>1. ~tx.en  BY DEF TxModes, Apart
  <2>2. Count(tx) = 0 /\ due.wire = << >>  BY <2>1 DEF Wire, TxSound
  <2> QED  BY <1>0, <2>1, <2>2 DEF Count, Dist, TxRecord
<1>2. /\ bytes \in Outgoing /\ bytes \in Seq(1..MaxOut) /\ Len(bytes) \in Nat /\ Len(bytes) <= Packet
  BY <1>0 DEF Outgoing
<1>3. Packet + 1 < Size  BY DEF Lone
<1>4. Len(bytes) < Space(tx) /\ Len(bytes) < Size /\ Len(bytes) <= Len(bytes)
  <2>1. Space(tx) = Size - 1 - Dist(tx.head, tx.tail)  BY <1>1, SpaceLeft DEF Space
  <2>2. Len(bytes) < Size - 1 - 0 /\ Len(bytes) < Size /\ Len(bytes) <= Len(bytes)
    BY <1>2, <1>3, Sizes, SMT
  <2> QED  BY <1>1, <2>1, <2>2
<1>5. /\ tx' = [read EXCEPT !.tail = Advance(read.tail, n, Size)]
      /\ wrong' = (IF Oldest(read, n) = bytes THEN wrong ELSE wrong \cup {"shell"})
      /\ ShellWrite(rx, due, n) /\ pc' = "sync"
  BY <1>4 DEF ProcessTx
<1>6. read \in TxRecord /\ read.en = FALSE /\ read.src = tx.src
  <2>1. /\ read \in TxRecord
        /\ read = [tx EXCEPT !.head = Advance(tx.head, Len(bytes), Size),
                             !.mem = Overlaid(tx.mem, tx.head, bytes)]
    BY <1>0, <1>2, StoredTx
  <2> HIDE DEF read
  <2> QED  BY <1>0, <1>1, <2>1 DEF TxRecord
<1>7. Stretch(read.mem, read.tail, bytes) /\ Dist(read.head, read.tail) = Len(bytes)
  BY <1>0, <1>1, <1>2, <1>4, StoredFirst
<1>8. n = Len(bytes)  BY <1>7 DEF ForShell, Count, Dist
<1> HIDE DEF read, n, bytes
<1>9. n \in Nat /\ n \in 0..Len(bytes)  BY <1>2, <1>4, <1>8, SMT
<1>10. Oldest(read, n) = bytes
  <2>1. read.tail \in Index  BY <1>6 DEF TxRecord
  <2>2. Oldest(read, n) = SubSeq(bytes, 1, n)  BY <1>2, <1>4, <1>7, <1>9, <2>1, OldestFirst
  <2>3. SubSeq(bytes, 1, Len(bytes)) = bytes  BY <1>2, SubSeqFull
  <2> QED  BY <1>8, <2>2, <2>3
<1>11. wrong' = wrong  BY <1>5, <1>10
<1>12. tx'.en = FALSE /\ tx'.src \in Index /\ Count(tx') = 0
  <2>1. /\ tx'.en = read.en /\ tx'.src = tx.src /\ tx'.head = read.head
        /\ tx'.tail = Advance(read.tail, n, Size)
    BY <1>5, <1>6 DEF TxRecord
  <2>2. read.head \in Index /\ read.tail \in Index  BY <1>6 DEF TxRecord
  <2>3. n \in 0..Dist(read.head, read.tail)  BY <1>7, <1>9
  <2>4. Dist(read.head, Advance(read.tail, n, Size)) = Dist(read.head, read.tail) - n
    BY <2>2, <2>3, DistBehind
  <2>5. n - n = 0  BY <1>9, SMT
  <2>6. Dist(read.head, Advance(read.tail, n, Size)) = 0  BY <1>7, <1>8, <2>4, <2>5
  <2> QED  BY <1>1, <1>6, <2>1, <2>6 DEF Count, Dist
<1>13. Wire'
  <2>1. due' = [due EXCEPT !.host = Written(rx, due.host, NewBytes(n)).queue]
    BY <1>0, <1>5, <1>9, ShellWriteCases
  <2>2. due'.wire = << >>  BY <1>0, <1>1, <2>1
  <2>3. Stretch(tx'.mem, tx'.src, << >>)  BY <1>12, NothingLies
  <2> QED  BY <1>12, <2>2, <2>3 DEF Wire, TxSound
<1> QED  BY <1>5, <1>11, <1>12, <1>13

LEMMA TransmitSound ==
  ASSUME Types, Wire, Fits, Transmit
  PROVE  Wire'
<1>0. Fields!2  BY Fields DEF Types
<1>1. tx' = StartTx(Stored(tx, out.bytes)) /\ due'.wire = due.wire \o out.bytes
  BY TransmitTypes DEF Transmit
<1>2. TxSound(StartTx(Stored(tx, out.bytes)), due.wire \o out.bytes)
  BY <1>0, StoreSound DEF Wire, Fits
<1> QED  BY <1>1, <1>2 DEF Wire

LEMMA WireChannels ==
  ASSUME Types, TxModes, Wire, Fetch \/ TxComplete \/ Character
  PROVE  (TxModes /\ Wire)'
<1>0. Fields!2 /\ Counted  BY Fields DEF Types
<1>1. CASE Fetch
  <2> DEFINE s == Taken("wire", due.wire, <<tx.mem[tx.src]>>)
  <2>1. /\ tx.en /\ tx.left > 0
        /\ tx' = [tx EXCEPT !.src = Advance(tx.src, 1, Size), !.left = tx.left - 1]
        /\ due' = [due EXCEPT !.wire = s.queue] /\ wrong' = s.wrong
        /\ UNCHANGED <<put_off, config, pc>>
    BY <1>1 DEF Fetch
  <2>2. /\ IsPrefix(<<tx.mem[tx.src]>>, due.wire)
        /\ TxSound([tx EXCEPT !.src = Advance(tx.src, 1, Size), !.left = tx.left - 1],
                   SubSeq(due.wire, 2, Len(due.wire)))
    BY <1>0, <2>1, FetchSound DEF Wire
  <2>3. s.queue = SubSeq(due.wire, 2, Len(due.wire)) /\ s.wrong = wrong
    <3> DEFINE byte == <<tx.mem[tx.src]>>
    <3>1. Len(byte) = 1 /\ 1 + 1 = 2  OBVIOUS
    <3>2. s = [queue |-> SubSeq(due.wire, Len(byte) + 1, Len(due.wire)), wrong |-> wrong]
      BY <2>2 DEF Taken
    <3> HIDE DEF byte, s
    <3> QED  BY <3>1, <3>2
  <2> HIDE DEF s
  <2>4. due'.wire = SubSeq(due.wire, 2, Len(due.wire))  BY <1>0, <2>1, <2>3
  <2>5. Wire'  BY <2>1, <2>2, <2>4 DEF Wire
  <2>6. ~Apart  BY <2>1 DEF TxModes
  <2>7. TxModes'  BY <2>1, <2>3, <2>6 DEF TxModes, Apart
  <2> QED  BY <2>5, <2>7
<1>2. CASE TxComplete
  <2> DEFINE t == [tx EXCEPT !.tail = Advance(tx.tail, tx.last, Size), !.en = FALSE]
  <2>1. tx.en /\ tx.left = 0  BY <1>2 DEF TxComplete, TxDone
  <2>2. ~Apart  BY <2>1 DEF TxModes
  <2>3. tx' = StartTx(t) /\ UNCHANGED <<pc, due, wrong, put_off, config>>
    BY <1>2, <2>2 DEF TxComplete, Apart
  <2>4. TxSound(StartTx(t), due.wire)  BY <1>0, <2>1, CompleteSound DEF Wire
  <2> HIDE DEF t
  <2>5. Wire'  BY <2>3, <2>4 DEF Wire
  <2>6. TxModes'  BY <2>2, <2>3 DEF TxModes, Apart
  <2> QED  BY <2>5, <2>6
<1>3. CASE Character
  <2>1. /\ UNCHANGED <<tx, put_off, config, pc, wrong>>
        /\ due' = due \/ due' = [due EXCEPT !.host = Append(due.host, used.in + 1)]
    BY <1>3 DEF Character
  <2>2. due'.wire = due.wire  BY <1>0, <2>1
  <2>3. Wire'  BY <2>1, <2>2, WireFrame
  <2>4. TxModes'  BY <2>1 DEF TxModes, Apart
  <2> QED  BY <2>3, <2>4
<1> QED  BY <1>1, <1>2, <1>3

LEMMA WireModes ==
  ASSUME Lone, Types, TxModes, Wire, Enter \/ Entered \/ Leave \/ Reset \/ Enable
  PROVE  (TxModes /\ Wire)'
<1>0. Fields!2 /\ Counted  BY Fields DEF Types
<1>1. ~(used.restart < MaxRestarts)
  <2>1. used.restart \in Nat  BY <1>0, SizeAssumption, SMT DEF Counted
  <2>2. MaxRestarts = 0  BY DEF Lone
  <2> QED  BY <2>1, <2>2, SMT
<1>2. ASSUME ~tx.en, tx' = Rewound(tx), due'.wire = << >> PROVE Wire'
  <2>1. tx'.head = 0 /\ tx'.tail = 0 /\ tx'.en = tx.en /\ tx'.src = tx.src
    BY <1>0, <1>2 DEF Rewound, TxRecord
  <2>2. Count(tx') = 0
    <3>1. Dist(0, 0) = 0  BY Sizes, NoDistance
    <3> QED  BY <2>1, <3>1 DEF Count, Dist
  <2>3. Stretch(tx'.mem, tx'.src, << >>)  BY <1>0, <2>1, NothingLies DEF TxRecord
  <2> QED  BY <1>2, <2>1, <2>2, <2>3 DEF Wire, TxSound
<1>3. CASE Enter
  <2>1. /\ ~tx.en /\ ~put_off /\ pc' = "enter" /\ tx' = Rewound(tx)
        /\ due' = [due EXCEPT !.host = << >>] /\ UNCHANGED <<put_off, config, wrong>>
    BY <1>3 DEF Enter, Go, Lone
  <2>2. due.wire = << >>  BY <2>1 DEF Wire, TxSound
  <2>3. due'.wire = << >>  BY <1>0, <2>1, <2>2
  <2>4. Wire'  BY <1>2, <2>1, <2>3
  <2>5. tx'.en = tx.en  BY <1>0, <2>1 DEF Rewound, TxRecord
  <2>6. TxModes'  BY <2>1, <2>5 DEF TxModes
  <2> QED  BY <2>4, <2>6
<1>4. CASE Entered
  <2> DEFINE d == [due EXCEPT !.wire = << >>]
  <2>1. /\ pc = "enter" /\ pc' = "sync" /\ ShellWrite([rx EXCEPT !.re = FALSE], d, 1)
        /\ tx' = [tx EXCEPT !.en = FALSE] /\ UNCHANGED <<put_off, wrong>>
    BY <1>4 DEF Entered, Go
  <2>2. d = [wire |-> << >>, host |-> due.host]  BY <1>0
  <2> HIDE DEF d
  <2>3. ~tx.en /\ ~put_off  BY <2>1 DEF TxModes, Apart
  <2>4. tx' = tx
    <3>1. tx.en = FALSE  BY <1>0, <2>3 DEF TxRecord
    <3> QED  BY <1>0, <2>1, <3>1 DEF TxRecord
  <2>5. due.wire = << >>  BY <2>3 DEF Wire, TxSound
  <2>6. due'.wire = << >>
    <3>1. PICK queue : due' = [d EXCEPT !.host = queue]  BY <2>1 DEF ShellWrite
    <3> QED  BY <2>2, <3>1
  <2>7. Wire'  BY <2>4, <2>5, <2>6, WireFrame
  <2>8. TxModes'  BY <2>1, <2>3, <2>4 DEF TxModes
  <2> QED  BY <2>7, <2>8
<1>5. CASE Leave
  <2>1. /\ config /\ tx' = Rewound(tx) /\ due' = [wire |-> << >>, host |-> << >>]
        /\ config' = FALSE /\ pc' = "sync" /\ UNCHANGED <<put_off, wrong>>
    BY <1>5 DEF Leave, Go
  <2>2. ~tx.en  BY <2>1 DEF TxModes, Apart
  <2>3. due'.wire = << >>  BY <2>1
  <2>4. Wire'  BY <1>2, <2>1, <2>2, <2>3
  <2>5. TxModes'  BY <2>1 DEF TxModes, Apart
  <2> QED  BY <2>4, <2>5
<1>6. CASE Reset
  BY <1>1, <1>6 DEF Reset
<1>7. CASE Enable
  <2>1. pc = "event" /\ pc' = "sync" /\ UNCHANGED <<tx, put_off, config, due, wrong>>
    BY <1>7 DEF Enable, Go
  <2>2. Wire'  BY <2>1, WireFrame
  <2>3. TxModes'  BY <2>1 DEF TxModes, Apart
  <2> QED  BY <2>2, <2>3
<1> QED  BY <1>3, <1>4, <1>5, <1>6, <1>7

LEMMA WireLoop ==
  ASSUME Lone, Types, TxModes, Wire,
         DataReceived \/ OtherEvent \/ Sync \/ SendRx \/ PollDeferred
  PROVE  (TxModes /\ Wire)'
<1>0. Fields!2 /\ Counted  BY Fields DEF Types
<1>1. CASE DataReceived
  <2>0. config' = config  BY <1>1 DEF DataReceived
  <2>1. CASE config /\ ProcessTx(tx, "sync") /\ UNCHANGED put_off
    <3>1. pc' = "sync" /\ wrong' = wrong /\ tx'.en = FALSE /\ Wire'
      BY <2>1, ProcessWire
    <3>2. ~put_off'  BY <2>1 DEF TxModes, Apart
    <3>3. TxModes'  BY <3>1, <3>2 DEF TxModes
    <3> QED  BY <3>1, <3>3
  <2>2. CASE ~config /\ pc' = "sync" /\ UNCHANGED <<tx, due, wrong>>
    <3>1. ~Apart'  BY <2>0, <2>2 DEF Apart
    <3>2. Wire'  BY <2>2, WireFrame
    <3>3. TxModes'  BY <2>2, <3>1 DEF TxModes
    <3> QED  BY <3>2, <3>3
  <2>3. CASE ~config /\ Fits /\ Transmit /\ pc' = "sync" /\ UNCHANGED wrong
    <3>1. ~Apart'  BY <2>0, <2>3 DEF Apart
    <3>2. Wire'  BY <2>3, TransmitSound
    <3>3. TxModes'  BY <2>3, <3>1 DEF TxModes
    <3> QED  BY <3>2, <3>3
  <2> QED  BY <1>1, <2>1, <2>2, <2>3 DEF DataReceived, Go
<1>2. CASE OtherEvent \/ Sync
  <2>1. /\ \/ pc = "event" /\ pc' = "sync"
           \/ pc = "sync" /\ pc' = "send"
        /\ UNCHANGED <<tx, put_off, config, due, wrong>>
    BY <1>2 DEF OtherEvent, Sync, Go
  <2>2. Wire'  BY <2>1, WireFrame
  <2>3. TxModes'  BY <2>1 DEF TxModes, Apart
  <2> QED  BY <2>2, <2>3
<1>3. CASE SendRx
  <2>1. pc = "send" /\ pc' = "deferred" /\ UNCHANGED <<tx, put_off, config>>
    BY <1>3 DEF SendRx, Go
  <2>2. due'.wire = due.wire /\ wrong' \subseteq wrong \cup {"host"}
    BY <1>0, <1>3 DEF SendRx, Taken
  <2>3. Wire'  BY <2>1, <2>2, WireFrame
  <2>4. TxModes'  BY <2>1, <2>2 DEF TxModes, Apart
  <2> QED  BY <2>3, <2>4
<1>4. CASE PollDeferred
  <2>1. pc = "deferred" /\ pc' = "event" /\ UNCHANGED <<config, wrong>>
    BY <1>4 DEF PollDeferred, Go
  <2>2. CASE put_off /\ Fits /\ Transmit
    <3>1. ~Apart /\ ~Apart'  BY <2>1, <2>2 DEF TxModes, Apart
    <3>2. Wire'  BY <2>2, TransmitSound
    <3>3. TxModes'  BY <2>1, <3>1 DEF TxModes
    <3> QED  BY <3>2, <3>3
  <2>3. CASE UNCHANGED <<tx, put_off, out, due>>
    <3>1. Wire'  BY <2>3, WireFrame
    <3>2. TxModes'  BY <2>1, <2>3 DEF TxModes, Apart
    <3> QED  BY <3>1, <3>2
  <2> QED  BY <1>4, <2>2, <2>3 DEF PollDeferred
<1> QED  BY <1>1, <1>2, <1>3, <1>4

LEMMA WireHost ==
  ASSUME TxModes, Wire, HostSends \/ HostReads \/ UNCHANGED vars
  PROVE  (TxModes /\ Wire)'
<1>1. UNCHANGED <<tx, put_off, config, pc, due, wrong>>
  BY DEF HostSends, HostReads, vars
<1>2. Wire'  BY <1>1, WireFrame
<1>3. TxModes'  BY <1>1 DEF TxModes, Apart
<1> QED  BY <1>2, <1>3

\* Whatever the lengths of packets and buffers, in every order of characters, packets, polls,
\* completions and changes of mode: the shell gets what was typed, the wire what was sent for
\* it and the host what was received or answered, in order, once, and nothing else.
THEOREM NobodysElse == ASSUME Lone PROVE Spec => []NothingAstray
<1>1. Init => TxModes /\ Wire  BY WireInit
<1>2. Types /\ Resumed /\ TxModes /\ Wire /\ [Next]_vars => (TxModes /\ Wire)'
  BY WireChannels, WireModes, WireLoop, WireHost DEF Next, MainLoop
<1>3. TxModes => ShellGetsTyped /\ WireGetsSent  BY DEF TxModes, ShellGetsTyped, WireGetsSent
<1>4. Spec => [](Types /\ Resumed)  BY TypesHold
<1>5. Spec => [](ShellGetsTyped /\ WireGetsSent)
  BY <1>1, <1>2, <1>3, <1>4, PTL DEF Spec
<1>6. Spec => []HostGetsReceived  BY HostUndisturbed DEF Lone
<1> QED  BY <1>5, <1>6, PTL DEF NothingAstray
=============================================================================
