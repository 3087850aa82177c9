-------------------------- MODULE PacketMemoryProofs --------------------------
(***************************************************************************)
(* Theorems about PacketMemory.                                            *)
(***************************************************************************)
EXTENDS PacketMemory, TLAPS

\* What usb_descriptors.c chooses: sizes that the block counts can say, that fit the
\* memory behind the buffer table, and that a buffer of the software can hold.
Blocked(size) == IF size > SmallLimit THEN size % LargeBlock = 0 ELSE size % SmallBlock = 0

Fitting ==
  /\ Blocked(ControlSize) /\ Blocked(SmallSize) /\ Blocked(LargeSize)
  /\ InterruptSize % SmallBlock = 0
  /\ BtableSize + 2 * ControlSize + 3 * InterruptSize + 2 * SmallSize + 4 * LargeSize <= Memory
  /\ \A size \in {ControlSize, InterruptSize, SmallSize, LargeSize} : size < Size

-----------------------------------------------------------------------------
(* The layout.                                                              *)

LEMMA Constants ==
  /\ ControlSize \in Nat /\ InterruptSize \in Nat /\ SmallSize \in Nat /\ LargeSize \in Nat
  /\ Memory \in Nat /\ Size \in Nat \ {0} /\ Size \in Nat
  BY SizeAssumption

LEMMA SevenEndpoints == Len(Table) = 7 /\ Endpoints = 0..6 /\ BtableSize = 112
<1>1. Len(Table) = 7  BY DEF Table
<1> QED  BY <1>1, SMT DEF Endpoints, BtableSize

\* The sizes of the endpoints, one by one
LEMMA Descriptors ==
  /\ usb_endpoints[0].tx = ControlSize /\ usb_endpoints[0].rx = ControlSize
  /\ usb_endpoints[1].tx = InterruptSize /\ usb_endpoints[1].rx = 0
  /\ usb_endpoints[2].tx = SmallSize /\ usb_endpoints[2].rx = SmallSize
  /\ usb_endpoints[3].tx = InterruptSize /\ usb_endpoints[3].rx = 0
  /\ usb_endpoints[4].tx = LargeSize /\ usb_endpoints[4].rx = LargeSize
  /\ usb_endpoints[5].tx = InterruptSize /\ usb_endpoints[5].rx = 0
  /\ usb_endpoints[6].tx = LargeSize /\ usb_endpoints[6].rx = LargeSize
<1>1. \A e \in 0..6 : usb_endpoints[e] = Table[e + 1]
  BY SevenEndpoints DEF usb_endpoints
<1>2. 0 \in 0..6 /\ 1 \in 0..6 /\ 2 \in 0..6 /\ 3 \in 0..6 /\ 4 \in 0..6 /\ 5 \in 0..6 /\ 6 \in 0..6
  BY SMT
<1>3. usb_endpoints[0] = Table[1] /\ usb_endpoints[1] = Table[2] /\ usb_endpoints[2] = Table[3]
   /\ usb_endpoints[3] = Table[4] /\ usb_endpoints[4] = Table[5] /\ usb_endpoints[5] = Table[6]
   /\ usb_endpoints[6] = Table[7]
  BY <1>1, <1>2, SMT
<1> QED  BY <1>3 DEF Table

\* Offset as its recursive definition has it
LEMMA OffsetDef ==
  Offset = [e \in Endpoints |->
              IF e = 0 THEN BtableSize
              ELSE Offset[e - 1] + usb_endpoints[e - 1].tx + usb_endpoints[e - 1].rx]
<1> DEFINE C == ControlSize
           I == InterruptSize
           S == SmallSize
           L == LargeSize
           g == [e \in Endpoints |->
                   IF e = 0 THEN BtableSize
                   ELSE IF e = 1 THEN BtableSize + C + C
                   ELSE IF e = 2 THEN BtableSize + C + C + I + 0
                   ELSE IF e = 3 THEN BtableSize + C + C + I + 0 + S + S
                   ELSE IF e = 4 THEN BtableSize + C + C + I + 0 + S + S + I + 0
                   ELSE IF e = 5 THEN BtableSize + C + C + I + 0 + S + S + I + 0 + L + L
                   ELSE BtableSize + C + C + I + 0 + S + S + I + 0 + L + L + I + 0]
           Step(f, e) == IF e = 0 THEN BtableSize
                   ELSE f[e - 1] + usb_endpoints[e - 1].tx + usb_endpoints[e - 1].rx
<1>1. ASSUME NEW e \in Endpoints PROVE g[e] = Step(g, e)
  <2>1. e \in {0, 1, 2, 3, 4, 5, 6}  BY SevenEndpoints, SMT
  <2>2. CASE e = 0  BY <2>2
  <2>3. CASE e = 1
    <3>1. e - 1 = 0 /\ 0 \in Endpoints  BY <2>3, SevenEndpoints, SMT
    <3> QED  BY <2>3, <3>1, Descriptors
  <2>4. CASE e = 2
    <3>1. e - 1 = 1 /\ 1 \in Endpoints  BY <2>4, SevenEndpoints, SMT
    <3> QED  BY <2>4, <3>1, Descriptors
  <2>5. CASE e = 3
    <3>1. e - 1 = 2 /\ 2 \in Endpoints  BY <2>5, SevenEndpoints, SMT
    <3> QED  BY <2>5, <3>1, Descriptors
  <2>6. CASE e = 4
    <3>1. e - 1 = 3 /\ 3 \in Endpoints  BY <2>6, SevenEndpoints, SMT
    <3> QED  BY <2>6, <3>1, Descriptors
  <2>7. CASE e = 5
    <3>1. e - 1 = 4 /\ 4 \in Endpoints  BY <2>7, SevenEndpoints, SMT
    <3> QED  BY <2>7, <3>1, Descriptors
  <2>8. CASE e = 6
    <3>1. e - 1 = 5 /\ 5 \in Endpoints  BY <2>8, SevenEndpoints, SMT
    <3> QED  BY <2>8, <3>1, Descriptors
  <2> QED  BY <2>1, <2>2, <2>3, <2>4, <2>5, <2>6, <2>7, <2>8
<1>2. g = [e \in Endpoints |-> Step(g, e)]
  <2>1. g = [e \in Endpoints |-> g[e]]  OBVIOUS
  <2> HIDE DEF g
  <2> QED  BY <1>1, <2>1
<1>3. \E f : f = [e \in Endpoints |-> Step(f, e)]  BY <1>2
<1> QED  BY <1>3 DEF Offset

\* Where each endpoint's buffers begin
LEMMA Offsets ==
  /\ Offset[0] = 112
  /\ Offset[1] = Offset[0] + ControlSize + ControlSize
  /\ Offset[2] = Offset[1] + InterruptSize + 0
  /\ Offset[3] = Offset[2] + SmallSize + SmallSize
  /\ Offset[4] = Offset[3] + InterruptSize + 0
  /\ Offset[5] = Offset[4] + LargeSize + LargeSize
  /\ Offset[6] = Offset[5] + InterruptSize + 0
<1> DEFINE From(e) == Offset[e - 1] + usb_endpoints[e - 1].tx + usb_endpoints[e - 1].rx
<1>1. \A e \in 0..6 : Offset[e] = IF e = 0 THEN 112 ELSE From(e)
  <2>1. Offset = [e \in 0..6 |-> IF e = 0 THEN 112 ELSE From(e)]
    BY OffsetDef, SevenEndpoints
  <2> HIDE DEF From
  <2> QED  BY <2>1
<1>2. /\ Offset[0] = 112 /\ Offset[1] = From(1) /\ Offset[2] = From(2) /\ Offset[3] = From(3)
      /\ Offset[4] = From(4) /\ Offset[5] = From(5) /\ Offset[6] = From(6)
  <2> HIDE DEF From
  <2> QED  BY <1>1, SMT
<1>3. 1 - 1 = 0 /\ 2 - 1 = 1 /\ 3 - 1 = 2 /\ 4 - 1 = 3 /\ 5 - 1 = 4 /\ 6 - 1 = 5  BY SMT
<1> QED  BY <1>2, <1>3, Descriptors

\* A buffer: its direction and endpoint
Base(d, e) == IF d = "tx" THEN Offset[e] ELSE Offset[e] + usb_endpoints[e].tx
Room(d, e) == IF d = "tx" THEN usb_endpoints[e].tx ELSE usb_endpoints[e].rx
Directions == {"tx", "rx"}

LEMMA SizesEven ==
  ASSUME Fitting
  PROVE  /\ ControlSize % 2 = 0 /\ InterruptSize % 2 = 0 /\ SmallSize % 2 = 0 /\ LargeSize % 2 = 0
         /\ Limit(ControlSize) = ControlSize /\ Limit(SmallSize) = SmallSize
         /\ Limit(LargeSize) = LargeSize /\ Limit(0) = 0
<1>1. ASSUME NEW size \in Nat, Blocked(size) PROVE size % 2 = 0 /\ Limit(size) = size
  BY <1>1, SMT DEF Blocked, Limit, SmallLimit, LargeBlock, SmallBlock
<1>2. Limit(0) = 0  BY SMT DEF Limit, SmallLimit, LargeBlock, SmallBlock
<1>3. InterruptSize % 2 = 0  BY DEF Fitting, SmallBlock
<1>4. Blocked(ControlSize) /\ Blocked(SmallSize) /\ Blocked(LargeSize)  BY DEF Fitting
<1> QED  BY <1>1, <1>2, <1>3, <1>4, Constants

\* The sizes of one endpoint
LEMMA Sizes ==
  ASSUME Fitting, NEW e \in Endpoints
  PROVE  /\ usb_endpoints[e].tx \in Nat /\ usb_endpoints[e].rx \in Nat
         /\ usb_endpoints[e].tx % 2 = 0 /\ usb_endpoints[e].rx % 2 = 0
         /\ usb_endpoints[e].tx < Size /\ usb_endpoints[e].rx < Size
         /\ Limit(usb_endpoints[e].rx) = usb_endpoints[e].rx
<1>1. e \in {0, 1, 2, 3, 4, 5, 6}  BY SevenEndpoints, SMT
<1>2. 0 % 2 = 0 /\ 0 < Size /\ 0 \in Nat  BY Constants, SMT
<1>3. ControlSize < Size /\ InterruptSize < Size /\ SmallSize < Size /\ LargeSize < Size
  BY DEF Fitting
<1> QED  BY <1>1, <1>2, <1>3, Constants, SizesEven, Descriptors

\* The buffers follow each other in the order of the endpoints, each at an even address.
LEMMA OffsetsGrow ==
  ASSUME Fitting
  PROVE  /\ \A e \in Endpoints :
              /\ Offset[e] \in Nat /\ Offset[e] % 2 = 0 /\ 112 <= Offset[e]
              /\ Offset[e] + usb_endpoints[e].tx + usb_endpoints[e].rx <= Memory
         /\ \A e, f \in Endpoints :
              e < f => Offset[e] + usb_endpoints[e].tx + usb_endpoints[e].rx <= Offset[f]
<1> DEFINE End(e) == Offset[e] + usb_endpoints[e].tx + usb_endpoints[e].rx
<1>1. /\ End(0) = Offset[0] + ControlSize + ControlSize
      /\ End(1) = Offset[1] + InterruptSize + 0
      /\ End(2) = Offset[2] + SmallSize + SmallSize
      /\ End(3) = Offset[3] + InterruptSize + 0
      /\ End(4) = Offset[4] + LargeSize + LargeSize
      /\ End(5) = Offset[5] + InterruptSize + 0
      /\ End(6) = Offset[6] + LargeSize + LargeSize
  BY Descriptors
<1>2. /\ Offset[0] = 112 /\ Offset[1] = End(0) /\ Offset[2] = End(1) /\ Offset[3] = End(2)
      /\ Offset[4] = End(3) /\ Offset[5] = End(4) /\ Offset[6] = End(5)
  BY <1>1, Offsets
<1>3. 112 + 2 * ControlSize + 3 * InterruptSize + 2 * SmallSize + 4 * LargeSize <= Memory
  BY SevenEndpoints DEF Fitting
<1> HIDE DEF End
<1>4. /\ \A e \in {0, 1, 2, 3, 4, 5, 6} :
           Offset[e] \in Nat /\ Offset[e] % 2 = 0 /\ 112 <= Offset[e] /\ End(e) <= Memory
      /\ Offset[0] <= End(0) /\ Offset[1] <= End(1) /\ Offset[2] <= End(2) /\ Offset[3] <= End(3)
      /\ Offset[4] <= End(4) /\ Offset[5] <= End(5)
      /\ \A e \in {0, 1, 2, 3, 4, 5, 6} : End(e) \in Nat
  <2>1. /\ Offset[0] \in Nat /\ Offset[1] \in Nat /\ Offset[2] \in Nat /\ Offset[3] \in Nat
        /\ Offset[4] \in Nat /\ Offset[5] \in Nat /\ Offset[6] \in Nat
    BY <1>1, <1>2, Constants, SMT
  <2>2. /\ Offset[1] % 2 = 0 /\ Offset[2] % 2 = 0 /\ Offset[3] % 2 = 0
        /\ Offset[4] % 2 = 0 /\ Offset[5] % 2 = 0 /\ Offset[6] % 2 = 0 /\ Offset[0] % 2 = 0
    <3>1. ASSUME NEW x \in Nat, NEW y \in Nat, x % 2 = 0, y % 2 = 0
          PROVE  (x + y + y) % 2 = 0 /\ (x + y + 0) % 2 = 0
      BY <3>1, SMT
    <3>2. Offset[0] % 2 = 0  BY <1>2, SMT
    <3>3. Offset[1] % 2 = 0
      <4>1. (Offset[0] + ControlSize + ControlSize) % 2 = 0  BY <2>1, <3>1, <3>2, Constants, SizesEven
      <4> QED  BY <1>1, <1>2, <4>1
    <3>4. Offset[2] % 2 = 0
      <4>1. (Offset[1] + InterruptSize + 0) % 2 = 0  BY <2>1, <3>1, <3>3, Constants, SizesEven
      <4> QED  BY <1>1, <1>2, <4>1
    <3>5. Offset[3] % 2 = 0
      <4>1. (Offset[2] + SmallSize + SmallSize) % 2 = 0  BY <2>1, <3>1, <3>4, Constants, SizesEven
      <4> QED  BY <1>1, <1>2, <4>1
    <3>6. Offset[4] % 2 = 0
      <4>1. (Offset[3] + InterruptSize + 0) % 2 = 0  BY <2>1, <3>1, <3>5, Constants, SizesEven
      <4> QED  BY <1>1, <1>2, <4>1
    <3>7. Offset[5] % 2 = 0
      <4>1. (Offset[4] + LargeSize + LargeSize) % 2 = 0  BY <2>1, <3>1, <3>6, Constants, SizesEven
      <4> QED  BY <1>1, <1>2, <4>1
    <3>8. Offset[6] % 2 = 0
      <4>1. (Offset[5] + InterruptSize + 0) % 2 = 0  BY <2>1, <3>1, <3>7, Constants, SizesEven
      <4> QED  BY <1>1, <1>2, <4>1
    <3> QED  BY <3>2, <3>3, <3>4, <3>5, <3>6, <3>7, <3>8
  <2>3. /\ Offset[0] <= End(0) /\ Offset[1] <= End(1) /\ Offset[2] <= End(2) /\ Offset[3] <= End(3)
        /\ Offset[4] <= End(4) /\ Offset[5] <= End(5) /\ Offset[6] <= End(6)
    BY <1>1, <2>1, Constants, SMT
  <2>4. /\ End(0) \in Nat /\ End(1) \in Nat /\ End(2) \in Nat /\ End(3) \in Nat
        /\ End(4) \in Nat /\ End(5) \in Nat /\ End(6) \in Nat
    BY <1>1, <2>1, Constants, SMT
  <2>5. End(6) = 112 + 2 * ControlSize + 3 * InterruptSize + 2 * SmallSize + 4 * LargeSize
    BY <1>1, <1>2, Constants, SMT
  <2>6. End(6) <= Memory  BY <1>3, <2>5
  <2>7. /\ 112 <= Offset[0] /\ 112 <= Offset[1] /\ 112 <= Offset[2] /\ 112 <= Offset[3]
        /\ 112 <= Offset[4] /\ 112 <= Offset[5] /\ 112 <= Offset[6]
    BY <1>2, <2>1, <2>3, <2>4, SMT
  <2>8. /\ End(0) <= Memory /\ End(1) <= Memory /\ End(2) <= Memory /\ End(3) <= Memory
        /\ End(4) <= Memory /\ End(5) <= Memory
    BY <1>2, <2>3, <2>4, <2>6, Constants, SMT
  <2> QED  BY <2>1, <2>2, <2>3, <2>4, <2>6, <2>7, <2>8
<1>5. \A e, f \in Endpoints : e < f => End(e) <= Offset[f]
  <2> SUFFICES ASSUME NEW e \in 0..6, NEW f \in 0..6, e < f PROVE End(e) <= Offset[f]
    BY SevenEndpoints
  <2>1. /\ Offset[0] <= Offset[1] /\ Offset[1] <= Offset[2] /\ Offset[2] <= Offset[3]
        /\ Offset[3] <= Offset[4] /\ Offset[4] <= Offset[5] /\ Offset[5] <= Offset[6]
    BY <1>2, <1>4
  <2>2. \A k \in {0, 1, 2, 3, 4, 5, 6} : Offset[k] \in Nat  BY <1>4
  <2>3. CASE e = 0  BY <2>1, <2>2, <2>3, <1>2, SMT
  <2>4. CASE e = 1  BY <2>1, <2>2, <2>4, <1>2, SMT
  <2>5. CASE e = 2  BY <2>1, <2>2, <2>5, <1>2, SMT
  <2>6. CASE e = 3  BY <2>1, <2>2, <2>6, <1>2, SMT
  <2>7. CASE e = 4  BY <2>1, <2>2, <2>7, <1>2, SMT
  <2>8. CASE e = 5  BY <2>1, <2>2, <2>8, <1>2, SMT
  <2> QED  BY <2>3, <2>4, <2>5, <2>6, <2>7, <2>8, SMT
<1>6. Endpoints = {0, 1, 2, 3, 4, 5, 6}  BY SevenEndpoints, SMT
<1> QED  BY <1>4, <1>5, <1>6 DEF End

LEMMA BufferBounds ==
  ASSUME Fitting, NEW d \in Directions, NEW e \in Endpoints
  PROVE  /\ Base(d, e) \in Nat /\ Base(d, e) % 2 = 0 /\ 112 <= Base(d, e)
         /\ Room(d, e) \in Nat /\ Room(d, e) % 2 = 0 /\ Room(d, e) < Size
         /\ Base(d, e) + Room(d, e) <= Memory
<1> DEFINE tx == usb_endpoints[e].tx
           rx == usb_endpoints[e].rx
<1>1. tx \in Nat /\ rx \in Nat /\ tx % 2 = 0 /\ rx % 2 = 0 /\ tx < Size /\ rx < Size
  BY Sizes
<1>2. Offset[e] \in Nat /\ Offset[e] % 2 = 0 /\ 112 <= Offset[e] /\ Offset[e] + tx + rx <= Memory
  BY OffsetsGrow
<1>3. \/ Base(d, e) = Offset[e] /\ Room(d, e) = tx
      \/ Base(d, e) = Offset[e] + tx /\ Room(d, e) = rx
  BY DEF Base, Room, Directions
<1> HIDE DEF tx, rx
<1>4. Offset[e] + tx \in Nat /\ (Offset[e] + tx) % 2 = 0 /\ 112 <= Offset[e] + tx
  BY <1>1, <1>2, SMT
<1> QED  BY <1>1, <1>2, <1>3, <1>4, Constants, SMT

\* No two buffers have a byte in common.
LEMMA BuffersDisjoint ==
  ASSUME Fitting, NEW d \in Directions, NEW e \in Endpoints,
         NEW c \in Directions, NEW f \in Endpoints, <<d, e>> # <<c, f>>
  PROVE  Base(d, e) + Room(d, e) <= Base(c, f) \/ Base(c, f) + Room(c, f) <= Base(d, e)
<1>1. ASSUME NEW g \in Endpoints
      PROVE  /\ usb_endpoints[g].tx \in Nat /\ usb_endpoints[g].rx \in Nat /\ Offset[g] \in Nat
             /\ \A b \in Directions :
                  /\ Offset[g] <= Base(b, g)
                  /\ Base(b, g) + Room(b, g) <= Offset[g] + usb_endpoints[g].tx + usb_endpoints[g].rx
             /\ Base("tx", g) + Room("tx", g) <= Base("rx", g)
  <2>1. usb_endpoints[g].tx \in Nat /\ usb_endpoints[g].rx \in Nat  BY Sizes
  <2>2. Offset[g] \in Nat  BY OffsetsGrow
  <2>3. /\ Base("tx", g) = Offset[g] /\ Room("tx", g) = usb_endpoints[g].tx
        /\ Base("rx", g) = Offset[g] + usb_endpoints[g].tx /\ Room("rx", g) = usb_endpoints[g].rx
    BY DEF Base, Room
  <2>4. Directions = {"tx", "rx"}  BY DEF Directions
  <2> QED  BY <2>1, <2>2, <2>3, <2>4
<1>2. CASE e = f
  <2>1. d # c  BY <1>2
  <2>2. (d = "tx" /\ c = "rx") \/ (d = "rx" /\ c = "tx")  BY <2>1 DEF Directions
  <2> QED  BY <1>1, <1>2, <2>2
<1>3. CASE e # f
  <2>1. e \in 0..6 /\ f \in 0..6  BY SevenEndpoints
  <2>2. e < f \/ f < e  BY <1>3, <2>1, SMT
  <2>3. \A g, h \in Endpoints :
          g < h => Offset[g] + usb_endpoints[g].tx + usb_endpoints[g].rx <= Offset[h]
    BY OffsetsGrow
  <2>4. /\ Base(d, e) \in Nat /\ Room(d, e) \in Nat /\ Base(c, f) \in Nat /\ Room(c, f) \in Nat
    BY BufferBounds
  <2>5. CASE e < f
    <3>1. Base(d, e) + Room(d, e) <= Offset[e] + usb_endpoints[e].tx + usb_endpoints[e].rx
      BY <1>1
    <3>2. Offset[f] <= Base(c, f) /\ Offset[f] \in Nat  BY <1>1
    <3>3. Offset[e] + usb_endpoints[e].tx + usb_endpoints[e].rx \in Nat  BY <1>1
    <3> QED  BY <2>3, <2>4, <2>5, <3>1, <3>2, <3>3
  <2>6. CASE f < e
    <3>1. Base(c, f) + Room(c, f) <= Offset[f] + usb_endpoints[f].tx + usb_endpoints[f].rx
      BY <1>1
    <3>2. Offset[e] <= Base(d, e) /\ Offset[e] \in Nat  BY <1>1
    <3>3. Offset[f] + usb_endpoints[f].tx + usb_endpoints[f].rx \in Nat  BY <1>1
    <3> QED  BY <2>3, <2>4, <2>6, <3>1, <3>2, <3>3
  <2> QED  BY <2>2, <2>5, <2>6
<1> QED  BY <1>2, <1>3

\* The half-words of a buffer are in the memory,
LEMMA WordInside ==
  ASSUME Fitting, NEW d \in Directions, NEW e \in Endpoints, NEW k \in Nat, 2 * k < Room(d, e)
  PROVE  Word(Base(d, e), k) \in Words
<1> DEFINE b == Base(d, e)
           r == Room(d, e)
<1>1. b \in Nat /\ b % 2 = 0 /\ r \in Nat /\ r % 2 = 0 /\ b + r <= Memory  BY BufferBounds
<1> HIDE DEF b, r
<1>2. 2 * k < r  BY DEF r
<1>3. b \div 2 + k \in 0..(Memory \div 2 - 1)  BY <1>1, <1>2, Constants, SMT
<1> QED  BY <1>3 DEF Word, Words, b

\* and in no other buffer.
LEMMA WordsApart ==
  ASSUME Fitting, NEW d \in Directions, NEW e \in Endpoints,
         NEW c \in Directions, NEW f \in Endpoints, <<d, e>> # <<c, f>>,
         NEW k \in Nat, 2 * k < Room(d, e), NEW j \in Nat, 2 * j < Room(c, f)
  PROVE  Word(Base(d, e), k) # Word(Base(c, f), j)
<1> DEFINE b == Base(d, e)
           r == Room(d, e)
           b2 == Base(c, f)
           r2 == Room(c, f)
<1>1. b \in Nat /\ b % 2 = 0 /\ r \in Nat /\ r % 2 = 0  BY BufferBounds
<1>2. b2 \in Nat /\ b2 % 2 = 0 /\ r2 \in Nat /\ r2 % 2 = 0  BY BufferBounds
<1>3. b + r <= b2 \/ b2 + r2 <= b  BY BuffersDisjoint
<1>4. 2 * k < r /\ 2 * j < r2  OBVIOUS
<1> HIDE DEF b, r, b2, r2
<1>5. b \div 2 + k # b2 \div 2 + j  BY <1>1, <1>2, <1>3, <1>4, SMT
<1> QED  BY <1>5 DEF Word, b, b2

-----------------------------------------------------------------------------
(* The inductive invariant.                                                 *)

\* A buffer table, whose offsets stay what usb_io_reset wrote
Tables == [Endpoints -> [tx_offset : Nat, tx_count : Nat, rx_offset : Nat, rx_count : Nat,
                         limit : Nat]]
Copies == [kind : {"send", "read"}, ep : Endpoints, start : Index, count : Nat, done : Nat,
           base : Nat, buf : [Index -> Nat]]

Fields ==
  /\ btable \in Tables \cup {NoTable} /\ memory \in [Words -> Nat \X Nat]
  /\ stat \in [Sides -> {"nak", "valid"}] /\ arrived \subseteq Endpoints
  /\ op \in Copies \cup {Idle} /\ packet \in [Sides -> Seq(Nat)] /\ used \in Nat

LayoutInv ==
  /\ btable = NoTable => arrived = {} /\ op = Idle /\ \A s \in Sides : stat[s] = "nak"
  /\ btable # NoTable =>
       \A e \in Endpoints : /\ btable[e].tx_offset = Base("tx", e)
                            /\ btable[e].rx_offset = Base("rx", e)
                            /\ btable[e].limit = Room("rx", e)

\* The first n bytes are in the memory from base on.
Stored(mem, base, bytes, n) ==
  \A k \in 1..n : mem[Word(base, (k - 1) \div 2)][2 - (k % 2)] = bytes[k]

\* The first n bytes are in a buffer of the software from start on.
Buffered(buf, start, bytes, n) == \A k \in 1..n : buf[Advance(start, k - 1, Size)] = bytes[k]

\* A packet lies in its buffer, count bytes long.
Lies(mem, bytes, d, e, count) ==
  count = Len(bytes) /\ count <= Room(d, e) /\ Stored(mem, Base(d, e), bytes, count)

\* What waits for the host, and for the software
WaitingInv ==
  /\ \A e \in Endpoints :
       stat[<<"tx", e>>] = "valid" =>
         Lies(memory, packet[<<"tx", e>>], "tx", e, btable[e].tx_count)
  /\ \A e \in arrived :
       /\ stat[<<"rx", e>>] = "nak"
       /\ Lies(memory, packet[<<"rx", e>>], "rx", e, btable[e].rx_count)

\* The half-word that comes next is whole, or nothing is left.
Halfway == op.done <= op.count /\ (op.done % 2 = 0 \/ op.done = op.count)

SendInv ==
  op.kind = "send" =>
    LET bytes == packet[<<"tx", op.ep>>]
    IN  /\ stat[<<"tx", op.ep>>] = "nak" /\ Halfway
        /\ op.base = Base("tx", op.ep) /\ op.count = Len(bytes) /\ op.count <= Room("tx", op.ep)
        /\ Buffered(op.buf, op.start, bytes, op.count)
        /\ Stored(memory, op.base, bytes, op.done)

ReadInv ==
  op.kind = "read" =>
    /\ stat[<<"rx", op.ep>>] = "nak" /\ op.ep \notin arrived /\ Halfway
    /\ op.base = Base("rx", op.ep)
    /\ Lies(memory, packet[<<"rx", op.ep>>], "rx", op.ep, op.count)
    /\ Buffered(op.buf, op.start, packet[<<"rx", op.ep>>], op.done)

Inv == Fields /\ LayoutInv /\ WaitingInv /\ SendInv /\ ReadInv /\ PacketsWhole

-----------------------------------------------------------------------------
(* The buffers stay apart.                                                  *)

LEMMA LayoutFields ==
  ASSUME Fitting
  PROVE  \A e \in Endpoints : /\ Layout[e].tx_offset = Base("tx", e) /\ Layout[e].tx_count = 0
                              /\ Layout[e].rx_offset = Base("rx", e) /\ Layout[e].rx_count = 0
                              /\ Layout[e].limit = Room("rx", e)
<1> TAKE e \in Endpoints
<1>1. Layout[e] = [tx_offset |-> Offset[e], tx_count |-> 0,
                   rx_offset |-> Offset[e] + usb_endpoints[e].tx, rx_count |-> 0,
                   limit |-> Limit(usb_endpoints[e].rx)]
  BY DEF Layout
<1>2. Limit(usb_endpoints[e].rx) = usb_endpoints[e].rx  BY Sizes
<1> QED  BY <1>1, <1>2 DEF Base, Room

LEMMA LayoutIsTable ==
  ASSUME Fitting
  PROVE  Layout \in Tables
<1>1. ASSUME NEW e \in Endpoints
      PROVE  [tx_offset |-> Offset[e], tx_count |-> 0,
              rx_offset |-> Offset[e] + usb_endpoints[e].tx, rx_count |-> 0,
              limit |-> Limit(usb_endpoints[e].rx)]
               \in [tx_offset : Nat, tx_count : Nat, rx_offset : Nat, rx_count : Nat, limit : Nat]
  <2>1. usb_endpoints[e].tx \in Nat /\ usb_endpoints[e].rx \in Nat
     /\ Limit(usb_endpoints[e].rx) = usb_endpoints[e].rx
    BY Sizes
  <2>2. Offset[e] \in Nat  BY OffsetsGrow
  <2>3. Offset[e] + usb_endpoints[e].tx \in Nat /\ 0 \in Nat  BY <2>1, <2>2, SMT
  <2> QED  BY <2>1, <2>2, <2>3
<1> QED  BY <1>1 DEF Layout, Tables

LEMMA TableIsNoNone == \A t \in Tables : t # NoTable
<1>1. ASSUME NEW t \in Tables PROVE t # NoTable
  <2>1. DOMAIN t = 0..6  BY SevenEndpoints DEF Tables
  <2>2. DOMAIN NoTable = 1..0  BY DEF NoTable
  <2>3. 0 \in 0..6 /\ 0 \notin 1..0  BY SMT
  <2> QED  BY <2>1, <2>2, <2>3
<1> QED  BY <1>1

LEMMA LayoutApart == Fitting /\ LayoutInv => BuffersApart
<1> SUFFICES ASSUME Fitting, LayoutInv, btable # NoTable
             PROVE  /\ \A s \in Sides : Region(s).from >= 8 * Len(Table) /\ Region(s).to <= Memory
                    /\ \A s, t \in Sides : s # t => \/ Region(s).to <= Region(t).from
                                                    \/ Region(t).to <= Region(s).from
                    /\ \A e \in Endpoints : btable[e].limit >= usb_endpoints[e].rx
  BY DEF BuffersApart
<1>1. \A e \in Endpoints : /\ btable[e].tx_offset = Base("tx", e)
                           /\ btable[e].rx_offset = Base("rx", e)
                           /\ btable[e].limit = Room("rx", e)
  BY DEF LayoutInv
<1>2. ASSUME NEW s \in Sides
      PROVE  /\ s[1] \in Directions /\ s[2] \in Endpoints /\ s = <<s[1], s[2]>>
             /\ Region(s).from = Base(s[1], s[2])
             /\ Region(s).to = Base(s[1], s[2]) + Room(s[1], s[2])
  <2>1. s[1] \in Directions /\ s[2] \in Endpoints /\ s = <<s[1], s[2]>>
    BY DEF Sides, Directions
  <2>2. CASE s[1] = "tx"
    <3>1. Region(s) = [from |-> btable[s[2]].tx_offset,
                       to |-> btable[s[2]].tx_offset + usb_endpoints[s[2]].tx]
      BY <2>2 DEF Region
    <3> QED  BY <1>1, <2>1, <2>2, <3>1 DEF Room
  <2>3. CASE s[1] = "rx"
    <3>1. Region(s) = [from |-> btable[s[2]].rx_offset,
                       to |-> btable[s[2]].rx_offset + btable[s[2]].limit]
      BY <2>3 DEF Region
    <3> QED  BY <1>1, <2>1, <2>3, <3>1
  <2> QED  BY <2>1, <2>2, <2>3 DEF Directions
<1>3. ASSUME NEW s \in Sides PROVE Region(s).from >= 8 * Len(Table) /\ Region(s).to <= Memory
  <2>1. /\ 112 <= Base(s[1], s[2]) /\ Base(s[1], s[2]) \in Nat
        /\ Base(s[1], s[2]) + Room(s[1], s[2]) <= Memory
    BY <1>2, BufferBounds
  <2>2. 8 * Len(Table) = 56  BY SevenEndpoints, SMT
  <2> QED  BY <1>2, <2>1, <2>2, SMT
<1>4. ASSUME NEW s \in Sides, NEW t \in Sides, s # t
      PROVE  Region(s).to <= Region(t).from \/ Region(t).to <= Region(s).from
  BY <1>2, <1>4, BuffersDisjoint
<1>5. ASSUME NEW e \in Endpoints PROVE btable[e].limit >= usb_endpoints[e].rx
  <2>1. btable[e].limit = usb_endpoints[e].rx  BY <1>1 DEF Room
  <2>2. usb_endpoints[e].rx \in Nat  BY Sizes
  <2> QED  BY <2>1, <2>2, SMT
<1> QED  BY <1>3, <1>4, <1>5

-----------------------------------------------------------------------------
(* Packets.                                                                 *)

\* The remainder of a difference of two indices.
LEMMA RemainderOfDifference ==
  ASSUME NEW size \in Nat \ {0}, NEW a \in 0..(size - 1), NEW b \in 0..(size - 1)
  PROVE  (a - b) % size = IF a >= b THEN a - b ELSE a - b + size
<1>1. CASE a >= b
  <2>1. a - b \in Int /\ 0 <= a - b /\ a - b < size  BY <1>1, SMT
  <2>2. (a - b) % size = a - b  BY <2>1, SMT
  <2> QED  BY <1>1, <2>2
<1>2. CASE a < b
  <2>1. a - b \in Int /\ -size <= a - b /\ a - b < 0  BY <1>2, SMT
  <2>2. (a - b) % size = a - b + size  BY <2>1, SMT
  <2> QED  BY <1>2, <2>2, SMT
<1> QED  BY <1>1, <1>2, SMT

\* The remainder of an index moved forward by at most the size.
LEMMA RemainderOfSum ==
  ASSUME NEW size \in Nat \ {0}, NEW a \in 0..(size - 1), NEW n \in 0..size
  PROVE  (a + n) % size = IF a + n < size THEN a + n ELSE a + n - size
<1>1. CASE a + n < size
  <2>1. (a + n) % size = a + n  BY <1>1, SMT
  <2> QED  BY <1>1, <2>1
<1>2. CASE a + n >= size
  <2>1. a + n \in Int /\ size <= a + n /\ a + n < 2 * size  BY <1>2, SMT
  <2>2. (a + n) % size = a + n - size  BY <2>1, SMT
  <2> QED  BY <1>2, <2>2, SMT
<1> QED  BY <1>1, <1>2, SMT

\* The remainder of circ_buf_count, written out.
LEMMA CountCases ==
  ASSUME NEW size \in Nat \ {0},
         NEW h \in 0..(size - 1), NEW t \in 0..(size - 1)
  PROVE  /\ circ_buf_count(h, t, size)
              = IF h >= t THEN h - t ELSE h - t + size
         /\ circ_buf_count(h, t, size) \in 0..(size - 1)
<1>1. circ_buf_count(h, t, size) = IF h >= t THEN h - t ELSE h - t + size
  BY RemainderOfDifference DEF circ_buf_count
<1> QED  BY <1>1, SMT

\* The remainder of Advance, written out.
LEMMA AdvanceCases ==
  ASSUME NEW size \in Nat \ {0}, NEW index \in 0..(size - 1), NEW n \in 0..size
  PROVE  /\ Advance(index, n, size)
              = IF index + n < size THEN index + n ELSE index + n - size
         /\ Advance(index, n, size) \in 0..(size - 1)
<1>1. Advance(index, n, size)
        = IF index + n < size THEN index + n ELSE index + n - size
  BY RemainderOfSum DEF Advance
<1> QED  BY <1>1, SMT

\* Going on by n positions and counting from the start gives n.
LEMMA CountOfAdvance ==
  ASSUME NEW start \in Index, NEW n \in 0..Size - 1
  PROVE  /\ Advance(start, n, Size) \in Index
         /\ circ_buf_count(Advance(start, n, Size), start, Size) = n
<1>1. Size \in Nat \ {0}  BY Constants
<1>2. start \in 0..(Size - 1) /\ n \in 0..Size  BY Constants, SMT DEF Index
<1>3. /\ Advance(start, n, Size) = IF start + n < Size THEN start + n ELSE start + n - Size
      /\ Advance(start, n, Size) \in 0..(Size - 1)
  BY <1>1, <1>2, AdvanceCases
<1> DEFINE j == Advance(start, n, Size)
<1>4. circ_buf_count(j, start, Size) = IF j >= start THEN j - start ELSE j - start + Size
  BY <1>1, <1>2, <1>3, CountCases
<1> HIDE DEF j
<1>5. j = IF start + n < Size THEN start + n ELSE start + n - Size  BY <1>3 DEF j
<1>6. circ_buf_count(j, start, Size) = n  BY <1>1, <1>2, <1>4, <1>5, SMT
<1> QED  BY <1>3, <1>6 DEF j, Index

LEMMA FreshBytes ==
  ASSUME used \in Nat, NEW n \in Nat
  PROVE  /\ Fresh(n) \in Seq(Nat) /\ Len(Fresh(n)) = n
         /\ \A k \in 1..n : Fresh(n)[k] \in Nat
<1>1. \A k \in 1..n : 100 * (used + 1) + k \in Nat  BY SMT
<1>2. Fresh(n) \in [1..n -> Nat]  BY <1>1 DEF Fresh
<1> QED  BY <1>2

\* What the software hands over: its first bytes, no more than the endpoint takes
LEMMA Handed ==
  ASSUME used \in Nat, NEW n \in Nat, NEW c \in 0..n
  PROVE  LET bytes == SubSeq(Fresh(n), 1, c)
         IN  bytes \in Seq(Nat) /\ Len(bytes) = c /\ \A k \in 1..c : bytes[k] = Fresh(n)[k]
<1> DEFINE s == Fresh(n)
<1>1. s \in Seq(Nat) /\ Len(s) = n  BY FreshBytes
<1> HIDE DEF s
<1>2. /\ SubSeq(s, 1, c) \in Seq(Nat) /\ Len(SubSeq(s, 1, c)) = c
      /\ \A k \in 1..c : SubSeq(s, 1, c)[k] = s[k]
  BY <1>1, SMT
<1> QED  BY <1>2 DEF s

LEMMA FilledHolds ==
  ASSUME used \in Nat, NEW n \in 0..Size, NEW start \in Index
  PROVE  /\ Filled(start, Fresh(n)) \in [Index -> Nat]
         /\ \A k \in 1..n : Filled(start, Fresh(n))[Advance(start, k - 1, Size)] = Fresh(n)[k]
<1>0. n \in Nat  BY Constants, SMT
<1>1. Fresh(n) \in Seq(Nat) /\ Len(Fresh(n)) = n /\ \A k \in 1..n : Fresh(n)[k] \in Nat
  BY <1>0, FreshBytes
<1> DEFINE at(i) == circ_buf_count(i, start, Size) + 1
<1>2. Filled(start, Fresh(n)) = [i \in Index |-> IF at(i) <= n THEN Fresh(n)[at(i)] ELSE 0]
  BY <1>1 DEF Filled
<1>3. \A i \in Index : at(i) \in 1..Size
  <2> TAKE i \in Index
  <2>1. Size \in Nat \ {0} /\ i \in 0..(Size - 1) /\ start \in 0..(Size - 1)
    BY Constants DEF Index
  <2>2. circ_buf_count(i, start, Size) \in 0..(Size - 1)  BY <2>1, CountCases
  <2> QED  BY <2>1, <2>2, SMT
<1>4. ASSUME NEW k \in 1..n
      PROVE  Filled(start, Fresh(n))[Advance(start, k - 1, Size)] = Fresh(n)[k]
  <2>1. k - 1 \in 0..Size - 1  BY Constants, SMT
  <2>2. Advance(start, k - 1, Size) \in Index /\ at(Advance(start, k - 1, Size)) = k - 1 + 1
    BY <2>1, CountOfAdvance
  <2>3. k - 1 + 1 = k /\ k <= n  BY <1>0, SMT
  <2> HIDE DEF at
  <2> QED  BY <1>2, <2>2, <2>3
<1>5. ASSUME NEW i \in Index PROVE (IF at(i) <= n THEN Fresh(n)[at(i)] ELSE 0) \in Nat
  <2>1. at(i) \in 1..Size  BY <1>3
  <2> HIDE DEF at
  <2>2. CASE at(i) <= n
    <3>1. at(i) \in 1..n  BY <1>0, <2>1, <2>2, Constants, SMT
    <3> QED  BY <1>1, <2>2, <3>1
  <2> QED  BY <2>2
<1> HIDE DEF at
<1> QED  BY <1>2, <1>4, <1>5

\* A packet stays where it lies while the half-words of its buffer do.
LEMMA LiesStill ==
  ASSUME Fitting, NEW d \in Directions, NEW e \in Endpoints, NEW bytes, NEW n \in Nat,
         n <= Room(d, e), NEW m, NEW m2,
         \A k \in Nat : 2 * k < Room(d, e) => m2[Word(Base(d, e), k)] = m[Word(Base(d, e), k)],
         Stored(m, Base(d, e), bytes, n)
  PROVE  Stored(m2, Base(d, e), bytes, n)
<1> SUFFICES ASSUME NEW k \in 1..n
             PROVE  m2[Word(Base(d, e), (k - 1) \div 2)][2 - (k % 2)] = bytes[k]
  BY DEF Stored
<1>1. m[Word(Base(d, e), (k - 1) \div 2)][2 - (k % 2)] = bytes[k]  BY DEF Stored
<1>2. Room(d, e) \in Nat  BY BufferBounds
<1>3. (k - 1) \div 2 \in Nat /\ 2 * ((k - 1) \div 2) < Room(d, e)  BY <1>2, SMT
<1> QED  BY <1>1, <1>3

LEMMA SidePairs == \A d \in Directions, e \in Endpoints : <<d, e>> \in Sides
  BY DEF Sides, Directions

LEMMA Idling == \A c \in Copies : c # Idle /\ (c.kind = "send" \/ c.kind = "read")
<1>1. ASSUME NEW c \in Copies PROVE c.kind \in {"send", "read"}  BY DEF Copies
<1>2. Idle.kind = "idle"  BY DEF Idle
<1> QED  BY <1>1, <1>2

\* The half-words of every other buffer and what was handed over there stay as they are.
OthersStay(d, e) ==
  \A c \in Directions, f \in Endpoints :
    <<c, f>> # <<d, e>> =>
      /\ packet'[<<c, f>>] = packet[<<c, f>>]
      /\ \A k \in Nat : 2 * k < Room(c, f) =>
           memory'[Word(Base(c, f), k)] = memory[Word(Base(c, f), k)]

LEMMA LiesElsewhere ==
  ASSUME Fitting, Fields, NEW d \in Directions, NEW e \in Endpoints, OthersStay(d, e),
         NEW c \in Directions, NEW f \in Endpoints, <<c, f>> # <<d, e>>, NEW count,
         Lies(memory, packet[<<c, f>>], c, f, count)
  PROVE  Lies(memory', packet'[<<c, f>>], c, f, count)
<1>1. packet[<<c, f>>] \in Seq(Nat)  BY SidePairs DEF Fields
<1>2. /\ count = Len(packet[<<c, f>>]) /\ count <= Room(c, f)
      /\ Stored(memory, Base(c, f), packet[<<c, f>>], count)
  BY DEF Lies
<1>3. count \in Nat  BY <1>1, <1>2
<1>4. packet'[<<c, f>>] = packet[<<c, f>>]  BY DEF OthersStay
<1>5. \A k \in Nat : 2 * k < Room(c, f) =>
        memory'[Word(Base(c, f), k)] = memory[Word(Base(c, f), k)]
  BY DEF OthersStay
<1>6. Stored(memory', Base(c, f), packet[<<c, f>>], count)
  BY <1>2, <1>3, <1>5, LiesStill
<1> QED  BY <1>2, <1>4, <1>6 DEF Lies

\* A table in which only counts have changed
LEMMA OffsetsKept ==
  ASSUME LayoutInv, btable # NoTable, btable' \in Tables,
         \A e \in Endpoints : /\ btable'[e].tx_offset = btable[e].tx_offset
                              /\ btable'[e].rx_offset = btable[e].rx_offset
                              /\ btable'[e].limit = btable[e].limit
  PROVE  LayoutInv'
<1>1. btable' # NoTable  BY TableIsNoNone
<1>2. \A e \in Endpoints : /\ btable[e].tx_offset = Base("tx", e)
                           /\ btable[e].rx_offset = Base("rx", e)
                           /\ btable[e].limit = Room("rx", e)
  BY DEF LayoutInv
<1>3. \A e \in Endpoints : /\ btable'[e].tx_offset = Base("tx", e)
                           /\ btable'[e].rx_offset = Base("rx", e)
                           /\ btable'[e].limit = Room("rx", e)
  BY <1>2
<1>4. (NoTable)' = NoTable  BY DEF NoTable
<1> QED  BY <1>1, <1>3, <1>4 DEF LayoutInv

LEMMA InitInv == Init => Inv
<1> SUFFICES ASSUME Init PROVE Inv
  OBVIOUS
<1>1. Fields
  <2>1. memory \in [Words -> Nat \X Nat]  BY DEF Init
  <2>2. stat \in [Sides -> {"nak", "valid"}]  BY DEF Init
  <2>3. packet \in [Sides -> Seq(Nat)]
    <3>1. << >> \in Seq(Nat)  OBVIOUS
    <3> QED  BY <3>1 DEF Init
  <2> QED  BY <2>1, <2>2, <2>3 DEF Init, Fields
<1>2. LayoutInv  BY DEF Init, LayoutInv
<1>3. WaitingInv
  <2>1. ASSUME NEW e \in Endpoints PROVE stat[<<"tx", e>>] # "valid"
    BY SidePairs DEF Init, Directions
  <2> QED  BY <2>1 DEF Init, WaitingInv
<1>4. op.kind = "idle"  BY DEF Init, Idle
<1>5. PacketsWhole  BY DEF Init, PacketsWhole
<1> QED  BY <1>1, <1>2, <1>3, <1>4, <1>5 DEF Inv, SendInv, ReadInv

LEMMA ResetInv == Fitting /\ Inv /\ Reset => Inv'
<1> SUFFICES ASSUME Fitting, Inv, Reset PROVE Inv'
  OBVIOUS
<1>1. arrived = {} /\ op = Idle  BY DEF Inv, LayoutInv, Reset
<1>2. btable' \in Tables /\ btable' # NoTable
  BY LayoutIsTable, TableIsNoNone DEF Reset
<1>3. stat' \in [Sides -> {"nak", "valid"}] /\ \A e \in Endpoints : stat'[<<"tx", e>>] = "nak"
  BY SidePairs DEF Reset, Directions
<1>4. Fields'
  BY <1>2, <1>3 DEF Inv, Fields, Reset
<1>5. LayoutInv'
  BY <1>2, LayoutFields DEF LayoutInv, Reset
<1>6. WaitingInv'
  <2>1. arrived' = {}  BY <1>1 DEF Reset
  <2>2. \A e \in Endpoints : stat'[<<"tx", e>>] # "valid"  BY <1>3
  <2> QED  BY <2>1, <2>2 DEF WaitingInv
<1>7. op'.kind = "idle"  BY <1>1 DEF Reset, Idle
<1>8. PacketsWhole'  BY DEF Inv, PacketsWhole, Reset
<1> QED  BY <1>4, <1>5, <1>6, <1>7, <1>8 DEF Inv, SendInv, ReadInv

-----------------------------------------------------------------------------
(* Steps of the host.                                                       *)

LEMMA HostReadsInv ==
  ASSUME Fitting, Inv, btable # NoTable, NEW e \in Endpoints, HostReads(e)
  PROVE  Inv'
<1>0. Fields /\ LayoutInv /\ WaitingInv /\ SendInv /\ ReadInv  BY DEF Inv
<1> DEFINE bytes == packet[<<"tx", e>>]
<1>1. bytes \in Seq(Nat)  BY <1>0, SidePairs DEF Fields, Directions
<1>2. /\ stat[<<"tx", e>>] = "valid" /\ stat' = [stat EXCEPT ![<<"tx", e>>] = "nak"]
      /\ UNCHANGED <<btable, memory, arrived, op, packet, used>>
  BY DEF HostReads
<1>3. stat \in [Sides -> {"nak", "valid"}]  BY <1>0 DEF Fields
<1>4. stat' \in [Sides -> {"nak", "valid"}]
   /\ \A s \in Sides : stat'[s] = "nak" \/ stat'[s] = stat[s]
  BY <1>2, <1>3
<1>5. \A s \in Sides : stat[s] = "nak" => stat'[s] = "nak"  BY <1>4
<1>6. Fields'  BY <1>0, <1>2, <1>4 DEF Fields
<1>7. LayoutInv'  BY <1>0, <1>2 DEF LayoutInv
<1>8. WaitingInv'
  <2>1. ASSUME NEW f \in Endpoints, stat'[<<"tx", f>>] = "valid"
        PROVE  Lies(memory', packet'[<<"tx", f>>], "tx", f, btable'[f].tx_count)
    <3>1. stat[<<"tx", f>>] = "valid"  BY <1>4, <2>1, SidePairs DEF Directions
    <3> QED  BY <1>0, <1>2, <3>1 DEF WaitingInv
  <2>2. ASSUME NEW f \in arrived'
        PROVE  stat'[<<"rx", f>>] = "nak"
            /\ Lies(memory', packet'[<<"rx", f>>], "rx", f, btable'[f].rx_count)
    <3>1. f \in arrived /\ f \in Endpoints  BY <1>0, <1>2 DEF Fields
    <3>2. stat'[<<"rx", f>>] = "nak"  BY <1>0, <1>5, <3>1, SidePairs DEF WaitingInv, Directions
    <3> QED  BY <1>0, <1>2, <3>1, <3>2 DEF WaitingInv
  <2> QED  BY <2>1, <2>2 DEF WaitingInv
<1>9. ASSUME op \in Copies PROVE \A d \in Directions : <<d, op.ep>> \in Sides
  BY <1>9, SidePairs DEF Copies
<1>10. op.kind # "idle" => op \in Copies  BY <1>0 DEF Fields, Idle
<1>11. SendInv' /\ ReadInv'
  <2>1. op.kind = "send" => stat'[<<"tx", op.ep>>] = "nak"
    BY <1>0, <1>5, <1>9, <1>10 DEF SendInv, Directions
  <2>2. op.kind = "read" => stat'[<<"rx", op.ep>>] = "nak"
    BY <1>0, <1>5, <1>9, <1>10 DEF ReadInv, Directions
  <2>3. SendInv'  BY <1>0, <1>2, <2>1 DEF SendInv, Halfway
  <2>4. ReadInv'  BY <1>0, <1>2, <2>2 DEF ReadInv, Halfway
  <2> QED  BY <2>3, <2>4
<1>12. PacketsWhole'
  <2>1. Lies(memory, bytes, "tx", e, btable[e].tx_count)  BY <1>0, <1>2 DEF WaitingInv
  <2>2. btable[e].tx_count = Len(bytes) /\ Stored(memory, Base("tx", e), bytes, Len(bytes))
    BY <2>1 DEF Lies
  <2>3. btable[e].tx_offset = Base("tx", e)  BY <1>0 DEF LayoutInv
  <2>4. last' = [want |-> bytes,
                 got |-> [k \in 1..Len(bytes) |->
                            memory[Word(Base("tx", e), (k - 1) \div 2)][2 - (k % 2)]]]
    BY <2>2, <2>3 DEF HostReads
  <2>5. [k \in 1..Len(bytes) |-> memory[Word(Base("tx", e), (k - 1) \div 2)][2 - (k % 2)]] = bytes
    <3> HIDE DEF bytes
    <3>1. bytes = [k \in 1..Len(bytes) |-> bytes[k]]  BY <1>1
    <3>2. \A k \in 1..Len(bytes) :
            memory[Word(Base("tx", e), (k - 1) \div 2)][2 - (k % 2)] = bytes[k]
      BY <2>2 DEF Stored
    <3> QED  BY <3>1, <3>2, Zenon
  <2> QED  BY <2>4, <2>5 DEF PacketsWhole
<1> QED  BY <1>6, <1>7, <1>8, <1>11, <1>12 DEF Inv

LEMMA LengthsRange == \A size \in Nat : \A n \in Lengths(size) : n \in 1..size
  BY SMT DEF Lengths

LEMMA HostSendsInv ==
  ASSUME Fitting, Inv, btable # NoTable, NEW e \in Endpoints,
         NEW n \in Lengths(usb_endpoints[e].rx), HostSends(e, n)
  PROVE  Inv'
<1>0. Fields /\ LayoutInv /\ WaitingInv /\ SendInv /\ ReadInv  BY DEF Inv
<1> DEFINE bytes == Fresh(n)
           base == Base("rx", e)
           place(w) == 2 * (w - base \div 2) + 1
           stored(w) == <<bytes[place(w)], IF place(w) < n THEN bytes[place(w) + 1] ELSE 0>>
<1>1. "rx" \in Directions /\ "tx" \in Directions  BY DEF Directions
<1>2. n \in Nat /\ n <= Room("rx", e) /\ Room("rx", e) \in Nat
  <2>1. usb_endpoints[e].rx \in Nat  BY Sizes
  <2> QED  BY <2>1, LengthsRange, SMT DEF Room
<1>3. bytes \in Seq(Nat) /\ Len(bytes) = n /\ \A k \in 1..n : bytes[k] \in Nat
  BY <1>0, <1>2, FreshBytes DEF Fields
<1>4. btable[e].rx_offset = base  BY <1>0 DEF LayoutInv
<1>5. base \in Nat /\ base % 2 = 0  BY <1>1, BufferBounds
<1>6. btable \in Tables  BY <1>0 DEF Fields
<1>7. memory' = [w \in Words |-> IF place(w) \in 1..n THEN stored(w) ELSE memory[w]]
  BY <1>4 DEF HostSends
<1>8. /\ stat[<<"rx", e>>] = "valid" /\ stat' = [stat EXCEPT ![<<"rx", e>>] = "nak"]
      /\ btable' = [btable EXCEPT ![e].rx_count = n] /\ arrived' = arrived \cup {e}
      /\ packet' = [packet EXCEPT ![<<"rx", e>>] = bytes] /\ used' = used + 1
      /\ UNCHANGED <<op, last>>
  BY DEF HostSends
<1> HIDE DEF bytes, base
<1>9. \A w \in Words : place(w) \in 1..n => place(w) + 1 \in Nat
                                         /\ (place(w) < n => place(w) + 1 \in 1..n)
  BY <1>2, SMT
<1>10. memory \in [Words -> Nat \X Nat]  BY <1>0 DEF Fields
<1>11. memory' \in [Words -> Nat \X Nat]
  <2>1. ASSUME NEW w \in Words, place(w) \in 1..n PROVE stored(w) \in Nat \X Nat
    <3>1. bytes[place(w)] \in Nat  BY <1>3, <2>1
    <3>2. (IF place(w) < n THEN bytes[place(w) + 1] ELSE 0) \in Nat
      <4>1. place(w) < n => place(w) + 1 \in 1..n  BY <1>9, <2>1
      <4> HIDE DEF place
      <4> QED  BY <1>3, <4>1
    <3> HIDE DEF place
    <3> QED  BY <3>1, <3>2
  <2> HIDE DEF stored, place
  <2> QED  BY <1>7, <1>10, <2>1
<1>12. Stored(memory', base, bytes, n)
  <2> SUFFICES ASSUME NEW k \in 1..n
               PROVE  memory'[Word(base, (k - 1) \div 2)][2 - (k % 2)] = bytes[k]
    BY DEF Stored
  <2> DEFINE w == Word(base, (k - 1) \div 2)
  <2>1. (k - 1) \div 2 \in Nat /\ 2 * ((k - 1) \div 2) < Room("rx", e)  BY <1>2, SMT
  <2>2. w \in Words  BY <1>1, <2>1, WordInside DEF base
  <2>3. place(w) = 2 * ((k - 1) \div 2) + 1  BY <1>5, <1>2, SMT DEF Word
  <2> HIDE DEF w
  <2>4. place(w) \in 1..n  BY <1>2, <2>3, SMT
  <2>5. memory'[w] = stored(w)  BY <1>7, <2>2, <2>4
  <2>6. (k % 2 = 1 /\ place(w) = k) \/ (k % 2 = 0 /\ place(w) + 1 = k /\ place(w) < n)
    BY <1>2, <2>3, SMT
  <2> HIDE DEF place
  <2>7. CASE k % 2 = 1 /\ place(w) = k  
    <3>1. 2 - (k % 2) = 1  BY <2>7, SMT
    <3>2. memory'[w][1] = bytes[k]  BY <2>5, <2>7
    <3> QED  BY <3>1, <3>2 DEF w
  <2>8. CASE k % 2 = 0 /\ place(w) + 1 = k /\ place(w) < n
    <3>1. 2 - (k % 2) = 2  BY <2>8, SMT
    <3>2. memory'[w][2] = bytes[k]  BY <2>5, <2>8
    <3> QED  BY <3>1, <3>2 DEF w
  <2> QED  BY <2>6, <2>7, <2>8
<1>13. packet \in [Sides -> Seq(Nat)] /\ <<"rx", e>> \in Sides
  BY <1>0, <1>1, SidePairs DEF Fields
<1>14. packet' \in [Sides -> Seq(Nat)] /\ packet'[<<"rx", e>>] = bytes
  BY <1>3, <1>8, <1>13
<1>15. OthersStay("rx", e)
  <2> SUFFICES ASSUME NEW c \in Directions, NEW f \in Endpoints, <<c, f>> # <<"rx", e>>
               PROVE  /\ packet'[<<c, f>>] = packet[<<c, f>>]
                      /\ \A k \in Nat : 2 * k < Room(c, f) =>
                           memory'[Word(Base(c, f), k)] = memory[Word(Base(c, f), k)]
    BY DEF OthersStay
  <2>1. packet'[<<c, f>>] = packet[<<c, f>>]
    <3>1. <<c, f>> \in Sides  BY SidePairs
    <3> QED  BY <1>8, <1>13, <3>1
  <2>2. ASSUME NEW k \in Nat, 2 * k < Room(c, f)
        PROVE  memory'[Word(Base(c, f), k)] = memory[Word(Base(c, f), k)]
    <3> DEFINE w == Word(Base(c, f), k)
    <3>1. w \in Words  BY <2>2, WordInside
    <3>2. w \in Int  BY <3>1, Constants, SMT DEF Words
    <3> HIDE DEF w
    <3>3. place(w) \notin 1..n
      <4> SUFFICES ASSUME place(w) \in 1..n PROVE FALSE
        OBVIOUS
      <4> DEFINE j == w - base \div 2
      <4>1. j \in Nat /\ 2 * j < Room("rx", e) /\ w = base \div 2 + j
        BY <1>2, <1>5, <3>2, SMT
      <4> HIDE DEF j
      <4>2. Word(base, j) # w  BY <1>1, <2>2, <4>1, WordsApart DEF w, base
      <4> QED  BY <4>1, <4>2 DEF Word
    <3> HIDE DEF place
    <3> QED  BY <1>7, <3>1, <3>3 DEF w
  <2> QED  BY <2>1, <2>2
<1>16. /\ btable' \in Tables /\ btable'[e].rx_count = n
       /\ \A f \in Endpoints : /\ btable'[f].tx_offset = btable[f].tx_offset
                               /\ btable'[f].rx_offset = btable[f].rx_offset
                               /\ btable'[f].limit = btable[f].limit
                               /\ btable'[f].tx_count = btable[f].tx_count
                               /\ f # e => btable'[f].rx_count = btable[f].rx_count
  BY <1>2, <1>6, <1>8 DEF Tables
<1>17. /\ stat' \in [Sides -> {"nak", "valid"}] /\ stat'[<<"rx", e>>] = "nak"
       /\ \A s \in Sides : s # <<"rx", e>> => stat'[s] = stat[s]
  <2>1. stat \in [Sides -> {"nak", "valid"}]  BY <1>0 DEF Fields
  <2> QED  BY <1>8, <1>13, <2>1
<1>18. Fields'
  <2>1. used' \in Nat  BY <1>0, <1>8, SMT DEF Fields
  <2>2. arrived' \subseteq Endpoints  BY <1>0, <1>8 DEF Fields
  <2>3. op' \in Copies \cup {Idle}  BY <1>0, <1>8 DEF Fields
  <2> QED  BY <1>11, <1>14, <1>16, <1>17, <2>1, <2>2, <2>3 DEF Fields
<1>19. LayoutInv'  BY <1>0, <1>16, OffsetsKept
<1>20. WaitingInv'
  <2>1. ASSUME NEW f \in Endpoints, stat'[<<"tx", f>>] = "valid"
        PROVE  Lies(memory', packet'[<<"tx", f>>], "tx", f, btable'[f].tx_count)
    <3>1. <<"tx", f>> \in Sides /\ <<"tx", f>> # <<"rx", e>>  BY <1>1, SidePairs
    <3>2. stat[<<"tx", f>>] = "valid"  BY <1>17, <2>1, <3>1
    <3>3. Lies(memory, packet[<<"tx", f>>], "tx", f, btable[f].tx_count)
      BY <1>0, <3>2 DEF WaitingInv
    <3>4. Lies(memory', packet'[<<"tx", f>>], "tx", f, btable[f].tx_count)
      BY <1>0, <1>1, <1>15, <3>1, <3>3, LiesElsewhere
    <3> QED  BY <1>16, <3>4
  <2>2. ASSUME NEW f \in arrived', f # e
        PROVE  stat'[<<"rx", f>>] = "nak"
            /\ Lies(memory', packet'[<<"rx", f>>], "rx", f, btable'[f].rx_count)
    <3>1. f \in arrived /\ f \in Endpoints  BY <1>0, <1>8, <2>2 DEF Fields
    <3>2. <<"rx", f>> \in Sides /\ <<"rx", f>> # <<"rx", e>>  BY <1>1, <2>2, <3>1, SidePairs
    <3>3. stat[<<"rx", f>>] = "nak" /\ Lies(memory, packet[<<"rx", f>>], "rx", f, btable[f].rx_count)
      BY <1>0, <3>1 DEF WaitingInv
    <3>4. Lies(memory', packet'[<<"rx", f>>], "rx", f, btable[f].rx_count)
      BY <1>0, <1>1, <1>15, <3>1, <3>2, <3>3, LiesElsewhere
    <3>5. stat'[<<"rx", f>>] = "nak"  BY <1>17, <3>2, <3>3
    <3>6. btable'[f].rx_count = btable[f].rx_count  BY <1>16, <2>2, <3>1
    <3> QED  BY <3>4, <3>5, <3>6
  <2>3. Lies(memory', packet'[<<"rx", e>>], "rx", e, btable'[e].rx_count)
    BY <1>2, <1>3, <1>12, <1>14, <1>16 DEF Lies, base
  <2> QED  BY <1>17, <2>1, <2>2, <2>3 DEF WaitingInv
<1>21. op.kind # "idle" => op \in Copies /\ op.ep \in Endpoints
  BY <1>0 DEF Fields, Idle, Copies
<1>22. SendInv'
  <2> SUFFICES ASSUME op.kind = "send"
               PROVE  LET b == packet'[<<"tx", op.ep>>]
                      IN  /\ stat'[<<"tx", op.ep>>] = "nak" /\ Halfway
                          /\ op.base = Base("tx", op.ep) /\ op.count = Len(b)
                          /\ op.count <= Room("tx", op.ep)
                          /\ Buffered(op.buf, op.start, b, op.count)
                          /\ Stored(memory', op.base, b, op.done)
    BY <1>8 DEF SendInv, Halfway
  <2> DEFINE b == packet[<<"tx", op.ep>>]
  <2>1. /\ stat[<<"tx", op.ep>>] = "nak" /\ Halfway
        /\ op.base = Base("tx", op.ep) /\ op.count = Len(b) /\ op.count <= Room("tx", op.ep)
        /\ Buffered(op.buf, op.start, b, op.count) /\ Stored(memory, op.base, b, op.done)
    BY <1>0 DEF SendInv
  <2>2. op.ep \in Endpoints /\ op.count \in Nat /\ op.done \in Nat
    BY <1>21 DEF Copies
  <2>3. <<"tx", op.ep>> \in Sides /\ <<"tx", op.ep>> # <<"rx", e>>  BY <1>1, <2>2, SidePairs
  <2>4. stat'[<<"tx", op.ep>>] = "nak"  BY <1>17, <2>1, <2>3
  <2>5. packet'[<<"tx", op.ep>>] = b  BY <1>1, <1>15, <2>2, <2>3 DEF OthersStay
  <2>6. op.done <= Room("tx", op.ep)
    <3>1. Room("tx", op.ep) \in Nat  BY <1>1, <2>2, BufferBounds
    <3>2. op.done <= op.count  BY <2>1 DEF Halfway
    <3> QED  BY <2>1, <2>2, <3>1, <3>2, SMT
  <2>7. Stored(memory', Base("tx", op.ep), b, op.done)
    <3>1. \A k \in Nat : 2 * k < Room("tx", op.ep) =>
            memory'[Word(Base("tx", op.ep), k)] = memory[Word(Base("tx", op.ep), k)]
      BY <1>1, <1>15, <2>2, <2>3 DEF OthersStay
    <3>2. Stored(memory, Base("tx", op.ep), b, op.done)  BY <2>1
    <3> QED  BY <1>1, <2>2, <2>6, <3>1, <3>2, LiesStill
  <2> QED  BY <2>1, <2>4, <2>5, <2>7
<1>23. ReadInv'
  <2> SUFFICES ASSUME op.kind = "read"
               PROVE  /\ stat'[<<"rx", op.ep>>] = "nak" /\ op.ep \notin arrived' /\ Halfway
                      /\ op.base = Base("rx", op.ep)
                      /\ Lies(memory', packet'[<<"rx", op.ep>>], "rx", op.ep, op.count)
                      /\ Buffered(op.buf, op.start, packet'[<<"rx", op.ep>>], op.done)
    BY <1>8 DEF ReadInv, Halfway
  <2>1. /\ stat[<<"rx", op.ep>>] = "nak" /\ op.ep \notin arrived /\ Halfway
        /\ op.base = Base("rx", op.ep)
        /\ Lies(memory, packet[<<"rx", op.ep>>], "rx", op.ep, op.count)
        /\ Buffered(op.buf, op.start, packet[<<"rx", op.ep>>], op.done)
    BY <1>0 DEF ReadInv
  <2>2. op.ep \in Endpoints  BY <1>21
  <2>3. op.ep # e  BY <1>8, <2>1
  <2>4. <<"rx", op.ep>> \in Sides /\ <<"rx", op.ep>> # <<"rx", e>>
    BY <1>1, <2>2, <2>3, SidePairs
  <2>5. stat'[<<"rx", op.ep>>] = "nak"  BY <1>17, <2>1, <2>4
  <2>6. packet'[<<"rx", op.ep>>] = packet[<<"rx", op.ep>>]
    BY <1>1, <1>15, <2>2, <2>4 DEF OthersStay
  <2>7. Lies(memory', packet'[<<"rx", op.ep>>], "rx", op.ep, op.count)
    BY <1>0, <1>1, <1>15, <2>1, <2>2, <2>4, LiesElsewhere
  <2>8. op.ep \notin arrived'  BY <1>8, <2>1, <2>3
  <2> QED  BY <2>1, <2>5, <2>6, <2>7, <2>8
<1>24. PacketsWhole'  BY <1>8 DEF Inv, PacketsWhole
<1> QED  BY <1>18, <1>19, <1>20, <1>22, <1>23, <1>24 DEF Inv

-----------------------------------------------------------------------------
(* Steps of the software.                                                   *)

LEMMA StartsInside == \A e \in Endpoints : Starts(e) \subseteq Index
  BY Constants, SMT DEF Starts, Index

LEMMA BeginSendInv ==
  ASSUME Fitting, Inv, btable # NoTable, NEW e \in Endpoints, NEW start \in Starts(e),
         NEW n \in Lengths(usb_endpoints[e].tx) \cup {usb_endpoints[e].tx + 1},
         BeginSend(e, start, n)
  PROVE  Inv'
<1>0. Fields /\ LayoutInv /\ WaitingInv /\ SendInv /\ ReadInv  BY DEF Inv
<1> DEFINE tx == usb_endpoints[e].tx
           count == IF n > tx THEN tx ELSE n
           bytes == SubSeq(Fresh(n), 1, count)
           buf == Filled(start, Fresh(n))
           mine == <<"tx", e>>
<1>1. "rx" \in Directions /\ "tx" \in Directions  BY DEF Directions
<1>2. tx \in Nat /\ tx < Size /\ tx = Room("tx", e)  BY Sizes DEF Room
<1>3. start \in Index  BY StartsInside
<1>4. n \in 0..Size /\ n \in Nat /\ count \in 0..n /\ count \in Nat /\ count <= tx
  <2>1. n \in 1..tx \/ n = tx + 1  BY <1>2, LengthsRange
  <2> HIDE DEF tx
  <2> QED  BY <1>2, <2>1, Constants, SMT
<1>5. btable \in Tables /\ used \in Nat  BY <1>0 DEF Fields
<1>6. op = Idle /\ stat[mine] = "nak"
  BY DEF BeginSend
<1>7. /\ op' = [kind |-> "send", ep |-> e, start |-> start, count |-> count, done |-> 0,
                base |-> btable[e].tx_offset, buf |-> buf]
      /\ packet' = [packet EXCEPT ![mine] = bytes] /\ used' = used + 1
      /\ UNCHANGED <<btable, memory, stat, arrived, last>>
  BY DEF BeginSend
<1>8. btable[e].tx_offset = Base("tx", e)  BY <1>0 DEF LayoutInv
<1>9. bytes \in Seq(Nat) /\ Len(bytes) = count /\ \A k \in 1..count : bytes[k] = Fresh(n)[k]
  <2> HIDE DEF count
  <2> QED  BY <1>4, <1>5, Handed
<1>10. /\ buf \in [Index -> Nat]
       /\ \A k \in 1..n : buf[Advance(start, k - 1, Size)] = Fresh(n)[k]
  BY <1>3, <1>4, <1>5, FilledHolds
<1> HIDE DEF tx, count, bytes, buf
<1>11. Base("tx", e) \in Nat  BY <1>1, BufferBounds
<1>12. op' \in Copies
  BY <1>3, <1>4, <1>7, <1>8, <1>10, <1>11 DEF Copies
<1>13. mine \in Sides  BY <1>1, SidePairs
<1>14. /\ packet' \in [Sides -> Seq(Nat)] /\ packet'[mine] = bytes
       /\ \A s \in Sides : s # mine => packet'[s] = packet[s]
  <2>1. packet \in [Sides -> Seq(Nat)]  BY <1>0 DEF Fields
  <2> HIDE DEF mine
  <2> QED  BY <1>7, <1>9, <1>13, <2>1
<1>15. Fields'
  <2>1. used' \in Nat  BY <1>5, <1>7, SMT
  <2> QED  BY <1>0, <1>7, <1>12, <1>14, <2>1 DEF Fields
<1>16. LayoutInv'
  BY <1>0, <1>5, <1>7, OffsetsKept
<1>17. WaitingInv'
  <2>1. ASSUME NEW f \in Endpoints, stat'[<<"tx", f>>] = "valid"
        PROVE  Lies(memory', packet'[<<"tx", f>>], "tx", f, btable'[f].tx_count)
    <3>1. stat[<<"tx", f>>] = "valid" /\ <<"tx", f>> # mine /\ <<"tx", f>> \in Sides
      BY <1>1, <1>6, <1>7, <2>1, SidePairs
    <3>2. packet'[<<"tx", f>>] = packet[<<"tx", f>>]  BY <1>14, <3>1
    <3> QED  BY <1>0, <1>7, <3>1, <3>2 DEF WaitingInv
  <2>2. ASSUME NEW f \in arrived'
        PROVE  stat'[<<"rx", f>>] = "nak"
            /\ Lies(memory', packet'[<<"rx", f>>], "rx", f, btable'[f].rx_count)
    <3>1. f \in arrived /\ f \in Endpoints  BY <1>0, <1>7 DEF Fields
    <3>2. <<"rx", f>> # mine /\ <<"rx", f>> \in Sides  BY <1>1, <3>1, SidePairs
    <3>3. packet'[<<"rx", f>>] = packet[<<"rx", f>>]  BY <1>14, <3>2
    <3> QED  BY <1>0, <1>7, <3>1, <3>3 DEF WaitingInv
  <2> QED  BY <2>1, <2>2 DEF WaitingInv
<1>18. /\ op'.kind = "send" /\ op'.ep = e /\ op'.start = start /\ op'.count = count
       /\ op'.done = 0 /\ op'.base = Base("tx", e) /\ op'.buf = buf
  BY <1>7, <1>8
<1>19. SendInv'
  <2>1. Halfway'  BY <1>4, <1>18, SMT DEF Halfway
  <2>2. Buffered(buf, start, bytes, count)
    <3>1. \A k \in 1..count : k \in 1..n  BY <1>4, SMT
    <3> QED  BY <1>9, <1>10, <3>1 DEF Buffered
  <2>3. Stored(memory', Base("tx", e), bytes, 0)  BY SMT DEF Stored
  <2>4. stat'[mine] = "nak"  BY <1>6, <1>7
  <2> QED  BY <1>2, <1>4, <1>9, <1>14, <1>18, <2>1, <2>2, <2>3, <2>4 DEF SendInv
<1>20. ReadInv'  BY <1>18 DEF ReadInv
<1>21. PacketsWhole'  BY <1>7 DEF Inv, PacketsWhole
<1> QED  BY <1>15, <1>16, <1>17, <1>19, <1>20, <1>21 DEF Inv

LEMMA BeginReadInv ==
  ASSUME Fitting, Inv, btable # NoTable, NEW e \in Endpoints, NEW start \in Starts(e),
         NEW room, BeginRead(e, start, room)
  PROVE  Inv'
<1>0. Fields /\ LayoutInv /\ WaitingInv /\ SendInv /\ ReadInv  BY DEF Inv
<1> DEFINE count == btable[e].rx_count
           zeros == [i \in Index |-> 0]
<1>1. "rx" \in Directions /\ "tx" \in Directions  BY DEF Directions
<1>2. start \in Index  BY StartsInside
<1>3. btable \in Tables  BY <1>0 DEF Fields
<1>4. count \in Nat  BY <1>3 DEF Tables
<1>5. op = Idle /\ e \in arrived /\ arrived' = arrived \ {e}
   /\ UNCHANGED <<memory, stat, packet, last, used>>
  BY DEF BeginRead
<1>6. btable[e].rx_offset = Base("rx", e)  BY <1>0 DEF LayoutInv
<1>7. /\ stat[<<"rx", e>>] = "nak" /\ Lies(memory, packet[<<"rx", e>>], "rx", e, count)
  BY <1>0, <1>5 DEF WaitingInv
<1>8. \/ UNCHANGED <<btable, op>>
      \/ /\ btable' = [btable EXCEPT ![e].rx_count = 0]
         /\ op' = [kind |-> "read", ep |-> e, start |-> start, count |-> count, done |-> 0,
                   base |-> Base("rx", e), buf |-> zeros]
  BY <1>6 DEF BeginRead
<1> HIDE DEF count, zeros
<1>9. /\ btable' \in Tables
      /\ \A f \in Endpoints : /\ btable'[f].tx_offset = btable[f].tx_offset
                              /\ btable'[f].rx_offset = btable[f].rx_offset
                              /\ btable'[f].limit = btable[f].limit
                              /\ btable'[f].tx_count = btable[f].tx_count
                              /\ f # e => btable'[f].rx_count = btable[f].rx_count
  <2>1. CASE btable' = btable  BY <1>3, <2>1
  <2>2. CASE btable' = [btable EXCEPT ![e].rx_count = 0]  BY <1>3, <2>2 DEF Tables
  <2> QED  BY <1>8, <2>1, <2>2
<1>10. op' = Idle \/ (/\ op' \in Copies
                      /\ op'.kind = "read" /\ op'.ep = e /\ op'.start = start
                      /\ op'.count = count /\ op'.done = 0 /\ op'.base = Base("rx", e))
  <2>1. zeros \in [Index -> Nat]  BY DEF zeros
  <2>2. Base("rx", e) \in Nat  BY <1>1, BufferBounds
  <2>3. [kind |-> "read", ep |-> e, start |-> start, count |-> count, done |-> 0,
         base |-> Base("rx", e), buf |-> zeros] \in Copies
    BY <1>2, <1>4, <2>1, <2>2 DEF Copies
  <2> QED  BY <1>5, <1>8, <2>3
<1>11. Fields'  BY <1>0, <1>5, <1>9, <1>10 DEF Fields, Idle
<1>12. LayoutInv'  BY <1>0, <1>9, OffsetsKept
<1>13. WaitingInv'
  <2>1. ASSUME NEW f \in Endpoints, stat'[<<"tx", f>>] = "valid"
        PROVE  Lies(memory', packet'[<<"tx", f>>], "tx", f, btable'[f].tx_count)
    BY <1>0, <1>5, <1>9, <2>1 DEF WaitingInv
  <2>2. ASSUME NEW f \in arrived'
        PROVE  stat'[<<"rx", f>>] = "nak"
            /\ Lies(memory', packet'[<<"rx", f>>], "rx", f, btable'[f].rx_count)
    <3>1. f \in arrived /\ f # e /\ f \in Endpoints  BY <1>0, <1>5 DEF Fields
    <3> QED  BY <1>0, <1>5, <1>9, <3>1 DEF WaitingInv
  <2> QED  BY <2>1, <2>2 DEF WaitingInv
<1>14. SendInv'  BY <1>10 DEF SendInv, Idle
<1>15. ReadInv'
  <2>1. CASE op' = Idle  BY <2>1 DEF ReadInv, Idle
  <2>2. CASE /\ op' \in Copies
             /\ op'.kind = "read" /\ op'.ep = e /\ op'.start = start
             /\ op'.count = count /\ op'.done = 0 /\ op'.base = Base("rx", e)
    <3>1. Halfway'  BY <1>4, <2>2, SMT DEF Halfway
    <3>2. e \notin arrived'  BY <1>5
    <3>3. Buffered(op'.buf, start, packet'[<<"rx", e>>], 0)  BY SMT DEF Buffered
    <3> QED  BY <1>5, <1>7, <2>2, <3>1, <3>2, <3>3 DEF ReadInv
  <2> QED  BY <1>10, <2>1, <2>2
<1>16. PacketsWhole'  BY <1>5 DEF Inv, PacketsWhole
<1> QED  BY <1>11, <1>12, <1>13, <1>14, <1>15, <1>16 DEF Inv

\* Halfway, and something is left
LEMMA NextHalfword ==
  ASSUME op \in Copies, Halfway, op.done < ToCopy(op.count)
  PROVE  LET more == IF Odd THEN 1 ELSE 2
         IN  /\ op.done % 2 = 0 /\ op.done < op.count /\ op.done + more <= op.count
             /\ (op.done + more) % 2 = 0 \/ op.done + more = op.count
             /\ op.done + 0 = op.done + 1 - 1 /\ op.done + 1 = op.done + 2 - 1
             /\ op.done + 1 \in 1..op.count /\ (~Odd => op.done + 2 \in 1..op.count)
             /\ op.done \div 2 \in Nat /\ 2 * (op.done \div 2) = op.done
<1>1. op.done \in Nat /\ op.count \in Nat  BY DEF Copies
<1>2. op.done < op.count  BY DEF ToCopy
<1>3. op.done % 2 = 0  BY <1>1, <1>2, SMT DEF Halfway
<1> QED  BY <1>1, <1>2, <1>3, SMT DEF Odd

\* Bytes before, at and after an even position: in which half-word, and which half
LEMMA Halves ==
  ASSUME NEW done \in Nat, done % 2 = 0
  PROVE  /\ (done + 1 - 1) \div 2 = done \div 2 /\ 2 - ((done + 1) % 2) = 1
         /\ (done + 2 - 1) \div 2 = done \div 2 /\ 2 - ((done + 2) % 2) = 2
         /\ \A k \in 1..done : /\ (k - 1) \div 2 \in Nat /\ 2 * ((k - 1) \div 2) < done
                               /\ (k - 1) \div 2 # done \div 2
<1>1. PICK h \in Nat : done = 2 * h
  <2>1. done = 2 * (done \div 2) /\ done \div 2 \in Nat  BY SMT
  <2> QED  BY <2>1
<1>2. done \div 2 = h  BY <1>1, SMT
<1>3. (done + 1 - 1) \div 2 = h /\ (done + 2 - 1) \div 2 = h  BY <1>1, SMT
<1>4. (done + 1) % 2 = 1 /\ (done + 2) % 2 = 0  BY <1>1, SMT
<1>5. \A k \in 1..done : (k - 1) \div 2 \in Nat /\ 2 * ((k - 1) \div 2) < done /\ (k - 1) \div 2 < h
  BY <1>1, SMT
<1> QED  BY <1>2, <1>3, <1>4, <1>5, SMT

LEMMA SendWordInv ==
  ASSUME Fitting, Inv, btable # NoTable, SendWord
  PROVE  Inv'
<1>0. Fields /\ LayoutInv /\ WaitingInv /\ SendInv /\ ReadInv  BY DEF Inv
<1> DEFINE e == op.ep
           mine == <<"tx", e>>
           bytes == packet[mine]
           base == Base("tx", e)
           more == IF Odd THEN 1 ELSE 2
           one == op.buf[Place(0)]
           two == IF Odd THEN 0 ELSE op.buf[Place(1)]
<1>1. "rx" \in Directions /\ "tx" \in Directions  BY DEF Directions
<1>2. /\ op.kind = "send" /\ op.done < ToCopy(op.count)
      /\ memory' = [memory EXCEPT ![Here] = <<one, two>>]
      /\ op' = [op EXCEPT !.done = @ + more]
      /\ UNCHANGED <<btable, stat, arrived, packet, last, used>>
  BY DEF SendWord, Copying
<1>3. op \in Copies  BY <1>0, <1>2 DEF Fields, Idle
<1>4. /\ e \in Endpoints /\ op.count \in Nat /\ op.done \in Nat /\ op.start \in Index
      /\ op.buf \in [Index -> Nat]
  BY <1>3 DEF Copies
<1>5. /\ stat[mine] = "nak" /\ Halfway /\ op.base = base /\ op.count = Len(bytes)
      /\ op.count <= Room("tx", e) /\ Buffered(op.buf, op.start, bytes, op.count)
      /\ Stored(memory, base, bytes, op.done)
  BY <1>0, <1>2 DEF SendInv
<1>6. /\ op.done % 2 = 0 /\ op.done < op.count /\ op.done + more <= op.count
      /\ (op.done + more) % 2 = 0 \/ op.done + more = op.count
      /\ op.done + 0 = op.done + 1 - 1 /\ op.done + 1 = op.done + 2 - 1
      /\ op.done + 1 \in 1..op.count /\ (~Odd => op.done + 2 \in 1..op.count)
      /\ op.done \div 2 \in Nat /\ 2 * (op.done \div 2) = op.done
  BY <1>2, <1>3, <1>5, NextHalfword
<1>7. Room("tx", e) \in Nat /\ base \in Nat  BY <1>1, <1>4, BufferBounds
<1>8. more \in {1, 2}  OBVIOUS
<1>9. op' \in Copies /\ op'.kind = "send" /\ op'.ep = e /\ op'.start = op.start
   /\ op'.count = op.count /\ op'.done = op.done + more /\ op'.base = op.base /\ op'.buf = op.buf
  <2> HIDE DEF more
  <2>1. op.done + more \in Nat  BY <1>4, <1>8, SMT
  <2> QED  BY <1>2, <1>3, <2>1 DEF Copies
<1>10. Here = Word(base, op.done \div 2)  BY <1>5 DEF Here
<1>11. Here \in Words
  <2>1. 2 * (op.done \div 2) < Room("tx", e)  BY <1>4, <1>5, <1>6, <1>7, SMT
  <2> QED  BY <1>1, <1>4, <1>6, <1>10, <2>1, WordInside
<1>12. \A k \in 1..op.count : op.buf[Advance(op.start, k - 1, Size)] = bytes[k]
  BY <1>5 DEF Buffered
<1>13. one = bytes[op.done + 1]
  <2>1. Place(0) = Advance(op.start, op.done + 1 - 1, Size)  BY <1>6 DEF Place
  <2> QED  BY <1>6, <1>12, <2>1
<1>14. ~Odd => two = bytes[op.done + 2]
  <2>1. Place(1) = Advance(op.start, op.done + 2 - 1, Size)  BY <1>6 DEF Place
  <2> QED  BY <1>6, <1>12, <2>1
<1>15. bytes \in Seq(Nat)  BY <1>0, <1>1, <1>4, SidePairs DEF Fields
<1>16. one \in Nat /\ two \in Nat
  <2>1. \A k \in 1..op.count : bytes[k] \in Nat  BY <1>5, <1>15
  <2> QED  BY <1>6, <1>13, <1>14, <2>1
<1>17. memory \in [Words -> Nat \X Nat]  BY <1>0 DEF Fields
<1> HIDE DEF one, two, bytes, base
<1>18. /\ memory' \in [Words -> Nat \X Nat] /\ memory'[Here] = <<one, two>>
       /\ \A w \in Words : w # Here => memory'[w] = memory[w]
  <2>1. <<one, two>> \in Nat \X Nat  BY <1>16
  <2> HIDE DEF Here
  <2> QED  BY <1>2, <1>11, <1>17, <2>1 DEF one, two
<1>19. Stored(memory', base, bytes, op.done + more)
  <2> SUFFICES ASSUME NEW k \in 1..(op.done + more)
               PROVE  memory'[Word(base, (k - 1) \div 2)][2 - (k % 2)] = bytes[k]
    BY DEF Stored
  <2>1. k \in 1..op.done \/ k = op.done + 1 \/ (~Odd /\ k = op.done + 2)
    BY <1>4, <1>8, SMT
  <2>2. CASE k \in 1..op.done
    <3>1. memory[Word(base, (k - 1) \div 2)][2 - (k % 2)] = bytes[k]
      BY <1>5, <2>2 DEF Stored
    <3>2. /\ (k - 1) \div 2 \in Nat /\ 2 * ((k - 1) \div 2) < Room("tx", e)
          /\ (k - 1) \div 2 # op.done \div 2
      <4>1. /\ (k - 1) \div 2 \in Nat /\ 2 * ((k - 1) \div 2) < op.done
            /\ (k - 1) \div 2 # op.done \div 2
        BY <1>4, <1>6, <2>2, Halves
      <4>2. op.done < Room("tx", e)  BY <1>4, <1>5, <1>6, <1>7, SMT
      <4> QED  BY <1>4, <1>7, <4>1, <4>2, SMT
    <3>3. Word(base, (k - 1) \div 2) \in Words  BY <1>1, <1>4, <3>2, WordInside DEF base
    <3>4. Word(base, (k - 1) \div 2) # Here
      <4>1. base \div 2 \in Int  BY <1>7, SMT
      <4> QED  BY <1>6, <1>10, <3>2, <4>1, SMT DEF Word
    <3> QED  BY <1>18, <3>1, <3>3, <3>4
  <2>3. CASE k = op.done + 1
    <3>1. (k - 1) \div 2 = op.done \div 2 /\ 2 - (k % 2) = 1  BY <1>4, <1>6, <2>3, Halves
    <3> QED  BY <1>10, <1>13, <1>18, <2>3, <3>1
  <2>4. CASE ~Odd /\ k = op.done + 2
    <3>1. (op.done + 2 - 1) \div 2 = op.done \div 2 /\ 2 - ((op.done + 2) % 2) = 2
      BY <1>4, <1>6, Halves
    <3>2. (k - 1) \div 2 = op.done \div 2 /\ 2 - (k % 2) = 2
      <4>1. k = op.done + 2  BY <2>4
      <4> QED  BY <1>4, <3>1, <4>1
    <3>3. memory'[Here][2] = two  BY <1>18
    <3>4. two = bytes[k]  BY <1>14, <2>4, Zenon
    <3> QED  BY <1>10, <3>2, <3>3, <3>4, Zenon
  <2> QED  BY <2>1, <2>2, <2>3, <2>4
<1>20. OthersStay("tx", e)
  <2> SUFFICES ASSUME NEW c \in Directions, NEW f \in Endpoints, <<c, f>> # <<"tx", e>>,
                      NEW k \in Nat, 2 * k < Room(c, f)
               PROVE  memory'[Word(Base(c, f), k)] = memory[Word(Base(c, f), k)]
    BY <1>2 DEF OthersStay
  <2>1. Word(Base(c, f), k) \in Words  BY WordInside
  <2>2. 2 * (op.done \div 2) < Room("tx", e)  BY <1>4, <1>5, <1>6, <1>7, SMT
  <2>3. Word(Base(c, f), k) # Here
    BY <1>1, <1>4, <1>6, <1>10, <2>2, WordsApart DEF base
  <2> QED  BY <1>18, <2>1, <2>3
<1>21. Fields'  BY <1>0, <1>2, <1>9, <1>18 DEF Fields
<1>22. LayoutInv'
  <2>1. btable \in Tables  BY <1>0 DEF Fields
  <2> QED  BY <1>0, <1>2, <2>1, OffsetsKept
<1>23. WaitingInv'
  <2>1. ASSUME NEW f \in Endpoints, stat'[<<"tx", f>>] = "valid"
        PROVE  Lies(memory', packet'[<<"tx", f>>], "tx", f, btable'[f].tx_count)
    <3>1. stat[<<"tx", f>>] = "valid" /\ <<"tx", f>> # mine
      BY <1>2, <1>5, <2>1
    <3>2. Lies(memory, packet[<<"tx", f>>], "tx", f, btable[f].tx_count)
      BY <1>0, <3>1 DEF WaitingInv
    <3>3. Lies(memory', packet'[<<"tx", f>>], "tx", f, btable[f].tx_count)
      BY <1>0, <1>1, <1>4, <1>20, <3>1, <3>2, LiesElsewhere
    <3> QED  BY <1>2, <3>3
  <2>2. ASSUME NEW f \in arrived'
        PROVE  stat'[<<"rx", f>>] = "nak"
            /\ Lies(memory', packet'[<<"rx", f>>], "rx", f, btable'[f].rx_count)
    <3>1. f \in arrived /\ f \in Endpoints  BY <1>0, <1>2, <2>2 DEF Fields
    <3>2. <<"rx", f>> # mine  OBVIOUS
    <3>3. stat[<<"rx", f>>] = "nak" /\ Lies(memory, packet[<<"rx", f>>], "rx", f, btable[f].rx_count)
      BY <1>0, <3>1 DEF WaitingInv
    <3>4. Lies(memory', packet'[<<"rx", f>>], "rx", f, btable[f].rx_count)
      BY <1>0, <1>1, <1>4, <1>20, <3>1, <3>2, <3>3, LiesElsewhere
    <3> QED  BY <1>2, <3>3, <3>4
  <2> QED  BY <2>1, <2>2 DEF WaitingInv
<1>24. SendInv'
  <2>1. Halfway'
    <3>1. op'.done <= op'.count /\ (op'.done % 2 = 0 \/ op'.done = op'.count)  BY <1>6, <1>9
    <3> QED  BY <3>1 DEF Halfway
  <2>2. packet'[<<"tx", op'.ep>>] = bytes /\ stat'[<<"tx", op'.ep>>] = "nak"
     /\ Base("tx", op'.ep) = base /\ Room("tx", op'.ep) = Room("tx", e)
    BY <1>2, <1>5, <1>9 DEF bytes, base
  <2>3. op'.base = base /\ op'.count = Len(bytes) /\ op'.count <= Room("tx", e)
     /\ Buffered(op'.buf, op'.start, bytes, op'.count)
     /\ Stored(memory', op'.base, bytes, op'.done)
    BY <1>5, <1>9, <1>19
  <2> QED  BY <2>1, <2>2, <2>3 DEF SendInv
<1>25. ReadInv'  BY <1>9 DEF ReadInv
<1>26. PacketsWhole'  BY <1>2 DEF Inv, PacketsWhole
<1> QED  BY <1>21, <1>22, <1>23, <1>24, <1>25, <1>26 DEF Inv

LEMMA ReadWordInv ==
  ASSUME Fitting, Inv, btable # NoTable, ReadWord
  PROVE  Inv'
<1>0. Fields /\ LayoutInv /\ WaitingInv /\ SendInv /\ ReadInv  BY DEF Inv
<1> DEFINE e == op.ep
           mine == <<"rx", e>>
           bytes == packet[mine]
           base == Base("rx", e)
           more == IF Odd THEN 1 ELSE 2
           p == Place(0)
           q == Place(1)
           one == memory[Here][1]
           two == memory[Here][2]
           buf == IF Odd THEN [op.buf EXCEPT ![p] = one]
                  ELSE [op.buf EXCEPT ![p] = one, ![q] = two]
<1>1. "rx" \in Directions /\ "tx" \in Directions  BY DEF Directions
<1>2. /\ op.kind = "read" /\ op.done < ToCopy(op.count)
      /\ op' = [op EXCEPT !.done = @ + more, !.buf = buf]
      /\ UNCHANGED <<btable, memory, stat, arrived, packet, last, used>>
  BY DEF ReadWord, Copying
<1>3. op \in Copies  BY <1>0, <1>2 DEF Fields, Idle
<1>4. /\ e \in Endpoints /\ op.count \in Nat /\ op.done \in Nat /\ op.start \in Index
      /\ op.buf \in [Index -> Nat]
  BY <1>3 DEF Copies
<1>5. /\ stat[mine] = "nak" /\ e \notin arrived /\ Halfway /\ op.base = base
      /\ Lies(memory, bytes, "rx", e, op.count)
      /\ Buffered(op.buf, op.start, bytes, op.done)
  BY <1>0, <1>2 DEF ReadInv
<1>6. op.count = Len(bytes) /\ op.count <= Room("rx", e) /\ Stored(memory, base, bytes, op.count)
  BY <1>5 DEF Lies
<1>7. /\ op.done % 2 = 0 /\ op.done < op.count /\ op.done + more <= op.count
      /\ (op.done + more) % 2 = 0 \/ op.done + more = op.count
      /\ op.done + 0 = op.done + 1 - 1 /\ op.done + 1 = op.done + 2 - 1
      /\ op.done + 1 \in 1..op.count /\ (~Odd => op.done + 2 \in 1..op.count)
      /\ op.done \div 2 \in Nat /\ 2 * (op.done \div 2) = op.done
  BY <1>2, <1>3, <1>5, NextHalfword
<1>8. Room("rx", e) \in Nat /\ Room("rx", e) < Size /\ base \in Nat  BY <1>1, <1>4, BufferBounds
<1>9. more \in {1, 2}  OBVIOUS
<1>10. Here = Word(base, op.done \div 2)  BY <1>5 DEF Here
<1>11. Here \in Words
  <2>1. 2 * (op.done \div 2) < Room("rx", e)  BY <1>4, <1>6, <1>7, <1>8, SMT
  <2> QED  BY <1>1, <1>4, <1>7, <1>10, <2>1, WordInside
<1>12. one \in Nat /\ two \in Nat
  <2>1. memory \in [Words -> Nat \X Nat]  BY <1>0 DEF Fields
  <2> HIDE DEF Here
  <2> QED  BY <1>11, <2>1
<1>13. \A k \in 1..op.count : memory[Word(base, (k - 1) \div 2)][2 - (k % 2)] = bytes[k]
  BY <1>6 DEF Stored
<1>14. one = bytes[op.done + 1]
  <2>1. (op.done + 1 - 1) \div 2 = op.done \div 2 /\ 2 - ((op.done + 1) % 2) = 1
    BY <1>4, <1>7, Halves
  <2> QED  BY <1>7, <1>10, <1>13, <2>1
<1>15. ~Odd => two = bytes[op.done + 2]
  <2>1. (op.done + 2 - 1) \div 2 = op.done \div 2 /\ 2 - ((op.done + 2) % 2) = 2
    BY <1>4, <1>7, Halves
  <2>2. ASSUME ~Odd
        PROVE  memory[Word(base, (op.done + 2 - 1) \div 2)][2 - ((op.done + 2) % 2)]
                 = bytes[op.done + 2]
    <3>1. op.done + 2 \in 1..op.count  BY <1>7, <2>2
    <3> QED  BY <1>4, <1>13, <3>1
  <2> QED  BY <1>10, <2>1, <2>2, Zenon
\* The places in the circular buffer are different ones.
<1> DEFINE at(k) == Advance(op.start, k - 1, Size)
<1>16. \A k \in 1..op.count : /\ at(k) \in Index
                              /\ circ_buf_count(at(k), op.start, Size) = k - 1
  <2> TAKE k \in 1..op.count
  <2>1. k - 1 \in 0..Size - 1  BY <1>4, <1>6, <1>8, Constants, SMT
  <2> QED  BY <1>4, <2>1, CountOfAdvance
<1>17. p = at(op.done + 1) /\ q = at(op.done + 2)  BY <1>7 DEF Place
<1> HIDE DEF at, p, q, one, two, bytes, base
<1>18. \A j, k \in 1..op.count : j # k => at(j) # at(k)
  <2> TAKE j, k \in 1..op.count
  <2>1. j - 1 = k - 1 => j = k  BY <1>4, SMT
  <2> QED  BY <1>16, <2>1
<1>19. p \in Index /\ (~Odd => q \in Index /\ q # p)
  <2>1. op.done + 1 # op.done + 2  BY <1>4, SMT
  <2> QED  BY <1>7, <1>16, <1>17, <1>18, <2>1
<1>20. buf \in [Index -> Nat]  BY <1>4, <1>12, <1>19
<1>21. op' \in Copies /\ op'.kind = "read" /\ op'.ep = e /\ op'.start = op.start
    /\ op'.count = op.count /\ op'.done = op.done + more /\ op'.base = op.base /\ op'.buf = buf
  <2> HIDE DEF more, buf
  <2>1. op.done + more \in Nat  BY <1>4, <1>9, SMT
  <2> QED  BY <1>2, <1>3, <1>20, <2>1 DEF Copies
<1>22. Buffered(buf, op.start, bytes, op.done + more)
  <2> SUFFICES ASSUME NEW k \in 1..(op.done + more) PROVE buf[at(k)] = bytes[k]
    BY DEF Buffered, at
  <2>1. k \in 1..op.done \/ k = op.done + 1 \/ (~Odd /\ k = op.done + 2)
    BY <1>4, <1>9, SMT
  <2>2. k \in 1..op.count  BY <1>4, <1>7, <1>9, SMT
  <2>3. CASE k \in 1..op.done
    <3>1. k # op.done + 1 /\ k # op.done + 2  BY <1>4, <2>3, SMT
    <3>2. at(k) # p /\ (~Odd => at(k) # q)  BY <1>7, <1>17, <1>18, <2>2, <3>1
    <3>3. op.buf[at(k)] = bytes[k]  BY <1>5, <2>3 DEF Buffered, at
    <3>4. at(k) \in Index  BY <1>16, <2>2
    <3> QED  BY <1>4, <3>2, <3>3, <3>4
  <2>4. CASE k = op.done + 1
    <3>1. buf[p] = one  BY <1>4, <1>19
    <3> QED  BY <1>14, <1>17, <2>4, <3>1
  <2>5. CASE ~Odd /\ k = op.done + 2
    <3>1. buf[q] = two  BY <1>4, <1>19, <2>5
    <3> QED  BY <1>15, <1>17, <2>5, <3>1
  <2> QED  BY <2>1, <2>3, <2>4, <2>5
<1>23. Fields'  BY <1>0, <1>2, <1>21 DEF Fields
<1>24. LayoutInv'
  <2>1. btable \in Tables  BY <1>0 DEF Fields
  <2> QED  BY <1>0, <1>2, <2>1, OffsetsKept
<1>25. WaitingInv'  BY <1>0, <1>2 DEF WaitingInv
<1>26. SendInv'  BY <1>21 DEF SendInv
<1>27. ReadInv'
  <2>1. Halfway'
    <3>1. op'.done <= op'.count /\ (op'.done % 2 = 0 \/ op'.done = op'.count)  BY <1>7, <1>21
    <3> QED  BY <3>1 DEF Halfway
  <2>2. packet'[<<"rx", op'.ep>>] = bytes /\ stat'[<<"rx", op'.ep>>] = "nak"
     /\ Base("rx", op'.ep) = base /\ op'.ep \notin arrived'
    BY <1>2, <1>5, <1>21 DEF bytes, base
  <2>3. op'.base = base /\ Lies(memory', bytes, "rx", op'.ep, op'.count)
     /\ Buffered(op'.buf, op'.start, bytes, op'.done)
    BY <1>2, <1>5, <1>21, <1>22
  <2> QED  BY <2>1, <2>2, <2>3 DEF ReadInv
<1>28. PacketsWhole'  BY <1>2 DEF Inv, PacketsWhole
<1> QED  BY <1>23, <1>24, <1>25, <1>26, <1>27, <1>28 DEF Inv

LEMMA EndSendInv ==
  ASSUME Fitting, Inv, btable # NoTable, EndSend
  PROVE  Inv'
<1>0. Fields /\ LayoutInv /\ WaitingInv /\ SendInv /\ ReadInv  BY DEF Inv
<1> DEFINE e == op.ep
           mine == <<"tx", e>>
<1>1. "rx" \in Directions /\ "tx" \in Directions  BY DEF Directions
<1>2. /\ op.kind = "send" /\ ~(op.done < ToCopy(op.count)) /\ op' = Idle
      /\ btable' = [btable EXCEPT ![e].tx_count = op.count]
      /\ stat' = [stat EXCEPT ![mine] = "valid"]
      /\ UNCHANGED <<memory, arrived, packet, last, used>>
  BY DEF EndSend, Copying
<1>3. op \in Copies  BY <1>0, <1>2 DEF Fields, Idle
<1>4. e \in Endpoints /\ op.count \in Nat /\ op.done \in Nat  BY <1>3 DEF Copies
<1>5. /\ Halfway /\ op.base = Base("tx", e) /\ op.count = Len(packet[mine])
      /\ op.count <= Room("tx", e) /\ Stored(memory, op.base, packet[mine], op.done)
  BY <1>0, <1>2 DEF SendInv
<1>6. op.done = op.count  BY <1>2, <1>4, <1>5, SMT DEF Halfway, ToCopy
<1>7. Lies(memory, packet[mine], "tx", e, op.count)
  BY <1>5, <1>6 DEF Lies
<1>8. btable \in Tables  BY <1>0 DEF Fields
<1>9. /\ btable' \in Tables /\ btable'[e].tx_count = op.count
      /\ \A f \in Endpoints : /\ btable'[f].tx_offset = btable[f].tx_offset
                              /\ btable'[f].rx_offset = btable[f].rx_offset
                              /\ btable'[f].limit = btable[f].limit
                              /\ btable'[f].rx_count = btable[f].rx_count
                              /\ f # e => btable'[f].tx_count = btable[f].tx_count
  <2> HIDE DEF e
  <2> QED  BY <1>2, <1>4, <1>8 DEF Tables
<1>10. /\ stat' \in [Sides -> {"nak", "valid"}]
       /\ \A s \in Sides : s # mine => stat'[s] = stat[s]
  <2>1. stat \in [Sides -> {"nak", "valid"}] /\ mine \in Sides
    BY <1>0, <1>1, <1>4, SidePairs DEF Fields
  <2> HIDE DEF mine
  <2> QED  BY <1>2, <2>1
<1> HIDE DEF e
<1>11. Fields'  BY <1>0, <1>2, <1>9, <1>10 DEF Fields
<1>12. LayoutInv'  BY <1>0, <1>9, OffsetsKept
<1>13. WaitingInv'
  <2>1. ASSUME NEW f \in Endpoints, stat'[<<"tx", f>>] = "valid"
        PROVE  Lies(memory', packet'[<<"tx", f>>], "tx", f, btable'[f].tx_count)
    <3>1. CASE f = e  BY <1>2, <1>7, <1>9, <3>1
    <3>2. CASE f # e
      <4>1. stat[<<"tx", f>>] = "valid"  BY <1>1, <1>10, <2>1, <3>2, SidePairs
      <4> QED  BY <1>0, <1>2, <1>9, <3>2, <4>1 DEF WaitingInv
    <3> QED  BY <3>1, <3>2
  <2>2. ASSUME NEW f \in arrived'
        PROVE  stat'[<<"rx", f>>] = "nak"
            /\ Lies(memory', packet'[<<"rx", f>>], "rx", f, btable'[f].rx_count)
    <3>1. f \in arrived /\ f \in Endpoints  BY <1>0, <1>2 DEF Fields
    <3>2. stat'[<<"rx", f>>] = stat[<<"rx", f>>]  BY <1>1, <1>10, <3>1, SidePairs
    <3> QED  BY <1>0, <1>2, <1>9, <3>1, <3>2 DEF WaitingInv
  <2> QED  BY <2>1, <2>2 DEF WaitingInv
<1>14. op'.kind = "idle"  BY <1>2 DEF Idle
<1>15. PacketsWhole'  BY <1>2 DEF Inv, PacketsWhole
<1> QED  BY <1>11, <1>12, <1>13, <1>14, <1>15 DEF Inv, SendInv, ReadInv

LEMMA EndReadInv ==
  ASSUME Fitting, Inv, btable # NoTable, EndRead
  PROVE  Inv'
<1>0. Fields /\ LayoutInv /\ WaitingInv /\ SendInv /\ ReadInv  BY DEF Inv
<1> DEFINE e == op.ep
           mine == <<"rx", e>>
           bytes == packet[mine]
<1>1. "rx" \in Directions /\ "tx" \in Directions  BY DEF Directions
<1>2. /\ op.kind = "read" /\ ~(op.done < ToCopy(op.count)) /\ op' = Idle
      /\ stat' = [stat EXCEPT ![mine] = "valid"]
      /\ UNCHANGED <<btable, memory, arrived, packet, used>>
  BY DEF EndRead, Copying
<1>3. last' = [want |-> bytes,
               got |-> [k \in 1..op.count |-> op.buf[Advance(op.start, k - 1, Size)]]]
  BY DEF EndRead, Slice
<1>4. op \in Copies  BY <1>0, <1>2 DEF Fields, Idle
<1>5. e \in Endpoints /\ op.count \in Nat /\ op.done \in Nat  BY <1>4 DEF Copies
<1>6. /\ Halfway /\ e \notin arrived /\ Lies(memory, bytes, "rx", e, op.count)
      /\ Buffered(op.buf, op.start, bytes, op.done)
  BY <1>0, <1>2 DEF ReadInv
<1>7. op.done = op.count  BY <1>2, <1>5, <1>6, SMT DEF Halfway, ToCopy
<1>8. mine \in Sides  BY <1>1, <1>5, SidePairs
<1>9. bytes \in Seq(Nat) /\ op.count = Len(bytes)  BY <1>0, <1>6, <1>8 DEF Fields, Lies
<1>10. /\ stat' \in [Sides -> {"nak", "valid"}]
       /\ \A s \in Sides : s # mine => stat'[s] = stat[s]
  <2>1. stat \in [Sides -> {"nak", "valid"}]  BY <1>0 DEF Fields
  <2> HIDE DEF mine
  <2> QED  BY <1>2, <1>8, <2>1
<1>11. Fields'  BY <1>0, <1>2, <1>10 DEF Fields
<1>12. LayoutInv'
  <2>1. btable \in Tables  BY <1>0 DEF Fields
  <2> QED  BY <1>0, <1>2, <2>1, OffsetsKept
<1>13. WaitingInv'
  <2>1. ASSUME NEW f \in Endpoints, stat'[<<"tx", f>>] = "valid"
        PROVE  Lies(memory', packet'[<<"tx", f>>], "tx", f, btable'[f].tx_count)
    <3>1. stat[<<"tx", f>>] = "valid"  BY <1>1, <1>10, <2>1, SidePairs
    <3> QED  BY <1>0, <1>2, <3>1 DEF WaitingInv
  <2>2. ASSUME NEW f \in arrived'
        PROVE  stat'[<<"rx", f>>] = "nak"
            /\ Lies(memory', packet'[<<"rx", f>>], "rx", f, btable'[f].rx_count)
    <3>1. f \in arrived /\ f \in Endpoints /\ f # e  BY <1>0, <1>2, <1>6 DEF Fields
    <3>2. stat'[<<"rx", f>>] = stat[<<"rx", f>>]  BY <1>1, <1>10, <3>1, SidePairs
    <3> QED  BY <1>0, <1>2, <3>1, <3>2 DEF WaitingInv
  <2> QED  BY <2>1, <2>2 DEF WaitingInv
<1>14. op'.kind = "idle"  BY <1>2 DEF Idle
<1>15. PacketsWhole'
  <2> HIDE DEF bytes
  <2>1. bytes = [k \in 1..Len(bytes) |-> bytes[k]]  BY <1>9
  <2>2. \A k \in 1..Len(bytes) : op.buf[Advance(op.start, k - 1, Size)] = bytes[k]
    BY <1>6, <1>7, <1>9 DEF Buffered
  <2>3. [k \in 1..Len(bytes) |-> op.buf[Advance(op.start, k - 1, Size)]] = bytes
    BY <2>1, <2>2, Zenon
  <2> QED  BY <1>3, <1>9, <2>3 DEF PacketsWhole
<1> QED  BY <1>11, <1>12, <1>13, <1>14, <1>15 DEF Inv, SendInv, ReadInv

LEMMA StutterInv ==
  ASSUME Inv, UNCHANGED vars
  PROVE  Inv'
<1>1. (NoTable)' = NoTable /\ Idle' = Idle  BY DEF NoTable, Idle
<1>2. UNCHANGED <<btable, memory, stat, arrived, op, packet, last, used>>  BY DEF vars
<1>3. Fields'  BY <1>2 DEF Inv, Fields
<1>4. LayoutInv'  BY <1>2 DEF Inv, LayoutInv
<1>5. WaitingInv'  BY <1>2 DEF Inv, WaitingInv
<1>6. SendInv'  BY <1>2 DEF Inv, SendInv, Halfway
<1>7. ReadInv'  BY <1>2 DEF Inv, ReadInv, Halfway
<1>8. PacketsWhole'  BY <1>2 DEF Inv, PacketsWhole
<1> QED  BY <1>3, <1>4, <1>5, <1>6, <1>7, <1>8 DEF Inv

LEMMA NextInv == Fitting /\ Inv /\ [Next]_vars => Inv'
<1> SUFFICES ASSUME Fitting, Inv, [Next]_vars PROVE Inv'
  OBVIOUS
<1>1. CASE Reset  BY <1>1, ResetInv
<1>2. ASSUME btable # NoTable, SendWord PROVE Inv'  BY <1>2, SendWordInv
<1>3. ASSUME btable # NoTable, ReadWord PROVE Inv'  BY <1>3, ReadWordInv
<1>4. ASSUME btable # NoTable, EndSend PROVE Inv'  BY <1>4, EndSendInv
<1>5. ASSUME btable # NoTable, EndRead PROVE Inv'  BY <1>5, EndReadInv
<1>6. ASSUME btable # NoTable, NEW e \in Endpoints, HostReads(e) PROVE Inv'
  BY <1>6, HostReadsInv
<1>7. ASSUME btable # NoTable, NEW e \in Endpoints, NEW start \in Starts(e), NEW room,
             BeginRead(e, start, room)
      PROVE  Inv'
  BY <1>7, BeginReadInv
<1>8. ASSUME btable # NoTable, NEW e \in Endpoints, NEW n \in Lengths(usb_endpoints[e].rx),
             HostSends(e, n)
      PROVE  Inv'
  BY <1>8, HostSendsInv
<1>9. ASSUME btable # NoTable, NEW e \in Endpoints, NEW start \in Starts(e),
             NEW n \in Lengths(usb_endpoints[e].tx) \cup {usb_endpoints[e].tx + 1},
             BeginSend(e, start, n)
      PROVE  Inv'
  BY <1>9, BeginSendInv
<1>10. CASE UNCHANGED vars  BY <1>10, StutterInv
<1> QED  BY <1>1, <1>2, <1>3, <1>4, <1>5, <1>6, <1>7, <1>8, <1>9, <1>10, Zenon DEF Next

LEMMA Invariance == ASSUME Fitting PROVE Spec => []Inv
<1>1. Init => Inv  BY InitInv
<1>2. Inv /\ [Next]_vars => Inv'  BY NextInv
<1> QED  BY <1>1, <1>2, PTL DEF Spec

-----------------------------------------------------------------------------
(* Theorems.                                                                *)

\* The copying loops stay within the buffer they began in.
THEOREM CopiesInside == ASSUME Fitting PROVE Spec => []TypeOK
<1>1. Inv => TypeOK
  <2> SUFFICES ASSUME Inv PROVE TypeOK
    OBVIOUS
  <2>1. Fields /\ LayoutInv /\ SendInv /\ ReadInv  BY DEF Inv
  <2>2. stat \in [Sides -> {"nak", "valid"}] /\ arrived \subseteq Endpoints  BY <2>1 DEF Fields
  <2>3. ASSUME op # Idle
        PROVE  /\ op.done \in 0..op.count /\ op.start \in Index
               /\ op.count <= (IF op.kind = "send" THEN usb_endpoints[op.ep].tx
                               ELSE btable[op.ep].limit)
    <3>1. op \in Copies  BY <2>1, <2>3 DEF Fields
    <3>2. op.ep \in Endpoints /\ op.done \in Nat /\ op.count \in Nat /\ op.start \in Index
      BY <3>1 DEF Copies
    <3>3. op.kind = "send" \/ op.kind = "read"  BY <3>1, Idling
    <3>4. Halfway  BY <2>1, <3>3 DEF SendInv, ReadInv
    <3>5. op.done \in 0..op.count  BY <3>2, <3>4, SMT DEF Halfway
    <3>6. CASE op.kind = "send"
      <4>1. op.count <= Room("tx", op.ep)  BY <2>1, <3>6 DEF SendInv
      <4> QED  BY <3>2, <3>5, <3>6, <4>1 DEF Room
    <3>7. CASE op.kind = "read"
      <4>1. op.count <= Room("rx", op.ep)  BY <2>1, <3>7 DEF ReadInv, Lies
      <4>2. btable # NoTable  BY <2>1, <2>3 DEF LayoutInv
      <4>3. btable[op.ep].limit = Room("rx", op.ep)  BY <2>1, <3>2, <4>2 DEF LayoutInv
      <4> QED  BY <3>2, <3>5, <3>7, <4>1, <4>3
    <3> QED  BY <3>3, <3>6, <3>7
  <2> QED  BY <2>2, <2>3 DEF TypeOK
<1> QED  BY <1>1, Invariance, PTL

\* No buffer reaches into another, into the buffer table or behind the memory, and a
\* longest packet fits: for every table of endpoints whose sizes the block counts can
\* say and whose sum fits the memory.
THEOREM LayoutSafe == ASSUME Fitting PROVE Spec => []BuffersApart
<1>1. Inv => BuffersApart  BY LayoutApart DEF Inv
<1> QED  BY <1>1, Invariance, PTL

\* Every packet arrives as it was handed over, whatever its length, wherever it wraps and
\* whatever moves in the other buffers while it is copied.
THEOREM PacketsArrive == ASSUME Fitting PROVE Spec => []PacketsWhole
<1>1. Inv => PacketsWhole  BY DEF Inv
<1> QED  BY <1>1, Invariance, PTL
=============================================================================
