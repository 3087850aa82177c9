------------------------- MODULE DeviceConfigProofs -------------------------
(***************************************************************************)
(* DeviceConfig implements ConfigStore, whatever the configurations, the   *)
(* size of the structure and the number of pages: a save is atomic and     *)
(* durable under power losses at any step.                                 *)
(***************************************************************************)
EXTENDS DeviceConfig, WellFoundedInduction, TLAPS

-----------------------------------------------------------------------------
(* Pages and their contents.                                                *)

LEMMA SizeFacts ==
  /\ 0 \in Pages /\ Pages \subseteq Nat /\ 1 \in Halfwords /\ None \notin Pages
  /\ \A p \in Pages : p + 1 # NumPages => p + 1 \in Pages
  BY SizeAssumption, SMT DEF Pages, Halfwords

\* A content that differs from every configuration in some halfword is invalid.
LEMMA InvalidHalfword ==
  ASSUME NEW page, NEW w \in Halfwords, page[w] \notin Configs
  PROVE  ~Valid(page)
  BY DEF Valid, Filled

LEMMA FilledInjective ==
  ASSUME NEW x, NEW y, Filled(x) = Filled(y)
  PROVE  x = y
<1>1. Filled(x)[1] = x /\ Filled(y)[1] = y  BY SizeFacts DEF Filled
<1> QED  BY <1>1

LEMMA FilledInvalid == ~Valid(Filled(Blank)) /\ ~Valid(Filled(Junk))
  BY SizeFacts, FlashAssumption, InvalidHalfword DEF Filled

LEMMA FilledValid == \A c \in Configs : Valid(Filled(c))
  BY DEF Valid

-----------------------------------------------------------------------------
(* What the start-up code loads.                                            *)

LEMMA Smallest ==
  ASSUME NEW T, T \subseteq Nat, T # {}
  PROVE  \E x \in T : \A y \in T : ~(y < x)
<1> DEFINE R == {ss \in Nat \X Nat : ss[1] < ss[2]}
<1>1. IsWellFoundedOn(R, Nat)  BY NatLessThanWellFounded DEF OpToRel
<1> HIDE DEF R
<1>2. \E x \in T : \A y \in T : ~(<<y, x>> \in R)  BY <1>1, WFMin
<1> QED  BY <1>2 DEF R

LEMMA FirstExists ==
  ASSUME NEW f, NEW p \in Pages, Valid(f[p])
  PROVE  \E q \in Pages : IsFirst(f, q)
<1> DEFINE T == {q \in Pages : Valid(f[q])}
<1>1. T \subseteq Nat /\ T # {}  BY SizeFacts
<1> HIDE DEF T
<1>2. PICK x \in T : \A y \in T : ~(y < x)  BY <1>1, Smallest
<1> QED  BY <1>2 DEF T, IsFirst

LEMMA FirstUnique ==
  ASSUME NEW f, NEW p \in Pages, NEW q \in Pages, IsFirst(f, p), IsFirst(f, q)
  PROVE  p = q
<1>1. ~(p < q) /\ ~(q < p)  BY DEF IsFirst
<1> QED  BY <1>1, SizeFacts, SMT

LEMMA LoadFirst ==
  ASSUME NEW f, NEW p \in Pages, IsFirst(f, p), NEW c \in Configs, f[p] = Filled(c)
  PROVE  Load(f) = c
<1> DEFINE Q(d) == \E q \in Pages : IsFirst(f, q) /\ f[q] = Filled(d)
<1>1. Q(c)  OBVIOUS
<1>2. \A d \in Configs : Q(d) => d = c  BY FirstUnique, FilledInjective
<1>3. (CHOOSE d \in Configs : Q(d)) = c  BY <1>1, <1>2
<1>4. \E q \in Pages : Valid(f[q])  BY DEF IsFirst
<1> QED  BY <1>3, <1>4 DEF Load

LEMMA LoadDefault ==
  ASSUME NEW f, \A p \in Pages : ~Valid(f[p])
  PROVE  Load(f) = Default
  BY DEF Load

\* Changing the content of a page that is not the one loaded, before and after,
\* makes no difference to what is loaded.
LEMMA LoadSame ==
  ASSUME NEW f, NEW g, NEW p \in Pages, IsFirst(f, p), IsFirst(g, p), g[p] = f[p]
  PROVE  Load(g) = Load(f)
<1>1. PICK c \in Configs : f[p] = Filled(c)  BY DEF IsFirst, Valid
<1> QED  BY <1>1, LoadFirst

-----------------------------------------------------------------------------
(* The inductive invariant.                                                 *)

Inv == TypeOK /\ PagesInOrder

LEMMA InvInit == Init => Inv
<1> SUFFICES ASSUME Init PROVE Inv
  OBVIOUS
<1>1. PICK x \in {Blank, Junk} : flash = [p \in Pages |-> Filled(x)]  BY DEF Init
<1>2. flash \in [Pages -> [Halfwords -> Contents]]  BY <1>1 DEF Filled, Contents
<1>3. pc = "off" /\ pc \notin Saving  BY DEF Init, Saving
<1> QED  BY <1>2, <1>3, SizeFacts DEF Init, Inv, TypeOK, PagesInOrder

\* The choice of the pages makes PagesInOrder true.
LEMMA InvChoose ==
  ASSUME Inv, ChoosePages, UNCHANGED flash
  PROVE  last' \in Pages \cup {None} /\ dst' \in Pages /\ PagesInOrder'
<1>0. pc' = "erase"  BY DEF ChoosePages
<1>1. CASE \E p \in Pages : IsFirst(flash, p) /\ last' = p
  <2>1. last' \in Pages /\ IsFirst(flash, last')  BY <1>1
  <2>2. last' # None  BY <2>1, SizeFacts
  <2>3. ~ \A p \in Pages : ~Valid(flash[p])  BY <2>1 DEF IsFirst
  <2>4. dst' = IF last' + 1 = NumPages THEN 0 ELSE last' + 1
    BY <2>3 DEF ChoosePages
  <2>5. dst' \in Pages  BY <2>1, <2>4, SizeFacts
  <2> QED  BY <1>0, <2>1, <2>2, <2>4, <2>5 DEF PagesInOrder, IsFirst
<1>2. CASE (\A p \in Pages : ~Valid(flash[p])) /\ last' = None /\ dst' = 0
  BY <1>0, <1>2, SizeFacts DEF PagesInOrder
<1> QED  BY <1>1, <1>2 DEF ChoosePages

\* The page being written is never the old one, and is invalid or shadowed by
\* the old one until it is complete.
LEMMA PagesDiffer ==
  ASSUME Inv, pc \in Saving
  PROVE  dst # last
  BY SizeFacts, SizeAssumption, SMT DEF Inv, TypeOK, PagesInOrder, Pages

\* Writing to the page dst keeps PagesInOrder as far as the old page and those
\* before it are concerned, if the new content is invalid.
LEMMA OldPageKept ==
  ASSUME Inv, pc \in Saving, NEW page, ~Valid(page),
         flash' = [flash EXCEPT ![dst] = page], UNCHANGED <<last, dst>>
  PROVE  /\ last # None => Valid(flash'[last])
         /\ \A q \in Pages : (last = None \/ q < last) => ~Valid(flash'[q])
<1>1. /\ dst \in Pages /\ last \in Pages \cup {None}
      /\ flash \in [Pages -> [Halfwords -> Contents]]
  BY DEF Inv, TypeOK
<1>2. \A q \in Pages : flash'[q] = IF q = dst THEN page ELSE flash[q]
  BY <1>1
<1> QED  BY <1>1, <1>2, PagesDiffer DEF Inv, PagesInOrder

\* What one turn of the copy loop makes of the page.
LEMMA PageProgrammed ==
  ASSUME Inv, ProgramWord
  PROVE  \E page \in [Halfwords -> Contents] :
           /\ flash' = [flash EXCEPT ![dst] = page]
           /\ page = [w \in Halfwords |-> IF w < word + 1 THEN current ELSE Blank]
           /\ word < Words => ~Valid(page)
           /\ word = Words => page = Filled(current)
<1> DEFINE page == [flash[dst] EXCEPT ![word] = current]
<1>1. flash' = [flash EXCEPT ![dst] = page]  BY DEF ProgramWord
<1>2. Words \in Nat /\ word \in Nat /\ word >= 1 /\ word <= Words /\ word \in Halfwords
  BY SizeAssumption DEF Inv, TypeOK, Halfwords
<1>3. current \in Configs
  BY ConfigAssumption DEF ProgramWord, Inv, TypeOK
<1>4. flash[dst] = [w \in Halfwords |-> IF w < word THEN current ELSE Blank]
  BY DEF ProgramWord, Inv, PagesInOrder
<1>5. \A w \in Halfwords : w < word + 1 <=> (w < word \/ w = word)
  BY <1>2, SMT DEF Halfwords
<1>6. page = [w \in Halfwords |-> IF w < word + 1 THEN current ELSE Blank]
  BY <1>4, <1>5
<1>7. page \in [Halfwords -> Contents]  BY <1>3, <1>6 DEF Contents
<1>8. ASSUME word < Words PROVE ~Valid(page)
  <2>1. word + 1 \in Halfwords /\ ~(word + 1 < word + 1)
    BY <1>2, <1>8, SMT DEF Halfwords
  <2>2. page[word + 1] = Blank  BY <1>6, <2>1
  <2> HIDE DEF page
  <2> QED  BY <2>1, <2>2, InvalidHalfword, FlashAssumption
<1>9. ASSUME word = Words PROVE page = Filled(current)
  <2>1. \A w \in Halfwords : w < word + 1
    BY <1>2, <1>9, SMT DEF Halfwords
  <2> QED  BY <1>6, <2>1 DEF Filled
<1> HIDE DEF page
<1> QED  BY <1>1, <1>6, <1>7, <1>8, <1>9

LEMMA InvStep == Inv /\ [Next]_vars => Inv'
<1> SUFFICES ASSUME Inv, [Next]_vars PROVE Inv'
  OBVIOUS
<1>0. /\ TypeOK /\ PagesInOrder
      /\ flash \in [Pages -> [Halfwords -> Contents]]
      /\ dst \in Pages /\ last \in Pages \cup {None} /\ word \in Halfwords
  BY DEF Inv, TypeOK
<1>1. CASE Boot
  <2>1. Load(flash) \in Configs
    <3>1. CASE \E p \in Pages : Valid(flash[p])
      <4>1. PICK p \in Pages : IsFirst(flash, p)  BY <3>1, FirstExists
      <4>2. PICK c \in Configs : flash[p] = Filled(c)  BY <4>1 DEF IsFirst, Valid
      <4> QED  BY <4>1, <4>2, LoadFirst
    <3>2. CASE \A p \in Pages : ~Valid(flash[p])
      BY <3>2, LoadDefault, ConfigAssumption
    <3> QED  BY <3>1, <3>2
  <2> QED  BY <1>0, <1>1, <2>1, ConfigAssumption
           DEF Boot, Inv, TypeOK, PagesInOrder, Saving
<1>2. CASE \E c \in Configs : Edit(c)
  BY <1>0, <1>2, ConfigAssumption DEF Edit, Inv, TypeOK, PagesInOrder, Saving
<1>3. CASE Save \/ Reset
  <2>1. PagesInOrder' /\ last' \in Pages \cup {None} /\ dst' \in Pages
    BY <1>3, InvChoose DEF Save, Reset
  <2>2. current' \in Configs /\ pc' = "erase"
    BY <1>0, <1>3, ConfigAssumption DEF Save, Reset, ChoosePages, TypeOK
  <2> QED  BY <1>0, <1>3, <2>1, <2>2, ConfigAssumption
           DEF Save, Reset, Inv, TypeOK, Saving
<1>4. CASE StartErase
  <2>1. PICK page \in {flash[dst], Filled(Junk)} :
          flash' = [flash EXCEPT ![dst] = page]
    BY <1>4 DEF StartErase
  <2>2. pc = "erase" /\ pc' = "erasing" /\ UNCHANGED <<current, last, dst, word>>
    BY <1>4 DEF StartErase
  <2>3. flash' \in [Pages -> [Halfwords -> Contents]]
    BY <1>0, <2>1 DEF Filled, Contents
  <2>4. TypeOK'  BY <1>0, <2>2, <2>3 DEF TypeOK, Saving
  <2>5. CASE page = Filled(Junk)
    BY <1>0, <2>1, <2>2, <2>4, <2>5, OldPageKept, FilledInvalid
    DEF Inv, PagesInOrder, Saving
  <2>6. CASE page = flash[dst]
    <3>1. flash' = flash  BY <1>0, <2>1, <2>6
    <3> QED  BY <1>0, <2>2, <2>4, <3>1 DEF Inv, PagesInOrder, Saving
  <2> QED  BY <2>5, <2>6
<1>5. CASE FinishErase
  <2>1. /\ pc = "erasing" /\ pc' = "program" /\ UNCHANGED <<current, last, dst>>
        /\ flash' = [flash EXCEPT ![dst] = Filled(Blank)] /\ word' = 1
    BY <1>5 DEF FinishErase
  <2>2. flash' \in [Pages -> [Halfwords -> Contents]]
    BY <1>0, <2>1 DEF Filled, Contents
  <2>3. TypeOK'  BY <1>0, <2>1, <2>2, SizeFacts DEF TypeOK, Saving
  <2>4. flash'[dst] = [w \in Halfwords |-> IF w < word' THEN current' ELSE Blank]
    <3>1. \A w \in Halfwords : ~(w < 1)  BY SMT DEF Halfwords
    <3> QED  BY <1>0, <2>1, <3>1 DEF Filled
  <2> QED  BY <1>0, <2>1, <2>3, <2>4, OldPageKept, FilledInvalid
           DEF Inv, PagesInOrder, Saving
<1>6. CASE ProgramWord
  <2>1. PICK page \in [Halfwords -> Contents] :
          /\ flash' = [flash EXCEPT ![dst] = page]
          /\ page = [w \in Halfwords |-> IF w < word + 1 THEN current ELSE Blank]
          /\ word < Words => ~Valid(page)
          /\ word = Words => page = Filled(current)
    BY <1>6, PageProgrammed
  <2>2. pc = "program" /\ UNCHANGED <<current, last, dst>>
    BY <1>6 DEF ProgramWord
  <2>3. \A q \in Pages : flash'[q] = IF q = dst THEN page ELSE flash[q]
    BY <1>0, <2>1
  <2>4. flash' \in [Pages -> [Halfwords -> Contents]]
    BY <1>0, <2>1
  <2>5. CASE word < Words
    <3>1. word # Words /\ word + 1 \in Halfwords
      BY <1>0, <2>5, SizeAssumption, SMT DEF Halfwords
    <3>2. word' = word + 1 /\ pc' = "program" /\ word' \in Halfwords
      BY <1>6, <2>5, <3>1 DEF ProgramWord
    <3> QED  BY <1>0, <2>1, <2>2, <2>3, <2>4, <2>5, <3>2, OldPageKept
             DEF Inv, TypeOK, PagesInOrder, Saving
  <2>6. CASE word = Words
    <3>1. UNCHANGED word /\ pc' = IF last = None THEN "idle" ELSE "invalidate"
      BY <1>6, <2>6, SizeAssumption, SMT DEF ProgramWord
    <3>2. TypeOK'  BY <1>0, <2>2, <2>4, <3>1 DEF TypeOK, Saving
    <3>3. CASE last = None
      BY <3>1, <3>2, <3>3 DEF Inv, PagesInOrder, Saving
    <3>4. CASE last # None
      BY <1>0, <2>1, <2>2, <2>3, <2>6, <3>1, <3>2, <3>4, PagesDiffer
      DEF Inv, PagesInOrder, Saving
    <3> QED  BY <3>3, <3>4
  <2>7. word < Words \/ word = Words
    BY <1>0, SizeAssumption, SMT DEF Halfwords
  <2> QED  BY <2>5, <2>6, <2>7
<1>7. CASE Invalidate
  <2>1. /\ pc' = "idle" /\ pc = "invalidate" /\ UNCHANGED <<current, last, dst, word>>
        /\ flash' = [flash EXCEPT ![last] = [@ EXCEPT ![1] = Zero]]
    BY <1>7 DEF Invalidate
  <2>2. last \in Pages  BY <1>0, <2>1 DEF PagesInOrder
  <2>3. flash' \in [Pages -> [Halfwords -> Contents]]
    BY <1>0, <2>1, <2>2 DEF Contents
  <2> QED  BY <1>0, <2>1, <2>3 DEF Inv, TypeOK, PagesInOrder, Saving
<1>8. CASE PowerLoss
  <2>1. pc' = "off" /\ current' = None /\ UNCHANGED <<last, dst, word>>
    BY <1>8 DEF PowerLoss
  <2>2. flash' \in [Pages -> [Halfwords -> Contents]]
    <3>1. last \in Pages \/ pc # "invalidate"  BY <1>0 DEF PagesInOrder
    <3> QED  BY <1>0, <1>8, <3>1, SizeFacts DEF PowerLoss, Torn, Contents
  <2> QED  BY <1>0, <2>1, <2>2 DEF Inv, TypeOK, PagesInOrder, Saving
<1>9. CASE UNCHANGED vars
  BY <1>0, <1>9 DEF vars, Inv, TypeOK, PagesInOrder
<1> QED  BY <1>1, <1>2, <1>3, <1>4, <1>5, <1>6, <1>7, <1>8, <1>9 DEF Next, SaveStep

LEMMA InvAlways == Spec => []Inv
<1> QED  BY InvInit, InvStep, PTL DEF Spec

\* Every variable keeps its type: in particular the copy loop never runs past the
\* last halfword of the page, and device_config_save never leaves the configuration
\* pages.
THEOREM TypeCorrect == Spec => []TypeOK
<1> QED  BY InvAlways, PTL DEF Inv

\* During a save the old page stays valid until the new one is complete.
THEOREM PagesStayInOrder == Spec => []PagesInOrder
<1> QED  BY InvAlways, PTL DEF Inv

-----------------------------------------------------------------------------
(* The refinement.                                                          *)

Occupied(f) == \E p \in Pages : Valid(f[p])

\* An incomplete page changes nothing for the next start.
LEMMA LoadKept ==
  ASSUME Inv, pc \in Saving, pc # "invalidate", NEW page, ~Valid(page),
         flash' = [flash EXCEPT ![dst] = page], UNCHANGED <<last, dst>>
  PROVE  Load(flash') = Load(flash) /\ (Occupied(flash) => Occupied(flash'))
<1>1. /\ last # None => Valid(flash'[last])
      /\ \A q \in Pages : (last = None \/ q < last) => ~Valid(flash'[q])
  BY OldPageKept
<1>2. /\ last # None => Valid(flash[last])
      /\ \A q \in Pages : (last = None \/ q < last) => ~Valid(flash[q])
  BY DEF Inv, PagesInOrder
<1>3. CASE last = None
  BY <1>1, <1>2, <1>3, LoadDefault DEF Occupied
<1>4. CASE last # None
  <2>1. last \in Pages  BY <1>4 DEF Inv, TypeOK
  <2>2. flash'[last] = flash[last]
    BY <2>1, PagesDiffer DEF Inv, TypeOK
  <2>3. IsFirst(flash, last) /\ IsFirst(flash', last)
    BY <1>1, <1>2, <1>4 DEF IsFirst
  <2> QED  BY <2>1, <2>2, <2>3, LoadSame DEF Occupied, IsFirst
<1> QED  BY <1>3, <1>4

\* With the old magic gone, wholly or partly, the new page is the one loaded.
LEMMA OldPageGone ==
  ASSUME Inv, pc = "invalidate", NEW x, x \notin Configs,
         flash' = [flash EXCEPT ![last] = [@ EXCEPT ![1] = x]]
  PROVE  Load(flash') = current /\ Occupied(flash')
<1>1. /\ last \in Pages /\ dst \in Pages /\ current \in Configs /\ dst # last
      /\ flash \in [Pages -> [Halfwords -> Contents]]
      /\ flash[dst] = Filled(current)
  BY ConfigAssumption, PagesDiffer DEF Inv, TypeOK, PagesInOrder, Saving
<1>2. dst = IF last + 1 = NumPages THEN 0 ELSE last + 1
  BY DEF Inv, PagesInOrder, Saving
<1>3. \A q \in Pages : q < last /\ q # dst => ~Valid(flash[q])
  BY DEF Inv, PagesInOrder, Saving
<1>4. flash'[last][1] = x  BY <1>1, SizeFacts
<1>5. ~Valid(flash'[last])  BY <1>4, SizeFacts, InvalidHalfword
<1>6. \A q \in Pages : q # last => flash'[q] = flash[q]  BY <1>1
<1>7. \A q \in Pages : q < dst => q = last \/ (q < last /\ q # dst)
  BY <1>1, <1>2, SizeAssumption, SMT DEF Pages
<1>8. IsFirst(flash', dst) /\ flash'[dst] = Filled(current)
  BY <1>1, <1>3, <1>5, <1>6, <1>7, FilledValid DEF IsFirst
<1> QED  BY <1>1, <1>8, LoadFirst DEF Occupied, IsFirst

\* The last halfword makes the new page the one loaded, unless the old one is
\* in front of it.
LEMMA NewPageComplete ==
  ASSUME Inv, ProgramWord, word = Words
  PROVE  /\ Occupied(flash')
         /\ \/ Load(flash') = current
            \/ last # None /\ Load(flash') = Load(flash)
<1>1. flash' = [flash EXCEPT ![dst] = Filled(current)]
  BY PageProgrammed
<1>2. /\ last \in Pages \cup {None} /\ dst \in Pages /\ current \in Configs
      /\ dst # last /\ flash \in [Pages -> [Halfwords -> Contents]]
  BY ConfigAssumption, PagesDiffer DEF ProgramWord, Inv, TypeOK, Saving
<1>3. /\ last # None => Valid(flash[last])
      /\ \A q \in Pages : (last = None \/ q < last) => ~Valid(flash[q])
  BY DEF ProgramWord, Inv, PagesInOrder, Saving
<1>4. \A q \in Pages : flash'[q] = IF q = dst THEN Filled(current) ELSE flash[q]
  BY <1>1, <1>2
<1>5. Occupied(flash')  BY <1>2, <1>4, FilledValid DEF Occupied
<1>6. CASE last = None \/ dst < last
  <2>1. \A q \in Pages : q < dst => q # dst /\ (last = None \/ q < last)
    BY <1>2, <1>6, SizeAssumption, SMT DEF Pages
  <2>2. IsFirst(flash', dst) /\ flash'[dst] = Filled(current)
    BY <1>2, <1>3, <1>4, <2>1, FilledValid DEF IsFirst
  <2> QED  BY <1>2, <1>5, <2>2, LoadFirst
<1>7. CASE last # None /\ ~(dst < last)
  <2>1. \A q \in Pages : q < last => q # dst  BY <1>7
  <2>2. IsFirst(flash, last) /\ IsFirst(flash', last) /\ flash'[last] = flash[last]
    BY <1>2, <1>3, <1>4, <1>7, <2>1 DEF IsFirst
  <2> QED  BY <1>2, <1>5, <1>7, <2>2, LoadSame
<1> QED  BY <1>6, <1>7

\* Every step of a save is a step of the store or changes nothing it knows of.
LEMMA SaveRefines ==
  ASSUME Inv, SaveStep
  PROVE  /\ Store!Commit \/ UNCHANGED <<Load(flash), current, pc \in Saving>>
         /\ Occupied(flash) => Occupied(flash')
<1>0. pc \in Saving /\ UNCHANGED current
  BY DEF SaveStep, StartErase, FinishErase, ProgramWord, Invalidate, Saving
<1>1. CASE StartErase
  <2>1. PICK page \in {flash[dst], Filled(Junk)} :
          flash' = [flash EXCEPT ![dst] = page]
    BY <1>1 DEF StartErase
  <2>2. pc = "erase" /\ UNCHANGED <<last, dst>> /\ pc' \in Saving
    BY <1>1 DEF StartErase, Saving
  <2>3. CASE page = Filled(Junk)
    BY <1>0, <2>1, <2>2, <2>3, LoadKept, FilledInvalid
  <2>4. CASE page = flash[dst]
    <3>1. flash' = flash  BY <2>1, <2>4 DEF Inv, TypeOK
    <3> QED  BY <1>0, <2>2, <3>1
  <2> QED  BY <2>3, <2>4
<1>2. CASE FinishErase
  <2>1. /\ flash' = [flash EXCEPT ![dst] = Filled(Blank)]
        /\ pc # "invalidate" /\ UNCHANGED <<last, dst>> /\ pc' \in Saving
    BY <1>2 DEF FinishErase, Saving
  <2> QED  BY <1>0, <2>1, LoadKept, FilledInvalid
<1>3. CASE ProgramWord /\ word < Words
  <2>1. pc # "invalidate" /\ UNCHANGED <<last, dst>>
    BY <1>3 DEF ProgramWord
  <2>2. pc' = pc
    <3>1. word # Words
      BY <1>3, SizeAssumption, SMT DEF Inv, TypeOK, Halfwords
    <3> QED  BY <1>3, <3>1 DEF ProgramWord
  <2>3. PICK page : flash' = [flash EXCEPT ![dst] = page] /\ ~Valid(page)
    BY <1>3, PageProgrammed
  <2> QED  BY <1>0, <2>1, <2>2, <2>3, LoadKept
<1>4. CASE ProgramWord /\ word = Words
  <2>1. pc' = IF last = None THEN "idle" ELSE "invalidate"
    BY <1>4, SizeAssumption, SMT DEF ProgramWord
  <2>2. (pc' \in Saving) <=> last # None
    BY <2>1 DEF Saving
  <2>3. (pc' \in Saving) \in BOOLEAN  OBVIOUS
  <2> QED  BY <1>0, <1>4, <2>2, <2>3, NewPageComplete DEF Store!Commit
<1>5. CASE Invalidate
  <2>1. Load(flash') = current /\ Occupied(flash')
    BY <1>5, OldPageGone, FlashAssumption DEF Invalidate
  <2>2. (pc' \in Saving) \in BOOLEAN  OBVIOUS
  <2> QED  BY <1>0, <2>1, <2>2 DEF Store!Commit
<1>6. word < Words \/ word = Words
  BY SizeAssumption, SMT DEF Inv, TypeOK, Halfwords
<1> QED  BY <1>1, <1>2, <1>3, <1>4, <1>5, <1>6 DEF SaveStep

\* A power loss leaves the old configuration or, during a save, the new one.
LEMMA PowerLossRefines ==
  ASSUME Inv, PowerLoss
  PROVE  Store!PowerLoss /\ (Occupied(flash) => Occupied(flash'))
<1>1. /\ current # None /\ current' = None
      /\ pc' \notin Saving /\ UNCHANGED <<last, dst>>
  BY DEF PowerLoss, Saving, Inv, TypeOK
<1>2. CASE UNCHANGED flash
  BY <1>1, <1>2 DEF Store!PowerLoss, Store!On
<1>3. CASE pc = "program" /\ Torn(dst, word)
  <2> DEFINE page == [flash[dst] EXCEPT ![word] = Junk]
  <2>1. flash' = [flash EXCEPT ![dst] = page]  BY <1>3 DEF Torn
  <2>2. page[word] = Junk /\ word \in Halfwords
    BY DEF Inv, TypeOK
  <2> HIDE DEF page
  <2>3. ~Valid(page)  BY <2>2, InvalidHalfword, FlashAssumption
  <2>4. pc \in Saving /\ pc # "invalidate"  BY <1>3 DEF Saving
  <2>5. Load(flash') = Load(flash) /\ (Occupied(flash) => Occupied(flash'))
    BY <1>1, <2>1, <2>3, <2>4, LoadKept
  <2> QED  BY <1>1, <2>5 DEF Store!PowerLoss, Store!On
<1>4. CASE pc = "invalidate" /\ Torn(last, 1)
  <2>1. Load(flash') = current /\ Occupied(flash')
    BY <1>4, OldPageGone, FlashAssumption DEF Torn
  <2>2. pc \in Saving  BY <1>4 DEF Saving
  <2> QED  BY <1>1, <2>1, <2>2 DEF Store!PowerLoss, Store!On
<1> QED  BY <1>2, <1>3, <1>4 DEF PowerLoss

\* Every step is a step of the store, or a stutter.
LEMMA StepRefines ==
  ASSUME Inv, [Next]_vars
  PROVE  /\ [Store!Next]_(Store!vars)
         /\ Occupied(flash) => Occupied(flash')
<1>0. /\ pc \in Saving \/ pc = "idle" => current # None
      /\ current \in Configs \cup {None}
  BY DEF Inv, TypeOK, Saving
<1>1. CASE Boot
  <2>1. current = None /\ current' = Load(flash) /\ flash' = flash
    BY <1>1 DEF Boot, Inv, TypeOK
  <2>2. pc \notin Saving /\ pc' \notin Saving  BY <1>1 DEF Boot, Saving
  <2> QED  BY <2>1, <2>2 DEF Store!Next, Store!Start, Store!On
<1>2. CASE \E c \in Configs : Edit(c)
  <2>1. PICK c \in Configs : Edit(c)  BY <1>2
  <2>2. pc \notin Saving /\ pc' = pc /\ flash' = flash /\ current' = c /\ pc = "idle"
    BY <2>1 DEF Edit, Saving
  <2>3. Store!Edit(c)  BY <1>0, <2>2 DEF Store!Edit, Store!On
  <2> QED  BY <2>2, <2>3 DEF Store!Next
<1>3. CASE Save \/ Reset
  <2>1. /\ pc = "idle" /\ pc \notin Saving /\ pc' \in Saving /\ flash' = flash
        /\ current' \in {current, Default}
    BY <1>3 DEF Save, Reset, ChoosePages, Saving
  <2>2. current' \in Configs  BY <1>0, <2>1, ConfigAssumption
  <2>3. (pc' \in Saving) = TRUE  BY <2>1
  <2>4. Store!Save(current')  BY <1>0, <2>1, <2>3 DEF Store!Save, Store!On
  <2> QED  BY <2>1, <2>2, <2>4 DEF Store!Next
<1>4. CASE SaveStep
  BY <1>4, SaveRefines DEF Store!Next, Store!vars
<1>5. CASE PowerLoss
  BY <1>5, PowerLossRefines DEF Store!Next
<1>6. CASE UNCHANGED vars
  BY <1>6 DEF vars, Store!vars
<1> QED  BY <1>1, <1>2, <1>3, <1>4, <1>5, <1>6 DEF Next

\* device_config_save is atomic and durable: whenever the power is lost, the next
\* start loads the configuration of before the save or the one being saved, and
\* the one saved once the save has returned.
THEOREM SaveIsAtomic == Spec => StoreSpec
<1>1. ASSUME Init PROVE Store!Init
  <2>1. PICK x \in {Blank, Junk} : flash = [p \in Pages |-> Filled(x)]
    BY <1>1 DEF Init
  <2>2. Load(flash) = Default  BY <2>1, FilledInvalid, LoadDefault
  <2>3. (pc \in Saving) = FALSE  BY <1>1 DEF Init, Saving
  <2> QED  BY <1>1, <2>2, <2>3 DEF Init, Store!Init
<1>2. Inv /\ [Next]_vars => [Store!Next]_(Store!vars)
  BY StepRefines
<1> QED  BY <1>1, <1>2, InvAlways, PTL DEF Spec, StoreSpec, Store!Spec

\* Once a configuration has been saved, no step of a later save and no power loss
\* leaves the flash without a valid page.
THEOREM NeverBackToDefault == Spec => NeverEmptied
<1>1. Inv /\ [Next]_vars =>
        [(\E p \in Pages : Valid(flash[p])) => \E p \in Pages : Valid(flash'[p])]_vars
  BY StepRefines DEF Occupied
<1> QED  BY <1>1, InvAlways, PTL DEF Spec, NeverEmptied
=============================================================================
