---------------------------- MODULE DeviceConfig ----------------------------
(***************************************************************************)
(* device_config.c: the configuration in RAM, its copies in the last flash *)
(* pages, and power losses.                                                *)
(*                                                                         *)
(* A page is modelled halfword by halfword, the unit the flash programs:   *)
(* a halfword of a configuration is represented by that configuration.     *)
(* The magic and the CRC are two of the halfwords, so a page passes the    *)
(* check exactly when all its halfwords belong to one configuration (the   *)
(* CRC is taken to detect everything else).                                *)
(***************************************************************************)
EXTENDS Integers

CONSTANTS
  Configs,    \* the configurations a user may choose
  Default,    \* default_device_config
  Words,      \* halfwords in device_config_t
  NumPages,   \* DEVICE_CONFIG_NUM_PAGES
  None        \* no page, no configuration

\* Contents of a halfword that are not part of a configuration.
CONSTANTS Blank, Junk, Zero

ASSUME ConfigAssumption == Default \in Configs /\ None \notin Configs
ASSUME FlashAssumption ==
  /\ Blank \notin Configs /\ Junk \notin Configs /\ Zero \notin Configs
  /\ Blank # Junk /\ Blank # Zero
ASSUME SizeAssumption ==
  /\ Words \in Nat /\ Words > 0
  /\ NumPages \in Nat /\ NumPages > 1
  /\ None \notin 0..(NumPages - 1)

VARIABLES
  flash,     \* flash[p][w]: halfword w of configuration page p
  current,   \* current_device_config; None while the power is off
  pc,        \* where device_config_save is, or "idle", or "off"
  last,      \* last_config_magic: the page it belongs to, or None
  dst,       \* config_page: the page being written
  word       \* dst_word_p: the next halfword to write

vars == <<flash, current, pc, last, dst, word>>

Pages == 0..(NumPages - 1)
Halfwords == 1..Words
Contents == Configs \cup {Blank, Junk, Zero}
Saving == {"erase", "erasing", "program", "invalidate"}

TypeOK ==
  /\ flash \in [Pages -> [Halfwords -> Contents]]
  /\ current \in Configs \cup {None}
  /\ pc \in Saving \cup {"idle", "off"}
  /\ last \in Pages \cup {None}
  /\ dst \in Pages
  /\ word \in Halfwords
  /\ current = None <=> pc = "off"

Filled(x) == [w \in Halfwords |-> x]

-----------------------------------------------------------------------------
\* The check of magic and CRC.
Valid(page) == \E c \in Configs : page = Filled(c)

\* device_config_get_stored: the first page that passes it.
IsFirst(f, p) == Valid(f[p]) /\ \A q \in Pages : q < p => ~Valid(f[q])

\* What device_config_init loads.
Load(f) ==
  IF \E p \in Pages : Valid(f[p])
  THEN CHOOSE c \in Configs : \E p \in Pages : IsFirst(f, p) /\ f[p] = Filled(c)
  ELSE Default

\* The pages as they leave the programmer: no configuration in any of them.
Init ==
  /\ \E x \in {Blank, Junk} : flash = [p \in Pages |-> Filled(x)]
  /\ current = None
  /\ pc = "off"
  /\ last = None /\ dst = 0 /\ word = 1

\* device_config_init
Boot ==
  /\ pc = "off"
  /\ current' = Load(flash)
  /\ pc' = "idle"
  /\ UNCHANGED <<flash, last, dst, word>>

\* The shell's "uart" command changes the copy in RAM.
Edit(c) ==
  /\ pc = "idle"
  /\ current' = c
  /\ UNCHANGED <<flash, pc, last, dst, word>>

-----------------------------------------------------------------------------
\* Faulty variant: the page after the last one is not wrapped to the first.
ChoosePagesNoWrap ==
  /\ \/ \E p \in Pages : IsFirst(flash, p) /\ last' = p /\ dst' = p + 1
     \/ (\A p \in Pages : ~Valid(flash[p])) /\ last' = None /\ dst' = 0
  /\ pc' = "erase"

\* Faulty variant: the old page itself is overwritten.
ChoosePagesInPlace ==
  /\ \/ \E p \in Pages : IsFirst(flash, p) /\ last' = p /\ dst' = p
     \/ (\A p \in Pages : ~Valid(flash[p])) /\ last' = None /\ dst' = 0
  /\ pc' = "erase"

\* Faulty variant: any valid page, not the first, is taken for the old one.
ChoosePagesAnyValid ==
  /\ \/ /\ \E p \in Pages : Valid(flash[p]) /\ last' = p
        /\ dst' = IF last' + 1 = NumPages THEN 0 ELSE last' + 1
     \/ (\A p \in Pages : ~Valid(flash[p])) /\ last' = None /\ dst' = 0
  /\ pc' = "erase"

\* device_config_save: the first valid page is the old one, the page after it
\* the new one; past the last page, or with no valid page, it is page 0.
ChoosePages ==
  /\ \/ /\ \E p \in Pages : IsFirst(flash, p) /\ last' = p
        /\ dst' = IF last' + 1 = NumPages THEN 0 ELSE last' + 1
     \/ /\ \A p \in Pages : ~Valid(flash[p])
        /\ last' = None
        /\ dst' = 0
  /\ pc' = "erase"

Save ==
  /\ pc = "idle"
  /\ ChoosePages
  /\ UNCHANGED <<flash, current, word>>

\* device_config_reset
Reset ==
  /\ pc = "idle"
  /\ current' = Default
  /\ ChoosePages
  /\ UNCHANGED <<flash, word>>

\* CR |= STRT: from here on the page may or may not have lost its content.
StartErase ==
  /\ pc = "erase"
  /\ \E content \in {flash[dst], Filled(Junk)} :
       flash' = [flash EXCEPT ![dst] = content]
  /\ pc' = "erasing"
  /\ UNCHANGED <<current, last, dst, word>>

\* Faulty variant: programming starts without waiting for the erase.
FinishEraseNotAwaited ==
  /\ pc = "erasing"
  /\ word' = 1
  /\ pc' = "program"
  /\ UNCHANGED <<flash, current, last, dst>>

FinishErase ==
  /\ pc = "erasing"
  /\ flash' = [flash EXCEPT ![dst] = Filled(Blank)]
  /\ word' = 1
  /\ pc' = "program"
  /\ UNCHANGED <<current, last, dst>>

\* Faulty variant: the loop stops one halfword early.
ProgramWordOffByOne ==
  /\ pc = "program"
  /\ flash[dst][word] = Blank
  /\ flash' = [flash EXCEPT ![dst] = [@ EXCEPT ![word] = current]]
  /\ \/ word + 1 < Words /\ word' = word + 1 /\ UNCHANGED pc
     \/ /\ word + 1 >= Words
        /\ pc' = IF last = None THEN "idle" ELSE "invalidate"
        /\ UNCHANGED word
  /\ UNCHANGED <<current, last, dst>>

\* One turn of the copy loop.  The flash programs only blank halfwords: for any
\* other EOP never rises and the loop does not end.
ProgramWord ==
  /\ pc = "program"
  /\ flash[dst][word] = Blank
  /\ flash' = [flash EXCEPT ![dst] = [@ EXCEPT ![word] = current]]
  /\ \/ word < Words /\ word' = word + 1 /\ UNCHANGED pc
     \/ /\ word = Words
        /\ pc' = IF last = None THEN "idle" ELSE "invalidate"
        /\ UNCHANGED word
  /\ UNCHANGED <<current, last, dst>>

\* *last_config_magic = 0x0000: zero may be programmed over anything.
Invalidate ==
  /\ pc = "invalidate"
  /\ flash' = [flash EXCEPT ![last] = [@ EXCEPT ![1] = Zero]]
  /\ pc' = "idle"
  /\ UNCHANGED <<current, last, dst, word>>

-----------------------------------------------------------------------------
\* The halfword that is being programmed when the power goes may be left with
\* some of its bits written.
Torn(p, w) == flash' = [flash EXCEPT ![p] = [@ EXCEPT ![w] = Junk]]

PowerLoss ==
  /\ pc # "off"
  /\ \/ UNCHANGED flash
     \/ pc = "program" /\ Torn(dst, word)
     \/ pc = "invalidate" /\ Torn(last, 1)
  /\ current' = None
  /\ pc' = "off"
  /\ UNCHANGED <<last, dst, word>>

SaveStep == StartErase \/ FinishErase \/ ProgramWord \/ Invalidate

Next ==
  \/ Boot \/ (\E c \in Configs : Edit(c)) \/ Save \/ Reset
  \/ SaveStep \/ PowerLoss

Spec == Init /\ [][Next]_vars /\ WF_vars(SaveStep)

-----------------------------------------------------------------------------
(* Properties.                                                              *)

\* The refinement of ConfigStore: what a start would load, what is in use, and
\* whether it is being saved.
Store == INSTANCE ConfigStore
           WITH stored <- Load(flash), working <- current, saving <- pc \in Saving
StoreSpec == Store!Spec

\* From the first completed save on there is a valid page at every instant, so a
\* power loss never throws the device back to the default configuration
\* (README: "config save" stores the configuration "permanently").
NeverEmptied ==
  [][(\E p \in Pages : Valid(flash[p])) => \E p \in Pages : Valid(flash'[p])]_vars

\* A save comes to its end: every halfword it programs was erased before.
SaveEnds == pc \in Saving ~> pc \notin Saving

\* During a save the old page stays valid until the new one is complete, and no
\* page in front of the old one is valid, the new one's excepted once complete.
PagesInOrder ==
  /\ pc \in Saving =>
       /\ dst = IF last = None \/ last + 1 = NumPages THEN 0 ELSE last + 1
       /\ last # None => Valid(flash[last])
       /\ \A q \in Pages :
            /\ last = None \/ q < last
            /\ q = dst => pc # "invalidate"
            => ~Valid(flash[q])
  /\ pc = "program" =>
       flash[dst] = [w \in Halfwords |-> IF w < word THEN current ELSE Blank]
  /\ pc = "invalidate" => last # None /\ flash[dst] = Filled(current)
=============================================================================
