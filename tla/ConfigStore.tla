---------------------------- MODULE ConfigStore ----------------------------
(***************************************************************************)
(* What the persistent configuration promises: one stored value, which a   *)
(* start loads, and which a save replaces by the value in use.  A save     *)
(* that returns has replaced it; a save cut short by a power loss has      *)
(* either replaced it or left it as it was, and which of the two is        *)
(* settled at that moment.                                                 *)
(***************************************************************************)
CONSTANTS Configs, Default, None

VARIABLES
  stored,   \* the configuration the next start will use
  working,  \* the configuration in use, None while the power is off
  saving    \* is it being saved?

vars == <<stored, working, saving>>

On == working # None

Init == stored = Default /\ working = None /\ saving = FALSE

Start ==
  /\ ~On
  /\ working' = stored
  /\ UNCHANGED <<stored, saving>>

Edit(c) ==
  /\ On /\ ~saving
  /\ working' = c
  /\ UNCHANGED <<stored, saving>>

\* "config save", and "config reset", which goes back to the default first.
Save(c) ==
  /\ On /\ ~saving
  /\ c \in {working, Default}
  /\ working' = c
  /\ saving' = TRUE
  /\ UNCHANGED stored

\* The point of no return, which may coincide with the end of the save.
Commit ==
  /\ saving
  /\ stored' = working
  /\ saving' \in BOOLEAN
  /\ UNCHANGED working

\* Only a committed save returns ...
Return ==
  /\ saving /\ stored = working
  /\ saving' = FALSE
  /\ UNCHANGED <<stored, working>>

\* ... but power may be lost before, or at the very moment of the commit.
PowerLoss ==
  /\ On
  /\ stored' = stored \/ (saving /\ stored' = working)
  /\ working' = None
  /\ saving' = FALSE

Next ==
  \/ Start \/ Commit \/ Return \/ PowerLoss
  \/ \E c \in Configs : Edit(c) \/ Save(c)

Spec == Init /\ [][Next]_vars
=============================================================================
