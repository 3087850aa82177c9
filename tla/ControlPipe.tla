---------------------------- MODULE ControlPipe ----------------------------
(***************************************************************************)
(* What the control endpoint promises the host: every request is carried   *)
(* out at most once, and then answered with as many bytes as it asks for   *)
(* and the device has, or it is refused without having been carried out,   *)
(* unless the host itself cuts it short.                                   *)
(***************************************************************************)
EXTENDS Naturals

CONSTANTS
  Requests,       \* requests: [ok, wLength, reply, ...]
  None            \* no request

VARIABLES
  request,    \* the request the host is waiting for, or None
  executed,   \* has the device carried it out?
  answer      \* bytes the host got for its last request, or None if cut short

vars == <<request, executed, answer>>

\* A request the device cannot answer from data it has sends none.
Answer(r) == IF r.in THEN IF r.reply < r.wLength THEN r.reply ELSE r.wLength ELSE 0

Init == request = None /\ executed = FALSE /\ answer = 0

Ask(r) ==
  /\ request = None
  /\ request' = r
  /\ UNCHANGED <<executed, answer>>

Execute ==
  /\ request # None /\ request.ok /\ ~executed
  /\ executed' = TRUE
  /\ UNCHANGED <<request, answer>>

Complete ==
  /\ request # None /\ executed
  /\ answer' = Answer(request)
  /\ request' = None
  /\ executed' = FALSE

Refuse ==
  /\ request # None /\ ~request.ok
  /\ request' = None
  /\ UNCHANGED <<executed, answer>>

\* The host's decision: it does not wait for the answer.
CutShort ==
  /\ request # None
  /\ request' = None /\ executed' = FALSE /\ answer' = None

Next == (\E r \in Requests : Ask(r)) \/ Execute \/ Complete \/ Refuse \/ CutShort

Safety == Init /\ [][Next]_vars

Spec == Safety /\ WF_vars(Execute \/ Complete \/ Refuse)
=============================================================================
