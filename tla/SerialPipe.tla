----------------------------- MODULE SerialPipe -----------------------------
(***************************************************************************)
(* What one direction of a port promises: a bounded FIFO, from the USB     *)
(* host to the TX pin or from the RX pin to the host.  Every byte accepted *)
(* leaves once, in the order of acceptance, and eventually; no more than   *)
(* Capacity bytes are ever on the way.                                     *)
(***************************************************************************)
EXTENDS Naturals, Sequences

CONSTANT Capacity

VARIABLES
  accepted,   \* bytes taken from the sender: byte k is the k-th of its stream
  wire        \* the bytes handed on so far

Init == accepted = 0 /\ wire = << >>

Accept ==
  /\ accepted < Len(wire) + Capacity
  /\ accepted' = accepted + 1
  /\ UNCHANGED wire

Transmit ==
  /\ Len(wire) < accepted
  /\ wire' = Append(wire, Len(wire) + 1)
  /\ UNCHANGED accepted

Next == Accept \/ Transmit

Spec == Init /\ [][Next]_<<accepted, wire>> /\ WF_<<accepted, wire>>(Transmit)
=============================================================================
