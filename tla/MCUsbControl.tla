---------------------------- MODULE MCUsbControl ----------------------------
EXTENDS UsbControl

Get(wLength, reply) ==
  [in |-> TRUE, wLength |-> wLength, ok |-> TRUE, reply |-> reply, address |-> FALSE]
Set(wLength) ==
  [in |-> FALSE, wLength |-> wLength, ok |-> TRUE, reply |-> 0, address |-> FALSE]
Bad(in, wLength) ==
  [in |-> in, wLength |-> wLength, ok |-> FALSE, reply |-> 0, address |-> FALSE]
SetAddress ==
  [in |-> FALSE, wLength |-> 0, ok |-> TRUE, reply |-> 0, address |-> TRUE]

\* Replies shorter than, as long as and longer than what is asked for, around
\* one and two packets of two bytes; a data stage of two packets and one too long.
MCRequests ==
  {Get(w, s) : w \in 0..5, s \in 0..5} \cup {Set(0), Set(3), SetAddress}
    \cup {Bad(TRUE, 1), Bad(FALSE, 0), Bad(FALSE, 1), Bad(FALSE, 5)}

\* A host that has not seen the end of SET_ADDRESS resets the bus: it gives up
\* any request but that.
MCGivenUp == MCRequests \ {SetAddress}

FewRequests == {Get(1, 1), Get(3, 2), Get(4, 4), Set(0), Set(3), SetAddress, Bad(TRUE, 1)}
=============================================================================
