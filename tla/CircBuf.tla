------------------------------- MODULE CircBuf -------------------------------
(***************************************************************************)
(* The circular-buffer index arithmetic of circ_buf.h.                     *)
(*                                                                         *)
(* The header masks with (size - 1); every buffer of the firmware has a    *)
(* power-of-two size (USB_CDC_BUF_SIZE = 0x400), where the mask of an int  *)
(* in two's complement is the remainder modulo size, % in TLA+.            *)
(***************************************************************************)
EXTENDS Integers

\* Bytes in the buffer.
circ_buf_count(head, tail, size) == (head - tail) % size

\* Bytes that can still be stored: one slot always stays empty.
circ_buf_space(head, tail, size) == circ_buf_count(tail, head + 1, size)

\* Faulty variant: counts past the end of the buffer.
CountPastEnd(head, tail, size) == circ_buf_count(head, tail, size)

\* Bytes that can be read from tail on without wrapping.
circ_buf_count_to_end(head, tail, size) ==
  LET end == size - tail
      n   == (head + end) % size
  IN  IF n < end THEN n ELSE end

\* Bytes that can be stored from head on without wrapping.
circ_buf_space_to_end(head, tail, size) ==
  LET end == size - 1 - head
      n   == (end + tail) % size
  IN  IF n <= end THEN n ELSE end + 1

\* Faulty variant: the mask is missing.
AdvanceNoWrap(index, n, size) == index + n

\* An index moved forward by n positions (usb_io.c, usb_cdc.c: "& (size - 1)").
Advance(index, n, size) == (index + n) % size
=============================================================================
