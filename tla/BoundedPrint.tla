---------------------------- MODULE BoundedPrint ----------------------------
(***************************************************************************)
(* How evweb.c writes a text into a buffer of fixed size, piece by piece:  *)
(*   written += snprintf(buffer + written, size - written, ...)            *)
(***************************************************************************)
EXTENDS Integers

CONSTANT SizeSpan   \* the number of values of size_t

ASSUME SizeAssumption == SizeSpan \in Nat \ {0}

\* The size that snprintf is told.
Room(size, written) == (size - written) % SizeSpan

\* A piece of n bytes: what fits the room is stored, with a NUL behind it, and
\* all of it is counted.  spilled: something was stored outside the buffer.
Snprintf(b, size, n) ==
  LET room   == Room(size, b.written)
      stored == IF n + 1 < room THEN n + 1 ELSE room
  IN  [b EXCEPT !.written = (@ + n) % SizeSpan,
                !.spilled = @ \/ b.written + stored > size]
=============================================================================
