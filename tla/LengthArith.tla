---------------------------- MODULE LengthArith -----------------------------
(***************************************************************************)
(* How http_parser.c reads a length: Content-Length digit by digit, and    *)
(* the size of a chunk, into a uint64_t.                                   *)
(***************************************************************************)
EXTENDS Naturals

CONSTANTS
  LengthSpan,   \* the number of values of uint64_t, 2^64
  DecBase,      \* 10, for Content-Length
  HexBase       \* 16, for chunk sizes

ASSUME LengthAssumption ==
  /\ LengthSpan \in Nat
  /\ DecBase \in Nat /\ DecBase > 1 /\ DecBase < LengthSpan
  /\ HexBase \in Nat /\ HexBase > 1 /\ HexBase < LengthSpan

\* ULLONG_MAX: no length was given.
MaxLength == LengthSpan - 1

Lengths == 0..MaxLength

\* t: the length that the digit d makes of len.
NextLength(base, len, d) == (len * base + d) % LengthSpan

\* Mutant: a digit that does not increase the length is refused.
LengthRefusedUnlessGrows(base, len, d) ==
  NextLength(base, len, d) <= len \/ NextLength(base, len, d) = MaxLength

\* "Overflow?"
LengthRefused(base, len, d) ==
  NextLength(base, len, d) < len \/ NextLength(base, len, d) = MaxLength
=============================================================================
