----------------------------- MODULE MCItemFields -----------------------------
(***************************************************************************)
(* A small instance of ItemFields for TLC: a UINT64 has 8 bits, an int 4.  *)
(* And VALUE lines, right and wrong, up to a length: what getReadNext()    *)
(* makes of each of them, which is looked at once, in the first state.     *)
(***************************************************************************)
EXTENDS ItemFields

CONSTANT MaxLine  \* BOUND: the length of a line, its line end included

\* The largest and the smallest int, and one of each sign.
MCFlags == {-8, -1, 3, 7}

MCExpirations == {-1, 5}

MCLines == { <<VALUE>> \o body \o <<LF>> : body \in SeqOf({9, SP, CR, 20}, MaxLine - 2) }

\* Numbers below, at and beyond the range of a UINT64.
MCNumbers == {0, 9, 99, 255, 256, 999}
=============================================================================
