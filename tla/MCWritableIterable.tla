------------------------- MODULE MCWritableIterable -------------------------
(***************************************************************************)
(* Small instances of WritableIterable for TLC: three writes, a close and  *)
(* more reads than there are payloads, so that the reader comes to wait,   *)
(* to lag behind, and to read after the end.                               *)
(***************************************************************************)
EXTENDS WritableIterable

CONSTANTS w1, w2, w3, r1, r2, r3, r4, r5

MCWrite == {w1, w2, w3}
MCRead == {r1, r2, r3, r4, r5}
=============================================================================
