--------------------------- MODULE MCCallbackClient ---------------------------
(***************************************************************************)
(* A call and a request of another client, which may share a session,      *)
(* follow one another, or connect side by side.                            *)
(***************************************************************************)
EXTENDS CallbackClient

CONSTANTS r1, r2

MCRequest == {r1, r2}
=============================================================================
