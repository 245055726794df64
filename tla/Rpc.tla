-------------------------------- MODULE Rpc --------------------------------
(***************************************************************************)
(* What a remote call promises its caller: the messages of the             *)
(* implementation, without a gap, and success only if the implementation   *)
(* has succeeded and all of them have come.  A call may fail at any time.  *)
(***************************************************************************)
EXTENDS Naturals

VARIABLES
  yielded,    \* how many messages the implementation has produced
  fate,       \* of the implementation
  delivered,  \* how many of them the client has
  outcome     \* at the client; "failed": with the error of the implementation

vars == <<yielded, fate, delivered, outcome>>

Init == yielded = 0 /\ fate = "running" /\ delivered = 0 /\ outcome = "open"

Yield ==
  /\ fate = "running"
  /\ yielded' = yielded + 1
  /\ UNCHANGED <<fate, delivered, outcome>>

Finish ==
  /\ fate = "running"
  /\ fate' \in {"ok", "failed"}
  /\ UNCHANGED <<yielded, delivered, outcome>>

Deliver ==
  /\ outcome = "open" /\ delivered < yielded
  /\ delivered' = delivered + 1
  /\ UNCHANGED <<yielded, fate, outcome>>

Succeed ==
  /\ outcome = "open" /\ fate = "ok" /\ delivered = yielded
  /\ outcome' = "ok"
  /\ UNCHANGED <<yielded, fate, delivered>>

Report ==
  /\ outcome = "open" /\ fate = "failed"
  /\ outcome' = "failed"
  /\ UNCHANGED <<yielded, fate, delivered>>

Lose ==
  /\ outcome = "open"
  /\ outcome' = "lost"
  /\ UNCHANGED <<yielded, fate, delivered>>

Next == Yield \/ Finish \/ Deliver \/ Succeed \/ Report \/ Lose

Spec == Init /\ [][Next]_vars
=============================================================================
