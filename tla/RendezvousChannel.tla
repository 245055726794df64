------------------------- MODULE RendezvousChannel -------------------------
(***************************************************************************)
(* What a writable iterable promises to the two parties that share it: a   *)
(* FIFO channel whose producers learn the fate of each payload.  There is  *)
(* no queue, no waiting reader and no promise of a reader here, only what  *)
(* was promised, what was handed over, and what each producer was told.    *)
(***************************************************************************)
EXTENDS Sequences, Naturals

CONSTANTS Write, Done

VARIABLES
  promised,   \* the payloads taken on, in order
  handed,     \* the payloads handed to the consumer, in order
  told,       \* what the producer of each payload knows
  closed,     \* the producer ended the stream
  broken      \* the consumer gave up

vars == <<promised, handed, told, closed, broken>>

Call == Write \cup {Done}

Init ==
  /\ promised = << >>
  /\ handed = << >>
  /\ told = [c \in Call |-> "idle"]
  /\ closed = FALSE
  /\ broken = FALSE

\* The stream takes a payload only while it is open; taking Done closes it.
TakeOn(c) ==
  /\ told[c] = "idle"
  /\ ~broken /\ ~closed
  /\ closed' = (c = Done)
  /\ promised' = Append(promised, c)
  /\ UNCHANGED broken

Offer(c) ==
  /\ TakeOn(c)
  /\ told' = [told EXCEPT ![c] = "pending"]
  /\ UNCHANGED handed

\* Only when the consumer has had everything else can it have c at once.
Rendezvous(c) ==
  /\ TakeOn(c)
  /\ handed = promised
  /\ told' = [told EXCEPT ![c] = "resolved"]
  /\ handed' = Append(handed, c)

\* The consumer takes the oldest payload it has not had.
Take ==
  /\ ~broken
  /\ Len(handed) < Len(promised)
  /\ LET c == promised[Len(handed) + 1] IN
       /\ handed' = Append(handed, c)
       /\ told' = [told EXCEPT ![c] = "resolved"]
  /\ UNCHANGED <<promised, closed, broken>>

\* A broken stream rejects, a closed one refuses to take anything on.
TurnAway(c) ==
  /\ told[c] = "idle"
  /\ \/ ~closed /\ broken /\ told' = [told EXCEPT ![c] = "rejected"]
     \/ closed /\ told' = [told EXCEPT ![c] = "refused"]
  /\ closed' = (closed \/ c = Done)
  /\ UNCHANGED <<promised, handed, broken>>

\* The consumer gives up: whoever waits is told.
Break ==
  /\ broken' = TRUE
  /\ told' = [c \in Call |-> IF told[c] = "pending" THEN "rejected" ELSE told[c]]
  /\ UNCHANGED <<promised, handed, closed>>

Next ==
  \/ \E c \in Call : Offer(c) \/ Rendezvous(c) \/ TurnAway(c)
  \/ Take
  \/ Break

Spec == Init /\ [][Next]_vars
=============================================================================
