------------------------------ MODULE Channel ------------------------------
(***************************************************************************)
(* What a stream between two peers promises: messages are received whole,  *)
(* in the order in which they were sent, none twice, none left out before  *)
(* one that is received, until the connection is closed.                   *)
(***************************************************************************)
EXTENDS Naturals, Sequences

CONSTANT Kinds     \* the messages

VARIABLES
  sent,            \* the messages sent, in order
  received         \* the messages received, in order

Init == sent = << >> /\ received = << >>

Send == \E k \in Kinds : sent' = Append(sent, k) /\ UNCHANGED received

Receive ==
  /\ Len(received) < Len(sent)
  /\ received' = Append(received, sent[Len(received) + 1])
  /\ UNCHANGED sent

Next == Send \/ Receive
Spec == Init /\ [][Next]_<<sent, received>>
=============================================================================
