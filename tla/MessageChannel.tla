---------------------------- MODULE MessageChannel ----------------------------
(***************************************************************************)
(* What either side of a connection expects of the framing beneath it:     *)
(* messages are received in the order in which they were sent, each of     *)
(* them once and as it was sent.                                           *)
(***************************************************************************)
EXTENDS Naturals, Sequences

CONSTANT Messages

VARIABLES
  sent,      (* the messages one side sent                                 *)
  received   (* the messages the other side received                       *)

Init == sent = <<>> /\ received = <<>>

Send(m) == sent' = Append(sent, m) /\ UNCHANGED received

Receive ==
  /\ Len(received) < Len(sent)
  /\ received' = Append(received, sent[Len(received) + 1])
  /\ UNCHANGED sent

Next == Receive \/ \E m \in Messages : Send(m)

Spec == Init /\ [][Next]_<<sent, received>>
================================================================================
