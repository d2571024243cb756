------------------------------ MODULE MCRpcSystem ------------------------------
(***************************************************************************)
(* Three calls, each to a procedure that answers within the handler, to    *)
(* one whose work goes to the pool, to one that takes something else or to *)
(* one that is not registered.                                             *)
(***************************************************************************)
EXTENDS RpcSystem

MCServices ==
  [S |-> [returns  |-> [now |-> OneInt32, later |-> OneInt32, other |-> <<>>],
          notifies |-> <<>>]]

MCPooled == {<<"S", "later">>}

MCPlans == [Calls -> {<<"S", p>> : p \in {"now", "later", "other", "none"}}]
================================================================================
