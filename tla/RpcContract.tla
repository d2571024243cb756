------------------------------ MODULE RpcContract ------------------------------
(***************************************************************************)
(* What the two sides of a connection promise to the one who makes calls.  *)
(* Calls are numbered as they are made.  A call is served at most once,    *)
(* its callback is invoked at most once, only after the call was served    *)
(* and with what the method it names yields.                               *)
(***************************************************************************)
EXTENDS Naturals, Sequences

CONSTANT MaxCalls   (* bound: calls made *)

VARIABLES
  outcome,   (* what each call ends with, "result" or "error": fixed       *)
  made,      (* how many calls were made                                   *)
  served,    (* the calls that responses were sent for, in that order      *)
  returned   (* the invocations of callbacks, [call, told], in their order *)

vars == <<outcome, made, served, returned>>

Calls == 0 .. MaxCalls - 1

IsServed(n)    == \E i \in DOMAIN served : served[i] = n
HasReturned(n) == \E i \in DOMAIN returned : returned[i].call = n

Init ==
  /\ outcome \in [Calls -> {"result", "error"}]
  /\ made = 0 /\ served = <<>> /\ returned = <<>>

Call == made < MaxCalls /\ made' = made + 1 /\ UNCHANGED <<outcome, served, returned>>

Serve(n) ==
  /\ n < made /\ ~ IsServed(n)
  /\ served' = Append(served, n)
  /\ UNCHANGED <<outcome, made, returned>>

Return(n) ==
  /\ IsServed(n) /\ ~ HasReturned(n)
  /\ returned' = Append(returned, [call |-> n, told |-> outcome[n]])
  /\ UNCHANGED <<outcome, made, served>>

Next == Call \/ \E n \in Calls : Serve(n) \/ Return(n)

Spec == Init /\ [][Next]_vars
================================================================================
