------------------------------- MODULE RpcSystem -------------------------------
(***************************************************************************)
(* One client and one server with a connection between them: BaseClient    *)
(* and RpcServer, each with its own state, event loop and view of the      *)
(* connection.  What the server reads is what the client sent, and what    *)
(* the client reads is what the server wrote; the two directions deliver   *)
(* whole messages in order, as MessageChannel promises and Framing shows.  *)
(*                                                                         *)
(* The client's calls are numbered from 0; call n names the method plan[n] *)
(* and passes it one INT32.  The variables that both components have are   *)
(* told apart by a capital S (server) or C (client).                       *)
(***************************************************************************)
EXTENDS Naturals, Sequences, FiniteSets

CONSTANTS
  Services, Pooled,    (* the server's registry, see RpcDispatch           *)
  Plans,               (* [0 .. MaxCalls - 1 -> method], the calls to make *)
  MaxInt32, MaxCalls   (* see BaseClient                                   *)

Calls == 0 .. MaxCalls - 1

ASSUME SystemAssumption ==
  /\ MaxInt32 \in Nat /\ MaxCalls \in Nat
  /\ Plans \subseteq [Calls -> Seq(STRING)]
  /\ \A s \in DOMAIN Services : \A p \in DOMAIN Services[s].returns :
       Services[s].returns[p] \in Seq([name : STRING, type : STRING])

conn == "conn"
loop == "loop"

VARIABLES
  plan,                                                    \* never changes
  gotS, nextS, linkS, cur, elemS, batch, tasks, outbox, alive,     \* server
  id, callbacks, linkC, sent, gotC, nextC, busy, elemC, calling,   \* client
  issued, fired, abandoned

serverVars == <<gotS, nextS, linkS, cur, elemS, batch, tasks, outbox, alive>>
clientVars == <<id, callbacks, linkC, sent, gotC, nextC, busy, elemC, calling,
                issued, fired, abandoned>>
vars == <<plan, serverVars, clientVars>>

(* The request a call becomes: sendCall adds the id to what the stub made. *)
IdValue(i) == [type |-> IF i <= MaxInt32 THEN "INT32" ELSE "INT64", val |-> i]

Request(s) ==
  [type |-> "OBJECT",
   members |-> [jsonrpc |-> [type |-> "STRING", val |-> "2.0"],
                method  |-> [type |-> "STRING", val |-> plan[s.call]],
                params  |-> [type |-> "OBJECT", val |-> [x |-> "INT32"]],
                id      |-> IdValue(s.id)]]

Requests ==
  [c \in {conn} |-> [n \in DOMAIN sent |-> [form |-> "object", reqs |-> <<Request(sent[n])>>]]]

Server == INSTANCE RpcServer WITH
  Conns <- {conn}, Loops <- {loop}, LoopOf <- [c \in {conn} |-> loop],
  Inboxes <- {[c \in {conn} |-> <<>>]}, NoConn <- "none",
  inbox <- Requests, got <- gotS, next <- nextS, link <- linkS, elem <- elemS

(* The response to a request carries the id that the server found in it;   *)
(* a refusal carries the one in the exception.                             *)
Says(r) ==
  [idType  |-> IF /\ r.err # "none"
                  /\ Server!Verdict(Request(sent[r.msg])).id # IdValue(sent[r.msg].id)
               THEN "NULL" ELSE "asked",
   members |-> 3, version |-> "2.0",
   body    |-> IF r.err = "none" THEN "result" ELSE "error"]

Responses ==
  [i \in DOMAIN outbox[conn] |->
     [form  |-> outbox[conn][i].form,
      elems |-> [k \in DOMAIN outbox[conn][i].responses |->
                   LET r == outbox[conn][i].responses[k]
                   IN  [to |-> sent[r.msg], says |-> Says(r)]]]]

Client == INSTANCE BaseClient WITH
  Shapes <- {}, MaxFrames <- MaxCalls,
  inbox <- Responses, got <- gotC, next <- nextC, link <- linkC, elem <- elemC

Init ==
  /\ plan \in Plans
  /\ sent = <<>> /\ outbox = [c \in {conn} |-> <<>>]
  /\ Server!Init /\ Client!Init

(* The two sides take turns in any order.  Either may find the connection  *)
(* down at any time, whatever the other one sees of it; a message that was *)
(* on its way is lost then.                                                *)
ServerReads   == UNCHANGED <<plan, clientVars>> /\ Server!Read(loop)
ServerHandles == UNCHANGED <<plan, clientVars>> /\ Server!Handle(loop)
PoolFinishes  == UNCHANGED <<plan, clientVars>> /\ Server!Pool
ServerLoses   == UNCHANGED <<plan, clientVars>> /\ Server!PeerCloses(conn)

ClientCalls   == UNCHANGED <<plan, serverVars>> /\ Client!SendCall
ClientReads   == UNCHANGED <<plan, sent, serverVars>> /\ Client!Read
ClientHandles == UNCHANGED <<plan, sent, serverVars>> /\ Client!Handle
ClientLoses   == UNCHANGED <<plan, sent, serverVars>> /\ Client!ConnectionDown

Next == \/ ServerReads \/ ServerHandles \/ PoolFinishes \/ ServerLoses
        \/ ClientCalls \/ ClientReads \/ ClientHandles \/ ClientLoses

Spec == Init /\ [][Next]_vars

(* Both loops run, the pool works, and a connection that is up delivers    *)
(* what is missing of a message: it has finitely many bytes, and each read *)
(* brings some, so reads that bring only a piece do not go on for ever.    *)
ServerGets == ServerReads /\ gotS' # gotS
ClientGets == ClientReads /\ gotC' # gotC

FairSpec ==
  /\ Spec
  /\ SF_vars(ServerGets) /\ WF_vars(ServerHandles) /\ WF_vars(PoolFinishes)
  /\ SF_vars(ClientGets) /\ WF_vars(ClientHandles)
----------------------------------------------------------------------------
(* The calls that the server sent responses for, and what a response to a  *)
(* call says.                                                              *)
Reply(i) == outbox[conn][i].responses[1]
Served   == [i \in DOMAIN outbox[conn] |-> sent[Reply(i).msg].call]
Told(n)  == Says(Reply(CHOOSE i \in DOMAIN Served : Served[i] = n)).body

(* A call is to succeed if it names a registered procedure that takes what *)
(* the call passes: a string with a dot, and something on both sides of it *)
(* that the registry knows.                                                *)
OneInt32 == << [name |-> "x", type |-> "INT32"] >>

IsKnown(method) ==
  /\ Len(method) = 2 /\ method[2] # ""
  /\ method[1] \in DOMAIN Services
  /\ method[2] \in DOMAIN Services[method[1]].returns
  /\ Services[method[1]].returns[method[2]] = OneInt32

Due(n) == IF IsKnown(plan[n]) THEN "result" ELSE "error"

Contract == INSTANCE RpcContract WITH
  made     <- issued,
  outcome  <- [n \in Calls |-> Due(n)],
  served   <- Served,
  returned <- [m \in DOMAIN fired |->
                 [call |-> fired[m].call, told |-> Told(fired[m].answered)]]

(* End to end, whatever pool threads do, whenever messages are delivered   *)
(* and whichever side loses the connection: no call is served twice, no    *)
(* callback is invoked twice or before its call was served, and each is    *)
(* told a result exactly if its method is registered.                      *)
CallsKeepTheContract == Contract!Spec

(* A call whose callback waits is in one place of the system: on its way   *)
(* to the server, with the pool or on its way back; or it is lost, since   *)
(* one of the sides had no connection when it was to be sent.              *)
Task(m) == [conn |-> conn, msg |-> m, elem |-> 1]

IsOnItsWay(n) ==
  \/ \E m \in DOMAIN sent :
        sent[m].call = n /\ (m >= nextS[conn] \/ Task(m) \in tasks)
  \/ \E i \in DOMAIN Served :
        Served[i] = n /\ (i >= nextC \/ (i = nextC - 1 /\ elemC > 0))

WaitingCallsAreSomewhere ==
  \A n \in Client!Pending :
    IsOnItsWay(n) \/ linkS[conn] # "up" \/ linkC = "down"

Returned == Client!Fired

(* Every call ends, unless the connection does.  The server ends it itself *)
(* when it refuses a call; no timeout ends a call that is left without     *)
(* answer then, nor does the loss of the connection.                       *)
EveryCallReturns ==
  \A n \in Calls :
    issued > n ~> n \in Returned \/ linkC = "down" \/ linkS[conn] # "up"

(* The server shuts a connection down only after telling a caller why: the *)
(* error reaches a callback, in spite of the shutdown, if the client keeps *)
(* its end of the connection.                                              *)
ShutdownIsExplained ==
  linkS[conn] = "shut" ~> (\E n \in Returned : Due(n) = "error") \/ linkC = "down"
================================================================================
