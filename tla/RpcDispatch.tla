---------------------------- MODULE RpcDispatch ----------------------------
(***************************************************************************)
(* What the server decides about ONE json request: RpcServer validates it, *)
(* looks its method up in the registered services and matches its params   *)
(* against the procedure's signature.  The decision is pure: it reads the  *)
(* registry, which no longer changes once the server runs.                 *)
(*                                                                         *)
(* A json value is a record [type, val]; a json object is a function from  *)
(* member names to values.  A method string is split at its first dot:     *)
(* <<"Arithmetic", "Add">>, or <<"Add">> when it has none.  Of the params  *)
(* only the types are kept: val is a sequence of types for an array and a  *)
(* function from names to types for an object.  A member name that occurs  *)
(* twice shows as one more, unexpected, member.                            *)
(***************************************************************************)
EXTENDS Naturals, Sequences, FiniteSets

CONSTANT
  Services   (* service name -> [returns, notifies], each of them a        *)
             (* function: procedure name -> sequence of [name, type]       *)

Errors == {"PARSE_ERROR", "INVALID_REQUEST", "METHOD_NOT_FOUND", "INVALID_PARAMS"}

NullId == [type |-> "NULL", val |-> 0]

IdTypes == {"STRING", "INT32", "INT64"}

(***************************************************************************)
(* The three ways a request leaves the dispatcher: its procedure is        *)
(* invoked, a RequestException carries an error and an id, or a            *)
(* NotifyException (whose error nobody reports) is thrown.                 *)
(***************************************************************************)
Run             == [verdict |-> "run",    err |-> "none", id |-> NullId]
RefuseAnonymously(err, id) == [verdict |-> "refuse", err |-> err, id |-> NullId]
Refuse(err, id) == [verdict |-> "refuse", err |-> err,    id |-> id]
Drop            == [verdict |-> "drop",   err |-> "none", id |-> NullId]

HasType(obj, key, types) == key \in DOMAIN obj /\ obj[key].type \in types

IsNotify(req) == "id" \notin DOMAIN req.members

(* "rpc." is the one internal name; longer names with that prefix pass. *)
IsInternal(method) == method = <<"rpc", "">>

MemberCountIsAtLeast(obj, n) ==
  Cardinality(DOMAIN obj) >= n + (IF "params" \in DOMAIN obj THEN 1 ELSE 0)

MemberCountIs(obj, n) ==
  Cardinality(DOMAIN obj) = n + (IF "params" \in DOMAIN obj THEN 1 ELSE 0)

(* The service is found by the text before the first dot, the procedure in *)
(* that service's table by the non-empty text after it.                    *)
Resolves(method, table) ==
  /\ Len(method) = 2
  /\ method[2] # ""
  /\ method[1] \in DOMAIN Services
  /\ method[2] \in DOMAIN Services[method[1]][table]

OneParamMore(obj, signature) ==
  IF "params" \notin DOMAIN obj THEN signature = <<>>
  ELSE Cardinality(DOMAIN obj["params"].val) = Len(signature) + 1

(* An empty params member never fits, and neither does a scalar one.  The  *)
(* code looks at the type of the whole request before it calls this, and   *)
(* that type is always OBJECT.                                             *)
ParamsFit(obj, signature) ==
  IF "params" \notin DOMAIN obj THEN signature = <<>>
  ELSE LET params == obj["params"]
           size   == Cardinality(DOMAIN params.val)
       IN  /\ params.type \in {"ARRAY", "OBJECT"}
           /\ size # 0 /\ size = Len(signature)
           /\ \A i \in DOMAIN signature :
                LET key == IF params.type = "ARRAY" THEN i ELSE signature[i].name
                IN  key \in DOMAIN params.val /\ params.val[key] = signature[i].type

Signature(method, table) == Services[method[1]][table][method[2]]

(* handleSingleRequest: a request that has an id. *)
RequestVerdict(obj) ==
  IF ~ HasType(obj, "id", IdTypes) THEN Refuse("INVALID_REQUEST", NullId)
  ELSE IF \/ ~ HasType(obj, "jsonrpc", {"STRING"})
          \/ obj["jsonrpc"].val # "2.0"
          \/ ~ HasType(obj, "method", {"STRING"})
       THEN Refuse("INVALID_REQUEST", obj["id"])
  ELSE IF IsInternal(obj["method"].val) THEN Refuse("METHOD_NOT_FOUND", obj["id"])
  ELSE IF ~ MemberCountIs(obj, 3) THEN Refuse("INVALID_REQUEST", obj["id"])
  ELSE IF ~ Resolves(obj["method"].val, "returns")
       THEN Refuse("METHOD_NOT_FOUND", obj["id"])
  ELSE IF ~ ParamsFit(obj, Signature(obj["method"].val, "returns"))
       THEN Refuse("INVALID_PARAMS", obj["id"])
  ELSE Run

(* handleSingleNotify: a request without an id.  A missing or mistyped     *)
(* member is a RequestException, every later failure a NotifyException.    *)
NotifyVerdict(obj) ==
  IF ~ HasType(obj, "jsonrpc", {"STRING"}) THEN Refuse("INVALID_REQUEST", NullId)
  ELSE IF obj["jsonrpc"].val # "2.0" THEN Drop
  ELSE IF ~ HasType(obj, "method", {"STRING"}) THEN Refuse("INVALID_REQUEST", NullId)
  ELSE IF \/ IsInternal(obj["method"].val)
          \/ ~ MemberCountIs(obj, 2)
          \/ obj["method"].val[1] = ""
          \/ ~ Resolves(obj["method"].val, "notifies")
       THEN Drop
  ELSE IF ~ ParamsFit(obj, Signature(obj["method"].val, "notifies")) THEN Drop
  ELSE Run

(* One element of a batch, or the request of a single message. *)
Verdict(req) ==
  IF req.type # "OBJECT" THEN Refuse("INVALID_REQUEST", NullId)
  ELSE IF IsNotify(req) THEN NotifyVerdict(req.members)
  ELSE RequestVerdict(req.members)
============================================================================
