--------------------------- MODULE MCRpcDispatch ---------------------------
(***************************************************************************)
(* Checks the dispatcher's decision on every request that can be put       *)
(* together from a few values per member: absent, mistyped, wrong, right.  *)
(* One step asks for the verdict on the request chosen initially.          *)
(***************************************************************************)
EXTENDS RpcDispatch, Functions, TLC

MCServices ==
  [S |-> [returns  |-> [add  |-> << [name |-> "x", type |-> "DOUBLE"],
                                    [name |-> "y", type |-> "INT32"] >>,
                        ping |-> <<>>],
          notifies |-> [log  |-> << [name |-> "m", type |-> "STRING"] >>,
                        tick |-> <<>>]]]
  @@ ("" :> [returns |-> [add |-> <<>>], notifies |-> [add |-> <<>>]])

Json(types, vals) == [type : types, val : vals]

Versions == Json({"STRING"}, {"2.0", "1.0"}) \cup Json({"DOUBLE"}, {"2.0"})
Ids      == Json({"INT32", "INT64", "STRING", "NULL", "DOUBLE"}, {7})
Methods  == Json({"STRING"},
                 { <<"S", "add">>, <<"S", "ping">>, <<"S", "log">>, <<"S", "tick">>,
                   <<"S", "">>, <<"", "add">>, <<"T", "add">>, <<"add">>, <<"rpc", "">> })
            \cup Json({"BOOL"}, { <<>> })
Params   == Json({"ARRAY"}, { <<>>, <<"DOUBLE", "INT32">>, <<"INT32", "DOUBLE">>,
                              <<"STRING">> })
            \cup Json({"OBJECT"}, { [x |-> "DOUBLE", y |-> "INT32"],
                                    [x |-> "DOUBLE", z |-> "INT32"], [m |-> "STRING"] })
            \cup Json({"INT32"}, { <<>> })
Unexpected == Json({"BOOL"}, {0})

(* An object with one value, or none, for each member. *)
None == [type |-> "none", val |-> 0]
Present(choice) == [k \in {j \in DOMAIN choice : choice[j] # None} |-> choice[k]]

Objects ==
  { Present(choice) :
      choice \in [jsonrpc : Versions \cup {None}, id : Ids \cup {None},
                  method : Methods \cup {None}, params : Params \cup {None},
                  more : Unexpected \cup {None}] }

Requests == [type : {"OBJECT"}, members : Objects] \cup [type : {"STRING"}, members : {<<>>}]

VARIABLES req, answer

Init == req \in Requests /\ answer = <<>>
Ask  == answer = <<>> /\ answer' = <<Verdict(req)>> /\ UNCHANGED req
Spec == Init /\ [][Ask]_<<req, answer>>

Got == answer[1]
----------------------------------------------------------------------------
(* The reference: every call and notification the registry admits, built   *)
(* from its signatures, with params left out exactly when there are none.  *)
(* A procedure without a name is never found.                              *)
Callable(table) ==
  UNION {{<<s, p>> : p \in DOMAIN Services[s][table] \ {""}} : s \in DOMAIN Services}

(* No two parameters of a procedure share a name.  Generated stubs with    *)
(* two of one name do not compile, and who registers by hand has no use    *)
(* for them: only one of the two could be passed by its name.              *)
ASSUME RegistryAssumption ==
  \A table \in {"returns", "notifies"} : \A m \in Callable(table) :
    LET signature == Signature(m, table)
    IN  /\ signature \in Seq([name : STRING, type : STRING])
        /\ \A i, j \in DOMAIN signature : signature[i].name = signature[j].name => i = j

TypeNamed(signature, n) == (CHOOSE p \in Range(signature) : p.name = n).type

Passed(signature) ==
  IF signature = <<>> THEN {None}
  ELSE { [type |-> "ARRAY", val |-> [i \in DOMAIN signature |-> signature[i].type]],
         [type |-> "OBJECT",
          val  |-> [n \in {signature[i].name : i \in DOMAIN signature} |->
                      TypeNamed(signature, n)]] }

String(v) == [type |-> "STRING", val |-> v]

Message(m, i, params) ==
  Present([jsonrpc |-> String("2.0"), method |-> String(m), id |-> i, params |-> params])

Built(methods, table, ids) ==
  UNION {{Message(m, i, params) : i \in ids, params \in Passed(Signature(m, table))} :
         m \in methods}

(* A notification, unlike a call, is not looked up in a service without    *)
(* name.                                                                   *)
Notifiable == {m \in Callable("notifies") : m[1] # ""}

Admitted == Built(Callable("returns"), "returns", {i \in Ids : i.type \in IdTypes})
            \cup Built(Notifiable, "notifies", {None})

(* A procedure runs for exactly the requests that can be built from its    *)
(* registered signature: validateRequest, validateNotify, the two lookups  *)
(* and validateGeneric together let no other request through and stop none *)
(* of these.                                                               *)
RunsExactlyTheAdmitted ==
  answer # <<>> => (Got.verdict = "run" <=> req.type = "OBJECT" /\ req.members \in Admitted)

(* Whatever is wrong with a request whose id is usable, the exception that *)
(* refuses it carries that id, so that the caller can tell which call      *)
(* failed; a request is never dropped silently the way a notification is.  *)
RefusalsEchoTheId ==
  answer # <<>> /\ req.type = "OBJECT" /\ HasType(req.members, "id", IdTypes) =>
    /\ Got.verdict # "drop"
    /\ Got.verdict = "refuse" => Got.id = req.members["id"]

(* An error names the part of the request that is wrong.  Other params     *)
(* mend a request refused as INVALID_PARAMS, and no other.  What is        *)
(* refused as METHOD_NOT_FOUND is mended by any method of the registry,    *)
(* with its params; the reserved name is looked at too early for that.     *)
With(members, key, value) ==
  [k \in (DOMAIN members \ {key}) \cup (IF value = None THEN {} ELSE {key}) |->
     IF k = key THEN value ELSE members[k]]

RunsWith(members) == RequestVerdict(members).verdict = "run"

OtherParams ==
  Params \cup {None} \cup UNION {Passed(Signature(m, "returns")) : m \in Callable("returns")}

ErrorsNameTheWrongPart ==
  answer # <<>> /\ Got.verdict = "refuse" /\ req.type = "OBJECT" /\ ~ IsNotify(req) =>
    /\ Got.err = "INVALID_PARAMS" <=>
         \E params \in OtherParams : RunsWith(With(req.members, "params", params))
    /\ Got.err = "METHOD_NOT_FOUND" /\ ~ IsInternal(req.members["method"].val) =>
         \A m \in Callable("returns") :
           \E params \in Passed(Signature(m, "returns")) :
             RunsWith(With(With(req.members, "params", params), "method", String(m)))
============================================================================
