------------------------------- MODULE StubSpec -------------------------------
(***************************************************************************)
(* The stub generator and what its two stubs do at run time.  It parses a  *)
(* specification (parseProto, parseRpc) into a service with returning      *)
(* procedures and notifications.  The generated service stub registers     *)
(* them, with their signatures, in a server; the generated client stub has *)
(* a function for each, which sends a request.  Whether the one stub       *)
(* serves what the other sends is decided by the server's dispatcher.      *)
(*                                                                         *)
(* The texts of the stubs are left out, except for what the generated code *)
(* registers and sends.  A json value is a record [type, val]; an object's *)
(* val is a function from member names to values, an array's a sequence.   *)
(* The params of a definition are a sequence of [name, type], since their  *)
(* order is the order of the signature and names may occur twice.          *)
(***************************************************************************)
EXTENDS Naturals, Sequences, FiniteSets

CONSTANT Protos   (* what the input file may hold, once it was read as json *)

JsonTypes == {"NULL", "BOOL", "INT32", "INT64", "DOUBLE", "STRING", "OBJECT", "ARRAY"}

VARIABLES
  proto,    (* the specification: never changes                            *)
  status,   (* "new", "parsing", "failed", "recursing" or "done"           *)
  at,       (* the next definition in the specification's rpc array        *)
  returns,  (* serviceInfo_.rpcReturn: a sequence of [name, params]        *)
  notifies, (* serviceInfo_.rpcNotify: likewise                            *)
  sent      (* what client stubs sent, if anything: the latest request     *)

vars == <<proto, status, at, returns, notifies, sent>>

Init ==
  /\ proto \in Protos
  /\ status = "new" /\ at = 1
  /\ returns = <<>> /\ notifies = <<>> /\ sent = {}

----------------------------------------------------------------------------
(* Parsing.                                                                *)
Has(obj, key, type) == key \in DOMAIN obj.val /\ obj.val[key].type = type

IsProto(p) ==
  /\ p.type = "OBJECT" /\ Cardinality(DOMAIN p.val) = 2
  /\ Has(p, "name", "STRING") /\ Has(p, "rpc", "ARRAY")

IsNamed(rpc) == rpc.type = "OBJECT" /\ Has(rpc, "name", "STRING")

(* What json allows for in a specification, apart from params that are no  *)
(* object.                                                                 *)
IsDefinition(d) ==
  IsNamed(d) => /\ d.val["name"].val \in STRING
                /\ "params" \in DOMAIN d.val =>
                     d.val["params"].val \in Seq([name : STRING, type : JsonTypes])
                /\ "returns" \in DOMAIN d.val => d.val["returns"].type \in JsonTypes

ASSUME ProtosAssumption ==
  \A p \in Protos : IsProto(p) =>
    LET defs == p.val["rpc"].val
        all  == {defs[i] : i \in DOMAIN defs}
    IN  defs \in Seq(all) /\ \A d \in all : IsDefinition(d)

(* Without params a definition gets an object that is empty. *)
ParamsOf(rpc) == IF "params" \in DOMAIN rpc.val THEN rpc.val["params"].val ELSE <<>>

RepeatsAreValid(params) == \A i \in DOMAIN params : params[i].type # "NULL"

ParamsAreValid(params) ==
  /\ \A i, j \in DOMAIN params : params[i].name = params[j].name => i = j
  /\ \A i \in DOMAIN params : params[i].type # "NULL"

HasReturns(rpc)  == rpc.type = "OBJECT" /\ "returns" \in DOMAIN rpc.val
ReturnType(rpc)  == rpc.val["returns"].type
Definitions      == proto.val["rpc"].val
Definition       == Definitions[at]
IsReadable(rpc)  == IsNamed(rpc) /\ ParamsAreValid(ParamsOf(rpc))
Parsed(rpc)      == [name |-> rpc.val["name"].val, params |-> ParamsOf(rpc)]

ParseProto ==
  /\ status = "new"
  /\ status' = IF IsProto(proto) THEN "parsing" ELSE "failed"
  /\ UNCHANGED <<proto, at, returns, notifies, sent>>

AtDefinition == status = "parsing" /\ at <= Len(Definitions)

RejectRpc ==
  /\ AtDefinition
  /\ \/ ~ IsReadable(Definition)
     \/ HasReturns(Definition) /\ ReturnType(Definition) \in {"NULL", "ARRAY"}
  /\ status' = "failed"
  /\ UNCHANGED <<proto, at, returns, notifies, sent>>

(* validateReturns calls itself with the object it was called with, until  *)
(* the stack is used up, or for ever if the compiler made it a loop.       *)
RecurseForEver ==
  /\ AtDefinition
  /\ IsReadable(Definition) /\ HasReturns(Definition) /\ ReturnType(Definition) = "OBJECT"
  /\ status' = "recursing"
  /\ UNCHANGED <<proto, at, returns, notifies, sent>>

AddReturn ==
  /\ AtDefinition /\ IsReadable(Definition)
  /\ HasReturns(Definition) /\ ReturnType(Definition) \notin {"NULL", "ARRAY", "OBJECT"}
  /\ returns' = Append(returns, Parsed(Definition)) /\ at' = at + 1
  /\ UNCHANGED <<proto, status, notifies, sent>>

AddNotify ==
  /\ AtDefinition /\ IsReadable(Definition) /\ ~ HasReturns(Definition)
  /\ notifies' = Append(notifies, Parsed(Definition)) /\ at' = at + 1
  /\ UNCHANGED <<proto, status, returns, sent>>

ParseEnds ==
  /\ status = "parsing" /\ at > Len(Definitions)
  /\ status' = "done"
  /\ UNCHANGED <<proto, at, returns, notifies, sent>>

----------------------------------------------------------------------------
(* The service stub: the registry its constructor fills.                   *)
Name == proto.val["name"].val

Names(params) == {params[k].name : k \in DOMAIN params}

FirstParamOnly(p) == IF p.params = <<>> THEN <<>> ELSE <<p.params[1]>>
StubSignature(p)  == p.params

Table(procs) ==
  [n \in {procs[i].name : i \in DOMAIN procs} |->
     StubSignature(procs[CHOOSE i \in DOMAIN procs : procs[i].name = n])]

ReturnBindings == Table(returns)
NotifyBindings == Table(notifies)

Registered == [s \in {Name} |-> [returns |-> ReturnBindings, notifies |-> NotifyBindings]]

Server(registry) == INSTANCE RpcDispatch WITH Services <- registry

(* Of two definitions with one name the bindings, or the functions, of the *)
(* service stub are ambiguous.  The call of a notification that has params *)
(* keeps the placeholder [NotifyName], and a comma behind its arguments.   *)
(* A parameter must not hide what the generated functions use themselves,  *)
(* and a function needs a name.  An object or array called request does    *)
(* compile: the response is then made from it instead of the request.      *)
NamesAreUnique ==
  LET all == returns \o notifies
  IN  \A i, j \in DOMAIN all : all[i].name = all[j].name => i = j

OwnNames == {"request", "done", "params", "call", "cb", "conn_", "client_"}

Hides(p) ==
  p.name \in OwnNames /\ ~ (p.name = "request" /\ p.type \in {"OBJECT", "ARRAY"})

StubsCompile ==
  /\ NamesAreUnique /\ "" \notin Names(returns) \cup Names(notifies)
  /\ \A i \in DOMAIN notifies : notifies[i].params = <<>>
  /\ \A i \in DOMAIN returns :
       \A k \in DOMAIN returns[i].params : ~ Hides(returns[i].params[k])

(* The client stub: the C++ type of an argument fixes the json type of its *)
(* value, but an int64_t that fits in 32 bits is read back as an INT32.    *)
WireTypes(type) == IF type = "INT64" THEN {"INT32", "INT64"} ELSE {type}

String(val) == [type |-> "STRING", val |-> val]

(* Params by name, as the client stub sends them, and by position, as      *)
(* other clients may: the k-th argument's place among them.                *)
Key(p, form, k) == IF form = "ARRAY" THEN k ELSE p.params[k].name

Placed(p, form, values) ==
  [key \in {Key(p, form, k) : k \in DOMAIN p.params} |->
     values[CHOOSE k \in DOMAIN p.params : Key(p, form, k) = key]]

CallRequest(p, form, types) ==
  [type |-> "OBJECT",
   members |->
     [jsonrpc |-> String("2.0"), method |-> String(<<Name, p.name>>),
      params  |-> [type |-> form, val |-> Placed(p, form, types)],
      id      |-> [type |-> "INT32", val |-> 0]]]

(* The template names one fixed method, and leaves the params out. *)
NotifyRequest ==
  [type |-> "OBJECT",
   members |-> [jsonrpc |-> String("2.0"), method |-> String(<<"Hello", "Goodbye">>)]]

MayCall == status = "done" /\ StubsCompile /\ sent = {}

(* An argument is known by its place in the call; of a parameter's type it *)
(* may be passed as the json types allowed for that.                       *)
CallAs(form, allowed) ==
  /\ MayCall
  /\ \E i \in DOMAIN returns :
       \E types \in [DOMAIN returns[i].params -> JsonTypes] :
         /\ \A k \in DOMAIN types : types[k] \in allowed[returns[i].params[k].type]
         /\ sent' = {[proc |-> returns[i], types |-> types,
                      values  |-> Placed(returns[i], form, [k \in DOMAIN types |-> k]),
                      request |-> CallRequest(returns[i], form, types)]}
  /\ UNCHANGED <<proto, status, at, returns, notifies>>

CallStub == CallAs("OBJECT", [t \in JsonTypes |-> WireTypes(t)])

(* Another client, which may pass anything. *)
PassedTypes == {"INT32", "DOUBLE", "STRING", "OBJECT", "INT64"}
CallByPosition == CallAs("ARRAY", [t \in JsonTypes |-> PassedTypes])

NotifyStub ==
  /\ MayCall
  /\ \E i \in DOMAIN notifies :
       sent' = {[proc |-> notifies[i], types |-> <<>>, values |-> <<>>,
                 request |-> NotifyRequest]}
  /\ UNCHANGED <<proto, status, at, returns, notifies>>

(* The generated function of the service stub takes the params apart, one  *)
(* after the other, by index or by name, each with the getter of its type, *)
(* and passes the locals on in the same order.                             *)
FirstIndex(p, form, k) == IF form = "ARRAY" THEN 1 ELSE p.params[k].name
Index(p, form, k) == IF form = "ARRAY" THEN k ELSE p.params[k].name

Local(s, k) ==
  LET params == s.request.members["params"]
      from   == Index(s.proc, params.type, k)
  IN  [value |-> s.values[from], fits |-> params.val[from] = s.proc.params[k].type]

Unpacked(s) == [k \in DOMAIN s.proc.params |-> Local(s, k)]

----------------------------------------------------------------------------
Next == \/ ParseProto \/ RejectRpc \/ RecurseForEver \/ AddReturn \/ AddNotify \/ ParseEnds
        \/ CallStub \/ CallByPosition \/ NotifyStub

Spec == Init /\ [][Next]_vars
----------------------------------------------------------------------------
(* The reference for the parser: what a definition is, in one formula, and *)
(* which definitions return something.                                     *)
WellFormed(rpc) ==
  /\ rpc.type = "OBJECT" /\ {"name"} \subseteq DOMAIN rpc.val
  /\ rpc.val["name"].type = "STRING"
  /\ "params" \in DOMAIN rpc.val =>
       LET params == rpc.val["params"].val
       IN  /\ Cardinality({params[i].name : i \in DOMAIN params}) = Len(params)
           /\ "NULL" \notin {params[i].type : i \in DOMAIN params}
  /\ "returns" \in DOMAIN rpc.val =>
       rpc.val["returns"].type \in {"BOOL", "INT32", "INT64", "DOUBLE", "STRING"}

Returning    == {i \in DOMAIN Definitions : "returns" \in DOMAIN Definitions[i].val}
NotReturning == DOMAIN Definitions \ Returning

(* A list holds the definitions at some places, in their order, each under *)
(* its own name and with its own params.                                   *)
Lists(list, defs, places) ==
  \E place \in [DOMAIN list -> places] :
    /\ \A i \in places : \E k \in DOMAIN list : place[k] = i
    /\ \A j, k \in DOMAIN list : j < k => place[j] < place[k]
    /\ \A k \in DOMAIN list :
         /\ list[k].name   = defs[place[k]].val["name"].val
         /\ list[k].params = ParamsOf(defs[place[k]])

(* A specification is turned into stubs exactly when all its definitions   *)
(* are well formed, and then every definition is in one of the two lists,  *)
(* in its place; one that returns an object is the only thing that keeps   *)
(* the generator from an answer.                                           *)
ParsesTheWellFormed ==
  /\ status = "done" =>
       /\ \A i \in DOMAIN Definitions : WellFormed(Definitions[i])
       /\ Lists(returns, Definitions, Returning) /\ Lists(notifies, Definitions, NotReturning)
  /\ status = "failed" /\ IsProto(proto) => ~ WellFormed(Definition)
  /\ status = "recursing" => Definition.val["returns"].type = "OBJECT"

Runs(request) == Server(Registered)!Verdict(request).verdict = "run"

AsDeclared(s) == \A k \in DOMAIN s.types : s.types[k] = s.proc.params[k].type

(* Client stub, service stub and dispatcher agree: from one specification, *)
(* a call of the one is admitted by the server of the other exactly if it  *)
(* has something to pass and each argument arrives as the json type that   *)
(* the specification shows.                                                *)
GeneratedCallsAreAdmitted ==
  \A s \in sent :
    "id" \in DOMAIN s.request.members =>
      (Runs(s.request) <=> s.proc.params # <<>> /\ AsDeclared(s))

(* What the dispatcher admits can be taken apart by the service stub: each *)
(* parameter of the implementation gets the argument passed for it, by     *)
(* name or by position, through a getter that fits the value.              *)
ArgumentsArrive ==
  \A s \in sent :
    "id" \in DOMAIN s.request.members /\ Runs(s.request) =>
      Unpacked(s) = [k \in DOMAIN s.proc.params |-> [value |-> k, fits |-> TRUE]]
----------------------------------------------------------------------------
(* README.md:23: from one specification the generator makes the stubs of   *)
(* the client and of the server, and including the former is all it takes  *)
(* to use the service.  What a client stub sends is run.                   *)
EveryStubRequestRuns == \A s \in sent : Runs(s.request)
============================================================================
