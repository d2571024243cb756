--------------------------- MODULE RpcDispatchProofs ---------------------------
(***************************************************************************)
(* What the dispatcher decides, for every registry of services: a request  *)
(* runs exactly if it can be built from a registered signature, a refusal  *)
(* carries the id, and its error names the part that is wrong.             *)
(***************************************************************************)
EXTENDS MCRpcDispatch, FunctionTheorems, FiniteSetTheorems, SequenceTheorems, TLAPS

(* The decision on one request: validateRequest, the lookup of service and *)
(* procedure and validateGeneric each throw with the id they were given.   *)
LEMMA VerdictEchoesTheId ==
  ASSUME NEW r, r.type = "OBJECT", HasType(r.members, "id", IdTypes)
  PROVE  LET v == Verdict(r) IN /\ v.verdict # "drop"
                                /\ v.verdict = "refuse" => v.id = r.members["id"]
<1> DEFINE obj == r.members
<1>1. Verdict(r) = RequestVerdict(obj)
  BY DEF Verdict, IsNotify, HasType
<1>2. RequestVerdict(obj) \in {Run} \cup {Refuse(err, obj["id"]) : err \in Errors}
  BY DEF RequestVerdict, Errors
<1>3. Run.verdict = "run"
  BY DEF Run
<1>4. \A err : Refuse(err, obj["id"]).verdict = "refuse" /\ Refuse(err, obj["id"]).id = obj["id"]
  BY DEF Refuse
<1> QED
  BY <1>1, <1>2, <1>3, <1>4

(* The answer given is the verdict on the request. *)
AnswerIsVerdict == req \in Requests /\ (answer = <<>> \/ answer = <<Verdict(req)>>)

LEMMA AnswersAreVerdicts == Spec => []AnswerIsVerdict
<1>1. Init => AnswerIsVerdict
  BY DEF Init, AnswerIsVerdict
<1>2. AnswerIsVerdict /\ [Ask]_<<req, answer>> => AnswerIsVerdict'
  BY DEF AnswerIsVerdict, Ask
<1> QED
  BY <1>1, <1>2, PTL DEF Spec

(* Whatever services are registered, a refusal of a request that has an id *)
(* carries that id, and no such request is dropped.                        *)
THEOREM RefusalsCarryTheId == Spec => []RefusalsEchoTheId
<1>1. AnswerIsVerdict => RefusalsEchoTheId
  BY VerdictEchoesTheId DEF AnswerIsVerdict, RefusalsEchoTheId, Got
<1> QED
  BY <1>1, AnswersAreVerdicts, PTL

----------------------------------------------------------------------------
(* Params and signatures.                                                  *)

IsSignature(sig) ==
  /\ sig \in Seq([name : STRING, type : STRING])
  /\ \A i, j \in DOMAIN sig : sig[i].name = sig[j].name => i = j

IsFcn(f) == f = [k \in DOMAIN f |-> f[k]]

(* What json allows for as params. *)
IsParams(v) ==
  /\ v = [type |-> v.type, val |-> v.val] /\ v.type # "none"
  /\ v.type \in {"ARRAY", "OBJECT"} =>
       IsFcn(v.val) /\ IsFiniteSet(DOMAIN v.val)

(* An object with n members that has n different keys has no other. *)
AreAllOf(keys, n) ==
  /\ IsFiniteSet(keys) /\ Cardinality(keys) = n
  /\ \A S : IsFiniteSet(S) /\ Cardinality(S) = n /\ keys \subseteq S => S = keys

LEMMA KeysFill ==
  ASSUME NEW n \in Nat, NEW f, NEW keys, f \in [1 .. n -> keys],
         \A k \in keys : \E i \in 1 .. n : f[i] = k,
         \A i, j \in 1 .. n : f[i] = f[j] => i = j
  PROVE  AreAllOf(keys, n)
<1>1. f \in Bijection(1 .. n, keys)
  BY Fun_IsBij
<1>2. IsFiniteSet(1 .. n) /\ Cardinality(1 .. n) = n
  BY FS_Interval
<1>3. IsFiniteSet(keys) /\ Cardinality(keys) = n
  BY <1>1, <1>2, FS_Bijection, Fun_ExistsBij
<1> QED
  BY <1>3, FS_Subset DEF AreAllOf

LEMMA TypeOfName ==
  ASSUME NEW sig, IsSignature(sig), NEW i \in DOMAIN sig
  PROVE  TypeNamed(sig, sig[i].name) = sig[i].type
<1>1. PICK name : name = sig[i].name
  OBVIOUS
<1>2. PICK p : p = CHOOSE q \in Range(sig) : q.name = name
  OBVIOUS
<1>3. p \in Range(sig) /\ p.name = name
  BY <1>1, <1>2 DEF Range
<1>4. p = sig[i]
  BY <1>1, <1>3 DEF Range, IsSignature
<1> QED
  BY <1>1, <1>2, <1>4 DEF TypeNamed

(* validateGeneric lets through what can be built from the signature.      *)
LEMMA FitIsPassed ==
  ASSUME NEW sig, IsSignature(sig), NEW obj, "params" \in DOMAIN obj, IsParams(obj["params"])
  PROVE  ParamsFit(obj, sig) <=> sig # <<>> /\ obj["params"] \in Passed(sig)
<1>1. PICK n \in Nat : n = Len(sig) /\ DOMAIN sig = 1 .. n /\ (n = 0 <=> sig = <<>>)
  BY EmptySeq DEF IsSignature
<1>2. PICK type, val : obj["params"] = [type |-> type, val |-> val]
  BY DEF IsParams
<1>3. /\ obj["params"].type = type /\ obj["params"].val = val /\ type # "none"
      /\ type \in {"ARRAY", "OBJECT"} =>
           val = [k \in DOMAIN val |-> val[k]] /\ IsFiniteSet(DOMAIN val)
  BY <1>2 DEF IsParams, IsFcn
<1>4. PICK names : names = {sig[i].name : i \in DOMAIN sig}
  OBVIOUS
<1>5. ParamsFit(obj, sig) <=>
        /\ type \in {"ARRAY", "OBJECT"} /\ n # 0 /\ Cardinality(DOMAIN val) = n
        /\ \A i \in 1 .. n : LET key == IF type = "ARRAY" THEN i ELSE sig[i].name
                             IN  key \in DOMAIN val /\ val[key] = sig[i].type
  BY <1>1, <1>3 DEF ParamsFit
<1>6. PICK byPosition, byName : /\ byPosition = [i \in 1 .. n |-> sig[i].type]
                                /\ byName = [name \in names |-> TypeNamed(sig, name)]
  OBVIOUS
<1>7. ASSUME n # 0
      PROVE  obj["params"] \in Passed(sig) <=> \/ type = "ARRAY" /\ val = byPosition
                                               \/ type = "OBJECT" /\ val = byName
  <2>1. Passed(sig) = {[type |-> "ARRAY", val |-> byPosition], [type |-> "OBJECT", val |-> byName]}
    BY <1>1, <1>4, <1>6, <1>7 DEF Passed
  <2>2. \A t, v : [type |-> type, val |-> val] = [type |-> t, val |-> v] <=> type = t /\ val = v
    OBVIOUS
  <2> QED
    BY <1>2, <2>1, <2>2
<1>8. CASE type = "ARRAY" /\ n # 0
  <2>1. PICK f : f = [i \in 1 .. n |-> i]
    OBVIOUS
  <2>2. AreAllOf(1 .. n, n)
    <3>1. /\ f \in [1 .. n -> 1 .. n] /\ \A k \in 1 .. n : \E i \in 1 .. n : f[i] = k
          /\ \A i, j \in 1 .. n : f[i] = f[j] => i = j
      BY <2>1
    <3> QED
      BY <3>1, KeysFill
  <2>3. ASSUME Cardinality(DOMAIN val) = n, \A i \in 1 .. n : i \in DOMAIN val /\ val[i] = sig[i].type
        PROVE  val = byPosition
    <3>1. DOMAIN val = 1 .. n
      BY <1>3, <1>8, <2>2, <2>3 DEF AreAllOf
    <3> QED
      BY <1>3, <1>6, <1>8, <2>3, <3>1
  <2>4. ASSUME val = byPosition
        PROVE  Cardinality(DOMAIN val) = n /\ \A i \in 1 .. n : i \in DOMAIN val /\ val[i] = sig[i].type
    BY <1>6, <2>2, <2>4 DEF AreAllOf
  <2> QED
    BY <1>1, <1>5, <1>7, <1>8, <2>3, <2>4
<1>9. CASE type = "OBJECT" /\ n # 0
  <2>1. PICK f : f = [i \in 1 .. n |-> sig[i].name]
    OBVIOUS
  <2>2. AreAllOf(names, n)
    <3>1. f \in [1 .. n -> names] /\ \A k \in names : \E i \in 1 .. n : f[i] = k
      BY <1>1, <1>4, <2>1
    <3>2. \A i, j \in 1 .. n : f[i] = f[j] => i = j
      BY <1>1, <2>1 DEF IsSignature
    <3> QED
      BY <3>1, <3>2, KeysFill
  <2>3. ASSUME Cardinality(DOMAIN val) = n,
               \A i \in 1 .. n : sig[i].name \in DOMAIN val /\ val[sig[i].name] = sig[i].type
        PROVE  val = byName
    <3>1. DOMAIN val = names
      <4>1. names \subseteq DOMAIN val
        BY <1>1, <1>4, <2>3
      <4> QED
        BY <1>3, <1>9, <2>2, <2>3, <4>1 DEF AreAllOf
    <3>2. \A name \in names : val[name] = TypeNamed(sig, name)
      BY <1>1, <1>4, <2>3, TypeOfName
    <3> QED
      BY <1>3, <1>6, <1>9, <3>1, <3>2
  <2>4. ASSUME val = byName
        PROVE  /\ Cardinality(DOMAIN val) = n
               /\ \A i \in 1 .. n : sig[i].name \in DOMAIN val /\ val[sig[i].name] = sig[i].type
    BY <1>1, <1>4, <1>6, <2>2, <2>4, TypeOfName DEF AreAllOf
  <2> QED
    BY <1>1, <1>5, <1>7, <1>9, <2>3, <2>4
<1> QED
  BY <1>1, <1>5, <1>7, <1>8, <1>9

(* What a signature is passed: nothing exactly if it is empty. *)
LEMMA PassedIsParams ==
  ASSUME NEW sig, IsSignature(sig), NEW v \in Passed(sig)
  PROVE  /\ v = None <=> sig = <<>>
         /\ v # None => IsParams(v)
<1>1. CASE sig = <<>>
  BY <1>1 DEF Passed
<1>2. CASE sig # <<>>
  <2>1. PICK n \in Nat : n = Len(sig) /\ DOMAIN sig = 1 .. n
    BY DEF IsSignature
  <2>2. PICK names : names = {sig[i].name : i \in DOMAIN sig}
    OBVIOUS
  <2>3. IsFiniteSet(1 .. n)
    BY FS_Interval
  <2>4. IsFiniteSet(names)
    <3>1. PICK f : f = [i \in 1 .. n |-> sig[i].name]
      OBVIOUS
    <3>2. f \in [1 .. n -> names] /\ \A k \in names : \E i \in 1 .. n : f[i] = k
      BY <2>1, <2>2, <3>1
    <3>3. \A i, j \in 1 .. n : f[i] = f[j] => i = j
      BY <2>1, <3>1 DEF IsSignature
    <3> QED
      BY <3>2, <3>3, KeysFill DEF AreAllOf
  <2>5. PICK type, val : /\ v = [type |-> type, val |-> val] /\ type \in {"ARRAY", "OBJECT"}
                         /\ val = [k \in DOMAIN val |-> val[k]] /\ IsFiniteSet(DOMAIN val)
    BY <1>2, <2>1, <2>2, <2>3, <2>4 DEF Passed
  <2>6. v.type = type /\ v.val = val
    BY <2>5
  <2> QED
    BY <1>2, <2>5, <2>6 DEF None, IsParams, IsFcn
<1> QED
  BY <1>1, <1>2

----------------------------------------------------------------------------
(* Members.                                                                *)

IsMethod(m) == (\E a : m = <<a>>) \/ (\E a, b : m = <<a, b>>)

(* What json allows for as a request. *)
IsObject(obj) ==
  /\ IsFcn(obj) /\ IsFiniteSet(DOMAIN obj)
  /\ \A k \in DOMAIN obj : obj[k] = [type |-> obj[k].type, val |-> obj[k].val]
                           /\ obj[k].type # "none"
  /\ "params" \in DOMAIN obj => IsParams(obj["params"])
  /\ "method" \in DOMAIN obj /\ obj["method"].type = "STRING" => IsMethod(obj["method"].val)

Needed(n) == IF n = 3 THEN {"jsonrpc", "method", "id"} ELSE {"jsonrpc", "method"}

LEMMA NeededCount ==
  \A n \in {2, 3} : IsFiniteSet(Needed(n)) /\ Cardinality(Needed(n)) = n
<1>1. IsFiniteSet({"jsonrpc"}) /\ Cardinality({"jsonrpc"}) = 1
  BY FS_Singleton
<1>2. IsFiniteSet({"jsonrpc"} \cup {"method"}) /\ Cardinality({"jsonrpc"} \cup {"method"}) = 2
  BY <1>1, FS_AddElement
<1>3. /\ IsFiniteSet(({"jsonrpc"} \cup {"method"}) \cup {"id"})
      /\ Cardinality(({"jsonrpc"} \cup {"method"}) \cup {"id"}) = 3
  BY <1>2, FS_AddElement
<1>4. /\ Needed(2) = {"jsonrpc"} \cup {"method"}
      /\ Needed(3) = ({"jsonrpc"} \cup {"method"}) \cup {"id"}
  BY DEF Needed
<1> QED
  BY <1>2, <1>3, <1>4

(* Counting the members tells that there is no unexpected one. *)
LEMMA CountTells ==
  ASSUME NEW obj, IsFiniteSet(DOMAIN obj), NEW n \in {2, 3}, Needed(n) \subseteq DOMAIN obj
  PROVE  MemberCountIs(obj, n) <=> DOMAIN obj \ {"params"} = Needed(n)
<1>1. PICK rest : rest = DOMAIN obj \ {"params"}
  OBVIOUS
<1>2. /\ IsFiniteSet(rest) /\ Cardinality(DOMAIN obj) \in Nat
      /\ Cardinality(rest) = IF "params" \in DOMAIN obj THEN Cardinality(DOMAIN obj) - 1
                             ELSE Cardinality(DOMAIN obj)
  BY <1>1, FS_RemoveElement, FS_CardinalityType
<1>3. MemberCountIs(obj, n) <=> Cardinality(rest) = n
  BY <1>2 DEF MemberCountIs
<1>4. Needed(n) \subseteq rest
  BY <1>1 DEF Needed
<1> QED
  BY <1>1, <1>2, <1>3, <1>4, NeededCount, FS_Subset

LEMMA StringIsSome == \A v : String(v) # None
<1>1. \A v : String(v).type = "STRING"
  BY DEF String
<1>2. None.type = "none"
  BY DEF None
<1> QED
  BY <1>1, <1>2

(* A message has the members it was built from and no other. *)
HasMembers(obj, m, i, v) ==
  /\ DOMAIN obj = Needed(2) \cup (IF i = None THEN {} ELSE {"id"})
                            \cup (IF v = None THEN {} ELSE {"params"})
  /\ obj["jsonrpc"] = String("2.0") /\ obj["method"] = String(m)
  /\ i # None => obj["id"] = i
  /\ v # None => obj["params"] = v

LEMMA MessageMembers ==
  ASSUME NEW m, NEW i, NEW v, NEW obj, IsFcn(obj)
  PROVE  obj = Message(m, i, v) <=> HasMembers(obj, m, i, v)
<1>1. PICK members : members = [jsonrpc |-> String("2.0"), method |-> String(m), id |-> i, params |-> v]
  OBVIOUS
<1>2. /\ DOMAIN members = {"jsonrpc", "method", "id", "params"}
      /\ members["jsonrpc"] = String("2.0") /\ members["method"] = String(m)
      /\ members["id"] = i /\ members["params"] = v
  BY <1>1
<1>3. PICK keys : keys = {k \in DOMAIN members : members[k] # None}
  OBVIOUS
<1>4. Message(m, i, v) = [k \in keys |-> members[k]]
  BY <1>1, <1>3 DEF Message, Present
<1>5. keys = Needed(2) \cup (IF i = None THEN {} ELSE {"id"}) \cup (IF v = None THEN {} ELSE {"params"})
  BY <1>2, <1>3, StringIsSome DEF Needed
<1>6. obj = Message(m, i, v) <=> DOMAIN obj = keys /\ \A k \in keys : obj[k] = members[k]
  BY <1>4 DEF IsFcn
<1>7. (\A k \in keys : obj[k] = members[k]) <=>
        /\ obj["jsonrpc"] = String("2.0") /\ obj["method"] = String(m)
        /\ i # None => obj["id"] = i
        /\ v # None => obj["params"] = v
  BY <1>2, <1>5 DEF Needed
<1> QED
  BY <1>5, <1>6, <1>7 DEF HasMembers

(* The lookup finds what is registered under a name. *)
LEMMA Found ==
  ASSUME NEW m, NEW table
  PROVE  /\ m \in Callable(table) => /\ Resolves(m, table) /\ IsMethod(m) /\ ~ IsInternal(m)
         /\ IsMethod(m) /\ Resolves(m, table) => m \in Callable(table)
<1>1. ASSUME m \in Callable(table)
      PROVE  Resolves(m, table) /\ IsMethod(m) /\ ~ IsInternal(m)
  <2>1. PICK s \in DOMAIN Services : \E p \in DOMAIN Services[s][table] \ {""} : m = <<s, p>>
    BY <1>1 DEF Callable
  <2>2. PICK p \in DOMAIN Services[s][table] : p # "" /\ m = <<s, p>>
    BY <2>1
  <2>3. Len(m) = 2 /\ m[1] = s /\ m[2] = p
    BY <2>2
  <2>4. <<"rpc", "">>[2] = ""
    OBVIOUS
  <2> QED
    BY <2>2, <2>3, <2>4 DEF Resolves, IsMethod, IsInternal
<1>2. ASSUME IsMethod(m), Resolves(m, table)
      PROVE  m \in Callable(table)
  <2>1. \A a : Len(<<a>>) # 2
    OBVIOUS
  <2>2. \A a : m # <<a>>
    <3>1. Len(m) = 2
      BY <1>2 DEF Resolves
    <3> QED
      BY <2>1, <3>1, Zenon
  <2>3. PICK a, b : m = <<a, b>>
    BY <1>2, <2>2, Zenon DEF IsMethod
  <2>4. m[1] = a /\ m[2] = b
    BY <2>3
  <2>5. a \in DOMAIN Services /\ b \in DOMAIN Services[a][table] \ {""}
    BY <1>2, <2>4 DEF Resolves
  <2>6. m \in {<<a, p>> : p \in DOMAIN Services[a][table] \ {""}}
    BY <2>3, <2>5
  <2> QED
    BY <2>5, <2>6 DEF Callable
<1> QED
  BY <1>1, <1>2

LEMMA Registered ==
  ASSUME NEW table \in {"returns", "notifies"}, NEW m \in Callable(table)
  PROVE  IsSignature(Signature(m, table))
BY RegistryAssumption DEF IsSignature

(* The params of an object, as a message is built from them. *)
ParamsIn(obj) == IF "params" \in DOMAIN obj THEN obj["params"] ELSE None

LEMMA FitOfObject ==
  ASSUME NEW sig, IsSignature(sig), NEW obj, "params" \in DOMAIN obj => IsParams(obj["params"])
  PROVE  /\ ParamsFit(obj, sig) <=> ParamsIn(obj) \in Passed(sig)
         /\ ParamsIn(obj) = None <=> "params" \notin DOMAIN obj
<1>1. "params" \in DOMAIN obj => obj["params"] # None
  BY DEF IsParams, None
<1>2. CASE "params" \in DOMAIN obj
  <2>1. ParamsIn(obj) = obj["params"] /\ ParamsIn(obj) # None
    BY <1>1, <1>2 DEF ParamsIn
  <2>2. obj["params"] \in Passed(sig) => sig # <<>>
    BY <2>1, PassedIsParams
  <2> QED
    BY <1>2, <2>1, <2>2, FitIsPassed
<1>3. CASE "params" \notin DOMAIN obj
  <2>1. ParamsIn(obj) = None
    BY <1>3 DEF ParamsIn
  <2>2. ParamsFit(obj, sig) <=> sig = <<>>
    BY <1>3 DEF ParamsFit
  <2>3. sig = <<>> => None \in Passed(sig)
    BY DEF Passed
  <2> QED
    BY <1>3, <2>1, <2>2, <2>3, PassedIsParams
<1> QED
  BY <1>2, <1>3

----------------------------------------------------------------------------
(* Requests with an id.                                                    *)

(* What is checked before the params. *)
RequestIsSound(obj) ==
  /\ HasType(obj, "jsonrpc", {"STRING"}) /\ obj["jsonrpc"].val = "2.0"
  /\ HasType(obj, "method", {"STRING"}) /\ ~ IsInternal(obj["method"].val)
  /\ MemberCountIs(obj, 3)
  /\ Resolves(obj["method"].val, "returns")

LEMMA RequestRunsIf ==
  ASSUME NEW obj, HasType(obj, "id", IdTypes)
  PROVE  /\ RunsWith(obj) <=> /\ RequestIsSound(obj)
                              /\ ParamsFit(obj, Signature(obj["method"].val, "returns"))
         /\ RequestVerdict(obj).err = "INVALID_PARAMS" <=>
              /\ RequestIsSound(obj)
              /\ ~ ParamsFit(obj, Signature(obj["method"].val, "returns"))
BY DEF RunsWith, RequestVerdict, RequestIsSound, Run, Refuse

(* A request with a usable id runs exactly if it is a message that can be  *)
(* built for a procedure that returns something.                           *)
LEMMA RequestsThatRun ==
  ASSUME NEW obj, IsObject(obj), HasType(obj, "id", IdTypes)
  PROVE  RunsWith(obj) <=> obj \in Built(Callable("returns"), "returns", {obj["id"]})
<1>1. PICK id : id = obj["id"] /\ id # None /\ "id" \in DOMAIN obj
  BY DEF HasType, IdTypes, None
<1>2. ASSUME RunsWith(obj)
      PROVE  obj \in Built(Callable("returns"), "returns", {id})
  <2>1. PICK m : m = obj["method"].val
    OBVIOUS
  <2>2. /\ RequestIsSound(obj) /\ ParamsFit(obj, Signature(m, "returns"))
        /\ "jsonrpc" \in DOMAIN obj /\ "method" \in DOMAIN obj
    BY <1>2, <2>1, RequestRunsIf DEF RequestIsSound, HasType
  <2>3. obj["jsonrpc"] = String("2.0") /\ obj["method"] = String(m)
    BY <2>1, <2>2 DEF RequestIsSound, HasType, IsObject, String
  <2>4. m \in Callable("returns")
    BY <2>1, <2>2, Found DEF RequestIsSound, HasType, IsObject
  <2>5. PICK v : /\ v = ParamsIn(obj) /\ v \in Passed(Signature(m, "returns"))
                 /\ v = None <=> "params" \notin DOMAIN obj
    BY <2>2, <2>4, FitOfObject, Registered DEF IsObject
  <2>6. DOMAIN obj \ {"params"} = {"jsonrpc", "method", "id"}
    <3>1. Needed(3) = {"jsonrpc", "method", "id"}
      BY DEF Needed
    <3> QED
      BY <1>1, <2>2, <3>1, CountTells DEF RequestIsSound, IsObject
  <2>7. DOMAIN obj = Needed(2) \cup (IF id = None THEN {} ELSE {"id"})
                               \cup (IF v = None THEN {} ELSE {"params"})
    BY <1>1, <2>5, <2>6 DEF Needed
  <2>8. v # None => obj["params"] = v
    BY <2>5 DEF ParamsIn
  <2>9. obj = Message(m, id, v)
    <3>1. HasMembers(obj, m, id, v)
      BY <1>1, <2>3, <2>7, <2>8 DEF HasMembers
    <3> QED
      BY <3>1, MessageMembers DEF IsObject
  <2> QED
    BY <2>4, <2>5, <2>9 DEF Built
<1>3. ASSUME obj \in Built(Callable("returns"), "returns", {id})
      PROVE  RunsWith(obj)
  <2>1. PICK m \in Callable("returns") :
          \E v \in Passed(Signature(m, "returns")) : obj = Message(m, id, v)
    BY <1>3 DEF Built
  <2>2. PICK v \in Passed(Signature(m, "returns")) : obj = Message(m, id, v)
    BY <2>1
  <2>3. /\ DOMAIN obj = Needed(2) \cup {"id"} \cup (IF v = None THEN {} ELSE {"params"})
        /\ obj["jsonrpc"] = String("2.0") /\ obj["method"] = String(m)
        /\ v # None => obj["params"] = v
    <3>1. HasMembers(obj, m, id, v)
      BY <2>2, MessageMembers DEF IsObject
    <3> QED
      BY <1>1, <3>1 DEF HasMembers
  <2>4. /\ HasType(obj, "jsonrpc", {"STRING"}) /\ obj["jsonrpc"].val = "2.0"
        /\ HasType(obj, "method", {"STRING"}) /\ obj["method"].val = m
    BY <2>3 DEF HasType, String, Needed
  <2>5. MemberCountIs(obj, 3)
    <3>1. Needed(3) \subseteq DOMAIN obj /\ DOMAIN obj \ {"params"} = Needed(3)
      BY <2>3 DEF Needed
    <3> QED
      BY <3>1, CountTells DEF IsObject
  <2>6. RequestIsSound(obj)
    BY <2>4, <2>5, Found DEF RequestIsSound
  <2>7. ParamsIn(obj) = v
    BY <2>3 DEF ParamsIn, Needed
  <2>8. ParamsFit(obj, Signature(m, "returns"))
    BY <2>7, FitOfObject, Registered DEF IsObject
  <2> QED
    BY <2>4, <2>6, <2>8, RequestRunsIf
<1> QED
  BY <1>1, <1>2, <1>3

----------------------------------------------------------------------------
(* Notifications.                                                          *)

NotifyIsSound(obj) ==
  /\ HasType(obj, "jsonrpc", {"STRING"}) /\ obj["jsonrpc"].val = "2.0"
  /\ HasType(obj, "method", {"STRING"}) /\ ~ IsInternal(obj["method"].val)
  /\ MemberCountIs(obj, 2) /\ obj["method"].val[1] # ""
  /\ Resolves(obj["method"].val, "notifies")

LEMMA NotifyRunsIf ==
  \A obj : NotifyVerdict(obj).verdict = "run" <=>
             /\ NotifyIsSound(obj)
             /\ ParamsFit(obj, Signature(obj["method"].val, "notifies"))
BY DEF NotifyVerdict, NotifyIsSound, Run, Refuse, Drop

LEMMA NotificationsThatRun ==
  ASSUME NEW obj, IsObject(obj), "id" \notin DOMAIN obj
  PROVE  NotifyVerdict(obj).verdict = "run" <=> obj \in Built(Notifiable, "notifies", {None})
<1>1. ASSUME NotifyVerdict(obj).verdict = "run"
      PROVE  obj \in Built(Notifiable, "notifies", {None})
  <2>1. PICK m : m = obj["method"].val
    OBVIOUS
  <2>2. /\ NotifyIsSound(obj) /\ ParamsFit(obj, Signature(m, "notifies"))
        /\ "jsonrpc" \in DOMAIN obj /\ "method" \in DOMAIN obj
    BY <1>1, <2>1, NotifyRunsIf DEF NotifyIsSound, HasType
  <2>3. obj["jsonrpc"] = String("2.0") /\ obj["method"] = String(m)
    BY <2>1, <2>2 DEF NotifyIsSound, HasType, IsObject, String
  <2>4. m \in Callable("notifies") /\ m \in Notifiable
    BY <2>1, <2>2, Found DEF NotifyIsSound, HasType, IsObject, Notifiable
  <2>5. PICK v : /\ v = ParamsIn(obj) /\ v \in Passed(Signature(m, "notifies"))
                 /\ v = None <=> "params" \notin DOMAIN obj
    BY <2>2, <2>4, FitOfObject, Registered DEF IsObject
  <2>6. DOMAIN obj \ {"params"} = Needed(2)
    <3>1. Needed(2) \subseteq DOMAIN obj
      BY <2>2 DEF Needed
    <3> QED
      BY <2>2, <3>1, CountTells DEF NotifyIsSound, IsObject
  <2>7. DOMAIN obj = Needed(2) \cup (IF None = None THEN {} ELSE {"id"})
                               \cup (IF v = None THEN {} ELSE {"params"})
    BY <2>5, <2>6
  <2>8. v # None => obj["params"] = v
    BY <2>5 DEF ParamsIn
  <2>9. obj = Message(m, None, v)
    <3>1. HasMembers(obj, m, None, v)
      BY <2>3, <2>7, <2>8 DEF HasMembers
    <3> QED
      BY <3>1, MessageMembers DEF IsObject
  <2> QED
    BY <2>4, <2>5, <2>9 DEF Built
<1>2. ASSUME obj \in Built(Notifiable, "notifies", {None})
      PROVE  NotifyVerdict(obj).verdict = "run"
  <2>1. PICK m \in Notifiable :
          \E v \in Passed(Signature(m, "notifies")) : obj = Message(m, None, v)
    BY <1>2 DEF Built
  <2>2. PICK v \in Passed(Signature(m, "notifies")) : obj = Message(m, None, v)
    BY <2>1
  <2>3. /\ DOMAIN obj = Needed(2) \cup (IF v = None THEN {} ELSE {"params"})
        /\ obj["jsonrpc"] = String("2.0") /\ obj["method"] = String(m)
        /\ v # None => obj["params"] = v
    <3>1. HasMembers(obj, m, None, v)
      BY <2>2, MessageMembers DEF IsObject
    <3> QED
      BY <3>1 DEF HasMembers
  <2>4. /\ HasType(obj, "jsonrpc", {"STRING"}) /\ obj["jsonrpc"].val = "2.0"
        /\ HasType(obj, "method", {"STRING"}) /\ obj["method"].val = m
    BY <2>3 DEF HasType, String, Needed
  <2>5. MemberCountIs(obj, 2)
    <3>1. Needed(2) \subseteq DOMAIN obj /\ DOMAIN obj \ {"params"} = Needed(2)
      BY <2>3 DEF Needed
    <3> QED
      BY <3>1, CountTells DEF IsObject
  <2>6. m \in Callable("notifies") /\ m[1] # ""
    BY DEF Notifiable
  <2>7. NotifyIsSound(obj)
    BY <2>4, <2>5, <2>6, Found DEF NotifyIsSound
  <2>8. ParamsIn(obj) = v
    BY <2>3 DEF ParamsIn, Needed
  <2>9. ParamsFit(obj, Signature(m, "notifies"))
    BY <2>6, <2>8, FitOfObject, Registered DEF IsObject
  <2> QED
    BY <2>4, <2>7, <2>9, NotifyRunsIf
<1> QED
  BY <1>1, <1>2

----------------------------------------------------------------------------
(* The requests of the instance, against any registry.                     *)

LEMMA SmallDomains ==
  /\ IsFiniteSet(1 .. 1) /\ IsFiniteSet(1 .. 2) /\ IsFiniteSet({}) /\ IsFiniteSet({"m"})
  /\ IsFiniteSet({"x", "y"}) /\ IsFiniteSet({"x", "z"})
<1>1. IsFiniteSet({"m"}) /\ IsFiniteSet({"x"})
  BY FS_Singleton
<1>2. IsFiniteSet({"x"} \cup {"y"}) /\ IsFiniteSet({"x"} \cup {"z"})
  BY <1>1, FS_AddElement
<1>3. {"x"} \cup {"y"} = {"x", "y"} /\ {"x"} \cup {"z"} = {"x", "z"}
  OBVIOUS
<1>4. IsFiniteSet(1 .. 1) /\ IsFiniteSet(1 .. 2)
  <2>1. \A n \in Nat : IsFiniteSet(1 .. n)
    BY FS_Interval
  <2> QED
    BY <2>1
<1>5. IsFiniteSet({})
  BY FS_EmptySet
<1> QED
  BY <1>1, <1>2, <1>3, <1>4, <1>5

LEMMA ParamsAreParams == \A v \in Params : IsParams(v)
<1>1. \A type, val : IsFcn(val) /\ IsFiniteSet(DOMAIN val) /\ type # "none" =>
                       IsParams([type |-> type, val |-> val])
  BY DEF IsParams
<1>2. \A v \in {<<>>, <<"DOUBLE", "INT32">>, <<"INT32", "DOUBLE">>, <<"STRING">>} :
        IsFcn(v) /\ IsFiniteSet(DOMAIN v)
  <2>1. IsFcn(<<>>) /\ DOMAIN <<>> = {}
    BY DEF IsFcn
  <2>2. \A a, b : IsFcn(<<a, b>>) /\ DOMAIN <<a, b>> = 1 .. 2
    BY DEF IsFcn
  <2>3. \A a : IsFcn(<<a>>) /\ DOMAIN <<a>> = 1 .. 1
    BY DEF IsFcn
  <2> QED
    BY <2>1, <2>2, <2>3, SmallDomains
<1>3. \A v \in {[x |-> "DOUBLE", y |-> "INT32"], [x |-> "DOUBLE", z |-> "INT32"], [m |-> "STRING"]} :
        IsFcn(v) /\ IsFiniteSet(DOMAIN v)
  <2>1. PICK a : a = [x |-> "DOUBLE", y |-> "INT32"]
    OBVIOUS
  <2>2. PICK b : b = [x |-> "DOUBLE", z |-> "INT32"]
    OBVIOUS
  <2>3. PICK c : c = [m |-> "STRING"]
    OBVIOUS
  <2>4. IsFcn(a) /\ DOMAIN a = {"x", "y"}
    BY <2>1 DEF IsFcn
  <2>5. IsFcn(b) /\ DOMAIN b = {"x", "z"}
    BY <2>2 DEF IsFcn
  <2>6. IsFcn(c) /\ DOMAIN c = {"m"}
    BY <2>3 DEF IsFcn
  <2>7. \A v \in {a, b, c} : IsFcn(v) /\ IsFiniteSet(DOMAIN v)
    BY <2>4, <2>5, <2>6, SmallDomains
  <2> QED
    BY <2>1, <2>2, <2>3, <2>7
<1>4. ASSUME NEW v \in Params PROVE IsParams(v)
  <2>1. PICK type, val : v = [type |-> type, val |-> val] /\ type \in {"ARRAY", "OBJECT", "INT32"}
          /\ val \in {<<>>, <<"DOUBLE", "INT32">>, <<"INT32", "DOUBLE">>, <<"STRING">>}
                   \cup {[x |-> "DOUBLE", y |-> "INT32"], [x |-> "DOUBLE", z |-> "INT32"],
                         [m |-> "STRING"]}
    BY DEF Params, Json
  <2>2. IsFcn(val) /\ IsFiniteSet(DOMAIN val) /\ type # "none"
    BY <1>2, <1>3, <2>1
  <2> QED
    BY <1>1, <2>1, <2>2
<1> QED
  BY <1>4

LEMMA MethodsAreMethods == \A v \in Methods : v.type = "STRING" => IsMethod(v.val)
BY DEF Methods, Json, IsMethod

LEMMA RequestsAreObjects ==
  ASSUME NEW r \in Requests, r.type = "OBJECT"
  PROVE  /\ IsObject(r.members)
         /\ "id" \in DOMAIN r.members => r.members["id"] \in Ids
<1>1. PICK choice \in [jsonrpc : Versions \cup {None}, id : Ids \cup {None},
                       method : Methods \cup {None}, params : Params \cup {None},
                       more : Unexpected \cup {None}] : r.members = Present(choice)
  BY DEF Requests, Objects
<1>2. /\ DOMAIN choice = {"jsonrpc", "id", "method", "params", "more"}
      /\ choice["jsonrpc"] \in Versions \cup {None} /\ choice["id"] \in Ids \cup {None}
      /\ choice["method"] \in Methods \cup {None} /\ choice["params"] \in Params \cup {None}
      /\ choice["more"] \in Unexpected \cup {None}
  OBVIOUS
<1>3. PICK keys : keys = {k \in DOMAIN choice : choice[k] # None}
  OBVIOUS
<1>4. PICK obj : obj = r.members /\ obj = [k \in keys |-> choice[k]]
  BY <1>1, <1>3 DEF Present
<1>5. IsFcn(obj) /\ DOMAIN obj = keys /\ \A k \in keys : obj[k] = choice[k]
  BY <1>4 DEF IsFcn
<1>6. IsFiniteSet(keys)
  <2>1. IsFiniteSet(((({"jsonrpc"} \cup {"id"}) \cup {"method"}) \cup {"params"}) \cup {"more"})
    <3>1. IsFiniteSet({"jsonrpc"})
      BY FS_Singleton
    <3>2. IsFiniteSet({"jsonrpc"} \cup {"id"})
      BY <3>1, FS_AddElement
    <3>3. IsFiniteSet(({"jsonrpc"} \cup {"id"}) \cup {"method"})
      BY <3>2, FS_AddElement
    <3>4. IsFiniteSet((({"jsonrpc"} \cup {"id"}) \cup {"method"}) \cup {"params"})
      BY <3>3, FS_AddElement
    <3> QED
      BY <3>4, FS_AddElement
  <2>2. keys \subseteq ((({"jsonrpc"} \cup {"id"}) \cup {"method"}) \cup {"params"}) \cup {"more"}
    BY <1>2, <1>3
  <2> QED
    BY <2>1, <2>2, FS_Subset
<1>7. \A v \in Versions \cup Ids \cup Methods \cup Params \cup Unexpected :
        v = [type |-> v.type, val |-> v.val] /\ v.type # "none"
  <2>1. \A types, vals : "none" \notin types =>
          \A v \in Json(types, vals) : v = [type |-> v.type, val |-> v.val] /\ v.type # "none"
    BY DEF Json
  <2>2. \A v \in Versions : v = [type |-> v.type, val |-> v.val] /\ v.type # "none"
    BY <2>1 DEF Versions
  <2>3. \A v \in Ids : v = [type |-> v.type, val |-> v.val] /\ v.type # "none"
    BY <2>1 DEF Ids
  <2>4. \A v \in Methods : v = [type |-> v.type, val |-> v.val] /\ v.type # "none"
    BY <2>1 DEF Methods
  <2>5. \A v \in Params : v = [type |-> v.type, val |-> v.val] /\ v.type # "none"
    BY <2>1 DEF Params
  <2>6. \A v \in Unexpected : v = [type |-> v.type, val |-> v.val] /\ v.type # "none"
    BY <2>1 DEF Unexpected
  <2> QED
    BY <2>2, <2>3, <2>4, <2>5, <2>6
<1>8. \A k \in keys : choice[k] \in Versions \cup Ids \cup Methods \cup Params \cup Unexpected
  BY <1>2, <1>3
<1>9. \A k \in DOMAIN obj : obj[k] = [type |-> obj[k].type, val |-> obj[k].val] /\ obj[k].type # "none"
  BY <1>5, <1>7, <1>8
<1>10. /\ "id" \in DOMAIN obj => obj["id"] \in Ids
       /\ "params" \in DOMAIN obj => obj["params"] \in Params
       /\ "method" \in DOMAIN obj => obj["method"] \in Methods
  BY <1>2, <1>3, <1>5
<1> QED
  BY <1>4, <1>5, <1>6, <1>9, <1>10, ParamsAreParams, MethodsAreMethods DEF IsObject

LEMMA BuiltHasId ==
  ASSUME NEW obj, IsFcn(obj), NEW methods, NEW table, NEW ids, obj \in Built(methods, table, ids)
  PROVE  \E i \in ids : /\ i = None <=> "id" \notin DOMAIN obj
                        /\ i # None => obj["id"] = i
                        /\ obj \in Built(methods, table, {i})
<1>1. PICK m \in methods :
        \E i \in ids, v \in Passed(Signature(m, table)) : obj = Message(m, i, v)
  BY DEF Built
<1>2. PICK i \in ids, v \in Passed(Signature(m, table)) : obj = Message(m, i, v)
  BY <1>1
<1>3. HasMembers(obj, m, i, v)
  BY <1>2, MessageMembers
<1>4. (i = None <=> "id" \notin DOMAIN obj) /\ (i # None => obj["id"] = i)
  BY <1>3 DEF HasMembers, Needed
<1>5. obj \in Built(methods, table, {i})
  BY <1>2 DEF Built
<1> QED
  BY <1>4, <1>5

LEMMA AdmittedRuns ==
  ASSUME NEW r \in Requests, r.type = "OBJECT"
  PROVE  Verdict(r).verdict = "run" <=> r.members \in Admitted
<1>1. PICK obj : obj = r.members /\ IsObject(obj) /\ ("id" \in DOMAIN obj => obj["id"] \in Ids)
  BY RequestsAreObjects
<1>2. PICK good : good = {i \in Ids : i.type \in IdTypes}
  OBVIOUS
<1>3. None \notin good
  BY <1>2 DEF None, IdTypes
<1>4. Admitted = Built(Callable("returns"), "returns", good) \cup Built(Notifiable, "notifies", {None})
  BY <1>2 DEF Admitted
<1>5. IsFcn(obj)
  BY <1>1 DEF IsObject
<1>6. CASE "id" \in DOMAIN obj
  <2>1. Verdict(r) = RequestVerdict(obj)
    BY <1>1, <1>6 DEF Verdict, IsNotify
  <2>2. ASSUME obj \in Built(Notifiable, "notifies", {None}) PROVE FALSE
    <3>1. PICK ids : ids = {None}
      OBVIOUS
    <3>2. \E i \in ids : i = None <=> "id" \notin DOMAIN obj
      BY <1>5, <2>2, <3>1, BuiltHasId
    <3> QED
      BY <1>6, <3>1, <3>2
  <2>3. ASSUME obj \in Built(Callable("returns"), "returns", good)
        PROVE  /\ HasType(obj, "id", IdTypes)
               /\ obj \in Built(Callable("returns"), "returns", {obj["id"]})
    <3>1. PICK i \in good : /\ i # None => obj["id"] = i
                            /\ obj \in Built(Callable("returns"), "returns", {i})
      BY <1>5, <2>3, BuiltHasId
    <3> QED
      BY <1>2, <1>3, <1>6, <3>1 DEF HasType
  <2>4. ASSUME Verdict(r).verdict = "run"
        PROVE  obj \in Built(Callable("returns"), "returns", good)
    <3>1. HasType(obj, "id", IdTypes)
      BY <2>1, <2>4 DEF RequestVerdict, Refuse
    <3>2. obj["id"] \in good
      BY <1>1, <1>2, <1>6, <3>1 DEF HasType
    <3>3. obj \in Built(Callable("returns"), "returns", {obj["id"]})
      BY <1>1, <2>1, <2>4, <3>1, RequestsThatRun DEF RunsWith
    <3> QED
      BY <3>2, <3>3 DEF Built
  <2> QED
    BY <1>1, <1>4, <2>1, <2>2, <2>3, <2>4, RequestsThatRun DEF RunsWith
<1>7. CASE "id" \notin DOMAIN obj
  <2>1. Verdict(r) = NotifyVerdict(obj)
    BY <1>1, <1>7 DEF Verdict, IsNotify
  <2>2. ASSUME obj \in Built(Callable("returns"), "returns", good) PROVE FALSE
    <3>1. PICK i \in good : i = None <=> "id" \notin DOMAIN obj
      BY <1>5, <2>2, BuiltHasId
    <3> QED
      BY <1>3, <1>7, <3>1
  <2> QED
    BY <1>1, <1>4, <1>7, <2>1, <2>2, NotificationsThatRun
<1> QED
  BY <1>6, <1>7

(* Whatever services are registered: a procedure runs for exactly the      *)
(* requests that can be built from a registered signature.                 *)
THEOREM RunsWhatIsRegistered == Spec => []RunsExactlyTheAdmitted
<1>1. AnswerIsVerdict => RunsExactlyTheAdmitted
  <2> SUFFICES ASSUME AnswerIsVerdict, answer # <<>>
               PROVE  Got.verdict = "run" <=> req.type = "OBJECT" /\ req.members \in Admitted
    BY DEF RunsExactlyTheAdmitted
  <2>1. Got = Verdict(req) /\ req \in Requests
    BY DEF AnswerIsVerdict, Got
  <2>2. CASE req.type = "OBJECT"
    BY <2>1, <2>2, AdmittedRuns
  <2>3. CASE req.type # "OBJECT"
    BY <2>1, <2>3 DEF Verdict, Refuse
  <2> QED
    BY <2>2, <2>3
<1> QED
  BY <1>1, AnswersAreVerdicts, PTL

----------------------------------------------------------------------------
(* Which part an error names.                                              *)

LEMMA FiniteWith ==
  ASSUME NEW obj, NEW key, NEW v, IsFiniteSet(DOMAIN obj), NEW other, other = With(obj, key, v)
  PROVE  IsFiniteSet(DOMAIN other)
<1>1. IsFiniteSet(DOMAIN obj \ {key}) /\ IsFiniteSet((DOMAIN obj \ {key}) \cup {key})
  BY FS_RemoveElement, FS_AddElement
<1>2. \/ DOMAIN other = DOMAIN obj \ {key}
      \/ DOMAIN other = (DOMAIN obj \ {key}) \cup {key}
  BY DEF With
<1> QED
  BY <1>1, <1>2

(* Other params change nothing of what is checked before them. *)
LEMMA SoundWithParams ==
  ASSUME NEW obj, IsFiniteSet(DOMAIN obj), NEW v, NEW other, other = With(obj, "params", v)
  PROVE  /\ HasType(other, "id", IdTypes) <=> HasType(obj, "id", IdTypes)
         /\ HasType(obj, "id", IdTypes) => (RequestIsSound(other) <=> RequestIsSound(obj))
         /\ "method" \in DOMAIN obj => other["method"] = obj["method"]
         /\ IsFiniteSet(DOMAIN other)
<1>1. /\ DOMAIN other \ {"params"} = DOMAIN obj \ {"params"}
      /\ \A k \in DOMAIN obj \ {"params"} : other[k] = obj[k]
  BY DEF With
<1>2. \A k \in {"id", "jsonrpc", "method"} : /\ k \in DOMAIN other <=> k \in DOMAIN obj
                                             /\ k \in DOMAIN obj => other[k] = obj[k]
  BY <1>1
<1>3. IsFiniteSet(DOMAIN other)
  BY FiniteWith
<1>4. ASSUME Needed(3) \subseteq DOMAIN obj
      PROVE  MemberCountIs(other, 3) <=> MemberCountIs(obj, 3)
  <2>1. Needed(3) \subseteq DOMAIN other
    BY <1>2, <1>4 DEF Needed
  <2> QED
    BY <1>1, <1>3, <1>4, <2>1, CountTells
<1>5. HasType(obj, "id", IdTypes) /\ HasType(obj, "jsonrpc", {"STRING"}) /\ HasType(obj, "method", {"STRING"}) =>
        Needed(3) \subseteq DOMAIN obj
  BY DEF HasType, Needed
<1> QED
  BY <1>2, <1>3, <1>4, <1>5 DEF RequestIsSound, HasType

LEMMA FitWithParams ==
  ASSUME NEW sig, IsSignature(sig), NEW v \in Passed(sig), NEW obj, NEW other,
         other = With(obj, "params", v)
  PROVE  ParamsFit(other, sig)
<1>1. v # None => IsParams(v)
  BY PassedIsParams
<1>2. ("params" \in DOMAIN other <=> v # None) /\ (v # None => other["params"] = v)
  BY DEF With
<1>3. ParamsIn(other) = v
  BY <1>2 DEF ParamsIn
<1> QED
  BY <1>1, <1>2, <1>3, FitOfObject

LEMMA SomethingFits == ASSUME NEW sig PROVE Passed(sig) # {}
BY DEF Passed

LEMMA InvalidParamsMeansParams ==
  ASSUME NEW obj, IsObject(obj), RequestVerdict(obj).verdict = "refuse"
  PROVE  RequestVerdict(obj).err = "INVALID_PARAMS" <=>
           \E params \in OtherParams : RunsWith(With(obj, "params", params))
<1>1. ASSUME RequestVerdict(obj).err = "INVALID_PARAMS"
      PROVE  \E params \in OtherParams : RunsWith(With(obj, "params", params))
  <2>1. HasType(obj, "id", IdTypes)
    BY <1>1 DEF RequestVerdict, Refuse
  <2>2. PICK m : m = obj["method"].val /\ RequestIsSound(obj) /\ "method" \in DOMAIN obj
    BY <1>1, <2>1, RequestRunsIf DEF RequestIsSound, HasType
  <2>3. m \in Callable("returns")
    BY <2>2, Found DEF RequestIsSound, HasType, IsObject
  <2>4. PICK v \in Passed(Signature(m, "returns")) : TRUE
    BY SomethingFits
  <2>5. PICK other : other = With(obj, "params", v)
    OBVIOUS
  <2>6. HasType(other, "id", IdTypes) /\ RequestIsSound(other) /\ other["method"].val = m
    BY <2>1, <2>2, <2>5, SoundWithParams DEF IsObject
  <2>7. ParamsFit(other, Signature(m, "returns"))
    BY <2>3, <2>5, FitWithParams, Registered
  <2>8. RunsWith(other)
    BY <2>6, <2>7, RequestRunsIf
  <2>9. v \in OtherParams
    BY <2>3 DEF OtherParams
  <2> QED
    BY <2>5, <2>8, <2>9
<1>2. ASSUME NEW v \in OtherParams, RunsWith(With(obj, "params", v))
      PROVE  RequestVerdict(obj).err = "INVALID_PARAMS"
  <2>1. PICK other : other = With(obj, "params", v) /\ RunsWith(other)
    BY <1>2
  <2>2. HasType(other, "id", IdTypes)
    BY <2>1 DEF RunsWith, RequestVerdict, Refuse
  <2>3. RequestIsSound(other)
    BY <2>1, <2>2, RequestRunsIf
  <2>4. HasType(obj, "id", IdTypes) /\ RequestIsSound(obj)
    BY <2>1, <2>2, <2>3, SoundWithParams DEF IsObject
  <2>5. ~ RunsWith(obj)
    BY DEF RunsWith
  <2> QED
    BY <2>4, <2>5, RequestRunsIf
<1> QED
  BY <1>1, <1>2

LEMMA NotFoundMeansMethod ==
  ASSUME NEW obj, IsObject(obj), RequestVerdict(obj).err = "METHOD_NOT_FOUND",
         ~ IsInternal(obj["method"].val), NEW m \in Callable("returns")
  PROVE  \E params \in Passed(Signature(m, "returns")) :
           RunsWith(With(With(obj, "params", params), "method", String(m)))
<1>1. /\ HasType(obj, "id", IdTypes) /\ HasType(obj, "jsonrpc", {"STRING"})
      /\ obj["jsonrpc"].val = "2.0" /\ HasType(obj, "method", {"STRING"}) /\ MemberCountIs(obj, 3)
  BY DEF RequestVerdict, Refuse, Run
<1>2. PICK v \in Passed(Signature(m, "returns")) : TRUE
  BY SomethingFits
<1>3. PICK named : named = With(obj, "method", String(m))
  OBVIOUS
<1>4. DOMAIN named = DOMAIN obj /\ named["method"] = String(m)
      /\ \A k \in DOMAIN obj \ {"method"} : named[k] = obj[k]
  BY <1>1, <1>3, StringIsSome DEF HasType, With
<1>5. HasType(named, "id", IdTypes) /\ RequestIsSound(named)
  <2>1. MemberCountIs(named, 3)
    BY <1>1, <1>4 DEF MemberCountIs
  <2>2. String(m).type = "STRING" /\ String(m).val = m
    BY DEF String
  <2>3. HasType(named, "method", {"STRING"}) /\ named["method"].val = m
    BY <1>1, <1>4, <2>2 DEF HasType
  <2> QED
    BY <1>1, <1>4, <2>1, <2>3, Found DEF RequestIsSound, HasType
<1>6. PICK other : other = With(named, "params", v)
  OBVIOUS
<1>7. /\ HasType(other, "id", IdTypes) /\ RequestIsSound(other) /\ other["method"].val = m
  <2>1. IsFiniteSet(DOMAIN named) /\ "method" \in DOMAIN named
    BY <1>1, <1>4 DEF IsObject, HasType
  <2>2. named["method"].val = m
    BY <1>4 DEF String
  <2> QED
    BY <1>5, <1>6, <2>1, <2>2, SoundWithParams
<1>8. ParamsFit(other, Signature(m, "returns"))
  BY <1>6, FitWithParams, Registered
<1>9. With(With(obj, "params", v), "method", String(m)) = other
  <2>1. "method" # "params" /\ String(m) # None
    BY StringIsSome
  <2> QED
    BY <1>3, <1>6, <2>1 DEF With
<1> QED
  BY <1>7, <1>8, <1>9, RequestRunsIf

(* Whatever services are registered: other params mend what is refused as  *)
(* INVALID_PARAMS and nothing else, any registered method mends what is    *)
(* refused as METHOD_NOT_FOUND.                                            *)
THEOREM ErrorsAreTrue == Spec => []ErrorsNameTheWrongPart
<1>1. AnswerIsVerdict => ErrorsNameTheWrongPart
  <2> SUFFICES ASSUME AnswerIsVerdict, answer # <<>>, Got.verdict = "refuse",
                      req.type = "OBJECT", ~ IsNotify(req)
               PROVE  /\ Got.err = "INVALID_PARAMS" <=>
                           \E params \in OtherParams : RunsWith(With(req.members, "params", params))
                      /\ Got.err = "METHOD_NOT_FOUND" /\ ~ IsInternal(req.members["method"].val) =>
                           \A m \in Callable("returns") :
                             \E params \in Passed(Signature(m, "returns")) :
                               RunsWith(With(With(req.members, "params", params), "method", String(m)))
    BY DEF ErrorsNameTheWrongPart
  <2>1. PICK obj : obj = req.members /\ IsObject(obj) /\ Got = RequestVerdict(obj)
    BY RequestsAreObjects DEF AnswerIsVerdict, Got, Verdict
  <2> QED
    BY <2>1, InvalidParamsMeansParams, NotFoundMeansMethod
<1> QED
  BY <1>1, AnswersAreVerdicts, PTL
================================================================================
