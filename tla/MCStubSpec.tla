----------------------------- MODULE MCStubSpec -----------------------------
(***************************************************************************)
(* Specifications of up to two definitions, and ways to start the program. *)
(***************************************************************************)
EXTENDS StubMain

Json(type, val) == [type |-> type, val |-> val]
Str(val)        == Json("STRING", val)
Param(name, type) == [name |-> name, type |-> type]

ParamLists ==
  { <<>>, <<Param("x", "INT32")>>, <<Param("x", "DOUBLE"), Param("y", "INT64")>>,
    <<Param("request", "OBJECT"), Param("x", "STRING")>>,
    <<Param("x", "INT32"), Param("x", "INT32")>>, <<Param("x", "NULL")>> }

Procedure(name, params, return) ==
  Json("OBJECT", [name |-> Str(name), params |-> Json("OBJECT", params),
                  returns |-> Json(return, 0)])
Notification(name, params) ==
  Json("OBJECT", [name |-> Str(name), params |-> Json("OBJECT", params)])
Bare(name) == Json("OBJECT", [name |-> Str(name), returns |-> Json("BOOL", 0)])

MCDefinitions ==
  { Procedure(n, ps, r) : n \in {"f", "g"}, ps \in ParamLists,
                          r \in {"DOUBLE", "OBJECT", "ARRAY", "NULL"} }
  \cup { Notification("f", ps) : ps \in ParamLists }
  \cup { Procedure("", <<Param("x", "INT32")>>, "DOUBLE") }
  \cup { Bare("g"), Json("STRING", 0), Json("OBJECT", [params |-> Json("OBJECT", <<>>)]) }

Proto(defs) == Json("OBJECT", [name |-> Str("S"), rpc |-> Json("ARRAY", defs)])

MCProtos ==
  { Proto(<<d, e>>) : d \in MCDefinitions, e \in MCDefinitions }
  \cup { Proto(<<>>), Json("ARRAY", <<>>), Json("OBJECT", [name |-> Str("S")]) }

(* The usual invocation for all of them, and every one for a few.          *)
Invocation(p, sides, input, toFile, locked) ==
  [proto |-> p, sides |-> sides, input |-> input, toFile |-> toFile, locked |-> locked]

AFew == { Proto(<<Procedure("f", <<Param("x", "INT32")>>, "DOUBLE")>>), Proto(<<Str(0)>>) }

MCInvocations ==
  { Invocation(p, {}, "file", TRUE, {}) : p \in MCProtos \cup AFew }
  \cup { Invocation(p, sides, input, toFile, locked) :
           p \in AFew, sides \in SUBSET Sides, input \in Inputs, toFile \in BOOLEAN,
           locked \in SUBSET Sides }

AllProtos == MCProtos \cup AFew

(* What a specification for a service without parameters looks like. *)
MCProtosBare ==
  { Proto(<<d, e>>) : d, e \in {Bare("f"), Bare("g"), Notification("f", <<>>)} }

MCInvocationsBare == { Invocation(p, {}, "file", TRUE, {}) : p \in MCProtosBare }
============================================================================
