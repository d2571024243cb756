------------------------------ MODULE StubProofs ------------------------------
(***************************************************************************)
(* The stub generator, for any specifications and any ways to start it:    *)
(* what it leaves behind when it fails, and that the two stubs and the     *)
(* dispatcher agree on the calls.                                          *)
(***************************************************************************)
EXTENDS StubMain, FunctionTheorems, FiniteSetTheorems, SequenceTheorems, TLAPS

----------------------------------------------------------------------------
(* The invariant of the parser: every definition behind it was taken, and  *)
(* it fails on a specification only that is not good.                      *)
IsTaken(d) ==
  IsReadable(d) /\ (HasReturns(d) => ReturnType(d) \notin {"NULL", "ARRAY", "OBJECT"})

IsGood == IsProto(proto) /\ \A i \in DOMAIN Definitions : IsTaken(Definitions[i])

ParamSeqs == Seq([name : STRING, type : JsonTypes])
ValidSeqs == {params \in ParamSeqs : ParamsAreValid(params)}
Procs     == [name : STRING, params : ValidSeqs]

ParseOK ==
  /\ invocation \in Invocations /\ proto = invocation.proto
  /\ status \in {"new", "parsing", "failed", "recursing", "done"}
  /\ at \in Nat /\ at > 0
  /\ status \in {"parsing", "recursing", "done"} => IsProto(proto)
  /\ \A i \in 1 .. at - 1 : i \in DOMAIN Definitions /\ IsTaken(Definitions[i])
  /\ status = "done" => at > Len(Definitions)
  /\ status = "failed" => ~ IsGood
  /\ returns \in Seq(Procs) /\ notifies \in Seq(Procs)

(* Of the client's side, when the service stub was written: the same input *)
(* was parsed before.                                                      *)
StageOK ==
  /\ stage \in {"start", "exit0", "exit1"} \cup Sides
  /\ stage \in {"start", "service"} => written = {}
  /\ stage \in Sides => stage \in Asked
  /\ stage = "client" => /\ written = Asked \ {"client"}
                         /\ "service" \in Asked => IsGood /\ invocation.input # "garbage"
  /\ status # "new" => stage # "start" /\ (stage \in Sides => invocation.input # "garbage")
  /\ AllOrNothing

(* What was sent is a call of one of the procedures. *)
IsCall(s) ==
  \E i \in DOMAIN returns, form \in {"OBJECT", "ARRAY"} :
    /\ s.proc = returns[i] /\ s.types \in [DOMAIN returns[i].params -> JsonTypes]
    /\ s.values = Placed(returns[i], form, [k \in DOMAIN s.types |-> k])
    /\ s.request = CallRequest(returns[i], form, s.types)

SentOK ==
  /\ sent # {} => stage = "exit0" /\ StubsCompile
  /\ \A s \in sent : "id" \in DOMAIN s.request.members => IsCall(s)

Inv == ParseOK /\ StageOK /\ SentOK

----------------------------------------------------------------------------
(* The parser's steps.                                                     *)
LEMMA ProtoFacts ==
  ASSUME ParseOK, IsProto(proto)
  PROVE  \E n \in Nat : /\ n = Len(Definitions) /\ DOMAIN Definitions = 1 .. n
                        /\ \A i \in 1 .. n : IsDefinition(Definitions[i])
<1>1. proto \in Protos
  BY StubMainAssumption DEF ParseOK
<1>2. PICK all : all = {Definitions[i] : i \in DOMAIN Definitions}
  OBVIOUS
<1>3. Definitions \in Seq(all) /\ \A d \in all : IsDefinition(d)
  BY <1>1, <1>2, ProtosAssumption DEF Definitions
<1> QED
  BY <1>2, <1>3

LEMMA DoneIsGood == ASSUME ParseOK, status = "done" PROVE IsGood
<1>1. IsProto(proto)
  BY DEF ParseOK
<1> QED
  BY <1>1, ProtoFacts DEF ParseOK, IsGood

LEMMA TakenIsAProc ==
  ASSUME NEW d, IsDefinition(d), IsReadable(d)
  PROVE  Parsed(d) \in Procs
<1>1. /\ IsNamed(d) /\ ParamsAreValid(ParamsOf(d)) /\ d.val["name"].val \in STRING
      /\ "params" \in DOMAIN d.val => d.val["params"].val \in ParamSeqs
  BY DEF IsDefinition, IsReadable, ParamSeqs
<1>2. ParamsOf(d) \in ParamSeqs
  BY <1>1, EmptySeq DEF ParamsOf, ParamSeqs
<1> QED
  BY <1>1, <1>2 DEF Parsed, Procs, ValidSeqs

LEMMA ParseStep ==
  ASSUME ParseOK, UNCHANGED <<invocation, stage, written>>,
         ParseProto \/ RejectRpc \/ RecurseForEver \/ AddReturn \/ AddNotify \/ ParseEnds
  PROVE  ParseOK' /\ UNCHANGED <<proto, sent>> /\ IsGood' = IsGood
<1>1. /\ UNCHANGED <<proto, sent, invocation>> /\ Definitions' = Definitions
      /\ IsProto(proto)' = IsProto(proto)
  BY DEF ParseProto, RejectRpc, RecurseForEver, AddReturn, AddNotify, ParseEnds, Definitions
<1>2. IsGood' = IsGood
  BY <1>1 DEF IsGood
<1>3. CASE ParseProto
  BY <1>1, <1>2, <1>3 DEF ParseProto, ParseOK, IsGood
<1>4. CASE ParseEnds
  BY <1>1, <1>2, <1>4 DEF ParseEnds, ParseOK
<1>5. CASE RecurseForEver
  BY <1>1, <1>2, <1>5 DEF RecurseForEver, AtDefinition, ParseOK
<1>6. ASSUME AtDefinition
      PROVE  /\ IsProto(proto) /\ at \in DOMAIN Definitions /\ IsDefinition(Definition)
             /\ Definition = Definitions[at] /\ status = "parsing"
  BY <1>6, ProtoFacts DEF AtDefinition, ParseOK, Definition
<1>7. CASE RejectRpc
  <2>1. ~ IsTaken(Definition)
    BY <1>7 DEF RejectRpc, IsTaken
  <2>2. ~ IsGood
    BY <1>6, <1>7, <2>1 DEF RejectRpc, IsGood
  <2> QED
    BY <1>1, <1>2, <1>7, <2>2 DEF RejectRpc, ParseOK
<1>8. CASE AddReturn \/ AddNotify
  <2>1. /\ AtDefinition /\ IsReadable(Definition) /\ IsTaken(Definition)
        /\ at' = at + 1 /\ status' = status
        /\ returns' = returns \/ returns' = Append(returns, Parsed(Definition))
        /\ notifies' = notifies \/ notifies' = Append(notifies, Parsed(Definition))
    BY <1>8 DEF AddReturn, AddNotify, IsTaken
  <2>2. returns' \in Seq(Procs) /\ notifies' \in Seq(Procs)
    <3>1. PICK proc \in Procs : proc = Parsed(Definition)
      BY <1>6, <2>1, TakenIsAProc
    <3>2. returns \in Seq(Procs) /\ notifies \in Seq(Procs)
      BY DEF ParseOK
    <3>3. Append(returns, proc) \in Seq(Procs) /\ Append(notifies, proc) \in Seq(Procs)
      BY <3>2, AppendProperties
    <3> QED
      BY <2>1, <3>1, <3>2, <3>3
  <2>3. \A i \in 1 .. at' - 1 : i \in 1 .. at - 1 \/ i = at
    BY <2>1 DEF ParseOK
  <2>4. \A i \in 1 .. at' - 1 : i \in DOMAIN Definitions /\ IsTaken(Definitions[i])
    BY <1>6, <2>1, <2>3 DEF ParseOK
  <2> QED
    BY <1>1, <1>2, <1>6, <2>1, <2>2, <2>4 DEF ParseOK
<1> QED
  BY <1>1, <1>2, <1>3, <1>4, <1>5, <1>7, <1>8

----------------------------------------------------------------------------
LEMMA AskedSides ==
  ASSUME ParseOK
  PROVE  Asked \in SUBSET Sides /\ Asked # {}
BY StubMainAssumption DEF ParseOK, Asked, Sides

LEMMA SameAsked == UNCHANGED invocation => Asked' = Asked
BY DEF Asked

LEMMA InitInv == MainInit => Inv
<1> SUFFICES ASSUME MainInit PROVE Inv
  OBVIOUS
<1>1. /\ invocation \in Invocations /\ stage = "start" /\ written = {}
      /\ proto = invocation.proto /\ status = "new" /\ at = 1 /\ returns = <<>>
      /\ notifies = <<>> /\ sent = {}
  BY DEF MainInit, Init
<1>2. ParseOK
  BY <1>1, EmptySeq DEF ParseOK
<1>3. StageOK
  BY <1>1 DEF StageOK, AllOrNothing, Sides
<1> QED
  BY <1>1, <1>2, <1>3 DEF Inv, SentOK

(* Steps that leave the parser alone. *)
LEMMA SameParser ==
  ASSUME ParseOK, UNCHANGED <<vars, invocation>>
  PROVE  ParseOK' /\ IsGood' = IsGood
<1>1. Definitions' = Definitions /\ UNCHANGED <<proto, status, at, returns, notifies, invocation>>
  BY DEF vars, Definitions
<1>2. IsGood' = IsGood
  BY <1>1 DEF IsGood
<1> QED
  BY <1>1, <1>2 DEF ParseOK

LEMMA NothingSent ==
  ASSUME sent' = {}
  PROVE  SentOK'
BY DEF SentOK

LEMMA SentBeforeExit ==
  ASSUME SentOK, stage # "exit0", sent' = sent
  PROVE  SentOK'
BY NothingSent DEF SentOK

LEMMA StartInv == ASSUME Inv, Start PROVE Inv'
<1>1. /\ ParseOK' /\ Asked' = Asked /\ sent' = sent /\ written' = {} /\ stage = "start"
      /\ status = "new" /\ status' = status
  BY SameParser, SameAsked DEF Inv, StageOK, Start, vars
<1>2. \/ stage' = "exit1"
      \/ stage' = "service" /\ "service" \in Asked
      \/ stage' = "client" /\ "service" \notin Asked
  BY DEF Start
<1>3. StageOK'
  <2>1. Asked \in SUBSET Sides /\ Asked # {} /\ Sides = {"service", "client"}
    BY AskedSides DEF Inv, Sides
  <2>2. "service" \notin Asked => "client" \in Asked /\ Asked \ {"client"} = {}
    BY <2>1
  <2> QED
    BY <1>1, <1>2, <2>1, <2>2 DEF StageOK, AllOrNothing
<1> QED
  BY <1>1, <1>3, SentBeforeExit DEF Inv

(* What ends the program on the client's side, after the service stub. *)
LEMMA FailInv ==
  ASSUME Inv, UNCHANGED <<vars, invocation, written>>, stage \in Sides, stage' = "exit1",
         stage = "client" /\ "service" \in Asked =>
           \/ invocation.input = "pipe"
           \/ invocation.toFile /\ "client" \in invocation.locked
  PROVE  Inv'
<1>1. ParseOK' /\ Asked' = Asked /\ sent' = sent /\ written' = written /\ invocation' = invocation
  BY SameParser, SameAsked DEF Inv, vars
<1>2. Asked \in SUBSET Sides /\ Sides = {"service", "client"}
  BY AskedSides DEF Inv, Sides
<1>3. ASSUME written # {}
      PROVE  \/ Asked = Sides /\ invocation.input = "pipe"
             \/ invocation.toFile /\ "client" \in invocation.locked
  <2>1. stage = "client" /\ stage \in Asked /\ written = Asked \ {"client"}
    BY <1>2, <1>3 DEF Inv, StageOK
  <2>2. "service" \in Asked
    BY <1>2, <1>3, <2>1
  <2> QED
    BY <1>2, <2>1, <2>2
<1>4. StageOK'
  BY <1>1, <1>2, <1>3 DEF StageOK, AllOrNothing
<1>5. stage # "exit0"
  BY <1>2
<1> QED
  BY <1>1, <1>4, <1>5, SentBeforeExit DEF Inv

LEMMA ReadFailsInv == ASSUME Inv, ReadFails PROVE Inv'
<1>1. stage = "client" /\ "service" \in Asked => invocation.input = "pipe"
  BY DEF Inv, StageOK, ReadFails, IsReadableInput, Exhausted
<1> QED
  BY <1>1, FailInv DEF ReadFails

LEMMA ParseFailsInv == ASSUME Inv, ParseFails PROVE Inv'
<1>1. stage = "client" => "service" \notin Asked
  BY DEF Inv, ParseOK, StageOK, ParseFails
<1> QED
  BY <1>1, FailInv DEF ParseFails

LEMMA WriteFailsInv == ASSUME Inv, WriteFails PROVE Inv'
<1>1. stage = "client" => invocation.toFile /\ "client" \in invocation.locked
  BY DEF WriteFails, CanWrite
<1> QED
  BY <1>1, FailInv DEF WriteFails

LEMMA ParseInv == ASSUME Inv, Parse PROVE Inv'
<1>1. /\ ParseOK' /\ UNCHANGED <<proto, sent, invocation, stage, written>> /\ IsGood' = IsGood
      /\ stage \in Sides /\ invocation.input # "garbage"
  BY ParseStep DEF Inv, Parse, mainVars, IsReadableInput
<1>2. Asked' = Asked
  BY <1>1, SameAsked
<1>3. StageOK'
  BY <1>1, <1>2 DEF Inv, StageOK, AllOrNothing, Sides
<1>4. stage # "exit0"
  BY <1>1 DEF Sides
<1> QED
  BY <1>1, <1>3, <1>4, SentBeforeExit DEF Inv

LEMMA WriteInv == ASSUME Inv, Write PROVE Inv'
<1>1. /\ stage \in Sides /\ status = "done" /\ written' = written \cup {stage}
      /\ invocation' = invocation /\ Asked' = Asked
  BY SameAsked DEF Write
<1>2. Asked \in SUBSET Sides /\ Sides = {"service", "client"} /\ stage \in Asked /\ stage # "exit0"
  BY <1>1, AskedSides DEF Inv, StageOK, Sides
<1>3. CASE stage = "service" /\ "client" \in Asked
  <2>1. /\ stage' = "client" /\ status' = "new" /\ at' = 1 /\ returns' = <<>> /\ notifies' = <<>>
        /\ UNCHANGED <<proto, sent>>
    BY <1>3 DEF Write
  <2>2. Definitions' = Definitions /\ IsGood'
    BY <1>1, <2>1, DoneIsGood DEF Inv, IsGood, Definitions
  <2>3. ParseOK'
    BY <1>1, <2>1, EmptySeq DEF Inv, ParseOK
  <2>4. written' = Asked \ {"client"}
    BY <1>1, <1>2, <1>3 DEF Inv, StageOK
  <2>5. invocation'.input # "garbage"
    BY <1>1, <1>3 DEF Inv, StageOK, Write
  <2>6. StageOK'
    <3>1. AllOrNothing'
      BY <2>1 DEF AllOrNothing
    <3>2. stage' \in Sides /\ stage' \in Asked'
      BY <1>1, <1>2, <1>3, <2>1
    <3> QED
      BY <1>1, <1>2, <2>1, <2>2, <2>4, <2>5, <3>1, <3>2 DEF StageOK
  <2> QED
    BY <1>2, <2>1, <2>3, <2>6, SentBeforeExit DEF Inv
<1>4. CASE ~ (stage = "service" /\ "client" \in Asked)
  <2>1. stage' = "exit0" /\ UNCHANGED vars /\ sent' = sent
    BY <1>4 DEF Write, vars
  <2>2. ParseOK'
    BY <1>1, <2>1, SameParser DEF Inv
  <2>3. written' = Asked
    BY <1>1, <1>2, <1>4 DEF Inv, StageOK
  <2>4. StageOK'
    BY <1>1, <2>1, <2>3 DEF StageOK, AllOrNothing, Sides
  <2> QED
    BY <1>2, <2>1, <2>2, <2>4, SentBeforeExit DEF Inv
<1> QED
  BY <1>3, <1>4

LEMMA SameCalls ==
  ASSUME UNCHANGED <<proto, returns>>
  PROVE  \A s : IsCall(s) => IsCall(s)'
<1>1. \A p, form, types : CallRequest(p, form, types)' = CallRequest(p, form, types)
  BY DEF CallRequest, Name
<1> QED
  BY <1>1 DEF IsCall

LEMMA UseInv == ASSUME Inv, UseStubs PROVE Inv'
<1>1. /\ UNCHANGED <<proto, status, at, returns, notifies, invocation, stage, written>>
      /\ stage = "exit0" /\ StubsCompile
  BY DEF UseStubs, mainVars, CallStub, CallByPosition, CallAs, NotifyStub, MayCall
<1>2. Definitions' = Definitions /\ IsGood' = IsGood /\ Asked' = Asked
  BY <1>1, SameAsked DEF Definitions, IsGood
<1>3. ParseOK' /\ StageOK'
  BY <1>1, <1>2 DEF Inv, ParseOK, StageOK, AllOrNothing
<1>4. StubsCompile'
  BY <1>1 DEF StubsCompile, NamesAreUnique
<1>5. \A s : IsCall(s) => IsCall(s)'
  BY <1>1, SameCalls
<1>6. ASSUME NEW s \in sent', "id" \in DOMAIN s.request.members PROVE IsCall(s)
  <2>1. CASE NotifyStub
    <3>1. s.request = NotifyRequest
      BY <2>1 DEF NotifyStub
    <3> QED
      BY <1>6, <3>1 DEF NotifyRequest
  <2>2. ASSUME NEW form \in {"OBJECT", "ARRAY"}, NEW allowed, CallAs(form, allowed) PROVE IsCall(s)
    <3>1. PICK i \in DOMAIN returns : \E types \in [DOMAIN returns[i].params -> JsonTypes] :
            sent' = {[proc |-> returns[i], types |-> types,
                      values  |-> Placed(returns[i], form, [k \in DOMAIN types |-> k]),
                      request |-> CallRequest(returns[i], form, types)]}
      BY <2>2 DEF CallAs
    <3> QED
      BY <3>1 DEF IsCall
  <2> QED
    BY <2>1, <2>2 DEF UseStubs, CallStub, CallByPosition
<1>7. SentOK'
  BY <1>1, <1>4, <1>5, <1>6 DEF SentOK
<1> QED
  BY <1>3, <1>7 DEF Inv

LEMMA NextInv == Inv /\ [MainNext]_allVars => Inv'
<1> SUFFICES ASSUME Inv, [MainNext]_allVars PROVE Inv'
  OBVIOUS
<1>1. CASE UNCHANGED allVars
  <2>1. UNCHANGED <<vars, invocation>> /\ UNCHANGED <<returns, notifies, proto, status, sent, stage, written>>
    BY <1>1 DEF allVars, mainVars, vars
  <2>2. ParseOK' /\ IsGood' = IsGood /\ Asked' = Asked
    BY <2>1, SameParser, SameAsked DEF Inv
  <2>3. StageOK'
    BY <2>1, <2>2 DEF Inv, StageOK, AllOrNothing
  <2>4. SentOK'
    <3>1. \A s : IsCall(s) => IsCall(s)'
      BY <2>1, SameCalls
    <3>2. StubsCompile => StubsCompile'
      BY <2>1 DEF StubsCompile, NamesAreUnique
    <3> QED
      BY <2>1, <3>1, <3>2 DEF Inv, SentOK
  <2> QED
    BY <2>2, <2>3, <2>4 DEF Inv
<1> QED
  BY <1>1, StartInv, ReadFailsInv, ParseInv, ParseFailsInv, WriteFailsInv, WriteInv, UseInv
     DEF MainNext

LEMMA InvHolds == MainSpec => []Inv
BY InitInv, NextInv, PTL DEF MainSpec

(* However the program is started and whatever the input holds: it ends    *)
(* with success exactly when it wrote what was asked for, and a failure    *)
(* after the service stub was written is the client side's own.            *)
THEOREM GeneratorIsAllOrNothing == MainSpec => []AllOrNothing
<1>1. Inv => AllOrNothing
  BY DEF Inv, StageOK
<1> QED
  BY <1>1, InvHolds, PTL

----------------------------------------------------------------------------
(* The reference for the parser.                                           *)
LEMMA NamesDifferByCount ==
  ASSUME NEW params \in ParamSeqs
  PROVE  Cardinality({params[i].name : i \in DOMAIN params}) = Len(params) <=>
           \A i, j \in DOMAIN params : params[i].name = params[j].name => i = j
<1>1. PICK n \in Nat : n = Len(params) /\ DOMAIN params = 1 .. n
  BY DEF ParamSeqs
<1>2. PICK names : names = {params[i].name : i \in 1 .. n}
  OBVIOUS
<1>3. PICK f : f = [i \in 1 .. n |-> params[i].name]
  OBVIOUS
<1>4. f \in [1 .. n -> names] /\ \A name \in names : \E i \in 1 .. n : f[i] = name
  BY <1>2, <1>3
<1>5. f \in Surjection(1 .. n, names)
  BY <1>4, Fun_IsSurj
<1>6. IsFiniteSet(1 .. n) /\ Cardinality(1 .. n) = n
  BY FS_Interval
<1>7. Cardinality(names) = n <=> f \in Injection(1 .. n, names)
  BY <1>5, <1>6, FS_Surjection
<1>8. f \in Injection(1 .. n, names) <=> \A i, j \in 1 .. n : f[i] = f[j] => i = j
  <2>1. DOMAIN f = 1 .. n
    BY <1>3
  <2> QED
    BY <1>4, <2>1 DEF Injection, IsInjective
<1>9. (\A i, j \in 1 .. n : f[i] = f[j] => i = j) <=>
      (\A i, j \in 1 .. n : params[i].name = params[j].name => i = j)
  BY <1>3
<1> QED
  BY <1>1, <1>2, <1>7, <1>8, <1>9

(* The parser takes what is well formed.                                   *)
LEMMA TakenIsWellFormed ==
  ASSUME NEW d, IsDefinition(d)
  PROVE  WellFormed(d) <=> IsTaken(d)
<1>1. CASE ~ IsNamed(d)
  BY <1>1 DEF IsNamed, Has, WellFormed, IsTaken, IsReadable
<1>2. CASE IsNamed(d)
  <2>1. /\ d.type = "OBJECT" /\ "name" \in DOMAIN d.val /\ d.val["name"].type = "STRING"
        /\ "params" \in DOMAIN d.val => d.val["params"].val \in ParamSeqs
        /\ "returns" \in DOMAIN d.val => d.val["returns"].type \in JsonTypes
    BY <1>2 DEF IsNamed, Has, IsDefinition, ParamSeqs
  <2>2. (HasReturns(d) => ReturnType(d) \notin {"NULL", "ARRAY", "OBJECT"}) <=>
        ("returns" \in DOMAIN d.val =>
           d.val["returns"].type \in {"BOOL", "INT32", "INT64", "DOUBLE", "STRING"})
    BY <2>1 DEF HasReturns, ReturnType, JsonTypes
  <2>3. CASE "params" \notin DOMAIN d.val
    <3>1. ParamsAreValid(ParamsOf(d))
      BY <2>3 DEF ParamsAreValid, ParamsOf
    <3> QED
      BY <1>2, <2>1, <2>2, <2>3, <3>1 DEF WellFormed, IsTaken, IsReadable
  <2>4. CASE "params" \in DOMAIN d.val
    <3>1. PICK params \in ParamSeqs : params = d.val["params"].val /\ ParamsOf(d) = params
      BY <2>1, <2>4 DEF ParamsOf
    <3>2. ParamsAreValid(params) <=>
            /\ Cardinality({params[i].name : i \in DOMAIN params}) = Len(params)
            /\ "NULL" \notin {params[i].type : i \in DOMAIN params}
      BY NamesDifferByCount DEF ParamsAreValid
    <3> QED
      BY <1>2, <2>1, <2>2, <2>4, <3>1, <3>2 DEF WellFormed, IsTaken, IsReadable
  <2> QED
    BY <2>3, <2>4
<1> QED
  BY <1>1, <1>2

(* A list grows at its end, by the definition behind all it holds.         *)
LEMMA ListGrows ==
  ASSUME NEW list \in Seq(Procs), NEW defs, NEW n \in Nat, NEW places \in SUBSET (1 .. n - 1), n > 0,
         Lists(list, defs, places)
  PROVE  Lists(Append(list, Parsed(defs[n])), defs, places \cup {n})
<1>1. PICK place \in [DOMAIN list -> places] :
        /\ \A i \in places : \E k \in DOMAIN list : place[k] = i
        /\ \A j, k \in DOMAIN list : j < k => place[j] < place[k]
        /\ \A k \in DOMAIN list :
             /\ list[k].name   = defs[place[k]].val["name"].val
             /\ list[k].params = ParamsOf(defs[place[k]])
  BY DEF Lists
<1>2. PICK m \in Nat : m = Len(list) /\ DOMAIN list = 1 .. m
  OBVIOUS
<1>3. PICK longer : longer = Append(list, Parsed(defs[n]))
  OBVIOUS
<1>4. /\ DOMAIN longer = 1 .. m + 1 /\ longer[m + 1] = Parsed(defs[n])
      /\ \A k \in 1 .. m : longer[k] = list[k]
  BY <1>2, <1>3
<1>5. PICK at1 : at1 = [k \in 1 .. m + 1 |-> IF k = m + 1 THEN n ELSE place[k]]
  OBVIOUS
<1>6. /\ at1 \in [DOMAIN longer -> places \cup {n}] /\ at1[m + 1] = n
      /\ \A k \in 1 .. m : at1[k] = place[k] /\ at1[k] \in places
      /\ \A k \in 1 .. m + 1 : k \in 1 .. m \/ k = m + 1
  BY <1>1, <1>2, <1>4, <1>5
<1>7. \A i \in places \cup {n} : \E k \in DOMAIN longer : at1[k] = i
  BY <1>1, <1>2, <1>4, <1>6
<1>8. \A j, k \in DOMAIN longer : j < k => at1[j] < at1[k]
  <2>1. ASSUME NEW j \in 1 .. m + 1, NEW k \in 1 .. m + 1, j < k PROVE at1[j] < at1[k]
    <3>1. j \in 1 .. m
      BY <2>1
    <3>2. at1[j] = place[j] /\ at1[j] \in 1 .. n - 1
      BY <1>6, <3>1
    <3>3. CASE k \in 1 .. m
      BY <1>1, <1>2, <1>6, <2>1, <3>1, <3>2, <3>3
    <3>4. CASE k = m + 1
      BY <1>6, <3>2, <3>4
    <3> QED
      BY <1>6, <3>3, <3>4
  <2> QED
    BY <1>4, <2>1
<1>9. ASSUME NEW k \in DOMAIN longer
      PROVE  /\ longer[k].name   = defs[at1[k]].val["name"].val
             /\ longer[k].params = ParamsOf(defs[at1[k]])
  <2>1. CASE k \in 1 .. m
    BY <1>1, <1>2, <1>4, <1>6, <2>1
  <2>2. CASE k = m + 1
    BY <1>4, <1>6, <2>2 DEF Parsed
  <2> QED
    BY <1>4, <1>6, <2>1, <2>2
<1> QED
  BY <1>3, <1>6, <1>7, <1>8, <1>9 DEF Lists

LEMMA NothingListed == \A defs : Lists(<<>>, defs, {})
<1>1. PICK none : none = [k \in {} |-> k]
  OBVIOUS
<1>2. DOMAIN <<>> = {} /\ none \in [{} -> {}]
  BY <1>1
<1> QED
  BY <1>2 DEF Lists

(* The definitions behind the parser are in their lists, and it stops at   *)
(* the one that it does not take.                                          *)
ReturningBehind == {i \in 1 .. at - 1 : HasReturns(Definitions[i])}
NotifyingBehind == (1 .. at - 1) \ ReturningBehind

PlaceOK ==
  /\ Lists(returns, Definitions, ReturningBehind)
  /\ Lists(notifies, Definitions, NotifyingBehind)
  /\ status = "failed" /\ IsProto(proto) => at \in DOMAIN Definitions /\ ~ IsTaken(Definition)
  /\ status = "recursing" => HasReturns(Definition) /\ ReturnType(Definition) = "OBJECT"

LEMMA PlaceStep ==
  ASSUME ParseOK, PlaceOK,
         ParseProto \/ RejectRpc \/ RecurseForEver \/ AddReturn \/ AddNotify \/ ParseEnds
  PROVE  PlaceOK'
<1>1. Definitions' = Definitions /\ IsProto(proto)' = IsProto(proto)
  BY DEF ParseProto, RejectRpc, RecurseForEver, AddReturn, AddNotify, ParseEnds, Definitions
<1>2. ASSUME AtDefinition
      PROVE  IsProto(proto) /\ at \in DOMAIN Definitions /\ status = "parsing"
  BY <1>2, ProtoFacts DEF AtDefinition, ParseOK
<1>3. ASSUME UNCHANGED <<at, returns, notifies>>
      PROVE  /\ Definition' = Definition
             /\ Lists(returns, Definitions, ReturningBehind)'
             /\ Lists(notifies, Definitions, NotifyingBehind)'
  BY <1>1, <1>3 DEF PlaceOK, ReturningBehind, NotifyingBehind, Definition
<1>4. CASE ParseProto
  BY <1>1, <1>3, <1>4 DEF ParseProto, PlaceOK
<1>5. CASE ParseEnds
  BY <1>1, <1>3, <1>5 DEF ParseEnds, PlaceOK
<1>6. CASE RecurseForEver
  BY <1>1, <1>3, <1>6 DEF RecurseForEver, PlaceOK
<1>7. CASE RejectRpc
  BY <1>1, <1>2, <1>3, <1>7 DEF RejectRpc, IsTaken, PlaceOK
<1>8. at \in Nat /\ at > 0 /\ returns \in Seq(Procs) /\ notifies \in Seq(Procs)
  BY DEF ParseOK
<1>9. /\ ReturningBehind \in SUBSET (1 .. at - 1) /\ NotifyingBehind \in SUBSET (1 .. at - 1)
      /\ Lists(returns, Definitions, ReturningBehind)
      /\ Lists(notifies, Definitions, NotifyingBehind)
  BY DEF ReturningBehind, NotifyingBehind, PlaceOK
<1>10. CASE AddReturn
  <2>1. /\ at' = at + 1 /\ returns' = Append(returns, Parsed(Definitions[at])) /\ notifies' = notifies
        /\ HasReturns(Definitions[at]) /\ status' = "parsing"
    BY <1>2, <1>10 DEF AddReturn, Definition
  <2>2. ReturningBehind' = ReturningBehind \cup {at} /\ NotifyingBehind' = NotifyingBehind
    BY <1>1, <1>8, <2>1 DEF ReturningBehind, NotifyingBehind
  <2>3. Lists(Append(returns, Parsed(Definitions[at])), Definitions, ReturningBehind \cup {at})
    BY <1>8, <1>9, ListGrows
  <2> QED
    BY <1>1, <1>9, <2>1, <2>2, <2>3 DEF PlaceOK
<1>11. CASE AddNotify
  <2>1. /\ at' = at + 1 /\ notifies' = Append(notifies, Parsed(Definitions[at])) /\ returns' = returns
        /\ ~ HasReturns(Definitions[at]) /\ status' = "parsing"
    BY <1>2, <1>11 DEF AddNotify, Definition
  <2>2. ReturningBehind' = ReturningBehind /\ NotifyingBehind' = NotifyingBehind \cup {at}
    BY <1>1, <1>8, <2>1 DEF ReturningBehind, NotifyingBehind
  <2>3. Lists(Append(notifies, Parsed(Definitions[at])), Definitions, NotifyingBehind \cup {at})
    BY <1>8, <1>9, ListGrows
  <2> QED
    BY <1>1, <1>9, <2>1, <2>2, <2>3 DEF PlaceOK
<1> QED
  BY <1>4, <1>5, <1>6, <1>7, <1>10, <1>11

LEMMA FreshPlaces ==
  ASSUME at' = 1, returns' = <<>>, notifies' = <<>>, status' = "new"
  PROVE  PlaceOK'
<1>1. ReturningBehind' = {} /\ NotifyingBehind' = {}
  BY DEF ReturningBehind, NotifyingBehind
<1>2. Lists(returns', Definitions', ReturningBehind') /\ Lists(notifies', Definitions', NotifyingBehind')
  BY <1>1, NothingListed
<1> QED
  BY <1>2 DEF PlaceOK

LEMMA PlaceInv == Inv /\ PlaceOK /\ [MainNext]_allVars => PlaceOK'
<1> SUFFICES ASSUME Inv, PlaceOK, [MainNext]_allVars PROVE PlaceOK'
  OBVIOUS
<1>1. \/ UNCHANGED <<proto, status, at, returns, notifies>>
      \/ ParseProto \/ RejectRpc \/ RecurseForEver \/ AddReturn \/ AddNotify \/ ParseEnds
      \/ at' = 1 /\ returns' = <<>> /\ notifies' = <<>> /\ status' = "new"
  BY DEF MainNext, Start, ReadFails, Parse, ParseFails, WriteFails, Write, UseStubs, CallStub,
         CallByPosition, CallAs, NotifyStub, allVars, vars
<1>2. CASE UNCHANGED <<proto, status, at, returns, notifies>>
  <2>1. Definitions' = Definitions /\ Definition' = Definition
    BY <1>2 DEF Definition, Definitions
  <2> QED
    BY <1>2, <2>1 DEF PlaceOK, ReturningBehind, NotifyingBehind
<1> QED
  BY <1>1, <1>2, PlaceStep, FreshPlaces DEF Inv

LEMMA PlaceOKHolds == MainSpec => [](Inv /\ PlaceOK)
<1>1. MainInit => PlaceOK
  <2> SUFFICES ASSUME MainInit PROVE PlaceOK
    OBVIOUS
  <2>1. at = 1 /\ returns = <<>> /\ notifies = <<>> /\ status = "new"
    BY DEF MainInit, Init
  <2>2. ReturningBehind = {} /\ NotifyingBehind = {}
    BY <2>1 DEF ReturningBehind, NotifyingBehind
  <2> QED
    BY <2>1, <2>2, NothingListed DEF PlaceOK
<1> QED
  BY <1>1, InitInv, NextInv, PlaceInv, PTL DEF MainSpec

LEMMA ParsedIsWellFormed == Inv /\ PlaceOK => ParsesTheWellFormed
<1> SUFFICES ASSUME Inv, PlaceOK PROVE ParsesTheWellFormed
  OBVIOUS
<1>1. ParseOK
  BY DEF Inv
<1>2. ASSUME status = "done"
      PROVE  /\ \A i \in DOMAIN Definitions : WellFormed(Definitions[i])
             /\ Lists(returns, Definitions, Returning)
             /\ Lists(notifies, Definitions, NotReturning)
  <2>1. PICK n \in Nat : /\ n = Len(Definitions) /\ DOMAIN Definitions = 1 .. n
                         /\ \A i \in 1 .. n : IsDefinition(Definitions[i])
    BY <1>1, <1>2, ProtoFacts DEF ParseOK
  <2>2. at \in Nat /\ at > n /\ \A i \in 1 .. at - 1 : i \in 1 .. n /\ IsTaken(Definitions[i])
    BY <1>1, <1>2, <2>1 DEF ParseOK
  <2>3. 1 .. at - 1 = 1 .. n
    BY <2>2
  <2>4. \A i \in 1 .. n : WellFormed(Definitions[i])
    BY <2>1, <2>2, <2>3, TakenIsWellFormed
  <2>5. \A i \in 1 .. n : HasReturns(Definitions[i]) <=> "returns" \in DOMAIN Definitions[i].val
    BY <2>4 DEF WellFormed, HasReturns
  <2>6. ReturningBehind = Returning /\ NotifyingBehind = NotReturning
    BY <2>1, <2>3, <2>5 DEF ReturningBehind, NotifyingBehind, Returning, NotReturning
  <2> QED
    BY <2>1, <2>4, <2>6 DEF PlaceOK
<1>3. ASSUME status = "failed", IsProto(proto) PROVE ~ WellFormed(Definition)
  <2>1. at \in DOMAIN Definitions /\ ~ IsTaken(Definitions[at])
    BY <1>3 DEF PlaceOK, Definition
  <2>2. IsDefinition(Definitions[at])
    BY <1>1, <1>3, <2>1, ProtoFacts
  <2> QED
    BY <2>1, <2>2, TakenIsWellFormed DEF Definition
<1>4. ASSUME status = "recursing" PROVE Definition.val["returns"].type = "OBJECT"
  BY <1>4 DEF PlaceOK, ReturnType
<1> QED
  BY <1>2, <1>3, <1>4 DEF ParsesTheWellFormed

(* Whatever the specification: when it is turned into stubs, all of its    *)
(* definitions are well formed and each is listed once, in order, with its *)
(* own name and params; it is refused only for one that is not.            *)
THEOREM ParsesTheSpecification == MainSpec => []ParsesTheWellFormed
BY PlaceOKHolds, ParsedIsWellFormed, PTL

----------------------------------------------------------------------------
(* Params by name or by position: every one has a place of its own.        *)
LEMMA PlacesDiffer ==
  ASSUME NEW p \in Procs, NEW form \in {"OBJECT", "ARRAY"}
  PROVE  \A k, m \in DOMAIN p.params : Key(p, form, k) = Key(p, form, m) => k = m
BY DEF Procs, ValidSeqs, ParamsAreValid, Key

LEMMA PlacedValues ==
  ASSUME NEW p \in Procs, NEW form \in {"OBJECT", "ARRAY"}, NEW values
  PROVE  /\ Cardinality(DOMAIN Placed(p, form, values)) = Len(p.params)
         /\ \A k \in DOMAIN p.params :
              /\ Key(p, form, k) \in DOMAIN Placed(p, form, values)
              /\ Placed(p, form, values)[Key(p, form, k)] = values[k]
<1>1. PICK n \in Nat : n = Len(p.params) /\ DOMAIN p.params = 1 .. n
  BY DEF Procs, ValidSeqs, ParamSeqs
<1>2. PICK keys : keys = {Key(p, form, k) : k \in 1 .. n}
  OBVIOUS
<1>3. DOMAIN Placed(p, form, values) = keys
  BY <1>1, <1>2 DEF Placed
<1>4. Cardinality(keys) = n
  <2>1. PICK f : f = [k \in 1 .. n |-> Key(p, form, k)]
    OBVIOUS
  <2>2. f \in [1 .. n -> keys] /\ \A t \in keys : \E k \in 1 .. n : f[k] = t
    BY <1>2, <2>1
  <2>3. \A k, m \in 1 .. n : f[k] = f[m] => k = m
    BY <1>1, <2>1, PlacesDiffer
  <2>4. f \in Bijection(1 .. n, keys)
    BY <2>2, <2>3, Fun_IsBij
  <2>5. IsFiniteSet(1 .. n) /\ Cardinality(1 .. n) = n
    BY FS_Interval
  <2> QED
    BY <2>4, <2>5, FS_Bijection, Fun_ExistsBij
<1>5. ASSUME NEW k \in 1 .. n
      PROVE  Key(p, form, k) \in keys /\ Placed(p, form, values)[Key(p, form, k)] = values[k]
  <2>1. PICK key : key = Key(p, form, k) /\ key \in keys
    BY <1>2
  <2>2. PICK m : m = CHOOSE l \in DOMAIN p.params : Key(p, form, l) = key
    OBVIOUS
  <2>3. m \in DOMAIN p.params /\ Key(p, form, m) = key
    BY <1>1, <2>1, <2>2
  <2>4. m = k
    BY <1>1, <2>1, <2>3, PlacesDiffer
  <2>5. Placed(p, form, values)[key] = values[m]
    BY <1>1, <1>2, <2>1, <2>2 DEF Placed
  <2> QED
    BY <2>1, <2>4, <2>5
<1> QED
  BY <1>1, <1>3, <1>4, <1>5

----------------------------------------------------------------------------
(* What is registered under a procedure's name.                            *)
LEMMA NamesDiffer ==
  ASSUME ParseOK, NamesAreUnique, NEW i \in DOMAIN returns, NEW j \in DOMAIN returns,
         returns[i].name = returns[j].name
  PROVE  i = j
<1>1. PICK all : all = returns \o notifies
  OBVIOUS
<1>2. \A k \in DOMAIN returns : k \in DOMAIN all /\ all[k] = returns[k]
  BY <1>1, ConcatProperties DEF ParseOK
<1> QED
  BY <1>1, <1>2 DEF NamesAreUnique

LEMMA Bindings ==
  ASSUME ParseOK, NamesAreUnique, NEW i \in DOMAIN returns
  PROVE  /\ returns[i].name \in DOMAIN ReturnBindings
         /\ ReturnBindings[returns[i].name] = returns[i].params
<1>1. PICK name : name = returns[i].name
  OBVIOUS
<1>2. PICK j : j = CHOOSE l \in DOMAIN returns : returns[l].name = name
  OBVIOUS
<1>3. j \in DOMAIN returns /\ returns[j].name = name
  BY <1>1, <1>2
<1>4. j = i
  BY <1>1, <1>3, NamesDiffer
<1> QED
  BY <1>1, <1>2, <1>4 DEF ReturnBindings, Table, StubSignature

LEMMA FourMembers ==
  ASSUME NEW a, NEW b, NEW c, NEW d, a # b, a # c, a # d, b # c, b # d, c # d
  PROVE  Cardinality({a, b, c, d}) = 4
<1>1. IsFiniteSet({a}) /\ Cardinality({a}) = 1
  BY FS_Singleton
<1>2. IsFiniteSet({a} \cup {b}) /\ Cardinality({a} \cup {b}) = 2
  BY <1>1, FS_AddElement
<1>3. IsFiniteSet(({a} \cup {b}) \cup {c}) /\ Cardinality(({a} \cup {b}) \cup {c}) = 3
  BY <1>2, FS_AddElement
<1>4. Cardinality((({a} \cup {b}) \cup {c}) \cup {d}) = 4
  BY <1>3, FS_AddElement
<1>5. {a, b, c, d} = (({a} \cup {b}) \cup {c}) \cup {d}
  OBVIOUS
<1> QED
  BY <1>4, <1>5

LEMMA ServerCounts == \A S : Server(Registered)!Cardinality(S) = Cardinality(S)
BY DEF Server!Cardinality, Cardinality

(* The dispatcher runs a generated call exactly if its params fit.         *)
LEMMA VerdictOnCall ==
  ASSUME ParseOK, StubsCompile, NEW i \in DOMAIN returns, NEW form \in {"OBJECT", "ARRAY"},
         NEW types \in [DOMAIN returns[i].params -> JsonTypes]
  PROVE  Runs(CallRequest(returns[i], form, types)) <=>
           /\ returns[i].params # <<>>
           /\ \A k \in DOMAIN types : types[k] = returns[i].params[k].type
<1>1. PICK p \in Procs : p = returns[i]
  BY ElementOfSeq DEF ParseOK
<1>2. PICK n \in Nat : n = Len(p.params) /\ DOMAIN p.params = 1 .. n /\ DOMAIN types = 1 .. n
                       /\ (n = 0 <=> p.params = <<>>)
  BY <1>1, EmptySeq DEF Procs, ValidSeqs, ParamSeqs
<1>3. PICK r, members : r = CallRequest(p, form, types) /\ members = r.members
  OBVIOUS
<1>4. /\ r.type = "OBJECT" /\ DOMAIN members = {"jsonrpc", "method", "params", "id"}
      /\ members["jsonrpc"] = [type |-> "STRING", val |-> "2.0"]
      /\ members["method"] = [type |-> "STRING", val |-> <<Name, p.name>>]
      /\ members["params"] = [type |-> form, val |-> Placed(p, form, types)]
      /\ members["id"].type = "INT32"
  BY <1>3 DEF CallRequest, String
<1>5. Cardinality(DOMAIN members) = 4
  <2>1. Cardinality({"jsonrpc", "method", "params", "id"}) = 4
    BY FourMembers
  <2> QED
    BY <1>4, <2>1
<1>6. PICK method : /\ method = <<Name, p.name>> /\ Len(method) = 2
                    /\ method[1] = Name /\ method[2] = p.name
  <2>1. PICK first, second : first = Name /\ second = p.name
    OBVIOUS
  <2>2. /\ Len(<<first, second>>) = 2
        /\ <<first, second>>[1] = first /\ <<first, second>>[2] = second
    OBVIOUS
  <2> QED
    BY <2>1, <2>2
<1>7. p.name # ""
  <2>1. p.name \in Names(returns)
    BY <1>1 DEF Names
  <2> QED
    BY <2>1 DEF StubsCompile
<1>8. ~ Server(Registered)!IsInternal(method)
  <2>1. <<"rpc", "">>[2] = ""
    OBVIOUS
  <2> QED
    BY <1>6, <1>7, <2>1 DEF Server!IsInternal
<1>9. PICK bindings : bindings = ReturnBindings
  OBVIOUS
<1>10. DOMAIN Registered = {Name} /\ Registered[Name]["returns"] = bindings
  BY <1>9 DEF Registered
<1>11. p.name \in DOMAIN bindings /\ bindings[p.name] = p.params
  BY <1>1, <1>9, Bindings DEF StubsCompile
<1>12. Server(Registered)!Resolves(method, "returns")
  BY <1>6, <1>7, <1>10, <1>11 DEF Server!Resolves
<1>13. Server(Registered)!Signature(method, "returns") = p.params
  BY <1>6, <1>10, <1>11 DEF Server!Signature
<1>14. Server(Registered)!ParamsFit(members, p.params) <=>
         n # 0 /\ \A k \in 1 .. n : types[k] = p.params[k].type
  <2>1. PICK placed : placed = Placed(p, form, types)
    OBVIOUS
  <2>2. PICK params : /\ params = members["params"] /\ params.type = form /\ params.val = placed
                      /\ "params" \in DOMAIN members
    BY <1>4, <2>1
  <2>3. /\ Cardinality(DOMAIN placed) = n
        /\ \A k \in 1 .. n : /\ Key(p, form, k) \in DOMAIN placed
                             /\ placed[Key(p, form, k)] = types[k]
    BY <1>2, <2>1, PlacedValues
  <2>4. \A k \in 1 .. n : Key(p, form, k) = IF form = "ARRAY" THEN k ELSE p.params[k].name
    BY DEF Key
  <2>5. Server(Registered)!ParamsFit(members, p.params) <=>
          /\ n # 0 /\ n = n
          /\ \A k \in 1 .. n :
               LET key == IF form = "ARRAY" THEN k ELSE p.params[k].name
               IN  key \in DOMAIN placed /\ placed[key] = p.params[k].type
    BY <1>2, <2>2, <2>3, ServerCounts DEF Server!ParamsFit
  <2> QED
    BY <2>3, <2>4, <2>5
<1>15. Server(Registered)!Verdict(r) = Server(Registered)!RequestVerdict(members)
  BY <1>3, <1>4 DEF Server!Verdict, Server!IsNotify
<1>16. Server(Registered)!RequestVerdict(members) =
         IF ~ Server(Registered)!ParamsFit(members, p.params)
         THEN Server(Registered)!Refuse("INVALID_PARAMS", members["id"])
         ELSE Server(Registered)!Run
  <2>1. /\ Server(Registered)!HasType(members, "id", Server(Registered)!IdTypes)
        /\ Server(Registered)!HasType(members, "jsonrpc", {"STRING"})
        /\ Server(Registered)!HasType(members, "method", {"STRING"})
    BY <1>4 DEF Server!HasType, Server!IdTypes
  <2>2. Server(Registered)!MemberCountIs(members, 3)
    BY <1>4, <1>5, ServerCounts DEF Server!MemberCountIs
  <2>3. members["method"].val = method /\ members["jsonrpc"].val = "2.0"
    BY <1>4, <1>6
  <2> QED
    BY <1>8, <1>12, <1>13, <2>1, <2>2, <2>3 DEF Server!RequestVerdict
<1>17. /\ Server(Registered)!Run.verdict = "run"
       /\ Server(Registered)!Refuse("INVALID_PARAMS", members["id"]).verdict = "refuse"
  BY DEF Server!Run, Server!Refuse
<1>18. Runs(r) <=> Server(Registered)!ParamsFit(members, p.params)
  BY <1>15, <1>16, <1>17 DEF Runs
<1> QED
  BY <1>1, <1>2, <1>3, <1>14, <1>18

LEMMA CallsAreAdmitted == Inv => GeneratedCallsAreAdmitted
<1> SUFFICES ASSUME Inv, NEW s \in sent, "id" \in DOMAIN s.request.members
             PROVE  Runs(s.request) <=> s.proc.params # <<>> /\ AsDeclared(s)
  BY DEF GeneratedCallsAreAdmitted
<1>1. PICK i \in DOMAIN returns, form \in {"OBJECT", "ARRAY"} :
        /\ s.proc = returns[i] /\ s.types \in [DOMAIN returns[i].params -> JsonTypes]
        /\ s.request = CallRequest(returns[i], form, s.types)
  BY DEF Inv, SentOK, IsCall
<1>2. ParseOK /\ StubsCompile
  BY DEF Inv, SentOK
<1> QED
  BY <1>1, <1>2, VerdictOnCall DEF AsDeclared

(* For any specification that gives stubs which compile: the server of the *)
(* service stub runs a call of the client stub, or one by position,        *)
(* exactly if there is something to pass and every argument arrives as the *)
(* json type that the specification shows.                                 *)
THEOREM StubsAgree == MainSpec => []GeneratedCallsAreAdmitted
BY CallsAreAdmitted, InvHolds, PTL

LEMMA ArgumentsReachTheirParams == Inv => ArgumentsArrive
<1> SUFFICES ASSUME Inv, NEW s \in sent, "id" \in DOMAIN s.request.members, Runs(s.request)
             PROVE  Unpacked(s) = [k \in DOMAIN s.proc.params |-> [value |-> k, fits |-> TRUE]]
  BY DEF ArgumentsArrive
<1>1. PICK i \in DOMAIN returns, form \in {"OBJECT", "ARRAY"} :
        /\ s.proc = returns[i] /\ s.types \in [DOMAIN returns[i].params -> JsonTypes]
        /\ s.values = Placed(returns[i], form, [k \in DOMAIN s.types |-> k])
        /\ s.request = CallRequest(returns[i], form, s.types)
  BY DEF Inv, SentOK, IsCall
<1>2. PICK p \in Procs : p = returns[i] /\ p = s.proc
  BY <1>1, ElementOfSeq DEF Inv, ParseOK
<1>3. PICK params : params = s.request.members["params"]
  OBVIOUS
<1>4. params.type = form /\ params.val = Placed(p, form, s.types)
  BY <1>1, <1>2, <1>3 DEF CallRequest
<1>5. AsDeclared(s)
  BY CallsAreAdmitted DEF GeneratedCallsAreAdmitted
<1>6. ASSUME NEW k \in DOMAIN p.params PROVE Local(s, k) = [value |-> k, fits |-> TRUE]
  <2>1. PICK from : from = Key(p, form, k)
    OBVIOUS
  <2>2. Index(s.proc, params.type, k) = from
    BY <1>2, <1>4, <2>1 DEF Index, Key
  <2>3. params.val[from] = s.types[k]
    BY <1>4, <2>1, PlacedValues
  <2>4. s.values[from] = k
    BY <1>1, <1>2, <2>1, PlacedValues
  <2>5. s.types[k] = p.params[k].type
    BY <1>1, <1>2, <1>5 DEF AsDeclared
  <2>6. (params.val[from] = s.proc.params[k].type) = TRUE
    BY <1>2, <2>3, <2>5
  <2>7. Local(s, k) = [value |-> s.values[from],
                       fits |-> params.val[from] = s.proc.params[k].type]
    BY <1>3, <2>2 DEF Local
  <2> QED
    BY <2>4, <2>6, <2>7
<1> QED
  BY <1>2, <1>6 DEF Unpacked

(* What the dispatcher lets through arrives: each parameter gets the       *)
(* argument passed for it, by name or by position, and its getter fits.    *)
THEOREM ArgumentsReachParams == MainSpec => []ArgumentsArrive
BY ArgumentsReachTheirParams, InvHolds, PTL
================================================================================
