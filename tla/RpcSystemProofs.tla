--------------------------- MODULE RpcSystemProofs ---------------------------
(***************************************************************************)
(* Client and server together keep the contract of RpcContract, for any    *)
(* registry, any calls and any number of them.                             *)
(***************************************************************************)
EXTENDS RpcSystem, FiniteSetTheorems, SequenceTheorems, TLAPS

----------------------------------------------------------------------------
(* What the server decides about the requests of this client.              *)
LEMMA FourMembers ==
  ASSUME NEW a, NEW b, NEW c, NEW d, a # b, a # c, a # d, b # c, b # d, c # d
  PROVE  Cardinality({a, b, c, d}) = 4
<1>1. IsFiniteSet({a}) /\ Cardinality({a}) = 1
  BY FS_Singleton
<1>2. IsFiniteSet({a} \cup {b}) /\ Cardinality({a} \cup {b}) = 2
  BY <1>1, FS_AddElement
<1>3. IsFiniteSet(({a} \cup {b}) \cup {c}) /\ Cardinality(({a} \cup {b}) \cup {c}) = 3
  BY <1>2, FS_AddElement
<1>4. Cardinality((({a} \cup {b}) \cup {c}) \cup {d}) = 4
  BY <1>3, FS_AddElement
<1>5. {a, b, c, d} = (({a} \cup {b}) \cup {c}) \cup {d}
  OBVIOUS
<1> QED
  BY <1>4, <1>5

LEMMA ServerCounts == \A S : Server!Cardinality(S) = Cardinality(S)
BY DEF Server!Cardinality, Cardinality

LEMMA RequestMembers ==
  ASSUME NEW s
  PROVE  /\ Request(s).type = "OBJECT"
         /\ DOMAIN Request(s).members = {"jsonrpc", "method", "params", "id"}
         /\ Cardinality(DOMAIN Request(s).members) = 4
         /\ Request(s).members["jsonrpc"] = [type |-> "STRING", val |-> "2.0"]
         /\ Request(s).members["method"] = [type |-> "STRING", val |-> plan[s.call]]
         /\ Request(s).members["params"] = [type |-> "OBJECT", val |-> [x |-> "INT32"]]
         /\ Request(s).members["id"] = IdValue(s.id)
         /\ IdValue(s.id).type \in {"INT32", "INT64"}
<1>1. DOMAIN Request(s).members = {"jsonrpc", "method", "params", "id"}
  BY DEF Request
<1>2. Cardinality({"jsonrpc", "method", "params", "id"}) = 4
  BY FourMembers
<1> QED
  BY <1>1, <1>2 DEF Request, IdValue

LEMMA OneElement ==
  ASSUME NEW S, NEW seq \in Seq(S), Len(seq) = 1
  PROVE  \E e \in S : seq = <<e>> /\ e = seq[1]
OBVIOUS

LEMMA FunctionIsSeq ==
  ASSUME NEW S, NEW n \in Nat, NEW f \in [1 .. n -> S]
  PROVE  f \in Seq(S) /\ Len(f) = n
OBVIOUS

LEMMA AppendIs ==
  ASSUME NEW T, NEW k \in Nat, NEW old \in [1 .. k -> T], NEW new \in [1 .. k + 1 -> T],
         \A m \in 1 .. k : new[m] = old[m]
  PROVE  new = Append(old, new[k + 1])
<1>1. PICK e \in T : e = new[k + 1]
  OBVIOUS
<1>2. old \in Seq(T) /\ Len(old) = k
  BY FunctionIsSeq
<1>3. new \in Seq(T) /\ Len(new) = k + 1
  BY FunctionIsSeq
<1>4. \A m \in 1 .. k + 1 : new[m] = Append(old, e)[m]
  <2>1. \A m \in 1 .. k + 1 : m \in 1 .. k \/ m = k + 1
    OBVIOUS
  <2>2. PICK both : both = Append(old, e)
    OBVIOUS
  <2>3. both[k + 1] = e /\ \A m \in 1 .. k : both[m] = old[m]
    BY <1>1, <1>2, <2>2, AppendProperties
  <2>4. \A m \in 1 .. k + 1 : new[m] = both[m]
    BY <1>1, <2>1, <2>3, Zenon
  <2> QED
    BY <2>2, <2>4
<1> QED
  BY <1>1, <1>2, <1>3, <1>4, AppendProperties, SeqEqual

LEMMA ParamsOfCalls ==
  ASSUME NEW members, DOMAIN members = {"jsonrpc", "method", "params", "id"},
         members["params"] = [type |-> "OBJECT", val |-> [x |-> "INT32"]],
         NEW signature \in Seq([name : STRING, type : STRING])
  PROVE  Server!ParamsFit(members, signature) <=> signature = OneInt32
<1>1. PICK params : params = members["params"]
  OBVIOUS
<1>2. /\ "params" \in DOMAIN members /\ params.type = "OBJECT"
      /\ DOMAIN params.val = {"x"} /\ params.val["x"] = "INT32"
  BY <1>1
<1>3. Cardinality(DOMAIN params.val) = 1
  BY <1>2, FS_Singleton
<1>4. PICK n \in Nat : n = Len(signature) /\ DOMAIN signature = 1 .. n
  OBVIOUS
<1>5. Server!ParamsFit(members, signature) <=>
        /\ 1 = n
        /\ \A i \in 1 .. n : signature[i].name \in DOMAIN params.val
                             /\ params.val[signature[i].name] = signature[i].type
  BY <1>1, <1>2, <1>3, <1>4, ServerCounts DEF Server!ParamsFit
<1>6. Server!ParamsFit(members, signature) <=>
        n = 1 /\ signature[1].name = "x" /\ signature[1].type = "INT32"
  BY <1>2, <1>5
<1>7. CASE n = 1
  <2>1. PICK e \in [name : STRING, type : STRING] : signature = <<e>> /\ e = signature[1]
    BY <1>4, <1>7, OneElement
  <2>2. e.name = "x" /\ e.type = "INT32" <=> e = [name |-> "x", type |-> "INT32"]
    OBVIOUS
  <2> QED
    BY <1>6, <1>7, <2>1, <2>2 DEF OneInt32
<1>8. CASE n # 1
  <2>1. Len(OneInt32) = 1
    BY DEF OneInt32
  <2> QED
    BY <1>4, <1>6, <1>8, <2>1
<1> QED
  BY <1>7, <1>8

(* A call that is to succeed runs its procedure; any other is refused, and *)
(* the refusal carries its id.                                             *)
LEMMA VerdictOnCall ==
  ASSUME plan \in Plans, NEW s, s.call \in Calls
  PROVE  LET v == Server!Verdict(Request(s))
         IN  /\ Due(s.call) = "result" => v.verdict = "run"
             /\ Due(s.call) # "result" => /\ v.verdict = "refuse" /\ v.err \in Server!Errors
                                          /\ v.id = IdValue(s.id)
<1>1. PICK members : members = Request(s).members
  OBVIOUS
<1>2. /\ Request(s).type = "OBJECT"
      /\ DOMAIN members = {"jsonrpc", "method", "params", "id"}
      /\ Cardinality(DOMAIN members) = 4
      /\ members["jsonrpc"] = [type |-> "STRING", val |-> "2.0"]
      /\ members["method"] = [type |-> "STRING", val |-> plan[s.call]]
      /\ members["params"] = [type |-> "OBJECT", val |-> [x |-> "INT32"]]
      /\ members["id"] = IdValue(s.id)
      /\ members["id"].type \in {"INT32", "INT64"}
  BY <1>1, RequestMembers
<1>3. PICK method \in Seq(STRING) : method = plan[s.call]
  BY SystemAssumption
<1>4. Server!Verdict(Request(s)) = Server!RequestVerdict(members)
  BY <1>1, <1>2 DEF Server!Verdict, Server!IsNotify
<1>5. Due(s.call) = "result" <=> IsKnown(method)
  BY <1>3 DEF Due
<1>6. Server!RequestVerdict(members) =
        IF Server!IsInternal(method) THEN Server!Refuse("METHOD_NOT_FOUND", members["id"])
        ELSE IF ~ Server!Resolves(method, "returns")
             THEN Server!Refuse("METHOD_NOT_FOUND", members["id"])
        ELSE IF ~ Server!ParamsFit(members, Server!Signature(method, "returns"))
             THEN Server!Refuse("INVALID_PARAMS", members["id"])
        ELSE Server!Run
  <2>1. /\ Server!HasType(members, "id", Server!IdTypes)
        /\ Server!HasType(members, "jsonrpc", {"STRING"})
        /\ Server!HasType(members, "method", {"STRING"})
    BY <1>2 DEF Server!HasType, Server!IdTypes
  <2>2. Server!MemberCountIs(members, 3)
    BY <1>2, ServerCounts DEF Server!MemberCountIs
  <2>3. members["method"].val = method /\ members["jsonrpc"].val = "2.0"
    BY <1>2, <1>3
  <2> QED
    BY <2>1, <2>2, <2>3 DEF Server!RequestVerdict
<1>7. CASE IsKnown(method)
  <2>1. ~ Server!IsInternal(method)
    <3>1. method[2] # "" /\ <<"rpc", "">>[2] = ""
      BY <1>7 DEF IsKnown
    <3> QED
      BY <3>1 DEF Server!IsInternal
  <2>2. Server!Resolves(method, "returns")
    BY <1>7 DEF IsKnown, Server!Resolves
  <2>3. Server!Signature(method, "returns") = OneInt32
    BY <1>7 DEF IsKnown, Server!Signature
  <2>4. OneInt32 \in Seq([name : STRING, type : STRING])
    BY <1>7, <2>2, SystemAssumption DEF IsKnown
  <2>5. Server!ParamsFit(members, Server!Signature(method, "returns"))
    BY <1>2, <2>3, <2>4, ParamsOfCalls
  <2>6. Server!Run.verdict = "run"
    BY DEF Server!Run
  <2> QED
    BY <1>4, <1>5, <1>6, <1>7, <2>1, <2>2, <2>5, <2>6
<1>8. CASE ~ IsKnown(method)
  <2>1. ASSUME ~ Server!IsInternal(method), Server!Resolves(method, "returns"),
               Server!ParamsFit(members, Server!Signature(method, "returns"))
        PROVE  FALSE
    <3>1. /\ Len(method) = 2 /\ method[2] # ""
          /\ method[1] \in DOMAIN Services /\ method[2] \in DOMAIN Services[method[1]].returns
      BY <2>1 DEF Server!Resolves
    <3>2. PICK signature \in Seq([name : STRING, type : STRING]) :
            signature = Services[method[1]].returns[method[2]]
      BY <3>1, SystemAssumption
    <3>3. Server!ParamsFit(members, signature)
      BY <2>1, <3>2 DEF Server!Signature
    <3>4. signature = OneInt32
      BY <1>2, <3>3, ParamsOfCalls
    <3> QED
      BY <1>8, <3>1, <3>2, <3>4 DEF IsKnown
  <2>2. \E err \in {"METHOD_NOT_FOUND", "INVALID_PARAMS"} :
          Server!RequestVerdict(members) = Server!Refuse(err, members["id"])
    BY <1>6, <2>1
  <2>3. \A err : /\ Server!Refuse(err, members["id"]).verdict = "refuse"
                 /\ Server!Refuse(err, members["id"]).err = err
                 /\ Server!Refuse(err, members["id"]).id = members["id"]
    BY DEF Server!Refuse
  <2> QED
    BY <1>2, <1>4, <1>5, <1>8, <2>2, <2>3 DEF Server!Errors
<1> QED
  BY <1>7, <1>8

LEMMA OutcomeOfCall ==
  ASSUME plan \in Plans, NEW s, s.call \in Calls
  PROVE  /\ Due(s.call) = "result" => Server!Outcome(Request(s)) \in {"answered", "queued"}
         /\ Due(s.call) # "result" => Server!Outcome(Request(s)) = "refused"
<1>1. ~ Server!IsNotify(Request(s))
  BY RequestMembers DEF Server!IsNotify
<1> QED
  BY <1>1, VerdictOnCall DEF Server!Outcome

----------------------------------------------------------------------------
(* The invariant.  Every message is one request and every reply one        *)
(* response; ids and calls are the same numbers on this connection.        *)
Sendings == [call : Calls, id : Calls]

SentOK ==
  /\ plan \in Plans
  /\ issued \in 0 .. MaxCalls /\ id = issued
  /\ sent \in Seq(Sendings)
  /\ \A m \in DOMAIN sent : sent[m].id = sent[m].call /\ sent[m].call < issued
  /\ \A m, n \in DOMAIN sent : sent[m].call = sent[n].call => m = n

(* Only calls that are to succeed are with the pool. *)
ServerOK ==
  /\ gotS \in [{conn} -> Nat] /\ gotS[conn] <= Len(sent)
  /\ nextS \in [{conn} -> Nat] /\ nextS[conn] \in 1 .. gotS[conn] + 1
  /\ linkS \in [{conn} -> {"up", "shut", "down"}]
  /\ cur \in [{loop} -> {conn, "none"}]
  /\ elemS = [l \in {loop} |-> 0]
  /\ \A t \in tasks : \E m \in 1 .. nextS[conn] - 1 :
        t = Task(m) /\ Due(sent[m].call) = "result"

ReplyTo(m, err) ==
  [form |-> "object", msg |-> m,
   responses |-> << [conn |-> conn, msg |-> m, elem |-> 1, err |-> err] >>]

Results == {"none"} \cup Server!Errors

ReplySet == {ReplyTo(m, err) : m \in Nat, err \in Results}

(* A reply to message m, which the pool does not hold and which says what  *)
(* is due; and no second reply to it.                                      *)
Replied(i, m) ==
  /\ \E err \in Results : /\ outbox[conn][i] = ReplyTo(m, err)
                          /\ err = "none" <=> Due(sent[m].call) = "result"
  /\ Task(m) \notin tasks

RepliesOK ==
  /\ outbox \in [{conn} -> Seq(ReplySet)]
  /\ \A i \in DOMAIN outbox[conn] : \E m \in 1 .. nextS[conn] - 1 : Replied(i, m)
  /\ \A i, j \in DOMAIN outbox[conn] : Reply(i).msg = Reply(j).msg => i = j

(* The response the client is at, if elemC is 1. *)
InHand == Served[nextC - 1]

ClientOK ==
  /\ DOMAIN callbacks \subseteq 0 .. issued - 1
  /\ \A i \in DOMAIN callbacks : callbacks[i] = i
  /\ linkC \in {"up", "down"}
  /\ gotC \in 0 .. Len(outbox[conn]) /\ nextC \in 1 .. gotC + 1
  /\ busy \in BOOLEAN /\ calling \in BOOLEAN /\ elemC \in {0, 1}
  /\ elemC = 1 => busy /\ nextC > 1
  /\ calling => elemC = 1 /\ InHand \in DOMAIN callbacks

(* A callback that was invoked got the response to its own call, and is no *)
(* longer in the table when it has returned.                               *)
Invocations == [call : Calls, answered : Calls]

FiredOK ==
  /\ fired \in Seq(Invocations)
  /\ \A f \in DOMAIN fired :
       /\ fired[f].answered = fired[f].call /\ fired[f].call < issued
       /\ \E i \in DOMAIN Served : Served[i] = fired[f].call
       /\ fired[f].call \in DOMAIN callbacks => calling /\ fired[f].call = InHand

Inv == SentOK /\ ServerOK /\ RepliesOK /\ ClientOK /\ FiredOK

(* A callback that waits. *)
WaitingOK ==
  \A n \in DOMAIN callbacks : IsOnItsWay(n) \/ linkS[conn] # "up" \/ linkC = "down"

----------------------------------------------------------------------------
(* What the server finds and does.                                         *)
LEMMA WrittenFields ==
  ASSUME RepliesOK, NEW i \in DOMAIN outbox[conn], NEW m, NEW err,
         outbox[conn][i] = ReplyTo(m, err)
  PROVE  Reply(i) = [conn |-> conn, msg |-> m, elem |-> 1, err |-> err]
BY DEF Reply, ReplyTo

LEMMA CallsAreCalls ==
  ASSUME SentOK, NEW m \in DOMAIN sent
  PROVE  sent[m] \in Sendings /\ sent[m].call \in Calls /\ sent[m].id \in Calls
<1>1. sent[m] \in Sendings
  BY ElementOfSeq DEF SentOK
<1> QED
  BY <1>1 DEF Sendings

LEMMA InboxOfServer ==
  ASSUME SentOK, NEW m \in DOMAIN sent
  PROVE  /\ Requests[conn][m].form = "object"
         /\ Requests[conn][m].reqs = << Request(sent[m]) >>
         /\ Len(Requests[conn]) = Len(sent)
BY DEF Requests, SentOK

(* handleMessage takes the next message out of the buffer and answers it,  *)
(* hands it to the pool or refuses it.                                     *)
Takes(m) ==
  /\ m = nextS[conn] /\ m \in DOMAIN sent /\ m <= gotS[conn]
  /\ nextS' = [nextS EXCEPT ![conn] = m + 1]

Writes(m, err) ==
  outbox' = [outbox EXCEPT ![conn] =
               IF linkS[conn] = "up" THEN Append(@, ReplyTo(m, err)) ELSE @]

Answers(m) ==
  Takes(m) /\ Due(sent[m].call) = "result" /\ Writes(m, "none")
  /\ UNCHANGED <<gotS, linkS, cur, elemS, tasks>>

Queues(m) ==
  Takes(m) /\ Due(sent[m].call) = "result" /\ tasks' = tasks \cup {Task(m)}
  /\ UNCHANGED <<gotS, linkS, cur, elemS, outbox>>

Refuses(m) ==
  /\ Takes(m) /\ Due(sent[m].call) # "result"
  /\ \E err \in Server!Errors : Writes(m, err)
  /\ linkS' = [linkS EXCEPT ![conn] = IF @ = "up" THEN "shut" ELSE @]
  /\ cur' = [cur EXCEPT ![loop] = "none"]
  /\ UNCHANGED <<gotS, elemS, tasks>>

LEMMA FrameOfServer ==
  ASSUME Inv, Server!InFrameLoop(loop), Server!HasFrame(loop)
  PROVE  \E m \in DOMAIN sent :
           /\ m = nextS[conn] /\ m <= gotS[conn] /\ cur[loop] = conn
           /\ Server!Frame(loop).form = "object"
           /\ Server!Frame(loop).reqs = << Request(sent[m]) >>
<1>1. cur[loop] = conn
  BY DEF Inv, ServerOK, Server!InFrameLoop
<1>2. PICK m : m = nextS[conn]
  OBVIOUS
<1>3. m \in DOMAIN sent /\ m <= gotS[conn]
  BY <1>1, <1>2 DEF Inv, ServerOK, SentOK, Server!HasFrame
<1>4. Server!Frame(loop) = Requests[conn][m]
  BY <1>1, <1>2 DEF Server!Frame
<1> QED
  BY <1>1, <1>2, <1>3, <1>4, InboxOfServer DEF Inv

LEMMA SingleOfServer ==
  ASSUME Inv, NEW outcome, Server!AtSingle(loop, outcome)
  PROVE  \E m : /\ Takes(m) /\ cur[loop] = conn
                /\ outcome = Server!Outcome(Request(sent[m]))
                /\ Server!Frame(loop).reqs[1] = Request(sent[m])
                /\ Server!Single(loop) = Task(m)
<1>1. PICK m \in DOMAIN sent :
        /\ m = nextS[conn] /\ m <= gotS[conn] /\ cur[loop] = conn
        /\ Server!Frame(loop).form = "object"
        /\ Server!Frame(loop).reqs = << Request(sent[m]) >>
  BY FrameOfServer DEF Server!AtSingle
<1>2. Server!Frame(loop).reqs[1] = Request(sent[m])
  BY <1>1
<1>3. nextS' = [nextS EXCEPT ![conn] = m + 1]
  BY <1>1 DEF Server!AtSingle, Server!Retrieve, Inv, ServerOK
<1>4. Server!Single(loop) = Task(m)
  BY <1>1 DEF Server!Single, Server!Part, Task
<1> QED
  BY <1>1, <1>2, <1>3, <1>4 DEF Takes, Server!AtSingle

LEMMA HandleStep ==
  ASSUME Inv, Server!Handle(loop)
  PROVE  \/ /\ cur' = [cur EXCEPT ![loop] = "none"]
            /\ UNCHANGED <<gotS, nextS, linkS, elemS, tasks, outbox>>
         \/ \E m : Answers(m) \/ Queues(m) \/ Refuses(m)
<1>1. CASE Server!FrameLoopEnds(loop)
  BY <1>1 DEF Server!FrameLoopEnds
<1>1a. CASE Server!SkipBlankLine(loop)
  <2>1. PICK m \in DOMAIN sent : Server!Frame(loop).form = "object"
    BY <1>1a, FrameOfServer DEF Server!SkipBlankLine
  <2> QED
    BY <1>1a, <2>1 DEF Server!SkipBlankLine
<1>2. CASE Server!RefuseMessage(loop)
  <2>1. PICK m \in DOMAIN sent : Server!Frame(loop).form = "object"
    BY <1>2, FrameOfServer DEF Server!RefuseMessage
  <2> QED
    BY <1>2, <2>1 DEF Server!RefuseMessage, Server!IsRefusedWhole
<1>3. \A m : Takes(m) =>
        /\ Due(sent[m].call) = "result" =>
              Server!Outcome(Request(sent[m])) \in {"answered", "queued"}
        /\ Due(sent[m].call) # "result" => Server!Outcome(Request(sent[m])) = "refused"
  BY CallsAreCalls, OutcomeOfCall DEF Takes, Inv, SentOK
<1>4. CASE Server!SingleNotified(loop) \/ Server!SingleDropped(loop)
  <2>1. PICK outcome \in {"notified", "dropped"} : Server!AtSingle(loop, outcome)
    BY <1>4 DEF Server!SingleNotified, Server!SingleDropped
  <2> QED
    BY <1>3, <2>1, SingleOfServer
<1>5. CASE Server!SingleAnswered(loop)
  <2>1. PICK m : /\ Takes(m) /\ cur[loop] = conn /\ Server!Single(loop) = Task(m)
                 /\ "answered" = Server!Outcome(Request(sent[m]))
    BY <1>5, SingleOfServer DEF Server!SingleAnswered
  <2>2. Due(sent[m].call) = "result"
    BY <1>3, <2>1
  <2>3. Writes(m, "none")
    BY <1>5, <2>1 DEF Server!SingleAnswered, Server!Write, Server!Answer, Task, Takes,
                      Writes, ReplyTo
  <2>4. Answers(m)
    BY <1>5, <2>1, <2>2, <2>3 DEF Server!SingleAnswered, Answers
  <2> QED
    BY <2>4
<1>6. CASE Server!SingleQueued(loop)
  <2>1. PICK m : /\ Takes(m) /\ cur[loop] = conn /\ Server!Single(loop) = Task(m)
                 /\ "queued" = Server!Outcome(Request(sent[m]))
    BY <1>6, SingleOfServer DEF Server!SingleQueued
  <2>2. Due(sent[m].call) = "result"
    BY <1>3, <2>1
  <2>3. Queues(m)
    BY <1>6, <2>1, <2>2 DEF Server!SingleQueued, Queues
  <2> QED
    BY <2>3
<1>7. CASE Server!SingleRefused(loop)
  <2>1. PICK m : /\ Takes(m) /\ cur[loop] = conn /\ Server!Single(loop) = Task(m)
                 /\ Server!Frame(loop).reqs[1] = Request(sent[m])
                 /\ "refused" = Server!Outcome(Request(sent[m]))
    BY <1>7, SingleOfServer DEF Server!SingleRefused
  <2>2. Due(sent[m].call) # "result"
    BY <1>3, <2>1
  <2>3. PICK err \in Server!Errors : err = Server!Verdict(Request(sent[m])).err
    BY <2>1, <2>2, CallsAreCalls, VerdictOnCall DEF Takes, Inv, SentOK
  <2>4. Server!Fail(loop, Task(m), err)
    BY <1>7, <2>1, <2>3 DEF Server!SingleRefused
  <2>5. Writes(m, err)
    BY <2>1, <2>4 DEF Server!Fail, Server!Write, Server!Answer, Task, Writes, ReplyTo
  <2>6. /\ linkS' = [linkS EXCEPT ![conn] = IF @ = "up" THEN "shut" ELSE @]
        /\ cur' = [cur EXCEPT ![loop] = "none"]
    BY <2>1, <2>4 DEF Server!Fail, Server!Shutdown
  <2>7. Refuses(m)
    BY <1>7, <2>1, <2>2, <2>5, <2>6 DEF Server!SingleRefused, Refuses
  <2> QED
    BY <2>7
<1>8. CASE Server!BatchBegins(loop)
  <2>1. PICK m \in DOMAIN sent : Server!Frame(loop).form = "object"
    BY <1>8, FrameOfServer DEF Server!BatchBegins
  <2> QED
    BY <1>8, <2>1 DEF Server!BatchBegins
<1>9. ~ Server!InBatch(loop)
  BY DEF Inv, ServerOK, Server!InBatch
<1> QED
  BY <1>1, <1>1a, <1>2, <1>4, <1>5, <1>6, <1>7, <1>8, <1>9
     DEF Server!Handle, Server!BatchNotified, Server!BatchAnswered, Server!BatchQueued,
         Server!BatchRefused, Server!BatchDropped, Server!BatchEnds, Server!AtElement

(* The pool finishes a call that is to succeed. *)
Finishes(m) ==
  /\ Task(m) \in tasks /\ m \in 1 .. nextS[conn] - 1 /\ Due(sent[m].call) = "result"
  /\ tasks' = tasks \ {Task(m)} /\ Writes(m, "none")
  /\ UNCHANGED <<gotS, nextS, linkS, cur, elemS>>

LEMMA PoolStep ==
  ASSUME Inv, Server!Pool
  PROVE  \E m : Finishes(m)
<1>1. PICK t \in tasks : Server!DoneSingle(t) \/ Server!DoneInBatch(t) \/ Server!DoneStale(t)
  BY DEF Server!Pool
<1>2. PICK m \in 1 .. nextS[conn] - 1 : t = Task(m) /\ Due(sent[m].call) = "result"
  BY DEF Inv, ServerOK
<1>3. m \in DOMAIN sent
  BY DEF Inv, ServerOK, SentOK
<1>4. ~ Server!InArray(t)
  BY <1>2, <1>3, InboxOfServer DEF Inv, Server!InArray, Task
<1>5. Server!DoneSingle(t)
  BY <1>1, <1>4 DEF Server!DoneInBatch, Server!DoneStale
<1>6. tasks' = tasks \ {t}
  BY <1>5 DEF Server!DoneSingle, Server!Finish
<1>7. Writes(m, "none")
  BY <1>2, <1>5 DEF Server!DoneSingle, Server!Write, Server!Answer, Task, Writes, ReplyTo
<1> QED
  BY <1>2, <1>5, <1>6, <1>7 DEF Finishes, Server!DoneSingle

----------------------------------------------------------------------------
(* What the client finds and does.                                         *)
LEMMA ReplyFields ==
  ASSUME Inv, NEW i \in DOMAIN outbox[conn]
  PROVE  \E m \in DOMAIN sent :
           /\ Replied(i, m) /\ Reply(i).msg = m /\ m < nextS[conn]
           /\ outbox[conn][i].form = "object"
           /\ outbox[conn][i].responses = << Reply(i) >>
           /\ Reply(i).err = "none" <=> Due(sent[m].call) = "result"
           /\ sent[m].call \in Calls /\ sent[m].id = sent[m].call /\ sent[m].call < issued
<1>1. PICK m \in 1 .. nextS[conn] - 1 : Replied(i, m)
  BY DEF Inv, RepliesOK
<1>2. m \in DOMAIN sent /\ m < nextS[conn]
  BY DEF Inv, ServerOK, SentOK
<1>3. PICK err \in Results : /\ outbox[conn][i] = ReplyTo(m, err)
                             /\ err = "none" <=> Due(sent[m].call) = "result"
  BY <1>1 DEF Replied
<1>4. Reply(i) = [conn |-> conn, msg |-> m, elem |-> 1, err |-> err]
  BY <1>3, WrittenFields DEF Inv
<1>5. sent[m].call \in Calls /\ sent[m].id = sent[m].call /\ sent[m].call < issued
  BY <1>2, CallsAreCalls DEF Inv, SentOK
<1> QED
  BY <1>1, <1>2, <1>3, <1>4, <1>5 DEF ReplyTo

LEMMA ServedCalls ==
  ASSUME Inv, NEW i \in DOMAIN outbox[conn]
  PROVE  /\ DOMAIN Served = DOMAIN outbox[conn]
         /\ Served[i] = sent[Reply(i).msg].call
         /\ Served[i] \in Calls /\ Served[i] < issued
         /\ Says(Reply(i)) = [idType |-> "asked", members |-> 3, version |-> "2.0",
                              body |-> Due(Served[i])]
<1>1. PICK m \in DOMAIN sent :
        /\ Reply(i).msg = m /\ (Reply(i).err = "none" <=> Due(sent[m].call) = "result")
        /\ sent[m].call \in Calls /\ sent[m].id = sent[m].call /\ sent[m].call < issued
  BY ReplyFields
<1>2. DOMAIN Served = DOMAIN outbox[conn] /\ Served[i] = sent[m].call
  BY <1>1 DEF Served
<1>3. Due(sent[m].call) # "result" =>
        Server!Verdict(Request(sent[m])).id = IdValue(sent[m].id)
  BY <1>1, VerdictOnCall DEF Inv, SentOK
<1>4. Due(sent[m].call) \in {"result", "error"}
  BY DEF Due
<1> QED
  BY <1>1, <1>2, <1>3, <1>4 DEF Says

LEMMA InboxOfClient ==
  ASSUME Inv, NEW i \in DOMAIN outbox[conn]
  PROVE  /\ Responses[i].form = "object"
         /\ Responses[i].elems # <<>> /\ Len(Responses[i].elems) = 1
         /\ Responses[i].elems[1] = [to |-> [call |-> Served[i], id |-> Served[i]],
                                     says |-> [idType |-> "asked", members |-> 3,
                                               version |-> "2.0", body |-> Due(Served[i])]]
<1>1. PICK m \in DOMAIN sent :
        /\ Reply(i).msg = m /\ outbox[conn][i].form = "object"
        /\ outbox[conn][i].responses = << Reply(i) >>
        /\ sent[m].id = sent[m].call
  BY ReplyFields
<1>2. PICK r : r = Reply(i)
  OBVIOUS
<1>3. outbox[conn][i].responses = << r >> /\ DOMAIN << r >> = 1 .. 1 /\ << r >>[1] = r
  BY <1>1, <1>2
<1>4. Responses[i].elems = [k \in 1 .. 1 |-> [to |-> sent[r.msg], says |-> Says(r)]]
  BY <1>3 DEF Responses
<1>5. sent[m] = [call |-> sent[m].call, id |-> sent[m].id]
  BY <1>1, CallsAreCalls DEF Inv, Sendings
<1>6. Responses[i].elems[1] = [to |-> sent[r.msg], says |-> Says(r)]
  BY <1>4
<1>7. Len(Responses[i].elems) = 1 /\ Responses[i].elems # <<>>
  BY <1>4
<1> QED
  BY <1>1, <1>2, <1>5, <1>6, <1>7, ServedCalls DEF Responses

LEMMA ResponseInHand ==
  ASSUME Inv, elemC = 1
  PROVE  /\ nextC - 1 \in DOMAIN outbox[conn] /\ nextC - 1 \in 1 .. gotC
         /\ Len(Client!Elems) = 1
         /\ Client!This.to.id = InHand /\ Client!This.to.call = InHand
         /\ InHand \in Calls /\ InHand < issued
         /\ ~ Client!IsMalformed(Client!This)
         /\ Client!IsAnonymous(Client!This) => InHand > MaxInt32
<1>1. PICK i : i = nextC - 1
  OBVIOUS
<1>2. i \in DOMAIN outbox[conn] /\ i \in 1 .. gotC
  BY <1>1 DEF Inv, ClientOK, RepliesOK
<1>3. Client!Elems = Responses[i].elems /\ InHand = Served[i]
  BY <1>1 DEF Client!Elems, InHand
<1>4. /\ Len(Client!Elems) = 1
      /\ Client!This = [to |-> [call |-> Served[i], id |-> Served[i]],
                        says |-> [idType |-> "asked", members |-> 3,
                                  version |-> "2.0", body |-> Due(Served[i])]]
  BY <1>2, <1>3, InboxOfClient DEF Client!This
<1>5. Served[i] \in Calls /\ Served[i] < issued
  BY <1>2, ServedCalls
<1>6. Due(Served[i]) \in {"result", "error"}
  BY DEF Due
<1>7. ~ Client!IsMalformed(Client!This)
  BY <1>4, <1>6 DEF Client!IsMalformed
<1>8. Client!IsAnonymous(Client!This) => Served[i] > MaxInt32
  BY <1>4, <1>5, SystemAssumption DEF Client!IsAnonymous, Client!HasInt32Id, Calls
<1> QED
  BY <1>1, <1>2, <1>3, <1>4, <1>5, <1>7, <1>8

(* The steps of onMessage that the responses of this server allow.         *)
ReadEnds ==
  /\ elemC = 0 /\ ~ calling /\ busy' = FALSE /\ gotC < nextC
  /\ UNCHANGED <<id, issued, callbacks, linkC, gotC, nextC, elemC, calling, fired>>

TakesResponse ==
  /\ busy /\ elemC = 0 /\ ~ calling /\ nextC <= gotC
  /\ nextC' = nextC + 1 /\ elemC' = 1
  /\ UNCHANGED <<id, issued, callbacks, linkC, gotC, busy, calling, fired>>

PassesResponse ==
  /\ elemC = 1 /\ ~ calling /\ elemC' = 0 /\ busy' \in BOOLEAN
  /\ InHand \notin DOMAIN callbacks \/ InHand > MaxInt32
  /\ UNCHANGED <<id, issued, callbacks, linkC, gotC, nextC, calling, fired>>

Invokes ==
  /\ elemC = 1 /\ ~ calling /\ calling' = TRUE /\ InHand \in DOMAIN callbacks
  /\ fired' = Append(fired, [call |-> InHand, answered |-> InHand])
  /\ UNCHANGED <<id, issued, callbacks, linkC, gotC, nextC, busy, elemC>>

Forgets ==
  /\ calling /\ calling' = FALSE /\ elemC' = 0
  /\ callbacks' = [j \in DOMAIN callbacks \ {InHand} |-> callbacks[j]]
  /\ UNCHANGED <<id, issued, linkC, gotC, nextC, busy, fired>>

LEMMA ClientStep ==
  ASSUME Inv, Client!Handle
  PROVE  ReadEnds \/ TakesResponse \/ PassesResponse \/ Invokes \/ Forgets
<1>1. elemC \in {0, 1} /\ (calling => elemC = 1) /\ (elemC = 1 => busy)
  BY DEF Inv, ClientOK
<1>2. gotC \in Nat /\ nextC \in Nat
  BY DEF Inv, ClientOK, RepliesOK
<1>3. CASE Client!FrameLoopEnds
  BY <1>1, <1>2, <1>3 DEF Client!FrameLoopEnds, Client!InFrameLoop, Client!HasFrame, ReadEnds
<1>4. CASE Client!RejectFrame \/ Client!FrameBegins
  <2>1. busy /\ elemC = 0 /\ ~ calling /\ nextC <= gotC
    BY <1>1, <1>4 DEF Client!RejectFrame, Client!FrameBegins, Client!InFrameLoop, Client!HasFrame
  <2>2. nextC \in DOMAIN outbox[conn]
    BY <2>1 DEF Inv, ClientOK, RepliesOK
  <2>3. Client!IsResponse(Client!Frame)
    BY <2>2, InboxOfClient DEF Client!IsResponse, Client!Frame
  <2> QED
    BY <1>4, <2>1, <2>3 DEF Client!RejectFrame, Client!FrameBegins, Client!Retrieve,
                            TakesResponse
<1>5. CASE Client!RejectAnonymous
  <2>1. elemC = 1 /\ ~ calling
    BY <1>1, <1>5 DEF Client!RejectAnonymous, Client!InResponse
  <2> QED
    BY <1>5, <2>1, ResponseInHand DEF Client!RejectAnonymous, PassesResponse
<1>6. CASE Client!RejectNamed
  <2>1. elemC = 1
    BY <1>1, <1>6 DEF Client!RejectNamed, Client!InResponse
  <2> QED
    BY <1>6, <2>1, ResponseInHand DEF Client!RejectNamed
<1>7. CASE Client!IgnoreResponse
  <2>1. elemC = 1 /\ ~ calling
    BY <1>1, <1>7 DEF Client!IgnoreResponse, Client!InResponse
  <2> QED
    BY <1>1, <1>7, <2>1, ResponseInHand
       DEF Client!IgnoreResponse, Client!Handled, PassesResponse
<1>8. CASE Client!CallbackBegins
  <2>1. elemC = 1 /\ ~ calling
    BY <1>1, <1>8 DEF Client!CallbackBegins, Client!InResponse
  <2>2. InHand \in DOMAIN callbacks /\ callbacks[InHand] = InHand
    BY <1>8, <2>1, ResponseInHand DEF Client!CallbackBegins, Inv, ClientOK
  <2> QED
    BY <1>8, <2>1, <2>2, ResponseInHand DEF Client!CallbackBegins, Invokes
<1>9. CASE Client!CallbackReturns
  <2>1. calling /\ elemC = 1
    BY <1>1, <1>9 DEF Client!CallbackReturns
  <2> QED
    BY <1>9, <2>1, ResponseInHand
       DEF Client!CallbackReturns, Client!Erase, Client!Handled, Forgets
<1> QED
  BY <1>3, <1>4, <1>5, <1>6, <1>7, <1>8, <1>9 DEF Client!Handle

----------------------------------------------------------------------------
(* The client's steps keep the invariant.                                  *)
LEMMA SameReplies ==
  ASSUME UNCHANGED <<plan, sent, outbox>>
  PROVE  /\ Served' = Served
         /\ \A n : Due(n)' = Due(n) /\ Told(n)' = Told(n)
<1>1. \A n : Due(n)' = Due(n)
  BY DEF Due
<1>2. Served' = Served
  BY DEF Served, Reply
<1>3. \A r : Says(r)' = Says(r)
  BY DEF Says, Request
<1>4. \A n : Told(n)' = Told(n)
  BY <1>2, <1>3 DEF Told, Reply
<1> QED
  BY <1>1, <1>2, <1>4

LEMMA ClientMoves ==
  ASSUME Inv, UNCHANGED <<plan, sent, id, issued, serverVars>>, ClientOK', FiredOK'
  PROVE  Inv'
<1>1. \A n : Due(n)' = Due(n)
  BY SameReplies DEF serverVars
<1>2. SentOK'
  BY DEF Inv, SentOK
<1>3. ServerOK'
  BY <1>1 DEF Inv, ServerOK, serverVars
<1>4. RepliesOK'
  BY <1>1 DEF Inv, RepliesOK, Replied, Reply, serverVars
<1> QED
  BY <1>2, <1>3, <1>4 DEF Inv

LEMMA NothingInHand ==
  ASSUME ClientOK, UNCHANGED <<outbox, issued, callbacks>>, linkC' \in {"up", "down"},
         gotC' \in 0 .. Len(outbox[conn]), nextC' \in 1 .. gotC' + 1,
         elemC' = 0, ~ calling, calling' = calling, busy' \in BOOLEAN
  PROVE  ClientOK'
<1>1. calling' \in BOOLEAN /\ elemC' \in {0, 1} /\ elemC' # 1
  BY DEF ClientOK
<1>2. DOMAIN callbacks' \subseteq 0 .. issued' - 1 /\ \A i \in DOMAIN callbacks' : callbacks'[i] = i
  BY DEF ClientOK
<1>3. ~ calling'
  OBVIOUS
<1>4. gotC' \in 0 .. Len(outbox'[conn])
  OBVIOUS
<1> QED
  BY <1>1, <1>2, <1>3, <1>4 DEF ClientOK

LEMMA ClientHandleInv ==
  ASSUME Inv, UNCHANGED <<plan, sent, serverVars>>, Client!Handle
  PROVE  Inv'
<1>0. Served' = Served /\ outbox' = outbox
  BY SameReplies DEF serverVars
<1>1. PICK n \in Nat : n = Len(outbox[conn]) /\ DOMAIN outbox[conn] = 1 .. n /\ DOMAIN Served = 1 .. n
  BY DEF Inv, RepliesOK, Served
<1>2. gotC \in 0 .. n /\ nextC \in 1 .. gotC + 1
  BY <1>1 DEF Inv, ClientOK
<1>3. CASE ReadEnds
  <2>1. ClientOK'
    BY <1>0, <1>3, NothingInHand DEF ReadEnds, Inv, ClientOK
  <2>2. FiredOK'
    BY <1>0, <1>3 DEF Inv, FiredOK, ReadEnds, InHand
  <2> QED
    BY <1>3, <2>1, <2>2, ClientMoves DEF ReadEnds
<1>4. CASE TakesResponse
  <2>1. ClientOK'
    BY <1>0, <1>1, <1>2, <1>4 DEF Inv, ClientOK, TakesResponse
  <2>2. FiredOK'
    BY <1>0, <1>4 DEF Inv, FiredOK, TakesResponse
  <2> QED
    BY <1>4, <2>1, <2>2, ClientMoves DEF TakesResponse
<1>5. CASE PassesResponse
  <2>1. ClientOK'
    BY <1>0, <1>5 DEF Inv, ClientOK, PassesResponse, InHand
  <2>2. FiredOK'
    BY <1>0, <1>5 DEF Inv, FiredOK, PassesResponse, InHand
  <2> QED
    BY <1>5, <2>1, <2>2, ClientMoves DEF PassesResponse
<1>6. CASE Invokes
  <2>1. ClientOK'
    BY <1>0, <1>6 DEF Inv, ClientOK, Invokes, InHand
  <2>2. PICK f : f = [call |-> InHand, answered |-> InHand]
    OBVIOUS
  <2>3. nextC - 1 \in DOMAIN Served /\ InHand < issued /\ f \in Invocations
    BY <1>0, <1>1, <1>6, <2>2, ResponseInHand DEF Invokes, Invocations
  <2>4. PICK k \in Nat : k = Len(fired) /\ DOMAIN fired = 1 .. k
    BY DEF Inv, FiredOK
  <2>5. /\ fired' \in Seq(Invocations)
        /\ DOMAIN fired' = 1 .. k + 1
        /\ \A i \in 1 .. k : fired'[i] = fired[i]
        /\ fired'[k + 1] = f
    <3>1. fired' = Append(fired, f) /\ fired \in Seq(Invocations)
      BY <1>6, <2>2 DEF Inv, FiredOK, Invokes
    <3> QED
      BY <2>3, <2>4, <3>1, AppendProperties, LenProperties
  <2>6. InHand' = InHand /\ calling' = TRUE /\ issued' = issued /\ callbacks' = callbacks
    BY <1>0, <1>6 DEF InHand, Invokes
  <2>7. ASSUME NEW i \in 1 .. k + 1
        PROVE  /\ fired'[i].answered = fired'[i].call /\ fired'[i].call < issued
               /\ \E j \in DOMAIN Served : Served[j] = fired'[i].call
               /\ fired'[i].call \in DOMAIN callbacks => fired'[i].call = InHand
    <3>1. CASE i = k + 1
      BY <2>2, <2>3, <2>5, <3>1 DEF InHand
    <3>2. CASE i \in 1 .. k
      BY <1>6, <2>4, <2>5, <3>2 DEF Inv, FiredOK, Invokes
    <3> QED
      BY <3>1, <3>2
  <2>8. FiredOK'
    BY <1>0, <2>5, <2>6, <2>7 DEF FiredOK
  <2> QED
    BY <1>6, <2>1, <2>8, ClientMoves DEF Invokes
<1>7. CASE Forgets
  <2>1. ClientOK'
    BY <1>0, <1>7 DEF Inv, ClientOK, Forgets, InHand
  <2>2. FiredOK'
    BY <1>0, <1>7 DEF Inv, FiredOK, Forgets, InHand
  <2> QED
    BY <1>7, <2>1, <2>2, ClientMoves DEF Forgets
<1> QED
  BY <1>3, <1>4, <1>5, <1>6, <1>7, ClientStep

LEMMA ClientReadInv ==
  ASSUME Inv, ClientReads \/ ClientLoses
  PROVE  Inv'
<1>1. PICK n \in Nat : n = Len(outbox[conn]) /\ n = Len(Responses) /\ gotC \in 0 .. n
  BY DEF Inv, RepliesOK, ClientOK, Responses
<1>2. UNCHANGED <<plan, sent, serverVars, id, issued, callbacks, nextC, elemC, calling, fired>>
  BY DEF ClientReads, ClientLoses, Client!Read, Client!ConnectionDown
<1>3. gotC' \in gotC .. n
  BY <1>1 DEF ClientReads, ClientLoses, Client!Read, Client!ConnectionDown
<1>4. linkC' \in {"up", "down"}
  BY DEF ClientReads, ClientLoses, Client!Read, Client!ConnectionDown, Inv, ClientOK
<1>5. ~ busy /\ busy' \in BOOLEAN /\ elemC = 0 /\ ~ calling
  BY DEF ClientReads, ClientLoses, Client!Read, Client!ConnectionDown, Inv, ClientOK
<1>6. Served' = Served /\ outbox' = outbox
  BY <1>2, SameReplies DEF serverVars
<1>7. ClientOK'
  <2>0. gotC \in Nat /\ gotC' \in Nat /\ gotC <= gotC'
    BY <1>1, <1>3
  <2>1. nextC \in Nat /\ 1 <= nextC /\ nextC <= gotC + 1 /\ nextC' = nextC
    BY <1>2, <2>0 DEF Inv, ClientOK
  <2>3. PICK g \in Nat, x \in Nat :
          x = nextC' /\ g = gotC' /\ x \in 1 .. g + 1
    BY <2>0, <2>1
  <2>2. gotC' \in 0 .. Len(outbox[conn])
    BY <1>1, <1>3
  <2>4. nextC' \in 1 .. gotC' + 1
    BY <2>3, Zenon
  <2> QED
    BY <1>2, <1>4, <1>5, <1>6, <2>2, <2>4, NothingInHand DEF Inv
<1>8. FiredOK'
  BY <1>2, <1>6 DEF Inv, FiredOK, InHand
<1> QED
  BY <1>2, <1>7, <1>8, ClientMoves

(* A call takes the next number, and an entry of its own in the table.     *)
LEMMA CallInv ==
  ASSUME Inv, ClientCalls
  PROVE  /\ Inv' /\ issued < MaxCalls /\ issued' = issued + 1
         /\ UNCHANGED <<plan, serverVars, fired, Served>>
         /\ \A n : Due(n)' = Due(n)
<1>1. /\ UNCHANGED <<plan, serverVars, linkC, gotC, nextC, busy, elemC, calling, fired>>
      /\ issued < MaxCalls /\ issued' = issued + 1 /\ id' = id + 1
      /\ callbacks' = [j \in DOMAIN callbacks \cup {id} |-> IF j = id THEN issued ELSE callbacks[j]]
      /\ sent' = IF linkC = "up" THEN Append(sent, [call |-> issued, id |-> id]) ELSE sent
  BY DEF ClientCalls, Client!SendCall, Client!NextId
<1>2. issued \in 0 .. MaxCalls - 1 /\ id = issued /\ issued \in Calls
  BY <1>1, SystemAssumption DEF Inv, SentOK, Calls
<1>3. PICK k \in Nat : k = Len(sent) /\ DOMAIN sent = 1 .. k
  BY DEF Inv, SentOK
<1>4. PICK new \in Sendings : new = [call |-> issued, id |-> issued]
  BY <1>2 DEF Sendings
<1>5. /\ sent' \in Seq(Sendings) /\ k <= Len(sent')
      /\ \A m \in 1 .. k : sent'[m] = sent[m]
      /\ \A m \in DOMAIN sent' : m \in 1 .. k \/ (m = k + 1 /\ sent'[m] = new)
  <2>1. CASE linkC = "up"
    <3>1. sent' = Append(sent, new) /\ sent \in Seq(Sendings)
      BY <1>1, <1>2, <1>4, <2>1 DEF Inv, SentOK
    <3> QED
      BY <1>3, <3>1, AppendProperties, LenProperties
  <2>2. CASE linkC # "up"
    BY <1>1, <1>3, <2>2 DEF Inv, SentOK
  <2> QED
    BY <2>1, <2>2
<1>6. \A n : Due(n)' = Due(n)
  BY <1>1 DEF Due
<1>7. SentOK'
  <2>1. issued' \in 0 .. MaxCalls /\ id' = issued' /\ plan' \in Plans
    BY <1>1, <1>2, SystemAssumption DEF Inv, SentOK
  <2>2. \A m \in 1 .. k : sent[m].id = sent[m].call /\ sent[m].call < issued /\ sent[m].call \in Nat
    BY <1>3, CallsAreCalls DEF Inv, SentOK, Calls
  <2>3. \A m \in DOMAIN sent' : sent'[m].id = sent'[m].call /\ sent'[m].call < issued'
    <3>1. new.id = issued /\ new.call = issued /\ issued \in Nat /\ issued' = issued + 1
      BY <1>1, <1>2, <1>4 DEF Calls
    <3>2. new.id = new.call /\ new.call < issued'
      BY <3>1
    <3>3. \A m \in 1 .. k : sent[m].id = sent[m].call /\ sent[m].call < issued'
      BY <2>2, <3>1
    <3> QED
      BY <1>5, <3>2, <3>3
  <2>4. \A m, n \in DOMAIN sent' : sent'[m].call = sent'[n].call => m = n
    <3>1. \A m, n \in 1 .. k : sent[m].call = sent[n].call => m = n
      BY <1>3 DEF Inv, SentOK
    <3> QED
      BY <1>2, <1>4, <1>5, <2>2, <3>1
  <2> QED
    BY <1>5, <2>1, <2>3, <2>4 DEF SentOK
<1>8. ServerOK'
  <2>1. nextS[conn] \in Nat /\ nextS[conn] <= k + 1 /\ gotS[conn] <= Len(sent')
    BY <1>3, <1>5 DEF Inv, ServerOK
  <2>2. \A m \in 1 .. nextS[conn] - 1 : sent'[m] = sent[m]
    BY <1>5, <2>1
  <2>3. \A m \in 1 .. nextS[conn] - 1 : (Due(sent[m].call))' = Due(sent[m].call)
    BY <1>1, <2>2 DEF Due
  <2>4. tasks' = tasks /\ nextS' = nextS
    BY <1>1 DEF serverVars
  <2>5. \A t \in tasks' : \E m \in 1 .. nextS'[conn] - 1 :
           t = Task(m) /\ (Due(sent[m].call))' = "result"
    BY <2>3, <2>4 DEF Inv, ServerOK
  <2> QED
    BY <1>1, <2>1, <2>5 DEF Inv, ServerOK, serverVars
<1>9. \A i \in DOMAIN outbox[conn] : Reply(i)' = Reply(i) /\ Reply(i).msg \in 1 .. k
  BY <1>1, <1>3, ReplyFields DEF Reply, serverVars
<1>10. Served' = Served
  BY <1>1, <1>5, <1>9 DEF Served, serverVars
<1>11. RepliesOK'
  <2>1. ASSUME NEW i \in DOMAIN outbox[conn]
        PROVE  \E m \in 1 .. nextS[conn] - 1 : Replied(i, m)'
    <3>1. PICK m \in 1 .. nextS[conn] - 1 : Replied(i, m)
      BY DEF Inv, RepliesOK
    <3>2. sent'[m] = sent[m]
      BY <1>3, <1>5 DEF Inv, ServerOK
    <3>3. Replied(i, m)'
      BY <1>1, <1>6, <3>1, <3>2 DEF Replied, serverVars
    <3> QED
      BY <3>3
  <2>2. \A i, j \in DOMAIN outbox'[conn] : Reply(i)'.msg = Reply(j)'.msg => i = j
    BY <1>1, <1>9 DEF Inv, RepliesOK, serverVars
  <2> QED
    BY <1>1, <2>1, <2>2 DEF Inv, RepliesOK, serverVars
<1>12. InHand' = InHand
  BY <1>1, <1>10 DEF InHand
<1>13. ClientOK'
  <2>1. DOMAIN callbacks' = DOMAIN callbacks \cup {issued}
    BY <1>1, <1>2
  <2>2. DOMAIN callbacks' \subseteq 0 .. issued' - 1
    BY <1>1, <1>2, <2>1 DEF Inv, ClientOK
  <2>3. \A i \in DOMAIN callbacks' : callbacks'[i] = i
    BY <1>1, <1>2, <2>1 DEF Inv, ClientOK
  <2>4. gotC' \in 0 .. Len(outbox'[conn]) /\ nextC' \in 1 .. gotC' + 1
    BY <1>1 DEF Inv, ClientOK, serverVars
  <2>5. calling' => elemC' = 1 /\ InHand' \in DOMAIN callbacks'
    BY <1>1, <1>12, <2>1 DEF Inv, ClientOK
  <2> QED
    BY <1>1, <2>2, <2>3, <2>4, <2>5 DEF Inv, ClientOK
<1>14. FiredOK'
  <2>1. DOMAIN callbacks' = DOMAIN callbacks \cup {issued}
    BY <1>1, <1>2
  <2>2. ASSUME NEW f \in DOMAIN fired
        PROVE  /\ fired[f].answered = fired[f].call /\ fired[f].call < issued'
               /\ \E i \in DOMAIN Served : Served[i] = fired[f].call
               /\ fired[f].call \in DOMAIN callbacks' => calling /\ fired[f].call = InHand
    <3>1. /\ fired[f].answered = fired[f].call /\ fired[f].call < issued
          /\ \E i \in DOMAIN Served : Served[i] = fired[f].call
          /\ fired[f].call \in DOMAIN callbacks => calling /\ fired[f].call = InHand
      BY DEF Inv, FiredOK
    <3>2. fired[f] \in Invocations
      BY ElementOfSeq DEF Inv, FiredOK
    <3>3. fired[f].call \in Nat
      BY <3>2 DEF Invocations, Calls
    <3>4. fired[f].call # issued /\ fired[f].call < issued'
      BY <1>1, <1>2, <3>1, <3>3
    <3> QED
      BY <2>1, <3>1, <3>4
  <2> QED
    BY <1>1, <1>10, <1>12, <2>2 DEF Inv, FiredOK
<1> QED
  BY <1>1, <1>6, <1>7, <1>8, <1>10, <1>11, <1>13, <1>14 DEF Inv

----------------------------------------------------------------------------
(* The server's steps keep the invariant.  More replies are nothing to the *)
(* client as long as it does not read them.                                *)
LEMMA MoreReplies ==
  ASSUME Inv, UNCHANGED clientVars, Len(outbox'[conn]) \in Nat,
         Len(outbox[conn]) <= Len(outbox'[conn]),
         \A i \in DOMAIN Served : i \in DOMAIN Served' /\ Served'[i] = Served[i]
  PROVE  ClientOK' /\ FiredOK'
<1>1. elemC = 1 => InHand' = InHand
  <2>1. nextC' = nextC /\ (elemC = 1 => nextC - 1 \in DOMAIN Served)
    BY ResponseInHand DEF clientVars, Served
  <2> QED
    BY <2>1 DEF InHand
<1>2. ClientOK'
  <2>1. gotC' \in 0 .. Len(outbox'[conn])
    BY DEF Inv, ClientOK, RepliesOK, clientVars
  <2>2. DOMAIN callbacks' \subseteq 0 .. issued' - 1 /\ \A i \in DOMAIN callbacks' : callbacks'[i] = i
    BY DEF Inv, ClientOK, clientVars
  <2>3. calling' => elemC' = 1 /\ InHand' \in DOMAIN callbacks'
    BY <1>1 DEF Inv, ClientOK, clientVars
  <2> QED
    BY <2>1, <2>2, <2>3 DEF Inv, ClientOK, clientVars
<1>3. calling => InHand' = InHand
  BY <1>1 DEF Inv, ClientOK
<1>4. fired' = fired /\ callbacks' = callbacks /\ calling' = calling /\ issued' = issued
  BY DEF clientVars
<1>5. FiredOK'
  BY <1>3, <1>4 DEF Inv, FiredOK
<1> QED
  BY <1>2, <1>5

(* A reply to a message that the pool no longer holds and that has none.   *)
LEMMA WriteStep ==
  ASSUME Inv, UNCHANGED <<plan, clientVars>>, NEW m \in 1 .. Len(sent), NEW err \in Results,
         err = "none" <=> Due(sent[m].call) = "result", Writes(m, err),
         nextS[conn] <= nextS'[conn], m < nextS'[conn], nextS'[conn] \in Nat,
         tasks' \subseteq tasks, Task(m) \notin tasks',
         \A i \in DOMAIN outbox[conn] : Reply(i).msg # m
  PROVE  /\ RepliesOK' /\ ClientOK' /\ FiredOK'
         /\ \/ Served' = Served
            \/ /\ Served' = Append(Served, sent[m].call)
               /\ \A i \in DOMAIN Served : Served[i] # sent[m].call
<1>1. PICK k \in Nat : k = Len(outbox[conn]) /\ DOMAIN outbox[conn] = 1 .. k /\ DOMAIN Served = 1 .. k
  BY DEF Inv, RepliesOK, Served
<1>2. sent' = sent /\ plan' = plan
  BY DEF clientVars
<1>3. PICK log \in Seq(ReplySet) : log = outbox[conn]
  BY DEF Inv, RepliesOK
<1>4. PICK new \in ReplySet : new = ReplyTo(m, err)
  BY DEF ReplySet
<1>5. PICK more \in Seq(ReplySet) :
        /\ outbox' = [outbox EXCEPT ![conn] = more]
        /\ more = IF linkS[conn] = "up" THEN Append(log, new) ELSE log
  <2>1. Append(log, new) \in Seq(ReplySet)
    BY AppendProperties
  <2> QED
    BY <1>3, <1>4, <2>1 DEF Writes
<1>6. outbox'[conn] = more /\ outbox' \in [{conn} -> Seq(ReplySet)]
  BY <1>5 DEF Inv, RepliesOK
<1>7. PICK top \in {k, k + 1} :
        /\ Len(more) = top /\ DOMAIN more = 1 .. top
        /\ \A i \in 1 .. k : more[i] = log[i]
        /\ top = k + 1 => more[k + 1] = new
        /\ top = k => more = log
  <2>1. CASE linkS[conn] = "up"
    BY <1>1, <1>3, <1>5, <2>1, AppendProperties, LenProperties
  <2>2. CASE linkS[conn] # "up"
    BY <1>1, <1>3, <1>5, <2>2
  <2> QED
    BY <2>1, <2>2
<1>8. \A i \in 1 .. k : Reply(i)' = Reply(i)
  BY <1>3, <1>6, <1>7 DEF Reply
<1>9. top = k + 1 => Reply(k + 1)' = [conn |-> conn, msg |-> m, elem |-> 1, err |-> err]
  BY <1>4, <1>6, <1>7 DEF Reply, ReplyTo
<1>10. DOMAIN Served' = 1 .. top /\ \A i \in 1 .. k : Served'[i] = Served[i]
  BY <1>1, <1>2, <1>6, <1>7, <1>8 DEF Served
<1>11. \A n : Due(n)' = Due(n)
  BY <1>2 DEF Due
<1>12. ASSUME NEW i \in 1 .. top
       PROVE  \E x \in 1 .. nextS'[conn] - 1 : Replied(i, x)'
  <2>1. CASE i \in 1 .. k
    <3>1. PICK x \in 1 .. nextS[conn] - 1 : Replied(i, x)
      BY <1>1, <2>1 DEF Inv, RepliesOK
    <3>2. x \in 1 .. nextS'[conn] - 1
      BY DEF Inv, ServerOK
    <3>3. outbox'[conn][i] = outbox[conn][i]
      BY <1>3, <1>6, <1>7, <2>1
    <3>4. (Due(sent[x].call))' = Due(sent[x].call)
      BY <1>2 DEF Due
    <3>5. Replied(i, x)'
      BY <3>1, <3>3, <3>4 DEF Replied
    <3> QED
      BY <3>2, <3>5
  <2>2. CASE i = k + 1 /\ top = k + 1
    <3>1. outbox'[conn][i] = ReplyTo(m, err)
      BY <1>4, <1>6, <1>7, <2>2
    <3>2. (Due(sent[m].call))' = Due(sent[m].call)
      BY <1>2 DEF Due
    <3>3. Replied(i, m)'
      BY <3>1, <3>2 DEF Replied
    <3>4. m \in 1 .. nextS'[conn] - 1
      OBVIOUS
    <3> QED
      BY <3>3, <3>4
  <2> QED
    BY <1>1, <1>7, <2>1, <2>2
<1>13. RepliesOK'
  <2>1. \A i, j \in 1 .. k : Reply(i).msg = Reply(j).msg => i = j
    BY <1>1 DEF Inv, RepliesOK
  <2>2. ASSUME NEW i \in 1 .. top, NEW j \in 1 .. top, Reply(i)'.msg = Reply(j)'.msg
        PROVE  i = j
    <3>1. i \in 1 .. k \/ (i = k + 1 /\ top = k + 1)
      BY <1>1, <1>7
    <3>2. j \in 1 .. k \/ (j = k + 1 /\ top = k + 1)
      BY <1>1, <1>7
    <3>3. top = k + 1 => Reply(k + 1)'.msg = m
      BY <1>9
    <3>4. \A x \in 1 .. k : Reply(x)'.msg = Reply(x).msg /\ Reply(x).msg # m
      BY <1>1, <1>8
    <3> QED
      BY <2>1, <2>2, <3>1, <3>2, <3>3, <3>4
  <2>3. DOMAIN outbox'[conn] = 1 .. top
    BY <1>6, <1>7
  <2> QED
    BY <1>6, <1>12, <2>2, <2>3 DEF RepliesOK
<1>14. ClientOK' /\ FiredOK'
  <2>1. \A i \in DOMAIN Served : i \in DOMAIN Served' /\ Served'[i] = Served[i]
    BY <1>1, <1>7, <1>10
  <2>2. Len(outbox'[conn]) \in Nat /\ Len(outbox[conn]) <= Len(outbox'[conn])
    BY <1>1, <1>6, <1>7
  <2> QED
    BY <2>1, <2>2, MoreReplies
<1>15. CASE top = k
  <2>1. outbox' = outbox
    BY <1>3, <1>5, <1>7, <1>15 DEF Inv, RepliesOK
  <2> QED
    BY <1>2, <1>13, <1>14, <2>1, SameReplies
<1>16. CASE top = k + 1
  <2>1. sent[m].call \in Calls
    BY CallsAreCalls DEF Inv, SentOK
  <2>2. Served'[k + 1] = sent[m].call
    BY <1>2, <1>6, <1>7, <1>9, <1>16 DEF Served
  <2>3. Served \in Seq(Calls) /\ Served' \in Seq(Calls) /\ Len(Served) = k /\ Len(Served') = k + 1
    <3>1. \A i \in 1 .. k : Served[i] \in Calls
      BY <1>1, ServedCalls
    <3>2. \A i \in 1 .. k + 1 : Served'[i] \in Calls
      BY <1>10, <2>1, <2>2, <3>1
    <3>3. Served = [i \in 1 .. k |-> Served[i]] /\ Served' = [i \in 1 .. k + 1 |-> Served'[i]]
      BY <1>1, <1>10, <1>16 DEF Served
    <3>4. Served \in [1 .. k -> Calls] /\ Served' \in [1 .. k + 1 -> Calls]
      BY <3>1, <3>2, <3>3
    <3>5. k + 1 \in Nat
      OBVIOUS
    <3>6. Served \in Seq(Calls) /\ Len(Served) = k
      BY <3>4, FunctionIsSeq
    <3>7. Served' \in Seq(Calls) /\ Len(Served') = k + 1
      BY <3>4, <3>5, FunctionIsSeq
    <3> QED
      BY <3>6, <3>7
  <2>4. Served' = Append(Served, sent[m].call)
    BY <1>10, <2>1, <2>2, <2>3, AppendProperties, SeqEqual
  <2>5. ASSUME NEW i \in DOMAIN Served, Served[i] = sent[m].call PROVE FALSE
    <3>1. PICK x \in DOMAIN sent : Reply(i).msg = x /\ Served[i] = sent[x].call
      BY <1>1, ReplyFields, ServedCalls
    <3>0. m \in DOMAIN sent
      BY DEF Inv, SentOK
    <3>2. m = x
      BY <2>5, <3>0, <3>1 DEF Inv, SentOK
    <3> QED
      BY <1>1, <3>1, <3>2
  <2> QED
    BY <1>13, <1>14, <2>4, <2>5
<1> QED
  BY <1>15, <1>16

LEMMA TasksDiffer == \A m, n : Task(m) = Task(n) => m = n
BY DEF Task

(* Server steps keep what the client did. *)
LEMMA ServerSent ==
  ASSUME Inv, UNCHANGED <<plan, clientVars>>
  PROVE  SentOK' /\ \A n : Due(n)' = Due(n)
BY DEF Inv, SentOK, Due, clientVars

LEMMA HandleInv ==
  ASSUME Inv, ServerHandles
  PROVE  /\ Inv'
         /\ \/ Served' = Served
            \/ \E n \in Calls : /\ n < issued /\ Served' = Append(Served, n)
                                /\ \A i \in DOMAIN Served : Served[i] # n
<1>1. UNCHANGED <<plan, clientVars>> /\ Server!Handle(loop)
  BY DEF ServerHandles
<1>2. sent' = sent /\ plan' = plan
  BY <1>1 DEF clientVars
<1>3. SentOK'
  BY <1>1, ServerSent
<1>4. CASE /\ cur' = [cur EXCEPT ![loop] = "none"]
           /\ UNCHANGED <<gotS, nextS, linkS, elemS, tasks, outbox>>
  <2>1. Served' = Served /\ \A n : Due(n)' = Due(n)
    BY <1>2, <1>4, SameReplies
  <2>2. (\A m : (Due(sent[m].call))' = Due(sent[m].call))
    BY <1>2 DEF Due
  <2>3. ServerOK'
    BY <1>2, <1>4, <2>2 DEF Inv, ServerOK
  <2>4. RepliesOK'
    BY <1>2, <1>4, <2>2 DEF Inv, RepliesOK, Replied, Reply
  <2>5. ClientOK' /\ FiredOK'
    <3>1. Len(outbox'[conn]) \in Nat /\ Len(outbox[conn]) <= Len(outbox'[conn])
      BY <1>4 DEF Inv, RepliesOK
    <3> QED
      BY <1>1, <2>1, <3>1, MoreReplies
  <2> QED
    BY <1>3, <2>1, <2>3, <2>4, <2>5 DEF Inv
<1>5. ASSUME NEW m, Takes(m), UNCHANGED <<gotS, elemS>>
      PROVE  /\ m \in 1 .. Len(sent) /\ m < nextS'[conn] /\ nextS[conn] <= nextS'[conn]
             /\ nextS'[conn] \in Nat /\ nextS' \in [{conn} -> Nat]
             /\ nextS'[conn] \in 1 .. gotS'[conn] + 1
             /\ Task(m) \notin tasks
             /\ \A i \in DOMAIN outbox[conn] : Reply(i).msg # m
             /\ sent[m].call \in Calls /\ sent[m].call < issued
             /\ \A t \in tasks : \E x \in 1 .. nextS'[conn] - 1 :
                   t = Task(x) /\ (Due(sent[x].call))' = "result"
  <2>1. m \in DOMAIN sent /\ m \in Nat /\ m = nextS[conn] /\ m <= gotS[conn]
    BY <1>5 DEF Takes, Inv, ServerOK
  <2>2. nextS' = [nextS EXCEPT ![conn] = m + 1]
    BY <1>5 DEF Takes
  <2>3. nextS'[conn] = m + 1 /\ nextS' \in [{conn} -> Nat]
    BY <2>1, <2>2 DEF Inv, ServerOK
  <2>4. PICK g \in Nat : g = gotS[conn] /\ gotS' = gotS
    BY <1>5 DEF Inv, ServerOK
  <2>5. nextS'[conn] \in 1 .. gotS'[conn] + 1
    <3>1. m + 1 \in 1 .. g + 1
      BY <2>1, <2>4
    <3> QED
      BY <2>3, <2>4, <3>1
  <2>6. Task(m) \notin tasks
    BY <2>1, TasksDiffer DEF Inv, ServerOK
  <2>7. \A i \in DOMAIN outbox[conn] : Reply(i).msg # m
    BY <2>1, ReplyFields
  <2>8. sent[m].call \in Calls /\ sent[m].call < issued
    BY <2>1, CallsAreCalls DEF Inv, SentOK
  <2>9. \A x : (Due(sent[x].call))' = Due(sent[x].call)
    BY <1>2 DEF Due
  <2>10. \A t \in tasks : \E x \in 1 .. nextS'[conn] - 1 :
            t = Task(x) /\ (Due(sent[x].call))' = "result"
    BY <2>1, <2>3, <2>9 DEF Inv, ServerOK
  <2> QED
    BY <2>1, <2>3, <2>5, <2>6, <2>7, <2>8, <2>10 DEF Inv, SentOK
<1>6. ASSUME NEW m, Answers(m) \/ Refuses(m)
      PROVE  /\ Inv'
             /\ \/ Served' = Served
                \/ /\ Served' = Append(Served, sent[m].call)
                   /\ \A i \in DOMAIN Served : Served[i] # sent[m].call
             /\ sent[m].call \in Calls /\ sent[m].call < issued
  <2>1. PICK err \in Results : Writes(m, err) /\ (err = "none" <=> Due(sent[m].call) = "result")
    BY <1>6 DEF Answers, Refuses, Results, Server!Errors
  <2>2. Takes(m) /\ tasks' = tasks /\ gotS' = gotS /\ elemS' = elemS
    BY <1>6 DEF Answers, Refuses
  <2>3. /\ m \in 1 .. Len(sent) /\ m < nextS'[conn] /\ nextS[conn] <= nextS'[conn]
        /\ nextS'[conn] \in Nat /\ nextS' \in [{conn} -> Nat]
        /\ nextS'[conn] \in 1 .. gotS'[conn] + 1
        /\ Task(m) \notin tasks
        /\ \A i \in DOMAIN outbox[conn] : Reply(i).msg # m
        /\ sent[m].call \in Calls /\ sent[m].call < issued
        /\ \A t \in tasks : \E x \in 1 .. nextS'[conn] - 1 :
              t = Task(x) /\ (Due(sent[x].call))' = "result"
    BY <1>5, <2>2
  <2>4. /\ RepliesOK' /\ ClientOK' /\ FiredOK'
        /\ \/ Served' = Served
           \/ /\ Served' = Append(Served, sent[m].call)
              /\ \A i \in DOMAIN Served : Served[i] # sent[m].call
    BY <1>1, <2>1, <2>2, <2>3, WriteStep
  <2>5. /\ linkS' \in [{conn} -> {"up", "shut", "down"}]
        /\ cur' \in [{loop} -> {conn, "none"}]
    BY <1>6 DEF Answers, Refuses, Inv, ServerOK
  <2>6. ServerOK'
    BY <1>2, <2>2, <2>3, <2>5 DEF Inv, ServerOK
  <2> QED
    BY <1>3, <2>3, <2>4, <2>6 DEF Inv
<1>7. ASSUME NEW m, Queues(m) PROVE Inv' /\ Served' = Served
  <2>1. Takes(m) /\ gotS' = gotS /\ elemS' = elemS /\ outbox' = outbox
        /\ linkS' = linkS /\ cur' = cur
        /\ Due(sent[m].call) = "result" /\ tasks' = tasks \cup {Task(m)}
    BY <1>7 DEF Queues
  <2>2. /\ m \in 1 .. Len(sent) /\ m < nextS'[conn] /\ nextS[conn] <= nextS'[conn]
        /\ nextS'[conn] \in Nat /\ nextS' \in [{conn} -> Nat]
        /\ nextS'[conn] \in 1 .. gotS'[conn] + 1
        /\ \A i \in DOMAIN outbox[conn] : Reply(i).msg # m
        /\ \A t \in tasks : \E x \in 1 .. nextS'[conn] - 1 :
              t = Task(x) /\ (Due(sent[x].call))' = "result"
    BY <1>5, <2>1
  <2>3. \A x : (Due(sent[x].call))' = Due(sent[x].call)
    BY <1>2 DEF Due
  <2>4. ServerOK'
    <3>1. m \in 1 .. nextS'[conn] - 1 /\ (Due(sent[m].call))' = "result"
      BY <2>1, <2>2, <2>3
    <3>2. \A t \in tasks' : \E x \in 1 .. nextS'[conn] - 1 :
             t = Task(x) /\ (Due(sent[x].call))' = "result"
      BY <2>1, <2>2, <3>1
    <3> QED
      BY <1>2, <2>1, <2>2, <3>2 DEF Inv, ServerOK
  <2>5. Served' = Served
    BY <1>2, <2>1, SameReplies
  <2>6. RepliesOK'
    <3>1. ASSUME NEW i \in DOMAIN outbox[conn]
          PROVE  \E x \in 1 .. nextS'[conn] - 1 : Replied(i, x)'
      <4>1. PICK x \in 1 .. nextS[conn] - 1 : Replied(i, x)
        BY DEF Inv, RepliesOK
      <4>2. x \in 1 .. nextS'[conn] - 1 /\ x # m
        BY <2>1, <2>2 DEF Takes, Inv, ServerOK
      <4>3. Replied(i, x)'
        BY <2>1, <2>3, <4>1, <4>2, TasksDiffer DEF Replied
      <4> QED
        BY <4>2, <4>3
    <3>2. \A i, j \in DOMAIN outbox'[conn] : Reply(i)'.msg = Reply(j)'.msg => i = j
      BY <2>1 DEF Inv, RepliesOK, Reply
    <3> QED
      BY <2>1, <3>1, <3>2 DEF Inv, RepliesOK
  <2>7. ClientOK' /\ FiredOK'
    <3>1. Len(outbox'[conn]) \in Nat /\ Len(outbox[conn]) <= Len(outbox'[conn])
      BY <2>1 DEF Inv, RepliesOK
    <3> QED
      BY <1>1, <2>5, <3>1, MoreReplies
  <2> QED
    BY <1>3, <2>4, <2>5, <2>6, <2>7 DEF Inv
<1>8. CASE \E m : Answers(m) \/ Refuses(m)
  <2>1. PICK m : Answers(m) \/ Refuses(m)
    BY <1>8
  <2> QED
    BY <1>6, <2>1
<1>9. CASE \E m : Queues(m)
  BY <1>7, <1>9
<1> QED
  BY <1>1, <1>4, <1>8, <1>9, HandleStep

LEMMA PoolInv ==
  ASSUME Inv, PoolFinishes
  PROVE  /\ Inv'
         /\ \/ Served' = Served
            \/ \E n \in Calls : /\ n < issued /\ Served' = Append(Served, n)
                                /\ \A i \in DOMAIN Served : Served[i] # n
<1>1. UNCHANGED <<plan, clientVars>>
  BY DEF PoolFinishes
<1>2. sent' = sent /\ plan' = plan
  BY <1>1 DEF clientVars
<1>3. SentOK'
  BY <1>1, ServerSent
<1>4. PICK m : Finishes(m)
  BY PoolStep DEF PoolFinishes
<1>5. /\ m \in 1 .. nextS[conn] - 1 /\ Task(m) \in tasks /\ Due(sent[m].call) = "result"
      /\ tasks' = tasks \ {Task(m)} /\ Writes(m, "none")
      /\ UNCHANGED <<gotS, nextS, linkS, cur, elemS>>
  BY <1>4 DEF Finishes
<1>6. m \in 1 .. Len(sent) /\ m \in DOMAIN sent /\ m < nextS[conn] /\ nextS[conn] \in Nat
  BY <1>5 DEF Inv, ServerOK, SentOK
<1>7. \A i \in DOMAIN outbox[conn] : Reply(i).msg # m
  BY <1>5, ReplyFields DEF Replied
<1>8. sent[m].call \in Calls /\ sent[m].call < issued
  BY <1>6, CallsAreCalls DEF Inv, SentOK
<1>9. "none" \in Results
  BY DEF Results
<1>10. tasks' \subseteq tasks /\ Task(m) \notin tasks' /\ nextS' = nextS
  BY <1>5
<1>11. /\ RepliesOK' /\ ClientOK' /\ FiredOK'
       /\ \/ Served' = Served
          \/ /\ Served' = Append(Served, sent[m].call)
             /\ \A i \in DOMAIN Served : Served[i] # sent[m].call
  BY <1>1, <1>5, <1>6, <1>7, <1>9, <1>10, WriteStep
<1>12. \A x : (Due(sent[x].call))' = Due(sent[x].call)
  BY <1>2 DEF Due
<1>13. ServerOK'
  BY <1>2, <1>5, <1>10, <1>12 DEF Inv, ServerOK
<1> QED
  BY <1>3, <1>8, <1>11, <1>13 DEF Inv

(* Reading moves no message out of the buffer. *)
LEMMA ServerReadInv ==
  ASSUME Inv, ServerReads \/ ServerLoses
  PROVE  Inv' /\ Served' = Served
<1>1. /\ UNCHANGED <<plan, clientVars, nextS, elemS, tasks, outbox>>
      /\ linkS' \in [{conn} -> {"up", "shut", "down"}]
      /\ cur' \in [{loop} -> {conn, "none"}]
  BY DEF ServerReads, ServerLoses, Server!Read, Server!PeerCloses, Inv, ServerOK
<1>2. sent' = sent /\ plan' = plan
  BY <1>1 DEF clientVars
<1>3. \A x : (Due(sent[x].call))' = Due(sent[x].call)
  BY <1>2 DEF Due
<1>4. PICK n \in Nat, g \in Nat : n = Len(Requests[conn]) /\ n = Len(sent) /\ g = gotS[conn] /\ g <= n
  BY DEF Requests, Inv, SentOK, ServerOK
<1>5. PICK h \in g .. n : gotS'[conn] = h /\ gotS' \in [{conn} -> Nat]
  <2>1. CASE ServerReads
    <3>1. PICK h \in g .. n : gotS' = [gotS EXCEPT ![conn] = h]
      BY <1>4, <2>1 DEF ServerReads, Server!Read
    <3> QED
      BY <3>1 DEF Inv, ServerOK
  <2>2. CASE ServerLoses
    BY <1>4, <2>2 DEF ServerLoses, Server!PeerCloses, Inv, ServerOK
  <2> QED
    BY <2>1, <2>2
<1>6. ServerOK'
  <2>1. PICK x \in Nat : x = nextS[conn] /\ x \in 1 .. g + 1 /\ nextS' = nextS
    BY <1>1, <1>4 DEF Inv, ServerOK
  <2>2. x \in 1 .. h + 1
    BY <1>5, <2>1
  <2>3. nextS'[conn] \in 1 .. gotS'[conn] + 1
    BY <1>5, <2>1, <2>2, Zenon
  <2> QED
    BY <1>1, <1>2, <1>3, <1>4, <1>5, <2>3 DEF Inv, ServerOK
<1>7. Served' = Served
  BY <1>1, <1>2, SameReplies
<1>8. RepliesOK'
  BY <1>1, <1>2, <1>3 DEF Inv, RepliesOK, Replied, Reply
<1>9. ClientOK' /\ FiredOK'
  <2>1. Len(outbox'[conn]) \in Nat /\ Len(outbox[conn]) <= Len(outbox'[conn])
    BY <1>1 DEF Inv, RepliesOK
  <2> QED
    BY <1>1, <1>7, <2>1, MoreReplies
<1>10. SentOK'
  BY <1>1, ServerSent
<1> QED
  BY <1>6, <1>7, <1>8, <1>9, <1>10 DEF Inv

----------------------------------------------------------------------------
LEMMA InitInv == Init => Inv
<1> SUFFICES ASSUME Init PROVE Inv
  OBVIOUS
<1>1. /\ plan \in Plans /\ sent = <<>> /\ outbox = [c \in {conn} |-> <<>>]
      /\ gotS = [c \in {conn} |-> 0] /\ nextS = [c \in {conn} |-> 1]
      /\ linkS = [c \in {conn} |-> "up"] /\ cur = [l \in {loop} |-> "none"]
      /\ elemS = [l \in {loop} |-> 0] /\ tasks = {}
  BY DEF Init, Server!Init
<1>2. /\ id = 0 /\ issued = 0 /\ callbacks = <<>> /\ linkC = "up" /\ gotC = 0 /\ nextC = 1
      /\ busy = FALSE /\ elemC = 0 /\ calling = FALSE /\ fired = <<>>
  BY DEF Init, Client!Init
<1>3. SentOK
  BY <1>1, <1>2, SystemAssumption DEF SentOK
<1>4. ServerOK
  BY <1>1 DEF ServerOK
<1>5. RepliesOK
  BY <1>1 DEF RepliesOK
<1>6. ClientOK
  <2>1. gotC \in 0 .. Len(outbox[conn]) /\ nextC \in 1 .. gotC + 1
    BY <1>1, <1>2
  <2>2. DOMAIN callbacks = {}
    BY <1>2
  <2>3. busy \in BOOLEAN /\ calling \in BOOLEAN /\ ~ calling
    BY <1>2, Zenon
  <2>4. elemC \in {0, 1} /\ elemC # 1
    BY <1>2
  <2> QED
    BY <1>2, <2>1, <2>2, <2>3, <2>4 DEF ClientOK
<1>7. FiredOK
  BY <1>2 DEF FiredOK
<1> QED
  BY <1>3, <1>4, <1>5, <1>6, <1>7 DEF Inv

LEMMA StutterInv == Inv /\ UNCHANGED vars => Inv'
<1> SUFFICES ASSUME Inv, UNCHANGED vars PROVE Inv'
  OBVIOUS
<1>1. UNCHANGED <<plan, sent, id, issued, serverVars, clientVars>>
  BY DEF vars, clientVars
<1>2. Served' = Served
  BY <1>1, SameReplies DEF serverVars
<1>3. ClientOK' /\ FiredOK'
  <2>1. Len(outbox'[conn]) \in Nat /\ Len(outbox[conn]) <= Len(outbox'[conn])
    BY <1>1 DEF Inv, RepliesOK, serverVars
  <2> QED
    BY <1>1, <1>2, <2>1, MoreReplies
<1> QED
  BY <1>1, <1>3, ClientMoves

LEMMA NextInv == Inv /\ [Next]_vars => Inv'
<1>1. ASSUME Inv, Next PROVE Inv'
  BY <1>1, ServerReadInv, HandleInv, PoolInv, CallInv, ClientReadInv, ClientHandleInv
     DEF Next, ClientHandles
<1> QED
  BY <1>1, StutterInv

LEMMA InvHolds == Spec => []Inv
BY InitInv, NextInv, PTL DEF Spec

----------------------------------------------------------------------------
(* The contract.                                                           *)
Returns == [m \in DOMAIN fired |->
              [call |-> fired[m].call, told |-> Told(fired[m].answered)]]

LEMMA ToldIsDue ==
  ASSUME Inv, NEW n, \E i \in DOMAIN Served : Served[i] = n
  PROVE  Told(n) = Due(n)
<1>1. PICK i : i = CHOOSE j \in DOMAIN Served : Served[j] = n
  OBVIOUS
<1>2. i \in DOMAIN Served /\ Served[i] = n
  BY <1>1
<1>3. i \in DOMAIN outbox[conn]
  BY <1>2 DEF Served
<1>4. Says(Reply(i)).body = Due(n)
  BY <1>2, <1>3, ServedCalls
<1> QED
  BY <1>1, <1>4 DEF Told

(* What was told is what is due, before and after every step. *)
DueReturns == [m \in DOMAIN fired |-> [call |-> fired[m].call, told |-> Due(fired[m].call)]]

ReturnsDue == Returns = DueReturns

LEMMA ReturnsAreDue == Inv => ReturnsDue
<1> SUFFICES ASSUME Inv PROVE Returns = DueReturns
  BY DEF ReturnsDue
<1>1. \A m \in DOMAIN fired : Told(fired[m].answered) = Due(fired[m].call)
  BY ToldIsDue DEF Inv, FiredOK
<1> QED
  BY <1>1 DEF Returns, DueReturns

LEMMA SameReturns ==
  ASSUME ReturnsDue, ReturnsDue', fired' = fired, UNCHANGED plan
  PROVE  Returns' = Returns
<1>1. DueReturns' = DueReturns
  BY DEF DueReturns, Due
<1> QED
  BY <1>1 DEF ReturnsDue

(* The contract's view of a state, with its four variables named. *)
Outcome == [n \in Calls |-> Due(n)]

LEMMA SameOutcome == UNCHANGED plan => Outcome' = Outcome
BY DEF Outcome, Due

LEMMA ContractInit == Init => Contract!Init
<1> SUFFICES ASSUME Init PROVE Contract!Init
  OBVIOUS
<1>1. outbox[conn] = <<>> /\ issued = 0 /\ fired = <<>>
  BY DEF Init, Client!Init
<1>2. Served = <<>> /\ Returns = <<>>
  BY <1>1 DEF Served, Returns
<1>3. \A n : Due(n) \in {"result", "error"}
  BY DEF Due
<1> QED
  BY <1>1, <1>2, <1>3 DEF Contract!Init, Contract!Calls, Calls, Returns

LEMMA ContractServe ==
  ASSUME Inv, ReturnsDue, ReturnsDue', UNCHANGED <<plan, issued, fired>>,
         \/ Served' = Served
         \/ \E n \in Calls : /\ n < issued /\ Served' = Append(Served, n)
                             /\ \A i \in DOMAIN Served : Served[i] # n
  PROVE  [Contract!Next]_(Contract!vars)
<1>1. Returns' = Returns /\ Outcome' = Outcome
  BY SameReturns, SameOutcome
<1>2. CASE Served' = Served
  BY <1>1, <1>2 DEF Contract!vars, Returns, Outcome
<1>3. CASE \E n \in Calls : /\ n < issued /\ Served' = Append(Served, n)
                            /\ \A i \in DOMAIN Served : Served[i] # n
  <2>1. PICK n \in Calls : /\ n < issued /\ Served' = Append(Served, n)
                           /\ \A i \in DOMAIN Served : Served[i] # n
    BY <1>3
  <2>2. Contract!Serve(n)
    BY <1>1, <2>1 DEF Contract!Serve, Contract!IsServed, Returns, Outcome
  <2> QED
    BY <2>2 DEF Contract!Next, Contract!Calls, Calls
<1> QED
  BY <1>2, <1>3

LEMMA ContractReturn ==
  ASSUME Inv, ReturnsDue, ReturnsDue', UNCHANGED <<plan, sent, serverVars>>, Invokes
  PROVE  Contract!Next
<1>1. Served' = Served /\ Outcome' = Outcome
  BY SameReplies, SameOutcome DEF serverVars
<1>2. PICK n \in Calls : n = InHand
  BY ResponseInHand DEF Invokes
<1>3. Served[nextC - 1] = n /\ nextC - 1 \in DOMAIN Served
  BY <1>2, ResponseInHand DEF Invokes, InHand, Served
<1>4. Contract!IsServed(n)
  BY <1>3 DEF Contract!IsServed
<1>5. \A m \in DOMAIN fired : fired[m].call # n
  BY <1>2 DEF Invokes, Inv, FiredOK
<1>6. ~ Contract!HasReturned(n)
  BY <1>5 DEF Contract!HasReturned
<1>7. \A m : (Due(m))' = Due(m)
  BY SameReplies DEF serverVars
<1>8. PICK k \in Nat : k = Len(fired) /\ DOMAIN fired = 1 .. k
  BY DEF Inv, FiredOK
<1>9. PICK f \in Invocations : f = [call |-> n, answered |-> n]
  BY DEF Invocations
<1>10. /\ DOMAIN fired' = 1 .. k + 1 /\ fired'[k + 1] = f
       /\ \A m \in 1 .. k : fired'[m] = fired[m]
  <2>1. fired' = Append(fired, f) /\ fired \in Seq(Invocations)
    BY <1>2, <1>9 DEF Invokes, Inv, FiredOK
  <2> QED
    BY <1>8, <2>1, AppendProperties, LenProperties
<1>11. PICK old, new : old = Returns /\ new = Returns'
  OBVIOUS
<1>12. /\ \A m \in 1 .. k : old[m] = [call |-> fired[m].call, told |-> Due(fired[m].call)]
       /\ old = [m \in 1 .. k |-> old[m]]
  BY <1>8, <1>11 DEF ReturnsDue, DueReturns
<1>13. \A m \in 1 .. k + 1 : (Due(fired[m].call))' = Due(fired'[m].call)
  BY DEF Due
<1>14. /\ \A m \in 1 .. k + 1 : new[m] = [call |-> fired'[m].call, told |-> Due(fired'[m].call)]
       /\ new = [m \in 1 .. k + 1 |-> new[m]]
  BY <1>10, <1>11, <1>13 DEF ReturnsDue, DueReturns
<1>15. new[k + 1] = [call |-> n, told |-> Due(n)] /\ \A m \in 1 .. k : new[m] = old[m]
  <2>1. k + 1 \in 1 .. k + 1 /\ \A m \in 1 .. k : m \in 1 .. k + 1
    OBVIOUS
  <2> QED
    BY <1>9, <1>10, <1>12, <1>14, <2>1
<1>16. new = Append(old, [call |-> n, told |-> Outcome[n]])
  <2>1. PICK T : T = {new[m] : m \in 1 .. k + 1}
    OBVIOUS
  <2>2. \A m \in 1 .. k + 1 : new[m] \in T
    BY <2>1
  <2>3. new \in [1 .. k + 1 -> T] /\ old \in [1 .. k -> T]
    <3>1. \A m \in 1 .. k : m \in 1 .. k + 1
      OBVIOUS
    <3>2. \A m \in 1 .. k : old[m] \in T
      BY <1>15, <2>2, <3>1, Zenon
    <3>3. new = [m \in 1 .. k + 1 |-> new[m]] /\ old = [m \in 1 .. k |-> old[m]]
      BY <1>12, <1>14
    <3> QED
      BY <2>2, <3>2, <3>3, Zenon
  <2>4. new = Append(old, new[k + 1])
    BY <1>15, <2>3, AppendIs
  <2>5. Outcome[n] = Due(n)
    BY <1>2 DEF Outcome
  <2> QED
    BY <1>15, <2>4, <2>5
<1>17. Contract!Return(n)
  BY <1>1, <1>4, <1>6, <1>11, <1>16 DEF Contract!Return, Returns, Outcome, Invokes
<1> QED
  BY <1>17 DEF Contract!Next, Contract!Calls, Calls

LEMMA ContractStep ==
  Inv /\ Inv' /\ ReturnsDue /\ ReturnsDue' /\ [Next]_vars => [Contract!Next]_(Contract!vars)
<1> SUFFICES ASSUME Inv, Inv', ReturnsDue, ReturnsDue', [Next]_vars
             PROVE  [Contract!Next]_(Contract!vars)
  OBVIOUS
<1>1. CASE ServerHandles \/ PoolFinishes \/ ServerReads \/ ServerLoses
  <2>1. UNCHANGED <<plan, issued, fired>>
    BY <1>1 DEF ServerHandles, PoolFinishes, ServerReads, ServerLoses, clientVars
  <2>2. \/ Served' = Served
        \/ \E n \in Calls : /\ n < issued /\ Served' = Append(Served, n)
                            /\ \A i \in DOMAIN Served : Served[i] # n
    BY <1>1, HandleInv, PoolInv, ServerReadInv
  <2> QED
    BY <2>1, <2>2, ContractServe
<1>2. CASE ClientCalls
  <2>1. issued < MaxCalls /\ issued' = issued + 1 /\ UNCHANGED <<plan, fired, Served>>
    BY <1>2, CallInv
  <2>2. Returns' = Returns /\ Outcome' = Outcome
    BY <2>1, SameReturns, SameOutcome
  <2>3. Contract!Call
    BY <2>1, <2>2 DEF Contract!Call, Returns, Outcome
  <2> QED
    BY <2>3 DEF Contract!Next
<1>3. ASSUME UNCHANGED <<plan, sent, serverVars, issued, fired>>
      PROVE  [Contract!Next]_(Contract!vars)
  <2>1. Served' = Served
    BY <1>3, SameReplies DEF serverVars
  <2> QED
    BY <1>3, <2>1, ContractServe
<1>4. CASE ClientReads \/ ClientLoses
  <2>1. UNCHANGED <<plan, sent, serverVars, issued, fired>>
    BY <1>4 DEF ClientReads, ClientLoses, Client!Read, Client!ConnectionDown
  <2> QED
    BY <1>3, <2>1
<1>5. CASE ClientHandles
  <2>1. UNCHANGED <<plan, sent, serverVars>> /\ Client!Handle
    BY <1>5 DEF ClientHandles
  <2>2. CASE Invokes
    BY <2>1, <2>2, ContractReturn
  <2>3. CASE ReadEnds \/ TakesResponse \/ PassesResponse \/ Forgets
    BY <1>3, <2>1, <2>3 DEF ReadEnds, TakesResponse, PassesResponse, Forgets
  <2> QED
    BY <2>1, <2>2, <2>3, ClientStep
<1>6. CASE UNCHANGED vars
  <2>1. UNCHANGED <<plan, sent, serverVars, issued, fired>>
    BY <1>6 DEF vars, clientVars
  <2> QED
    BY <1>3, <2>1
<1> QED
  BY <1>1, <1>2, <1>4, <1>5, <1>6 DEF Next

(* For any registry and any calls, whatever pool threads do, whenever      *)
(* messages are delivered and whichever side loses the connection: client  *)
(* and server together implement the contract.  No call is served twice,   *)
(* no callback is invoked twice or before its call was served, and each is *)
(* told what is due.                                                       *)
THEOREM SystemImplementsContract == Spec => CallsKeepTheContract
<1>1. Init => Contract!Init
  BY ContractInit
<1>2. Inv /\ Inv' /\ ReturnsDue /\ ReturnsDue' /\ [Next]_vars
        => [Contract!Next]_(Contract!vars)
  BY ContractStep
<1>3. Spec => Contract!Spec
  BY <1>1, <1>2, InvHolds, ReturnsAreDue, PTL DEF Spec, Contract!Spec
<1> QED
  BY <1>3 DEF CallsKeepTheContract
----------------------------------------------------------------------------
(* Calls that wait.  A call is somewhere as long as nothing it depends on  *)
(* changes; a link that goes down excuses all of them.                     *)
Excused == linkS[conn] # "up" \/ linkC = "down"

LEMMA SameWay ==
  ASSUME UNCHANGED <<sent, nextS, tasks, nextC, elemC>>, Served' = Served
  PROVE  \A n : IsOnItsWay(n) => IsOnItsWay(n)'
BY DEF IsOnItsWay

LEMMA SameWaiting ==
  ASSUME WaitingOK, \A n \in DOMAIN callbacks' : n \in DOMAIN callbacks /\ (IsOnItsWay(n) => IsOnItsWay(n)'),
         Excused => Excused'
  PROVE  WaitingOK'
BY DEF WaitingOK, Excused

LEMMA WaitingInit == Init => WaitingOK
BY DEF Init, Client!Init, WaitingOK

LEMMA WaitingClient ==
  ASSUME Inv, WaitingOK, MaxCalls <= MaxInt32 + 1, UNCHANGED <<plan, sent, serverVars>>, Client!Handle
  PROVE  WaitingOK'
<1>1. Served' = Served /\ UNCHANGED <<sent, nextS, tasks, linkS>>
  BY SameReplies DEF serverVars
<1>2. PICK k \in Nat : DOMAIN Served = 1 .. k /\ nextC \in Nat
  BY DEF Inv, RepliesOK, Served, ClientOK
<1>3. CASE ReadEnds \/ Invokes
  <2>1. UNCHANGED <<callbacks, nextC, elemC, linkC>>
    BY <1>3 DEF ReadEnds, Invokes
  <2> QED
    BY <1>1, <2>1, SameWay, SameWaiting DEF Excused
<1>4. CASE TakesResponse
  <2>1. UNCHANGED <<callbacks, linkC>> /\ elemC = 0 /\ nextC' = nextC + 1 /\ elemC' = 1
    BY <1>4 DEF TakesResponse
  <2>2. ASSUME NEW n, IsOnItsWay(n) PROVE IsOnItsWay(n)'
    <3>1. CASE \E i \in DOMAIN Served : Served[i] = n /\ (i >= nextC \/ (i = nextC - 1 /\ elemC > 0))
      <4>1. PICK i \in 1 .. k : Served[i] = n /\ i >= nextC
        BY <1>2, <2>1, <3>1
      <4>2. i >= nextC' \/ (i = nextC' - 1 /\ elemC' > 0)
        BY <1>2, <2>1, <4>1
      <4> QED
        BY <1>1, <1>2, <4>1, <4>2 DEF IsOnItsWay
    <3> QED
      BY <1>1, <2>2, <3>1 DEF IsOnItsWay
  <2> QED
    BY <1>1, <2>1, <2>2, SameWaiting DEF Excused
<1>5. CASE PassesResponse \/ Forgets
  <2>1. /\ UNCHANGED <<linkC, nextC>> /\ elemC = 1 /\ elemC' = 0
        /\ DOMAIN callbacks' = DOMAIN callbacks \ {InHand}
    <3>1. CASE PassesResponse
      <4>1. InHand <= MaxInt32
        BY <3>1, ResponseInHand, SystemAssumption DEF PassesResponse, Calls
      <4>2. InHand \notin DOMAIN callbacks
        BY <3>1, <4>1, ResponseInHand, SystemAssumption DEF PassesResponse, Calls
      <4> QED
        BY <3>1, <4>2 DEF PassesResponse
    <3>2. CASE Forgets
      BY <3>2 DEF Forgets, Inv, ClientOK
    <3> QED
      BY <1>5, <3>1, <3>2
  <2>2. ASSUME NEW n, n # InHand, IsOnItsWay(n) PROVE IsOnItsWay(n)'
    <3>1. CASE \E i \in DOMAIN Served : Served[i] = n /\ (i >= nextC \/ (i = nextC - 1 /\ elemC > 0))
      <4>1. PICK i \in 1 .. k : Served[i] = n /\ i >= nextC
        BY <1>2, <2>2, <3>1 DEF InHand
      <4> QED
        BY <1>1, <1>2, <2>1, <4>1 DEF IsOnItsWay
    <3> QED
      BY <1>1, <2>2, <3>1 DEF IsOnItsWay
  <2> QED
    BY <1>1, <2>1, <2>2, SameWaiting DEF Excused
<1> QED
  BY <1>3, <1>4, <1>5, ClientStep

LEMMA WaitingCall ==
  ASSUME Inv, WaitingOK, ClientCalls
  PROVE  WaitingOK'
<1>1. /\ UNCHANGED <<plan, serverVars, linkC, nextC, elemC>>
      /\ callbacks' = [j \in DOMAIN callbacks \cup {id} |-> IF j = id THEN issued ELSE callbacks[j]]
      /\ sent' = IF linkC = "up" THEN Append(sent, [call |-> issued, id |-> id]) ELSE sent
  BY DEF ClientCalls, Client!SendCall
<1>2. Served' = Served /\ UNCHANGED <<nextS, tasks, linkS>>
  BY <1>1, CallInv DEF serverVars
<1>3. CASE linkC = "down"
  BY <1>1, <1>3 DEF WaitingOK
<1>4. CASE linkC = "up"
  <2>1. PICK k \in Nat : k = Len(sent) /\ DOMAIN sent = 1 .. k /\ nextS[conn] \in Nat /\ nextS[conn] <= k + 1
    BY DEF Inv, SentOK, ServerOK
  <2>0. issued \in Calls /\ id = issued
    BY CallInv, SystemAssumption DEF Inv, SentOK, Calls
  <2>2. PICK new \in Sendings : new = [call |-> issued, id |-> issued]
    BY <2>0 DEF Sendings
  <2>3. DOMAIN sent' = 1 .. k + 1 /\ sent'[k + 1] = new /\ \A m \in 1 .. k : sent'[m] = sent[m]
    <3>1. sent' = Append(sent, new) /\ sent \in Seq(Sendings)
      BY <1>1, <1>4, <2>0, <2>2 DEF Inv, SentOK
    <3> QED
      BY <2>1, <3>1, AppendProperties, LenProperties
  <2>4. ASSUME NEW n, n = issued PROVE IsOnItsWay(n)'
    <3>1. k + 1 \in DOMAIN sent' /\ sent'[k + 1].call = n /\ k + 1 >= nextS'[conn]
      BY <1>2, <2>1, <2>2, <2>3, <2>4
    <3> QED
      BY <3>1 DEF IsOnItsWay
  <2>5. ASSUME NEW n, IsOnItsWay(n) PROVE IsOnItsWay(n)'
    <3>1. \A m \in 1 .. k : m \in 1 .. k + 1
      OBVIOUS
    <3> QED
      BY <1>1, <1>2, <2>1, <2>3, <2>5, <3>1 DEF IsOnItsWay
  <2>6. DOMAIN callbacks' = DOMAIN callbacks \cup {issued}
    BY <1>1 DEF Inv, SentOK
  <2> QED
    <3>1. linkS'[conn] # "up" <=> linkS[conn] # "up"
      BY <1>2
    <3>2. ASSUME NEW n \in DOMAIN callbacks', linkS[conn] = "up" PROVE IsOnItsWay(n)'
      BY <1>4, <2>4, <2>5, <2>6, <3>2 DEF WaitingOK
    <3> QED
      BY <3>1, <3>2 DEF WaitingOK
<1> QED
  BY <1>3, <1>4 DEF Inv, ClientOK

(* A reply that the server wrote on a connection that is up is behind all  *)
(* that the client read.                                                   *)
LEMMA WrittenIsOnItsWay ==
  ASSUME Inv, UNCHANGED <<sent, nextC, elemC>>, NEW m, NEW err \in Results, m \in Nat,
         Writes(m, err), linkS[conn] = "up", NEW call, call = sent[m].call
  PROVE  /\ IsOnItsWay(call)'
         /\ \A n, i : i \in DOMAIN Served /\ Served[i] = n => i \in DOMAIN Served' /\ Served'[i] = n
<1>1. PICK log \in Seq(ReplySet), k \in Nat : log = outbox[conn] /\ k = Len(log)
  BY DEF Inv, RepliesOK
<1>2. PICK new \in ReplySet : new = ReplyTo(m, err)
  BY DEF ReplySet
<1>3. outbox'[conn] = Append(log, new)
  BY <1>1, <1>2 DEF Writes, Inv, RepliesOK
<1>4. PICK more : more = outbox'[conn] /\ DOMAIN more = 1 .. k + 1 /\ more[k + 1] = new
                  /\ \A i \in 1 .. k : more[i] = log[i]
  BY <1>1, <1>3, AppendProperties, LenProperties
<1>5. DOMAIN Served' = 1 .. k + 1 /\ DOMAIN Served = 1 .. k
  BY <1>1, <1>4 DEF Served
<1>6. Served'[k + 1] = call
  <2>1. Reply(k + 1)'.msg = m
    BY <1>2, <1>4 DEF Reply, ReplyTo
  <2>2. k + 1 \in 1 .. k + 1
    OBVIOUS
  <2> QED
    BY <1>5, <2>1, <2>2 DEF Served
<1>7. k + 1 >= nextC'
  BY <1>1 DEF Inv, ClientOK
<1>8. IsOnItsWay(call)'
  <2>1. k + 1 \in DOMAIN Served'
    BY <1>5
  <2> QED
    BY <1>6, <1>7, <2>1 DEF IsOnItsWay
<1>9. ASSUME NEW i \in 1 .. k PROVE i \in 1 .. k + 1 /\ Served'[i] = Served[i]
  <2>1. Reply(i)' = Reply(i)
    BY <1>1, <1>4 DEF Reply
  <2> QED
    BY <1>5, <2>1 DEF Served
<1> QED
  BY <1>5, <1>8, <1>9

LEMMA WaitingServer ==
  ASSUME Inv, WaitingOK, ServerHandles \/ PoolFinishes
  PROVE  WaitingOK'
<1>1. UNCHANGED <<plan, clientVars>> /\ (Server!Handle(loop) \/ Server!Pool)
  BY DEF ServerHandles, PoolFinishes
<1>2. UNCHANGED <<sent, callbacks, nextC, elemC, linkC>> /\ plan' = plan
  BY <1>1 DEF clientVars
<1>3. CASE UNCHANGED <<nextS, linkS, tasks, outbox>>
  <2>1. Served' = Served
    BY <1>2, <1>3, SameReplies
  <2> QED
    BY <1>2, <1>3, <2>1, SameWay, SameWaiting DEF Excused
<1>4. ASSUME NEW m, Queues(m) PROVE WaitingOK'
  <2>1. /\ Takes(m) /\ UNCHANGED <<linkS, outbox>> /\ tasks' = tasks \cup {Task(m)}
    BY <1>4 DEF Queues
  <2>2. Served' = Served
    BY <1>2, <2>1, SameReplies
  <2>3. m \in DOMAIN sent /\ m \in Nat /\ nextS[conn] = m /\ nextS'[conn] = m + 1
    BY <2>1 DEF Takes, Inv, ServerOK
  <2>4. ASSUME NEW n, IsOnItsWay(n) PROVE IsOnItsWay(n)'
    <3>1. CASE \E x \in DOMAIN sent : sent[x].call = n /\ (x >= nextS[conn] \/ Task(x) \in tasks)
      <4>1. PICK x \in DOMAIN sent : sent[x].call = n /\ (x >= nextS[conn] \/ Task(x) \in tasks)
        BY <3>1
      <4>2. x \in Nat
        BY DEF Inv, SentOK
      <4>3. x >= nextS'[conn] \/ Task(x) \in tasks'
        BY <2>1, <2>3, <4>1, <4>2
      <4> QED
        BY <1>2, <4>1, <4>3 DEF IsOnItsWay
    <3> QED
      BY <1>2, <2>2, <2>4, <3>1 DEF IsOnItsWay
  <2> QED
    BY <1>2, <2>1, <2>4, SameWaiting DEF Excused
<1>5. ASSUME NEW m \in Nat, NEW err \in Results, Writes(m, err), linkS[conn] = "up", linkS' = linkS,
             \A x \in DOMAIN sent : x >= nextS[conn] \/ Task(x) \in tasks =>
               x = m \/ x >= nextS'[conn] \/ Task(x) \in tasks'
      PROVE  WaitingOK'
  <2>1. ASSUME NEW n, IsOnItsWay(n) PROVE IsOnItsWay(n)'
    <3>1. n = sent[m].call => IsOnItsWay(n)'
      BY <1>2, <1>5, WrittenIsOnItsWay
    <3>2. CASE \E x \in DOMAIN sent : sent[x].call = n /\ (x >= nextS[conn] \/ Task(x) \in tasks)
      <4>1. PICK x \in DOMAIN sent : sent[x].call = n /\ (x >= nextS[conn] \/ Task(x) \in tasks)
        BY <3>2
      <4>2. CASE x = m
        BY <3>1, <4>1, <4>2
      <4>3. CASE x >= nextS'[conn] \/ Task(x) \in tasks'
        BY <1>2, <4>1, <4>3 DEF IsOnItsWay
      <4> QED
        BY <1>5, <4>1, <4>2, <4>3
    <3>3. CASE \E i \in DOMAIN Served : Served[i] = n /\ (i >= nextC \/ (i = nextC - 1 /\ elemC > 0))
      <4>1. PICK i \in DOMAIN Served : Served[i] = n /\ (i >= nextC \/ (i = nextC - 1 /\ elemC > 0))
        BY <3>3
      <4>2. i \in DOMAIN Served' /\ Served'[i] = n
        BY <1>2, <1>5, <4>1, WrittenIsOnItsWay
      <4> QED
        BY <1>2, <4>1, <4>2 DEF IsOnItsWay
    <3> QED
      BY <2>1, <3>2, <3>3 DEF IsOnItsWay
  <2> QED
    BY <1>2, <1>5, <2>1, SameWaiting DEF Excused
<1>6. "none" \in Results
  BY DEF Results
<1>7. ASSUME NEW m, Answers(m) PROVE WaitingOK'
  <2>1. Takes(m) /\ Writes(m, "none") /\ UNCHANGED <<linkS, tasks>>
    BY <1>7 DEF Answers
  <2>2. CASE linkS[conn] # "up"
    BY <2>1, <2>2 DEF WaitingOK
  <2>3. CASE linkS[conn] = "up"
    <3>1. m \in Nat /\ nextS[conn] = m /\ nextS'[conn] = m + 1 /\ \A x \in DOMAIN sent : x \in Nat
      BY <2>1 DEF Takes, Inv, ServerOK, SentOK
    <3>2. \A x \in DOMAIN sent : x >= nextS[conn] \/ Task(x) \in tasks =>
            x = m \/ x >= nextS'[conn] \/ Task(x) \in tasks'
      BY <2>1, <3>1
    <3> QED
      BY <1>5, <1>6, <2>1, <2>3, <3>1, <3>2
  <2> QED
    BY <2>2, <2>3
<1>8. ASSUME NEW m, Refuses(m) PROVE WaitingOK'
  <2>1. linkS'[conn] # "up"
    BY <1>8 DEF Refuses, Inv, ServerOK
  <2> QED
    BY <2>1 DEF WaitingOK
<1>9. ASSUME NEW m, Finishes(m) PROVE WaitingOK'
  <2>1. /\ m \in Nat /\ Writes(m, "none") /\ UNCHANGED <<linkS, nextS>>
        /\ tasks' = tasks \ {Task(m)}
    BY <1>9 DEF Finishes, Inv, ServerOK
  <2>2. CASE linkS[conn] # "up"
    BY <2>1, <2>2 DEF WaitingOK
  <2>3. CASE linkS[conn] = "up"
    <3>1. \A x \in DOMAIN sent : x >= nextS[conn] \/ Task(x) \in tasks =>
            x = m \/ x >= nextS'[conn] \/ Task(x) \in tasks'
      BY <2>1, TasksDiffer
    <3> QED
      BY <1>5, <1>6, <2>1, <2>3, <3>1
  <2> QED
    BY <2>2, <2>3
<1>10. CASE Server!Handle(loop)
  BY <1>3, <1>4, <1>7, <1>8, <1>10, HandleStep
<1>11. CASE Server!Pool
  BY <1>9, <1>11, PoolStep
<1> QED
  BY <1>1, <1>10, <1>11

LEMMA WaitingNext ==
  MaxCalls <= MaxInt32 + 1 => (Inv /\ WaitingOK /\ [Next]_vars => WaitingOK')
<1> SUFFICES ASSUME MaxCalls <= MaxInt32 + 1, Inv, WaitingOK, [Next]_vars PROVE WaitingOK'
  OBVIOUS
<1>1. CASE ServerReads \/ ServerLoses
  <2>1. UNCHANGED <<clientVars, nextS, tasks>> /\ (linkS' = linkS \/ linkS'[conn] = "down")
    BY <1>1 DEF ServerReads, ServerLoses, Server!Read, Server!PeerCloses, Inv, ServerOK
  <2>2. Served' = Served
    BY <1>1, ServerReadInv
  <2>3. Excused => Excused'
    BY <2>1 DEF Excused, clientVars
  <2> QED
    BY <2>1, <2>2, <2>3, SameWay, SameWaiting DEF clientVars
<1>2. CASE ClientReads \/ ClientLoses
  <2>1. /\ UNCHANGED <<plan, sent, serverVars, callbacks, nextC, elemC>>
        /\ linkC' = linkC \/ linkC' = "down"
    BY <1>2 DEF ClientReads, ClientLoses, Client!Read, Client!ConnectionDown
  <2>2. Served' = Served
    BY <2>1, SameReplies DEF serverVars
  <2>3. Excused => Excused'
    BY <2>1 DEF Excused, serverVars
  <2> QED
    BY <2>1, <2>2, <2>3, SameWay, SameWaiting DEF serverVars
<1>3. CASE UNCHANGED vars
  <2>1. UNCHANGED <<plan, serverVars, clientVars>>
    BY <1>3 DEF vars
  <2>2. Served' = Served
    BY <2>1, SameReplies DEF serverVars, clientVars
  <2> QED
    BY <2>1, <2>2, SameWay, SameWaiting DEF serverVars, clientVars, Excused
<1>4. CASE ClientHandles
  BY <1>4, WaitingClient DEF ClientHandles
<1> QED
  BY <1>1, <1>2, <1>3, <1>4, WaitingServer, WaitingCall DEF Next

LEMMA WaitingIsSomewhere == Inv /\ WaitingOK => WaitingCallsAreSomewhere
BY DEF Inv, ClientOK, WaitingOK, WaitingCallsAreSomewhere, Client!Pending

(* No call gets stuck between the components: as long as both sides have   *)
(* the connection, every call whose callback waits is on its way to the    *)
(* server, with the pool or on its way back.  The ids must fit an INT32,   *)
(* since the client rejects every response whose id is larger.             *)
THEOREM NoCallIsStuck ==
  MaxCalls <= MaxInt32 + 1 => (Spec => []WaitingCallsAreSomewhere)
<1> SUFFICES ASSUME MaxCalls <= MaxInt32 + 1 PROVE Spec => []WaitingCallsAreSomewhere
  OBVIOUS
<1>1. Inv /\ WaitingOK /\ [Next]_vars => WaitingOK'
  BY WaitingNext
<1> QED
  BY <1>1, WaitingInit, WaitingIsSomewhere, InvHolds, PTL DEF Spec
================================================================================
