----------------------------- MODULE RpcServer -----------------------------
(***************************************************************************)
(* The server: event loops that read framed messages from connections and  *)
(* run BaseServer::onMessage -> handleMessage -> RpcServer::handleRequest, *)
(* and pool threads that finish the procedures which user code hands off   *)
(* (ArithmeticService does so for all four of its procedures).             *)
(*                                                                         *)
(* A loop handles one message at a time, and a batch one element per step: *)
(* pool threads run between those steps.  Handlers of one loop never       *)
(* interleave; a connection belongs to one loop for its whole life.        *)
(*                                                                         *)
(* What a peer sends is fixed in the initial state: inbox[c] is the        *)
(* sequence of messages on connection c, of which got[c] have reached the  *)
(* connection's input buffer and those below next[c] were taken out of it. *)
(* A response is identified by the request it answers: connection, message *)
(* and element number (0 when the message is refused as a whole).          *)
(***************************************************************************)
EXTENDS RpcDispatch

CONSTANTS
  Conns,     (* connections, each of one client                            *)
  Loops,     (* event loop threads (setNumThread)                          *)
  LoopOf,    (* the loop that serves each connection                       *)
  Inboxes,   (* the message sequences peers may send, per connection       *)
  Pooled,    (* methods whose implementation hands the call to a pool      *)
  NoConn     (* what a loop serves while it waits for events               *)

(* A blank line is no message, but stands between them like one: a peer    *)
(* that does not count the end of line behind its messages leaves one      *)
(* behind each.                                                            *)
Forms   == {"blank", "badHeader", "unparsable", "scalar", "object", "array"}
IsMessage(m) == /\ m.form \in Forms
                /\ DOMAIN m.reqs = 1 .. Len(m.reqs)
                /\ Len(m.reqs) \in Nat
                /\ m.form = "object" => Len(m.reqs) = 1

ASSUME ServerAssumption ==
  /\ NoConn \notin Conns
  /\ LoopOf \in [Conns -> Loops]
  /\ \A box \in Inboxes : \A c \in Conns :
        /\ Len(box[c]) \in Nat
        /\ \A n \in 1 .. Len(box[c]) : IsMessage(box[c][n])

VARIABLES
  inbox,     (* [Conns -> Seq(Message)]: never changes                     *)
  got,       (* messages received into the input buffer                    *)
  next,      (* the next message handleMessage will look at                *)
  link,      (* "up", "shut" once the server shut it down, "down"          *)
  cur,       (* the connection whose onMessage each loop is running        *)
  elem,      (* 0, or the element handleBatchRequests is at                *)
  batch,     (* the responses collected by the batch in progress           *)
  tasks,     (* requests handed to the pool whose done was not called yet  *)
  outbox,    (* replies written to each connection                         *)
  alive      (* the process has not been terminated                        *)

vars == <<inbox, got, next, link, cur, elem, batch, tasks, outbox, alive>>

Calls     == [conn : Conns, msg : Nat, elem : Nat]
Responses == [conn : Conns, msg : Nat, elem : Nat, err : Errors \cup {"none"}]
Replies   == [form : {"object", "array"}, msg : Nat, responses : Seq(Responses)]

CallOf(r) == [conn |-> r.conn, msg |-> r.msg, elem |-> r.elem]
Answer(call, err) == [conn |-> call.conn, msg |-> call.msg, elem |-> call.elem, err |-> err]
Request(call) == inbox[call.conn][call.msg].reqs[call.elem]
InArray(call) == inbox[call.conn][call.msg].form = "array"

(* What becomes of one request: validation and lookup refuse or drop it,   *)
(* or its procedure runs and answers within the handler or later.          *)
Outcome(req) ==
  LET v == Verdict(req).verdict
  IN  CASE v = "refuse" -> "refused"
        [] v = "drop"   -> "dropped"
        [] v = "run" /\ IsNotify(req) -> "notified"
        [] v = "run" /\ ~ IsNotify(req) ->
             IF req.members["method"].val \in Pooled THEN "queued" ELSE "answered"

Init ==
  /\ inbox \in Inboxes
  /\ got    = [c \in Conns |-> 0]
  /\ next   = [c \in Conns |-> 1]
  /\ link   = [c \in Conns |-> "up"]
  /\ cur    = [l \in Loops |-> NoConn]
  /\ elem   = [l \in Loops |-> 0]
  /\ batch  = [l \in Loops |-> <<>>]
  /\ tasks  = {}
  /\ outbox = [c \in Conns |-> <<>>]
  /\ alive  = TRUE

(***************************************************************************)
(* The connection (mudong-ev): reading calls onMessage with everything     *)
(* received so far, and may bring no more than a piece of a message; send  *)
(* is without effect unless the connection is up; shutdown closes the      *)
(* sending side only, so reading goes on.                                  *)
(***************************************************************************)
WriteAlways(c, reply) == outbox' = [outbox EXCEPT ![c] = Append(@, reply)]

Write(c, reply) ==
  outbox' = [outbox EXCEPT ![c] = IF link[c] = "up" THEN Append(@, reply) ELSE @]

NoShutdown(c) == UNCHANGED link
Shutdown(c) == link' = [link EXCEPT ![c] = IF @ = "up" THEN "shut" ELSE @]

Read(l) ==
  /\ alive /\ cur[l] = NoConn
  /\ \E c \in Conns :
       /\ LoopOf[c] = l /\ link[c] # "down"
       /\ \E n \in got[c] .. Len(inbox[c]) : got' = [got EXCEPT ![c] = n]
       /\ cur' = [cur EXCEPT ![l] = c]
  /\ UNCHANGED <<inbox, next, link, elem, batch, tasks, outbox, alive>>

PeerCloses(c) ==
  /\ alive /\ link[c] # "down" /\ cur[LoopOf[c]] # c
  /\ link' = [link EXCEPT ![c] = "down"]
  /\ UNCHANGED <<inbox, got, next, cur, elem, batch, tasks, outbox, alive>>

(***************************************************************************)
(* handleMessage and handleRequest.                                        *)
(***************************************************************************)
InFrameLoop(l) == alive /\ cur[l] # NoConn /\ elem[l] = 0
HasHeader(l)   == next[cur[l]] <= Len(inbox[cur[l]])
HasFrame(l)    == next[cur[l]] <= got[cur[l]]
Frame(l)       == inbox[cur[l]][next[cur[l]]]
RetrieveAll(l) == next' = [next EXCEPT ![cur[l]] = got[cur[l]] + 1]
Retrieve(l)    == next' = [next EXCEPT ![cur[l]] = @ + 1]
Part(l, n, e)  == [conn |-> cur[l], msg |-> n, elem |-> e]

(* onMessage catches a RequestException: it sends the error, shuts the     *)
(* connection down and returns, leaving later frames where they are.       *)
FailUnseen(l, call, err) ==
  Shutdown(cur[l]) /\ cur' = [cur EXCEPT ![l] = NoConn] /\ UNCHANGED outbox

Fail(l, call, err) ==
  /\ Write(cur[l], [form |-> "object", msg |-> call.msg, responses |-> <<Answer(call, err)>>])
  /\ Shutdown(cur[l])
  /\ cur' = [cur EXCEPT ![l] = NoConn]

FrameLoopEndsAfterOne(l) ==
  /\ InFrameLoop(l) /\ (HasFrame(l) => next[cur[l]] > 1)
  /\ cur' = [cur EXCEPT ![l] = NoConn]
  /\ UNCHANGED <<inbox, got, next, link, elem, batch, tasks, outbox, alive>>

FrameLoopEnds(l) ==
  /\ InFrameLoop(l) /\ ~ HasFrame(l)
  /\ cur' = [cur EXCEPT ![l] = NoConn]
  /\ UNCHANGED <<inbox, got, next, link, elem, batch, tasks, outbox, alive>>

(* A blank line ends the loop too, and frames behind it wait for the next  *)
(* read, however many have been received.                                  *)
SkipBlankLine(l) ==
  /\ InFrameLoop(l) /\ HasFrame(l) /\ Frame(l).form = "blank"
  /\ Retrieve(l) /\ cur' = [cur EXCEPT ![l] = NoConn]
  /\ UNCHANGED <<inbox, got, link, elem, batch, tasks, outbox, alive>>

IsRefusedWhole(m) ==
  m.form \in {"badHeader", "unparsable", "scalar"} \/ (m.form = "array" /\ Len(m.reqs) = 0)

(* A frame that holds no request.  A bad length is reported before the     *)
(* header is taken out of the buffer, so the next read meets it again.     *)
RefuseMessage(l) ==
  /\ InFrameLoop(l) /\ HasFrame(l) /\ IsRefusedWhole(Frame(l))
  /\ Fail(l, Part(l, next[cur[l]], 0),
          IF Frame(l).form = "unparsable" THEN "PARSE_ERROR" ELSE "INVALID_REQUEST")
  /\ IF Frame(l).form = "badHeader" THEN UNCHANGED next ELSE Retrieve(l)
  /\ UNCHANGED <<inbox, got, elem, batch, tasks, alive>>

AtSingle(l, outcome) ==
  /\ InFrameLoop(l) /\ HasFrame(l)
  /\ Frame(l).form = "object"
  /\ Outcome(Frame(l).reqs[1]) = outcome
  /\ Retrieve(l)

Single(l) == Part(l, next[cur[l]], 1)

SingleNotified(l) ==
  /\ AtSingle(l, "notified")
  /\ UNCHANGED <<inbox, got, link, cur, elem, batch, tasks, outbox, alive>>

SingleAnswered(l) ==
  /\ AtSingle(l, "answered")
  /\ Write(cur[l], [form |-> "object", msg |-> next[cur[l]],
                    responses |-> <<Answer(Single(l), "none")>>])
  /\ UNCHANGED <<inbox, got, link, cur, elem, batch, tasks, alive>>

SingleQueued(l) ==
  /\ AtSingle(l, "queued")
  /\ tasks' = tasks \cup {Single(l)}
  /\ UNCHANGED <<inbox, got, link, cur, elem, batch, outbox, alive>>

SingleRefused(l) ==
  /\ AtSingle(l, "refused")
  /\ Fail(l, Single(l), Verdict(Frame(l).reqs[1]).err)
  /\ UNCHANGED <<inbox, got, elem, batch, tasks, alive>>

(* No handler on this path catches a NotifyException: it leaves the event  *)
(* loop's callback and the thread, which terminates the process.           *)
SingleDropped(l) ==
  /\ AtSingle(l, "dropped")
  /\ alive' = FALSE
  /\ UNCHANGED <<inbox, got, link, cur, elem, batch, tasks, outbox>>

(***************************************************************************)
(* handleBatchRequests.  The ThreadSafeBatchResponse lives on the loop's   *)
(* stack for as long as elem[l] > 0; its destructor sends the array.       *)
(***************************************************************************)
InBatch(l)   == alive /\ cur[l] # NoConn /\ elem[l] > 0
Array(l)     == inbox[cur[l]][next[cur[l]] - 1].reqs
Element(l)   == Part(l, next[cur[l]] - 1, elem[l])
Advance(l)   == elem' = [elem EXCEPT ![l] = @ + 1]
NextElement(l) == Advance(l)
LeaveLoop(l) == elem' = [elem EXCEPT ![l] = Len(Array(l)) + 1]
AddResponse(l, r) == batch' = [batch EXCEPT ![l] = Append(@, r)]

BatchBegins(l) ==
  /\ InFrameLoop(l) /\ HasFrame(l)
  /\ Frame(l).form = "array" /\ Len(Frame(l).reqs) # 0
  /\ Retrieve(l) /\ Advance(l)
  /\ UNCHANGED <<inbox, got, link, cur, batch, tasks, outbox, alive>>

AtElement(l, outcome) ==
  /\ InBatch(l) /\ elem[l] <= Len(Array(l))
  /\ Outcome(Array(l)[elem[l]]) = outcome
  /\ UNCHANGED <<inbox, got, next, link, cur, outbox, alive>>

BatchNotified(l) ==
  /\ AtElement(l, "notified") /\ Advance(l)
  /\ UNCHANGED <<batch, tasks>>

BatchAnswered(l) ==
  /\ AtElement(l, "answered") /\ Advance(l)
  /\ AddResponse(l, Answer(Element(l), "none"))
  /\ UNCHANGED tasks

(* done captures the local batch object by reference. *)
BatchQueued(l) ==
  /\ AtElement(l, "queued") /\ Advance(l)
  /\ tasks' = tasks \cup {Element(l)}
  /\ UNCHANGED batch

(* The catch clauses stand outside the loop: the first exception of either *)
(* kind leaves the remaining elements alone.                               *)
BatchRefused(l) ==
  /\ AtElement(l, "refused") /\ LeaveLoop(l)
  /\ AddResponse(l, Answer(Element(l), Verdict(Array(l)[elem[l]]).err))
  /\ UNCHANGED tasks

BatchDropped(l) ==
  /\ AtElement(l, "dropped") /\ LeaveLoop(l)
  /\ UNCHANGED <<batch, tasks>>

BatchEndsKeepingResponses(l) ==
  /\ InBatch(l) /\ elem[l] > Len(Array(l))
  /\ Write(cur[l], [form |-> "array", msg |-> next[cur[l]] - 1, responses |-> batch[l]])
  /\ elem' = [elem EXCEPT ![l] = 0]
  /\ UNCHANGED <<inbox, got, next, link, cur, batch, tasks, alive>>

BatchEnds(l) ==
  /\ InBatch(l) /\ elem[l] > Len(Array(l))
  /\ Write(cur[l], [form |-> "array", msg |-> next[cur[l]] - 1, responses |-> batch[l]])
  /\ elem'  = [elem EXCEPT ![l] = 0]
  /\ batch' = [batch EXCEPT ![l] = <<>>]
  /\ UNCHANGED <<inbox, got, next, link, cur, tasks, alive>>

(***************************************************************************)
(* Pool threads: the implementation calls its UserDoneCallback, which      *)
(* builds the response and calls done.                                     *)
(***************************************************************************)
FinishAgain(t) == alive /\ t \in tasks /\ UNCHANGED tasks
Finish(t) == alive /\ t \in tasks /\ tasks' = tasks \ {t}

DoneSingle(t) ==
  /\ Finish(t) /\ ~ InArray(t)
  /\ Write(t.conn, [form |-> "object", msg |-> t.msg, responses |-> <<Answer(t, "none")>>])
  /\ UNCHANGED <<inbox, got, next, link, cur, elem, batch, alive>>

BatchIsLive(t) ==
  LET l == LoopOf[t.conn]
  IN  cur[l] = t.conn /\ elem[l] > 0 /\ next[t.conn] = t.msg + 1

DoneInBatch(t) ==
  /\ Finish(t) /\ InArray(t) /\ BatchIsLive(t)
  /\ AddResponse(LoopOf[t.conn], Answer(t, "none"))
  /\ UNCHANGED <<inbox, got, next, link, cur, elem, outbox, alive>>

(* The batch object is gone and done's reference dangles: the response is  *)
(* lost in freed memory, or reaches the batch object that now occupies the *)
(* same place on that loop's stack, or the access ends the process.        *)
DoneStale(t) ==
  /\ Finish(t) /\ InArray(t) /\ ~ BatchIsLive(t)
  /\ \/ UNCHANGED <<batch, alive>>
     \/ /\ elem[LoopOf[t.conn]] > 0
        /\ AddResponse(LoopOf[t.conn], Answer(t, "none"))
        /\ UNCHANGED alive
     \/ alive' = FALSE /\ UNCHANGED batch
  /\ UNCHANGED <<inbox, got, next, link, cur, elem, outbox>>

----------------------------------------------------------------------------
(* What an event loop does with the bytes it has. *)
Handle(l) ==
  \/ FrameLoopEnds(l) \/ SkipBlankLine(l) \/ RefuseMessage(l)
  \/ SingleNotified(l) \/ SingleAnswered(l) \/ SingleQueued(l)
  \/ SingleRefused(l) \/ SingleDropped(l)
  \/ BatchBegins(l) \/ BatchNotified(l) \/ BatchAnswered(l) \/ BatchQueued(l)
  \/ BatchRefused(l) \/ BatchDropped(l) \/ BatchEnds(l)

Pool == \E t \in tasks : DoneSingle(t) \/ DoneInBatch(t) \/ DoneStale(t)

Next == \/ \E l \in Loops : Read(l) \/ Handle(l)
        \/ Pool
        \/ \E c \in Conns : PeerCloses(c)

Spec == Init /\ [][Next]_vars

(* A loop that runs a handler gets on with it; the pool has at least one   *)
(* thread and procedures return.  Peers owe nothing: no message need come. *)
Fairness == (\A l \in Loops : WF_vars(Handle(l))) /\ WF_vars(Pool)

FairSpec == Spec /\ Fairness
----------------------------------------------------------------------------
TypeOK ==
  /\ inbox \in Inboxes
  /\ got    \in [Conns -> Nat] /\ \A c \in Conns : got[c] <= Len(inbox[c])
  /\ next   \in [Conns -> Nat] /\ \A c \in Conns : next[c] \in 1 .. got[c] + 1
  /\ link   \in [Conns -> {"up", "shut", "down"}]
  /\ cur    \in [Loops -> Conns \cup {NoConn}]
  /\ elem   \in [Loops -> Nat]
  /\ batch  \in [Loops -> Seq(Responses)]
  /\ tasks  \subseteq Calls
  /\ outbox \in [Conns -> Seq(Replies)]
  /\ alive  \in BOOLEAN

At(c, i, k) == outbox[c][i].responses[k]
PlacesIn(c, i) == DOMAIN outbox[c][i].responses

(* No request is answered twice, on any connection, whatever pool threads  *)
(* do, and however often a bad header is met again: the shutdown that      *)
(* follows an error is what keeps the second error from being written.     *)
RespondedOnce ==
  \A c, d \in Conns : \A i \in DOMAIN outbox[c], j \in DOMAIN outbox[d] :
    \A k \in PlacesIn(c, i), m \in PlacesIn(d, j) :
      CallOf(At(c, i, k)) = CallOf(At(d, j, m)) => <<c, i, k>> = <<d, j, m>>

(* The error reply of a refused message is the last thing written to its   *)
(* connection, although pool threads may still finish earlier requests and *)
(* the loop goes on reading and handling messages (onMessage's catch).     *)
IsRefusal(reply) == reply.form = "object" /\ reply.responses[1].err # "none"

RefusalIsTheLastReply ==
  \A c \in Conns : \A i \in DOMAIN outbox[c] :
    IsRefusal(outbox[c][i]) => i = Len(outbox[c]) /\ link[c] # "up"

(* While no implementation hands its work to a pool, a reply holds only    *)
(* responses to the message it answers, on the connection it came from.    *)
ResponsesGoHome ==
  \A c \in Conns : \A i \in DOMAIN outbox[c] :
    \A k \in PlacesIn(c, i) : At(c, i, k).conn = c /\ At(c, i, k).msg = outbox[c][i].msg

Answered(call) ==
  \E i \in DOMAIN outbox[call.conn] :
    \E k \in PlacesIn(call.conn, i) : CallOf(At(call.conn, i, k)) = call

(* While a connection is up none of its single calls is lost: once taken   *)
(* out of the buffer, its request was answered or is with the pool, and    *)
(* nothing is with the pool that was answered.  Of the elements of a batch *)
(* this is not so: DoneStale loses their answers.                          *)
NoCallIsLost ==
  \A c \in Conns : \A n \in 1 .. next[c] - 1 :
    LET call == [conn |-> c, msg |-> n, elem |-> 1]
    IN  /\ Answered(call) => call \notin tasks
        /\ /\ alive /\ link[c] = "up"
           /\ inbox[c][n].form = "object" /\ Outcome(inbox[c][n].reqs[1]) # "notified"
           => Answered(call) \/ call \in tasks

(* The elements of a batch up to the first one that is refused or dropped. *)
Attempted(reqs) ==
  {e \in DOMAIN reqs : \A f \in 1 .. e - 1 : Outcome(reqs[f]) \notin {"refused", "dropped"}}

(* A batch reply answers every request of the batch, in order, up to and   *)
(* including the first bad element, and says nothing of notifications.     *)
BatchRepliesAreComplete ==
  \A c \in Conns : \A i \in DOMAIN outbox[c] :
    LET reply == outbox[c][i]
        reqs  == inbox[c][reply.msg].reqs
        rs    == reply.responses
    IN  reply.form = "array" =>
          /\ {rs[k].elem : k \in DOMAIN rs} =
                {e \in Attempted(reqs) : Outcome(reqs[e]) \in {"answered", "refused"}}
          /\ \A k \in 1 .. Len(rs) - 1 : rs[k].elem < rs[k + 1].elem

(* Replies leave in the order of the messages they answer. *)
RepliesInOrder ==
  \A c \in Conns : \A i \in 1 .. Len(outbox[c]) - 1 : outbox[c][i].msg < outbox[c][i + 1].msg

(* Every message that reached the server is replied to, unless it is a     *)
(* notification, the connection ends first or the process does.  Behind a  *)
(* blank line it waits, with the loop gone from the connection, until      *)
(* something more is read, be it a piece of a message.                     *)
Places == UNION {DOMAIN box[c] : box \in Inboxes, c \in Conns}

ReplyIsOwed(c, n) ==
  /\ n <= got[c] /\ inbox[c][n].form # "blank"
  /\ ~ (inbox[c][n].form = "object" /\ Outcome(inbox[c][n].reqs[1]) = "notified")

WaitsBehindBlankLine(c, n) ==
  /\ cur[LoopOf[c]] # c /\ next[c] \in 2 .. n
  /\ inbox[c][next[c] - 1].form = "blank"

EveryMessageIsReplied ==
  \A c \in Conns : \A n \in Places :
    ReplyIsOwed(c, n) ~> \/ \E i \in DOMAIN outbox[c] : outbox[c][i].msg = n
                        \/ WaitsBehindBlankLine(c, n) \/ link[c] # "up" \/ ~ alive
----------------------------------------------------------------------------
(* RpcServer.cc:87: the batch's done runs when the last pointer to its     *)
(* data is gone, "and so tells the RPC server that processing completed".  *)
(* No request of a batch that was replied to is still being processed.     *)
BatchReplyWaits ==
  \A t \in tasks : InArray(t) =>
    \A i \in DOMAIN outbox[t.conn] : outbox[t.conn][i].msg # t.msg

(* RpcServer.cc:189: whether a notification succeeds or not, the user      *)
(* should be able to accept the result; at least the server survives it.   *)
NotificationsAreHarmless == alive
============================================================================
