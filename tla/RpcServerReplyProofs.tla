------------------------ MODULE RpcServerReplyProofs ------------------------
(***************************************************************************)
(* What becomes of the requests the server took out of its buffers, for    *)
(* any connections, loops, registry and messages.                          *)
(***************************************************************************)
EXTENDS RpcServerProofs, Integers

Only(c, n) == [conn |-> c, msg |-> n, elem |-> 1]

(* The message is a call, and its answer can still be sent. *)
IsOwed(c, n) ==
  /\ alive /\ link[c] = "up"
  /\ inbox[c][n].form = "object" /\ Outcome(inbox[c][n].reqs[1]) # "notified"

IsKept(c, n) == Answered(Only(c, n)) \/ Only(c, n) \in tasks

AllKept == \A c \in Conns : \A n \in 1 .. next[c] - 1 : IsOwed(c, n) => IsKept(c, n)

(* Replies are never taken back, and on a link that is up they arrive. *)
LEMMA WriteKeepsReplies ==
  ASSUME TypeOK, NEW c \in Conns, NEW reply, Write(c, reply),
         NEW d \in Conns, NEW i \in DOMAIN outbox[d]
  PROVE  i \in DOMAIN outbox'[d] /\ outbox'[d][i] = outbox[d][i]
BY DEF Write, TypeOK

LEMMA WriteArrives ==
  ASSUME TypeOK, NEW c \in Conns, NEW reply, Write(c, reply), link[c] = "up"
  PROVE  \E i \in DOMAIN outbox'[c] : outbox'[c][i] = reply
<1>1. outbox'[c] = Append(outbox[c], reply) /\ outbox[c] \in Seq(Replies)
  BY DEF Write, TypeOK
<1> DEFINE n == Len(outbox[c]) + 1
<1>2. n \in DOMAIN outbox'[c] /\ outbox'[c][n] = reply
  BY <1>1
<1> QED
  BY <1>2

LEMMA AnsweredByWrite ==
  ASSUME TypeOK, NEW x \in Calls, NEW err \in Errs, link[x.conn] = "up",
         Write(x.conn, [form |-> "object", msg |-> x.msg, responses |-> <<Answer(x, err)>>])
  PROVE  Answered(x)'
<1>1. x.conn \in Conns
  BY DEF Calls
<1> DEFINE reply == [form |-> "object", msg |-> x.msg, responses |-> <<Answer(x, err)>>]
<1>2. PICK i \in DOMAIN outbox'[x.conn] : outbox'[x.conn][i] = reply
  BY <1>1, WriteArrives
<1>3. 1 \in DOMAIN outbox'[x.conn][i].responses /\ CallOf(outbox'[x.conn][i].responses[1]) = x
  BY <1>2, AnswerType
<1> QED
  BY <1>3 DEF Answered, PlacesIn, At, CallOf

(* What a step leaves: messages, replies, the end of a link and of the     *)
(* process.                                                                *)
Lasting ==
  /\ UNCHANGED inbox /\ (alive' => alive)
  /\ \A c \in Conns : link'[c] = "up" => link[c] = "up"
  /\ \A c \in Conns : \A i \in DOMAIN outbox[c] :
       i \in DOMAIN outbox'[c] /\ outbox'[c][i] = outbox[c][i]

LEMMA StepLasts == Inv /\ [Next]_vars => Lasting
<1> SUFFICES ASSUME Inv, [Next]_vars PROVE Lasting
  OBVIOUS
<1>1. \A c \in Conns : link'[c] = "up" => link[c] = "up"
  BY StepMarks
<1>2. ASSUME UNCHANGED <<inbox, outbox>>, alive' => alive PROVE Lasting
  BY <1>1, <1>2 DEF Lasting
<1>3. ASSUME UNCHANGED <<inbox, alive>>, NEW c \in Conns, NEW reply, Write(c, reply) PROVE Lasting
  BY <1>1, <1>3, WriteKeepsReplies DEF Lasting, Inv
<1>4. ASSUME NEW l \in Loops,
             \/ Read(l) \/ FrameLoopEnds(l) \/ SkipBlankLine(l) \/ SingleNotified(l)
             \/ SingleQueued(l) \/ SingleDropped(l) \/ BatchBegins(l) \/ BatchNotified(l) \/ BatchAnswered(l)
             \/ BatchQueued(l) \/ BatchRefused(l) \/ BatchDropped(l)
      PROVE  UNCHANGED <<inbox, outbox>> /\ (alive' => alive)
  BY <1>4 DEF Read, FrameLoopEnds, SkipBlankLine, SingleNotified, SingleQueued, SingleDropped,
              BatchBegins, BatchNotified, BatchAnswered, BatchQueued, BatchRefused, BatchDropped,
              AtElement
<1>5. ASSUME NEW l \in Loops,
             RefuseMessage(l) \/ SingleAnswered(l) \/ SingleRefused(l) \/ BatchEnds(l)
      PROVE  Lasting
  <2>1. cur[l] \in Conns
    BY <1>5, FrameFacts, BatchFacts
    DEF RefuseMessage, SingleAnswered, SingleRefused, BatchEnds, AtSingle
  <2>2. UNCHANGED <<inbox, alive>> /\ \E reply : Write(cur[l], reply)
    BY <1>5 DEF RefuseMessage, SingleAnswered, SingleRefused, BatchEnds, Fail
  <2> QED
    BY <1>3, <2>1, <2>2
<1>6. ASSUME NEW t \in tasks, DoneSingle(t) PROVE Lasting
  <2>1. t.conn \in Conns
    BY DEF Inv, TypeOK, Calls
  <2> QED
    BY <1>3, <1>6, <2>1 DEF DoneSingle
<1>7. ASSUME NEW t \in tasks, DoneInBatch(t) \/ DoneStale(t)
      PROVE  UNCHANGED <<inbox, outbox>> /\ (alive' => alive)
  BY <1>7 DEF DoneInBatch, DoneStale, Finish
<1>8. ASSUME NEW c \in Conns, PeerCloses(c) PROVE Lasting
  BY <1>2, <1>8 DEF PeerCloses
<1>9. CASE UNCHANGED vars
  BY <1>2, <1>9 DEF vars
<1> QED
  BY <1>2, <1>4, <1>5, <1>6, <1>7, <1>8, <1>9 DEF Next, Handle, Pool

(* A call that is kept remains so: the pool lets go of a call that is not  *)
(* an element of a batch only with its answer.                             *)
LEMMA KeptStaysKept ==
  ASSUME Inv, [Next]_vars, NEW c \in Conns, NEW n \in Nat, IsOwed(c, n) => IsKept(c, n)
  PROVE  (IsOwed(c, n) => IsKept(c, n))'
<1>1. Lasting
  BY StepLasts
<1> SUFFICES ASSUME IsOwed(c, n)' PROVE IsKept(c, n)'
  OBVIOUS
<1>2. IsOwed(c, n) /\ IsKept(c, n)
  BY <1>1 DEF IsOwed, Lasting
<1>3. Only(c, n).conn = c /\ Only(c, n) \in Calls
  BY DEF Only, Calls
<1>4. CASE Answered(Only(c, n))
  BY <1>1, <1>3, <1>4 DEF Answered, Lasting, PlacesIn, At, IsKept, Only
<1>5. CASE Only(c, n) \in tasks
  <2> DEFINE x == Only(c, n)
  <2>1. ~ InArray(x)
    BY <1>2 DEF InArray, IsOwed, Only
  <2>2. ASSUME tasks \subseteq tasks' PROVE IsKept(c, n)'
    BY <1>5, <2>2 DEF IsKept, Only
  <2>3. ASSUME NEW t \in tasks, DoneSingle(t) PROVE IsKept(c, n)'
    <3>1. CASE t = x
      <4>1. Answered(x)'
        BY <1>2, <1>3, <2>3, <3>1, AnsweredByWrite DEF DoneSingle, IsOwed, Inv, Errs
      <4> QED
        BY <4>1 DEF IsKept, Only
    <3>2. CASE t # x
      BY <1>5, <2>3, <3>2 DEF DoneSingle, Finish, IsKept, Only
    <3> QED
      BY <3>1, <3>2
  <2>4. ASSUME NEW t \in tasks, DoneInBatch(t) \/ DoneStale(t) PROVE IsKept(c, n)'
    BY <1>5, <2>1, <2>4 DEF DoneInBatch, DoneStale, Finish, IsKept, Only
  <2>5. ASSUME NEW l \in Loops, Read(l) \/ Handle(l) PROVE tasks \subseteq tasks'
    BY <2>5 DEF Read, Handle, FrameLoopEnds, SkipBlankLine, RefuseMessage, SingleNotified,
       SingleAnswered, SingleQueued, SingleRefused, SingleDropped, BatchBegins, BatchNotified, BatchAnswered,
       BatchQueued, BatchRefused, BatchDropped, BatchEnds
  <2>6. ASSUME NEW d \in Conns, PeerCloses(d) PROVE tasks \subseteq tasks'
    BY <2>6 DEF PeerCloses
  <2>7. CASE UNCHANGED vars
    BY <2>2, <2>7 DEF vars
  <2> QED
    BY <2>2, <2>3, <2>4, <2>5, <2>6, <2>7 DEF Next, Pool
<1> QED
  BY <1>2, <1>4, <1>5 DEF IsKept

LEMMA OutcomeType ==
  ASSUME NEW req
  PROVE  Outcome(req) \in {"refused", "dropped", "notified", "queued", "answered"}
BY VerdictType DEF Outcome

(* Only these steps take a message out of a buffer. *)
Takes(l) ==
  \/ SkipBlankLine(l) \/ RefuseMessage(l) \/ BatchBegins(l)
  \/ SingleNotified(l) \/ SingleAnswered(l) \/ SingleQueued(l)
  \/ SingleRefused(l) \/ SingleDropped(l)

LEMMA TakingFacts ==
  ASSUME Inv, NEW l \in Loops, Takes(l)
  PROVE  /\ InFrameLoop(l) /\ HasFrame(l) /\ cur[l] \in Conns /\ next[cur[l]] \in Nat
         /\ Retrieve(l) \/ UNCHANGED next
         /\ \A c \in Conns : c # cur[l] => next'[c] = next[c]
         /\ next'[cur[l]] = next[cur[l]] \/ next'[cur[l]] = next[cur[l]] + 1
<1>1. InFrameLoop(l) /\ HasFrame(l)
  BY DEF Takes, SkipBlankLine, RefuseMessage, BatchBegins, SingleNotified, SingleAnswered,
         SingleQueued, SingleRefused, SingleDropped, AtSingle
<1>2. Retrieve(l) \/ UNCHANGED next
  BY DEF Takes, SkipBlankLine, RefuseMessage, BatchBegins, SingleNotified, SingleAnswered,
         SingleQueued, SingleRefused, SingleDropped, AtSingle
<1> QED
  BY <1>1, <1>2, FrameFacts DEF Retrieve, Inv, TypeOK

LEMMA TakesOne ==
  ASSUME Inv, [Next]_vars, NEW c \in Conns, next'[c] # next[c]
  PROVE  \E l \in Loops : Takes(l) /\ cur[l] = c /\ next'[c] = next[c] + 1
<1>1. PICK l \in Loops : Takes(l)
  BY DEF Next, Handle, Pool, Takes, Read, FrameLoopEnds, BatchNotified, BatchAnswered, BatchQueued,
         BatchRefused, BatchDropped, BatchEnds, AtElement, DoneSingle, DoneInBatch, DoneStale,
         PeerCloses, vars
<1> QED
  BY <1>1, TakingFacts

(* A call that is taken is answered, or queued, or its connection ends. *)
LEMMA TakenIsKept ==
  ASSUME Inv, NEW l \in Loops, Takes(l), UNCHANGED inbox,
         NEW c, c = cur[l], NEW n, n = next[c], IsOwed(c, n)'
  PROVE  IsKept(c, n)'
<1>1. InFrameLoop(l) /\ HasFrame(l) /\ c \in Conns /\ n \in Nat
  BY TakingFacts
<1>2. /\ alive' /\ link'[c] = "up"
      /\ Frame(l).form = "object" /\ Outcome(Frame(l).reqs[1]) # "notified"
  BY DEF IsOwed, Frame
<1> DEFINE x == Only(c, n)
<1>3. x = Single(l) /\ x \in Calls /\ x.msg = n /\ x.conn = c
  BY <1>1, FrameFacts DEF Only, Single, Part
<1>4. ASSUME NEW call, NEW err, Fail(l, call, err) PROVE FALSE
  BY <1>1, <1>2, <1>4 DEF Fail, Shutdown, Inv, TypeOK
<1>5. ~ SkipBlankLine(l) /\ ~ RefuseMessage(l) /\ ~ SingleRefused(l) /\ ~ BatchBegins(l)
  BY <1>2, <1>4 DEF SkipBlankLine, RefuseMessage, SingleRefused, BatchBegins
<1>6. ~ SingleNotified(l) /\ ~ SingleDropped(l)
  BY <1>2 DEF SingleNotified, SingleDropped, AtSingle
<1>7. CASE SingleAnswered(l)
  <2>1. link[c] = "up"
    BY <1>2, <1>7 DEF SingleAnswered
  <2>2. Write(x.conn, [form |-> "object", msg |-> x.msg, responses |-> <<Answer(x, "none")>>])
    BY <1>3, <1>7 DEF SingleAnswered
  <2>3. Answered(x)'
    BY <1>3, <2>1, <2>2, AnsweredByWrite DEF Inv, Errs
  <2> QED
    BY <2>3 DEF IsKept, Only
<1>8. CASE SingleQueued(l)
  BY <1>3, <1>8 DEF SingleQueued, IsKept
<1> QED
  BY <1>5, <1>6, <1>7, <1>8 DEF Takes

LEMMA StepKept == Inv /\ AllKept /\ [Next]_vars => AllKept'
<1> SUFFICES ASSUME Inv, AllKept, [Next]_vars, NEW c \in Conns, NEW n \in 1 .. next'[c] - 1
             PROVE  (IsOwed(c, n) => IsKept(c, n))'
  BY DEF AllKept
<1>1. next[c] \in Nat /\ next'[c] \in Nat /\ n \in Nat
  BY StepMarks
<1>2. CASE n < next[c]
  BY <1>1, <1>2, KeptStaysKept DEF AllKept
<1>3. CASE ~ n < next[c]
  <2>1. PICK l \in Loops : Takes(l) /\ cur[l] = c /\ next'[c] = next[c] + 1
    BY <1>1, <1>3, TakesOne
  <2>2. n = next[c]
    BY <1>1, <1>3, <2>1
  <2>3. UNCHANGED inbox
    BY StepLasts DEF Lasting
  <2> QED
    BY <2>1, <2>2, <2>3, TakenIsKept
<1> QED
  BY <1>2, <1>3

(* While a connection is up no call that was taken out of its buffer is    *)
(* lost, pooled or not, and none is both answered and with the pool.       *)
THEOREM CallsAreKept == Spec => []NoCallIsLost
<1>1. Init => AllKept
  BY DEF Init, AllKept
<1>2. Inv /\ OnceInv /\ AllKept => NoCallIsLost
  <2> SUFFICES ASSUME Inv, OnceInv, AllKept, NEW c \in Conns, NEW n \in 1 .. next[c] - 1
               PROVE  /\ Answered(Only(c, n)) => Only(c, n) \notin tasks
                      /\ IsOwed(c, n) => IsKept(c, n)
    BY DEF NoCallIsLost, Only, IsOwed, IsKept
  <2>1. Only(c, n) \in Calls /\ Only(c, n).conn = c
    BY DEF Only, Calls
  <2>2. Answered(Only(c, n)) => Replied(Only(c, n))
    BY <2>1 DEF Answered, Replied
  <2> QED
    BY <2>1, <2>2 DEF OnceInv, OnePlace, AllKept
<1> QED
  BY <1>1, <1>2, StepKept, AlwaysOnce, AlwaysInv, PTL DEF Spec

(***************************************************************************)
(* While nothing is handed to a pool, replies leave in the order of their  *)
(* messages: what is written to a link that is up is of a message behind   *)
(* the one in hand, which Front names.                                     *)
(***************************************************************************)
Front(c) ==
  IF cur[LoopOf[c]] = c /\ elem[LoopOf[c]] > 0 THEN next[c] - 1 ELSE next[c]

AllBehind ==
  \A c \in Conns : link[c] = "up" => \A i \in DOMAIN outbox[c] : outbox[c][i].msg < Front(c)

OrderInv == AllBehind /\ RepliesInOrder

LEMMA FrontMoves ==
  ASSUME Inv, [Next]_vars, NEW c \in Conns
  PROVE  Front(c) \in Int /\ Front(c)' \in Int /\ Front(c) <= Front(c)'
<1>1. next[c] \in Nat /\ next'[c] \in Nat /\ next[c] <= next'[c]
  BY StepMarks
<1>2. Front(c) \in Int /\ Front(c) <= next[c]
  BY <1>1 DEF Front
<1>3. CASE cur'[LoopOf[c]] = c /\ elem'[LoopOf[c]] > 0
  <2>1. Front(c)' = next'[c] - 1
    BY <1>3 DEF Front
  <2>2. CASE cur[LoopOf[c]] = c /\ elem[LoopOf[c]] > 0
    <3>1. Front(c) = next[c] - 1
      BY <2>2 DEF Front
    <3> QED
      BY <1>1, <2>1, <3>1
  <2>3. CASE next'[c] = next[c] + 1
    BY <1>1, <1>2, <2>1, <2>3
  <2> QED
    BY <1>3, <2>2, <2>3, StepMarks
<1>4. CASE ~ (cur'[LoopOf[c]] = c /\ elem'[LoopOf[c]] > 0)
  <2>1. Front(c)' = next'[c]
    BY <1>4 DEF Front
  <2> QED
    BY <1>1, <1>2, <2>1
<1> QED
  BY <1>3, <1>4

LEMMA ReplyType ==
  ASSUME TypeOK, NEW c \in Conns, NEW i \in DOMAIN outbox[c]
  PROVE  outbox[c][i] \in Replies /\ outbox[c][i].msg \in Nat
<1>1. outbox[c] \in Seq(Replies)
  BY DEF TypeOK
<1>2. outbox[c][i] \in Replies
  BY <1>1
<1> QED
  BY <1>2 DEF Replies

LEMMA OrderWhenNothingIsWritten ==
  ASSUME Inv, [Next]_vars, OrderInv, UNCHANGED outbox
  PROVE  OrderInv'
<1>1. AllBehind'
  <2> SUFFICES ASSUME NEW c \in Conns, link'[c] = "up", NEW i \in DOMAIN outbox[c]
               PROVE  outbox[c][i].msg < Front(c)'
    BY DEF AllBehind
  <2>1. outbox[c][i].msg < Front(c) /\ outbox[c][i].msg \in Nat
    BY StepMarks, ReplyType DEF OrderInv, AllBehind, Inv
  <2> QED
    BY <2>1, FrontMoves
<1> QED
  BY <1>1 DEF OrderInv, RepliesInOrder

LEMMA OrderWhenWritten ==
  ASSUME Inv, [Next]_vars, OrderInv, NEW c \in Conns, NEW reply \in Replies, Write(c, reply),
         Front(c) <= reply.msg, link'[c] # "up" \/ reply.msg < Front(c)'
  PROVE  OrderInv'
<1>1. AllBehind'
  <2> SUFFICES ASSUME NEW d \in Conns, link'[d] = "up", NEW i \in DOMAIN outbox'[d]
               PROVE  outbox'[d][i].msg < Front(d)'
    BY DEF AllBehind
  <2>1. CASE i \in DOMAIN outbox[d] /\ outbox'[d][i] = outbox[d][i]
    <3>1. outbox[d][i].msg < Front(d) /\ outbox[d][i].msg \in Nat
      BY <2>1, StepMarks, ReplyType DEF OrderInv, AllBehind, Inv
    <3> QED
      BY <2>1, <3>1, FrontMoves
  <2>2. CASE d = c /\ outbox'[d][i] = reply
    BY <2>2
  <2> QED
    BY <2>1, <2>2, WriteAppends DEF Inv
<1>2. RepliesInOrder'
  <2> SUFFICES ASSUME NEW d \in Conns, NEW i \in 1 .. Len(outbox'[d]) - 1
               PROVE  outbox'[d][i].msg < outbox'[d][i + 1].msg
    BY DEF RepliesInOrder
  <2>1. CASE outbox'[d] = outbox[d]
    BY <2>1 DEF OrderInv, RepliesInOrder
  <2>2. CASE d = c /\ link[c] = "up" /\ outbox'[d] = Append(outbox[c], reply)
    <3>1. outbox[c] \in Seq(Replies) /\ Len(outbox[c]) \in Nat /\ DOMAIN outbox[c] = 1 .. Len(outbox[c])
      BY DEF Inv, TypeOK
    <3>2. i \in 1 .. Len(outbox[c]) /\ outbox'[d][i] = outbox[c][i]
      BY <2>2, <3>1
    <3>3. CASE i = Len(outbox[c])
      <4>1. outbox'[d][i + 1] = reply
        BY <2>2, <3>1, <3>3
      <4>2. outbox[c][i].msg < Front(c) /\ outbox[c][i].msg \in Nat
        BY <2>2, <3>1, <3>2, ReplyType DEF OrderInv, AllBehind, Inv
      <4>3. reply.msg \in Nat /\ Front(c) \in Int
        BY FrontMoves DEF Replies
      <4> QED
        BY <3>2, <4>1, <4>2, <4>3
    <3>4. CASE i # Len(outbox[c])
      <4>1. i \in 1 .. Len(outbox[c]) - 1 /\ outbox'[d][i + 1] = outbox[c][i + 1]
        BY <2>2, <3>1, <3>2, <3>4
      <4> QED
        BY <3>2, <4>1 DEF OrderInv, RepliesInOrder
    <3> QED
      BY <3>3, <3>4
  <2> QED
    BY <2>1, <2>2 DEF Write, Inv, TypeOK
<1> QED
  BY <1>1, <1>2 DEF OrderInv

LEMMA StepOrder == Inv /\ tasks = {} /\ OrderInv /\ [Next]_vars => OrderInv'
<1> SUFFICES ASSUME Inv, tasks = {}, OrderInv, [Next]_vars PROVE OrderInv'
  OBVIOUS
<1>1. ASSUME NEW l \in Loops, InFrameLoop(l), HasFrame(l)
      PROVE  cur[l] \in Conns /\ LoopOf[cur[l]] = l /\ next[cur[l]] \in Nat /\ Front(cur[l]) = next[cur[l]]
  BY <1>1, FrameFacts DEF Front, InFrameLoop
<1>2. ASSUME NEW l \in Loops, InFrameLoop(l), HasFrame(l), NEW call \in Calls, NEW err \in Errs,
             call.msg = next[cur[l]], Fail(l, call, err)
      PROVE  OrderInv'
  <2> DEFINE reply == [form |-> "object", msg |-> call.msg, responses |-> <<Answer(call, err)>>]
  <2>1. reply \in Replies /\ Write(cur[l], reply)
    BY <1>2, SingleReplyType DEF Fail
  <2>2. link'[cur[l]] # "up"
    BY <1>1, <1>2 DEF Fail, Shutdown, Inv, TypeOK
  <2>3. Front(cur[l]) <= reply.msg /\ cur[l] \in Conns
    BY <1>1, <1>2
  <2> HIDE DEF reply
  <2>4. PICK c : c = cur[l]
    OBVIOUS
  <2> QED
    BY <2>1, <2>2, <2>3, <2>4, OrderWhenWritten
<1>3. ASSUME NEW l \in Loops, RefuseMessage(l) PROVE OrderInv'
  <2>1. PICK err \in Errs : Fail(l, Part(l, next[cur[l]], 0), err)
    BY <1>3 DEF RefuseMessage, Errs, Errors
  <2>2. Part(l, next[cur[l]], 0) \in Calls /\ Part(l, next[cur[l]], 0).msg = next[cur[l]]
    BY <1>3, FrameFacts DEF RefuseMessage, Part
  <2> QED
    BY <1>2, <1>3, <2>1, <2>2 DEF RefuseMessage
<1>4. ASSUME NEW l \in Loops, SingleRefused(l) PROVE OrderInv'
  <2>1. PICK err \in Errs : Fail(l, Single(l), err)
    BY <1>4, VerdictType DEF SingleRefused
  <2>2. Single(l) \in Calls /\ Single(l).msg = next[cur[l]]
    BY <1>4, FrameFacts DEF SingleRefused, AtSingle, Single, Part
  <2> QED
    BY <1>2, <1>4, <2>1, <2>2 DEF SingleRefused, AtSingle
<1>5. ASSUME NEW l \in Loops, SingleAnswered(l) PROVE OrderInv'
  <2>1. PICK c : c = cur[l]
    OBVIOUS
  <2>2. PICK x : x = Single(l)
    OBVIOUS
  <2>3. c \in Conns /\ LoopOf[c] = l /\ next[c] \in Nat /\ Front(c) = next[c] /\ elem[l] = 0
    BY <1>1, <1>5, <2>1 DEF SingleAnswered, AtSingle, InFrameLoop
  <2>4. x \in Calls /\ x.msg = next[c]
    BY <1>5, <2>1, <2>2, FrameFacts DEF SingleAnswered, AtSingle, Single, Part
  <2> DEFINE reply == [form |-> "object", msg |-> x.msg, responses |-> <<Answer(x, "none")>>]
  <2>5. reply \in Replies /\ Write(c, reply) /\ reply.msg = next[c]
    BY <1>5, <2>1, <2>2, <2>4, SingleReplyType DEF SingleAnswered, Errs
  <2>6. Front(c)' = next[c] + 1
    BY <1>5, <2>1, <2>3 DEF SingleAnswered, AtSingle, Retrieve, Front, Inv, TypeOK
  <2> HIDE DEF reply
  <2> QED
    BY <2>3, <2>5, <2>6, OrderWhenWritten
<1>6. ASSUME NEW l \in Loops, BatchEnds(l) PROVE OrderInv'
  <2>1. PICK c : c = cur[l]
    OBVIOUS
  <2>2. c \in Conns /\ LoopOf[c] = l /\ next[c] \in Nat /\ next[c] - 1 \in Nat /\ elem[l] > 0
    BY <1>6, <2>1, BatchFacts DEF BatchEnds, InBatch
  <2> DEFINE reply == [form |-> "array", msg |-> next[c] - 1, responses |-> batch[l]]
  <2>3. reply \in Replies /\ Write(c, reply) /\ reply.msg = next[c] - 1
    BY <1>6, <2>1, <2>2 DEF BatchEnds, Inv, TypeOK, Replies
  <2>4. Front(c) = next[c] - 1
    BY <2>1, <2>2 DEF Front
  <2>5. Front(c)' = next[c]
    BY <1>6, <2>1, <2>2 DEF BatchEnds, Front, Inv, TypeOK
  <2> HIDE DEF reply
  <2> QED
    BY <2>2, <2>3, <2>4, <2>5, OrderWhenWritten
<1>7. ASSUME NEW l \in Loops,
             \/ Read(l) \/ FrameLoopEnds(l) \/ SkipBlankLine(l) \/ SingleNotified(l)
             \/ SingleQueued(l) \/ SingleDropped(l) \/ BatchBegins(l) \/ BatchNotified(l) \/ BatchAnswered(l)
             \/ BatchQueued(l) \/ BatchRefused(l) \/ BatchDropped(l)
      PROVE  UNCHANGED outbox
  BY <1>7 DEF Read, FrameLoopEnds, SkipBlankLine, SingleNotified, SingleQueued, SingleDropped,
              BatchBegins, BatchNotified, BatchAnswered, BatchQueued, BatchRefused, BatchDropped,
              AtElement
<1>8. ASSUME NEW c \in Conns, PeerCloses(c) PROVE UNCHANGED outbox
  BY <1>8 DEF PeerCloses
<1>9. CASE UNCHANGED vars
  BY <1>9, OrderWhenNothingIsWritten DEF vars
<1> QED
  BY <1>3, <1>4, <1>5, <1>6, <1>7, <1>8, <1>9, OrderWhenNothingIsWritten DEF Next, Handle, Pool

LEMMA AlwaysHome ==
  ASSUME Pooled = {}
  PROVE  Spec => []HomeInv
<1>1. Init => HomeInv
  BY DEF Init, HomeInv, BatchIsHome, ResponsesGoHome
<1>2. Inv /\ HomeInv /\ [Next]_vars => HomeInv'
  BY StepHome
<1> QED
  BY <1>1, <1>2, AlwaysInv, PTL DEF Spec

(* A server none of whose procedures is handed to a pool replies in the    *)
(* order of the messages, to every connection.                             *)
THEOREM InlineRepliesAreInOrder ==
  ASSUME Pooled = {}
  PROVE  Spec => []RepliesInOrder
<1>1. Init => OrderInv
  BY DEF Init, OrderInv, AllBehind, RepliesInOrder
<1>2. HomeInv => tasks = {}
  BY DEF HomeInv
<1>3. OrderInv => RepliesInOrder
  BY DEF OrderInv
<1> QED
  BY <1>1, <1>2, <1>3, StepOrder, AlwaysHome, AlwaysInv, PTL DEF Spec

(***************************************************************************)
(* A batch in progress holds the answers to the elements in front of the   *)
(* one in hand, which is the first that may be bad.                        *)
(***************************************************************************)
AnsweredBefore(reqs, m) ==
  {e \in Attempted(reqs) : e < m /\ Outcome(reqs[e]) \in {"answered", "refused"}}

Covers(rs, reqs, m) ==
  /\ \A k \in DOMAIN rs : rs[k].elem \in AnsweredBefore(reqs, m)
  /\ \A e \in AnsweredBefore(reqs, m) : \E k \in DOMAIN rs : rs[k].elem = e
  /\ \A k \in 1 .. Len(rs) - 1 : rs[k].elem < rs[k + 1].elem

BatchCovers(l) ==
  elem[l] > 0 =>
    /\ Covers(batch[l], Array(l), elem[l])
    /\ elem[l] <= Len(Array(l)) => elem[l] \in Attempted(Array(l))

CompleteInv == (\A l \in Loops : BatchCovers(l)) /\ BatchRepliesAreComplete

(* An element that is not answered. *)
LEMMA CoverSkips ==
  ASSUME NEW reqs, Len(reqs) \in Nat, DOMAIN reqs = 1 .. Len(reqs),
         NEW m \in 1 .. Len(reqs), m \in Attempted(reqs), NEW rs, Covers(rs, reqs, m),
         NEW n \in Nat, \/ Outcome(reqs[m]) = "notified" /\ n = m + 1
                        \/ Outcome(reqs[m]) = "dropped" /\ n = Len(reqs) + 1
  PROVE  /\ Covers(rs, reqs, n)
         /\ n <= Len(reqs) => n \in Attempted(reqs)
<1>1. ASSUME NEW e \in Attempted(reqs), e < n, Outcome(reqs[e]) \in {"answered", "refused"}
      PROVE  e < m
  <2>1. e \in 1 .. Len(reqs) /\ e # m
    BY <1>1 DEF Attempted
  <2>2. CASE n = m + 1
    BY <1>1, <2>1, <2>2
  <2>3. CASE Outcome(reqs[m]) = "dropped"
    BY <2>1, <2>3 DEF Attempted
  <2> QED
    BY <2>2, <2>3
<1>2. \A e \in Attempted(reqs) : e < m => e < n
  BY DEF Attempted
<1>3. AnsweredBefore(reqs, n) = AnsweredBefore(reqs, m)
  BY <1>1, <1>2 DEF AnsweredBefore
<1>4. Covers(rs, reqs, n)
  BY <1>3 DEF Covers
<1>5. ASSUME n <= Len(reqs) PROVE n \in Attempted(reqs)
  BY <1>5 DEF Attempted
<1> QED
  BY <1>4, <1>5

(* An element whose answer is added. *)
LEMMA CoverGrows ==
  ASSUME NEW reqs, Len(reqs) \in Nat, DOMAIN reqs = 1 .. Len(reqs),
         NEW m \in 1 .. Len(reqs), m \in Attempted(reqs),
         NEW rs \in Seq(Responses), Covers(rs, reqs, m),
         NEW r \in Responses, r.elem = m,
         NEW n \in Nat, \/ Outcome(reqs[m]) = "answered" /\ n = m + 1
                        \/ Outcome(reqs[m]) = "refused" /\ n = Len(reqs) + 1
  PROVE  /\ Covers(Append(rs, r), reqs, n)
         /\ n <= Len(reqs) => n \in Attempted(reqs)
<1> DEFINE new == Append(rs, r)
<1>1. /\ Len(rs) \in Nat /\ DOMAIN rs = 1 .. Len(rs)
      /\ Len(new) = Len(rs) + 1 /\ DOMAIN new = 1 .. Len(new)
      /\ new[Len(rs) + 1] = r /\ \A k \in 1 .. Len(rs) : new[k] = rs[k]
  OBVIOUS
<1> HIDE DEF new
<1>2. ASSUME NEW e \in Attempted(reqs), e < n, Outcome(reqs[e]) \in {"answered", "refused"}
      PROVE  e < m \/ e = m
  <2>1. e \in 1 .. Len(reqs)
    BY DEF Attempted
  <2>2. CASE n = m + 1
    BY <1>2, <2>1, <2>2
  <2>3. CASE Outcome(reqs[m]) = "refused"
    BY <2>1, <2>3 DEF Attempted
  <2> QED
    BY <2>2, <2>3
<1>3. m < n /\ \A e \in Attempted(reqs) : e < m => e < n
  BY DEF Attempted
<1>4. AnsweredBefore(reqs, n) = AnsweredBefore(reqs, m) \cup {m}
  BY <1>2, <1>3 DEF AnsweredBefore
<1>5. \A k \in DOMAIN new : new[k].elem \in AnsweredBefore(reqs, n)
  <2> SUFFICES ASSUME NEW k \in DOMAIN new PROVE new[k].elem \in AnsweredBefore(reqs, n)
    OBVIOUS
  <2>1. CASE k \in 1 .. Len(rs)
    BY <1>1, <1>4, <2>1 DEF Covers
  <2>2. CASE k = Len(rs) + 1
    BY <1>1, <1>4, <2>2
  <2> QED
    BY <1>1, <2>1, <2>2
<1>6. \A e \in AnsweredBefore(reqs, n) : \E k \in DOMAIN new : new[k].elem = e
  <2> SUFFICES ASSUME NEW e \in AnsweredBefore(reqs, n) PROVE \E k \in DOMAIN new : new[k].elem = e
    OBVIOUS
  <2>1. CASE e = m
    BY <1>1, <2>1
  <2>2. CASE e \in AnsweredBefore(reqs, m)
    <3>1. PICK k \in DOMAIN rs : rs[k].elem = e
      BY <2>2 DEF Covers
    <3> QED
      BY <1>1, <3>1
  <2> QED
    BY <1>4, <2>1, <2>2
<1>7. \A k \in 1 .. Len(new) - 1 : new[k].elem < new[k + 1].elem
  <2> SUFFICES ASSUME NEW k \in 1 .. Len(new) - 1 PROVE new[k].elem < new[k + 1].elem
    OBVIOUS
  <2>1. k \in 1 .. Len(rs) /\ new[k] = rs[k]
    BY <1>1
  <2>2. CASE k = Len(rs)
    <3>1. new[k + 1].elem = m
      BY <1>1, <2>2
    <3>2. rs[k].elem \in AnsweredBefore(reqs, m)
      BY <1>1, <2>1 DEF Covers
    <3> QED
      BY <2>1, <3>1, <3>2 DEF AnsweredBefore
  <2>3. CASE k # Len(rs)
    <3>1. k \in 1 .. Len(rs) - 1 /\ new[k + 1] = rs[k + 1]
      BY <1>1, <2>1, <2>3
    <3> QED
      BY <2>1, <3>1 DEF Covers
  <2> QED
    BY <2>2, <2>3
<1>8. Covers(new, reqs, n)
  BY <1>5, <1>6, <1>7 DEF Covers
<1>9. ASSUME n <= Len(reqs) PROVE n \in Attempted(reqs)
  BY <1>9 DEF Attempted
<1> QED
  BY <1>8, <1>9 DEF new

LEMMA ArrayFacts ==
  ASSUME Inv, NEW l \in Loops, InBatch(l)
  PROVE  /\ Len(Array(l)) \in Nat /\ DOMAIN Array(l) = 1 .. Len(Array(l))
         /\ elem[l] \in Nat /\ elem[l] > 0 /\ cur[l] \in Conns
<1>1. cur[l] \in Conns /\ next[cur[l]] \in Nat /\ next[cur[l]] - 1 \in 1 .. got[cur[l]]
  BY BatchFacts DEF Inv, TypeOK
<1>2. IsMessage(inbox[cur[l]][next[cur[l]] - 1])
  BY <1>1, MessageType DEF Inv
<1> QED
  BY <1>1, <1>2, BatchFacts DEF IsMessage, Array, InBatch

(* A loop that the step is not about keeps its batch. *)
LEMMA BatchStays ==
  ASSUME NEW k \in Loops, BatchCovers(k), elem'[k] = elem[k], batch'[k] = batch[k],
         elem[k] > 0 => Array(k)' = Array(k)
  PROVE  BatchCovers(k)'
BY DEF BatchCovers

LEMMA FrameStepsKeepCover ==
  ASSUME Inv, NEW l \in Loops, elem[l] = 0, UNCHANGED <<inbox, elem, batch>>,
         \A k \in Loops : k # l => cur'[k] = cur[k],
         \A c \in Conns : LoopOf[c] # l => next'[c] = next[c],
         NEW k \in Loops, BatchCovers(k)
  PROVE  BatchCovers(k)'
<1>1. CASE k = l
  BY <1>1 DEF BatchCovers
<1>2. CASE k # l
  <2>1. ASSUME elem[k] > 0 PROVE cur'[k] = cur[k] /\ next'[cur[k]] = next[cur[k]]
    <3>1. cur[k] \in Conns /\ LoopOf[cur[k]] = k
      BY <2>1 DEF Inv, TypeOK, LoopShape
    <3> QED
      BY <1>2, <3>1
  <2>2. elem[k] > 0 => Array(k)' = Array(k)
    BY <2>1 DEF Array
  <2> QED
    BY <2>2, BatchStays
<1> QED
  BY <1>1, <1>2

LEMMA BatchBeginsCovered ==
  ASSUME Inv, NEW l \in Loops, BatchBegins(l), NEW k \in Loops, BatchCovers(k)
  PROVE  BatchCovers(k)'
<1>1. /\ InFrameLoop(l) /\ HasFrame(l) /\ Retrieve(l) /\ Advance(l) /\ Len(Frame(l).reqs) # 0
      /\ UNCHANGED <<inbox, cur, batch>>
  BY DEF BatchBegins
<1>2. /\ cur[l] \in Conns /\ LoopOf[cur[l]] = l /\ next[cur[l]] \in Nat
      /\ next[cur[l]] \in 1 .. got[cur[l]]
  BY <1>1, FrameFacts DEF Inv, TypeOK
<1>3. CASE k = l
  <2>1. elem'[l] = 1 /\ batch'[l] = <<>>
    BY <1>1 DEF Advance, InFrameLoop, Inv, TypeOK, LoopShape
  <2>2. Array(l)' = Frame(l).reqs
    BY <1>1, <1>2 DEF Array, Frame, Retrieve, Inv, TypeOK
  <2> DEFINE reqs == Frame(l).reqs
  <2>3. DOMAIN reqs = 1 .. Len(reqs) /\ Len(reqs) \in Nat
    BY <1>2, MessageType DEF Inv, IsMessage, Frame
  <2>4. 1 \in Attempted(reqs)
    BY <1>1, <2>3 DEF Attempted
  <2>5. AnsweredBefore(reqs, 1) = {}
    BY <2>3 DEF AnsweredBefore, Attempted
  <2>6. Covers(<<>>, reqs, 1)
    BY <2>5 DEF Covers
  <2> HIDE DEF reqs
  <2>7. Array(l)' = reqs
    BY <2>2 DEF reqs
  <2> QED
    BY <1>3, <2>1, <2>4, <2>6, <2>7 DEF BatchCovers
<1>4. CASE k # l
  <2>1. elem'[k] = elem[k] /\ batch'[k] = batch[k]
    BY <1>1, <1>4 DEF Advance, Inv, TypeOK
  <2>2. elem[k] > 0 => cur'[k] = cur[k] /\ next'[cur[k]] = next[cur[k]]
    BY <1>1, <1>2, <1>4 DEF Retrieve, Inv, TypeOK, LoopShape
  <2>3. elem[k] > 0 => Array(k)' = Array(k)
    BY <1>1, <2>2 DEF Array
  <2> QED
    BY <2>1, <2>3, BatchStays
<1> QED
  BY <1>3, <1>4

LEMMA ElementsCovered ==
  ASSUME Pooled = {}, Inv, NEW l \in Loops,
         \/ BatchNotified(l) \/ BatchAnswered(l) \/ BatchRefused(l) \/ BatchDropped(l),
         NEW k \in Loops, BatchCovers(k)
  PROVE  BatchCovers(k)'
<1>0. PICK reqs, m, old : reqs = Array(l) /\ m = elem[l] /\ old = batch[l]
  OBVIOUS
<1>1. InBatch(l) /\ m <= Len(reqs) /\ UNCHANGED <<inbox, next, cur>>
  BY <1>0 DEF BatchNotified, BatchAnswered, BatchRefused, BatchDropped, AtElement
<1>2. /\ Len(reqs) \in Nat /\ DOMAIN reqs = 1 .. Len(reqs) /\ m \in 1 .. Len(reqs)
      /\ Element(l) \in Calls /\ Element(l).elem = m
  BY <1>0, <1>1, ArrayFacts, BatchFacts DEF Element, Part
<1>3. \A j \in Loops : Array(j)' = Array(j)
  BY <1>1 DEF Array
<1>4. CASE k # l
  <2>1. elem'[k] = elem[k] /\ batch'[k] = batch[k]
    BY <1>4 DEF BatchNotified, BatchAnswered, BatchRefused, BatchDropped, AtElement, Advance,
                LeaveLoop, AddResponse, Inv, TypeOK
  <2> QED
    BY <1>3, <2>1, BatchStays
<1>5. CASE k = l
  <2>1. m \in Attempted(reqs) /\ Covers(old, reqs, m) /\ old \in Seq(Responses)
    BY <1>0, <1>1, <1>2, <1>5 DEF BatchCovers, Inv, TypeOK
  <2>2. Advance(l) => elem'[l] = m + 1
    BY <1>0 DEF Advance, Inv, TypeOK
  <2>3. LeaveLoop(l) => elem'[l] = Len(reqs) + 1
    BY <1>0 DEF LeaveLoop, Inv, TypeOK
  <2>4. ASSUME NEW rs, batch'[l] = rs, NEW n \in Nat, elem'[l] = n,
               Covers(rs, reqs, n), n <= Len(reqs) => n \in Attempted(reqs)
        PROVE  BatchCovers(l)'
    <3>1. Array(l)' = reqs
      BY <1>0, <1>3
    <3> QED
      BY <2>4, <3>1 DEF BatchCovers
  <2>5. CASE BatchNotified(l)
    <3>1. Outcome(reqs[m]) = "notified" /\ elem'[l] = m + 1 /\ batch'[l] = old
      BY <1>0, <2>2, <2>5 DEF BatchNotified, AtElement
    <3>2. PICK n \in Nat : n = m + 1
      BY <1>2
    <3>3. Covers(old, reqs, n) /\ (n <= Len(reqs) => n \in Attempted(reqs))
      BY <1>2, <2>1, <3>1, <3>2, CoverSkips
    <3> QED
      BY <1>5, <2>4, <3>1, <3>2, <3>3
  <2>6. CASE BatchDropped(l)
    <3>1. Outcome(reqs[m]) = "dropped" /\ elem'[l] = Len(reqs) + 1 /\ batch'[l] = old
      BY <1>0, <2>3, <2>6 DEF BatchDropped, AtElement
    <3> QED
      BY <1>2, <1>5, <2>1, <2>4, <3>1, CoverSkips
  <2>7. ASSUME NEW err \in Errs, AddResponse(l, Answer(Element(l), err)),
               NEW n \in Nat, elem'[l] = n,
               \/ Outcome(reqs[m]) = "answered" /\ n = m + 1
               \/ Outcome(reqs[m]) = "refused" /\ n = Len(reqs) + 1
        PROVE  BatchCovers(l)'
    <3>1. PICK r : r = Answer(Element(l), err)
      OBVIOUS
    <3>2. r \in Responses /\ r.elem = m
      BY <1>2, <3>1, AnswerType DEF Answer
    <3>3. batch'[l] = Append(old, r)
      BY <1>0, <2>7, <3>1 DEF AddResponse, Inv, TypeOK
    <3>4. Covers(Append(old, r), reqs, n) /\ (n <= Len(reqs) => n \in Attempted(reqs))
      BY <1>2, <2>1, <2>7, <3>2, CoverGrows
    <3> QED
      BY <2>4, <2>7, <3>3, <3>4
  <2>8. CASE BatchAnswered(l)
    <3>1. Outcome(reqs[m]) = "answered" /\ elem'[l] = m + 1 /\ AddResponse(l, Answer(Element(l), "none"))
      BY <1>0, <2>2, <2>8 DEF BatchAnswered, AtElement
    <3> QED
      BY <1>2, <1>5, <2>7, <3>1 DEF Errs
  <2>9. CASE BatchRefused(l)
    <3>1. Outcome(reqs[m]) = "refused" /\ elem'[l] = Len(reqs) + 1
      BY <1>0, <2>3, <2>9 DEF BatchRefused, AtElement
    <3>2. PICK err \in Errs : AddResponse(l, Answer(Element(l), err))
      BY <2>9, VerdictType DEF BatchRefused
    <3> QED
      BY <1>2, <1>5, <2>7, <3>1, <3>2
  <2> QED
    BY <2>5, <2>6, <2>8, <2>9
<1> QED
  BY <1>4, <1>5

LEMMA StepCovers ==
  ASSUME Pooled = {}, Inv, tasks = {}, [Next]_vars, NEW k \in Loops, BatchCovers(k)
  PROVE  BatchCovers(k)'
<1>1. ASSUME NEW l \in Loops, Read(l) \/ FrameLoopEnds(l) PROVE BatchCovers(k)'
  <2>1. /\ elem[l] = 0 /\ UNCHANGED <<inbox, elem, batch, next>>
        /\ \A j \in Loops : j # l => cur'[j] = cur[j]
    BY <1>1 DEF Read, FrameLoopEnds, InFrameLoop, Inv, TypeOK, LoopShape
  <2> QED
    BY <2>1, FrameStepsKeepCover
<1>2. ASSUME NEW l \in Loops, Takes(l), ~ BatchBegins(l) PROVE BatchCovers(k)'
  <2>1. elem[l] = 0 /\ LoopOf[cur[l]] = l /\ \A c \in Conns : LoopOf[c] # l => next'[c] = next[c]
    BY <1>2, TakingFacts, FrameFacts DEF InFrameLoop
  <2>2. /\ UNCHANGED <<inbox, elem, batch>>
        /\ UNCHANGED cur \/ cur' = [cur EXCEPT ![l] = NoConn]
    BY <1>2 DEF Takes, SkipBlankLine, RefuseMessage, SingleNotified, SingleAnswered,
                SingleQueued, SingleRefused, SingleDropped, Fail
  <2>3. \A j \in Loops : j # l => cur'[j] = cur[j]
    BY <2>2 DEF Inv, TypeOK
  <2> QED
    BY <2>1, <2>2, <2>3, FrameStepsKeepCover
<1>3. ASSUME NEW l \in Loops, BatchBegins(l) PROVE BatchCovers(k)'
  BY <1>3, BatchBeginsCovered
<1>4. ASSUME NEW l \in Loops,
             BatchNotified(l) \/ BatchAnswered(l) \/ BatchRefused(l) \/ BatchDropped(l)
      PROVE  BatchCovers(k)'
  BY <1>4, ElementsCovered
<1>5. ASSUME NEW l \in Loops, BatchQueued(l) PROVE FALSE
  BY <1>5, NothingIsQueued DEF BatchQueued, AtElement
<1>6. ASSUME NEW l \in Loops, BatchEnds(l) PROVE BatchCovers(k)'
  <2>1. CASE k = l
    <3>1. ~ elem'[k] > 0
      BY <1>6, <2>1 DEF BatchEnds, Inv, TypeOK
    <3> QED
      BY <3>1 DEF BatchCovers
  <2>2. CASE k # l
    <3>1. elem'[k] = elem[k] /\ batch'[k] = batch[k] /\ UNCHANGED <<inbox, cur, next>>
      BY <1>6, <2>2 DEF BatchEnds, Inv, TypeOK
    <3>2. Array(k)' = Array(k)
      BY <3>1 DEF Array
    <3> QED
      BY <3>1, <3>2, BatchStays
  <2> QED
    BY <2>1, <2>2
<1>7. ASSUME UNCHANGED <<inbox, elem, batch, cur, next>> PROVE BatchCovers(k)'
  <2>1. Array(k)' = Array(k)
    BY <1>7 DEF Array
  <2> QED
    BY <1>7, <2>1, BatchStays
<1>8. ASSUME NEW c \in Conns, PeerCloses(c) PROVE BatchCovers(k)'
  BY <1>7, <1>8 DEF PeerCloses
<1>9. CASE UNCHANGED vars
  BY <1>7, <1>9 DEF vars
<1> QED
  BY <1>1, <1>2, <1>3, <1>4, <1>5, <1>6, <1>8, <1>9 DEF Next, Handle, Pool, Takes

(* A reply to a batch. *)
IsComplete(c, reply) ==
  reply.form = "array" =>
    LET reqs == inbox[c][reply.msg].reqs
        rs   == reply.responses
    IN  /\ {rs[k].elem : k \in DOMAIN rs} =
              {e \in Attempted(reqs) : Outcome(reqs[e]) \in {"answered", "refused"}}
        /\ \A k \in 1 .. Len(rs) - 1 : rs[k].elem < rs[k + 1].elem

LEMMA RepliesStayComplete ==
  ASSUME BatchRepliesAreComplete, UNCHANGED inbox,
         \A c \in Conns : \A i \in DOMAIN outbox'[c] :
           \/ i \in DOMAIN outbox[c] /\ outbox'[c][i] = outbox[c][i]
           \/ IsComplete(c, outbox'[c][i])
  PROVE  BatchRepliesAreComplete'
<1>1. \A c \in Conns : \A i \in DOMAIN outbox[c] : IsComplete(c, outbox[c][i])
  BY DEF BatchRepliesAreComplete, IsComplete
<1>2. \A c \in Conns : \A i \in DOMAIN outbox'[c] : IsComplete(c, outbox'[c][i])
  BY <1>1
<1> QED
  BY <1>2 DEF BatchRepliesAreComplete, IsComplete

LEMMA WritesComplete ==
  ASSUME TypeOK, BatchRepliesAreComplete, UNCHANGED inbox,
         NEW c \in Conns, NEW reply \in Replies, Write(c, reply), IsComplete(c, reply)
  PROVE  BatchRepliesAreComplete'
<1>1. \A d \in Conns : \A i \in DOMAIN outbox'[d] :
        \/ i \in DOMAIN outbox[d] /\ outbox'[d][i] = outbox[d][i]
        \/ IsComplete(d, outbox'[d][i])
  BY WriteAppends
<1> QED
  BY <1>1, RepliesStayComplete

LEMMA EndsComplete ==
  ASSUME Inv, BatchRepliesAreComplete, NEW l \in Loops, BatchCovers(l), BatchEnds(l)
  PROVE  BatchRepliesAreComplete'
<1>1. PICK c, rs, reqs : c = cur[l] /\ rs = batch[l] /\ reqs = Array(l)
  OBVIOUS
<1>2. c \in Conns /\ next[c] - 1 \in Nat /\ next[c] \in Nat
  BY <1>1, BatchFacts DEF BatchEnds
<1> DEFINE reply == [form |-> "array", msg |-> next[c] - 1, responses |-> rs]
<1>3. reply \in Replies /\ Write(c, reply) /\ UNCHANGED inbox
  BY <1>1, <1>2 DEF BatchEnds, Inv, TypeOK, Replies
<1>4. inbox[c][reply.msg].reqs = reqs
  BY <1>1 DEF Array
<1>5. /\ Len(reqs) \in Nat /\ DOMAIN reqs = 1 .. Len(reqs)
      /\ elem[l] > Len(reqs) /\ elem[l] \in Nat
  BY <1>1, ArrayFacts DEF BatchEnds
<1>6. AnsweredBefore(reqs, elem[l]) =
        {e \in Attempted(reqs) : Outcome(reqs[e]) \in {"answered", "refused"}}
  BY <1>5 DEF AnsweredBefore, Attempted
<1>7. Covers(rs, reqs, elem[l])
  BY <1>1, <1>5 DEF BatchCovers
<1>8. {rs[k].elem : k \in DOMAIN rs} = AnsweredBefore(reqs, elem[l])
  BY <1>7 DEF Covers
<1>9. IsComplete(c, reply)
  BY <1>4, <1>6, <1>7, <1>8 DEF IsComplete, Covers
<1> HIDE DEF reply
<1> QED
  BY <1>2, <1>3, <1>9, WritesComplete DEF Inv

LEMMA StepComplete ==
  ASSUME Pooled = {}
  PROVE  Inv /\ tasks = {} /\ CompleteInv /\ [Next]_vars => CompleteInv'
<1> SUFFICES ASSUME Inv, tasks = {}, CompleteInv, [Next]_vars PROVE CompleteInv'
  OBVIOUS
<1>1. \A l \in Loops : BatchCovers(l)'
  BY StepCovers DEF CompleteInv
<1>2. UNCHANGED inbox /\ TypeOK /\ BatchRepliesAreComplete
  BY StepLasts DEF Lasting, Inv, CompleteInv
<1>3. ASSUME UNCHANGED outbox PROVE BatchRepliesAreComplete'
  BY <1>2, <1>3, RepliesStayComplete
<1>4. ASSUME NEW l \in Loops, cur[l] \in Conns, NEW call \in Calls, NEW err \in Errs,
             Write(cur[l], [form |-> "object", msg |-> call.msg, responses |-> <<Answer(call, err)>>])
      PROVE  BatchRepliesAreComplete'
  <2>1. PICK c, reply :
          c = cur[l] /\ reply = [form |-> "object", msg |-> call.msg, responses |-> <<Answer(call, err)>>]
    OBVIOUS
  <2>2. reply \in Replies /\ IsComplete(c, reply)
    BY <2>1, SingleReplyType DEF IsComplete
  <2> QED
    BY <1>2, <1>4, <2>1, <2>2, WritesComplete
<1>5. ASSUME NEW l \in Loops, RefuseMessage(l) PROVE BatchRepliesAreComplete'
  <2>1. PICK err \in Errs : Fail(l, Part(l, next[cur[l]], 0), err)
    BY <1>5 DEF RefuseMessage, Errs, Errors
  <2>2. Part(l, next[cur[l]], 0) \in Calls /\ cur[l] \in Conns
    BY <1>5, FrameFacts DEF RefuseMessage
  <2> QED
    BY <1>4, <2>1, <2>2 DEF Fail
<1>6. ASSUME NEW l \in Loops, SingleRefused(l) PROVE BatchRepliesAreComplete'
  <2>1. PICK err \in Errs : Fail(l, Single(l), err)
    BY <1>6, VerdictType DEF SingleRefused
  <2>2. Single(l) \in Calls /\ cur[l] \in Conns
    BY <1>6, FrameFacts DEF SingleRefused, AtSingle, Single
  <2> QED
    BY <1>4, <2>1, <2>2 DEF Fail
<1>7. ASSUME NEW l \in Loops, SingleAnswered(l) PROVE BatchRepliesAreComplete'
  <2>1. Single(l) \in Calls /\ Single(l).msg = next[cur[l]] /\ cur[l] \in Conns /\ "none" \in Errs
    BY <1>7, FrameFacts DEF SingleAnswered, AtSingle, Single, Part, Errs
  <2> QED
    BY <1>4, <1>7, <2>1 DEF SingleAnswered
<1>8. ASSUME NEW l \in Loops, BatchEnds(l) PROVE BatchRepliesAreComplete'
  BY <1>2, <1>8, EndsComplete DEF CompleteInv
<1>9. ASSUME NEW l \in Loops,
             \/ Read(l) \/ FrameLoopEnds(l) \/ SkipBlankLine(l) \/ SingleNotified(l)
             \/ SingleQueued(l) \/ SingleDropped(l) \/ BatchBegins(l) \/ BatchNotified(l) \/ BatchAnswered(l)
             \/ BatchQueued(l) \/ BatchRefused(l) \/ BatchDropped(l)
      PROVE  UNCHANGED outbox
  BY <1>9 DEF Read, FrameLoopEnds, SkipBlankLine, SingleNotified, SingleQueued, SingleDropped,
              BatchBegins, BatchNotified, BatchAnswered, BatchQueued, BatchRefused, BatchDropped,
              AtElement
<1>10. ASSUME NEW c \in Conns, PeerCloses(c) PROVE UNCHANGED outbox
  BY <1>10 DEF PeerCloses
<1>11. ASSUME UNCHANGED vars PROVE BatchRepliesAreComplete'
  BY <1>3, <1>11 DEF vars
<1>12. BatchRepliesAreComplete'
  <2>1. ASSUME NEW l \in Loops, Read(l) \/ Handle(l) PROVE BatchRepliesAreComplete'
    BY <1>3, <1>5, <1>6, <1>7, <1>8, <1>9, <2>1 DEF Handle
  <2> QED
    BY <1>3, <1>10, <1>11, <2>1 DEF Next, Pool
<1> QED
  BY <1>1, <1>12 DEF CompleteInv

(* A server none of whose procedures is handed to a pool answers every     *)
(* element of a batch in its reply, in order, up to the first bad one.     *)
THEOREM InlineBatchesAreComplete ==
  ASSUME Pooled = {}
  PROVE  Spec => []BatchRepliesAreComplete
<1>1. Init => CompleteInv
  BY DEF Init, CompleteInv, BatchCovers, BatchRepliesAreComplete
<1>2. HomeInv => tasks = {}
  BY DEF HomeInv
<1>3. CompleteInv => BatchRepliesAreComplete
  BY DEF CompleteInv
<1> QED
  BY <1>1, <1>2, <1>3, StepComplete, AlwaysHome, AlwaysInv, PTL DEF Spec
=============================================================================
