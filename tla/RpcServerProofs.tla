-------------------------- MODULE RpcServerProofs --------------------------
(***************************************************************************)
(* What holds of the server for any connections, loops, registry, pooled   *)
(* methods and any finite sequences of messages from the peers.            *)
(***************************************************************************)
EXTENDS RpcServer, TLAPS

Errs == Errors \cup {"none"}

(* The dispatcher decides in one of three ways, with one of its errors. *)
LEMMA VerdictType ==
  ASSUME NEW req
  PROVE  /\ Verdict(req).verdict \in {"run", "refuse", "drop"}
         /\ Verdict(req).err \in Errs
<1>1. \A obj : /\ RequestVerdict(obj).verdict \in {"run", "refuse", "drop"}
               /\ RequestVerdict(obj).err \in Errs
  BY DEF RequestVerdict, Refuse, Run, Errs, Errors
<1>2. \A obj : /\ NotifyVerdict(obj).verdict \in {"run", "refuse", "drop"}
               /\ NotifyVerdict(obj).err \in Errs
  BY DEF NotifyVerdict, Refuse, Run, Drop, Errs, Errors
<1> QED
  BY <1>1, <1>2 DEF Verdict, Refuse, Errs, Errors

(***************************************************************************)
(* Where the loops are: a batch in progress is the message last taken out  *)
(* of the buffer, and a loop outside a batch keeps no responses.           *)
(***************************************************************************)
LoopShape ==
  \A l \in Loops :
    /\ cur[l] # NoConn => LoopOf[cur[l]] = l
    /\ elem[l] > 0 => /\ cur[l] # NoConn /\ next[cur[l]] > 1
                      /\ elem[l] <= Len(Array(l)) + 1
    /\ elem[l] = 0 => batch[l] = <<>>

Inv == TypeOK /\ LoopShape

LEMMA MessageType ==
  ASSUME TypeOK, NEW c \in Conns, NEW n \in 1 .. got[c]
  PROVE  /\ n \in 1 .. Len(inbox[c]) /\ IsMessage(inbox[c][n])
         /\ Len(inbox[c][n].reqs) \in Nat
<1>1. /\ inbox \in Inboxes /\ got[c] \in Nat /\ got[c] <= Len(inbox[c])
  BY DEF TypeOK
<1>2. /\ Len(inbox[c]) \in Nat
      /\ \A m \in 1 .. Len(inbox[c]) : IsMessage(inbox[c][m])
  BY <1>1, ServerAssumption
<1>3. n \in 1 .. Len(inbox[c])
  BY <1>1, <1>2
<1> QED
  BY <1>2, <1>3 DEF IsMessage

LEMMA WriteType ==
  ASSUME TypeOK, NEW c \in Conns, NEW reply \in Replies, Write(c, reply)
  PROVE  outbox' \in [Conns -> Seq(Replies)]
BY DEF TypeOK, Write

LEMMA AnswerType ==
  ASSUME NEW call \in Calls, NEW err \in Errs
  PROVE  Answer(call, err) \in Responses /\ CallOf(Answer(call, err)) = call
BY DEF Answer, Responses, Calls, CallOf, Errs

(* The reply to a single message. *)
LEMMA SingleReplyType ==
  ASSUME NEW call \in Calls, NEW err \in Errs
  PROVE  [form |-> "object", msg |-> call.msg, responses |-> <<Answer(call, err)>>] \in Replies
<1>1. <<Answer(call, err)>> \in Seq(Responses)
  BY AnswerType
<1> QED
  BY <1>1 DEF Replies, Calls
LEMMA InitInv == Init => Inv
<1> SUFFICES ASSUME Init PROVE Inv
  OBVIOUS
<1>1. TypeOK
  <2>1. \A c \in Conns : Len(inbox[c]) \in Nat
    BY ServerAssumption DEF Init
  <2> QED
    BY <2>1 DEF Init, TypeOK, Calls
<1>2. LoopShape
  BY DEF Init, LoopShape
<1> QED
  BY <1>1, <1>2 DEF Inv

(* In the frame loop with a frame: its message, and the call it makes. *)
LEMMA FrameFacts ==
  ASSUME Inv, NEW l \in Loops, InFrameLoop(l), HasFrame(l)
  PROVE  /\ cur[l] \in Conns /\ LoopOf[cur[l]] = l
         /\ next[cur[l]] \in Nat /\ next[cur[l]] >= 1 /\ next[cur[l]] <= got[cur[l]]
         /\ Len(Frame(l).reqs) \in Nat
         /\ \A e \in Nat : Part(l, next[cur[l]], e) \in Calls
<1>1. cur[l] \in Conns /\ LoopOf[cur[l]] = l
  BY DEF Inv, TypeOK, LoopShape, InFrameLoop
<1>2. next[cur[l]] \in Nat /\ next[cur[l]] >= 1 /\ next[cur[l]] \in 1 .. got[cur[l]]
  BY <1>1 DEF Inv, TypeOK, HasFrame
<1>3. Len(Frame(l).reqs) \in Nat
  BY <1>1, <1>2, MessageType DEF Inv, Frame
<1> QED
  BY <1>1, <1>2, <1>3 DEF Part, Calls

LEMMA BatchFacts ==
  ASSUME Inv, NEW l \in Loops, InBatch(l)
  PROVE  /\ cur[l] \in Conns /\ LoopOf[cur[l]] = l
         /\ next[cur[l]] \in Nat /\ next[cur[l]] > 1
         /\ elem[l] \in Nat /\ elem[l] <= Len(Array(l)) + 1
         /\ Len(Array(l)) \in Nat
         /\ Element(l) \in Calls
<1>1. cur[l] \in Conns /\ LoopOf[cur[l]] = l
  BY DEF Inv, TypeOK, LoopShape, InBatch
<1>2. next[cur[l]] \in Nat /\ next[cur[l]] > 1 /\ next[cur[l]] - 1 \in 1 .. got[cur[l]]
  BY <1>1 DEF Inv, TypeOK, LoopShape, InBatch
<1>3. Len(Array(l)) \in Nat
  BY <1>1, <1>2, MessageType DEF Inv, Array
<1>4. elem[l] \in Nat /\ elem[l] <= Len(Array(l)) + 1
  BY <1>1 DEF Inv, TypeOK, LoopShape, InBatch
<1> QED
  BY <1>1, <1>2, <1>3, <1>4 DEF Element, Part, Calls

(* Outside a batch a step of loop l moves no other loop's place. *)
LEMMA ShapeOfFrameSteps ==
  ASSUME Inv, NEW l \in Loops, InFrameLoop(l), HasFrame(l),
         UNCHANGED <<inbox, elem, batch>>,
         Retrieve(l) \/ UNCHANGED next,
         cur' = [cur EXCEPT ![l] = NoConn] \/ UNCHANGED cur
  PROVE  LoopShape'
<1> SUFFICES ASSUME NEW k \in Loops
             PROVE  (/\ cur[k] # NoConn => LoopOf[cur[k]] = k
                     /\ elem[k] > 0 => /\ cur[k] # NoConn /\ next[cur[k]] > 1
                                       /\ elem[k] <= Len(Array(k)) + 1
                     /\ elem[k] = 0 => batch[k] = <<>>)'
  BY DEF LoopShape
<1>1. CASE k = l
  <2>1. elem'[k] = 0 /\ batch'[k] = <<>>
    BY <1>1 DEF Inv, LoopShape, InFrameLoop
  <2>2. cur'[k] # NoConn => LoopOf[cur'[k]] = k
    BY <1>1 DEF Inv, TypeOK, LoopShape
  <2> QED
    BY <2>1, <2>2
<1>2. CASE k # l
  <2>1. cur'[k] = cur[k] /\ elem'[k] = elem[k] /\ batch'[k] = batch[k]
    BY <1>2 DEF Inv, TypeOK
  <2>2. cur[k] # NoConn => next'[cur[k]] = next[cur[k]]
    BY <1>2, FrameFacts DEF Inv, TypeOK, LoopShape, Retrieve
  <2> QED
    BY <2>1, <2>2 DEF Inv, LoopShape, Array
<1> QED
  BY <1>1, <1>2

LEMMA AfterRetrieve ==
  ASSUME Inv, NEW l \in Loops, InFrameLoop(l), HasFrame(l), Retrieve(l), UNCHANGED <<inbox, got>>
  PROVE  next' \in [Conns -> Nat] /\ \A c \in Conns : next'[c] \in 1 .. got'[c] + 1
BY FrameFacts DEF Inv, TypeOK, Retrieve

LEMMA FailType ==
  ASSUME TypeOK, NEW l \in Loops, cur[l] \in Conns, NEW call \in Calls, NEW err \in Errs,
         Fail(l, call, err)
  PROVE  /\ outbox' \in [Conns -> Seq(Replies)]
         /\ link' \in [Conns -> {"up", "shut", "down"}]
         /\ cur' \in [Loops -> Conns \cup {NoConn}]
<1>1. [form |-> "object", msg |-> call.msg, responses |-> <<Answer(call, err)>>] \in Replies
  BY SingleReplyType
<1> QED
  BY <1>1, WriteType DEF Fail, Shutdown, TypeOK

LEMMA AddResponseType ==
  ASSUME TypeOK, NEW l \in Loops, NEW call \in Calls, NEW err \in Errs,
         AddResponse(l, Answer(call, err))
  PROVE  batch' \in [Loops -> Seq(Responses)]
BY AnswerType DEF AddResponse, TypeOK

(* A step within a batch keeps the loop where the batch is. *)
LEMMA ShapeOfBatchSteps ==
  ASSUME Inv, NEW l \in Loops, InBatch(l), elem[l] <= Len(Array(l)),
         UNCHANGED <<inbox, next, cur>>, Advance(l) \/ LeaveLoop(l),
         NEW rs, batch' = [batch EXCEPT ![l] = rs] \/ UNCHANGED batch
  PROVE  /\ LoopShape' /\ elem' \in [Loops -> Nat]
<1>1. elem'[l] \in Nat /\ elem'[l] > 0 /\ elem'[l] <= Len(Array(l)) + 1
  BY BatchFacts DEF Advance, LeaveLoop, Inv, TypeOK
<1>2. elem' \in [Loops -> Nat]
  BY <1>1 DEF Advance, LeaveLoop, Inv, TypeOK
<1> SUFFICES ASSUME NEW k \in Loops
             PROVE  (/\ cur[k] # NoConn => LoopOf[cur[k]] = k
                     /\ elem[k] > 0 => /\ cur[k] # NoConn /\ next[cur[k]] > 1
                                       /\ elem[k] <= Len(Array(k)) + 1
                     /\ elem[k] = 0 => batch[k] = <<>>)'
  BY <1>2 DEF LoopShape
<1>3. cur'[k] # NoConn => LoopOf[cur'[k]] = k
  BY DEF Inv, LoopShape
<1>4. CASE k = l
  BY <1>1, <1>3, <1>4, BatchFacts DEF Inv, LoopShape, InBatch, Array
<1>5. CASE k # l
  <2>1. elem'[k] = elem[k] /\ batch'[k] = batch[k]
    BY <1>5 DEF Advance, LeaveLoop, Inv, TypeOK
  <2> QED
    BY <1>3, <2>1 DEF Inv, LoopShape, Array
<1> QED
  BY <1>4, <1>5

LEMMA SingleStep ==
  ASSUME Inv, NEW l \in Loops, NEW outcome, AtSingle(l, outcome), UNCHANGED <<inbox, got, elem, batch>>,
         cur' = [cur EXCEPT ![l] = NoConn] \/ UNCHANGED cur
  PROVE  /\ LoopShape' /\ Single(l) \in Calls /\ cur[l] \in Conns
         /\ next' \in [Conns -> Nat] /\ \A c \in Conns : next'[c] \in 1 .. got'[c] + 1
<1>1. InFrameLoop(l) /\ HasFrame(l) /\ Retrieve(l)
  BY DEF AtSingle
<1> QED
  BY <1>1, ShapeOfFrameSteps, AfterRetrieve, FrameFacts DEF Single

LEMMA ElementStep ==
  ASSUME Inv, NEW l \in Loops, NEW outcome, AtElement(l, outcome), Advance(l) \/ LeaveLoop(l),
         NEW rs, batch' = [batch EXCEPT ![l] = rs] \/ UNCHANGED batch
  PROVE  LoopShape' /\ elem' \in [Loops -> Nat] /\ Element(l) \in Calls
BY ShapeOfBatchSteps, BatchFacts DEF AtElement

LEMMA StepInv == Inv /\ [Next]_vars => Inv'
<1> SUFFICES ASSUME Inv, [Next]_vars PROVE Inv'
  OBVIOUS
<1> USE DEF Inv
<1>1. ASSUME NEW l \in Loops, Read(l) PROVE Inv'
  <2>1. TypeOK'
    BY <1>1, ServerAssumption DEF Read, TypeOK
  <2>2. LoopShape'
    <3> SUFFICES ASSUME NEW k \in Loops
                 PROVE  (/\ cur[k] # NoConn => LoopOf[cur[k]] = k
                         /\ elem[k] > 0 => /\ cur[k] # NoConn /\ next[cur[k]] > 1
                                           /\ elem[k] <= Len(Array(k)) + 1
                         /\ elem[k] = 0 => batch[k] = <<>>)'
      BY DEF LoopShape
    <3>1. CASE k = l
      BY <1>1, <3>1 DEF Read, LoopShape, TypeOK
    <3>2. CASE k # l
      BY <1>1, <3>2 DEF Read, LoopShape, TypeOK, Array
    <3> QED
      BY <3>1, <3>2
  <2> QED
    BY <2>1, <2>2
<1>2. ASSUME NEW l \in Loops, FrameLoopEnds(l) PROVE Inv'
  <2>1. TypeOK'
    BY <1>2 DEF FrameLoopEnds, TypeOK
  <2>2. LoopShape'
    BY <1>2 DEF FrameLoopEnds, InFrameLoop, LoopShape, TypeOK, Array
  <2> QED
    BY <2>1, <2>2
<1>2a. ASSUME NEW l \in Loops, SkipBlankLine(l) PROVE Inv'
  <2>1. InFrameLoop(l) /\ HasFrame(l) /\ cur[l] \in Conns
    BY <1>2a, FrameFacts DEF SkipBlankLine
  <2>2. LoopShape'
    BY <1>2a, <2>1, ShapeOfFrameSteps DEF SkipBlankLine
  <2>3. next' \in [Conns -> Nat] /\ \A c \in Conns : next'[c] \in 1 .. got'[c] + 1
    BY <1>2a, <2>1, AfterRetrieve DEF SkipBlankLine
  <2> QED
    BY <1>2a, <2>2, <2>3 DEF SkipBlankLine, TypeOK
<1>3. ASSUME NEW l \in Loops, RefuseMessage(l) PROVE Inv'
  <2>1. /\ InFrameLoop(l) /\ HasFrame(l) /\ cur[l] \in Conns
        /\ Part(l, next[cur[l]], 0) \in Calls
    BY <1>3, FrameFacts DEF RefuseMessage
  <2>2. PICK err \in Errs : Fail(l, Part(l, next[cur[l]], 0), err)
    BY <1>3 DEF RefuseMessage, Errs, Errors
  <2>3. LoopShape'
    BY <1>3, <2>1, <2>2, ShapeOfFrameSteps DEF RefuseMessage, Fail
  <2>4. next' \in [Conns -> Nat] /\ \A c \in Conns : next'[c] \in 1 .. got'[c] + 1
    BY <1>3, <2>1, AfterRetrieve DEF RefuseMessage, TypeOK
  <2>5. /\ outbox' \in [Conns -> Seq(Replies)]
        /\ link' \in [Conns -> {"up", "shut", "down"}]
        /\ cur' \in [Loops -> Conns \cup {NoConn}]
    BY <2>1, <2>2, FailType
  <2> QED
    BY <1>3, <2>3, <2>4, <2>5 DEF RefuseMessage, TypeOK
<1>4. ASSUME NEW l \in Loops, SingleNotified(l) PROVE Inv'
  BY <1>4, SingleStep DEF SingleNotified, TypeOK
<1>5. ASSUME NEW l \in Loops, SingleAnswered(l) PROVE Inv'
  <2>1. /\ LoopShape' /\ Single(l) \in Calls /\ cur[l] \in Conns
        /\ next' \in [Conns -> Nat] /\ \A c \in Conns : next'[c] \in 1 .. got'[c] + 1
    BY <1>5, SingleStep DEF SingleAnswered
  <2>2. [form |-> "object", msg |-> next[cur[l]],
         responses |-> <<Answer(Single(l), "none")>>] \in Replies
    BY <2>1, SingleReplyType DEF Errs, Single, Part
  <2>3. outbox' \in [Conns -> Seq(Replies)]
    BY <1>5, <2>1, <2>2, WriteType DEF SingleAnswered
  <2> QED
    BY <1>5, <2>1, <2>3 DEF SingleAnswered, TypeOK
<1>6. ASSUME NEW l \in Loops, SingleQueued(l) PROVE Inv'
  BY <1>6, SingleStep DEF SingleQueued, TypeOK
<1>7. ASSUME NEW l \in Loops, SingleRefused(l) PROVE Inv'
  <2>1. PICK err \in Errs : Fail(l, Single(l), err)
    BY <1>7, VerdictType DEF SingleRefused
  <2>2. /\ LoopShape' /\ Single(l) \in Calls /\ cur[l] \in Conns
        /\ next' \in [Conns -> Nat] /\ \A c \in Conns : next'[c] \in 1 .. got'[c] + 1
    BY <1>7, <2>1, SingleStep DEF SingleRefused, Fail
  <2>3. /\ outbox' \in [Conns -> Seq(Replies)]
        /\ link' \in [Conns -> {"up", "shut", "down"}]
        /\ cur' \in [Loops -> Conns \cup {NoConn}]
    BY <2>1, <2>2, FailType
  <2> QED
    BY <1>7, <2>2, <2>3 DEF SingleRefused, TypeOK
<1>8. ASSUME NEW l \in Loops, SingleDropped(l) PROVE Inv'
  BY <1>8, SingleStep DEF SingleDropped, TypeOK
<1>9. ASSUME NEW l \in Loops, BatchBegins(l) PROVE Inv'
  <2>1. InFrameLoop(l) /\ HasFrame(l) /\ Retrieve(l) /\ UNCHANGED <<inbox, got>>
    BY <1>9 DEF BatchBegins
  <2>2. next' \in [Conns -> Nat] /\ \A c \in Conns : next'[c] \in 1 .. got'[c] + 1
    BY <2>1, AfterRetrieve
  <2>3. elem' \in [Loops -> Nat] /\ elem'[l] = 1
    BY <1>9 DEF BatchBegins, InFrameLoop, Advance, TypeOK
  <2>4. LoopShape'
    <3> SUFFICES ASSUME NEW k \in Loops
                 PROVE  (/\ cur[k] # NoConn => LoopOf[cur[k]] = k
                         /\ elem[k] > 0 => /\ cur[k] # NoConn /\ next[cur[k]] > 1
                                           /\ elem[k] <= Len(Array(k)) + 1
                         /\ elem[k] = 0 => batch[k] = <<>>)'
      BY DEF LoopShape
    <3>1. CASE k = l
      <4>1. /\ cur'[k] = cur[k] /\ cur[k] \in Conns /\ LoopOf[cur[k]] = k
            /\ next'[cur[k]] = next[cur[k]] + 1 /\ next'[cur[k]] > 1
        BY <1>9, <2>1, <3>1, FrameFacts DEF BatchBegins, Retrieve, TypeOK
      <4>2. next'[cur[k]] - 1 = next[cur[k]] /\ inbox' = inbox
        BY <2>1, <3>1, <4>1, FrameFacts
      <4>3. Array(k)' = Frame(l).reqs
        BY <3>1, <4>1, <4>2 DEF Array, Frame
      <4>4. Len(Array(k)') \in Nat
        BY <2>1, <4>3, FrameFacts
      <4> QED
        BY <2>3, <3>1, <4>1, <4>4, ServerAssumption
    <3>2. CASE k # l
      <4>1. cur'[k] = cur[k] /\ elem'[k] = elem[k] /\ batch'[k] = batch[k]
        BY <1>9, <3>2 DEF BatchBegins, Advance, TypeOK
      <4>2. cur[k] # NoConn => next'[cur[k]] = next[cur[k]]
        BY <2>1, <3>2, FrameFacts DEF Retrieve, LoopShape, TypeOK
      <4> QED
        BY <2>1, <4>1, <4>2 DEF LoopShape, Array
    <3> QED
      BY <3>1, <3>2
  <2> QED
    BY <1>9, <2>2, <2>3, <2>4 DEF BatchBegins, TypeOK
<1>10. ASSUME NEW l \in Loops, BatchNotified(l) PROVE Inv'
  <2>1. LoopShape' /\ elem' \in [Loops -> Nat]
    BY <1>10, ElementStep DEF BatchNotified
  <2> QED
    BY <1>10, <2>1 DEF BatchNotified, AtElement, TypeOK
<1>11. ASSUME NEW l \in Loops, BatchAnswered(l) PROVE Inv'
  <2>1. LoopShape' /\ elem' \in [Loops -> Nat] /\ Element(l) \in Calls
    BY <1>11, ElementStep DEF BatchAnswered, AddResponse
  <2>2. batch' \in [Loops -> Seq(Responses)]
    BY <1>11, <2>1, AddResponseType DEF BatchAnswered, Errs
  <2> QED
    BY <1>11, <2>1, <2>2 DEF BatchAnswered, AtElement, TypeOK
<1>12. ASSUME NEW l \in Loops, BatchQueued(l) PROVE Inv'
  <2>1. LoopShape' /\ elem' \in [Loops -> Nat] /\ Element(l) \in Calls
    BY <1>12, ElementStep DEF BatchQueued
  <2> QED
    BY <1>12, <2>1 DEF BatchQueued, AtElement, TypeOK
<1>13. ASSUME NEW l \in Loops, BatchRefused(l) PROVE Inv'
  <2>1. PICK err \in Errs : AddResponse(l, Answer(Element(l), err))
    BY <1>13, VerdictType DEF BatchRefused
  <2>2. LoopShape' /\ elem' \in [Loops -> Nat] /\ Element(l) \in Calls
    BY <1>13, <2>1, ElementStep DEF BatchRefused, AddResponse
  <2>3. batch' \in [Loops -> Seq(Responses)]
    BY <2>1, <2>2, AddResponseType
  <2> QED
    BY <1>13, <2>2, <2>3 DEF BatchRefused, AtElement, TypeOK
<1>14. ASSUME NEW l \in Loops, BatchDropped(l) PROVE Inv'
  <2>1. LoopShape' /\ elem' \in [Loops -> Nat]
    BY <1>14, ElementStep DEF BatchDropped
  <2> QED
    BY <1>14, <2>1 DEF BatchDropped, AtElement, TypeOK
<1>15. ASSUME NEW l \in Loops, BatchEnds(l) PROVE Inv'
  <2>1. cur[l] \in Conns /\ next[cur[l]] - 1 \in Nat
    BY <1>15, BatchFacts DEF BatchEnds
  <2>2. [form |-> "array", msg |-> next[cur[l]] - 1, responses |-> batch[l]] \in Replies
    BY <2>1 DEF TypeOK, Replies
  <2>3. outbox' \in [Conns -> Seq(Replies)]
    BY <1>15, <2>1, <2>2, WriteType DEF BatchEnds
  <2>4. TypeOK'
    BY <1>15, <2>3 DEF BatchEnds, TypeOK
  <2>5. LoopShape'
    BY <1>15 DEF BatchEnds, LoopShape, TypeOK, Array
  <2> QED
    BY <2>4, <2>5
<1>16. ASSUME NEW t \in tasks, DoneSingle(t) PROVE Inv'
  <2>1. t \in Calls
    BY DEF TypeOK
  <2>2. outbox' \in [Conns -> Seq(Replies)]
    BY <1>16, <2>1, SingleReplyType, WriteType DEF DoneSingle, Calls, Errs
  <2> QED
    BY <1>16, <2>2 DEF DoneSingle, Finish, TypeOK, LoopShape, Array
<1>17. ASSUME NEW t \in tasks, NEW l \in Loops, elem[l] > 0, AddResponse(l, Answer(t, "none")),
              UNCHANGED <<inbox, got, next, link, cur, elem, outbox>>,
              tasks' = tasks \ {t}, alive' \in BOOLEAN
       PROVE  Inv'
  <2>1. batch' \in [Loops -> Seq(Responses)]
    BY <1>17, AddResponseType DEF TypeOK, Errs
  <2>2. LoopShape'
    BY <1>17 DEF AddResponse, TypeOK, LoopShape, Array
  <2> QED
    BY <1>17, <2>1, <2>2 DEF TypeOK
<1>18. ASSUME NEW t \in tasks, DoneInBatch(t) PROVE Inv'
  <2>1. LoopOf[t.conn] \in Loops /\ elem[LoopOf[t.conn]] > 0
    BY <1>18, ServerAssumption DEF DoneInBatch, BatchIsLive, TypeOK, Calls
  <2> QED
    BY <1>17, <1>18, <2>1 DEF DoneInBatch, Finish, TypeOK
<1>19. ASSUME NEW t \in tasks, DoneStale(t) PROVE Inv'
  <2>1. LoopOf[t.conn] \in Loops
    BY ServerAssumption DEF TypeOK, Calls
  <2>2. CASE UNCHANGED batch
    BY <1>19, <2>2 DEF DoneStale, Finish, TypeOK, LoopShape, Array
  <2>3. CASE elem[LoopOf[t.conn]] > 0 /\ AddResponse(LoopOf[t.conn], Answer(t, "none")) /\ UNCHANGED alive
    BY <1>17, <1>19, <2>1, <2>3 DEF DoneStale, Finish, TypeOK
  <2> QED
    BY <1>19, <2>2, <2>3 DEF DoneStale
<1>20. ASSUME NEW c \in Conns, PeerCloses(c) PROVE Inv'
  BY <1>20 DEF PeerCloses, TypeOK, LoopShape, Array
<1>21. CASE UNCHANGED vars
  BY <1>21 DEF vars, TypeOK, LoopShape, Array
<1> QED
  BY <1>1, <1>2, <1>3, <1>4, <1>5, <1>6, <1>7, <1>8, <1>9, <1>10, <1>11, <1>12, <1>13,
     <1>14, <1>15, <1>16, <1>18, <1>19, <1>20, <1>21, <1>2a DEF Next, Handle, Pool

LEMMA AlwaysInv == Spec => []Inv
BY InitInv, StepInv, PTL DEF Spec

(* Types, and the buffer's marks: nothing is handled before it was received *)
(* nor received before it was sent.                                         *)
THEOREM TypeCorrect == Spec => []TypeOK
BY AlwaysInv, PTL DEF Inv

(***************************************************************************)
(* An error reply ends what is written to a connection: writing needs the  *)
(* link to be up, the error's shutdown takes it down, and nothing brings   *)
(* it up again.                                                            *)
(***************************************************************************)
(* A reply is in the outbox because it was there or was written just now. *)
LEMMA WriteAppends ==
  ASSUME TypeOK, NEW c \in Conns, NEW reply \in Replies, Write(c, reply),
         NEW d \in Conns, NEW i \in DOMAIN outbox'[d]
  PROVE  \/ i \in DOMAIN outbox[d] /\ outbox'[d][i] = outbox[d][i]
            /\ ((d = c /\ link[c] = "up") \/ Len(outbox'[d]) = Len(outbox[d]))
         \/ d = c /\ link[c] = "up" /\ i = Len(outbox[c]) + 1
            /\ Len(outbox'[d]) = i /\ outbox'[d][i] = reply
BY DEF Write, TypeOK

LEMMA WriteKeepsRefusals ==
  ASSUME TypeOK, RefusalIsTheLastReply, NEW c \in Conns, NEW reply \in Replies, Write(c, reply),
         ~ IsRefusal(reply), UNCHANGED link
  PROVE  RefusalIsTheLastReply'
<1> SUFFICES ASSUME NEW d \in Conns, NEW i \in DOMAIN outbox'[d], IsRefusal(outbox'[d][i])
             PROVE  i = Len(outbox'[d]) /\ link'[d] # "up"
  BY DEF RefusalIsTheLastReply, IsRefusal
<1> QED
  BY WriteAppends DEF RefusalIsTheLastReply

LEMMA FailKeepsRefusals ==
  ASSUME TypeOK, RefusalIsTheLastReply, NEW l \in Loops, cur[l] \in Conns,
         NEW call \in Calls, NEW err \in Errs, Fail(l, call, err)
  PROVE  RefusalIsTheLastReply'
<1> DEFINE reply == [form |-> "object", msg |-> call.msg, responses |-> <<Answer(call, err)>>]
<1> SUFFICES ASSUME NEW d \in Conns, NEW i \in DOMAIN outbox'[d], IsRefusal(outbox'[d][i])
             PROVE  i = Len(outbox'[d]) /\ link'[d] # "up"
  BY DEF RefusalIsTheLastReply, IsRefusal
<1>1. reply \in Replies /\ Write(cur[l], reply)
  BY SingleReplyType DEF Fail
<1>2. link'[d] = IF d = cur[l] /\ link[d] = "up" THEN "shut" ELSE link[d]
  BY DEF Fail, Shutdown, TypeOK
<1> HIDE DEF reply
<1> QED
  BY <1>1, <1>2, WriteAppends DEF RefusalIsTheLastReply

LEMMA StepRefusals == Inv /\ RefusalIsTheLastReply /\ [Next]_vars => RefusalIsTheLastReply'
<1> SUFFICES ASSUME Inv, RefusalIsTheLastReply, [Next]_vars PROVE RefusalIsTheLastReply'
  OBVIOUS
<1> USE DEF Inv
<1>1. ASSUME UNCHANGED <<outbox, link>> PROVE RefusalIsTheLastReply'
  BY <1>1 DEF RefusalIsTheLastReply, IsRefusal
<1>2. ASSUME NEW call \in Calls, NEW c \in Conns, UNCHANGED link,
             Write(c, [form |-> "object", msg |-> call.msg, responses |-> <<Answer(call, "none")>>])
      PROVE  RefusalIsTheLastReply'
  BY <1>2, SingleReplyType, WriteKeepsRefusals DEF IsRefusal, Errs, Answer
<1>3. ASSUME NEW l \in Loops, RefuseMessage(l) PROVE RefusalIsTheLastReply'
  <2>1. cur[l] \in Conns /\ Part(l, next[cur[l]], 0) \in Calls
    BY <1>3, FrameFacts DEF RefuseMessage
  <2>2. PICK err \in Errs : Fail(l, Part(l, next[cur[l]], 0), err)
    BY <1>3 DEF RefuseMessage, Errs, Errors
  <2> QED
    BY <2>1, <2>2, FailKeepsRefusals
<1>4. ASSUME NEW l \in Loops, SingleAnswered(l) PROVE RefusalIsTheLastReply'
  <2>1. cur[l] \in Conns /\ Single(l) \in Calls /\ Single(l).msg = next[cur[l]]
    BY <1>4, FrameFacts DEF SingleAnswered, AtSingle, Single, Part
  <2> QED
    BY <1>2, <1>4, <2>1 DEF SingleAnswered
<1>5. ASSUME NEW l \in Loops, SingleRefused(l) PROVE RefusalIsTheLastReply'
  <2>1. cur[l] \in Conns /\ Single(l) \in Calls
    BY <1>5, FrameFacts DEF SingleRefused, AtSingle, Single
  <2>2. PICK err \in Errs : Fail(l, Single(l), err)
    BY <1>5, VerdictType DEF SingleRefused
  <2> QED
    BY <2>1, <2>2, FailKeepsRefusals
<1>6. ASSUME NEW l \in Loops, BatchEnds(l) PROVE RefusalIsTheLastReply'
  <2>1. cur[l] \in Conns /\ next[cur[l]] - 1 \in Nat
    BY <1>6, BatchFacts DEF BatchEnds
  <2>2. [form |-> "array", msg |-> next[cur[l]] - 1, responses |-> batch[l]] \in Replies
    BY <2>1 DEF TypeOK, Replies
  <2> QED
    BY <1>6, <2>1, <2>2, WriteKeepsRefusals DEF BatchEnds, IsRefusal
<1>7. ASSUME NEW t \in tasks, DoneSingle(t) PROVE RefusalIsTheLastReply'
  BY <1>2, <1>7 DEF DoneSingle, TypeOK, Calls
<1>8. ASSUME NEW c \in Conns, PeerCloses(c) PROVE RefusalIsTheLastReply'
  BY <1>8 DEF PeerCloses, RefusalIsTheLastReply, IsRefusal, TypeOK
<1>9. ASSUME NEW l \in Loops,
             \/ Read(l) \/ FrameLoopEnds(l) \/ SkipBlankLine(l) \/ SingleNotified(l)
             \/ SingleQueued(l) \/ SingleDropped(l) \/ BatchBegins(l) \/ BatchNotified(l) \/ BatchAnswered(l)
             \/ BatchQueued(l) \/ BatchRefused(l) \/ BatchDropped(l)
      PROVE  UNCHANGED <<outbox, link>>
  BY <1>9 DEF Read, FrameLoopEnds, SkipBlankLine, SingleNotified, SingleQueued, SingleDropped, BatchBegins,
              BatchNotified, BatchAnswered, BatchQueued, BatchRefused, BatchDropped, AtElement
<1>10. ASSUME NEW t \in tasks, DoneInBatch(t) \/ DoneStale(t) PROVE UNCHANGED <<outbox, link>>
  BY <1>10 DEF DoneInBatch, DoneStale
<1>11. CASE UNCHANGED vars
  BY <1>1, <1>11 DEF vars
<1> QED
  BY <1>1, <1>3, <1>4, <1>5, <1>6, <1>7, <1>8, <1>9, <1>10, <1>11 DEF Next, Handle, Pool

(* Nothing follows an error reply on its connection, whatever pool threads *)
(* still finish and whatever the loop still reads.                         *)
THEOREM RefusalsAreLast == Spec => []RefusalIsTheLastReply
<1>1. Init => RefusalIsTheLastReply
  BY DEF Init, RefusalIsTheLastReply
<1> QED
  BY <1>1, StepRefusals, AlwaysInv, PTL DEF Spec

(***************************************************************************)
(* While nothing is handed to a pool, a batch in progress holds responses  *)
(* to its own elements only, and so does every reply.                      *)
(***************************************************************************)
BatchIsHome ==
  \A l \in Loops : \A k \in DOMAIN batch[l] :
    batch[l][k].conn = cur[l] /\ batch[l][k].msg = next[cur[l]] - 1

HomeInv == tasks = {} /\ BatchIsHome /\ ResponsesGoHome

IsHome(c, reply) ==
  \A k \in DOMAIN reply.responses :
    reply.responses[k].conn = c /\ reply.responses[k].msg = reply.msg

LEMMA WriteKeepsHome ==
  ASSUME TypeOK, ResponsesGoHome, NEW c \in Conns, NEW reply \in Replies, Write(c, reply),
         IsHome(c, reply)
  PROVE  ResponsesGoHome'
<1> SUFFICES ASSUME NEW d \in Conns, NEW i \in DOMAIN outbox'[d]
             PROVE  IsHome(d, outbox'[d][i])
  BY DEF ResponsesGoHome, IsHome, At, PlacesIn
<1>1. \A j \in DOMAIN outbox[d] : IsHome(d, outbox[d][j])
  BY DEF ResponsesGoHome, IsHome, At, PlacesIn
<1> QED
  BY <1>1, WriteAppends

LEMMA SingleIsHome ==
  ASSUME NEW call \in Calls, NEW err \in Errs
  PROVE  IsHome(call.conn, [form |-> "object", msg |-> call.msg,
                            responses |-> <<Answer(call, err)>>])
BY DEF IsHome, Answer

LEMMA FailKeepsHome ==
  ASSUME TypeOK, ResponsesGoHome, NEW l \in Loops, cur[l] \in Conns,
         NEW call \in Calls, call.conn = cur[l], NEW err \in Errs, Fail(l, call, err)
  PROVE  ResponsesGoHome'
BY WriteKeepsHome, SingleIsHome, SingleReplyType DEF Fail

(* Outside a batch the loop's batch is empty, and other loops are untouched. *)
LEMMA FrameStepKeepsBatches ==
  ASSUME Inv, BatchIsHome, NEW l \in Loops, InFrameLoop(l), HasFrame(l),
         UNCHANGED <<batch>>, Retrieve(l) \/ UNCHANGED next,
         cur' = [cur EXCEPT ![l] = NoConn] \/ UNCHANGED cur
  PROVE  BatchIsHome'
<1> SUFFICES ASSUME NEW k \in Loops, NEW m \in DOMAIN batch[k]
             PROVE  batch[k][m].conn = cur'[k] /\ batch[k][m].msg = next'[cur'[k]] - 1
  BY DEF BatchIsHome
<1>1. k # l /\ cur'[k] = cur[k] /\ cur[k] # NoConn
  BY DEF Inv, TypeOK, LoopShape, InFrameLoop
<1>2. next'[cur[k]] = next[cur[k]]
  BY <1>1, FrameFacts DEF Inv, TypeOK, LoopShape, Retrieve
<1> QED
  BY <1>1, <1>2 DEF BatchIsHome

LEMMA AddKeepsBatches ==
  ASSUME Inv, BatchIsHome, NEW l \in Loops, InBatch(l), NEW err \in Errs,
         AddResponse(l, Answer(Element(l), err)), UNCHANGED <<cur, next>>
  PROVE  BatchIsHome'
<1> SUFFICES ASSUME NEW k \in Loops, NEW m \in DOMAIN batch'[k]
             PROVE  batch'[k][m].conn = cur[k] /\ batch'[k][m].msg = next[cur[k]] - 1
  BY DEF BatchIsHome
<1>1. CASE k # l
  BY <1>1 DEF BatchIsHome, AddResponse, Inv, TypeOK
<1>2. CASE k = l
  <2>1. batch'[l] = Append(batch[l], Answer(Element(l), err)) /\ batch[l] \in Seq(Responses)
    BY DEF AddResponse, Inv, TypeOK
  <2>2. /\ Answer(Element(l), err).conn = cur[l]
        /\ Answer(Element(l), err).msg = next[cur[l]] - 1
    BY DEF Answer, Element, Part
  <2> QED
    BY <1>2, <2>1, <2>2 DEF BatchIsHome
<1> QED
  BY <1>1, <1>2

LEMMA NothingIsQueued ==
  ASSUME Pooled = {}, NEW req
  PROVE  Outcome(req) # "queued"
BY VerdictType DEF Outcome

LEMMA StepHome ==
  ASSUME Pooled = {}, Inv, HomeInv, [Next]_vars
  PROVE  HomeInv'
<1> USE DEF Inv
<1>1. ASSUME NEW l \in Loops, Read(l) PROVE HomeInv'
  <2>1. BatchIsHome'
    <3>1. batch[l] = <<>> /\ UNCHANGED <<batch, next>>
      BY <1>1 DEF Read, LoopShape, TypeOK
    <3>2. \A k \in Loops : k # l => cur'[k] = cur[k]
      BY <1>1 DEF Read, TypeOK
    <3> QED
      BY <3>1, <3>2 DEF HomeInv, BatchIsHome
  <2> QED
    BY <1>1, <2>1 DEF Read, HomeInv, ResponsesGoHome, At, PlacesIn
<1>2. ASSUME NEW l \in Loops, FrameLoopEnds(l) PROVE HomeInv'
  <2>1. BatchIsHome'
    BY <1>2 DEF FrameLoopEnds, InFrameLoop, HomeInv, BatchIsHome, LoopShape, TypeOK
  <2> QED
    BY <1>2, <2>1 DEF FrameLoopEnds, HomeInv, ResponsesGoHome, At, PlacesIn
<1>2a. ASSUME NEW l \in Loops, SkipBlankLine(l) PROVE HomeInv'
  <2>1. BatchIsHome'
    BY <1>2a, FrameStepKeepsBatches DEF SkipBlankLine, HomeInv
  <2> QED
    BY <1>2a, <2>1 DEF SkipBlankLine, HomeInv, ResponsesGoHome, At, PlacesIn
<1>3. ASSUME NEW l \in Loops, RefuseMessage(l) PROVE HomeInv'
  <2>1. /\ cur[l] \in Conns /\ Part(l, next[cur[l]], 0) \in Calls
        /\ Part(l, next[cur[l]], 0).conn = cur[l]
    BY <1>3, FrameFacts DEF RefuseMessage, Part
  <2>2. PICK err \in Errs : Fail(l, Part(l, next[cur[l]], 0), err)
    BY <1>3 DEF RefuseMessage, Errs, Errors
  <2>3. BatchIsHome'
    BY <1>3, <2>2, FrameStepKeepsBatches DEF RefuseMessage, Fail, HomeInv
  <2> QED
    BY <1>3, <2>1, <2>2, <2>3, FailKeepsHome DEF RefuseMessage, HomeInv
<1>4. ASSUME NEW l \in Loops, NEW outcome, AtSingle(l, outcome)
      PROVE  /\ InFrameLoop(l) /\ HasFrame(l) /\ Retrieve(l) /\ outcome # "queued"
             /\ cur[l] \in Conns /\ Single(l) \in Calls
             /\ Single(l).conn = cur[l] /\ Single(l).msg = next[cur[l]]
  BY <1>4, FrameFacts, NothingIsQueued DEF AtSingle, Single, Part
<1>5. ASSUME NEW l \in Loops, SingleNotified(l) \/ SingleDropped(l) PROVE HomeInv'
  <2>1. BatchIsHome'
    BY <1>4, <1>5, FrameStepKeepsBatches DEF SingleNotified, SingleDropped, HomeInv
  <2> QED
    BY <1>5, <2>1 DEF SingleNotified, SingleDropped, HomeInv, ResponsesGoHome, At, PlacesIn
<1>6. ASSUME NEW l \in Loops, SingleAnswered(l) PROVE HomeInv'
  <2>1. AtSingle(l, "answered")
    BY <1>6 DEF SingleAnswered
  <2>2. BatchIsHome'
    BY <1>4, <1>6, <2>1, FrameStepKeepsBatches DEF SingleAnswered, HomeInv
  <2>3. ResponsesGoHome'
    <3> DEFINE reply == [form |-> "object", msg |-> next[cur[l]],
                         responses |-> <<Answer(Single(l), "none")>>]
    <3>1. reply \in Replies /\ IsHome(cur[l], reply)
      BY <1>4, <2>1, SingleReplyType, SingleIsHome DEF Errs
    <3>2. Write(cur[l], reply)
      BY <1>6 DEF SingleAnswered
    <3> QED
      BY <1>4, <2>1, <3>1, <3>2, WriteKeepsHome DEF HomeInv
  <2> QED
    BY <1>6, <2>2, <2>3 DEF SingleAnswered, HomeInv
<1>7. ASSUME NEW l \in Loops, SingleQueued(l) \/ BatchQueued(l) PROVE FALSE
  BY <1>7, NothingIsQueued DEF SingleQueued, AtSingle, BatchQueued, AtElement
<1>8. ASSUME NEW l \in Loops, SingleRefused(l) PROVE HomeInv'
  <2>1. AtSingle(l, "refused")
    BY <1>8 DEF SingleRefused
  <2>2. PICK err \in Errs : Fail(l, Single(l), err)
    BY <1>8, VerdictType DEF SingleRefused
  <2>3. BatchIsHome'
    BY <1>4, <1>8, <2>1, <2>2, FrameStepKeepsBatches DEF SingleRefused, Fail, HomeInv
  <2> QED
    BY <1>4, <1>8, <2>1, <2>2, <2>3, FailKeepsHome DEF SingleRefused, HomeInv
<1>9. ASSUME NEW l \in Loops, BatchBegins(l) PROVE HomeInv'
  <2>1. BatchIsHome'
    BY <1>9, FrameStepKeepsBatches DEF BatchBegins, HomeInv
  <2> QED
    BY <1>9, <2>1 DEF BatchBegins, HomeInv, ResponsesGoHome, At, PlacesIn
<1>10. ASSUME NEW l \in Loops, BatchNotified(l) \/ BatchDropped(l) PROVE HomeInv'
  BY <1>10 DEF BatchNotified, BatchDropped, AtElement, HomeInv, BatchIsHome,
               ResponsesGoHome, At, PlacesIn
<1>11. ASSUME NEW l \in Loops, BatchAnswered(l) \/ BatchRefused(l) PROVE HomeInv'
  <2>1. InBatch(l)
    BY <1>11 DEF BatchAnswered, BatchRefused, AtElement
  <2>2. PICK err \in Errs : AddResponse(l, Answer(Element(l), err))
    BY <1>11, VerdictType DEF BatchAnswered, BatchRefused, Errs
  <2>3. BatchIsHome'
    BY <1>11, <2>1, <2>2, AddKeepsBatches DEF BatchAnswered, BatchRefused, AtElement, HomeInv
  <2> QED
    BY <1>11, <2>3 DEF BatchAnswered, BatchRefused, AtElement, HomeInv, ResponsesGoHome, At, PlacesIn
<1>12. ASSUME NEW l \in Loops, BatchEnds(l) PROVE HomeInv'
  <2>1. cur[l] \in Conns /\ next[cur[l]] - 1 \in Nat
    BY <1>12, BatchFacts DEF BatchEnds
  <2> DEFINE reply == [form |-> "array", msg |-> next[cur[l]] - 1, responses |-> batch[l]]
  <2>2. reply \in Replies /\ IsHome(cur[l], reply)
    BY <2>1 DEF TypeOK, Replies, IsHome, HomeInv, BatchIsHome
  <2>3. ResponsesGoHome'
    BY <1>12, <2>1, <2>2, WriteKeepsHome DEF BatchEnds, HomeInv
  <2>4. BatchIsHome'
    BY <1>12 DEF BatchEnds, HomeInv, BatchIsHome, TypeOK
  <2> QED
    BY <1>12, <2>3, <2>4 DEF BatchEnds, HomeInv
<1>13. Pool => FALSE
  BY DEF Pool, HomeInv
<1>14. ASSUME NEW c \in Conns, PeerCloses(c) PROVE HomeInv'
  BY <1>14 DEF PeerCloses, HomeInv, BatchIsHome, ResponsesGoHome, At, PlacesIn
<1>15. CASE UNCHANGED vars
  BY <1>15 DEF vars, HomeInv, BatchIsHome, ResponsesGoHome, At, PlacesIn
<1> QED
  BY <1>1, <1>2, <1>2a, <1>3, <1>5, <1>6, <1>7, <1>8, <1>9, <1>10, <1>11, <1>12, <1>13, <1>14,
     <1>15 DEF Next, Handle

(* A server none of whose procedures is handed to a pool sends every       *)
(* response to the connection, and in the reply, of the request.           *)
THEOREM InlineResponsesGoHome ==
  ASSUME Pooled = {}
  PROVE  Spec => []ResponsesGoHome
<1>1. Init => HomeInv
  BY DEF Init, HomeInv, BatchIsHome, ResponsesGoHome
<1>2. Inv /\ HomeInv /\ [Next]_vars => HomeInv'
  BY StepHome
<1>3. HomeInv => ResponsesGoHome
  BY DEF HomeInv
<1> QED
  BY <1>1, <1>2, <1>3, AlwaysInv, PTL DEF Spec

(***************************************************************************)
(* No request is answered twice.  A request can be answered because it is  *)
(* being handled (then the marks next and elem have not passed it, and do  *)
(* in this step) or because it was with the pool (then it is not any more).*)
(* So the requests with the pool, in batches and in replies are all behind *)
(* the marks, and in one place each.                                       *)
(***************************************************************************)
Past(call) ==
  IF call.elem = 0
  THEN call.msg < next[call.conn] \/ (call.msg = next[call.conn] /\ link[call.conn] # "up")
  ELSE /\ call.msg < next[call.conn]
       /\ /\ cur[LoopOf[call.conn]] = call.conn /\ elem[LoopOf[call.conn]] > 0
          /\ call.msg = next[call.conn] - 1
          => call.elem < elem[LoopOf[call.conn]]

Held(call) == \E l \in Loops : \E k \in DOMAIN batch[l] : CallOf(batch[l][k]) = call

Replied(call) ==
  \E c \in Conns : \E i \in DOMAIN outbox[c] : \E k \in PlacesIn(c, i) : CallOf(At(c, i, k)) = call

HeldOnce ==
  \A l, m \in Loops : \A j \in DOMAIN batch[l], k \in DOMAIN batch[m] :
    CallOf(batch[l][j]) = CallOf(batch[m][k]) => l = m /\ j = k

AllPast == \A call \in Calls : call \in tasks \/ Held(call) \/ Replied(call) => Past(call)

OnePlace ==
  \A call \in Calls : /\ call \in tasks => ~ Held(call) /\ ~ Replied(call)
                      /\ Held(call) => ~ Replied(call)

OnceInv == AllPast /\ OnePlace /\ HeldOnce /\ RespondedOnce

(* How a step moves the marks. *)
LEMMA StepMarks ==
  ASSUME Inv, [Next]_vars, NEW c \in Conns
  PROVE  /\ next[c] \in Nat /\ next'[c] \in Nat /\ next'[c] >= next[c]
         /\ link[c] # "up" => link'[c] # "up"
         /\ cur'[LoopOf[c]] = c /\ elem'[LoopOf[c]] > 0 =>
              \/ /\ cur[LoopOf[c]] = c /\ elem[LoopOf[c]] > 0 /\ next'[c] = next[c]
                 /\ elem'[LoopOf[c]] >= elem[LoopOf[c]]
              \/ next'[c] = next[c] + 1
<1> DEFINE k == LoopOf[c]
           Marks == /\ next[c] \in Nat /\ next'[c] \in Nat /\ next'[c] >= next[c]
                    /\ link[c] # "up" => link'[c] # "up"
                    /\ cur'[k] = c /\ elem'[k] > 0 =>
                         \/ /\ cur[k] = c /\ elem[k] > 0 /\ next'[c] = next[c]
                            /\ elem'[k] >= elem[k]
                         \/ next'[c] = next[c] + 1
<1>1. k \in Loops /\ next[c] \in Nat /\ elem[k] \in Nat
  BY ServerAssumption DEF Inv, TypeOK
<1>2. ASSUME UNCHANGED <<next, cur, elem>>, UNCHANGED link \/ \E d \in Conns : link' = [link EXCEPT ![d] = "down"]
      PROVE  Marks
  BY <1>1, <1>2 DEF Inv, TypeOK
<1>3. ASSUME NEW l \in Loops, elem[l] = 0, UNCHANGED <<next, elem, link>>,
             \A j \in Loops : j # l => cur'[j] = cur[j]
      PROVE  Marks
  <2>1. CASE k = l
    BY <1>1, <1>3, <2>1
  <2>2. CASE k # l
    BY <1>1, <1>3, <2>2
  <2> QED
    BY <2>1, <2>2
<1>4. ASSUME NEW l \in Loops, Read(l) \/ FrameLoopEnds(l) PROVE Marks
  <2>1. elem[l] = 0
    BY <1>4 DEF Read, FrameLoopEnds, InFrameLoop, Inv, TypeOK, LoopShape
  <2>2. \A j \in Loops : j # l => cur'[j] = cur[j]
    BY <1>4 DEF Read, FrameLoopEnds, Inv, TypeOK
  <2> QED
    BY <1>3, <1>4, <2>1, <2>2 DEF Read, FrameLoopEnds
<1>5. ASSUME NEW l \in Loops, InFrameLoop(l), HasFrame(l), Retrieve(l) \/ UNCHANGED next,
             UNCHANGED elem, UNCHANGED cur \/ cur' = [cur EXCEPT ![l] = NoConn],
             UNCHANGED link \/ Shutdown(cur[l])
      PROVE  Marks
  <2>1. cur[l] \in Conns /\ LoopOf[cur[l]] = l /\ elem[l] = 0
    BY <1>5, FrameFacts DEF InFrameLoop
  <2>2. link[c] # "up" => link'[c] # "up"
    BY <1>5, <2>1 DEF Shutdown, Inv, TypeOK
  <2>3. next'[c] \in Nat /\ next'[c] >= next[c] /\ (c # cur[l] => next'[c] = next[c])
    BY <1>1, <1>5, <2>1 DEF Retrieve, Inv, TypeOK
  <2>4. CASE k = l
    BY <1>1, <1>5, <2>1, <2>2, <2>3, <2>4
  <2>5. CASE k # l
    BY <1>1, <1>5, <2>1, <2>2, <2>3, <2>5 DEF Inv, TypeOK
  <2> QED
    BY <2>4, <2>5
<1>6. ASSUME NEW l \in Loops,
             \/ SkipBlankLine(l) \/ SingleNotified(l) \/ SingleAnswered(l)
             \/ SingleQueued(l) \/ SingleDropped(l)
      PROVE  Marks
  BY <1>5, <1>6 DEF SkipBlankLine, SingleNotified, SingleAnswered, SingleQueued, SingleDropped, AtSingle
<1>7. ASSUME NEW l \in Loops, SingleRefused(l) \/ RefuseMessage(l) PROVE Marks
  BY <1>5, <1>7 DEF SingleRefused, RefuseMessage, AtSingle, Fail
<1>8. ASSUME NEW l \in Loops, BatchBegins(l) PROVE Marks
  <2>1. cur[l] \in Conns /\ LoopOf[cur[l]] = l /\ Retrieve(l) /\ Advance(l) /\ UNCHANGED <<cur, link>>
    BY <1>8, FrameFacts DEF BatchBegins
  <2>2. CASE k = l
    BY <1>1, <2>1, <2>2 DEF Retrieve, Inv, TypeOK, LoopShape
  <2>3. CASE k # l
    BY <1>1, <2>1, <2>3 DEF Retrieve, Advance, Inv, TypeOK
  <2> QED
    BY <2>2, <2>3
<1>9. ASSUME NEW l \in Loops, InBatch(l), elem[l] <= Len(Array(l)), Advance(l) \/ LeaveLoop(l),
             UNCHANGED <<next, cur, link>>
      PROVE  Marks
  <2>1. elem[l] \in Nat /\ Len(Array(l)) \in Nat /\ elem[l] > 0
    BY <1>9, BatchFacts DEF InBatch
  <2>2. elem'[l] > elem[l]
    BY <1>9, <2>1 DEF Advance, LeaveLoop, Inv, TypeOK
  <2>3. k # l => elem'[k] = elem[k]
    BY <1>1, <1>9 DEF Advance, LeaveLoop, Inv, TypeOK
  <2>4. elem'[k] \in Nat
    BY <1>1, <1>9, <2>1, <2>3 DEF Advance, LeaveLoop, Inv, TypeOK
  <2> QED
    BY <1>1, <1>9, <2>1, <2>2, <2>3, <2>4
<1>10. ASSUME NEW l \in Loops, BatchNotified(l) \/ BatchAnswered(l) \/ BatchQueued(l)
                               \/ BatchRefused(l) \/ BatchDropped(l)
       PROVE  Marks
  BY <1>9, <1>10 DEF BatchNotified, BatchAnswered, BatchQueued, BatchRefused, BatchDropped, AtElement
<1>11. ASSUME NEW l \in Loops, BatchEnds(l) PROVE Marks
  BY <1>1, <1>11 DEF BatchEnds, Inv, TypeOK
<1>12. ASSUME NEW t \in tasks, DoneSingle(t) \/ DoneInBatch(t) \/ DoneStale(t) PROVE Marks
  BY <1>2, <1>12 DEF DoneSingle, DoneInBatch, DoneStale
<1>13. ASSUME NEW d \in Conns, PeerCloses(d) PROVE Marks
  BY <1>2, <1>13 DEF PeerCloses
<1>14. CASE UNCHANGED vars
  BY <1>2, <1>14 DEF vars
<1> QED
  BY <1>4, <1>6, <1>7, <1>8, <1>10, <1>11, <1>12, <1>13, <1>14 DEF Next, Handle, Pool

LEMMA PastStaysPast ==
  ASSUME Inv, [Next]_vars, NEW call \in Calls, Past(call)
  PROVE  Past(call)'
<1>1. call.conn \in Conns /\ call.msg \in Nat /\ call.elem \in Nat
  BY DEF Calls
<1>2. LoopOf[call.conn] \in Loops /\ elem[LoopOf[call.conn]] \in Nat
      /\ elem'[LoopOf[call.conn]] \in Nat
  BY <1>1, StepInv, ServerAssumption DEF Inv, TypeOK
<1> QED
  BY <1>1, <1>2, StepMarks DEF Past

(* Nothing is added. *)
LEMMA OnceWhenNothingIsAdded ==
  ASSUME OnceInv, \A call \in Calls : Past(call) => Past(call)',
         UNCHANGED <<batch, outbox>>, tasks' \subseteq tasks
  PROVE  OnceInv'
<1>1. \A call : (Held(call)' <=> Held(call)) /\ (Replied(call)' <=> Replied(call))
  BY DEF Held, Replied, At, PlacesIn
<1>2. HeldOnce' /\ RespondedOnce'
  BY DEF OnceInv, HeldOnce, RespondedOnce, At, PlacesIn
<1>3. AllPast' /\ OnePlace'
  BY <1>1 DEF OnceInv, AllPast, OnePlace
<1> QED
  BY <1>2, <1>3 DEF OnceInv

(* A request is handed to the pool. *)
LEMMA OnceWhenQueued ==
  ASSUME OnceInv, \A call \in Calls : Past(call) => Past(call)',
         NEW x \in Calls, ~ Past(x), Past(x)', tasks' = tasks \cup {x}, UNCHANGED <<batch, outbox>>
  PROVE  OnceInv'
<1>1. \A call : (Held(call)' <=> Held(call)) /\ (Replied(call)' <=> Replied(call))
  BY DEF Held, Replied, At, PlacesIn
<1>2. HeldOnce' /\ RespondedOnce'
  BY DEF OnceInv, HeldOnce, RespondedOnce, At, PlacesIn
<1>3. AllPast'
  BY <1>1 DEF OnceInv, AllPast
<1>4. ~ Held(x) /\ ~ Replied(x)
  BY DEF OnceInv, AllPast
<1>5. OnePlace'
  BY <1>1, <1>4 DEF OnceInv, OnePlace
<1> QED
  BY <1>2, <1>3, <1>5 DEF OnceInv

(* A request that is answered now, being handled or coming from the pool. *)
Fresh(x) == \/ ~ Past(x) /\ Past(x)' /\ UNCHANGED tasks
            \/ x \in tasks /\ tasks' = tasks \ {x}

LEMMA FreshFacts ==
  ASSUME OnceInv, \A call \in Calls : Past(call) => Past(call)', NEW x \in Calls, Fresh(x)
  PROVE  ~ Held(x) /\ ~ Replied(x) /\ Past(x)' /\ x \notin tasks' /\ tasks' \subseteq tasks
BY DEF OnceInv, AllPast, OnePlace, Fresh

LEMMA OnceWhenAdded ==
  ASSUME TypeOK, OnceInv, \A call \in Calls : Past(call) => Past(call)',
         NEW x \in Calls, Fresh(x), NEW l \in Loops, NEW err \in Errs,
         AddResponse(l, Answer(x, err)), UNCHANGED outbox
  PROVE  OnceInv'
<1>1. ~ Held(x) /\ ~ Replied(x) /\ Past(x)' /\ x \notin tasks' /\ tasks' \subseteq tasks
  BY FreshFacts
<1>2. \A m \in Loops : \A k \in DOMAIN batch'[m] :
        \/ k \in DOMAIN batch[m] /\ batch'[m][k] = batch[m][k]
        \/ m = l /\ k = Len(batch[l]) + 1 /\ CallOf(batch'[m][k]) = x
  BY AnswerType DEF AddResponse, TypeOK
<1>3. \A call : Held(call)' => Held(call) \/ call = x
  BY <1>2 DEF Held
<1>4. \A call : Replied(call)' <=> Replied(call)
  BY DEF Replied, At, PlacesIn
<1>5. HeldOnce'
  <2> SUFFICES ASSUME NEW m \in Loops, NEW n \in Loops,
                      NEW j \in DOMAIN batch'[m], NEW k \in DOMAIN batch'[n],
                      CallOf(batch'[m][j]) = CallOf(batch'[n][k])
               PROVE  m = n /\ j = k
    BY DEF HeldOnce, CallOf
  <2>1. \A o \in Loops : \A p \in DOMAIN batch[o] : CallOf(batch[o][p]) # x
    BY <1>1 DEF Held
  <2>2. CASE j \in DOMAIN batch[m] /\ batch'[m][j] = batch[m][j]
    BY <1>2, <2>1, <2>2 DEF OnceInv, HeldOnce
  <2>3. CASE m = l /\ j = Len(batch[l]) + 1 /\ CallOf(batch'[m][j]) = x
    BY <1>2, <2>1, <2>3
  <2> QED
    BY <1>2, <2>2, <2>3
<1>6. RespondedOnce'
  BY DEF OnceInv, RespondedOnce, At, PlacesIn
<1>7. AllPast'
  BY <1>1, <1>3, <1>4 DEF OnceInv, AllPast
<1>8. OnePlace'
  BY <1>1, <1>3, <1>4 DEF OnceInv, OnePlace
<1> QED
  BY <1>5, <1>6, <1>7, <1>8 DEF OnceInv

LEMMA OnceWhenWritten ==
  ASSUME TypeOK, OnceInv, \A call \in Calls : Past(call) => Past(call)',
         NEW x \in Calls, Fresh(x), NEW c \in Conns, NEW err \in Errs,
         Write(c, [form |-> "object", msg |-> x.msg, responses |-> <<Answer(x, err)>>]),
         UNCHANGED batch
  PROVE  OnceInv'
<1> DEFINE reply == [form |-> "object", msg |-> x.msg, responses |-> <<Answer(x, err)>>]
<1>1. ~ Held(x) /\ ~ Replied(x) /\ Past(x)' /\ x \notin tasks' /\ tasks' \subseteq tasks
  BY FreshFacts
<1>2. reply \in Replies /\ \A k \in DOMAIN reply.responses : k = 1 /\ CallOf(reply.responses[k]) = x
  BY SingleReplyType, AnswerType
<1>3. \A d \in Conns : \A i \in DOMAIN outbox'[d] :
        \/ i \in DOMAIN outbox[d] /\ outbox'[d][i] = outbox[d][i]
        \/ d = c /\ i = Len(outbox[c]) + 1 /\ outbox'[d][i] = reply
  BY <1>2, WriteAppends
<1> HIDE DEF reply
<1>4. \A d \in Conns : \A i \in DOMAIN outbox'[d] : \A k \in PlacesIn(d, i)' :
        \/ i \in DOMAIN outbox[d] /\ k \in PlacesIn(d, i) /\ At(d, i, k)' = At(d, i, k)
        \/ d = c /\ i = Len(outbox[c]) + 1 /\ k = 1 /\ CallOf(At(d, i, k)') = x
  BY <1>2, <1>3 DEF At, PlacesIn
<1>5. \A call : Replied(call)' => Replied(call) \/ call = x
  BY <1>4 DEF Replied, CallOf
<1>6. \A call : Held(call)' <=> Held(call)
  BY DEF Held
<1>7. RespondedOnce'
  <2> SUFFICES ASSUME NEW d \in Conns, NEW e \in Conns,
                      NEW i \in DOMAIN outbox'[d], NEW j \in DOMAIN outbox'[e],
                      NEW k \in PlacesIn(d, i)', NEW m \in PlacesIn(e, j)',
                      CallOf(At(d, i, k)') = CallOf(At(e, j, m)')
               PROVE  <<d, i, k>> = <<e, j, m>>
    BY DEF RespondedOnce, CallOf
  <2>1. \A f \in Conns : \A p \in DOMAIN outbox[f] : \A q \in PlacesIn(f, p) : CallOf(At(f, p, q)) # x
    BY <1>1 DEF Replied
  <2>2. CASE i \in DOMAIN outbox[d] /\ k \in PlacesIn(d, i) /\ At(d, i, k)' = At(d, i, k)
    BY <1>4, <2>1, <2>2 DEF OnceInv, RespondedOnce
  <2>3. CASE d = c /\ i = Len(outbox[c]) + 1 /\ k = 1 /\ CallOf(At(d, i, k)') = x
    BY <1>4, <2>1, <2>3
  <2> QED
    BY <1>4, <2>2, <2>3
<1>8. HeldOnce'
  BY DEF OnceInv, HeldOnce
<1>9. AllPast'
  BY <1>1, <1>5, <1>6 DEF OnceInv, AllPast
<1>10. OnePlace'
  BY <1>1, <1>5, <1>6 DEF OnceInv, OnePlace
<1> QED
  BY <1>7, <1>8, <1>9, <1>10 DEF OnceInv

(* A batch becomes a reply. *)
LEMMA OnceWhenBatchEnds ==
  ASSUME Inv, OnceInv, \A call \in Calls : Past(call) => Past(call)',
         NEW l \in Loops, BatchEnds(l)
  PROVE  OnceInv'
<1> DEFINE c     == cur[l]
           reply == [form |-> "array", msg |-> next[c] - 1, responses |-> batch[l]]
<1>1. c \in Conns /\ next[c] - 1 \in Nat
  BY BatchFacts DEF BatchEnds
<1>2. reply \in Replies /\ reply.responses = batch[l]
  BY <1>1 DEF Replies, Inv, TypeOK
<1>3. \A d \in Conns : \A i \in DOMAIN outbox'[d] :
        \/ i \in DOMAIN outbox[d] /\ outbox'[d][i] = outbox[d][i]
        \/ d = c /\ i = Len(outbox[c]) + 1 /\ outbox'[d][i] = reply
  BY <1>1, <1>2, WriteAppends DEF BatchEnds, Inv
<1> HIDE DEF reply
<1>4. \A d \in Conns : \A i \in DOMAIN outbox'[d] : \A k \in PlacesIn(d, i)' :
        \/ i \in DOMAIN outbox[d] /\ k \in PlacesIn(d, i) /\ At(d, i, k)' = At(d, i, k)
        \/ /\ d = c /\ i = Len(outbox[c]) + 1
           /\ k \in DOMAIN batch[l] /\ At(d, i, k)' = batch[l][k]
  BY <1>2, <1>3 DEF At, PlacesIn
<1> HIDE DEF c
<1>5. \A m \in Loops : \A k \in DOMAIN batch'[m] :
        m # l /\ k \in DOMAIN batch[m] /\ batch'[m][k] = batch[m][k]
  BY DEF BatchEnds, Inv, TypeOK
<1>6. \A call : Held(call)' => Held(call)
  BY <1>5 DEF Held
<1>7. \A call : Replied(call)' => Replied(call) \/ Held(call)
  BY <1>4 DEF Replied, Held
<1>8. \A call : Held(call)' => ~ \E k \in DOMAIN batch[l] : CallOf(batch[l][k]) = call
  BY <1>5 DEF Held, OnceInv, HeldOnce
<1>9. \A call \in Calls : Held(call)' => ~ Replied(call)'
  <2> SUFFICES ASSUME NEW call \in Calls, Held(call)', Replied(call)' PROVE FALSE
    OBVIOUS
  <2>1. Held(call) /\ ~ Replied(call)
    BY <1>6 DEF OnceInv, OnePlace
  <2> QED
    BY <1>4, <1>8, <2>1 DEF Replied
<1>10. \A d \in Conns : \A i \in DOMAIN outbox[d] : \A k \in PlacesIn(d, i) : \A m \in DOMAIN batch[l] :
         CallOf(At(d, i, k)) # CallOf(batch[l][m])
  <2> SUFFICES ASSUME NEW d \in Conns, NEW i \in DOMAIN outbox[d], NEW k \in PlacesIn(d, i),
                      NEW m \in DOMAIN batch[l], CallOf(At(d, i, k)) = CallOf(batch[l][m])
               PROVE  FALSE
    OBVIOUS
  <2>1. batch[l][m] \in Responses
    BY DEF Inv, TypeOK
  <2>2. CallOf(batch[l][m]) \in Calls
    BY <2>1 DEF CallOf, Responses, Calls
  <2> QED
    BY <2>2 DEF Held, Replied, OnceInv, OnePlace
<1>11. RespondedOnce'
  <2> SUFFICES ASSUME NEW d \in Conns, NEW e \in Conns,
                      NEW i \in DOMAIN outbox'[d], NEW j \in DOMAIN outbox'[e],
                      NEW k \in PlacesIn(d, i)', NEW m \in PlacesIn(e, j)',
                      CallOf(At(d, i, k)') = CallOf(At(e, j, m)')
               PROVE  <<d, i, k>> = <<e, j, m>>
    BY DEF RespondedOnce, CallOf
  <2>1. CASE i \in DOMAIN outbox[d] /\ k \in PlacesIn(d, i) /\ At(d, i, k)' = At(d, i, k)
    BY <1>4, <1>10, <2>1 DEF OnceInv, RespondedOnce
  <2>2. CASE /\ d = c /\ i = Len(outbox[c]) + 1
             /\ k \in DOMAIN batch[l] /\ At(d, i, k)' = batch[l][k]
    BY <1>4, <1>10, <2>2 DEF OnceInv, HeldOnce
  <2> QED
    BY <1>4, <2>1, <2>2
<1>12. HeldOnce'
  BY <1>5 DEF OnceInv, HeldOnce
<1>13. AllPast'
  BY <1>6, <1>7 DEF BatchEnds, OnceInv, AllPast
<1>14. OnePlace'
  BY <1>6, <1>7, <1>9 DEF BatchEnds, OnceInv, OnePlace
<1> QED
  BY <1>11, <1>12, <1>13, <1>14 DEF OnceInv

(* The request of a single message, and the element of a batch, are behind *)
(* the marks after the step that handles them and not before.              *)
LEMMA SinglePasses ==
  ASSUME Inv, NEW l \in Loops, NEW outcome, AtSingle(l, outcome),
         UNCHANGED elem, NEW x, x = Single(l)
  PROVE  /\ x \in Calls /\ ~ Past(x) /\ Past(x)'
         /\ cur[l] \in Conns /\ x.msg = next[cur[l]]
<1>1. /\ InFrameLoop(l) /\ HasFrame(l) /\ Retrieve(l)
      /\ cur[l] \in Conns /\ LoopOf[cur[l]] = l /\ next[cur[l]] \in Nat
      /\ x \in Calls
  BY FrameFacts DEF AtSingle, Single
<1>2. x.conn = cur[l] /\ x.msg = next[cur[l]] /\ x.elem = 1
  BY DEF Single, Part
<1>3. next'[cur[l]] = next[cur[l]] + 1 /\ elem'[l] = 0
  BY <1>1 DEF Retrieve, InFrameLoop, Inv, TypeOK
<1> QED
  BY <1>1, <1>2, <1>3 DEF Past

LEMMA ElementPasses ==
  ASSUME Inv, NEW l \in Loops, NEW outcome, AtElement(l, outcome), Advance(l) \/ LeaveLoop(l),
         NEW x, x = Element(l)
  PROVE  x \in Calls /\ ~ Past(x) /\ Past(x)'
<1>1. /\ InBatch(l) /\ elem[l] <= Len(Array(l)) /\ UNCHANGED <<next, cur>>
      /\ cur[l] \in Conns /\ LoopOf[cur[l]] = l /\ next[cur[l]] \in Nat
      /\ elem[l] \in Nat /\ elem[l] > 0 /\ Len(Array(l)) \in Nat
      /\ x \in Calls
  BY BatchFacts DEF AtElement, InBatch
<1>2. x.conn = cur[l] /\ x.msg = next[cur[l]] - 1 /\ x.elem = elem[l]
  BY DEF Element, Part
<1>3. elem'[l] > elem[l]
  BY <1>1 DEF Advance, LeaveLoop, Inv, TypeOK
<1> QED
  BY <1>1, <1>2, <1>3 DEF Past, InBatch

LEMMA StepOnce == Inv /\ OnceInv /\ [Next]_vars => OnceInv'
<1> SUFFICES ASSUME Inv, OnceInv, [Next]_vars PROVE OnceInv'
  OBVIOUS
<1>1. TypeOK /\ \A call \in Calls : Past(call) => Past(call)'
  BY PastStaysPast DEF Inv
<1>2. ASSUME UNCHANGED <<batch, outbox>>, tasks' \subseteq tasks PROVE OnceInv'
  BY <1>1, <1>2, OnceWhenNothingIsAdded
<1>3. ASSUME NEW l \in Loops,
             \/ Read(l) \/ FrameLoopEnds(l) \/ SkipBlankLine(l) \/ SingleNotified(l)
             \/ SingleDropped(l) \/ BatchBegins(l) \/ BatchNotified(l) \/ BatchDropped(l)
      PROVE  UNCHANGED <<batch, outbox, tasks>>
  BY <1>3 DEF Read, FrameLoopEnds, SkipBlankLine, SingleNotified, SingleDropped, BatchBegins,
              BatchNotified, BatchDropped, AtElement
<1>4. ASSUME NEW l \in Loops, RefuseMessage(l) PROVE OnceInv'
  <2>1. PICK err \in Errs : Fail(l, Part(l, next[cur[l]], 0), err)
    BY <1>4 DEF RefuseMessage, Errs, Errors
  <2>2. /\ InFrameLoop(l) /\ HasFrame(l) /\ cur[l] \in Conns /\ next[cur[l]] \in Nat
        /\ Part(l, next[cur[l]], 0) \in Calls
    BY <1>4, FrameFacts DEF RefuseMessage
  <2>3. CASE link[cur[l]] # "up"
    BY <1>2, <1>4, <2>1, <2>2, <2>3 DEF RefuseMessage, Fail, Write, Inv, TypeOK
  <2>4. CASE link[cur[l]] = "up"
    <3>1. PICK x : x = Part(l, next[cur[l]], 0)
      OBVIOUS
    <3>2. x \in Calls /\ x.conn = cur[l] /\ x.msg = next[cur[l]] /\ x.elem = 0
      BY <2>2, <3>1 DEF Part
    <3>3. link'[cur[l]] # "up"
      BY <2>1, <2>2 DEF Fail, Shutdown, Inv, TypeOK
    <3>4. next'[cur[l]] = next[cur[l]] \/ next'[cur[l]] = next[cur[l]] + 1
      BY <1>4, <2>2 DEF RefuseMessage, Retrieve, Inv, TypeOK
    <3>5. ~ Past(x) /\ Past(x)'
      BY <2>2, <2>4, <3>2, <3>3, <3>4 DEF Past
    <3>6. Fresh(x) /\ UNCHANGED batch
      BY <1>4, <3>5 DEF Fresh, RefuseMessage
    <3> QED
      BY <1>1, <2>1, <2>2, <3>1, <3>2, <3>6, OnceWhenWritten DEF Fail
  <2> QED
    BY <2>3, <2>4
<1>5. ASSUME NEW l \in Loops, SingleAnswered(l) PROVE OnceInv'
  <2>1. PICK x : x = Single(l)
    OBVIOUS
  <2>2. x \in Calls /\ ~ Past(x) /\ Past(x)' /\ cur[l] \in Conns /\ x.msg = next[cur[l]]
    BY <1>5, <2>1, SinglePasses DEF SingleAnswered
  <2>3. Fresh(x) /\ UNCHANGED batch /\ "none" \in Errs
    BY <1>5, <2>2 DEF Fresh, SingleAnswered, Errs
  <2>4. Write(cur[l], [form |-> "object", msg |-> x.msg, responses |-> <<Answer(x, "none")>>])
    BY <1>5, <2>1, <2>2 DEF SingleAnswered
  <2> QED
    BY <1>1, <2>2, <2>3, <2>4, OnceWhenWritten
<1>6. ASSUME NEW l \in Loops, SingleQueued(l) PROVE OnceInv'
  <2>1. PICK x : x = Single(l)
    OBVIOUS
  <2>2. x \in Calls /\ ~ Past(x) /\ Past(x)'
    BY <1>6, <2>1, SinglePasses DEF SingleQueued
  <2> QED
    BY <1>1, <1>6, <2>1, <2>2, OnceWhenQueued DEF SingleQueued
<1>7. ASSUME NEW l \in Loops, SingleRefused(l) PROVE OnceInv'
  <2>1. PICK x : x = Single(l)
    OBVIOUS
  <2>2. x \in Calls /\ ~ Past(x) /\ Past(x)' /\ cur[l] \in Conns
    BY <1>7, <2>1, SinglePasses DEF SingleRefused
  <2>3. PICK err \in Errs : Fail(l, x, err)
    BY <1>7, <2>1, VerdictType DEF SingleRefused
  <2>4. Fresh(x) /\ UNCHANGED batch
    BY <1>7, <2>2 DEF Fresh, SingleRefused
  <2> QED
    BY <1>1, <2>2, <2>3, <2>4, OnceWhenWritten DEF Fail
<1>8. ASSUME NEW l \in Loops, BatchAnswered(l) \/ BatchRefused(l) PROVE OnceInv'
  <2>1. PICK x : x = Element(l)
    OBVIOUS
  <2>2. x \in Calls /\ ~ Past(x) /\ Past(x)'
    BY <1>8, <2>1, ElementPasses DEF BatchAnswered, BatchRefused
  <2>3. PICK err \in Errs : AddResponse(l, Answer(x, err))
    BY <1>8, <2>1, VerdictType DEF BatchAnswered, BatchRefused, Errs
  <2>4. Fresh(x) /\ UNCHANGED outbox
    BY <1>8, <2>2 DEF Fresh, BatchAnswered, BatchRefused, AtElement
  <2> QED
    BY <1>1, <2>2, <2>3, <2>4, OnceWhenAdded
<1>9. ASSUME NEW l \in Loops, BatchQueued(l) PROVE OnceInv'
  <2>1. PICK x : x = Element(l)
    OBVIOUS
  <2>2. x \in Calls /\ ~ Past(x) /\ Past(x)'
    BY <1>9, <2>1, ElementPasses DEF BatchQueued
  <2> QED
    BY <1>1, <1>9, <2>1, <2>2, OnceWhenQueued DEF BatchQueued, AtElement
<1>10. ASSUME NEW l \in Loops, BatchEnds(l) PROVE OnceInv'
  BY <1>1, <1>10, OnceWhenBatchEnds
<1>11. ASSUME NEW t \in tasks, DoneSingle(t) PROVE OnceInv'
  <2>1. t \in Calls /\ t.conn \in Conns /\ Fresh(t) /\ UNCHANGED batch /\ "none" \in Errs
    BY <1>1, <1>11 DEF DoneSingle, Finish, Fresh, TypeOK, Calls, Errs
  <2> QED
    BY <1>1, <1>11, <2>1, OnceWhenWritten DEF DoneSingle
<1>12. ASSUME NEW t \in tasks, DoneInBatch(t) \/ DoneStale(t) PROVE OnceInv'
  <2>1. /\ t \in Calls /\ LoopOf[t.conn] \in Loops /\ Fresh(t) /\ "none" \in Errs
        /\ UNCHANGED outbox /\ tasks' \subseteq tasks
    BY <1>1, <1>12, ServerAssumption DEF DoneInBatch, DoneStale, Finish, Fresh, TypeOK, Calls, Errs
  <2>2. CASE UNCHANGED batch
    BY <1>2, <2>1, <2>2
  <2>3. CASE AddResponse(LoopOf[t.conn], Answer(t, "none"))
    BY <1>1, <2>1, <2>3, OnceWhenAdded
  <2> QED
    BY <1>12, <2>2, <2>3 DEF DoneInBatch, DoneStale
<1>13. ASSUME NEW c \in Conns, PeerCloses(c) PROVE UNCHANGED <<batch, outbox, tasks>>
  BY <1>13 DEF PeerCloses
<1>14. CASE UNCHANGED vars
  BY <1>2, <1>14 DEF vars
<1> QED
  BY <1>2, <1>3, <1>4, <1>5, <1>6, <1>7, <1>8, <1>9, <1>10, <1>11, <1>12, <1>13, <1>14
  DEF Next, Handle, Pool

LEMMA AlwaysOnce == Spec => []OnceInv
<1>1. Init => OnceInv
  BY DEF Init, OnceInv, AllPast, OnePlace, HeldOnce, RespondedOnce, Held, Replied
<1> QED
  BY <1>1, StepOnce, AlwaysInv, PTL DEF Spec

(* No request is answered twice, on any connection, also where responses   *)
(* finished by pool threads go astray.                                     *)
THEOREM AnsweredAtMostOnce == Spec => []RespondedOnce
<1>1. OnceInv => RespondedOnce
  BY DEF OnceInv
<1> QED
  BY <1>1, AlwaysOnce, PTL

============================================================================
