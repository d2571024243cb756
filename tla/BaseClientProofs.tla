-------------------------- MODULE BaseClientProofs --------------------------
(***************************************************************************)
(* What holds of the client for any bounds and any frames the peer may     *)
(* send, with callbacks that make further calls.                           *)
(***************************************************************************)
EXTENDS BaseClient, TLAPS

LEMMA SeqMonotonic ==
  ASSUME NEW S, NEW T, S \subseteq T
  PROVE  Seq(S) \subseteq Seq(T)
<1> SUFFICES ASSUME NEW s \in Seq(S) PROVE s \in Seq(T)
  OBVIOUS
<1>1. Len(s) \in Nat /\ s \in [1 .. Len(s) -> T]
  OBVIOUS
<1> QED
  BY <1>1

LEMMA InitType == Init => TypeOK
<1> SUFFICES ASSUME Init PROVE TypeOK
  OBVIOUS
<1>1. DOMAIN callbacks = {} /\ Len(inbox) = 0
  BY DEF Init
<1>2. /\ sent \in Seq(Requests)
      /\ inbox \in Seq(Frames)
      /\ fired \in Seq([call : Calls, answered : Calls])
  BY DEF Init
<1>3. busy \in BOOLEAN /\ calling \in BOOLEAN /\ ~ calling
  BY Zenon DEF Init
<1>4. id \in Nat /\ issued \in Nat /\ elem \in Nat /\ ~ elem > 0 /\ link \in {"up", "down"} /\ abandoned \subseteq Calls
  BY DEF Init
<1>5. got \in 0 .. Len(inbox) /\ next \in 1 .. got + 1
  BY <1>1 DEF Init
<1> QED
  BY <1>1, <1>2, <1>3, <1>4, <1>5 DEF TypeOK

LEMMA ElementOfSeq ==
  ASSUME NEW S, NEW s \in Seq(S), NEW i \in 1 .. Len(s)
  PROVE  s[i] \in S
OBVIOUS

(* Numbering only widens the types. *)
LEMMA TypesGrow ==
  ASSUME TypeOK, Calls \subseteq Calls', Requests \subseteq Requests'
  PROVE  /\ sent \in Seq(Requests') /\ inbox \in Seq(Frames')
         /\ fired \in Seq([call : Calls', answered : Calls']) /\ abandoned \subseteq Calls'
<1>1. sent \in Seq(Requests')
  BY SeqMonotonic DEF TypeOK
<1>2. Answers \subseteq Answers'
  BY DEF Answers
<1>3. Seq(Answers) \subseteq Seq(Answers')
  BY <1>2, SeqMonotonic
<1>4. Frames \subseteq Frames'
  BY <1>3 DEF Frames
<1>5. inbox \in Seq(Frames')
  BY <1>4, SeqMonotonic DEF TypeOK
<1>6. [call : Calls, answered : Calls] \subseteq [call : Calls', answered : Calls']
  OBVIOUS
<1>7. fired \in Seq([call : Calls', answered : Calls'])
  BY <1>6, SeqMonotonic DEF TypeOK
<1> QED
  BY <1>1, <1>5, <1>7 DEF TypeOK

LEMMA FrameType ==
  ASSUME TypeOK, NEW n \in 1 .. Len(inbox)
  PROVE  inbox[n].elems \in Seq(Answers)
<1>1. inbox[n] \in Frames
  BY ElementOfSeq DEF TypeOK
<1> QED
  BY <1>1 DEF Frames

(* The response being handled answers a request that was sent. *)
LEMMA ThisFacts ==
  ASSUME TypeOK, elem > 0
  PROVE  /\ next - 1 \in 1 .. Len(inbox) /\ Elems \in Seq(Answers)
         /\ elem \in 1 .. Len(Elems) /\ This.to \in Requests
<1>1. next - 1 \in 1 .. Len(inbox) /\ elem \in DOMAIN Elems
  BY DEF TypeOK
<1>2. Elems \in Seq(Answers)
  BY <1>1, FrameType DEF Elems
<1>3. This \in Answers
  BY <1>1, <1>2, ElementOfSeq DEF This
<1> QED
  BY <1>1, <1>2, <1>3 DEF Answers

LEMMA StepType == TypeOK /\ [Next]_vars => TypeOK'
<1> SUFFICES ASSUME TypeOK, [Next]_vars PROVE TypeOK'
  OBVIOUS
<1>1. CASE SendCall
  <2>1. id' = id + 1 /\ issued' = issued + 1 /\ id \in Nat /\ issued \in Nat
    BY <1>1 DEF SendCall, NextId, TypeOK
  <2>9. Calls \subseteq Calls' /\ Requests \subseteq Requests'
    BY <2>1 DEF Requests, Calls
  <2>2. /\ sent \in Seq(Requests') /\ inbox \in Seq(Frames')
        /\ fired \in Seq([call : Calls', answered : Calls']) /\ abandoned \subseteq Calls'
    BY <2>9, TypesGrow
  <2>3. [call |-> issued, id |-> id] \in Requests'
    BY <2>1 DEF Frames, Answers, Requests, Calls
  <2>4. sent' \in Seq(Requests')
    BY <1>1, <2>2, <2>3 DEF SendCall
  <2>5. /\ DOMAIN callbacks' \subseteq 0 .. id' - 1
        /\ \A j \in DOMAIN callbacks' : callbacks'[j] \in Calls'
    BY <1>1, <2>1 DEF SendCall, TypeOK, Calls
  <2>6. calling' \in BOOLEAN /\ (calling' => elem' > 0 /\ This'.to.id \in DOMAIN callbacks')
    BY <1>1 DEF SendCall, TypeOK, This, Elems
  <2>7. UNCHANGED <<link, inbox, got, next, busy, elem, calling, fired, abandoned>>
    BY <1>1 DEF SendCall
  <2>8. Elems' = Elems
    BY <2>7 DEF Elems
  <2> QED
    BY <2>1, <2>2, <2>4, <2>5, <2>6, <2>7, <2>8 DEF TypeOK
<1>2. CASE PeerSends
  <2>1. UNCHANGED <<id, callbacks, link, sent, got, next, busy, elem, calling, issued, fired, abandoned>>
    BY <1>2 DEF PeerSends
  <2>12. PICK s \in Shapes : \E to \in [DOMAIN s.elems -> DOMAIN sent] :
          inbox' = Append(inbox,
            [form  |-> s.form,
             elems |-> [e \in DOMAIN s.elems |-> [to |-> sent[to[e]], says |-> s.elems[e]]]])
    BY <1>2 DEF PeerSends
  <2>2. PICK to \in [DOMAIN s.elems -> DOMAIN sent] :
          inbox' = Append(inbox,
            [form  |-> s.form,
             elems |-> [e \in DOMAIN s.elems |-> [to |-> sent[to[e]], says |-> s.elems[e]]]])
    BY <2>12
  <2>3. s.form \in Forms /\ s.elems \in Seq(Response)
    BY ClientAssumption
  <2>4. \A e \in 1 .. Len(s.elems) : [to |-> sent[to[e]], says |-> s.elems[e]] \in Answers
    <3> SUFFICES ASSUME NEW e \in 1 .. Len(s.elems)
                 PROVE  sent[to[e]] \in Requests /\ s.elems[e] \in Response
      BY DEF Answers
    <3>1. to[e] \in 1 .. Len(sent) /\ sent \in Seq(Requests)
      BY <2>3 DEF TypeOK
    <3> QED
      BY <2>3, <3>1, ElementOfSeq
  <2>5. [e \in DOMAIN s.elems |-> [to |-> sent[to[e]], says |-> s.elems[e]]] \in Seq(Answers)
    BY <2>3, <2>4
  <2>13. [form  |-> s.form,
          elems |-> [e \in DOMAIN s.elems |-> [to |-> sent[to[e]], says |-> s.elems[e]]]] \in Frames
    BY <2>3, <2>5 DEF Frames
  <2>6. inbox' \in Seq(Frames)
    BY <2>2, <2>13 DEF TypeOK
  <2>7. Len(inbox') = Len(inbox) + 1 /\ \A n \in DOMAIN inbox : inbox'[n] = inbox[n]
    BY <2>2, <2>13 DEF TypeOK
  <2>8. elem > 0 => Elems' = Elems
    BY <2>1, <2>7, ThisFacts DEF Elems
  <2>9. calling => This'.to.id \in DOMAIN callbacks
    BY <2>1, <2>8 DEF TypeOK, This
  <2>10. got' \in 0 .. Len(inbox') /\ next' \in 1 .. got' + 1
    BY <2>1, <2>7 DEF TypeOK
  <2>11. Frames' = Frames /\ Requests' = Requests /\ Calls' = Calls
    BY <2>1 DEF Frames, Answers, Requests, Calls
  <2> QED
    BY <2>1, <2>6, <2>8, <2>9, <2>10, <2>11 DEF TypeOK
<1>3. CASE Read
  <2>1. /\ UNCHANGED <<id, callbacks, link, sent, inbox, next, elem, calling, issued, fired, abandoned>>
        /\ busy' = TRUE
    BY <1>3 DEF Read
  <2>2. Frames' = Frames /\ Requests' = Requests /\ Calls' = Calls /\ Elems' = Elems /\ This' = This
    BY <2>1 DEF Frames, Answers, Requests, Calls, Elems, This
  <2>4. Len(inbox) \in Nat /\ got \in Nat /\ next \in 1 .. got + 1
    BY DEF TypeOK
  <2>3. got' \in 0 .. Len(inbox') /\ next' \in 1 .. got' + 1
    <3>1. PICK n \in got .. Len(inbox) : got' = n
      BY <1>3 DEF Read
    <3>2. inbox' = inbox /\ next' = next
      BY <2>1
    <3> QED
      BY <2>4, <3>1, <3>2
  <2>5. busy' \in BOOLEAN /\ (elem' > 0 => busy')
    BY <2>1
  <2> QED
    BY <2>1, <2>2, <2>3, <2>5 DEF TypeOK
<1>4. CASE ConnectionDown
  BY <1>4 DEF ConnectionDown, TypeOK, Frames, Answers, Requests, Calls, Elems, This
<1>5. ASSUME InFrameLoop, UNCHANGED next,
             UNCHANGED <<id, callbacks, link, sent, inbox, got, elem, calling, issued, fired, abandoned>>,
             busy' \in BOOLEAN
      PROVE  TypeOK'
  <2>1. Frames' = Frames /\ Requests' = Requests /\ Calls' = Calls
    BY <1>5 DEF Frames, Answers, Requests, Calls
  <2>2. elem = 0 /\ ~ calling
    BY <1>5 DEF InFrameLoop, TypeOK
  <2> QED
    BY <1>5, <2>1, <2>2 DEF TypeOK
<1>17. CASE FrameLoopEnds
  BY <1>5, <1>17 DEF FrameLoopEnds
<1>6. ASSUME InFrameLoop, HasFrame, next' = next \/ Retrieve,
             UNCHANGED <<id, callbacks, link, sent, inbox, got, elem, calling, issued, fired, abandoned>>,
             busy' \in BOOLEAN
      PROVE  TypeOK'
  <2>1. Frames' = Frames /\ Requests' = Requests /\ Calls' = Calls
    BY <1>6 DEF Frames, Answers, Requests, Calls
  <2>2. next' \in 1 .. got' + 1
    BY <1>6 DEF HasFrame, Retrieve, TypeOK
  <2>3. elem = 0 /\ ~ calling
    BY <1>6 DEF InFrameLoop, TypeOK
  <2> QED
    BY <1>6, <2>1, <2>2, <2>3 DEF TypeOK
<1>7. CASE RejectFrame
  BY <1>6, <1>7 DEF RejectFrame
<1>8. CASE FrameBegins
  <2>1. /\ InFrameLoop /\ HasFrame /\ Retrieve /\ elem' = 1 /\ IsResponse(Frame)
        /\ UNCHANGED <<id, callbacks, link, sent, inbox, got, busy, calling, issued, fired, abandoned>>
    BY <1>8 DEF FrameBegins
  <2>2. Frames' = Frames /\ Requests' = Requests /\ Calls' = Calls /\ ~ calling
    BY <2>1 DEF Frames, Answers, Requests, Calls, InFrameLoop, TypeOK
  <2>3. next' = next + 1 /\ next \in 1 .. Len(inbox) /\ next' \in 1 .. got' + 1 /\ next' > 1
    BY <2>1 DEF HasFrame, Retrieve, TypeOK
  <2>4. Elems' = inbox[next].elems /\ inbox[next].elems \in Seq(Answers)
    BY <2>1, <2>3, FrameType DEF Elems, TypeOK
  <2>5. inbox[next].elems # <<>>
    BY <2>1 DEF IsResponse, Frame
  <2>6. 1 \in DOMAIN Elems'
    BY <2>4, <2>5
  <2> QED
    BY <2>1, <2>2, <2>3, <2>6 DEF TypeOK, InFrameLoop
<1>9. ASSUME elem > 0, Handled, ~ calling', DOMAIN callbacks' \subseteq DOMAIN callbacks,
             \A j \in DOMAIN callbacks' : callbacks'[j] = callbacks[j],
             UNCHANGED <<id, link, sent, inbox, got, next, busy, issued, fired, abandoned>>,
             calling' \in BOOLEAN
      PROVE  TypeOK'
  <2>1. Frames' = Frames /\ Requests' = Requests /\ Calls' = Calls /\ Elems' = Elems
    BY <1>9 DEF Frames, Answers, Requests, Calls, Elems
  <2>2. elem' \in Nat /\ (elem' > 0 => elem' \in DOMAIN Elems)
    BY <1>9, ThisFacts DEF Handled
  <2> QED
    BY <1>9, <2>1, <2>2 DEF TypeOK
<1>10. ASSUME elem > 0, elem' = 0, ~ calling', busy' \in BOOLEAN, DOMAIN callbacks' \subseteq DOMAIN callbacks,
              \A j \in DOMAIN callbacks' : callbacks'[j] = callbacks[j],
              UNCHANGED <<id, link, sent, inbox, got, next, issued, fired>>,
              calling' \in BOOLEAN, abandoned' \subseteq Calls
       PROVE  TypeOK'
  <2>1. Frames' = Frames /\ Requests' = Requests /\ Calls' = Calls
    BY <1>10 DEF Frames, Answers, Requests, Calls
  <2> QED
    BY <1>10, <2>1 DEF TypeOK
<1>11. CASE RejectAnonymous
  BY <1>10, <1>11 DEF RejectAnonymous, InResponse, TypeOK
<1>12. CASE RejectNamed
  <2>1. abandoned' \subseteq Calls
    BY <1>12 DEF RejectNamed, TypeOK
  <2> QED
    BY <1>10, <1>12, <2>1 DEF RejectNamed, InResponse, Erase, TypeOK
<1>13. CASE IgnoreResponse
  BY <1>9, <1>13 DEF IgnoreResponse, InResponse, TypeOK
<1>14. CASE CallbackReturns
  BY <1>9, <1>14 DEF CallbackReturns, Erase, TypeOK
<1>15. CASE CallbackBegins
  <2>1. UNCHANGED <<id, callbacks, link, sent, inbox, got, next, busy, elem, issued, abandoned>>
        /\ calling' = TRUE /\ elem > 0
    BY <1>15 DEF CallbackBegins, InResponse
  <2>2. Frames' = Frames /\ Requests' = Requests /\ Calls' = Calls /\ Elems' = Elems /\ This' = This
    BY <2>1 DEF Frames, Answers, Requests, Calls, Elems, This
  <2>3. This.to.id \in DOMAIN callbacks /\ callbacks[This.to.id] \in Calls /\ This.to.call \in Calls
    BY <1>15, <2>1, ThisFacts DEF CallbackBegins, TypeOK, Requests
  <2>4. fired' \in Seq([call : Calls, answered : Calls])
    BY <1>15, <2>3 DEF CallbackBegins, TypeOK
  <2> QED
    BY <2>1, <2>2, <2>3, <2>4 DEF TypeOK
<1>16. CASE UNCHANGED vars
  BY <1>16 DEF vars, TypeOK, Frames, Answers, Requests, Calls, Elems, This
<1> QED
  BY <1>1, <1>2, <1>3, <1>4, <1>7, <1>8, <1>11, <1>12, <1>13, <1>14, <1>15, <1>16, <1>17
  DEF Next, Handle

(* Types, and the buffer's marks. *)
THEOREM TypeCorrect == Spec => []TypeOK
BY InitType, StepType, PTL DEF Spec


(***************************************************************************)
(* The table is keyed by ids that are the calls' own numbers: ids are      *)
(* handed out once each, and a response is written for a request received. *)
(***************************************************************************)
Numbered ==
  /\ id = issued
  /\ \A i \in DOMAIN callbacks : callbacks[i] = i
  /\ \A k \in 1 .. Len(sent) : sent[k].call = sent[k].id
  /\ \A n \in 1 .. Len(inbox) : \A e \in 1 .. Len(inbox[n].elems) :
       inbox[n].elems[e].to.call = inbox[n].elems[e].to.id

LEMMA ThisIsNumbered ==
  ASSUME TypeOK, Numbered, elem > 0
  PROVE  This.to.call = This.to.id
BY ThisFacts DEF Numbered, This, Elems

LEMMA StepNumbered == TypeOK /\ Numbered /\ [Next]_vars => Numbered'
<1> SUFFICES ASSUME TypeOK, Numbered, [Next]_vars PROVE Numbered'
  OBVIOUS
<1>1. CASE SendCall
  <2>1. id' = issued' /\ inbox' = inbox
    BY <1>1 DEF SendCall, NextId, Numbered
  <2>2. \A i \in DOMAIN callbacks' : callbacks'[i] = i
    BY <1>1 DEF SendCall, Numbered
  <2>3. \A k \in 1 .. Len(sent') : sent'[k].call = sent'[k].id
    <3>1. CASE sent' = sent
      BY <3>1 DEF Numbered
    <3>2. CASE sent' = Append(sent, [call |-> issued, id |-> id])
      BY <3>2 DEF Numbered, TypeOK
    <3> QED
      BY <1>1, <3>1, <3>2 DEF SendCall
  <2> QED
    BY <2>1, <2>2, <2>3 DEF Numbered
<1>2. CASE PeerSends
  <2>1. UNCHANGED <<id, callbacks, sent, issued>>
    BY <1>2 DEF PeerSends
  <2>2. PICK s \in Shapes : \E to \in [DOMAIN s.elems -> DOMAIN sent] :
          inbox' = Append(inbox,
            [form  |-> s.form,
             elems |-> [e \in DOMAIN s.elems |-> [to |-> sent[to[e]], says |-> s.elems[e]]]])
    BY <1>2 DEF PeerSends
  <2>3. PICK to \in [DOMAIN s.elems -> DOMAIN sent] :
          inbox' = Append(inbox,
            [form  |-> s.form,
             elems |-> [e \in DOMAIN s.elems |-> [to |-> sent[to[e]], says |-> s.elems[e]]]])
    BY <2>2
  <2>4. s.elems \in Seq(Response)
    BY ClientAssumption
  <2> DEFINE es == [e \in DOMAIN s.elems |-> [to |-> sent[to[e]], says |-> s.elems[e]]]
             f  == [form |-> s.form, elems |-> es]
  <2>5. f.elems = es /\ inbox' = Append(inbox, f)
    BY <2>3
  <2>6. Len(es) = Len(s.elems) /\ \A e \in 1 .. Len(es) : es[e].to = sent[to[e]] /\ to[e] \in 1 .. Len(sent)
    BY <2>4 DEF TypeOK
  <2> HIDE DEF f, es
  <2>7. \A e \in 1 .. Len(f.elems) : f.elems[e].to.call = f.elems[e].to.id
    BY <2>5, <2>6 DEF Numbered
  <2>8. \A n \in 1 .. Len(inbox') : (n \in 1 .. Len(inbox) /\ inbox'[n] = inbox[n]) \/ inbox'[n] = f
    BY <2>5 DEF TypeOK
  <2> QED
    BY <2>1, <2>7, <2>8 DEF Numbered
<1>3. CASE Read \/ ConnectionDown
  BY <1>3 DEF Read, ConnectionDown, Numbered
<1>4. CASE FrameLoopEnds \/ RejectFrame \/ FrameBegins \/ RejectAnonymous \/ IgnoreResponse \/ CallbackBegins
  BY <1>4 DEF FrameLoopEnds, RejectFrame, FrameBegins, RejectAnonymous, IgnoreResponse,
              CallbackBegins, Numbered
<1>5. CASE RejectNamed \/ CallbackReturns
  BY <1>5 DEF RejectNamed, CallbackReturns, Erase, Numbered
<1>6. CASE UNCHANGED vars
  BY <1>6 DEF vars, Numbered
<1> QED
  BY <1>1, <1>2, <1>3, <1>4, <1>5, <1>6 DEF Next, Handle

(* Answers reach the callbacks of their own calls. *)
THEOREM AnswersReachTheirCalls == Spec => []CallbackGetsItsAnswer
<1>1. Init => Numbered /\ CallbackGetsItsAnswer
  BY DEF Init, Numbered, CallbackGetsItsAnswer
<1>2. TypeOK /\ Numbered /\ CallbackGetsItsAnswer /\ [Next]_vars => CallbackGetsItsAnswer'
  <2> SUFFICES ASSUME TypeOK, Numbered, CallbackGetsItsAnswer, [Next]_vars
               PROVE  CallbackGetsItsAnswer'
    OBVIOUS
  <2>1. CASE CallbackBegins
    <3>1. callbacks[This.to.id] = This.to.id /\ This.to.call = This.to.id
      BY <2>1, ThisIsNumbered DEF CallbackBegins, InResponse, Numbered
    <3> QED
      BY <2>1, <3>1 DEF CallbackBegins, CallbackGetsItsAnswer, TypeOK
  <2>2. ASSUME UNCHANGED fired PROVE CallbackGetsItsAnswer'
    BY <2>2 DEF CallbackGetsItsAnswer
  <2> QED
    BY <2>1, <2>2 DEF Next, Handle, SendCall, PeerSends, Read, ConnectionDown, FrameLoopEnds,
       RejectFrame, FrameBegins, RejectAnonymous, RejectNamed, IgnoreResponse, CallbackReturns, vars
<1> QED
  BY <1>1, <1>2, InitType, StepType, StepNumbered, PTL DEF Spec

(***************************************************************************)
(* Where each call is.  While a callback runs its entry is still in the    *)
(* table, but the call counts as fired.                                    *)
(***************************************************************************)
Accounted ==
  /\ CallsAccounted
  /\ calling => This.to.id \in Fired
  /\ abandoned \cap DOMAIN callbacks = {}

LEMMA PendingIds ==
  ASSUME Numbered
  PROVE  Pending = DOMAIN callbacks \ Running
BY DEF Pending, Numbered

LEMMA StepAccounted == TypeOK /\ Numbered /\ Accounted /\ [Next]_vars => Accounted'
<1> SUFFICES ASSUME TypeOK, Numbered, Accounted, [Next]_vars PROVE Accounted'
  OBVIOUS
<1>1. Numbered'
  BY StepNumbered
<1>2. Pending = DOMAIN callbacks \ Running /\ Pending' = (DOMAIN callbacks \ Running)'
  <2>1. Pending = DOMAIN callbacks \ Running
    BY PendingIds
  <2>2. \A i \in DOMAIN callbacks' : callbacks'[i] = i
    BY <1>1 DEF Numbered
  <2>3. Pending' = (DOMAIN callbacks \ Running)'
    BY <2>2 DEF Pending
  <2> QED
    BY <2>1, <2>3
<1>3. \A i, j \in DOMAIN callbacks' : callbacks'[i] = callbacks'[j] => i = j
  BY <1>1 DEF Numbered
<1>5. CASE SendCall
  <2>1. /\ DOMAIN callbacks' = DOMAIN callbacks \cup {id} /\ id = issued /\ issued' = issued + 1
        /\ UNCHANGED <<inbox, next, elem, calling, fired, abandoned>>
    BY <1>5 DEF SendCall, Numbered
  <2>2. Running' = Running /\ Fired' = Fired /\ This' = This
    BY <2>1 DEF Running, Fired, This, Elems
  <2>3. id \notin DOMAIN callbacks /\ id \notin Calls /\ Calls' = Calls \cup {id}
    BY <2>1 DEF TypeOK, Calls
  <2>4. Fired \subseteq Calls /\ abandoned \subseteq Calls /\ Running \subseteq Calls
    BY <2>1 DEF Accounted, CallsAccounted, Running, Calls
  <2>5. Pending' = Pending \cup {id}
    BY <1>2, <2>1, <2>2, <2>3, <2>4
  <2> QED
    BY <1>3, <2>1, <2>2, <2>3, <2>4, <2>5 DEF Accounted, CallsAccounted
<1>6. CASE RejectNamed
  <2> DEFINE x == This.to.id
  <2>1. /\ ~ calling /\ ~ calling' /\ UNCHANGED <<issued, fired>>
        /\ DOMAIN callbacks' = DOMAIN callbacks \ {x}
        /\ abandoned' = abandoned \cup {callbacks[i] : i \in DOMAIN callbacks \cap {x}}
    BY <1>6 DEF RejectNamed, InResponse, Erase
  <2>2. abandoned' = abandoned \cup (DOMAIN callbacks \cap {x})
    BY <2>1 DEF Numbered
  <2>3. Running = {} /\ Running' = {} /\ Fired' = Fired /\ Calls' = Calls
    BY <2>1 DEF Running, Fired, Calls
  <2> HIDE DEF x
  <2>4. Pending = DOMAIN callbacks /\ Pending' = DOMAIN callbacks \ {x}
    BY <1>2, <2>1, <2>3
  <2> QED
    BY <1>3, <2>1, <2>2, <2>3, <2>4 DEF Accounted, CallsAccounted
<1>7. CASE CallbackBegins
  <2> DEFINE x == This.to.id
  <2>1. /\ UNCHANGED <<callbacks, inbox, next, elem, issued, abandoned>> /\ ~ calling /\ calling'
        /\ x \in DOMAIN callbacks
        /\ fired' = Append(fired, [call |-> x, answered |-> This.to.call])
    BY <1>7 DEF CallbackBegins, InResponse, Numbered
  <2>2. This' = This /\ Calls' = Calls
    BY <2>1 DEF This, Elems, Calls
  <2>3. Running = {} /\ Running' = {x}
    BY <2>1, <2>2 DEF Running
  <2>4. Fired' = Fired \cup {x}
    <3>1. /\ Len(fired') = Len(fired) + 1 /\ fired'[Len(fired) + 1].call = x
          /\ DOMAIN fired = 1 .. Len(fired) /\ DOMAIN fired' = 1 .. Len(fired')
          /\ \A n \in 1 .. Len(fired) : fired'[n] = fired[n]
          /\ Len(fired) \in Nat
      BY <2>1 DEF TypeOK
    <3> QED
      BY <3>1 DEF Fired
  <2>5. x \notin Fired
    BY <1>2, <2>1, <2>3 DEF Accounted, CallsAccounted
  <2>6. \A m, n \in DOMAIN fired' : fired'[m].call = fired'[n].call => m = n
    BY <2>1, <2>5 DEF Accounted, CallsAccounted, Fired, TypeOK
  <2> HIDE DEF x
  <2>7. Pending = DOMAIN callbacks /\ Pending' = DOMAIN callbacks \ {x}
    BY <1>2, <2>1, <2>3
  <2>8. calling' => x \in Fired' /\ This.to.id = x
    BY <2>4 DEF x
  <2> QED
    BY <1>3, <2>1, <2>2, <2>4, <2>5, <2>6, <2>7, <2>8 DEF Accounted, CallsAccounted
<1>8. CASE CallbackReturns
  <2>1. /\ calling /\ ~ calling' /\ UNCHANGED <<issued, fired, abandoned>>
        /\ DOMAIN callbacks' = DOMAIN callbacks \ {This.to.id}
    BY <1>8 DEF CallbackReturns, Erase
  <2>2. Running = {This.to.id} /\ Running' = {} /\ Fired' = Fired /\ Calls' = Calls
    BY <2>1 DEF Running, Fired, Calls
  <2>3. Pending' = Pending
    BY <1>2, <2>1, <2>2
  <2> QED
    BY <1>3, <2>1, <2>2, <2>3 DEF Accounted, CallsAccounted
<1>9. ASSUME UNCHANGED <<callbacks, issued, fired, abandoned, calling>>, calling => This' = This
      PROVE  Accounted'
  <2>1. Running' = Running /\ Fired' = Fired /\ Calls' = Calls
    BY <1>9 DEF Running, Fired, Calls
  <2>2. Pending' = Pending
    BY <1>2, <1>9, <2>1
  <2> QED
    BY <1>3, <1>9, <2>1, <2>2 DEF Accounted, CallsAccounted
<1>10. CASE PeerSends
  <2>1. \A n \in 1 .. Len(inbox) : inbox'[n] = inbox[n]
    BY <1>10 DEF PeerSends, TypeOK
  <2>2. calling => This' = This
    BY <1>10, <2>1, ThisFacts DEF PeerSends, This, Elems, TypeOK
  <2> QED
    BY <1>9, <1>10, <2>2 DEF PeerSends
<1>11. CASE Read \/ ConnectionDown
  BY <1>9, <1>11 DEF Read, ConnectionDown, This, Elems
<1>12. CASE FrameLoopEnds \/ RejectFrame \/ FrameBegins
  <2>1. ~ calling
    BY <1>12 DEF FrameLoopEnds, RejectFrame, FrameBegins, InFrameLoop, TypeOK
  <2> QED
    BY <1>9, <1>12, <2>1 DEF FrameLoopEnds, RejectFrame, FrameBegins
<1>13. CASE RejectAnonymous \/ IgnoreResponse
  BY <1>9, <1>13 DEF RejectAnonymous, IgnoreResponse, InResponse
<1>14. CASE UNCHANGED vars
  BY <1>9, <1>14 DEF vars, This, Elems
<1> QED
  BY <1>5, <1>6, <1>7, <1>8, <1>10, <1>11, <1>12, <1>13, <1>14 DEF Next, Handle

LEMMA InitAccounted == Init => Numbered /\ Accounted
<1> SUFFICES ASSUME Init PROVE Numbered /\ Accounted
  OBVIOUS
<1>1. Numbered
  BY DEF Init, Numbered
<1>2. DOMAIN callbacks = {} /\ DOMAIN fired = {} /\ Calls = {}
  BY DEF Init, Calls
<1>3. Pending = {} /\ Fired = {} /\ ~ calling /\ abandoned = {}
  BY <1>2, Zenon DEF Init, Pending, Fired
<1> QED
  BY <1>1, <1>2, <1>3 DEF Accounted, CallsAccounted

(* Every call is in exactly one place, and no callback is invoked twice.   *)
THEOREM EveryCallIsAccountedFor == Spec => []CallsAccounted
<1>1. Accounted => CallsAccounted
  BY DEF Accounted
<1> QED
  BY <1>1, InitAccounted, InitType, StepType, StepNumbered, StepAccounted, PTL DEF Spec

(***************************************************************************)
(* What became of the answers in the frames that were handled.  Of the     *)
(* frame in hand, the answers from elem on are still to come.              *)
(***************************************************************************)
ToCome(n, e) == n = next - 1 /\ 0 < elem /\ elem <= e

(* The answer, if any, that ends the frame with its callback discarded.    *)
Named(f) == {e \in ThrownAt(f) : IsResponse(f) /\ ~ IsAnonymous(f.elems[e])}

Cleaned ==
  \A n \in 1 .. next - 1 : \A e \in Named(inbox[n]) :
    inbox[n].elems[e].to.call \notin DOMAIN callbacks \/ ToCome(n, e)

Settled ==
  /\ HandledAnswersAreDelivered
  /\ Cleaned
  /\ calling => IsValid(This)

LEMMA AnswerFacts ==
  ASSUME TypeOK, NEW n \in 1 .. next - 1, NEW e \in DOMAIN inbox[n].elems
  PROVE  inbox[n].elems[e].to.call \in Calls /\ e \in Nat /\ n \in 1 .. Len(inbox)
<1>1. n \in 1 .. Len(inbox)
  BY DEF TypeOK
<1>2. inbox[n].elems \in Seq(Answers)
  BY <1>1, FrameType
<1>3. inbox[n].elems[e] \in Answers /\ e \in Nat
  BY <1>2, ElementOfSeq
<1> QED
  BY <1>1, <1>3 DEF Answers, Requests

(* Steps that leave the reading where it is. *)
LEMMA KeepsSettled ==
  ASSUME TypeOK, Settled, UNCHANGED <<next, elem>>,
         calling' => elem > 0,
         \A n \in 1 .. next - 1 : inbox'[n] = inbox[n],
         Fired \subseteq Fired', abandoned \subseteq abandoned',
         Calls \cap DOMAIN callbacks' \subseteq DOMAIN callbacks,
         calling' => IsValid(This)
  PROVE  Settled'
<1>1. HandledAnswersAreDelivered'
  <2> SUFFICES ASSUME NEW n \in 1 .. next - 1, NEW e \in Reached(inbox[n])
               PROVE  inbox[n].elems[e].to.call \in Fired \cup abandoned \/ ToCome(n, e)
    BY DEF HandledAnswersAreDelivered, ToCome
  <2> QED
    BY DEF Settled, HandledAnswersAreDelivered, ToCome
<1>2. Cleaned'
  <2> SUFFICES ASSUME NEW n \in 1 .. next - 1, NEW e \in Named(inbox[n])
               PROVE  inbox[n].elems[e].to.call \notin DOMAIN callbacks' \/ ToCome(n, e)
    BY DEF Cleaned, ToCome
  <2>1. inbox[n].elems[e].to.call \in Calls
    BY AnswerFacts DEF Named, ThrownAt
  <2> QED
    BY <2>1 DEF Settled, Cleaned
<1>3. calling' => IsValid(This')
  <2> SUFFICES ASSUME calling' PROVE IsValid(This')
    OBVIOUS
  <2>1. elem > 0
    OBVIOUS
  <2>2. This' = This
    BY <2>1, ThisFacts DEF This, Elems
  <2> QED
    BY <2>2
<1> QED
  BY <1>1, <1>2, <1>3 DEF Settled, IsValid, IsAnonymous, IsMalformed, HasInt32Id

(* One answer is handled, those behind it are not. *)
LEMMA OthersAreToCome ==
  ASSUME Handled, UNCHANGED next, Len(Elems) \in Nat, elem \in 1 .. Len(Elems),
         NEW n, n = next - 1, NEW e \in 1 .. Len(Elems), elem <= e, e # elem
  PROVE  ToCome(n, e)'
<1>1. elem + 1 <= e /\ elem # Len(Elems)
  OBVIOUS
<1>2. elem' = elem + 1
  BY <1>1 DEF Handled
<1> QED
  BY <1>1, <1>2 DEF ToCome

(* Steps that are done with the answer in hand: it was valid and has been  *)
(* delivered, or it ends the frame.                                        *)
LEMMA DoneWithThis ==
  ASSUME TypeOK, Settled, elem > 0, UNCHANGED <<next, inbox>>,
         \/ /\ Handled /\ IsValid(This) /\ This.to.call \in Fired \cup abandoned
         \/ /\ elem' = 0 /\ ~ IsValid(This)
            /\ IsAnonymous(This) \/ This.to.call \notin DOMAIN callbacks',
         Fired \subseteq Fired', abandoned \subseteq abandoned',
         DOMAIN callbacks' \subseteq DOMAIN callbacks, ~ calling'
  PROVE  Settled'
<1>1. /\ elem \in 1 .. Len(Elems) /\ DOMAIN Elems = 1 .. Len(Elems) /\ Len(Elems) \in Nat
      /\ next - 1 \in 1 .. Len(inbox)
  BY ThisFacts
<1>2. HandledAnswersAreDelivered'
  <2> SUFFICES ASSUME NEW n \in 1 .. next - 1, NEW e \in Reached(inbox[n])
               PROVE  inbox[n].elems[e].to.call \in Fired \cup abandoned \/ ToCome(n, e)'
    BY DEF HandledAnswersAreDelivered, ToCome
  <2>1. CASE inbox[n].elems[e].to.call \in Fired \cup abandoned
    BY <2>1
  <2>2. CASE n = next - 1 /\ elem <= e /\ inbox[n].elems[e].to.call \notin Fired \cup abandoned
    <3>1. inbox[n].elems = Elems /\ e \in 1 .. Len(Elems)
      BY <1>1, <2>2 DEF Elems, Reached
    <3>2. IsValid(This)
      BY <1>1, <2>2, <3>1 DEF Reached, This
    <3>3. e # elem
      BY <2>2, <3>1, <3>2 DEF This
    <3> QED
      BY <1>1, <2>2, <3>1, <3>2, <3>3, OthersAreToCome
  <2> QED
    BY <2>1, <2>2 DEF Settled, HandledAnswersAreDelivered
<1>3. Cleaned'
  <2> SUFFICES ASSUME NEW n \in 1 .. next - 1, NEW e \in Named(inbox[n])
               PROVE  inbox[n].elems[e].to.call \notin DOMAIN callbacks' \/ ToCome(n, e)'
    BY DEF Cleaned, ToCome
  <2>1. CASE inbox[n].elems[e].to.call \notin DOMAIN callbacks
    BY <2>1
  <2>2. CASE n = next - 1 /\ elem <= e
    <3>1. inbox[n].elems = Elems /\ e \in 1 .. Len(Elems)
      BY <1>1, <2>2 DEF Elems, Named, ThrownAt
    <3>2. ~ IsValid(Elems[e]) /\ \A d \in 1 .. e - 1 : IsValid(Elems[d])
      BY <3>1 DEF Named, ThrownAt
    <3>3. CASE IsValid(This)
      <4>1. e # elem
        BY <3>2, <3>3 DEF This
      <4> QED
        BY <1>1, <2>2, <3>1, <3>3, <4>1, OthersAreToCome
    <3>4. CASE ~ IsValid(This)
      <4>1. e = elem
        BY <1>1, <2>2, <3>1, <3>2, <3>4 DEF This
      <4> QED
        BY <3>1, <3>4, <4>1 DEF This, Named
    <3> QED
      BY <3>3, <3>4
  <2> QED
    BY <2>1, <2>2 DEF Settled, Cleaned, ToCome
<1> QED
  BY <1>2, <1>3 DEF Settled

(* Steps that take the next frame: all of its answers are to come, or it   *)
(* has none that can be handled.                                           *)
LEMMA TakesAFrame ==
  ASSUME TypeOK, Settled, InFrameLoop, HasFrame, Retrieve,
         elem' = 1 \/ (elem' = 0 /\ ~ IsResponse(Frame)),
         UNCHANGED <<inbox, callbacks, fired, abandoned, calling>>
  PROVE  Settled'
<1>1. elem = 0 /\ next' = next + 1 /\ next \in Nat /\ next \in 1 .. Len(inbox)
  BY DEF InFrameLoop, Retrieve, HasFrame, TypeOK
<1>2. Fired' = Fired
  BY DEF Fired
<1>3. \A n \in 1 .. next' - 1 : n \in 1 .. next - 1 \/ n = next
  BY <1>1
<1>4. HandledAnswersAreDelivered'
  <2> SUFFICES ASSUME NEW n \in 1 .. next' - 1, NEW e \in Reached(inbox[n])
               PROVE  inbox[n].elems[e].to.call \in Fired \cup abandoned \/ ToCome(n, e)'
    BY <1>2 DEF HandledAnswersAreDelivered, ToCome
  <2>1. CASE n \in 1 .. next - 1
    BY <1>1, <2>1 DEF Settled, HandledAnswersAreDelivered
  <2>2. CASE n = next
    <3>1. e \in DOMAIN inbox[next].elems /\ IsResponse(Frame)
      BY <2>2 DEF Reached, Frame
    <3>2. inbox[next].elems \in Seq(Answers)
      BY <1>1, FrameType
    <3>3. e \in Nat /\ 1 <= e
      BY <3>1, <3>2
    <3> QED
      BY <1>1, <2>2, <3>1, <3>3 DEF ToCome
  <2> QED
    BY <1>3, <2>1, <2>2
<1>5. Cleaned'
  <2> SUFFICES ASSUME NEW n \in 1 .. next' - 1, NEW e \in Named(inbox[n])
               PROVE  inbox[n].elems[e].to.call \notin DOMAIN callbacks \/ ToCome(n, e)'
    BY DEF Cleaned, ToCome
  <2>1. CASE n \in 1 .. next - 1
    BY <1>1, <2>1 DEF Settled, Cleaned, ToCome
  <2>2. CASE n = next
    <3>1. e \in DOMAIN inbox[next].elems /\ IsResponse(Frame)
      BY <2>2 DEF Named, ThrownAt, Frame
    <3>2. inbox[next].elems \in Seq(Answers)
      BY <1>1, FrameType
    <3>3. e \in Nat /\ 1 <= e
      BY <3>1, <3>2
    <3> QED
      BY <1>1, <2>2, <3>1, <3>3 DEF ToCome
  <2> QED
    BY <1>3, <2>1, <2>2
<1>6. ~ calling'
  BY <1>1 DEF TypeOK
<1> QED
  BY <1>4, <1>5, <1>6 DEF Settled

LEMMA StepSettled == TypeOK /\ Numbered /\ Accounted /\ Settled /\ [Next]_vars => Settled'
<1> SUFFICES ASSUME TypeOK, Numbered, Accounted, Settled, [Next]_vars PROVE Settled'
  OBVIOUS
<1>0. calling => elem > 0 /\ IsValid(This)
  BY DEF TypeOK, Settled
<1>1. CASE SendCall
  <2>1. /\ UNCHANGED <<inbox, next, elem, calling, fired, abandoned>>
        /\ DOMAIN callbacks' = DOMAIN callbacks \cup {id} /\ id = issued
    BY <1>1 DEF SendCall, Numbered
  <2>2. Fired' = Fired /\ id \notin Calls
    BY <2>1 DEF Fired, Calls, TypeOK
  <2> QED
    BY <1>0, <2>1, <2>2, KeepsSettled
<1>2. CASE PeerSends
  <2>1. \A n \in 1 .. Len(inbox) : inbox'[n] = inbox[n]
    BY <1>2 DEF PeerSends, TypeOK
  <2>2. \A n \in 1 .. next - 1 : inbox'[n] = inbox[n]
    BY <2>1 DEF TypeOK
  <2>3. UNCHANGED <<callbacks, next, elem, calling, fired, abandoned>> /\ Fired' = Fired
    BY <1>2 DEF PeerSends, Fired
  <2> QED
    BY <1>0, <2>2, <2>3, KeepsSettled
<1>3. CASE Read \/ ConnectionDown \/ FrameLoopEnds \/ UNCHANGED vars
  <2>1. UNCHANGED <<callbacks, inbox, next, elem, calling, fired, abandoned>> /\ Fired' = Fired
    BY <1>3 DEF Read, ConnectionDown, FrameLoopEnds, vars, Fired
  <2> QED
    BY <1>0, <2>1, KeepsSettled
<1>4. CASE RejectFrame
  <2>1. UNCHANGED <<callbacks, inbox, elem, calling, fired, abandoned>> /\ Fired' = Fired
    BY <1>4 DEF RejectFrame, Fired
  <2>2. CASE next' = next
    BY <1>0, <2>1, <2>2, KeepsSettled
  <2>3. CASE Retrieve
    BY <1>4, <2>1, <2>3, TakesAFrame DEF RejectFrame, InFrameLoop
  <2> QED
    BY <1>4, <2>2, <2>3 DEF RejectFrame
<1>5. CASE FrameBegins
  BY <1>5, TakesAFrame DEF FrameBegins
<1>6. CASE RejectAnonymous
  <2>1. /\ elem > 0 /\ elem' = 0 /\ IsAnonymous(This) /\ ~ calling'
        /\ UNCHANGED <<callbacks, inbox, next, fired, abandoned>> /\ Fired' = Fired
    BY <1>6 DEF RejectAnonymous, InResponse, Fired
  <2> QED
    BY <2>1, DoneWithThis DEF IsValid
<1>7. CASE RejectNamed
  <2>1. /\ elem > 0 /\ elem' = 0 /\ IsMalformed(This) /\ ~ calling' /\ abandoned \subseteq abandoned'
        /\ DOMAIN callbacks' = DOMAIN callbacks \ {This.to.id}
        /\ UNCHANGED <<inbox, next, fired>> /\ Fired' = Fired
    BY <1>7 DEF RejectNamed, InResponse, Erase, Fired
  <2>2. This.to.call \notin DOMAIN callbacks'
    BY <2>1, ThisIsNumbered
  <2> QED
    BY <2>1, <2>2, DoneWithThis DEF IsValid
<1>8. CASE IgnoreResponse
  <2>1. /\ elem > 0 /\ Handled /\ IsValid(This) /\ ~ calling' /\ This.to.id \notin DOMAIN callbacks
        /\ UNCHANGED <<callbacks, inbox, next, fired, abandoned>> /\ Fired' = Fired
    BY <1>8 DEF IgnoreResponse, InResponse, Fired
  <2>2. This.to.call \in Calls /\ This.to.call = This.to.id
    BY <2>1, ThisFacts, ThisIsNumbered DEF Requests
  <2>3. This.to.call \notin Pending
    BY <2>1, <2>2, PendingIds
  <2>4. This.to.call \in Fired \cup abandoned
    BY <2>2, <2>3 DEF Accounted, CallsAccounted
  <2> QED
    BY <2>1, <2>4, DoneWithThis
<1>9. CASE CallbackBegins
  <2>1. /\ UNCHANGED <<callbacks, inbox, next, elem, abandoned>> /\ elem > 0 /\ IsValid(This)
        /\ fired' = Append(fired, [call |-> callbacks[This.to.id], answered |-> This.to.call])
    BY <1>9 DEF CallbackBegins, InResponse
  <2>2. /\ DOMAIN fired \subseteq DOMAIN fired'
        /\ \A n \in DOMAIN fired : fired'[n] = fired[n]
    BY <2>1 DEF TypeOK
  <2>3. Fired \subseteq Fired'
    BY <2>2 DEF Fired
  <2> QED
    BY <2>1, <2>3, KeepsSettled
<1>10. CASE CallbackReturns
  <2>1. /\ calling /\ ~ calling' /\ elem > 0 /\ Handled /\ DOMAIN callbacks' \subseteq DOMAIN callbacks
        /\ UNCHANGED <<inbox, next, fired, abandoned>> /\ Fired' = Fired
    BY <1>10 DEF CallbackReturns, Erase, TypeOK, Fired
  <2>2. This.to.call \in Fired
    BY <2>1, ThisIsNumbered DEF Accounted
  <2> QED
    BY <1>0, <2>1, <2>2, DoneWithThis
<1> QED
  BY <1>1, <1>2, <1>3, <1>4, <1>5, <1>6, <1>7, <1>8, <1>9, <1>10 DEF Next, Handle

LEMMA AlwaysSettled == Spec => [](TypeOK /\ Numbered /\ Settled)
<1>1. Init => Settled
  <2> SUFFICES ASSUME Init PROVE Settled
    OBVIOUS
  <2>1. next = 1 /\ ~ calling
    BY DEF Init
  <2> QED
    BY <2>1 DEF Settled, HandledAnswersAreDelivered, Cleaned
<1> QED
  BY <1>1, InitAccounted, InitType, StepType, StepNumbered, StepAccounted, StepSettled, PTL DEF Spec

(* No valid answer that was read is lost: it was delivered, or its call    *)
(* had lost its callback to an earlier bad answer, or it is still to come. *)
THEOREM NoAnswerIsLost == Spec => []HandledAnswersAreDelivered
<1>1. Settled => HandledAnswersAreDelivered
  BY DEF Settled
<1> QED
  BY <1>1, AlwaysSettled, PTL

(* Between reads no callback waits for a call that a bad answer with an id *)
(* was read for.                                                           *)
THEOREM BadAnswersClean == Spec => []NamedBadAnswersClean
<1>1. TypeOK /\ Numbered /\ Settled => NamedBadAnswersClean
  <2> SUFFICES ASSUME TypeOK, Numbered, Settled, ~ busy,
                      NEW n \in 1 .. next - 1, IsResponse(inbox[n]), NEW e \in ThrownAt(inbox[n]),
                      ~ IsAnonymous(inbox[n].elems[e])
               PROVE  inbox[n].elems[e].to.call \notin Pending
    BY DEF NamedBadAnswersClean
  <2>1. ~ elem > 0
    BY DEF TypeOK
  <2>2. e \in Named(inbox[n])
    BY DEF Named
  <2>3. inbox[n].elems[e].to.call \notin DOMAIN callbacks
    BY <2>1, <2>2 DEF Settled, Cleaned, ToCome, TypeOK
  <2> QED
    BY <2>3, PendingIds
<1> QED
  BY <1>1, AlwaysSettled, PTL

============================================================================
