----------------------------- MODULE BaseClient -----------------------------
(***************************************************************************)
(* The client: user code numbers and sends calls (sendCall), and the event *)
(* loop reads framed responses, validates each and hands it to the         *)
(* callback kept for its id (onMessage -> handleMessage -> handleResponse  *)
(* -> handleSingleResponse).                                               *)
(*                                                                         *)
(* Everything runs on the client's loop thread.  A callback is user code:  *)
(* it may send further calls before it returns, while the response's own   *)
(* entry is still in the table.  The peer may answer a call it received    *)
(* with anything, any number of times, in any order.                       *)
(*                                                                         *)
(* Calls are numbered from 0 in the order in which they are made.  That    *)
(* number is not the code's: the code has only the id it puts in the       *)
(* request.  A response carries the call it was sent for beside its id.    *)
(***************************************************************************)
EXTENDS Naturals, Sequences, FiniteSets

CONSTANTS
  Shapes,     (* what the peer may send: forms of frames, see PeerSends     *)
  MaxInt32,   (* the largest id that a json parser reads as an INT32        *)
  MaxCalls,   (* bound: calls made                                          *)
  MaxFrames   (* bound: frames the peer sends                               *)

(* What the peer can make wrong in one response; "asked" is the id that    *)
(* the request carried, whatever json type that number has.                *)
Response == [idType : {"asked", "NULL", "missing"}, members : {2, 3, 4},
             version : {"2.0", "1.0"}, body : {"result", "error", "badError", "neither"}]

Forms == {"badHeader", "oversize", "unparsable", "scalar", "object", "array"}

ASSUME ClientAssumption ==
  /\ MaxInt32 \in Nat /\ MaxCalls \in Nat /\ MaxFrames \in Nat
  /\ \A s \in Shapes : /\ s.form \in Forms
                       /\ s.elems \in Seq(Response)
                       /\ s.form = "object" => Len(s.elems) = 1

VARIABLES
  id,         (* id_: the id of the next call                              *)
  callbacks,  (* callbacks_: from ids to the calls whose callbacks wait    *)
  link,       (* "up" or "down"                                            *)
  sent,       (* the requests the peer received, each [call, id]           *)
  inbox,      (* frames the peer sent, each [form, elems]                  *)
  got,        (* how many of them reached the input buffer                 *)
  next,       (* the next frame handleMessage will look at                 *)
  busy,       (* onMessage is running                                      *)
  elem,       (* 0, or the response of the frame that is being handled     *)
  calling,    (* the callback of that response is executing               *)
  issued,     (* how many calls were made                                  *)
  fired,      (* the callbacks that were invoked: calls with the responses *)
  abandoned   (* calls whose callback was discarded by onMessage's catch   *)

vars == <<id, callbacks, link, sent, inbox, got, next, busy, elem, calling,
          issued, fired, abandoned>>

Init ==
  /\ id = 0 /\ callbacks = <<>> /\ link = "up" /\ sent = <<>>
  /\ inbox = <<>> /\ got = 0 /\ next = 1
  /\ busy = FALSE /\ elem = 0 /\ calling = FALSE
  /\ issued = 0 /\ fired = <<>> /\ abandoned = {}

(***************************************************************************)
(* User code, between events or inside a callback.  A stub keeps its       *)
(* connection: on a closed one the call is recorded and goes nowhere.      *)
(***************************************************************************)
EraseNothing(i) == UNCHANGED callbacks
Erase(i) == callbacks' = [j \in DOMAIN callbacks \ {i} |-> callbacks[j]]

SameId == UNCHANGED id
NextId == id' = id + 1

SendCall ==
  /\ issued < MaxCalls
  /\ busy => calling
  /\ callbacks' = [j \in DOMAIN callbacks \cup {id} |->
                     IF j = id THEN issued ELSE callbacks[j]]
  /\ sent' = IF link = "up" THEN Append(sent, [call |-> issued, id |-> id]) ELSE sent
  /\ NextId
  /\ issued' = issued + 1
  /\ UNCHANGED <<link, inbox, got, next, busy, elem, calling, fired, abandoned>>

(***************************************************************************)
(* The peer and the connection (mudong-ev).  A read may bring no more than *)
(* a piece of a frame.                                                     *)
(***************************************************************************)
PeerSends ==
  /\ link = "up" /\ Len(inbox) < MaxFrames
  /\ \E s \in Shapes :
       \E to \in [DOMAIN s.elems -> DOMAIN sent] :
         inbox' = Append(inbox,
           [form  |-> s.form,
            elems |-> [e \in DOMAIN s.elems |-> [to |-> sent[to[e]], says |-> s.elems[e]]]])
  /\ UNCHANGED <<id, callbacks, link, sent, got, next, busy, elem, calling,
                 issued, fired, abandoned>>

Read ==
  /\ ~ busy /\ link = "up"
  /\ \E n \in got .. Len(inbox) : got' = n
  /\ busy' = TRUE
  /\ UNCHANGED <<id, callbacks, link, sent, inbox, next, elem, calling,
                 issued, fired, abandoned>>

ConnectionDown ==
  /\ ~ busy /\ link = "up" /\ link' = "down"
  /\ UNCHANGED <<id, callbacks, sent, inbox, got, next, busy, elem, calling,
                 issued, fired, abandoned>>

(***************************************************************************)
(* handleMessage: the frames in the buffer, one after the other.  Every    *)
(* ResponseException ends onMessage; the frames behind it wait for the     *)
(* next read.                                                              *)
(***************************************************************************)
InFrameLoop == busy /\ elem = 0
HasHeader   == next <= Len(inbox)
HasFrame    == next <= got
Frame       == inbox[next]
Retrieve    == next' = next + 1

FrameLoopEndsAfterOne ==
  /\ InFrameLoop /\ (HasFrame => next > 1)
  /\ busy' = FALSE
  /\ UNCHANGED <<id, callbacks, link, sent, inbox, got, next, elem, calling,
                 issued, fired, abandoned>>

FrameLoopEnds ==
  /\ InFrameLoop /\ ~ HasFrame
  /\ busy' = FALSE
  /\ UNCHANGED <<id, callbacks, link, sent, inbox, got, next, elem, calling,
                 issued, fired, abandoned>>

IsResponse(f) == f.form \in {"object", "array"} /\ f.elems # <<>>

(* A bad header is taken out of the buffer, a body that cannot be used is  *)
(* too; the header of a message that is too long stays where it is.        *)
RejectFrame ==
  /\ InFrameLoop /\ HasFrame /\ ~ IsResponse(Frame)
  /\ IF Frame.form = "oversize" THEN UNCHANGED next ELSE Retrieve
  /\ busy' = FALSE
  /\ UNCHANGED <<id, callbacks, link, sent, inbox, got, elem, calling,
                 issued, fired, abandoned>>

FrameBegins ==
  /\ InFrameLoop /\ HasFrame /\ IsResponse(Frame)
  /\ Retrieve /\ elem' = 1
  /\ UNCHANGED <<id, callbacks, link, sent, inbox, got, busy, calling,
                 issued, fired, abandoned>>

(***************************************************************************)
(* handleSingleResponse.                                                   *)
(***************************************************************************)
HasInt32Id(r) == r.says.idType = "asked" /\ r.to.id <= MaxInt32

(* validateResponse's exceptions, without an id and with one. *)
IsAnonymous(r) == r.says.members # 3 \/ ~ HasInt32Id(r)
IsMalformed(r) == r.says.version # "2.0" \/ r.says.body \notin {"result", "error"}
IsValid(r)     == ~ IsAnonymous(r) /\ ~ IsMalformed(r)

Elems   == inbox[next - 1].elems
This    == Elems[elem]
FirstOnly == elem' = 0
Handled == elem' = IF elem = Len(Elems) THEN 0 ELSE elem + 1

InResponse == busy /\ elem > 0 /\ ~ calling

RejectAnonymous ==
  /\ InResponse /\ IsAnonymous(This)
  /\ busy' = FALSE /\ elem' = 0
  /\ UNCHANGED <<id, callbacks, link, sent, inbox, got, next, calling,
                 issued, fired, abandoned>>

RejectNamed ==
  /\ InResponse /\ ~ IsAnonymous(This) /\ IsMalformed(This)
  /\ Erase(This.to.id)
  /\ abandoned' = abandoned \cup
       {callbacks[i] : i \in DOMAIN callbacks \cap {This.to.id}}
  /\ busy' = FALSE /\ elem' = 0
  /\ UNCHANGED <<id, link, sent, inbox, got, next, calling, issued, fired>>

(* "response {} not found in stub" *)
IgnoreResponse ==
  /\ InResponse /\ IsValid(This) /\ This.to.id \notin DOMAIN callbacks
  /\ Handled
  /\ UNCHANGED <<id, callbacks, link, sent, inbox, got, next, busy, calling,
                 issued, fired, abandoned>>

CallbackBegins ==
  /\ InResponse /\ IsValid(This) /\ This.to.id \in DOMAIN callbacks
  /\ calling' = TRUE
  /\ fired' = Append(fired, [call |-> callbacks[This.to.id], answered |-> This.to.call])
  /\ UNCHANGED <<id, callbacks, link, sent, inbox, got, next, busy, elem,
                 issued, abandoned>>

(* The entry is erased through the iterator found before the callback ran. *)
(* Calls made meanwhile may have rehashed the table; the standard library  *)
(* of the build finds the entry from its node all the same.                *)
CallbackReturns ==
  /\ calling
  /\ Erase(This.to.id) /\ calling' = FALSE /\ Handled
  /\ UNCHANGED <<id, link, sent, inbox, got, next, busy, issued, fired, abandoned>>

----------------------------------------------------------------------------
(* What the event loop does once a read has begun. *)
Handle == \/ FrameLoopEnds \/ RejectFrame \/ FrameBegins
          \/ RejectAnonymous \/ RejectNamed \/ IgnoreResponse
          \/ CallbackBegins \/ CallbackReturns

Next == SendCall \/ PeerSends \/ Read \/ ConnectionDown \/ Handle

Spec == Init /\ [][Next]_vars

(* A read that began is carried through, and callbacks return.  Neither    *)
(* user code nor the peer owes anything.                                   *)
FairSpec == Spec /\ WF_vars(Handle)
----------------------------------------------------------------------------
Calls    == 0 .. issued - 1
Requests == [call : Calls, id : 0 .. id - 1]
Answers  == [to : Requests, says : Response]
Frames   == [form : Forms, elems : Seq(Answers)]

TypeOK ==
  /\ id \in Nat /\ issued \in Nat
  /\ DOMAIN callbacks \subseteq 0 .. id - 1
  /\ \A i \in DOMAIN callbacks : callbacks[i] \in Calls
  /\ link \in {"up", "down"}
  /\ sent \in Seq(Requests)
  /\ inbox \in Seq(Frames)
  /\ got \in 0 .. Len(inbox) /\ next \in 1 .. got + 1
  /\ busy \in BOOLEAN /\ elem \in Nat
  /\ elem > 0 => busy /\ next > 1 /\ elem \in DOMAIN Elems
  /\ calling \in BOOLEAN
  /\ calling => elem > 0 /\ This.to.id \in DOMAIN callbacks
  /\ fired \in Seq([call : Calls, answered : Calls])
  /\ abandoned \subseteq Calls

(* A call is pending while its callback is kept and was not invoked. *)
Running == IF calling THEN {This.to.id} ELSE {}
Pending == {callbacks[i] : i \in DOMAIN callbacks \ Running}
Fired   == {fired[n].call : n \in DOMAIN fired}

(* Whatever the peer sends, and whatever callbacks call, every call is in  *)
(* exactly one place: its callback still waits, was invoked once, or was   *)
(* discarded by onMessage when the answer was bad.                         *)
CallsAccounted ==
  /\ Calls = Pending \cup Fired \cup abandoned
  /\ Pending \cap Fired = {} /\ Pending \cap abandoned = {} /\ Fired \cap abandoned = {}
  /\ \A m, n \in DOMAIN fired : fired[m].call = fired[n].call => m = n
  /\ \A i, j \in DOMAIN callbacks : callbacks[i] = callbacks[j] => i = j

(* A callback is invoked with a response to its own call, although answers *)
(* come in any order and new calls are made while a callback runs.         *)
CallbackGetsItsAnswer == \A n \in DOMAIN fired : fired[n].call = fired[n].answered

(* The answers of a frame that handleResponse gets to: up to the first     *)
(* that is not valid, which is an exception.                               *)
Reached(f) ==
  {e \in DOMAIN f.elems : IsResponse(f) /\ \A d \in 1 .. e : IsValid(f.elems[d])}

(* An answer is not lost between the buffer and the table: when a frame    *)
(* has been handled, every valid answer in front of the first bad one was  *)
(* delivered, or the call had lost its callback to an earlier bad answer.  *)
HandledAnswersAreDelivered ==
  \A n \in 1 .. next - 1 : \A e \in Reached(inbox[n]) :
    \/ inbox[n].elems[e].to.call \in Fired \cup abandoned
    \/ n = next - 1 /\ 0 < elem /\ elem <= e

AllValid(f) == IsResponse(f) /\ \A e \in DOMAIN f.elems : IsValid(f.elems[e])

Unspoilt == \A n \in 1 .. got : AllValid(inbox[n])

ReceivedFor(c) == \E n \in 1 .. got : \E e \in DOMAIN inbox[n].elems : inbox[n].elems[e].to.call = c

(* While the peer sends nothing bad, every answer received is delivered.   *)
EveryAnswerIsDelivered ==
  \A c \in 0 .. MaxCalls - 1 : ReceivedFor(c) ~> c \in Fired \/ ~ Unspoilt

(* A bad answer that can be told from its id takes its callback with it:   *)
(* of the callbacks that wait, none is of a call that was answered so.     *)
(* BaseClient.cc:91 promises as much of every bad answer; one without an   *)
(* id leaves its callback in the table.                                    *)
ThrownAt(f) ==
  {e \in DOMAIN f.elems : ~ IsValid(f.elems[e]) /\ \A d \in 1 .. e - 1 : IsValid(f.elems[d])}

NamedBadAnswersClean ==
  \A n \in 1 .. next - 1 : ~ busy /\ IsResponse(inbox[n]) =>
    \A e \in ThrownAt(inbox[n]) :
      ~ IsAnonymous(inbox[n].elems[e]) => inbox[n].elems[e].to.call \notin Pending
============================================================================
