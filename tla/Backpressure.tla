----------------------------- MODULE Backpressure -----------------------------
(***************************************************************************)
(* The server's flow control on one connection.  Responses that the peer   *)
(* does not take away gather in the output buffer.  When the buffer grows  *)
(* past the high water mark, onHighWaterMark installs the write complete   *)
(* callback and stops reading; when the buffer has run empty,              *)
(* onWriteComplete starts reading again.                                   *)
(*                                                                         *)
(* Sizes are in arbitrary units.  The two callbacks are invoked by         *)
(* mudong-ev, in the order of what causes them.  Nothing in this code says *)
(* that it does so before anything else happens to the connection, least   *)
(* of all after a send from a pool thread, so any delay is possible here.  *)
(***************************************************************************)
EXTENDS Naturals, Sequences

CONSTANTS
  Mark,      (* kHighWaterMark                                             *)
  Sizes,     (* what a response may add to the output buffer               *)
  Requests   (* bound: how many requests the peer sends                    *)

ASSUME BackpressureAssumption ==
  /\ Mark \in Nat \ {0} /\ Requests \in Nat
  /\ Sizes \subseteq Nat

VARIABLES
  unread,     (* requests the peer sent and the loop did not read          *)
  input,      (* requests in the input buffer: handleMessage's loop is on  *)
  pool,       (* requests that wait for a pool thread                      *)
  output,     (* the size of the output buffer                             *)
  reading,    (* the connection's socket is watched for input              *)
  installed,  (* setWriteCompleteCallback was called                       *)
  due,        (* callbacks mudong-ev is to invoke: "mark" and "complete"   *)
  resumed     (* history: onWriteComplete was invoked                      *)

vars == <<unread, input, pool, output, reading, installed, due, resumed>>

(* onConnection sets the high water mark callback, and no other. *)
Init ==
  /\ unread \in 0 .. Requests /\ input = 0 /\ pool = 0
  /\ output = 0 /\ reading = TRUE /\ installed = FALSE
  /\ due = <<>> /\ resumed = FALSE

----------------------------------------------------------------------------
(* sendResponse.  What the socket takes at once never enters the buffer;   *)
(* the mark is reported when the buffer crosses it, not while it is above, *)
(* and a write that leaves nothing behind is complete.                     *)
Crosses(old, new) == old < Mark /\ new >= Mark

IfInstalled(callback) == IF installed THEN <<callback>> ELSE <<>>

SendResponse(size) ==
  /\ size = 0 => output = 0
  /\ output' = output + size
  /\ due' = due \o IF Crosses(output, output + size) THEN <<"mark">>
                   ELSE IF output + size = 0 THEN IfInstalled("complete")
                   ELSE <<>>

(* One read may bring any number of requests.  Stopping to read does not   *)
(* stop the loop over those that are in the input buffer.                  *)
Read ==
  /\ reading /\ input = 0
  /\ \E n \in 1 .. unread : input' = n /\ unread' = unread - n
  /\ UNCHANGED <<pool, output, reading, installed, due, resumed>>

HandleNow ==
  /\ input > 0 /\ input' = input - 1
  /\ \E size \in Sizes : SendResponse(size)
  /\ UNCHANGED <<unread, pool, reading, installed, resumed>>

HandleAgain ==
  /\ input > 0 /\ pool' = pool + 1
  /\ UNCHANGED <<unread, input, output, reading, installed, due, resumed>>

HandleLater ==
  /\ input > 0 /\ input' = input - 1
  /\ pool' = pool + 1
  /\ UNCHANGED <<unread, output, reading, installed, due, resumed>>

PoolAnswers ==
  /\ pool > 0 /\ pool' = pool - 1
  /\ \E size \in Sizes : SendResponse(size)
  /\ UNCHANGED <<unread, input, reading, installed, resumed>>

(* The peer takes bytes away; the buffer that has run empty is reported if *)
(* a callback is there to report it to.                                    *)
Drain ==
  /\ output > 0
  /\ \E n \in 1 .. output :
       /\ output' = output - n
       /\ due' = due \o IF n = output THEN IfInstalled("complete") ELSE <<>>
  /\ UNCHANGED <<unread, input, pool, reading, installed, resumed>>

KeepReading == UNCHANGED reading
StopRead    == reading' = FALSE
StartRead   == reading' = TRUE

OnHighWaterMark ==
  /\ due # <<>> /\ Head(due) = "mark" /\ due' = Tail(due)
  /\ installed' = TRUE
  /\ StopRead
  /\ UNCHANGED <<unread, input, pool, output, resumed>>

OneShotWriteComplete ==
  /\ due # <<>> /\ Head(due) = "complete" /\ due' = Tail(due)
  /\ StartRead /\ resumed' = TRUE /\ installed' = FALSE
  /\ UNCHANGED <<unread, input, pool, output>>

OnWriteComplete ==
  /\ due # <<>> /\ Head(due) = "complete" /\ due' = Tail(due)
  /\ StartRead /\ resumed' = TRUE
  /\ UNCHANGED <<unread, input, pool, output, installed>>

Handle  == HandleNow \/ HandleLater
Invoke  == OnHighWaterMark \/ OnWriteComplete

Next == Read \/ Handle \/ PoolAnswers \/ Drain \/ Invoke

Spec == Init /\ [][Next]_vars

(* The loop gets on with what it read and with the callbacks it owes, a    *)
(* readable socket is read, the pool works, and the peer takes what it is  *)
(* sent: the last is the one thing the server has no power over.           *)
FairSpec == /\ Spec /\ WF_vars(Read) /\ WF_vars(Handle) /\ WF_vars(Invoke)
            /\ WF_vars(PoolAnswers) /\ WF_vars(Drain)
----------------------------------------------------------------------------
Callbacks == {"mark", "complete"}

(* The types, and that no request is in two places.                        *)
TypeOK ==
  /\ unread \in Nat /\ input \in Nat /\ pool \in Nat /\ output \in Nat
  /\ unread + input + pool <= Requests
  /\ reading \in BOOLEAN /\ installed \in BOOLEAN /\ resumed \in BOOLEAN
  /\ due \in Seq(Callbacks)

(* Callbacks that were queued before the buffer last crossed the mark do   *)
(* not undo what that crossing is for: once the callbacks owed have run,   *)
(* a connection whose buffer is above the mark is not read, although an    *)
(* onWriteComplete of an earlier drained buffer may run in between.        *)
MarkIsDue == \E i \in DOMAIN due : due[i] = "mark"

AboveTheMarkNothingIsRead == output >= Mark /\ reading => MarkIsDue

(* A connection that nobody will start to read again: onHighWaterMark came *)
(* to a buffer that had run empty before it could ask to be told.          *)
Forgotten == ~ reading /\ output = 0 /\ due = <<>> /\ input = 0 /\ pool = 0

(* That can befall a connection only the first time: the write complete    *)
(* callback stays installed, so a connection that has started to read      *)
(* again once is never left stopped.                                       *)
ForgottenOnlyTheFirstTime == Forgotten => ~ resumed

(* Reading that stops while there is something left to write is resumed    *)
(* when the peer has taken it.                                             *)
StoppedReadingResumes == (~ reading /\ output > 0) ~> reading

(* Every request of a peer that takes its responses is read in the end,    *)
(* unless the first stop of its connection was forgotten.                  *)
RequestsAreRead == unread > 0 ~> (unread = 0 \/ (Forgotten /\ ~ resumed))
============================================================================
