-------------------------- MODULE BaseClientThreads --------------------------
(***************************************************************************)
(* Synchronous calls on top of BaseClient, as src/README.md:5 offers them: *)
(* a thread of the user sends a call and waits until its callback, which   *)
(* runs on the loop's thread, releases it.  BaseClient has no lock, so     *)
(* sendCall and handleSingleResponse are split here where two threads can  *)
(* meet: each statement that touches id_ or callbacks_ is a step, and an   *)
(* operation on the table lasts from the step that begins it to the next   *)
(* step of its thread.  The peer answers every call once, and well.        *)
(***************************************************************************)
EXTENDS Naturals, Sequences

CONSTANTS
  Callers,    (* the threads that call                                      *)
  MaxCalls    (* bound: calls begun                                         *)

VARIABLES
  id,         (* id_                                                        *)
  callbacks,  (* callbacks_: from ids to the callers they release           *)
  at,         (* where each caller is in sendCall                           *)
  tag,        (* the id in each caller's request                            *)
  asked,      (* the ids of the requests that wait for an answer            *)
  answers,    (* the ids of the responses on their way, in order            *)
  loop,       (* where the loop's thread is, and the id it handles          *)
  made        (* how many calls were begun                                  *)

vars == <<id, callbacks, at, tag, asked, answers, loop, made>>

Idle == [doing |-> "nothing", id |-> 0]

Init ==
  /\ id = 0 /\ callbacks = <<>> /\ asked = {} /\ answers = <<>>
  /\ at = [t \in Callers |-> "ready"] /\ tag = [t \in Callers |-> 0]
  /\ loop = Idle /\ made = 0

(***************************************************************************)
(* sendCall, on the thread of the caller t.                                *)
(***************************************************************************)
Moves(t, from, to) == at[t] = from /\ at' = [at EXCEPT ![t] = to]

(* call.addMember("id", id_); what follows is the store into the table. *)
AddId(t) ==
  /\ made < MaxCalls
  /\ Moves(t, "ready", "storing")
  /\ tag' = [tag EXCEPT ![t] = id] /\ made' = made + 1
  /\ UNCHANGED <<id, callbacks, asked, answers, loop>>

(* callbacks_[id_] = callback is done. *)
Stored(t) ==
  /\ Moves(t, "storing", "counting")
  /\ callbacks' = [i \in DOMAIN callbacks \cup {id} |-> IF i = id THEN t ELSE callbacks[i]]
  /\ UNCHANGED <<id, tag, asked, answers, loop, made>>

(* ++id_ *)
Count(t) ==
  /\ Moves(t, "counting", "sending")
  /\ id' = id + 1
  /\ UNCHANGED <<callbacks, tag, asked, answers, loop, made>>

(* sendRequest; then the user's code waits for its callback. *)
SendRequest(t) ==
  /\ Moves(t, "sending", "waiting")
  /\ asked' = asked \cup {tag[t]}
  /\ UNCHANGED <<id, callbacks, tag, answers, loop, made>>

PeerAnswers ==
  /\ \E i \in asked : asked' = asked \ {i} /\ answers' = Append(answers, i)
  /\ UNCHANGED <<id, callbacks, at, tag, loop, made>>

(***************************************************************************)
(* handleSingleResponse, on the loop's thread.                             *)
(***************************************************************************)
Response ==
  /\ loop.doing = "nothing" /\ answers # <<>>
  /\ loop' = [doing |-> "looking", id |-> Head(answers)]
  /\ answers' = Tail(answers)
  /\ UNCHANGED <<id, callbacks, at, tag, asked, made>>

(* callbacks_.find(id) found nothing: "response {} not found in stub". *)
NotFound ==
  /\ loop.doing = "looking" /\ loop.id \notin DOMAIN callbacks
  /\ loop' = Idle
  /\ UNCHANGED <<id, callbacks, at, tag, asked, answers, made>>

(* The callback releases its caller; what follows is the erase. *)
Callback ==
  /\ loop.doing = "looking" /\ loop.id \in DOMAIN callbacks
  /\ at' = [at EXCEPT ![callbacks[loop.id]] = "ready"]
  /\ loop' = [loop EXCEPT !.doing = "erasing"]
  /\ UNCHANGED <<id, callbacks, tag, asked, answers, made>>

(* callbacks_.erase(it) is done. *)
Erased ==
  /\ loop.doing = "erasing"
  /\ callbacks' = [i \in DOMAIN callbacks \ {loop.id} |-> callbacks[i]]
  /\ loop' = Idle
  /\ UNCHANGED <<id, at, tag, asked, answers, made>>

----------------------------------------------------------------------------
Next ==
  \/ \E t \in Callers : AddId(t) \/ Stored(t) \/ Count(t) \/ SendRequest(t)
  \/ PeerAnswers \/ Response \/ NotFound \/ Callback \/ Erased

Spec == Init /\ [][Next]_vars
----------------------------------------------------------------------------
Storing(t)      == at[t] = "storing"
LoopUsesTheTable == loop.doing \in {"looking", "erasing"}

(* "through thread synchronisation the effect of synchronous RPC calls can *)
(* be reached" (src/README.md:5): threads that wait for their callbacks    *)
(* never store into callbacks_ while another thread uses it.               *)
NoTableRace ==
  \A t \in Callers : Storing(t) =>
    ~ LoopUsesTheTable /\ \A u \in Callers \ {t} : ~ Storing(u)
============================================================================
