---------------------------- MODULE MCBaseClient ----------------------------
(***************************************************************************)
(* What the peer of the client may send: one frame of each kind that       *)
(* handleMessage, handleResponse and validateResponse tell apart.          *)
(***************************************************************************)
EXTENDS BaseClient

Good      == [idType |-> "asked", members |-> 3, version |-> "2.0", body |-> "result"]
Failure   == [Good EXCEPT !.body = "error"]
NoId      == [Good EXCEPT !.idType = "NULL"]
Extra     == [Good EXCEPT !.members = 4]
OldOne    == [Good EXCEPT !.version = "1.0"]
Empty     == [Good EXCEPT !.body = "badError"]

Shape(form, elems) == [form |-> form, elems |-> elems]

Oversize  == {Shape("oversize", <<>>)}
Unusable  == {Shape(form, <<>>) : form \in {"badHeader", "array"}}
Singles   == {Shape("object", <<r>>) : r \in {Good, NoId, OldOne}}
Batches   == {Shape("array", rs) : rs \in {<<Failure, Good>>, <<Good, Extra>>, <<Empty, Good>>}}

AnyShape  == Oversize \cup Unusable \cup Singles \cup Batches
============================================================================
