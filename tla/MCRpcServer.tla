---------------------------- MODULE MCRpcServer ----------------------------
(***************************************************************************)
(* Two connections of one event loop, and what their peers send: one       *)
(* request of each fate, alone and in batches, and frames that hold none.  *)
(***************************************************************************)
EXTENDS RpcServer, TLC

CONSTANTS a, b, loop, other

MCServices ==
  [S |-> [returns  |-> [now   |-> <<>>, later |-> <<>>],
          notifies |-> [tick |-> <<>>]]]

OneLoop  == [c \in Conns |-> loop]
TwoLoops == (a :> loop) @@ (b :> other)

LaterPooled == {<<"S", "later">>}

Members(method) ==
  [jsonrpc |-> [type |-> "STRING", val |-> "2.0"],
   method  |-> [type |-> "STRING", val |-> <<"S", method>>]]
WithId(members) == [id |-> [type |-> "INT32", val |-> 0]] @@ members
Object(members) == [type |-> "OBJECT", members |-> members]

Now   == Object(WithId(Members("now")))     \* answered within the handler
Later == Object(WithId(Members("later")))   \* handed to the pool, if Pooled says so
Bad   == Object(WithId(Members("none")))    \* no such method: an error reply
Tick  == Object(Members("tick"))            \* a notification
Tock  == Object(Members("tock"))            \* a notification nobody handles

Message(form, reqs) == [form |-> form, reqs |-> reqs]
One(req)   == Message("object", <<req>>)
Many(reqs) == Message("array", reqs)

Blank   == Message("blank", <<>>)
Headers == {Message("badHeader", <<>>)}
Wholes  == {Message("unparsable", <<>>), Message("scalar", <<>>), Many(<<>>)}
Singles == {One(Now), One(Later), One(Bad), One(Tick)}
Fatal   == {One(Tock)}
Batches == {Many(<<Later, Now>>), Many(<<Tick, Later, Tick>>), Many(<<Now, Bad, Now>>),
            Many(<<Now, Tock, Later>>)}

(* The peer counts the texts of its messages only, or sends a blank line. *)
Blanks == {<<One(Now), Blank, One(Now)>>, <<One(Later), Blank, One(Bad)>>,
           <<Blank, Many(<<Later, Now>>)>>}

Pairs(ms, ns) == {<<m, n>> : m \in ms, n \in ns}
Boxes(as, bs) == {(a :> x) @@ (b :> y) : x \in as, y \in bs}

(* Every pair of messages on one connection, a few on the other.           *)
InlineInboxes ==
  LET ms == {Blank} \cup Headers \cup Wholes \cup (Singles \ {One(Later)})
            \cup {Many(<<Now, Tick, Now>>), Many(<<Now, Bad, Now>>), Many(<<Now, Tock, Now>>)}
  IN  Boxes(Pairs(ms, ms), {<<One(Now)>>, <<One(Bad)>>, <<Many(<<Now, Now>>)>>})

PooledInboxes ==
  LET ms == Headers \cup Singles \cup Fatal
            \cup (Batches \ {Many(<<Now, Bad, Now>>)})
  IN  Boxes(Pairs(ms, ms) \cup Blanks, {<<Many(<<Later, Now>>)>>})
============================================================================
