# mudong-rpc in TLA+

mudong-rpc is a JSON-RPC 2.0 framework: a server that dispatches framed JSON requests to registered procedures, a
client that matches framed responses to callbacks, and a generator that writes the stubs of both sides from a
specification file. This directory models its two sides, the bytes between them, both of them together and the
generator, checks them with TLC on small instances and proves
their safety properties and both refinements with TLAPS. Paths below are relative to the repository's root.

## The system

| part | code | state | operations |
|---|---|---|---|
| connection handling | `src/server/BaseServer.cc` | the input buffer of each connection; the connection itself (mudong-ev) | `onConnection`, `onMessage` → `handleMessage`, `sendResponse`, `onHighWaterMark`, `onWriteComplete` |
| request handling | `src/server/RpcServer.cc` | `services_`; one `ThreadSafeBatchResponse` on the stack per batch | `handleRequest` → single, batch, notify; validation; `addService` |
| registry and procedures | `src/server/RpcService.*`, `Procedure.*` | method tables, signatures | lookup, `validateRequest`/`validateGeneric`, `invoke` |
| user code of the server | `examples/arithmetic/ArithmeticService.cc`, `src/utils/util.hpp` | tasks in a thread pool | a procedure calls its `UserDoneCallback` within the handler or later, from a pool thread |
| client | `src/client/BaseClient.*` | `id_`, `callbacks_` | `sendCall`, `sendNotify`, `onMessage` → `handleMessage` → `handleResponse` → `handleSingleResponse` |
| errors | `src/utils/RpcError.hpp`, `Exception.hpp` | — | three exceptions; which of them carry an id, and who catches them |
| stub generator | `src/stub/*` | the parsed specification; the input file, which is read once per side | `main`, `genStub`, `parseProto`, `parseRpc`, templates |
| event loop, sockets, JSON | mudong-ev, mudong-json | external (empty submodules) | modelled only as far as `src/` uses them |

How they interact. A connection belongs to one event loop. When bytes arrive the loop calls `onMessage`; it takes
frames out of the buffer one after the other and hands each to `handleRequest`, passing a callback `done` that frames
and sends a response. A procedure may keep `done` and hand its work to a thread pool, so a response can be sent while
the loop is in any other place. In a batch `done` is a lambda that adds to a collector local to
`handleBatchRequests`; the collector's destructor sends the array. Errors are exceptions: `RequestException` is turned
into an error reply by `onMessage` (which then shuts the connection down) or by the batch (which goes on with the
reply); `NotifyException` is swallowed by a batch and caught by nobody else. On the client a response's id selects
the callback, which is user code and may call `sendCall` again before it returns.

A connection's output buffer can grow past a high water mark; mudong-ev then calls `onHighWaterMark`, which asks to be
told of complete writes and stops reading, and `onWriteComplete` starts reading again.

What is hard: pool threads against the loop, and against a batch whose collector is gone; what happens to a
connection, its unread bytes and its pending calls after an error; one bad element among several; user callbacks that
re-enter the client's table; threads of the user that call while the loop answers; frames that arrive in pieces; the
two flow control callbacks coming late; either side losing the connection while calls are in any place; answers that are repeated, reordered or malformed; and handlers that must go on until
the buffer holds nothing whole, because no event comes for the rest. `PROJECT.json` lists each of these at its line.

What makes each part correct: a procedure runs for exactly the requests its registration admits; every request gets
at most one answer, on its own connection, in the order of requests when nothing is pooled, and some answer as long as
its connection lives; an error reply is the last word; a batch reply answers the batch; a callback runs at most once,
with its own answer, and every call is accounted for.

## Modules

* **`RpcDispatch`** — the pure decision on one JSON request. `Services` (a constant) is what the registry holds:
  per service the returning procedures and the notifications, each with its signature. `Verdict` follows the code's
  order of checks through `validateRequest`/`validateNotify`, the lookup in `handleSingleRequest`/`handleSingleNotify`
  and `RpcService`, and `validateGeneric`. Its result says which way the request leaves: run, a `RequestException`
  with an error and an id, or a `NotifyException`.
* **`RpcServer`** (extends `RpcDispatch`) — loops, connections, batches and pool. One `Next` disjunct per way a frame
  or a batch element is handled; a batch takes a step per element, because pool threads run in between; everything
  else the handler does for one frame is one step. `next` below `got` marks the bytes still in the buffer; `Fail` is
  the catch clause of `onMessage`; `BatchEnds` is the collector's destructor. `DoneStale` is the `done` of a batch
  whose collector is dead: undefined behaviour, so it does nothing, adds to the batch the same loop is building, or
  ends the process. `alive` becomes FALSE when an exception leaves a loop.
* **`BaseClient`** — the client on its loop's thread. `SendCall` may happen between events and while a callback runs
  (`calling`). The peer answers requests it received, with any of the given shapes, repeatedly and in any order.
  `issued`, `fired` and `abandoned` are history: they number the calls, and record which callbacks ran with which
  answer and which were discarded. A response remembers the call it was sent for, so that "its own answer" means
  something that the code's ids do not define.
* **`BaseClientThreads`** — the client's statements on `id_` and `callbacks_` one by one, with threads of the user that
  make synchronous calls. An operation on the table lasts from the step that begins it to the next step of its thread,
  so two of them at once can be seen. It leaves out what `BaseClient` is about: the peer answers each call once.
* **`MessageChannel`**, **`Framing`** — the abstract channel is a FIFO of whole messages. `Framing` is one direction of a
  connection byte by byte: what `sendRequest`/`sendResponse` write, what other programs may write (the length of the text
  alone, lines between messages), a network that delivers any number of bytes at a time, and a turn of `handleMessage`'s
  loop per step, for the server's version and the client's (`side`). `TakesWhatWasSent` is the refinement
  `Channel!Spec`, with the messages taken so far as `received`.
* **`Backpressure`** — `output` is the size of the connection's output buffer, `due` the callbacks mudong-ev owes.
  A response enlarges the buffer from the loop or from the pool; the peer drains it; `onHighWaterMark` and
  `onWriteComplete` run at any later time, in the order of their causes. `installed` is the write complete
  callback, which `onHighWaterMark` sets and nothing unsets.
* **`RpcContract`**, **`RpcSystem`** — the contract is what a caller may rely on: a call is served at most once and its
  callback runs at most once, afterwards, and is told the outcome its method has. `RpcSystem` composes a `BaseClient` and an
  `RpcServer` by `INSTANCE`: the server's `inbox` is what the client sent, with the JSON request that a call becomes, and
  the client's `inbox` is what the server wrote, with the id and the kind of body that the response has. Each side has
  its own view of the connection and may lose it at any time. The direction between them is the channel of
  `MessageChannel`, which `Framing` justifies. `CallsKeepTheContract` is the refinement: `served` is the sequence of
  calls that responses were written for, `returned` that of the callbacks' invocations, each with its call and with what
  the response said that the client took for it; `outcome` is what the call's method and params make due, by the registry.
* **`StubSpec`** — the stub generator: the parser's steps through a specification, the registry that the generated
  service stub fills, the requests that the generated client stub sends, and how the generated service functions take
  params apart (`Unpacked`, by name or by position). It is composed with the dispatcher by
  `Server(registry) == INSTANCE RpcDispatch WITH Services <- registry`: the same verdict that the server's loops use
  says whether a generated call is served by the service generated from the same specification. `StubsCompile` says
  which specifications give stubs that compile at all; only those are called. A parameter may not take a name that the
  generated functions use, except that an object or array called `request` compiles: it shadows the request, and the response
  gets the argument's id, which is left out like the rest of the text.
* **`StubMain`** (extends `StubSpec`) — the program around it: flags, the input that is read once for the service side and
  again, after `rewind`, for the client side, the output files, and each `exit(1)`.
* **`RpcDispatchProofs`**, **`RpcServerProofs`**, **`RpcServerReplyProofs`** (extends it), **`BaseClientProofs`**,
  **`BackpressureProofs`**, **`FramingProofs`**, **`RpcSystemProofs`**, **`StubProofs`** — the theorems.
* **`MC...`** — the instances TLC checks. `MCRpcDispatch` also holds the reference definition of the requests that should
  be admitted, built from signatures instead of by checks.

`RpcServer` and `BaseClient` work on whole frames: a frame that is incomplete is one that was not received yet
(`got`, which a read may move past any number of frames, or none when it brings only a piece of one). That the frames are
those sent, in order, is what `Framing` shows. One thing between frames ends the server's loop with frames left in the
buffer: a blank line (`BaseServer.cc:75`). A peer that counts only its text in the header leaves one behind each message, so
`RpcServer` has the form "blank" among its frames and the action `SkipBlankLine`. This library's own sender counts the end of
line, so no blank line occurs in `RpcSystem`; the client has no case for one, it is a bad header there.

## Runs

| run | what it asks | states |
|---|---|---|
| `dispatch` | `RunsExactlyTheAdmitted`, `RefusalsEchoTheId`, `ErrorsNameTheWrongPart` on every request with each member absent, mistyped, wrong or right | 9506 |
| `server_inline` | `ResponsesGoHome`, `BatchRepliesAreComplete`, `RepliesInOrder`: two loops, nothing pooled, all pairs of eleven messages on one connection and three on the other | 44616 |
| `server_pooled` | `RespondedOnce`, `RefusalIsTheLastReply`, `NoCallIsLost`, and `EveryMessageIsReplied` under fairness: one loop, one pooled method, also with blank lines | 68833 |
| `client` | `CallsAccounted`, `CallbackGetsItsAnswer`, `HandledAnswersAreDelivered`, `NamedBadAnswersClean`, and `EveryAnswerIsDelivered` under fairness | 40192 |
| `framing` | `TakesWhatWasSent` (refinement of `MessageChannel`), and `EveryMessageIsTaken` under fairness: two messages, every fragmentation, both receivers | 26776 |
| `backpressure` | `AboveTheMarkNothingIsRead`, `ForgottenOnlyTheFirstTime`, and `StoppedReadingResumes`, `RequestsAreRead` under fairness | 7099 |
| `system` | `CallsKeepTheContract` (refinement of `RpcContract`), `WaitingCallsAreSomewhere`, and `EveryCallReturns`, `ShutdownIsExplained` under fairness | 36800 |
| `stub` | `ParsesTheWellFormed`, `GeneratedCallsAreAdmitted`, `ArgumentsArrive`, `AllOrNothing` on specifications of up to two definitions and all flags | 20642 |
| `server_batch_waits` | violated: a batch reply leaves while its pooled calls run | |
| `server_notify` | violated: a failing notification ends the process | |
| `client_sync` | violated: a synchronous caller's next call meets the erase of its last one in `callbacks_` | |
| `stub_bare` | violated: a procedure without params cannot be called through its stub | |

Deadlock is not checked: when peers have sent everything and no user code calls, all parts rest.

The violated runs are disagreements between the code and its own comments or README; `PROJECT.json` quotes both sides
under "findings". Further findings there belong to a property that passes because it states the exception: scalar
params are refused as a mismatch (`ErrorsNameTheWrongPart`), a batch is cut off at a failing notification
(`BatchRepliesAreComplete`), a bad answer without an id leaves its callback in the table (`NamedBadAnswersClean`), a
header that is too long blocks what follows (`EveryMessageIsTaken`), nothing ends a call that times out
(`EveryCallReturns`), and a piped specification gives one stub of two (`AllOrNothing`). In two more the code does better than
its comment: a message that has not arrived whole is kept and taken later, where `BaseClient.cc:121` says that it is
discarded (`TakesWhatWasSent`), and the client's loop goes on after a message, where `BaseClient.cc:125` can be read as
leaving it (`EveryAnswerIsDelivered`).

**What the properties except.** `EveryMessageIsReplied`: a message behind a blank line waits until something more is read;
once it is, the promise holds again. `EveryMessageIsTaken`: the same after a blank line or an exception, but only when
everything sent is in the buffer; and a line that stays in the way for good (`IsStuck`), which is a foreign one at the
server or the next message's own when it is longer than the limit. `NoCallIsLost` is about single calls: those of a batch that
the pool finishes after the reply are lost, which is the violated run `server_batch_waits`. Calls that the code itself gives up
on are promised nothing: answers without a usable id, ids beyond INT32, lost connections. The hazards that no property
covers say so in a note.

**Bounds.** Server: two connections, one message on the second and two on the first, or a blank line between two. Two are enough for
every effect of a message on the next (what is left in the buffer, a bad header met again, a link already shut, a
batch reusing the place of an earlier one), and the pairs of the two runs range over every kind of message between them. With two loops the
connections run in parallel; with one they take turns on it, which is where a stale `done` of one connection reaches the
batch of another. Client: three calls, two frames of at most two responses, `MaxInt32 = 1` so that the third call's id
no longer fits; three calls are one more than is needed to have one in the table, one running and one made inside the
callback. `MCRpcDispatch` takes a right value, a wrong one, a mistyped one and none for each member, and a fifth
member for "unexpected field"; its registry has procedures with two, one and no params, and a service without a name. `MCStubSpec` pairs definitions with no, one and two params of several types, repeated and
null params, a name that is empty, every kind of return, and things that are no definition; two definitions suffice for one to fail after
another was taken, and for two of the same name. It starts the program in the usual way for each of them, and in every
way for a good and a bad one.

`MCFraming`: two messages, so that one can be taken for the header of the next, one of one byte and
one of eight with ends of line and a length inside, so that length lines have one digit or two; the longer length (10) is
one that the server's limit admits and the client's does not. One foreign line (blank, text, or a number that is no
INT32), fragments of any size. `MaxInt32 = 99` and limits of 10 keep every comparison of the code reachable with two digits. `MCBackpressure`: six requests,
responses of 0 to 2 units and a mark of 2, so that one response or two reach the mark, the buffer crosses it several
times, and callbacks of different crossings are owed together. `MCRpcSystem`: three calls, each to a procedure that
answers at once, to a pooled one, to one that takes other params, or to none: enough for a refusal between two calls, for an answer of the pool that
comes after the shutdown, and for answers in another order than their calls. `MaxInt32 = 2` fits all three ids there;
what happens beyond is `client`'s. `MCBaseClientThreads` needs one caller and two calls.

**Fairness.** `RpcServer!Fairness` is weak fairness of each loop's handling of what it has begun to read, and of the
pool: `loop.loop()` runs until the process ends, and pool threads take tasks until there are none. Reading is not
fair, peers may stop at any time. `EveryMessageIsReplied` is therefore about what was received. `BaseClient!FairSpec` is
weak fairness of the handler, callbacks included: it assumes that callbacks return.
`Framing!FairSpec`: bytes that were sent arrive, and `handleMessage` runs to its end; nobody has to send.
`Backpressure!FairSpec`: the loop reads what it may read and runs the callbacks it owes, the pool works, and the peer
takes what it is sent, which is the one assumption about something the server does not control: a peer that does
not read may stop its own connection for ever, which is what flow control is for. `RpcSystem!FairSpec`: both loops run,
the pool works, a connection that is up
delivers. That last fairness is strong: a read may bring only a piece of a message and put an end to the event, but a
message has finitely many bytes, so it is whole after finitely many reads. Neither calls nor losses are fair.

Each property of a passing run was seen to fail on a mutated definition of the code (`PROJECT.json`, "mutants"): the
operators `WriteAlways`, `NoShutdown`, `RetrieveAll`, `FrameLoopEndsAfterOne`, `SameId` and so on stand in front of the
definitions they replace and are not used otherwise.

## Proofs

All theorems hold for every value of the constants that satisfies the named assumptions, which TLC evaluates on the
runs: `ServerAssumption`, `ClientAssumption` and `BackpressureAssumption` say what the constants are, as do
`SystemAssumption` (signatures in the registry, methods of the calls), `StubMainAssumption` (flags) and
`ProtosAssumption` (a specification is a json value). Two say more. `FramingAssumption`: a text is not empty, does not end
in an end of line (json text ends in a brace or bracket), and is no longer than a header can say; a foreign line is one
line and no length, not even with white space around it (which a json parser passes over; `IsLength` does not have it,
since no sender of the model writes it). `RegistryAssumption`: a procedure's parameters have different names.

* `RpcDispatchProofs`: for any registry and, in its lemmas, for any json request. `RefusalsCarryTheId`: the lemma
  `VerdictEchoesTheId` walks through the checks of a request. `RunsWhatIsRegistered` compares the checks with the
  reference, which builds messages from signatures: `CountTells` says that counting the members excludes any but the
  expected ones, `FitIsPassed` that params as many as the signature, each found under its name or place, are those of the
  signature and no other, `Found` that the lookup is by registered names. `ErrorsAreTrue` uses the same lemmas: what is
  checked before the params does not depend on them (`SoundWithParams`), and what a signature is passed fits. The
  invariant is that the answer given is the verdict.
* `BackpressureProofs`: for any mark, response sizes and number of requests. `AboveTheMarkNothingIsRead` needs to know which
  callback is owed last: `StoppedAbove` says that above the mark it is the one that stops reading, or that it has run and
  only such callbacks are owed. `ForgottenOnlyTheFirstTime` needs `WillBeTold`: from the first write complete callback on, a
  connection that is stopped or about to be, with an empty buffer, is owed that callback last, because it is installed for
  good (`Asked`). `Effect` sums up what a change of the buffer does to the callbacks owed, so that the responses sent by the
  loop, by the pool and the draining are one case.
* `RpcServerProofs!TypeCorrect`: `Spec => []TypeOK`. `TypeOK` is not inductive: handling an element needs to know that
  the frame in front of `next` is an array that is not empty and that `elem` does not run past it. `LoopShape` adds that,
  and that a loop serves only its own connections; `Inv == TypeOK /\ LoopShape` is inductive.
* `RefusalsAreLast`: an error reply is written by `Fail` only, which shuts the link in the same step; no
  step makes a link "up" again and `Write` is without effect on any other link. This holds with pooled methods too.
* `InlineResponsesGoHome` (assuming `Pooled = {}`, by `HomeInv`): no task is ever created, so all responses in `batch` are of the
  message the loop is at, and a batch is emptied when its reply is written. With pooled methods it is false
  (`DoneStale`), which is why it is stated with that assumption.
* `AnsweredAtMostOnce`: `OnceInv` says where a call may be — with the pool, held by a batch under construction, in what was
  written — that it is in one place only (`OnePlace`, `HeldOnce`) and that every such call is `Past`: its loop will
  not come to it again (`AllPast`). A step that answers or queues a call makes one `Past` that was not, or moves one out of
  `tasks` (`Fresh`). The exception is the error for a bad header, which is not consumed: it is produced again at each read,
  but on a link that the first one shut, so it is not written.
* `RpcServerReplyProofs!CallsAreKept`: `AllKept` says of each message behind `next` that its call was answered or is a
  task. Its other half, that no task was answered, comes from `OnceInv`. `Lasting` is what every step leaves alone:
  messages, replies, links that are down; so only the step that takes a message, and the pool's, need an argument.
* `InlineRepliesAreInOrder` (`Pooled = {}`): `Front` is the message that a connection's loop will answer next, which is one
  behind `next` while a batch is under way. It never goes back, and what was written on a link that is up is behind it.
* `InlineBatchesAreComplete` (`Pooled = {}`): `BatchCovers` says that the batch under construction holds, in order, the
  responses to exactly the elements before `elem` that were attempted and are no notifications. The lemmas `CoverSkips`
  and `CoverGrows` are about the sequences alone; the steps of the handler are instances of them.
* `BaseClientProofs!TypeCorrect`: `Spec => []TypeOK`.
* `AnswersReachTheirCalls` and `EveryCallIsAccountedFor`: from `Numbered` (ids are the numbers of the calls, in the
  table, in requests and in answers) and, for the second, `Accounted` (the running callback's call has been
  recorded as fired; what was abandoned is not in the table). Both hold whatever the peer sends.
* `NoAnswerIsLost` and `BadAnswersClean`: from `Settled`, which splits the answers of the frames taken into those that were
  handled and those that are `ToCome`, and keeps that a callback runs for a valid answer only. With `Accounted`, an
  answer whose callback is not in the table belongs to a call that was called back or abandoned.

* `FramingProofs!FramingImplementsChannel`: the byte stream implements `MessageChannel`, for texts of any length and any
  cuts. What is still to be taken is `Rest`, the buffer and the wire with the number of messages seen. The invariant says that it
  lies in a set of rests each of which can be read: it ends with nothing to come, or starts with a line that announces
  nothing and leaves a rest of the set, or starts with the next message sent and leaves one. It is a set because a receiver may stop
  in several places of the same bytes (an end of line belongs to the message for the code's own sender and follows it for
  others), and because this is closed under sending: bytes that are sent extend every rest of the set (`ShiftLine`,
  `ShiftMessage`). Bytes that arrive do not change `Rest` at all, which is why fragmentation does not matter. A step of
  `handleMessage` then finds the line or the message that the invariant promises (`AtLine`, `AtMessage`), whatever ends of
  line are inside a text. That a length reads back as it was written (`ReadsWhatWasWritten`) is an induction over the
  numbers, done by way of the least counterexample. The set ranges over byte sequences of any length, so
  TLC cannot evaluate this invariant; it checks the refinement itself. `TypeCorrect` is a part of it.
* `RpcSystemProofs!SystemImplementsContract`: for any registry, any plan of calls, pooled or not. `Inv` is about the
  composition: what the client sent is numbered as it was called (`SentOK`), the pool holds requests that are to
  succeed and were not replied to (`ServerOK`), each reply is the one its request makes due and no request has two
  (`RepliesOK`), the table maps each waiting call to itself (`ClientOK`), and a callback that was invoked got the response
  to its own call, which the server had written (`FiredOK`). TLC checked these on the run's instance before they were
  proved. `VerdictOnCall` ties the dispatcher's verdict to what the contract calls due. With `Inv`, a step that
  writes a response is the contract's `Serve`, one that invokes a callback its `Return`, a call its `Call`, and every
  other step leaves the contract's variables alone.
* `NoCallIsStuck`: `WaitingCallsAreSomewhere`, provided that the ids of all calls fit an INT32 (`MaxCalls <= MaxInt32 + 1`).
  Beyond that the client refuses the response to its own id and the callback waits for ever with nothing on its way; the run `client`
  has that case. `WaitingOK` follows a call from the request through the pool to the response in hand.
* `StubProofs`: for any specifications and command lines. `GeneratorIsAllOrNothing` needs `ParseOK` (what is behind the
  parser was taken; it fails on bad specifications only) and `StageOK`: when the client side starts, the service side
  parsed the same input with success, so the second parse cannot fail; only reading or writing can. `StubsAgree` and
  `ArgumentsReachParams` use that the parameters of a procedure have different names, so that by name or by
  position each has a place of its own (`PlacesDiffer`, `PlacedValues`), and that a registered name leads to its own procedure
  (`Bindings`). `ParsesTheSpecification` follows the two lists: `PlaceOK` says that each lists, in order, the definitions of
  its kind behind the parser, and that a parser which failed stands at a definition it does not take. `Lists` names the place
  that each entry has in the specification; an `Append` extends these places by the current one (`ListGrows`).
  `TakenIsWellFormed` ties the parser's checks to the reference `WellFormed`, which counts names instead of comparing them.

Only model-checked: liveness (`EveryMessageIsReplied`, `EveryAnswerIsDelivered`, `EveryMessageIsTaken`,
`StoppedReadingResumes`, `RequestsAreRead`, `EveryCallReturns`, `ShutdownIsExplained`), out of the prover's reach, and the four violated runs, which
are counterexamples.

## Assumptions about external code

mudong-ev: a connection stays on one loop; `send` is thread-safe and without effect unless the connection is up;
`shutdown` closes the sending side and leaves reading on; `onMessage` is called when new bytes arrived, never because
bytes were left; the high water mark is reported when the buffer crosses it and not while it is above, the write
complete callback when the buffer has run empty and the callback is set; both may come late, since the code relies on
no promise that they do not; an exception that leaves a callback is not caught. mudong-json: an integer that fits is read as INT32 (the client relies on it: it
sends `id_` as an int64 and accepts INT32 only), a double is written so that it is read back as one,
`getSize` counts the members of an object (repeated ones included) and is zero for a scalar. The client's elements of
a batch response are objects: what `getSize` does for other values there depends on the library's assertions and is
not modelled. Erasing through an iterator kept across a rehash (`BaseClient.cc:181`) is outside what the standard
promises and works with the libstdc++ of the build, since nodes do not move; the model says so at `CallbackReturns`.

## Plan

Done, in this order: `RpcDispatch`; `RpcServer` with its runs and proofs; `BaseClient` with its runs and proofs;
`StubSpec`; `Framing` against `MessageChannel`; `Backpressure` with its proofs; `RpcSystem` against `RpcContract`;
`BaseClientThreads`; `StubMain`; then `FramingProofs` and `RpcSystemProofs`, the two refinements; `StubProofs`; the
dispatcher for any registry; the parser's reference. Every invariant of a passing run is now stated by a theorem. Left: the
leads-to properties as safety invariants that name, for each waiting party, the step that is due, as `WaitingCallsAreSomewhere`
does for calls.

## Not modelled

* The text of the stubs beyond what they register, send and take apart, log lines, the wording of errors, the arithmetic and
  the printing of the example, build files.
* Registration by hand: `addService` and `addProcedure...` run before the loops do, and a name used twice is stopped by an
  assert (`RpcServer.cc:102`, `RpcService.hpp:15`); `Services` is a constant in which a name stands once. Names that a
  specification repeats are in `StubSpec` (`NamesAreUnique`).
* A stub used before its connection is up: `conn_` is null then and the generated function asserts that it is not
  (`ClientStubGenerator.cc:95`). `BaseClient` starts with the connection up; once it is lost, the stub keeps the old one
  and calls on it are sent to nobody, which is `RpcSystem`'s `link`.
* What mudong-ev and mudong-json do inside: submodules that are not part of the repository.
