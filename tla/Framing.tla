-------------------------------- MODULE Framing --------------------------------
(***************************************************************************)
(* The byte stream under a connection, in one direction.  The sender puts  *)
(* a length line in front of every message and an end of line behind it    *)
(* (sendRequest, sendResponse); the network delivers the bytes in pieces   *)
(* of any size; handleMessage looks for messages in the input buffer after *)
(* every piece.  The two handleMessages differ: the server's skips a blank *)
(* line and leaves a bad length line in the buffer, the client's has no    *)
(* case for blank lines and removes what is not a length.                  *)
(*                                                                         *)
(* Bytes are ASCII codes.  What a message says is for the request and      *)
(* response handlers (RpcServer, BaseClient) to find out.                  *)
(***************************************************************************)
EXTENDS Naturals, SequencesExt

CONSTANTS
  Payloads,   (* the json texts that may be sent                           *)
  Foreign,    (* lines that other programs write between two messages      *)
  MaxInt32,   (* the largest length that the json parser reads as an INT32 *)
  MaxLen,     (* kMaxMessageLen of each side, [server, client]             *)
  MaxSends,   (* bound: messages sent                                      *)
  MaxForeign  (* bound: foreign lines sent                                 *)

Bytes == 0 .. 127
CR == 13
LF == 10
CRLF == <<CR, LF>>

EndsLine(bytes, i) == bytes[i] = CR /\ bytes[i + 1] = LF

(* The number that a string of digits stands for, digit by digit.          *)
Values(digits) ==
  LET value[k \in 0 .. Len(digits)] ==
        IF k = 0 THEN 0 ELSE 10 * value[k - 1] + (digits[k] - 48)
  IN  value

Value(digits) == Values(digits)[Len(digits)]

(* A positive INT32, as json writes it: no leading zero.  A json parser    *)
(* also takes one with white space around it, which nobody here sends.     *)
IsLength(line) ==
  /\ line # <<>> /\ \A i \in DOMAIN line : line[i] \in 48 .. 57
  /\ line[1] # 48 /\ Value(line) <= MaxInt32

(* A text is not empty, does not end in the end of a line, and is no       *)
(* longer than a header can say.                                           *)
IsText(p) ==
  /\ p \in Seq(Bytes) /\ p # <<>> /\ Len(p) + 2 <= MaxInt32
  /\ ~ IsSuffix(CRLF, p)

White == {9, LF, CR, 32}

IsPaddedLength(line) ==
  \E i, j \in DOMAIN line :
    /\ IsLength(SubSeq(line, i, j))
    /\ \A k \in DOMAIN line \ (i .. j) : line[k] \in White

(* A foreign line is one line, and none that announces a message. *)
IsForeign(f) ==
  /\ f \in Seq(Bytes) /\ Len(f) >= 2 /\ EndsLine(f, Len(f) - 1)
  /\ \A i \in 1 .. Len(f) - 2 : ~ EndsLine(f, i)
  /\ ~ IsPaddedLength(SubSeq(f, 1, Len(f) - 2))

ASSUME FramingAssumption ==
  /\ MaxInt32 \in Nat /\ MaxSends \in Nat /\ MaxForeign \in Nat
  /\ MaxLen.server \in Nat /\ MaxLen.client \in Nat
  /\ \A p \in Payloads : IsText(p)
  /\ \A f \in Foreign : IsForeign(f)

VARIABLES
  side,     (* which of the two receives: never changes                    *)
  sent,     (* the messages that were sent                                 *)
  lines,    (* how many foreign lines were                                 *)
  wire,     (* bytes on their way                                          *)
  buffer,   (* bytes received and not consumed                             *)
  taken,    (* bodies handed to handleRequest or handleResponse            *)
  loop      (* "running", or what ended handleMessage: "short" of bytes,   *)
            (* "blank" line, "threw"                                       *)

vars == <<side, sent, lines, wire, buffer, taken, loop>>

Init ==
  /\ side \in {"server", "client"}
  /\ sent = <<>> /\ lines = 0 /\ wire = <<>>
  /\ buffer = <<>> /\ taken = <<>> /\ loop = "short"

----------------------------------------------------------------------------
(* Sending.  This library counts the end of line that follows the message; *)
(* a peer may well count the message alone.                                *)
Decimal[n \in Nat] ==
  IF n < 10 THEN <<48 + n>> ELSE Append(Decimal[n \div 10], 48 + (n % 10))

Frame(p, length) == Decimal[length] \o CRLF \o p \o CRLF

Send(p) ==
  /\ Len(sent) < MaxSends
  /\ sent' = Append(sent, p)
  /\ \E length \in {Len(p), Len(p) + 2} : wire' = wire \o Frame(p, length)
  /\ UNCHANGED <<side, lines, buffer, taken, loop>>

SendForeign(f) ==
  /\ lines < MaxForeign
  /\ lines' = lines + 1
  /\ wire' = wire \o f
  /\ UNCHANGED <<side, sent, buffer, taken, loop>>

(* The next bytes, however many, reach the buffer and onMessage is called. *)
Arrive ==
  /\ loop # "running"
  /\ \E n \in 1 .. Len(wire) :
       /\ buffer' = buffer \o SubSeq(wire, 1, n)
       /\ wire' = SubSeq(wire, n + 1, Len(wire))
  /\ loop' = "running"
  /\ UNCHANGED <<side, sent, lines, taken>>

----------------------------------------------------------------------------
(* handleMessage: one turn of its loop.                                    *)
LineEnds  == {i \in 1 .. Len(buffer) - 1 : EndsLine(buffer, i)}
HasLine   == LineEnds # {}
Line      == SubSeq(buffer, 1, Min(LineEnds) - 1)
OneLineEnd == Len(Line) + 1
HeaderLen == Len(Line) + 2
IsBlank   == Line = <<>>

BodyLen   == Value(Line)
IsTooLong == IF side = "server" THEN BodyLen > MaxLen.server ELSE BodyLen >= MaxLen.client
IsWhole   == Len(buffer) >= HeaderLen + BodyLen
RetrieveNothing(n) == UNCHANGED buffer
Retrieve(n) == buffer' = SubSeq(buffer, n + 1, Len(buffer))
Running   == loop = "running"

NoLine ==
  /\ Running /\ ~ HasLine
  /\ loop' = "short"
  /\ UNCHANGED <<side, sent, lines, wire, buffer, taken>>

SkipBlankLine ==
  /\ Running /\ HasLine /\ side = "server" /\ IsBlank
  /\ Retrieve(2) /\ loop' = "blank"
  /\ UNCHANGED <<side, sent, lines, wire, taken>>

BadLengthKept ==
  /\ Running /\ HasLine /\ side = "server" /\ ~ IsBlank /\ ~ IsLength(Line)
  /\ loop' = "threw"
  /\ UNCHANGED <<side, sent, lines, wire, buffer, taken>>

BadLengthRemoved ==
  /\ Running /\ HasLine /\ side = "client" /\ ~ IsLength(Line)
  /\ Retrieve(HeaderLen) /\ loop' = "threw"
  /\ UNCHANGED <<side, sent, lines, wire, taken>>

TooLong ==
  /\ Running /\ HasLine /\ IsLength(Line) /\ IsTooLong
  /\ loop' = "threw"
  /\ UNCHANGED <<side, sent, lines, wire, buffer, taken>>

Incomplete ==
  /\ Running /\ HasLine /\ IsLength(Line) /\ ~ IsTooLong /\ ~ IsWhole
  /\ loop' = "short"
  /\ UNCHANGED <<side, sent, lines, wire, buffer, taken>>

TakeOne ==
  /\ Running /\ HasLine /\ IsLength(Line) /\ ~ IsTooLong /\ IsWhole
  /\ taken' = Append(taken, SubSeq(buffer, HeaderLen + 1, HeaderLen + BodyLen))
  /\ Retrieve(HeaderLen + BodyLen)
  /\ loop' \in {"short", "threw"}
  /\ UNCHANGED <<side, sent, lines, wire>>

(* The handler may throw: the message is out of the buffer all the same.   *)
Take ==
  /\ Running /\ HasLine /\ IsLength(Line) /\ ~ IsTooLong /\ IsWhole
  /\ taken' = Append(taken, SubSeq(buffer, HeaderLen + 1, HeaderLen + BodyLen))
  /\ Retrieve(HeaderLen + BodyLen)
  /\ loop' \in {"running", "threw"}
  /\ UNCHANGED <<side, sent, lines, wire>>

Turn == NoLine \/ SkipBlankLine \/ BadLengthKept \/ BadLengthRemoved \/ TooLong \/ Incomplete
        \/ Take

Next == \/ \E p \in Payloads : Send(p)
        \/ \E f \in Foreign : SendForeign(f)
        \/ Arrive \/ Turn

Spec == Init /\ [][Next]_vars

(* The connection delivers what was sent, and handleMessage is carried     *)
(* through; nobody has to send anything.                                   *)
FairSpec == Spec /\ WF_vars(Arrive) /\ WF_vars(Turn)
----------------------------------------------------------------------------
(* The types, and that no more messages are taken out than were sent.      *)
TypeOK ==
  /\ side \in {"server", "client"}
  /\ sent \in Seq(Payloads) /\ lines \in 0 .. MaxForeign
  /\ wire \in Seq(Bytes) /\ buffer \in Seq(Bytes)
  /\ taken \in Seq(Seq(Bytes)) /\ Len(taken) <= Len(sent)
  /\ loop \in {"running", "short", "blank", "threw"}

(* The json parser does not mind the end of line behind a text. *)
Content(body) == IF IsSuffix(CRLF, body) THEN SubSeq(body, 1, Len(body) - 2) ELSE body
Received == [i \in DOMAIN taken |-> Content(taken[i])]

Channel == INSTANCE MessageChannel WITH Messages <- Payloads, received <- Received

(* However the bytes are cut into pieces, whatever end of line is inside a *)
(* message, and although foreign lines stand between messages, both        *)
(* handleMessages take out exactly the messages that were sent, in order:  *)
(* a length is never looked for in the middle of a message.                *)
TakesWhatWasSent == Channel!Spec

(* A length line that is met again at every read: one that the server      *)
(* keeps although it is no length, or one that announces more than the     *)
(* side takes, which is always the next message's own.                     *)
Limit == IF side = "server" THEN MaxLen.server ELSE MaxLen.client - 1

IsStuck ==
  /\ HasLine
  /\ IF IsLength(Line)
     THEN /\ IsTooLong /\ Len(taken) < Len(sent)
          /\ Len(sent[Len(taken) + 1]) + 2 > Limit
     ELSE side = "server" /\ ~ IsBlank /\ lines > 0

(* Every message that is sent is taken out in the end, the ones that come  *)
(* in fragments and those behind a blank line or an exception among them,  *)
(* with two exceptions.  One is a line that stays in the way for good: a   *)
(* foreign one, or that of a message which is too long.  The other is a    *)
(* blank line or an exception behind which all that is still missing is    *)
(* in the buffer already: handleMessage leaves its loop there, and comes   *)
(* back to the rest only when more bytes arrive.                           *)
EveryMessageIsTaken ==
  \A n \in 1 .. MaxSends :
    Len(sent) >= n ~>
      \/ Len(taken) >= n
      \/ IsStuck
      \/ loop \in {"blank", "threw"} /\ wire = <<>>
================================================================================
