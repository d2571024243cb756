------------------------------- MODULE StubMain -------------------------------
(***************************************************************************)
(* The stub generator as a program: the options, the input it reads once   *)
(* for each side and the files it writes, around the parser of StubSpec.   *)
(* With both sides asked for, the service stub is written before the input *)
(* is read again for the client stub.                                      *)
(***************************************************************************)
EXTENDS StubSpec

CONSTANT Invocations   (* [proto, sides, input, toFile, locked], see below  *)

Sides  == {"service", "client"}
Inputs == {"file",      \* read, and read again after rewind
           "pipe",      \* standard input that cannot be rewound
           "missing",   \* the file cannot be opened, or a flag is unknown
           "garbage"}   \* no json text

ASSUME StubMainAssumption ==
  \A i \in Invocations :
    /\ i.proto \in Protos
    /\ i.sides \subseteq Sides    \* the flags -s and -c
    /\ i.input \in Inputs
    /\ i.toFile \in BOOLEAN       \* the flag -o
    /\ i.locked \subseteq Sides   \* stubs whose output file cannot be opened

VARIABLES
  invocation,   (* how the program was started: never changes              *)
  stage,        (* "start", the side genStub works on, "exit0" or "exit1"  *)
  written       (* the stubs that were written                             *)

mainVars == <<invocation, stage, written>>
allVars  == <<vars, mainVars>>

MainInit ==
  /\ invocation \in Invocations /\ stage = "start" /\ written = {}
  /\ proto = invocation.proto /\ Init

(* Neither flag stands for both. *)
OnlyAsked == invocation.sides
Asked == IF invocation.sides = {} THEN Sides ELSE invocation.sides

Start ==
  /\ stage = "start"
  /\ stage' = IF invocation.input = "missing" THEN "exit1"
              ELSE IF "service" \in Asked THEN "service" ELSE "client"
  /\ UNCHANGED <<vars, invocation, written>>

(* What the second genStub finds in the input is what rewind left there.   *)
NoRewind == stage = "client" /\ "service" \in Asked
Exhausted == stage = "client" /\ "service" \in Asked /\ invocation.input = "pipe"

IsReadableInput == invocation.input # "garbage" /\ ~ Exhausted

ReadFails ==
  /\ stage \in Sides /\ status = "new" /\ ~ IsReadableInput
  /\ stage' = "exit1"
  /\ UNCHANGED <<vars, invocation, written>>

Parse ==
  /\ stage \in Sides /\ IsReadableInput
  /\ ParseProto \/ RejectRpc \/ RecurseForEver \/ AddReturn \/ AddNotify \/ ParseEnds
  /\ UNCHANGED mainVars

(* The StubException leaves the constructor of the generator, so nothing   *)
(* of this side was opened yet.                                            *)
ParseFails ==
  /\ stage \in Sides /\ status = "failed"
  /\ stage' = "exit1"
  /\ UNCHANGED <<vars, invocation, written>>

CanWrite == invocation.toFile => stage \notin invocation.locked

WriteFails ==
  /\ stage \in Sides /\ status = "done" /\ ~ CanWrite
  /\ stage' = "exit1"
  /\ UNCHANGED <<vars, invocation, written>>

Write ==
  /\ stage \in Sides /\ status = "done" /\ CanWrite
  /\ written' = written \cup {stage}
  /\ IF stage = "service" /\ "client" \in Asked
     THEN /\ stage' = "client"
          /\ status' = "new" /\ at' = 1 /\ returns' = <<>> /\ notifies' = <<>>
          /\ UNCHANGED <<proto, sent>>
     ELSE stage' = "exit0" /\ UNCHANGED vars
  /\ UNCHANGED invocation

(* The stubs are used when both were generated. *)
UseStubs ==
  /\ stage = "exit0" /\ written = Sides
  /\ CallStub \/ CallByPosition \/ NotifyStub
  /\ UNCHANGED mainVars

MainNext == Start \/ ReadFails \/ Parse \/ ParseFails \/ WriteFails \/ Write \/ UseStubs

MainSpec == MainInit /\ [][MainNext]_allVars
----------------------------------------------------------------------------
(* Success means that every stub asked for was written.  A failure has     *)
(* touched no file at all: the stubs of an earlier run survive a bad       *)
(* specification.  Only what concerns the client's side alone, an input    *)
(* that cannot be read twice or an output that cannot be opened, comes too *)
(* late for the service stub.                                              *)
AllOrNothing ==
  /\ stage = "exit0" => written = Asked
  /\ stage = "exit1" /\ written # {} =>
       \/ Asked = Sides /\ invocation.input = "pipe"
       \/ invocation.toFile /\ "client" \in invocation.locked
================================================================================
