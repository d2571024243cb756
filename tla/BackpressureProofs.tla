-------------------------- MODULE BackpressureProofs --------------------------
(***************************************************************************)
(* For every high water mark, every set of response sizes and any number   *)
(* of requests: a connection is not read above the mark once the callbacks *)
(* owed have run, and one that started to read again is never left stopped.*)
(***************************************************************************)
EXTENDS Backpressure, SequenceTheorems, TLAPS

OnlyMarks      == \A i \in DOMAIN due : due[i] = "mark"
EndsWith(call) == due # <<>> /\ due[Len(due)] = call
IsDue(call)    == \E i \in DOMAIN due : due[i] = call

(* Above the mark the last callback owed is the one that stops reading, or *)
(* it has run and nothing owed starts to read again.                       *)
StoppedAbove == output >= Mark => EndsWith("mark") \/ (reading = FALSE /\ OnlyMarks)

(* Whoever is told of complete writes has asked for it.                    *)
Asked == resumed = TRUE \/ IsDue("complete") => installed = TRUE

(* From the first such callback on, a connection that is stopped, or about *)
(* to be, with nothing left to write is owed the callback that starts it.  *)
WillBeTold ==
  /\ resumed = TRUE \/ IsDue("complete")
  /\ output = 0
  /\ reading = FALSE \/ IsDue("mark")
  => EndsWith("complete")

IInv == TypeOK /\ StoppedAbove /\ Asked /\ WillBeTold

----------------------------------------------------------------------------
(* Sequences of callbacks. *)
LEMMA TailFacts ==
  ASSUME NEW s \in Seq(Callbacks), s # <<>>
  PROVE  /\ Tail(s) \in Seq(Callbacks) /\ Len(Tail(s)) = Len(s) - 1
         /\ Head(s) = s[1] /\ Len(s) \in Nat \ {0}
         /\ \A i \in 1 .. Len(s) - 1 : Tail(s)[i] = s[i + 1]
  OBVIOUS

LEMMA AppendFacts ==
  ASSUME NEW s \in Seq(Callbacks), NEW c \in Callbacks
  PROVE  /\ s \o <<c>> = Append(s, c) /\ Append(s, c) \in Seq(Callbacks)
         /\ Append(s, c) # <<>> /\ Len(Append(s, c)) = Len(s) + 1
         /\ Append(s, c)[Len(s) + 1] = c
         /\ \A i \in 1 .. Len(s) : Append(s, c)[i] = s[i]
  OBVIOUS

(* What a change of the output buffer does to the callbacks owed.          *)
Effect ==
  \/ due' = Append(due, "mark") /\ output' >= Mark
  \/ /\ due' = due
     /\ output' >= Mark => output >= Mark
     /\ output' = 0 => installed = FALSE
  \/ due' = Append(due, "complete") /\ output' = 0 /\ installed = TRUE

LEMMA SendingHasEffect ==
  ASSUME TypeOK, NEW size \in Sizes, SendResponse(size)
  PROVE  Effect /\ output' \in Nat
<1>1. size \in Nat /\ Mark \in Nat \ {0} /\ output \in Nat /\ due \in Seq(Callbacks)
  BY BackpressureAssumption DEF TypeOK
<1>2. installed = TRUE \/ installed = FALSE
  BY Zenon DEF TypeOK
<1>3. output' = output + size
  BY DEF SendResponse
<1>4. CASE Crosses(output, output + size)
  <2>1. due' = due \o <<"mark">>
    BY <1>4 DEF SendResponse
  <2> QED
    BY <1>1, <1>3, <1>4, <2>1, AppendFacts DEF Effect, Crosses, Callbacks
<1>5. CASE ~ Crosses(output, output + size) /\ output + size = 0 /\ installed = TRUE
  <2>1. due' = due \o <<"complete">>
    BY <1>5 DEF SendResponse, IfInstalled
  <2> QED
    BY <1>1, <1>3, <1>5, <2>1, AppendFacts DEF Effect, Callbacks
<1>6. CASE ~ Crosses(output, output + size) /\ ~ (output + size = 0 /\ installed = TRUE)
  <2>1. due' = due \o <<>>
    BY <1>2, <1>6 DEF SendResponse, IfInstalled
  <2>2. due' = due
    BY <1>1, <2>1
  <2> QED
    BY <1>1, <1>2, <1>3, <1>6, <2>2 DEF Effect, Crosses
<1> QED
  BY <1>4, <1>5, <1>6

LEMMA DrainingHasEffect ==
  ASSUME TypeOK, Drain
  PROVE  Effect /\ output' \in Nat
<1>1. Mark \in Nat \ {0} /\ output \in Nat /\ due \in Seq(Callbacks)
  BY BackpressureAssumption DEF TypeOK
<1>2. installed = TRUE \/ installed = FALSE
  BY Zenon DEF TypeOK
<1>3. PICK n \in 1 .. output :
        output' = output - n /\ due' = due \o IF n = output THEN IfInstalled("complete") ELSE <<>>
  BY DEF Drain
<1>4. CASE n = output /\ installed = TRUE
  <2>1. due' = due \o <<"complete">>
    BY <1>3, <1>4 DEF IfInstalled
  <2> QED
    BY <1>1, <1>3, <1>4, <2>1, AppendFacts DEF Effect, Callbacks
<1>5. CASE ~ (n = output /\ installed = TRUE)
  <2>1. due' = due \o <<>>
    BY <1>2, <1>3, <1>5 DEF IfInstalled
  <2>2. due' = due
    BY <1>1, <2>1
  <2> QED
    BY <1>1, <1>2, <1>3, <1>5, <2>2 DEF Effect
<1> QED
  BY <1>4, <1>5
----------------------------------------------------------------------------
LEMMA InitialInvariant == Init => IInv
<1> SUFFICES ASSUME Init PROVE IInv
  OBVIOUS
<1>1. TypeOK
  <2>1. /\ unread \in Nat /\ input \in Nat /\ pool \in Nat /\ output \in Nat
        /\ unread + input + pool <= Requests /\ due \in Seq(Callbacks)
    BY BackpressureAssumption DEF Init
  <2>2. reading \in BOOLEAN /\ installed \in BOOLEAN /\ resumed \in BOOLEAN
    BY DEF Init
  <2> QED
    BY <2>1, <2>2, Zenon DEF TypeOK
<1>2. StoppedAbove
  BY BackpressureAssumption DEF Init, StoppedAbove
<1>3. Asked /\ WillBeTold
  BY DEF Init, Asked, WillBeTold, IsDue
<1> QED
  BY <1>1, <1>2, <1>3 DEF IInv

(* A step that leaves the output buffer and the callbacks alone.           *)
LEMMA QuietSteps ==
  ASSUME IInv, TypeOK', UNCHANGED <<output, reading, installed, due, resumed>>
  PROVE  IInv'
  BY DEF IInv, StoppedAbove, Asked, WillBeTold, OnlyMarks, EndsWith, IsDue

(* A response that is sent, at once or by the pool, and a buffer that      *)
(* drains.                                                                 *)
LEMMA BufferSteps ==
  ASSUME IInv, TypeOK', Effect, UNCHANGED <<reading, installed, resumed>>
  PROVE  IInv'
<1>1. due \in Seq(Callbacks) /\ output \in Nat /\ output' \in Nat /\ Mark \in Nat \ {0}
  BY BackpressureAssumption DEF IInv, TypeOK
<1>2. CASE due' = Append(due, "mark") /\ output' >= Mark
  <2>1. EndsWith("mark")'
    BY <1>1, <1>2, AppendFacts DEF EndsWith, Callbacks
  <2>2. IsDue("complete")' => IsDue("complete")
    BY <1>1, <1>2, AppendFacts DEF IsDue, Callbacks
  <2>3. StoppedAbove'
    BY <2>1 DEF StoppedAbove
  <2>4. Asked'
    BY <2>2 DEF IInv, Asked
  <2>5. WillBeTold'
    BY <1>1, <1>2 DEF WillBeTold
  <2> QED
    BY <2>3, <2>4, <2>5 DEF IInv
<1>3. CASE /\ due' = due
           /\ output' >= Mark => output >= Mark
           /\ output' = 0 => installed = FALSE
  <2>1. StoppedAbove'
    BY <1>3 DEF IInv, StoppedAbove, EndsWith, OnlyMarks
  <2>2. Asked'
    BY <1>3 DEF IInv, Asked, IsDue
  <2>3. WillBeTold'
    BY <1>3, <2>2 DEF WillBeTold, Asked
  <2> QED
    BY <2>1, <2>2, <2>3 DEF IInv
<1>4. CASE due' = Append(due, "complete") /\ output' = 0 /\ installed = TRUE
  <2>1. EndsWith("complete")'
    BY <1>1, <1>4, AppendFacts DEF EndsWith, Callbacks
  <2>2. StoppedAbove'
    BY <1>1, <1>4 DEF StoppedAbove
  <2>3. Asked'
    BY <1>4 DEF Asked
  <2>4. WillBeTold'
    BY <2>1 DEF WillBeTold
  <2> QED
    BY <2>2, <2>3, <2>4 DEF IInv
<1> QED
  BY <1>2, <1>3, <1>4 DEF Effect

LEMMA MarkSteps == ASSUME IInv, TypeOK', OnHighWaterMark PROVE IInv'
<1>1. due \in Seq(Callbacks) /\ due # <<>> /\ Head(due) = "mark" /\ due' = Tail(due)
  BY DEF IInv, TypeOK, OnHighWaterMark
<1>2. output' = output /\ resumed' = resumed /\ installed' = TRUE /\ reading' = FALSE
  BY DEF OnHighWaterMark, StopRead
<1>3. ASSUME NEW c \in Callbacks, c # "mark" \/ due' # <<>>, EndsWith(c) PROVE EndsWith(c)'
  BY <1>1, <1>3, TailFacts DEF EndsWith
<1>4. OnlyMarks => OnlyMarks'
  BY <1>1, TailFacts DEF OnlyMarks
<1>5. \A c \in Callbacks : IsDue(c)' => IsDue(c)
  BY <1>1, TailFacts DEF IsDue
<1>6. IsDue("mark")
  BY <1>1, TailFacts DEF IsDue
<1>7. due' = <<>> => OnlyMarks'
  BY DEF OnlyMarks
<1>8. StoppedAbove'
  BY <1>2, <1>3, <1>4, <1>7 DEF IInv, StoppedAbove, Callbacks
<1>9. Asked'
  BY <1>2 DEF Asked
<1>10. WillBeTold'
  BY <1>2, <1>3, <1>5, <1>6 DEF IInv, WillBeTold, Callbacks
<1> QED
  BY <1>8, <1>9, <1>10 DEF IInv

LEMMA CompleteSteps == ASSUME IInv, TypeOK', OnWriteComplete PROVE IInv'
<1>1. due \in Seq(Callbacks) /\ due # <<>> /\ Head(due) = "complete" /\ due' = Tail(due)
  BY DEF IInv, TypeOK, OnWriteComplete
<1>2. output' = output /\ installed' = installed /\ reading' = TRUE
  BY DEF OnWriteComplete, StartRead
<1>3. EndsWith("mark") => EndsWith("mark")'
  BY <1>1, TailFacts DEF EndsWith
<1>4. IsDue("complete") /\ ~ OnlyMarks
  BY <1>1, TailFacts DEF IsDue, OnlyMarks
<1>5. IsDue("mark")' => IsDue("mark") /\ (EndsWith("complete") => EndsWith("complete")')
  BY <1>1, TailFacts DEF IsDue, EndsWith
<1>6. StoppedAbove'
  BY <1>2, <1>3, <1>4 DEF IInv, StoppedAbove
<1>7. Asked'
  BY <1>2, <1>4 DEF IInv, Asked
<1>8. WillBeTold'
  BY <1>2, <1>4, <1>5 DEF IInv, WillBeTold
<1> QED
  BY <1>6, <1>7, <1>8 DEF IInv
----------------------------------------------------------------------------
(* Types: each action on its own. *)
LEMMA TypesArePreserved == ASSUME TypeOK, [Next]_vars PROVE TypeOK'
<1>1. /\ unread \in Nat /\ input \in Nat /\ pool \in Nat /\ output \in Nat
      /\ unread + input + pool <= Requests /\ Requests \in Nat
      /\ due \in Seq(Callbacks)
  BY BackpressureAssumption DEF TypeOK
<1>2. reading \in BOOLEAN /\ installed \in BOOLEAN /\ resumed \in BOOLEAN
  BY Zenon DEF TypeOK
<1> DEFINE Numbers == /\ unread \in Nat /\ input \in Nat /\ pool \in Nat /\ output \in Nat
                      /\ unread + input + pool <= Requests
           Flags   == reading \in BOOLEAN /\ installed \in BOOLEAN /\ resumed \in BOOLEAN
<1>3. ASSUME Numbers', Flags', (due \in Seq(Callbacks))' PROVE TypeOK'
  BY <1>3, Zenon DEF TypeOK
<1>4. Effect => due' \in Seq(Callbacks)
  BY <1>1, AppendFacts DEF Effect, Callbacks
<1>5. CASE Read
  <2>1. Numbers' /\ due' = due
    BY <1>1, <1>5 DEF Read
  <2>2. Flags'
    BY <1>2, <1>5, Zenon DEF Read
  <2> QED
    BY <1>1, <1>3, <2>1, <2>2
<1>6. CASE HandleNow
  <2>1. Effect /\ output' \in Nat
    BY <1>6, SendingHasEffect DEF HandleNow
  <2>2. Numbers'
    BY <1>1, <1>6, <2>1 DEF HandleNow
  <2>3. Flags'
    BY <1>2, <1>6, Zenon DEF HandleNow
  <2> QED
    BY <1>3, <1>4, <2>1, <2>2, <2>3
<1>7. CASE HandleLater
  <2>1. Numbers' /\ due' = due
    BY <1>1, <1>7 DEF HandleLater
  <2>2. Flags'
    BY <1>2, <1>7, Zenon DEF HandleLater
  <2> QED
    BY <1>1, <1>3, <2>1, <2>2
<1>8. CASE PoolAnswers
  <2>1. Effect /\ output' \in Nat
    BY <1>8, SendingHasEffect DEF PoolAnswers
  <2>2. Numbers'
    BY <1>1, <1>8, <2>1 DEF PoolAnswers
  <2>3. Flags'
    BY <1>2, <1>8, Zenon DEF PoolAnswers
  <2> QED
    BY <1>3, <1>4, <2>1, <2>2, <2>3
<1>9. CASE Drain
  <2>1. Effect /\ output' \in Nat
    BY <1>9, DrainingHasEffect
  <2>2. Numbers'
    BY <1>1, <1>9, <2>1 DEF Drain
  <2>3. Flags'
    BY <1>2, <1>9, Zenon DEF Drain
  <2> QED
    BY <1>3, <1>4, <2>1, <2>2, <2>3
<1>10. CASE Invoke
  <2>1. Numbers' /\ due' \in Seq(Callbacks)
    BY <1>1, <1>10, TailFacts DEF Invoke, OnHighWaterMark, OnWriteComplete
  <2>2. Flags'
    BY <1>2, <1>10, Zenon DEF Invoke, OnHighWaterMark, OnWriteComplete, StopRead, StartRead
  <2> QED
    BY <1>3, <2>1, <2>2
<1>11. CASE UNCHANGED vars
  <2>1. Numbers' /\ due' = due
    BY <1>1, <1>11 DEF vars
  <2>2. Flags'
    BY <1>2, <1>11, Zenon DEF vars
  <2> QED
    BY <1>1, <1>3, <2>1, <2>2
<1> QED
  BY <1>5, <1>6, <1>7, <1>8, <1>9, <1>10, <1>11 DEF Next, Handle

LEMMA InvariantIsInductive == IInv /\ [Next]_vars => IInv'
<1> SUFFICES ASSUME IInv, [Next]_vars PROVE IInv'
  OBVIOUS
<1>1. TypeOK /\ TypeOK'
  BY TypesArePreserved DEF IInv
<1>2. CASE Read \/ HandleLater \/ UNCHANGED vars
  BY <1>1, <1>2, QuietSteps DEF Read, HandleLater, vars
<1>3. CASE HandleNow \/ PoolAnswers
  BY <1>1, <1>3, SendingHasEffect, BufferSteps DEF HandleNow, PoolAnswers
<1>4. CASE Drain
  BY <1>1, <1>4, DrainingHasEffect, BufferSteps DEF Drain
<1>5. CASE Invoke
  BY <1>1, <1>5, MarkSteps, CompleteSteps DEF Invoke
<1> QED
  BY <1>2, <1>3, <1>4, <1>5 DEF Next, Handle

LEMMA InvariantHolds == Spec => []IInv
  BY InitialInvariant, InvariantIsInductive, PTL DEF Spec

(* Every reachable state is well typed, and no request is in two places.   *)
THEOREM TypeCorrect == Spec => []TypeOK
<1>1. IInv => TypeOK
  BY DEF IInv
<1> QED
  BY <1>1, InvariantHolds, PTL

(* Above the high water mark the server reads only while the callback that *)
(* stops it is still owed, whatever earlier callbacks run in between.      *)
THEOREM NothingIsReadAboveTheMark == Spec => []AboveTheMarkNothingIsRead
<1>1. IInv => AboveTheMarkNothingIsRead
  <2> SUFFICES ASSUME IInv, output >= Mark, reading PROVE MarkIsDue
    BY DEF AboveTheMarkNothingIsRead
  <2>1. EndsWith("mark") /\ due \in Seq(Callbacks)
    BY DEF IInv, StoppedAbove, TypeOK
  <2> QED
    BY <2>1, TailFacts DEF EndsWith, MarkIsDue
<1> QED
  BY <1>1, InvariantHolds, PTL

(* Once onWriteComplete has run, no connection stays stopped with nothing  *)
(* to write and nobody to start it.                                        *)
THEOREM ForgottenBeforeItResumed == Spec => []ForgottenOnlyTheFirstTime
<1>1. IInv => ForgottenOnlyTheFirstTime
  <2> SUFFICES ASSUME IInv, Forgotten, resumed PROVE FALSE
    BY DEF ForgottenOnlyTheFirstTime
  <2>1. reading = FALSE /\ output = 0 /\ due = <<>>
    BY Zenon DEF IInv, TypeOK, Forgotten
  <2>2. resumed = TRUE
    BY Zenon DEF IInv, TypeOK
  <2> QED
    BY <2>1, <2>2 DEF IInv, WillBeTold, EndsWith
<1> QED
  BY <1>1, InvariantHolds, PTL
================================================================================
