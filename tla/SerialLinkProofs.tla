-------------------------- MODULE SerialLinkProofs --------------------------
(***************************************************************************)
(* Theorems about SerialLink for every list of requests, every set of      *)
(* gated requests and of matriculated sections, and every bound of the     *)
(* line.                                                                   *)
(***************************************************************************)
EXTENDS SerialLink, TLAPS

USE RequestsAssumption, GatedAssumption, MatriculatedAssumption,
    MaxLineAssumption, LateRepliesAssumption, MisnamesAssumption

(* The states of the transmission task.                                    *)
PcType == {"wait", "request", "receive", "parse", "build", "delay", "noField", "noTimestamp"}

-----------------------------------------------------------------------------
(* A request of the list is a sensor.                                      *)
LEMMA RequestIsSensor ==
  ASSUME NEW i \in 1..Len(Requests)
  PROVE  /\ Requests[i] \in Allocating /\ Requests[i] \in Sensor
         /\ Requests[i] \in Name
BY DEF Allocating, Sensor, Name

(* Moving on from a request keeps the step within the list.                *)
LEMMA GoToType ==
  ASSUME NEW i \in Nat \ {0}, GoTo(i), step \in 1..Len(Requests)
  PROVE  step' \in 1..Len(Requests) /\ pc' \in {"wait", "request", "build"}
BY DEF GoTo, Entrance

(* Ageing a stored value or an entry leaves it one.                        *)
LEMMA AgedType ==
  /\ \A v \in Stored : Aged(v) \in Stored
  /\ \A v \in Entry : Aged(v) \in Entry
BY DEF Aged, Stored, Entry, Age

(* What the tasks start with is well typed.                                *)
LEMMA ColdType ==
  /\ Len(Requests) \in Nat \ {0} /\ 1 \in 1..Len(Requests)
  /\ Entrance(1) \in PcType
  /\ NoFlags \in [Section -> BOOLEAN]
  /\ UnusedBuffer \in Buffer
  /\ NothingKept \in [Section -> Stored]
  /\ EmptyFrame \in [Matriculated -> Entry]
<1>1. Len(Requests) \in Nat \ {0} /\ 1 \in 1..Len(Requests)
  OBVIOUS
<1>2. Entrance(1) \in PcType
  BY DEF Entrance, PcType
<1>3. NoFlags \in [Section -> BOOLEAN]
  BY DEF NoFlags
<1>4. UnusedBuffer \in Buffer
  BY <1>1, RequestIsSensor DEF UnusedBuffer, Buffer, Parsed, Age, Form
<1>5. NothingKept \in [Section -> Stored]
  BY DEF NothingKept, Stored
<1>6. EmptyFrame \in [Matriculated -> Entry]
  BY DEF EmptyFrame, Entry
<1> QED
  BY <1>1, <1>2, <1>3, <1>4, <1>5, <1>6

(* The initial state is well typed.                                        *)
LEMMA InitType == Init => TypeOK
<1> SUFFICES ASSUME Init PROVE TypeOK
  OBVIOUS
<1>1. line \in Seq(Answer) /\ Len(line) <= MaxLine
  BY DEF Init
<1> QED
  BY <1>1, ColdType DEF Init, TypeOK, PcType

(* Every step of every action keeps the types.                             *)
LEMMA StepType == TypeOK /\ [Next]_vars => TypeOK'
<1> SUFFICES ASSUME TypeOK, [Next]_vars PROVE TypeOK'
  OBVIOUS
<1> USE DEF TypeOK, txVars, rxVars
<1>0. Len(Requests) \in Nat \ {0} /\ Requests[1] \in Name /\ Requested \in Name
  BY RequestIsSensor DEF Requested
<1>1. CASE TxWait
  BY <1>1 DEF TxWait
<1>2. CASE TxRequest
  <2>1. line' \in Seq(Answer) /\ Len(line') <= MaxLine
    <3>1. CASE UNCHANGED line
      BY <3>1
    <3>2. ASSUME NEW m \in {Requested} \cup Misnames, NEW f \in Form, Len(line) < MaxLine,
                 line' = Append(line, [mod |-> m, form |-> f, age |-> "now"])
          PROVE  line' \in Seq(Answer) /\ Len(line') <= MaxLine
      <4>1. [mod |-> m, form |-> f, age |-> "now"] \in Answer
        BY <1>0 DEF Answer, Age
      <4> HIDE DEF TypeOK
      <4>2. line \in Seq(Answer)
        BY DEF TypeOK
      <4> QED
        BY <3>2, <4>1, <4>2
    <3> QED
      BY <1>2, <3>1, <3>2 DEF TxRequest
  <2> QED
    BY <1>2, <2>1 DEF TxRequest
<1>3. CASE TxReceive
  BY <1>3 DEF TxReceive
<1>4. CASE TxTimeout
  <2>1. step' \in 1..Len(Requests) /\ pc' \in {"wait", "request", "build"}
    BY <1>4, GoToType DEF TxTimeout
  <2>2. verificador' \in [Section -> BOOLEAN]
    BY <1>4 DEF TxTimeout
  <2> QED
    BY <1>4, <2>1, <2>2 DEF TxTimeout
<1>5. CASE TxParse
  <2>1. step' \in 1..Len(Requests) /\ pc' \in {"wait", "request", "build"}
    BY <1>5, GoToType DEF TxParse
  <2>2. verificador' \in [Section -> BOOLEAN]
    BY <1>5 DEF TxParse, Flags
  <2>3. \A m \in Name, v \in Stored : Allocated(m, v) \in [Section -> Stored]
    BY DEF Allocated, Stored
  <2>4. sample' \in [Section -> Stored]
    <3>1. buffer.answer.mod \in Name /\ buffer.answer.age \in Stored
      BY DEF Buffer, Parsed, Stored
    <3>2. "mixed" \in Stored
      BY DEF Stored
    <3> HIDE DEF TypeOK
    <3>6. sample \in [Section -> Stored]
      BY DEF TypeOK
    <3>3. CASE sample' = Allocated(buffer.answer.mod, buffer.answer.age)
      BY <2>3, <3>1, <3>3
    <3>4. CASE UNCHANGED sample
      BY <3>4, <3>6
    <3>5. CASE \E m \in {Requests[i] : i \in 1..Len(Requests)} \cup Misnames :
                 sample' = Allocated(m, "mixed")
      BY <2>3, <3>2, <3>5, RequestIsSensor
    <3> QED
      BY <1>5, <3>3, <3>4, <3>5 DEF TxParse
  <2> QED
    BY <1>5, <2>1, <2>2, <2>4 DEF TxParse
<1>16. CASE TxParseCrash
  BY <1>16 DEF TxParseCrash
<1>6. CASE TxBuild
  <2>1. \A s \in Matriculated : EntryOf(s) \in Entry
    BY DEF EntryOf, Entry
  <2> QED
    BY <1>6, <2>1 DEF TxBuild
<1>7. CASE TxCrash
  BY <1>7 DEF TxCrash
<1>8. CASE TxNewCycle
  <2>1. step' \in 1..Len(Requests) /\ pc' \in {"wait", "request", "build"}
    BY <1>8, GoToType DEF TxNewCycle
  <2>2. line' \in Seq(Answer) /\ Len(line') = Len(line)
    <3>1. \A i \in 1..Len(line) : [line[i] EXCEPT !.age = "old"] \in Answer
      <4> SUFFICES ASSUME NEW i \in 1..Len(line)
                   PROVE  [line[i] EXCEPT !.age = "old"] \in Answer
        OBVIOUS
      <4>1. line[i] \in Answer
        OBVIOUS
      <4> HIDE DEF TypeOK
      <4> QED
        BY <4>1 DEF Answer, Age
    <3> QED
      BY <1>8, <3>1 DEF TxNewCycle
  <2>3. buffer' \in Buffer
    <3>1. Aged(buffer.answer.age) \in Age \cup {"mixed"}
      BY DEF Buffer, Parsed, Aged, Age
    <3>2. buffer' = [buffer EXCEPT !.answer.age = Aged(buffer.answer.age)]
      BY <1>8 DEF TxNewCycle
    <3> HIDE DEF TypeOK
    <3>3. buffer \in Buffer
      BY DEF TypeOK
    <3> QED
      BY <3>1, <3>2, <3>3 DEF Buffer, Parsed
  <2>4. sample' \in [Section -> Stored] /\ frame' \in [Matriculated -> Entry]
    BY <1>8, AgedType DEF TxNewCycle
  <2> QED
    BY <1>8, <2>1, <2>2, <2>3, <2>4 DEF TxNewCycle, NoFlags
<1>9. CASE Reboot
  <2>1. line' \in Seq(Answer) /\ Len(line') <= MaxLine
    <3>1. line' = <<>> \/ line' = line
      BY <1>9 DEF Reboot
    <3>2. <<>> \in Seq(Answer) /\ Len(<<>>) = 0 /\ 0 <= MaxLine
      OBVIOUS
    <3> QED
      BY <3>1, <3>2
  <2> QED
    BY <1>9, <2>1, ColdType DEF Reboot, PcType
<1>10. CASE RxFill
  <2>1. Head(line) \in Answer /\ Tail(line) \in Seq(Answer) /\ Len(Tail(line)) <= MaxLine
    BY <1>10 DEF RxFill
  <2>2. buffer' \in Buffer
    BY <1>10, <2>1 DEF RxFill, Buffer, Parsed, Answer
  <2> QED
    BY <1>10, <2>1, <2>2 DEF RxFill
<1>11. CASE RxMore
  <2>1. Head(line) \in Answer /\ Tail(line) \in Seq(Answer) /\ Len(Tail(line)) <= MaxLine
    BY <1>11 DEF RxMore
  <2>2. buffer' \in Buffer
    <3>1. CASE UNCHANGED buffer
      BY <3>1
    <3>2. ASSUME NEW f \in Form,
                 buffer' = [buffer EXCEPT !.answer =
                              [mod |-> Head(line).mod, form |-> f, age |-> "mixed"]]
          PROVE  buffer' \in Buffer
      <4>1. Head(line).mod \in Name
        BY <2>1 DEF Answer
      <4>2. [mod |-> Head(line).mod, form |-> f, age |-> "mixed"] \in Parsed
        BY <4>1 DEF Parsed
      <4> HIDE DEF TypeOK
      <4>3. buffer \in Buffer
        BY DEF TypeOK
      <4> QED
        BY <3>2, <4>2, <4>3 DEF Buffer
    <3> QED
      BY <1>11, <3>1, <3>2 DEF RxMore
  <2> QED
    BY <1>11, <2>1, <2>2 DEF RxMore
<1>12. CASE RxDone
  BY <1>12 DEF RxDone, Buffer
<1>13. CASE RxSend
  BY <1>13 DEF RxSend
<1>14. CASE RxDrop
  BY <1>14 DEF RxDrop
<1>15. CASE UNCHANGED vars
  BY <1>15 DEF vars
<1> QED
  BY <1>1, <1>2, <1>3, <1>4, <1>5, <1>6, <1>7, <1>8, <1>9, <1>10, <1>11, <1>12,
     <1>13, <1>14, <1>15, <1>16 DEF Next, Tx, Rx

(* Every reachable state is well typed, late answers or not.               *)
THEOREM TypeCorrect == Spec => []TypeOK
BY InitType, StepType, PTL DEF Spec

-----------------------------------------------------------------------------
(* When answers are not late, one exchange at a time: an answer, of this   *)
(* cycle and of the module asked for unless texts can name another, exists *)
(* only while the transmission task waits for it, and is in one place.     *)
Asked(a)  == (Misnames = {} => a.mod = Requested) /\ a.age = "now"
Nothing   == line = <<>> /\ rx = "reading" /\ ~queued
OnLine    == /\ pc = "receive" /\ rx = "reading" /\ ~queued
             /\ \E a \in Answer : line = <<a>> /\ Asked(a)
BeingRead == /\ pc = "receive" /\ rx \in {"filling", "sending"} /\ ~queued
             /\ line = <<>> /\ Asked(buffer.answer)
Delivered == /\ pc = "receive" /\ rx = "reading" /\ queued
             /\ line = <<>> /\ Asked(buffer.answer)

OneExchange  == Nothing \/ OnLine \/ BeingRead \/ Delivered
ParsesAnswer == pc = "parse" => Asked(buffer.answer)
Terminated   == rx # "filling" => buffer.whole

Exchange == OneExchange /\ ParsesAnswer /\ Terminated

LEMMA InitExchange == Init => Exchange
BY DEF Init, Exchange, OneExchange, Nothing, ParsesAnswer, Terminated, Entrance,
   UnusedBuffer

(* No step breaks the exchange: this is where the assumption that answers  *)
(* are not late is used, in the time-out.                                  *)
LEMMA StepExchange ==
  ~LateReplies /\ TypeOK /\ Exchange /\ [Next]_vars => Exchange'
<1> SUFFICES ASSUME ~LateReplies, TypeOK, Exchange, [Next]_vars PROVE Exchange'
  OBVIOUS
<1> USE DEF Exchange, OneExchange, ParsesAnswer, Terminated, Nothing, Asked, Requested,
            txVars, rxVars
<1>0. pc \in PcType /\ line \in Seq(Answer) /\ queued \in BOOLEAN
  BY DEF TypeOK, PcType
<1>1. CASE TxWait
  BY <1>1 DEF TxWait, OnLine, BeingRead, Delivered
<1>2. CASE TxRequest
  <2>1. Nothing
    BY <1>2 DEF TxRequest, OnLine, BeingRead, Delivered
  <2>2. CASE UNCHANGED line
    BY <1>2, <2>1, <2>2 DEF TxRequest
  <2>3. ASSUME NEW m \in {Requested} \cup Misnames, NEW f \in Form,
               line' = Append(line, [mod |-> m, form |-> f, age |-> "now"])
        PROVE  OnLine'
    <3> DEFINE a == [mod |-> m, form |-> f, age |-> "now"]
    <3>1. a \in Answer
      BY RequestIsSensor DEF TypeOK, Answer, Age
    <3>2. line' = <<a>>
      BY <2>1, <2>3
    <3> QED
      BY <1>2, <2>1, <3>1, <3>2 DEF TxRequest, OnLine
  <2> QED
    BY <1>2, <2>1, <2>2, <2>3 DEF TxRequest
<1>3. CASE TxReceive
  BY <1>3 DEF TxReceive, OnLine, BeingRead, Delivered
<1>4. CASE TxTimeout
  <2>1. Nothing
    BY <1>4 DEF TxTimeout
  <2>2. pc' \in {"wait", "request", "build"}
    BY <1>4, GoToType DEF TxTimeout, TypeOK
  <2> QED
    BY <1>4, <2>1, <2>2 DEF TxTimeout
<1>5. CASE TxParse
  <2>1. Nothing
    BY <1>5 DEF TxParse, OnLine, BeingRead, Delivered
  <2>2. pc' \in {"wait", "request", "build"}
    BY <1>5, GoToType DEF TxParse, TypeOK
  <2> QED
    BY <1>5, <2>1, <2>2 DEF TxParse
<1>16. CASE TxParseCrash
  BY <1>16 DEF TxParseCrash, OnLine, BeingRead, Delivered
<1>6. CASE TxBuild
  BY <1>6 DEF TxBuild, OnLine, BeingRead, Delivered
<1>7. CASE TxCrash
  BY <1>7 DEF TxCrash, OnLine, BeingRead, Delivered
<1>8. CASE TxNewCycle
  <2>1. Nothing
    BY <1>8 DEF TxNewCycle, OnLine, BeingRead, Delivered
  <2>2. pc' \in {"wait", "request", "build"}
    BY <1>8, GoToType DEF TxNewCycle, TypeOK
  <2>3. line' = <<>>
    BY <1>8, <2>1 DEF TxNewCycle
  <2>4. buffer'.whole = buffer.whole
    BY <1>8 DEF TxNewCycle, TypeOK, Buffer
  <2> QED
    BY <1>8, <2>1, <2>2, <2>3, <2>4 DEF TxNewCycle
<1>9. CASE Reboot
  <2>1. Nothing
    BY <1>9 DEF Reboot, OnLine, BeingRead, Delivered
  <2> QED
    BY <1>9, <2>1 DEF Reboot, Entrance, UnusedBuffer
<1>10. CASE RxFill
  <2>1. OnLine
    BY <1>10 DEF RxFill, BeingRead, Delivered
  <2>2. PICK a \in Answer : line = <<a>> /\ Asked(a)
    BY <2>1 DEF OnLine
  <2>3. Head(line) = a /\ Tail(line) = <<>>
    BY <2>2
  <2> QED
    BY <1>10, <2>1, <2>2, <2>3 DEF RxFill, OnLine, BeingRead
<1>11. CASE RxMore
  BY <1>11 DEF RxMore, OnLine, BeingRead, Delivered
<1>12. CASE RxDone
  <2>1. BeingRead
    BY <1>12 DEF RxDone, OnLine, Delivered
  <2>2. buffer'.answer = buffer.answer /\ buffer'.whole
    BY <1>12 DEF RxDone, TypeOK, Buffer
  <2> QED
    BY <1>12, <2>1, <2>2 DEF RxDone, BeingRead
<1>13. CASE RxSend
  BY <1>13 DEF RxSend, OnLine, BeingRead, Delivered
<1>14. CASE RxDrop
  BY <1>14 DEF RxDrop, OnLine, BeingRead, Delivered
<1>15. CASE UNCHANGED vars
  BY <1>15 DEF vars, OnLine, BeingRead, Delivered
<1> QED
  BY <1>1, <1>2, <1>3, <1>4, <1>5, <1>6, <1>7, <1>8, <1>9, <1>10, <1>11, <1>12,
     <1>13, <1>14, <1>15, <1>16 DEF Next, Tx, Rx

(* When answers are not late, no request is written while an earlier one   *)
(* is being answered, whatever the list of requests.                       *)
THEOREM NeverSaturated == ASSUME ~LateReplies PROVE Spec => []ChannelNotSaturated
<1>1. TypeOK /\ Exchange => ChannelNotSaturated
  <2> SUFFICES ASSUME TypeOK, Exchange PROVE ChannelNotSaturated
    OBVIOUS
  <2>1. CASE Nothing
    BY <2>1 DEF Nothing, ChannelNotSaturated, Outstanding
  <2>2. CASE OnLine
    <3>1. Len(line) = 1
      BY <2>2 DEF OnLine
    <3> QED
      BY <2>2, <3>1 DEF OnLine, ChannelNotSaturated, Outstanding
  <2>3. CASE BeingRead
    BY <2>3 DEF BeingRead, ChannelNotSaturated, Outstanding
  <2>4. CASE Delivered
    BY <2>4 DEF Delivered, ChannelNotSaturated, Outstanding
  <2> QED
    BY <2>1, <2>2, <2>3, <2>4 DEF Exchange, OneExchange
<1> QED
  BY <1>1, InitType, StepType, InitExchange, StepExchange, PTL DEF Spec

(* When the STM32 keeps to the protocol, the pointer that crosses the      *)
(* queue always leads to the complete answer that is waited for.           *)
THEOREM AlwaysParsedWhole == ASSUME Orderly PROVE Spec => []ParsedWhole
<1>1. TypeOK /\ Exchange => ParsedWhole
  BY DEF Orderly, TypeOK, Exchange, OneExchange, Nothing, OnLine, BeingRead, Delivered,
         ParsesAnswer, Terminated, ParsedWhole, Asked
<1> QED
  BY <1>1, InitType, StepType, InitExchange, StepExchange, PTL DEF Spec, Orderly

(* When answers are not late, the slot of the queue is free whenever the   *)
(* reception task comes to send, so that it never gives up an answer.      *)
THEOREM NothingDropped == ASSUME ~LateReplies PROVE Spec => []NoAnswerDropped
<1>1. Exchange => NoAnswerDropped
  BY DEF Exchange, OneExchange, Nothing, OnLine, BeingRead, Delivered, NoAnswerDropped
<1> QED
  BY <1>1, InitType, StepType, InitExchange, StepExchange, PTL DEF Spec

-----------------------------------------------------------------------------
(* What parse_data stores goes by the module that the text names, or that  *)
(* a mixture of two texts names.                                           *)
LEMMA WhatIsStored ==
  ASSUME TypeOK, TxParse
  PROVE  \/ UNCHANGED sample
         \/ \E m \in Name, v \in Stored : sample' = Allocated(m, v)
<1>1. buffer.answer.mod \in Name /\ buffer.answer.age \in Stored
  BY DEF TypeOK, Buffer, Parsed, Stored
<1>2. "mixed" \in Stored
  BY DEF Stored
<1> QED
  BY <1>1, <1>2, RequestIsSensor DEF TxParse

(* The GPS is empty or holds the fixed position, and it is empty only if   *)
(* nothing has been stored; a crash happens at an empty one.               *)
Cold ==
  /\ sample["gps"] \in {"none", "constant"}
  /\ sample["gps"] = "none" => sample = NothingKept
  /\ pc = "noTimestamp" => sample["gps"] = "none"

LEMMA StepCold == TypeOK /\ Cold /\ [Next]_vars => Cold'
<1> SUFFICES ASSUME TypeOK, Cold, [Next]_vars PROVE Cold'
  OBVIOUS
<1> USE DEF Cold, txVars, rxVars
<1>0. sample \in [Section -> Stored] /\ "gps" \in Section
  BY DEF TypeOK, Section
<1>1. CASE TxWait
  BY <1>1 DEF TxWait
<1>2. CASE TxRequest
  BY <1>2 DEF TxRequest
<1>3. CASE TxReceive
  BY <1>3 DEF TxReceive
<1>4. CASE TxTimeout
  <2>1. pc' \in {"wait", "request", "build"}
    BY <1>4, GoToType DEF TxTimeout, TypeOK
  <2> QED
    BY <1>4, <2>1 DEF TxTimeout
<1>5. CASE TxParse
  <2>1. pc' \in {"wait", "request", "build"}
    BY <1>5, GoToType DEF TxParse, TypeOK
  <2>2. ASSUME NEW m \in Name, NEW v \in Stored, sample' = Allocated(m, v)
        PROVE  sample'["gps"] = "constant"
    BY <1>0, <2>2 DEF Allocated
  <2> QED
    BY <1>5, <2>1, <2>2, WhatIsStored
<1>12. CASE TxParseCrash
  BY <1>12 DEF TxParseCrash
<1>6. CASE TxBuild
  BY <1>6 DEF TxBuild
<1>7. CASE TxCrash
  BY <1>7 DEF TxCrash, NullTimestamp
<1>8. CASE TxNewCycle
  <2>1. pc' \in {"wait", "request", "build"}
    BY <1>8, GoToType DEF TxNewCycle, TypeOK
  <2>2. sample'["gps"] = sample["gps"]
    BY <1>0, <1>8 DEF TxNewCycle, Aged
  <2>3. sample = NothingKept => sample' = NothingKept
    BY <1>8 DEF TxNewCycle, Aged, NothingKept
  <2> QED
    BY <2>1, <2>2, <2>3
<1>9. CASE Reboot
  BY <1>9, <1>0 DEF Reboot, NothingKept, Entrance
<1>10. CASE Rx
  BY <1>10 DEF Rx, RxFill, RxMore, RxDone, RxSend, RxDrop
<1>11. CASE UNCHANGED vars
  BY <1>11 DEF vars
<1> QED
  BY <1>1, <1>2, <1>3, <1>4, <1>5, <1>6, <1>7, <1>8, <1>9, <1>10, <1>11, <1>12
  DEF Next, Tx

(* The board resets at the null timestamp only while nothing has been      *)
(* stored since the boot, late answers or not.                             *)
THEOREM ColdCrash == Spec => []CrashOnlyCold
<1>1. Init => Cold
  BY DEF Init, Cold, NothingKept, Section, Entrance
<1>2. Cold => CrashOnlyCold
  BY DEF Cold, CrashOnlyCold
<1> QED
  BY <1>1, <1>2, InitType, StepType, StepCold, PTL DEF Spec

-----------------------------------------------------------------------------
(* When the STM32 keeps to the protocol, the flags tell the truth: the     *)
(* text that raises a flag is the answer of that module (Exchange), and it *)
(* is stored under the module it names, one of those that are stored.      *)
LEMMA StepFlags ==
  Orderly /\ TypeOK /\ Exchange /\ FlagsTruthful /\ [Next]_vars => FlagsTruthful'
<1> SUFFICES ASSUME Orderly, TypeOK, Exchange, FlagsTruthful, [Next]_vars,
                    NEW s \in Sensor, verificador'[s]
             PROVE  sample'[s] = "now"
  BY DEF FlagsTruthful
<1> USE DEF txVars, rxVars
<1>0. /\ sample \in [Section -> Stored] /\ verificador \in [Section -> BOOLEAN]
      /\ s \in Section /\ s # "gps"
      /\ verificador[s] => sample[s] = "now"
      /\ Requested \in Sensor /\ Requested \in Allocating
  BY RequestIsSensor DEF TypeOK, Sensor, FlagsTruthful, Requested
<1>1. CASE TxWait
  BY <1>1, <1>0 DEF TxWait
<1>2. CASE TxRequest
  BY <1>2, <1>0 DEF TxRequest
<1>3. CASE TxReceive
  BY <1>3, <1>0 DEF TxReceive
<1>4. CASE TxTimeout
  BY <1>4, <1>0 DEF TxTimeout
<1>5. CASE TxParse
  <2>1. buffer.whole /\ Asked(buffer.answer) /\ Misnames = {}
    BY <1>5 DEF Orderly, TxParse, Exchange, OneExchange, Nothing, OnLine, BeingRead, Delivered,
         ParsesAnswer, Terminated
  <2>2. CASE /\ buffer.answer.form = "good"
             /\ verificador' = Flags(TRUE)
             /\ sample' = Allocated(buffer.answer.mod, buffer.answer.age)
    BY <2>1, <2>2, <1>0 DEF Asked, Flags, Allocated
  <2>3. CASE verificador' = Flags(FALSE) /\ UNCHANGED sample
    BY <2>3, <1>0 DEF Flags
  <2> QED
    BY <1>5, <2>1, <2>2, <2>3 DEF TxParse
<1>12. CASE TxParseCrash
  BY <1>12, <1>0 DEF TxParseCrash
<1>6. CASE TxBuild
  BY <1>6, <1>0 DEF TxBuild
<1>7. CASE TxCrash
  BY <1>7, <1>0 DEF TxCrash
<1>8. CASE TxNewCycle
  BY <1>8, <1>0 DEF TxNewCycle, NoFlags
<1>9. CASE Reboot
  BY <1>9, <1>0 DEF Reboot, NoFlags
<1>10. CASE Rx
  BY <1>10, <1>0 DEF Rx, RxFill, RxMore, RxDone, RxSend, RxDrop
<1>11. CASE UNCHANGED vars
  BY <1>11, <1>0 DEF vars
<1> QED
  BY <1>1, <1>2, <1>3, <1>4, <1>5, <1>6, <1>7, <1>8, <1>9, <1>10, <1>11, <1>12
  DEF Next, Tx

LEMMA InitFlags == Init => FlagsTruthful
BY DEF Init, FlagsTruthful, NoFlags, Sensor

(* A module whose flag is up has answered in this cycle and its answer is  *)
(* what the vectors hold, if the STM32 keeps to the protocol.              *)
THEOREM FlagsTellTheTruth == ASSUME Orderly PROVE Spec => []FlagsTruthful
BY InitType, StepType, InitExchange, StepExchange, InitFlags, StepFlags, PTL DEF Spec, Orderly

-----------------------------------------------------------------------------
(* When the flags tell the truth, a frame shows the values of one cycle.   *)
LEMMA StepFrame ==
  /\ TypeOK /\ FlagsTruthful /\ Cold /\ FrameOfOneCycle /\ [Next]_vars
  => FrameOfOneCycle'
<1> SUFFICES ASSUME TypeOK, FlagsTruthful, Cold, FrameOfOneCycle, [Next]_vars,
                    NEW s \in Matriculated, NEW t \in Matriculated,
                    frame'[s] = "now", frame'[t] \in {"old", "none", "mixed"}
             PROVE  FALSE
  BY DEF FrameOfOneCycle
<1> USE DEF txVars, rxVars
<1>1. CASE TxBuild
  <2>1. CASE UNCHANGED frame
    BY <2>1 DEF FrameOfOneCycle
  <2>2. CASE frame' = [u \in Matriculated |-> EntryOf(u)]
    <3>1. verificador[t] /\ frame'[t] = sample[t]
      BY <2>2 DEF EntryOf
    <3>2. CASE t = "gps"
      BY <1>1, <3>1, <3>2 DEF TxBuild, NullTimestamp, Cold
    <3>3. CASE t # "gps"
      BY <3>1, <3>3 DEF FlagsTruthful, Sensor
    <3> QED
      BY <3>2, <3>3
  <2> QED
    BY <1>1, <2>1, <2>2 DEF TxBuild
<1>2. CASE TxNewCycle
  BY <1>2 DEF TxNewCycle, Aged
<1>3. CASE Reboot
  BY <1>3 DEF Reboot, EmptyFrame
<1>4. CASE UNCHANGED frame
  BY <1>4 DEF FrameOfOneCycle
<1>5. TxBuild \/ TxNewCycle \/ Reboot \/ UNCHANGED frame
  BY DEF Next, Tx, Rx, TxWait, TxRequest, TxReceive, TxTimeout, TxParse, TxParseCrash,
         TxCrash,
         RxFill, RxMore, RxDone, RxSend, RxDrop, vars
<1> QED
  BY <1>1, <1>2, <1>3, <1>4, <1>5

(* The frame never mixes the values of two cycles, if the STM32 keeps to   *)
(* the protocol.                                                           *)
THEOREM OneCyclePerFrame == ASSUME Orderly PROVE Spec => []FrameOfOneCycle
<1>1. Init => Cold /\ FrameOfOneCycle
  BY DEF Init, Cold, NothingKept, Section, Entrance, FrameOfOneCycle, EmptyFrame
<1> QED
  BY <1>1, InitType, StepType, InitExchange, StepExchange, InitFlags, StepFlags,
     StepCold, StepFrame, PTL DEF Spec, Orderly

-----------------------------------------------------------------------------
(* The refinement.  The modules still to be asked in this cycle are not    *)
(* marked, so that handling a request only ever adds a mark.               *)
Pending ==
  pc \in {"wait", "request", "receive", "parse"} =>
    \A i \in step..Len(Requests) : ~verificador[Requests[i]]

LEMMA StepPending == TypeOK /\ Pending /\ [Next]_vars => Pending'
<1> SUFFICES ASSUME TypeOK, Pending, [Next]_vars,
                    pc' \in {"wait", "request", "receive", "parse"},
                    NEW i \in step'..Len(Requests)
             PROVE  ~verificador'[Requests[i]]
  BY DEF Pending
<1> USE DEF txVars, rxVars
<1>0. /\ step \in 1..Len(Requests) /\ step' \in 1..Len(Requests)
      /\ i \in 1..Len(Requests) /\ Requests[i] \in Section /\ Requests[i] # "gps"
      /\ verificador \in [Section -> BOOLEAN]
  <2>1. step' \in 1..Len(Requests)
    BY StepType DEF TypeOK
  <2>2. i \in 1..Len(Requests)
    BY <2>1
  <2> QED
    BY <2>1, <2>2, RequestIsSensor DEF TypeOK, Sensor
<1>1. CASE TxTimeout \/ TxParse
  <2>1. step' = step + 1 /\ i \in step..Len(Requests) /\ i # step
    <3>1. GoTo(step + 1)
      BY <1>1 DEF TxTimeout, TxParse
    <3>2. step' = step + 1
      BY <3>1 DEF GoTo
    <3> QED
      BY <1>0, <3>2
  <2>2. ~verificador[Requests[i]] /\ Requests[i] # Requested
    BY <1>0, <1>1, <2>1 DEF Pending, TxTimeout, TxParse, Requested
  <2> QED
    BY <1>0, <1>1, <2>2 DEF TxTimeout, TxParse, Flags
<1>2. CASE TxNewCycle \/ Reboot
  BY <1>0, <1>2 DEF TxNewCycle, Reboot, NoFlags
<1>3. CASE /\ UNCHANGED <<step, verificador>>
           /\ pc \in {"wait", "request", "receive", "parse"}
  BY <1>3 DEF Pending
<1>4. \/ TxTimeout \/ TxParse \/ TxNewCycle \/ Reboot
      \/ /\ UNCHANGED <<step, verificador>>
         /\ pc \in {"wait", "request", "receive", "parse"}
  BY DEF Next, Tx, Rx, TxWait, TxRequest, TxReceive, TxParseCrash, TxBuild, TxCrash,
         RxFill, RxMore, RxDone, RxSend, RxDrop, vars
<1> QED
  BY <1>1, <1>2, <1>3, <1>4

(* The initial state maps to an initial state of the abstract acquisition. *)
LEMMA InitImplements == Init => Acquired!Init
BY DEF Init, Acquired!Init, NoFlags, NothingKept, EmptyFrame, Sensor, Shown

(* Every step maps to a step of the abstract acquisition or to none.       *)
LEMMA StepImplements ==
  Orderly /\ TypeOK /\ Exchange /\ Pending /\ [Next]_vars
  => [Acquired!Next]_(Acquired!vars)
<1> SUFFICES ASSUME Orderly, TypeOK, Exchange, Pending, [Next]_vars
             PROVE  Acquired!Next \/ UNCHANGED Acquired!vars
  OBVIOUS
<1> USE DEF txVars, rxVars
<1>0. /\ sample \in [Section -> Stored] /\ verificador \in [Section -> BOOLEAN]
      /\ frame \in [Matriculated -> Entry]
      /\ Requested \in Sensor /\ Requested \in Allocating /\ Sensor \subseteq Section
      /\ \A s \in Sensor : s # "gps"
  BY RequestIsSensor DEF TypeOK, Sensor, Requested
<1>1. CASE TxTimeout
  <2>1. ~verificador[Requested]
    BY <1>1 DEF TxTimeout, Pending, Requested, TypeOK
  <2>2. UNCHANGED <<verificador, sample, frame>>
    BY <1>0, <1>1, <2>1 DEF TxTimeout
  <2> QED
    BY <2>2 DEF Acquired!vars
<1>2. CASE TxParse
  <2>1. buffer.whole /\ Asked(buffer.answer) /\ Misnames = {}
    BY <1>2 DEF Orderly, TxParse, Exchange, OneExchange, Nothing, OnLine, BeingRead, Delivered,
         ParsesAnswer, Terminated
  <2>2. ~verificador[Requested] /\ UNCHANGED frame
    BY <1>2 DEF TxParse, Pending, Requested, TypeOK
  <2>3. CASE verificador' = Flags(FALSE) /\ UNCHANGED sample
    <3>1. \A s \in Sensor : verificador'[s] = verificador[s]
      BY <1>0, <2>2, <2>3 DEF Flags
    <3> QED
      BY <2>2, <2>3, <3>1 DEF Acquired!vars
  <2>4. CASE verificador' = Flags(TRUE) /\ sample' = Allocated(Requested, "now")
    <3>1. {s \in Sensor : verificador'[s]} = {s \in Sensor : verificador[s]} \cup {Requested}
      BY <1>0, <2>4 DEF Flags
    <3>2. {s \in Sensor : sample'[s] = "now"}
            = {s \in Sensor : sample[s] = "now"} \cup {Requested}
      BY <1>0, <2>4 DEF Allocated
    <3>3. \E m \in Sensor : Acquired!Collect(m)
      BY <1>0, <2>2, <3>1, <3>2 DEF Acquired!Collect
    <3> QED
      BY <3>3 DEF Acquired!Next
  <2> QED
    BY <1>2, <2>1, <2>3, <2>4 DEF TxParse, Asked
<1>3. CASE TxBuild
  <2>1. UNCHANGED <<verificador, sample>>
    BY <1>3 DEF TxBuild
  <2>2. CASE UNCHANGED frame
    BY <2>1, <2>2 DEF Acquired!vars
  <2>3. CASE frame' = [s \in Matriculated |-> EntryOf(s)]
    <3>1. ASSUME NEW s \in Shown
          PROVE  frame'[s] \notin {"absent", "-"} <=> verificador[s]
      <4>1. frame'[s] = EntryOf(s) /\ sample[s] \notin {"absent", "-"}
        BY <1>0, <2>3 DEF Shown, Stored, Age
      <4> QED
        BY <4>1 DEF EntryOf
    <3>2. {s \in Shown : frame'[s] \notin {"absent", "-"}}
            = {s \in Sensor : verificador[s]} \cap Shown
      BY <3>1 DEF Shown
    <3>3. Acquired!Publish
      BY <2>1, <3>2 DEF Acquired!Publish
    <3> QED
      BY <3>3 DEF Acquired!Next
  <2> QED
    BY <1>3, <2>2, <2>3 DEF TxBuild
<1>4. CASE TxNewCycle
  <2>1. {s \in Sensor : verificador'[s]} = {} /\ {s \in Sensor : sample'[s] = "now"} = {}
    BY <1>0, <1>4 DEF TxNewCycle, NoFlags, Aged
  <2>2. {s \in Shown : frame'[s] \notin {"absent", "-"}}
          = {s \in Shown : frame[s] \notin {"absent", "-"}}
    BY <1>0, <1>4 DEF TxNewCycle, Aged, Shown
  <2> QED
    BY <2>1, <2>2 DEF Acquired!NewCycle, Acquired!Next
<1>5. CASE Reboot
  <2>1. /\ {s \in Sensor : verificador'[s]} = {} /\ {s \in Sensor : sample'[s] = "now"} = {}
        /\ {s \in Shown : frame'[s] \notin {"absent", "-"}} = {}
    BY <1>0, <1>5 DEF Reboot, NoFlags, NothingKept, EmptyFrame, Shown
  <2> QED
    BY <2>1 DEF Acquired!Restart, Acquired!Next
<1>6. CASE UNCHANGED <<verificador, sample, frame>>
  BY <1>6 DEF Acquired!vars
<1>7. TxTimeout \/ TxParse \/ TxBuild \/ TxNewCycle \/ Reboot
      \/ UNCHANGED <<verificador, sample, frame>>
  BY DEF Next, Tx, Rx, TxWait, TxRequest, TxReceive, TxParseCrash, TxCrash,
         RxFill, RxMore, RxDone, RxSend, RxDrop, vars
<1> QED
  BY <1>1, <1>2, <1>3, <1>4, <1>5, <1>6, <1>7

(* The two tasks, the one-slot queue of pointers and the shared buffer     *)
(* implement the abstract acquisition, if the STM32 keeps to the protocol. *)
THEOREM Refines == ASSUME Orderly PROVE Spec => ImplementsAcquisition
<1>1. Init => Pending
  BY RequestIsSensor DEF Init, Pending, NoFlags, Sensor
<1> QED
  BY <1>1, InitType, StepType, InitExchange, StepExchange, StepPending,
     InitImplements, StepImplements, PTL
  DEF Spec, Orderly, ImplementsAcquisition, Acquired!Spec
=============================================================================
