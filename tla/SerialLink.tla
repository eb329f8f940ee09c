----------------------------- MODULE SerialLink -----------------------------
(***************************************************************************)
(* The acquisition core of the gateway (src/main/serial_controller.h): the *)
(* transmission task UART_tx_task asks the STM32 board for one module of   *)
(* sensors after the other, the reception task UART_rx_task hands every    *)
(* burst of bytes it reads to the transmission task through a one-slot     *)
(* queue, and the transmission task parses it, stores the values and, at   *)
(* the end of the cycle, composes the frame that goes to the web.          *)
(*                                                                         *)
(* What crosses the queue is not the answer but a POINTER to the single    *)
(* buffer into which the reception task keeps reading: the text that       *)
(* parse_data copies is whatever the buffer holds at that moment.          *)
(*                                                                         *)
(* The age of a value is history: "now" if the STM32 sent it for a request *)
(* of the current cycle, "old" if for an earlier one.                      *)
(***************************************************************************)
EXTENDS Naturals, Sequences

CONSTANTS
  Requests,      (* the modules UART_tx_task asks for, in order            *)
  Gated,         (* those whose request is preceded by a wait on the group *)
  Matriculated,  (* the sections for which some key has a port             *)
  MaxLine,       (* answers on the line and in the driver's ring buffer    *)
  LateReplies,   (* whether the STM32 may answer after the 5 s of the wait *)
  Misnames       (* what a text may name instead of the module asked for   *)

(* The fields of modulos_response, one for each kind of module.            *)
Section == {"temperatura", "liquido", "digital_input", "inclinacion", "gps",
            "analogico", "digital_output", "ventilador"}

(* The module a text names: "unknown" a number other than 0 for which      *)
(* allocate_data has no case.                                              *)
Name == Section \cup {"unknown"}

(* The modules whose values allocate_data stores.  The stores of the       *)
(* inclination are commented out, no case is left for an unknown module,   *)
(* and what a GPS sends is overwritten by the fixed position.              *)
Sensor     == Section \ {"gps"}
Allocating == Sensor \ {"inclinacion"}

ASSUME RequestsAssumption ==
  /\ Requests \in Seq(Allocating)
  /\ Requests # <<>>
  /\ \A i, j \in 1..Len(Requests) : Requests[i] = Requests[j] => i = j
ASSUME GatedAssumption        == Gated \subseteq Section
ASSUME MatriculatedAssumption == Matriculated \subseteq Section
ASSUME MaxLineAssumption      == MaxLine \in Nat \ {0}
ASSUME LateRepliesAssumption  == LateReplies \in BOOLEAN
ASSUME MisnamesAssumption     == Misnames \subseteq Name

(* The STM32 keeps to the protocol: it answers within the wait, and a text *)
(* that passes the checks names the module that was asked for.             *)
Orderly == ~LateReplies /\ Misnames = {}

VARIABLES
  pc,           (* where UART_tx_task is in its cycle                      *)
  step,         (* which request of the cycle it is at                     *)
  verificador,  (* the modules taken to have answered in this cycle        *)
  eventBit,     (* the bit not_parsing_data of the event group             *)
  line,         (* answers sent by the STM32 and not yet read              *)
  rx,           (* where UART_rx_task is                                   *)
  buffer,       (* the receive buffer of UART_rx_task                      *)
  queued,       (* whether uart_queue holds the pointer to the buffer      *)
  sample,       (* the age of what the vectors hold of each section        *)
  frame         (* the sections of web_buffer                              *)

txVars == <<pc, step, verificador, eventBit, sample, frame>>
rxVars == <<rx, buffer>>
vars   == <<txVars, rxVars, line, queued>>

(***************************************************************************)
(* An answer names a module.  It is "good" when parse_data gets through it *)
(* and stores it, "bad" when one of the checks rejects it, and "cut" when  *)
(* it has the four letters but not a field behind each of them: strtok     *)
(* then returns the null pointer that strtoul or atoi follows.             *)
(***************************************************************************)
Age    == {"now", "old"}
Form   == {"good", "bad", "cut"}
Answer == [mod : Name, form : Form, age : Age]

(* The receive buffer: what parsing makes of it, the first answer in it or *)
(* a "mixed" one put together from two, and whether the read that fills it *)
(* has ended.  While it has not, the buffer holds a prefix of the new      *)
(* bytes followed by what was there before.                                *)
Parsed == [mod : Name, form : Form, age : Age \cup {"mixed"}]
Buffer == [answer : Parsed, whole : BOOLEAN]

(* A stored value: "none" at boot, "constant" the fixed GPS position,      *)
(* "mixed" what parsing a buffer that was being overwritten left.          *)
Stored == Age \cup {"none", "constant", "mixed"}

(* An entry of web_buffer: "absent" before the first frame, "-" for a      *)
(* module that did not answer, "stray" what lies outside the vector.       *)
Entry == Stored \cup {"absent", "-", "stray"}

Aged(v) == IF v = "now" THEN "old" ELSE v

Requested == Requests[step]

-----------------------------------------------------------------------------
(* The tasks start with the flags cleared, the group and the queue empty,  *)
(* the vectors zeroed and web_buffer reset.                                *)
Entrance(i)  == IF Requests[i] \in Gated THEN "wait" ELSE "request"
NoFlags      == [s \in Section |-> FALSE]
NothingKept  == [s \in Section |-> "none"]
EmptyFrame   == [s \in Matriculated |-> "absent"]
UnusedBuffer ==
  [answer |-> [mod |-> Requests[1], form |-> "bad", age |-> "old"], whole |-> TRUE]

Init ==
  /\ pc = Entrance(1) /\ step = 1
  /\ verificador = NoFlags
  /\ eventBit = FALSE
  /\ line = <<>>
  /\ rx = "reading" /\ buffer = UnusedBuffer
  /\ queued = FALSE
  /\ sample = NothingKept
  /\ frame = EmptyFrame

-----------------------------------------------------------------------------
(* UART_tx_task                                                            *)

(* The task moves on to the request at i, or to the end of the cycle.      *)
GoTo(i) ==
  IF i > Len(Requests)
    THEN pc' = "build" /\ UNCHANGED step
    ELSE /\ step' = i
         /\ pc' = Entrance(i)

(* xEventGroupWaitBits: the bit set and cleared, or 3 s without it.  Only  *)
(* parse_data sets the bit, in this same task, so nobody can set it during *)
(* the wait.                                                               *)
TxWait ==
  /\ pc = "wait"
  /\ eventBit' = FALSE
  /\ pc' = "request"
  /\ UNCHANGED <<step, verificador, sample, frame, rxVars, line, queued>>

(* RequestForSTMData: the request is written, and the STM32 will send an   *)
(* answer of any form or none.                                             *)
TxRequest ==
  /\ pc = "request"
  /\ pc' = "receive"
  /\ \/ UNCHANGED line
     \/ /\ Len(line) < MaxLine
        /\ \E m \in {Requested} \cup Misnames, f \in Form :
             line' = Append(line, [mod |-> m, form |-> f, age |-> "now"])
  /\ UNCHANGED <<step, verificador, eventBit, sample, frame, rxVars, queued>>

\* Mutant of TxReceive: the pointer is looked at and left in the queue.
TxPeek ==
  /\ pc = "receive"
  /\ queued
  /\ pc' = "parse"
  /\ UNCHANGED <<step, verificador, eventBit, sample, frame, rxVars, line, queued>>

(* xQueueReceive takes the pointer.                                        *)
TxReceive ==
  /\ pc = "receive"
  /\ queued
  /\ queued' = FALSE
  /\ pc' = "parse"
  /\ UNCHANGED <<step, verificador, eventBit, sample, frame, rxVars, line>>

\* Mutants of TxTimeout: a wait shorter than the STM32 needs to answer, a
\* retry without end, and a step that runs past the last request.
TxTimeoutShort ==
  /\ pc = "receive"
  /\ ~queued
  /\ verificador' = [verificador EXCEPT ![Requested] = FALSE]
  /\ GoTo(step + 1)
  /\ UNCHANGED <<eventBit, sample, frame, rxVars, line, queued>>

TxTimeoutRetry ==
  /\ pc = "receive"
  /\ ~queued
  /\ LateReplies \/ (line = <<>> /\ rx = "reading")
  /\ verificador' = [verificador EXCEPT ![Requested] = FALSE]
  /\ GoTo(step)
  /\ UNCHANGED <<eventBit, sample, frame, rxVars, line, queued>>

TxTimeoutPastEnd ==
  /\ pc = "receive"
  /\ ~queued
  /\ LateReplies \/ (line = <<>> /\ rx = "reading")
  /\ verificador' = [verificador EXCEPT ![Requested] = FALSE]
  /\ step' = step + 1
  /\ pc' = "wait"
  /\ UNCHANGED <<eventBit, sample, frame, rxVars, line, queued>>

(* xQueueReceive returns empty-handed after 5 s.  Unless LateReplies, an   *)
(* answer that is coming is in the queue by then.                          *)
TxTimeout ==
  /\ pc = "receive"
  /\ ~queued
  /\ LateReplies \/ (line = <<>> /\ rx = "reading")
  /\ verificador' = [verificador EXCEPT ![Requested] = FALSE]
  /\ GoTo(step + 1)
  /\ UNCHANGED <<eventBit, sample, frame, rxVars, line, queued>>

\* Mutant of Flags: any text received raises the flag of the module.
FlagsOfReception(ok) ==
  [s \in Section |-> s = Requested \/ (s = "gps" /\ Requested = "temperatura")
                     \/ verificador[s]]

(* The flags after parse_data: that of the module asked for says whether   *)
(* the text was valid, and any text received in the temperature step       *)
(* raises that of the GPS.                                                 *)
Flags(ok) ==
  [s \in Section |->
     IF s = Requested THEN ok
     ELSE IF s = "gps" /\ Requested = "temperatura" THEN TRUE
     ELSE verificador[s]]

\* Mutant of Allocated: the GPS is stored by its own answers only.
AllocatedOnlyOwn(m, v) ==
  [s \in Section |-> IF s = m /\ m \in Allocating THEN v ELSE sample[s]]

(* allocate_data: the module named in the TEXT is stored if it is one of   *)
(* those that are, and the fixed position overwrites the GPS in any case.  *)
Allocated(m, v) ==
  [s \in Section |-> IF s = "gps" THEN "constant"
                     ELSE IF s = m /\ m \in Allocating THEN v
                     ELSE sample[s]]

(* parse_data copies the buffer as it is now.  A whole buffer is judged by *)
(* its first answer; one that is being overwritten can be rejected, or     *)
(* pass the checks and name anything.                                      *)
TxParse ==
  /\ pc = "parse"
  /\ \/ /\ buffer.whole /\ buffer.answer.form = "good"
        /\ verificador' = Flags(TRUE)
        /\ sample' = Allocated(buffer.answer.mod, buffer.answer.age)
     \/ /\ buffer.whole => buffer.answer.form = "bad"
        /\ verificador' = Flags(FALSE)
        /\ UNCHANGED sample
     \/ /\ ~buffer.whole
        /\ verificador' = Flags(TRUE)
        /\ \E m \in {Requests[i] : i \in 1..Len(Requests)} \cup Misnames :
             sample' = Allocated(m, "mixed")
  /\ eventBit' = TRUE
  /\ GoTo(step + 1)
  /\ UNCHANGED <<frame, rxVars, line, queued>>

(* A text without a field, or one that is being overwritten, gives         *)
(* parse_data a null pointer, and following it resets the board.           *)
TxParseCrash ==
  /\ pc = "parse"
  /\ buffer.whole => buffer.answer.form = "cut"
  /\ pc' = "noField"
  /\ UNCHANGED <<step, verificador, eventBit, sample, frame, rxVars, line, queued>>

\* Mutant of Counted: one more flag forgotten in the condition.
CountedWithoutAnalogico == Section \ {"digital_input", "analogico"}

(* The flags that decide whether a frame is composed at all: those of      *)
(* every module but digital_input.                                         *)
Counted == Section \ {"digital_input"}

(* Whether vector_positions gives the port of the section a position       *)
(* inside its vector; it gives 255 for port 4, the digital input.          *)
InVector(s) == s # "digital_input"

\* Mutant of EntryOf: the value is shown whether or not the module answered.
EntryUnchecked(s) == IF InVector(s) THEN sample[s] ELSE "stray"

EntryOf(s) ==
  IF ~verificador[s] THEN "-" ELSE IF InVector(s) THEN sample[s] ELSE "stray"

(* web_buffer_constructor follows the timestamp of the GPS, a null pointer *)
(* as long as nothing has been stored.                                     *)
NullTimestamp == "gps" \in Matriculated /\ verificador["gps"] /\ sample["gps"] = "none"

(* The end of the cycle: the frame is composed and published, or left as   *)
(* it was when no flag that counts is up.                                  *)
TxBuild ==
  /\ pc = "build"
  /\ ~NullTimestamp
  /\ frame' = IF \E s \in Counted : verificador[s]
                THEN [s \in Matriculated |-> EntryOf(s)]
                ELSE frame
  /\ pc' = "delay"
  /\ UNCHANGED <<step, verificador, eventBit, sample, rxVars, line, queued>>

(* Following the null pointer resets the board.                            *)
TxCrash ==
  /\ pc = "build"
  /\ NullTimestamp
  /\ pc' = "noTimestamp"
  /\ UNCHANGED <<step, verificador, eventBit, sample, frame, rxVars, line, queued>>

(* After the delay the next cycle starts with the flags cleared; what was  *)
(* current is now of an earlier cycle.                                     *)
TxNewCycle ==
  /\ pc = "delay"
  /\ verificador' = NoFlags
  /\ sample' = [s \in Section |-> Aged(sample[s])]
  /\ frame'  = [s \in Matriculated |-> Aged(frame[s])]
  /\ line'   = [i \in 1..Len(line) |-> [line[i] EXCEPT !.age = "old"]]
  /\ buffer' = [buffer EXCEPT !.answer.age = Aged(@)]
  /\ GoTo(1)
  /\ UNCHANGED <<eventBit, rx, queued>>

(* The reset: both tasks start over, and the answers that were coming are  *)
(* lost or read after the boot.                                            *)
Reboot ==
  /\ pc \in {"noField", "noTimestamp"}
  /\ pc' = Entrance(1) /\ step' = 1
  /\ verificador' = NoFlags
  /\ eventBit' = FALSE
  /\ line' \in {<<>>, line}
  /\ rx' = "reading" /\ buffer' = UnusedBuffer
  /\ queued' = FALSE
  /\ sample' = NothingKept
  /\ frame' = EmptyFrame

-----------------------------------------------------------------------------
(* UART_rx_task                                                            *)

(* Bytes start to arrive and overwrite the buffer.                         *)
RxFill ==
  /\ rx = "reading"
  /\ line # <<>>
  /\ rx' = "filling"
  /\ buffer' = [answer |-> Head(line), whole |-> FALSE]
  /\ line' = Tail(line)
  /\ UNCHANGED <<txVars, queued>>

(* Another answer arrives before the second of silence that ends the read  *)
(* and lands behind the first one.  A good one is parsed up to its module  *)
(* number, so the second is not found; a truncated one takes what it       *)
(* misses from the second: it can pass the checks and store its values in  *)
(* the vectors of the second one's module, be rejected, or lack a field.   *)
RxMore ==
  /\ rx = "filling"
  /\ line # <<>>
  /\ line' = Tail(line)
  /\ \/ UNCHANGED buffer
     \/ /\ buffer.answer.form # "good"
        /\ \E f \in Form :
             buffer' = [buffer EXCEPT !.answer =
                          [mod |-> Head(line).mod, form |-> f, age |-> "mixed"]]
  /\ UNCHANGED <<txVars, rx, queued>>

(* uart_read_bytes returns and the text is terminated.                     *)
RxDone ==
  /\ rx = "filling"
  /\ rx' = "sending"
  /\ buffer' = [buffer EXCEPT !.whole = TRUE]
  /\ UNCHANGED <<txVars, line, queued>>

(* xQueueSend puts the pointer in the slot ...                             *)
RxSend ==
  /\ rx = "sending"
  /\ ~queued
  /\ queued' = TRUE
  /\ rx' = "reading"
  /\ UNCHANGED <<txVars, buffer, line>>

(* ... or gives up after 5 ticks with the slot taken; nobody looks at the  *)
(* result.                                                                 *)
RxDrop ==
  /\ rx = "sending"
  /\ queued
  /\ rx' = "reading"
  /\ UNCHANGED <<txVars, buffer, line, queued>>

-----------------------------------------------------------------------------
Tx == \/ TxWait \/ TxRequest \/ TxReceive \/ TxTimeout
      \/ TxParse \/ TxParseCrash
      \/ TxBuild \/ TxCrash \/ TxNewCycle \/ Reboot
Rx == RxFill \/ RxMore \/ RxDone \/ RxSend \/ RxDrop

Next == Tx \/ Rx

(* Both tasks run forever at the same priority.  An answer on the line is  *)
(* read (RxFill), a read ends with the silence that follows it (RxDone),   *)
(* and every wait of the two tasks has a timeout.                          *)
Fairness ==
  /\ WF_vars(Tx)
  /\ WF_vars(RxFill) /\ WF_vars(RxDone)
  /\ WF_vars(RxSend \/ RxDrop)

Spec == Init /\ [][Next]_vars /\ Fairness

-----------------------------------------------------------------------------
(* Type correctness.                                                       *)
TypeOK ==
  /\ pc \in {"wait", "request", "receive", "parse", "build", "delay",
            "noField", "noTimestamp"}
  /\ step \in 1..Len(Requests)
  /\ verificador \in [Section -> BOOLEAN]
  /\ eventBit \in BOOLEAN
  /\ line \in Seq(Answer)
  /\ Len(line) <= MaxLine
  /\ rx \in {"reading", "filling", "sending"}
  /\ buffer \in Buffer
  /\ queued \in BOOLEAN
  /\ sample \in [Section -> Stored]
  /\ frame \in [Matriculated -> Entry]

(* "Valores booleanos para verificar si los modulos respondieron" (line    *)
(* 102): the flag of a module asked for is up only if the vectors hold     *)
(* what that very module answered in this cycle, although answers carry no *)
(* number and the flag is set from whatever text came out of the queue.    *)
FlagsTruthful == \A s \in Sensor : verificador[s] => sample[s] = "now"

(* The text parse_data copies is a complete one, the answer to the request *)
(* that is waiting, although the queue carries a pointer and the reception *)
(* task is free to overwrite the buffer after sending it.                  *)
ParsedWhole ==
  pc = "parse" => /\ buffer.whole
                  /\ buffer.answer.mod = Requested
                  /\ buffer.answer.age = "now"

(* The event group and the waits exist "para no saturar el canal" (lines   *)
(* 686-689): no request is written while an earlier one is being answered. *)
Outstanding == Len(line) + (IF rx = "reading" THEN 0 ELSE 1) + (IF queued THEN 1 ELSE 0)

ChannelNotSaturated ==
  /\ Outstanding <= 1
  /\ Outstanding = 1 => pc = "receive"

(* The frame is a snapshot of ONE cycle: it never shows the value of one   *)
(* module from this cycle next to that of another from an earlier one.     *)
FrameOfOneCycle ==
  \A s, t \in Matriculated : ~(frame[s] = "now" /\ frame[t] \in {"old", "none", "mixed"})

(* No answer is lost at the full queue: the reception task gives up only   *)
(* when the transmission task has not yet taken the previous pointer.      *)
NoAnswerDropped == ~(rx = "sending" /\ queued)

(* Whatever the STM32 does, silence, late texts and texts of any module    *)
(* included, the transmission task comes to the end of the requests again  *)
(* and again, unless texts without a field reset the board again and       *)
(* again: no wait of the two tasks lasts for ever.                         *)
AcquisitionCompletes == []<>(pc = "build") \/ []<>(pc = "noField")

(* The valid answer of a module that has a key reaches the web: it is in   *)
(* the frame while it is still of the current cycle, even if no other      *)
(* module answers, unless the answer to a later request of the cycle lacks *)
(* a field and resets the board.  The digital input is not among those     *)
(* modules: its flag does not count, and its port is in no vector.         *)
AnswerPublished ==
  \A s \in (Sensor \ {"digital_input"}) \cap Matriculated :
    verificador[s] ~> (frame[s] = "now" \/ pc = "noField")

(* The board resets at the null timestamp only while nothing at all has    *)
(* been stored since the boot: one text that passes the checks, of any     *)
(* module and however late, makes the following cycles safe from it.       *)
CrashOnlyCold == pc = "noTimestamp" => sample = NothingKept

(* What the constructor reads has been stored: "toma los datos que ya se   *)
(* encuentran almacenados en vectores" (lines 541-542).                    *)
ReadsStoredData == pc = "build" => ~NullTimestamp

-----------------------------------------------------------------------------
(* The abstract acquisition: what is answered, current and reported.       *)
Shown == Sensor \cap Matriculated

Acquired == INSTANCE Acquisition WITH
  Module   <- Sensor,
  Visible  <- Shown,
  answered <- {s \in Sensor : verificador[s]},
  current  <- {s \in Sensor : sample[s] = "now"},
  report   <- {s \in Shown : frame[s] \notin {"absent", "-"}}

(* The tasks, the queue and the shared buffer implement the abstract       *)
(* acquisition when the STM32 keeps to the protocol.                       *)
ImplementsAcquisition == Acquired!Spec
=============================================================================
