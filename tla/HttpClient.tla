----------------------------- MODULE HttpClient -----------------------------
(***************************************************************************)
(* The HTTP client (src/main/http_client_controller.h).  The main task     *)
(* logs in and, if the login was accepted, posts the frame of sensors; the *)
(* button tasks post alarm frames whenever a button is down.  Each request *)
(* has an esp_http_client of its own, but all of them share the handler    *)
(* _http_event_handler with its static offset output_len, and the flag     *)
(* estado.  The buffer of the login is never cleared.  The handler reads   *)
(* the offset, copies, and only then stores the new one: what another task *)
(* stores in between is lost.                                              *)
(***************************************************************************)
EXTENDS Naturals

CONSTANTS
  Buttons,   (* the button tasks                                           *)
  Chunks,    (* the pieces of data in which a whole response arrives       *)
  MaxLen     (* bound of output_len, which overlapping requests can let    *)
             (* grow for ever                                              *)

ASSUME ButtonsAssumption == "main" \notin Buttons
ASSUME ChunksAssumption  == Chunks \in Nat \ {0}
ASSUME MaxLenAssumption  == MaxLen \in Nat /\ MaxLen >= Chunks

VARIABLES
  pc,          (* where each task is                                       *)
  estado,      (* whether the login is taken to have been accepted         *)
  outputLen,   (* the static output_len of the event handler               *)
  handling,    (* whether each task is in the handler, between its copy    *)
               (* and its store of the new offset                          *)
  loaded,      (* the offset that each task has read to add to             *)
  got,         (* history: pieces that each task's request has been given  *)
  answer,      (* what the login server answers this time                  *)
  response,    (* local_response_buffer, as far as a whole response goes   *)
  clash        (* history: another request overlapped the one of each task *)

offset == <<outputLen, handling, loaded>>
vars   == <<pc, estado, offset, got, answer, response, clash>>

Client == {"main"} \cup Buttons

(* The login server accepts, refuses, or answers something else than the   *)
(* JSON the client expects.                                                *)
Answer == {"accepted", "refused", "alien"}

(* A place of the buffer: empty since the boot, or the piece of an answer, *)
(* of this login or of an earlier one.                                     *)
Place == 1..Chunks
Piece == [answer : Answer, part : Place, fresh : BOOLEAN]
Empty == [answer |-> "none", part |-> 0, fresh |-> FALSE]

Stale(p) == [answer |-> p.answer, part |-> p.part, fresh |-> FALSE]

Running       == pc["main"] # "crash"
Performing(t) == Running /\ pc[t] \in {"login", "trama"}
Active(t)     == pc[t] \notin {"idle", "delay"}

Init ==
  /\ pc = [t \in Client |-> "idle"]
  /\ estado = 0
  /\ outputLen = 0
  /\ handling = [t \in Client |-> FALSE] /\ loaded = [t \in Client |-> 0]
  /\ got = [t \in Client |-> 0]
  /\ answer = "refused"
  /\ response = [i \in Place |-> Empty]
  /\ clash = [t \in Client |-> FALSE]

Go(t, place) == pc' = [pc EXCEPT ![t] = place]

(* Task t begins a request: it overlaps with those in progress, and they   *)
(* with it.                                                                *)
Begin(t, place) ==
  /\ Go(t, place)
  /\ UNCHANGED got
  /\ clash' = [c \in Client |-> IF c = t THEN \E o \in Client \ {t} : Active(o)
                                ELSE clash[c] \/ Active(c)]

-----------------------------------------------------------------------------
(* http_rest_with_url: the login request goes out.                         *)
Login ==
  /\ pc["main"] = "idle"
  /\ Begin("main", "login")
  /\ answer' \in Answer
  /\ response' = [i \in Place |-> Stale(response[i])]
  /\ UNCHANGED <<estado, offset>>

\* Mutant of Trama: the flag is left up.
TramaKeepsEstado(t) ==
  /\ Begin(t, "trama")
  /\ UNCHANGED <<estado, offset, answer, response>>

(* httptrama, called in task t: estado is cleared whoever calls it.        *)
Trama(t) ==
  /\ Begin(t, "trama")
  /\ estado' = 0
  /\ UNCHANGED <<offset, answer, response>>

(* A button is down.                                                       *)
Press(b) ==
  /\ Running /\ pc[b] = "idle"
  /\ Trama(b)

(* The second after the login is over: the frame is posted if estado is    *)
(* (still) up.                                                             *)
Post ==
  /\ pc["main"] = "delay"
  /\ estado = 1
  /\ Trama("main")

SkipPost ==
  /\ pc["main"] = "delay"
  /\ estado = 0
  /\ Go("main", "idle")
  /\ UNCHANGED <<estado, offset, got, answer, response, clash>>

-----------------------------------------------------------------------------
(* esp_http_client_perform, in task t, and the events it raises            *)

(* A piece of the response: copied behind what output_len counts, into the *)
(* buffer of the login or into the one of the frames, of which only the    *)
(* first is read by the program.                                           *)
OnData(t) ==
  /\ Performing(t) /\ ~handling[t]
  /\ got[t] < Chunks
  /\ outputLen < MaxLen
  /\ got' = [got EXCEPT ![t] = @ + 1]
  /\ response' =
       IF pc[t] = "login" /\ outputLen + 1 \in Place
         THEN [response EXCEPT ![outputLen + 1] =
                 [answer |-> answer, part |-> got[t] + 1, fresh |-> TRUE]]
         ELSE response
  /\ handling' = [handling EXCEPT ![t] = TRUE]
  /\ loaded' = [loaded EXCEPT ![t] = outputLen]
  /\ UNCHANGED <<pc, estado, outputLen, answer, clash>>

(* output_len += data_len reads the offset once more, unless the compiler  *)
(* kept what was read for the copy ...                                     *)
Reload(t) ==
  /\ Running /\ handling[t]
  /\ outputLen < MaxLen
  /\ loaded' = [loaded EXCEPT ![t] = outputLen]
  /\ UNCHANGED <<pc, estado, outputLen, handling, got, answer, response, clash>>

(* ... and stores the sum, whatever another task has stored meanwhile.     *)
Count(t) ==
  /\ Running /\ handling[t]
  /\ outputLen' = loaded[t] + 1
  /\ handling' = [handling EXCEPT ![t] = FALSE]
  /\ loaded' = [loaded EXCEPT ![t] = 0]
  /\ UNCHANGED <<pc, estado, got, answer, response, clash>>

Returned(t) == Go(t, IF pc[t] = "login" THEN "loggedIn" ELSE "posted")

(* The response is complete.  One without a body, or one in chunked        *)
(* encoding, whose data the handler ignores, has given no piece.           *)
OnFinish(t) ==
  /\ Performing(t) /\ ~handling[t]
  /\ got[t] \in {0, Chunks}
  /\ outputLen' = 0
  /\ Returned(t)
  /\ UNCHANGED <<estado, handling, loaded, got, answer, response, clash>>

(* No connection, or the timeout, at any point.                            *)
Fail(t) ==
  /\ Performing(t) /\ ~handling[t]
  /\ Returned(t)
  /\ UNCHANGED <<estado, offset, got, answer, response, clash>>

-----------------------------------------------------------------------------
(* What parsing the buffer can find: nothing sensible while a piece is     *)
(* missing, an answer that is there from its first to its last piece, and  *)
(* anything when pieces of different answers stand next to each other.     *)
Whole(a) == \A i \in Place : response[i].answer = a /\ response[i].part = i

Found ==
  IF \E i \in Place : response[i] = Empty THEN {"alien"}
  ELSE IF \E a \in Answer : Whole(a) THEN {a \in Answer : Whole(a)}
  ELSE Answer

\* Mutant of Parse: the status of the answer is kept for what it means.
ParseKeepsStatus ==
  /\ pc["main"] = "loggedIn"
  /\ \E a \in Found :
       \/ a = "accepted" /\ estado' = 200 /\ Go("main", "cleanup")
       \/ a = "refused"  /\ estado' = 401 /\ Go("main", "cleanup")
       \/ a = "alien"    /\ Go("main", "crash") /\ UNCHANGED estado
  /\ UNCHANGED <<offset, got, answer, response, clash>>

(* The result of the request is logged and the buffer parsed in any case.  *)
(* What is not the expected JSON gives null pointers, and following them   *)
(* resets the board, with whatever the other tasks were at.                *)
Parse ==
  /\ pc["main"] = "loggedIn"
  /\ \E a \in Found :
       \/ a = "accepted" /\ estado' = 1 /\ Go("main", "cleanup")
       \/ a = "refused"  /\ estado' = 0 /\ Go("main", "cleanup")
       \/ a = "alien"    /\ Go("main", "crash") /\ UNCHANGED estado
  /\ UNCHANGED <<offset, got, answer, response, clash>>

(* A request is over, and its history with it.                             *)
End(t) ==
  /\ \/ pc[t] = "cleanup" /\ Go(t, "delay")
     \/ pc[t] = "posted" /\ Go(t, "idle")
  /\ got' = [got EXCEPT ![t] = 0]
  /\ clash' = [clash EXCEPT ![t] = FALSE]

\* Mutant of Cleanup: the handler does not see to the disconnection.
CleanupKeepsOffset(t) ==
  /\ Running
  /\ End(t)
  /\ UNCHANGED <<estado, offset, answer, response>>

(* esp_http_client_cleanup closes the connection, and the handler is told. *)
Cleanup(t) ==
  /\ Running
  /\ End(t)
  /\ outputLen' = 0
  /\ UNCHANGED <<estado, handling, loaded, answer, response>>

Reboot ==
  /\ pc["main"] = "crash"
  /\ pc' = [t \in Client |-> "idle"]
  /\ estado' = 0 /\ outputLen' = 0
  /\ handling' = [t \in Client |-> FALSE] /\ loaded' = [t \in Client |-> 0]
  /\ got' = [t \in Client |-> 0]
  /\ response' = [i \in Place |-> Empty]
  /\ clash' = [t \in Client |-> FALSE]
  /\ UNCHANGED answer

-----------------------------------------------------------------------------
Step(t) == \/ OnData(t) \/ Reload(t) \/ Count(t)
           \/ OnFinish(t) \/ Fail(t) \/ Cleanup(t)

Next ==
  \/ Login \/ Post \/ SkipPost \/ Parse \/ Reboot
  \/ \E b \in Buttons : Press(b)
  \/ \E t \in Client : Step(t)

Spec == Init /\ [][Next]_vars

-----------------------------------------------------------------------------
ButtonPc == {"idle", "trama", "posted"}
MainPc   == ButtonPc \cup {"login", "loggedIn", "cleanup", "delay", "crash"}

(* Type correctness.                                                       *)
TypeOK ==
  /\ pc \in [Client -> MainPc]
  /\ \A b \in Buttons : pc[b] \in ButtonPc
  /\ estado \in 0..1
  /\ outputLen \in 0..MaxLen
  /\ handling \in [Client -> BOOLEAN]
  /\ loaded \in [Client -> 0..MaxLen]
  /\ \A t \in Client : handling[t] => loaded[t] < MaxLen
  /\ got \in [Client -> 0..Chunks]
  /\ answer \in Answer
  /\ response \in [Place -> Piece \cup {Empty}]
  /\ clash \in [Client -> BOOLEAN]

(* The shared offset counts the pieces of one request: whichever task runs *)
(* it, a request that no other overlapped finds there what it was given    *)
(* itself, and nothing that requests before it left behind when they ended *)
(* or failed.  Overlapping ones can lose each other's reset.               *)
OffsetIsOwn ==
  \A t \in Client : Performing(t) /\ ~clash[t]
    => got[t] = outputLen + (IF handling[t] THEN 1 ELSE 0)

(* A login whose request no other request overlapped finds its own answer  *)
(* in the buffer, whole and from the beginning, however earlier requests   *)
(* ended.                                                                  *)
AnswerIntact ==
  pc["main"] = "loggedIn" /\ ~clash["main"] /\ got["main"] = Chunks
    => \A i \in Place : response[i] = [answer |-> answer, part |-> i, fresh |-> TRUE]

(* A login lets one frame out at most: estado is up only between the login *)
(* and the decision to post, and nobody finds it up later.                 *)
OneFramePerLogin == estado = 1 => pc["main"] \in {"cleanup", "delay"}

(* "login correcto" (line 215): estado goes up for an answer that the      *)
(* server gave to this very request.                                       *)
LoginOfThisRound ==
  estado = 1 /\ pc["main"] = "cleanup" => answer = "accepted" /\ got["main"] > 0
=============================================================================
