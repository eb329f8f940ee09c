--------------------------- MODULE ConfigRequest ---------------------------
(***************************************************************************)
(* The configuration endpoints of the local HTTP server                    *)
(* (src/main/local_http_server.h): how the one task of the server receives *)
(* a request body piece by piece, parses what stands in its buffer after   *)
(* every piece, stores the settings one by one and answers.                *)
(*                                                                         *)
(* The buffer is a local array that nobody clears: behind what has just    *)
(* been received can stand what an earlier request left at that place of   *)
(* the stack, of the same handler or of another one.                       *)
(***************************************************************************)
EXTENDS Naturals, Sequences, FiniteSets

CONSTANTS
  Keys,       (* the keys that have a port, as the names they are read by  *)
  PortNames,  (* the names that SETPORTS stores ports by, in its order     *)
  TooLong,    (* the names that the storage refuses: over 15 characters    *)
  Failing,    (* bound: the other names that it is seen to refuse          *)
  Endpoints,  (* the endpoints that are used                                *)
  Value,      (* what a setting can be set to                               *)
  Bodies,     (* the request bodies that are sent                           *)
  Found       (* the settings found when the board starts                   *)

VARIABLES
  nvs,      (* the settings                                                *)
  refused,  (* history: those of the request that the storage has refused  *)
  httpd,    (* where the task of the server is                             *)
  request,  (* the body it is working on                                   *)
  coming,   (* how many pieces of the body are still to be received        *)
  gone,     (* whether the peer has closed the connection meanwhile        *)
  piece,    (* what of the body has been received last and not been parsed *)
  stale,    (* what stands in the buffer behind the first piece            *)
  todo,     (* the settings still to be stored, <<name, value>>            *)
  answer    (* what responhttp says                                        *)

requestVars == <<nvs, refused, httpd, request, coming, gone, piece, stale, todo, answer>>

-----------------------------------------------------------------------------
(* The handlers: the settings that each stores, in the order of the code,  *)
(* the members of the body that it takes them from (named like them, if no *)
(* two handlers share them), whether it looks if the body could be parsed, *)
(* and what it does if not to store settings.  SETPORTS also stores that   *)
(* the board is registered.                                                *)
Stores(names) == [settings |-> names, members |-> names, also |-> <<>>, checked |-> TRUE,
                  does |-> "store"]

TRAMA    == [Stores(<<"1_TRAMA-TIME">>) EXCEPT !.members = <<"time">>]
SERVER   == [Stores(<<"4_SERVERTIME">>) EXCEPT !.members = <<"time">>, !.checked = FALSE]
WIFIAP   == Stores(<<"2_WIFI-AP-SSID", "2_WIFI-AP-PASS", "2_WIFI-AP-IP">>)
WIFIST   == Stores(<<"2_WIFI-ST-SSID", "2_WIFI-ST-PASS", "2_WIFI-ST-INTE">>)
SETHTTP  == Stores(<<"4_URL-TRAMA", "4_URL-LOGIN", "4_TIMEOUT-HTTP", "4_TOKEN-TIME",
                     "5_TOK-HTTPSER", "4_SERVER-TIME">>)
SETPORTS == [Stores(PortNames) EXCEPT !.also = << <<"7_STATUS-MATR", 1>> >>]
RESETESP == [Stores(<<>>) EXCEPT !.members = <<"RESET">>, !.does = "restart"]
LOG      == [Stores(<<>>) EXCEPT !.members = <<"RESET">>, !.does = "clear"]

Handler(e) ==
  CASE e = "TRAMA"   -> TRAMA    [] e = "SERVER"   -> SERVER
    [] e = "WIFIAP"  -> WIFIAP   [] e = "WIFIST"   -> WIFIST
    [] e = "SETHTTP" -> SETHTTP  [] e = "SETPORTS" -> SETPORTS
    [] e = "LOG"     -> LOG      [] e = "RESETESP" -> RESETESP

Settings(e) == Handler(e).settings
Setting     == {"7_STATUS-MATR"} \cup {Keys[i] : i \in 1..Len(Keys)} \cup
                 UNION {{Settings(e)[i] : i \in 1..Len(Settings(e))} : e \in Endpoints}

(* A request body: its values, whether its token is the right one or a     *)
(* member is missing, and how it comes: whole in one piece, split in two,  *)
(* longer than the buffer of the handler, or not at all.                   *)
Kind  == {"good", "wrong_token", "incomplete"}
Shape == {"whole", "split", "long", "empty"}
Body  == [endpoint : Endpoints, value : Value, kind : Kind, shape : Shape]

ASSUME EndpointsAssumption ==
  Endpoints \subseteq {"TRAMA", "SERVER", "WIFIAP", "WIFIST", "SETHTTP", "SETPORTS",
                       "RESETESP", "LOG"}
ASSUME PortNamesAssumption == PortNames \in Seq(STRING \ {"7_STATUS-MATR"})
ASSUME BodiesAssumption == Bodies \subseteq Body
ASSUME FoundAssumption  == Found \in [Setting -> Value]
ASSUME OneAssumption    == 1 \in Value

NoBody == [endpoint |-> "none", value |-> 0, kind |-> "good", shape |-> "empty"]

(* Nothing of an earlier body behind the first piece.                      *)
Junk == NoBody

RequestInit ==
  /\ nvs = Found
  /\ refused = {}
  /\ httpd = "idle"
  /\ request = NoBody
  /\ coming = 0
  /\ gone = FALSE
  /\ piece = "none"
  /\ stale = Junk
  /\ todo = <<>>
  /\ answer = "none"

-----------------------------------------------------------------------------
(* The server hands a request to its handler.  Its buffer is on the stack, *)
(* where those of the other handlers have been: it holds what an earlier   *)
(* body left there, unless something else has used the place since.        *)
Accept(r) ==
  /\ httpd = "idle"
  /\ request' = r
  /\ coming' = CASE r.shape = "empty" -> 0 [] r.shape = "whole" -> 1 [] OTHER -> 2
  /\ httpd' = IF r.shape = "empty" THEN "answer" ELSE "receive"
  /\ answer' = IF r.shape = "empty" THEN "settings" ELSE "none"
  /\ stale' \in {Junk, stale}
  /\ UNCHANGED <<nvs, refused, gone, piece, todo>>

(* httpd_req_recv: what is received is put at the start of the buffer.  A  *)
(* whole body leaves its end in the buffer, the first part of a body only  *)
(* reaches the end if it is longer than the buffer, and the rest of a body *)
(* may or may not reach what stands behind and has the end of the body.    *)
Receive ==
  /\ httpd = "receive" /\ coming > 0 /\ ~gone
  /\ coming' = coming - 1
  /\ httpd' = "parse"
  /\ piece' = CASE request.shape = "whole" -> "body"
                [] coming = 2 -> "head"
                [] OTHER -> "rest"
  /\ stale' \in CASE piece' = "body" -> {request}
                   [] piece' = "rest" -> {stale, Junk, request}
                   [] request.shape = "long" -> {Junk}
                   [] OTHER -> {stale}
  /\ UNCHANGED <<nvs, refused, request, gone, todo, answer>>

(* The peer closes the connection, or the connection is lost.              *)
PeerLeaves ==
  /\ httpd = "receive" /\ ~gone
  /\ gone' = TRUE
  /\ UNCHANGED <<nvs, refused, httpd, request, coming, piece, stale, todo, answer>>

\* Mutant of ReceiveFails: every error is taken for a time-out and retried.
ReceiveRetries ==
  /\ httpd = "receive" /\ gone
  /\ UNCHANGED requestVars

(* httpd_req_recv reports an error, and the handler ends without an        *)
(* answer.  A time-out instead is tried again: nothing changes.            *)
ReceiveFails ==
  /\ httpd = "receive" /\ gone
  /\ httpd' = "idle"
  /\ request' = NoBody
  /\ coming' = 0
  /\ gone' = FALSE
  /\ answer' = "none"
  /\ refused' = {}
  /\ UNCHANGED <<nvs, piece, stale, todo>>

-----------------------------------------------------------------------------
(* cJSON_ParseWithOpts on the buffer.  A whole body is read, whatever is   *)
(* behind it.  The first part of a body is read if the end of an earlier   *)
(* body stands behind it and the two fit.                                  *)
Readable == piece = "body" \/ (piece = "head" /\ stale # Junk)

(* What is read: of a part and the end of an earlier body, the settings    *)
(* before the cut come from the one and the others from the other.  If the *)
(* earlier body is that of a handler with other members, all of them have  *)
(* to be in front of the cut; the token is a member of every body.         *)
SameMembers(b) == Handler(b.endpoint).members = Handler(request.endpoint).members

ToStore(cut) ==
  LET names == Settings(request.endpoint)
      own(i) == piece = "body" \/ i <= cut \/ ~SameMembers(stale)
      read(i) == IF own(i) THEN request.value ELSE stale.value
  IN  [i \in 1..Len(names) |-> <<names[i], read(i)>>]

\* Mutant of NextRound: the loop ends with what has been understood.
NextRoundLast == httpd' = "answer"

(* After one round of the loop: the next piece of the body, or the answer. *)
NextRound == httpd' = IF coming > 0 THEN "receive" ELSE "answer"

(* The bodies that what is read comes from.                                *)
ReadFrom == {request} \cup (IF piece = "head" THEN {stale} ELSE {})

(* A member is missing, in the body or between a part and the end of the   *)
(* earlier body: the null pointer is followed, before anything is compared *)
(* or stored.                                                              *)
MemberMissing ==
  /\ httpd = "parse" /\ Readable
  /\ request.kind = "incomplete" \/ piece = "head"
  /\ httpd' = "fault"
  /\ piece' = "none"
  /\ UNCHANGED <<nvs, refused, request, coming, gone, stale, todo, answer>>

(* The token is that of the body, or of the end of the earlier one.        *)
TokenWrong ==
  /\ httpd = "parse" /\ Readable
  /\ \E b \in ReadFrom : b.kind = "wrong_token"
  /\ answer' = "token"
  /\ piece' = "none"
  /\ NextRound
  /\ UNCHANGED <<nvs, refused, request, coming, gone, stale, todo>>

\* Mutant of TokenRight: the token is not compared.
TokenUnchecked ==
  /\ httpd = "parse" /\ Readable
  /\ \E cut \in 0..Len(Settings(request.endpoint)) :
       todo' = ToStore(cut) \o Handler(request.endpoint).also
  /\ httpd' = "store"
  /\ piece' = "none"
  /\ UNCHANGED <<nvs, refused, request, coming, gone, stale, answer>>

(* The token is right and all members are there; one that this body lacks, *)
(* the token too, can be in the end of the earlier one.                    *)
TokenRight ==
  /\ httpd = "parse" /\ Readable
  /\ \E b \in ReadFrom : b.kind = "good" \/ (b.kind = "incomplete" /\ piece = "head")
  /\ \E cut \in 0..Len(Settings(request.endpoint)) : 
       todo' = ToStore(cut) \o Handler(request.endpoint).also
  /\ httpd' = "store"
  /\ piece' = "none"
  /\ UNCHANGED <<nvs, refused, request, coming, gone, stale, answer>>

\* Mutant of NotParsed: the text has to end where the body ends.
NotParsedUnlessTerminated ==
  /\ httpd = "parse"
  /\ piece' = "none"
  /\ IF Handler(request.endpoint).checked
       THEN answer' = "error" /\ httpd' = "answer"
       ELSE httpd' = "fault" /\ UNCHANGED answer
  /\ UNCHANGED <<nvs, refused, request, coming, gone, stale, todo>>

(* The buffer could not be parsed, and the rest of the body is left        *)
(* unread.  SERVER does not look and follows the null pointer.             *)
NotParsed ==
  /\ httpd = "parse" /\ piece # "body"
  /\ piece' = "none"
  /\ IF Handler(request.endpoint).checked
       THEN answer' = "error" /\ httpd' = "answer"
       ELSE httpd' = "fault" /\ UNCHANGED answer
  /\ UNCHANGED <<nvs, refused, request, coming, gone, stale, todo>>

(* The rest of a body can start with something that is JSON by itself, but *)
(* it has no members: the null pointer is followed.                        *)
ParsedBare ==
  /\ httpd = "parse" /\ piece = "rest"
  /\ httpd' = "fault"
  /\ piece' = "none"
  /\ UNCHANGED <<nvs, refused, request, coming, gone, stale, todo, answer>>

(* grabar_nvs, one setting after the other.  The storage can refuse one,   *)
(* and always refuses a name that is too long; nobody looks at its result. *)
Store ==
  /\ httpd = "store" /\ todo # <<>>
  /\ LET name == Head(todo)[1] IN
     \/ /\ name \notin TooLong
        /\ nvs' = [nvs EXCEPT ![name] = Head(todo)[2]]
        /\ UNCHANGED refused
     \/ /\ name \in TooLong \cup Failing
        /\ refused' = refused \cup {name}
        /\ UNCHANGED nvs
  /\ todo' = Tail(todo)
  /\ UNCHANGED <<httpd, request, coming, gone, piece, stale, answer>>

Stored ==
  /\ httpd = "store" /\ todo = <<>>
  /\ Handler(request.endpoint).does = "store"
  /\ answer' = "saved"
  /\ NextRound
  /\ UNCHANGED <<nvs, refused, request, coming, gone, piece, stale, todo>>

(* RESETESP and LOG do what they are asked to, or the command is another   *)
(* one.  RESETESP answers, waits and restarts the board.                   *)
Command ==
  /\ httpd = "store"
  /\ Handler(request.endpoint).does # "store"
  /\ \/ Handler(request.endpoint).does = "restart" /\ httpd' = "restart" /\ UNCHANGED answer
     \/ answer' = "command" /\ NextRound
  /\ UNCHANGED <<nvs, refused, request, coming, gone, piece, stale, todo>>

(* httpd_resp_sendstr; what has not been received of the body is dropped.  *)
Answer ==
  /\ httpd = "answer"
  /\ httpd' = "idle"
  /\ request' = NoBody
  /\ coming' = 0
  /\ answer' = "none"
  /\ refused' = {}
  /\ UNCHANGED <<nvs, gone, piece, stale, todo>>

-----------------------------------------------------------------------------
Serve == ReceiveFails \/ MemberMissing \/ TokenWrong \/ TokenRight
         \/ NotParsed \/ ParsedBare \/ Store \/ Stored \/ Command \/ Answer
Peer  == Receive \/ PeerLeaves

RequestNext == (\E r \in Bodies : Accept(r)) \/ Peer \/ Serve

(* The settings survive a reset, and nothing else does.                    *)
RequestReset ==
  /\ UNCHANGED nvs
  /\ refused' = {} /\ httpd' = "idle" /\ request' = NoBody /\ coming' = 0 /\ gone' = FALSE
  /\ piece' = "none" /\ stale' = Junk /\ todo' = <<>> /\ answer' = "none"

HttpdPlace == {"idle", "receive", "parse", "store", "answer", "sensor", "fault", "restart"}
AnswerText == {"none", "settings", "error", "token", "saved", "command"}

RequestTypeOK ==
  /\ nvs \in [Setting -> Value]
  /\ refused \subseteq Setting
  /\ httpd \in HttpdPlace
  /\ request \in Bodies \cup {NoBody}
  /\ coming \in 0..2
  /\ gone \in BOOLEAN
  /\ piece \in {"none", "body", "head", "rest"}
  /\ stale \in Bodies \cup {Junk}
  /\ todo \in Seq(Setting \X Value)
  /\ answer \in AnswerText
=============================================================================
