----------------------------- MODULE LocalServer -----------------------------
(***************************************************************************)
(* The local HTTP server and the transmission task of a matriculated board *)
(* together: the server stores ports that the transmission task reads for  *)
(* every entry of a frame, and copies the texts that the task composes.    *)
(* So do the HTTP client and the task of the panic button.                 *)
(***************************************************************************)
EXTENDS ConfigRequest, WebFrame

CONSTANTS
  Readers,    (* the tasks that copy texts                                 *)
  Meanwhile   (* bound: the endpoints whose requests are followed while    *)
              (* another task than the server copies a text                *)

ASSUME KeysAssumption    == Keys \in Seq(STRING) /\ Len(Keys) = KeyCount
ASSUME ValueAssumption   == Value \subseteq Port
ASSUME ReadersAssumption == Readers \subseteq {"httpd", "client", "button"}

VARIABLES fault     (* what is about to reset the board                    *)

vars == <<requestVars, frameVars, fault>>

Init == RequestInit /\ FrameInit /\ fault = "none"

-----------------------------------------------------------------------------
(* A configuration request.                                                *)
ConfigStep ==
  /\ RequestNext
  /\ reader.who \in {"client", "button"} => request'.endpoint \in Meanwhile \cup {"none"}
  /\ fault' = IF httpd' = "fault" THEN "request" ELSE "none"
  /\ UNCHANGED frameVars

(* The transmission task.                                                  *)
TransmitStep == Transmit([k \in KeyNo |-> nvs[Keys[k]]]) /\ UNCHANGED <<requestVars, fault>>

-----------------------------------------------------------------------------
(* The handler of a sensor endpoint or of WEBBUFFER: the server does it    *)
(* between configuration requests.                                         *)
SensorRequest(b) ==
  /\ "httpd" \in Readers
  /\ httpd = "idle"
  /\ httpd' = "sensor"
  /\ Measure("httpd", b)
  /\ UNCHANGED <<nvs, refused, request, coming, gone, piece, stale, todo, answer, fault>>

(* The client composes a frame from web_buffer, the panic button one with  *)
(* the text of GNSS.  Their tasks start after the transmission task.       *)
OtherRead(who) ==
  /\ who \in Readers \ {"httpd"} /\ tx \notin {"boot", "allocated"}
  /\ request.endpoint \in Meanwhile \cup {"none"}
  /\ IF who = "client" THEN Measure(who, web_buffer)
                       ELSE "GNSS" \in Strings /\ Measure(who, "GNSS")
  /\ UNCHANGED <<requestVars, fault>>

(* A request in the moment in which web_buffer has no end: whatever the    *)
(* memory holds is answered, or the board faults.                          *)
SensorRequestTooEarly ==
  /\ "httpd" \in Readers
  /\ httpd = "idle" /\ tx = "allocated" /\ reader.who = "nobody"
  /\ fault' = "copy"
  /\ reader' = [reader EXCEPT !.who = "httpd", !.of = "web", !.disturbed = TRUE]
  /\ UNCHANGED <<requestVars, tx, entry, part, required_size, port, text>>

CopyStep == CopyCell /\ UNCHANGED <<requestVars, fault>>

(* The copy is used.  One that has left its room can fault.                *)
CopyUsed ==
  /\ Done
  /\ reader' = Nobody
  /\ httpd' = IF reader.who = "httpd" THEN "idle" ELSE httpd
  /\ UNCHANGED <<nvs, refused, request, coming, gone, piece, stale, todo, answer,
                 tx, entry, part, required_size, port, text, fault>>

CopyFaults ==
  /\ Done /\ Overrun
  /\ fault' = "copy"
  /\ UNCHANGED <<requestVars, frameVars>>

Read == (\E b \in {web_buffer} \cup Strings : SensorRequest(b))
        \/ (\E who \in {"client", "button"} : OtherRead(who)) \/ SensorRequestTooEarly
Copy == CopyStep \/ CopyUsed \/ CopyFaults

-----------------------------------------------------------------------------
(* A fault, or RESETESP, starts the board over.                            *)
Reset ==
  /\ fault # "none" \/ httpd = "restart"
  /\ RequestReset /\ FrameReset
  /\ fault' = "none"

Next ==
  \/ fault = "none" /\ (ConfigStep \/ TransmitStep \/ Read \/ Copy)
  \/ Reset

(* Both tasks are scheduled, and the transmission task sooner or later has *)
(* an answer to compose a frame from.  A peer that has announced a body    *)
(* sends it or goes away.                                                  *)
Running(A) == fault = "none" /\ A
Fairness ==
  /\ WF_vars(Running(Serve /\ fault' = (IF httpd' = "fault" THEN "request" ELSE "none")
                     /\ UNCHANGED frameVars))
  /\ WF_vars(Running(Peer /\ UNCHANGED <<frameVars, fault>>))
  /\ WF_vars(Running(TransmitStep))
  /\ WF_vars(Reset)

Spec == Init /\ [][Next]_vars /\ Fairness

-----------------------------------------------------------------------------
TypeOK ==
  /\ RequestTypeOK
  /\ tx \in {"boot", "allocated", "wait", "compose", "distribute"}
  /\ entry \in 1..(KeyCount + 1)
  /\ part \in 1..2
  /\ required_size \in 0..3
  /\ port \in {0} \cup ReadPort
  /\ text \in [Buffer -> [Pos -> Cells]]
  /\ reader.who \in {"nobody", "httpd", "client", "button"}
  /\ reader.of \in Buffer
  /\ reader.length \in 0..(2 * KeyCount)
  /\ reader.copy \in Seq(Cells)
  /\ reader.disturbed \in BOOLEAN
  /\ fault \in {"none", "request", "copy"}

(* When "Data saved.." is answered every setting of the body holds the     *)
(* value that the body gives it, and none what an earlier body left in the *)
(* buffer, unless the storage has refused it: of that nothing is said.     *)
SavedMeansStored ==
  (httpd = "answer" /\ answer = "saved") =>
    /\ request.kind = "good"
    /\ \A i \in 1..Len(Settings(request.endpoint)) :
         LET name == Settings(request.endpoint)[i] IN
         name \in refused \/ nvs[name] = request.value

(* A body that comes in one piece with all its members is answered by what *)
(* its token deserves, whatever earlier bodies have left in the buffer.    *)
WholeIsServed ==
  (request.shape = "whole" /\ request.kind # "incomplete") =>
    /\ fault # "request"
    /\ answer \in {"none"} \cup (IF request.kind = "good" THEN {"saved", "command"}
                                                           ELSE {"token"})

(* A setting changes only on a request to the endpoint that it belongs to, *)
(* and to the value of that body or, when it came in parts, of the earlier *)
(* body that stood behind its first part, if that was sent to an endpoint  *)
(* with the same members, as are TRAMA and SERVER.  One of the two bodies  *)
(* brought the right token.                                                *)
Sources == IF request.shape = "whole" THEN {request} ELSE {request, stale}

Asked(e, s, v) ==
  \/ \E i \in 1..Len(Handler(e).also) : Handler(e).also[i] = <<s, v>>
  \/ /\ \E i \in 1..Len(Settings(e)) : Settings(e)[i] = s
     /\ \E b \in Sources : b.value = v /\ SameMembers(b)

StoresOnlyWhatIsAsked ==
  [][\A s \in Setting : nvs'[s] # nvs[s] =>
       /\ \E b \in Sources : b.kind = "good" \/ (b.kind = "incomplete" /\ request.shape # "whole")
       /\ Asked(request.endpoint, s, nvs'[s])]_vars

(* A cell with what belongs to the port in the other cell.                 *)
Belongs(c, d) == \E p \in ReadPort : d = Cell(c.key, 1, p) /\ c.data = ValueAt(p)

(* What stands behind a port in an entry is what belongs to that port:     *)
(* its own value, nothing for a port that has none, and for port 4 what    *)
(* lies behind digital_input; never the value of another port, also when   *)
(* the port is changed in the middle of a frame.                           *)
ValueIsOfItsPort ==
  \A b \in Buffer : Ended(text[b]) =>
    \A i \in 1..Length(text[b]) : text[b][i].part = 2 =>
      i > 1 /\ Belongs(text[b][i], text[b][i - 1])

(* A text has an end within its room, frame after frame, except the        *)
(* memory of web_buffer before it is first cleared.                        *)
TextsEnd ==
  \A b \in Buffer : Ended(text[b]) \/ (b = "web" /\ tx \in {"boot", "allocated"})

(* Between two frames the strings of the endpoints show the entries of the *)
(* last frame, each those of its group, in their order and with their data *)
EndpointsMatchFrame ==
  (tx = "wait" /\ text["web"][1] # End) =>
    \A b \in Strings :
      /\ Length(text[b]) = FullLength(b)
      /\ \A k \in KeyNo : Shows(b, k) =>
           \A p \in 1..2 : text[b][Place(b, k) + p] = text["web"][Place("web", k) + p]

(* What is copied, even out of a frame that is being composed, has its     *)
(* entries at their places: the right keys, in order, none of them twice.  *)
CopiesInOrder ==
  \A i \in 1..Len(reader.copy) :
    LET c == reader.copy[i] IN
    c \notin {End, Wild} =>
      /\ c.key \in KeyNo /\ Shows(reader.of, c.key)
      /\ i = Place(reader.of, c.key) + c.part

(* A copy that no step of the transmission task falls into is that of one  *)
(* whole frame (or of the empty text before the first), stays in its room  *)
(* and cannot fault.                                                       *)
QuietCopyIsWhole ==
  (Done /\ ~reader.disturbed) =>
    /\ fault # "copy" /\ ~Overrun
    /\ reader.length \in {0, FullLength(reader.of)}
    /\ \A i \in 1..reader.length : reader.copy[i] = text[reader.of][i]

(* The abstract board: the cells in front of the end of web_buffer, and    *)
(* those of the strings of the endpoints as the views of it.               *)
Facts(t) == IF Ended(t) THEN {t[i] : i \in 1..Length(t)} ELSE {}

Board == INSTANCE PortBoard WITH
  Key     <- KeyNo,
  View    <- Strings,
  ViewOf  <- Group,
  ValueOf <- [p \in ReadPort |-> ValueAt(p)],
  stored  <- [k \in KeyNo |-> nvs[Keys[k]]],
  board   <- Facts(text["web"]),
  views   <- [b \in Strings |-> Facts(text[b])]

(* Texts written cell by cell and ports stored between any two of them,    *)
(* also between the two steps of reading one, implement the abstract       *)
(* board: a key appears with the port stored in that moment, or with 254,  *)
(* and with what belongs to no other port; the endpoints are renewed from  *)
(* a complete frame, and no frame is dropped before they show it.          *)
ImplementsPortBoard == Board!Spec

(* A request is answered or its connection ends.                           *)
RequestEnds == httpd = "receive" ~> httpd = "idle" \/ fault # "none"

(* A port that has been stored for a key is shown in the frame, although   *)
(* the keys themselves are only loaded at the start: again and again the   *)
(* frame shows what is stored, unless longer ports are stored for the key  *)
(* again and again, and each time while the last one is being read.        *)
PortShown ==
  \A k \in KeyNo :
    \/ []<>(\/ fault # "none" \/ httpd = "restart"
            \/ text["web"][Place("web", k) + 1] = Cell(k, 1, nvs[Keys[k]]))
    \/ []<><<Digits(nvs'[Keys[k]]) > Digits(nvs[Keys[k]])>>_nvs
=============================================================================
