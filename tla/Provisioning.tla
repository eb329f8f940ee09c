---------------------------- MODULE Provisioning ----------------------------
(***************************************************************************)
(* What the board keeps in its non-volatile storage (NVS) and how it gets  *)
(* there: the first boot erases the storage, asks the STM32 for its        *)
(* identity and writes the initial values (app_main, config_initial.h);    *)
(* the endpoints of the local server write settings and, with SETPORTS,    *)
(* mark the board as matriculated (local_http_server.h).  Every write is   *)
(* of one key, and the power may go between any two of them.               *)
(***************************************************************************)
EXTENDS Naturals, Sequences, Functions

CONSTANTS
  PortKeys,   (* the names under which SETPORTS stores ports, in order     *)
  ReadAs,     (* the name under which each of them is read at boot         *)
  TooLong,    (* names longer than NVS accepts: writing them fails         *)
  Endpoints   (* the requests that are made                                *)

Identity == <<"7_SERIAL_ID", "7_USER_ID", "7_AHSN_BASE64">>
Status   == "7_STATUS-MATR"
Token    == "5_TOK-HTTPSER"

(* The settings that have an initial value, one for each group that is     *)
(* written together, in the order of valores_iniciales.                    *)
Settings == <<"4_SERVER-TIME", "1_TRAMA-TIME", "2_WIFI-AP-PASS",
              "2_WIFI-ST-PASS", "4_URL-LOGIN", Token>>

(* Names that are written and never read: DEFAULTESP spells those of the   *)
(* Wi-Fi with a lower-case i, and SERVER has a time of its own.            *)
Unread == {"2_WiFi-AP-PASS", "2_WiFi-ST-PASS", "4_SERVERTIME"}

Ports == Range(PortKeys)
Key   == Range(Identity) \cup Range(Settings) \cup Unread \cup {Status}
         \cup Ports \cup Range(ReadAs)

ASSUME PortKeysAssumption == PortKeys \in Seq(STRING) /\ ReadAs \in [Ports -> STRING]

(* Ports have names of their own (they begin with "1_", and none is that   *)
(* of the frame's period), and no other name is too long.                  *)
ASSUME NamesAssumption ==
  /\ Ports \cap (Range(Identity) \cup Range(Settings) \cup Unread \cup {Status}) = {}
  /\ TooLong \subseteq Ports

(* A stored value: the board's own ("id"), an initial or default one, one  *)
(* that the user has set, a port that is none, or what the status can be.  *)
Value == {"absent", "id", "factory", "user", "255", "0", "1"}

VARIABLES
  nvs,      (* the storage                                                 *)
  main,     (* where app_main is                                           *)
  todo,     (* the writes that app_main and the HTTP server have to do     *)
  doing,    (* the last request the HTTP server accepted since the boot    *)
  loaded,   (* keys_with_ports: the keys found to have a port at boot      *)
  server,   (* which task started the HTTP server, if any                  *)
  cached,   (* token_httser, the token that requests must carry            *)
  raced     (* history: the event loop has once started the server before  *)
            (* app_main did, on a new board or on a matriculated one       *)

volatile == <<main, todo, doing, loaded, server, cached>>
vars     == <<nvs, volatile, raced>>

Write    == Key \X Value
NoWrites == [main |-> <<>>, httpd |-> <<>>]

Init ==
  /\ nvs = [k \in Key |-> "absent"]
  /\ main = "start"
  /\ todo = NoWrites
  /\ doing = "none"
  /\ loaded = {}
  /\ server = "none"
  /\ cached = "absent"
  /\ raced = FALSE

-----------------------------------------------------------------------------
(* The writes of each operation, in their order                            *)

Puts(keys, v) == [i \in 1..Len(keys) |-> <<keys[i], v>>]

\* Mutant of Initial: the token of the server is forgotten.
InitialWithoutToken == Puts(SubSeq(Settings, 1, Len(Settings) - 1), "factory")

(* valores_iniciales                                                       *)
Initial == Puts(Settings, "factory")

\* Mutant of SetPorts: the status is written before the ports.
SetPortsStatusFirst == <<<<Status, "1">>>> \o Puts(PortKeys, "user")

(* setports_handler: a port for every key, and the status last.            *)
SetPorts == Puts(PortKeys, "user") \o <<<<Status, "1">>>>

\* Mutant of DefaultEsp: the status is written after the ports.
DefaultStatusLast ==
  Puts(<<"4_SERVER-TIME", "1_TRAMA-TIME", "2_WiFi-AP-PASS", "2_WiFi-ST-PASS",
         "4_URL-LOGIN", Token>>, "factory")
    \o Puts(PortKeys, "255") \o <<<<Status, "0">>>>

(* defaultesp_handler: the settings, the status and then the ports; there  *)
(* is no restart.                                                          *)
DefaultEsp ==
  Puts(<<"4_SERVER-TIME", "1_TRAMA-TIME", "2_WiFi-AP-PASS", "2_WiFi-ST-PASS",
         "4_URL-LOGIN", Token>>, "factory")
    \o <<<<Status, "0">>>> \o Puts(PortKeys, "255")

(* sethttp_handler, wifiap_handler, wifist_handler, trama_handler and      *)
(* server_handler                                                          *)
SetHttp == Puts(<<"4_URL-LOGIN", Token, "4_SERVER-TIME">>, "user")
WifiAp  == Puts(<<"2_WIFI-AP-PASS">>, "user")
WifiSt  == Puts(<<"2_WIFI-ST-PASS">>, "user")
Trama   == Puts(<<"1_TRAMA-TIME">>, "user")
Server  == Puts(<<"4_SERVERTIME">>, "user")

Writes == [SETPORTS |-> SetPorts, DEFAULTESP |-> DefaultEsp, SETHTTP |-> SetHttp,
           WIFIAP |-> WifiAp, WIFIST |-> WifiSt, TRAMA |-> Trama, SERVER |-> Server]

ASSUME EndpointsAssumption == Endpoints \subseteq DOMAIN Writes

-----------------------------------------------------------------------------
(* nvs_flash_erase closes the storage, and the first write of app_main,    *)
(* which goes through writex_nvs, opens it again.                          *)
Closed ==
  \/ main \in {"eraseRest", "request"}
  \/ main = "write" /\ Head(todo.main)[1] = Identity[1]

(* One write.  nvs_set_str refuses a name that is too long; nobody looks   *)
(* at the result.                                                          *)
Stored(k, v, closed) ==
  nvs' = IF closed \/ k \in TooLong THEN nvs ELSE [nvs EXCEPT ![k] = v]

(* app_main                                                                *)

\* Mutant of ReadStatus: the storage is erased on every boot.
ReadStatusErasing ==
  /\ main = "start"
  /\ main' = "erase"
  /\ UNCHANGED <<nvs, todo, doing, loaded, server, cached, raced>>

(* A board that is not matriculated takes the way of the first boot.       *)
ReadStatus ==
  /\ main = "start"
  /\ main' = IF nvs[Status] = "1" THEN "load" ELSE "erase"
  /\ UNCHANGED <<nvs, todo, doing, loaded, server, cached, raced>>

(* nvs_flash_erase clears one page after the other, and the power may go   *)
(* between them.                                                           *)
FirstPage == Range(Identity) \cup Range(Settings)

EraseFirst ==
  /\ main = "erase"
  /\ main' = "eraseRest"
  /\ nvs' = [k \in Key |-> IF k \in FirstPage THEN "absent" ELSE nvs[k]]
  /\ UNCHANGED <<todo, doing, loaded, server, cached, raced>>

EraseRest ==
  /\ main = "eraseRest"
  /\ main' = "request"
  /\ nvs' = [k \in Key |-> "absent"]
  /\ UNCHANGED <<todo, doing, loaded, server, cached, raced>>

(* request_and_store_ahsn: the STM32 answers, and the identity and the     *)
(* initial values will be written ...                                      *)
Identified ==
  /\ main = "request"
  /\ main' = "write"
  /\ todo' = [todo EXCEPT !.main = Puts(Identity, "id") \o Initial]
  /\ UNCHANGED <<nvs, doing, loaded, server, cached, raced>>

(* ... or it does not, or not in the right form, and app_main ends.        *)
Unidentified ==
  /\ main = "request"
  /\ main' = "halt"
  /\ Stored(Status, "0", FALSE)
  /\ UNCHANGED <<todo, doing, loaded, server, cached, raced>>

\* Mutant of MainWrite: the server is started before the last initial value
\* is written.
MainWriteServesEarly ==
  /\ main = "write"
  /\ Stored(Head(todo.main)[1], Head(todo.main)[2], FALSE)
  /\ todo' = [todo EXCEPT !.main = Tail(@)]
  /\ main' = IF Len(todo.main) = 2 THEN "serve" ELSE "write"
  /\ UNCHANGED <<doing, loaded, server, cached, raced>>

MainWrite ==
  /\ main = "write"
  /\ Stored(Head(todo.main)[1], Head(todo.main)[2], FALSE)
  /\ todo' = [todo EXCEPT !.main = Tail(@)]
  /\ main' = IF Len(todo.main) = 1 THEN "serve" ELSE "write"
  /\ UNCHANGED <<doing, loaded, server, cached, raced>>

(* load_keys_with_port_assigned_to_RAM                                     *)
HasPort(v) == v \notin {"absent", "255"}

Load ==
  /\ main = "load"
  /\ loaded' = {k \in Ports : HasPort(nvs[ReadAs[k]])}
  /\ main' = "serveMatriculated"
  /\ UNCHANGED <<nvs, todo, doing, server, cached, raced>>

(* start_webserver takes the token as it is now, once: a second start      *)
(* returns before it comes to the token.                                   *)
StartedBy(who) ==
  IF server = "none" THEN server' = who /\ cached' = nvs[Token]
                     ELSE UNCHANGED <<server, cached>>

MainServe ==
  /\ main \in {"serve", "serveMatriculated"}
  /\ StartedBy("main")
  /\ main' = IF main = "serve" THEN "waiting" ELSE "running"
  /\ UNCHANGED <<nvs, todo, doing, loaded, raced>>

(* connect_handler, when the link comes back before app_main has started   *)
(* the server, or when it has ended without.                               *)
EventServe ==
  /\ server = "none"
  /\ main \notin {"waiting", "running"}
  /\ server' = "event"
  /\ cached' = nvs[Token]
  /\ raced' = (raced \/ main # "halt")
  /\ UNCHANGED <<nvs, main, todo, doing, loaded>>

-----------------------------------------------------------------------------
(* The HTTP server, which handles one request at a time                    *)

(* A request with the right token; others change nothing.                  *)
Request(e) ==
  /\ server # "none" /\ cached # "absent"
  /\ todo.httpd = <<>>
  /\ todo' = [todo EXCEPT !.httpd = Writes[e]]
  /\ doing' = e
  /\ UNCHANGED <<nvs, main, loaded, server, cached, raced>>

HttpdWrite ==
  /\ todo.httpd # <<>>
  /\ Stored(Head(todo.httpd)[1], Head(todo.httpd)[2], Closed)
  /\ todo' = [todo EXCEPT !.httpd = Tail(@)]
  /\ UNCHANGED <<main, doing, loaded, server, cached, raced>>

-----------------------------------------------------------------------------
(* Everything but the storage starts over.                                 *)
Restart ==
  /\ main' = "start" /\ todo' = NoWrites /\ doing' = "none"
  /\ loaded' = {} /\ server' = "none" /\ cached' = "absent"
  /\ UNCHANGED <<nvs, raced>>

(* The power goes at any time; resetesp_handler restarts the board between *)
(* two requests; and a request to a server that found no token resets it,  *)
(* at the comparison with a null pointer.                                  *)
PowerLoss == Restart
ResetEsp  == server # "none" /\ todo.httpd = <<>> /\ cached # "absent" /\ Restart
NullToken == server # "none" /\ cached = "absent" /\ Restart

Next ==
  \/ ReadStatus \/ EraseFirst \/ EraseRest \/ Identified \/ Unidentified
  \/ MainWrite \/ Load \/ MainServe \/ EventServe
  \/ HttpdWrite \/ \E e \in Endpoints : Request(e)
  \/ PowerLoss \/ ResetEsp \/ NullToken

Spec == Init /\ [][Next]_vars

-----------------------------------------------------------------------------
MainPlace == {"start", "erase", "eraseRest", "request", "write", "load", "serve",
              "serveMatriculated", "waiting", "running", "halt"}

(* Type correctness; app_main has writes to do only while it is writing,   *)
(* and the HTTP server only while it is there.                             *)
TypeOK ==
  /\ nvs \in [Key -> Value]
  /\ main \in MainPlace
  /\ todo \in [main : Seq(Write), httpd : Seq(Write)]
  /\ todo.main # <<>> <=> main = "write"
  /\ todo.httpd # <<>> => server # "none"
  /\ doing \in Endpoints \cup {"none"}
  /\ loaded \subseteq Ports
  /\ server \in {"none", "main", "event"}
  /\ cached \in {"absent", "factory", "user"}
  /\ raced \in BOOLEAN

(* The mark "1" in the storage stands for a complete one, wherever power   *)
(* was lost: identity, settings and every port the storage accepts are     *)
(* there, and none of the ports is left over from a reset to the defaults. *)
MatriculatedComplete ==
  nvs[Status] = "1" /\ ~raced =>
    /\ \A k \in Range(Identity) \cup Range(Settings) : nvs[k] # "absent"
    /\ \A k \in Ports \ TooLong : nvs[k] = "user"

(* A server that app_main has started has a token to compare with.         *)
TokenUsable == server = "main" /\ ~raced => cached # "absent"

(* A board that has just been prepared has all that a first boot is for,   *)
(* even if the event loop has started the server meanwhile and requests    *)
(* have been stored between the writes of app_main.                        *)
PreparedWhenServing ==
  main \in {"serve", "waiting"} =>
    \A k \in Range(Identity) \cup Range(Settings) : nvs[k] # "absent"

(* A matriculated board never loses a setting of its user, at power        *)
(* failures and boots included, except to a reset to the defaults.         *)
SettingsSurvive ==
  [][\A k \in Range(Settings) :
       nvs[Status] = "1" /\ ~raced /\ nvs[k] = "user" /\ nvs'[k] # "user"
         => doing = "DEFAULTESP" /\ todo.httpd # <<>>]_vars

(* A matriculated board that runs has found, at boot, every key that is    *)
(* stored and looked for under the same name.                              *)
ConfiguredKeysLoaded ==
  main = "running" /\ ~raced => {k \in Ports \ TooLong : ReadAs[k] = k} \subseteq loaded

(* "Data PORTS saved" (line 1557), and load_keys_with_port_assigned_to_RAM *)
(* loads "cuales llaves se encuentran habilitadas en el endpoint": all of  *)
(* them are there when a matriculated board runs.                          *)
PortsReachRam == main = "running" /\ ~raced => loaded = Ports

(* "Default reset in progress.." (line 648): when it is over, no setting   *)
(* of the user is left.                                                    *)
DefaultsRestored ==
  doing = "DEFAULTESP" /\ todo.httpd = <<>> => \A k \in Range(Settings) : nvs[k] # "user"

-----------------------------------------------------------------------------
(* The abstract registration: the mark, and what is stored of the settings *)
(* and of the ports that the storage accepts.                              *)
Required == Range(Identity) \cup Range(Settings) \cup (Ports \ TooLong)
There(k) == IF k \in Ports THEN nvs[k] = "user" ELSE nvs[k] # "absent"

Registering == INSTANCE Registration WITH
  Needed     <- Required,
  registered <- nvs[Status] = "1",
  present    <- {k \in Required : There(k)},
  void       <- raced

(* The single writes of both boots and of the requests, cut short by power *)
(* losses, implement the abstract registration.                            *)
ImplementsRegistration == Registering!Spec
=============================================================================
