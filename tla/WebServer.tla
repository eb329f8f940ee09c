------------------------------ MODULE WebServer ------------------------------
(***************************************************************************)
(* The life of the local HTTP server (src/main/local_http_server.h and     *)
(* app_main): the main task starts it once, and the event loop task stops  *)
(* it when the Wi-Fi link is lost and starts it when an address is         *)
(* obtained again.  Both tasks go through start_webserver and share the    *)
(* variable server without a lock; start_webserver itself remembers, in a  *)
(* static variable that nothing ever resets, that it has run.              *)
(***************************************************************************)
EXTENDS Naturals, Sequences

CONSTANTS
  MaxEvents,   (* events waiting in the queue of the event loop            *)
  MemoryShort  (* whether calloc and httpd_start may run out of memory     *)

ASSUME MaxEventsAssumption   == MaxEvents \in Nat \ {0}
ASSUME MemoryShortAssumption == MemoryShort \in BOOLEAN

VARIABLES
  task,        (* where each of the two tasks is                           *)
  result,      (* what the start_webserver of each task is about to return *)
  server,      (* app_main's variable server                               *)
  serverData,  (* whether the static pointer server_data is set            *)
  httpd,       (* whether an HTTP server is running                        *)
  link,        (* whether the station has an address                       *)
  events,      (* events posted and not yet handled                        *)
  raced        (* history: the link has been lost between the registration *)
               (* of the handlers and the end of the main task             *)

vars == <<task, result, server, serverData, httpd, link, events, raced>>

Task == {"main", "event"}

(* What server can hold: nothing, the handle of the server, or one of the  *)
(* error codes that start_webserver returns in its place.                  *)
ErrorCode == {"ESP_ERR_INVALID_STATE", "ESP_ERR_NO_MEM"}
Handle    == {"NULL", "running"} \cup ErrorCode

(* The main task: "boot" before it comes to start_webserver, "done" after  *)
(* it.  The event task: "idle" between events.                             *)
Resting(t) == IF t = "main" THEN "done" ELSE "idle"

Init ==
  /\ task = [t \in Task |-> IF t = "main" THEN "boot" ELSE "idle"]
  /\ result = [t \in Task |-> "NULL"]
  /\ server = "NULL"
  /\ serverData = FALSE
  /\ httpd = FALSE
  /\ link = TRUE
  /\ events = <<>>
  /\ raced = FALSE

Go(t, place) == task' = [task EXCEPT ![t] = place]

-----------------------------------------------------------------------------
(* start_webserver, in task t                                              *)

\* Mutant of Enter: the static variable is not looked at.
EnterUnchecked(t) ==
  /\ Go(t, "allocate")
  /\ UNCHANGED <<result, server, serverData, httpd, link, events, raced>>

(* The check of the static variable: a second start returns an error code, *)
(* which the callers take for a handle.                                    *)
Enter(t) ==
  /\ IF serverData
       THEN /\ result' = [result EXCEPT ![t] = "ESP_ERR_INVALID_STATE"]
            /\ Go(t, "return")
       ELSE Go(t, "allocate") /\ UNCHANGED result
  /\ UNCHANGED <<server, serverData, httpd, link, events, raced>>

(* calloc of the server data; when it fails, another error code is         *)
(* returned and the static variable stays empty.                           *)
Allocate(t) ==
  /\ task[t] = "allocate"
  /\ \/ /\ serverData' = TRUE
        /\ Go(t, "start")
        /\ UNCHANGED result
     \/ /\ MemoryShort
        /\ serverData' = FALSE
        /\ result' = [result EXCEPT ![t] = "ESP_ERR_NO_MEM"]
        /\ Go(t, "return")
  /\ UNCHANGED <<server, httpd, link, events, raced>>

\* Mutants of Start: when the server did not start, the local variable
\* server is returned, which nothing has set, or a handle of nothing.
StartUninitialised(t) ==
  /\ task[t] = "start"
  /\ \/ ~httpd /\ httpd' = TRUE /\ result' = [result EXCEPT ![t] = "running"]
     \/ /\ httpd \/ MemoryShort
        /\ result' = [result EXCEPT ![t] = "uninitialised"]
        /\ UNCHANGED httpd
  /\ Go(t, "return")
  /\ UNCHANGED <<server, serverData, link, events, raced>>

StartUnchecked(t) ==
  /\ task[t] = "start"
  /\ httpd' = TRUE
  /\ result' = [result EXCEPT ![t] = "running"]
  /\ Go(t, "return")
  /\ UNCHANGED <<server, serverData, link, events, raced>>

(* httpd_start: refused while a server holds the port, or for lack of      *)
(* memory; start_webserver then returns NULL.                              *)
Start(t) ==
  /\ task[t] = "start"
  /\ \/ ~httpd /\ httpd' = TRUE /\ result' = [result EXCEPT ![t] = "running"]
     \/ /\ httpd \/ MemoryShort
        /\ result' = [result EXCEPT ![t] = "NULL"]
        /\ UNCHANGED httpd
  /\ Go(t, "return")
  /\ UNCHANGED <<server, serverData, link, events, raced>>

\* Mutant of Return: the caller does not store the handle.
ReturnUnstored(t) ==
  /\ task[t] = "return"
  /\ result' = [result EXCEPT ![t] = "NULL"]
  /\ Go(t, Resting(t))
  /\ UNCHANGED <<server, serverData, httpd, link, events, raced>>

(* The caller stores what start_webserver returned.                        *)
Return(t) ==
  /\ task[t] = "return"
  /\ server' = result[t]
  /\ result' = [result EXCEPT ![t] = "NULL"]
  /\ Go(t, Resting(t))
  /\ UNCHANGED <<serverData, httpd, link, events, raced>>

-----------------------------------------------------------------------------
(* The main task comes to one of its two calls of start_webserver ...      *)
MainStart ==
  /\ task["main"] = "boot"
  /\ Enter("main")

(* ... or ends without, when the board's identity cannot be obtained.      *)
MainGivesUp ==
  /\ task["main"] = "boot"
  /\ Go("main", "done")
  /\ UNCHANGED <<result, server, serverData, httpd, link, events, raced>>

(* The event loop task takes the next event.                               *)
Dispatch(e) ==
  /\ task["event"] = "idle"
  /\ events # <<>> /\ Head(events) = e
  /\ events' = Tail(events)

(* connect_handler                                                         *)
Connect ==
  /\ Dispatch("connect")
  /\ Go("event", IF server = "NULL" THEN "enter" ELSE "idle")
  /\ UNCHANGED <<result, server, serverData, httpd, link, raced>>

EventStart ==
  /\ task["event"] = "enter"
  /\ Enter("event")

\* Mutant of Disconnect: the handle is cleared and the server is left running.
DisconnectForgets ==
  /\ Dispatch("disconnect")
  /\ server' = "NULL"
  /\ UNCHANGED <<task, result, serverData, httpd, link, raced>>

(* disconnect_handler: the server is stopped.  httpd_stop on the error     *)
(* code follows an address that is not one, and the board resets.          *)
Disconnect ==
  /\ Dispatch("disconnect")
  /\ CASE server = "NULL" -> UNCHANGED <<task, httpd, raced>>
       [] server = "running" -> httpd' = FALSE /\ Go("event", "stopped")
       [] OTHER -> Go("event", "crash") /\ UNCHANGED httpd
  /\ UNCHANGED <<result, server, serverData, link, raced>>

(* ... and the variable is cleared once the server has stopped.            *)
Stopped ==
  /\ task["event"] = "stopped"
  /\ server' = "NULL"
  /\ Go("event", "idle")
  /\ UNCHANGED <<result, serverData, httpd, link, events, raced>>

(* The reset starts everything over.                                       *)
Reboot ==
  /\ task["event"] = "crash"
  /\ task' = [t \in Task |-> IF t = "main" THEN "boot" ELSE "idle"]
  /\ result' = [t \in Task |-> "NULL"]
  /\ server' = "NULL" /\ serverData' = FALSE /\ httpd' = FALSE
  /\ link' = TRUE /\ events' = <<>> /\ raced' = FALSE

-----------------------------------------------------------------------------
(* The Wi-Fi driver posts an event for every loss, also of a link that is  *)
(* already lost (a failed attempt to reconnect), and for every address.    *)
LinkLost ==
  /\ Len(events) < MaxEvents
  /\ link' = FALSE
  /\ events' = Append(events, "disconnect")
  /\ raced' = (raced \/ task["main"] # "done")
  /\ UNCHANGED <<task, result, server, serverData, httpd>>

LinkUp ==
  /\ ~link
  /\ Len(events) < MaxEvents
  /\ link' = TRUE
  /\ events' = Append(events, "connect")
  /\ UNCHANGED <<task, result, server, serverData, httpd, raced>>

-----------------------------------------------------------------------------
Main  == MainStart \/ MainGivesUp \/ Allocate("main") \/ Start("main") \/ Return("main")
Event == Connect \/ EventStart \/ Disconnect \/ Stopped \/ Allocate("event")
         \/ Start("event") \/ Return("event") \/ Reboot
Wifi  == LinkLost \/ LinkUp

Next == Main \/ Event \/ Wifi

(* Both tasks are scheduled, and example_connect's handler reconnects the  *)
(* station; nothing forces the link to be lost.                            *)
Fairness == WF_vars(Main) /\ WF_vars(Event) /\ WF_vars(LinkUp)

Spec == Init /\ [][Next]_vars /\ Fairness

-----------------------------------------------------------------------------
MainPlace  == {"boot", "allocate", "start", "return", "done"}
EventPlace == {"idle", "enter", "allocate", "start", "return", "stopped", "crash"}

(* Type correctness.                                                       *)
TypeOK ==
  /\ task \in [Task -> MainPlace \cup EventPlace]
  /\ task["main"] \in MainPlace /\ task["event"] \in EventPlace
  /\ result \in [Task -> Handle]
  /\ server \in Handle
  /\ {serverData, httpd, link, raced} \subseteq BOOLEAN
  /\ events \in Seq({"connect", "disconnect"})
  /\ Len(events) <= MaxEvents

(* The handle in server is that of a running server, except for the moment *)
(* in which disconnect_handler has stopped it and not yet cleared the      *)
(* variable, even when both tasks are starting servers.                    *)
HandleIsLive == server = "running" => httpd \/ task["event"] = "stopped"

(* A running server can be stopped: its handle is in server or on its way  *)
(* there, unless the two tasks have raced.                                 *)
NoOrphan ==
  raced \/ (httpd => server = "running" \/ \E t \in Task : result[t] = "running")

(* The error code gets into server only after start_webserver has already  *)
(* run to its end once, and from then on no server will run until a reset. *)
DeadForGood ==
  (server = "ESP_ERR_INVALID_STATE" /\ ~raced)
    => serverData /\ ~httpd /\ \A t \in Task : task[t] # "start"

(* A loss that is in the queue while a server runs stops it, whatever else *)
(* happens before the event is handled.                                    *)
LossStopsServer ==
  (~raced /\ server = "running" /\ \E i \in 1..Len(events) : events[i] = "disconnect")
    ~> ~httpd

(* The abstract life of the server: its one start begins when the static   *)
(* variable is set and is over when that task comes back from httpd_start. *)
Stage ==
  CASE \E t \in Task : task[t] = "start" -> "starting"
    [] serverData /\ \A t \in Task : task[t] # "start" -> "spent"
    [] OTHER -> "fresh"

Life == INSTANCE ServerLife WITH
  running <- httpd,
  stage   <- Stage,
  void    <- raced

(* From one reset to the next the two tasks start the server once and stop *)
(* it once, in whatever order addresses come and go, unless they race.     *)
ImplementsServerLife == Life!Spec

(* "Starting webserver" (line 2085): after the connection is back, the     *)
(* server comes back too, unless the link is lost again.                   *)
ServerReturns == task["event"] = "enter" ~> httpd \/ ~link \/ task["event"] = "crash"
=============================================================================
