--------------------------- MODULE WebServerProofs ---------------------------
(***************************************************************************)
(* Proofs about WebServer, for a queue of events of any length: the types, *)
(* and that the two tasks, which share the handle without a lock, never    *)
(* leave in it that of a server that is not running.                       *)
(***************************************************************************)
EXTENDS WebServer, TLAPS

(* Of the places a handle can be in (the variable, the result of either    *)
(* task) at most one holds that of a running server; disconnect_handler    *)
(* may still have to clear the variable when the main task gets a new one. *)
OneHandle ==
  /\ \A t \in Task : result[t] = "running" => httpd /\ task[t] = "return"
  /\ server = "running" /\ task["event"] # "stopped" => httpd
  /\ ~(result["main"] = "running" /\ result["event"] = "running")
  /\ \A t \in Task : result[t] = "running" /\ server = "running"
                       => t = "main" /\ task["event"] = "stopped"


(* A queue stays one when an event is posted, and an empty one is one.     *)
LEMMA QueueType ==
  /\ <<>> \in Seq({"connect", "disconnect"}) /\ Len(<<>>) <= MaxEvents
  /\ \A q \in Seq({"connect", "disconnect"}), e \in {"connect", "disconnect"} :
       Len(q) < MaxEvents => /\ Append(q, e) \in Seq({"connect", "disconnect"})
                             /\ Len(Append(q, e)) <= MaxEvents
BY MaxEventsAssumption

(* The handle and the other variables have their types for ever.           *)
THEOREM TypeCorrect == Spec => []TypeOK
<1> USE DEF TypeOK, Task, MainPlace, EventPlace, Handle, ErrorCode
<1>1. Init => TypeOK
  BY QueueType DEF Init
<1>2. TypeOK /\ [Next]_vars => TypeOK'
  <2> SUFFICES ASSUME TypeOK, [Next]_vars PROVE TypeOK'
    OBVIOUS
  <2> USE MemoryShortAssumption, MaxEventsAssumption DEF Go
  <2>1. CASE MainStart
    BY <2>1 DEF MainStart, Enter
  <2>2. CASE MainGivesUp
    BY <2>2 DEF MainGivesUp
  <2>3. ASSUME NEW t \in Task, Allocate(t) PROVE TypeOK'
    BY <2>3 DEF Allocate
  <2>4. ASSUME NEW t \in Task, Start(t) PROVE TypeOK'
    BY <2>4 DEF Start
  <2>5. ASSUME NEW t \in Task, Return(t) PROVE TypeOK'
    BY <2>5 DEF Return, Resting
  <2>6. CASE Connect
    BY <2>6 DEF Connect, Dispatch
  <2>7. CASE EventStart
    BY <2>7 DEF EventStart, Enter
  <2>8. CASE Disconnect
    <3>1. events' \in Seq({"connect", "disconnect"}) /\ Len(events') <= MaxEvents
      BY <2>8 DEF Disconnect, Dispatch
    <3>2. CASE server = "NULL"
      BY <2>8, <3>1, <3>2 DEF Disconnect
    <3>3. CASE server = "running"
      BY <2>8, <3>1, <3>3 DEF Disconnect
    <3>4. CASE server \in ErrorCode
      BY <2>8, <3>1, <3>4 DEF Disconnect
    <3> QED
      BY <3>2, <3>3, <3>4
  <2>9. CASE Stopped
    BY <2>9 DEF Stopped
  <2>10. CASE Reboot
    BY <2>10, QueueType DEF Reboot
  <2>11. CASE LinkLost
    <3>1. events' \in Seq({"connect", "disconnect"}) /\ Len(events') <= MaxEvents
      BY <2>11, QueueType DEF LinkLost
    <3> QED
      BY <2>11, <3>1 DEF LinkLost
  <2>12. CASE LinkUp
    <3>1. events' \in Seq({"connect", "disconnect"}) /\ Len(events') <= MaxEvents
      BY <2>12, QueueType DEF LinkUp
    <3> QED
      BY <2>12, <3>1 DEF LinkUp
  <2>13. CASE UNCHANGED vars
    BY <2>13 DEF vars
  <2> QED
    BY <2>1, <2>2, <2>3, <2>4, <2>5, <2>6, <2>7, <2>8, <2>9, <2>10, <2>11, <2>12, <2>13
       DEF Next, Main, Event, Wifi
<1> QED
  BY <1>1, <1>2, PTL DEF Spec

(* No step of either task makes two handles out of one, or leaves one to a *)
(* server that has stopped.                                                *)
LEMMA OneHandleStep == ASSUME TypeOK, OneHandle, [Next]_vars PROVE OneHandle'
<1> USE DEF TypeOK, OneHandle, Task, Go
<1>1. CASE MainStart
  BY <1>1 DEF MainStart, Enter
<1>2. CASE MainGivesUp
  BY <1>2 DEF MainGivesUp
<1>3. ASSUME NEW t \in Task, Allocate(t) PROVE OneHandle'
  BY <1>3 DEF Allocate
<1>4. ASSUME NEW t \in Task, Start(t) PROVE OneHandle'
  BY <1>4 DEF Start
<1>5. ASSUME NEW t \in Task, Return(t) PROVE OneHandle'
  BY <1>5 DEF Return, Resting
<1>6. CASE Connect
  BY <1>6 DEF Connect, Dispatch
<1>7. CASE EventStart
  BY <1>7 DEF EventStart, Enter
<1>8. CASE Disconnect
  BY <1>8 DEF Disconnect, Dispatch
<1>9. CASE Stopped
  BY <1>9 DEF Stopped
<1>10. CASE Reboot
  BY <1>10 DEF Reboot
<1>11. CASE LinkLost \/ LinkUp
  BY <1>11 DEF LinkLost, LinkUp
<1>12. CASE UNCHANGED vars
  BY <1>12 DEF vars
<1> QED
  BY <1>1, <1>2, <1>3, <1>4, <1>5, <1>6, <1>7, <1>8, <1>9, <1>10, <1>11, <1>12
     DEF Next, Main, Event, Wifi

(* The handle in the shared variable is that of a running server, whatever *)
(* the order in which the two tasks start, stop and store.                 *)
THEOREM HandleAlwaysLive == Spec => []HandleIsLive
<1>1. Init => OneHandle
  BY DEF Init, OneHandle, Task
<1>2. TypeOK /\ OneHandle /\ [Next]_vars => OneHandle'
  BY OneHandleStep
<1>3. OneHandle => HandleIsLive
  BY DEF OneHandle, HandleIsLive
<1> QED
  BY <1>1, <1>2, <1>3, TypeCorrect, PTL DEF Spec

(* While nothing has raced the two tasks take turns: the main task has the *)
(* server to itself until it is done, and after that the event task starts *)
(* one only while there is none.  Whoever is about to start one finds none *)
(* running; the static variable has been set before one runs; an error     *)
(* code for a second start means that none runs.                           *)
Turns ==
  /\ task["main"] # "done" => /\ link /\ events = <<>> /\ server = "NULL"
                              /\ task["event"] = "idle"
  /\ task["main"] = "boot" => ~serverData
  /\ task["event"] \in {"enter", "allocate", "start", "return"} => server = "NULL"
  /\ task["event"] = "enter" => ~httpd
  /\ \A t \in Task : task[t] \in {"allocate", "start"} => ~httpd
  /\ \A t \in Task : task[t] = "allocate" => ~serverData
  /\ \A t \in Task : task[t] = "start" => serverData
  /\ task["event"] = "stopped" => server = "running" /\ ~httpd
  /\ httpd => serverData

(* What a task is about to return is what server will hold.                *)
Codes ==
  /\ \A t \in Task : result[t] # "NULL" => task[t] = "return"
  /\ \A t \in Task : result[t] = "ESP_ERR_INVALID_STATE" => serverData /\ ~httpd
  /\ server = "ESP_ERR_INVALID_STATE" => serverData /\ ~httpd
  /\ httpd => server = "running" \/ \E t \in Task : result[t] = "running"

InTurn == raced \/ (Turns /\ Codes)

(* Every step keeps the turns, or is the one that ends them.               *)
LEMMA InTurnStep == ASSUME TypeOK, InTurn, [Next]_vars PROVE InTurn'
<1> USE DEF TypeOK, InTurn, Turns, Codes, Task, Go
<1>1. CASE MainStart
  BY <1>1 DEF MainStart, Enter
<1>2. CASE MainGivesUp
  BY <1>2 DEF MainGivesUp
<1>3. ASSUME NEW t \in Task, Allocate(t) PROVE InTurn'
  BY <1>3 DEF Allocate
<1>4. ASSUME NEW t \in Task, Start(t) PROVE InTurn'
  BY <1>4 DEF Start
<1>5. ASSUME NEW t \in Task, Return(t) PROVE InTurn'
  BY <1>5 DEF Return, Resting
<1>6. CASE Connect
  BY <1>6 DEF Connect, Dispatch
<1>7. CASE EventStart
  BY <1>7 DEF EventStart, Enter
<1>8. CASE Disconnect
  BY <1>8 DEF Disconnect, Dispatch
<1>9. CASE Stopped
  BY <1>9 DEF Stopped
<1>10. CASE Reboot
  BY <1>10 DEF Reboot
<1>11. CASE LinkLost
  BY <1>11 DEF LinkLost
<1>12. CASE LinkUp
  BY <1>12 DEF LinkUp
<1>13. CASE UNCHANGED vars
  BY <1>13 DEF vars
<1> QED
  BY <1>1, <1>2, <1>3, <1>4, <1>5, <1>6, <1>7, <1>8, <1>9, <1>10, <1>11, <1>12, <1>13
     DEF Next, Main, Event, Wifi

LEMMA AlwaysInTurn == Spec => []InTurn
<1>1. Init => InTurn
  BY DEF Init, InTurn, Turns, Codes, Task
<1>2. TypeOK /\ InTurn /\ [Next]_vars => InTurn'
  BY InTurnStep
<1> QED
  BY <1>1, <1>2, TypeCorrect, PTL DEF Spec

(* A running server can always be stopped: its handle is in server or on   *)
(* its way there, unless the link was lost before the main task was done.  *)
THEOREM NeverOrphaned == Spec => []NoOrphan
<1>1. InTurn => NoOrphan
  BY DEF InTurn, Codes, NoOrphan
<1> QED
  BY <1>1, AlwaysInTurn, PTL

(* Once the error code of a second start is in server, no server runs, and *)
(* none is being started.                                                  *)
THEOREM DeadOnceRefused == Spec => []DeadForGood
<1>1. TypeOK /\ InTurn => DeadForGood
  BY DEF TypeOK, MainPlace, EventPlace, InTurn, Turns, Codes, DeadForGood, Task
<1> QED
  BY <1>1, AlwaysInTurn, TypeCorrect, PTL
-----------------------------------------------------------------------------
(* The refinement: both tasks, the static variable and the queue implement *)
(* a server that is started once.                                          *)
Starting == \E t \in Task : task[t] = "start"

LEMMA StageIs ==
  /\ Starting => Stage = "starting"
  /\ (serverData /\ ~Starting) => Stage = "spent"
  /\ (~serverData /\ ~Starting) => Stage = "fresh"
  BY DEF Stage, Starting

LEMMA StageIsNext ==
  /\ Starting' => Stage' = "starting"
  /\ (serverData' /\ ~Starting') => Stage' = "spent"
  /\ (~serverData' /\ ~Starting') => Stage' = "fresh"
  BY DEF Stage, Starting

LEMMA LifeStep ==
  ASSUME TypeOK, InTurn, InTurn', [Next]_vars PROVE [Life!Next]_Life!vars
<1> USE DEF TypeOK, Task, Go, Starting
<1>1. CASE raced'
  BY <1>1 DEF Life!Next, Life!Lapse
<1>2. CASE Reboot
  <2>1. httpd' = FALSE /\ serverData' = FALSE /\ raced' = FALSE /\ ~Starting'
    BY <1>2 DEF Reboot
  <2>2. Stage' = "fresh"
    BY <2>1, StageIsNext
  <2> QED
    BY <2>1, <2>2 DEF Life!Next, Life!Reset
<1>3. CASE ~raced' /\ ~Reboot
  <2>1. ~raced /\ raced' = raced
    <3>1. CASE LinkLost
      BY <1>3, <3>1 DEF LinkLost
    <3>2. CASE ~LinkLost
      <4>1. raced' = raced
        BY <1>3, <3>2 DEF Next, Main, Event, Wifi, vars, MainStart, Enter, MainGivesUp,
           Allocate, Start, Return, Connect, EventStart, Disconnect, Stopped, LinkUp
      <4> QED
        BY <1>3, <4>1
    <3> QED
      BY <3>1, <3>2
  <2>2. Turns /\ Turns'
    BY <1>3, <2>1 DEF InTurn
  <2> USE DEF Turns
  <2>3. ASSUME NEW t \in Task, Start(t) PROVE Life!Start
    <3>1. ~httpd /\ httpd' \in BOOLEAN /\ Starting /\ serverData'
      BY <2>2, <2>3 DEF Start
    <3>2. ~Starting'
      BY <2>2, <2>3 DEF Start
    <3>3. Stage = "starting" /\ Stage' = "spent"
      BY <3>1, <3>2, StageIs, StageIsNext
    <3> QED
      BY <2>1, <3>1, <3>3 DEF Life!Start
  <2>4. ASSUME NEW t \in Task, Allocate(t) PROVE Life!Begin \/ UNCHANGED Life!vars
    <3>1. httpd' = httpd /\ ~serverData /\ ~Starting /\ (Starting' \/ (~serverData' /\ ~Starting'))
      BY <2>2, <2>4 DEF Allocate
    <3>2. Stage = "fresh" /\ Stage' \in {"starting", "fresh"}
      BY <3>1, StageIs, StageIsNext
    <3> QED
      BY <2>1, <3>1, <3>2 DEF Life!Begin, Life!vars
  <2>5. CASE Disconnect
    <3>1. serverData' = serverData /\ (Starting' <=> Starting)
      BY <2>5 DEF Disconnect, Dispatch
    <3>2. Stage' = Stage
      BY <3>1, StageIs, StageIsNext
    <3>3. httpd' = httpd \/ (httpd /\ httpd' = FALSE /\ serverData /\ ~Starting)
      BY <2>2, <2>5 DEF Disconnect
    <3>4. httpd' = httpd \/ (httpd /\ httpd' = FALSE /\ Stage = "spent")
      BY <3>3, StageIs
    <3> QED
      BY <2>1, <3>2, <3>4 DEF Life!Next, Life!Stop, Life!vars
  <2>6. CASE MainStart \/ MainGivesUp \/ (\E t \in Task : Return(t)) \/ Connect \/ EventStart
             \/ Stopped \/ LinkLost \/ LinkUp \/ UNCHANGED vars
    <3>1. httpd' = httpd /\ serverData' = serverData
      BY <2>6 DEF MainStart, MainGivesUp, Return, Connect, EventStart, Enter, Stopped,
         LinkLost, LinkUp, vars
    <3>2. \A u \in Task : task'[u] = "start" <=> task[u] = "start"
      BY <2>6 DEF MainStart, MainGivesUp, Return, Resting, Connect, EventStart, Enter, Stopped,
         Dispatch, LinkLost, LinkUp, vars
    <3>3. Starting' <=> Starting
      BY <3>2
    <3>4. Stage' = Stage
      BY <3>1, <3>3, StageIs, StageIsNext
    <3> QED
      BY <2>1, <3>1, <3>4 DEF Life!vars
  <2> QED
    BY <1>3, <2>1, <2>3, <2>4, <2>5, <2>6
       DEF Next, Main, Event, Wifi, Life!Next, Life!vars
<1> QED
  BY <1>1, <1>2, <1>3

(* From one reset of the board to the next the server is started at most   *)
(* once, by whichever task and however often the link comes and goes,      *)
(* unless the link was lost before the main task was done.                 *)
THEOREM LivesOnce == Spec => ImplementsServerLife
<1>1. Init => Life!Init
  <2> SUFFICES ASSUME Init PROVE Life!Init
    OBVIOUS
  <2>1. ~Starting /\ serverData = FALSE
    BY DEF Init, Starting
  <2>2. Stage = "fresh"
    BY <2>1, StageIs
  <2> QED
    BY <2>2 DEF Init, Life!Init
<1>2. TypeOK /\ InTurn /\ InTurn' /\ [Next]_vars => [Life!Next]_Life!vars
  BY LifeStep
<1> QED
  BY <1>1, <1>2, TypeCorrect, AlwaysInTurn, PTL DEF Spec, ImplementsServerLife, Life!Spec
=============================================================================
