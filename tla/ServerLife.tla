----------------------------- MODULE ServerLife -----------------------------
(***************************************************************************)
(* What the tasks that start and stop the local HTTP server make of it,    *)
(* seen from outside: one start, successful or not, from one reset of the  *)
(* board to the next, and after it at most a stop.                         *)
(***************************************************************************)
VARIABLES
  running,  (* whether a server listens                                    *)
  stage,    (* "fresh", "starting" or "spent": what has become of the one  *)
            (* start                                                       *)
  void      (* the promise has lapsed: the two tasks have raced            *)

vars == <<running, stage, void>>

Init == running = FALSE /\ stage = "fresh" /\ void = FALSE

(* The one start, which may fail.                                          *)
Begin ==
  /\ stage = "fresh" /\ stage' = "starting"
  /\ UNCHANGED <<running, void>>

Start ==
  /\ stage = "starting" /\ stage' = "spent"
  /\ ~running /\ running' \in BOOLEAN
  /\ UNCHANGED void

Stop ==
  /\ stage = "spent"
  /\ running /\ running' = FALSE
  /\ UNCHANGED <<stage, void>>

Reset == running' = FALSE /\ stage' = "fresh" /\ void' = FALSE

Lapse == void'

Next == Begin \/ Start \/ Stop \/ Reset \/ Lapse

Spec == Init /\ [][Next]_vars
=============================================================================
