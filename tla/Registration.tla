---------------------------- MODULE Registration ----------------------------
(***************************************************************************)
(* What the storage promises about the registration of a board, whatever   *)
(* the number of single writes that carry it out and wherever power is     *)
(* lost between them: a board is registered in one step, with all it needs *)
(* there, and as long as it is registered nothing of that is lost.         *)
(***************************************************************************)
CONSTANT Needed      (* what a registered board needs                      *)

VARIABLES
  registered,  (* whether the board is taken to be registered              *)
  present,     (* what of the needed is there                              *)
  void         (* the promise has lapsed: the storage was written to while *)
               (* it was being prepared                                    *)

vars == <<registered, present, void>>

Init == registered = FALSE /\ present = {} /\ void = FALSE

(* A board that is not registered is erased, filled and configured freely. *)
Prepare ==
  /\ ~registered /\ ~registered'
  /\ present' \subseteq Needed
  /\ UNCHANGED void

Register ==
  /\ ~registered /\ registered'
  /\ present = Needed
  /\ UNCHANGED <<present, void>>

(* Whatever takes the registration away takes nothing else in that step.   *)
Deregister ==
  /\ registered /\ ~registered'
  /\ UNCHANGED <<present, void>>

Lapse == void'

Next == Prepare \/ Register \/ Deregister \/ Lapse

Spec == Init /\ [][Next]_vars
=============================================================================
