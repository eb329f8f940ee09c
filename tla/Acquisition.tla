----------------------------- MODULE Acquisition -----------------------------
(***************************************************************************)
(* What the acquisition of sensor values promises to the rest of the       *)
(* gateway, whatever tasks, queues and buffers carry it out: in each cycle *)
(* some modules answer, each answer becomes the current value of the       *)
(* module that is marked as having answered, and the report, when it       *)
(* changes, shows exactly the modules that answered.                       *)
(***************************************************************************)
CONSTANTS
  Module,   (* the modules that can be asked              *)
  Visible   (* those the report has room for              *)

VARIABLES
  answered, (* modules marked as having answered          *)
  current,  (* modules whose stored value is of the cycle *)
  report    (* modules whose value the report shows       *)

vars == <<answered, current, report>>

Init == answered = {} /\ current = {} /\ report = {}

(* One module answers: its value and its mark go together.                 *)
Collect(m) ==
  /\ answered' = answered \cup {m}
  /\ current'  = current \cup {m}
  /\ UNCHANGED report

(* The report shows all that answered and nothing else.                    *)
Publish ==
  /\ report' = answered \cap Visible
  /\ UNCHANGED <<answered, current>>

(* A new cycle forgets the marks, and no value is current any more.        *)
NewCycle ==
  /\ answered' = {}
  /\ current'  = {}
  /\ UNCHANGED report

(* A reset of the board forgets the report too.                            *)
Restart == answered' = {} /\ current' = {} /\ report' = {}

Next == (\E m \in Module : Collect(m)) \/ Publish \/ NewCycle \/ Restart

Spec == Init /\ [][Next]_vars
=============================================================================
