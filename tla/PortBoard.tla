------------------------------ MODULE PortBoard ------------------------------
(***************************************************************************)
(* What the composition of the frame promises to whoever looks at ports    *)
(* and values, whatever memory and tasks carry it out: a board on which    *)
(* the keys appear one after the other, each with the port that is stored  *)
(* for it in that moment, or a sign that it could not be read, and then    *)
(* with what belongs to that same port, and views onto it that are renewed *)
(* only when the board is complete and that all show it before it is wiped *)
(***************************************************************************)
EXTENDS Naturals

CONSTANTS
  Key,    (* the numbers of the keys                                       *)
  Port,   (* the ports a key can be stored with                            *)
  Unread, (* the sign that a port could not be read                        *)
  ValueOf, (* for a port or that sign, what is shown behind it             *)
  View,   (* the views                                                     *)
  ViewOf  (* the view that shows a key, if it is one of them               *)

VARIABLES
  stored, (* the port that is stored for each key                          *)
  board,  (* the facts on the board: of a key, its port or its value       *)
  views   (* the facts in each view                                        *)

vars == <<stored, board, views>>

About(k) == {f \in board : f.key = k}

Fact(k, p, d) == [key |-> k, part |-> p, data |-> d]

(* Port and value of a key are on the board, and belong together.          *)
Complete(k) ==
  \E p \in Port \cup {Unread} : About(k) = {Fact(k, 1, p), Fact(k, 2, ValueOf[p])}

Shown == \A v \in View : views[v] = {f \in board : ViewOf[f.key] = v}

Init == stored \in [Key -> Port] /\ board = {} /\ views = [v \in View |-> {}]

(* Ports are stored at any time, in the middle of a frame too.             *)
Configure == stored' \in [Key -> Port] /\ UNCHANGED <<board, views>>

Wipe ==
  /\ board = {} \/ Shown
  /\ board' = {}
  /\ UNCHANGED <<stored, views>>

ShowPort(k) ==
  /\ About(k) = {} /\ \A j \in Key : j < k => Complete(j)
  /\ \E p \in {stored[k], Unread} : board' = board \cup {Fact(k, 1, p)}
  /\ UNCHANGED <<stored, views>>

ShowValue(k) ==
  \E p \in Port \cup {Unread} :
    /\ About(k) = {Fact(k, 1, p)}
    /\ board' = board \cup {Fact(k, 2, ValueOf[p])}
    /\ UNCHANGED <<stored, views>>

WipeViews ==
  /\ \A k \in Key : Complete(k)
  /\ views' = [v \in View |-> {}]
  /\ UNCHANGED <<stored, board>>

(* A key that its view does not show yet is copied into it.                *)
Copy(k) ==
  /\ \A j \in Key : Complete(j)
  /\ ViewOf[k] \in View /\ \A f \in views[ViewOf[k]] : f.key # k
  /\ views' = [views EXCEPT ![ViewOf[k]] = @ \cup About(k)]
  /\ UNCHANGED <<stored, board>>

(* A reset of the board leaves what is stored.                             *)
Reset == board' = {} /\ views' = [v \in View |-> {}] /\ UNCHANGED stored

Next ==
  \/ Configure \/ Wipe \/ WipeViews \/ Reset
  \/ \E k \in Key : ShowPort(k) \/ ShowValue(k) \/ Copy(k)

Spec == Init /\ [][Next]_vars
=============================================================================
