---------------------------- MODULE MCLocalServer ----------------------------
(* An instance of LocalServer: two keys with a port each, shown by two     *)
(* endpoints, of which SETPORTS stores one and the other under a name that *)
(* is not read; one handler of each kind, and the two that share members.  *)
EXTENDS LocalServer

TwoKeys   == <<"1_CLIMATIZACIO", "1_GNSS_GGA">>
TwoGroups == <<"TEMP", "GNSS">>
TwoNames  == <<"1_TOLDO_SUPERIOR", "1_GNSS_GGA">>

(* New ports, longer ones too, in all shapes; requests to TRAMA and SERVER *)
(* of which the one has the wrong token and the other is cut, one that     *)
(* SERVER cannot read, and a restart.                                      *)
Sent(e, v, k, s) == [endpoint |-> e, value |-> v, kind |-> k, shape |-> s]

SomeBodies ==
  {Sent("SETPORTS", 12, "good", "whole"), Sent("SETPORTS", 4, "good", "split"),
   Sent("SETPORTS", 4, "good", "long"), Sent("TRAMA", 12, "wrong_token", "whole"),
   Sent("SERVER", 1, "good", "split"), Sent("SERVER", 1, "good", "empty"),
   Sent("SERVER", 1, "incomplete", "whole"), Sent("RESETESP", 1, "good", "whole")}

(* At the start both keys have port 4, which has no value of its own.      *)
FirstPorts == [s \in Setting |-> IF s \in {TwoKeys[1], TwoKeys[2]} THEN 4 ELSE 1]
=============================================================================
