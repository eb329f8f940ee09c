--------------------------- MODULE MCProvisioning ---------------------------
(* Three of the 133 keys: one that is stored and read under one name, one  *)
(* of the five that SETPORTS stores and the table of names spells          *)
(* differently, and the only one that is too long.                         *)
EXTENDS Provisioning

MCPortKeys == <<"1_PRESCOM", "1_CLCIO", "1_TOLDO_SUPERIOR">>
MCReadAs   == [k \in Range(MCPortKeys) |-> IF k = "1_CLCIO" THEN "1_CLIMATIZACIO" ELSE k]
MCTooLong  == {"1_TOLDO_SUPERIOR"}
=============================================================================
