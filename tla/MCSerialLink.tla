---------------------------- MODULE MCSerialLink ----------------------------
(* The instance of SerialLink that UART_tx_task runs: three modules are    *)
(* asked for, the wait before the analogue one is commented out, and the   *)
(* keys of matricular_llaves give ports to all of them and to the GPS.     *)
EXTENDS SerialLink

MCRequests     == <<"temperatura", "digital_input", "analogico">>
MCGated        == {"temperatura", "digital_input"}
MCMatriculated == {"temperatura", "digital_input", "gps", "analogico", "ventilador"}

(* With late answers: two requests, one gated and one not, which is what   *)
(* it takes to confuse them, and keys for the GPS and one module.          *)
MCTwoRequests == <<"temperatura", "analogico">>
MCTwoKeys     == {"gps", "analogico"}
=============================================================================
