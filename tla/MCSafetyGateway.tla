--------------------------- MODULE MCSafetyGateway ---------------------------
(* TLC instances of SafetyGateway. *)
EXTENDS SafetyGateway

CONSTANTS k1, k2, e1, e2, b1, b2, x1
=============================================================================
