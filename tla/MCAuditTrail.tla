----------------------------- MODULE MCAuditTrail -----------------------------
\* The instances of AuditTrail TLC checks: who can end a run.
EXTENDS AuditTrail

CONSTANTS k1, e1, p1
=============================================================================
