----------------------------- MODULE MCAuditWorker -----------------------------
\* The instances of AuditWorker TLC checks: who appends and who closes.
EXTENDS AuditWorker

CONSTANTS c1, c2, c3, x1, x2
=============================================================================
