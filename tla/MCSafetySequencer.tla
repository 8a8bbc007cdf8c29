-------------------------- MODULE MCSafetySequencer --------------------------
\* The instance of SafetySequencer TLC checks: its calls, stops and starts.
EXTENDS SafetySequencer

CONSTANTS c1, c2, o1, s1, t1, t2
=============================================================================
