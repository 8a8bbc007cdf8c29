--------------------------- MODULE MCTwistTransport ---------------------------
\* The instances of TwistTransport TLC checks: who can stop the robot.
EXTENDS TwistTransport

CONSTANTS k1, e1
=============================================================================
