----------------------------- MODULE MCPtkSync -----------------------------
\* Small instances of PtkSync for TLC.
EXTENDS PtkSync, TLC

CONSTANTS k1, k2

OnePtk == {k1}
TwoPtks == {k1, k2}
PtkSymmetry == Permutations(TwoPtks)

NoFaults == {}
IwFaults == {"iw"}
SenderFaults == {"sender", "driver"}
NoIw == FaultKinds \ {"iw"}

NoTimers == {}
ApTimer == {"ap"}
=============================================================================
