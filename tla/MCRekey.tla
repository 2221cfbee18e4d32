------------------------------ MODULE MCRekey ------------------------------
\* Small instances of RekeyControl for TLC.
EXTENDS RekeyControl

NoFaults == {}

\* At most one of the trigger files cannot be written.
ApFileFaults == FaultKinds \ {"stafile"}
=============================================================================
