---------------------------- MODULE MCFsHandler -----------------------------
\* One volume; a program that has time for two packets and one for one.
EXTENDS FsHandler

CONSTANTS p1, p2

MCPackets == [p \in Programs |-> IF p = p1 THEN 2 ELSE 1]
=============================================================================
