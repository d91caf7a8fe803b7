---------------------------- MODULE MCSelfUpdate ----------------------------
EXTENDS SelfUpdate
CONSTANTS p, q
=============================================================================
