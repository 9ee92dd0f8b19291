---------------------------- MODULE MCRunLogView ----------------------------
\* Instance of RunLogView for TLC.
EXTENDS RunLogView
CONSTANTS d1, d2
=============================================================================
