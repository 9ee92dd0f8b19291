----------------------------- MODULE MCDataLink -----------------------------
\* Instance of DataLink for TLC: headers at the limits of their fields.
EXTENDS DataLink
SomeHeaders ==
  {[run |-> 1, subrun |-> 0, event |-> Base],
   [run |-> Base^2 - 1, subrun |-> Base, event |-> Base^3 - 1],
   [run |-> Base, subrun |-> Base^2 - 2, event |-> Base^2]}
=============================================================================
