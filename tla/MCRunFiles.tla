----------------------------- MODULE MCRunFiles -----------------------------
\* Instances of RunFiles for TLC; the configurations give the numbers.
EXTENDS RunFiles
=============================================================================
