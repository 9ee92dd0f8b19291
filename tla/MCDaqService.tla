---------------------------- MODULE MCDaqService ----------------------------
\* DaqService for TLC; the bounds are in the configurations.
EXTENDS DaqService

\* Everything may go wrong; the run log and the process do not fail; only the
\* run log does; nothing happens but commands.
Mixed == {AllFaults, {"duration", "failure"}, {"database"}, {}}

Crashes == {{"crash"}}
=============================================================================
