--------------------------- MODULE MCControlPlane ---------------------------
\* Instance of ControlPlane, with CommandLine and StartRequest, for TLC.
EXTENDS ControlPlane
CONSTANTS c1, c2

\* daqmon runs, every startup is decided in time and help may be asked for; or
\* none of it.
Either == {[late |-> FALSE, watched |-> TRUE, help |-> TRUE],
           [late |-> TRUE, watched |-> FALSE, help |-> FALSE]}

\* Numbers at the bounds of what daqd takes, and one std::stoul wraps to 1.
Spellable == {-99999, -1, 0, 1, 7, 8, 65535, 65536, 70001}
Entered   == {-99999, 0, 1, 8, 70001}
\* A plain text, and two that look like an option with and without effect.
Written   == {<<"text">>, <<"--help">>, <<"--allow-partial-run-on-runtime-disconnect">>}
=============================================================================
