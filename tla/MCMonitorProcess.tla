-------------------------- MODULE MCMonitorProcess --------------------------
\* Instance of MonitorProcess for TLC: who asks for what.
EXTENDS MonitorProcess
CONSTANTS operator, page, chooser

Asks(page_asks, chooser_asks) ==
  [t \in Threads |-> CASE t = operator -> {"start", "stop"}
                       [] t = page     -> page_asks
                       [] t = chooser  -> chooser_asks]

\* Pages poll the status and the backend restarts; or it does not, and analyses
\* are selected.
Either ==
  {[does |-> Asks({"status"}, {}), restart |-> TRUE],
   [does |-> Asks({"status"}, {"select"}), restart |-> FALSE]}

\* A module registered twice, and analyses for each decoder, for any, and one
\* registered again for another decoder.
TwoDecoders  == <<<<"kc705_tof">>, <<"raw">>, <<"raw">>>>
FourAnalyses ==
  <<[name |-> <<"kc705_tof_overview">>, expects |-> <<"kc705_tof">>],
    [name |-> <<"rates">>, expects |-> <<"raw">>], [name |-> <<"any">>, expects |-> <<>>],
    [name |-> <<"rates">>, expects |-> <<"kc705_tof">>]>>

Spellable == {-99999, -1, 0, 1, 70001, 200, 1000}
Entered   == {-99999, 0, 1, 70001}
=============================================================================
