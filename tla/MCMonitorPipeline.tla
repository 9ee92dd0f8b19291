------------------------- MODULE MCMonitorPipeline -------------------------
\* Instance of MonitorPipeline for TLC.
EXTENDS MonitorPipeline

\* Nothing of the analyses fails; everything may; the source waits for frames.
Mixed == {OuterFaults, AllFaults \ {"waits"}, {"waits", "source", "update", "end"}}
============================================================================
