----------------------------- MODULE MCRtpTimeline -----------------------------
(* The reference of RtpTimeline against the engine, on the scenarios of     *)
(* MCScenarioEngine.                                                        *)
EXTENDS RtpTimeline, MCScenarioEngine

===============================================================================
