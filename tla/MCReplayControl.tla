-------------------------- MODULE MCReplayControl --------------------------
(***************************************************************************)
(* Instances of ReplayControl for TLC.                                     *)
(***************************************************************************)
EXTENDS ReplayControl, TLC

\* Any two actions, and a run started after them: an injection, its stop, and a
\* start while its unit is still deactivating are three.
TwoAndARun == <<Buttons, Buttons, {"poison-replay", "inject"}>>
=============================================================================
