---------------------------- MODULE MCFwUpdate ----------------------------
(***************************************************************************)
(* Two DIMMs, the first of which takes large payloads, and the ways in     *)
(* which an image may compare with the firmware they run.                  *)
(***************************************************************************)
EXTENDS FwUpdate

MCLargePayload == {1}
MCVersions == <<{{}, {"build"}}, {{}, {"security", "api"}}>>
MCBoth == BOOLEAN
MCRecovery == {TRUE}
============================================================================
