------------------------------ MODULE MCGoals ------------------------------
(***************************************************************************)
(* Four DIMMs: two on one socket, two on another, of which the last is in  *)
(* an unsupported configuration.  The first takes large payloads.          *)
(***************************************************************************)
EXTENDS Goals

MCSocketOf == <<0, 0, 1, 1>>
MCSupported == {1, 2, 3}
MCLargePayload == {1, 4}
============================================================================
