-------------------------- MODULE MCVideoSessions --------------------------
(* Values for VideoSessions. *)
EXTENDS VideoSessions
=============================================================================
