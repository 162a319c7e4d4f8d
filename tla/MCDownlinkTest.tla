---------------------------- MODULE MCDownlinkTest ----------------------------
(* Instances of DownlinkTest for TLC: a sweep of two segments. *)
EXTENDS DownlinkTest

TwoSegments == <<12, 7>>
=============================================================================
