------------------------- MODULE MCSignalAcquisition -------------------------
(***************************************************************************)
(* Instances of SignalAcquisition for TLC: "feed" publishes "news" and     *)
(* "notice", "hook" is a webhook; "tick" and "late" are workers that run   *)
(* the tier job, "manual" is an on-demand fetch, "admin" an update.        *)
(***************************************************************************)
EXTENDS SignalAcquisition

CONSTANTS feed, hook, news, notice, tick, late, manual, admin
=============================================================================
