---------------------------- MODULE MCSdcDistribution ----------------------------
(***************************************************************************)
(* SdcDistribution for TLC: one service of two VFs, about which SDC sends  *)
(* two notifications.                                                      *)
(***************************************************************************)
EXTENDS SdcDistribution

CONSTANT c1

MCResources == [c \in Csars |-> Vfs]
MCAbout == <<c1, c1>>
=============================================================================
