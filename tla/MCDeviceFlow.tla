---------------------------- MODULE MCDeviceFlow ----------------------------
(* Instances of DeviceFlow for TLC: the constants are given in the cfg. *)
EXTENDS DeviceFlow
=============================================================================
