---------------------------- MODULE MCDeviceSetup ----------------------------
(***************************************************************************)
(* DeviceSetup for TLC: two servers and two selections, one stop or crash  *)
(* and one failing statement.                                              *)
(***************************************************************************)
EXTENDS DeviceSetup

=============================================================================
