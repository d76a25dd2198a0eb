--------------------------- MODULE MCDevicesCgroup ---------------------------
(* DevicesCgroup on one char device and the three wildcards over it.       *)
EXTENDS DevicesCgroup

MCNodes == {CharDevice}
=============================================================================
