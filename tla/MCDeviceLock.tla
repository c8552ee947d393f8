---------------------------- MODULE MCDeviceLock ----------------------------
(***************************************************************************)
(* Three colocated workers over three accelerators: two of them list the   *)
(* same two devices in opposite orders, the third shares one device with   *)
(* both and has one of its own.                                            *)
(***************************************************************************)
EXTENDS DeviceLock, TLC

CONSTANTS w1, w2, w3

MCWorker == {w1, w2, w3}
MCDevice == 0..2
MCAccelIds == (w1 :> <<0, 1>>) @@ (w2 :> <<1, 0>>) @@ (w3 :> <<1, 2>>)
=============================================================================
