-------------------------- MODULE MCDeviceRegistry --------------------------
(***************************************************************************)
(* DeviceRegistry with a few devices and a file that counts in base three, *)
(* so that few cells need a second digit, or in base two.                  *)
(***************************************************************************)
EXTENDS DeviceRegistry
=============================================================================
