-------------------------- MODULE MCFirmwareUpdate --------------------------
(***************************************************************************)
(* Instances of FirmwareUpdate: images of two blocks, the last of them     *)
(* short but of one image; an old version the downgrade checks turn away;  *)
(* and an image whose MCU program does not start.                          *)
(***************************************************************************)
EXTENDS FirmwareUpdate

TwoBlocks == [v \in Versions |-> IF v = 2 THEN 4 ELSE 3]
=============================================================================
