----------------------------- MODULE MCInterrupt ----------------------------
(***************************************************************************)
(* The masks of a driver: everything, or all but the serial port and the   *)
(* second controller.                                                      *)
(***************************************************************************)
EXTENDS Interrupt

MCMasks == {0 .. 7, (0 .. 7) \ {PIC_CONNECTED, SIO_CONNECTED}}
=============================================================================
