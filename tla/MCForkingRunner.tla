--------------------------- MODULE MCForkingRunner ---------------------------
(* Bounds for checking ForkingRunner.  Sizes are in units of a few bytes: *)
(* a header of two units, a stage body of two, a failure body of four; the  *)
(* output buffer starts at one unit so the test's three units of output    *)
(* make it double twice.                                                   *)
EXTENDS ForkingRunner

MCHeaderUnits == 2
MCStageUnits == 2
MCFailureUnits == 4
\* Failures far below 64 KiB: the length field never wraps.
MCLenModulus == 8
\* A failure of at least 64 KiB: its length wraps.
MCWrappingModulus == 2
MCOutInitCap == 1
MCOutPipeCap == 2
MCMaxOutput == 3
=============================================================================
