-------------------------- MODULE MCFailureStorage --------------------------
(* LP64 sizes: ctest_failure_t is 32 bytes (an enum, padding, three        *)
(* pointers), ctest_location_t 16, ctest_stackframe_t 24, the frames of a  *)
(* stacktrace start at 8, and every struct is 8-aligned.                   *)
EXTENDS FailureStorage

MCStrLens == {1, 4}
MCLines == {1}
MCBases == {64, 256}
MCSizeMod == 2^16
MCLenMod == 2^16
\* A uint16_t scaled down so that a record of the model's sizes wraps.
MCSmallLenMod == 64
=============================================================================
