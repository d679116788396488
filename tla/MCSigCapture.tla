---------------------------- MODULE MCSigCapture ----------------------------
EXTENDS SigCapture

\* Three entries of signals__, the middle one unknown to the platform.
MCInvalid == {2}
=============================================================================
