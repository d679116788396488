\* A record longer than header.length can hold: the reader receives a
\* cut body and deserializes it without a range check.
CONSTANTS
  NULL = NULL
  Stages = {setup, teardown}
  Texts = {x, y}
  StrLens <- MCStrLens
  Lines <- MCLines
  Addrs = {pc1}
  MaxFrames = 2
  Bases <- MCBases
  SizeofFailure = 32
  SizeofLocation = 16
  SizeofFrame = 24
  SizeofPtr = 8
  FramesOffset = 8
  AlignLocation = 8
  AlignStacktrace = 8
  SizeMod <- MCSizeMod
  LenMod <- MCSmallLenMod
  FormatErrors = FALSE
  AllocFailures = TRUE
SPECIFICATION Spec
\* One failure travels from the child to the parent, and then nothing more
\* happens.
CHECK_DEADLOCK FALSE
INVARIANT DeserializeRejectsMalformed
