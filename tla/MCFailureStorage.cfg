\* Descriptions, filenames of one or four bytes, up to two frames, two
\* addresses for every block, allocation failures; no vsnprintf error and
\* no record of 64 KiB (see MCFailureStorageWrap.cfg and
\* MCFailureStorageFormatError.cfg).
CONSTANTS
  NULL = NULL
  Stages = {setup, teardown}
  Texts = {x, y}
  StrLens <- MCStrLens
  Lines <- MCLines
  Addrs = {pc1}
  MaxFrames = 2
  Bases <- MCBases
  SizeofFailure = 32
  SizeofLocation = 16
  SizeofFrame = 24
  SizeofPtr = 8
  FramesOffset = 8
  AlignLocation = 8
  AlignStacktrace = 8
  SizeMod <- MCSizeMod
  LenMod <- MCLenMod
  FormatErrors = FALSE
  AllocFailures = TRUE
SPECIFICATION Spec
\* One failure travels from the child to the parent, and then nothing more
\* happens.
CHECK_DEADLOCK FALSE
INVARIANT TypeOK
INVARIANT BlockLayout
INVARIANT FormatMatchesSize
INVARIANT RoundTrip
