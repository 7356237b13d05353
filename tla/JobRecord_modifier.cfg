\* Whether each release's TRES record is read through a mirror of its header.
SPECIFICATION Spec
INVARIANTS
  TresRecMirrored
