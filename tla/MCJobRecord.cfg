\* Every library release read through every ABI module, the wrong ones too.
SPECIFICATION Spec
INVARIANTS
  TypeOK
  EveryRowReadRight
  NoKeyTwice
  WrongAbiMisreads
  LookupsReadRight
