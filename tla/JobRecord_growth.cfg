\* Whether the job record has only grown at its end.
SPECIFICATION Spec
INVARIANTS
  OnlyAppended
