\* From -S, -E and -A to the answer.
CONSTANTS
  Inputs <- CommandLines
  Jobs <- SomeJobs
  lower <- Lower
  MaxClock = 2
SPECIFICATION Spec
INVARIANTS
  TypeOK
  AcceptsTheGrammar
  NoTimePanics
  EpochIsCalendar
  LogShowsTheDate
  NowNowRuns
  OnlyUtcQueries
  AnswerIsWhatWasAsked
