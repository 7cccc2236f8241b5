\* Two stations and two requests at a time, with either repository.
CONSTANTS
  often = often
  once = once
  Station = {often, once}
  Request = {r1, r2}
  MaxAge = 1
  MaxAhead = 1
  MaxClock = 2
  Reading <- MCReading
SYMMETRY Interchangeable
SPECIFICATION Spec
INVARIANTS
  TypeOK
  AnswerJustified
  NeverStepsBack
  PairsUniqueWithoutOverlap
