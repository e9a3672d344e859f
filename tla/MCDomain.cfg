SPECIFICATION CasesSpec
CONSTANTS
  SequenceCases <- AllSequences
  DelayCases <- AllDelays
  RampCases <- AllRamps
  BackoffCases <- AllBackoffs
  AnswerCases <- AllAnswers
  RenderCases <- AllRenders
  MaxAttempts = 3
INVARIANTS
  BranchesEnd SlotIsFirst CapRamps BackoffSpreads RetriedExactlyOnLoad RendersMeaning CallsJustified
CHECK_DEADLOCK FALSE
