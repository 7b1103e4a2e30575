SPECIFICATION JobSpec
CONSTANTS
  Calls <- MCCalls
  Values <- MCValues
  Missing = Missing
INVARIANTS CombinesPosition EditsJob
PROPERTIES ProgramEnds
