CONSTANTS
  MaxLength = 6
  MaxLate = 3
SPECIFICATION PipelineSpec
INVARIANTS PipelineTypeOK SectorsArriveRight AesIsKept
PROPERTIES TasksGoOn
\* A write whose second stage is late stops for good (see Stuck).
CHECK_DEADLOCK FALSE
