SPECIFICATION FairSpec
CONSTANTS
  Ids <- MCIds
  EmailId = 5
  BatchSize = 2
  Segmentations <- MCSegmentations
  MaxChanges = 1
INVARIANT TypeOK
INVARIANT OnceIfUnmoved
INVARIANT OncePerSegment
INVARIANT WarmupVolumeKept
INVARIANT CountsAgree
PROPERTY CreationEnds
CHECK_DEADLOCK FALSE
