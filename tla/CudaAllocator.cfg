SPECIFICATION FairSpec
CONSTANTS
  Thread = {t1, t2}
  MaxAddress = 3
  Alignment = 1
  kSegmentSize = 1
  Sizes = {1, 2}
  MaxHeld = 1
  MaxQueue = 2
  Null = Null
INVARIANTS TypeOK IInv NoUseAfterCudaFree ReadsBackOwnData SegmentsAreMapped OutOfMemoryMeansInUse
PROPERTIES MutexReleased
