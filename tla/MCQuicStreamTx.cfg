\* A buffer of at most five bytes, two ranges of acknowledged bytes, seven bytes to
\* write.
CONSTANTS
    RetainedLimit = 5
    MinCap = 1
    AckRangeCap = 2
    MaxBytes = 7
SPECIFICATION FairSpec
INVARIANTS
    Retransmittable
    InOrder
    WriterNotForgotten
PROPERTIES
    WriterResumes
    StreamPromise
CHECK_DEADLOCK FALSE
