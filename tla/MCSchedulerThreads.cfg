CONSTANTS
    extraction = "process_extraction_queue"
    promotion = "process_promotion_queue"
    Jobs <- TwoJobs
    ProgressJobs <- ExtractionOnly
    EndingJobs <- PromotionOnly
    ThreadBound = 2
    NowJobs <- PromotionOnly
SPECIFICATION FairSpec
INVARIANT TypeOK
INVARIANT JobsExclusive
PROPERTY WorkServed
PROPERTY ShutdownCompletes
CHECK_DEADLOCK FALSE
