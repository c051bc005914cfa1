SPECIFICATION FairSpec
CONSTANTS
    a = a
    b = b
    c = c
    review = review
    other = other
    Jobs <- MCJobs
    Names <- MCNames
    NameOf <- MCNameOf
    Delays <- MCDelays
    MinWait = 1
    FailureRingSize = 2
INVARIANTS TypeOK InflightExact NoLostWakeup Conservation WokenInTime
PROPERTIES EveryJobStarts ImplementsAdapter
