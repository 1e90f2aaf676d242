SPECIFICATION BootFairSpec
CONSTANTS
    Key = {1, 2}
    Payload = {1, 2}
    Dimm = {1, 2}
    dimm_of <- MCDimmOf
    SEQ = 4
INVARIANTS RetainedReadable OfferIsRecorded
PROPERTY ResumeEnds
