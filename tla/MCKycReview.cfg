SPECIFICATION Spec
CONSTANTS
    Merchants = {m1}
    Data = {blank, full}
    Incomplete = {blank}
    Blank = blank
    NoMerchant = none
    Reviewers = {r1, r2}
    NoReviewer = nobody
    Refusals = {"needs_changes"}
    MaxRounds = 2
    MaxUploads = 2
SYMMETRY Alike
CONSTRAINT OneOrTwoReviewers
INVARIANTS
    KycTypeOK
    UnderReviewIsComplete
    JudgedAsSeen
PROPERTIES
    LockIsOvertakenOnlyByEarlierWrites
    KeepsLifecycle
