SPECIFICATION MCSpec
CONSTANTS
    Kinds = {"restart", "scale", "delete", "cordon", "suspend", "trigger"}
    MaxSteps = 3
    MaxVersion = 5
    Places = {p1, p2}
    MaxRecreated = 3
    MaxTargets = 1
    MaxPlans = 2
    MaxTasks = 2
    MaxAsked = 3
    MaxObject = 3
INVARIANTS
    OnlySelectedIdentity
    OnlyReviewedPods
    DrainedIsEmpty
    ReceiptIsTrue
    PlanIsLatest
PROPERTIES
    AppliesToReviewedState
    AppliedOnceAsReviewed
    ImplementsWriteContract
    VerdictArrives
CHECK_DEADLOCK FALSE
