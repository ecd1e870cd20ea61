CONSTANT TAIL_STAGE_LIMIT = 2
SPECIFICATION Spec
INVARIANTS
    StructuresSound
    RoomForReload
    PolicyPinned
    NothingUncounted
    SubjectsClassified
    TimingHonest
    TimingReportTrue
    FilterDecides
    LintedPolicyDecides
    TrustAnswersExact
    SnapshotsSound
    
    TextFaithful
    ConfigSound
    MarksFollowTable
    HealthJudgesRight
    LogComplete
PROPERTY
    ReloadRetries
CHECK_DEADLOCK FALSE
