\* Two jobs, one with its hash and one with a file, in two slots: requests, workers and retries
\* interleave, with the faults of two scenarios.
CONSTANTS
    s1 = s1
    s2 = s2
    Submissions = {s1, s2}
    InputOf <- MixedInput
    CheckOutcomes = {"ok", "throw"}
    RedisModes = {"unset", "up", "down"}
    Slots = {1, 2}
    MaxAttempts = 3
    Scenarios <- MixedScenarios
SPECIFICATION Spec
INVARIANTS
    QueueInv
    DuplicatesNeedFaults
    PollsOwnRow
    UploadsFollowAnswers
PROPERTIES
    CompletedIsFinal
    AcceptedEndsTerminal
    JobsSettle
