\* Nothing fails, but Redis is away from the start.
CONSTANTS
    s1 = s1
    s2 = s2
    Submissions = {s1, s2}
    InputOf <- MixedInput
    CheckOutcomes = {"ok", "throw"}
    RedisModes = {"unset", "up", "down"}
    Slots = {1, 2}
    MaxAttempts = 3
    Scenarios <- PlainScenarios
SPECIFICATION Spec
PROPERTIES
    RequestsAnswered
