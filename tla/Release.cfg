SPECIFICATION Spec
CONSTANTS
    Platforms = {"x64", "arm64"}
    Versions = {"0.1.0", "0.1.0-rc.1"}
    StartsWith <- MCStartsWith
    Host = "x64"
    Installs <- MCInstalls
    MaxCommands = 3
    MaxFaults = 1
    Tags <- MCTags
    FixedVersion = "0.1.0"
    StrayPages = {TRUE, FALSE}
    MaxAttempts = 2
    MaxFailures = 2
INVARIANT VerdictIsExact
INVARIANT GreenIsWhole
INVARIANT PublishedIsOfTheTag
INVARIANT PublishedIsAttested
INVARIANT UndisturbedIsGreen
PROPERTY PublishesComplete
CHECK_DEADLOCK FALSE
