CONSTANTS
    Options <- AllChoices
    Inputs = {"status", "name", "noise"}
    Verdicts = {"good", "implausible"}
    Commands = {"settings", "output", "refresh", "options"}
    Callers = 1
    RetryMax = 2
    IoTimeout = 1
    Horizon = 100
SPECIFICATION HouseholdSpec
VIEW Relevant
INVARIANTS
    NoOversleep
    WatchdogFires
    FreshnessShown
    KeepaliveOrRenewal
    PollNotStarved
PROPERTIES
    KeepalivesSpaced
