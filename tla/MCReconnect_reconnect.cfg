CONSTANTS
    Caps = {30, 40, 50}
    Initial = 20
    Faults = {"route", "establish", "greet", "link"}
    Asks = {"user", "watchdog"}
    Restarts = {"stop", "crash"}
    MaxAds = 1
    MaxResets = 3
    MaxDoubled = 80
SPECIFICATION HomesFairSpec
INVARIANTS
    AdvertisementHeard
    IssuesEarned
PROPERTIES
    BackoffPaced
    AlwaysReturns
