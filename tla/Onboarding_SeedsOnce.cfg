\* Two requests, two seeds, one restart.
CONSTANTS
    Requests = {r1, r2}
    Locales = {"en", "ja"}
    ConfigLocale = "en"
    NumSeeds = 2
    MaxLaunches = 2
SPECIFICATION Spec
INVARIANT SeedsOnce
