SPECIFICATION Spec
CONSTANTS
    night = night
    webHost = webHost
    h1 = h1
    h2 = h2
    Actions <- MCActions
    Runs <- MCRuns
SYMMETRY Symmetry
INVARIANTS
    IntentBeforeMutation
    CompletedWasApplied
    TrailNeverLost
