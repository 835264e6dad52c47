SPECIFICATION Spec
CONSTANTS
    Handlers = {one, two}
    MaxEvents = 3
    Visits = {one, two}
    MaxSessions = 1
    MaxTokens = 2
    MaxRows = 3
    MaxVersion = 2
    Calls = {one, two}
    MaxAttempts = 3
    MaxChecks = 3
    Screens = {one, two}
    MaxCheckouts = 2
INVARIANTS
    InSync
    SessionsSound
    WindowBounded
    
    
SYMMETRY Symmetry
CHECK_DEADLOCK FALSE
