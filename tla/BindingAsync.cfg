SPECIFICATION FairSpec
CONSTANTS
    Calls = {c1, c2}
    Inline = {c2}
    Loops = {l1, l2}
    NoLoop = NoLoop
INVARIANTS
    TypeOK
    HandlesAreWaiting
    NoCallbackRaises
    CompleteHasResult
PROPERTY
    CallsEnd
