SPECIFICATION Spec
CONSTANTS
    Picks <- EveryVariant
    Called <- EveryFunction
    Deepest = 11
    sample <- SampleOf
    check_lower <- ChecksLower
    raises <- Raises
    write <- Writes
    read <- Reads
    agree <- Agrees
    is_value <- IsValueOf
INVARIANTS
    TypeOK
    ArgumentsArrive
    AnswersArrive
    NoOverrun
    BuffersSettled
    TablesAgree
