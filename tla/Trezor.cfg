CONSTANTS
    Ids = {id1}
    Bases <- PlainAndQuery
SPECIFICATION Spec
INVARIANTS AnswersAreParsed
