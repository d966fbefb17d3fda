SPECIFICATION FairSpec
CONSTANTS
    Ids = {i1}
    NoId = NoId
    Handlers = {h1, h2, h3}
    MaxRestarts = 3
    Troubles = {"io", "reply"}
CHECK_DEADLOCK FALSE
INVARIANTS
    RowsAreWorked
    FilesHaveOwners
    ReadySpeechExists
PROPERTIES
    AnswerSurvives
    KeepsContract
    JobsEnd
