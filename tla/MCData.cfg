SPECIFICATION CodecsSpec
CONSTANTS
    Capacity = 3
    Stale = Stale
    Absent = Absent
    StudentObjects <- Students
    ClassesObjects <- ClassesSet
    Ids = {1, 2}
    MaxCalls = 5
    IntLimit = 4
    Texts <- Words
    Ages = {3}
    Scores = {1, 2}
    Keys = {1, 2}
    Foreign <- Others
    MaxScores = 2
    MaxSteps = 4
    Issued = {1, 2}
    Addends <- SmallNumbers
    Attempts = 2
    Files = {"a"}
    Old = "old"
    Bases = {"new"}
    MaxLines = 6
CHECK_DEADLOCK FALSE
INVARIANT BindingsFresh
INVARIANT StoredIsLoaded
INVARIANT RoundTrip
INVARIANT ConcatenationMerges
INVARIANT AnswerIsOwn
INVARIANT PlaylistKept
