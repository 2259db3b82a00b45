SPECIFICATION Spec
CONSTANTS
    Settings <- Few
    Scenarios <- Some
    MaxRedos = 1
INVARIANT WorkHasBasis
INVARIANT LabelsTell
INVARIANT FeedbackIsFresh
INVARIANT LabelsSettle
PROPERTY CommentAnswered
CHECK_DEADLOCK FALSE
