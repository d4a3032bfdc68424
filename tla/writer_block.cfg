\* Files with a text of several lines and a comment behind it.
CONSTANTS
    NoFile = NoFile
    MaxItems = 2
    Kind = {"word", "lines"}
    KindBelow = {"word"}
    GapFirst = {"none"}
    Gap = {"none", "comment"}
SPECIFICATION Spec
INVARIANTS CommentsSurvive
CHECK_DEADLOCK FALSE
