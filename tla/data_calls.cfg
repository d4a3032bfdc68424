\* Two mappings of three keys and a sequence of two elements; integers of four bits;
\* two schemas described by three calls; objects with two properties; files of three
\* items, one level of nesting, with or without a header, with texts of several lines that
\* a block can hold, and that begin with a space and end in two line ends, which it cannot.
CONSTANTS
    m1 = m1
    m2 = m2
    q1 = q1
    k1 = k1
    k2 = k2
    k3 = k3
    n1 = n1
    n2 = n2
    Null = Null
    Mapping = {m1, m2}
    Sequence = {q1}
    Key = {k1, k2, k3}
    Node = {n1, n2}
    HashedKeys = 2
    MaxLength = 3
    MaxRemovals = 1
    a = a
    b = b
    s1 = s1
    s2 = s2
    Absent = Absent
    Width = 4
    Precision = 2
    Exponent = 4
    Name = {a, b}
    Value = {4, 5, 6, 7, 24, 25}
    MaxBelow = 2
    Schema = {s1, s2}
    Root = s1
    MaxCalls = 3
    Narrow = 3
    NoFile = NoFile
    MaxItems = 3
    Kind = {"lines"}
    KindBelow = {"boolean", "lines", "indented"}
    GapFirst = {"headed", "section"}
    Gap = {"none", "apart"}
SPECIFICATION DataOrFilesSpec
INVARIANTS KeysMatchMembers HashesAgree ReadsFollowText ConversionsKeepValues
INVARIANTS ReportsDefects ObjectsRoundTrip
INVARIANTS CommentsClaimedOnce WrittenReadsBack
PROPERTIES WalkComplete
SYMMETRY DataSymmetry
\* Files and descriptions of schemas have an end.
CHECK_DEADLOCK FALSE
