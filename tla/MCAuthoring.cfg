\* Titles and books, a configuration written entry by entry, discoveries,
\* or a drafted configuration
SPECIFICATION MCSpec
CONSTANTS
    Release <- MCRelease
    BookTables <- MCTables
    MaxReleases = 4
    MaxPlaced = 2
    Authorable <- MCAuthorable
    Post <- MCPost
    Labels <- MCLabels
    MaxEntries = 3
    Posts = 3
    Window = 2
    Version <- MCVersion
    First <- MCFirst
    Config <- MCConfig
    MaxChanges = 1
    MaxDismissals = 1
    Chapter <- MCChapter
    Decision <- MCDecision
    Fold <- MCFold
    Kinds <- MCKinds
    MaxEdits = 1
    MaxFaults = 1
    None = None
INVARIANTS NumbersHold RulesHold DismissalKept
PROPERTIES EvidenceKept NamesHold ForetoldHolds
CHECK_DEADLOCK FALSE
