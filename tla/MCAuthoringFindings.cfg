\* Where the program departs from its documents; one property at a time, the others in turn
SPECIFICATION MCSpec
CONSTANTS
    Release <- MCRelease
    BookTables <- MCTables
    MaxReleases = 4
    MaxPlaced = 2
    Authorable <- MCAuthorable
    Post <- MCPost
    Labels <- MCLabels
    MaxEntries = 3
    Posts = 3
    Window = 2
    Version <- MCVersion
    First <- MCFirst
    Config <- MCConfig
    MaxChanges = 1
    MaxDismissals = 1
    Chapter <- MCChapter
    Decision <- MCDecision
    Fold <- MCFold
    Kinds <- MCKinds
    MaxEdits = 1
    MaxFaults = 1
    None = None
\* A chapter without a book marker after the prologue of the next book
INVARIANT PrologueOpensBook
\* Two inputs of one kind, the earlier one guarded
\* INVARIANT EarlierWins
\* A dismissal between the read and the write of a run
\* INVARIANT DismissalAlwaysKept
\* Dismissed evidence under a new identity
\* INVARIANT DismissedEverywhere
\* A saved plan resumed before a fresh one, to a version 1 hook
\* INVARIANT HookNamesOnce
\* A new chapter at the path of one that is retained
\* INVARIANT RetainedOwnFile
\* A chapter a watched folder does not get a second time
\* PROPERTY RebuildQuiet
CHECK_DEADLOCK FALSE
