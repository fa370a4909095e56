\* A picture whose write was cut short is taken for the picture
SPECIFICATION MCSpec
CONSTANTS
    Run = {r1, r2}
    MaxTime = 3
    Days = {1, 2}
    Refresh = {p1, p2}
    Creator = {c1, c2, c3}
    MaxLosses = 1
    None = None
    Kind <- Kinds
    Chapter <- Chapters
    Edition <- Editions
    First = "old"
    NameOf <- Names
    MaxCorrections = 3
    MaxFaults = 3
    Process = {p1}
    Revision = {1, 2}
    Earliest = 1
    Attachment = {"b1", "b2"}
    Picture = "picture"
    Torn = "torn"
    Absent = "absent"
    MaxEdits = 0
    MaxMishaps = 1
    Bundled = 2
    Originals <- Published
    Settings <- Configured
    Publications <- Decorations
    PDF = PDF
    Text = Text
    Other = Other
    Failed = Failed
    Caller = {v1, v2}
    MaxProcesses = 3
    MaxTroubles = 3
INVARIANTS PictureWhole
CHECK_DEADLOCK FALSE
