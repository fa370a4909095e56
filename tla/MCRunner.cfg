\* Two requests, a tick of the timer, one handler beside the bridge's loop
SPECIFICATION FairSpec
CONSTANTS
    Key = {k1, k2}
    Timer = {t1}
    Handler = {h1}
    Loop = loop
    MaxFaults = 1
    MaxAgain = 1
    Nobody = Nobody
INVARIANTS RunsOnce LiveRunShown
PROPERTIES RequestsSettle
CHECK_DEADLOCK FALSE
