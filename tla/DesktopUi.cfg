CONSTANTS
    BUFFER = 2
    Files = {"hbbs.out"}
    FirstFile = "hbbs.out"
    AtStart = {{"hbbs", "hbbr"}}
    MAX_CLICKS = 2
SPECIFICATION Spec
INVARIANTS ViewFollows RunTogether
PROPERTIES ExitWorks StatusShown
CHECK_DEADLOCK FALSE
