CONSTANTS
    l = l
    e = e
    p = p
    c = c
    d = d
    f1 = f1
    f2 = f2
    d1 = d1
    d2 = d2
    bin = bin
    bad = bad
    scr = scr
    Names = {l, e, p, c, d}
    Files = {f1, f2}
    Dirs = {d1, d2}
    None = None
    Contents = {bin, scr, bad}
    Value = None
    Cwd = c
    Shebang <- MCShebang
    SafePath <- MCSafePath
    Start <- MCStart
    StartContent <- MCStartContent
    MaxEdits = 2
    MaxRestarts = 1
SPECIFICATION Spec
CHECK_DEADLOCK FALSE
INVARIANTS
    PinnedObjectsRun
    RecordedBytesRun
    TornInspectionNeverRuns
    UnchangedIsAccepted
