SPECIFICATION SelectSpec
CONSTANTS
    Handlers = {h1}
    HeaderWindows <- MCHeaderWindows
    SnapshotWindows <- MCSnapshotWindows
    NoWindow = NoWindow
    NotANumber = NotANumber
    Ids = {1, 2, 3}
    Watched = 2
    Others <- MCOthers
INVARIANT PickIsAsDocumented
