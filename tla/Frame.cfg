SPECIFICATION Spec
CONSTANTS
    Shots <- MCShots
    Tile = 6
    Overlap = 2
    ScunetTile = 4
    ScunetPad = 2
    Multiple = 4
    FaceEdge = 10
    PreviewEdge = 12
INVARIANTS
    FinishedAsPlanned
    FacesAreSafe
    NoSeams
    ShownAsShot
    NumbersInRange
CHECK_DEADLOCK FALSE
