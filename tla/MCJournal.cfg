SPECIFICATION FairSpec
CONSTANTS
    Key = {1, 2}
    Payload = {1, 2}
    SEQ = 4
PROPERTIES CellSpec SaveEnds
