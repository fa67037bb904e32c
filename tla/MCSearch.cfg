SPECIFICATION Spec
CONSTANTS
    Points <- MCPoints
    Shapes <- MCShapes
    DistanceFrom <- MCDistanceFrom
    Epsilon = 2
    Requests <- MCRequests
INVARIANTS TypeOK ArgumentsInRange ParsedAsMeant MemoryBalanced ReplyFramed MatchesListed NearestListed
PROPERTY Answered
