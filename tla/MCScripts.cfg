CONSTANTS
    None = None
    Sep = Sep
    Open = Open
    Close = Close
    OutputList = OutputList
    Minus = Minus
    va = va
    vb = vb
    vc = vc
    ca = ca
    cb = cb
    Dot = Dot
    Space = Space
    ZeroDivisionError = ZeroDivisionError
    cc = cc
    Idle = Idle
SPECIFICATION Spec
PROPERTY BTRefinesOrderedSet
INVARIANT BTFindValueIffInserted
INVARIANT BTTraversalsRebuildTree
INVARIANT LOResultIsLevelOrder
INVARIANT LOQueuesHoldAdjacentLevels
INVARIANT DFSVisitedIsReachable
INVARIANT DFSStackVerticesDistinct
INVARIANT BSRFindsKey
PROPERTY BSRTerminates
INVARIANT FMMBracketsKey
INVARIANT FMMMidInBounds
PROPERTY FMMTerminates
INVARIANT KPPickedPlusLeftIsArgument
INVARIANT KPKthIsLexicographic
PROPERTY ASListsEverySubsetOnce
INVARIANT BBOutputFollowsStack
PROPERTY BBResultIsAllBalanced
INVARIANT CCCountsWays
INVARIANT SSTrueIsSound
INVARIANT TSFindsPair
INVARIANT FUReturnsFirstUnique
INVARIANT RNReplacesWithRecent
INVARIANT CMIsMonotonic
INVARIANT FMFindsMissing
INVARIANT PNPrimesBelowCursor
INVARIANT RIReversesDigits
INVARIANT AWAveragesWords
INVARIANT MWSplitsAndCompares
CHECK_DEADLOCK FALSE
