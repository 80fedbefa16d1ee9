CONSTANTS
    Scalar <- MCScalar
    Zero = 0
    One = 1
    Plus <- MCPlus
    Times <- MCTimes
    Negative <- MCNegative
    Inverse <- MCInverse
    Extension = Extension
    Recovery = Recovery
    Server = Server
    Draws <- MCDraws
    MaxDeals = 3
    MaxRounds = 6
    Everyone = Everyone
    None = None
SPECIFICATION Spec
INVARIANTS TypeOK SharesFit OutcomeFollowsShares KeptTogether
CHECK_DEADLOCK FALSE
