CONSTANTS
    N = 2
    Percent = 10
    Scores = {1, 9}
    MaxWeightStep = 2
    MaxConsecutivePicks = 3
    RecoveryStartWeight = 1
SPECIFICATION Spec
INVARIANTS TypeOK CreditBalanced CreditBounded
CHECK_DEADLOCK FALSE
