SPECIFICATION FairSpec
CONSTANT MAX_SWITCH = 2
INVARIANT TypeOK SettledAgree NeverBothStale
PROPERTY PressGetsThrough ButtonSettles
