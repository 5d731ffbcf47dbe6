SPECIFICATION FairSpec
CONSTANT MAX_SWITCH = 2
INVARIANT TypeOK SettledAgree
PROPERTY PressFlipsAttribute PressGetsThrough LampCatchesUp
