SPECIFICATION FairSpec
INVARIANT TypeOK ButtonSwitchesStack
PROPERTY HeldPressAnswered ReleasedSettles
