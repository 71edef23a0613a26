SPECIFICATION FairSpec
CONSTANT MaxChanges = 2
INVARIANT OptionsAgree
INVARIANT EditsStand
PROPERTY VerdictIsShown
