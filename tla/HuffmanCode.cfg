SPECIFICATION Spec
CONSTANT Sources <- SmallSources
INVARIANTS RoundTrip CodeInv
CHECK_DEADLOCK FALSE
