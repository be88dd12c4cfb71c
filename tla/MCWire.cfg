SPECIFICATION Spec
CONSTANTS Samples <- MCSamples
INVARIANTS LineFaithful NamesTrue
CHECK_DEADLOCK FALSE
