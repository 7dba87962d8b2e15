SPECIFICATION FairSpec
CONSTANT BoxSize = 2
INVARIANTS TypeOK MarkShown StatusTold SuspendedOffCpu
PROPERTY BoxDrains
