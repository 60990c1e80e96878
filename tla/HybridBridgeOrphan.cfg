\* A signal leaves a CAVA process behind.
SPECIFICATION Spec
CONSTANT MaxOutages = 1
INVARIANT NoOrphanCava
