SPECIFICATION Spec
CONSTANT Programs <- MCThreeReaders
INVARIANT EveryReaderAwaited
CHECK_DEADLOCK FALSE
