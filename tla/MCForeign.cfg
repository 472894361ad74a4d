SPECIFICATION HsSpec
CONSTANT None = None
INVARIANT ForeignNeverStopped
