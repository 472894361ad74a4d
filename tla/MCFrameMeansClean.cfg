SPECIFICATION HsSpec
CONSTANT None = None
INVARIANT FrameMeansClean
