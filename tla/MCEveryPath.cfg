SPECIFICATION HsSpec
CONSTANT None = None
PROPERTY StoppedOnEveryPath
