SPECIFICATION HsSpec
CONSTANT None = None
PROPERTY OutputDirExists
