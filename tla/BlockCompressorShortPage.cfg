CONSTANTS
    PAGE_SIZE = 3
    MaxLength = 11
SPECIFICATION Spec
INVARIANT RestoresFile
