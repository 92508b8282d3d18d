\* Nobody logs in or out.
CONSTANTS
    Slots = 3
    Texts <- ThreeNames
    NameLen = 2
    LenSize = 1
    Heaps = {"zero"}
    MaxChanges = 0
SPECIFICATION Spec
INVARIANT SortedAndUnique
