SPECIFICATION Spec
CONSTANTS
    Texts <- MCTexts
    Offsets = {1, 2}
    MaxTime = 2
    Sessions = {s1, s2}
    Olds <- MCOlds
    News <- MCNews
    Markdown = FALSE
    MaxCalls = 3
    MaxEdits = 1
    MaxChanges = 1
SYMMETRY Symmetry
PROPERTIES EditIsSplice UnchangedIsShown
CHECK_DEADLOCK FALSE
