SPECIFICATION Spec
CONSTANTS
    Requests = {r1, r2, r3}
    Providers = {"p", "q"}
    Names = {"n"}
    Pairs <- MCPairs
    FirstModels <- MCFirstModels
    Skills = {"a", "b"}
    Paths = {"d1", "d2"}
    In <- MCIn
    Subjects = {"providers", "skills"}
SYMMETRY MCSymmetry
INVARIANTS ChosenWasOffered SkillsAsSwitched LoaderAgrees
CHECK_DEADLOCK FALSE
