SPECIFICATION Spec
CONSTANTS
    Elements <- Strings
    Layouts <- AllLayouts
INVARIANTS RegularRunsOnce NoneRunsTwice
CHECK_DEADLOCK FALSE
