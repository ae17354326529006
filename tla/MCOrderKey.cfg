SPECIFICATION Spec
CONSTANTS
    NumWidth = 2
    MaxNum = 1923
    KeyDigit = {0, 1, 31, 60, 61}
    MaxLen = 4
INVARIANTS
    
    SuccessorIsLater
CHECK_DEADLOCK FALSE
