CONSTANTS
    FirstYear = 2021
    LastYear = 2022
SPECIFICATION Spec
INVARIANT HolidaysObserved
CHECK_DEADLOCK FALSE
