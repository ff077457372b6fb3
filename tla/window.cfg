\* Two years, the second of them a leap year, and every identifier.
SPECIFICATION Spec
CONSTANTS
    FirstYear = 2023
    LastYear = 2024
    Step = 12
    Back = 1
    Ahead = 1

    
PROPERTIES
    WindowAdvances
CHECK_DEADLOCK FALSE
