CONSTANTS
    Readings <- MCReadings
    Outcomes <- Returned
    BadBits = {0, 7, 8, 15, 21, 31, 32, 39, 40, 47, 48, 55, 56, 63}
SPECIFICATION Am2320Spec
INVARIANT SignIsPrinted
