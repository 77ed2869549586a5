CONSTANTS
    Chars = {"SE", "SB"}
    MaxLine = 2
    SubSize = 2
    MaxWire = 1
SPECIFICATION Spec
INVARIANT TypeOK
PROPERTIES ExecutesWhatIsShown ImplementsCommandLine
