CONSTANTS
    Width = 2
    Height = 2
    TabSize = 2
    MaxX = 2
    MaxLines = 4
SPECIFICATION ScreenSpec
INVARIANTS
    ScreenTypeOK
    ScreenShowsLog
PROPERTIES
    LogKeepsHistory
    RuboutStopsAtLimit
