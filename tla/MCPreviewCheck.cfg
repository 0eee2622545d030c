CONSTANTS
    Inch = 2
    Dialects <- MCDialects
    Queued = FALSE
    MaxLines = 7
SPECIFICATION Spec
PROPERTIES
    PreviewIsTrue
CHECK_DEADLOCK FALSE
