CONSTANTS
    Chars <- MCChars
    Codes <- MCCodes
    NewLine <- MCNewLine
SPECIFICATION Spec
INVARIANTS TypeOK Position
