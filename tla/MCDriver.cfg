CONSTANTS
    Texts <- MCTexts
    Libraries <- MCLibraries
    Commands <- MCCommands
    TypeErrors <- MCTypeErrors
    Statuses = 3
SPECIFICATION DriverSpec
INVARIANTS Success Undisturbed  Lookup Explained
