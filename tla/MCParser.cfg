CONSTANT Texts <- MCTexts
SPECIFICATION FairSpec
INVARIANTS TypeOK NothingLost Whole Clean Owned Shape
PROPERTY Ends
