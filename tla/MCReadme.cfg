CONSTANT Texts <- MCTexts
SPECIFICATION Spec
INVARIANT Accepted
