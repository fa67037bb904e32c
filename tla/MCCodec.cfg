SPECIFICATION Spec
CONSTANT
    Texts <- MCTexts
    Tokens <- MCTokens
    Strings <- MCStrings
INVARIANTS TypeOK WktAsMeant JsonAsMeant ReloadKeeps FlattenedWhole JsonKeeps NothingLeaks
CHECK_DEADLOCK FALSE
