SPECIFICATION Spec
CONSTANTS
    Vals <- MCVals
    Objects <- MCObjects
    Literals <- MCLiterals
    Expressions <- MCExpressions
    Decks <- MCDecks
    SlideIds = {"s1", "s2", "s3"}
    Sheets <- MCSheets
    Templates <- MCTemplates
    Scopes <- MCScopes
    Arrays <- MCArrays
INVARIANTS
    
    DeckKeysTellChildrenApart
    DeclarationsStayWhole
    StreamingOnlyAdds
CHECK_DEADLOCK FALSE
