SPECIFICATION Spec
CONSTANTS
    Results <- MCResults
    Codes = {1, 2}
    MaxChain = 3
    Half = 2
    Numbers <- MCNumbers
    Dates <- MCDates
    MaxItems = 2
INVARIANTS TypeOK ArgumentsArrive ValuesArrive RefusedExactly AnsweredOnce
           OwnedOnce ErrorTold NothingLeft
CHECK_DEADLOCK FALSE
