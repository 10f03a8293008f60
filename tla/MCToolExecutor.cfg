\* More calls than slots, of a tool that comes and goes.
CONSTANTS
    Sessions = {s1, s2}
    Calls = {k1, k2, k3}
    ClientIds = {x, y}
    MaxConcurrent = 2
    Names = {"tool"}
    Categories = {"data", "custom"}
    Definitions <- MCDefinitions
    Parameters <- MCParameters
    Text = Text
    Number = Number
    Null = Null
    TooLarge <- MCTooLarge
SPECIFICATION CallsSpec
INVARIANTS TypeOK EverySlotHasItsCall FreshCallsWithinLimit CategoriesIndexTools
PROPERTIES RefusedOnlyWhenBusy StartedCallsAreAnswered
