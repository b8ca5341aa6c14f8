CONSTANTS
    Widths <- MCWidths
    MaxRefocus = 2
    Examples = {"hello", "demo1"}
    Searches <- MCSearches
    MaxRuns = 2
    Tabs = {"variables", "arithmetics", "floats"}
    MaxClicks = 3
    EventSets <- MCEventSets
SPECIFICATION Spec
INVARIANTS MenuSafe PagesAgree
PROPERTIES FocusTrapped CarouselTurns
