CONSTANTS
    Widths <- MCWidths
    MaxRefocus = 1
    Examples = {"hello"}
    Searches <- MCSearches
    MaxRuns = 1
    Tabs = {"variables"}
    MaxClicks = 1
    EventSets <- MCEventSets
SPECIFICATION Spec
INVARIANT PanelsOnDesktop
