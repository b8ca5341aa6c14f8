------------------------------- MODULE MCSite -------------------------------
(***************************************************************************)
(* A small instance of Site.                                               *)
(***************************************************************************)
EXTENDS Site

\* Both sides of the menu's breakpoint, the breakpoint itself, and a desktop.
MCWidths == {639, 640, 1024}

\* A search that matches everything, one thing, or nothing.
MCSearches == {Examples, {Hello}, {}}

MCEventSets == {{"menu", "focus", "resize"}, {"menu", "resize", "leave", "tabs", "window"},
                {"menu", "dots"}, {"menu", "resize", "leave", "runs", "examples", "typing"},
                {"resize", "runs", "panels", "zoom"}}
=============================================================================
