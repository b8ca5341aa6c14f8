----------------------------- MODULE Navigation -----------------------------
(***************************************************************************)
(* shared.js: the header's menu on a narrow window, which injectLayout     *)
(* puts on every page.  The menu is closed over the page's other events:   *)
(* while it is open the document listens for keys and for clicks, the      *)
(* clicks in the capture phase, before the element clicked hears of them.  *)
(*                                                                         *)
(* A menu is a record; the functions of injectLayout map menus to menus.   *)
(* The stops of the Tab key stand for the focusable elements of a page:    *)
(* the toggle, the first and last link of the menu and one control.        *)
(***************************************************************************)
EXTENDS Integers

CONSTANTS Widths,      \* values window.innerWidth may take
          MaxRefocus   \* bound on the focus timers pending

ASSUME NavigationAssumption == Widths \subseteq Nat /\ Widths # {} /\ MaxRefocus \in Nat

VARIABLES menu,        \* what the closure of injectLayout holds
          focused,     \* document.activeElement
          width        \* window.innerWidth

navigation == <<menu, focused, width>>

Breakpoint == 640
SwipeLength == 60
Links == {"first", "last"}
Stops == [body |-> 0, toggle |-> 1, first |-> 2, last |-> 3, control |-> 4]
Elements == DOMAIN Stops

\* The header as injected: closed, the document not listening.
ClosedMenu == [open |-> FALSE, locked |-> FALSE, listening |-> {}, lastFocused |-> "body", refocus |-> 0]

Menus == [open: BOOLEAN, locked: BOOLEAN, listening: SUBSET {"keydown", "click"},
          lastFocused: Elements, refocus: 0..MaxRefocus]

OpenNav(m, active) ==
    IF m.open
    THEN m
    ELSE [m EXCEPT !.open = TRUE, !.lastFocused = active,
                   !.locked = TRUE, !.listening = {"keydown", "click"}]

\* Mutant: the click listener is removed without its capture option, and stays.
CloseNav_Bubbling(m) ==
    IF m.open
    THEN [m EXCEPT !.open = FALSE, !.locked = FALSE, !.listening = {"click"}, !.refocus = @ + 1]
    ELSE m

\* The timer that gives the focus back reads lastFocused when it fires.
CloseNav(m) ==
    IF m.open
    THEN [m EXCEPT !.open = FALSE, !.locked = FALSE, !.listening = {}, !.refocus = @ + 1]
    ELSE m

ToggleNav(m, active) == IF m.open THEN CloseNav(m) ELSE OpenNav(m, active)

\* The icon inside the toggle is neither the menu nor the toggle.
OnDocClick(m, target) == IF target \in Links \cup {"toggle"} THEN m ELSE CloseNav(m)

\* A click is heard by the document first, then by the toggle it may be in.
Clicked(m, target, active) ==
    LET captured == IF "click" \in m.listening THEN OnDocClick(m, target) ELSE m
    IN  IF target \in {"toggle", "icon"} THEN ToggleNav(captured, active) ELSE captured

\* Wide windows show the links and no toggle, narrow ones the open menu only.
Reachable(m, w) == {"control"} \cup IF w >= Breakpoint
                                    THEN Links
                                    ELSE {"toggle"} \cup IF m.open THEN Links ELSE {}

\* An element that disappears loses the focus to the body.
Held(element, m, w) == IF element \in Reachable(m, w) THEN element ELSE "body"

\* Closing starts a timer; the bound is on those that may be pending.
MayClose == menu.refocus < MaxRefocus

NavInit == /\ menu = ClosedMenu
           /\ focused = "body"
           /\ width \in Widths

\* A mouse click, or a key pressed on a button, on the toggle or on its icon.
\* Whether a button takes the focus when it is clicked is up to the browser.
ClickToggle(target) ==
    /\ MayClose
    /\ width < Breakpoint
    /\ \E active \in {"toggle", "body"}:
          LET next == Clicked(menu, target, active)
          IN  menu' = next /\ focused' = Held(active, next, width)
    /\ UNCHANGED width

\* A tap: touchend toggles, and preventDefault keeps the click from following.
TapToggle ==
    /\ MayClose
    /\ width < Breakpoint
    /\ LET next == ToggleNav(menu, focused)
       IN  menu' = next /\ focused' = Held(focused, next, width)
    /\ UNCHANGED width

\* What a click elsewhere on the page does to the menu, before the page hears it.
ClickPage ==
    /\ MayClose
    /\ \E active \in {"control", "body"}:
          menu' = Clicked(menu, "control", active) /\ focused' = active
    /\ UNCHANGED width

\* Escape, wherever the focus is, as far as the document hears it.
EscapeKey ==
    /\ MayClose
    /\ LET next == IF "keydown" \in menu.listening THEN CloseNav(menu) ELSE menu
       IN  menu' = next /\ focused' = Held(focused, next, width)
    /\ UNCHANGED width

\* The browser's own choice of the next stop, past the ends the body.
NextStop(back) ==
    LET at == IF focused = "body" /\ back THEN 5 ELSE Stops[focused]
        ahead == {e \in Reachable(menu, width) : IF back THEN Stops[e] < at ELSE Stops[e] > at}
        nearest == {e \in ahead : \A o \in ahead : IF back THEN Stops[o] <= Stops[e] ELSE Stops[o] >= Stops[e]}
    IN  IF ahead = {} THEN "body" ELSE CHOOSE e \in nearest : TRUE

\* Mutant: both ends of the trap are tested for the same direction.
Tab_OneWay(back) ==
    /\ focused' = IF "keydown" \in menu.listening /\ menu.open /\ ~back /\ focused = "last"
                  THEN "first"
                  ELSE NextStop(back)
    /\ UNCHANGED <<menu, width>>

\* Tab: onKey takes it from the browser at the ends of the open menu.
Tab(back) ==
    /\ focused' = IF /\ "keydown" \in menu.listening
                     /\ menu.open
                     /\ focused = (IF back THEN "first" ELSE "last")
                  THEN IF back THEN "last" ELSE "first"
                  ELSE NextStop(back)
    /\ UNCHANGED <<menu, width>>

\* A finger put down on the menu and moved by dy, downwards positive.
Swipe(dy) ==
    /\ MayClose
    /\ menu.open
    /\ LET next == IF dy > SwipeLength THEN CloseNav(menu) ELSE menu
       IN  menu' = next /\ focused' = Held(focused, next, width)
    /\ UNCHANGED width

\* Mutant: the window must be wider than the breakpoint.
Resize_Beyond(w) ==
    /\ MayClose
    /\ width' = w
    /\ LET next == IF w > Breakpoint THEN CloseNav(menu) ELSE menu
       IN  menu' = next /\ focused' = Held(focused, next, w)

\* The window changes its size, or the device is turned.
Resize(w) ==
    /\ MayClose
    /\ width' = w
    /\ LET next == IF w >= Breakpoint THEN CloseNav(menu) ELSE menu
       IN  menu' = next /\ focused' = Held(focused, next, w)

\* 30 ms after a closing; an element that cannot take the focus ignores it.
GiveFocusBack ==
    /\ menu.refocus > 0
    /\ menu' = [menu EXCEPT !.refocus = @ - 1]
    /\ focused' = IF menu.lastFocused \in Reachable(menu, width) THEN menu.lastFocused ELSE focused
    /\ UNCHANGED width

\* Another page is loaded in the same window.
NavGone == menu' = ClosedMenu /\ focused' = "body" /\ UNCHANGED width

(***************************************************************************)
(* Properties                                                              *)
(***************************************************************************)

NavTypeOK == menu \in Menus /\ focused \in Elements /\ width \in Widths

\* The page scrolls, and the document is left alone, unless the menu is open,
\* and it is open only where its toggle is to be seen: whatever closes it
\* (toggle, Escape, a click, a swipe, a wider window) undoes all of openNav.
MenuSafe == /\ menu.locked = menu.open
            /\ menu.listening = (IF menu.open THEN {"keydown", "click"} ELSE {})
            /\ menu.open => width < Breakpoint

\* Focus that is inside an open menu stays there as long as the menu stays as it
\* is: Tab, in either direction, never walks out of it (onKey's trap).
FocusTrapped ==
    [][menu.open /\ menu' = menu /\ focused \in Links => focused' \in Links]_navigation
=============================================================================
