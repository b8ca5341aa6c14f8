----------------------------- MODULE SiteProofs -----------------------------
(***************************************************************************)
(* Proofs about Site: every step of it is a step of the menu, of the       *)
(* compiler page and of the home page, each of which keeps the invariant   *)
(* of its part.                                                            *)
(***************************************************************************)
EXTENDS Site, TLAPS

\* The invariant of each part.
NavInv == NavTypeOK /\ MenuSafe
CompilerInv == CompilerTypeOK /\ StatusTells /\ HighlightTells
HomeInv == HomeTypeOK /\ CarouselAgrees /\ carousel.handle /\ ModalAgrees

\* What a step may do to each part.
NavStep == \/ \E target \in {"toggle", "icon"}: ClickToggle(target)
           \/ TapToggle
           \/ ClickPage
           \/ EscapeKey
           \/ \E back \in BOOLEAN: Tab(back)
           \/ \E dy \in Int: Swipe(dy)
           \/ \E w \in Widths: Resize(w)
           \/ GiveFocusBack
           \/ NavGone
           \/ UNCHANGED navigation

CompilerStep == \/ EditorReady
                \/ Type
                \/ \E matching \in SUBSET Examples: Search(matching)
                \/ \E key \in Examples: LoadExample(key)
                \/ Reset
                \/ \E panel \in Panels: ClickTab(panel)
                \/ Run(width)
                \/ Answer
                \/ \E step \in Int: Zoom(step)
                \/ CompilerPageGone
                \/ UNCHANGED compilerVars

HomeStep == \/ Advance
            \/ \E index \in Slides: ClickDot(index)
            \/ \E t \in Tabs: ClickExampleTab(t)
            \/ \E key \in Tabs: OpenCodeModal(key)
            \/ CloseCodeModal
            \/ \E key \in colouring: Colour(key)
            \/ HomePageGone
            \/ UNCHANGED homeVars

(***************************************************************************)
(* The menu                                                                *)
(***************************************************************************)

\* A menu as openNav and closeNav leave it.
SoundMenu(m) == /\ m \in [open: BOOLEAN, locked: BOOLEAN, listening: SUBSET {"keydown", "click"},
                          lastFocused: Elements, refocus: Nat]
                /\ m.locked = m.open
                /\ m.listening = (IF m.open THEN {"keydown", "click"} ELSE {})

\* Opening keeps a menu sound, opens it, and starts no timer.
LEMMA OpenSound ==
    ASSUME NEW m, NEW elem \in Elements, SoundMenu(m)
    PROVE  /\ SoundMenu(OpenNav(m, elem))
           /\ OpenNav(m, elem).open = TRUE
           /\ OpenNav(m, elem).refocus = m.refocus
BY DEF SoundMenu, OpenNav

\* Closing keeps a menu sound, closes it, and starts a timer if it was open.
LEMMA CloseSound ==
    ASSUME NEW m, SoundMenu(m)
    PROVE  /\ SoundMenu(CloseNav(m))
           /\ CloseNav(m).open = FALSE
           /\ CloseNav(m).refocus = IF m.open THEN m.refocus + 1 ELSE m.refocus
<1>1. CASE m.open
  <2>1. CloseNav(m) = [m EXCEPT !.open = FALSE, !.locked = FALSE, !.listening = {},
                                !.refocus = m.refocus + 1]
    BY <1>1 DEF CloseNav
  <2>2. m.refocus + 1 \in Nat /\ {} \in SUBSET {"keydown", "click"}
    BY DEF SoundMenu
  <2>3. CloseNav(m) \in [open: BOOLEAN, locked: BOOLEAN, listening: SUBSET {"keydown", "click"},
                         lastFocused: Elements, refocus: Nat]
    BY <2>1, <2>2 DEF SoundMenu
  <2>4. /\ CloseNav(m).open = FALSE /\ CloseNav(m).locked = FALSE
        /\ CloseNav(m).listening = {} /\ CloseNav(m).refocus = m.refocus + 1
    BY <2>1 DEF SoundMenu
  <2> QED
    BY <1>1, <2>3, <2>4 DEF SoundMenu
<1>2. CASE ~m.open
  <2>1. m.open = FALSE /\ CloseNav(m) = m
    BY <1>2 DEF SoundMenu, CloseNav
  <2> QED
    BY <2>1
<1> QED
  BY <1>1, <1>2

\* Toggling keeps a menu sound, turns it, and starts a timer if it was open.
LEMMA ToggleSound ==
    ASSUME NEW m, NEW elem \in Elements, SoundMenu(m)
    PROVE  /\ SoundMenu(ToggleNav(m, elem))
           /\ ToggleNav(m, elem).open = ~m.open
           /\ ToggleNav(m, elem).refocus = IF m.open THEN m.refocus + 1 ELSE m.refocus
<1>1. m.open \in BOOLEAN
  BY DEF SoundMenu
<1>2. CASE m.open
  BY <1>2, CloseSound DEF ToggleNav
<1>3. CASE ~m.open
  BY <1>3, OpenSound DEF ToggleNav
<1> QED
  BY <1>1, <1>2, <1>3

\* A click keeps a menu sound and closes an open one at most once; outside it
\* an open menu is closed, and a closed one opened by its toggle alone.
LEMMA ClickSound ==
    ASSUME NEW m, NEW elem \in Elements, NEW target \in {"toggle", "icon", "control"}, SoundMenu(m)
    PROVE  /\ SoundMenu(Clicked(m, target, elem))
           /\ Clicked(m, target, elem).refocus = IF m.open THEN m.refocus + 1 ELSE m.refocus
           /\ target = "control" => ~Clicked(m, target, elem).open
<1> DEFINE captured == IF "click" \in m.listening THEN OnDocClick(m, target) ELSE m
<1>1. m.open \in BOOLEAN /\ m.refocus \in Nat
  BY DEF SoundMenu
<1>2. CASE target = "toggle"
  <2>1. captured = m
    BY <1>2 DEF OnDocClick
  <2> QED
    BY <1>2, <2>1, ToggleSound DEF Clicked
<1>3. CASE target \in {"icon", "control"}
  <2>1. captured = CloseNav(m)
    BY <1>1, <1>3 DEF OnDocClick, Links, SoundMenu, CloseNav
  <2>2. /\ SoundMenu(captured) /\ ~captured.open
        /\ captured.refocus = IF m.open THEN m.refocus + 1 ELSE m.refocus
    BY <2>1, CloseSound
  <2>3. Clicked(m, target, elem) = IF target = "icon" THEN ToggleNav(captured, elem) ELSE captured
    BY <1>3 DEF Clicked
  <2> HIDE DEF captured
  <2> QED
    BY <1>3, <2>2, <2>3, ToggleSound
<1> QED
  BY <1>2, <1>3

\* The invariant of the menu, in terms of sound menus.
LEMMA NavInvIsSound ==
    NavInv <=> /\ SoundMenu(menu) /\ menu.refocus \in 0..MaxRefocus
               /\ focused \in Elements /\ width \in Widths
               /\ menu.open => width < Breakpoint
<1>1. ASSUME NavInv PROVE SoundMenu(menu) /\ menu.refocus \in 0..MaxRefocus
  BY <1>1, NavigationAssumption DEF NavInv, NavTypeOK, MenuSafe, Menus, SoundMenu
<1>2. ASSUME SoundMenu(menu), menu.refocus \in 0..MaxRefocus
      PROVE  menu \in Menus /\ menu.locked = menu.open
             /\ menu.listening = (IF menu.open THEN {"keydown", "click"} ELSE {})
  BY <1>2 DEF SoundMenu, Menus
<1> QED
  BY <1>1, <1>2 DEF NavInv, NavTypeOK, MenuSafe

\* An element that keeps the focus, or loses it to the body.
LEMMA HeldElement == ASSUME NEW elem \in Elements, NEW m, NEW w
                     PROVE  Held(elem, m, w) \in Elements
BY DEF Held, Elements, Stops

\* Where Tab goes there is something to focus.
LEMMA StopExists == ASSUME NEW back \in BOOLEAN, NavInv
                    PROVE  NextStop(back) \in Elements
<1> DEFINE at == IF focused = "body" /\ back THEN 5 ELSE Stops[focused]
           ahead == {e \in Reachable(menu, width) : IF back THEN Stops[e] < at ELSE Stops[e] > at}
           nearest == {e \in ahead : \A o \in ahead : IF back THEN Stops[o] <= Stops[e] ELSE Stops[o] >= Stops[e]}
<1>1. /\ \A e \in Elements : Stops[e] \in 0..4
      /\ Reachable(menu, width) \subseteq Elements
  BY DEF Elements, Stops, Reachable, Links
<1>2. at \in 0..5
  BY <1>1 DEF NavInv, NavTypeOK
<1>3. CASE ahead = {}
  <2>1. "body" \in Elements
    BY DEF Elements, Stops
  <2> QED
    BY <1>3, <2>1 DEF NextStop
<1>4. CASE ahead # {}
  <2>1. \E e \in ahead : \A o \in ahead : Stops[o] >= Stops[e]
    BY <1>4 DEF Elements, Stops, Reachable, Links
  <2>2. \E e \in ahead : \A o \in ahead : Stops[o] <= Stops[e]
    BY <1>4 DEF Elements, Stops, Reachable, Links
  <2>3. nearest # {}
    BY <2>1, <2>2
  <2>4. (CHOOSE e \in nearest : TRUE) \in nearest
    BY <2>3
  <2>5. (CHOOSE e \in nearest : TRUE) \in Elements
    BY <1>1, <2>4
  <2>6. NextStop(back) = CHOOSE e \in nearest : TRUE
    BY <1>4 DEF NextStop
  <2> QED
    BY <2>5, <2>6
<1> QED
  BY <1>3, <1>4

\* Every step of the menu keeps its invariant.
LEMMA NavStepKeeps == NavInv /\ NavStep => NavInv'
<1> SUFFICES ASSUME NavInv, NavStep PROVE NavInv'
  OBVIOUS
<1>0. /\ SoundMenu(menu) /\ menu.refocus \in 0..MaxRefocus /\ MaxRefocus \in Nat
      /\ focused \in Elements /\ width \in Widths /\ Widths \subseteq Nat
      /\ menu.open => width < Breakpoint
      /\ menu.open \in BOOLEAN
  BY NavInvIsSound, NavigationAssumption DEF SoundMenu
<1> DEFINE Good == /\ SoundMenu(menu') /\ menu'.refocus \in 0..MaxRefocus
                   /\ focused' \in Elements /\ width' \in Widths
                   /\ menu'.open => width' < Breakpoint
<1>e. {"toggle", "body", "control"} \subseteq Elements
  BY DEF Elements, Stops
<1>1. ASSUME NEW target \in {"toggle", "icon"}, ClickToggle(target) PROVE Good
  <2>1. PICK elem \in {"toggle", "body"}:
          menu' = Clicked(menu, target, elem) /\ focused' = Held(elem, Clicked(menu, target, elem), width)
    BY <1>1 DEF ClickToggle
  <2>2. SoundMenu(menu') /\ menu'.refocus = IF menu.open THEN menu.refocus + 1 ELSE menu.refocus
    BY <1>0, <1>e, <2>1, ClickSound
  <2>3. focused' \in Elements
    BY <1>e, <2>1, HeldElement
  <2> QED
    BY <1>0, <1>1, <2>2, <2>3 DEF ClickToggle, MayClose
<1>2. ASSUME TapToggle PROVE Good
  <2>1. SoundMenu(menu') /\ menu'.refocus = IF menu.open THEN menu.refocus + 1 ELSE menu.refocus
    BY <1>0, <1>2, ToggleSound DEF TapToggle
  <2>2. focused' \in Elements
    BY <1>0, <1>2, HeldElement DEF TapToggle
  <2> QED
    BY <1>0, <1>2, <2>1, <2>2 DEF TapToggle, MayClose
<1>3. ASSUME ClickPage PROVE Good
  <2>1. PICK elem \in {"control", "body"}: menu' = Clicked(menu, "control", elem) /\ focused' = elem
    BY <1>3 DEF ClickPage
  <2>2. /\ SoundMenu(menu') /\ ~menu'.open
        /\ menu'.refocus = IF menu.open THEN menu.refocus + 1 ELSE menu.refocus
    BY <1>0, <1>e, <2>1, ClickSound
  <2> QED
    BY <1>0, <1>3, <1>e, <2>1, <2>2 DEF ClickPage, MayClose
<1>c. ASSUME MayClose, menu' \in {menu, CloseNav(menu)}
      PROVE  /\ SoundMenu(menu') /\ menu'.refocus \in 0..MaxRefocus
             /\ menu'.open => menu' = menu
  <2>1. CASE menu' = menu
    BY <1>0, <2>1
  <2>2. CASE menu' = CloseNav(menu)
    <3>1. /\ SoundMenu(CloseNav(menu)) /\ CloseNav(menu).open = FALSE
          /\ CloseNav(menu).refocus = IF menu.open THEN menu.refocus + 1 ELSE menu.refocus
      BY <1>0, CloseSound
    <3>2. CloseNav(menu).refocus \in 0..MaxRefocus
      BY <1>0, <1>c, <3>1 DEF MayClose
    <3> QED
      BY <2>2, <3>1, <3>2
  <2> QED
    BY <1>c, <2>1, <2>2
<1>4. ASSUME EscapeKey PROVE Good
  <2>1. /\ menu' \in {menu, CloseNav(menu)} /\ MayClose /\ width' = width
        /\ focused' = Held(focused, menu', width)
    BY <1>4 DEF EscapeKey
  <2> QED
    BY <1>0, <1>c, <2>1, HeldElement
<1>5. ASSUME NEW back \in BOOLEAN, Tab(back) PROVE Good
  <2>1. NextStop(back) \in Elements
    BY StopExists
  <2>2. focused' \in {"first", "last", NextStop(back)}
    BY <1>5 DEF Tab
  <2>3. focused' \in Elements
    BY <2>1, <2>2 DEF Elements, Stops
  <2> QED
    BY <1>0, <1>5, <2>3 DEF Tab
<1>6. ASSUME NEW dy \in Int, Swipe(dy) PROVE Good
  <2>1. /\ menu' \in {menu, CloseNav(menu)} /\ MayClose /\ width' = width
        /\ focused' = Held(focused, menu', width)
    BY <1>6 DEF Swipe
  <2> QED
    BY <1>0, <1>c, <2>1, HeldElement
<1>7. ASSUME NEW w \in Widths, Resize(w) PROVE Good
  <2>1. /\ menu' = (IF w >= Breakpoint THEN CloseNav(menu) ELSE menu)
        /\ MayClose /\ width' = w /\ focused' = Held(focused, menu', w)
    BY <1>7 DEF Resize
  <2>2. menu'.open => width' < Breakpoint
    <3>1. w \in Nat /\ Breakpoint \in Nat
      BY <1>0 DEF Breakpoint
    <3>2. CASE w >= Breakpoint
      BY <1>0, <2>1, <3>2, CloseSound
    <3>3. CASE ~(w >= Breakpoint)
      BY <2>1, <3>1, <3>3
    <3> QED
      BY <3>2, <3>3
  <2>3. menu' \in {menu, CloseNav(menu)}
    BY <2>1
  <2> QED
    BY <1>0, <1>c, <2>1, <2>2, <2>3, HeldElement
<1>8. ASSUME GiveFocusBack PROVE Good
  <2>1. menu' = [menu EXCEPT !.refocus = menu.refocus - 1] /\ menu.refocus > 0 /\ width' = width
    BY <1>8 DEF GiveFocusBack
  <2>2. menu.refocus - 1 \in 0..MaxRefocus
    BY <1>0, <2>1
  <2>3. /\ menu' \in [open: BOOLEAN, locked: BOOLEAN, listening: SUBSET {"keydown", "click"},
                       lastFocused: Elements, refocus: Nat]
        /\ menu'.open = menu.open /\ menu'.locked = menu.locked
        /\ menu'.listening = menu.listening /\ menu'.refocus = menu.refocus - 1
    BY <1>0, <2>1, <2>2 DEF SoundMenu
  <2>4. SoundMenu(menu')
    BY <1>0, <2>3 DEF SoundMenu
  <2>5. focused' \in Elements
    BY <1>0, <1>8 DEF GiveFocusBack, SoundMenu
  <2> QED
    BY <1>0, <2>1, <2>2, <2>3, <2>4, <2>5
<1>9. ASSUME NavGone PROVE Good
  <2>1. SoundMenu(ClosedMenu) /\ ClosedMenu.open = FALSE /\ ClosedMenu.refocus = 0
    BY <1>e DEF SoundMenu, ClosedMenu
  <2> QED
    BY <1>0, <1>9, <1>e, <2>1 DEF NavGone
<1>10. ASSUME UNCHANGED navigation PROVE Good
  BY <1>0, <1>10 DEF navigation
<1>11. Good
  BY <1>1, <1>2, <1>3, <1>4, <1>5, <1>6, <1>7, <1>8, <1>9, <1>10 DEF NavStep
<1> QED
  <2>1. /\ menu' \in Menus /\ menu'.locked = menu'.open
        /\ menu'.listening = (IF menu'.open THEN {"keydown", "click"} ELSE {})
    BY <1>11 DEF SoundMenu, Menus
  <2> QED
    BY <1>11, <2>1 DEF NavInv, NavTypeOK, MenuSafe

\* In an open menu the ends of Tab's way are the links: whatever onKey leaves to
\* the browser goes from one link to the other.
LEMMA TabStaysInside ==
    ASSUME NavInv, menu.open, focused \in Links, NEW back \in BOOLEAN, Tab(back)
    PROVE  focused' \in Links
<1>1. width < Breakpoint /\ "keydown" \in menu.listening
  BY DEF NavInv, MenuSafe
<1>2. CASE focused = (IF back THEN "first" ELSE "last")
  BY <1>1, <1>2 DEF Tab, Links
<1>3. CASE focused # (IF back THEN "first" ELSE "last")
  <2> DEFINE ahead == {e \in Reachable(menu, width) : IF back THEN Stops[e] < Stops[focused]
                                                      ELSE Stops[e] > Stops[focused]}
             nearest == {e \in ahead : \A o \in ahead : IF back THEN Stops[o] <= Stops[e]
                                                       ELSE Stops[o] >= Stops[e]}
             goal == IF back THEN "first" ELSE "last"
  <2>1. width \in Nat /\ ~(width >= Breakpoint)
    BY <1>1, NavigationAssumption DEF NavInv, NavTypeOK, Breakpoint
  <2>2. Reachable(menu, width) = {"toggle", "first", "last", "control"}
    BY <2>1 DEF Reachable, Links
  <2>3. focused = (IF back THEN "last" ELSE "first")
    BY <1>3 DEF Links
  <2>4. /\ Stops["toggle"] = 1 /\ Stops["first"] = 2 /\ Stops["last"] = 3 /\ Stops["control"] = 4
    BY DEF Stops
  <2>5. ahead = IF back THEN {"toggle", "first"} ELSE {"last", "control"}
    BY <2>2, <2>3, <2>4
  <2>6. nearest = {goal}
    BY <2>4, <2>5
  <2>7. (CHOOSE e \in nearest : TRUE) = goal
    BY <2>6
  <2>8. ahead # {} /\ focused # "body"
    BY <2>3, <2>5
  <2>9. NextStop(back) = goal
    BY <2>7, <2>8 DEF NextStop
  <2> QED
    BY <1>3, <2>9 DEF Tab, Links
<1> QED
  BY <1>2, <1>3

\* No step of the menu that leaves it as it is moves the focus out of its links.
LEMMA FocusStaysInside ==
    ASSUME NavInv, NavStep, menu.open, focused \in Links
    PROVE  menu' = menu => focused' \in Links
<1>0. /\ SoundMenu(menu) /\ menu.refocus \in 0..MaxRefocus /\ MaxRefocus \in Nat
      /\ focused \in Elements /\ {"toggle", "body", "control"} \subseteq Elements
  BY NavInvIsSound, NavigationAssumption DEF Elements, Stops
<1>h. ASSUME NEW w \in Widths, focused' = Held(focused, menu', w), menu' = menu PROVE focused' \in Links
  BY <1>h DEF Held, Reachable
<1>1. ASSUME NEW target \in {"toggle", "icon"}, ClickToggle(target) PROVE menu' # menu
  <2>1. PICK elem \in {"toggle", "body"}: menu' = Clicked(menu, target, elem)
    BY <1>1 DEF ClickToggle
  <2>2. elem \in Elements /\ target \in {"toggle", "icon", "control"}
    BY <1>0
  <2>3. Clicked(menu, target, elem).refocus = IF menu.open THEN menu.refocus + 1 ELSE menu.refocus
    BY <1>0, <2>2, ClickSound
  <2>4. menu'.refocus = menu.refocus + 1 /\ menu.refocus \in Nat
    BY <1>0, <2>1, <2>3
  <2> QED
    BY <2>4
<1>2. ASSUME TapToggle PROVE menu' # menu
  <2>1. ToggleNav(menu, focused).refocus = IF menu.open THEN menu.refocus + 1 ELSE menu.refocus
    BY <1>0, ToggleSound
  <2>2. menu.refocus \in Nat
    BY <1>0
  <2>3. menu' = ToggleNav(menu, focused)
    BY <1>2 DEF TapToggle
  <2>4. menu'.refocus = menu.refocus + 1
    BY <2>1, <2>3
  <2> QED
    BY <2>2, <2>4
<1>3. ASSUME ClickPage PROVE menu' # menu
  <2>1. PICK elem \in {"control", "body"}: menu' = Clicked(menu, "control", elem)
    BY <1>3 DEF ClickPage
  <2> QED
    BY <1>0, <2>1, ClickSound
<1>4. ASSUME EscapeKey PROVE menu' = menu => focused' \in Links
  BY <1>4, <1>h DEF EscapeKey, NavInv, NavTypeOK
<1>5. ASSUME NEW dy \in Int, Swipe(dy) PROVE menu' = menu => focused' \in Links
  BY <1>5, <1>h DEF Swipe, NavInv, NavTypeOK
<1>6. ASSUME NEW w \in Widths, Resize(w) PROVE menu' = menu => focused' \in Links
  BY <1>6, <1>h DEF Resize
<1>7. ASSUME GiveFocusBack PROVE menu' # menu
  <2>1. menu' = [menu EXCEPT !.refocus = menu.refocus - 1]
    BY <1>7 DEF GiveFocusBack
  <2>2. menu'.refocus = menu.refocus - 1 /\ menu.refocus \in Nat
    BY <1>0, <2>1 DEF SoundMenu
  <2> QED
    BY <2>2
<1>8. ASSUME NavGone PROVE menu' # menu
  BY <1>8 DEF NavGone, ClosedMenu
<1>9. ASSUME UNCHANGED navigation PROVE menu' = menu => focused' \in Links
  BY <1>9 DEF navigation
<1> QED
  BY <1>1, <1>2, <1>3, <1>4, <1>5, <1>6, <1>7, <1>8, <1>9, TabStaysInside DEF NavStep

(***************************************************************************)
(* The compiler page                                                       *)
(***************************************************************************)

\* Every step of the compiler page keeps its invariant.
LEMMA CompilerStepKeeps == CompilerInv /\ CompilerStep => CompilerInv'
<1> SUFFICES ASSUME CompilerInv, CompilerStep PROVE CompilerInv'
  OBVIOUS
<1>0. fontSize \in 10..28 /\ runs \in 0..MaxRuns /\ MaxRuns \in Nat /\ fontSize \in Int
  BY CompilerPageAssumption DEF CompilerInv, CompilerTypeOK, MinFont, MaxFont
<1>n. /\ \A size \in Int: Clamped(size) \in MinFont..MaxFont
      /\ 14 \in MinFont..MaxFont
  BY DEF Clamped, MinFont, MaxFont
<1>r. /\ \A w: Run(w) => runs' \in 0..MaxRuns /\ runs' > 0
      /\ Answer => runs' \in 0..MaxRuns
  BY <1>0 DEF Run, Answer
<1> USE CompilerPageAssumption DEF CompilerInv, CompilerTypeOK, StatusTells, HighlightTells,
        editing, sidebar, running, None
<1>1. CASE EditorReady
  BY <1>1 DEF EditorReady, RenderLists
<1>2. CASE Type
  BY <1>2 DEF Type
<1>3. ASSUME NEW matching \in SUBSET Examples, Search(matching) PROVE CompilerInv'
  BY <1>3 DEF Search, RenderLists
<1>4. ASSUME NEW key \in Examples, LoadExample(key) PROVE CompilerInv'
  BY <1>4 DEF LoadExample, HighlightActiveExample
<1>5. CASE Reset
  BY <1>5 DEF Reset, HighlightActiveExample
<1>6. ASSUME NEW panel \in Panels, ClickTab(panel) PROVE CompilerInv'
  BY <1>6 DEF ClickTab, ShowTab
<1>7. ASSUME Run(width) PROVE CompilerInv'
  <2>1. runs' \in 0..MaxRuns /\ runs' > 0
    BY <1>7, <1>r
  <2>2. hiddenPanel' \in SUBSET Panels
    BY <1>7 DEF Run, ShowTab
  <2> QED
    BY <1>7, <2>1, <2>2 DEF Run
<1>8. CASE Answer
  <2>1. runs' \in 0..MaxRuns
    BY <1>8, <1>r
  <2>2. \/ status' = "done" /\ output' \in {None, "output"}
        \/ status' = "error" /\ output' \in {"failed", "refused", "unreachable"}
    BY <1>8 DEF Answer, FailureMessage
  <2>3. UNCHANGED <<ready, text, active, fontSize, listed, highlighted, hiddenPanel>>
    BY <1>8 DEF Answer
  <2>4. CompilerTypeOK' /\ StatusTells'
    BY <2>1, <2>2, <2>3
  <2>5. HighlightTells'
    BY <2>3
  <2> QED
    BY <2>4, <2>5
<1>9. ASSUME NEW step \in Int, Zoom(step) PROVE CompilerInv'
  <2>1. fontSize + step \in Int
    BY <1>0
  <2>2. fontSize' = Clamped(fontSize + step)
    BY <1>9 DEF Zoom
  <2>3. fontSize' \in MinFont..MaxFont
    BY <1>n, <2>1, <2>2
  <2> QED
    BY <1>9, <2>3 DEF Zoom
<1>10. CASE CompilerPageGone
  <2>1. {"output"} \in SUBSET Panels
    BY DEF Panels
  <2> QED
    <3>1. /\ runs' = 0 /\ 0 \in 0..MaxRuns
          /\ fontSize' = 14 /\ fontSize' \in MinFont..MaxFont
      BY <1>0, <1>10, <1>n DEF CompilerPageGone
    <3>2. /\ ready' = FALSE /\ text' = None /\ active' = None /\ listed' = {} /\ highlighted' = {}
          /\ status' = "idle" /\ output' = None /\ hiddenPanel' = {"output"}
      BY <1>10 DEF CompilerPageGone
    <3>3. CompilerTypeOK'
      BY <2>1, <3>1, <3>2
    <3> QED
      BY <3>2, <3>3
<1>11. CASE UNCHANGED compilerVars
  BY <1>11 DEF compilerVars
<1> QED
  BY <1>1, <1>2, <1>3, <1>4, <1>5, <1>6, <1>7, <1>8, <1>9, <1>10, <1>11 DEF CompilerStep

(***************************************************************************)
(* The home page                                                           *)
(***************************************************************************)

\* A carousel that shows one slide, turned by one interval it has a handle to.
SoundCarousel(c) ==
    /\ c \in [slide: Slides, code: {HeroCodeSamples[i] : i \in DOMAIN HeroCodeSamples},
              lit: SUBSET Slides, timers: Nat, handle: BOOLEAN]
    /\ c.timers = 1 /\ c.handle
    /\ c.lit = {c.slide}
    /\ c.code = HeroCodeSamples[c.slide + 1]

\* Four samples, four slides.
LEMMA FourSlides == /\ Len(HeroCodeSamples) = 4
                    /\ Slides = 0..3
                    /\ \A s \in Slides: HeroCodeSamples[s + 1] \in {HeroCodeSamples[i] : i \in DOMAIN HeroCodeSamples}
<1>1. Len(HeroCodeSamples) = 4 /\ DOMAIN HeroCodeSamples = 1..4
  BY DEF HeroCodeSamples
<1>2. Slides = 0..3
  BY <1>1 DEF Slides
<1> QED
  BY <1>1, <1>2

\* The carousel as loaded, two initialisations on, is sound.
LEMMA LoadedSound == SoundCarousel(CarouselLoaded)
<1>1. 0 \in Slides
  BY FourSlides
<1>2. CarouselLoaded = [slide |-> 0, code |-> HeroCodeSamples[1], lit |-> {0}, timers |-> 1, handle |-> TRUE]
  <2> DEFINE fresh == [slide |-> 0, code |-> "", lit |-> {0}, timers |-> 0, handle |-> FALSE]
             once == [slide |-> 0, code |-> HeroCodeSamples[1], lit |-> {0}, timers |-> 1, handle |-> TRUE]
  <2>1. InitializeHeroCarousel(fresh) = once
    <3> DEFINE drawn == [slide |-> 0, code |-> HeroCodeSamples[1], lit |-> {0}, timers |-> 0, handle |-> FALSE]
    <3>1. UpdateHeroCode(fresh, 0) = [fresh EXCEPT !.code = HeroCodeSamples[1], !.lit = {0}]
      BY DEF UpdateHeroCode
    <3>2. UpdateHeroCode(fresh, 0) = drawn
      BY <3>1
    <3>3. StartCarouselTimer(drawn) = [drawn EXCEPT !.timers = 1, !.handle = TRUE]
      BY DEF StartCarouselTimer
    <3> QED
      BY <3>2, <3>3 DEF InitializeHeroCarousel
  <2>2. InitializeHeroCarousel(once) = once
    <3>1. UpdateHeroCode(once, 0) = [once EXCEPT !.code = HeroCodeSamples[1], !.lit = {0}]
      BY DEF UpdateHeroCode
    <3>2. UpdateHeroCode(once, 0) = once
      BY <3>1
    <3>3. StartCarouselTimer(once) = [once EXCEPT !.timers = 1, !.handle = TRUE]
      BY DEF StartCarouselTimer
    <3> QED
      BY <3>2, <3>3 DEF InitializeHeroCarousel
  <2> QED
    BY <2>1, <2>2 DEF CarouselLoaded
<1>3. HeroCodeSamples[1] \in {HeroCodeSamples[i] : i \in DOMAIN HeroCodeSamples}
  BY <1>1, FourSlides
<1> QED
  BY <1>1, <1>2, <1>3 DEF SoundCarousel

\* Showing a slide keeps a carousel sound.
LEMMA ShowSound ==
    ASSUME NEW c, SoundCarousel(c), NEW index \in Slides
    PROVE  SoundCarousel(UpdateHeroCode([c EXCEPT !.slide = index], index))
<1>1. HeroCodeSamples[index + 1] \in {HeroCodeSamples[i] : i \in DOMAIN HeroCodeSamples}
  BY FourSlides
<1>2. UpdateHeroCode([c EXCEPT !.slide = index], index) =
        [slide |-> index, code |-> HeroCodeSamples[index + 1], lit |-> {index},
         timers |-> c.timers, handle |-> c.handle]
  <2>1. UpdateHeroCode([c EXCEPT !.slide = index], index) =
          [[c EXCEPT !.slide = index] EXCEPT !.code = HeroCodeSamples[index + 1], !.lit = {index}]
    BY DEF UpdateHeroCode
  <2> QED
    BY <2>1 DEF SoundCarousel
<1> DEFINE shown == [slide |-> index, code |-> HeroCodeSamples[index + 1], lit |-> {index},
                     timers |-> c.timers, handle |-> c.handle]
<1>3. /\ shown.slide = index /\ shown.code = HeroCodeSamples[index + 1] /\ shown.lit = {index}
      /\ shown.timers = 1 /\ shown.handle
      /\ shown \in [slide: Slides, code: {HeroCodeSamples[i] : i \in DOMAIN HeroCodeSamples},
                    lit: SUBSET Slides, timers: Nat, handle: BOOLEAN]
  BY <1>1 DEF SoundCarousel
<1>4. SoundCarousel(shown)
  BY <1>3 DEF SoundCarousel
<1> QED
  BY <1>2, <1>4

\* Restarting the interval leaves one.
LEMMA RestartSound == ASSUME NEW c, SoundCarousel(c) PROVE SoundCarousel(StartCarouselTimer(c))
<1>1. StartCarouselTimer(c) = [c EXCEPT !.timers = 1, !.handle = TRUE]
  BY DEF SoundCarousel, StartCarouselTimer
<1>2. StartCarouselTimer(c) = c
  BY <1>1 DEF SoundCarousel
<1> QED
  BY <1>2

\* Every step of the home page keeps its invariant.
LEMMA HomeStepKeeps == HomeInv /\ HomeStep => HomeInv'
<1> SUFFICES ASSUME HomeInv, HomeStep PROVE HomeInv'
  OBVIOUS
<1> DEFINE Window == /\ modal' \in Tabs \cup {NoModal} /\ bodyLocked' \in BOOLEAN
                     /\ colouring' \subseteq Tabs /\ coloured' \in BOOLEAN /\ prism' \in BOOLEAN
                     /\ ModalAgrees'
           Rest == tab' \in [active: Tabs, shown: SUBSET Tabs] /\ clicks' \in 0..MaxClicks
<1>0. /\ SoundCarousel(carousel)
      /\ (UNCHANGED <<window, prism>> => Window)
      /\ (UNCHANGED <<tab, clicks>> => Rest)
  BY DEF HomeInv, HomeTypeOK, CarouselAgrees, SoundCarousel, window, ModalAgrees
<1>1. CASE Advance
  <2>1. Following(carousel.slide) \in Slides
    BY <1>0, FourSlides DEF Following, SoundCarousel
  <2>2. carousel' = UpdateHeroCode([carousel EXCEPT !.slide = Following(carousel.slide)], Following(carousel.slide))
    BY <1>1 DEF Advance
  <2>3. SoundCarousel(carousel')
    BY <1>0, <2>1, <2>2, ShowSound
  <2> QED
    BY <1>0, <1>1, <2>3 DEF Advance, HomeInv, HomeTypeOK, CarouselAgrees, SoundCarousel
<1>2. ASSUME NEW index \in Slides, ClickDot(index) PROVE HomeInv'
  <2>1. SoundCarousel(GoTo(carousel, index))
    BY <1>0, ShowSound, RestartSound DEF GoTo
  <2>2. SoundCarousel(carousel')
    BY <1>2, <2>1, ShowSound, RestartSound DEF GoTo, ClickDot
  <2>3. clicks' \in 0..MaxClicks /\ UNCHANGED <<tab, window, prism>>
    BY <1>2, HomePageAssumption DEF ClickDot, HomeInv, HomeTypeOK
  <2> QED
    BY <1>0, <2>2, <2>3 DEF HomeInv, HomeTypeOK, CarouselAgrees, SoundCarousel
<1>3. ASSUME NEW t \in Tabs, ClickExampleTab(t) PROVE HomeInv'
  <2>1. tab' \in [active: Tabs, shown: SUBSET Tabs]
    BY <1>3 DEF ClickExampleTab
  <2> QED
    BY <1>0, <1>3, <2>1 DEF ClickExampleTab, HomeInv, HomeTypeOK, CarouselAgrees, SoundCarousel
<1>4. ASSUME NEW key \in Tabs, OpenCodeModal(key) PROVE HomeInv'
  <2>1. key # NoModal
    BY HomePageAssumption DEF CodeExamples, NoModal
  <2>2. Window
    BY <1>4, <2>1 DEF OpenCodeModal, ModalAgrees, HomeInv, HomeTypeOK
  <2> QED
    BY <1>0, <1>4, <2>2 DEF OpenCodeModal, HomeInv, HomeTypeOK, CarouselAgrees, SoundCarousel
<1>5. CASE CloseCodeModal
  <2>1. Window
    BY <1>5 DEF CloseCodeModal, ModalAgrees, HomeInv, HomeTypeOK
  <2> QED
    BY <1>0, <1>5, <2>1 DEF CloseCodeModal, HomeInv, HomeTypeOK, CarouselAgrees, SoundCarousel
<1>6. ASSUME NEW key \in colouring, Colour(key) PROVE HomeInv'
  <2>2. /\ UNCHANGED <<modal, bodyLocked, prism>>
        /\ colouring' = colouring \ {key}
        /\ coloured' \in BOOLEAN
        /\ coloured' <=> (coloured \/ (prism /\ modal = key))
    BY <1>6 DEF Colour
  <2>3. key # NoModal /\ colouring \subseteq Tabs
    BY HomePageAssumption DEF CodeExamples, NoModal, HomeInv, HomeTypeOK
  <2>4. ModalAgrees'
    BY <2>2, <2>3 DEF ModalAgrees, HomeInv
  <2>1. Window
    BY <2>2, <2>4 DEF HomeInv, HomeTypeOK
  <2> QED
    BY <1>0, <1>6, <2>1 DEF Colour, HomeInv, HomeTypeOK, CarouselAgrees, SoundCarousel
<1>7. CASE HomePageGone
  <2>1. Window
    BY <1>7 DEF HomePageGone, ModalAgrees
  <2>2. Rest
    BY <1>7, HomePageAssumption DEF HomePageGone, HomeInv, HomeTypeOK
  <2> QED
    BY <1>7, <2>1, <2>2, LoadedSound DEF HomePageGone, HomeInv, HomeTypeOK, CarouselAgrees, SoundCarousel
<1>8. CASE UNCHANGED homeVars
  BY <1>0, <1>8 DEF homeVars, HomeInv, HomeTypeOK, CarouselAgrees, SoundCarousel
<1> QED
  BY <1>1, <1>2, <1>3, <1>4, <1>5, <1>6, <1>7, <1>8 DEF HomeStep

(***************************************************************************)
(* The site                                                                *)
(***************************************************************************)

\* What every step of the site is to each of its parts.
LEMMA StepOfParts == ASSUME Next PROVE NavStep /\ CompilerStep /\ HomeStep
<1> USE DEF NavStep, CompilerStep, HomeStep
<1>1. CASE UseMenu
  <2>1. {-SwipeLength - 1, SwipeLength, SwipeLength + 1} \subseteq Int
    BY DEF SwipeLength
  <2> QED
    BY <1>1, <2>1 DEF UseMenu
<1>2. CASE MoveFocus
  BY <1>2 DEF MoveFocus
<1>3. CASE RefocusTimer \/ LoadEditor \/ EditText \/ ReceiveAnswer
  BY <1>3 DEF RefocusTimer, LoadEditor, EditText, ReceiveAnswer
<1>4. CASE ResizeWindow \/ MenuOnly \/ FollowLink
  BY <1>4 DEF ResizeWindow, MenuOnly, FollowLink
<1>5. CASE UseExamples \/ ClickZoom \/ ClickPanelTab
  <2>1. {-1, 1} \subseteq Int
    OBVIOUS
  <2> QED
    BY <1>5, <2>1 DEF UseExamples, ClickZoom, ClickPanelTab
<1>6. CASE TypeSearch \/ EscapeSearch
  BY <1>6, CompilerPageAssumption DEF TypeSearch, EscapeSearch
<1>7. CASE ClickReset
  BY <1>7 DEF ClickReset
<1>8. CASE ClickRun
  BY <1>8 DEF ClickRun
<1>9. CASE CarouselTimer \/ UseDots \/ UseTabs
  BY <1>9 DEF CarouselTimer, UseDots, UseTabs
<1>10. CASE Expand \/ ClickClose \/ EscapeWindow
  <2>1. CASE Expand
    BY <2>1 DEF Expand
  <2>2. CASE ClickClose
    BY <2>2 DEF ClickClose
  <2>3. CASE EscapeWindow
    BY <2>3 DEF EscapeWindow
  <2> QED
    BY <1>10, <2>1, <2>2, <2>3
<1>11. CASE HighlightTimer
  BY <1>11 DEF HighlightTimer
<1> QED
  BY <1>1, <1>2, <1>3, <1>4, <1>5, <1>6, <1>7, <1>8, <1>9, <1>10, <1>11 DEF Next

\* The invariants of the parts, and the variables of the site itself.
SiteInv == /\ NavInv /\ CompilerInv /\ HomeInv
           /\ page \in Pages /\ happens \in EventSets

\* The site starts with all parts in order.
LEMMA InitSound == Init => SiteInv
<1> SUFFICES ASSUME Init PROVE SiteInv
  OBVIOUS
<1>1. NavInv
  <2>1. /\ menu = ClosedMenu /\ focused = "body" /\ width \in Widths
    BY DEF Init, NavInit
  <2>2. "body" \in Elements
    BY DEF Elements, Stops
  <2>3. SoundMenu(ClosedMenu) /\ ClosedMenu.open = FALSE /\ ClosedMenu.refocus = 0
    BY <2>2 DEF SoundMenu, ClosedMenu
  <2> QED
    BY <2>1, <2>2, <2>3, NavInvIsSound, NavigationAssumption
<1>2. CompilerInv
  <2>1. /\ ready = FALSE /\ text = None /\ active = None /\ listed = {} /\ highlighted = {}
        /\ status = "idle" /\ output = None /\ runs = 0 /\ fontSize = 14 /\ hiddenPanel = {"output"}
    BY DEF Init, CompilerPageInit
  <2>2. fontSize \in MinFont..MaxFont /\ runs \in 0..MaxRuns
    BY <2>1, CompilerPageAssumption DEF MinFont, MaxFont
  <2>3. hiddenPanel \in SUBSET Panels
    BY <2>1 DEF Panels
  <2> QED
    BY <2>1, <2>2, <2>3 DEF CompilerInv, CompilerTypeOK, StatusTells, HighlightTells
<1>3. HomeInv
  <2>1. /\ carousel = CarouselLoaded /\ tab = [active |-> FirstTab, shown |-> {FirstTab}]
        /\ modal = NoModal /\ bodyLocked = FALSE /\ colouring = {} /\ coloured = FALSE
        /\ prism \in BOOLEAN /\ clicks = MaxClicks
    BY DEF Init, HomePageInit
  <2>2. clicks \in 0..MaxClicks
    BY <2>1, HomePageAssumption
  <2>3. tab \in [active: Tabs, shown: SUBSET Tabs]
    BY <2>1, HomePageAssumption
  <2> QED
    BY <2>1, <2>2, <2>3, LoadedSound DEF HomeInv, HomeTypeOK, CarouselAgrees, ModalAgrees, SoundCarousel
<1> QED
  BY <1>1, <1>2, <1>3 DEF SiteInv, Init

\* Every step keeps them.
LEMMA StepSound == SiteInv /\ [Next]_vars => SiteInv'
<1> SUFFICES ASSUME SiteInv, [Next]_vars PROVE SiteInv'
  OBVIOUS
<1>1. CASE Next
  <2>1. NavInv' /\ CompilerInv' /\ HomeInv'
    BY <1>1, StepOfParts, NavStepKeeps, CompilerStepKeeps, HomeStepKeeps DEF SiteInv
  <2>2. page' \in Pages /\ happens' = happens
    BY <1>1 DEF SiteInv, Next, UseMenu, MoveFocus, RefocusTimer, ResizeWindow, MenuOnly, FollowLink,
       LoadEditor, EditText, UseExamples, TypeSearch, EscapeSearch, ClickReset, ClickRun, ReceiveAnswer,
       ClickZoom, ClickPanelTab, CarouselTimer, UseDots, UseTabs, Expand, ClickClose, EscapeWindow,
       HighlightTimer, Happens, On
  <2> QED
    BY <2>1, <2>2 DEF SiteInv
<1>2. CASE UNCHANGED vars
  <2>1. UNCHANGED <<navigation, compilerVars, homeVars, page, happens>>
    BY <1>2 DEF vars
  <2>2. NavStep /\ CompilerStep /\ HomeStep
    BY <2>1 DEF NavStep, CompilerStep, HomeStep
  <2> QED
    BY <2>1, <2>2, NavStepKeeps, CompilerStepKeeps, HomeStepKeeps DEF SiteInv
<1> QED
  BY <1>1, <1>2

\* The invariant holds of every behaviour of the site, fair or not.
THEOREM SiteInvariant == Spec => []SiteInv
<1> QED
  BY InitSound, StepSound, PTL DEF Spec

\* Every variable of the site keeps its type, for all pages, windows and examples.
THEOREM SiteTyped == Spec => []TypeOK
<1>1. SiteInv => TypeOK
  BY DEF SiteInv, NavInv, CompilerInv, HomeInv, TypeOK
<1> QED
  BY <1>1, SiteInvariant, PTL

\* The menu is open only where its toggle shows, and closing it undoes all that
\* opening it did, for all widths of the window.
THEOREM MenuIsSafe == Spec => []MenuSafe
<1>1. SiteInv => MenuSafe
  BY DEF SiteInv, NavInv
<1> QED
  BY <1>1, SiteInvariant, PTL

\* What the pages show agrees, for all examples, searches and numbers of runs.
THEOREM PagesDoAgree == Spec => []PagesAgree
<1>1. SiteInv => PagesAgree
  BY DEF SiteInv, CompilerInv, HomeInv, PagesAgree
<1> QED
  BY <1>1, SiteInvariant, PTL

\* The focus does not leave the links of an open menu by Tab or by any timer.
THEOREM FocusIsTrapped == Spec => FocusTrapped
<1>1. SiteInv /\ [Next]_vars
      => [menu.open /\ menu' = menu /\ focused \in Links => focused' \in Links]_navigation
  <2> SUFFICES ASSUME SiteInv, [Next]_vars, menu.open, menu' = menu, focused \in Links
               PROVE  focused' \in Links \/ UNCHANGED navigation
    OBVIOUS
  <2>1. CASE Next
    BY <2>1, StepOfParts, FocusStaysInside DEF SiteInv
  <2>2. CASE UNCHANGED vars
    BY <2>2 DEF vars
  <2> QED
    BY <2>1, <2>2
<1> QED
  BY <1>1, SiteInvariant, PTL DEF Spec, FocusTrapped
=============================================================================
