-------------------------------- MODULE Site --------------------------------
(***************************************************************************)
(* The public pages in one window: the home page and the compiler page,    *)
(* each with the header's menu, which hears the clicks and keys meant for  *)
(* the page it is on.  Following a link loads the other page afresh.       *)
(*                                                                         *)
(* Which kinds of event a behaviour may have is chosen at the start        *)
(* (happens), so that a run can take them a few at a time.                 *)
(***************************************************************************)
EXTENDS Navigation, CompilerPage, HomePage, FiniteSets

CONSTANTS EventSets    \* candidate values of happens

VARIABLES page,        \* "home" or "compiler"
          happens      \* kinds of event this behaviour may have

vars == <<navigation, compilerVars, homeVars, page, happens>>

Pages == {"home", "compiler"}
Events == {"menu", "focus", "resize", "leave", "dots", "tabs", "window",
           "runs", "examples", "typing", "zoom", "panels"}

ASSUME SiteAssumption == EventSets \subseteq SUBSET Events

Init == /\ NavInit
        /\ CompilerPageInit
        /\ HomePageInit
        /\ page \in Pages
        /\ happens \in EventSets

Happens(event) == event \in happens /\ UNCHANGED <<page, happens>>

On(p, event) == page = p /\ Happens(event)

(***************************************************************************)
(* The header                                                              *)
(***************************************************************************)

UseMenu == /\ Happens("menu")
           /\ \/ \E target \in {"toggle", "icon"}: ClickToggle(target)
              \/ TapToggle
              \/ \E dy \in {-SwipeLength - 1, SwipeLength, SwipeLength + 1}: Swipe(dy)
           /\ UNCHANGED <<compilerVars, homeVars>>

MoveFocus == /\ Happens("focus")
             /\ \E back \in BOOLEAN: Tab(back)
             /\ UNCHANGED <<compilerVars, homeVars>>

RefocusTimer == /\ GiveFocusBack
                /\ UNCHANGED <<compilerVars, homeVars, page, happens>>

ResizeWindow == /\ Happens("resize")
                /\ \E w \in Widths: Resize(w)
                /\ UNCHANGED <<compilerVars, homeVars>>

\* A key or a click that is for the menu alone.
MenuOnly == /\ Happens("menu")
            /\ EscapeKey \/ ClickPage
            /\ UNCHANGED <<compilerVars, homeVars>>

\* A link of the header or of the page, the logo's among them, which is always
\* there; the requests of the page that is left are dropped.
FollowLink == /\ "leave" \in happens
              /\ page' \in Pages
              /\ NavGone
              /\ HomePageGone
              /\ CompilerPageGone
              /\ UNCHANGED happens

(***************************************************************************)
(* The compiler page; a click closes the menu first                        *)
(***************************************************************************)

LoadEditor == /\ page = "compiler"
              /\ EditorReady
              /\ UNCHANGED <<navigation, homeVars, page, happens>>

EditText == On("compiler", "typing") /\ Type /\ UNCHANGED <<navigation, homeVars>>

UseExamples == /\ On("compiler", "examples")
               /\ \E key \in Examples: LoadExample(key)
               /\ ClickPage
               /\ UNCHANGED homeVars

TypeSearch == /\ On("compiler", "examples")
              /\ \E matching \in Searches: Search(matching)
              /\ UNCHANGED <<navigation, homeVars>>

\* Escape in the search clears it, and is heard by the menu as well.
EscapeSearch == /\ On("compiler", "examples")
                /\ Search(Examples)
                /\ EscapeKey
                /\ UNCHANGED homeVars

ClickReset == On("compiler", "runs") /\ Reset /\ ClickPage /\ UNCHANGED homeVars

ClickRun == On("compiler", "runs") /\ Run(width) /\ ClickPage /\ UNCHANGED homeVars

ReceiveAnswer == /\ page = "compiler"
                 /\ Answer
                 /\ UNCHANGED <<navigation, homeVars, page, happens>>

ClickZoom == /\ On("compiler", "zoom")
             /\ \E step \in {-1, 1}: Zoom(step)
             /\ ClickPage
             /\ UNCHANGED homeVars

\* The tabs of the panels are there on narrow windows only.
ClickPanelTab == /\ On("compiler", "panels")
                 /\ width < Desktop
                 /\ \E panel \in Panels: ClickTab(panel)
                 /\ ClickPage
                 /\ UNCHANGED homeVars

(***************************************************************************)
(* The home page                                                           *)
(***************************************************************************)

CarouselTimer == /\ page = "home"
                 /\ Advance
                 /\ UNCHANGED <<navigation, compilerVars, page, happens>>

UseDots == /\ On("home", "dots")
           /\ \E index \in Slides: ClickDot(index)
           /\ ClickPage
           /\ UNCHANGED compilerVars

UseTabs == /\ On("home", "tabs")
           /\ \E t \in Tabs: ClickExampleTab(t)
           /\ ClickPage
           /\ UNCHANGED compilerVars

Expand == /\ On("home", "window")
          /\ \E key \in Tabs: OpenCodeModal(key)
          /\ ClickPage
          /\ UNCHANGED compilerVars

\* The close button or the backdrop.
ClickClose == /\ On("home", "window")
              /\ modal # NoModal
              /\ CloseCodeModal
              /\ ClickPage
              /\ UNCHANGED compilerVars

\* Escape is heard by the window while the focus is in it, then by the menu.
EscapeWindow == /\ On("home", "window")
                /\ modal # NoModal
                /\ CloseCodeModal
                /\ EscapeKey
                /\ UNCHANGED compilerVars

HighlightTimer == /\ page = "home"
                  /\ \E key \in colouring: Colour(key)
                  /\ UNCHANGED <<navigation, compilerVars, page, happens>>

Next == \/ UseMenu \/ MoveFocus \/ RefocusTimer \/ ResizeWindow \/ MenuOnly \/ FollowLink
        \/ LoadEditor \/ EditText \/ UseExamples \/ TypeSearch \/ EscapeSearch
        \/ ClickReset \/ ClickRun \/ ReceiveAnswer \/ ClickZoom \/ ClickPanelTab
        \/ CarouselTimer \/ UseDots \/ UseTabs \/ Expand \/ ClickClose \/ EscapeWindow
        \/ HighlightTimer

\* Intervals fire as long as their page is shown.
Fairness == WF_vars(CarouselTimer)

Spec == Init /\ [][Next]_vars /\ Fairness

(***************************************************************************)
(* Properties                                                              *)
(***************************************************************************)

TypeOK == /\ NavTypeOK
          /\ CompilerTypeOK
          /\ HomeTypeOK
          /\ page \in Pages
          /\ happens \in EventSets

\* What the pages show agrees, part with part, whatever the user does in
\* between and in whatever order timers and answers come (examples.js,
\* compiler.js).
PagesAgree == CarouselAgrees /\ ModalAgrees /\ StatusTells /\ HighlightTells

\* A visitor who in the end stays on the home page and leaves the dots alone sees
\* every sample again and again, although clicks on dots restart the interval
\* and links load the page anew (startCarouselTimer).
CarouselTurns == \A s \in Slides: []<>(page = "home" => carousel.slide = s)

\* The panels that are to be seen on a desktop, where "keep both editor and
\* output visible" (compiler.html) leaves out what a narrow window has hidden.
PanelsOnDesktop == page = "compiler" /\ width >= Desktop => VisiblePanels(width) = Panels
=============================================================================
