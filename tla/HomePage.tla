------------------------------ MODULE HomePage ------------------------------
(***************************************************************************)
(* examples.js and the script of index.html: the carousel of code samples, *)
(* the tabs of examples and the window that shows a long one in full.      *)
(*                                                                         *)
(* The carousel is a record and its functions map carousels to carousels.  *)
(* An example's program is kept as its number of lines and characters,     *)
(* which decide whether it is cut short on the page.                       *)
(***************************************************************************)
EXTENDS Integers, Sequences

CONSTANTS Tabs,        \* the tabs of the page, keys of CodeExamples
          MaxClicks    \* bound on clicks that stop the carousel's interval

\* The samples of the carousel, and as many dots on the page.
HeroCodeSamples == <<"addThreadVariable", "getStringLen", "reverseString", "Assembly">>

Code(lines, chars) == [lines |-> lines, chars |-> chars]

CodeExamples == [variables   |-> Code(27, 367),
                 arithmetics |-> Code(24, 371),
                 floats      |-> Code(35, 641),
                 structs     |-> Code(35, 768),
                 pointers    |-> Code(31, 443),
                 assembly    |-> Code(15, 285),
                 control     |-> Code(39, 386),
                 globals     |-> Code(9, 94),
                 arrays      |-> Code(17, 260)]

FirstTab == "variables"
NoModal == "none"

ASSUME HomePageAssumption == /\ FirstTab \in Tabs
                             /\ Tabs \subseteq DOMAIN CodeExamples
                             /\ MaxClicks \in Nat

VARIABLES carousel,    \* slide, code, lit dots, intervals, a handle to one
          tab,         \* the active tab and the contents shown
          modal,       \* the example in the code window, or NoModal
          bodyLocked,  \* body.style.overflow is 'hidden'
          colouring,   \* examples for which a highlighting is due
          coloured,    \* the code window's program has been highlighted
          prism,       \* window.Prism: the highlighter arrived with the page
          clicks       \* clicks left on the dots, and on links away

window == <<modal, bodyLocked, colouring, coloured>>
homeVars == <<carousel, tab, window, prism, clicks>>

Slides == 0..(Len(HeroCodeSamples) - 1)

IsLongCode(code) == code.lines > 25 \/ code.chars > 800

\* The examples that are rendered cut short, with a button to expand them.
Expandable == {t \in Tabs : IsLongCode(CodeExamples[t])}

\* updateHeroCode: the code and the dots; the slide is its caller's.
UpdateHeroCode(c, index) == [c EXCEPT !.code = HeroCodeSamples[index + 1], !.lit = {index}]

\* Mutant: a new interval is started beside the old one.
StartCarouselTimer_Another(c) == [c EXCEPT !.timers = @ + 1, !.handle = TRUE]

\* The running interval is cleared, if there is a handle to it.
StartCarouselTimer(c) ==
    [c EXCEPT !.timers = (IF c.handle THEN c.timers - 1 ELSE c.timers) + 1, !.handle = TRUE]

\* The code and the dot of the first slide, a new interval.
InitializeHeroCarousel(c) == StartCarouselTimer(UpdateHeroCode(c, 0))

\* The page as loaded: examples.js and index.html both initialise it once the
\* document is parsed, before any other event.
CarouselLoaded ==
    InitializeHeroCarousel(InitializeHeroCarousel(
        [slide |-> 0, code |-> "", lit |-> {0}, timers |-> 0, handle |-> FALSE]))

HomePageInit ==
    /\ carousel = CarouselLoaded
    /\ tab = [active |-> FirstTab, shown |-> {FirstTab}]
    /\ modal = NoModal
    /\ bodyLocked = FALSE
    /\ colouring = {}
    /\ coloured = FALSE
    /\ prism \in BOOLEAN
    /\ clicks = MaxClicks

\* Another page replaces this one, or it is loaded anew, with the highlighter
\* or, when the network it comes from fails, without.
HomePageGone ==
    /\ carousel' = CarouselLoaded
    /\ tab' = [active |-> FirstTab, shown |-> {FirstTab}]
    /\ modal' = NoModal
    /\ bodyLocked' = FALSE
    /\ colouring' = {}
    /\ coloured' = FALSE
    /\ prism' \in BOOLEAN
    /\ clicks > 0
    /\ clicks' = clicks - 1

\* Mutant: the last slide is left out.
Following_Short(slide) == (slide + 1) % (Len(HeroCodeSamples) - 1)

\* The slide after the one shown, the first after the last.
Following(slide) == (slide + 1) % Len(HeroCodeSamples)

\* An interval of the carousel fires.
Advance ==
    /\ carousel.timers > 0
    /\ carousel' = UpdateHeroCode([carousel EXCEPT !.slide = Following(@)], Following(carousel.slide))
    /\ UNCHANGED <<tab, window, prism, clicks>>

\* One handler of a dot: its slide, and the interval anew.
GoTo(c, index) == StartCarouselTimer(UpdateHeroCode([c EXCEPT !.slide = index], index))

\* Every dot has two handlers, one from each initialisation.
ClickDot(index) == /\ clicks > 0
                   /\ clicks' = clicks - 1
                   /\ carousel' = GoTo(GoTo(carousel, index), index)
                   /\ UNCHANGED <<tab, window, prism>>

\* The two handlers of a tab do the same: one tab active, its content alone.
ClickExampleTab(t) ==
    /\ tab' = [active |-> t, shown |-> {t}]
    /\ UNCHANGED <<carousel, window, prism, clicks>>

\* Mutant: no timer is set up when the window that is replaced was highlighted.
OpenCodeModal_TimerOnce(key) ==
    /\ key \in tab.shown \cap Expandable
    /\ modal' = key
    /\ coloured' = FALSE
    /\ colouring' = IF coloured THEN colouring ELSE colouring \cup {key}
    /\ bodyLocked' = TRUE
    /\ UNCHANGED <<carousel, tab, prism, clicks>>

\* The button is in the content shown; an open window is replaced.
OpenCodeModal(key) ==
    /\ key \in tab.shown \cap Expandable
    /\ modal' = key
    /\ coloured' = FALSE
    /\ colouring' = colouring \cup {key}
    /\ bodyLocked' = TRUE
    /\ UNCHANGED <<carousel, tab, prism, clicks>>

\* closeCodeModal: the window and the lock, if there is a window.
CloseCodeModal ==
    /\ IF modal # NoModal
       THEN modal' = NoModal /\ bodyLocked' = FALSE
       ELSE UNCHANGED <<modal, bodyLocked>>
    /\ coloured' = FALSE
    /\ UNCHANGED <<carousel, tab, colouring, prism, clicks>>

\* 50 ms after an opening the program with its id is highlighted, which is that
\* of the window open by then, if it shows the same example; without the
\* highlighter nothing happens.
Colour(key) ==
    /\ key \in colouring
    /\ colouring' = colouring \ {key}
    /\ coloured' = (coloured \/ (prism /\ modal = key))
    /\ UNCHANGED <<carousel, tab, modal, bodyLocked, prism, clicks>>

(***************************************************************************)
(* Properties                                                              *)
(***************************************************************************)

HomeTypeOK == /\ carousel \in [slide: Slides, code: {HeroCodeSamples[i] : i \in DOMAIN HeroCodeSamples},
                               lit: SUBSET Slides, timers: Nat, handle: BOOLEAN]
              /\ tab \in [active: Tabs, shown: SUBSET Tabs]
              /\ modal \in Tabs \cup {NoModal}
              /\ bodyLocked \in BOOLEAN
              /\ colouring \subseteq Tabs
              /\ coloured \in BOOLEAN
              /\ prism \in BOOLEAN
              /\ clicks \in 0..MaxClicks

\* Although two scripts initialise the carousel and every dot hears a click
\* twice, one interval turns it, and the slide, the code and the one lit dot
\* agree.
CarouselAgrees == /\ carousel.timers = 1
                  /\ carousel.lit = {carousel.slide}
                  /\ carousel.code = HeroCodeSamples[carousel.slide + 1]

\* The page can be scrolled unless the code window is over it, and the window's
\* program is highlighted unless that is still due, also when it was closed and
\* opened again in between, or the page has no highlighter; without one, no
\* program ever is (examples.js:588-592).
ModalAgrees == /\ bodyLocked = (modal # NoModal)
               /\ modal # NoModal /\ modal \notin colouring /\ prism => coloured
               /\ coloured => modal # NoModal /\ prism
=============================================================================
