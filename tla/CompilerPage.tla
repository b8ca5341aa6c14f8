---------------------------- MODULE CompilerPage ----------------------------
(***************************************************************************)
(* compiler.js and the script of compiler.html: the editor, the list of    *)
(* examples with its search, run and reset, zooming, and the two panels,   *)
(* of which a narrow window shows one.                                     *)
(*                                                                         *)
(* The editor arrives from the network after the page (ready).  A program  *)
(* is the key of its example, Typed for any other; a search text is the    *)
(* set of examples it matches.  Requests differ in nothing the page looks  *)
(* at, so it is their number that is kept.  A text shown is None, Output   *)
(* or a message.                                                           *)
(***************************************************************************)
EXTENDS Integers

CONSTANTS Examples,    \* keys of compilerPageExamples, Hello among them
          Searches,    \* the sets of examples a search may match
          MaxRuns      \* bound on compile requests under way

Hello == "hello"
Typed == "typed"
None == "none"

ASSUME CompilerPageAssumption == /\ Hello \in Examples
                                 /\ None \notin Examples
                                 /\ Searches \subseteq SUBSET Examples
                                 /\ MaxRuns \in Nat

VARIABLES ready,       \* window.editor exists and the lists are rendered
          text,        \* what the editor holds
          active,      \* activeExampleKey
          listed,      \* examples in the lists
          highlighted, \* items of the desktop list with the active classes
          status,      \* text of the status line
          output,      \* text of the output panel
          runs,        \* compile requests under way
          fontSize,    \* window.editorFontSize
          hiddenPanel  \* the panels with the class 'hidden'

editing == <<ready, text, active, fontSize>>
sidebar == <<listed, highlighted>>
running == <<status, output, runs>>
compilerVars == <<editing, sidebar, running, hiddenPanel>>

Desktop == 1024
Panels == {"editor", "output"}
MinFont == 10
MaxFont == 28

\* The page before Monaco has been fetched; the output panel starts hidden.
CompilerPageInit ==
    /\ ready = FALSE
    /\ text = None
    /\ active = None
    /\ listed = {}
    /\ highlighted = {}
    /\ status = "idle"
    /\ output = None
    /\ runs = 0
    /\ fontSize = 14
    /\ hiddenPanel = {"output"}

CompilerPageGone ==
    /\ ready' = FALSE
    /\ text' = None
    /\ active' = None
    /\ listed' = {}
    /\ highlighted' = {}
    /\ status' = "idle"
    /\ output' = None
    /\ runs' = 0
    /\ fontSize' = 14
    /\ hiddenPanel' = {"output"}

\* renderLists empties both lists and fills them anew, without highlighting.
RenderLists(matching) == listed' = matching /\ highlighted' = {}

\* The callback of the loader: the editor with the default program, the lists.
EditorReady ==
    /\ ~ready
    /\ ready' = TRUE
    /\ text' = Hello
    /\ RenderLists(Examples)
    /\ UNCHANGED <<active, fontSize, running, hiddenPanel>>

Type == /\ ready
        /\ text' = Typed
        /\ UNCHANGED <<ready, active, fontSize, sidebar, running, hiddenPanel>>

\* The search lists what matches; Escape in it lists everything again.
Search(matching) ==
    /\ ready
    /\ RenderLists(matching)
    /\ UNCHANGED <<editing, running, hiddenPanel>>

\* Mutant: the earlier highlight is not cleared.
HighlightActiveExample_Adds(key) == highlighted' = highlighted \cup ({key} \cap listed)

\* highlightActiveExample: every item is cleared, the one of the key is marked
\* if the search lists it.
HighlightActiveExample(key) == highlighted' = {key} \cap listed

\* loadExample, from an item of either list.
LoadExample(key) ==
    /\ ready
    /\ key \in listed
    /\ text' = key
    /\ active' = key
    /\ HighlightActiveExample(key)
    /\ status' = "idle"
    /\ output' = None
    /\ UNCHANGED <<ready, fontSize, listed, runs, hiddenPanel>>

Reset ==
    /\ text' = IF ready THEN Hello ELSE text
    /\ active' = None
    /\ HighlightActiveExample(None)
    /\ status' = "idle"
    /\ output' = None
    /\ UNCHANGED <<ready, fontSize, listed, runs, hiddenPanel>>

\* showTab: the other panel is hidden by its class.
ShowTab(panel) == hiddenPanel' = Panels \ {panel}

ClickTab(panel) == ShowTab(panel) /\ UNCHANGED <<editing, sidebar, running>>

\* The run button: the request is sent, and a window narrower than the desktop
\* turns to the output.
Run(w) ==
    /\ runs < MaxRuns
    /\ status' = "compiling"
    /\ output' = None
    /\ runs' = runs + 1
    /\ IF w < Desktop THEN ShowTab("output") ELSE UNCHANGED hiddenPanel
    /\ UNCHANGED <<editing, sidebar>>

\* The message of the error compile() throws for a refusal.
FailureMessage(body) == IF body = None THEN "failed" ELSE body

\* Mutant: a failure only leaves its message.
Answer_StatusKept ==
    /\ runs > 0
    /\ runs' = runs - 1
    /\ \/ status' = "done" /\ output' \in {None, "output"}
       \/ status' = status /\ output' = "unreachable"
    /\ UNCHANGED <<editing, sidebar, hiddenPanel>>

\* Any of the requests under way is answered, with an output that may be empty,
\* with a refusal that may be, or not at all.
Answer ==
    /\ runs > 0
    /\ runs' = runs - 1
    /\ \/ status' = "done" /\ output' \in {None, "output"}
       \/ status' = "error" /\ \E body \in {None, "refused"}: output' = FailureMessage(body)
       \/ status' = "error" /\ output' = "unreachable"
    /\ UNCHANGED <<editing, sidebar, hiddenPanel>>

Clamped(size) == IF size < MinFont THEN MinFont ELSE IF size > MaxFont THEN MaxFont ELSE size

Zoom(step) ==
    /\ ready
    /\ fontSize' = Clamped(fontSize + step)
    /\ UNCHANGED <<ready, text, active, sidebar, running, hiddenPanel>>

\* What the classes of the panels show: the output panel has a class of its own
\* for the desktop, the editor's panel has not.
VisiblePanels(w) == Panels \ (hiddenPanel \ IF w >= Desktop THEN {"output"} ELSE {})

(***************************************************************************)
(* Properties                                                              *)
(***************************************************************************)

CompilerTypeOK == /\ ready \in BOOLEAN
                  /\ text \in Examples \cup {None, Typed}
                  /\ active \in Examples \cup {None}
                  /\ listed \subseteq Examples
                  /\ highlighted \subseteq Examples
                  /\ status \in {"idle", "compiling", "done", "error"}
                  /\ output \in {None, "output", "refused", "failed", "unreachable"}
                  /\ runs \in 0..MaxRuns
                  /\ fontSize \in MinFont..MaxFont
                  /\ hiddenPanel \in SUBSET Panels

\* The status line does not lie, however runs, resets and loads overlap: it says
\* compiling only while a request is under way and nothing is shown, idle only
\* over an empty panel, and error never without a message.
StatusTells == /\ status = "compiling" => runs > 0 /\ output = None
               /\ status = "idle" => output = None
               /\ status = "error" => output # None

\* At most the active example is highlighted, and only where it is listed: no
\* item stays marked after a reset, another load or a new search.
HighlightTells == /\ highlighted \subseteq {active} \cap listed
                  /\ active # None => ready
=============================================================================
