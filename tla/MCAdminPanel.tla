---------------------------- MODULE MCAdminPanel ----------------------------
(***************************************************************************)
(* A small instance of AdminPanel.                                         *)
(***************************************************************************)
EXTENDS AdminPanel

\* Two or three kinds of event at a time, each with what may disturb it.
MCEventSets == {{"entries", "levels"}, {"levels", "failures", "hiding"},
                {"entries", "dialogs"}, {"limits", "failures"}, {"sessions", "hiding"}}
=============================================================================
