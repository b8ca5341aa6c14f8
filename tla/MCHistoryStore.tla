--------------------------- MODULE MCHistoryStore ---------------------------
(***************************************************************************)
(* Small instances of HistoryStore.                                        *)
(***************************************************************************)
EXTENDS HistoryStore

\* A table that lacks a required column.
MCIncomplete == {{"core", "legacy"}}

\* That one, and those that have every required column: current, before the
\* address, and the wide ones with and without it.
MCOldSchemas == MCIncomplete \cup
                {{"core", "text"}, {"core", "text", "ip"},
                 {"core", "text", "legacy"}, {"core", "text", "ip", "legacy"}}
=============================================================================
