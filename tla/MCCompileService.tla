------------------------- MODULE MCCompileService -------------------------
(***************************************************************************)
(* Small instances of CompileService.  What a program prints plays no part *)
(* here: Streams is empty.                                                 *)
(***************************************************************************)
EXTENDS CompileService, TLC

\* Requests, addresses and container ids are interchangeable.
Symmetry == Permutations(Requests) \cup Permutations(IPs) \cup Permutations(Ids)

MCStreams == {}
MCOnePerIP == {1}
MCOneInTotal == {1}
MCOneOrAnyInTotal == {0, 1}
MCUnlimited == {0}

\* The task may not be made, or it may not be thrown away.
MCTaskOrDeleteFaults == {{"newtask"}, {"delete"}}

\* Nothing fails, or one of the calls with the worst consequences does.
MCNoneOrLateFaults == {{}, {"save"}, {"start"}, {"delete"}}
=============================================================================
