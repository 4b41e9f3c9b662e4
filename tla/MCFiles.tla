------------------------------- MODULE MCFiles -------------------------------
(* Instance of Files for TLC. *)
EXTENDS Files, TLC

MCPaths == {<<"a">>, <<"b">>, <<"a", "b">>}

\* "a_copy" is "b"; "b" stands for a name as long as an entry holds, whose copy's name is
\* cut off to itself.
MCCopy == "a" :> "b" @@ "b" :> "b"
Symmetry == Permutations(Procs)
=============================================================================
