--------------------------- MODULE MCInstallation ---------------------------
(* Two application roots, an agent that reads the common directory, and two *)
(* processes that would poll the same bot token.                           *)
EXTENDS Installation, TLC

CONSTANTS r1, r2, p1, p2, pi

MCRoots        == {r1, r2}
MCPollers      == {p1, p2}
MCSharedAgents == {pi}
Names          == Permutations(MCRoots) \cup Permutations(MCPollers)
=============================================================================
