----------------------------- MODULE MCBackups -----------------------------
(* Two commands of backup, restore and init beside one other connection; two *)
(* days have a pair, and two pairs can be made on the third.  The directory  *)
(* lists the newest pair first.                                              *)
EXTENDS Backups, TLC

CONSTANTS a, b, c

MCProcesses == {a, b}
MCClients   == {c}
MCDay       == <<1, 2, 3, 3>>
MCSeeds     == {1, 2}
MCListed(S) == CHOOSE t \in S : \A u \in S : u <= t
Commands    == Permutations({a, b})
=============================================================================
