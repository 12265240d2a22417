---------------------------- MODULE PollerGuard ----------------------------
(***************************************************************************)
(* telegram_lock.py: one process polls a bot token.  The guard is a lock on *)
(* an open file, found by a path all runtime homes of the account share; a *)
(* lock belongs to the file that was opened, not to the path.              *)
(***************************************************************************)
EXTENDS Naturals

CONSTANTS
  Pollers,     \* listeners and `telegram setup` commands of one bot token
  MaxFiles     \* bound: lock files ever made at the path

VARIABLES
  lockFile,    \* the file at the path, 0 when there is none
  made,        \* lock files made so far
  holds        \* holds[p]: the file poller p has locked, or 0

guardVars == <<lockFile, made, holds>>

GuardInit ==
  /\ lockFile = 0 /\ made = 0
  /\ holds = [p \in Pollers |-> 0]

(* PollerGuard.__enter__: open, making the file if need be, and try to lock *)
(* it; a locked file is an error and the process does not poll.            *)
Enter(p) ==
  /\ holds[p] = 0
  /\ lockFile = 0 => made < MaxFiles
  /\ LET file == IF lockFile = 0 THEN made + 1 ELSE lockFile
     IN /\ lockFile' = file
        /\ made' = IF lockFile = 0 THEN file ELSE made
        /\ \A q \in Pollers : holds[q] # file
        /\ holds' = [holds EXCEPT ![p] = file]

(* __exit__, or the death of the process.                                  *)
Exit(p) ==
  /\ holds[p] # 0
  /\ holds' = [holds EXCEPT ![p] = 0]
  /\ UNCHANGED <<lockFile, made>>

(* At most one process polls the token, whatever becomes of the files.     *)
OnePoller == \A p, q \in Pollers : holds[p] # 0 /\ holds[q] # 0 => p = q
=============================================================================
