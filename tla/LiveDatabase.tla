---------------------------- MODULE LiveDatabase ----------------------------
(***************************************************************************)
(* What the database file promises the processes that use it: a connection *)
(* sees one database for as long as it is open, and the contents change    *)
(* only by a commit, by an initialization or by a restore.  A restore first *)
(* chooses a state the database once was in, at the current schema; until   *)
(* it is complete, and when it is given up, the contents are what they were. *)
(***************************************************************************)
CONSTANTS
  Latest,     \* LATEST_SCHEMA_VERSION
  None,       \* there is no database file; no choice
  Users,      \* the processes that open connections
  Restorers   \* those of them that may restore

VARIABLES
  content,    \* what a new connection would read, or None
  connected,  \* the processes that have a connection open
  history,    \* the contents that were live, and those of earlier backups
  chosen      \* chosen[u]: what u is about to put in place, or None

lvars == <<content, connected, history, chosen>>

Current(c) == [c EXCEPT !.schema = Latest]

Init ==
  /\ connected = {}
  /\ content # None => content \in history
  /\ chosen = [u \in Restorers |-> None]

Open(u) ==
  /\ u \notin connected
  /\ connected' = connected \cup {u}
  /\ UNCHANGED <<content, history, chosen>>

(* A process closes its connection or ends; what it chose is not put in     *)
(* place.                                                                  *)
Leave(u) ==
  /\ connected' = connected \ {u}
  /\ chosen' = [v \in Restorers |-> IF v = u THEN None ELSE chosen[v]]
  /\ UNCHANGED <<content, history>>

(* A transaction of an open connection, at the current schema. *)
Commit(u) ==
  /\ u \in connected
  /\ content # None /\ content.schema = Latest
  /\ content' # None /\ content'.schema = Latest
  /\ content' \notin history
  /\ history' = history \cup {content'}
  /\ UNCHANGED <<connected, chosen>>

(* The file is created by the connection that initializes it. *)
Create(u) ==
  /\ content = None /\ content' # None
  /\ connected' = connected \cup {u}
  /\ history' = history \cup {content'}
  /\ UNCHANGED chosen

(* All migrations in one transaction; the data stays. *)
Migrate(u) ==
  /\ content # None /\ content' = Current(content)
  /\ connected' = connected \ {u}
  /\ history' = history \cup {content'}
  /\ UNCHANGED chosen

Choose(u) ==
  /\ chosen[u] = None
  /\ \E c \in history : chosen' = [chosen EXCEPT ![u] = Current(c)]
  /\ UNCHANGED <<content, connected, history>>

(* A restore is complete: everything is what it chose, and nobody is        *)
(* connected.                                                              *)
Replace(u) ==
  /\ connected = {}
  /\ chosen[u] # None
  /\ content' = chosen[u]
  /\ chosen' = [chosen EXCEPT ![u] = None]
  /\ history' = history \cup {content'}
  /\ UNCHANGED connected

Next ==
  \/ \E u \in Users : Open(u) \/ Leave(u) \/ Commit(u) \/ Create(u) \/ Migrate(u)
  \/ \E u \in Restorers : Choose(u) \/ Replace(u)

Spec == Init /\ [][Next]_lvars
=============================================================================
