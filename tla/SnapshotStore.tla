----------------------------- MODULE SnapshotStore -----------------------------
(***************************************************************************)
(* What the backend promises of its transactions, with nothing of how the  *)
(* data is laid out: snapshot isolation in which the first committer wins. *)
(* The database is a set of slots.  Each thread reads and writes a draft   *)
(* of what it saw when its transaction began; a transaction is installed   *)
(* as a whole or not at all, and only if no slot it changed was changed by *)
(* another since it was seen.                                              *)
(***************************************************************************)
CONSTANTS
  Thread,     \* those who read and write
  Slot,       \* the places the data is in
  Blank       \* the contents of a new database

VARIABLES
  contents,   \* the committed data, by slot
  seen,       \* seen[p]: the contents p's transaction began with
  draft       \* draft[p]: those contents with p's own changes

svars == <<contents, seen, draft>>

SInit ==
  /\ contents = Blank
  /\ seen = [p \in Thread |-> Blank]
  /\ draft = [p \in Thread |-> Blank]

Written(p) == {s \in Slot : draft[p][s] # seen[p][s]}

(* p changes its draft; nobody else notices. *)
Write(p) ==
  /\ \A q \in Thread \ {p} : draft'[q] = draft[q]
  /\ UNCHANGED <<contents, seen>>

(* p's transaction ends; the next one begins with the contents b. *)
Renew(p, b) ==
  /\ seen' = [seen EXCEPT ![p] = b]
  /\ draft' = [draft EXCEPT ![p] = b]

Install(p) ==
  /\ \A s \in Written(p) : contents[s] = seen[p][s]
  /\ contents' = [s \in Slot |-> IF s \in Written(p) THEN draft[p][s] ELSE contents[s]]
  /\ Renew(p, contents')

(* A rollback, a refused commit or a new connection. *)
Discard(p) == UNCHANGED contents /\ Renew(p, contents)

(* p leaves the database. *)
Leave(p) == UNCHANGED contents /\ Renew(p, Blank)

SNext == \E p \in Thread : Write(p) \/ Install(p) \/ Discard(p) \/ Leave(p)

SSpec == SInit /\ [][SNext]_svars
=============================================================================
