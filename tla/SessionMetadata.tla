--------------------------- MODULE SessionMetadata ---------------------------
(***************************************************************************)
(* What a metadata store promises the requests that share it: a session is *)
(* there from its creation on, keeps its owner, and changes only in the    *)
(* preferences that its owner names, one request at a time.  SessionIndex  *)
(* implements this with an index file or with a table.                     *)
(***************************************************************************)
CONSTANTS
  User,     \* the owners of sessions
  Field,    \* the preferences of a session
  Value     \* their values

VARIABLE rows   \* from the identifiers of the sessions to their metadata

Row == [owner : User, config : [Field -> Value]]

\* A session is created under an identifier that no other has.
Create(id, row) ==
  /\ id \notin DOMAIN rows
  /\ row \in Row
  /\ rows' = [i \in DOMAIN rows \cup {id} |-> IF i = id THEN row ELSE rows[i]]

\* The owner of a session gives the named preferences a value; a request that
\* names none only records that the session was used.
Override(id, fields, value) ==
  /\ id \in DOMAIN rows
  /\ rows' = [rows EXCEPT ![id].config =
                [f \in Field |-> IF f \in fields THEN value ELSE @[f]]]

=============================================================================
