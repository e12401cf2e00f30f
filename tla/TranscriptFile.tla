--------------------------- MODULE TranscriptFile ----------------------------
(***************************************************************************)
(* The JSONL file of one session (internal/session/storage.go): what its   *)
(* lines say, what a write leaves behind, and what loadSessionState makes  *)
(* of it.                                                                  *)
(*                                                                         *)
(* A file is the sequence of its lines.  Entry identifiers are unique in   *)
(* the code; here an entry is identified by its position, and 0 stands for *)
(* no entry.  A message is abstracted to the turn it belongs to and its    *)
(* role: "call" is an assistant message with a tool call, "result" is the  *)
(* answer to that call, "answer" an assistant message without calls.       *)
(***************************************************************************)
EXTENDS Naturals, Sequences, FiniteSets, FiniteSetsExt

CONSTANT
  OversizedRoles  \* roles of the messages whose line is over 1 MiB

Roles == {"user", "call", "result", "answer"}

ASSUME OversizedAssumption == OversizedRoles \subseteq Roles

MessageType == [turn : Nat, role : Roles]

Message(t, role) == [turn |-> t, role |-> role]
NoMessage == Message(0, "user")

-----------------------------------------------------------------------------
(* Lines *)

\* shape: "whole"; "open", complete but without its newline; "torn", cut off
\* earlier; "garbled", the remains of a cut line and of what was appended.
Line(kind, parent, message, entry, summary, covers) ==
  [kind |-> kind, parent |-> parent, message |-> message, entry |-> entry,
   summary |-> summary, covers |-> covers, shape |-> "whole"]

LineType ==
  [kind : {"message", "summary", "leaf"}, parent : Nat, message : MessageType,
   entry : Nat, summary : Nat, covers : Nat,
   shape : {"whole", "open", "torn", "garbled"}]

MessageLine(parent, message) == Line("message", parent, message, 0, 0, 0)
SummaryLine(parent, covers) == Line("summary", parent, NoMessage, 0, 0, covers)
LeafLine(entry, summary) == Line("leaf", entry, NoMessage, entry, summary, 0)

Unterminated(file) == file # <<>> /\ file[Len(file)].shape \in {"torn", "open"}

\* The file after an O_APPEND write of a line: the line is joined to a last
\* line that has no newline.
Written(file, line) ==
  IF Unterminated(file)
    THEN [file EXCEPT ![Len(file)].shape =
            IF line.shape = "whole" THEN "garbled" ELSE "torn"]
    ELSE Append(file, line)

\* What a failed or interrupted write of the line may leave behind.
PartlyWritten(file, line) ==
  {file} \cup {Written(file, [line EXCEPT !.shape = s]) : s \in {"torn", "open"}}

-----------------------------------------------------------------------------
(* Loading *)

\* A line parses, and fits the scanner's buffer.
Readable(line) ==
  /\ line.shape \in {"whole", "open"}
  /\ line.kind = "message" => line.message.role \notin OversizedRoles

Entries(file, kind) == {i \in 1..Len(file) : file[i].kind = kind}

HasLeaf(file) == Entries(file, "leaf") # {}
LatestLeaf(file) == Max(Entries(file, "leaf"))
Leaf(file) == file[LatestLeaf(file)]

\* The parent chain of each position, oldest entry first.  Parents come
\* before their children in the file, so the chain ends.
ParentPath(file) ==
  LET path[p \in 0..Len(file)] ==
        IF p = 0 THEN <<>> ELSE Append(path[file[p].parent], p)
  IN path

\* loadSessionState: the path to the entry of the latest leaf, or all the
\* messages of a file that has no leaf.
Load(file) ==
  LET leaf     == Leaf(file)
      ids      == IF HasLeaf(file)
                    THEN ParentPath(file)[leaf.entry]
                    ELSE SelectSeq([i \in 1..Len(file) |-> i],
                                   LAMBDA i : file[i].kind = "message")
      summary  == IF HasLeaf(file) THEN leaf.summary ELSE 0
      covers   == IF summary = 0 THEN 0 ELSE file[summary].covers
      readable == \A i \in 1..Len(file) : Readable(file[i])
      ok       == /\ readable
                  /\ \A i \in 1..Len(ids) : file[ids[i]].kind = "message"
                  /\ covers <= Len(ids)
  IN IF ~readable
       THEN [ok |-> FALSE, messages |-> <<>>, parent |-> 0, summary |-> 0, covers |-> 0]
       ELSE [ok |-> ok,
             messages |-> [i \in 1..Len(ids) |-> file[ids[i]].message],
             parent |-> IF ids = <<>> THEN 0 ELSE ids[Len(ids)],
             summary |-> summary,
             covers |-> covers]

\* The transcript committed by the latest leaf.
LeafView(file) == IF HasLeaf(file) THEN Load(file).messages ELSE <<>>

-----------------------------------------------------------------------------
(* Files that only appendRun has written, no write of a line interrupted *)

\* The lines link to earlier lines.
Linked(file) == \A p \in 1..Len(file) : file[p].parent \in 0..(p - 1)

\* The lines link to messages.
LinksToMessages(file) ==
  \A p \in 1..Len(file) : file[p].parent # 0 => file[file[p].parent].kind = "message"

\* The messages on the chain of a line.
Thread(file, p) == [i \in 1..Len(ParentPath(file)[p]) |-> file[ParentPath(file)[p][i]].message]

\* Whole lines that can be read and link to earlier messages.
WholeLines(file) ==
  /\ file \in Seq(LineType)
  /\ Linked(file)
  /\ LinksToMessages(file)
  /\ \A p \in 1..Len(file) : file[p].shape = "whole" /\ Readable(file[p])

\* A leaf names the message it links to and, if any, an earlier summary that
\* covers no more than the transcript of that message.
LeafIsSound(file, p) ==
  /\ file[p].parent # 0
  /\ file[p].entry = file[p].parent
  /\ file[p].summary # 0 =>
       /\ file[p].summary \in 1..(p - 1)
       /\ file[file[p].summary].kind = "summary"
       /\ file[file[p].summary].covers <= Len(Thread(file, file[p].entry))

\* And the leaves are sound.
Sound(file) ==
  /\ WholeLines(file)
  /\ \A p \in Entries(file, "leaf") : LeafIsSound(file, p)

-----------------------------------------------------------------------------
(* Transcripts *)

\* What toLLMMessages (message.go) accepts: a tool call is followed by its
\* result, and a result follows its call.
Acceptable(m) ==
  \A i \in 1..Len(m) :
    /\ m[i].role = "call" => i < Len(m) /\ m[i + 1].role = "result"
    /\ m[i].role = "result" => i > 1 /\ m[i - 1].role = "call"

\* A finished turn: the user's message, rounds of tool calls, an answer.
WholeTurn(m) ==
  /\ Len(m) >= 2
  /\ m[1].role = "user"
  /\ m[Len(m)].role = "answer"
  /\ \A i \in 2..(Len(m) - 1) : m[i].role \in {"call", "result"}
  /\ \A i \in 1..Len(m) : m[i].turn = m[1].turn
  /\ Acceptable(m)
=============================================================================
