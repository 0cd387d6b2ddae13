----------------------------- MODULE FileState ------------------------------
(***************************************************************************)
(* One file of the workspace and what the file tools keep of it            *)
(* (agent_runtime/tools/file_state.py).  Nothing in the application binds  *)
(* a FileStates to a request, so each tool uses the one it was made with,  *)
(* for every session (filesystem.py, _FsTool).                             *)
(***************************************************************************)
EXTENDS Naturals, Sequences

CONSTANTS Texts,        \* texts the file may have at first or get from outside
          Offsets,      \* first lines asked for
          MaxTime       \* bound: ticks of the file's clock

VARIABLES text,         \* the file: a sequence of tokens, Absent or Binary
          mtime,        \* its modification time
          tracker       \* [Tools -> entry or NoEntry]: _state of each tool's FileStates

fileVars == <<text, mtime, tracker>>

Absent == << "absent" >>
Binary == << "binary" >>

Tools == {"read_file", "write_file", "edit_file"}

NoEntry == [mtime |-> 0, offset |-> 0, hash |-> Absent, dedup |-> FALSE]

FileInit ==
    /\ text \in Texts \cup {Absent, Binary}
    /\ mtime = 1
    /\ tracker = [t \in Tools |-> NoEntry]

\* A write may come within the same tick of the clock as the one before.
Changes(new) ==
    /\ text' = new
    /\ mtime' \in {mtime, IF mtime < MaxTime THEN mtime + 1 ELSE mtime}

\* record_read: nothing is recorded of a file that is gone.
RecordRead(tool, offset) ==
    tracker' = IF text = Absent THEN tracker
               ELSE [tracker EXCEPT ![tool] = [mtime |-> mtime, offset |-> offset,
                                               hash |-> text, dedup |-> TRUE]]

RecordWrite(tool) ==
    tracker' = [tracker EXCEPT ![tool] =
                   IF text = Absent THEN NoEntry
                   ELSE [mtime |-> mtime, offset |-> 1, hash |-> text, dedup |-> FALSE]]

\* check_read: does the tool warn before it edits?  The hash decides, also
\* when the time is the same.
Warns(tool) ==
    \/ tracker[tool] = NoEntry
    \/ text # Absent /\ tracker[tool].hash # text

CheckRead(tool) ==
    tracker' = IF Warns(tool) \/ text = Absent THEN tracker
               ELSE [tracker EXCEPT ![tool].mtime = mtime]

\* The lines a second look may be spared: the range asked for before, of a
\* file with the same time.
Repeated(tool, offset) ==
    /\ tracker[tool] # NoEntry /\ tracker[tool].dedup
    /\ tracker[tool].offset = offset
    /\ tracker[tool].mtime = mtime

\* A mistake: the time alone decides.
UnchangedByTime(tool, offset) == Repeated(tool, offset) /\ text # Absent

Unchanged(tool, offset) == Repeated(tool, offset) /\ tracker[tool].hash = text

=============================================================================
