----------------------------- MODULE FileTools ------------------------------
(***************************************************************************)
(* The calls of read_file, write_file and edit_file                        *)
(* (agent_runtime/tools/filesystem.py) on one file, by several sessions.   *)
(* A call awaits nothing, so that one call runs at a time; but the user    *)
(* and what the exec tool started change the file at any point between the *)
(* file operations of a call.                                              *)
(***************************************************************************)
EXTENDS FileState, EditText

CONSTANTS Sessions,
          Olds, News,           \* texts an edit may look for and put in
          Markdown,             \* has the file a Markdown name?
          MaxCalls, MaxEdits,   \* bounds: calls of tools, edits among them,
          MaxChanges            \* changes from outside

VARIABLES call,                 \* the call under way
          shown,                \* history: [Sessions -> [Offsets -> the text the session
                                \* was shown by its last full look at a range, or Failed]]
          latest,               \* history: [Offsets -> the same of the last full look of
                                \* anybody]
          calls, edits, changes \* bounded counts

vars == <<fileVars, call, shown, latest, calls, edits, changes>>
history == <<shown, latest>>

Failed == << "failed" >>

\* read is the text the call has read; raced says that the file was changed
\* from outside since.
NoCall == [tool |-> "none", session |-> "none", at |-> "idle",
           offset |-> 1, old |-> << >>, new |-> << >>, all |-> FALSE,
           read |-> << >>, raced |-> FALSE]

Init ==
    /\ FileInit
    /\ call = NoCall
    /\ shown = [s \in Sessions |-> [o \in Offsets |-> Failed]]
    /\ latest = [o \in Offsets |-> Failed]
    /\ calls = 0 /\ edits = 0 /\ changes = 0

Called(fields) ==
    /\ call = NoCall /\ calls < MaxCalls
    /\ calls' = calls + 1
    /\ call' = fields @@ NoCall
    /\ UNCHANGED <<fileVars, history, changes>>

CalledNoEdit(fields) == Called(fields) /\ UNCHANGED edits

At(tool, at) == call.tool = tool /\ call.at = at /\ UNCHANGED <<calls, edits, changes>>
Goes(at) == call' = [call EXCEPT !.at = at]
Returns == call' = NoCall

-----------------------------------------------------------------------------
(* read_file.                                                              *)

ReadCalls(s, o) ==
    CalledNoEdit([tool |-> "read_file", session |-> s, at |-> "look", offset |-> o])

ReadLooks ==
    /\ At("read_file", "look")
    /\ IF text \in {Absent, << >>} THEN Returns ELSE Goes("decide")
    /\ UNCHANGED <<fileVars, history>>

\* The answer is "unchanged", or the file is recorded and read in full.
ReadDecides ==
    /\ At("read_file", "decide")
    /\ IF Unchanged("read_file", call.offset)
       THEN Returns /\ UNCHANGED tracker
       ELSE /\ Goes("read")
            /\ IF text = Absent
               THEN tracker' = [tracker EXCEPT !["read_file"].dedup = FALSE]
               ELSE RecordRead("read_file", call.offset)
    /\ UNCHANGED <<text, mtime, history>>

Shows(what) ==
    /\ shown' = [shown EXCEPT ![call.session][call.offset] = what]
    /\ latest' = [latest EXCEPT ![call.offset] = what]

LineCount == Len(SplitLines(WithLf(text)))

\* A file that is gone, is no text or ends before the range is an error.
ReadFails ==
    /\ At("read_file", "read")
    /\ text \in {Absent, Binary} \/ call.offset > LineCount
    /\ Returns
    /\ Shows(Failed)
    /\ UNCHANGED fileVars

ReadReads ==
    /\ At("read_file", "read")
    /\ text \notin {Absent, Binary} /\ call.offset <= LineCount
    /\ call' = [call EXCEPT !.at = "record", !.read = text, !.raced = FALSE]
    /\ UNCHANGED <<fileVars, history>>

\* What was read is recorded with the time and the hash the file has now.
ReadRecords ==
    /\ At("read_file", "record")
    /\ RecordRead("read_file", call.offset)
    /\ Shows(IF call.raced THEN Failed ELSE call.read)
    /\ Returns
    /\ UNCHANGED <<text, mtime>>

-----------------------------------------------------------------------------
(* write_file and edit_file.                                               *)

WriteCalls(s, new) ==
    CalledNoEdit([tool |-> "write_file", session |-> s, at |-> "write", new |-> new])

Writes(tool, at, new) ==
    /\ At(tool, at)
    /\ Changes(new)
    /\ Goes("record")
    /\ UNCHANGED <<tracker, history>>

WriteWrites == Writes("write_file", "write", call.new)

WriteRecords(tool) ==
    /\ tool # "read_file" /\ At(tool, "record")
    /\ RecordWrite(tool)
    /\ Returns
    /\ UNCHANGED <<text, mtime, history>>

EditCalls(s, old, new, all) ==
    /\ edits < MaxEdits
    /\ edits' = edits + 1
    /\ Called([tool |-> "edit_file", session |-> s, at |-> "exists",
               old |-> old, new |-> new, all |-> all])

\* With no old text, a file that is missing or blank gets the new one.
EditExists ==
    /\ At("edit_file", "exists")
    /\ IF call.old = << >>
       THEN IF text = Absent \/ (text # Binary /\ Strip(text) = << >>)
            THEN Goes("create") ELSE Returns
       ELSE IF text = Absent THEN Returns ELSE Goes("check")
    /\ UNCHANGED <<fileVars, history>>

EditCreates == Writes("edit_file", "create", call.new)

\* An edit of a file that was not read, or has changed since, is only warned of.
EditChecks ==
    /\ At("edit_file", "check")
    /\ CheckRead("edit_file")
    /\ Goes("find")
    /\ UNCHANGED <<text, mtime, history>>

Spans(raw) == FindMatches(WithLf(raw), WithLf(call.old))

\* The old text must be there, once unless all its places are meant.
Replaceable(spans, all) == Len(spans) = 1 \/ (spans # << >> /\ all)

EditFinds ==
    /\ At("edit_file", "find")
    /\ IF text \in {Absent, Binary} \/ ~ Replaceable(Spans(text), call.all)
       THEN Returns
       ELSE call' = [call EXCEPT !.at = "write", !.read = text]
    /\ UNCHANGED <<fileVars, history>>

EditWrites ==
    Writes("edit_file", "write", Edited(call.read, call.old, call.new, Markdown))

\* The file may not be written.
WriteFails ==
    /\ call.tool \in {"write_file", "edit_file"} /\ call.at \in {"write", "create"}
    /\ Returns
    /\ UNCHANGED <<fileVars, history, calls, edits, changes>>

-----------------------------------------------------------------------------

\* The user, or what a command left running, changes or removes the file.
Modifies ==
    /\ changes < MaxChanges
    /\ changes' = changes + 1
    /\ \E new \in Texts \cup {Absent, Binary} : new # text /\ Changes(new)
    /\ call' = [call EXCEPT !.raced = call # NoCall]
    /\ UNCHANGED <<tracker, history, calls, edits>>

Next ==
    \/ \E s \in Sessions :
          \/ \E o \in Offsets : ReadCalls(s, o)
          \/ \E new \in News : WriteCalls(s, new)
          \/ \E old \in Olds, new \in News, all \in BOOLEAN : EditCalls(s, old, new, all)
    \/ ReadLooks \/ ReadDecides \/ ReadFails \/ ReadReads \/ ReadRecords
    \/ WriteWrites \/ EditExists \/ EditCreates \/ EditChecks \/ EditFinds \/ EditWrites
    \/ \E tool \in Tools : WriteRecords(tool)
    \/ WriteFails \/ Modifies

Spec == Init /\ [][Next]_vars

-----------------------------------------------------------------------------
PutIn == IF Markdown THEN WithLf(call.new) ELSE StripTrailing(WithLf(call.new))

CutsApart(now, old, spans) == Apart(Cuts(now, Puts(now, old, PutIn, spans), spans), spans)

EditEnds == call.tool = "edit_file" /\ call.at = "write" /\ call'.at = "record"

Splices(before) ==
    IsSplice(before, text', WithLf(call.old), WithLf(call.new), Len(Spans(call.read)))

(* An edit writes the text it read with the new text at every match and all *)
(* else byte for byte as it was, however the match was found: what goes    *)
(* reads as the old text and what comes as the new one, but for the white  *)
(* space around lines and the kind of quotes.  In a file with any CRLF all *)
(* line ends become CRLF (filesystem.py:841).  Excepted are edits of which *)
(* one match reaches into the next (MatchesApart, filesystem.py:824).      *)
EditIsSplice ==
    [][EditEnds /\ CutsApart(WithLf(call.read), WithLf(call.old), Spans(call.read)) =>
         Splices(IF UsesCrlf(call.read) THEN WithCrlf(call.read) ELSE call.read)]_vars

(* "Unchanged" is only said of a text that the tool has shown at its last   *)
(* full look at that range, to whichever session that was, whatever times  *)
(* the file system gave the writes since (filesystem.py:274).  Excepted    *)
(* are a last look that failed, which is recorded all the same, and one    *)
(* between whose reading and recording somebody wrote (LookIsRecorded).    *)
UnchangedIsShown ==
    [][call.at = "decide" /\ call'.at = "idle" => latest[call.offset] \in {Failed, text}]_vars

-----------------------------------------------------------------------------
(* What does not hold.                                                     *)

(* filesystem.py:837: an edit replaces its matches between what is before   *)
(* and behind them.  One edit of a file with both kinds of line ends also  *)
(* turns every LF into CRLF.                                               *)
EditKeepsLineEnds ==
    [][EditEnds /\ CutsApart(WithLf(call.read), WithLf(call.old), Spans(call.read)) =>
         Splices(call.read)]_vars

(* An edit replaces the text it read.  What somebody wrote between its read *)
(* and its write is lost (filesystem.py:844).                              *)
EditKeepsOthers == [][EditEnds => text = call.read]_vars

(* file_state.py:47: what is recorded is the file that was read.  It is the *)
(* file there after the read.                                              *)
LookIsRecorded ==
    [][call.tool = "read_file" /\ call.at = "record" /\ call'.at = "idle" =>
         tracker'["read_file"].hash = call.read]_vars

(* file_state.py:33: the file state is scoped to one session, so that only  *)
(* what the session itself was shown is "unchanged".  The state belongs to *)
(* the tool, and a look that failed is recorded too.                       *)
UnchangedIsKnown ==
    [][call.at = "decide" /\ call'.at = "idle" =>
         shown[call.session][call.offset] = text]_vars

(* The same file_state.py: edit_file warns only of a file that was not read *)
(* or has changed.  It asks its own state, which no read is recorded in.   *)
ReadIsEnough ==
    [][call.tool = "edit_file" /\ call.at = "check"
         /\ (\E o \in Offsets : shown[call.session][o] = text) => ~ Warns("edit_file")]_vars

(* No two matches of an edit reach into each other.                         *)
MatchesApart ==
    [][call.tool = "edit_file" /\ call.at = "find" /\ call'.at = "write" =>
         CutsApart(WithLf(text), WithLf(call.old), Spans(text))]_vars

=============================================================================
