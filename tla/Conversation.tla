---------------------------- MODULE Conversation ----------------------------
(***************************************************************************)
(* The sessions and messages of the store as the background tasks meet     *)
(* them (db/session_store.py), and the requests that add to them           *)
(* (service/session_manager.py, send_message).  The operations of the      *)
(* store are atomic here; SharedConnection looks inside them.              *)
(***************************************************************************)
EXTENDS FiniteSets, Naturals

CONSTANTS Sessions,
          MaxId,        \* bound: message ids handed out
          Starts        \* pairs: message ids handed out to other sessions before,
                        \* which of the optional features are configured

VARIABLES row,          \* [Sessions -> record]: the rows of sessions
          message,      \* the rows of messages
          lastId,       \* AUTOINCREMENT of messages, shared by the sessions
          config        \* the configured features

conversationVars == <<row, message, lastId, config>>

\* A context limit (ContextConfig.max_tokens), a model for titles and
\* summaries, and one for memories.
Features == {"limit", "summary", "extract"}

ASSUME ConversationAssumption == Starts \subseteq (0..MaxId) \X SUBSET Features

Ids == 1..MaxId

\* title is who gave the title that is kept, at the user messages it was given
\* for (title_updated_at_user_message_count).  Every title is written with
\* title_auto_generated = 1, also one of the user's.
Rows == [there : BOOLEAN, archived : BOOLEAN, users : Nat,
         title : {"none", "task", "user"}, at : Nat, busy : BOOLEAN]

\* at orders the history (the timestamp column); covers are the messages a
\* summary was made from, itself for the others.
Messages == [id : Ids, of : Sessions, role : {"user", "assistant"}, at : Ids,
             covers : SUBSET Ids]

ConversationTypeOK ==
    /\ row \in [Sessions -> Rows]
    /\ message \subseteq Messages
    /\ lastId \in 0..MaxId
    /\ config \in SUBSET Features
    /\ \A m \in message : row[m.of].there

ConversationInit ==
    /\ row = [s \in Sessions |-> [there |-> TRUE, archived |-> FALSE, users |-> 0,
                                  title |-> "none", at |-> 0, busy |-> FALSE]]
    /\ message = {}
    /\ \E start \in Starts : lastId = start[1] /\ config = start[2]

History(s) == {m \in message : m.of = s}

WithIds(ids) == {m \in message : m.id \in ids}

Said(s, role) == [id |-> lastId + 1, of |-> s, role |-> role, at |-> lastId + 1,
                  covers |-> {lastId + 1}]

\* save_message.
Save(s, role) ==
    /\ lastId < MaxId
    /\ row[s].there /\ row[s].busy = (role = "assistant")
    /\ message' = message \cup {Said(s, role)}
    /\ lastId' = lastId + 1
    /\ row' = [row EXCEPT ![s].users = IF role = "user" THEN @ + 1 ELSE @,
                          ![s].busy = role = "user"]
    /\ UNCHANGED config

\* The answer of a request fails: no message is saved.
AnswerFails(s) ==
    /\ row[s].busy
    /\ row' = [row EXCEPT ![s].busy = FALSE]
    /\ UNCHANGED <<message, lastId, config>>

\* A mistake: the messages are not deleted with the session.
DeleteKeepsMessages(s) ==
    /\ row[s].there /\ ~ row[s].busy
    /\ row' = [row EXCEPT ![s].there = FALSE]
    /\ UNCHANGED <<message, lastId, config>>

\* Deletes the messages with the session; refused while it is busy.
DeleteSession(s) ==
    /\ row[s].there /\ ~ row[s].busy
    /\ row' = [row EXCEPT ![s].there = FALSE]
    /\ message' = message \ History(s)
    /\ UNCHANGED <<lastId, config>>

Unarchive(s) ==
    /\ row[s].there /\ ~ row[s].busy /\ row[s].archived
    /\ row' = [row EXCEPT ![s].archived = FALSE]
    /\ UNCHANGED <<message, lastId, config>>

Titled(s) == row[s].title # "none"

\* A mistake: only the flag of the title is compared.
TitleLocksFlag(s, users, titled) == row[s].there /\ Titled(s) = titled

\* update_session_title: TRUE when the row is still what the caller has read.
TitleLocks(s, users, titled) ==
    row[s].there /\ row[s].users = users /\ Titled(s) = titled

SetTitle(s, users, author) == row' = [row EXCEPT ![s].title = author, ![s].at = users]

\* What update_session_title leaves, for somebody who has read the row before.
GivesTitle(s, users, titled, author) ==
    IF TitleLocks(s, users, titled) THEN SetTitle(s, users, author) ELSE UNCHANGED row

=============================================================================
