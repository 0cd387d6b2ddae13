------------------------------ MODULE TitleTask ------------------------------
(***************************************************************************)
(* The title task of service/async_events.py: reads the session, then its  *)
(* messages, asks a model for a title and writes it if the session has not *)
(* moved meanwhile.  Several run at once, one for each answer, and the     *)
(* user's renames, which read the session and write it by the same update  *)
(* (service/session_manager.py:319).                                       *)
(***************************************************************************)
EXTENDS Conversation

CONSTANTS TitleSlots,   \* bound: title tasks and renames at a time
          TitleEvery    \* user messages from one title to the next

ASSUME TitleAssumption == TitleEvery \in Nat

VARIABLE titling        \* [TitleSlots -> record]: the tasks and the renames

NoTitling == [at |-> "free"]

Titling == [at : {"row", "messages", "model", "fallback", "write", "rename"}, of : Sessions,
            users : Nat, first : BOOLEAN] \cup {NoTitling}

TitleTypeOK == titling \in [TitleSlots -> Titling]

TitleInit == titling = [i \in TitleSlots |-> NoTitling]

TitleFree == {i \in TitleSlots : titling[i] = NoTitling}

TitleBegins(s, at, users, first) ==
    /\ TitleFree # {}
    /\ titling' = [titling EXCEPT ![CHOOSE i \in TitleFree : TRUE] =
          [at |-> at, of |-> s, users |-> users, first |-> first]]

\* submit_auto_title.
SubmitTitle(s) == TitleBegins(s, "row", 0, FALSE)

\* The user renames a session: it is read first.
RenameReads(s) ==
    /\ row[s].there
    /\ TitleBegins(s, "rename", row[s].users, ~ Titled(s))
    /\ UNCHANGED conversationVars

TitleGoes(i, at) == titling' = [titling EXCEPT ![i].at = at]

TitleEnds(i) == titling' = [titling EXCEPT ![i] = NoTitling]

\* The session as the task will compare it, and whether a title is due.
TitleReadsRow(i) ==
    /\ titling[i].at = "row"
    /\ LET r == row[titling[i].of] IN
       IF r.there /\ (r.title = "none" \/ r.users - r.at >= TitleEvery)
       THEN titling' = [titling EXCEPT ![i].users = r.users, ![i].first = r.title = "none",
                ![i].at = IF r.title = "none" THEN "messages" ELSE "model"]
       ELSE TitleEnds(i)
    /\ UNCHANGED conversationVars

\* A first title needs an exchange.
TitleReadsMessages(i) ==
    /\ titling[i].at = "messages"
    /\ IF {m.role : m \in History(titling[i].of)} = {"user", "assistant"}
       THEN TitleGoes(i, "model")
       ELSE TitleEnds(i)
    /\ UNCHANGED conversationVars

\* The summary model answers with a title or with nothing; without such a
\* model a first title is cut from the first user message.
TitleAsks(i) ==
    /\ titling[i].at = "model"
    /\ \/ "summary" \in config /\ TitleGoes(i, "write")
       \/ "summary" \notin config /\ titling[i].first /\ TitleGoes(i, "fallback")
       \/ ("summary" \in config \/ ~ titling[i].first) /\ TitleEnds(i)
    /\ UNCHANGED conversationVars

TitleCuts(i) ==
    /\ titling[i].at = "fallback"
    /\ IF \E m \in History(titling[i].of) : m.role = "user"
       THEN TitleGoes(i, "write")
       ELSE TitleEnds(i)
    /\ UNCHANGED conversationVars

Writes(i, author) ==
    /\ GivesTitle(titling[i].of, titling[i].users, ~ titling[i].first, author)
    /\ TitleEnds(i)
    /\ UNCHANGED <<message, lastId, config>>

TitleWrites(i) == titling[i].at = "write" /\ Writes(i, "task")

RenameWrites(i) == titling[i].at = "rename" /\ Writes(i, "user")

TitleStep(i) ==
    \/ TitleReadsRow(i) \/ TitleReadsMessages(i) \/ TitleAsks(i)
    \/ TitleCuts(i) \/ TitleWrites(i) \/ RenameWrites(i)

\* The task's turn to write, and its title is taken.
TakesTitle(i) ==
    /\ titling[i].at = "write" /\ titling'[i] = NoTitling
    /\ TitleLocks(titling[i].of, titling[i].users, ~ titling[i].first)

\* No title, or one that is old enough to have another.
TitleDue(r) == r.title = "none" \/ r.users - r.at >= TitleEvery

(* However many title tasks and renames overlap, a task changes the title   *)
(* only for the user messages the session has at that moment; a first      *)
(* title never replaces one, and a later one replaces only a title that is *)
(* due for it, whoever gave that, or one given since the task read the     *)
(* session and for no user message less: the optimistic lock of            *)
(* session_store.py:698 compares the number of user messages, so that it   *)
(* drops a title that comes too late, but not one that comes second at the *)
(* same number (TitleStaysDue, below, and README).                         *)
TitleSpacing ==
    [][\A i \in TitleSlots :
          LET t == titling[i]
              r == row[t.of]
          IN  t.at = "write" /\ titling'[i] = NoTitling /\ row'[t.of] # r =>
                /\ row'[t.of].at = r.users
                /\ t.first => r.title = "none"
                /\ TitleDue(r) \/ r.at = r.users
      ]_<<conversationVars, titling>>

(* docs/auto-title-design.md:120: of two tasks for one session only one    *)
(* gets past the lock, which compares the number the last title was given  *)
(* at.  The code compares the user messages: the second passes as well.    *)
TitleStaysDue ==
    [][\A i \in TitleSlots : TakesTitle(i) => TitleDue(row[titling[i].of])
      ]_<<conversationVars, titling>>

(* docs/auto-title-design.md:22, :57: a title the user gave is never       *)
(* replaced by an automatic one.  The rename writes title_auto_generated = *)
(* 1 as well, so that the user's title is replaced like any other.         *)
UserTitleStays ==
    [][\A i \in TitleSlots : TakesTitle(i) => row[titling[i].of].title # "user"
      ]_<<conversationVars, titling>>

=============================================================================
