-------------------------- MODULE ProviderSettings --------------------------
(***************************************************************************)
(* The configuration of providers, their models and the models chosen      *)
(* (service/session_manager.py, db/provider_store.py,                      *)
(* db/app_setting_store.py): what is chosen is looked up first, in several *)
(* statements, while other requests change it.  The four choices (default, *)
(* summary, extraction, consolidation) are stored alike: one stands for    *)
(* them.  What a failing statement does to the transaction is the matter   *)
(* of SharedConnection.                                                    *)
(***************************************************************************)
EXTENDS StatementLine, FiniteSets

CONSTANTS Providers,    \* identifiers, made from the names
          Names,        \* names of models
          Pairs         \* the pairs that are asked for

ASSUME PairsAssumption == Pairs \subseteq Providers \X Names

VARIABLES providers,    \* the rows of providers
          models,       \* the rows of provider_models: pairs
          choice,       \* the pair chosen: {} or a set with the pair
          sessions,     \* the pairs of the sessions created
          since,        \* history: [Requests -> its pair was a model since it came]
          chosen        \* history: pairs requests chose, used or made sessions
                        \* for, and whether there was such a model since they came

providerVars == <<providers, models, choice, sessions, since, chosen>>


ProviderInit(rows) ==
    /\ providers = Providers
    /\ models = rows
    /\ choice = {}
    /\ sessions = {}
    /\ since = [r \in Requests |-> FALSE]
    /\ chosen = {}

-----------------------------------------------------------------------------
(* The statements of each request.                                         *)

Steps ==
    [create |-> << "insert", "commit" >>,
     update |-> << "update", "commit", "reread" >>,
     delete |-> << "delete", "commit" >>,
     add |-> << "provider", "duplicate", "insertModel", "commit" >>,
     remove |-> << "model", "deleteModel", "commit" >>,
     choose |-> << "provider", "again", "models", "set", "commit" >>,
     forget |-> << "unset", "commit" >>,
     session |-> << "provider", "again", "models", "insertSession", "commit" >>,
     standard |-> << "default", "insertSession", "commit" >>,
     call |-> << "provider", "key", "again", "models", "ask" >>]

Kinds == DOMAIN Steps

\* Those that look their pair up and then use it.
Looking == {"choose", "session", "call"}

\* A session is created with a pair, or changed to one, in the same steps.  A
\* deletion that found no row says so at the end, which changes nothing.
\* Every request names a provider and a model; some need only the one, or none.
Asked(r) == request[r].arg
Next1(r) == After(r, Steps[request[r].kind])

\* What the models table is after a step; every request sees it go by.
Models(rows) ==
    /\ models' = rows
    /\ since' = [q \in Requests |->
                   since[q] \/ (request[q].kind \in Looking /\ Asked(q) \in rows)]

\* The request uses its pair.
Takes(r) ==
    /\ chosen' = chosen \cup {[pair |-> Asked(r), offered |-> since[r]]}
    /\ since' = [since EXCEPT ![r] = FALSE]

Begins(r, kind, pair) ==
    /\ Arrives(r, kind, pair, Steps[kind][1])
    /\ since' = [since EXCEPT ![r] = kind \in Looking /\ pair \in models]
    /\ UNCHANGED <<providers, models, choice, sessions, chosen>>

-----------------------------------------------------------------------------
(* Queries.                                                                *)

\* A mistake: the models of all providers are listed.
RowsOfAll(r, at) ==
    CASE at \in {"provider", "again", "reread"} -> {Asked(r)[1]} \cap providers
      [] at = "models" -> {<<Asked(r)[1], pair[2]>> : pair \in models}
      [] at \in {"duplicate", "model"} -> {Asked(r)} \cap models
      [] at = "key" -> {}
      [] at = "default" -> choice

Rows(r, at) ==
    CASE at \in {"provider", "again", "reread"} -> {Asked(r)[1]} \cap providers
      [] at = "models" -> {pair \in models : pair[1] = Asked(r)[1]}
      [] at \in {"duplicate", "model"} -> {Asked(r)} \cap models
      [] at = "key" -> {}
      [] at = "default" -> choice

Looks(r) ==
    /\ \E at \in {"provider", "again", "reread", "models", "duplicate", "model", "key",
                  "default"} : Queries(r, at, Rows(r, at))
    /\ UNCHANGED providerVars

\* What must be there is, or must not be there is not.
LooksGood(r) ==
    \/ \E at \in {"provider", "again", "reread", "model"} :
          Found(r, at) /\ request[r].found # {}
    \/ Found(r, "models") /\ Asked(r) \in request[r].found
    \/ Found(r, "duplicate") /\ request[r].found = {}
    \/ Found(r, "key")

Decides(r) ==
    /\ \E at \in {"provider", "again", "reread", "model", "models", "duplicate", "key"} :
          Found(r, at)
    /\ IF LooksGood(r) THEN GoesOn(r, Next1(r)) /\ UNCHANGED since
       ELSE GoesOn(r, "error") /\ since' = [since EXCEPT ![r] = FALSE]
    /\ UNCHANGED <<providers, models, choice, sessions, chosen>>

\* A session without a choice of its own takes the default, which nobody checks
\* again.
TakesDefault(r) ==
    /\ Found(r, "default")
    /\ IF request[r].found = {} THEN GoesOn(r, "error")
       ELSE /\ request' = [request EXCEPT ![r] =
                   [@ EXCEPT !.arg = CHOOSE pair \in request[r].found : TRUE,
                             !.at = "insertSession", !.found = {}, !.left = 0]]
            /\ line' = Append(Tail(line), r)
    /\ UNCHANGED providerVars

-----------------------------------------------------------------------------
(* Changes.                                                                *)

Creates(r) ==
    /\ Turn(r, "insert")
    /\ GoesOn(r, IF Asked(r)[1] \in providers THEN "error" ELSE "commit")
    /\ providers' = providers \cup {Asked(r)[1]}
    /\ UNCHANGED <<models, choice, sessions, since, chosen>>

\* Its address or key, which nothing here tells apart; whether there was such a
\* row shows in the query after the commit.
UpdatesProvider(r) ==
    /\ Turn(r, "update")
    /\ GoesOn(r, "commit")
    /\ UNCHANGED providerVars

\* Its models go with it; choices and sessions keep its name.
DeletesProvider(r) ==
    /\ Turn(r, "delete")
    /\ GoesOn(r, "commit")
    /\ providers' = providers \ {Asked(r)[1]}
    /\ Models({pair \in models : pair[1] # Asked(r)[1]})
    /\ UNCHANGED <<choice, sessions, chosen>>

\* The provider may be gone by now, or the model there.
InsertsModel(r) ==
    /\ Turn(r, "insertModel")
    /\ IF Asked(r)[1] \in providers /\ Asked(r) \notin models
       THEN GoesOn(r, "commit") /\ Models(models \cup {Asked(r)})
       ELSE GoesOn(r, "error") /\ UNCHANGED <<models, since>>
    /\ UNCHANGED <<providers, choice, sessions, chosen>>

DeletesModel(r) ==
    /\ Turn(r, "deleteModel")
    /\ GoesOn(r, "commit")
    /\ Models(models \ {Asked(r)})
    /\ UNCHANGED <<providers, choice, sessions, chosen>>

Chooses(r) ==
    /\ Turn(r, "set")
    /\ GoesOn(r, "commit")
    /\ choice' = {Asked(r)}
    /\ Takes(r)
    /\ UNCHANGED <<providers, models, sessions>>

Forgets(r) ==
    /\ Turn(r, "unset")
    /\ GoesOn(r, "commit")
    /\ choice' = {}
    /\ UNCHANGED <<providers, models, sessions, since, chosen>>

CreatesSession(r) ==
    /\ Turn(r, "insertSession")
    /\ GoesOn(r, "commit")
    /\ sessions' = sessions \cup {Asked(r)}
    /\ IF request[r].kind = "session" THEN Takes(r) ELSE UNCHANGED <<chosen, since>>
    /\ UNCHANGED <<providers, models, choice>>

\* The call of the model leaves the stores alone.
Calls(r) ==
    /\ Turn(r, "ask")
    /\ GoesOn(r, "ok")
    /\ Takes(r)
    /\ UNCHANGED <<providers, models, choice, sessions>>

Saves(r) ==
    /\ Turn(r, "commit") /\ request[r].kind \in Kinds
    /\ GoesOn(r, Next1(r))
    /\ UNCHANGED providerVars

ProviderStep(r) ==
    \/ Looks(r) \/ Decides(r) \/ TakesDefault(r)
    \/ Creates(r) \/ UpdatesProvider(r) \/ DeletesProvider(r)
    \/ InsertsModel(r) \/ DeletesModel(r) \/ Chooses(r) \/ Forgets(r)
    \/ CreatesSession(r) \/ Calls(r) \/ Saves(r)

-----------------------------------------------------------------------------

(* What a request chose, created a session for or called was a model of its  *)
(* provider at some moment since the request came, whatever others removed *)
(* and added between its look-ups (session_manager.py:1036); and so was    *)
(* once every pair that is stored, also those sessions take over unchecked. *)
ChosenWasOffered ==
    /\ \A c \in chosen : c.offered
    /\ choice \cup sessions \subseteq {c.pair : c \in chosen}

(* A choice or a session names a model there is.  It does not hold: a        *)
(* deletion leaves the choices alone (provider_store.py:263), and one      *)
(* between a look-up and the write is not noticed.                         *)
ChoiceStands == choice \subseteq models

=============================================================================
