------------------------ MODULE ConfigurationProofs ------------------------
(***************************************************************************)
(* What is chosen was offered, for any providers, models and requests.     *)
(***************************************************************************)
EXTENDS Configuration, SequenceTheorems, TLAPS

-----------------------------------------------------------------------------
(* Where a request can be.                                                 *)

SkillPlaces == {"skills", "saveSkills", "commitSkills", "setPath", "commitPath", "path"}

\* The steps of each kind of request, in any order.
At(kind, at) ==
    \/ kind = "create"   /\ at \in {"insert", "commit"}
    \/ kind = "update"   /\ at \in {"update", "commit", "reread"}
    \/ kind = "delete"   /\ at \in {"delete", "commit"}
    \/ kind = "add"      /\ at \in {"provider", "duplicate", "insertModel", "commit"}
    \/ kind = "remove"   /\ at \in {"model", "deleteModel", "commit"}
    \/ kind = "choose"   /\ at \in {"provider", "again", "models", "set", "commit"}
    \/ kind = "forget"   /\ at \in {"unset", "commit"}
    \/ kind = "session"  /\ at \in {"provider", "again", "models", "insertSession", "commit"}
    \/ kind = "standard" /\ at \in {"default", "insertSession", "commit"}
    \/ kind = "call"     /\ at \in {"provider", "key", "again", "models", "ask"}
    \/ kind \in {"switch", "view", "list", "setPath"} /\ at \in SkillPlaces
    \/ kind \in {"none", "over"} /\ at = "none"

\* What comes next where a decision or a commit was.
LEMMA NextPlace ==
    ASSUME NEW r \in Requests, At(request[r].kind, request[r].at)
    PROVE  /\ request[r].at \in {"provider", "again", "reread", "model", "duplicate", "key"}
                  \/ (request[r].at = "commit" /\ request[r].kind \in Kinds) =>
                 /\ Next1(r) \notin {"set", "insertSession", "ask", "default", "error"}
                 /\ Next1(r) = "ok" \/ At(request[r].kind, Next1(r))
                 /\ request[r].at = "commit" => Next1(r) \in {"ok", "reread"}
                 /\ Next1(r) \in {"provider", "key", "again", "models"} =>
                       request[r].at \in {"provider", "key", "again", "models"}
           /\ request[r].at = "models" =>
                 /\ At(request[r].kind, Next1(r))
                 /\ Next1(r) \in {"set", "insertSession", "ask"}
                 /\ request[r].kind \in Looking
<1>1. CASE request[r].kind = "create"
  BY <1>1 DEF At, Next1, After, Steps, Kinds, Looking, SkillPlaces
<1>2. CASE request[r].kind = "update"
  BY <1>2 DEF At, Next1, After, Steps, Kinds, Looking, SkillPlaces
<1>3. CASE request[r].kind = "delete"
  BY <1>3 DEF At, Next1, After, Steps, Kinds, Looking, SkillPlaces
<1>4. CASE request[r].kind = "add"
  BY <1>4 DEF At, Next1, After, Steps, Kinds, Looking, SkillPlaces
<1>5. CASE request[r].kind = "remove"
  BY <1>5 DEF At, Next1, After, Steps, Kinds, Looking, SkillPlaces
<1>6. CASE request[r].kind = "choose"
  BY <1>6 DEF At, Next1, After, Steps, Kinds, Looking, SkillPlaces
<1>7. CASE request[r].kind = "forget"
  BY <1>7 DEF At, Next1, After, Steps, Kinds, Looking, SkillPlaces
<1>8. CASE request[r].kind = "session"
  BY <1>8 DEF At, Next1, After, Steps, Kinds, Looking, SkillPlaces
<1>9. CASE request[r].kind = "standard"
  BY <1>9 DEF At, Next1, After, Steps, Kinds, Looking, SkillPlaces
<1>10. CASE request[r].kind = "call"
  BY <1>10 DEF At, Next1, After, Steps, Kinds, Looking, SkillPlaces
<1>11. CASE request[r].kind \in {"switch", "view", "list", "setPath", "none", "over"}
  BY <1>11 DEF At, Steps, Kinds, SkillPlaces
<1>. QED BY <1>1, <1>2, <1>3, <1>4, <1>5, <1>6, <1>7, <1>8, <1>9, <1>10, <1>11 DEF At

-----------------------------------------------------------------------------
(* The invariant.                                                          *)

Fields ==
    /\ DOMAIN request = Requests
    /\ \A r \in Requests : {"kind", "arg", "at", "found", "left"} \subseteq DOMAIN request[r]

Taken == {c.pair : c \in chosen}

\* A request that looks its pair up has noted it if the pair is there now, and has
\* noted it for sure from the moment on it has seen the pair.
Noted(r) ==
    /\ At(request[r].kind, request[r].at)
    /\ request[r].kind \in Looking /\ Asked(r) \in models
          /\ request[r].at \in {"provider", "key", "again", "models"} => since[r]
    /\ request[r].at = "models" /\ Asked(r) \in request[r].found => since[r]
    /\ request[r].at \in {"set", "ask"} => since[r]
    /\ request[r].at = "insertSession" =>
          IF request[r].kind = "session" THEN since[r] ELSE Asked(r) \in Taken
    /\ request[r].at = "default" => request[r].found \subseteq Taken

ConfigurationInv ==
    /\ Fields
    /\ since \in [Requests -> BOOLEAN]
    /\ \A r \in Requests : Noted(r)
    /\ ChosenWasOffered

\* What a step of another request does to r.
LEMMA OthersNoted ==
    ASSUME NEW r \in Requests, Noted(r), request'[r] = request[r],
           since[r] => since'[r], chosen \subseteq chosen',
           (request[r].kind \in Looking /\ Asked(r) \in models') =>
               (Asked(r) \in models \/ since'[r])
    PROVE  Noted(r)'
  BY DEF Noted, Asked, Taken

\* A request goes on.
LEMMA Goes ==
    ASSUME Fields, NEW r \in Requests, NEW at, NEW STATE value, GoesOnWith(r, at, value)
    PROVE  /\ Fields'
           /\ \A q \in Requests \ {r} : request'[q] = request[q]
           /\ Ends(at) => request'[r].kind = "over" /\ request'[r].at = "none"
                             /\ request'[r].found = {}
           /\ ~ Ends(at) => /\ request'[r].kind = request[r].kind
                            /\ request'[r].arg = request[r].arg
                            /\ request'[r].at = at
                            /\ request'[r].found = value
<1>1. CASE Ends(at)
  BY <1>1 DEF Fields, GoesOnWith, Over, Idle
<1>2. CASE ~ Ends(at)
  BY <1>2 DEF Fields, GoesOnWith
<1>. QED BY <1>1, <1>2

-----------------------------------------------------------------------------
(* Steps.                                                                  *)

\* A step that goes on with r and leaves the tables and histories alone.
LEMMA Onward ==
    ASSUME ConfigurationInv, NEW r \in Requests, NEW at, NEW STATE value,
           GoesOnWith(r, at, value), UNCHANGED <<models, sessions, chosen>>,
           choice' \subseteq choice,
           since' = since \/ (since' = [since EXCEPT ![r] = FALSE] /\ at = "error"),
           ~ Ends(at) =>
             /\ At(request[r].kind, at)
             /\ at \in {"provider", "key", "again", "models"} =>
                  request[r].at \in {"provider", "key", "again", "models"}
             /\ at \in {"models", "default"} => value = {}
             /\ at \in {"set", "ask"} => since[r]
             /\ at = "insertSession" => request[r].kind = "session" /\ since[r]
    PROVE  ConfigurationInv'
<1>1. Fields' /\ since' \in [Requests -> BOOLEAN] /\ ChosenWasOffered'
  BY Goes DEF ConfigurationInv, ChosenWasOffered
<1>2. ASSUME NEW q \in Requests, q # r PROVE Noted(q)'
  <2>1. request'[q] = request[q] /\ since'[q] = since[q] /\ Noted(q)
    BY <1>2, Goes DEF ConfigurationInv
  <2>. QED BY <2>1, OthersNoted
<1>3. Noted(r)'
  <2>1. CASE Ends(at)
    BY <2>1, Goes DEF ConfigurationInv, Noted, At, Looking
  <2>2. CASE ~ Ends(at)
    <3>1. at # "error" /\ since' = since
      BY <2>2 DEF Ends
    <3>2. /\ request'[r].kind = request[r].kind /\ request'[r].arg = request[r].arg
          /\ request'[r].at = at /\ request'[r].found = value /\ Noted(r)
      BY <2>2, Goes DEF ConfigurationInv
    <3>. QED BY <2>2, <3>1, <3>2 DEF Noted, Asked, Taken
  <2>. QED BY <2>1, <2>2
<1>. QED BY <1>1, <1>2, <1>3 DEF ConfigurationInv

\* A step of r that changes the table of models and goes on to the commit.
LEMMA TableChanges ==
    ASSUME ConfigurationInv, NEW r \in Requests, NEW STATE rows, Models(rows),
           GoesOn(r, "commit"), UNCHANGED <<choice, sessions, chosen>>,
           request[r].kind \notin Looking, At(request[r].kind, "commit")
    PROVE  ConfigurationInv'
<1>1. Fields' /\ ChosenWasOffered' /\ since' \in [Requests -> BOOLEAN]
  BY Goes DEF ConfigurationInv, ChosenWasOffered, GoesOn, Models
<1>2. ASSUME NEW q \in Requests, q # r PROVE Noted(q)'
  <2>1. request'[q] = request[q] /\ Noted(q)
    BY <1>2, Goes DEF ConfigurationInv, GoesOn
  <2>2. since'[q] = (since[q] \/ (request[q].kind \in Looking /\ Asked(q) \in models'))
    BY DEF Models
  <2>. QED BY <2>1, <2>2, OthersNoted
<1>3. Noted(r)'
  <2>1. request'[r].kind = request[r].kind /\ request'[r].at = "commit"
    BY Goes DEF ConfigurationInv, GoesOn, Ends
  <2>. QED BY <2>1 DEF Noted, Asked
<1>. QED BY <1>1, <1>2, <1>3 DEF ConfigurationInv

\* A step of r that takes its pair and goes on.
LEMMA PairTaken ==
    ASSUME ConfigurationInv, NEW r \in Requests, NEW at, GoesOn(r, at), Takes(r),
           UNCHANGED models, since[r], at = "ok" \/ at = "commit",
           At(request[r].kind, "commit") \/ at = "ok",
           choice' \subseteq choice \cup {Asked(r)},
           sessions' \subseteq sessions \cup {Asked(r)}
    PROVE  ConfigurationInv'
<1>1. chosen \subseteq chosen' /\ Taken \subseteq Taken'
  BY DEF Takes, Taken
<1>2. ChosenWasOffered'
  <2>1. chosen' = chosen \cup {[pair |-> Asked(r), offered |-> since[r]]}
    BY DEF Takes
  <2>2. \A c \in chosen' : c.offered
    BY <2>1 DEF ConfigurationInv, ChosenWasOffered
  <2>3. Asked(r) \in Taken'
    <3>. DEFINE new == [pair |-> Asked(r), offered |-> since[r]]
    <3>1. new \in chosen' /\ new.pair = Asked(r)
      BY <2>1
    <3>. QED BY <3>1 DEF Taken
  <2>4. choice \cup sessions \subseteq Taken
    BY DEF ConfigurationInv, ChosenWasOffered, Taken
  <2>5. choice' \cup sessions' \subseteq Taken'
    BY <1>1, <2>3, <2>4
  <2>. QED BY <2>2, <2>5 DEF ChosenWasOffered, Taken
<1>3. Fields' /\ since' \in [Requests -> BOOLEAN]
  BY Goes DEF ConfigurationInv, GoesOn, Takes
<1>4. ASSUME NEW q \in Requests, q # r PROVE Noted(q)'
  <2>1. request'[q] = request[q] /\ since'[q] = since[q] /\ Noted(q)
    BY <1>4, Goes DEF ConfigurationInv, GoesOn, Takes
  <2>. QED BY <1>1, <2>1, OthersNoted
<1>5. Noted(r)'
  <2>1. CASE at = "ok"
    BY <2>1, Goes DEF ConfigurationInv, GoesOn, Ends, Noted, At, Looking
  <2>2. CASE at = "commit"
    <3>1. request'[r].kind = request[r].kind /\ request'[r].at = "commit"
      BY <2>2, Goes DEF ConfigurationInv, GoesOn, Ends
    <3>. QED BY <2>2, <3>1 DEF Noted, Asked
  <2>. QED BY <2>1, <2>2
<1>. QED BY <1>2, <1>3, <1>4, <1>5 DEF ConfigurationInv

\* A query keeps what r asks for and finds rows of the tables.
LEMMA Queried ==
    ASSUME ConfigurationInv, NEW r \in Requests, NEW at, NEW STATE rows,
           Queries(r, at, rows), UNCHANGED providerVars,
           at = "models" => rows \subseteq models,
           at = "default" => rows = choice
    PROVE  ConfigurationInv'
<1>1. /\ Fields' /\ \A q \in Requests \ {r} : request'[q] = request[q]
      /\ request'[r].kind = request[r].kind /\ request'[r].arg = request[r].arg
      /\ request'[r].at = at /\ request[r].at = at /\ request'[r].found = rows
  BY DEF ConfigurationInv, Fields, Queries, Turn
<1>2. UNCHANGED <<models, choice, sessions, since, chosen>>
  BY DEF providerVars
<1>3. ASSUME NEW q \in Requests, q # r PROVE Noted(q)'
  BY <1>1, <1>2, <1>3, OthersNoted DEF ConfigurationInv
<1>4. Noted(r)'
  <2>1. Noted(r) /\ choice \subseteq Taken
    BY DEF ConfigurationInv, ChosenWasOffered, Taken
  <2>2. at = "models" => request[r].kind \in Looking
    BY <1>1, <2>1 DEF Noted, At, Looking, SkillPlaces
  <2>. QED BY <1>1, <1>2, <2>1, <2>2 DEF Noted, Asked, Taken
<1>. QED BY <1>1, <1>2, <1>3, <1>4 DEF ConfigurationInv, ChosenWasOffered

\* A request arrives.
LEMMA Arrived ==
    ASSUME ConfigurationInv, NEW r \in Requests, NEW kind, NEW arg, NEW STATE at,
           NEW STATE value, ArrivesWith(r, kind, arg, at, value),
           UNCHANGED <<models, choice, sessions, chosen>>,
           since' \in [Requests -> BOOLEAN], \A q \in Requests \ {r} : since'[q] = since[q],
           kind \in Looking /\ arg \in models => since'[r],
           Ends(at) \/ At(kind, at),
           at \notin {"key", "again", "models", "set", "ask", "insertSession", "default"}
               \/ (at = "default" /\ value = {})
    PROVE  ConfigurationInv'
<1>1. /\ Fields' /\ \A q \in Requests \ {r} : request'[q] = request[q]
      /\ Ends(at) => request'[r].kind = "over" /\ request'[r].at = "none"
      /\ ~ Ends(at) => /\ request'[r].kind = kind /\ request'[r].arg = arg
                       /\ request'[r].at = at /\ request'[r].found = value
  <2>1. CASE Ends(at)
    BY <2>1 DEF ConfigurationInv, Fields, ArrivesWith, Over, Idle
  <2>2. CASE ~ Ends(at)
    BY <2>2 DEF ConfigurationInv, Fields, ArrivesWith
  <2>. QED BY <2>1, <2>2
<1>2. since' \in [Requests -> BOOLEAN] /\ ChosenWasOffered'
  BY DEF ConfigurationInv, ChosenWasOffered
<1>3. ASSUME NEW q \in Requests, q # r PROVE Noted(q)'
  <2>1. request'[q] = request[q] /\ since'[q] = since[q] /\ Noted(q)
    BY <1>1, <1>3 DEF ConfigurationInv
  <2>. QED BY <2>1, OthersNoted
<1>4. Noted(r)'
  <2>1. CASE Ends(at)
    BY <1>1, <2>1 DEF Noted, At, Looking
  <2>2. CASE ~ Ends(at)
    BY <1>1, <2>2 DEF ConfigurationInv, Noted, Asked, Ends
  <2>. QED BY <2>1, <2>2
<1>. QED BY <1>1, <1>2, <1>3, <1>4 DEF ConfigurationInv

LEMMA BeginStep ==
    ASSUME ConfigurationInv, NEW r \in Requests, Begin(r)
    PROVE  ConfigurationInv'
<1>1. ASSUME NEW kind \in Kinds, NEW pair, Begins(r, kind, pair) PROVE ConfigurationInv'
  <2>. DEFINE at == Steps[kind][1]
  <2>1. /\ At(kind, at)
        /\ at \in {"insert", "update", "delete", "provider", "model", "unset", "default"}
    BY DEF Kinds, Steps, At, Looking
  <2>2. ArrivesWith(r, kind, pair, at, {}) /\ UNCHANGED <<models, choice, sessions, chosen>>
    BY <1>1 DEF Begins, Arrives
  <2>3. /\ since' \in [Requests -> BOOLEAN]
        /\ \A q \in Requests \ {r} : since'[q] = since[q]
        /\ kind \in Looking /\ pair \in models => since'[r]
    BY <1>1 DEF Begins, ConfigurationInv
  <2>. HIDE DEF at
  <2>. QED BY <2>1, <2>2, <2>3, Arrived
<1>2. ASSUME NEW kind \in {"switch", "view", "list", "setPath"}, NEW arg,
             NEW STATE at, at \in SkillPlaces \cup {"ok"}, NEW STATE value,
             ArrivesWith(r, kind, arg, at, value), UNCHANGED providerVars
      PROVE  ConfigurationInv'
  BY <1>2, Arrived DEF ConfigurationInv, providerVars, At, SkillPlaces, Ends, Looking
<1>3. CASE SkillBegins(r) /\ UNCHANGED providerVars
  <2>1. AtSkills \in SkillPlaces \cup {"ok"}
    BY DEF AtSkills, SkillPlaces
  <2>2. ASSUME NEW skill \in Skills, NEW on \in BOOLEAN, SwitchBegins(r, <<skill, on>>)
        PROVE  ConfigurationInv'
    <3>1. CASE cache = {}
      <4>1. ArrivesWith(r, "switch", <<skill, on>>, "skills", {})
        BY <2>2, <3>1 DEF SwitchBegins, Arrives
      <4>. QED BY <1>2, <1>3, <4>1 DEF SkillPlaces
    <3>2. CASE cache # {}
      <4>. DEFINE value == {Switched(<<skill, on>>, The(cache))}
      <4>1. ArrivesWith(r, "switch", <<skill, on>>, "saveSkills", value)
        BY <2>2, <3>2 DEF SwitchBegins
      <4>. HIDE DEF value
      <4>. QED BY <1>2, <1>3, <4>1 DEF SkillPlaces
    <3>. QED BY <3>1, <3>2
  <2>3. ASSUME NEW skill \in Skills, ViewBegins(r, skill) PROVE ConfigurationInv'
    BY <1>2, <1>3, <2>1, <2>3 DEF ViewBegins, Arrives
  <2>4. ASSUME NEW directory \in Paths, PathBegins(r, directory) PROVE ConfigurationInv'
    BY <1>2, <1>3, <2>4 DEF PathBegins, Arrives, SkillPlaces
  <2>5. ASSUME ListBegins(r) PROVE ConfigurationInv'
    BY <1>2, <1>3, <2>5 DEF ListBegins, Arrives, SkillPlaces
  <2>. QED BY <1>3, <2>2, <2>3, <2>4, <2>5 DEF SkillBegins
<1>. QED BY <1>1, <1>3 DEF Begin

LEMMA SkillStepKeeps ==
    ASSUME ConfigurationInv, NEW r \in Requests, SkillStep(r), UNCHANGED providerVars
    PROVE  ConfigurationInv'
<1>1. ASSUME request[r].at \in SkillPlaces, NEW STATE at, at \in SkillPlaces \cup {"ok"},
             NEW STATE value, GoesOnWith(r, at, value)
      PROVE  ConfigurationInv'
  <2>1. At(request[r].kind, request[r].at)
    BY DEF ConfigurationInv, Noted
  <2>2. request[r].kind \in {"switch", "view", "list", "setPath"}
    BY <1>1, <2>1 DEF At, SkillPlaces
  <2>. QED BY <1>1, <2>2, Onward DEF providerVars, At, SkillPlaces, Ends
<1>2. ASSUME NEW at \in SkillPlaces, NEW STATE rows, Queries(r, at, rows)
      PROVE  ConfigurationInv'
  BY <1>2, Queried DEF SkillPlaces
<1>3. CASE LoadsSkills(r) \/ LoadsPath(r)
  BY <1>2, <1>3 DEF LoadsSkills, LoadsPath, SkillPlaces
<1>4. CASE SwitchLoaded(r)
  <2>. DEFINE value == {Switched(request[r].arg, The(request[r].found))}
  <2>1. request[r].at = "skills" /\ GoesOnWith(r, "saveSkills", value)
    BY <1>4 DEF SwitchLoaded, Found, Turn
  <2>. HIDE DEF value
  <2>. QED BY <1>1, <2>1 DEF SkillPlaces
<1>5. CASE SavesSkills(r) \/ CommitsSkills(r) \/ SavesPath(r) \/ CommitsPath(r)
  BY <1>1, <1>5 DEF SavesSkills, CommitsSkills, SavesPath, CommitsPath, GoesOn, Turn,
                    SkillPlaces
<1>6. CASE Discovers(r) \/ ListLoaded(r) \/ ViewLoaded(r)
  <2>1. AtSkills \in SkillPlaces \cup {"ok"}
    BY DEF AtSkills, SkillPlaces
  <2>. QED BY <1>1, <1>6, <2>1
       DEF Discovers, ListLoaded, ViewLoaded, GoesOn, Found, Turn, SkillPlaces
<1>. QED BY <1>3, <1>4, <1>5, <1>6 DEF SkillStep

LEMMA DecisionKeeps ==
    ASSUME ConfigurationInv, NEW r \in Requests, Decides(r)
    PROVE  ConfigurationInv'
<1>1. /\ request[r].at \in {"provider", "again", "reread", "model", "models", "duplicate", "key"}
      /\ Noted(r) /\ UNCHANGED <<models, choice, sessions, chosen>>
  BY DEF Decides, Found, Turn, ConfigurationInv
<1>2. CASE LooksGood(r)
  <2>1. GoesOnWith(r, Next1(r), {}) /\ since' = since
    BY <1>2 DEF Decides, GoesOn
  <2>2. CASE request[r].at = "models"
    <3>1. Asked(r) \in request[r].found
      BY <1>2, <2>2 DEF LooksGood, Found, Turn
    <3>2. since[r] /\ At(request[r].kind, Next1(r))
          /\ Next1(r) \in {"set", "insertSession", "ask"}
          /\ request[r].kind \in Looking
      BY <1>1, <2>2, <3>1, NextPlace DEF Noted
    <3>3. Next1(r) = "insertSession" => request[r].kind = "session"
      BY <3>2 DEF At, Looking, SkillPlaces
    <3>. QED BY <1>1, <2>1, <2>2, <3>2, <3>3, Onward
  <2>3. CASE request[r].at # "models"
    <3>1. /\ Next1(r) \notin {"set", "insertSession", "ask", "default", "error"}
          /\ Next1(r) = "ok" \/ At(request[r].kind, Next1(r))
          /\ Next1(r) \in {"provider", "key", "again", "models"} =>
                request[r].at \in {"provider", "key", "again", "models"}
      BY <1>1, <2>3, NextPlace DEF Noted
    <3>. QED BY <1>1, <2>1, <3>1, Onward DEF Ends
  <2>. QED BY <2>2, <2>3
<1>3. CASE ~ LooksGood(r)
  <2>1. GoesOnWith(r, "error", {}) /\ since' = [since EXCEPT ![r] = FALSE]
    BY <1>3 DEF Decides, GoesOn
  <2>. QED BY <1>1, <2>1, Onward DEF Ends
<1>. QED BY <1>2, <1>3

LEMMA DefaultKeeps ==
    ASSUME ConfigurationInv, NEW r \in Requests, TakesDefault(r)
    PROVE  ConfigurationInv'
<1>1. request[r].at = "default" /\ Noted(r)
      /\ UNCHANGED <<models, choice, sessions, since, chosen>>
  BY DEF TakesDefault, Found, Turn, ConfigurationInv, providerVars
<1>2. CASE request[r].found = {}
  <2>1. GoesOnWith(r, "error", {})
    BY <1>2 DEF TakesDefault, GoesOn
  <2>. QED BY <1>1, <2>1, Onward DEF Ends
<1>3. CASE request[r].found # {}
  <2>. DEFINE pair == CHOOSE pair \in request[r].found : TRUE
  <2>1. pair \in Taken /\ request[r].kind = "standard"
    BY <1>1, <1>3 DEF Noted, At, SkillPlaces
  <2>2. request' = [request EXCEPT ![r] =
          [@ EXCEPT !.arg = pair, !.at = "insertSession", !.found = {}, !.left = 0]]
    BY <1>3 DEF TakesDefault
  <2>. HIDE DEF pair
  <2>3. /\ Fields' /\ \A q \in Requests \ {r} : request'[q] = request[q]
        /\ request'[r].kind = "standard" /\ request'[r].arg = pair
        /\ request'[r].at = "insertSession"
    BY <2>1, <2>2 DEF ConfigurationInv, Fields
  <2>4. ASSUME NEW q \in Requests, q # r PROVE Noted(q)'
    BY <1>1, <2>3, <2>4, OthersNoted DEF ConfigurationInv
  <2>5. Noted(r)'
    BY <1>1, <2>1, <2>3 DEF Noted, At, Asked, Taken, Looking
  <2>. QED BY <1>1, <2>3, <2>4, <2>5 DEF ConfigurationInv, ChosenWasOffered
<1>. QED BY <1>2, <1>3

LEMMA ProviderStepKeeps ==
    ASSUME ConfigurationInv, NEW r \in Requests, ProviderStep(r)
    PROVE  ConfigurationInv'
<1>. USE DEF GoesOn, Turn
<1>1. Noted(r) /\ At(request[r].kind, request[r].at)
  BY DEF ConfigurationInv, Noted
<1>2. CASE Looks(r)
  BY <1>2, Queried DEF Looks, Rows
<1>3. CASE Decides(r) \/ TakesDefault(r)
  BY <1>3, DecisionKeeps, DefaultKeeps
<1>4. CASE Creates(r) \/ UpdatesProvider(r) \/ Forgets(r)
  <2>1. At(request[r].kind, "commit")
    BY <1>1, <1>4 DEF Creates, UpdatesProvider, Forgets, At, SkillPlaces
  <2>2. ASSUME NEW at \in {"commit", "error"}, GoesOnWith(r, at, {}), choice' \subseteq choice,
               UNCHANGED <<models, sessions, since, chosen>>
        PROVE  ConfigurationInv'
    BY <2>1, <2>2, Onward DEF Ends
  <2>. QED BY <1>4, <2>2 DEF Creates, UpdatesProvider, Forgets, providerVars
<1>5. CASE DeletesProvider(r) \/ DeletesModel(r) \/ InsertsModel(r)
  <2>1. At(request[r].kind, "commit") /\ request[r].kind \notin Looking
    BY <1>1, <1>5
    DEF DeletesProvider, DeletesModel, InsertsModel, At, Looking, SkillPlaces
  <2>2. ASSUME NEW STATE rows, Models(rows), GoesOn(r, "commit"),
               UNCHANGED <<choice, sessions, chosen>>
        PROVE  ConfigurationInv'
    BY <2>1, <2>2, TableChanges
  <2>3. CASE DeletesProvider(r)
    BY <2>2, <2>3 DEF DeletesProvider
  <2>4. CASE DeletesModel(r)
    BY <2>2, <2>4 DEF DeletesModel
  <2>5. CASE InsertsModel(r)
    <3>1. ASSUME GoesOnWith(r, "error", {}), UNCHANGED <<models, choice, sessions, since, chosen>>
          PROVE  ConfigurationInv'
      BY <3>1, Onward DEF Ends
    <3>. QED BY <2>2, <2>5, <3>1 DEF InsertsModel
  <2>. QED BY <1>5, <2>3, <2>4, <2>5
<1>6. CASE Chooses(r)
  <2>1. since[r] /\ At(request[r].kind, "commit")
    BY <1>1, <1>6 DEF Chooses, Noted, At, SkillPlaces
  <2>. QED BY <1>6, <2>1, PairTaken DEF Chooses
<1>7. CASE CreatesSession(r)
  <2>1. At(request[r].kind, "commit") /\ request[r].at = "insertSession"
    BY <1>1, <1>7 DEF CreatesSession, At, SkillPlaces
  <2>2. CASE request[r].kind = "session"
    BY <1>1, <1>7, <2>1, <2>2, PairTaken DEF CreatesSession, Noted
  <2>3. CASE request[r].kind # "session"
    <3>1. GoesOnWith(r, "commit", {}) /\ UNCHANGED <<models, choice, since, chosen>>
          /\ sessions' = sessions \cup {Asked(r)} /\ Asked(r) \in Taken
      BY <1>1, <1>7, <2>1, <2>3 DEF CreatesSession, Noted
    <3>2. /\ Fields' /\ \A q \in Requests \ {r} : request'[q] = request[q]
          /\ request'[r].kind = request[r].kind /\ request'[r].at = "commit"
      BY <3>1, Goes DEF ConfigurationInv, Ends
    <3>3. ASSUME NEW q \in Requests, q # r PROVE Noted(q)'
      BY <3>1, <3>2, <3>3, OthersNoted DEF ConfigurationInv
    <3>4. Noted(r)'
      BY <2>1, <3>2 DEF Noted
    <3>5. ChosenWasOffered'
      BY <3>1 DEF ConfigurationInv, ChosenWasOffered, Taken
    <3>. QED BY <3>1, <3>2, <3>3, <3>4, <3>5 DEF ConfigurationInv
  <2>. QED BY <2>2, <2>3
<1>8. CASE Calls(r)
  <2>1. since[r]
    BY <1>1, <1>8 DEF Calls, Noted
  <2>. QED BY <1>8, <2>1, PairTaken DEF Calls
<1>9. CASE Saves(r)
  <2>1. /\ Next1(r) \in {"ok", "reread"}
        /\ Next1(r) = "ok" \/ At(request[r].kind, Next1(r))
    BY <1>1, <1>9, NextPlace DEF Saves
  <2>2. GoesOnWith(r, Next1(r), {}) /\ UNCHANGED <<models, choice, sessions, since, chosen>>
    BY <1>9 DEF Saves, providerVars
  <2>. QED BY <2>1, <2>2, Onward DEF Ends
<1>. QED BY <1>2, <1>3, <1>4, <1>5, <1>6, <1>7, <1>8, <1>9 DEF ProviderStep

LEMMA ConfigurationStart == Init => ConfigurationInv
  BY DEF Init, LineInit, ProviderInit, Idle, ConfigurationInv, Fields, Noted, At, Looking,
         ChosenWasOffered

LEMMA ConfigurationStep == ConfigurationInv /\ [Next]_vars => ConfigurationInv'
<1>. SUFFICES ASSUME ConfigurationInv, [Next]_vars PROVE ConfigurationInv'
  OBVIOUS
<1>1. ASSUME UNCHANGED <<request, models, choice, sessions, since, chosen>>
      PROVE  ConfigurationInv'
  BY <1>1 DEF ConfigurationInv, Fields, Noted, Asked, Taken, ChosenWasOffered
<1>2. ASSUME NEW r \in Requests, Begin(r) PROVE ConfigurationInv'
  BY <1>2, BeginStep
<1>3. ASSUME NEW r \in Requests, Step(r) PROVE ConfigurationInv'
  <2>1. CASE Fetches(r) /\ UNCHANGED providerVars
    <3>1. /\ Fields' /\ UNCHANGED <<models, choice, sessions, since, chosen>>
          /\ \A q \in Requests : /\ request'[q].kind = request[q].kind
                                 /\ request'[q].arg = request[q].arg
                                 /\ request'[q].at = request[q].at
                                 /\ request'[q].found = request[q].found
      BY <2>1 DEF Fetches, providerVars, ConfigurationInv, Fields
    <3>. QED BY <3>1 DEF ConfigurationInv, Noted, Asked, Taken, ChosenWasOffered
  <2>. QED BY <1>3, <2>1, ProviderStepKeeps, SkillStepKeeps DEF Step
<1>4. CASE Restart
  BY <1>1, <1>4 DEF Restart, lineVars, providerVars
<1>5. CASE UNCHANGED vars
  BY <1>1, <1>5 DEF vars, lineVars, providerVars
<1>. QED BY <1>2, <1>3, <1>4, <1>5 DEF Next

\* Whatever requests overlap, and whatever providers and models come and go in
\* between: what a request chooses, uses or makes a session for was a model of
\* its provider since it came, and so once was all that is stored
\* (session_manager.py:1036).
THEOREM ChoicesWereOffered == Spec => []ChosenWasOffered
<1>1. ConfigurationInv => ChosenWasOffered
  BY DEF ConfigurationInv
<1>. QED BY <1>1, ConfigurationStart, ConfigurationStep, PTL DEF Spec

-----------------------------------------------------------------------------
(* The order of the requests in the line.                                  *)

Before(q, r) == \E i, j \in DOMAIN line : i < j /\ line[i] = q /\ line[j] = r

\* A request that has come and is not over has one place in the line.
LineInv ==
    /\ line \in Seq(Requests)
    /\ \A i, j \in DOMAIN line : line[i] = line[j] => i = j
    /\ \A r \in Requests : r \in UnderWay <=> request[r].at # "none"

OthersStay(r) == \A q \in Requests \ {r} : request'[q] = request[q]

\* The turn of r passes, or r joins the line.
Moved(r) ==
    /\ OthersStay(r)
    /\ line # << >> /\ Head(line) = r
    /\ \/ line' = Tail(line) /\ request'[r].at = "none"
       \/ line' = Append(Tail(line), r) /\ request'[r].at # "none"

Joined(r) ==
    /\ OthersStay(r)
    /\ request[r].at = "none"
    /\ \/ line' = line /\ request'[r].at = "none"
       \/ line' = Append(line, r) /\ request'[r].at # "none"

\* The others keep their order, and r is behind them.
Ordered(r) ==
    /\ LineInv'
    /\ \A q, p \in Requests \ {r} : Before(q, p) => Before(q, p)'
    /\ request'[r].at # "none" =>
          \A q \in Requests \ {r} : request[q].at # "none" => Before(q, r)'

LEMMA LineJoined ==
    ASSUME LineInv, NEW r \in Requests, Joined(r)
    PROVE  Ordered(r)
<1>1. CASE line' = line /\ request'[r].at = "none"
  BY <1>1 DEF LineInv, Joined, OthersStay, UnderWay, Ordered, Before
<1>2. CASE line' = Append(line, r) /\ request'[r].at # "none"
  <2>1. /\ line' \in Seq(Requests) /\ Len(line) \in Nat
        /\ DOMAIN line = 1..Len(line) /\ DOMAIN line' = 1..(Len(line) + 1)
        /\ \A i \in DOMAIN line : line'[i] = line[i]
        /\ line'[Len(line) + 1] = r
    BY <1>2, AppendProperties, LenProperties DEF LineInv
  <2>2. \A i \in DOMAIN line : line[i] # r
    BY DEF LineInv, Joined, UnderWay
  <2>3. \A q \in Requests : q \in UnderWay' <=> request'[q].at # "none"
    <3>1. UnderWay' = UnderWay \cup {r}
      BY <2>1 DEF UnderWay
    <3>. QED BY <1>2, <3>1 DEF LineInv, Joined, OthersStay
  <2>4. \A i, j \in DOMAIN line' : line'[i] = line'[j] => i = j
    BY <2>1, <2>2 DEF LineInv
  <2>5. \A q, p \in Requests \ {r} : Before(q, p) => Before(q, p)'
    BY <2>1 DEF Before
  <2>6. ASSUME NEW q \in Requests \ {r}, request[q].at # "none" PROVE Before(q, r)'
    <3>1. PICK i \in DOMAIN line : line[i] = q
      BY <2>6 DEF LineInv, UnderWay
    <3>. QED BY <2>1, <3>1 DEF Before
  <2>. QED BY <2>1, <2>3, <2>4, <2>5, <2>6 DEF LineInv, Ordered
<1>. QED BY <1>1, <1>2 DEF Joined

LEMMA LineMoved ==
    ASSUME LineInv, NEW r \in Requests, Moved(r)
    PROVE  /\ Ordered(r)
           /\ request[r].at # "none"
           /\ \A q \in Requests : ~ Before(q, r)
<1>1. /\ Tail(line) \in Seq(Requests) /\ Len(Tail(line)) = Len(line) - 1
      /\ Len(line) \in Nat \ {0} /\ DOMAIN line = 1..Len(line)
      /\ \A i \in 1..(Len(line) - 1) : Tail(line)[i] = line[i + 1]
      /\ DOMAIN Tail(line) = 1..(Len(line) - 1)
  BY HeadTailProperties, LenProperties, EmptySeq DEF LineInv, Moved
<1>2. line[1] = r
  BY <1>1 DEF Moved
<1>3. \A i \in DOMAIN line : line[i] = r => i = 1
  BY <1>1, <1>2 DEF LineInv
<1>4. request[r].at # "none"
  BY <1>1, <1>2 DEF LineInv, UnderWay
<1>5. \A q \in Requests : ~ Before(q, r)
  BY <1>1, <1>3 DEF Before
<1>6. \A q \in Requests \ {r} :
          q \in UnderWay => \E i \in 1..(Len(line) - 1) : Tail(line)[i] = q
  <2>. SUFFICES ASSUME NEW q \in Requests \ {r}, q \in UnderWay
                PROVE  \E i \in 1..(Len(line) - 1) : Tail(line)[i] = q
    OBVIOUS
  <2>1. PICK j \in DOMAIN line : line[j] = q
    BY DEF UnderWay
  <2>2. j - 1 \in 1..(Len(line) - 1) /\ (j - 1) + 1 = j
    BY <1>1, <1>2, <2>1
  <2>. QED BY <1>1, <2>1, <2>2
<1>7. ASSUME NEW q \in Requests \ {r}, NEW p \in Requests \ {r}, Before(q, p)
      PROVE  \E i, j \in 1..(Len(line) - 1) : i < j /\ Tail(line)[i] = q /\ Tail(line)[j] = p
  <2>1. PICK i \in DOMAIN line, j \in DOMAIN line : i < j /\ line[i] = q /\ line[j] = p
    BY <1>7 DEF Before
  <2>2. /\ i - 1 \in 1..(Len(line) - 1) /\ (i - 1) + 1 = i
        /\ j - 1 \in 1..(Len(line) - 1) /\ (j - 1) + 1 = j /\ i - 1 < j - 1
    BY <1>1, <1>2, <2>1
  <2>. QED BY <1>1, <2>1, <2>2
<1>8. \A i \in 1..(Len(line) - 1) : Tail(line)[i] \in UnderWay /\ Tail(line)[i] # r
  BY <1>1, <1>3 DEF UnderWay
<1>9. \A i, j \in 1..(Len(line) - 1) : Tail(line)[i] = Tail(line)[j] => i = j
  BY <1>1 DEF LineInv
<1>10. CASE line' = Tail(line) /\ request'[r].at = "none"
  <2>1. \A q \in Requests : q \in UnderWay' <=> request'[q].at # "none"
    <3>1. UnderWay' = {Tail(line)[i] : i \in 1..(Len(line) - 1)}
      BY <1>1, <1>10 DEF UnderWay
    <3>2. \A q \in Requests : q \in UnderWay' <=> q \in UnderWay /\ q # r
      BY <1>6, <1>8, <3>1
    <3>. QED BY <1>10, <3>2 DEF LineInv, Moved, OthersStay
  <2>2. \A q, p \in Requests \ {r} : Before(q, p) => Before(q, p)'
    <3>. SUFFICES ASSUME NEW q \in Requests \ {r}, NEW p \in Requests \ {r}, Before(q, p)
                  PROVE  Before(q, p)'
      OBVIOUS
    <3>1. PICK i \in 1..(Len(line) - 1), j \in 1..(Len(line) - 1) :
              i < j /\ Tail(line)[i] = q /\ Tail(line)[j] = p
      BY <1>7
    <3>. QED BY <1>1, <1>10, <3>1 DEF Before
  <2>. QED BY <1>1, <1>4, <1>5, <1>9, <1>10, <2>1, <2>2 DEF LineInv, Ordered
<1>11. CASE line' = Append(Tail(line), r) /\ request'[r].at # "none"
  <2>1. /\ line' \in Seq(Requests) /\ DOMAIN line' = 1..Len(line)
        /\ \A i \in 1..(Len(line) - 1) : line'[i] = Tail(line)[i]
        /\ line'[Len(line)] = r
    BY <1>1, <1>11, AppendProperties, LenProperties
  <2>6. /\ 1..(Len(line) - 1) \subseteq 1..Len(line) /\ Len(line) \in 1..Len(line)
        /\ \A i \in 1..(Len(line) - 1) : i < Len(line)
        /\ \A i \in 1..Len(line) : i = Len(line) \/ i \in 1..(Len(line) - 1)
    <3>1. Len(line) \in Nat \ {0}
      BY <1>1
    <3>. QED BY <3>1
  <2>2. \A q \in Requests : q \in UnderWay' <=> request'[q].at # "none"
    <3>1. /\ r \in UnderWay'
          /\ \A q \in Requests \ {r} : q \in UnderWay' <=>
                 \E i \in 1..(Len(line) - 1) : Tail(line)[i] = q
      BY <1>1, <2>1, <2>6 DEF UnderWay
    <3>2. \A q \in Requests \ {r} : q \in UnderWay' <=> q \in UnderWay
      BY <1>6, <1>8, <3>1
    <3>. QED BY <1>11, <3>1, <3>2 DEF LineInv, Moved, OthersStay
  <2>3. \A q, p \in Requests \ {r} : Before(q, p) => Before(q, p)'
    <3>. SUFFICES ASSUME NEW q \in Requests \ {r}, NEW p \in Requests \ {r}, Before(q, p)
                  PROVE  Before(q, p)'
      OBVIOUS
    <3>1. PICK i \in 1..(Len(line) - 1), j \in 1..(Len(line) - 1) :
              i < j /\ Tail(line)[i] = q /\ Tail(line)[j] = p
      BY <1>7
    <3>2. i \in DOMAIN line' /\ j \in DOMAIN line' /\ line'[i] = q /\ line'[j] = p
      BY <2>1, <2>6, <3>1
    <3>. QED BY <3>1, <3>2 DEF Before
  <2>4. \A i, j \in DOMAIN line' : line'[i] = line'[j] => i = j
    BY <1>1, <1>8, <1>9, <2>1
  <2>5. ASSUME NEW q \in Requests \ {r}, request[q].at # "none" PROVE Before(q, r)'
    <3>1. PICK i \in 1..(Len(line) - 1) : Tail(line)[i] = q
      BY <1>6, <2>5 DEF LineInv
    <3>. QED BY <1>1, <2>1, <2>6, <3>1 DEF Before
  <2>. QED BY <1>4, <1>5, <2>1, <2>2, <2>3, <2>4, <2>5 DEF LineInv, Ordered
<1>. QED BY <1>10, <1>11 DEF Moved

-----------------------------------------------------------------------------
(* Every step is the turn of one request, or one that comes.               *)

AtHead(r) == line # << >> /\ Head(line) = r

LEMMA GoesMoves ==
    ASSUME ConfigurationInv, ConfigurationInv', LineInv, NEW r \in Requests, AtHead(r),
           NEW STATE at, NEW STATE value, GoesOnWith(r, at, value)
    PROVE  Moved(r)
<1>1. request[r].at # "none"
  <2>1. 1 \in DOMAIN line /\ line[1] = r
    BY EmptySeq, LenProperties DEF LineInv, AtHead
  <2>. QED BY <2>1 DEF LineInv, UnderWay
<1>2. OthersStay(r)
  BY Goes DEF ConfigurationInv, OthersStay
<1>3. CASE Ends(at)
  <2>1. line' = Tail(line) /\ request'[r].at = "none"
    BY <1>3, Goes DEF ConfigurationInv, GoesOnWith
  <2>. QED BY <1>2, <2>1 DEF Moved, AtHead
<1>4. CASE ~ Ends(at)
  <2>1. line' = Append(Tail(line), r) /\ request'[r].kind = request[r].kind
    BY <1>4, Goes DEF ConfigurationInv, GoesOnWith
  <2>2. At(request[r].kind, request[r].at) /\ At(request'[r].kind, request'[r].at)
    BY DEF ConfigurationInv, Noted
  <2>3. request'[r].at # "none"
    BY <1>1, <2>1, <2>2 DEF At, SkillPlaces
  <2>. QED BY <1>2, <2>1, <2>3 DEF Moved, AtHead
<1>. QED BY <1>3, <1>4

LEMMA QueryMoves ==
    ASSUME Fields, NEW r \in Requests, NEW at, at # "none", NEW STATE rows,
           Queries(r, at, rows)
    PROVE  /\ Moved(r)
           /\ request[r].at = at /\ request[r].left = 0
           /\ request'[r].at = at /\ request'[r].left = 2 /\ request'[r].found = rows
  BY DEF Queries, Turn, Moved, OthersStay, Fields

LEMMA FetchMoves ==
    ASSUME Fields, LineInv, NEW r \in Requests, Fetches(r)
    PROVE  /\ Moved(r)
           /\ request'[r].at = request[r].at /\ request'[r].found = request[r].found
           /\ request'[r].arg = request[r].arg
           /\ request[r].left = 2 /\ request'[r].left = 1
<1>1. /\ AtHead(r) /\ line' = Append(Tail(line), r) /\ request[r].left = 2
      /\ request' = [request EXCEPT ![r].left = 1]
  BY DEF Fetches, Turn, AtHead
<1>2. request[r].at # "none"
  <2>1. 1 \in DOMAIN line /\ line[1] = r
    BY <1>1, EmptySeq, LenProperties DEF LineInv, AtHead
  <2>. QED BY <2>1 DEF LineInv, UnderWay
<1>. QED BY <1>1, <1>2 DEF Fields, Moved, OthersStay, AtHead

\* A step of the providers never leads to a place of the skills, or from one.
LEMMA ProviderMoves ==
    ASSUME ConfigurationInv, ConfigurationInv', LineInv, NEW r \in Requests, ProviderStep(r)
    PROVE  /\ Moved(r)
           /\ request[r].at \notin SkillPlaces /\ request'[r].at \notin SkillPlaces
<1>. DEFINE Tables == {"insert", "update", "delete", "provider", "again", "reread", "models",
                       "duplicate", "model", "key", "default", "insertModel", "deleteModel",
                       "set", "unset", "insertSession", "ask"}
<1>1. /\ AtHead(r)
      /\ \/ request[r].at \in Tables
         \/ request[r].at = "commit" /\ request[r].kind \in Kinds
  <2>1. CASE Looks(r)
    <3>1. PICK at \in {"provider", "again", "reread", "models", "duplicate", "model", "key",
                       "default"} : Queries(r, at, Rows(r, at))
      BY <2>1 DEF Looks
    <3>. QED BY <3>1 DEF Queries, Turn, AtHead
  <2>2. CASE Decides(r) \/ TakesDefault(r)
    BY <2>2 DEF Decides, TakesDefault, Found, Turn, AtHead
  <2>3. CASE ~ (Looks(r) \/ Decides(r) \/ TakesDefault(r))
    BY <2>3 DEF ProviderStep, Creates, UpdatesProvider, DeletesProvider, InsertsModel,
                DeletesModel, Chooses, Forgets, CreatesSession, Calls, Saves, Turn, AtHead
  <2>. QED BY <2>1, <2>2, <2>3
<1>2. At(request[r].kind, request[r].at) /\ At(request'[r].kind, request'[r].at)
  BY DEF ConfigurationInv, Noted
<1>3. request[r].at \notin SkillPlaces
  BY <1>1 DEF SkillPlaces
<1>4. request[r].kind \notin {"switch", "view", "list", "setPath", "none", "over"}
  <2>1. CASE request[r].at \in Tables
    BY <1>2, <2>1 DEF At, SkillPlaces
  <2>2. CASE request[r].kind \in Kinds
    BY <2>2 DEF Kinds, Steps
  <2>. QED BY <1>1, <2>1, <2>2
<1>5. /\ Moved(r)
      /\ request'[r].kind \in {request[r].kind, "over"}
  <2>1. ASSUME NEW STATE at, NEW STATE value, GoesOnWith(r, at, value)
        PROVE  Moved(r) /\ request'[r].kind \in {request[r].kind, "over"}
    BY <1>1, <2>1, Goes, GoesMoves DEF ConfigurationInv
  <2>2. CASE Looks(r)
    <3>1. PICK at \in {"provider", "again", "reread", "models", "duplicate", "model", "key",
                       "default"} : Queries(r, at, Rows(r, at))
      BY <2>2 DEF Looks
    <3>. DEFINE rows == Rows(r, at)
    <3>2. Queries(r, at, rows)
      BY <3>1
    <3>. HIDE DEF rows
    <3>3. at # "none"
      BY <3>1
    <3>4. Moved(r)
      BY <3>2, <3>3, QueryMoves DEF ConfigurationInv
    <3>. QED BY <3>2, <3>4 DEF Queries, ConfigurationInv, Fields
  <2>3. CASE TakesDefault(r)
    <3>1. CASE request[r].found = {}
      BY <2>1, <2>3, <3>1 DEF TakesDefault, GoesOn
    <3>2. CASE request[r].found # {}
      <4>. DEFINE pair == CHOOSE pair \in request[r].found : TRUE
      <4>1. /\ request' = [request EXCEPT ![r] =
                  [@ EXCEPT !.arg = pair, !.at = "insertSession", !.found = {}, !.left = 0]]
            /\ line' = Append(Tail(line), r)
        BY <2>3, <3>2 DEF TakesDefault
      <4>. HIDE DEF pair
      <4>2. /\ OthersStay(r) /\ request'[r].kind = request[r].kind
            /\ request'[r].at = "insertSession"
        BY <4>1 DEF OthersStay, ConfigurationInv, Fields
      <4>. QED BY <1>1, <4>1, <4>2 DEF Moved, AtHead
    <3>. QED BY <3>1, <3>2
  <2>4. CASE Decides(r)
    BY <2>1, <2>4 DEF Decides, GoesOn
  <2>5. CASE Creates(r)
    BY <2>1, <2>5 DEF Creates, GoesOn
  <2>6. CASE InsertsModel(r)
    BY <2>1, <2>6 DEF InsertsModel, GoesOn
  <2>7. CASE \/ UpdatesProvider(r) \/ DeletesProvider(r) \/ DeletesModel(r) \/ Chooses(r)
             \/ Forgets(r) \/ CreatesSession(r) \/ Calls(r) \/ Saves(r)
    BY <2>1, <2>7 DEF UpdatesProvider, DeletesProvider, DeletesModel, Chooses, Forgets,
                      CreatesSession, Calls, Saves, GoesOn
  <2>. QED BY <2>2, <2>3, <2>4, <2>5, <2>6, <2>7 DEF ProviderStep
<1>6. request'[r].at \notin SkillPlaces
  BY <1>2, <1>4, <1>5 DEF At, SkillPlaces
<1>. QED BY <1>3, <1>5, <1>6

\* A request that comes.
LEMMA ArrivesJoins ==
    ASSUME ConfigurationInv, ConfigurationInv', LineInv, NEW r \in Requests, NEW kind,
           kind # "over", kind # "none", NEW arg, NEW STATE at, NEW STATE value,
           ArrivesWith(r, kind, arg, at, value)
    PROVE  /\ Joined(r)
           /\ Ends(at) => request'[r].at = "none"
           /\ ~ Ends(at) => /\ request'[r].at = at /\ request'[r].arg = arg
                            /\ request'[r].found = value /\ request'[r].left = 0
<1>1. request[r].at = "none" /\ At(request'[r].kind, request'[r].at)
  BY DEF ConfigurationInv, Noted, At, ArrivesWith
<1>2. CASE Ends(at)
  BY <1>1, <1>2 DEF ArrivesWith, Over, Idle, Joined, OthersStay, ConfigurationInv, Fields
<1>3. CASE ~ Ends(at)
  <2>1. /\ request'[r].kind = kind /\ request'[r].at = at /\ request'[r].arg = arg
        /\ request'[r].found = value /\ request'[r].left = 0 /\ OthersStay(r)
        /\ line' = Append(line, r)
    BY <1>3 DEF ArrivesWith, OthersStay, ConfigurationInv, Fields
  <2>2. request'[r].at # "none"
    BY <1>1, <2>1 DEF At, SkillPlaces
  <2>. QED BY <1>1, <1>3, <2>1, <2>2 DEF Joined
<1>. QED BY <1>2, <1>3

LEMMA SkillMoves ==
    ASSUME ConfigurationInv, ConfigurationInv', LineInv, NEW r \in Requests, SkillStep(r)
    PROVE  Moved(r)
<1>1. ASSUME NEW STATE at, NEW STATE value, GoesOnWith(r, at, value), AtHead(r)
      PROVE  Moved(r)
  BY <1>1, GoesMoves
<1>2. CASE LoadsSkills(r)
  BY <1>2, QueryMoves DEF LoadsSkills, ConfigurationInv
<1>3. CASE LoadsPath(r)
  BY <1>3, QueryMoves DEF LoadsPath, ConfigurationInv
<1>4. CASE SwitchLoaded(r)
  <2>. DEFINE value == {Switched(request[r].arg, The(request[r].found))}
  <2>1. AtHead(r) /\ GoesOnWith(r, "saveSkills", value)
    BY <1>4 DEF SwitchLoaded, Found, Turn, AtHead
  <2>. HIDE DEF value
  <2>. QED BY <1>1, <2>1
<1>5. CASE SavesSkills(r) \/ CommitsSkills(r) \/ SavesPath(r) \/ CommitsPath(r)
  BY <1>1, <1>5 DEF SavesSkills, CommitsSkills, SavesPath, CommitsPath, GoesOn, Turn, AtHead
<1>6. CASE Discovers(r) \/ ListLoaded(r) \/ ViewLoaded(r)
  BY <1>1, <1>6 DEF Discovers, ListLoaded, ViewLoaded, GoesOn, Found, Turn, AtHead
<1>. QED BY <1>2, <1>3, <1>4, <1>5, <1>6 DEF SkillStep

-----------------------------------------------------------------------------
(* The directory that is set.                                              *)

\* r reads the directory that is set, or is about to.
Fresh(r) ==
    \/ request[r].at = "commitPath"
    \/ request[r].at = "path" /\ (request[r].left = 0 \/ request[r].found = path)

\* r will read another one.
Stale(r) ==
    request[r].at = "path" /\ request[r].left # 0 /\ ~ (request[r].found \subseteq path)

\* r comes after q.
Later(r, q) ==
    \/ request[r].at = "commitPath"
    \/ request[r].left = 0
    \/ request[r].left > request[q].left
    \/ request[r].left = request[q].left /\ Before(q, r)

Corrected(q) == \E r \in Requests : Fresh(r) /\ Later(r, q)

Directory(r) ==
    /\ request[r].at = "path" => request[r].left \in 0..2
    /\ request[r].at = "path" /\ path = {} => request[r].found = {}
    /\ request[r].at = "setPath" => request[r].arg # {}
    /\ Stale(r) => Corrected(r)

\* Whoever reads a directory that is no longer set is followed by one who reads the
\* one that is.
LoaderInv ==
    /\ path = {} => loader = {}
    /\ loader \subseteq path \/ \E r \in Requests : Fresh(r)
    /\ \A r \in Requests : Directory(r)

\* A step of r that has nothing to do with the directory, or begins to.
LEMMA LoaderIdle ==
    ASSUME LineInv, LoaderInv, NEW r \in Requests, OthersStay(r), Ordered(r),
           path' = path, loader' = loader,
           request[r].at # "path", request[r].at = "commitPath" => request'[r].at = "commitPath",
           request'[r].at = "path" => request'[r].left = 0 /\ request'[r].found = {},
           request'[r].at = "setPath" => request'[r].arg # {}
    PROVE  LoaderInv'
<1>1. \A q \in Requests : Fresh(q) => Fresh(q)'
  BY DEF OthersStay, Fresh
<1>2. ASSUME NEW q \in Requests PROVE Directory(q)'
  <2>1. CASE q = r
    BY <2>1 DEF Directory, Stale
  <2>2. CASE q # r
    <3>1. request'[q] = request[q] /\ Directory(q)
      BY <2>2 DEF OthersStay, LoaderInv
    <3>2. ASSUME Stale(q) PROVE Corrected(q)'
      <4>1. PICK p \in Requests : Fresh(p) /\ Later(p, q)
        BY <3>1, <3>2 DEF Directory, Corrected
      <4>2. CASE p = r
        BY <1>1, <4>1, <4>2 DEF Corrected, Later, Fresh
      <4>3. CASE p # r
        <5>1. Before(q, p) => Before(q, p)'
          BY <2>2, <4>3 DEF Ordered
        <5>. QED BY <1>1, <3>1, <4>1, <4>3, <5>1 DEF Corrected, Later, OthersStay
      <4>. QED BY <4>2, <4>3
    <3>. QED BY <3>1, <3>2 DEF Directory, Stale
  <2>. QED BY <2>1, <2>2
<1>. QED BY <1>1, <1>2 DEF LoaderInv

\* After a step that makes r fresh, and later than whoever is stale, everybody is corrected.
LEMMA MakesFresh ==
    ASSUME LoaderInv, NEW r \in Requests, OthersStay(r), Fresh(r)', Directory(r)',
           path' = {} => path = {}, loader' = loader \/ loader' = {},
           \A q \in Requests \ {r} : Stale(q)' => Later(r, q)'
    PROVE  LoaderInv'
<1>1. ASSUME NEW q \in Requests, q # r PROVE Directory(q)'
  BY <1>1 DEF LoaderInv, Directory, OthersStay, Corrected
<1>. QED BY <1>1 DEF LoaderInv

\* The commit of the directory and each statement of its query.
LEMMA SetKeeps ==
    ASSUME LoaderInv, NEW r \in Requests, OthersStay(r),
           request[r].at = "setPath", request'[r].at = "commitPath",
           path' = request[r].arg, loader' = loader
    PROVE  LoaderInv'
<1>1. Fresh(r)' /\ path' # {} /\ \A q \in Requests : Later(r, q)'
  BY DEF LoaderInv, Directory, Fresh, Later
<1>2. Directory(r)'
  BY DEF Directory, Stale
<1>. QED BY <1>1, <1>2, MakesFresh

LEMMA ForgetKeeps ==
    ASSUME LoaderInv, NEW r \in Requests, OthersStay(r),
           request[r].at = "commitPath", request'[r].at = "path",
           request'[r].left = 0, request'[r].found = {}, path' = path, loader' = {}
    PROVE  LoaderInv'
<1>1. Fresh(r)' /\ Directory(r)' /\ \A q \in Requests : Later(r, q)'
  BY DEF Fresh, Later, Directory, Stale
<1>. QED BY <1>1, MakesFresh

LEMMA LoadKeeps ==
    ASSUME LineInv, LoaderInv, NEW r \in Requests, OthersStay(r), Ordered(r),
           request[r].at = "path", request'[r].at = "path",
           request'[r].left = 2, request'[r].found = path, path' = path, loader' = loader
    PROVE  LoaderInv'
<1>1. Fresh(r)' /\ Directory(r)'
  BY DEF Fresh, Directory, Stale
<1>2. ASSUME NEW q \in Requests, q # r, Stale(q)' PROVE Later(r, q)'
  <2>1. request'[q] = request[q] /\ request[q].at = "path" /\ request[q].left \in {1, 2}
    BY <1>2 DEF OthersStay, Stale, LoaderInv, Directory
  <2>2. Before(q, r)'
    BY <1>2, <2>1 DEF Ordered
  <2>. QED BY <2>1, <2>2 DEF Later
<1>. QED BY <1>1, <1>2, MakesFresh

\* Before the rows of r arrive nobody that came earlier waits for rows.
LEMMA FetchKeeps ==
    ASSUME LineInv, LoaderInv, NEW r \in Requests, OthersStay(r), Ordered(r),
           \A q \in Requests : ~ Before(q, r),
           request[r].at = "path", request'[r].at = "path",
           request[r].left = 2, request'[r].left = 1, request'[r].found = request[r].found,
           path' = path, loader' = loader
    PROVE  LoaderInv'
<1>1. \A q \in Requests : Fresh(q) => Fresh(q)'
  BY DEF OthersStay, Fresh
<1>2. \A q \in Requests : Stale(q)' => Stale(q)
  BY DEF OthersStay, Stale
<1>3. ASSUME NEW q \in Requests, Stale(q) PROVE Corrected(q)'
  <2>1. PICK p \in Requests : Fresh(p) /\ Later(p, q)
    BY <1>3 DEF LoaderInv, Directory, Corrected
  <2>2. request[q].at = "path" /\ request[q].left \in {1, 2}
    BY <1>3 DEF Stale, LoaderInv, Directory
  <2>3. CASE p = r
    <3>1. q # r /\ request[q].left = 1
      <4>1. ~ Stale(r)
        BY <2>1, <2>3 DEF Fresh, Stale
      <4>. QED BY <1>3, <2>1, <2>2, <2>3, <4>1 DEF Later
    <3>2. Before(q, r)'
      BY <2>2, <3>1 DEF Ordered
    <3>. QED BY <1>1, <2>1, <2>3, <3>1, <3>2 DEF Corrected, Later, OthersStay
  <2>4. CASE p # r /\ q = r
    <3>1. /\ request'[p] = request[p]
          /\ request[p].at = "commitPath" \/ (request[p].at = "path" /\ request[p].left \in 0..2)
      BY <2>1, <2>4 DEF OthersStay, Fresh, LoaderInv, Directory
    <3>2. Later(p, q)'
      BY <2>1, <2>4, <3>1 DEF Later
    <3>. QED BY <1>1, <2>1, <3>2 DEF Corrected
  <2>5. CASE p # r /\ q # r
    <3>1. Before(q, p) => Before(q, p)'
      BY <2>5 DEF Ordered
    <3>. QED BY <1>1, <2>1, <2>5, <3>1 DEF Corrected, Later, OthersStay
  <2>. QED BY <2>3, <2>4, <2>5
<1>4. \A q \in Requests : Directory(q)'
  BY <1>2, <1>3 DEF LoaderInv, Directory, OthersStay
<1>. QED BY <1>1, <1>4 DEF LoaderInv

\* What r found is read, and r leaves: if it was another directory somebody follows.
LEMMA DiscoverKeeps ==
    ASSUME LineInv, LoaderInv, NEW r \in Requests, OthersStay(r), Ordered(r),
           \A q \in Requests : ~ Before(q, r),
           request[r].at = "path", request'[r].at \in {"none", "skills"}, request[r].left = 1,
           path' = path,
           loader' = IF request[r].found = {} THEN loader ELSE request[r].found
    PROVE  LoaderInv'
<1>1. \A q \in Requests \ {r} : Fresh(q) => Fresh(q)'
  BY DEF OthersStay, Fresh
<1>2. ASSUME NEW q \in Requests, Stale(q)
      PROVE  \E p \in Requests \ {r} : Fresh(p) /\ Later(p, q)
  <2>1. PICK p \in Requests : Fresh(p) /\ Later(p, q)
    BY <1>2 DEF LoaderInv, Directory, Corrected
  <2>2. request[q].at = "path" /\ request[q].left \in {1, 2}
    BY <1>2 DEF Stale, LoaderInv, Directory
  <2>3. p # r
    BY <2>1, <2>2 DEF Later
  <2>. QED BY <2>1, <2>3
<1>3. ASSUME NEW q \in Requests PROVE Directory(q)'
  <2>1. CASE q = r
    BY <2>1 DEF Directory, Stale
  <2>2. CASE q # r
    <3>1. request'[q] = request[q] /\ Directory(q)
      BY <2>2 DEF OthersStay, LoaderInv
    <3>2. ASSUME Stale(q) PROVE Corrected(q)'
      <4>1. PICK p \in Requests \ {r} : Fresh(p) /\ Later(p, q)
        BY <1>2, <3>2
      <4>2. Before(q, p) => Before(q, p)'
        BY <2>2, <4>1 DEF Ordered
      <4>. QED BY <1>1, <3>1, <4>1, <4>2 DEF Corrected, Later, OthersStay
    <3>. QED BY <3>1, <3>2 DEF Directory, Stale
  <2>. QED BY <2>1, <2>2
<1>4. loader' \subseteq path \/ \E q \in Requests : Fresh(q)'
  <2>1. CASE request[r].found = {}
    <3>1. Fresh(r) => loader = {}
      BY <2>1 DEF Fresh, LoaderInv
    <3>. QED BY <1>1, <2>1, <3>1 DEF LoaderInv
  <2>2. CASE request[r].found # {} /\ ~ (request[r].found \subseteq path)
    <3>1. Stale(r)
      BY <2>2 DEF Stale
    <3>. QED BY <1>1, <1>2, <3>1
  <2>. QED BY <2>1, <2>2
<1>5. path' = {} => loader' = {}
  BY DEF LoaderInv, Directory
<1>. QED BY <1>3, <1>4, <1>5 DEF LoaderInv

LEMMA LoaderStep ==
    ASSUME ConfigurationInv, ConfigurationInv', LineInv, LoaderInv, NEW r \in Requests, Step(r)
    PROVE  LoaderInv'
<1>1. /\ Moved(r) /\ OthersStay(r) /\ Ordered(r) /\ request[r].at # "none"
      /\ \A q \in Requests : ~ Before(q, r)
  <2>1. Moved(r)
    BY ProviderMoves, SkillMoves, FetchMoves DEF Step, ConfigurationInv
  <2>. QED BY <2>1, LineMoved DEF Moved
<1>2. ASSUME NEW STATE at, NEW STATE value, GoesOnWith(r, at, value)
      PROVE  IF Ends(at) THEN request'[r].at = "none"
             ELSE /\ request'[r].at = at /\ request'[r].found = value
                  /\ request'[r].left = 0
  BY <1>2, Goes DEF ConfigurationInv, GoesOnWith, Fields
<1>3. CASE ProviderStep(r) /\ UNCHANGED skillVars
  BY <1>1, <1>3, ProviderMoves, LoaderIdle DEF skillVars, SkillPlaces
<1>4. CASE Fetches(r) /\ UNCHANGED skillVars
  <2>1. /\ request'[r].at = request[r].at /\ request'[r].found = request[r].found
        /\ request'[r].arg = request[r].arg
        /\ request[r].left = 2 /\ request'[r].left = 1
    BY <1>4, FetchMoves DEF ConfigurationInv
  <2>2. CASE request[r].at = "path"
    BY <1>1, <1>4, <2>1, <2>2, FetchKeeps DEF skillVars
  <2>3. CASE request[r].at # "path"
    <3>1. request'[r].at = "setPath" => request'[r].arg # {}
      BY <2>1 DEF LoaderInv, Directory
    <3>. QED BY <1>1, <1>4, <2>1, <2>3, <3>1, LoaderIdle DEF skillVars
  <2>. QED BY <2>2, <2>3
<1>5. CASE LoadsSkills(r)
  <2>1. request[r].at = "skills" /\ request'[r].at = "skills" /\ UNCHANGED <<path, loader>>
    BY <1>5, QueryMoves DEF LoadsSkills, ConfigurationInv, skillVars
  <2>. QED BY <1>1, <2>1, LoaderIdle
<1>6. CASE SwitchLoaded(r)
  <2>. DEFINE value == {Switched(request[r].arg, The(request[r].found))}
  <2>1. /\ request[r].at = "skills" /\ GoesOnWith(r, "saveSkills", value)
        /\ UNCHANGED <<path, loader>>
    BY <1>6 DEF SwitchLoaded, Found, Turn
  <2>. HIDE DEF value
  <2>2. request'[r].at = "saveSkills"
    BY <1>2, <2>1 DEF Ends
  <2>. QED BY <1>1, <2>1, <2>2, LoaderIdle
<1>7. CASE SavesSkills(r) \/ CommitsSkills(r) \/ ListLoaded(r) \/ ViewLoaded(r)
  <2>1. /\ request[r].at \in {"saveSkills", "commitSkills", "skills"}
        /\ \E at \in {"commitSkills", "ok"} : GoesOnWith(r, at, {})
        /\ UNCHANGED <<path, loader>>
    BY <1>7 DEF SavesSkills, CommitsSkills, ListLoaded, ViewLoaded, Found, Turn, GoesOn,
                skillVars
  <2>2. request'[r].at \in {"commitSkills", "none"}
    BY <1>2, <2>1 DEF Ends
  <2>. QED BY <1>1, <2>1, <2>2, LoaderIdle
<1>8. CASE SavesPath(r)
  <2>1. request'[r].at = "commitPath"
    BY <1>2, <1>8 DEF SavesPath, GoesOn, Ends
  <2>. QED BY <1>1, <1>8, <2>1, SetKeeps DEF SavesPath, Turn
<1>9. CASE CommitsPath(r)
  <2>1. request'[r].at = "path" /\ request'[r].left = 0 /\ request'[r].found = {}
    BY <1>2, <1>9 DEF CommitsPath, GoesOn, Ends
  <2>. QED BY <1>1, <1>9, <2>1, ForgetKeeps DEF CommitsPath, Turn
<1>10. CASE LoadsPath(r)
  <2>1. /\ request[r].at = "path" /\ request'[r].at = "path" /\ request'[r].left = 2
        /\ request'[r].found = path /\ UNCHANGED <<path, loader>>
    BY <1>10, QueryMoves DEF LoadsPath, ConfigurationInv, skillVars
  <2>. QED BY <1>1, <2>1, LoadKeeps
<1>11. CASE Discovers(r)
  <2>1. /\ request[r].at = "path" /\ request[r].left = 1 /\ path' = path
        /\ loader' = IF request[r].found = {} THEN loader ELSE request[r].found
        /\ \E at \in {"skills", "ok"} : GoesOnWith(r, at, {})
    BY <1>11 DEF Discovers, Found, Turn, GoesOn, AtSkills
  <2>2. request'[r].at \in {"none", "skills"}
    BY <1>2, <2>1 DEF Ends
  <2>. QED BY <1>1, <2>1, <2>2, DiscoverKeeps
<1>. QED BY <1>3, <1>4, <1>5, <1>6, <1>7, <1>8, <1>9, <1>10, <1>11 DEF Step, SkillStep

LEMMA LoaderBegin ==
    ASSUME ConfigurationInv, ConfigurationInv', LineInv, LoaderInv, NEW r \in Requests, Begin(r)
    PROVE  LoaderInv' /\ Joined(r)
<1>1. ASSUME NEW kind, kind \notin {"over", "none"}, NEW arg, NEW STATE at, NEW STATE value,
             ArrivesWith(r, kind, arg, at, value), UNCHANGED <<path, loader>>,
             at \in {"path", "commitPath"} => at = "path" /\ value = {},
             at = "setPath" => arg # {}
      PROVE  LoaderInv' /\ Joined(r)
  <2>1. /\ Joined(r)
        /\ Ends(at) => request'[r].at = "none"
        /\ ~ Ends(at) => /\ request'[r].at = at /\ request'[r].arg = arg
                         /\ request'[r].found = value /\ request'[r].left = 0
    BY <1>1, ArrivesJoins
  <2>2. Ordered(r) /\ OthersStay(r) /\ request[r].at = "none"
    BY <2>1, LineJoined DEF Joined
  <2>. QED BY <1>1, <2>1, <2>2, LoaderIdle
<1>2. ASSUME NEW kind \in Kinds, NEW pair, Begins(r, kind, pair), UNCHANGED skillVars
      PROVE  LoaderInv' /\ Joined(r)
  <2>. DEFINE at == Steps[kind][1]
  <2>1. at \notin {"path", "commitPath", "setPath"} /\ kind \notin {"over", "none"}
    BY DEF Kinds, Steps
  <2>2. ArrivesWith(r, kind, pair, at, {}) /\ UNCHANGED <<path, loader>>
    BY <1>2 DEF Begins, Arrives, skillVars
  <2>. HIDE DEF at
  <2>. QED BY <1>1, <2>1, <2>2
<1>3. ASSUME NEW skill \in Skills, NEW on \in BOOLEAN, SwitchBegins(r, <<skill, on>>)
      PROVE  LoaderInv' /\ Joined(r)
  <2>1. CASE cache = {}
    <3>1. ArrivesWith(r, "switch", <<skill, on>>, "skills", {}) /\ UNCHANGED <<path, loader>>
      BY <1>3, <2>1 DEF SwitchBegins, Arrives
    <3>. QED BY <1>1, <3>1
  <2>2. CASE cache # {}
    <3>. DEFINE value == {Switched(<<skill, on>>, The(cache))}
    <3>1. /\ ArrivesWith(r, "switch", <<skill, on>>, "saveSkills", value)
          /\ UNCHANGED <<path, loader>>
      BY <1>3, <2>2 DEF SwitchBegins
    <3>. HIDE DEF value
    <3>. QED BY <1>1, <3>1
  <2>. QED BY <2>1, <2>2
<1>4. ASSUME NEW skill \in Skills, ViewBegins(r, skill) PROVE LoaderInv' /\ Joined(r)
  <2>1. ArrivesWith(r, "view", skill, AtSkills, {}) /\ UNCHANGED <<path, loader>>
    BY <1>4 DEF ViewBegins, Arrives
  <2>. QED BY <1>1, <2>1 DEF AtSkills
<1>5. ASSUME NEW directory \in Paths, PathBegins(r, directory) PROVE LoaderInv' /\ Joined(r)
  BY <1>1, <1>5 DEF PathBegins, Arrives, skillVars
<1>6. CASE ListBegins(r)
  BY <1>1, <1>6 DEF ListBegins, Arrives, skillVars
<1>. QED BY <1>2, <1>3, <1>4, <1>5, <1>6 DEF Begin, SkillBegins

\* The line and the loader, in any step.
LEMMA LoaderNext ==
    ASSUME ConfigurationInv, ConfigurationInv', LineInv, LoaderInv, [Next]_vars
    PROVE  LineInv' /\ LoaderInv'
<1>1. ASSUME NEW r \in Requests, Begin(r) PROVE LineInv' /\ LoaderInv'
  BY <1>1, LoaderBegin, LineJoined DEF Ordered
<1>2. ASSUME NEW r \in Requests, Step(r) PROVE LineInv' /\ LoaderInv'
  <2>1. Moved(r)
    BY <1>2, ProviderMoves, SkillMoves, FetchMoves DEF Step, ConfigurationInv
  <2>. QED BY <1>2, <2>1, LineMoved, LoaderStep DEF Ordered
<1>3. CASE Restart
  <2>1. /\ \A r \in Requests : request[r].at = "none"
        /\ loader' = {} /\ path' = path /\ request' = request /\ line' = line
    BY <1>3 DEF Restart, SkillRestart, lineVars, LineInv, UnderWay
  <2>. QED BY <2>1 DEF LineInv, UnderWay, LoaderInv, Directory, Stale
<1>4. CASE UNCHANGED vars
  <2>1. UNCHANGED <<request, line, path, loader>>
    BY <1>4 DEF vars, lineVars, skillVars
  <2>. QED BY <2>1 DEF LineInv, UnderWay, LoaderInv, Directory, Stale, Fresh, Corrected, Later, Before
<1>. QED BY <1>1, <1>2, <1>3, <1>4 DEF Next

LEMMA LoaderStart == Init => LineInv /\ LoaderInv
  BY EmptySeq DEF Init, LineInit, SkillInit, Idle, LineInv, UnderWay, LoaderInv, Directory, Stale

\* However requests that set the directory and requests that read it overlap: once
\* none is under way the loader has read the directory that is set, or nothing
\* (session_manager.py:993).
THEOREM LoaderReadsWhatIsSet == Spec => []LoaderAgrees
<1>. DEFINE Inv == ConfigurationInv /\ LineInv /\ LoaderInv
<1>1. Init => Inv
  BY ConfigurationStart, LoaderStart
<1>2. Inv /\ [Next]_vars => Inv'
  BY ConfigurationStep, LoaderNext
<1>3. Inv => LoaderAgrees
  BY DEF LineInv, LoaderInv, Fresh, LoaderAgrees
<1>. QED BY <1>1, <1>2, <1>3, PTL DEF Spec

-----------------------------------------------------------------------------
(* The switches.                                                           *)

\* A list that is handed in to be stored is the last one, or one that was is behind it.
Overtaken(r) ==
    \E q \in Requests : /\ request[q].at = "saveSkills" /\ request[q].found = {wanted}
                        /\ q = r \/ Before(r, q)

\* Whoever loads the list is alone, and nothing has changed since.
Alone(r) ==
    /\ cache = {}
    /\ request[r].left # 0 => request[r].found = {wanted}
    /\ \A q \in Requests : request[q].at = "skills" => q = r

Listed(r) ==
    /\ request[r].at = "saveSkills" => cache # {} /\ request[r].left = 0 /\ Overtaken(r)
    /\ request[r].at = "skills" => Alone(r)

NobodySaves == \A r \in Requests : request[r].at # "saveSkills"

\* Unless two have loaded the list at once.
SwitchInv ==
    /\ raced \in BOOLEAN
    /\ ~ raced =>
         /\ cache \subseteq {wanted}
         /\ cache = {} \/ NobodySaves => stored = wanted
         /\ \A r \in Requests : Listed(r)

\* A step of r that leaves the lists alone.
LEMMA SwitchIdle ==
    ASSUME LineInv, SwitchInv, NEW r \in Requests, OthersStay(r), Ordered(r),
           UNCHANGED <<stored, cache, wanted>>, raced' \in BOOLEAN, raced => raced',
           request[r].at # "saveSkills", request'[r].at # "saveSkills",
           request'[r].at = "skills" /\ ~ raced' => Alone(r)'
    PROVE  SwitchInv'
<1>. SUFFICES ASSUME ~ raced' PROVE SwitchInv'
  BY DEF SwitchInv
<1>1. /\ cache \subseteq {wanted} /\ (cache = {} \/ NobodySaves => stored = wanted)
      /\ \A q \in Requests : Listed(q)
  BY DEF SwitchInv
<1>2. cache' \subseteq {wanted'} /\ (cache' = {} \/ NobodySaves' => stored' = wanted')
  BY <1>1 DEF NobodySaves, OthersStay
<1>3. ASSUME NEW q \in Requests PROVE Listed(q)'
  <2>1. CASE q = r
    BY <2>1 DEF Listed
  <2>2. CASE q # r
    <3>1. request'[q] = request[q] /\ Listed(q)
      BY <1>1, <2>2 DEF OthersStay
    <3>2. ASSUME request[q].at = "saveSkills" PROVE Overtaken(q)'
      <4>1. PICK p \in Requests : /\ request[p].at = "saveSkills" /\ request[p].found = {wanted}
                                  /\ p = q \/ Before(q, p)
        BY <3>1, <3>2 DEF Listed, Overtaken
      <4>2. request'[p] = request[p] /\ (Before(q, p) => Before(q, p)')
        BY <2>2, <4>1 DEF OthersStay, Ordered
      <4>. QED BY <4>1, <4>2 DEF Overtaken
    <3>3. ASSUME request[q].at = "skills" PROVE Alone(q)'
      <4>1. Alone(q) /\ request'[r].at # "skills"
        BY <2>2, <3>1, <3>3 DEF Listed, Alone
      <4>. QED BY <3>1, <4>1 DEF Alone, OthersStay
    <3>. QED BY <3>1, <3>2, <3>3 DEF Listed
  <2>. QED BY <2>1, <2>2
<1>. QED BY <1>2, <1>3 DEF SwitchInv

\* The first one to load the list.
LEMMA LoadBegins ==
    ASSUME LineInv, SwitchInv, NEW r \in Requests, OthersStay(r), Ordered(r), Races("skills"),
           UNCHANGED <<stored, cache, wanted>>, cache = {},
           request[r].at \notin {"saveSkills", "skills"}, request'[r].at = "skills",
           request'[r].left = 0
    PROVE  SwitchInv'
<1>1. raced' \in BOOLEAN /\ (raced => raced')
  BY DEF SwitchInv, Races
<1>2. ASSUME ~ raced' PROVE Alone(r)'
  <2>1. Loading = {}
    BY <1>2 DEF Races
  <2>2. \A q \in Requests : request[q].at = "skills" => q \in UnderWay
    BY DEF LineInv
  <2>. QED BY <2>1, <2>2 DEF Loading, Alone, OthersStay
<1>. QED BY <1>1, <1>2, SwitchIdle

\* r has loaded the list and keeps it, as it is or switched.
LEMMA LoadEnds ==
    ASSUME LineInv, SwitchInv, NEW r \in Requests, OthersStay(r),
           request[r].at = "skills", request[r].left # 0, raced' = raced, stored' = stored,
           \/ /\ cache' = request[r].found /\ wanted' = wanted
              /\ request'[r].at \notin {"skills", "saveSkills"}
           \/ /\ request'[r].at = "saveSkills" /\ request'[r].left = 0
              /\ request[r].found = {wanted} => cache' = {wanted'}
              /\ request[r].found = {wanted} => request'[r].found = {wanted'}
    PROVE  SwitchInv'
<1>. SUFFICES ASSUME ~ raced PROVE SwitchInv'
  BY DEF SwitchInv
<1>1. Alone(r) /\ request[r].found = {wanted} /\ stored = wanted /\ NobodySaves
  BY DEF SwitchInv, Listed, Alone, NobodySaves
<1>2. \A q \in Requests \ {r} : request'[q].at \notin {"skills", "saveSkills"}
  BY <1>1 DEF Alone, NobodySaves, OthersStay
<1>3. cache' = {wanted'} /\ cache' # {}
  BY <1>1
<1>4. CASE request'[r].at = "saveSkills"
  <2>1. request'[r].found = {wanted'}
    BY <1>1, <1>4
  <2>2. Overtaken(r)' /\ ~ NobodySaves'
    BY <1>4, <2>1 DEF Overtaken, NobodySaves
  <2>. QED BY <1>2, <1>3, <1>4, <2>2 DEF SwitchInv, Listed
<1>5. CASE request'[r].at # "saveSkills"
  BY <1>1, <1>2, <1>3, <1>5 DEF SwitchInv, Listed
<1>. QED BY <1>4, <1>5

\* A switch when the list is loaded: the new list is behind all others.
LEMMA SwitchKeeps ==
    ASSUME LineInv, SwitchInv, NEW r \in Requests, OthersStay(r), Ordered(r),
           request[r].at = "none", request'[r].at = "saveSkills", cache # {},
           raced' = raced, stored' = stored, request'[r].left = 0,
           cache = {wanted} => cache' = {wanted'} /\ request'[r].found = {wanted'}
    PROVE  SwitchInv'
<1>. SUFFICES ASSUME ~ raced PROVE SwitchInv'
  BY DEF SwitchInv
<1>1. cache = {wanted} /\ \A q \in Requests : Listed(q)
  BY DEF SwitchInv
<1>2. request'[r].found = {wanted'} /\ cache' # {} /\ ~ NobodySaves'
  BY <1>1 DEF NobodySaves
<1>3. ASSUME NEW q \in Requests PROVE Listed(q)'
  <2>1. CASE q = r
    BY <1>2, <2>1 DEF Listed, Overtaken
  <2>2. CASE q # r
    <3>1. request'[q] = request[q] /\ request[q].at # "skills"
      BY <1>1, <2>2 DEF OthersStay, Listed, Alone
    <3>2. request[q].at # "none" => Before(q, r)'
      BY <2>2 DEF Ordered
    <3>. QED BY <1>1, <1>2, <3>1, <3>2 DEF Listed, Overtaken
  <2>. QED BY <2>1, <2>2
<1>. QED BY <1>2, <1>3 DEF SwitchInv

\* A list is stored: the last one, or one that is followed by the last one.
LEMMA SaveKeeps ==
    ASSUME LineInv, SwitchInv, NEW r \in Requests, OthersStay(r), Ordered(r),
           \A q \in Requests : ~ Before(q, r),
           request[r].at = "saveSkills", request'[r].at = "commitSkills",
           stored' = The(request[r].found), UNCHANGED <<cache, wanted, raced>>
    PROVE  SwitchInv'
<1>. SUFFICES ASSUME ~ raced PROVE SwitchInv'
  BY DEF SwitchInv
<1>1. cache = {wanted} /\ cache # {} /\ Overtaken(r) /\ \A q \in Requests : Listed(q)
  BY DEF SwitchInv, Listed
<1>2. ASSUME NobodySaves' PROVE stored' = wanted
  <2>1. request[r].found = {wanted}
    BY <1>1, <1>2 DEF Overtaken, NobodySaves, OthersStay
  <2>. QED BY <2>1 DEF The
<1>3. ASSUME NEW q \in Requests, q # r PROVE Listed(q)'
  <2>1. request'[q] = request[q] /\ Listed(q) /\ request[q].at # "skills"
    BY <1>1, <1>3 DEF OthersStay, Listed, Alone
  <2>2. ASSUME request[q].at = "saveSkills" PROVE Overtaken(q)'
    <3>1. PICK p \in Requests : /\ request[p].at = "saveSkills" /\ request[p].found = {wanted}
                                /\ p = q \/ Before(q, p)
      BY <2>1, <2>2 DEF Listed, Overtaken
    <3>2. p # r
      BY <1>3, <3>1
    <3>3. request'[p] = request[p] /\ (Before(q, p) => Before(q, p)')
      BY <1>3, <3>2 DEF OthersStay, Ordered
    <3>. QED BY <3>1, <3>3 DEF Overtaken
  <2>. QED BY <1>1, <2>1, <2>2 DEF Listed
<1>4. Listed(r)'
  BY DEF Listed
<1>. QED BY <1>1, <1>2, <1>3, <1>4 DEF SwitchInv

\* Of two ways on, with the list or by way of loading it.
LEMMA GoesToSkills ==
    ASSUME LineInv, SwitchInv, NEW r \in Requests, OthersStay(r), Ordered(r), Races(AtSkills),
           UNCHANGED <<stored, cache, wanted>>,
           request[r].at \notin {"saveSkills", "skills"},
           IF AtSkills = "skills" THEN request'[r].at = "skills" /\ request'[r].left = 0
           ELSE request'[r].at = "none"
    PROVE  SwitchInv'
<1>1. CASE cache = {}
  BY <1>1, LoadBegins DEF AtSkills
<1>2. CASE cache # {}
  <2>1. AtSkills = "ok" /\ raced' = raced
    BY <1>2 DEF AtSkills, Races, SwitchInv
  <2>. QED BY <2>1, SwitchIdle DEF SwitchInv
<1>. QED BY <1>1, <1>2

LEMMA SwitchStep ==
    ASSUME ConfigurationInv, ConfigurationInv', LineInv, SwitchInv, NEW r \in Requests, Step(r)
    PROVE  SwitchInv'
<1>1. /\ Moved(r) /\ OthersStay(r) /\ Ordered(r)
      /\ \A q \in Requests : ~ Before(q, r)
  <2>1. Moved(r)
    BY ProviderMoves, SkillMoves, FetchMoves DEF Step, ConfigurationInv
  <2>. QED BY <2>1, LineMoved DEF Moved
<1>2. ASSUME NEW STATE at, NEW STATE value, GoesOnWith(r, at, value)
      PROVE  IF Ends(at) THEN request'[r].at = "none"
             ELSE /\ request'[r].at = at /\ request'[r].found = value
                  /\ request'[r].left = 0
  BY <1>2, Goes DEF ConfigurationInv, GoesOnWith, Fields
<1>3. ASSUME UNCHANGED <<stored, cache, wanted, raced>>,
             request[r].at # "saveSkills", request'[r].at \notin {"skills", "saveSkills"}
      PROVE  SwitchInv'
  BY <1>1, <1>3, SwitchIdle DEF SwitchInv
<1>4. CASE ProviderStep(r) /\ UNCHANGED skillVars
  BY <1>3, <1>4, ProviderMoves DEF skillVars, SkillPlaces
<1>5. CASE Fetches(r) /\ UNCHANGED skillVars
  <2>1. /\ request'[r].at = request[r].at /\ request'[r].found = request[r].found
        /\ request[r].left = 2
    BY <1>5, FetchMoves DEF ConfigurationInv
  <2>2. CASE request[r].at \notin {"skills", "saveSkills"}
    BY <1>3, <1>5, <2>1, <2>2 DEF skillVars
  <2>3. CASE request[r].at = "skills"
    <3>1. ~ raced => Alone(r)'
      BY <1>1, <1>5, <2>1, <2>3 DEF SwitchInv, Listed, Alone, skillVars, OthersStay
    <3>. QED BY <1>1, <1>5, <2>1, <2>3, <3>1, SwitchIdle DEF skillVars, SwitchInv
  <2>4. CASE request[r].at = "saveSkills"
    <3>1. raced
      BY <2>1, <2>4 DEF SwitchInv, Listed
    <3>. QED BY <1>5, <3>1 DEF SwitchInv, skillVars
  <2>. QED BY <2>2, <2>3, <2>4
<1>6. CASE LoadsSkills(r)
  <2>1. /\ request[r].at = "skills" /\ request'[r].at = "skills"
        /\ request'[r].found = {stored}
    BY <1>6, QueryMoves DEF LoadsSkills, ConfigurationInv
  <2>2. ~ raced => Alone(r)'
    BY <1>1, <1>6, <2>1 DEF LoadsSkills, SwitchInv, Listed, Alone, skillVars, OthersStay
  <2>. QED BY <1>1, <1>6, <2>1, <2>2, SwitchIdle DEF LoadsSkills, skillVars, SwitchInv
<1>7. CASE SwitchLoaded(r)
  <2>. DEFINE value == {Switched(request[r].arg, The(request[r].found))}
  <2>1. /\ request[r].at = "skills" /\ request[r].left = 1 /\ GoesOnWith(r, "saveSkills", value)
        /\ raced' = raced /\ stored' = stored /\ cache' = value
        /\ wanted' = Switched(request[r].arg, wanted)
    BY <1>7 DEF SwitchLoaded, Switches, Found, Turn
  <2>2. request[r].found = {wanted} => value = {wanted'}
    BY <2>1 DEF The
  <2>. HIDE DEF value
  <2>3. request'[r].at = "saveSkills" /\ request'[r].left = 0 /\ request'[r].found = value
    BY <1>2, <2>1 DEF Ends
  <2>. QED BY <1>1, <2>1, <2>2, <2>3, LoadEnds
<1>8. CASE SavesSkills(r)
  <2>1. request'[r].at = "commitSkills"
    BY <1>2, <1>8 DEF SavesSkills, GoesOn, Ends
  <2>. QED BY <1>1, <1>8, <2>1, SaveKeeps DEF SavesSkills, Turn
<1>9. CASE CommitsSkills(r) \/ SavesPath(r) \/ CommitsPath(r)
  <2>1. /\ request[r].at \in {"commitSkills", "setPath", "commitPath"}
        /\ \E at \in {"ok", "commitPath", "path"} : GoesOnWith(r, at, {})
        /\ UNCHANGED <<stored, cache, wanted, raced>>
    BY <1>9 DEF CommitsSkills, SavesPath, CommitsPath, Turn, GoesOn, skillVars
  <2>2. request'[r].at \in {"none", "commitPath", "path"}
    BY <1>2, <2>1 DEF Ends
  <2>. QED BY <1>3, <2>1, <2>2
<1>10. CASE LoadsPath(r)
  <2>1. request[r].at = "path" /\ request'[r].at = "path"
    BY <1>10, QueryMoves DEF LoadsPath, ConfigurationInv
  <2>. QED BY <1>3, <1>10, <2>1 DEF LoadsPath, skillVars
<1>11. CASE Discovers(r)
  <2>1. request[r].at = "path" /\ UNCHANGED <<stored, cache, wanted>>
    BY <1>11 DEF Discovers, Found, Turn
  <2>2. CASE request[r].found = {}
    <3>1. request'[r].at = "none" /\ raced' = raced
      BY <1>2, <1>11, <2>2 DEF Discovers, GoesOn, Ends
    <3>. QED BY <1>3, <2>1, <3>1
  <2>3. CASE request[r].found # {}
    <3>1. Races(AtSkills) /\ GoesOnWith(r, AtSkills, {})
      BY <1>11, <2>3 DEF Discovers, GoesOn
    <3>2. IF AtSkills = "skills" THEN request'[r].at = "skills" /\ request'[r].left = 0
          ELSE request'[r].at = "none"
      BY <1>2, <3>1 DEF AtSkills, Ends
    <3>. QED BY <1>1, <2>1, <3>1, <3>2, GoesToSkills
  <2>. QED BY <2>2, <2>3
<1>12. CASE ListLoaded(r) \/ ViewLoaded(r)
  <2>1. /\ request[r].at = "skills" /\ request[r].left = 1 /\ GoesOnWith(r, "ok", {})
        /\ raced' = raced /\ stored' = stored /\ cache' = request[r].found /\ wanted' = wanted
    BY <1>12 DEF ListLoaded, ViewLoaded, Found, Turn, GoesOn
  <2>2. request'[r].at = "none"
    BY <1>2, <2>1 DEF Ends
  <2>. QED BY <1>1, <2>1, <2>2, LoadEnds
<1>. QED BY <1>4, <1>5, <1>6, <1>7, <1>8, <1>9, <1>10, <1>11, <1>12 DEF Step, SkillStep

LEMMA SwitchBegin ==
    ASSUME ConfigurationInv, ConfigurationInv', LineInv, SwitchInv, NEW r \in Requests, Begin(r)
    PROVE  SwitchInv'
<1>1. ASSUME NEW kind, kind \notin {"over", "none"}, NEW arg, NEW STATE at, NEW STATE value,
             ArrivesWith(r, kind, arg, at, value)
      PROVE  /\ Ordered(r) /\ OthersStay(r) /\ request[r].at = "none"
             /\ Ends(at) => request'[r].at = "none"
             /\ ~ Ends(at) => /\ request'[r].at = at /\ request'[r].found = value
                              /\ request'[r].left = 0
  <2>1. /\ Joined(r)
        /\ Ends(at) => request'[r].at = "none"
        /\ ~ Ends(at) => /\ request'[r].at = at /\ request'[r].found = value
                         /\ request'[r].left = 0
    BY <1>1, ArrivesJoins
  <2>2. Ordered(r)
    BY <2>1, LineJoined
  <2>. QED BY <2>1, <2>2 DEF Joined
<1>2. ASSUME NEW kind, kind \notin {"over", "none"}, NEW arg, NEW STATE at,
             at \notin {"skills", "saveSkills"}, Arrives(r, kind, arg, at), UNCHANGED skillVars
      PROVE  SwitchInv'
  <2>1. /\ Ordered(r) /\ OthersStay(r) /\ request[r].at = "none"
        /\ request'[r].at \notin {"skills", "saveSkills"}
    BY <1>1, <1>2 DEF Arrives
  <2>. QED BY <1>2, <2>1, SwitchIdle DEF skillVars, SwitchInv
<1>3. ASSUME NEW kind \in Kinds, NEW pair, Begins(r, kind, pair), UNCHANGED skillVars
      PROVE  SwitchInv'
  <2>. DEFINE at == Steps[kind][1]
  <2>1. at \notin {"skills", "saveSkills"} /\ kind \notin {"over", "none"}
    BY DEF Kinds, Steps
  <2>2. Arrives(r, kind, pair, at)
    BY <1>3 DEF Begins
  <2>. HIDE DEF at
  <2>. QED BY <1>2, <1>3, <2>1, <2>2
<1>4. ASSUME NEW skill \in Skills, NEW on \in BOOLEAN, SwitchBegins(r, <<skill, on>>)
      PROVE  SwitchInv'
  <2>1. CASE cache = {}
    <3>1. /\ ArrivesWith(r, "switch", <<skill, on>>, "skills", {})
          /\ UNCHANGED <<stored, cache, wanted>> /\ Races("skills")
      BY <1>4, <2>1 DEF SwitchBegins, Arrives, AtSkills
    <3>2. /\ Ordered(r) /\ OthersStay(r) /\ request[r].at = "none"
          /\ request'[r].at = "skills" /\ request'[r].left = 0
      BY <1>1, <3>1 DEF Ends
    <3>. QED BY <2>1, <3>1, <3>2, LoadBegins
  <2>2. CASE cache # {}
    <3>. DEFINE new == Switched(<<skill, on>>, The(cache))
    <3>1. /\ ArrivesWith(r, "switch", <<skill, on>>, "saveSkills", {new})
          /\ stored' = stored /\ raced' = raced /\ cache' = {new}
          /\ wanted' = Switched(<<skill, on>>, wanted)
      BY <1>4, <2>2 DEF SwitchBegins, Switches, Races, AtSkills, SwitchInv
    <3>2. cache = {wanted} => new = wanted'
      BY <3>1 DEF The
    <3>. HIDE DEF new
    <3>3. /\ Ordered(r) /\ OthersStay(r) /\ request[r].at = "none"
          /\ request'[r].at = "saveSkills" /\ request'[r].left = 0 /\ request'[r].found = {new}
      BY <1>1, <3>1 DEF Ends
    <3>. QED BY <2>2, <3>1, <3>2, <3>3, SwitchKeeps
  <2>. QED BY <2>1, <2>2
<1>5. ASSUME NEW skill \in Skills, ViewBegins(r, skill) PROVE SwitchInv'
  <2>1. /\ ArrivesWith(r, "view", skill, AtSkills, {}) /\ Races(AtSkills)
        /\ UNCHANGED <<stored, cache, wanted>>
    BY <1>5 DEF ViewBegins, Arrives
  <2>2. /\ Ordered(r) /\ OthersStay(r) /\ request[r].at = "none"
        /\ IF AtSkills = "skills" THEN request'[r].at = "skills" /\ request'[r].left = 0
           ELSE request'[r].at = "none"
    BY <1>1, <2>1 DEF AtSkills, Ends
  <2>. QED BY <2>1, <2>2, GoesToSkills
<1>6. ASSUME NEW directory \in Paths, PathBegins(r, directory) PROVE SwitchInv'
  BY <1>2, <1>6 DEF PathBegins
<1>7. CASE ListBegins(r)
  BY <1>2, <1>7 DEF ListBegins
<1>. QED BY <1>3, <1>4, <1>5, <1>6, <1>7 DEF Begin, SkillBegins

LEMMA SwitchNext ==
    ASSUME ConfigurationInv, ConfigurationInv', LineInv, SwitchInv, [Next]_vars
    PROVE  SwitchInv'
<1>1. CASE Restart
  <2>1. /\ \A r \in Requests : request[r].at = "none"
        /\ cache' = {} /\ UNCHANGED <<stored, wanted, raced, request>>
    BY <1>1 DEF Restart, SkillRestart, lineVars, LineInv, UnderWay
  <2>. QED BY <2>1 DEF SwitchInv, NobodySaves, Listed
<1>2. CASE UNCHANGED vars
  <2>1. UNCHANGED <<request, line, stored, cache, wanted, raced>>
    BY <1>2 DEF vars, lineVars, skillVars
  <2>. QED BY <2>1 DEF SwitchInv, NobodySaves, Listed, Alone, Overtaken, Before
<1>. QED BY <1>1, <1>2, SwitchBegin, SwitchStep DEF Next

LEMMA SwitchStart == Init => SwitchInv
<1>. SUFFICES ASSUME Init PROVE SwitchInv
  OBVIOUS
<1>1. /\ raced = FALSE /\ cache = {} /\ stored = wanted
      /\ \A r \in Requests : request[r].at = "none"
  BY DEF Init, LineInit, SkillInit, Idle
<1>. QED BY <1>1 DEF SwitchInv, NobodySaves, Listed

\* However switches overlap, with each other and with requests that load the list: once
\* none is under way the setting and the cache have all of them, in the order in which
\* they were made, unless two requests have filled the cache at the same time
\* (registry.py:30).
THEOREM SwitchesAreKept == Spec => []SkillsAsSwitched
<1>. DEFINE Inv == ConfigurationInv /\ LineInv /\ LoaderInv /\ SwitchInv
<1>1. Init => Inv
  BY ConfigurationStart, LoaderStart, SwitchStart
<1>2. Inv /\ [Next]_vars => Inv'
  BY ConfigurationStep, LoaderNext, SwitchNext
<1>3. Inv => SkillsAsSwitched
  BY DEF LineInv, SwitchInv, NobodySaves, SkillsAsSwitched
<1>. QED BY <1>1, <1>2, <1>3, PTL DEF Spec

=============================================================================
