--------------------------- MODULE Configuration ----------------------------
(* Requests about the configuration, in any order and at the same time.     *)
EXTENDS ProviderSettings, SkillSettings

CONSTANTS FirstModels,  \* the models there are at first
          Subjects      \* what the requests are about: "providers", "skills"

\* Requests about the one are only delayed by requests about the other: a
\* behaviour is about one of them.
VARIABLE about

vars == <<lineVars, providerVars, skillVars, about>>

Init == LineInit /\ ProviderInit(FirstModels) /\ SkillInit /\ about \in Subjects

\* A request names a pair, or a provider, or nothing.
Arguments(kind) ==
    LET some(s) == {CHOOSE one \in s : TRUE}
    IN  CASE kind \in {"create", "delete"} -> Providers \X some(Names)
          [] kind \in {"update", "forget", "standard"} -> some(Providers) \X some(Names)
          [] OTHER -> Pairs

Begin(r) ==
    \/ /\ about = "providers"
       /\ \E kind \in Kinds : \E pair \in Arguments(kind) : Begins(r, kind, pair)
       /\ UNCHANGED skillVars
    \/ /\ about = "skills"
       /\ SkillBegins(r)
       /\ UNCHANGED providerVars

Step(r) ==
    \/ ProviderStep(r) /\ UNCHANGED skillVars
    \/ SkillStep(r) /\ UNCHANGED providerVars
    \/ Fetches(r) /\ UNCHANGED <<providerVars, skillVars>>

Restart ==
    /\ line = << >>
    /\ cache # {} \/ loader # {}
    /\ SkillRestart
    /\ UNCHANGED <<lineVars, providerVars>>

Next == ((\E r \in Requests : Begin(r) \/ Step(r)) \/ Restart) /\ UNCHANGED about

Spec == Init /\ [][Next]_vars

=============================================================================
