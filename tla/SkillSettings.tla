--------------------------- MODULE SkillSettings ----------------------------
(***************************************************************************)
(* Skills (agent_runtime/skills, service/session_manager.py): the setting  *)
(* that lists the enabled ones with its cache in SkillRegistry, and the    *)
(* setting of the directory with what SkillsLoader found in it.            *)
(***************************************************************************)
EXTENDS StatementLine

CONSTANTS Skills,       \* names of skills
          Paths,        \* directories
          In            \* [Paths -> skills in the directory]

ASSUME SkillsAssumption == In \in [Paths -> SUBSET Skills]

VARIABLES stored,       \* the setting enabled_skills
          cache,        \* SkillRegistry._enabled_cache: {}, or a set with the set
          path,         \* the setting skills_path: {}, or a set with it
          loader,       \* the directory SkillsLoader has read, likewise
          wanted,       \* history: the skills as they were switched, in order
          raced,        \* history: two requests filled the cache at once
          missed        \* history: skill_view did not find an enabled skill

skillVars == <<stored, cache, path, loader, wanted, raced, missed>>

SkillInit ==
    /\ stored = {} /\ cache = {}
    /\ path = {} /\ loader = {}
    /\ wanted = {} /\ raced = FALSE /\ missed = FALSE

The(some) == CHOOSE one \in some : TRUE

-----------------------------------------------------------------------------
(* The cache.  Whoever finds none queries the setting, and the last one to *)
(* have read it fills the cache.                                           *)

Loading == {r \in UnderWay : request[r].at = "skills"}

LoadsSkills(r) ==
    /\ Queries(r, "skills", {stored})
    /\ UNCHANGED skillVars

\* r goes on with the enabled skills, or queries them first.
AtSkills == IF cache = {} THEN "skills" ELSE "ok"
Races(at) == raced' = (raced \/ (at = "skills" /\ Loading # {}))

-----------------------------------------------------------------------------
(* A skill is switched: from reading the cache to the list that is handed  *)
(* in to be stored nothing comes in between.                               *)

Switched(arg, skills) == IF arg[2] THEN skills \cup {arg[1]} ELSE skills \ {arg[1]}

\* A mistake: the list is changed, but not kept.
SwitchesCopy(arg, skills) ==
    /\ cache' = {skills}
    /\ wanted' = Switched(arg, wanted)

Switches(arg, skills) ==
    /\ cache' = {Switched(arg, skills)}
    /\ wanted' = Switched(arg, wanted)

SwitchBegins(r, arg) ==
    /\ IF cache = {}
       THEN /\ Arrives(r, "switch", arg, "skills")
            /\ UNCHANGED <<cache, wanted>>
       ELSE /\ ArrivesWith(r, "switch", arg, "saveSkills", {Switched(arg, The(cache))})
            /\ Switches(arg, The(cache))
    /\ Races(AtSkills)
    /\ UNCHANGED <<stored, path, loader, missed>>

SwitchLoaded(r) ==
    /\ request[r].kind = "switch" /\ Found(r, "skills")
    /\ LET skills == The(request[r].found)
       IN  /\ GoesOnWith(r, "saveSkills", {Switched(request[r].arg, skills)})
           /\ Switches(request[r].arg, skills)
    /\ UNCHANGED <<stored, path, loader, raced, missed>>

SavesSkills(r) ==
    /\ Turn(r, "saveSkills")
    /\ GoesOn(r, "commitSkills")
    /\ stored' = The(request[r].found)
    /\ UNCHANGED <<cache, path, loader, wanted, raced, missed>>

\* The commit of a switch, the last step of it.
CommitsSkills(r) ==
    /\ Turn(r, "commitSkills")
    /\ GoesOn(r, "ok")
    /\ UNCHANGED skillVars

-----------------------------------------------------------------------------
(* The directory is set, and its skills are listed.                        *)

ListBegins(r) ==
    /\ Arrives(r, "list", {}, "path")
    /\ UNCHANGED skillVars

PathBegins(r, directory) ==
    /\ Arrives(r, "setPath", {directory}, "setPath")
    /\ UNCHANGED skillVars

SavesPath(r) ==
    /\ Turn(r, "setPath")
    /\ GoesOn(r, "commitPath")
    /\ path' = request[r].arg
    /\ UNCHANGED <<stored, cache, loader, wanted, raced, missed>>

\* A mistake: what was found before is kept and nothing is listed.
CommitsPathOnly(r) ==
    /\ Turn(r, "commitPath")
    /\ GoesOn(r, "ok")
    /\ UNCHANGED skillVars

CommitsPath(r) ==
    /\ Turn(r, "commitPath")
    /\ GoesOn(r, "path")
    /\ loader' = {}
    /\ UNCHANGED <<stored, cache, path, wanted, raced, missed>>

LoadsPath(r) ==
    /\ Queries(r, "path", path)
    /\ UNCHANGED skillVars

\* discover_skills reads the directory, unless it was the last one read.
Discovers(r) ==
    /\ Found(r, "path")
    /\ IF request[r].found = {}
       THEN GoesOn(r, "ok") /\ UNCHANGED <<loader, raced>>
       ELSE /\ loader' = request[r].found
            /\ GoesOn(r, AtSkills)
            /\ Races(AtSkills)
    /\ UNCHANGED <<stored, cache, path, wanted, missed>>

ListLoaded(r) ==
    /\ request[r].kind \in {"list", "setPath"} /\ Found(r, "skills")
    /\ GoesOn(r, "ok")
    /\ cache' = request[r].found
    /\ UNCHANGED <<stored, path, loader, wanted, raced, missed>>

-----------------------------------------------------------------------------
(* skill_view: the skill must be enabled and be one the loader has found.  *)

Views(skill, enabled) ==
    missed' = (missed \/
        (/\ skill \in enabled
         /\ \E directory \in path : skill \in In[directory]
         /\ \A directory \in loader : skill \notin In[directory]))

ViewBegins(r, skill) ==
    /\ Arrives(r, "view", skill, AtSkills)
    /\ IF cache = {} THEN UNCHANGED missed ELSE Views(skill, The(cache))
    /\ Races(AtSkills)
    /\ UNCHANGED <<stored, cache, path, loader, wanted>>

ViewLoaded(r) ==
    /\ request[r].kind = "view" /\ Found(r, "skills")
    /\ GoesOn(r, "ok")
    /\ cache' = request[r].found
    /\ Views(request[r].arg, The(request[r].found))
    /\ UNCHANGED <<stored, path, loader, wanted, raced>>

-----------------------------------------------------------------------------

SkillStep(r) ==
    \/ LoadsSkills(r) \/ SwitchLoaded(r) \/ SavesSkills(r) \/ CommitsSkills(r)
    \/ SavesPath(r) \/ CommitsPath(r) \/ LoadsPath(r) \/ Discovers(r) \/ ListLoaded(r)
    \/ ViewLoaded(r)

SkillBegins(r) ==
    \/ \E skill \in Skills, on \in BOOLEAN : SwitchBegins(r, <<skill, on>>)
    \/ \E skill \in Skills : ViewBegins(r, skill)
    \/ \E directory \in Paths : PathBegins(r, directory)
    \/ ListBegins(r)

\* The application is stopped and started again.
SkillRestart ==
    /\ cache' = {} /\ loader' = {}
    /\ UNCHANGED <<stored, path, wanted, raced, missed>>

-----------------------------------------------------------------------------

(* When no request is under way the skills are as they were switched last,   *)
(* each of them, in the setting and in the cache: switches that overlap do *)
(* not undo each other and none is stored late (registry.py:33).  The one  *)
(* exception is two requests that fill the cache at the same time, the     *)
(* first ones after a start (registry.py:30).                              *)
SkillsAsSwitched ==
    UnderWay = {} /\ ~ raced => stored = wanted /\ cache \subseteq {wanted}

\* The same without the exception: it does not hold.
SkillsNeverLost == UnderWay = {} => stored = wanted /\ cache \subseteq {wanted}

(* When no request is under way what the loader has read is the directory    *)
(* that is set, or nothing: skill_view never answers from another one      *)
(* (session_manager.py:993).                                               *)
LoaderAgrees == UnderWay = {} => loader \subseteq path

(* An enabled skill of the directory that is set is found by skill_view.  It *)
(* does not hold: after a start nothing reads the directory before the     *)
(* skills are listed (loader.py:81).                                       *)
ViewFinds == ~ missed

=============================================================================
