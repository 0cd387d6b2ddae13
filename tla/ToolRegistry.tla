---------------------------- MODULE ToolRegistry ----------------------------
(***************************************************************************)
(* ToolRegistry of agent_runtime/tools/registry.py: the registered tools,  *)
(* those switched off, and the cached list of definitions that is handed   *)
(* to the model with every call.                                           *)
(***************************************************************************)
CONSTANT Tools                  \* names of tools

VARIABLES registered,           \* _tools
          off,                  \* _disabled
          cached                \* _cached_definitions: {}, or a set with the set inside

registryVars == <<registered, off, cached>>

RegistryTypeOK ==
    /\ registered \subseteq Tools
    /\ off \subseteq Tools
    /\ cached \in SUBSET SUBSET Tools

\* The tools of the application are there before the first request.
RegistryInit(builtin) ==
    /\ registered = builtin
    /\ off = {}
    /\ cached = {}

\* A mistake: the definitions handed out before are kept.
RegisterUnseen(tool) ==
    /\ registered' = registered \cup {tool}
    /\ off' = off \ {tool}
    /\ UNCHANGED cached

\* A tool registered again is switched on again.
Register(tool) ==
    /\ registered' = registered \cup {tool}
    /\ off' = off \ {tool}
    /\ cached' = {}

Unregister(tool) ==
    /\ registered' = registered \ {tool}
    /\ off' = off \ {tool}
    /\ cached' = {}

\* The tools whose names start with a prefix, if there are any.
UnregisterGroup(tools) ==
    /\ tools \subseteq registered /\ tools # {}
    /\ registered' = registered \ tools
    /\ off' = off \ tools
    /\ cached' = {}

\* A tool that is not registered cannot be switched off.
Disable(tool) ==
    /\ tool \in registered
    /\ off' = off \cup {tool}
    /\ cached' = {}
    /\ UNCHANGED registered

Enable(tool) ==
    /\ off' = off \ {tool}
    /\ cached' = {}
    /\ UNCHANGED registered

\* The definitions handed out: the cached ones, or those made now.
Definitions == IF cached = {} THEN registered \ off ELSE CHOOSE d \in cached : TRUE

GetDefinitions ==
    /\ cached' = {Definitions}
    /\ UNCHANGED <<registered, off>>

(* The definitions the model is given are those of the tools registered and *)
(* switched on at that moment: no change of the registry leaves the cached  *)
(* list of registry.py:88 behind.                                          *)
CacheFresh == \A definitions \in cached : definitions = registered \ off

=============================================================================
