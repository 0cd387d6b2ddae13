--------------------------- MODULE ModelTurnProofs ---------------------------
(***************************************************************************)
(* A turn for any plans of the endpoint, any tools, commands and histories.*)
(***************************************************************************)
EXTENDS ModelTurn, FiniteSetTheorems, SequenceTheorems, TLAPS

-----------------------------------------------------------------------------
(* The exec tool and the registry.                                         *)

\* Only a call that waits for its command has one running.
ShellInv ==
    /\ exec \in [Commands -> {"new", "spawn", "wait", "kill", "cancel"} \cup ExecEnded]
    /\ process \in [Commands -> {"none", "running", "killed", "exited"}]
    /\ \A c \in Commands : process[c] = "running" => exec[c] = "wait"

LEMMA ShellStep ==
    ASSUME ShellInv, NEW c \in Commands,
           \/ Spawns(c) \/ Forks(c) \/ ProcessExits(c) \/ ChildExits(c) \/ Completes(c)
           \/ TimesOut(c) \/ Interrupted(c) \/ Killed(c) \/ InterruptedEarly(c)
           \/ ExecStarts(c)
    PROVE  ShellInv'
<1>. USE DEF ShellInv, ExecTo, ExecEnded
<1>1. CASE Spawns(c)
  BY <1>1 DEF Spawns
<1>2. CASE Forks(c) \/ ProcessExits(c) \/ ChildExits(c)
  BY <1>2 DEF Forks, ProcessExits, ChildExits
<1>3. CASE Completes(c) \/ Killed(c) \/ InterruptedEarly(c)
  BY <1>3 DEF Completes, Killed, InterruptedEarly
<1>4. CASE TimesOut(c) \/ Interrupted(c)
  BY <1>4 DEF TimesOut, Interrupted, KillProcess
<1>5. CASE ExecStarts(c)
  BY <1>5 DEF ExecStarts
<1>. QED BY <1>1, <1>2, <1>3, <1>4, <1>5

\* However a call of the exec tool ends (its command's end, the time limit, a
\* cancellation at any moment), its bash does not run on (shell.py:164), for any
\* commands and limits.
THEOREM ProcessesEnd == Spec => []ProcessGone
<1>1. Init => ShellInv
  BY DEF Init, ShellInit, ShellInv
<1>2. ShellInv /\ [Next]_vars => ShellInv'
  <2>. SUFFICES ASSUME ShellInv, [Next]_vars PROVE ShellInv'
    OBVIOUS
  <2>1. ASSUME UNCHANGED shellVars PROVE ShellInv'
    BY <2>1 DEF ShellInv, shellVars
  <2>2. CASE ExecBegins \/ Shell \/ Drops
    BY <2>2, ShellStep DEF ExecBegins, Shell, ShellNext, Drops
  <2>3. CASE UNCHANGED vars
    BY <2>1, <2>3 DEF vars
  <2>. QED BY <2>1, <2>2, <2>3
       DEF Next, Asks, Endpoint, AnswerFails, AnswerCalls, AnswerEnds, ToolRuns,
           ExecAnswers, AsksAgain, Stops, DropsCall, ToolsChange
<1>3. ShellInv => ProcessGone
  BY DEF ShellInv, ProcessGone, ExecEnded
<1>. QED BY <1>1, <1>2, <1>3, PTL DEF Spec

\* No change of the registry, of any tools and at any moment of a turn, leaves the
\* cached definitions behind (registry.py:88).
THEOREM DefinitionsFresh == Spec => []CacheFresh
<1>1. Init => CacheFresh
  BY DEF Init, RegistryInit, CacheFresh
<1>2. CacheFresh /\ [Next]_vars => CacheFresh'
  <2>. SUFFICES ASSUME CacheFresh, [Next]_vars PROVE CacheFresh'
    OBVIOUS
  <2>1. ASSUME UNCHANGED registryVars PROVE CacheFresh'
    BY <2>1 DEF CacheFresh, registryVars
  <2>2. CASE Asks
    <3>1. Definitions = registered \ off
      BY DEF Definitions, CacheFresh
    <3>. QED BY <2>2, <3>1 DEF Asks, GetDefinitions, CacheFresh
  <2>3. CASE ToolsChange
    BY <2>3 DEF ToolsChange, Register, Unregister, UnregisterGroup, Disable, Enable, CacheFresh
  <2>4. CASE UNCHANGED vars
    BY <2>1, <2>4 DEF vars
  <2>. QED BY <2>1, <2>2, <2>3, <2>4
       DEF Next, Endpoint, AnswerFails, AnswerCalls, AnswerEnds, ToolRuns, ExecBegins,
           ExecAnswers, AsksAgain, Shell, Stops, Drops, DropsCall
<1>. QED BY <1>1, <1>2, PTL DEF Spec

-----------------------------------------------------------------------------
(* Calls put together from their pieces.                                   *)

Old(bufs, key) == IF key \in DOMAIN bufs THEN bufs[key] ELSE NoBuffer(key)

\* No two pieces of a chunk have one key.
OneEach(deltas, n) ==
    /\ n \in Nat /\ DOMAIN deltas = 1..n
    /\ \A j, k \in 1..n : Key(deltas[j], j) = Key(deltas[k], k) => j = k

\* Each of them goes into its buffer.
PutIn(bufs, deltas, n, after) ==
    /\ DOMAIN after = DOMAIN bufs \cup {Key(deltas[p], p) : p \in 1..n}
    /\ \A p \in 1..n :
          after[Key(deltas[p], p)] = Accumulated(Old(bufs, Key(deltas[p], p)), deltas[p])
    /\ \A k \in DOMAIN bufs : (\A p \in 1..n : Key(deltas[p], p) # k) => after[k] = bufs[k]

LEMMA BuffersAre ==
    ASSUME NEW bufs, NEW deltas, NEW n, OneEach(deltas, n)
    PROVE  PutIn(bufs, deltas, n, Buffers(bufs, deltas))
<1>. USE DEF OneEach
<1>. DEFINE keys == {Key(deltas[p], p) : p \in DOMAIN deltas}
            at(key) == CHOOSE p \in DOMAIN deltas : Key(deltas[p], p) = key
<1>1. Buffers(bufs, deltas) =
          [key \in DOMAIN bufs \cup keys |->
              IF key \in keys THEN Accumulated(Old(bufs, key), deltas[at(key)]) ELSE bufs[key]]
  BY DEF Buffers, Old
<1>2. ASSUME NEW p \in 1..n PROVE at(Key(deltas[p], p)) = p
  BY <1>2
<1>. HIDE DEF at
<1>3. ASSUME NEW p \in 1..n
      PROVE  Buffers(bufs, deltas)[Key(deltas[p], p)] = Accumulated(Old(bufs, Key(deltas[p], p)), deltas[p])
  BY <1>1, <1>2, <1>3
<1>4. \A k \in DOMAIN bufs : (\A p \in 1..n : Key(deltas[p], p) # k) =>
          Buffers(bufs, deltas)[k] = bufs[k]
  BY <1>1
<1>5. DOMAIN Buffers(bufs, deltas) = DOMAIN bufs \cup {Key(deltas[p], p) : p \in 1..n}
  BY <1>1
<1>. QED BY <1>3, <1>4, <1>5 DEF PutIn

LEMMA NoDeltas ==
    ASSUME NEW bufs, bufs = [k \in DOMAIN bufs |-> bufs[k]]
    PROVE  Buffers(bufs, << >>) = bufs
<1>1. {Key(<< >>[p], p) : p \in DOMAIN << >>} = {}
  OBVIOUS
<1>. QED BY <1>1 DEF Buffers

\* The buffer of call c when g pieces of it have come.
Meant(c, g) ==
    [key |-> c, name |-> plan.name[c], id |-> IF plan.identified THEN c ELSE 0,
     args |-> [p \in 1..g |-> <<c, p>>]]

LEMMA NextPiece ==
    ASSUME NEW c, NEW g \in Nat
    PROVE  Append([p \in 1..g |-> <<c, p>>], <<c, g + 1>>) = [p \in 1..(g + 1) |-> <<c, p>>]
<1>. DEFINE s == [p \in 1..g |-> <<c, p>>]
            t == [p \in 1..(g + 1) |-> <<c, p>>]
            S == {<<c, p>> : p \in 1..(g + 1)}
<1>1. s \in Seq(S) /\ t \in Seq(S) /\ Len(s) = g /\ Len(t) = g + 1 /\ <<c, g + 1>> \in S
  OBVIOUS
<1>2. /\ Append(s, <<c, g + 1>>) \in Seq(S) /\ Len(Append(s, <<c, g + 1>>)) = g + 1
      /\ \A i \in 1..g : Append(s, <<c, g + 1>>)[i] = s[i]
      /\ Append(s, <<c, g + 1>>)[g + 1] = <<c, g + 1>>
  BY <1>1, AppendProperties
<1>3. \A i \in 1..(g + 1) : Append(s, <<c, g + 1>>)[i] = t[i]
  BY <1>2
<1>. HIDE DEF s, t, S
<1>. QED BY <1>1, <1>2, <1>3, SeqEqual DEF s, t

LEMMA OnePiece ==
    ASSUME NEW c, NEW g \in Nat, NEW delta, delta.call = c, delta.piece = g + 1
    PROVE  Accumulated(IF g > 0 THEN Meant(c, g) ELSE NoBuffer(c), delta) = Meant(c, g + 1)
<1>. DEFINE a == [p \in 1..g |-> <<c, p>>]
            b == [p \in 1..(g + 1) |-> <<c, p>>]
            name == plan.name[c]
            id == IF plan.identified THEN c ELSE 0
<1>1. Append(a, <<c, g + 1>>) = b
  BY NextPiece
<1>2. g = 0 => a = << >>
  OBVIOUS
<1>5. Meant(c, g + 1) = [key |-> c, name |-> name, id |-> id, args |-> b]
  BY DEF Meant
<1>. HIDE DEF a, b, name, id
<1>3. CASE g > 0
  <2>1. Meant(c, g) = [key |-> c, name |-> name, id |-> id, args |-> a]
    BY DEF Meant, a, name, id
  <2>2. Accumulated([key |-> c, name |-> name, id |-> id, args |-> a], delta)
            = [key |-> c, name |-> name, id |-> id, args |-> b]
    <3>1. delta.piece # 1
      BY <1>3
    <3>. QED BY <1>1, <3>1 DEF Accumulated
  <2>. QED BY <1>3, <1>5, <2>1, <2>2
<1>4. CASE g = 0
  <2>1. Append(<< >>, <<c, g + 1>>) = b
    BY <1>1, <1>2, <1>4
  <2>2. delta.piece = 1
    BY <1>4
  <2>3. Accumulated([key |-> c, name |-> "", id |-> 0, args |-> << >>], delta)
            = [key |-> c, name |-> name, id |-> id, args |-> b]
    BY <2>1, <2>2 DEF Accumulated, name, id
  <2>4. NoBuffer(c) = [key |-> c, name |-> "", id |-> 0, args |-> << >>]
    BY DEF NoBuffer
  <2>5. (IF g > 0 THEN Meant(c, g) ELSE NoBuffer(c)) = NoBuffer(c)
    BY <1>4
  <2>. QED BY <1>5, <2>3, <2>4, <2>5
<1>. QED BY <1>3, <1>4

-----------------------------------------------------------------------------

\* A chunk has the next piece of each of the calls of, which follow those begun.
Chosen(n, of) ==
    /\ n \in Nat /\ of \in [1..n -> DOMAIN plan.name]
    /\ \A j, k \in 1..n : j < k => of[j] < of[k]
    /\ \A k \in 1..n : \A b \in 1..(of[k] - 1) : given[b] > 0 \/ \E j \in 1..n : of[j] = b

PlanTypeOK ==
    /\ plan.indexed \in BOOLEAN /\ plan.identified \in BOOLEAN
    /\ \E n \in 0..MaxCalls : DOMAIN plan.name = 1..n
    /\ given \in [1..MaxCalls -> Nat]

\* The calls begin in order.
BeginInOrder == \E n \in Nat : Begun = 1..n

LEMMA ChosenApart ==
    ASSUME PlanTypeOK, NEW n, NEW of, Chosen(n, of)
    PROVE  /\ \A j, k \in 1..n : of[j] = of[k] => j = k
           /\ \A k \in 1..n : of[k] \in 1..MaxCalls
<1>1. \A k \in 1..n : of[k] \in 1..MaxCalls
  <2>1. PICK l \in 0..MaxCalls : DOMAIN plan.name = 1..l
    BY DEF PlanTypeOK
  <2>. QED BY <2>1, ProviderAssumption DEF Chosen
<1>2. ASSUME NEW j \in 1..n, NEW k \in 1..n, of[j] = of[k] PROVE j = k
  <2>1. ~ (j < k) /\ ~ (k < j)
    BY <1>1, <1>2, ProviderAssumption DEF Chosen
  <2>. QED BY <2>1 DEF Chosen
<1>. QED BY <1>1, <1>2

LEMMA PiecesCounted ==
    ASSUME PlanTypeOK, BeginInOrder, NEW n, NEW of, Chosen(n, of), UNCHANGED plan,
           given' = [c \in DOMAIN given |->
                        IF \E k \in 1..n : of[k] = c THEN given[c] + 1 ELSE given[c]]
    PROVE  /\ PlanTypeOK' /\ BeginInOrder'
           /\ Begun' = Begun \cup {of[k] : k \in 1..n}
<1>1. PlanTypeOK'
  BY DEF PlanTypeOK
<1>2. Begun' = Begun \cup {of[k] : k \in 1..n}
  <2>1. PICK l \in 0..MaxCalls : DOMAIN plan.name = 1..l
    BY DEF PlanTypeOK
  <2>2. \A c \in 1..l : given[c] \in Nat /\ given'[c] =
            IF \E k \in 1..n : of[k] = c THEN given[c] + 1 ELSE given[c]
    <3>1. 1..l \subseteq 1..MaxCalls
      BY <2>1, ProviderAssumption
    <3>2. DOMAIN given = 1..MaxCalls /\ \A c \in 1..MaxCalls : given[c] \in Nat
      BY DEF PlanTypeOK
    <3>. QED BY <3>1, <3>2
  <2>3. \A k \in 1..n : of[k] \in 1..l
    BY <2>1 DEF Chosen
  <2>4. \A c : c \in Begun' <=> c \in Begun \/ \E k \in 1..n : of[k] = c
    <3>1. \A c : c \in Begun' <=> c \in 1..l /\ given'[c] > 0
      BY <2>1 DEF Begun
    <3>2. \A c : c \in Begun <=> c \in 1..l /\ given[c] > 0
      BY <2>1 DEF Begun
    <3>3. ASSUME NEW c \in 1..l, \E k \in 1..n : of[k] = c PROVE given'[c] > 0
      BY <2>2, <3>3
    <3>4. ASSUME NEW c \in 1..l, ~ \E k \in 1..n : of[k] = c PROVE given'[c] = given[c]
      BY <2>2, <3>4
    <3>. QED BY <3>1, <3>2, <3>3, <3>4, <2>3
  <2>. QED BY <2>4
<1>3. PICK m \in Nat : Begun = 1..m
  BY DEF BeginInOrder
<1>4. ASSUME n = 0 PROVE BeginInOrder'
  <2>1. Begun' = 1..m
    BY <1>2, <1>3, <1>4
  <2>. QED BY <1>3, <2>1 DEF BeginInOrder
<1>5. ASSUME n > 0 PROVE BeginInOrder'
  <2>1. of[n] \in 1..MaxCalls /\ n \in 1..n
    <3>1. n \in 1..n
      BY <1>5 DEF Chosen
    <3>. QED BY <3>1, ChosenApart
  <2>2. \A k \in 1..n : of[k] <= of[n] /\ of[k] \in 1..MaxCalls
    <3>1. SUFFICES ASSUME NEW k \in 1..n PROVE of[k] <= of[n] /\ of[k] \in 1..MaxCalls
      OBVIOUS
    <3>2. of[k] \in 1..MaxCalls
      BY ChosenApart
    <3>3. CASE k = n
      BY <2>1, <3>2, <3>3, ProviderAssumption
    <3>4. CASE k # n
      <4>1. k < n
        BY <3>4 DEF Chosen
      <4>2. of[k] < of[n]
        BY <2>1, <4>1 DEF Chosen
      <4>. QED BY <2>1, <3>2, <4>2, ProviderAssumption
    <3>. QED BY <3>3, <3>4
  <2>3. \A b \in 1..(of[n] - 1) : b \in Begun'
    <3>1. SUFFICES ASSUME NEW b \in 1..(of[n] - 1), given[b] > 0 PROVE b \in Begun
      BY <1>2, <2>1 DEF Chosen
    <3>2. PICK l \in 0..MaxCalls : DOMAIN plan.name = 1..l
      BY DEF PlanTypeOK
    <3>3. of[n] \in 1..l
      BY <2>1, <3>2 DEF Chosen
    <3>. QED BY <3>1, <3>2, <3>3 DEF Begun
  <2>4. CASE of[n] > m
    <3>1. Begun' = 1..of[n]
      BY <1>2, <1>3, <2>1, <2>2, <2>3, <2>4
    <3>. QED BY <2>1, <3>1, ProviderAssumption DEF BeginInOrder
  <2>5. CASE of[n] <= m
    <3>1. Begun' = 1..m
      BY <1>2, <1>3, <2>1, <2>2, <2>5
    <3>. QED BY <1>3, <3>1 DEF BeginInOrder
  <2>. QED BY <2>1, <2>4, <2>5
<1>. QED BY <1>1, <1>2, <1>4, <1>5 DEF Chosen

AllMeant == parsed.calls = [c \in Begun |-> Meant(c, given[c])]

\* The places of calls are their keys, and no two have the same identifier.
Numbered(calls) ==
    /\ \E n \in Nat : DOMAIN calls = 1..n
    /\ calls = [k \in DOMAIN calls |-> calls[k]]
    /\ \A k \in DOMAIN calls : calls[k].key = k /\ calls[k].id \in {0} \cup Begun
    /\ \A j, k \in DOMAIN calls : calls[j].id = calls[k].id /\ calls[j].id # 0 => j = k

LEMMA MeantNumbered == PlanTypeOK /\ BeginInOrder /\ AllMeant => Numbered(parsed.calls)
<1>. SUFFICES ASSUME PlanTypeOK, BeginInOrder, AllMeant PROVE Numbered(parsed.calls)
  OBVIOUS
<1>1. PICK n \in Nat : Begun = 1..n
  BY DEF BeginInOrder
<1>2. \A c \in Begun : parsed.calls[c].key = c
                       /\ parsed.calls[c].id = IF plan.identified THEN c ELSE 0
  BY DEF AllMeant, Meant
<1>3. DOMAIN parsed.calls = Begun /\ parsed.calls = [k \in DOMAIN parsed.calls |-> parsed.calls[k]]
  BY DEF AllMeant
<1>. QED BY <1>1, <1>2, <1>3 DEF Numbered

\* With numbers in the pieces each goes where it belongs.
LEMMA IndexedPieces ==
    ASSUME PlanTypeOK, AllMeant, plan.indexed, NEW n, NEW of, Chosen(n, of), UNCHANGED plan,
           PlanTypeOK', Begun' = Begun \cup {of[k] : k \in 1..n},
           given' = [c \in DOMAIN given |->
                        IF \E k \in 1..n : of[k] = c THEN given[c] + 1 ELSE given[c]],
           parsed'.calls = Buffers(parsed.calls,
                                   [k \in 1..n |-> Delta(of[k], given[of[k]] + 1)])
    PROVE  AllMeant'
<1>. DEFINE calls == parsed.calls
            deltas == [k \in 1..n |-> Delta(of[k], given[of[k]] + 1)]
<1>1. \A k \in 1..n : of[k] \in 1..MaxCalls /\ given[of[k]] \in Nat
  BY ChosenApart DEF PlanTypeOK
<1>2. /\ DOMAIN deltas = 1..n
      /\ \A k \in 1..n : /\ Key(deltas[k], k) = of[k] /\ deltas[k].call = of[k]
                          /\ deltas[k].piece = given[of[k]] + 1
  BY <1>1, ProviderAssumption DEF Key, Delta
<1>3. \A j, k \in 1..n : Key(deltas[j], j) = Key(deltas[k], k) => j = k
  BY <1>2, ChosenApart
<1>4. parsed'.calls = Buffers(calls, deltas)
  OBVIOUS
<1>7. DOMAIN calls = Begun /\ \A c \in Begun : calls[c] = Meant(c, given[c])
  BY DEF AllMeant
<1>. HIDE DEF calls, deltas
<1>. DEFINE B == Buffers(calls, deltas)
<1>5. PutIn(calls, deltas, n, B)
  <2>1. OneEach(deltas, n)
    BY <1>2, <1>3 DEF OneEach, Chosen
  <2>. QED BY <2>1, BuffersAre
<1>6. B = [k \in DOMAIN B |-> B[k]]
  BY DEF Buffers
<1>. HIDE DEF B
<1>8. DOMAIN B = Begun'
  BY <1>2, <1>5, <1>7 DEF PutIn
<1>9. ASSUME NEW k \in 1..n PROVE B[of[k]] = Meant(of[k], given'[of[k]])
  <2>. DEFINE c == of[k]
  <2>1. c \in DOMAIN plan.name /\ given[c] \in Nat /\ given'[c] = given[c] + 1
    BY <1>1 DEF Chosen, PlanTypeOK
  <2>2. B[c] = Accumulated(IF c \in Begun THEN Meant(c, given[c]) ELSE NoBuffer(c), deltas[k])
    BY <1>2, <1>5, <1>7 DEF Old, PutIn
  <2>3. c \in Begun <=> given[c] > 0
    BY <2>1 DEF Begun
  <2>4. deltas[k].call = c /\ deltas[k].piece = given[c] + 1
    BY <1>2
  <2>. HIDE DEF c
  <2>5. B[c] = Meant(c, given[c] + 1)
    BY <2>1, <2>2, <2>3, <2>4, OnePiece
  <2>. QED BY <2>1, <2>5 DEF c
<1>10. ASSUME NEW c \in Begun, \A k \in 1..n : of[k] # c
       PROVE  B[c] = Meant(c, given'[c])
  <2>1. given'[c] = given[c]
    <3>1. PICK l \in 0..MaxCalls : DOMAIN plan.name = 1..l
      BY DEF PlanTypeOK
    <3>. QED BY <1>10, <3>1, ProviderAssumption DEF Begun, PlanTypeOK
  <2>. QED BY <1>2, <1>5, <1>7, <1>10, <2>1 DEF PutIn
<1>11. \A c \in Begun' : B[c] = Meant(c, given'[c])
  <2>1. SUFFICES ASSUME NEW c \in Begun' PROVE B[c] = Meant(c, given'[c])
    OBVIOUS
  <2>2. CASE \E k \in 1..n : of[k] = c
    BY <1>9, <2>2
  <2>3. CASE \A k \in 1..n : of[k] # c
    BY <1>10, <2>1, <2>3
  <2>. QED BY <2>2, <2>3
<1>12. \A c \in Begun' : B[c] = Meant(c, given[c])'
  BY <1>11 DEF Meant
<1>13. parsed'.calls = [c \in Begun' |-> Meant(c, given[c])']
  <2>1. parsed'.calls = B
    BY <1>4 DEF B
  <2>2. B = [c \in Begun' |-> Meant(c, given[c])']
    BY <1>6, <1>8, <1>12
  <2>. QED BY <2>1, <2>2
<1>. QED BY <1>13 DEF AllMeant

\* Without them a piece goes to its place in the chunk: whatever comes of it, no call
\* has the identifier of another.
LEMMA PlacedPieces ==
    ASSUME PlanTypeOK, Numbered(parsed.calls), ~ plan.indexed, NEW n, NEW of, Chosen(n, of),
           Begun' = Begun \cup {of[k] : k \in 1..n},
           parsed'.calls = Buffers(parsed.calls,
                                   [k \in 1..n |-> Delta(of[k], given[of[k]] + 1)])
    PROVE  Numbered(parsed.calls)'
<1>. DEFINE calls == parsed.calls
            deltas == [k \in 1..n |-> Delta(of[k], given[of[k]] + 1)]
<1>1. \A k \in 1..n : of[k] \in DOMAIN plan.name /\ given[of[k]] \in Nat /\ of[k] # 0
  BY ChosenApart, ProviderAssumption DEF PlanTypeOK, Chosen
<1>2. /\ DOMAIN deltas = 1..n
      /\ \A k \in 1..n : /\ Key(deltas[k], k) = k /\ deltas[k].call = of[k]
                          /\ deltas[k].piece = given[of[k]] + 1
  BY DEF Key, Delta
<1>3. parsed'.calls = Buffers(calls, deltas)
  OBVIOUS
<1>4. PICK m \in Nat : DOMAIN calls = 1..m
  BY DEF Numbered
<1>5. /\ \A k \in 1..m : calls[k].key = k /\ calls[k].id \in {0} \cup Begun
      /\ \A j, k \in 1..m : calls[j].id = calls[k].id /\ calls[j].id # 0 => j = k
  BY <1>4 DEF Numbered
<1>. HIDE DEF calls, deltas
<1>. DEFINE B == Buffers(calls, deltas)
<1>6. PutIn(calls, deltas, n, B)
  <2>1. OneEach(deltas, n)
    BY <1>2 DEF OneEach, Chosen
  <2>. QED BY <2>1, BuffersAre
<1>7. B = [k \in DOMAIN B |-> B[k]]
  BY DEF Buffers
<1>. HIDE DEF B
<1>8. DOMAIN B = (1..m) \cup (1..n)
  BY <1>2, <1>4, <1>6 DEF PutIn
<1>9. \E l \in Nat : DOMAIN B = 1..l
  <2>1. n \in Nat
    BY DEF Chosen
  <2>2. CASE m <= n
    BY <1>4, <1>8, <2>1, <2>2
  <2>3. CASE m > n
    BY <1>4, <1>8, <2>1, <2>3
  <2>. QED BY <1>4, <2>1, <2>2, <2>3
<1>10. ASSUME NEW k \in DOMAIN B
       PROVE  /\ B[k].key = k
              /\ \/ k \in 1..n /\ B[k].id = of[k] /\ of[k] \notin Begun
                 \/ k \in 1..m /\ B[k].id = calls[k].id
                 \/ B[k].id = 0
  <2>1. CASE k \in 1..n
    <3>1. B[k] = Accumulated(Old(calls, k), deltas[k])
      BY <1>2, <1>6, <2>1 DEF PutIn
    <3>2. /\ B[k].key = Old(calls, k).key
          /\ B[k].id = IF deltas[k].piece = 1 /\ plan.identified THEN of[k] ELSE Old(calls, k).id
      BY <1>2, <2>1, <3>1 DEF Accumulated
    <3>3. deltas[k].piece = 1 => of[k] \notin Begun
      BY <1>1, <1>2, <2>1 DEF Begun
    <3>4. CASE k \in 1..m
      <4>1. Old(calls, k) = calls[k]
        BY <1>4, <3>4 DEF Old
      <4>. QED BY <1>5, <2>1, <3>2, <3>3, <3>4, <4>1
    <3>5. CASE k \notin 1..m
      <4>1. Old(calls, k).key = k /\ Old(calls, k).id = 0
        BY <1>4, <3>5 DEF Old, NoBuffer
      <4>. QED BY <2>1, <3>2, <3>3, <4>1
    <3>. QED BY <3>4, <3>5
  <2>2. CASE k \notin 1..n
    <3>1. k \in 1..m /\ B[k] = calls[k]
      BY <1>2, <1>4, <1>6, <1>8, <2>2 DEF PutIn
    <3>. QED BY <1>5, <3>1
  <2>. QED BY <2>1, <2>2
<1>11. \A k \in DOMAIN B : B[k].key = k /\ B[k].id \in {0} \cup Begun'
  BY <1>5, <1>10
<1>12. ASSUME NEW j \in DOMAIN B, NEW k \in DOMAIN B, B[j].id = B[k].id, B[j].id # 0
       PROVE  j = k
  <2>1. CASE j \in 1..n /\ B[j].id = of[j] /\ of[j] \notin Begun
    <3>1. k \in 1..n /\ of[k] = of[j]
      BY <1>5, <1>10, <1>12, <2>1
    <3>. QED BY <2>1, <3>1, ChosenApart
  <2>2. CASE j \in 1..m /\ B[j].id = calls[j].id
    BY <1>5, <1>10, <1>12, <2>2
  <2>. QED BY <1>10, <1>12, <2>1, <2>2
<1>13. parsed'.calls = B
  BY <1>3 DEF B
<1>. QED BY <1>7, <1>9, <1>11, <1>12, <1>13 DEF Numbered

\* What was received is what the endpoint meant; so is the answer.
CallsInv ==
    /\ PlanTypeOK /\ BeginInOrder /\ Numbered(parsed.calls)
    /\ plan.indexed => AllMeant
    /\ stream = "opening" => parsed.calls = << >> /\ given = [c \in 1..MaxCalls |-> 0]
    /\ response.kind = "success" => stream = "closed" /\ response.calls = parsed.calls

NoneBegun ==
    PlanTypeOK /\ parsed.calls = << >> /\ given = [c \in 1..MaxCalls |-> 0]

LEMMA NothingYet == NoneBegun => BeginInOrder /\ Numbered(parsed.calls) /\ AllMeant
<1>. SUFFICES ASSUME NoneBegun PROVE BeginInOrder /\ Numbered(parsed.calls) /\ AllMeant
  OBVIOUS
<1>. USE DEF NoneBegun
<1>1. Begun = {}
  <2>1. PICK n \in 0..MaxCalls : DOMAIN plan.name = 1..n
    BY DEF PlanTypeOK
  <2>. QED BY <2>1, ProviderAssumption DEF Begun
<1>2. BeginInOrder
  <2>1. 1..0 = {} /\ 0 \in Nat
    OBVIOUS
  <2>. QED BY <1>1, <2>1 DEF BeginInOrder
<1>3. << >> = [c \in {} |-> Meant(c, given[c])]
  OBVIOUS
<1>4. AllMeant
  BY <1>1, <1>3 DEF AllMeant
<1>. QED BY <1>2, <1>4, MeantNumbered

LEMMA EmptiedHolds ==
    ASSUME NEW to, Emptied(to), response'.kind # "success"
    PROVE  CallsInv'
<1>1. parsed'.calls = << >> /\ given' = [c \in 1..MaxCalls |-> 0] /\ plan' = NoPlan
  BY DEF Emptied, NoneParsed
<1>2. PlanTypeOK'
  <2>1. DOMAIN << >> = 1..0 /\ 0 \in 0..MaxCalls
    BY ProviderAssumption
  <2>. QED BY <1>1, <2>1 DEF PlanTypeOK, NoPlan
<1>3. (BeginInOrder /\ Numbered(parsed.calls) /\ AllMeant)'
  <2>1. NoneBegun'
    BY <1>1, <1>2 DEF NoneBegun
  <2>. QED BY <2>1, NothingYet, PTL
<1>. QED BY <1>1, <1>2, <1>3 DEF CallsInv

LEMMA StartHolds ==
    ASSUME Init
    PROVE  CallsInv
<1>1. parsed.calls = << >> /\ given = [c \in 1..MaxCalls |-> 0] /\ plan = NoPlan
      /\ response.kind # "success"
  BY DEF Init, ProviderInit, NoneParsed, NoResponse
<1>2. PlanTypeOK
  <2>1. DOMAIN << >> = 1..0 /\ 0 \in 0..MaxCalls
    BY ProviderAssumption
  <2>. QED BY <1>1, <2>1 DEF PlanTypeOK, NoPlan
<1>. QED BY <1>1, <1>2, NothingYet DEF CallsInv, NoneBegun

LEMMA OpensHolds ==
    ASSUME CallsInv, \E n \in Nat : DOMAIN messages = 1..n, NEW p \in Plans, Opens(p)
    PROVE  CallsInv'
<1>1. PICK n \in 0..MaxCalls : /\ DOMAIN p.name = 1..n
                              /\ p.indexed \in BOOLEAN /\ p.identified \in BOOLEAN
  <2>. DEFINE told == {i \in DOMAIN messages : messages[i].role = "tool"}
  <2>1. Cardinality(told) \in Nat
    <3>1. PICK n \in Nat : DOMAIN messages = 1..n
      OBVIOUS
    <3>2. IsFiniteSet(1..n)
      BY FS_Interval
    <3>. QED BY <3>1, <3>2, FS_Subset, FS_CardinalityType
  <2>2. PICK n \in 0..(MaxCalls - Cardinality(told)) : p.name \in [1..n -> sent.tools \cup {Unknown}]
    BY DEF Plans
  <2>3. p.indexed \in BOOLEAN /\ p.identified \in BOOLEAN
    BY DEF Plans
  <2>. HIDE DEF told
  <2>. QED BY <2>1, <2>2, <2>3, ProviderAssumption
<1>2. /\ plan' = p /\ parsed' = parsed /\ given' = given /\ response' = response
      /\ parsed.calls = << >> /\ given = [c \in 1..MaxCalls |-> 0]
      /\ stream' = "open" /\ response.kind # "success"
  BY DEF Opens, CallsInv
<1>3. PlanTypeOK'
  BY <1>1, <1>2 DEF PlanTypeOK
<1>4. (BeginInOrder /\ Numbered(parsed.calls) /\ AllMeant)'
  <2>1. NoneBegun'
    BY <1>2, <1>3 DEF NoneBegun
  <2>. QED BY <2>1, NothingYet, PTL
<1>. QED BY <1>2, <1>3, <1>4 DEF CallsInv

LEMMA SameCalls ==
    ASSUME CallsInv, UNCHANGED <<plan, given>>, parsed'.calls = parsed.calls,
           stream' = stream \/ stream' = "closed",
           response'.kind = "success" => stream' = "closed" /\ response'.calls = parsed.calls
    PROVE  CallsInv'
<1>1. UNCHANGED <<Begun, PlanTypeOK>>
  BY DEF Begun, PlanTypeOK
<1>2. PlanTypeOK' /\ BeginInOrder'
  BY <1>1 DEF CallsInv, BeginInOrder
<1>3. Numbered(parsed.calls)'
  BY <1>1 DEF CallsInv, Numbered
<1>4. plan'.indexed => AllMeant'
  BY <1>1 DEF CallsInv, AllMeant, Meant
<1>5. stream' = "opening" => parsed'.calls = << >> /\ given' = [c \in 1..MaxCalls |-> 0]
  BY DEF CallsInv
<1>. QED BY <1>2, <1>3, <1>4, <1>5 DEF CallsInv

LEMMA ProviderHolds ==
    ASSUME CallsInv, ProviderNext
    PROVE  CallsInv'
<1>1. CASE Fails
  BY <1>1, EmptiedHolds DEF Fails, Failure
<1>2. CASE SendsText
  <2>1. PICK text \in BOOLEAN, reason \in BOOLEAN : Receives(Chunk(text, reason, << >>))
    BY <1>2 DEF SendsText
  <2>2. Chunk(text, reason, << >>).deltas = << >>
    BY DEF Chunk
  <2>3. parsed'.calls = Buffers(parsed.calls, << >>) /\ UNCHANGED <<stream, plan, response>>
        /\ stream = "open"
    BY <2>1, <2>2 DEF Receives
  <2>4. parsed'.calls = parsed.calls
    BY <2>3, NoDeltas DEF CallsInv, Numbered
  <2>. QED BY <1>2, <2>3, <2>4, SameCalls DEF SendsText, CallsInv
<1>3. CASE SendsFinish
  BY <1>3, SameCalls DEF SendsFinish, CallsInv
<1>4. CASE StreamEnds
  <2>1. /\ UNCHANGED <<plan, given, parsed>> /\ stream' = "closed"
        /\ response'.calls = parsed.calls
    BY <1>4 DEF StreamEnds, Parsed
  <2>. QED BY <2>1, SameCalls
<1>5. CASE SendsPieces
  <2>a. PICK n \in DOMAIN plan.name : \E of \in [1..n -> DOMAIN plan.name] :
          /\ \A j, k \in 1..n : j < k => of[j] < of[k]
          /\ \A k \in 1..n :
                given[of[k]] < Pieces
                /\ \A b \in 1..(of[k] - 1) : given[b] > 0 \/ \E j \in 1..n : of[j] = b
          /\ Receives(Chunk(FALSE, FALSE, [k \in 1..n |-> Delta(of[k], given[of[k]] + 1)]))
          /\ given' = [c \in DOMAIN given |->
                          IF \E k \in 1..n : of[k] = c THEN given[c] + 1 ELSE given[c]]
    BY <1>5 DEF SendsPieces
  <2>1. PICK of \in [1..n -> DOMAIN plan.name] :
          /\ \A j, k \in 1..n : j < k => of[j] < of[k]
          /\ \A k \in 1..n :
                given[of[k]] < Pieces
                /\ \A b \in 1..(of[k] - 1) : given[b] > 0 \/ \E j \in 1..n : of[j] = b
          /\ Receives(Chunk(FALSE, FALSE, [k \in 1..n |-> Delta(of[k], given[of[k]] + 1)]))
          /\ given' = [c \in DOMAIN given |->
                          IF \E k \in 1..n : of[k] = c THEN given[c] + 1 ELSE given[c]]
    BY <2>a
  <2>2. Chosen(n, of)
    <3>1. n \in Nat
      BY <2>a, ProviderAssumption DEF CallsInv, PlanTypeOK
    <3>. QED BY <2>1, <3>1 DEF Chosen
  <2>. DEFINE deltas == [k \in 1..n |-> Delta(of[k], given[of[k]] + 1)]
  <2>3. Chunk(FALSE, FALSE, deltas).deltas = deltas
    BY DEF Chunk
  <2>4. /\ parsed'.calls = Buffers(parsed.calls, deltas) /\ stream = "open"
        /\ UNCHANGED <<stream, plan, response>>
    <3>1. Receives(Chunk(FALSE, FALSE, deltas))
      BY <2>1
    <3>. HIDE DEF deltas
    <3>. QED BY <2>3, <3>1 DEF Receives
  <2>5. /\ PlanTypeOK' /\ BeginInOrder'
        /\ Begun' = Begun \cup {of[k] : k \in 1..n}
    <3>1. given' = [c \in DOMAIN given |->
                       IF \E k \in 1..n : of[k] = c THEN given[c] + 1 ELSE given[c]]
      BY <2>1
    <3>2. PlanTypeOK /\ BeginInOrder /\ UNCHANGED plan
      BY <2>4 DEF CallsInv
    <3>. QED BY <2>2, <3>1, <3>2, PiecesCounted
  <2>6. CASE plan.indexed
    <3>1. AllMeant'
      BY <2>1, <2>2, <2>4, <2>5, <2>6, IndexedPieces DEF CallsInv
    <3>2. Numbered(parsed.calls)'
      BY <2>5, <3>1, MeantNumbered, PTL
    <3>. QED BY <2>4, <2>5, <3>1, <3>2 DEF CallsInv
  <2>7. CASE ~ plan.indexed
    <3>1. Numbered(parsed.calls)'
      BY <2>2, <2>4, <2>5, <2>7, PlacedPieces DEF CallsInv
    <3>. QED BY <2>4, <2>5, <2>7, <3>1 DEF CallsInv
  <2>. QED BY <2>6, <2>7
<1>. QED BY <1>1, <1>2, <1>3, <1>4, <1>5 DEF ProviderNext

-----------------------------------------------------------------------------
(* Questions and answers in the history.                                   *)

TurnMessage == [role : {"user", "assistant", "tool"}, calls : Seq(Ident),
                answers : Ident \cup {<< >>}]

\* The calls of message i of history h are answered in their order, as far as the
\* history goes; t are those that are not.
Answers(h, t, i) ==
    LET calls == h[i].calls
    IN  /\ h[i].role = "assistant"
        /\ \A c, d \in DOMAIN calls : calls[c] = calls[d] => c = d
        /\ \A c \in DOMAIN calls : i + c <= Len(h) =>
              h[i + c].role = "tool" /\ h[i + c].answers = calls[c]
        /\ i + Len(calls) < Len(h) => h[i + Len(calls) + 1].role # "tool"
        /\ i + Len(calls) > Len(h) =>
              /\ Len(t) = i + Len(calls) - Len(h)
              /\ \A j \in 1..Len(t) : t[j].id = calls[Len(h) - i + j]

\* Message i asks for calls after the question of the turn.
AskedAt(h, i) == h[i].calls # << >> /\ \A j \in i..Len(h) : h[j].role # "user"

Paired(h, t) ==
    /\ \A i \in 1..Len(h) : AskedAt(h, i) => Answers(h, t, i)
    /\ t # << >> => \E i \in 1..Len(h) :
          AskedAt(h, i) /\ i + Len(h[i].calls) = Len(h) + Len(t)

Grown(h, m, k) ==
    /\ Len(h) \in Nat /\ Len(k) = Len(h) + 1 /\ k[Len(h) + 1] = m
    /\ \A i \in 1..Len(h) : k[i] = h[i] /\ h[i].calls \in Seq(Ident)

LEMMA AppendGrows ==
    ASSUME NEW h \in Seq(TurnMessage), NEW m \in TurnMessage
    PROVE  Append(h, m) \in Seq(TurnMessage) /\ Grown(h, m, Append(h, m))
<1>1. /\ Append(h, m) \in Seq(TurnMessage) /\ Len(Append(h, m)) = Len(h) + 1
      /\ \A i \in 1..Len(h) : Append(h, m)[i] = h[i]
      /\ Append(h, m)[Len(h) + 1] = m
  BY AppendProperties
<1>2. Len(h) \in Nat
  BY LenProperties
<1>3. ASSUME NEW i \in 1..Len(h) PROVE h[i].calls \in Seq(Ident)
  <2>1. h[i] \in TurnMessage
    BY ElementOfSeq
  <2>. QED BY <2>1 DEF TurnMessage
<1>. QED BY <1>1, <1>2, <1>3 DEF Grown

\* Whoever asked goes on to have asked, and nobody else begins to by a later message.
LEMMA AskedBefore ==
    ASSUME NEW h, NEW m, NEW k, Grown(h, m, k), m.role # "user", NEW i \in 1..Len(h)
    PROVE  AskedAt(k, i) <=> AskedAt(h, i)
<1>1. Len(h) \in Nat /\ Len(k) = Len(h) + 1 /\ k[Len(h) + 1] = m
      /\ \A j \in 1..Len(h) : k[j] = h[j]
  BY DEF Grown
<1>2. \A j \in i..Len(h) : j \in 1..Len(h) /\ j \in i..Len(k)
  BY <1>1
<1>3. \A j \in i..Len(k) : j \in i..Len(h) \/ j = Len(h) + 1
  BY <1>1
<1>. QED BY <1>1, <1>2, <1>3 DEF AskedAt

\* A message that answers none of them leaves answered calls as they are.
LEMMA AnsweredStay ==
    ASSUME NEW h, NEW m, NEW k, Grown(h, m, k), NEW s, NEW t, NEW i \in 1..Len(h),
           Answers(h, s, i), i + Len(h[i].calls) <= Len(h),
           i + Len(h[i].calls) = Len(h) => m.role # "tool"
    PROVE  Answers(k, t, i)
<1>. DEFINE calls == h[i].calls
            n == Len(calls)
<1>1. n \in Nat /\ DOMAIN calls = 1..n /\ k[i] = h[i] /\ Len(h) \in Nat /\ Len(k) = Len(h) + 1
      /\ i + n <= Len(h)
  BY LenProperties DEF Grown
<1>2. /\ h[i].role = "assistant"
      /\ \A c, d \in DOMAIN calls : calls[c] = calls[d] => c = d
      /\ \A c \in DOMAIN calls : i + c <= Len(h) =>
            h[i + c].role = "tool" /\ h[i + c].answers = calls[c]
      /\ i + n < Len(h) => h[i + n + 1].role # "tool"
  BY DEF Answers
<1>. HIDE DEF n
<1>3. ASSUME NEW c \in DOMAIN calls PROVE k[i + c].role = "tool" /\ k[i + c].answers = calls[c]
  <2>1. i + c \in 1..Len(h)
    BY <1>1
  <2>2. k[i + c] = h[i + c]
    BY <2>1 DEF Grown
  <2>. QED BY <1>2, <2>1, <2>2
<1>4. k[i + n + 1].role # "tool"
  <2>1. CASE i + n = Len(h)
    <3>1. k[i + n + 1] = m
      BY <2>1 DEF Grown
    <3>. QED BY <2>1, <3>1 DEF n
  <2>2. CASE i + n < Len(h)
    <3>1. i + n + 1 \in 1..Len(h)
      BY <1>1, <2>2
    <3>. QED BY <1>2, <2>2, <3>1 DEF Grown
  <2>. QED BY <1>1, <2>1, <2>2
<1>5. ~ (i + n > Len(k))
  BY <1>1
<1>6. k[i].calls = calls
  BY <1>1
<1>. HIDE DEF calls
<1>. QED BY <1>1, <1>2, <1>3, <1>4, <1>5, <1>6 DEF Answers, n, calls

\* A text is added when every call is answered.
LEMMA TextPaired ==
    ASSUME NEW h \in Seq(TurnMessage), Paired(h, << >>), NEW m \in TurnMessage,
           m.calls = << >>, m.role = "assistant"
    PROVE  Paired(Append(h, m), << >>)
<1>. DEFINE k == Append(h, m)
<1>1. Grown(h, m, k)
  BY AppendGrows
<1>. HIDE DEF k
<1>2. ASSUME NEW i \in 1..Len(k), AskedAt(k, i) PROVE Answers(k, << >>, i)
  <2>1. i \in 1..Len(h) /\ k[i] = h[i]
    BY <1>1, <1>2 DEF Grown, AskedAt
  <2>2. Answers(h, << >>, i)
    BY <1>1, <1>2, <2>1, AskedBefore DEF Paired
  <2>3. i + Len(h[i].calls) <= Len(h)
    <3>1. Len(h[i].calls) \in Nat /\ Len(h) \in Nat /\ Len(<< >>) = 0
      BY <1>1, <2>1, LenProperties DEF Grown
    <3>. QED BY <2>1, <2>2, <3>1 DEF Answers
  <2>. QED BY <1>1, <2>1, <2>2, <2>3, AnsweredStay
<1>. QED BY <1>2 DEF Paired, k

\* Calls are added.
LEMMA CallsPaired ==
    ASSUME NEW h \in Seq(TurnMessage), Paired(h, << >>), NEW m \in TurnMessage,
           m.calls # << >>, m.role = "assistant",
           \A c, d \in DOMAIN m.calls : m.calls[c] = m.calls[d] => c = d,
           NEW t, Len(t) = Len(m.calls), \A j \in 1..Len(t) : t[j].id = m.calls[j]
    PROVE  Paired(Append(h, m), t)
<1>. DEFINE k == Append(h, m)
<1>1. Grown(h, m, k)
  BY AppendGrows
<1>. HIDE DEF k
<1>2. ASSUME NEW i \in 1..Len(h), AskedAt(k, i) PROVE Answers(k, t, i)
  <2>1. k[i] = h[i]
    BY <1>1 DEF Grown
  <2>2. Answers(h, << >>, i)
    BY <1>1, <1>2, AskedBefore DEF Paired
  <2>3. i + Len(h[i].calls) <= Len(h)
    <3>1. Len(h[i].calls) \in Nat /\ Len(h) \in Nat /\ Len(<< >>) = 0
      BY <1>1, LenProperties DEF Grown
    <3>. QED BY <2>1, <2>2, <3>1 DEF Answers
  <2>. QED BY <1>1, <2>3, <2>2, AnsweredStay
<1>3. /\ Len(h) \in Nat /\ Len(k) = Len(h) + 1 /\ k[Len(h) + 1] = m
      /\ Len(m.calls) \in Nat /\ DOMAIN m.calls = 1..Len(m.calls)
  BY <1>1, LenProperties DEF Grown, TurnMessage
<1>4. Answers(k, t, Len(h) + 1)
  <2>. DEFINE i == Len(h) + 1
  <2>1. k[i] = m /\ i \in Nat /\ Len(k) = i
    BY <1>3
  <2>. HIDE DEF i
  <2>2. \A c \in DOMAIN m.calls : ~ (i + c <= Len(k))
    BY <1>3, <2>1
  <2>3. ~ (i + Len(m.calls) < Len(k))
    BY <1>3, <2>1
  <2>4. /\ Len(t) = i + Len(m.calls) - Len(k)
        /\ \A j \in 1..Len(t) : t[j].id = m.calls[Len(k) - i + j]
    <3>1. Len(t) = i + Len(m.calls) - Len(k)
      BY <1>3, <2>1
    <3>2. ASSUME NEW j \in 1..Len(t) PROVE t[j].id = m.calls[Len(k) - i + j]
      <4>1. j \in Nat /\ t[j].id = m.calls[j]
        BY <1>3
      <4>2. Len(k) - i + j = j
        BY <2>1, <4>1
      <4>. QED BY <4>1, <4>2
    <3>. QED BY <3>1, <3>2
  <2>5. Answers(k, t, i)
    BY <2>1, <2>2, <2>3, <2>4 DEF Answers
  <2>. QED BY <2>5 DEF i
<1>5. \E i \in 1..Len(k) : AskedAt(k, i) /\ i + Len(k[i].calls) = Len(k) + Len(t)
  <2>1. Len(h) + 1 \in 1..Len(k) /\ k[Len(h) + 1] = m
    BY <1>3
  <2>2. \A j \in (Len(h) + 1)..Len(k) : j = Len(h) + 1
    BY <1>3
  <2>3. AskedAt(k, Len(h) + 1)
    BY <2>1, <2>2 DEF AskedAt
  <2>. QED BY <1>3, <2>1, <2>3
<1>6. \A i \in 1..Len(k) : i \in 1..Len(h) \/ i = Len(h) + 1
  BY <1>3
<1>7. \A i \in 1..Len(k) : AskedAt(k, i) => Answers(k, t, i)
  BY <1>2, <1>4, <1>6
<1>8. Paired(k, t)
  BY <1>5, <1>7 DEF Paired
<1>. QED BY <1>8 DEF k

\* The next call is answered.
LEMMA AnswerPaired ==
    ASSUME NEW h \in Seq(TurnMessage), NEW S, NEW t \in Seq(S), t # << >>, Paired(h, t),
           NEW m \in TurnMessage, m.calls = << >>, m.role = "tool", m.answers = Head(t).id
    PROVE  Paired(Append(h, m), Tail(t))
<1>. DEFINE k == Append(h, m)
            u == Tail(t)
<1>1. Grown(h, m, k)
  BY AppendGrows
<1>2. /\ Len(t) \in Nat \ {0} /\ Len(u) = Len(t) - 1 /\ Head(t) = t[1]
      /\ \A j \in 1..Len(u) : u[j] = t[j + 1]
      /\ u # << >> => Len(u) > 0
  BY HeadTailProperties, LenProperties, EmptySeq
<1>3. Len(h) \in Nat /\ Len(k) = Len(h) + 1 /\ k[Len(h) + 1] = m
  BY <1>1 DEF Grown
<1>4. PICK o \in 1..Len(h) : AskedAt(h, o) /\ o + Len(h[o].calls) = Len(h) + Len(t)
  BY DEF Paired
<1>. HIDE DEF k, u
<1>5. ASSUME NEW i \in 1..Len(h), AskedAt(h, i)
      PROVE  /\ Answers(h, t, i) /\ h[i].role = "assistant" /\ k[i] = h[i]
             /\ Len(h[i].calls) \in Nat /\ DOMAIN h[i].calls = 1..Len(h[i].calls)
             /\ i + Len(h[i].calls) > Len(h) => i + Len(h[i].calls) = Len(h) + Len(t)
  <2>1. Answers(h, t, i) /\ k[i] = h[i] /\ h[i].calls \in Seq(Ident)
    BY <1>1, <1>5 DEF Paired, Grown
  <2>2. Len(h[i].calls) \in Nat /\ DOMAIN h[i].calls = 1..Len(h[i].calls)
    BY <2>1, LenProperties
  <2>. QED BY <1>2, <1>3, <2>1, <2>2 DEF Answers
\* Calls that are answered all: what comes after them is not this answer.
<1>6. ASSUME NEW i \in 1..Len(h), AskedAt(h, i), i + Len(h[i].calls) <= Len(h)
      PROVE  Answers(k, u, i)
  <2>1. i + Len(h[i].calls) # Len(h)
    <3>1. SUFFICES ASSUME i + Len(h[i].calls) = Len(h) PROVE FALSE
      OBVIOUS
    <3>2. /\ i \in 1..Len(h) /\ Len(h[i].calls) \in Nat /\ Len(h[o].calls) \in Nat
          /\ Len(t) \in Nat \ {0}
      BY <1>2, <1>4, <1>5, <1>6
    <3>3. CASE i < o
      <4>1. PICK c \in DOMAIN h[i].calls : i + c = o /\ i + c <= Len(h)
        <5>1. o - i \in DOMAIN h[i].calls /\ i + (o - i) = o /\ i + (o - i) <= Len(h)
          BY <1>3, <1>5, <1>6, <3>1, <3>2, <3>3
        <5>. QED BY <5>1
      <4>2. Answers(h, t, i)
        BY <1>5, <1>6
      <4>3. h[i + c].role = "tool"
        BY <4>1, <4>2 DEF Answers
      <4>4. h[o].role = "tool"
        BY <4>1, <4>3
      <4>. QED BY <1>4, <1>5, <4>4
    <3>4. CASE o < i
      <4>1. PICK c \in DOMAIN h[o].calls : o + c = i /\ o + c <= Len(h)
        <5>1. i - o \in DOMAIN h[o].calls /\ o + (i - o) = i /\ o + (i - o) <= Len(h)
          BY <1>3, <1>4, <1>5, <3>1, <3>2, <3>4
        <5>. QED BY <5>1
      <4>2. Answers(h, t, o)
        BY <1>4, <1>5
      <4>3. h[o + c].role = "tool"
        BY <4>1, <4>2 DEF Answers
      <4>4. h[i].role = "tool"
        BY <4>1, <4>3
      <4>. QED BY <1>5, <1>6, <4>4
    <3>5. CASE o = i
      BY <1>3, <1>4, <3>1, <3>2, <3>5
    <3>. QED BY <3>2, <3>3, <3>4, <3>5
  <2>. QED BY <1>1, <1>5, <1>6, <2>1, AnsweredStay
\* Calls that are not: this answers the next of them.
<1>7. ASSUME NEW i \in 1..Len(h), AskedAt(h, i), i + Len(h[i].calls) > Len(h)
      PROVE  Answers(k, u, i)
  <2>. DEFINE calls == h[i].calls
              n == Len(calls)
              l == Len(h)
  <2>1. /\ n \in Nat /\ l \in Nat /\ DOMAIN calls = 1..n /\ k[i].calls = calls
        /\ i + n = l + Len(t) /\ k[i] = h[i] /\ Len(k) = l + 1 /\ i \in 1..l
    BY <1>3, <1>5, <1>7
  <2>2. /\ h[i].role = "assistant"
        /\ \A c, d \in DOMAIN calls : calls[c] = calls[d] => c = d
        /\ \A c \in DOMAIN calls : i + c <= l =>
              h[i + c].role = "tool" /\ h[i + c].answers = calls[c]
        /\ \A j \in 1..Len(t) : t[j].id = calls[l - i + j]
    BY <1>5, <1>7 DEF Answers
  <2>3. \A j \in 1..l : k[j] = h[j]
    BY <1>1 DEF Grown
  <2>. HIDE DEF calls, n, l
  <2>4. ASSUME NEW c \in DOMAIN calls, i + c <= Len(k)
        PROVE  k[i + c].role = "tool" /\ k[i + c].answers = calls[c]
    <3>1. CASE i + c <= l
      <4>1. i + c \in 1..l
        BY <2>1, <3>1
      <4>. QED BY <2>2, <2>3, <3>1, <4>1
    <3>2. CASE i + c = l + 1
      <4>1. 1 \in 1..Len(t) /\ c = l - i + 1
        BY <1>2, <2>1, <3>2
      <4>2. t[1].id = calls[c]
        BY <2>2, <4>1
      <4>3. k[i + c] = m
        BY <1>3, <3>2 DEF l
      <4>. QED BY <1>2, <4>2, <4>3
    <3>. QED BY <2>1, <2>4, <3>1, <3>2
  <2>5. ~ (i + n < Len(k))
    BY <1>2, <2>1
  <2>6. Len(u) = i + n - Len(k)
    BY <1>2, <2>1
  <2>7. ASSUME NEW j \in 1..Len(u) PROVE u[j].id = calls[Len(k) - i + j]
    <3>1. j + 1 \in 1..Len(t) /\ u[j] = t[j + 1] /\ Len(k) - i + j = l - i + (j + 1)
      BY <1>2, <2>1
    <3>2. t[j + 1].id = calls[l - i + (j + 1)]
      BY <2>2, <3>1
    <3>. QED BY <3>1, <3>2
  <2>. QED BY <2>1, <2>2, <2>4, <2>5, <2>6, <2>7 DEF Answers, n
<1>8. \A i \in 1..Len(k) : AskedAt(k, i) => Answers(k, u, i)
  <2>1. \A i \in 1..Len(k) : i \in 1..Len(h) \/ i = Len(h) + 1
    BY <1>3
  <2>2. \A i \in 1..Len(h) : AskedAt(k, i) => Answers(k, u, i)
    <3>1. ASSUME NEW i \in 1..Len(h), AskedAt(k, i) PROVE Answers(k, u, i)
      <4>1. AskedAt(h, i)
        BY <1>1, <3>1, AskedBefore
      <4>2. Len(h[i].calls) \in Nat /\ i \in Nat
        BY <1>3, <1>5, <4>1
      <4>. QED BY <1>3, <1>6, <1>7, <4>1, <4>2
    <3>. QED BY <3>1
  <2>. QED BY <1>1, <1>3, <2>1, <2>2 DEF Grown, AskedAt
<1>9. u # << >> => \E i \in 1..Len(k) : AskedAt(k, i) /\ i + Len(k[i].calls) = Len(k) + Len(u)
  <2>1. AskedAt(k, o)
    BY <1>1, <1>4, AskedBefore
  <2>2. o \in 1..Len(k) /\ k[o] = h[o] /\ o + Len(h[o].calls) = Len(k) + Len(u)
    <3>1. Len(h[o].calls) \in Nat /\ k[o] = h[o]
      BY <1>4, <1>5
    <3>2. o \in 1..Len(k) /\ Len(h) + Len(t) = Len(k) + Len(u)
      BY <1>2, <1>3
    <3>. QED BY <1>4, <3>1, <3>2
  <2>. QED BY <2>1, <2>2
<1>10. Paired(k, u)
  BY <1>8, <1>9 DEF Paired
<1>. QED BY <1>10 DEF k, u

\* Digests keep identifiers apart.
LEMMA NormalizedApart ==
    ASSUME NEW x \in Ident, NEW y \in Ident, Normalized(x) = Normalized(y)
    PROVE  x = y
<1>1. ASSUME NEW id \in Ident
      PROVE  \/ \E n \in Nat : id = <<"endpoint", n>> /\ Normalized(id) = <<"digest", n>>
             \/ \E r, k \in Nat : id = <<"short", r, k>> /\ Normalized(id) = id
  BY <1>1 DEF Ident, Normalized
<1>2. \A n, r, k \in Nat : <<"digest", n>> # <<"short", r, k>>
  OBVIOUS
<1>3. \A n, l \in Nat : <<"digest", n>> = <<"digest", l>> => n = l
  OBVIOUS
<1>. QED BY <1>1, <1>2, <1>3

LEMMA SanitizedIs ==
    ASSUME NEW h \in Seq(TurnMessage)
    PROVE  /\ DOMAIN Sanitized(h) = 1..Len(h) /\ Len(Sanitized(h)) = Len(h)
           /\ \A i \in 1..Len(h) :
                 /\ Sanitized(h)[i].role = h[i].role
                 /\ Sanitized(h)[i].calls
                        = [c \in DOMAIN h[i].calls |-> Normalized(h[i].calls[c])]
                 /\ Sanitized(h)[i].answers = Normalized(h[i].answers)
<1>1. DOMAIN h = 1..Len(h) /\ Len(h) \in Nat
  BY LenProperties
<1>2. DOMAIN Sanitized(h) = 1..Len(h) /\ Len(Sanitized(h)) = Len(h)
  BY <1>1 DEF Sanitized
<1>3. ASSUME NEW i \in 1..Len(h)
      PROVE  /\ Sanitized(h)[i].role = h[i].role
             /\ Sanitized(h)[i].calls
                    = [c \in DOMAIN h[i].calls |-> Normalized(h[i].calls[c])]
             /\ Sanitized(h)[i].answers = Normalized(h[i].answers)
  <2>1. h[i] \in TurnMessage
    BY ElementOfSeq
  <2>2. Sanitized(h)[i] =
            [h[i] EXCEPT !.calls = [c \in DOMAIN h[i].calls |-> Normalized(h[i].calls[c])],
                         !.answers = Normalized(h[i].answers)]
    BY <1>1 DEF Sanitized
  <2>. QED BY <2>1, <2>2 DEF TurnMessage
<1>. QED BY <1>2, <1>3

LEMMA SentPaired ==
    ASSUME NEW h \in Seq(TurnMessage), Paired(h, << >>), NEW s, s = Sanitized(h)
    PROVE  PairsIn(s)
<1>1. /\ DOMAIN s = 1..Len(h) /\ Len(s) = Len(h) /\ Len(h) \in Nat
      /\ \A i \in 1..Len(h) :
            /\ s[i].role = h[i].role
            /\ s[i].calls = [c \in DOMAIN h[i].calls |-> Normalized(h[i].calls[c])]
            /\ s[i].answers = Normalized(h[i].answers)
  BY SanitizedIs, LenProperties
<1>3. SUFFICES ASSUME NEW i \in 1..Len(h), s[i].calls # << >>, OfTurn(s, i)
               PROVE  AnsweredAt(s, i)
  BY <1>1 DEF PairsIn
<1>. DEFINE asked == h[i].calls
            calls == s[i].calls
            n == Len(asked)
<1>4. /\ asked \in Seq(Ident) /\ n \in Nat /\ DOMAIN asked = 1..n
      /\ DOMAIN calls = 1..n /\ Len(calls) = n
      /\ \A c \in 1..n : calls[c] = Normalized(asked[c]) /\ asked[c] \in Ident
  <2>1. h[i] \in TurnMessage
    BY ElementOfSeq
  <2>2. asked \in Seq(Ident) /\ n \in Nat /\ DOMAIN asked = 1..n
    BY <2>1, LenProperties DEF TurnMessage
  <2>3. \A c \in 1..n : asked[c] \in Ident
    BY <2>2, ElementOfSeq
  <2>4. calls = [c \in 1..n |-> Normalized(asked[c])]
    BY <1>1, <2>2
  <2>. HIDE DEF calls, asked, n
  <2>. QED BY <2>2, <2>3, <2>4
<1>5. asked # << >>
  <2>1. SUFFICES ASSUME asked = << >> PROVE calls = << >>
    BY <1>3
  <2>2. calls = [c \in DOMAIN asked |-> Normalized(asked[c])]
    BY <1>1
  <2>3. DOMAIN asked = {}
    BY <2>1
  <2>. HIDE DEF calls, asked
  <2>. QED BY <2>2, <2>3
<1>6. Answers(h, << >>, i)
  <2>1. \A j \in i..Len(h) : j \in 1..Len(h) /\ j >= i
    BY <1>1
  <2>2. \A j \in i..Len(h) : h[j].role # "user"
    BY <1>1, <1>3, <2>1 DEF OfTurn
  <2>3. AskedAt(h, i)
    BY <1>5, <2>2 DEF AskedAt
  <2>. QED BY <2>3 DEF Paired
<1>7. /\ \A c, d \in 1..n : asked[c] = asked[d] => c = d
      /\ \A c \in 1..n : i + c <= Len(h) =>
            h[i + c].role = "tool" /\ h[i + c].answers = asked[c]
      /\ i + n < Len(h) => h[i + n + 1].role # "tool"
      /\ i + n <= Len(h)
  <2>1. Len(<< >>) = 0
    OBVIOUS
  <2>2. /\ \A c, d \in DOMAIN asked : asked[c] = asked[d] => c = d
        /\ \A c \in DOMAIN asked : i + c <= Len(h) =>
              h[i + c].role = "tool" /\ h[i + c].answers = asked[c]
        /\ i + n < Len(h) => h[i + n + 1].role # "tool"
        /\ i + n > Len(h) => Len(<< >>) = i + n - Len(h)
    BY <1>6 DEF Answers
  <2>3. i \in Nat /\ n \in Nat /\ Len(h) \in Nat /\ DOMAIN asked = 1..n
    BY <1>1, <1>4
  <2>. HIDE DEF asked, n
  <2>4. i + n <= Len(h)
    BY <2>1, <2>2, <2>3
  <2>. QED BY <2>2, <2>3, <2>4
<1>. HIDE DEF asked, calls, n
<1>8. ASSUME NEW c \in 1..n PROVE s[i + c].role = "tool" /\ s[i + c].answers = calls[c]
  <2>1. i + c \in 1..Len(h) /\ i + c <= Len(h)
    BY <1>1, <1>4, <1>7
  <2>2. h[i + c].role = "tool" /\ h[i + c].answers = asked[c]
    BY <1>7, <2>1
  <2>3. s[i + c].role = h[i + c].role /\ s[i + c].answers = Normalized(h[i + c].answers)
    BY <1>1, <2>1
  <2>4. calls[c] = Normalized(asked[c])
    BY <1>4
  <2>. QED BY <2>2, <2>3, <2>4
<1>9. ASSUME NEW c \in DOMAIN calls
      PROVE  Cardinality({d \in DOMAIN calls : s[i + d].answers = calls[c]}) = 1
  <2>1. DOMAIN calls = 1..n
    BY <1>4
  <2>2. \A d \in DOMAIN calls : s[i + d].answers = calls[c] => d = c
    <3>1. SUFFICES ASSUME NEW d \in 1..n, calls[d] = calls[c] PROVE d = c
      BY <1>8, <2>1
    <3>2. Normalized(asked[d]) = Normalized(asked[c]) /\ asked[d] \in Ident /\ asked[c] \in Ident
      BY <1>4, <2>1, <3>1
    <3>. QED BY <1>7, <2>1, <3>2, NormalizedApart
  <2>3. {d \in DOMAIN calls : s[i + d].answers = calls[c]} = {c}
    BY <1>8, <2>1, <2>2
  <2>. QED BY <2>3, FS_Singleton
<1>10. i + n < Len(h) => s[i + n + 1].role # "tool"
  <2>1. i + n < Len(h) => i + n + 1 \in 1..Len(h)
    BY <1>1, <1>4
  <2>. QED BY <1>1, <1>7, <2>1
<1>11. Len(s) >= i + n /\ (Len(s) > i + n => s[i + n + 1].role # "tool")
  BY <1>1, <1>4, <1>7, <1>10
<1>12. Len(calls) = n /\ \A c \in DOMAIN calls : s[i + c].role = "tool"
  BY <1>4, <1>8
<1>13. \A c \in DOMAIN calls :
          /\ s[i + c].role = "tool"
          /\ Cardinality({d \in DOMAIN calls : s[i + d].answers = calls[c]}) = 1
  BY <1>9, <1>12
<1>14. /\ Len(s) >= i + Len(calls)
       /\ Len(s) > i + Len(calls) => s[i + Len(calls) + 1].role # "tool"
  BY <1>11, <1>12
<1>. QED BY <1>13, <1>14 DEF calls, AnsweredAt

-----------------------------------------------------------------------------
(* The turn.                                                               *)

Calls(S) == [name : S, id : Ident]

\* The calls not executed yet are the last of the history, and every other one is
\* answered right after it, in order.
TurnInv ==
    /\ messages \in Seq(TurnMessage) /\ round \in Nat
    /\ \E S : todo \in Seq(Calls(S))
    /\ Paired(messages, todo)
    /\ turn \in {"ask", "model"} => todo = << >>
    /\ turn = "exec" => todo # << >>

LEMMA TextIs ==
    ASSUME NEW role \in {"user", "assistant", "tool"}
    PROVE  Text(role) \in TurnMessage /\ Text(role).role = role /\ Text(role).calls = << >>
<1>1. << >> \in Seq(Ident)
  BY EmptySeq
<1>. QED BY <1>1 DEF Text, TurnMessage

LEMMA ToolMessageIs ==
    ASSUME NEW id \in Ident
    PROVE  /\ ToolMessage(id) \in TurnMessage /\ ToolMessage(id).role = "tool"
           /\ ToolMessage(id).calls = << >> /\ ToolMessage(id).answers = id
<1>1. << >> \in Seq(Ident)
  BY EmptySeq
<1>. QED BY <1>1 DEF ToolMessage, Text, TurnMessage

LEMMA AskingIs ==
    ASSUME NEW calls \in Seq(Ident)
    PROVE  /\ Asking(calls) \in TurnMessage /\ Asking(calls).role = "assistant"
           /\ Asking(calls).calls = calls
BY DEF Asking, Text, TurnMessage

\* Calls with and without an identifier of the endpoint are told apart.
LEMMA IdentifiersApart ==
    ASSUME BeginInOrder, round \in Nat, NEW calls, Numbered(calls)
    PROVE  /\ \A c \in DOMAIN calls : Identifier(calls[c]) \in Ident
           /\ \A c, d \in DOMAIN calls :
                 Identifier(calls[c]) = Identifier(calls[d]) => c = d
<1>1. Begun \subseteq Nat
  BY DEF BeginInOrder
<1>2. DOMAIN calls \subseteq Nat
  BY DEF Numbered
<1>3. ASSUME NEW c \in DOMAIN calls
      PROVE  /\ calls[c].id \in Nat /\ calls[c].key = c /\ c \in Nat
             /\ IF calls[c].id # 0 THEN Identifier(calls[c]) = <<"endpoint", calls[c].id>>
                                   ELSE Identifier(calls[c]) = <<"short", round, c>>
  BY <1>1, <1>2, <1>3 DEF Numbered, Identifier
<1>4. \A n, r, k \in Nat : <<"endpoint", n>> # <<"short", r, k>>
  OBVIOUS
<1>5. \A n, l \in Nat : <<"endpoint", n>> = <<"endpoint", l>> => n = l
  OBVIOUS
<1>6. \A r, k, l \in Nat : <<"short", r, k>> = <<"short", r, l>> => k = l
  OBVIOUS
<1>7. ASSUME NEW c \in DOMAIN calls PROVE Identifier(calls[c]) \in Ident
  BY <1>3 DEF Ident
<1>8. ASSUME NEW c \in DOMAIN calls, NEW d \in DOMAIN calls,
             Identifier(calls[c]) = Identifier(calls[d])
      PROVE  c = d
  <2>1. CASE calls[c].id # 0 /\ calls[d].id # 0
    <3>1. calls[c].id = calls[d].id
      BY <1>3, <1>5, <1>8, <2>1
    <3>. QED BY <2>1, <3>1 DEF Numbered
  <2>2. CASE calls[c].id = 0 /\ calls[d].id = 0
    BY <1>3, <1>6, <1>8, <2>2
  <2>. QED BY <1>3, <1>4, <1>8, <2>1, <2>2
<1>. QED BY <1>7, <1>8

LEMMA NothingAsked ==
    ASSUME Init
    PROVE  TurnInv
<1>. DEFINE n == Len(messages)
<1>1. /\ messages \in Seq(StoredMessage)
      /\ messages # << >> /\ messages[n].role = "user"
  BY HistoriesAssumption DEF Init
<1>2. n \in Nat
  BY <1>1, LenProperties
<1>3. messages \in Seq(TurnMessage)
  <2>1. StoredMessage \subseteq TurnMessage
    BY DEF StoredMessage, TurnMessage
  <2>2. DOMAIN messages = 1..n
    BY <1>1, LenProperties
  <2>3. \A i \in 1..n : messages[i] \in TurnMessage
    BY <1>1, <2>1, ElementOfSeq
  <2>4. messages \in [1..n -> TurnMessage]
    <3>1. messages = [i \in 1..n |-> messages[i]]
      BY <1>1, <2>2
    <3>. QED BY <2>3, <3>1
  <2>. QED BY <1>2, <2>4, SeqDef
<1>4. todo = << >> /\ turn = "ask" /\ round = 0 /\ << >> \in Seq(Calls({}))
  BY EmptySeq DEF Init
<1>5. ASSUME NEW i \in 1..n PROVE ~ AskedAt(messages, i)
  <2>1. n \in i..n
    BY <1>2
  <2>. QED BY <1>1, <2>1 DEF AskedAt
<1>6. Paired(messages, todo)
  BY <1>4, <1>5 DEF Paired
<1>. QED BY <1>3, <1>4, <1>6 DEF TurnInv

LEMMA AnswerCallsHolds ==
    ASSUME TurnInv, CallsInv, AnswerCalls
    PROVE  TurnInv'
<1>. DEFINE answer == response.calls
            calls == [c \in DOMAIN answer |->
                         [name |-> answer[c].name, id |-> Identifier(answer[c])]]
            ids == [c \in DOMAIN calls |-> calls[c].id]
            names == {answer[c].name : c \in DOMAIN answer}
<1>1. /\ messages' = Append(messages, Asking(ids)) /\ todo' = calls /\ round' = round
      /\ turn' = "tools" /\ turn = "model" /\ answer # << >> /\ answer = parsed.calls
  BY DEF AnswerCalls, Answered, CallsInv
<1>2. Numbered(answer) /\ BeginInOrder
  BY <1>1 DEF CallsInv
<1>3. PICK n \in Nat : DOMAIN answer = 1..n
  BY <1>2 DEF Numbered
<1>4. n # 0
  <2>1. SUFFICES ASSUME n = 0 PROVE FALSE
    OBVIOUS
  <2>2. answer = [k \in DOMAIN answer |-> answer[k]] /\ DOMAIN answer = {}
    BY <1>2, <1>3, <2>1 DEF Numbered
  <2>. HIDE DEF answer
  <2>. QED BY <1>1, <2>2
<1>5. /\ \A c \in 1..n : Identifier(answer[c]) \in Ident
      /\ \A c, d \in 1..n : Identifier(answer[c]) = Identifier(answer[d]) => c = d
  BY <1>2, <1>3, IdentifiersApart DEF TurnInv
<1>. HIDE DEF answer
<1>6. /\ DOMAIN calls = 1..n /\ DOMAIN ids = 1..n
      /\ \A c \in 1..n : /\ calls[c] \in Calls(names) /\ calls[c].id = Identifier(answer[c])
                         /\ ids[c] = Identifier(answer[c])
  BY <1>3, <1>5 DEF Calls
<1>7. calls \in Seq(Calls(names)) /\ Len(calls) = n
  <2>1. calls \in [1..n -> Calls(names)]
    BY <1>3, <1>6
  <2>. QED BY <2>1, SeqDef, LenProperties
<1>8. ids \in Seq(Ident) /\ Len(ids) = n
  <2>1. ids \in [1..n -> Ident]
    BY <1>5, <1>6
  <2>. QED BY <2>1, SeqDef, LenProperties
<1>. HIDE DEF calls, ids
<1>9. /\ Asking(ids) \in TurnMessage /\ Asking(ids).role = "assistant"
      /\ Asking(ids).calls = ids
  BY <1>8, AskingIs
<1>10. todo = << >> /\ messages \in Seq(TurnMessage) /\ Paired(messages, << >>)
       /\ round \in Nat
  BY <1>1 DEF TurnInv
<1>11. ids # << >>
  BY <1>4, <1>8
<1>12. Paired(messages', todo')
  <2>1. \A c, d \in DOMAIN ids : ids[c] = ids[d] => c = d
    BY <1>5, <1>6
  <2>2. \A j \in 1..Len(calls) : calls[j].id = ids[j]
    BY <1>6, <1>7
  <2>3. Len(calls) = Len(ids)
    BY <1>7, <1>8
  <2>. DEFINE m == Asking(ids)
  <2>4. m \in TurnMessage /\ m.role = "assistant" /\ m.calls = ids
    BY <1>9
  <2>. HIDE DEF m
  <2>5. /\ m.calls # << >> /\ Len(calls) = Len(m.calls)
        /\ \A c, d \in DOMAIN m.calls : m.calls[c] = m.calls[d] => c = d
        /\ \A j \in 1..Len(calls) : calls[j].id = m.calls[j]
    BY <1>11, <2>1, <2>2, <2>3, <2>4
  <2>6. Paired(Append(messages, m), calls)
    BY <1>10, <2>4, <2>5, CallsPaired
  <2>. QED BY <1>1, <2>6 DEF m
<1>13. messages' \in Seq(TurnMessage)
  BY <1>1, <1>9, <1>10, AppendGrows
<1>. QED BY <1>1, <1>7, <1>10, <1>12, <1>13 DEF TurnInv

LEMMA AnswerEndsHolds ==
    ASSUME TurnInv, AnswerEnds
    PROVE  TurnInv'
<1>1. /\ turn = "model" /\ todo' = todo /\ round' = round
      /\ \/ turn' = "ask" /\ messages' = messages
         \/ turn' = "end" /\ messages' = Append(messages, Text("assistant"))
  BY DEF AnswerEnds, Answered
<1>2. todo = << >> /\ messages \in Seq(TurnMessage) /\ Paired(messages, << >>)
      /\ round \in Nat
  BY <1>1 DEF TurnInv
<1>3. /\ Append(messages, Text("assistant")) \in Seq(TurnMessage)
      /\ Paired(Append(messages, Text("assistant")), << >>)
  BY <1>2, TextIs, TextPaired, AppendGrows
<1>. QED BY <1>1, <1>2, <1>3 DEF TurnInv

LEMMA ToolAnsweredHolds ==
    ASSUME TurnInv, todo # << >>, ToolAnswered
    PROVE  TurnInv'
<1>. DEFINE m == ToolMessage(Head(todo).id)
<1>1. PICK S : todo \in Seq(Calls(S))
  BY DEF TurnInv
<1>2. Head(todo) \in Calls(S) /\ Tail(todo) \in Seq(Calls(S))
  BY <1>1, HeadTailProperties
<1>3. /\ m \in TurnMessage /\ m.role = "tool" /\ m.calls = << >>
      /\ m.answers = Head(todo).id
  BY <1>2, ToolMessageIs DEF Calls
<1>4. /\ messages' = Append(messages, m) /\ todo' = Tail(todo) /\ turn' = "tools"
      /\ round' = round
  BY DEF ToolAnswered
<1>. HIDE DEF m
<1>5. Paired(messages', todo') /\ messages' \in Seq(TurnMessage)
  BY <1>1, <1>3, <1>4, AnswerPaired, AppendGrows DEF TurnInv
<1>6. \E R : todo' \in Seq(Calls(R))
  BY <1>2, <1>4
<1>. QED BY <1>4, <1>5, <1>6 DEF TurnInv

LEMMA SameTurn ==
    ASSUME TurnInv, UNCHANGED <<messages, todo, round>>,
           turn' \in {"ask", "model"} => todo = << >>,
           turn' = "exec" => todo # << >>
    PROVE  TurnInv'
BY DEF TurnInv

LEMMA TurnInvHolds == TurnInv /\ CallsInv /\ [Next]_vars => TurnInv' /\ CallsInv'
<1>. SUFFICES ASSUME TurnInv, CallsInv, [Next]_vars PROVE TurnInv' /\ CallsInv'
  OBVIOUS
<1>a. ASSUME UNCHANGED providerVars PROVE CallsInv'
  BY <1>a, SameCalls DEF providerVars, CallsInv
<1>b. ASSUME CallOver PROVE CallsInv'
  BY <1>b, EmptiedHolds DEF CallOver, NoResponse
<1>1. CASE Asks
  <2>1. TurnInv'
    <3>1. todo = << >> /\ round \in Nat /\ round' \in Nat
      BY <1>1 DEF Asks, TurnInv
    <3>. QED BY <1>1, <3>1 DEF Asks, TurnInv
  <2>2. CallsInv'
    <3>1. \E to \in {"opening", "closed"} : Emptied(to) /\ response'.kind # "success"
      BY <1>1 DEF Asks, CallBegins, NoResponse, Failure
    <3>. QED BY <3>1, EmptiedHolds
  <2>. QED BY <2>1, <2>2
<1>2. CASE Endpoint
  <2>1. TurnInv'
    BY <1>2, SameTurn DEF Endpoint, turnVars, TurnInv
  <2>2. CallsInv'
    <3>1. \E n \in Nat : DOMAIN messages = 1..n
      BY LenProperties DEF TurnInv
    <3>. QED BY <1>2, <3>1, ProviderHolds, OpensHolds DEF Endpoint
  <2>. QED BY <2>1, <2>2
<1>3. CASE AnswerFails
  BY <1>3, <1>b, SameTurn DEF AnswerFails
<1>4. CASE AnswerCalls
  BY <1>4, <1>b, AnswerCallsHolds DEF AnswerCalls
<1>5. CASE AnswerEnds
  BY <1>5, <1>b, AnswerEndsHolds DEF AnswerEnds
<1>6. CASE ToolRuns
  BY <1>6, <1>a, ToolAnsweredHolds DEF ToolRuns
<1>7. CASE ExecBegins
  BY <1>7, <1>a, SameTurn DEF ExecBegins
<1>8. CASE ExecAnswers
  <2>1. todo # << >>
    BY <1>8 DEF ExecAnswers, TurnInv
  <2>. QED BY <1>8, <1>a, <2>1, ToolAnsweredHolds DEF ExecAnswers
<1>9. CASE AsksAgain
  BY <1>9, <1>a, SameTurn DEF AsksAgain
<1>10. CASE Stops \/ Drops
  BY <1>10, <1>a, SameTurn DEF Stops, Drops
<1>11. CASE DropsCall
  BY <1>11, <1>b, SameTurn DEF DropsCall
<1>12. CASE Shell \/ ToolsChange
  BY <1>12, <1>a, SameTurn DEF Shell, ToolsChange, turnVars, TurnInv
<1>13. CASE UNCHANGED vars
  BY <1>13, <1>a, SameTurn DEF vars, turnVars, TurnInv
<1>. QED BY <1>1, <1>2, <1>3, <1>4, <1>5, <1>6, <1>7, <1>8, <1>9, <1>10, <1>11, <1>12,
            <1>13 DEF Next

LEMMA TurnHolds == Spec => [](TurnInv /\ CallsInv)
<1>1. Init => TurnInv /\ CallsInv
  BY NothingAsked, StartHolds
<1>. QED BY <1>1, TurnInvHolds, PTL DEF Spec

\* Whatever pieces an answer comes in, if the endpoint numbers them its calls are those
\* the endpoint sent, each with its name and its arguments in order (openai.py:571),
\* for any number of calls and pieces.
THEOREM CallsAreAssembled == Spec => []CallsAssembled
<1>1. CallsInv => CallsAssembled
  BY DEF CallsInv, CallsAssembled, AllMeant, Meant
<1>. QED BY <1>1, TurnHolds, PTL

\* In every history the endpoint is sent each call of a tool is answered once, and
\* right after it, with or without identifiers of the endpoint's own, for turns of any
\* length and any calls (openai.py:240, runner.py:248).
THEOREM HistoryIsPaired == Spec => []PairsKept
<1>1. Init => PairsKept
  BY DEF Init, PairsKept, PairsIn
<1>2. TurnInv /\ PairsKept /\ [Next]_vars => PairsKept'
  <2>. SUFFICES ASSUME TurnInv, PairsKept, [Next]_vars PROVE PairsKept'
    OBVIOUS
  <2>1. ASSUME UNCHANGED sent PROVE PairsKept'
    BY <2>1 DEF PairsKept
  <2>2. CASE Asks
    <3>1. sent'.messages = Sanitized(messages) /\ messages \in Seq(TurnMessage)
          /\ Paired(messages, << >>)
      BY <2>2 DEF Asks, TurnInv
    <3>. QED BY <3>1, SentPaired DEF PairsKept
  <2>3. CASE UNCHANGED vars
    BY <2>1, <2>3 DEF vars, turnVars
  <2>. QED BY <2>1, <2>2, <2>3
       DEF Next, Endpoint, AnswerFails, AnswerCalls, AnswerEnds, ToolRuns, ToolAnswered,
           ExecBegins, ExecAnswers, AsksAgain, Shell, Stops, Drops, DropsCall, ToolsChange,
           turnVars
<1>. QED BY <1>1, <1>2, TurnHolds, PTL DEF Spec

=============================================================================
