------------------------------ MODULE RunnerProofs ------------------------------
(***************************************************************************)
(* Theorems about AgentRunner, for any limits of iterations, tool calls    *)
(* and empty responses, and for queues of any length.                      *)
(***************************************************************************)
EXTENDS RunnerProperties, SequenceTheorems, TLAPS

USE MaxIterationsAssumption, EmptyThresholdAssumption, MaxToolsAssumption

--------------------------------------------------------------------------------
(* The inductive invariant *)

\* run_stream is over exactly when its stream is.
ClosedIsOver == pc = "closed" <=> outcome # "open"

\* The loop never goes on with as many empty responses as it tolerates.
EmptiesBelow == pc \notin {"failed", "closed"} => empties < EmptyThreshold

RunnerInv == TypeOK /\ ClosedIsOver /\ EmptiesBelow

\* Putting an item in event_queue keeps it a queue.
LEMMA PutType ==
    ASSUME TypeOK, NEW kind \in {"content", "progress", "None"}, Put(kind)
    PROVE  queue' \in Seq(Item)
<1>1. [call |-> iteration, kind |-> kind] \in Item
  BY DEF TypeOK, Item
<1>2. queue \in Seq(Item)
  BY DEF TypeOK
<1>. QED BY <1>1, <1>2, AppendProperties DEF Put

\* Each way to go on keeps the variables of the loop in range.
LEMMA ContinueInv ==
    ASSUME RunnerInv, Continue, empties' \in 0..EmptyThreshold,
           empties' < EmptyThreshold, outcome = "open",
           pc \notin {"failed", "closed"},
           UNCHANGED <<queue, cancelled, timedOut>>
    PROVE  RunnerInv'
<1>. USE DEF RunnerInv, TypeOK, ClosedIsOver, EmptiesBelow, PC, Event, Terminal,
             Running, callVars, Emit, Goto
<1>1. CASE iteration = MaxIterations /\ Finish("completed") /\ UNCHANGED callVars
  BY <1>1 DEF Finish
<1>2. CASE iteration < MaxIterations /\ cancelled /\ Abort
  BY <1>2 DEF Abort
<1>3. CASE iteration < MaxIterations /\ ~cancelled /\ Launch
  BY <1>3 DEF Launch
<1>. QED BY <1>1, <1>2, <1>3 DEF Continue

LEMMA NextToolInv ==
    ASSUME RunnerInv, NEW n \in 1..MaxTools, NextTool(n), outcome = "open",
           pc \notin {"failed", "closed"},
           UNCHANGED <<empties, queue, cancelled, timedOut>>
    PROVE  RunnerInv'
<1>. USE DEF RunnerInv, TypeOK, ClosedIsOver, EmptiesBelow, PC, Event, Terminal,
             callVars, Emit
<1>1. CASE cancelled /\ Abort
  BY <1>1 DEF Abort
<1>2. CASE ~cancelled /\ BeginTool(n)
  BY <1>2 DEF BeginTool
<1>. QED BY <1>1, <1>2 DEF NextTool

\* Every step of the program keeps the invariant.
LEMMA RunnerInvStep == RunnerInv /\ [Next]_vars => RunnerInv'
<1>. SUFFICES ASSUME RunnerInv, [Next]_vars PROVE RunnerInv'
  OBVIOUS
<1>. USE DEF RunnerInv, ClosedIsOver, EmptiesBelow
<1>1. CASE Start
  BY <1>1 DEF Start, Emit, TypeOK, PC, Event, callVars
<1>2. CASE Resume
  <2>1. outcome = "open" /\ empties \in 0..EmptyThreshold
    BY <1>2 DEF Resume, TypeOK
  <2>. QED BY <1>2, <2>1, ContinueInv DEF Resume
<1>3. CASE TakeItem
  <2>1. queue \in Seq(Item) /\ queue # <<>>
    BY <1>3 DEF TakeItem, TypeOK
  <2>2. Head(queue) \in Item /\ Tail(queue) \in Seq(Item)
    BY <2>1, HeadTailProperties
  <2>3. Head(queue).kind # "None" => Head(queue).kind \in Event
    BY <2>2 DEF Item, Event
  <2>4. queue' \in Seq(Item)
    BY <1>3, <2>2 DEF TakeItem
  <2>5. CASE AtNone
    BY <1>3, <2>4, <2>5 DEF TakeItem, Goto, TypeOK, PC, callVars
  <2>6. CASE ~AtNone
    BY <1>3, <2>3, <2>4, <2>6 DEF TakeItem, AtNone, Emit, TypeOK, PC, callVars
  <2>. QED BY <2>5, <2>6
<1>4. CASE QueueTimeout
  BY <1>4 DEF QueueTimeout, Emit, TypeOK, PC, Event, callVars
<1>5. CASE KillCall
  <2>1. queue' \in Seq(Item)
    BY <1>5, PutType DEF KillCall
  <2>. QED BY <1>5, <2>1 DEF KillCall, Leave, TypeOK, PC
<1>6. CASE AnswerRefused
  BY <1>6 DEF AnswerRefused, Abort, Emit, TypeOK, PC, Event, callVars
<1>7. CASE AnswerError
  BY <1>7 DEF AnswerError, Answered, Emit, TypeOK, PC, Event, callVars
<1>8. CASE AnswerTools
  <2>1. PICK n \in 1..MaxTools : NextTool(n)
    BY <1>8 DEF AnswerTools
  <2>2. outcome = "open" /\ pc \notin {"failed", "closed"}
    BY <1>8 DEF AnswerTools, Answered
  <2>. QED BY <1>8, <2>1, <2>2, NextToolInv DEF AnswerTools
<1>9. CASE AnswerText
  BY <1>9 DEF AnswerText, Finish, TypeOK, PC, Event, Terminal, callVars
<1>10. CASE AnswerEmpty
  <2>1. /\ empties' = empties + 1 /\ outcome = "open"
        /\ pc \notin {"failed", "closed"}
        /\ UNCHANGED <<queue, cancelled, timedOut>>
    BY <1>10 DEF AnswerEmpty, Answered
  <2>2. empties \in Nat /\ empties < EmptyThreshold
    BY <2>1 DEF TypeOK
  <2>3. CASE EmptyLimit(empties')
    BY <1>10, <2>1, <2>2, <2>3 DEF AnswerEmpty, Emit, TypeOK, PC, Event, callVars
  <2>4. CASE ~EmptyLimit(empties')
    <3>1. empties' \in 0..EmptyThreshold /\ empties' < EmptyThreshold
      BY <2>1, <2>2, <2>4 DEF EmptyLimit
    <3>. QED BY <1>10, <2>1, <2>4, <3>1, ContinueInv DEF AnswerEmpty
  <2>. QED BY <2>3, <2>4
<1>11. CASE RunTool
  BY <1>11 DEF RunTool, Goto, TypeOK, PC, callVars
<1>12. CASE ToolReturns
  BY <1>12 DEF ToolReturns, Emit, TypeOK, PC, Event, callVars
<1>13. CASE AfterTool
  <2>1. outcome = "open" /\ UNCHANGED <<empties, queue, cancelled, timedOut>>
        /\ pc = "result" /\ tools \in 0..MaxTools
    BY <1>13 DEF AfterTool, TypeOK
  <2>2. CASE tools > 0 /\ NextTool(tools)
    BY <2>1, <2>2, NextToolInv
  <2>3. CASE tools = 0 /\ Emit("progress", "boundary") /\ UNCHANGED callVars
    BY <2>1, <2>3 DEF Emit, TypeOK, PC, Event, callVars
  <2>. QED BY <1>13, <2>2, <2>3 DEF AfterTool
<1>14. CASE Close
  BY <1>14 DEF Close, Finish, TypeOK, PC, Event, Terminal, callVars
<1>15. CASE CallBegins
  <2>1. queue' \in Seq(Item)
    BY <1>15, PutType DEF CallBegins, TypeOK
  <2>. QED BY <1>15, <2>1 DEF CallBegins, TypeOK, Running, runVars
<1>16. CASE Chunk
  <2>1. queue' \in Seq(Item)
    BY <1>16, PutType DEF Chunk
  <2>. QED BY <1>16, <2>1 DEF Chunk, TypeOK, runVars, callVars
<1>17. CASE CallReturns
  <2>1. queue' \in Seq(Item)
    BY <1>17, PutType DEF CallReturns
  <2>. QED BY <1>17, <2>1 DEF CallReturns, TypeOK, runVars
<1>18. CASE Cancel
  BY <1>18 DEF Cancel, TypeOK, runVars, callVars
<1>19. CASE Drop
  <2>1. queue' \in Seq(Item)
    BY <1>19, PutType DEF Drop, TypeOK
  <2>. QED BY <1>19, <2>1 DEF Drop, Leave, TypeOK, PC, Running
<1>20. CASE UNCHANGED vars
  BY <1>20 DEF vars, runVars, callVars, TypeOK
<1>. QED
  BY <1>1, <1>2, <1>3, <1>4, <1>5, <1>6, <1>7, <1>8, <1>9, <1>10, <1>11, <1>12,
     <1>13, <1>14, <1>15, <1>16, <1>17, <1>18, <1>19, <1>20
     DEF Next, RunStep, CallStep

LEMMA RunnerInvInit == Init => RunnerInv
<1>. SUFFICES ASSUME Init PROVE RunnerInv
  OBVIOUS
<1>1. queue \in Seq(Item)
  BY EmptySeq DEF Init
<1>2. TypeOK
  <2>1. pc \in PC /\ event \in Event
    BY DEF Init, PC, Event
  <2>2. /\ iteration \in 0..MaxIterations /\ tools \in 0..MaxTools
        /\ empties \in 0..EmptyThreshold
    BY DEF Init
  <2>3. /\ outcome \in {"open", "done", "raised", "dropped"}
        /\ call \in {"none", "ended", "refused", "killed"} \cup Running
        /\ answer \in {"none", "error", "tools", "text", "empty"}
        /\ cancelled \in BOOLEAN /\ timedOut \in BOOLEAN
    BY DEF Init
  <2>. QED BY <1>1, <2>1, <2>2, <2>3 DEF TypeOK
<1>3. ClosedIsOver /\ EmptiesBelow
  BY DEF Init, ClosedIsOver, EmptiesBelow
<1>. QED BY <1>2, <1>3 DEF RunnerInv

LEMMA RunnerInvAlways == Spec => []RunnerInv
BY RunnerInvInit, RunnerInvStep, PTL DEF Spec

\* Every variable of the loop stays in its range; empty_response_count never
\* passes the threshold and iteration never passes max_iterations.
THEOREM RunTypeCorrect == Spec => []TypeOK
<1>1. RunnerInv => TypeOK
  BY DEF RunnerInv
<1>. QED BY <1>1, RunnerInvAlways, PTL

--------------------------------------------------------------------------------
(* The queue *)

\* A step outside the inner loop leaves the queue empty, or ends the run.
LEMMA StreamsApartLeft ==
    ASSUME StreamsApart, pc # "wait", pc' # "wait" \/ outcome' # "open",
           outcome = "open", UNCHANGED <<iteration, call, queue, timedOut>>
    PROVE  StreamsApart'
BY DEF StreamsApart

\* Launching a call finds the queue empty.
LEMMA StreamsApartContinue ==
    ASSUME StreamsApart, TypeOK, Continue, pc # "wait", outcome = "open",
           UNCHANGED <<queue, timedOut>>
    PROVE  StreamsApart'
<1>1. CASE iteration = MaxIterations /\ Finish("completed") /\ UNCHANGED callVars
  BY <1>1 DEF Finish, StreamsApart
<1>2. CASE iteration < MaxIterations /\ cancelled /\ Abort
  BY <1>2, StreamsApartLeft DEF Abort, Emit, callVars
<1>3. CASE iteration < MaxIterations /\ ~cancelled /\ Launch
  BY <1>3 DEF Launch, Goto, StreamsApart, Running
<1>. QED BY <1>1, <1>2, <1>3 DEF Continue

LEMMA StreamsApartTool ==
    ASSUME StreamsApart, NEW n, NextTool(n), pc # "wait", outcome = "open",
           UNCHANGED <<queue, timedOut>>
    PROVE  StreamsApart'
<1>1. CASE cancelled /\ Abort
  BY <1>1, StreamsApartLeft DEF Abort, Emit, callVars
<1>2. CASE ~cancelled /\ BeginTool(n)
  BY <1>2, StreamsApartLeft DEF BeginTool, Emit
<1>. QED BY <1>1, <1>2 DEF NextTool

\* The task puts items of its own iteration while run_stream is in the inner
\* loop, and None last.
LEMMA StreamsApartPut ==
    ASSUME StreamsApart, TypeOK, NEW kind \in {"content", "progress", "None"},
           Put(kind), call \in Running, UNCHANGED <<runVars, iteration, timedOut>>,
           kind = "None" <=> call' \notin Running
    PROVE  StreamsApart'
<1>. SUFFICES ASSUME ~timedOut, outcome = "open"
              PROVE  StreamsApart'
  BY DEF StreamsApart, runVars
<1>. DEFINE item == [call |-> iteration, kind |-> kind]
<1>1. pc = "wait" /\ pc' = "wait" /\ iteration' = iteration
  BY DEF StreamsApart, runVars
<1>2. queue \in Seq(Item)
  BY DEF TypeOK
<1>3. /\ queue' = Append(queue, item)
      /\ DOMAIN queue' = 1..Len(queue')
      /\ Len(queue') = Len(queue) + 1
      /\ \A i \in 1..Len(queue) : queue'[i] = queue[i]
      /\ queue'[Len(queue')] = item
      /\ Len(queue) \in Nat /\ DOMAIN queue = 1..Len(queue)
  BY <1>2 DEF Put
<1>4. ASSUME NEW i \in DOMAIN queue'
      PROVE  /\ queue'[i].call = iteration'
             /\ queue'[i].kind = "None" <=> i = Len(queue') /\ call' \notin Running
  <2>1. CASE i = Len(queue')
    BY <1>1, <1>3, <2>1
  <2>2. CASE i # Len(queue')
    <3>1. i \in DOMAIN queue /\ queue'[i] = queue[i]
      BY <1>3, <2>2
    <3>2. queue[i].call = iteration /\ queue[i].kind # "None"
      BY <3>1 DEF StreamsApart
    <3>. QED BY <1>1, <2>2, <3>1, <3>2
  <2>. QED BY <2>1, <2>2
<1>5. queue' # <<>>
  BY <1>3
<1>. QED BY <1>1, <1>4, <1>5 DEF StreamsApart

\* The inner loop reads the oldest item, and leaves at None with nothing behind.
LEMMA StreamsApartTake ==
    ASSUME StreamsApart, TypeOK, TakeItem PROVE StreamsApart'
<1>. SUFFICES ASSUME ~timedOut, outcome = "open", outcome' = "open"
              PROVE  StreamsApart'
  BY DEF StreamsApart, TakeItem, Goto, Emit
<1>1. /\ pc = "wait" /\ queue # <<>> /\ queue \in Seq(Item)
      /\ queue' = Tail(queue)
      /\ UNCHANGED <<iteration, call, timedOut>>
  BY DEF TakeItem, callVars, TypeOK
<1>2. /\ Len(queue) \in Nat \ {0} /\ DOMAIN queue = 1..Len(queue)
      /\ Len(queue') = Len(queue) - 1 /\ DOMAIN queue' = 1..Len(queue')
      /\ \A i \in 1..Len(queue') : queue'[i] = queue[i + 1]
      /\ Head(queue) = queue[1]
  BY <1>1, HeadTailProperties, EmptySeq
<1>3. \A i \in DOMAIN queue :
          /\ queue[i].call = iteration
          /\ queue[i].kind = "None" <=> i = Len(queue) /\ call \notin Running
  BY DEF StreamsApart
<1>4. ASSUME NEW i \in DOMAIN queue'
      PROVE  /\ queue'[i].call = iteration'
             /\ queue'[i].kind = "None" <=> i = Len(queue') /\ call' \notin Running
  <2>1. i + 1 \in DOMAIN queue /\ queue'[i] = queue[i + 1]
    BY <1>2
  <2>. QED BY <1>1, <1>2, <1>3, <2>1
<1>5. CASE AtNone
  <2>1. Len(queue) = 1 /\ call \notin Running
    BY <1>2, <1>3, <1>5 DEF AtNone
  <2>2. queue' = <<>>
    BY <1>1, <2>1, HeadTailProperties, EmptySeq
  <2>3. pc' = "join"
    BY <1>5 DEF TakeItem, Goto
  <2>. QED BY <1>1, <1>4, <2>1, <2>2, <2>3 DEF StreamsApart
<1>6. CASE ~AtNone
  <2>1. call \notin Running => Len(queue) # 1
    BY <1>2, <1>3, <1>6 DEF AtNone
  <2>2. call' \notin Running => queue' # <<>>
    <3>1. SUFFICES ASSUME call' \notin Running, queue' = <<>> PROVE FALSE
      OBVIOUS
    <3>2. Len(queue') = 0
      BY <3>1
    <3>3. call \notin Running
      BY <1>1, <3>1
    <3>4. Len(queue) \in Nat /\ Len(queue') = Len(queue) - 1
      BY <1>2
    <3>5. Len(queue) = 1
      BY <3>2, <3>4
    <3>. QED BY <2>1, <3>3, <3>5
  <2>3. pc' = "wait"
    BY <1>6 DEF TakeItem, Emit
  <2>. QED BY <1>4, <2>2, <2>3 DEF StreamsApart
<1>. QED BY <1>5, <1>6

LEMMA StreamsApartStep == RunnerInv /\ StreamsApart /\ [Next]_vars => StreamsApart'
<1>. SUFFICES ASSUME TypeOK, ClosedIsOver, StreamsApart, [Next]_vars
              PROVE  StreamsApart'
  BY DEF RunnerInv
<1>. USE DEF ClosedIsOver
<1>1. CASE Start
  BY <1>1, StreamsApartLeft DEF Start, Emit, callVars
<1>2. CASE Resume
  BY <1>2, StreamsApartContinue DEF Resume
<1>3. CASE TakeItem
  BY <1>3, StreamsApartTake
<1>4. CASE QueueTimeout
  BY <1>4 DEF QueueTimeout, StreamsApart
<1>5. CASE KillCall
  BY <1>5 DEF KillCall, Leave, StreamsApart
<1>6. CASE AnswerRefused
  BY <1>6, StreamsApartLeft DEF AnswerRefused, Abort, Emit, callVars
<1>7. CASE AnswerError
  BY <1>7, StreamsApartLeft DEF AnswerError, Answered, Emit, callVars
<1>8. CASE AnswerTools
  BY <1>8, StreamsApartTool DEF AnswerTools, Answered
<1>9. CASE AnswerText
  BY <1>9 DEF AnswerText, Finish, StreamsApart
<1>10. CASE AnswerEmpty
  <2>1. CASE EmptyLimit(empties')
    BY <1>10, <2>1, StreamsApartLeft DEF AnswerEmpty, Answered, Emit, callVars
  <2>2. CASE ~EmptyLimit(empties')
    BY <1>10, <2>2, StreamsApartContinue DEF AnswerEmpty, Answered
  <2>. QED BY <2>1, <2>2
<1>11. CASE RunTool
  BY <1>11, StreamsApartLeft DEF RunTool, Goto, callVars
<1>12. CASE ToolReturns
  BY <1>12, StreamsApartLeft DEF ToolReturns, Emit, callVars
<1>13. CASE AfterTool
  <2>1. CASE tools > 0 /\ NextTool(tools)
    BY <1>13, <2>1, StreamsApartTool DEF AfterTool
  <2>2. CASE tools = 0 /\ Emit("progress", "boundary") /\ UNCHANGED callVars
    BY <1>13, <2>2, StreamsApartLeft DEF AfterTool, Emit, callVars
  <2>. QED BY <1>13, <2>1, <2>2 DEF AfterTool
<1>14. CASE Close
  BY <1>14 DEF Close, Finish, StreamsApart
<1>15. CASE CallBegins
  <2>1. CASE cancelled /\ call' = "refused" /\ Put("None")
    BY <1>15, <2>1, StreamsApartPut DEF CallBegins, Running
  <2>2. CASE ~cancelled /\ call' = "calling" /\ UNCHANGED queue
    BY <1>15, <2>2 DEF CallBegins, StreamsApart, Running, runVars
  <2>. QED BY <1>15, <2>1, <2>2 DEF CallBegins
<1>16. CASE Chunk
  <2>1. PICK kind \in {"content", "progress"} : Put(kind)
    BY <1>16 DEF Chunk
  <2>. QED BY <1>16, <2>1, StreamsApartPut DEF Chunk, callVars, Running
<1>17. CASE CallReturns
  BY <1>17, StreamsApartPut DEF CallReturns, Running
<1>18. CASE Cancel
  BY <1>18 DEF Cancel, StreamsApart, runVars, callVars
<1>19. CASE Drop
  BY <1>19 DEF Drop, Leave, StreamsApart
<1>20. CASE UNCHANGED vars
  BY <1>20 DEF vars, runVars, callVars, StreamsApart
<1>. QED
  BY <1>1, <1>2, <1>3, <1>4, <1>5, <1>6, <1>7, <1>8, <1>9, <1>10, <1>11, <1>12,
     <1>13, <1>14, <1>15, <1>16, <1>17, <1>18, <1>19, <1>20
     DEF Next, RunStep, CallStep

\* As long as the queue has not timed out, it never mixes the streams of two
\* model calls, and nothing a call streamed is left behind when it is over.
THEOREM StreamsNeverMix == Spec => []StreamsApart
<1>1. Init => StreamsApart
  BY DEF Init, StreamsApart, Running
<1>. QED BY <1>1, StreamsApartStep, RunnerInvAlways, PTL DEF Spec

--------------------------------------------------------------------------------
(* Cancellation *)

\* A cancelled run at rest stays at rest: a token is never uncancelled, and
\* each way to begin a call or a tool checks it after the last suspension.
LEMMA RestStep == cancelled /\ ~AtWork /\ [Next]_vars => (cancelled /\ ~AtWork)'
<1>. SUFFICES ASSUME cancelled, ~AtWork, [Next]_vars PROVE cancelled' /\ ~AtWork'
  OBVIOUS
<1>. USE DEF AtWork
<1>1. ASSUME Continue \/ \E n \in 0..MaxTools : NextTool(n)
      PROVE  ~AtWork'
  BY <1>1 DEF Continue, NextTool, Launch, Abort, Finish, Emit, Goto, callVars
<1>2. CASE RunStep
  <2>1. ASSUME Start \/ TakeItem \/ QueueTimeout \/ KillCall \/ AnswerRefused
               \/ AnswerError \/ AnswerText \/ RunTool \/ ToolReturns \/ Close
        PROVE  cancelled' /\ ~AtWork'
    BY <2>1 DEF Start, TakeItem, QueueTimeout, KillCall, AnswerRefused, AnswerError,
       AnswerText, RunTool, ToolReturns, Close, Answered, Abort, Emit, Goto, Finish,
       Leave, callVars
  <2>2. CASE Resume
    BY <1>1, <2>2 DEF Resume
  <2>3. CASE AnswerTools
    BY <1>1, <2>3 DEF AnswerTools
  <2>4. CASE AnswerEmpty
    BY <1>1, <2>4 DEF AnswerEmpty, Emit, callVars
  <2>5. CASE AfterTool
    BY <2>5 DEF AfterTool, NextTool, Abort, Emit, callVars
  <2>. QED BY <1>2, <2>1, <2>2, <2>3, <2>4, <2>5 DEF RunStep
<1>3. CASE CallStep
  BY <1>3 DEF CallStep, CallBegins, Chunk, CallReturns, runVars, callVars
<1>4. CASE Cancel \/ Drop
  BY <1>4 DEF Cancel, Drop, Leave, runVars, callVars
<1>5. CASE UNCHANGED vars
  BY <1>5 DEF vars, runVars, callVars
<1>. QED BY <1>2, <1>3, <1>4, <1>5 DEF Next

\* Once a run is cancelled and no model call and no tool is under way, none
\* begins again.
THEOREM CancelHolds == Spec => CancelIsFinal
BY RestStep, PTL DEF Spec, CancelIsFinal

--------------------------------------------------------------------------------
(* The protocol *)

\* Places from which run_stream may yield any event of the way.
Streaming == pc \notin {"new", "failed", "aborted", "closed"}

\* A yield is one the protocol allows.
LEMMA YieldAllowed ==
    ASSUME outcome = "open",
           <<ProtocolState, event', ProtocolState'>> \in Protocol!RunnerSteps,
           outcome' = IF event' \in Protocol!Terminal THEN "done" ELSE "open"
    PROVE  Protocol!Yield
<1>. DEFINE s == <<ProtocolState, event', ProtocolState'>>
<1>1. s[1] = ProtocolState /\ s[2] = event' /\ s[3] = ProtocolState'
  OBVIOUS
<1>. QED BY <1>1 DEF Protocol!Yield

\* What may follow wherever the model streams or the queue timed out.
LEMMA StreamingSteps ==
    ASSUME Streaming
    PROVE  /\ ProtocolState \in {"streaming", "lost"}
           /\ \A e \in {"content", "progress"} :
                  <<ProtocolState, e, "streaming">> \in Protocol!RunnerSteps
           /\ <<ProtocolState, "completed", "ended">> \in Protocol!RunnerSteps
           /\ \A s \in {"failing", "lost"} :
                  <<ProtocolState, "error", s>> \in Protocol!RunnerSteps
           /\ <<ProtocolState, "cancelled", "cancelling">> \in Protocol!RunnerSteps
<1>1. ProtocolState \in {"streaming", "lost"}
  BY DEF Streaming, ProtocolState
<1>. QED BY <1>1 DEF Protocol!RunnerSteps

LEMMA EmitAllowed ==
    ASSUME Streaming, outcome = "open", NEW e \in {"content", "progress"}, NEW l,
           Emit(e, l), l \notin {"new", "failed", "aborted", "closed"}
    PROVE  Protocol!Next
<1>1. ProtocolState' = "streaming" /\ event' = e /\ outcome' = "open"
  BY DEF Emit, ProtocolState
<1>2. e \notin Protocol!Terminal
  BY DEF Protocol!Terminal
<1>. QED BY <1>1, <1>2, YieldAllowed, StreamingSteps DEF Protocol!Next

LEMMA ErrorAllowed ==
    ASSUME Streaming, outcome = "open", NEW l \in {"slow", "failed"},
           Emit("error", l)
    PROVE  Protocol!Next
<1>1. ProtocolState' \in {"failing", "lost"} /\ event' = "error" /\ outcome' = "open"
  BY DEF Emit, ProtocolState
<1>. QED BY <1>1, YieldAllowed, StreamingSteps DEF Protocol!Next, Protocol!Terminal

LEMMA AbortAllowed ==
    ASSUME Streaming, outcome = "open", Abort PROVE Protocol!Next
<1>1. ProtocolState' = "cancelling" /\ event' = "cancelled" /\ outcome' = "open"
  BY DEF Abort, Emit, ProtocolState
<1>. QED BY <1>1, YieldAllowed, StreamingSteps DEF Protocol!Next, Protocol!Terminal

LEMMA FinishAllowed ==
    ASSUME Streaming, outcome = "open", Finish("completed") PROVE Protocol!Next
<1>1. ProtocolState' = "ended" /\ event' = "completed" /\ outcome' = "done"
  BY DEF Finish, ProtocolState
<1>. QED BY <1>1, YieldAllowed, StreamingSteps DEF Protocol!Next, Protocol!Terminal

\* Leaving with an exception, or because the consumer is gone.
LEMMA LeaveAllowed ==
    ASSUME outcome = "open",
           Leave("dropped") \/ (Streaming /\ Leave("raised"))
    PROVE  Protocol!Next
<1>1. ProtocolState' = "ended" /\ UNCHANGED event
  BY DEF Leave, ProtocolState
<1>. QED BY <1>1, StreamingSteps
            DEF Leave, Protocol!Next, Protocol!Raise, Protocol!Drop, Protocol!MayRaise

\* Going on without a yield is not seen by the consumer.
LEMMA GotoSilent ==
    ASSUME Streaming, NEW l, Goto(l), l \notin {"new", "failed", "aborted", "closed"}
    PROVE  UNCHANGED Protocol!vars
BY DEF Streaming, Goto, ProtocolState, Protocol!vars

LEMMA ContinueAllowed ==
    ASSUME Streaming, outcome = "open", Continue PROVE [Protocol!Next]_(Protocol!vars)
<1>1. CASE iteration = MaxIterations /\ Finish("completed") /\ UNCHANGED callVars
  BY <1>1, FinishAllowed
<1>2. CASE iteration < MaxIterations /\ cancelled /\ Abort
  BY <1>2, AbortAllowed
<1>3. CASE iteration < MaxIterations /\ ~cancelled /\ Launch
  BY <1>3, GotoSilent DEF Launch
<1>. QED BY <1>1, <1>2, <1>3 DEF Continue

LEMMA NextToolAllowed ==
    ASSUME Streaming, outcome = "open", NEW n, NextTool(n) PROVE Protocol!Next
BY AbortAllowed, EmitAllowed DEF NextTool, BeginTool

LEMMA ProtocolStep == RunnerInv /\ [Next]_vars => [Protocol!Next]_(Protocol!vars)
<1>. SUFFICES ASSUME TypeOK, ClosedIsOver, [Next]_vars
              PROVE  [Protocol!Next]_(Protocol!vars)
  BY DEF RunnerInv
<1>. USE DEF ClosedIsOver, Streaming
<1>1. CASE Start
  <2>1. /\ outcome = "open" /\ ProtocolState = "new" /\ ProtocolState' = "streaming"
        /\ event' = "start" /\ outcome' = "open"
    BY <1>1 DEF Start, Emit, ProtocolState
  <2>. QED BY <2>1, YieldAllowed
              DEF Protocol!Next, Protocol!RunnerSteps, Protocol!Terminal
<1>2. CASE Resume
  BY <1>2, ContinueAllowed DEF Resume
<1>3. CASE TakeItem
  <2>1. CASE AtNone
    BY <1>3, <2>1, GotoSilent DEF TakeItem
  <2>2. CASE ~AtNone
    <3>1. queue \in Seq(Item) /\ queue # <<>>
      BY <1>3 DEF TakeItem, TypeOK
    <3>2. Head(queue) \in Item
      BY <3>1, HeadTailProperties
    <3>3. Head(queue).kind \in {"content", "progress"}
      BY <2>2, <3>2 DEF AtNone, Item
    <3>. QED BY <1>3, <2>2, <3>3, EmitAllowed DEF TakeItem
  <2>. QED BY <2>1, <2>2
<1>4. CASE QueueTimeout
  BY <1>4, ErrorAllowed DEF QueueTimeout
<1>5. CASE KillCall
  BY <1>5, LeaveAllowed DEF KillCall
<1>6. CASE AnswerRefused
  BY <1>6, AbortAllowed DEF AnswerRefused
<1>7. CASE AnswerError
  BY <1>7, ErrorAllowed DEF AnswerError, Answered
<1>8. CASE AnswerTools
  BY <1>8, NextToolAllowed DEF AnswerTools, Answered
<1>9. CASE AnswerText
  BY <1>9, FinishAllowed DEF AnswerText, Answered
<1>10. CASE AnswerEmpty
  BY <1>10, ErrorAllowed, ContinueAllowed DEF AnswerEmpty, Answered
<1>11. CASE RunTool
  BY <1>11, GotoSilent DEF RunTool
<1>12. CASE ToolReturns
  BY <1>12, EmitAllowed DEF ToolReturns
<1>13. CASE AfterTool
  BY <1>13, EmitAllowed, NextToolAllowed DEF AfterTool
<1>14. CASE Close
  <2>1. CASE pc = "failed" /\ Finish("failed")
    <3>1. /\ ProtocolState = "failing" /\ ProtocolState' = "ended"
          /\ event' = "failed" /\ outcome' = "done" /\ outcome = "open"
      BY <2>1 DEF Finish, ProtocolState
    <3>. QED BY <3>1, YieldAllowed DEF Protocol!Next, Protocol!RunnerSteps,
                Protocol!FailingSteps, Protocol!Terminal
  <2>2. CASE pc = "aborted" /\ Finish("aborted")
    <3>1. /\ ProtocolState = "cancelling" /\ ProtocolState' = "ended"
          /\ event' = "aborted" /\ outcome' = "done" /\ outcome = "open"
      BY <2>2 DEF Finish, ProtocolState
    <3>. QED BY <3>1, YieldAllowed DEF Protocol!Next, Protocol!RunnerSteps,
                Protocol!Terminal
  <2>. QED BY <1>14, <2>1, <2>2 DEF Close
<1>15. CASE CallStep \/ Cancel \/ UNCHANGED vars
  <2>1. UNCHANGED runVars
    BY <1>15 DEF CallStep, CallBegins, Chunk, CallReturns, Cancel, vars
  <2>. QED BY <2>1 DEF runVars, ProtocolState, Protocol!vars
<1>16. CASE Drop
  <2>1. outcome = "open" /\ Leave("dropped")
    BY <1>16 DEF Drop
  <2>2. Protocol!Next
    BY <2>1, LeaveAllowed
  <2>. QED BY <2>2
<1>. QED
  BY <1>1, <1>2, <1>3, <1>4, <1>5, <1>6, <1>7, <1>8, <1>9, <1>10, <1>11, <1>12,
     <1>13, <1>14, <1>15, <1>16 DEF Next, RunStep

\* run_stream implements the protocol send_message is written against: the
\* initial state is the protocol's, and every step is a step of the protocol or
\* changes nothing the consumer sees.
THEOREM RunnerImplementsProtocol == Spec => Refines
<1>1. Init => Protocol!Init
  BY DEF Init, Protocol!Init, ProtocolState
<1>. QED BY <1>1, ProtocolStep, RunnerInvAlways, PTL
            DEF Spec, Refines, Protocol!Spec
================================================================================
