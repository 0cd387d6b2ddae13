--------------------------- MODULE StatementLine ----------------------------
(***************************************************************************)
(* The requests that use the stores, seen from the order of their          *)
(* statements.  aiosqlite executes the statements of all coroutines in one *)
(* thread, first come first served, and a coroutine goes on in that order, *)
(* too: so a statement and what the coroutine does next, up to its next    *)
(* statement, are one step.  A query is three statements, as the cursor is *)
(* read and closed after it: what was found is used two rounds later.      *)
(***************************************************************************)
EXTENDS Naturals, Sequences

CONSTANT Requests

VARIABLES request,      \* [Requests -> record]: what it does and how far it is
          line          \* the requests with a statement to be executed

lineVars == <<request, line>>

Idle == [kind |-> "none", arg |-> << >>, at |-> "none", found |-> {}, left |-> 0]

Over == [Idle EXCEPT !.kind = "over"]
Ends(at) == at \in {"ok", "error"}

LineInit == request = [r \in Requests |-> Idle] /\ line = << >>

UnderWay == {line[i] : i \in DOMAIN line}

\* r is new, and hands in its first statement or ends at once.
ArrivesWith(r, kind, arg, at, value) ==
    /\ request[r].kind = "none"
    /\ request' = [request EXCEPT ![r] = IF Ends(at) THEN Over ELSE
           [kind |-> kind, arg |-> arg, at |-> at, found |-> value, left |-> 0]]
    /\ line' = IF Ends(at) THEN line ELSE Append(line, r)

Arrives(r, kind, arg, at) == ArrivesWith(r, kind, arg, at, {})

\* The statement of r is next.
Turn(r, at) == line # << >> /\ Head(line) = r /\ request[r].at = at

\* After its statement r hands in the next one, with its value, or ends.
GoesOnWith(r, at, value) ==
    /\ request' = [request EXCEPT ![r] = IF Ends(at) THEN Over ELSE
           [@ EXCEPT !.at = at, !.found = value, !.left = 0]]
    /\ line' = IF Ends(at) THEN Tail(line) ELSE Append(Tail(line), r)

GoesOn(r, at) == GoesOnWith(r, at, {})

\* A query: its rows are those of now, and known two statements later.
Queries(r, at, rows) ==
    /\ Turn(r, at) /\ request[r].left = 0
    /\ request' = [request EXCEPT ![r] = [@ EXCEPT !.found = rows, !.left = 2]]
    /\ line' = Append(Tail(line), r)

Fetches(r) ==
    /\ Turn(r, request[r].at) /\ request[r].left = 2
    /\ request' = [request EXCEPT ![r].left = 1]
    /\ line' = Append(Tail(line), r)

\* The rows of the query are there.
Found(r, at) == Turn(r, at) /\ request[r].left = 1

\* The next statement of r, when its kind has them in this order.
After(r, steps) ==
    LET here == CHOOSE i \in DOMAIN steps : steps[i] = request[r].at
    IN  IF here = Len(steps) THEN "ok" ELSE steps[here + 1]

=============================================================================
