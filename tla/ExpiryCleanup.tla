----------------------------- MODULE ExpiryCleanup -----------------------------
(* The expiry cleanup job (tools/expiry-cleanup): it calls cleanupExpired of  *)
(* the operator store until a pass over both tables is exhausted, its time is *)
(* up or its calls are used up, under a watchdog.  A call pages through the   *)
(* two tables in turn within a budget of rows, and goes on from continuation  *)
(* tokens where the last call stopped; rows come and go meanwhile.            *)
(*                                                                            *)
(* Which rows may go is AzureSecurity!Sweep and AzureGeneration!SweepRate;    *)
(* here any row may be found removable.  Configuration parsing is left out:   *)
(* a job with none of it fails before the first call.                         *)
EXTENDS Integers, FiniteSets

CONSTANTS Places,        \* bound: keys a table has room for, 1..Places
          Limit,         \* configuration.limit
          PageCap,       \* rows a page may have at most (100 in the code)
          MaxIterations, \* EXPIRY_CLEANUP_MAX_ITERATIONS
          MaxWrites      \* bound: rows others insert or delete

ASSUME CleanupAssumption == Places \in Nat /\ Limit \in Nat /\ PageCap \in Nat

VARIABLES rows,     \* keys present in each table
          position, \* where the operator position's pass stands
          call,     \* the call of cleanupExpired under way
          job,      \* runExpiryCleanup
          pass,     \* history: rows there since the pass began, and rows visited
          writes    \* writes of others so far

cleanupVars == <<rows, position, call, job, pass, writes>>

Tables == {"security", "rate"}
Other(t) == IF t = "security" THEN "rate" ELSE "security"
Each(x) == [t \in Tables |-> x]

\* the key a continuation token stands for, NoToken when a listing is at its end
NoToken == 0

Position == [token |-> Each(NoToken), turn |-> "security", exhausted |-> Each(FALSE)]
NoCall == [open |-> FALSE, visited |-> 0, pages |-> 0, removed |-> 0,
           stopped |-> Each(FALSE), table |-> "security", page |-> {}]

CleanupInit ==
  /\ rows = Each(1..Places)
  /\ position = Position /\ call = NoCall
  /\ job = [state |-> "running", calls |-> 0, visited |-> 0, removed |-> 0,
            exhausted |-> FALSE]
  /\ pass = [steady |-> rows, seen |-> Each({}), deleted |-> 0]
  /\ writes = 0

Fails == job' = [job EXCEPT !.state = "failed"] /\ call' = NoCall

---------------------------------------------------------------------------
(* cleanupExpired *)

Exhausted == \A t \in Tables : position.exhausted[t]

\* A call; after an exhausted pass it begins the next one.
CallStore ==
  /\ job.state = "running" /\ ~call.open
  /\ job.calls < MaxIterations /\ ~job.exhausted
  /\ job' = [job EXCEPT !.calls = @ + 1]
  /\ call' = [NoCall EXCEPT !.open = TRUE]
  /\ IF Exhausted
     THEN position' = Position /\ pass' = [pass EXCEPT !.steady = rows, !.seen = Each({})]
     ELSE UNCHANGED <<position, pass>>
  /\ UNCHANGED <<rows, writes>>

Available(t) == ~position.exhausted[t] /\ ~call.stopped[t]

MayGoOn ==
  /\ call.visited < Limit /\ call.pages < Limit
  /\ \E t \in Tables : Available(t)

Turn == IF Available(position.turn) THEN position.turn ELSE Other(position.turn)

\* every page as large as the call may visit
FaultyBudget == IF Limit > PageCap THEN PageCap ELSE Limit

\* The page limit: this table's share of the rows the call may still visit.
Budget ==
  LET active == Cardinality({t \in Tables : Available(t)})
      share == (Limit - call.visited + active - 1) \div active
  IN  IF share < 1 THEN 1 ELSE IF share > PageCap THEN PageCap ELSE share

\* Azure Tables answers the rows from the token on, as few of them as it likes,
\* with a token to where it stopped; it may say there is more when there is
\* nothing.
ListPage ==
  /\ call.open /\ call.page = {} /\ MayGoOn
  /\ LET t == Turn
         token == position.token[t]
     IN  \E rest \in {NoToken} \cup (token..Places + 1) :
           LET page == {r \in rows[t] : r >= token /\ (rest = NoToken \/ r < rest)}
               stalled == page = {} /\ token # NoToken /\ rest = token
           IN  /\ Cardinality(page) <= Budget
               /\ call' = [call EXCEPT !.pages = @ + 1, !.table = t, !.page = page,
                                       !.stopped[t] = @ \/ stalled]
               /\ position' = [position EXCEPT !.token[t] = rest, !.turn = Other(t),
                                 !.exhausted[t] = @ \/ rest = NoToken]
  /\ UNCHANGED <<rows, job, pass, writes>>

\* The page's first row: kept, deleted, or its delete lost to another writer.
VisitRow(r) ==
  /\ \A q \in call.page : r <= q
  /\ LET t == call.table IN
     \E deletes, counted \in BOOLEAN :
       /\ deletes => r \in rows[t]
       /\ counted => deletes
       /\ call' = [call EXCEPT !.visited = @ + 1, !.page = @ \ {r},
                               !.removed = IF counted THEN @ + 1 ELSE @]
       /\ rows' = IF deletes THEN [rows EXCEPT ![t] = @ \ {r}] ELSE rows
       /\ pass' = [pass EXCEPT
            !.seen[t] = @ \cup {r},
            !.steady[t] = IF deletes THEN @ \ {r} ELSE @,
            !.deleted = IF deletes THEN @ + 1 ELSE @]

\* The next row of the page, unless the call has visited its limit already.
Visit ==
  /\ call.open /\ call.page # {}
  /\ IF call.visited < Limit THEN \E r \in call.page : VisitRow(r)
     ELSE call' = [call EXCEPT !.page = {}] /\ UNCHANGED <<rows, pass>>
  /\ UNCHANGED <<position, job, writes>>

\* A row that cannot be read, or a table that cannot be reached.
CallFails ==
  /\ call.open
  /\ Fails
  /\ UNCHANGED <<rows, position, pass, writes>>

---------------------------------------------------------------------------
(* runExpiryCleanup *)

\* parseCleanupResult
Acceptable == call.visited <= Limit /\ call.removed <= call.visited

Return ==
  /\ call.open /\ call.page = {} /\ ~MayGoOn
  /\ IF ~Acceptable THEN Fails
     ELSE /\ call' = NoCall
          /\ job' = [job EXCEPT !.visited = @ + call.visited,
                                !.removed = @ + call.removed,
                                !.exhausted = Exhausted]
  /\ UNCHANGED <<rows, position, pass, writes>>

\* Done, out of calls, or past the deadline, which the first call ignores.
Succeed ==
  /\ job.state = "running" /\ ~call.open /\ job.calls > 0
  /\ job' = [job EXCEPT !.state = "passed"]
  /\ UNCHANGED <<rows, position, call, pass, writes>>

\* The watchdog ends the process wherever it stands.
Watchdog ==
  /\ job.state = "running"
  /\ Fails
  /\ UNCHANGED <<rows, position, pass, writes>>

\* The relay writes to the same tables; external.
Write(t, r) ==
  /\ writes < MaxWrites /\ job.state = "running"
  /\ writes' = writes + 1
  /\ rows' = [rows EXCEPT ![t] = IF r \in @ THEN @ \ {r} ELSE @ \cup {r}]
  /\ pass' = [pass EXCEPT !.steady[t] = @ \ {r}]
  /\ UNCHANGED <<position, call, job>>

CleanupNext ==
  \/ CallStore \/ ListPage \/ Visit \/ CallFails \/ Return
  \/ Succeed \/ Watchdog
  \/ \E t \in Tables, r \in 1..Places : Write(t, r)

CleanupSpec == CleanupInit /\ [][CleanupNext]_cleanupVars

---------------------------------------------------------------------------
(* Properties *)

\* A job that reports an exhausted pass has looked at every row that was there
\* all along, whatever the pages' sizes, the tables' turns and the calls the
\* pass was spread over; and it never reports more removals than it made.
PassIsComplete ==
  job.state = "passed" =>
    /\ job.exhausted => \A t \in Tables : pass.steady[t] \subseteq pass.seen[t]
    /\ job.removed <= pass.deleted /\ job.removed <= job.visited
=============================================================================
