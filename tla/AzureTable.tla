----------------------------- MODULE AzureTable -----------------------------
(***************************************************************************)
(* How the durable store uses Azure Tables                                 *)
(* (packages/security-state/src/azure-table-client.ts and the retry loops  *)
(* of azure-store.ts).                                                     *)
(*                                                                         *)
(* A call reads rows one by one, each at its own instant, decides what to  *)
(* write, and submits one transaction that lands as a whole: it replaces   *)
(* rows whose etag is still the one that was read, and creates rows that   *)
(* do not exist.  A request may also end with an unknown outcome (a        *)
(* timeout, a reset connection, a 5xx or 429: the SDK retries nothing),    *)
(* after which the transaction may or may not have landed; the call reads  *)
(* rows again to find out (pc = "reconcile"), and otherwise tries again.   *)
(*                                                                         *)
(* An etag is kept as the set of rows, among those a call has read, that   *)
(* were written since (stale).  The identifiers that a call draws are      *)
(* named by the call and the attempt that drew them: a random token is     *)
(* never drawn twice.                                                      *)
(***************************************************************************)
EXTENDS Integers, FiniteSets, Sequences, TLC

CONSTANTS
  Calls,      \* calls of the store's interface, each made at most once
  MaxTries    \* bound: AZURE_CAS_ATTEMPTS and COLLISION_RETRY_LIMIT

ASSUME TableAssumption == MaxTries \in Nat \ {0}

VARIABLES
  table,  \* the rows of both tables, by key
  call    \* what each call is doing

NoRow == [kind |-> "none"]
Row(key) == IF key \in DOMAIN table THEN table[key] ELSE NoRow

NoCall ==
  [op |-> "none", arg |-> NoRow, pc |-> "none", now |-> 0, tries |-> 0,
   charges |-> 0, charged |-> FALSE, seen |-> << >>, stale |-> {},
   plan |-> << >>, value |-> NoRow, verdict |-> "none"]

Drawn(k) == <<k, call[k].tries>>

Seen(k, key) ==
  IF key \in DOMAIN call[k].seen THEN call[k].seen[key] ELSE NoRow

\* the first key of a sequence that the call has still to read, as a set
Unread(k, keys) ==
  {keys[n] : n \in {m \in 1..Len(keys) :
     /\ keys[m] \notin DOMAIN call[k].seen
     /\ \A earlier \in 1..m - 1 : keys[earlier] \in DOMAIN call[k].seen}}

(***************************************************************************)
(* The life of a call                                                      *)
(***************************************************************************)
Make(k, op, arg, now) ==
  [NoCall EXCEPT !.op = op, !.arg = arg, !.pc = "read", !.now = now,
                 !.tries = 1]

\* what is left of a call that has returned or thrown
Answered(k, verdict, value) ==
  [NoCall EXCEPT !.op = call[k].op, !.arg = call[k].arg, !.pc = "done",
                 !.verdict = verdict, !.value = value]

\* the loop is left after MaxTries attempts
Retried(k, now) ==
  IF call[k].tries = MaxTries THEN Answered(k, "unavailable", NoRow)
  ELSE [call[k] EXCEPT !.now = now, !.tries = @ + 1, !.pc = "read",
                       !.charges = 0, !.charged = FALSE, !.seen = << >>,
                       !.stale = {}, !.plan = << >>]

Becomes(k, next) ==
  /\ call' = [call EXCEPT ![k] = next]
  /\ UNCHANGED table

Answer(k, verdict, value) == Becomes(k, Answered(k, verdict, value))

\* pointRead; any error but not-found fails the call (mapBoundary)
PointRead(k, key) ==
  \/ Becomes(k, [call[k] EXCEPT !.seen = (key :> Row(key)) @@ @])
  \/ Answer(k, "unavailable", NoRow)

(***************************************************************************)
(* Transactions                                                            *)
(***************************************************************************)
\* writes the rows it read without asking whether they changed
FaultyClash(k, replaced, created) ==
  \E key \in created : key \in DOMAIN table

\* 409 on a row to create, 412 on a row written since it was read
Clash(k, replaced, created) ==
  \/ replaced \cap call[k].stale # {}
  \/ \E key \in created : key \in DOMAIN table

\* the transaction lands; every call that read a row of it holds an old etag
Land(k, writes, next) ==
  /\ table' = writes @@ table
  /\ call' = [x \in Calls |->
       IF x = k THEN next
       ELSE [call[x] EXCEPT
               !.stale = @ \cup (DOMAIN writes \cap DOMAIN call[x].seen)]]

InDoubt(k, writes, value) ==
  [call[k] EXCEPT !.pc = "reconcile", !.seen = << >>, !.stale = {},
                  !.plan = writes, !.value = value]

\* next is what the call becomes when the transaction is acknowledged,
\* doubt when its outcome is unknown, and clash when it was refused
Submit(k, replaces, creates, next, doubt, clash) ==
  LET refused == Clash(k, DOMAIN replaces, DOMAIN creates)
      writes  == creates @@ replaces
  IN
  \/ ~refused /\ Land(k, writes, next)
  \/ ~refused /\ Land(k, writes, doubt)
  \/ Becomes(k, doubt)
  \/ refused /\ Becomes(k, clash)
  \/ Answer(k, "unavailable", NoRow)

\* delete; next is what the call becomes when it is acknowledged, and lost
\* when the row had changed or the outcome is unknown
Delete(k, key, next, lost) ==
  \/ /\ key \notin call[k].stale
     /\ table' = [x \in DOMAIN table \ {key} |-> table[x]]
     /\ \E mine \in {next, lost} :
          call' = [x \in Calls |->
            IF x = k THEN mine
            ELSE [call[x] EXCEPT
                    !.stale = @ \cup ({key} \cap DOMAIN call[x].seen)]]
  \/ Becomes(k, lost)
  \/ Answer(k, "unavailable", NoRow)
=============================================================================
