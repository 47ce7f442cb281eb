---------------------------- MODULE StoreSummary ----------------------------
(***************************************************************************)
(* What a call of process() returns.  After the status is committed it     *)
(* calls summary(), which opens the file again and reads the tables one    *)
(* query at a time, outside any transaction: other processes commit in     *)
(* between, and each figure may be of another state of the tables.         *)
(***************************************************************************)
EXTENDS LedgerStore

VARIABLE summary  \* of each worker: the run it reports on and what it read so far

allvars == <<vars, summary>>

\* The queries in their order: the outcomes of the run, the sizes of the tables,
\* the groups that do not balance, the balance, the payment states.
QUERIES ==
  <<"outcome", "accepted", "quarantine", "exception", "posted", "ledger", "state",
    "unbalanced", "balance", "states">>

NoSummary == [run |-> None, read |-> << >>]

Unbalanced(lines) ==
  {<<l.event, l.currency>> : l \in {k \in lines :
     Balance({m \in lines : m.event = k.event /\ m.currency = k.currency}) # 0}}

Answer(query, run) ==
  CASE query = "outcome"    -> db.outcome[run]
    [] query = "unbalanced" -> Cardinality(Unbalanced(db.ledger))
    [] query = "balance"    -> Balance(db.ledger)
    [] query = "states"     -> db.state
    [] OTHER                -> Cardinality(db[query])

Summarising(w) == summary[w].run # None

SummaryInit == Init /\ summary = [w \in Worker |-> NoSummary]

\* The successful end of process() goes on to its summary.
Succeed(w) ==
  /\ MarkSucceeded(w)
  /\ summary' = [summary EXCEPT ![w].run = job[w].run]

\* Every other step of a call.
Proceed(w) ==
  /\ \/ Fail(w) \/ Begin(w) \/ IngestOne(w) \/ Rebuild(w) \/ Commit(w) \/ MarkFailed(w)
     \/ LockTimeout(w) \/ ReadCount(w) \/ ReadAbsoluteDelta(w) \/ Return(w)
  /\ UNCHANGED summary

Position(w) == Len(summary[w].read) + 1

Query(w) ==
  /\ Summarising(w) /\ Position(w) \in DOMAIN QUERIES
  /\ summary' = [summary EXCEPT ![w].read =
                   Append(@, Answer(QUERIES[Position(w)], summary[w].run))]
  /\ UNCHANGED vars

\* The result is returned.
ReturnSummary(w) ==
  /\ Summarising(w) /\ Position(w) \notin DOMAIN QUERIES
  /\ summary' = [summary EXCEPT ![w] = NoSummary]
  /\ UNCHANGED vars

\* A query raises, or the process dies, between any two steps.
LoseSummary(w) ==
  /\ Summarising(w)
  /\ summary' = [summary EXCEPT ![w] = NoSummary]
  /\ UNCHANGED vars

Continue(w) == Succeed(w) \/ Proceed(w) \/ Query(w) \/ ReturnSummary(w)

SummaryNext ==
  \E w \in Worker :
    \/ Continue(w) \/ LoseSummary(w)
    \/ ~Summarising(w) /\ Call(w) /\ UNCHANGED summary
    \/ Crash(w) /\ UNCHANGED summary

SummarySpec == SummaryInit /\ [][SummaryNext]_allvars

\* A running process continues its call; nobody has to call the store, and no
\* process has to die.
FairSummarySpec == SummarySpec /\ \A w \in Worker : WF_allvars(Continue(w))
-----------------------------------------------------------------------------
(* Properties                                                              *)

Asked(w, query) == \E i \in DOMAIN summary[w].read : QUERIES[i] = query

Figure(w, query) ==
  summary[w].read[CHOOSE i \in DOMAIN summary[w].read : QUERIES[i] = query]

\* What process() reports of its run is true of it although other runs commit
\* between the queries: the arrivals are reconciled, the sizes of the tables cover
\* what the run counted, although they are those of a later state, and the ledger
\* balances, group by group and as a whole, although the groups and the whole are
\* those of two states.
SummaryHolds ==
  \A w \in Worker :
    /\ Asked(w, "outcome") =>
         LET o == Figure(w, "outcome")
         IN  o # None /\ o["ARRIVAL"] = o["ACCEPTED"] + o["DUPLICATE"] + o["QUARANTINED"]
    /\ Asked(w, "accepted") => Figure(w, "accepted") >= Figure(w, "outcome")["ACCEPTED"]
    /\ Asked(w, "quarantine") =>
         Figure(w, "quarantine") >= Figure(w, "outcome")["QUARANTINED"]
    /\ Asked(w, "unbalanced") => Figure(w, "unbalanced") = 0
    /\ Asked(w, "balance") => Figure(w, "balance") = 0

\* Every call ends, its summary included: a process that keeps running never waits
\* for ever for the lock of another one, dead or alive.
CallsEnd ==
  \A w \in Worker :
    (pc[w] # "idle" \/ Summarising(w)) ~> (pc[w] = "idle" /\ ~Summarising(w))
=============================================================================
