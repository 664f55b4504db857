----------------------------- MODULE Reputation -----------------------------
(***************************************************************************)
(* The reputation engine on one address: its two caches, the evidence in   *)
(* the database and the providers it asks in parallel, and the admission   *)
(* decision the scheduler takes from its verdict.  Several callers (the    *)
(* vetting workers, the worker, a manual switch) evaluate the address at   *)
(* the same time, and the manager may restart at any point.  Addresses     *)
(* share nothing but the health of the providers.                          *)
(*                                                                         *)
(* Every goroutine of EvaluateIP merges its answer under a mutex, so a     *)
(* lookup that hits and the handling of an answer are one step each.  Time *)
(* is counted in units of a query's time limit, and passes only while all  *)
(* that goes on waits for a provider.                                      *)
(***************************************************************************)
EXTENDS ProviderRules

CONSTANTS
    Provider,    \* the providers main registers, by name
    Report,      \* [Provider -> sets of reports]: what their services may send
    Caller,      \* concurrent calls of EvaluateIPAdmission
    TTL,         \* [Provider -> time]: ProviderTTL
    CacheTTL,    \* time: the aggregate's TTL
    QueryTime,   \* time limit of a query
    Lenient,     \* penalty of an UNKNOWN under the lenient policy
    None,        \* nothing cached, no row
    Failed,      \* the evidence of a failed query
    MaxTime,     \* bound: the clock
    MaxRestarts, \* bound: restarts of the manager
    Faults       \* the failures that may happen

\* "query": a request fails; "db": a statement on the database fails.
FaultKind == {"query", "db"}

(* Types *)

Time == 0 .. MaxTime

\* A piece of evidence: the verdict the engine works with, when it was observed,
\* and (history) what the provider had said.
Evidence == [verdict : VerdictType, at : Time, said : VerdictType]
Cached == [ev : Evidence, until : Nat]

\* The aggregate: finalResult, unknownCount > 0, successCount > 0
ResultType == [status : Status, hard : BOOLEAN, penalty : Nat, traits : SUBSET Trait,
               unknown : BOOLEAN, success : BOOLEAN]
Aggregate == [acc : ResultType, ev : [Provider -> Evidence \cup {Failed}], until : Nat]

\* A row keeps the verdict; one written before the durable cache existed lacks
\* the decision (reason is FALSE) and only has the status and the score.
Row == [verdict : VerdictType, score : Nat, reason : BOOLEAN, at : Time, said : VerdictType]

ASSUME ReputationAssumption ==
    /\ Provider \subseteq ProviderName
    /\ Report \in [Provider -> SUBSET ReportType]
    /\ TTL \in [Provider -> Nat]
    /\ CacheTTL \in Nat /\ QueryTime \in Nat /\ Lenient \in Nat
    /\ MaxTime \in Nat /\ MaxRestarts \in Nat
    /\ Faults \subseteq FaultKind
    /\ None \notin Aggregate /\ None \notin Cached /\ None \notin Row
    /\ Failed \notin Evidence

VARIABLES
    now,         \* the clock
    policy,      \* failurePolicy
    entries,     \* Cache.entries: the aggregate of the address
    provEntries, \* Cache.providerEntries
    rows,        \* reputation_evidences: the latest usable row of each provider
    healthy,     \* time.Now is past BaseProvider.backoffUntil
    pc,          \* where a call is: idle, ask, done
    ask,         \* what a call's goroutine for a provider does
    since,       \* when its query began (ObservedAt)
    acc,         \* finalResult and the counters of a call
    ev,          \* finalResult.Evidences of a call
    restarts     \* restarts so far

cacheVars == <<entries, provEntries, rows>>
callVars == <<pc, ask, since, acc, ev>>
vars == <<now, policy, cacheVars, healthy, callVars, restarts>>
-----------------------------------------------------------------------------
(* Initial values *)

Fresh == [status |-> "GOOD", hard |-> FALSE, penalty |-> 0, traits |-> {},
          unknown |-> FALSE, success |-> FALSE]

TypeOK ==
    /\ now \in Time
    /\ policy \in {"conservative", "lenient"}
    /\ entries \in Aggregate \cup {None}
    /\ provEntries \in [Provider -> Cached \cup {None}]
    /\ rows \in [Provider -> Row \cup {None}]
    /\ healthy \in [Provider -> BOOLEAN]
    /\ pc \in [Caller -> {"idle", "ask", "done"}]
    /\ ask \in [Caller -> [Provider -> {"lookup", "query", "answered"}]]
    /\ since \in [Caller -> [Provider -> Time]]
    /\ acc \in [Caller -> ResultType]
    /\ ev \in [Caller -> [Provider -> Evidence \cup {Failed}]]
    /\ restarts \in 0 .. MaxRestarts

LegacyRow(p, r) ==
    [verdict |-> [Rule(p, r) EXCEPT !.hard = FALSE, !.penalty = 0],
     score |-> r.score, reason |-> FALSE, at |-> 0, said |-> Rule(p, r)]

\* The database may come from a version without durable decisions.
Init ==
    /\ now = 0
    /\ policy \in {"conservative", "lenient"}
    /\ entries = None
    /\ provEntries = [p \in Provider |-> None]
    /\ \/ rows = [p \in Provider |-> None]
       \/ \E f \in [Provider -> UNION {Report[p] : p \in Provider}] :
            /\ \A p \in Provider : f[p] \in Report[p] /\ Rule(p, f[p]).status # "UNKNOWN"
            /\ rows = [p \in Provider |-> LegacyRow(p, f[p])]
    /\ healthy = [p \in Provider |-> TRUE]
    /\ pc = [c \in Caller |-> "idle"]
    /\ ask = [c \in Caller |-> [p \in Provider |-> "lookup"]]
    /\ since = [c \in Caller |-> [p \in Provider |-> 0]]
    /\ acc = [c \in Caller |-> Fresh]
    /\ ev = [c \in Caller |-> [p \in Provider |-> Failed]]
    /\ restarts = 0
-----------------------------------------------------------------------------
(* Merging an answer *)

\* Mutant: the last answer decides.
MergeLastWins(a, v) ==
    [a EXCEPT !.status = IF v.status = "UNKNOWN" THEN @ ELSE v.status,
              !.hard = @ \/ v.hard,
              !.penalty = IF v.status = "RISKY" THEN @ + v.penalty ELSE @,
              !.traits = @ \cup v.traits,
              !.unknown = @ \/ v.status = "UNKNOWN",
              !.success = TRUE]

\* Mutant: a penalty is taken off.
MergeCredits(a, v) ==
    [a EXCEPT !.status = IF v.status = "UNKNOWN" THEN @ ELSE v.status,
              !.hard = @ \/ v.hard,
              !.penalty = IF v.status = "RISKY" THEN @ - v.penalty ELSE @,
              !.traits = @ \cup v.traits,
              !.unknown = @ \/ v.status = "UNKNOWN",
              !.success = TRUE]

\* mergeProviderResult, and successCount.  A BAD answer without hard rejection
\* does not add its penalty.
Merge(a, v) ==
    LET unknown == v.status = "UNKNOWN"
        bad == ~unknown /\ (v.hard \/ v.status = "BAD")
        risky == /\ ~unknown /\ ~bad
                 /\ \/ v.status = "RISKY" \/ v.penalty > 0
                    \/ v.traits \cap {"vpn", "hosting", "proxy"} # {} IN
    [status |-> IF bad THEN "BAD"
                ELSE IF risky /\ a.status # "BAD" THEN "RISKY" ELSE a.status,
     hard |-> a.hard \/ (~unknown /\ v.hard),
     penalty |-> IF risky THEN a.penalty + v.penalty ELSE a.penalty,
     traits |-> a.traits \cup v.traits,
     unknown |-> a.unknown \/ unknown,
     success |-> TRUE]

\* One goroutine of call c delivers an answer.
Deliver(c, p, e) ==
    /\ ask' = [ask EXCEPT ![c][p] = "answered"]
    /\ ev' = [ev EXCEPT ![c][p] = e]
    /\ acc' = [acc EXCEPT ![c] = Merge(@, e.verdict)]

\* Mutant: a failed query is not counted.
DeliverFailureUncounted(c, p) ==
    /\ ask' = [ask EXCEPT ![c][p] = "answered"]
    /\ ev' = [ev EXCEPT ![c][p] = Failed]
    /\ UNCHANGED acc

DeliverFailure(c, p) ==
    /\ ask' = [ask EXCEPT ![c][p] = "answered"]
    /\ ev' = [ev EXCEPT ![c][p] = Failed]
    /\ acc' = [acc EXCEPT ![c].unknown = TRUE]
-----------------------------------------------------------------------------
(* EvaluateIP *)

Hit(entry) == entry # None /\ now <= entry.until

\* 1. the aggregate cache
AggregateHit(c) ==
    /\ pc[c] = "idle" /\ Hit(entries)
    /\ pc' = [pc EXCEPT ![c] = "done"]
    /\ acc' = [acc EXCEPT ![c] = entries.acc]
    /\ ev' = [ev EXCEPT ![c] = entries.ev]
    /\ UNCHANGED <<now, policy, cacheVars, healthy, ask, since, restarts>>

Begin(c) ==
    /\ pc[c] = "idle" /\ ~Hit(entries)
    /\ pc' = [pc EXCEPT ![c] = "ask"]
    /\ UNCHANGED <<now, policy, cacheVars, healthy, ask, since, acc, ev, restarts>>

\* 2. the provider's cache
FromCache(c, p) ==
    /\ pc[c] = "ask" /\ ask[c][p] = "lookup" /\ Hit(provEntries[p])
    /\ Deliver(c, p, provEntries[p].ev)
    /\ UNCHANGED <<now, policy, cacheVars, healthy, pc, since, restarts>>

\* 3. the durable evidence: loadPersistedProviderResult
Usable(p) ==
    /\ rows[p] # None
    /\ rows[p].at + TTL[p] > now
    /\ rows[p].reason \/ p = "ProxyCheck.io"

\* Mutant: a row without its decision is taken as it is.
RestoreTrusting(p) ==
    [verdict |-> rows[p].verdict, at |-> rows[p].at, said |-> rows[p].said]

\* reputationResultFromEvidence: a legacy ProxyCheck.io row is a hard rejection
\* when it is BAD, and its score is the penalty when it is RISKY.
Restore(p) ==
    LET v == rows[p].verdict IN
    [verdict |-> IF rows[p].reason THEN v
                 ELSE [v EXCEPT !.hard = v.status = "BAD",
                                !.penalty = IF v.status = "RISKY" THEN rows[p].score ELSE @],
     at |-> rows[p].at, said |-> rows[p].said]

FromDurable(c, p) ==
    /\ pc[c] = "ask" /\ ask[c][p] = "lookup" /\ ~Hit(provEntries[p]) /\ Usable(p)
    /\ provEntries' = [provEntries EXCEPT
                         ![p] = [ev |-> Restore(p), until |-> rows[p].at + TTL[p]]]
    /\ Deliver(c, p, Restore(p))
    /\ UNCHANGED <<now, policy, entries, rows, healthy, pc, since, restarts>>

\* 4. the provider itself, unless it is in backoff
Miss(c, p) ==
    /\ pc[c] = "ask" /\ ask[c][p] = "lookup" /\ ~Hit(provEntries[p])
    /\ ~Usable(p) \/ "db" \in Faults

Query(c, p) ==
    /\ Miss(c, p) /\ healthy[p]
    /\ ask' = [ask EXCEPT ![c][p] = "query"]
    /\ since' = [since EXCEPT ![c][p] = now]
    /\ UNCHANGED <<now, policy, cacheVars, healthy, pc, acc, ev, restarts>>

InBackoff(c, p) ==
    /\ Miss(c, p) /\ ~healthy[p]
    /\ DeliverFailure(c, p)
    /\ UNCHANGED <<now, policy, cacheVars, healthy, pc, since, restarts>>

\* A successful answer is cached and persisted; the row is the one the next
\* lookup finds if it is the latest and its status is usable.
Answer(c, p, r) ==
    LET v == Rule(p, r)
        row == [verdict |-> v, score |-> r.score, reason |-> TRUE,
                at |-> since[c][p], said |-> v] IN
    /\ pc[c] = "ask" /\ ask[c][p] = "query"
    /\ provEntries' = [provEntries EXCEPT
                         ![p] = [ev |-> [verdict |-> v, at |-> since[c][p], said |-> v],
                                 until |-> now + TTL[p]]]
    /\ Deliver(c, p, [verdict |-> v, at |-> since[c][p], said |-> v])
    /\ \/ /\ v.status # "UNKNOWN"
          /\ rows[p] # None => rows[p].at <= since[c][p]
          /\ rows' = [rows EXCEPT ![p] = row]
       \/ /\ \/ v.status = "UNKNOWN" \/ "db" \in Faults
             \/ rows[p] # None /\ rows[p].at >= since[c][p]
          /\ UNCHANGED rows
    /\ healthy' = [healthy EXCEPT ![p] = TRUE]
    /\ UNCHANGED <<now, policy, entries, pc, since, restarts>>

\* RecordFailure: a rate limit or an exhausted quota, or the third failure in a
\* row, starts a backoff.
QueryFails(c, p, backoff) ==
    /\ pc[c] = "ask" /\ ask[c][p] = "query"
    /\ "query" \in Faults
    /\ DeliverFailure(c, p)
    /\ healthy' = [healthy EXCEPT ![p] = @ /\ ~backoff]
    /\ UNCHANGED <<now, policy, cacheVars, pc, since, restarts>>

\* backoffUntil is over
BackoffEnds(p) ==
    /\ ~healthy[p]
    /\ healthy' = [healthy EXCEPT ![p] = TRUE]
    /\ UNCHANGED <<now, policy, cacheVars, callVars, restarts>>

Known(e) == e # Failed /\ e.verdict.status # "UNKNOWN"

\* The verdict under the failure policy
UnderPolicy(a) ==
    LET penalized == IF policy = "lenient" THEN a.penalty + Lenient ELSE a.penalty IN
    IF ~a.success THEN [a EXCEPT !.status = "UNKNOWN", !.penalty = penalized]
    ELSE IF a.unknown /\ ~a.hard
         THEN [a EXCEPT !.status = IF policy = "conservative" THEN "UNKNOWN" ELSE @,
                        !.penalty = penalized]
         ELSE a

\* Mutant: the aggregate lives for its own TTL, however old its evidence is.
ExpiresUnclipped(c) == now + CacheTTL

\* The aggregate expires with the first of its known evidences.
Expires(c) ==
    LET bounds == {now + CacheTTL} \cup
                  {ev[c][p].at + TTL[p] : p \in {q \in Provider : Known(ev[c][q])}} IN
    CHOOSE t \in bounds : \A u \in bounds : t <= u

\* wg.Wait is over; a result without any answer is not cached.
Finish(c) ==
    /\ pc[c] = "ask" /\ \A p \in Provider : ask[c][p] = "answered"
    /\ pc' = [pc EXCEPT ![c] = "done"]
    /\ acc' = [acc EXCEPT ![c] = UnderPolicy(@)]
    /\ entries' = IF acc[c].success
                  THEN [acc |-> UnderPolicy(acc[c]), ev |-> ev[c], until |-> Expires(c)]
                  ELSE entries
    /\ UNCHANGED <<now, policy, provEntries, rows, healthy, ask, since, ev, restarts>>

\* EvaluateIPAdmission: what the caller is told
Admits(c) ==
    /\ ~acc[c].hard /\ acc[c].traits = {}
    /\ ~(acc[c].status = "UNKNOWN" /\ policy = "conservative")

\* The call returns.
Return(c) ==
    /\ pc[c] = "done"
    /\ pc' = [pc EXCEPT ![c] = "idle"]
    /\ ask' = [ask EXCEPT ![c] = [p \in Provider |-> "lookup"]]
    /\ since' = [since EXCEPT ![c] = [p \in Provider |-> 0]]
    /\ acc' = [acc EXCEPT ![c] = Fresh]
    /\ ev' = [ev EXCEPT ![c] = [p \in Provider |-> Failed]]
    /\ UNCHANGED <<now, policy, cacheVars, healthy, restarts>>
-----------------------------------------------------------------------------
(* The clock and the manager's restart *)

Waiting(c) ==
    /\ pc[c] = "ask"
    /\ \A p \in Provider :
         \/ ask[c][p] = "answered"
         \/ ask[c][p] = "query" /\ now < since[c][p] + QueryTime
    /\ \E p \in Provider : ask[c][p] = "query"

Tick ==
    /\ now < MaxTime
    /\ \A c \in Caller : pc[c] = "idle" \/ Waiting(c)
    /\ now' = now + 1
    /\ UNCHANGED <<policy, cacheVars, healthy, callVars, restarts>>

\* Only the database survives.
Restart ==
    /\ restarts < MaxRestarts
    /\ restarts' = restarts + 1
    /\ entries' = None
    /\ provEntries' = [p \in Provider |-> None]
    /\ healthy' = [p \in Provider |-> TRUE]
    /\ pc' = [c \in Caller |-> "idle"]
    /\ ask' = [c \in Caller |-> [p \in Provider |-> "lookup"]]
    /\ since' = [c \in Caller |-> [p \in Provider |-> 0]]
    /\ acc' = [c \in Caller |-> Fresh]
    /\ ev' = [c \in Caller |-> [p \in Provider |-> Failed]]
    /\ UNCHANGED <<now, policy, rows>>

Next ==
    \/ \E c \in Caller :
         \/ AggregateHit(c) \/ Begin(c) \/ Finish(c) \/ Return(c)
         \/ \E p \in Provider :
              \/ FromCache(c, p) \/ FromDurable(c, p)
              \/ Query(c, p) \/ InBackoff(c, p)
              \/ \E r \in Report[p] : Answer(c, p, r)
              \/ \E backoff \in BOOLEAN : QueryFails(c, p, backoff)
    \/ \E p \in Provider : BackoffEnds(p)
    \/ Tick \/ Restart

Spec == Init /\ [][Next]_vars
-----------------------------------------------------------------------------
(* Properties *)

\* A cached verdict never rests on an answer older than the provider's TTL, nor
\* does a new one but for the time two queries take, whichever of the two caches,
\* the database and a restart the answer has come through (aggregateExpiry in
\* EvaluateIP).
VerdictFresh ==
    /\ Hit(entries) => \A p \in Provider :
         Known(entries.ev[p]) => now <= entries.ev[p].at + TTL[p]
    /\ \A c \in Caller, p \in Provider :
         pc[c] = "done" /\ Known(ev[c][p]) => now <= ev[c][p].at + TTL[p] + 2 * QueryTime

\* Under the conservative policy an address is admitted only if every configured
\* provider has answered, none with UNKNOWN, a hard rejection or a prohibited
\* trait (the README's promise; EvaluateIPAdmission).
AdmittedByAll ==
    \A c \in Caller : pc[c] = "done" /\ policy = "conservative" /\ Admits(c) =>
        \A p \in Provider : /\ Known(ev[c][p])
                            /\ ~ev[c][p].verdict.hard /\ ev[c][p].verdict.traits = {}

\* Evidence that has been through the database says what the provider said: a
\* row from before the decisions were stored is restored or left alone
\* (reputationResultFromEvidence).
EvidenceHonest ==
    \A c \in Caller, p \in Provider :
        pc[c] = "done" /\ ev[c][p] # Failed => ev[c][p].verdict = ev[c][p].said

\* The verdict does not depend on the order in which the goroutines merge: one
\* hard rejection or BAD decides, RISKY beats GOOD (mergeProviderResult).
Answers(c) == {p \in Provider : Known(ev[c][p])}
Worst(c) ==
    LET s == {ev[c][p].verdict.status : p \in Answers(c)} IN
    IF "BAD" \in s THEN "BAD" ELSE IF "RISKY" \in s THEN "RISKY" ELSE "GOOD"
VerdictIsWorst ==
    \A c \in Caller : pc[c] = "done" =>
        /\ acc[c].hard <=> \E p \in Answers(c) : ev[c][p].verdict.hard
        /\ acc[c].status =
             IF \/ ~acc[c].success
                \/ policy = "conservative" /\ ~acc[c].hard /\ Answers(c) # Provider
             THEN "UNKNOWN" ELSE Worst(c)
=============================================================================
