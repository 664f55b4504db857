-------------------------- MODULE ReputationProofs --------------------------
(***************************************************************************)
(* The properties of Reputation for any providers, reports, TTLs and any   *)
(* number of concurrent calls, which TLC cannot enumerate.                 *)
(***************************************************************************)
EXTENDS Reputation, WellFoundedInduction, TLAPS
-----------------------------------------------------------------------------
(* What the rules of the providers have in common *)

\* A hard rejection is BAD; what is GOOD has no penalty and none of the traits
\* that would make the merged result RISKY.
Sound(v) ==
    /\ v.hard => v.status = "BAD"
    /\ v.status = "GOOD" => v.penalty = 0 /\ v.traits \cap {"vpn", "hosting", "proxy"} = {}

\* Every provider's rule yields a typed verdict that is sound.
LEMMA RuleSound ==
    ASSUME NEW p \in ProviderName, NEW r \in ReportType
    PROVE  Rule(p, r) \in VerdictType /\ Sound(Rule(p, r))
<1>0. /\ r.score \in Nat /\ r.traits \in SUBSET Trait
      /\ r.score \div 5 \in Nat /\ r.score \div 4 \in Nat
      /\ {"GOOD", "RISKY", "BAD", "UNKNOWN"} = Status /\ {} \in SUBSET Trait
      /\ r.traits \cap {"hosting", "tor"} \in SUBSET Trait
  BY DEF ReportType, Status
<1>1. CASE p = "ProxyCheck.io"
  <2>1. Rule(p, r) = ProxyCheck(r)
    BY <1>1 DEF Rule
  <2> QED BY <1>0, <2>1 DEF ProxyCheck, Sound, Verdict, VerdictType
<1>2. CASE p = "IPOwnership"
  <2>1. Rule(p, r) = IPOwnership(r)
    BY <1>2 DEF Rule
  <2> QED BY <1>0, <2>1 DEF IPOwnership, Sound, Verdict, VerdictType
<1>3. CASE p = "AbuseIPDB"
  <2>1. Rule(p, r) = AbuseIPDB(r)
    BY <1>3 DEF Rule
  <2> QED BY <1>0, <2>1 DEF AbuseIPDB, Sound, Verdict, VerdictType
<1>4. CASE p = "GreyNoise"
  <2>1. Rule(p, r) = GreyNoise(r)
    BY <1>4 DEF Rule
  <2> QED BY <1>0, <2>1 DEF GreyNoise, Sound, Verdict, VerdictType
<1>5. CASE p = "IPQS"
  <2>1. Rule(p, r) = IPQS(r)
    BY <1>5 DEF Rule
  <2> QED BY <1>0, <2>1 DEF IPQS, Sound, Verdict, VerdictType
<1>6. CASE p = "IPInfo"
  <2>1. Rule(p, r) = IPInfo(r)
    BY <1>6 DEF Rule
  <2> QED BY <1>0, <2>1 DEF IPInfo, Sound, Verdict, VerdictType
<1> QED BY <1>1, <1>2, <1>3, <1>4, <1>5, <1>6 DEF ProviderName

\* A report of a registered provider is within the rules.
LEMMA ReportSound ==
    ASSUME NEW p \in Provider, NEW r \in Report[p]
    PROVE  r \in ReportType /\ r.score \in Nat /\ Rule(p, r) \in VerdictType /\ Sound(Rule(p, r))
<1>1. p \in ProviderName /\ r \in ReportType
  BY ReputationAssumption
<1> QED BY <1>1, RuleSound DEF ReportType

\* What a legacy row of ProxyCheck.io lost can be told from its status and score.
LEMMA LegacyRestored ==
    ASSUME NEW r \in ReportType
    PROVE  LET v == Rule("ProxyCheck.io", r) IN
           /\ v.hard <=> v.status = "BAD"
           /\ v.penalty = IF v.status = "RISKY" THEN r.score ELSE 0
<1> DEFINE v == Rule("ProxyCheck.io", r)
<1>1. v = ProxyCheck(r) /\ r.score \in Nat
  BY DEF Rule, ReportType
<1>2. CASE r.traits # {} \/ r.abuse \/ r.score >= 51
  <2>1. v.hard = TRUE /\ v.status = "BAD" /\ v.penalty = 0
    BY <1>1, <1>2 DEF ProxyCheck, Verdict
  <2> QED BY <2>1
<1>3. CASE ~(r.traits # {} \/ r.abuse \/ r.score >= 51)
  <2>1. CASE r.score > 25
    <3>1. v.hard = FALSE /\ v.status = "RISKY" /\ v.penalty = r.score
      BY <1>1, <1>3, <2>1 DEF ProxyCheck, Verdict
    <3> QED BY <3>1
  <2>2. CASE ~(r.score > 25)
    <3>1. v.hard = FALSE /\ v.status = "GOOD" /\ v.penalty = 0
      BY <1>1, <1>3, <2>2 DEF ProxyCheck, Verdict
    <3> QED BY <3>1
  <2> QED BY <2>1, <2>2
<1> QED BY <1>2, <1>3
-----------------------------------------------------------------------------
(* Merging, on the answers of one call *)

KnownIn(e) == {p \in Provider : Known(e[p])}
WorstIn(e) ==
    LET s == {e[p].verdict.status : p \in KnownIn(e)} IN
    IF "BAD" \in s THEN "BAD" ELSE IF "RISKY" \in s THEN "RISKY" ELSE "GOOD"

\* The running result a is the sum of the answers e has so far.
Sums(a, e) ==
    /\ a.status = WorstIn(e)
    /\ a.hard <=> \E p \in KnownIn(e) : e[p].verdict.hard
    /\ a.success <=> \E p \in Provider : e[p] # Failed
    /\ \A p \in KnownIn(e) : e[p].verdict.traits \subseteq a.traits

AnswersType == [Provider -> Evidence \cup {Failed}]

\* Merging keeps the accumulator's type.
LEMMA MergeTyped ==
    ASSUME NEW a \in ResultType, NEW v \in VerdictType
    PROVE  Merge(a, v) \in ResultType
<1>1. /\ a.status \in Status /\ a.hard \in BOOLEAN /\ a.penalty \in Nat /\ a.traits \subseteq Trait
      /\ a.unknown \in BOOLEAN /\ v.hard \in BOOLEAN /\ v.penalty \in Nat /\ v.traits \subseteq Trait
  BY DEF ResultType, VerdictType
<1> QED BY <1>1 DEF Merge, ResultType, Status

\* What merging one sound answer does.
LEMMA MergeEffect ==
    ASSUME NEW a \in ResultType, NEW v \in VerdictType, Sound(v)
    PROVE  /\ Merge(a, v).status = IF v.status = "BAD" THEN "BAD"
                                   ELSE IF v.status = "RISKY" /\ a.status # "BAD" THEN "RISKY"
                                   ELSE a.status
           /\ Merge(a, v).hard <=> a.hard \/ v.hard
           /\ Merge(a, v).success
           /\ Merge(a, v).unknown <=> a.unknown \/ v.status = "UNKNOWN"
           /\ Merge(a, v).traits = a.traits \cup v.traits
<1>1. /\ v.status \in Status /\ v.hard \in BOOLEAN /\ a.hard \in BOOLEAN /\ a.unknown \in BOOLEAN
      /\ v.penalty \in Nat
  BY DEF ResultType, VerdictType
<1>2. Merge(a, v).status = IF v.status = "BAD" THEN "BAD"
                           ELSE IF v.status = "RISKY" /\ a.status # "BAD" THEN "RISKY"
                           ELSE a.status
  BY <1>1 DEF Merge, Sound, Status
<1>3. Merge(a, v).hard <=> a.hard \/ v.hard
  BY <1>1 DEF Merge, Sound
<1>4. Merge(a, v).unknown <=> a.unknown \/ v.status = "UNKNOWN"
  BY <1>1 DEF Merge
<1>5. Merge(a, v).success /\ Merge(a, v).traits = a.traits \cup v.traits
  BY DEF Merge
<1> QED BY <1>2, <1>3, <1>4, <1>5

\* Merging keeps the sum, in whatever order the answers come.
LEMMA MergeSums ==
    ASSUME NEW a \in ResultType, NEW e \in AnswersType, NEW p \in Provider, e[p] = Failed,
           NEW x \in Evidence, Sound(x.verdict), Sums(a, e)
    PROVE  Sums(Merge(a, x.verdict), [e EXCEPT ![p] = x])
<1> DEFINE f == [e EXCEPT ![p] = x]
           v == x.verdict
           b == Merge(a, v)
<1>1. f[p] = x /\ x # Failed /\ \A q \in Provider \ {p} : f[q] = e[q]
  BY ReputationAssumption DEF AnswersType
<1>2. v \in VerdictType /\ v.status \in Status
  BY DEF Evidence, VerdictType
<1>3. KnownIn(f) = IF v.status = "UNKNOWN" THEN KnownIn(e) ELSE KnownIn(e) \cup {p}
  BY <1>1 DEF KnownIn, Known
<1>4. p \notin KnownIn(e)
  BY DEF KnownIn, Known
<1>5. /\ b.status = IF v.status = "BAD" THEN "BAD"
                    ELSE IF v.status = "RISKY" /\ a.status # "BAD" THEN "RISKY" ELSE a.status
      /\ b.hard <=> a.hard \/ v.hard
      /\ b.success
      /\ b.traits = a.traits \cup v.traits
  BY <1>2, MergeEffect
<1> HIDE DEF f, b
<1>6. {f[q].verdict.status : q \in KnownIn(f)} =
        {e[q].verdict.status : q \in KnownIn(e)} \cup
          (IF v.status = "UNKNOWN" THEN {} ELSE {v.status})
  BY <1>1, <1>3, <1>4 DEF KnownIn
<1>7. b.status = WorstIn(f)
  BY <1>2, <1>5, <1>6 DEF WorstIn, Sums, Status
<1>8. b.hard <=> \E q \in KnownIn(f) : f[q].verdict.hard
  <2>1. v.hard => v.status = "BAD"
    BY DEF Sound
  <2> QED BY <1>1, <1>3, <1>4, <1>5, <2>1 DEF Sums, KnownIn
<1>9. b.success <=> \E q \in Provider : f[q] # Failed
  BY <1>1, <1>5
<1>10. \A q \in KnownIn(f) : f[q].verdict.traits \subseteq b.traits
  BY <1>1, <1>3, <1>5 DEF Sums, KnownIn
<1>11. Sums(b, f)
  BY <1>7, <1>8, <1>9, <1>10 DEF Sums
<1> QED BY <1>11 DEF f, b
-----------------------------------------------------------------------------
(* The inductive invariant *)

\* Evidence in use is sound and says what the provider said.
Delivered(e) == e # Failed => Sound(e.verdict) /\ e.verdict = e.said

\* A finished result follows from its answers under the failure policy.
Settled(a, e) ==
    /\ a.hard <=> \E p \in KnownIn(e) : e[p].verdict.hard
    /\ a.status = IF ~a.success \/ (policy = "conservative" /\ ~a.hard /\ KnownIn(e) # Provider)
                  THEN "UNKNOWN" ELSE WorstIn(e)
    /\ \A p \in KnownIn(e) : e[p].verdict.traits \subseteq a.traits

\* A call's result at each stage
CallOK(c) ==
    /\ \A p \in Provider : Delivered(ev[c][p])
    /\ pc[c] = "idle" => /\ acc[c] = Fresh
                         /\ \A p \in Provider : ask[c][p] = "lookup" /\ ev[c][p] = Failed
    /\ pc[c] = "ask" =>
         /\ Sums(acc[c], ev[c])
         /\ \A p \in Provider : ask[c][p] # "answered" => ev[c][p] = Failed
         /\ acc[c].unknown <=> \E p \in Provider : ask[c][p] = "answered" /\ ~Known(ev[c][p])
    /\ pc[c] = "done" => Settled(acc[c], ev[c])

\* How old its answers are: an answer is within its lifetime while the call still
\* looks others up, and was when the queries it now waits for began.
CallTimed(c) ==
    /\ pc[c] = "ask" => \A q \in Provider :
         /\ ask[c][q] = "query" => since[c][q] <= now /\ now <= since[c][q] + QueryTime
         /\ \A p \in Provider : Known(ev[c][p]) =>
              /\ ask[c][q] = "lookup" => now <= ev[c][p].at + TTL[p] + QueryTime
              /\ ask[c][q] = "query" => since[c][q] <= ev[c][p].at + TTL[p] + QueryTime
    /\ pc[c] # "idle" => \A p \in Provider :
         Known(ev[c][p]) => now <= ev[c][p].at + TTL[p] + 2 * QueryTime

\* The caches and the rows
Caches ==
    \A p \in Provider : provEntries[p] # None =>
        /\ Delivered(provEntries[p].ev)
        /\ provEntries[p].until <= provEntries[p].ev.at + TTL[p] + QueryTime
Rows ==
    \A p \in Provider : rows[p] # None =>
        \/ rows[p].reason /\ Sound(rows[p].verdict) /\ rows[p].verdict = rows[p].said
        \/ ~rows[p].reason /\ \E r \in Report[p] : rows[p] = LegacyRow(p, r)
Aggregates ==
    entries # None =>
        /\ Settled(entries.acc, entries.ev)
        /\ \A p \in Provider :
             /\ Delivered(entries.ev[p])
             /\ Known(entries.ev[p]) => entries.until <= entries.ev[p].at + TTL[p]

Calls == \A c \in Caller : CallOK(c) /\ CallTimed(c)

IInv == TypeOK /\ Calls /\ Caches /\ Rows /\ Aggregates

USE DEF cacheVars, callVars

\* Time and the other constants are natural numbers.
LEMMA Numbers ==
    /\ \A t \in Time : t \in Nat
    /\ \A p \in Provider : TTL[p] \in Nat
    /\ CacheTTL \in Nat /\ QueryTime \in Nat /\ Lenient \in Nat
    /\ None \notin Aggregate /\ None \notin Cached /\ None \notin Row
    /\ Failed \notin Evidence
BY ReputationAssumption DEF Time

\* A call that a step does not touch
LEMMA OtherCall ==
    ASSUME NEW d \in Caller, CallOK(d), CallTimed(d), policy' = policy, now' = now,
           UNCHANGED <<pc[d], ask[d], since[d], acc[d], ev[d]>>
    PROVE  CallOK(d)' /\ CallTimed(d)'
<1>1. Settled(acc[d], ev[d])' <=> Settled(acc[d], ev[d])
  BY DEF Settled
<1>2. CallOK(d)'
  BY <1>1 DEF CallOK
<1>3. CallTimed(d)'
  BY DEF CallTimed
<1> QED BY <1>2, <1>3

\* A goroutine of a call delivers evidence that is within its lifetime.
LEMMA DeliverCall ==
    ASSUME TypeOK, NEW c \in Caller, NEW p \in Provider, CallOK(c), CallTimed(c),
           pc[c] = "ask", ask[c][p] \in {"lookup", "query"},
           NEW x \in Evidence, Delivered(x), now <= x.at + TTL[p] + QueryTime,
           Deliver(c, p, x), UNCHANGED <<now, policy, pc, since>>
    PROVE  CallOK(c)' /\ CallTimed(c)'
<1>0. /\ ask'[c] = [ask[c] EXCEPT ![p] = "answered"] /\ ev'[c] = [ev[c] EXCEPT ![p] = x]
      /\ acc'[c] = Merge(acc[c], x.verdict)
      /\ ask[c] \in [Provider -> {"lookup", "query", "answered"}]
      /\ ev[c] \in AnswersType /\ acc[c] \in ResultType
  BY DEF Deliver, TypeOK, AnswersType
<1>1. /\ x # Failed /\ Sound(x.verdict) /\ x.verdict \in VerdictType /\ x.at \in Nat
      /\ now \in Nat /\ TTL[p] \in Nat /\ QueryTime \in Nat
  BY Numbers DEF Delivered, Evidence, TypeOK
<1>2. ev[c][p] = Failed /\ Sums(acc[c], ev[c])
  BY DEF CallOK
<1>3. Sums(acc'[c], ev'[c])
  BY <1>0, <1>1, <1>2, MergeSums
<1>4. /\ ev'[c][p] = x /\ ask'[c][p] = "answered"
      /\ \A q \in Provider \ {p} : ev'[c][q] = ev[c][q] /\ ask'[c][q] = ask[c][q]
  BY <1>0 DEF AnswersType
<1>5. acc'[c].unknown <=> acc[c].unknown \/ x.verdict.status = "UNKNOWN"
  BY <1>0, <1>1, MergeEffect
<1>6. acc'[c].unknown <=> \E q \in Provider : ask'[c][q] = "answered" /\ ~Known(ev'[c][q])
  BY <1>1, <1>4, <1>5 DEF CallOK, Known
<1>7. CallOK(c)'
  BY <1>3, <1>4, <1>6 DEF CallOK
<1>8. CallTimed(c)'
  <2>1. \A q \in Provider : since[c][q] \in Nat
    BY Numbers DEF TypeOK
  <2>2. ASSUME NEW q \in Provider
        PROVE  /\ ask'[c][q] = "query" => since'[c][q] <= now' /\ now' <= since'[c][q] + QueryTime
               /\ \A r \in Provider : Known(ev'[c][r]) =>
                    /\ ask'[c][q] = "lookup" => now' <= ev'[c][r].at + TTL[r] + QueryTime
                    /\ ask'[c][q] = "query" => since'[c][q] <= ev'[c][r].at + TTL[r] + QueryTime
    BY <1>1, <1>4, <2>1, <2>2 DEF CallTimed
  <2>3. ASSUME NEW r \in Provider, Known(ev'[c][r])
        PROVE  now' <= ev'[c][r].at + TTL[r] + 2 * QueryTime
    BY <1>1, <1>4, <2>3 DEF CallTimed
  <2> QED BY <2>2, <2>3 DEF CallTimed
<1> QED BY <1>7, <1>8

\* A goroutine of a call delivers nothing.
LEMMA DeliverFailureCall ==
    ASSUME TypeOK, NEW c \in Caller, NEW p \in Provider, CallOK(c), CallTimed(c),
           pc[c] = "ask", ask[c][p] \in {"lookup", "query"},
           DeliverFailure(c, p), UNCHANGED <<now, policy, pc, since>>
    PROVE  CallOK(c)' /\ CallTimed(c)'
<1>0. /\ ask'[c] = [ask[c] EXCEPT ![p] = "answered"] /\ ev'[c] = [ev[c] EXCEPT ![p] = Failed]
      /\ acc'[c] = [acc[c] EXCEPT !.unknown = TRUE]
      /\ ask[c] \in [Provider -> {"lookup", "query", "answered"}]
      /\ ev[c] \in AnswersType /\ acc[c] \in ResultType
  BY DEF DeliverFailure, TypeOK, AnswersType
<1>1. ev'[c] = ev[c]
  BY <1>0 DEF CallOK, AnswersType
<1>2. /\ acc'[c].status = acc[c].status /\ acc'[c].hard = acc[c].hard
      /\ acc'[c].success = acc[c].success /\ acc'[c].traits = acc[c].traits
      /\ acc'[c].unknown
  BY <1>0 DEF ResultType
<1>3. Sums(acc'[c], ev'[c])
  BY <1>1, <1>2 DEF CallOK, Sums
<1>4. ask'[c][p] = "answered" /\ \A q \in Provider \ {p} : ask'[c][q] = ask[c][q]
  BY <1>0
<1>5. ~Known(ev[c][p])
  BY DEF CallOK, Known
<1>6. CallOK(c)'
  BY <1>1, <1>2, <1>3, <1>4, <1>5 DEF CallOK
<1>7. CallTimed(c)'
  BY <1>1, <1>4 DEF CallTimed
<1> QED BY <1>6, <1>7
-----------------------------------------------------------------------------
(* The expiry of the aggregate *)

\* A non-empty set of times has a least element.
LEMMA Smallest ==
    ASSUME NEW S, S \subseteq Nat, S # {}
    PROVE  \E t \in S : \A u \in S : t <= u
<1> DEFINE R == OpToRel(<, Nat)
<1>1. IsWellFoundedOn(R, Nat)
  BY NatLessThanWellFounded
<1> HIDE DEF R
<1>2. PICK t \in S : \A u \in S : ~(<<u, t>> \in R)
  BY <1>1, WFMin
<1>3. ASSUME NEW u \in S PROVE t <= u
  <2>1. ~(<<u, t>> \in R) /\ u \in Nat /\ t \in Nat
    BY <1>2
  <2>2. ~(u < t)
    BY <2>1 DEF R, OpToRel
  <2> QED BY <2>1, <2>2
<1> QED BY <1>3

\* Expires is at most the expiry of each known piece of evidence.
LEMMA ExpiresFirst ==
    ASSUME TypeOK, NEW c \in Caller
    PROVE  /\ Expires(c) \in Nat
           /\ \A p \in Provider : Known(ev[c][p]) => Expires(c) <= ev[c][p].at + TTL[p]
<1> DEFINE bounds == {now + CacheTTL} \cup
                     {ev[c][p].at + TTL[p] : p \in {q \in Provider : Known(ev[c][q])}}
<1>1. \A p \in Provider : Known(ev[c][p]) => ev[c][p].at \in Nat
  <2>1. \A p \in Provider : ev[c][p] \in Evidence \cup {Failed}
    BY DEF TypeOK
  <2> QED BY <2>1, Numbers DEF Known, Evidence
<1>2. bounds \subseteq Nat /\ bounds # {}
  BY <1>1, Numbers DEF TypeOK
<1>3. \E t \in bounds : \A u \in bounds : t <= u
  BY <1>2, Smallest
<1>4. Expires(c) = CHOOSE t \in bounds : \A u \in bounds : t <= u
  BY DEF Expires
<1>5. Expires(c) \in bounds /\ \A u \in bounds : Expires(c) <= u
  BY <1>3, <1>4
<1>6. \A p \in Provider : Known(ev[c][p]) => ev[c][p].at + TTL[p] \in bounds
  OBVIOUS
<1> QED BY <1>2, <1>5, <1>6
-----------------------------------------------------------------------------
(* One lemma per step of a call *)

\* The calls other than the one that takes the step
LEMMA CallsKept ==
    ASSUME Calls, NEW c \in Caller, policy' = policy, now' = now,
           \A d \in Caller \ {c} : UNCHANGED <<pc[d], ask[d], since[d], acc[d], ev[d]>>,
           CallOK(c)', CallTimed(c)'
    PROVE  Calls'
<1> SUFFICES ASSUME NEW d \in Caller PROVE CallOK(d)' /\ CallTimed(d)'
  BY DEF Calls
<1>1. CASE d = c
  BY <1>1
<1>2. CASE d # c
  <2>1. UNCHANGED <<pc[d], ask[d], since[d], acc[d], ev[d]>> /\ CallOK(d) /\ CallTimed(d)
    BY <1>2 DEF Calls
  <2> QED BY <2>1, OtherCall
<1> QED BY <1>1, <1>2

\* The empty accumulator is typed.
LEMMA FreshTyped == Fresh \in ResultType
BY DEF Fresh, ResultType, Status

\* Caches, rows and aggregate when nothing of theirs changes
LEMMA StoresKept ==
    ASSUME UNCHANGED <<policy, entries, provEntries, rows>>, Caches, Rows, Aggregates
    PROVE  Caches' /\ Rows' /\ Aggregates'
<1>1. Caches'
  BY DEF Caches
<1>2. Rows'
  BY DEF Rows
<1>3. entries # None => (Settled(entries.acc, entries.ev)' <=> Settled(entries.acc, entries.ev))
  BY DEF Settled
<1>4. Aggregates'
  BY <1>3 DEF Aggregates
<1> QED BY <1>1, <1>2, <1>4

\* An answer from the aggregate cache preserves the invariant.
LEMMA AggregateHitStep ==
    ASSUME IInv, NEW c \in Caller, AggregateHit(c)
    PROVE  IInv'
<1> USE DEF IInv
<1>1. /\ entries # None /\ entries \in Aggregate /\ now <= entries.until
      /\ pc'[c] = "done" /\ acc'[c] = entries.acc /\ ev'[c] = entries.ev
      /\ UNCHANGED <<now, policy, entries, provEntries, rows, healthy, ask, since, restarts>>
      /\ \A d \in Caller \ {c} : UNCHANGED <<pc[d], ask[d], since[d], acc[d], ev[d]>>
  BY DEF AggregateHit, Hit, TypeOK
<1>2. TypeOK'
  BY <1>1 DEF AggregateHit, TypeOK, Aggregate
<1>3. Caches' /\ Rows' /\ Aggregates'
  BY <1>1, StoresKept
<1>4. CallOK(c)'
  <2>1. Settled(entries.acc, entries.ev) /\ \A p \in Provider : Delivered(entries.ev[p])
    BY <1>1 DEF Aggregates
  <2>2. Settled(acc[c], ev[c])'
    BY <1>1, <2>1 DEF Settled
  <2> QED BY <1>1, <2>1, <2>2 DEF CallOK
<1>5. CallTimed(c)'
  <2>1. ASSUME NEW p \in Provider, Known(entries.ev[p])
        PROVE  now <= entries.ev[p].at + TTL[p] + 2 * QueryTime
    <3>1. entries.ev[p] \in Evidence /\ entries.until \in Nat
      BY <1>1, <2>1 DEF Aggregate, Known
    <3>2. entries.until <= entries.ev[p].at + TTL[p] /\ entries.ev[p].at \in Nat
      BY <1>1, <2>1, <3>1, Numbers DEF Aggregates, Evidence
    <3> QED BY <1>1, <3>1, <3>2, Numbers DEF TypeOK
  <2> QED BY <1>1, <2>1 DEF CallTimed
<1>6. Calls'
  BY <1>1, <1>4, <1>5, CallsKept
<1> QED BY <1>2, <1>3, <1>6

\* The start of a call does.
LEMMA BeginStep ==
    ASSUME IInv, NEW c \in Caller, Begin(c)
    PROVE  IInv'
<1> USE DEF IInv
<1>1. /\ pc[c] = "idle" /\ pc'[c] = "ask"
      /\ UNCHANGED <<now, policy, entries, provEntries, rows, healthy, ask, since, acc, ev, restarts>>
      /\ \A d \in Caller \ {c} : pc'[d] = pc[d]
  BY DEF Begin, TypeOK
<1>2. TypeOK'
  BY <1>1 DEF Begin, TypeOK
<1>3. Caches' /\ Rows' /\ Aggregates'
  BY <1>1, StoresKept
<1>4. /\ acc[c] = Fresh
      /\ \A p \in Provider : ask[c][p] = "lookup" /\ ev[c][p] = Failed /\ ~Known(ev[c][p])
  BY <1>1 DEF Calls, CallOK, Known
<1>5. Sums(acc[c], ev[c])
  <2>1. KnownIn(ev[c]) = {}
    BY <1>4 DEF KnownIn
  <2> QED BY <1>4, <2>1 DEF Sums, WorstIn, Fresh
<1>6. CallOK(c)'
  BY <1>1, <1>4, <1>5 DEF CallOK, Delivered, Fresh
<1>7. CallTimed(c)'
  BY <1>1, <1>4 DEF CallTimed
<1>8. Calls'
  BY <1>1, <1>6, <1>7, CallsKept
<1> QED BY <1>2, <1>3, <1>8

\* Types of what a delivery changes
LEMMA DeliverTyped ==
    ASSUME TypeOK, NEW c \in Caller, NEW p \in Provider,
           \/ DeliverFailure(c, p)
           \/ \E x \in Evidence : Deliver(c, p, x)
    PROVE  /\ ask' \in [Caller -> [Provider -> {"lookup", "query", "answered"}]]
           /\ ev' \in [Caller -> [Provider -> Evidence \cup {Failed}]]
           /\ acc' \in [Caller -> ResultType]
           /\ \A d \in Caller \ {c} : UNCHANGED <<ask[d], acc[d], ev[d]>>
<1>1. CASE DeliverFailure(c, p)
  <2>1. [acc[c] EXCEPT !.unknown = TRUE] \in ResultType
    <3>1. acc[c] \in ResultType
      BY DEF TypeOK
    <3> QED BY <3>1 DEF ResultType
  <2> QED BY <1>1, <2>1 DEF DeliverFailure, TypeOK
<1>2. ASSUME NEW x \in Evidence, Deliver(c, p, x)
      PROVE  /\ ask' \in [Caller -> [Provider -> {"lookup", "query", "answered"}]]
             /\ ev' \in [Caller -> [Provider -> Evidence \cup {Failed}]]
             /\ acc' \in [Caller -> ResultType]
             /\ \A d \in Caller \ {c} : UNCHANGED <<ask[d], acc[d], ev[d]>>
  <2>1. x.verdict \in VerdictType
    BY DEF Evidence
  <2>2. Merge(acc[c], x.verdict) \in ResultType
    BY <2>1, MergeTyped DEF TypeOK
  <2> QED BY <1>2, <2>2 DEF Deliver, TypeOK
<1> QED BY <1>1, <1>2

\* A provider's cached answer does.
LEMMA FromCacheStep ==
    ASSUME IInv, NEW c \in Caller, NEW p \in Provider, FromCache(c, p)
    PROVE  IInv'
<1> USE DEF IInv
<1> DEFINE x == provEntries[p].ev
<1>1. /\ pc[c] = "ask" /\ ask[c][p] = "lookup" /\ provEntries[p] # None
      /\ now <= provEntries[p].until /\ Deliver(c, p, x)
      /\ UNCHANGED <<now, policy, entries, provEntries, rows, healthy, pc, since, restarts>>
  BY DEF FromCache, Hit
<1>2. x \in Evidence /\ provEntries[p].until \in Nat
  BY <1>1 DEF TypeOK, Cached
<1>3. Delivered(x) /\ provEntries[p].until <= x.at + TTL[p] + QueryTime
  BY <1>1 DEF Caches
<1>4. now <= x.at + TTL[p] + QueryTime
  <2>1. x.at \in Nat /\ now \in Nat /\ TTL[p] \in Nat /\ QueryTime \in Nat
    BY <1>2, Numbers DEF Evidence, TypeOK
  <2> QED BY <1>1, <1>2, <1>3, <2>1
<1> HIDE DEF x
<1>5. CallOK(c)' /\ CallTimed(c)'
  BY <1>1, <1>2, <1>3, <1>4, DeliverCall DEF Calls
<1>6. /\ ask' \in [Caller -> [Provider -> {"lookup", "query", "answered"}]]
      /\ ev' \in [Caller -> [Provider -> Evidence \cup {Failed}]]
      /\ acc' \in [Caller -> ResultType]
      /\ \A d \in Caller \ {c} : UNCHANGED <<ask[d], acc[d], ev[d]>>
  BY <1>1, <1>2, DeliverTyped
<1>7. Calls'
  BY <1>1, <1>5, <1>6, CallsKept
<1>8. TypeOK'
  BY <1>1, <1>6 DEF TypeOK
<1> QED BY <1>1, <1>7, <1>8, StoresKept

\* A usable row is restored to what the provider had said.
LEMMA Restored ==
    ASSUME IInv, NEW p \in Provider, Usable(p)
    PROVE  /\ Restore(p) \in Evidence /\ Delivered(Restore(p))
           /\ Restore(p).at = rows[p].at
<1> USE DEF IInv
<1>1. rows[p] \in Row /\ rows[p] # None
  BY DEF Usable, TypeOK
<1>2. Restore(p).at = rows[p].at /\ Restore(p).said = rows[p].said
  BY DEF Restore
<1>3. CASE rows[p].reason
  <2>1. Restore(p) = [verdict |-> rows[p].verdict, at |-> rows[p].at, said |-> rows[p].said]
    BY <1>3 DEF Restore
  <2>2. Sound(rows[p].verdict) /\ rows[p].verdict = rows[p].said
    BY <1>1, <1>3 DEF Rows
  <2> QED BY <1>1, <1>2, <2>1, <2>2 DEF Delivered, Evidence, Row
<1>4. CASE ~rows[p].reason
  <2>1. p = "ProxyCheck.io"
    BY <1>4 DEF Usable
  <2>2. PICK r \in Report[p] : rows[p] = LegacyRow(p, r)
    BY <1>1, <1>4 DEF Rows
  <2> DEFINE w == Rule(p, r)
  <2>3. r \in ReportType /\ r.score \in Nat /\ w \in VerdictType /\ Sound(w)
    BY ReportSound
  <2>4. w.hard <=> w.status = "BAD"
    BY <2>1, <2>3, LegacyRestored
  <2>5. w.penalty = IF w.status = "RISKY" THEN r.score ELSE 0
    BY <2>1, <2>3, LegacyRestored
  <2>6. /\ rows[p].verdict = [w EXCEPT !.hard = FALSE, !.penalty = 0]
        /\ rows[p].score = r.score /\ rows[p].said = w
    BY <2>2 DEF LegacyRow
  <2> HIDE DEF w
  <2>7. /\ w = [status |-> w.status, hard |-> w.hard, penalty |-> w.penalty, traits |-> w.traits]
        /\ w.hard \in BOOLEAN
    BY <2>3 DEF VerdictType
  <2>8. /\ rows[p].verdict.status = w.status /\ rows[p].verdict.penalty = 0
        /\ rows[p].verdict = [status |-> w.status, hard |-> FALSE, penalty |-> 0, traits |-> w.traits]
    BY <2>6, <2>7
  <2>9. Restore(p).verdict =
          [status |-> w.status, hard |-> (w.status = "BAD"),
           penalty |-> IF w.status = "RISKY" THEN r.score ELSE 0, traits |-> w.traits]
    BY <1>4, <2>6, <2>8 DEF Restore
  <2>10. w.hard = (w.status = "BAD")
    BY <2>4, <2>7
  <2>11. Restore(p).verdict = w
    BY <2>5, <2>7, <2>9, <2>10
  <2>12. Delivered(Restore(p))
    BY <1>2, <2>3, <2>6, <2>11 DEF Delivered
  <2>13. Restore(p) = [verdict |-> w, at |-> rows[p].at, said |-> w]
    BY <1>4, <2>6, <2>11 DEF Restore
  <2> QED BY <1>1, <1>2, <2>3, <2>12, <2>13 DEF Evidence, Row
<1> QED BY <1>3, <1>4

\* Evidence restored from the database does.
LEMMA FromDurableStep ==
    ASSUME IInv, NEW c \in Caller, NEW p \in Provider, FromDurable(c, p)
    PROVE  IInv'
<1> USE DEF IInv
<1> DEFINE x == Restore(p)
<1>1. /\ pc[c] = "ask" /\ ask[c][p] = "lookup" /\ Usable(p) /\ Deliver(c, p, x)
      /\ provEntries' = [provEntries EXCEPT ![p] = [ev |-> x, until |-> rows[p].at + TTL[p]]]
      /\ UNCHANGED <<now, policy, entries, rows, healthy, pc, since, restarts>>
  BY DEF FromDurable
<1>2. x \in Evidence /\ Delivered(x) /\ x.at = rows[p].at
  BY <1>1, Restored
<1>3. /\ x.at \in Nat /\ now \in Nat /\ TTL[p] \in Nat /\ QueryTime \in Nat
      /\ rows[p].at + TTL[p] > now
  BY <1>1, <1>2, Numbers DEF Evidence, TypeOK, Usable
<1> HIDE DEF x
<1>4. now <= x.at + TTL[p] + QueryTime
  BY <1>2, <1>3
<1>5. CallOK(c)' /\ CallTimed(c)'
  BY <1>1, <1>2, <1>4, DeliverCall DEF Calls
<1>6. /\ ask' \in [Caller -> [Provider -> {"lookup", "query", "answered"}]]
      /\ ev' \in [Caller -> [Provider -> Evidence \cup {Failed}]]
      /\ acc' \in [Caller -> ResultType]
      /\ \A d \in Caller \ {c} : UNCHANGED <<ask[d], acc[d], ev[d]>>
  BY <1>1, <1>2, DeliverTyped
<1>7. Calls'
  BY <1>1, <1>5, <1>6, CallsKept
<1>8. /\ provEntries' \in [Provider -> Cached \cup {None}]
      /\ provEntries'[p] = [ev |-> x, until |-> x.at + TTL[p]]
      /\ \A q \in Provider \ {p} : provEntries'[q] = provEntries[q]
  <2>1. [ev |-> x, until |-> x.at + TTL[p]] \in Cached
    BY <1>2, <1>3 DEF Cached
  <2> QED BY <1>1, <1>2, <2>1 DEF TypeOK
<1>9. TypeOK'
  BY <1>1, <1>6, <1>8 DEF TypeOK
<1>10. Caches'
  BY <1>2, <1>3, <1>8 DEF Caches
<1>11. Rows' /\ Aggregates'
  BY <1>1 DEF Rows, Aggregates, Settled
<1> QED BY <1>7, <1>9, <1>10, <1>11

\* Asking a provider does.
LEMMA QueryStep ==
    ASSUME IInv, NEW c \in Caller, NEW p \in Provider, Query(c, p)
    PROVE  IInv'
<1> USE DEF IInv
<1>1. /\ pc[c] = "ask" /\ ask[c][p] = "lookup"
      /\ ask' = [ask EXCEPT ![c][p] = "query"] /\ since' = [since EXCEPT ![c][p] = now]
      /\ UNCHANGED <<now, policy, entries, provEntries, rows, healthy, pc, acc, ev, restarts>>
  BY DEF Query, Miss
<1>2. TypeOK'
  BY <1>1 DEF TypeOK
<1>3. /\ ask'[c][p] = "query" /\ since'[c][p] = now
      /\ \A q \in Provider \ {p} : ask'[c][q] = ask[c][q] /\ since'[c][q] = since[c][q]
      /\ \A d \in Caller \ {c} : ask'[d] = ask[d] /\ since'[d] = since[d]
  BY <1>1 DEF TypeOK
<1>4. CallOK(c) /\ CallTimed(c) /\ now \in Nat /\ QueryTime \in Nat
  BY Numbers DEF Calls, TypeOK
<1>5. CallOK(c)'
  BY <1>1, <1>3, <1>4 DEF CallOK
<1>6. CallTimed(c)'
  BY <1>1, <1>3, <1>4 DEF CallTimed
<1>7. Calls'
  BY <1>1, <1>3, <1>5, <1>6, CallsKept
<1> QED BY <1>1, <1>2, <1>7, StoresKept

\* A failing or backed-off provider does.
LEMMA FailureStep ==
    ASSUME IInv, NEW c \in Caller, NEW p \in Provider,
           InBackoff(c, p) \/ \E backoff \in BOOLEAN : QueryFails(c, p, backoff)
    PROVE  IInv'
<1> USE DEF IInv
<1>1. /\ pc[c] = "ask" /\ ask[c][p] \in {"lookup", "query"} /\ DeliverFailure(c, p)
      /\ UNCHANGED <<now, policy, entries, provEntries, rows, pc, since, restarts>>
  BY DEF InBackoff, Miss, QueryFails
<1>2. healthy' \in [Provider -> BOOLEAN]
  BY DEF InBackoff, QueryFails, TypeOK
<1>3. CallOK(c)' /\ CallTimed(c)'
  BY <1>1, DeliverFailureCall DEF Calls
<1>4. /\ ask' \in [Caller -> [Provider -> {"lookup", "query", "answered"}]]
      /\ ev' \in [Caller -> [Provider -> Evidence \cup {Failed}]]
      /\ acc' \in [Caller -> ResultType]
      /\ \A d \in Caller \ {c} : UNCHANGED <<ask[d], acc[d], ev[d]>>
  BY <1>1, DeliverTyped
<1>5. Calls'
  BY <1>1, <1>3, <1>4, CallsKept
<1>6. TypeOK'
  BY <1>1, <1>2, <1>4 DEF TypeOK
<1> QED BY <1>1, <1>5, <1>6, StoresKept

\* A provider's answer does, cached and persisted or not.
LEMMA AnswerStep ==
    ASSUME IInv, NEW c \in Caller, NEW p \in Provider, NEW r \in Report[p], Answer(c, p, r)
    PROVE  IInv'
<1> USE DEF IInv
<1> DEFINE v == Rule(p, r)
           x == [verdict |-> v, at |-> since[c][p], said |-> v]
           row == [verdict |-> v, score |-> r.score, reason |-> TRUE,
                   at |-> since[c][p], said |-> v]
<1>1. /\ pc[c] = "ask" /\ ask[c][p] = "query" /\ Deliver(c, p, x)
      /\ provEntries' = [provEntries EXCEPT ![p] = [ev |-> x, until |-> now + TTL[p]]]
      /\ rows' = rows \/ rows' = [rows EXCEPT ![p] = row]
      /\ healthy' = [healthy EXCEPT ![p] = TRUE]
      /\ UNCHANGED <<now, policy, entries, pc, since, restarts>>
  BY DEF Answer
<1>2. v \in VerdictType /\ Sound(v) /\ r.score \in Nat
  BY ReportSound
<1> HIDE DEF v
<1>3. /\ since[c][p] \in Time /\ since[c][p] \in Nat /\ now \in Nat /\ TTL[p] \in Nat
      /\ QueryTime \in Nat /\ CallOK(c) /\ CallTimed(c)
  BY Numbers DEF TypeOK, Calls
<1>4. x \in Evidence /\ row \in Row /\ x.verdict = v /\ x.said = v /\ x.at = since[c][p]
  BY <1>2, <1>3 DEF Evidence, Row
<1>5. since[c][p] <= now /\ now <= since[c][p] + QueryTime
  BY <1>1, <1>3 DEF CallTimed
<1>6. Delivered(x) /\ now <= x.at + TTL[p] + QueryTime
  BY <1>2, <1>3, <1>4, <1>5 DEF Delivered
<1>7. /\ row.reason /\ row.verdict = v /\ row.said = v
  OBVIOUS
<1> HIDE DEF x, row
<1>8. CallOK(c)' /\ CallTimed(c)'
  BY <1>1, <1>3, <1>4, <1>6, DeliverCall
<1>9. /\ ask' \in [Caller -> [Provider -> {"lookup", "query", "answered"}]]
      /\ ev' \in [Caller -> [Provider -> Evidence \cup {Failed}]]
      /\ acc' \in [Caller -> ResultType]
      /\ \A d \in Caller \ {c} : UNCHANGED <<ask[d], acc[d], ev[d]>>
  BY <1>1, <1>4, DeliverTyped
<1>10. Calls'
  BY <1>1, <1>8, <1>9, CallsKept
<1>11. /\ provEntries' \in [Provider -> Cached \cup {None}]
       /\ provEntries'[p] = [ev |-> x, until |-> now + TTL[p]]
       /\ \A q \in Provider \ {p} : provEntries'[q] = provEntries[q]
  <2>1. [ev |-> x, until |-> now + TTL[p]] \in Cached
    BY <1>3, <1>4 DEF Cached
  <2> QED BY <1>1, <2>1 DEF TypeOK
<1>12. /\ rows' \in [Provider -> Row \cup {None}]
       /\ rows'[p] = rows[p] \/ rows'[p] = row
       /\ \A q \in Provider \ {p} : rows'[q] = rows[q]
  BY <1>1, <1>4 DEF TypeOK
<1>13. TypeOK'
  BY <1>1, <1>9, <1>11, <1>12 DEF TypeOK
<1>14. Caches'
  <2>1. provEntries'[p].ev = x /\ provEntries'[p].until = now + TTL[p]
    BY <1>11
  <2>2. now + TTL[p] <= x.at + TTL[p] + QueryTime
    BY <1>3, <1>4, <1>5
  <2> QED BY <1>6, <1>11, <2>1, <2>2 DEF Caches
<1>15. Rows'
  BY <1>2, <1>7, <1>12 DEF Rows
<1>16. Aggregates'
  BY <1>1 DEF Aggregates, Settled
<1> QED BY <1>10, <1>13, <1>14, <1>15, <1>16

\* Applying the policy and storing the aggregate does.
LEMMA FinishStep ==
    ASSUME IInv, NEW c \in Caller, Finish(c)
    PROVE  IInv'
<1> USE DEF IInv
<1> DEFINE a == acc[c]
           b == UnderPolicy(a)
<1>1. /\ pc[c] = "ask" /\ \A p \in Provider : ask[c][p] = "answered"
      /\ pc' = [pc EXCEPT ![c] = "done"] /\ acc' = [acc EXCEPT ![c] = b]
      /\ entries' = IF a.success THEN [acc |-> b, ev |-> ev[c], until |-> Expires(c)] ELSE entries
      /\ UNCHANGED <<now, policy, provEntries, rows, healthy, ask, since, ev, restarts>>
  BY DEF Finish
<1>2. /\ a \in ResultType /\ CallOK(c) /\ CallTimed(c) /\ Sums(a, ev[c])
      /\ a.unknown <=> KnownIn(ev[c]) # Provider
      /\ ev[c] \in AnswersType
  <2>1. CallOK(c) /\ CallTimed(c) /\ a \in ResultType /\ ev[c] \in AnswersType
    BY DEF Calls, TypeOK, AnswersType
  <2>2. Sums(a, ev[c]) /\ (a.unknown <=> \E p \in Provider : ~Known(ev[c][p]))
    BY <1>1, <2>1 DEF CallOK
  <2> QED BY <2>1, <2>2 DEF KnownIn
<1>3. /\ a.penalty \in Nat /\ a.hard \in BOOLEAN /\ a.success \in BOOLEAN
      /\ a.unknown \in BOOLEAN /\ Lenient \in Nat
  BY <1>2, Numbers DEF ResultType
<1>4. b \in ResultType
  <2>1. \A s \in Status, n \in Nat : [a EXCEPT !.status = s, !.penalty = n] \in ResultType
    BY <1>2 DEF ResultType
  <2>2. "UNKNOWN" \in Status /\ a.status \in Status /\ a.penalty + Lenient \in Nat
    BY <1>2, <1>3 DEF ResultType, Status
  <2>3. CASE ~a.success
    BY <1>3, <2>1, <2>2, <2>3 DEF UnderPolicy
  <2>4. CASE a.success /\ a.unknown /\ ~a.hard
    BY <1>3, <2>1, <2>2, <2>4 DEF UnderPolicy
  <2>5. CASE a.success /\ ~(a.unknown /\ ~a.hard)
    BY <1>2, <2>5 DEF UnderPolicy
  <2> QED BY <2>3, <2>4, <2>5
<1>5. /\ b.hard = a.hard /\ b.success = a.success /\ b.traits = a.traits
      /\ b.status = IF ~a.success \/ (a.unknown /\ ~a.hard /\ policy = "conservative")
                    THEN "UNKNOWN" ELSE a.status
  BY <1>2, <1>3 DEF UnderPolicy, ResultType
<1> HIDE DEF b
<1>6. Settled(b, ev[c])
  BY <1>2, <1>5 DEF Settled, Sums
<1>7. /\ pc'[c] = "done" /\ acc'[c] = b /\ ev'[c] = ev[c]
      /\ \A d \in Caller \ {c} : UNCHANGED <<pc[d], ask[d], since[d], acc[d], ev[d]>>
  BY <1>1 DEF TypeOK
<1>8. CallOK(c)'
  <2>1. Settled(acc[c], ev[c])'
    BY <1>1, <1>6, <1>7 DEF Settled
  <2> QED BY <1>2, <1>7, <2>1 DEF CallOK
<1>9. CallTimed(c)'
  BY <1>1, <1>2, <1>7 DEF CallTimed
<1>10. Calls'
  BY <1>1, <1>7, <1>8, <1>9, CallsKept
<1>11. /\ Expires(c) \in Nat
       /\ \A p \in Provider : Known(ev[c][p]) => Expires(c) <= ev[c][p].at + TTL[p]
  BY ExpiresFirst
<1>12. entries' \in Aggregate \cup {None}
  BY <1>1, <1>2, <1>4, <1>11 DEF TypeOK, Aggregate, AnswersType
<1>13. TypeOK'
  BY <1>1, <1>4, <1>12 DEF TypeOK
<1>14. Aggregates'
  <2>1. CASE a.success
    <3>1. entries'.acc = b /\ entries'.ev = ev[c] /\ entries'.until = Expires(c)
      BY <1>1, <2>1
    <3>2. Settled(entries.acc, entries.ev)'
      BY <1>1, <1>6, <3>1 DEF Settled
    <3> QED BY <1>2, <1>11, <3>1, <3>2 DEF Aggregates, CallOK
  <2>2. CASE ~a.success
    BY <1>1, <2>2 DEF Aggregates, Settled
  <2> QED BY <2>1, <2>2
<1>15. Caches' /\ Rows'
  BY <1>1 DEF Caches, Rows
<1> QED BY <1>10, <1>13, <1>14, <1>15

\* A call that is idle again
LEMMA IdleCall ==
    ASSUME NEW c \in Caller, pc'[c] = "idle", acc'[c] = Fresh,
           ask'[c] = [p \in Provider |-> "lookup"], ev'[c] = [p \in Provider |-> Failed]
    PROVE  CallOK(c)' /\ CallTimed(c)'
<1>1. \A p \in Provider : ask'[c][p] = "lookup" /\ ev'[c][p] = Failed /\ ~Known(ev'[c][p])
  BY DEF Known
<1>2. CallOK(c)'
  BY <1>1 DEF CallOK, Delivered, Fresh
<1>3. CallTimed(c)'
  BY <1>1 DEF CallTimed
<1> QED BY <1>2, <1>3

\* The end of a call does.
LEMMA ReturnStep ==
    ASSUME IInv, NEW c \in Caller, Return(c)
    PROVE  IInv'
<1> USE DEF IInv
<1>1. /\ UNCHANGED <<now, policy, entries, provEntries, rows, healthy, restarts>>
      /\ pc'[c] = "idle" /\ acc'[c] = Fresh
      /\ ask'[c] = [p \in Provider |-> "lookup"] /\ ev'[c] = [p \in Provider |-> Failed]
      /\ \A d \in Caller \ {c} : UNCHANGED <<pc[d], ask[d], since[d], acc[d], ev[d]>>
  BY DEF Return, TypeOK
<1>2. CallOK(c)' /\ CallTimed(c)'
  BY <1>1, IdleCall
<1>3. Calls'
  BY <1>1, <1>2, CallsKept
<1>4. TypeOK'
  BY <1>1, FreshTyped, ReputationAssumption DEF Return, TypeOK, Time
<1> QED BY <1>1, <1>3, <1>4, StoresKept

\* The end of a backoff does.
LEMMA BackoffStep ==
    ASSUME IInv, NEW p \in Provider, BackoffEnds(p)
    PROVE  IInv'
<1> USE DEF IInv
<1>1. UNCHANGED <<now, policy, entries, provEntries, rows, pc, ask, since, acc, ev, restarts>>
  BY DEF BackoffEnds
<1>2. TypeOK'
  BY <1>1 DEF BackoffEnds, TypeOK
<1>3. ASSUME NEW d \in Caller PROVE CallOK(d)' /\ CallTimed(d)'
  BY <1>1, OtherCall DEF Calls
<1>4. Calls'
  BY <1>3 DEF Calls
<1> QED BY <1>1, <1>2, <1>4, StoresKept

\* Time passes only while the calls wait for queries that have not timed out.
LEMMA TickStep ==
    ASSUME IInv, Tick
    PROVE  IInv'
<1> USE DEF IInv
<1>1. /\ now < MaxTime /\ now' = now + 1 /\ \A c \in Caller : pc[c] = "idle" \/ Waiting(c)
      /\ UNCHANGED <<policy, entries, provEntries, rows, healthy, pc, ask, since, acc, ev, restarts>>
      /\ now \in Nat /\ MaxTime \in Nat /\ QueryTime \in Nat
  BY Numbers, ReputationAssumption DEF Tick, TypeOK
<1>2. TypeOK'
  BY <1>1 DEF TypeOK, Time
<1>3. ASSUME NEW c \in Caller PROVE CallOK(c)' /\ CallTimed(c)'
  <2>1. CallOK(c) /\ CallTimed(c)
    BY DEF Calls
  <2>2. CallOK(c)'
    <3>1. Settled(acc[c], ev[c])' <=> Settled(acc[c], ev[c])
      BY <1>1 DEF Settled
    <3> QED BY <1>1, <2>1, <3>1 DEF CallOK
  <2>3. CASE pc[c] = "idle"
    BY <1>1, <2>2, <2>3 DEF CallTimed
  <2>4. CASE Waiting(c)
    <3>1. PICK q \in Provider : pc[c] = "ask" /\ ask[c][q] = "query"
      BY <2>4 DEF Waiting
    <3>2. ASSUME NEW p \in Provider
          PROVE  /\ ask[c][p] # "lookup" /\ since[c][p] \in Nat
                 /\ ask[c][p] = "query" => now < since[c][p] + QueryTime
      BY <2>4, Numbers DEF Waiting, TypeOK
    <3>3. ASSUME NEW p \in Provider, Known(ev[c][p])
          PROVE  ev[c][p].at \in Nat /\ TTL[p] \in Nat
      <4>1. ev[c][p] \in Evidence \cup {Failed}
        BY DEF TypeOK
      <4> QED BY <3>3, <4>1, Numbers DEF Known, Evidence
    <3>4. ASSUME NEW p \in Provider, Known(ev[c][p])
          PROVE  now + 1 <= ev[c][p].at + TTL[p] + 2 * QueryTime
      <4>1. since[c][q] <= ev[c][p].at + TTL[p] + QueryTime
        BY <2>1, <3>1, <3>4 DEF CallTimed
      <4>2. now < since[c][q] + QueryTime /\ since[c][q] \in Nat
        BY <3>1, <3>2
      <4>3. ev[c][p].at \in Nat /\ TTL[p] \in Nat
        BY <3>3, <3>4
      <4> QED BY <1>1, <4>1, <4>2, <4>3
    <3>5. ASSUME NEW p \in Provider, ask[c][p] = "query"
          PROVE  since[c][p] <= now + 1 /\ now + 1 <= since[c][p] + QueryTime
      BY <1>1, <2>1, <3>1, <3>2, <3>5 DEF CallTimed
    <3> QED BY <1>1, <2>1, <2>2, <3>1, <3>2, <3>4, <3>5 DEF CallTimed
  <2> QED BY <1>1, <2>2, <2>3, <2>4
<1>4. Calls'
  BY <1>3 DEF Calls
<1> QED BY <1>1, <1>2, <1>4, StoresKept

\* A restart does: only the rows survive it.
LEMMA RestartStep ==
    ASSUME IInv, Restart
    PROVE  IInv'
<1> USE DEF IInv
<1>1. TypeOK'
  BY FreshTyped, ReputationAssumption DEF Restart, TypeOK, Time
<1>2. ASSUME NEW c \in Caller PROVE CallOK(c)' /\ CallTimed(c)'
  <2>1. /\ pc'[c] = "idle" /\ acc'[c] = Fresh
        /\ ask'[c] = [p \in Provider |-> "lookup"] /\ ev'[c] = [p \in Provider |-> Failed]
    BY DEF Restart
  <2> QED BY <2>1, IdleCall
<1>3. Calls'
  BY <1>2 DEF Calls
<1>4. Caches' /\ Rows' /\ Aggregates'
  BY DEF Restart, Caches, Rows, Aggregates
<1> QED BY <1>1, <1>3, <1>4
-----------------------------------------------------------------------------
(* The invariant and the properties *)

\* The inductive invariant holds initially ...
LEMMA InitIInv == Init => IInv
<1> SUFFICES ASSUME Init PROVE IInv
  OBVIOUS
<1>1. Rows /\ rows \in [Provider -> Row \cup {None}]
  <2>1. CASE rows = [p \in Provider |-> None]
    BY <2>1 DEF Rows
  <2>2. CASE rows # [p \in Provider |-> None]
    <3>1. PICK f \in [Provider -> UNION {Report[p] : p \in Provider}] :
            /\ \A p \in Provider : f[p] \in Report[p]
            /\ rows = [p \in Provider |-> LegacyRow(p, f[p])]
      BY <2>2 DEF Init
    <3>2. ASSUME NEW p \in Provider
          PROVE  /\ rows[p] \in Row /\ rows[p].reason = FALSE
                 /\ f[p] \in Report[p] /\ rows[p] = LegacyRow(p, f[p])
      <4>1. f[p] \in Report[p] /\ rows[p] = LegacyRow(p, f[p])
        BY <3>1
      <4>2. f[p].score \in Nat /\ Rule(p, f[p]) \in VerdictType
        BY <4>1, ReportSound
      <4>3. [Rule(p, f[p]) EXCEPT !.hard = FALSE, !.penalty = 0] \in VerdictType
        BY <4>2 DEF VerdictType
      <4>4. 0 \in Time
        BY ReputationAssumption DEF Time
      <4>5. LegacyRow(p, f[p]) \in Row /\ LegacyRow(p, f[p]).reason = FALSE
        BY <4>2, <4>3, <4>4 DEF LegacyRow, Row
      <4> QED BY <4>1, <4>5
    <3>3. Rows
      BY <3>2 DEF Rows
    <3> QED BY <3>1, <3>2, <3>3
  <2> QED BY <2>1, <2>2
<1>2. TypeOK
  BY <1>1, FreshTyped, ReputationAssumption DEF Init, TypeOK, Time
<1>3. Calls
  <2> SUFFICES ASSUME NEW c \in Caller PROVE CallOK(c) /\ CallTimed(c)
    BY DEF Calls
  <2>1. /\ pc[c] = "idle" /\ acc[c] = Fresh
        /\ \A p \in Provider : ask[c][p] = "lookup" /\ ev[c][p] = Failed /\ ~Known(ev[c][p])
    BY DEF Init, Known
  <2>2. CallOK(c)
    BY <2>1 DEF CallOK, Delivered, Fresh
  <2>3. CallTimed(c)
    BY <2>1 DEF CallTimed
  <2> QED BY <2>2, <2>3
<1>4. Caches /\ Aggregates
  BY DEF Init, Caches, Aggregates
<1> QED BY <1>1, <1>2, <1>3, <1>4 DEF IInv

\* ... and every step preserves it.
LEMMA NextIInv == IInv /\ [Next]_vars => IInv'
<1> SUFFICES ASSUME IInv, [Next]_vars PROVE IInv'
  OBVIOUS
<1>1. ASSUME NEW c \in Caller, AggregateHit(c) PROVE IInv'
  BY <1>1, AggregateHitStep
<1>2. ASSUME NEW c \in Caller, Begin(c) PROVE IInv'
  BY <1>2, BeginStep
<1>3. ASSUME NEW c \in Caller, Finish(c) PROVE IInv'
  BY <1>3, FinishStep
<1>4. ASSUME NEW c \in Caller, Return(c) PROVE IInv'
  BY <1>4, ReturnStep
<1>5. ASSUME NEW c \in Caller, NEW p \in Provider, FromCache(c, p) PROVE IInv'
  BY <1>5, FromCacheStep
<1>6. ASSUME NEW c \in Caller, NEW p \in Provider, FromDurable(c, p) PROVE IInv'
  BY <1>6, FromDurableStep
<1>7. ASSUME NEW c \in Caller, NEW p \in Provider, Query(c, p) PROVE IInv'
  BY <1>7, QueryStep
<1>8. ASSUME NEW c \in Caller, NEW p \in Provider, InBackoff(c, p) PROVE IInv'
  BY <1>8, FailureStep
<1>9. ASSUME NEW c \in Caller, NEW p \in Provider, NEW r \in Report[p], Answer(c, p, r)
      PROVE  IInv'
  BY <1>9, AnswerStep
<1>10. ASSUME NEW c \in Caller, NEW p \in Provider, NEW backoff \in BOOLEAN,
              QueryFails(c, p, backoff)
       PROVE  IInv'
  BY <1>10, FailureStep
<1>11. ASSUME NEW p \in Provider, BackoffEnds(p) PROVE IInv'
  BY <1>11, BackoffStep
<1>12. CASE Tick
  BY <1>12, TickStep
<1>13. CASE Restart
  BY <1>13, RestartStep
<1>14. CASE UNCHANGED vars
  <2>1. UNCHANGED <<now, policy, entries, provEntries, rows, healthy, pc, ask, since, acc, ev, restarts>>
    BY <1>14 DEF vars
  <2>2. ASSUME NEW d \in Caller PROVE CallOK(d)' /\ CallTimed(d)'
    BY <2>1, OtherCall DEF IInv, Calls
  <2>3. Calls' /\ TypeOK'
    BY <2>1, <2>2 DEF Calls, IInv, TypeOK
  <2> QED BY <2>1, <2>3, StoresKept DEF IInv
<1> QED BY <1>1, <1>2, <1>3, <1>4, <1>5, <1>6, <1>7, <1>8, <1>9, <1>10, <1>11, <1>12, <1>13, <1>14
    DEF Next

\* The inductive invariant of the engine holds in every behaviour.
THEOREM Invariance == Spec => []IInv
BY InitIInv, NextIInv, PTL DEF Spec

\* Every value the engine computes has its type: merging and the failure policy
\* only ever add to the penalty.
THEOREM TypeCorrect == Spec => []TypeOK
<1>1. IInv => TypeOK
  BY DEF IInv
<1> QED BY <1>1, Invariance, PTL

\* No verdict outlives the answers it rests on (aggregateExpiry in EvaluateIP),
\* for any TTLs and any number of concurrent calls.
THEOREM VerdictsFresh == Spec => []VerdictFresh
<1>1. IInv => VerdictFresh
  <2> SUFFICES ASSUME IInv PROVE VerdictFresh
    OBVIOUS
  <2>1. ASSUME Hit(entries), NEW p \in Provider, Known(entries.ev[p])
        PROVE  now <= entries.ev[p].at + TTL[p]
    <3>1. entries \in Aggregate /\ now <= entries.until /\ entries # None
      BY <2>1 DEF IInv, TypeOK, Hit
    <3>2. entries.ev[p] \in Evidence /\ entries.until \in Nat
      BY <2>1, <3>1 DEF Aggregate, Known
    <3>3. entries.until <= entries.ev[p].at + TTL[p] /\ entries.ev[p].at \in Nat
      BY <2>1, <3>1, <3>2, Numbers DEF IInv, Aggregates, Evidence
    <3> QED BY <3>1, <3>2, <3>3, Numbers DEF IInv, TypeOK
  <2>2. ASSUME NEW c \in Caller, NEW p \in Provider, pc[c] = "done", Known(ev[c][p])
        PROVE  now <= ev[c][p].at + TTL[p] + 2 * QueryTime
    BY <2>2 DEF IInv, Calls, CallTimed
  <2> QED BY <2>1, <2>2 DEF VerdictFresh
<1> QED BY <1>1, Invariance, PTL

\* The conservative policy admits an address only on the word of every provider
\* (EvaluateIPAdmission).
THEOREM AdmissionUnanimous == Spec => []AdmittedByAll
<1>1. IInv => AdmittedByAll
  <2> SUFFICES ASSUME IInv, NEW c \in Caller, pc[c] = "done", policy = "conservative", Admits(c),
                      NEW p \in Provider
               PROVE  Known(ev[c][p]) /\ ~ev[c][p].verdict.hard /\ ev[c][p].verdict.traits = {}
    BY DEF AdmittedByAll
  <2>1. Settled(acc[c], ev[c])
    BY DEF IInv, Calls, CallOK
  <2>2. acc[c].status # "UNKNOWN" /\ ~acc[c].hard /\ acc[c].traits = {}
    BY DEF Admits
  <2>3. KnownIn(ev[c]) = Provider
    BY <2>1, <2>2 DEF Settled
  <2>4. ~ev[c][p].verdict.hard /\ ev[c][p].verdict.traits \subseteq acc[c].traits
    BY <2>1, <2>2, <2>3 DEF Settled
  <2> QED BY <2>2, <2>3, <2>4 DEF KnownIn
<1> QED BY <1>1, Invariance, PTL

\* Evidence is what the provider said, also when it was read from a row an older
\* version had written (reputationResultFromEvidence).
THEOREM EvidenceIsHonest == Spec => []EvidenceHonest
<1>1. IInv => EvidenceHonest
  BY DEF IInv, Calls, CallOK, Delivered, EvidenceHonest
<1> QED BY <1>1, Invariance, PTL

\* The merged verdict is the worst of the answers, in whatever order the
\* goroutines took the mutex (mergeProviderResult).
THEOREM VerdictIsTheWorst == Spec => []VerdictIsWorst
<1>1. IInv => VerdictIsWorst
  <2> SUFFICES ASSUME IInv, NEW c \in Caller, pc[c] = "done"
               PROVE  /\ acc[c].hard <=> \E p \in Answers(c) : ev[c][p].verdict.hard
                      /\ acc[c].status =
                           IF \/ ~acc[c].success
                              \/ policy = "conservative" /\ ~acc[c].hard /\ Answers(c) # Provider
                           THEN "UNKNOWN" ELSE Worst(c)
    BY DEF VerdictIsWorst
  <2>1. Settled(acc[c], ev[c])
    BY DEF IInv, Calls, CallOK
  <2>2. Answers(c) = KnownIn(ev[c])
    BY DEF Answers, KnownIn
  <2>3. Worst(c) = WorstIn(ev[c])
    BY <2>2 DEF Worst, WorstIn
  <2> QED BY <2>1, <2>2, <2>3 DEF Settled
<1> QED BY <1>1, Invariance, PTL
=============================================================================
