------------------------- MODULE DecisionLogProofs -------------------------
(***************************************************************************)
(* Proofs about the decision table, for any submissions, windows, limits   *)
(* and bounds.                                                             *)
(*                                                                         *)
(* LogInv types the table and ties every row to the request it came with.  *)
(* AtomicInv adds that only a request whose transaction has ended has      *)
(* rows.  WindowInv follows a detection from window to window: what lies   *)
(* behind the visited category, what each result was computed from, and    *)
(* that what the recent window of a category held is behind its baseline   *)
(* when it is met again.  Numbering counts what a query returns.           *)
(***************************************************************************)
EXTENDS DecisionLog, FiniteSetTheorems, SequenceTheorems, TLAPS

----------------------------------------------------------------------------
\* Counting.  A finite set is ordered by the set above[i] of what comes before each i: the
\* sizes of these sets number its members from 0, and so the members with less than k
\* others before them are k, or all.
LEMMA Numbering ==
  ASSUME NEW S, IsFiniteSet(S), NEW above \in [S -> SUBSET S],
         \A i \in S : i \notin above[i],
         \A i, j \in S : i # j => \/ i \in above[j] /\ above[i] \subseteq above[j]
                                  \/ j \in above[i] /\ above[j] \subseteq above[i]
  PROVE  /\ Cardinality(S) \in Nat
         /\ \A i \in S : Cardinality(above[i]) \in 0..Cardinality(S) - 1
         /\ \A i, j \in S : Cardinality(above[i]) = Cardinality(above[j]) => i = j
         /\ \A n \in 0..Cardinality(S) - 1 : \E i \in S : Cardinality(above[i]) = n
<1> DEFINE N    == Cardinality(S)
           rank == [i \in S |-> Cardinality(above[i])]
<1>1. N \in Nat
  BY FS_CardinalityType
<1>2. ASSUME NEW i \in S
      PROVE  IsFiniteSet(above[i]) /\ Cardinality(above[i]) \in 0..N - 1
  <2>1. IsFiniteSet(above[i]) /\ Cardinality(above[i]) <= N
    BY FS_Subset
  <2>2. Cardinality(above[i]) # N
    BY FS_Subset
  <2>3. Cardinality(above[i]) \in Nat
    BY <2>1, FS_CardinalityType
  <2> QED  BY <1>1, <2>1, <2>2, <2>3
<1>3. ASSUME NEW i \in S, NEW j \in S, i \in above[j], above[i] \subseteq above[j]
      PROVE  Cardinality(above[i]) # Cardinality(above[j])
  <2>1. above[i] # above[j] /\ above[i] \in SUBSET above[j]
    BY <1>3
  <2> QED  BY <2>1, <1>2, FS_Subset
<1>4. ASSUME NEW i \in S, NEW j \in S, Cardinality(above[i]) = Cardinality(above[j])
      PROVE  i = j
  BY <1>3, <1>4
<1>5. rank \in Injection(S, 0..N - 1)
  <2>1. rank \in [S -> 0..N - 1]
    BY <1>2
  <2>2. \A i, j \in S : rank[i] = rank[j] => i = j
    BY <1>4
  <2> QED  BY <2>1, <2>2 DEF Injection, IsInjective
<1>6. IsFiniteSet(0..N - 1) /\ Cardinality(0..N - 1) = N
  BY <1>1, FS_Interval
<1>7. rank \in Surjection(S, 0..N - 1)
  BY <1>5, <1>6, FS_Injection
<1>8. ASSUME NEW n \in 0..N - 1
      PROVE  \E i \in S : Cardinality(above[i]) = n
  BY <1>7 DEF Surjection
<1> QED  BY <1>1, <1>2, <1>4, <1>8

LEMMA FirstOnes ==
  ASSUME NEW S, IsFiniteSet(S), NEW above \in [S -> SUBSET S],
         \A i \in S : i \notin above[i],
         \A i, j \in S : i # j => \/ i \in above[j] /\ above[i] \subseteq above[j]
                                  \/ j \in above[i] /\ above[j] \subseteq above[i],
         NEW k \in Nat
  PROVE  LET first == {i \in S : Cardinality(above[i]) < k} IN
         /\ Cardinality(S) <= k => first = S
         /\ Cardinality(S) > k  => Cardinality(first) = k
<1> DEFINE N     == Cardinality(S)
           first == {i \in S : Cardinality(above[i]) < k}
           rank  == [i \in first |-> Cardinality(above[i])]
<1>1. /\ N \in Nat
      /\ \A i \in S : Cardinality(above[i]) \in 0..N - 1
      /\ \A i, j \in S : Cardinality(above[i]) = Cardinality(above[j]) => i = j
      /\ \A n \in 0..N - 1 : \E i \in S : Cardinality(above[i]) = n
  BY Numbering
<1>2. N <= k => first = S
  BY <1>1
<1>3. ASSUME N > k
      PROVE  Cardinality(first) = k
  <2>1. rank \in [first -> 0..k - 1]
    BY <1>1
  <2>2. \A i, j \in first : rank[i] = rank[j] => i = j
    BY <1>1
  <2>3. \A n \in 0..k - 1 : \E i \in first : rank[i] = n
    BY <1>1, <1>3
  <2>4. ExistsBijection(first, 0..k - 1)
    BY <2>1, <2>2, <2>3 DEF ExistsBijection, Bijection, Injection, Surjection, IsInjective
  <2>5. IsFiniteSet(first)
    BY FS_Subset
  <2>6. Cardinality(0..k - 1) = Cardinality(first)
    BY <2>4, <2>5, FS_Bijection
  <2> QED  BY <2>6, FS_Interval
<1> QED  BY <1>2, <1>3

LEMMA UpTo ==
  ASSUME NEW n \in Nat, NEW S \in SUBSET (1..n)
  PROVE  IsFiniteSet(S) /\ Cardinality(S) \in Nat /\ Cardinality(S) <= n
<1>1. IsFiniteSet(1..n) /\ Cardinality(1..n) = n
  <2>1. 1 \in Int /\ n \in Int /\ (IF 1 > n THEN 0 ELSE n - 1 + 1) = n
    OBVIOUS
  <2> QED  BY <2>1, FS_Interval
<1>2. IsFiniteSet(S) /\ Cardinality(S) <= n
  BY <1>1, FS_Subset
<1> QED  BY <1>2, FS_CardinalityType

\* The rows newer than row i, in the order in which Newest cuts; Newest shows all, or as
\* many as were asked for.
Newer(table, ids, i) == {j \in ids : \/ table[j].timestamp > table[i].timestamp
                                     \/ /\ table[j].timestamp = table[i].timestamp
                                        /\ j > i}

LEMMA NewestCounts ==
  ASSUME NEW table, NEW ids \in SUBSET Nat, IsFiniteSet(ids),
         \A i \in ids : table[i].timestamp \in Int,
         NEW k \in Nat
  PROVE  /\ Newest(table, ids, k) \subseteq ids
         /\ Cardinality(ids) <= k => Newest(table, ids, k) = ids
         /\ Cardinality(ids) > k  => Cardinality(Newest(table, ids, k)) = k
<1> DEFINE above == [i \in ids |-> Newer(table, ids, i)]
<1>1. above \in [ids -> SUBSET ids] /\ \A i \in ids : i \notin above[i]
  BY DEF Newer
<1>2. ASSUME NEW i \in ids, NEW j \in ids, i # j
      PROVE  \/ i \in above[j] /\ above[i] \subseteq above[j]
             \/ j \in above[i] /\ above[j] \subseteq above[i]
  <2> DEFINE Before(a, b) == \/ table[a].timestamp > table[b].timestamp
                             \/ table[a].timestamp = table[b].timestamp /\ a > b
  <2>1. \A a, b \in ids : a \in above[b] <=> Before(a, b)
    BY DEF Newer
  <2>2. \A a \in ids : a \in Nat /\ table[a].timestamp \in Int
    OBVIOUS
  <2>3. \A a, b, c \in ids : Before(a, b) /\ Before(b, c) => Before(a, c)
    BY <2>2
  <2>4. Before(i, j) \/ Before(j, i)
    BY <1>2, <2>2
  <2> HIDE DEF above, Before
  <2> QED  BY <1>1, <2>1, <2>3, <2>4
<1>3. Newest(table, ids, k) = {i \in ids : Cardinality(above[i]) < k}
  BY DEF Newest, Newer
<1> HIDE DEF above
<1>4. /\ Cardinality(ids) <= k => {i \in ids : Cardinality(above[i]) < k} = ids
      /\ Cardinality(ids) > k  => Cardinality({i \in ids : Cardinality(above[i]) < k}) = k
  BY <1>1, <1>2, FirstOnes
<1> QED  BY <1>3, <1>4

\* What a batch is reduced to: decisions of it, all of them valid.
LEMMA AcceptKeeps ==
  ASSUME NEW S, NEW rows \in Seq(S)
  PROVE  /\ Accept(rows) \in Seq(S)
         /\ Len(Accept(rows)) <= Len(rows)
         /\ \A n \in 1..Len(Accept(rows)) : Valid(Accept(rows)[n])
<1> DEFINE kept == {i \in DOMAIN rows : Valid(rows[i])}
<1>1. kept \subseteq 1..Len(rows) /\ Len(rows) \in Nat
  OBVIOUS
<1>2. IsFiniteSet(kept) /\ Cardinality(kept) <= Len(rows) /\ Cardinality(kept) \in Nat
  BY <1>1, UpTo
<1>3. ASSUME NEW n \in 1..Cardinality(kept)
      PROVE  Place(kept, n) \in kept
  <2> DEFINE above == [i \in kept |-> {j \in kept : j < i}]
  <2>1. above \in [kept -> SUBSET kept] /\ \A i \in kept : i \notin above[i]
    BY <1>1
  <2>2. ASSUME NEW i \in kept, NEW j \in kept, i # j
        PROVE  \/ i \in above[j] /\ above[i] \subseteq above[j]
               \/ j \in above[i] /\ above[j] \subseteq above[i]
    BY <1>1, <2>2
  <2>3. \A i \in kept : Cardinality({j \in kept : j < i}) = Cardinality(above[i])
    OBVIOUS
  <2> HIDE DEF above, kept
  <2>4. \A m \in 0..Cardinality(kept) - 1 : \E i \in kept : Cardinality(above[i]) = m
    BY <1>2, <2>1, <2>2, Numbering
  <2>5. n - 1 \in 0..Cardinality(kept) - 1
    BY <1>2
  <2>6. \E i \in kept : Cardinality({j \in kept : j < i}) = n - 1
    BY <2>3, <2>4, <2>5
  <2> QED  BY <2>6 DEF Place
<1>4. Accept(rows) = [n \in 1..Cardinality(kept) |-> rows[Place(kept, n)]]
  BY DEF Accept
<1>5. \A i \in kept : rows[i] \in S /\ Valid(rows[i])
  OBVIOUS
<1> HIDE DEF kept
<1>6. \A n \in 1..Cardinality(kept) : rows[Place(kept, n)] \in S /\ Valid(rows[Place(kept, n)])
  BY <1>3, <1>5
<1>7. Accept(rows) \in Seq(S) /\ Len(Accept(rows)) = Cardinality(kept)
  BY <1>2, <1>4, <1>6
<1> QED  BY <1>2, <1>4, <1>6, <1>7

----------------------------------------------------------------------------
\* Types, and what is true of the log at any time: rows on their way and rows stored are
\* not from the future, and every row belongs to a request.
AcceptedRow == [category : CaseCategories, outcome : DecisionOutcomes, timestamp : Int,
                version : STRING]
StoredRow   == [category : CaseCategories, outcome : DecisionOutcomes, timestamp : Int,
                version : STRING, request : Nat, arrived : Nat]
Request     == [submission : Submissions,
                stage : {"refused", "received", "committed", "failed", "answered"},
                rows : Seq(AcceptedRow), rejected : Nat, accepted : Nat, at : Nat]

LogTypes == /\ now \in Nat /\ use_time_windows \in BOOLEAN
            /\ requests \in Seq(Request)
            /\ decisions \in Seq(StoredRow)

InFlight == \A r \in DOMAIN requests : \A n \in DOMAIN requests[r].rows :
              requests[r].rows[n].timestamp <= now

Traced == \A i \in DOMAIN decisions :
            /\ decisions[i].request \in DOMAIN requests
            /\ decisions[i].timestamp <= decisions[i].arrived /\ decisions[i].arrived <= now

LogInv == LogTypes /\ InFlight /\ Traced

\* Only a request whose transaction has ended may have rows in the table.
Unstored == \A r \in DOMAIN requests :
              requests[r].stage \in {"refused", "received", "failed"} => Stored(r) = {}

AtomicInv == AllOrNothing /\ Unstored

\* What detection holds is part of the table.
Result == [category : Watched, insufficient_data : BOOLEAN, baseline : SUBSET Nat,
           recent : SUBSET Nat, counted : Nat]

DetectionTypes ==
  /\ visiting \in 0..Len(Monitored)
  /\ counted \in Nat \cup {-1} /\ (counted # -1 => visiting > 0)
  /\ baseline \subseteq DOMAIN decisions
  /\ results \in Seq(Result)
  /\ \A k \in DOMAIN results : results[k].baseline \subseteq DOMAIN decisions
  /\ seen \in [Watched -> [ids : SUBSET Nat, at : Nat]]
  /\ examined \in [Watched -> SUBSET Nat]

\* Every category was visited not longer than Period ago.
Visited == \A c \in Watched : seen[c].at <= now /\ now - seen[c].at <= Period

\* A decision that came in time was in a detection window, unless its category has not
\* been visited since it arrived.
InTime(i) == decisions[i].arrived - decisions[i].timestamp <= Detection - Period
Examined(i, c) == InTime(i) => i \in examined[c]
Watching == use_time_windows =>
  \A c \in Watched : \A i \in Of(decisions, c) :
    Examined(i, c) \/ seen[c].at <= decisions[i].arrived

\* The baseline just read ends before the detection window can begin: in time windows by
\* the clock, in count windows because of the rows that were newer than it.
BaselineBehind ==
  counted # -1 =>
    /\ use_time_windows => \A i \in baseline : decisions[i].timestamp < now - Exclusion
    /\ use_time_windows => \A i \in baseline : Examined(i, Category)
    /\ ~use_time_windows =>
         \A i \in baseline :
           /\ i \in Of(decisions, Category)
           /\ Cardinality(Newer(decisions, Of(decisions, Category), i)) >= counted - BaselineSize

\* A detection window is made of rows since it began.
SeenIsRecent == use_time_windows =>
  \A c \in Watched : \A i \in seen[c].ids :
    i \in Of(decisions, c) /\ decisions[i].timestamp >= seen[c].at - Detection

WindowInv == /\ DetectionTypes /\ Visited /\ Watching /\ BaselineBehind /\ SeenIsRecent
             /\ WindowsDisjoint /\ BaselineWasExamined

----------------------------------------------------------------------------
\* Requests.
LEMMA CategorizeTyped ==
  ASSUME NEW category \in CaseCategories, NEW text
  PROVE  Categorize(category, text, PatternOrder) \in CaseCategories
<1> DEFINE matching == {i \in DOMAIN PatternOrder : PatternOrder[i] \in text}
<1>1. matching \subseteq Nat /\ \A i \in matching : PatternOrder[i] \in CaseCategories
  BY PayloadAssumption
<1>2. CASE matching = {}
  BY <1>2 DEF Categorize
<1>3. CASE matching # {}
  <2> HIDE DEF matching
  <2>1. PICK m \in matching : \A n \in matching : ~(<<n, m>> \in OpToRel(<, Nat))
    BY <1>1, <1>3, NatLessThanWellFounded, WFMin
  <2>2. \A n \in matching : ~(n < m)
    BY <1>1, <2>1 DEF OpToRel
  <2>3. m \in matching /\ \A n \in matching : m <= n
    BY <1>1, <2>2
  <2>4. (CHOOSE i \in matching : \A j \in matching : i <= j) \in matching
    BY <2>3
  <2> QED  BY <1>1, <2>4 DEF Categorize, matching
<1> QED  BY <1>2, <1>3

LEMMA ToSchemaTyped ==
  ASSUME now \in Nat, NEW d \in DecisionIn, Acceptable(d)
  PROVE  DecisionInToSchema(d) \in AcceptedRow
<1>1. (IF d.category \in CaseCategories THEN d.category ELSE "unknown") \in CaseCategories
  BY DEF CaseCategories
<1>2. /\ d.outcome \in DecisionOutcomes /\ d.version \in STRING /\ now - d.age \in Int
  BY DEF Acceptable, DecisionIn
<1> QED  BY <1>1, <1>2, CategorizeTyped DEF DecisionInToSchema, AcceptedRow

LEMMA AgentTyped ==
  ASSUME NEW gd, gd.words \in Words
  PROVE  /\ ToAgentDecision(gd).category \in CaseCategories
         /\ ToAgentDecision(gd).outcome \in DecisionOutcomes
<1>1. InferOutcome(gd.words) \in DecisionOutcomes
  <2>1. gd.words \subseteq {"escalate", "error", "reject"}
    BY DEF Words
  <2>2. \/ "escalate" \in gd.words
        \/ "escalate" \notin gd.words /\ "error" \in gd.words
        \/ gd.words = {"reject"} \/ gd.words = {}
    BY <2>1
  <2> QED  BY <2>2 DEF InferOutcome, DecisionOutcomes
<1>2. ToCategory(gd) \in CaseCategories
  BY DEF ToCategory, RiskToCategory, CaseCategories, HighRiskCategories
<1> QED  BY <1>1, <1>2 DEF ToAgentDecision

\* A new request has no rows in the table.
LEMMA NewRequest ==
  ASSUME LogInv, AtomicInv, NEW q \in Request,
         q.accepted = 0, \A n \in DOMAIN q.rows : q.rows[n].timestamp <= now,
         requests' = Append(requests, q), UNCHANGED <<now, use_time_windows, decisions>>
  PROVE  LogInv' /\ AtomicInv'
<1>1. /\ requests \in Seq(Request) /\ decisions \in Seq(StoredRow)
      /\ \A i \in DOMAIN decisions : decisions[i].request \in DOMAIN requests
  BY DEF LogInv, LogTypes, Traced
<1>2. /\ requests' \in Seq(Request) /\ Len(requests') = Len(requests) + 1
      /\ \A r \in DOMAIN requests : r \in DOMAIN requests' /\ requests'[r] = requests[r]
      /\ requests'[Len(requests) + 1] = q
      /\ DOMAIN requests' = DOMAIN requests \cup {Len(requests) + 1}
      /\ Len(requests) + 1 \notin DOMAIN requests
  BY <1>1
<1>3. LogTypes' /\ Traced'
  BY <1>1, <1>2 DEF LogInv, LogTypes, Traced
<1>4. InFlight'
  BY <1>2 DEF LogInv, InFlight
<1>5. \A r : Stored(r)' = Stored(r)
  BY DEF Stored
<1>6. Stored(Len(requests) + 1) = {}
  BY <1>1, <1>2 DEF Stored
<1>7. AtomicInv'
  BY <1>2, <1>5, <1>6, FS_EmptySet DEF AtomicInv, AllOrNothing, Unstored
<1> QED  BY <1>3, <1>4, <1>7 DEF LogInv

\* What a request looks like when it has been read, and when it has ended.
LEMMA ReceivedTyped ==
  ASSUME now \in Nat, NEW s \in Submissions, NEW rows \in Seq(AcceptedRow)
  PROVE  \E q \in Request : /\ Received(s, rows) = Append(requests, q) /\ q.accepted = 0
                            /\ \A n \in DOMAIN q.rows : q.rows[n].timestamp <= now
<1> DEFINE q == [submission |-> s, stage |-> "received", rows |-> Accept(rows),
                 rejected |-> Len(rows) - Len(Accept(rows)), accepted |-> 0, at |-> now]
<1>1. /\ Accept(rows) \in Seq(AcceptedRow) /\ Len(Accept(rows)) <= Len(rows)
      /\ \A n \in 1..Len(Accept(rows)) : Accept(rows)[n].timestamp <= now
  BY AcceptKeeps DEF Valid
<1>2. Len(rows) - Len(Accept(rows)) \in Nat /\ DOMAIN Accept(rows) = 1..Len(Accept(rows))
  BY <1>1
<1>3. q \in Request
  BY <1>1, <1>2 DEF Request
<1>4. q.rows = Accept(rows) /\ q.accepted = 0 /\ Received(s, rows) = Append(requests, q)
  BY DEF Received
<1> HIDE DEF q
<1> QED  BY <1>1, <1>2, <1>3, <1>4

LEMMA EndedTyped ==
  ASSUME now \in Nat, NEW s \in Submissions, NEW stage \in {"refused", "answered"},
         NEW rejected \in Nat
  PROVE  \E q \in Request : /\ Ended(s, stage, rejected) = Append(requests, q)
                            /\ q.accepted = 0
                            /\ \A n \in DOMAIN q.rows : q.rows[n].timestamp <= now
<1> DEFINE q == [submission |-> s, stage |-> stage, rows |-> <<>>, rejected |-> rejected,
                 accepted |-> 0, at |-> now]
<1>1. <<>> \in Seq(AcceptedRow) /\ DOMAIN <<>> = {}
  OBVIOUS
<1>2. q \in Request
  BY <1>1 DEF Request
<1>3. q.rows = <<>> /\ q.accepted = 0 /\ Ended(s, stage, rejected) = Append(requests, q)
  BY DEF Ended
<1> HIDE DEF q
<1> QED  BY <1>1, <1>2, <1>3

LEMMA SubmitKeeps ==
  ASSUME LogInv, AtomicInv, NEW s \in Submissions,
         Refuse(s) \/ Receive(s) \/ DecideFails(s) \/ Decide(s)
  PROVE  LogInv' /\ AtomicInv'
<1>1. now \in Nat /\ UNCHANGED <<now, use_time_windows, decisions>>
  BY DEF LogInv, LogTypes, Refuse, Receive, DecideFails, Decide, clock
<1> SUFFICES \E q \in Request : /\ requests' = Append(requests, q) /\ q.accepted = 0
                                /\ \A n \in DOMAIN q.rows : q.rows[n].timestamp <= now
  BY <1>1, NewRequest
<1>2. CASE Refuse(s) \/ DecideFails(s)
  <2>1. requests' = Ended(s, "refused", 0)
    BY <1>2 DEF Refuse, DecideFails
  <2>2. "refused" \in {"refused", "answered"} /\ 0 \in Nat
    OBVIOUS
  <2> QED  BY <1>1, <2>1, <2>2, EndedTyped
<1>3. CASE Receive(s)
  <2> DEFINE sent == Payload[s].decisions
             rows == [i \in DOMAIN sent |-> DecisionInToSchema(sent[i])]
  <2>1. sent \in Seq(DecisionIn) /\ \A i \in DOMAIN sent : Acceptable(sent[i])
    BY <1>3, PayloadAssumption DEF Receive
  <2>2. \A i \in DOMAIN sent : DecisionInToSchema(sent[i]) \in AcceptedRow
    BY <1>1, <2>1, ToSchemaTyped
  <2>3. rows \in Seq(AcceptedRow)
    BY <2>1, <2>2
  <2>4. requests' = Ended(s, "answered", 1) \/ requests' = Received(s, rows)
    BY <1>3 DEF Receive
  <2> HIDE DEF rows
  <2>5. CASE requests' = Ended(s, "answered", 1)
    <3>1. "answered" \in {"refused", "answered"} /\ 1 \in Nat
      OBVIOUS
    <3> QED  BY <1>1, <2>5, <3>1, EndedTyped
  <2>6. CASE requests' = Received(s, rows)
    BY <1>1, <2>3, <2>6, ReceivedTyped
  <2> QED  BY <2>4, <2>5, <2>6
<1>4. CASE Decide(s)
  <2> DEFINE d   == ToAgentDecision(Payload[s].answer)
             row == [category |-> Categorize(d.category, d.text, PatternOrder),
                     outcome |-> d.outcome, timestamp |-> now,
                     version |-> Payload[s].version]
  <2>1. Payload[s].version \in STRING /\ Payload[s].answer.words \in Words
    BY <1>4, PayloadAssumption DEF Decide
  <2>2. d.category \in CaseCategories /\ d.outcome \in DecisionOutcomes
    BY <2>1, AgentTyped
  <2>3. row \in AcceptedRow
    BY <1>1, <2>1, <2>2, CategorizeTyped DEF AcceptedRow
  <2>4. requests' = Received(s, <<row>>)
    BY <1>4 DEF Decide
  <2> HIDE DEF row
  <2>5. <<row>> \in Seq(AcceptedRow)
    BY <2>3
  <2> QED  BY <1>1, <2>4, <2>5, ReceivedTyped
<1> QED  BY <1>2, <1>3, <1>4

\* Fields of a request that change.
LEMMA RequestFields ==
  ASSUME NEW q \in Request, NEW stage \in {"committed", "failed", "answered"}, NEW n \in Nat
  PROVE  /\ [q EXCEPT !.stage = stage] \in Request
         /\ [q EXCEPT !.rejected = n] \in Request
         /\ [q EXCEPT !.accepted = n] \in Request
BY DEF Request

\* A request whose transaction is rolled back, or that is answered, keeps its rows.
LEMMA StageKeeps ==
  ASSUME LogInv, AtomicInv, NEW r \in DOMAIN requests, StoreFails(r) \/ Answer(r)
  PROVE  LogInv' /\ AtomicInv'
<1>1. requests \in Seq(Request) /\ decisions \in Seq(StoredRow) /\ requests[r] \in Request
  BY DEF LogInv, LogTypes
<1>2. /\ UNCHANGED <<now, use_time_windows, decisions>>
      /\ requests' \in Seq(Request) /\ DOMAIN requests' = DOMAIN requests
      /\ \A q \in DOMAIN requests : /\ requests'[q].rows = requests[q].rows
                                    /\ requests'[q].accepted = requests[q].accepted
                                    /\ q # r => requests'[q].stage = requests[q].stage
  <2>1. UNCHANGED <<now, use_time_windows, decisions>>
    BY DEF StoreFails, Answer, clock
  <2>2. /\ Len(requests[r].rows) \in Nat /\ requests[r].rejected \in Nat
    BY <1>1 DEF Request
  <2> DEFINE failed   == [requests[r] EXCEPT !.stage = "failed",
                                             !.rejected = @ + Len(requests[r].rows)]
             answered == [requests[r] EXCEPT !.stage = "answered"]
  <2>3. failed \in Request /\ answered \in Request
    <3>1. failed = [[requests[r] EXCEPT !.stage = "failed"]
                     EXCEPT !.rejected = requests[r].rejected + Len(requests[r].rows)]
      BY <1>1 DEF Request
    <3>2. answered \in Request /\ [requests[r] EXCEPT !.stage = "failed"] \in Request
      BY <1>1, RequestFields, Zenon
    <3>3. requests[r].rejected + Len(requests[r].rows) \in Nat
      BY <2>2
    <3>4. failed \in Request
      BY <3>1, <3>2, <3>3, RequestFields, Zenon
    <3> QED  BY <3>2, <3>4
  <2>4. \E q \in {failed, answered} : requests' = [requests EXCEPT ![r] = q]
    BY <1>1 DEF StoreFails, Answer
  <2>5. \A q \in {failed, answered} : q.rows = requests[r].rows /\ q.accepted = requests[r].accepted
    BY <1>1 DEF Request
  <2> HIDE DEF failed, answered
  <2> QED  BY <1>1, <2>1, <2>3, <2>4, <2>5
<1>3. \/ requests[r].stage = "received"
      \/ requests'[r].stage = "answered"
  BY <1>1 DEF StoreFails, Answer, Request
<1>4. \A q : Stored(q)' = Stored(q)
  BY <1>2 DEF Stored
<1>5. LogInv'
  BY <1>2 DEF LogInv, LogTypes, InFlight, Traced
<1>6. AllOrNothing'
  BY <1>2, <1>4 DEF AtomicInv, AllOrNothing
<1>7. Unstored'
  BY <1>2, <1>3, <1>4 DEF AtomicInv, Unstored
<1> QED  BY <1>5, <1>6, <1>7 DEF AtomicInv

\* The rows of a request are appended to the table.
LEMMA CommitAppends ==
  ASSUME LogInv, NEW r \in DOMAIN requests, Commit(r)
  PROVE  /\ Len(decisions) \in Nat /\ Len(requests[r].rows) \in Nat
         /\ decisions' \in Seq(StoredRow)
         /\ Len(decisions') = Len(decisions) + Len(requests[r].rows)
         /\ \A i \in 1..Len(decisions) : decisions'[i] = decisions[i]
         /\ \A i \in Len(decisions) + 1..Len(decisions) + Len(requests[r].rows) :
              /\ decisions'[i].request = r /\ decisions'[i].arrived = now
              /\ decisions'[i].timestamp <= now
<1> DEFINE rows  == requests[r].rows
           added == [i \in DOMAIN rows |-> Row(r, i)]
<1>1. /\ decisions \in Seq(StoredRow) /\ rows \in Seq(AcceptedRow) /\ now \in Nat /\ r \in Nat
      /\ \A n \in DOMAIN rows : rows[n].timestamp <= now
  <2>1. requests[r] \in Request /\ r \in Nat
    BY DEF LogInv, LogTypes
  <2>2. rows \in Seq(AcceptedRow)
    BY <2>1 DEF Request
  <2> QED  BY <2>1, <2>2 DEF LogInv, LogTypes, InFlight
<1>2. ASSUME NEW i \in DOMAIN rows
      PROVE  /\ Row(r, i) \in StoredRow /\ Row(r, i).request = r
             /\ Row(r, i).arrived = now /\ Row(r, i).timestamp <= now
  <2>1. rows[i] \in AcceptedRow /\ rows[i].timestamp <= now
    BY <1>1
  <2> QED  BY <1>1, <2>1 DEF Row, AcceptedRow, StoredRow
<1>3. added \in Seq(StoredRow) /\ Len(added) = Len(rows) /\ Len(rows) \in Nat
      /\ \A i \in 1..Len(rows) : added[i] = Row(r, i)
  BY <1>1, <1>2
<1>4. decisions' = decisions \o added
  BY DEF Commit
<1> HIDE DEF added
<1>5. /\ decisions' \in Seq(StoredRow) /\ Len(decisions') = Len(decisions) + Len(rows)
      /\ \A i \in 1..Len(decisions) : decisions'[i] = decisions[i]
      /\ \A i \in Len(decisions) + 1..Len(decisions) + Len(rows) :
           decisions'[i] = added[i - Len(decisions)]
  <2>1. /\ decisions \o added \in Seq(StoredRow)
        /\ Len(decisions \o added) = Len(decisions) + Len(rows)
        /\ \A i \in 1..Len(decisions) + Len(rows) :
             (decisions \o added)[i] = IF i <= Len(decisions) THEN decisions[i]
                                       ELSE added[i - Len(decisions)]
    <3>1. ASSUME NEW s \in Seq(StoredRow), NEW t \in Seq(StoredRow)
          PROVE  /\ s \o t \in Seq(StoredRow) /\ Len(s \o t) = Len(s) + Len(t)
                 /\ \A i \in 1..Len(s) + Len(t) :
                      (s \o t)[i] = IF i <= Len(s) THEN s[i] ELSE t[i - Len(s)]
      BY ConcatProperties, Zenon
    <3>2. added \in Seq(StoredRow) /\ Len(added) = Len(rows) /\ decisions \in Seq(StoredRow)
      BY <1>1, <1>3
    <3>3. decisions \o added \in Seq(StoredRow)
      BY <3>1, <3>2, Zenon
    <3>4. Len(decisions \o added) = Len(decisions) + Len(rows)
      BY <3>1, <3>2, Zenon
    <3>5. \A i \in 1..Len(decisions) + Len(added) :
            (decisions \o added)[i] = IF i <= Len(decisions) THEN decisions[i]
                                      ELSE added[i - Len(decisions)]
      BY <3>1, <3>2, Zenon
    <3> QED  BY <3>2, <3>3, <3>4, <3>5, Zenon
  <2>2. \A i \in 1..Len(decisions) :
          i \in 1..Len(decisions) + Len(rows) /\ i <= Len(decisions)
    BY <1>1
  <2>3. \A i \in Len(decisions) + 1..Len(decisions) + Len(rows) :
          i \in 1..Len(decisions) + Len(rows) /\ ~(i <= Len(decisions))
    BY <1>1
  <2> QED  BY <1>4, <2>1, <2>2, <2>3
<1>6. \A i \in Len(decisions) + 1..Len(decisions) + Len(rows) :
        i - Len(decisions) \in 1..Len(rows) /\ i - Len(decisions) \in DOMAIN rows
  BY <1>1
<1> HIDE DEF rows
<1>7. ASSUME NEW i \in Len(decisions) + 1..Len(decisions) + Len(rows)
      PROVE  /\ decisions'[i].request = r /\ decisions'[i].arrived = now
             /\ decisions'[i].timestamp <= now
  BY <1>2, <1>3, <1>5, <1>6
<1> QED  BY <1>1, <1>3, <1>5, <1>7 DEF rows

LEMMA CommitKeeps ==
  ASSUME LogInv, AtomicInv, NEW r \in DOMAIN requests, Commit(r)
  PROVE  LogInv' /\ AtomicInv'
<1> DEFINE L == Len(decisions)
           n == Len(requests[r].rows)
<1>1. /\ L \in Nat /\ n \in Nat /\ decisions' \in Seq(StoredRow) /\ Len(decisions') = L + n
      /\ \A i \in 1..L : decisions'[i] = decisions[i]
      /\ \A i \in L + 1..L + n : /\ decisions'[i].request = r /\ decisions'[i].arrived = now
                                 /\ decisions'[i].timestamp <= now
  BY CommitAppends
<1>2. /\ requests \in Seq(Request) /\ requests[r] \in Request
      /\ requests[r].stage = "received" /\ UNCHANGED <<now, use_time_windows>>
      /\ decisions \in Seq(StoredRow) /\ now \in Nat
  BY DEF LogInv, LogTypes, Commit, clock
<1>3. /\ requests' \in Seq(Request) /\ DOMAIN requests' = DOMAIN requests
      /\ \A q \in DOMAIN requests : q # r => requests'[q] = requests[q]
      /\ requests'[r].stage = "committed" /\ requests'[r].accepted = n
      /\ requests'[r].rows = requests[r].rows
  <2> DEFINE done == [[requests[r] EXCEPT !.stage = "committed"] EXCEPT !.accepted = n]
  <2>1. requests' = [requests EXCEPT ![r] = done]
    BY <1>2 DEF Commit
  <2>2. done \in Request
    <3>1. [requests[r] EXCEPT !.stage = "committed"] \in Request
      BY <1>2, RequestFields, Zenon
    <3> QED  BY <1>1, <3>1, RequestFields, Zenon
  <2>3. done.stage = "committed" /\ done.accepted = n /\ done.rows = requests[r].rows
    BY <1>2 DEF Request
  <2> HIDE DEF done
  <2> QED  BY <1>2, <2>1, <2>2, <2>3
<1> HIDE DEF n
<1>4. DOMAIN decisions = 1..L /\ DOMAIN decisions' = 1..L + n
  BY <1>1, <1>2
<1> HIDE DEF L
<1>5. ASSUME NEW i \in 1..L + n
      PROVE  i \in 1..L \/ i \in L + 1..L + n
  BY <1>1
<1>6. LogInv'
  <2>1. LogTypes'
    BY <1>1, <1>2, <1>3 DEF LogInv, LogTypes
  <2>2. InFlight'
    BY <1>2, <1>3 DEF LogInv, InFlight
  <2>3. Traced'
    BY <1>1, <1>2, <1>3, <1>4, <1>5 DEF LogInv, Traced
  <2> QED  BY <2>1, <2>2, <2>3 DEF LogInv
<1>7. ASSUME NEW q \in DOMAIN requests, q # r
      PROVE  Stored(q)' = Stored(q)
  <2>1. 1..L \subseteq 1..L + n
    BY <1>1
  <2> QED  BY <1>1, <1>4, <1>5, <1>7, <2>1 DEF Stored
<1>8. Stored(r)' = L + 1..L + n
  <2>1. Stored(r) = {}
    BY <1>2 DEF AtomicInv, Unstored
  <2>2. L + 1..L + n \subseteq 1..L + n
    BY <1>1
  <2> QED  BY <1>1, <1>4, <1>5, <2>1, <2>2 DEF Stored
<1>9. Cardinality(Stored(r)') = n
  <2>1. \A a, b \in Int : Cardinality(a..b) = IF a > b THEN 0 ELSE b - a + 1
    BY FS_Interval
  <2>2. Cardinality(L + 1..L + n) = n
    <3>1. L + 1 \in Int /\ L + n \in Int
      BY <1>1
    <3>2. Cardinality(L + 1..L + n) = IF L + 1 > L + n THEN 0 ELSE (L + n) - (L + 1) + 1
      BY <2>1, <3>1
    <3> QED  BY <1>1, <3>2
  <2> QED  BY <1>8, <2>2
<1>10. AllOrNothing'
  <2>1. ASSUME NEW q \in DOMAIN requests
        PROVE  /\ Stored(q)' # {} => Cardinality(Stored(q)') = Len(requests'[q].rows)
               /\ requests'[q].accepted = Cardinality(Stored(q)')
    <3>1. CASE q = r
      BY <1>3, <1>9, <3>1 DEF n
    <3>2. CASE q # r
      BY <1>3, <1>7, <3>2 DEF AtomicInv, AllOrNothing
    <3> QED  BY <3>1, <3>2
  <2> QED  BY <1>3, <2>1 DEF AllOrNothing
<1>11. Unstored'
  BY <1>3, <1>7 DEF AtomicInv, Unstored
<1> QED  BY <1>6, <1>10, <1>11 DEF AtomicInv

LEMMA LogStart == Init => LogInv /\ AtomicInv
<1> SUFFICES ASSUME Init PROVE LogInv /\ AtomicInv
  OBVIOUS
<1>1. /\ now = 0 /\ use_time_windows \in BOOLEAN /\ requests = <<>> /\ decisions = <<>>
      /\ DOMAIN requests = {} /\ DOMAIN decisions = {}
  BY DEF Init
<1>2. LogInv
  BY <1>1 DEF LogInv, LogTypes, InFlight, Traced
<1> QED  BY <1>1, <1>2 DEF AtomicInv, AllOrNothing, Unstored

LEMMA LogStep ==
  ASSUME LogInv, AtomicInv, [Next]_vars
  PROVE  LogInv' /\ AtomicInv'
<1>1. ASSUME UNCHANGED <<requests, decisions, use_time_windows>>, now' \in {now, now + 1}
      PROVE  LogInv' /\ AtomicInv'
  <2>1. now \in Nat /\ now' \in Nat /\ now' >= now
    BY <1>1 DEF LogInv, LogTypes
  <2>2. /\ \A r \in DOMAIN requests : requests[r] \in Request
        /\ \A i \in DOMAIN decisions : decisions[i] \in StoredRow
    BY DEF LogInv, LogTypes
  <2>3. LogTypes'
    BY <1>1, <2>1 DEF LogInv, LogTypes
  <2>4. InFlight'
    <3> SUFFICES ASSUME NEW r \in DOMAIN requests, NEW n \in DOMAIN requests[r].rows
                 PROVE  requests[r].rows[n].timestamp <= now'
      BY <1>1 DEF InFlight
    <3>1. requests[r].rows[n] \in AcceptedRow
      BY <2>2 DEF Request
    <3>2. requests[r].rows[n].timestamp \in Int /\ requests[r].rows[n].timestamp <= now
      BY <3>1 DEF AcceptedRow, LogInv, InFlight
    <3> QED  BY <2>1, <3>2
  <2>5. Traced'
    <3> SUFFICES ASSUME NEW i \in DOMAIN decisions
                 PROVE  decisions[i].arrived <= now'
      BY <1>1 DEF LogInv, Traced
    <3>1. decisions[i].arrived \in Nat /\ decisions[i].arrived <= now
      BY <2>2 DEF StoredRow, LogInv, Traced
    <3> QED  BY <2>1, <3>1
  <2>6. \A r : Stored(r)' = Stored(r)
    BY <1>1 DEF Stored
  <2>7. AtomicInv'
    BY <1>1, <2>6 DEF AtomicInv, AllOrNothing, Unstored
  <2> QED  BY <2>3, <2>4, <2>5, <2>7 DEF LogInv
<1>2. CASE Tick
  BY <1>1, <1>2 DEF Tick, log
<1>3. CASE BeginCycle \/ ReadBaseline \/ ReadRecent \/ UNCHANGED vars
  BY <1>1, <1>3 DEF BeginCycle, ReadBaseline, ReadRecent, vars, clock, log
<1>4. CASE \E s \in Submissions : Refuse(s) \/ Receive(s) \/ DecideFails(s) \/ Decide(s)
  BY <1>4, SubmitKeeps
<1>5. CASE \E r \in DOMAIN requests : Commit(r) \/ StoreFails(r) \/ Answer(r)
  BY <1>5, CommitKeeps, StageKeeps
<1> QED  BY <1>2, <1>3, <1>4, <1>5 DEF Next

\* The table and the requests are typed: a stored decision has a category and an outcome of
\* the enumerations, whatever the client or the model wrote (schema.py:12-31).
THEOREM LogTypesAlways == Spec => []LogTypes
<1>1. LogInv => LogTypes
  BY DEF LogInv
<1> QED  BY <1>1, LogStart, LogStep, PTL DEF Spec

\* A request is stored as a whole or not at all, and is answered with the number of its
\* rows in the table (AllOrNothing; store.py:119-162).
THEOREM AlwaysAllOrNothing == Spec => []AllOrNothing
<1>1. AtomicInv => AllOrNothing
  BY DEF AtomicInv
<1> QED  BY <1>1, LogStart, LogStep, PTL DEF Spec

----------------------------------------------------------------------------
\* The windows.

\* A row among the k oldest has all others but k - 1 of the older ones after it.
LEMMA OldestBehind ==
  ASSUME NEW table, NEW ids \in SUBSET Nat, IsFiniteSet(ids),
         \A i \in ids : table[i].timestamp \in Int,
         NEW k \in Nat, NEW i \in Oldest(table, ids, k)
  PROVE  /\ i \in ids
         /\ Cardinality(ids) \in Nat /\ Cardinality(Newer(table, ids, i)) \in Nat
         /\ Cardinality(Newer(table, ids, i)) >= Cardinality(ids) - k
<1> DEFINE newer == Newer(table, ids, i)
           older == {j \in ids : \/ table[j].timestamp < table[i].timestamp
                                 \/ table[j].timestamp = table[i].timestamp /\ j < i}
<1>1. i \in ids /\ Cardinality(older) < k
  BY DEF Oldest
<1>2. older \subseteq ids /\ newer \subseteq ids /\ i \notin older
  BY <1>1 DEF Newer
<1>3. older \cup {i} \cup newer = ids
  <2>1. ASSUME NEW j \in ids
        PROVE  j \in older \/ j = i \/ j \in newer
    <3>1. /\ j \in Nat /\ i \in Nat
          /\ table[j].timestamp \in Int /\ table[i].timestamp \in Int
      BY <1>1
    <3>2. \/ table[j].timestamp < table[i].timestamp
          \/ table[j].timestamp = table[i].timestamp /\ (j < i \/ j = i \/ j > i)
          \/ table[j].timestamp > table[i].timestamp
      BY <3>1
    <3> QED  BY <3>2 DEF Newer
  <2> QED  BY <1>1, <1>2, <2>1
<1>4. (older \cup {i}) \cap newer = {}
  <2>1. ASSUME NEW j \in ids
        PROVE  ~(j \in newer /\ (j \in older \/ j = i))
    <3>1. /\ j \in Nat /\ i \in Nat
          /\ table[j].timestamp \in Int /\ table[i].timestamp \in Int
      BY <1>1
    <3>2. j \in newer => /\ ~(table[j].timestamp < table[i].timestamp)
                         /\ table[j].timestamp = table[i].timestamp => j > i
      BY <3>1 DEF Newer
    <3> QED  BY <3>1, <3>2
  <2> QED  BY <1>1, <1>2, <2>1
<1> HIDE DEF older, newer
<1>5. /\ IsFiniteSet(older) /\ IsFiniteSet(newer)
      /\ Cardinality(older) \in Nat /\ Cardinality(newer) \in Nat /\ Cardinality(ids) \in Nat
  BY <1>2, FS_Subset, FS_CardinalityType
<1>6. /\ IsFiniteSet(older \cup {i})
      /\ Cardinality(older \cup {i}) = Cardinality(older) + 1
  BY <1>2, <1>5, FS_AddElement
<1>7. Cardinality(ids) = Cardinality(older) + 1 + Cardinality(newer)
  <2>1. Cardinality((older \cup {i}) \cup newer)
          = Cardinality(older \cup {i}) + Cardinality(newer)
              - Cardinality((older \cup {i}) \cap newer)
    BY <1>5, <1>6, FS_Union
  <2> QED  BY <1>3, <1>4, <1>5, <1>6, <2>1, FS_EmptySet
<1> QED  BY <1>1, <1>5, <1>7 DEF newer

\* Rows are only added to the table, and arrive at the time of the clock, which only moves on.
LEMMA TableGrows ==
  ASSUME LogInv, LogInv', [Next]_vars
  PROVE  /\ DOMAIN decisions \subseteq DOMAIN decisions'
         /\ \A i \in DOMAIN decisions : decisions'[i] = decisions[i]
         /\ \A i \in DOMAIN decisions' \ DOMAIN decisions : decisions'[i].arrived = now
         /\ use_time_windows' = use_time_windows
         /\ UNCHANGED now \/ Tick
<1>1. CASE \E r \in DOMAIN requests : Commit(r)
  <2>1. PICK r \in DOMAIN requests : Commit(r)
    BY <1>1
  <2>2. /\ decisions \in Seq(StoredRow) /\ decisions' \in Seq(StoredRow)
        /\ Len(decisions) \in Nat /\ Len(requests[r].rows) \in Nat
        /\ Len(decisions') = Len(decisions) + Len(requests[r].rows)
        /\ \A i \in 1..Len(decisions) : decisions'[i] = decisions[i]
        /\ \A i \in Len(decisions) + 1..Len(decisions) + Len(requests[r].rows) :
             decisions'[i].arrived = now
    BY <2>1, CommitAppends DEF LogInv, LogTypes
  <2>3. /\ DOMAIN decisions = 1..Len(decisions)
        /\ DOMAIN decisions' = 1..Len(decisions) + Len(requests[r].rows)
    BY <2>2
  <2>4. \A i \in 1..Len(decisions) + Len(requests[r].rows) :
          \/ i \in 1..Len(decisions)
          \/ i \in Len(decisions) + 1..Len(decisions) + Len(requests[r].rows)
    BY <2>2
  <2>5. 1..Len(decisions) \subseteq 1..Len(decisions) + Len(requests[r].rows)
    BY <2>2
  <2>6. UNCHANGED <<now, use_time_windows>>
    BY <2>1 DEF Commit, clock
  <2> QED  BY <2>2, <2>3, <2>4, <2>5, <2>6
<1>2. CASE UNCHANGED decisions /\ UNCHANGED use_time_windows /\ (UNCHANGED now \/ Tick)
  BY <1>2
<1>3. CASE Tick
  BY <1>2, <1>3 DEF Tick, log
<1>4. ASSUME NEW s \in Submissions, Refuse(s) \/ Receive(s) \/ DecideFails(s) \/ Decide(s)
      PROVE  UNCHANGED <<decisions, use_time_windows, now>>
  BY <1>4 DEF Refuse, Receive, DecideFails, Decide, clock
<1>5. ASSUME NEW r \in DOMAIN requests, StoreFails(r) \/ Answer(r)
      PROVE  UNCHANGED <<decisions, use_time_windows, now>>
  BY <1>5 DEF StoreFails, Answer, clock
<1>6. CASE BeginCycle \/ ReadBaseline \/ ReadRecent \/ UNCHANGED vars
  BY <1>2, <1>6 DEF BeginCycle, ReadBaseline, ReadRecent, vars, clock, log
<1> QED  BY <1>1, <1>2, <1>3, <1>4, <1>5, <1>6 DEF Next

\* The rows of a category are a finite set of typed rows.
LEMMA RowsTyped ==
  ASSUME LogInv
  PROVE  /\ \A i \in DOMAIN decisions :
              /\ decisions[i].timestamp \in Int /\ decisions[i].arrived \in Nat
              /\ decisions[i].timestamp <= decisions[i].arrived
              /\ decisions[i].arrived <= now
         /\ now \in Nat /\ DOMAIN decisions \subseteq Nat /\ IsFiniteSet(DOMAIN decisions)
         /\ \A c : /\ Of(decisions, c) \subseteq DOMAIN decisions
                   /\ IsFiniteSet(Of(decisions, c)) /\ Cardinality(Of(decisions, c)) \in Nat
<1>1. decisions \in Seq(StoredRow) /\ now \in Nat /\ Traced
  BY DEF LogInv, LogTypes
<1>2. \A i \in DOMAIN decisions : decisions[i].timestamp \in Int /\ decisions[i].arrived \in Nat
  <2> SUFFICES ASSUME NEW i \in DOMAIN decisions
               PROVE  decisions[i].timestamp \in Int /\ decisions[i].arrived \in Nat
    OBVIOUS
  <2>1. decisions[i] \in StoredRow
    BY <1>1
  <2> QED  BY <2>1 DEF StoredRow
<1>3. DOMAIN decisions = 1..Len(decisions) /\ Len(decisions) \in Nat
  BY <1>1
<1>4. ASSUME NEW S \in SUBSET (DOMAIN decisions)
      PROVE  IsFiniteSet(S) /\ Cardinality(S) \in Nat
  BY <1>3, UpTo
<1>5. \A c : Of(decisions, c) \subseteq DOMAIN decisions
  BY DEF Of
<1> QED  BY <1>1, <1>2, <1>3, <1>4, <1>5 DEF Traced

LEMMA WindowStart == Init => WindowInv
<1> SUFFICES ASSUME Init PROVE WindowInv
  OBVIOUS
<1>1. /\ decisions = <<>> /\ results = <<>> /\ DOMAIN decisions = {} /\ DOMAIN results = {}
      /\ now = 0 /\ visiting = 0 /\ counted = -1 /\ baseline = {}
      /\ seen = [c \in Watched |-> [ids |-> {}, at |-> 0]]
      /\ examined = [c \in Watched |-> {}]
  BY DEF Init
<1>2. Len(Monitored) \in Nat /\ Period \in Nat
  BY WindowAssumption
<1>3. DetectionTypes
  BY <1>1, <1>2 DEF DetectionTypes
<1>4. Visited
  BY <1>1, <1>2 DEF Visited
<1>5. Watching /\ SeenIsRecent
  BY <1>1 DEF Watching, SeenIsRecent, Of
<1>6. BaselineBehind /\ WindowsDisjoint /\ BaselineWasExamined
  BY <1>1 DEF BaselineBehind, WindowsDisjoint, BaselineWasExamined
<1> QED  BY <1>3, <1>4, <1>5, <1>6 DEF WindowInv

\* Decisions arrive and time passes while detection stands between two of its reads.
LEMMA OthersKeepWindows ==
  ASSUME LogInv, LogInv', WindowInv, [Next]_vars, UNCHANGED detection
  PROVE  WindowInv'
<1>0. UNCHANGED <<visiting, baseline, counted, results, seen, examined>> /\ Category' = Category
  BY DEF detection, Category
<1>1. /\ DOMAIN decisions \subseteq DOMAIN decisions'
      /\ \A i \in DOMAIN decisions : decisions'[i] = decisions[i]
      /\ \A i \in DOMAIN decisions' \ DOMAIN decisions : decisions'[i].arrived = now
      /\ use_time_windows' = use_time_windows
      /\ UNCHANGED now \/ Tick
  BY TableGrows
<1>2. /\ \A i \in DOMAIN decisions : decisions[i].timestamp \in Int
      /\ now \in Nat /\ now' \in Nat /\ now <= now'
  <2>1. now \in Nat /\ now' \in Nat
    BY DEF LogInv, LogTypes
  <2> QED  BY <1>1, <2>1, RowsTyped DEF Tick
<1>3. DetectionTypes /\ DetectionTypes'
  BY <1>0, <1>1 DEF WindowInv, DetectionTypes
<1>4. Period \in Nat /\ Exclusion \in Nat
  BY WindowAssumption
<1>5. Visited'
  <2> SUFFICES ASSUME NEW c \in Watched
               PROVE  seen[c].at <= now' /\ now' - seen[c].at <= Period
    BY <1>0 DEF Visited
  <2>1. seen[c].at \in Nat /\ seen[c].at <= now /\ now - seen[c].at <= Period
    BY <1>3 DEF DetectionTypes, WindowInv, Visited
  <2>2. now' = now \/ (now' = now + 1 /\ now - seen[c].at < Period)
    BY <1>1 DEF Tick
  <2> QED  BY <1>2, <1>4, <2>1, <2>2
<1>6. \A c : \A i \in DOMAIN decisions : Examined(i, c)' <=> Examined(i, c)
  BY <1>0, <1>1 DEF Examined, InTime
<1>7. \A c : /\ Of(decisions, c) \subseteq Of(decisions, c)' /\ Of(decisions, c)' \subseteq DOMAIN decisions'
             /\ \A i \in Of(decisions, c)' : i \in DOMAIN decisions => i \in Of(decisions, c)
  BY <1>1 DEF Of
<1>8. Watching'
  <2> SUFFICES ASSUME use_time_windows, NEW c \in Watched, NEW i \in Of(decisions, c)'
               PROVE  Examined(i, c)' \/ seen[c].at <= decisions'[i].arrived
    BY <1>0, <1>1 DEF Watching
  <2>1. CASE i \in DOMAIN decisions
    BY <1>0, <1>1, <1>6, <1>7, <2>1 DEF WindowInv, Watching
  <2>2. CASE i \notin DOMAIN decisions
    <3>1. decisions'[i].arrived = now
      BY <1>1, <1>7, <2>2
    <3> QED  BY <3>1 DEF WindowInv, Visited
  <2> QED  BY <2>1, <2>2
<1>9. baseline \subseteq DOMAIN decisions
  BY <1>3 DEF DetectionTypes
<1>10. BaselineBehind'
  <2> SUFFICES ASSUME counted # -1
               PROVE  BaselineBehind'
    BY <1>0 DEF BaselineBehind
  <2>1. ASSUME use_time_windows, NEW i \in baseline
        PROVE  decisions'[i].timestamp < now' - Exclusion /\ Examined(i, Category)'
    <3>1. decisions[i].timestamp < now - Exclusion /\ Examined(i, Category)
      BY <2>1 DEF WindowInv, BaselineBehind
    <3>2. Examined(i, Category)'
      BY <1>0, <1>1, <1>9, <2>1, <3>1 DEF Examined, InTime
    <3>3. decisions[i].timestamp \in Int /\ decisions'[i] = decisions[i]
      BY <1>1, <1>2, <1>9, <2>1
    <3> QED  BY <1>2, <1>4, <3>1, <3>2, <3>3
  <2>2. ASSUME ~use_time_windows, NEW i \in baseline
        PROVE  /\ i \in Of(decisions, Category)'
               /\ Cardinality(Newer(decisions, Of(decisions, Category), i)') >= counted - BaselineSize
    <3> DEFINE old == Newer(decisions, Of(decisions, Category), i)
               new == Newer(decisions, Of(decisions, Category), i)'
    <3>1. i \in Of(decisions, Category) /\ Cardinality(old) >= counted - BaselineSize
      BY <2>2 DEF WindowInv, BaselineBehind
    <3>2. i \in Of(decisions, Category)'
      BY <1>0, <1>7, <3>1
    <3>3. old \subseteq new
      BY <1>0, <1>1, <1>7, <3>1 DEF Newer, Of
    <3>4. new \subseteq Of(decisions, Category)' /\ old \subseteq Of(decisions, Category)
      BY <1>0 DEF Newer
    <3>5. IsFiniteSet(Of(decisions, Category)')
      <4>1. /\ Len(decisions') \in Nat /\ DOMAIN decisions' = 1..Len(decisions')
        BY DEF LogInv, LogTypes
      <4>2. Of(decisions, Category)' \in SUBSET (1..Len(decisions'))
        BY <1>7, <4>1
      <4> QED  BY <4>1, <4>2, UpTo
    <3> HIDE DEF old, new
    <3>6. IsFiniteSet(new) /\ Cardinality(new) \in Nat
      BY <3>4, <3>5, FS_Subset, FS_CardinalityType
    <3>7. Cardinality(old) <= Cardinality(new) /\ Cardinality(old) \in Nat
      BY <3>3, <3>6, FS_Subset, FS_CardinalityType
    <3>8. counted \in Int /\ BaselineSize \in Int
      BY <1>3, WindowAssumption DEF DetectionTypes
    <3> QED  BY <3>1, <3>2, <3>6, <3>7, <3>8 DEF new
  <2> QED  BY <1>0, <1>1, <2>1, <2>2 DEF BaselineBehind
<1>11. SeenIsRecent'
  BY <1>0, <1>1, <1>7 DEF WindowInv, SeenIsRecent, Of
<1>12. WindowsDisjoint'
  BY <1>0, <1>1 DEF WindowInv, WindowsDisjoint
<1>13. BaselineWasExamined'
  <2> SUFFICES ASSUME use_time_windows, NEW k \in DOMAIN results, NEW i \in results[k].baseline
               PROVE  Examined(i, results[k].category)'
    BY <1>0, <1>1 DEF BaselineWasExamined, Examined, InTime
  <2>1. Examined(i, results[k].category)
    BY DEF WindowInv, BaselineWasExamined, Examined, InTime
  <2>2. i \in DOMAIN decisions
    BY <1>3 DEF DetectionTypes
  <2> QED  BY <1>0, <1>1, <2>1, <2>2 DEF Examined, InTime
<1> QED  BY <1>3, <1>5, <1>8, <1>10, <1>11, <1>12, <1>13 DEF WindowInv

LEMMA VisitingTyped ==
  ASSUME DetectionTypes, visiting > 0
  PROVE  Category \in Watched /\ visiting \in 1..Len(Monitored)
<1>1. visiting \in 1..Len(Monitored)
  BY WindowAssumption DEF DetectionTypes
<1> QED  BY <1>1, WindowAssumption DEF Category, Watched

\* When its category is visited, a decision that came in time is in the detection window, was
\* in one before, or has not got older than the window's end.
LEMMA VisitExamines ==
  ASSUME LogInv, WindowInv, use_time_windows, visiting > 0,
         NEW i \in Of(decisions, Category), ~Examined(i, Category)
  PROVE  /\ decisions[i].timestamp >= now - Detection
         /\ now <= decisions[i].arrived
            \/ i \in DetectionWindow(decisions, Category, now, Detection)
<1>1. Category \in Watched
  BY VisitingTyped DEF WindowInv
<1>2. /\ InTime(i) /\ seen[Category].at <= decisions[i].arrived
      /\ now - seen[Category].at <= Period
  BY <1>1 DEF WindowInv, Watching, Visited, Examined
<1>3. /\ decisions[i].timestamp \in Int /\ decisions[i].arrived \in Nat /\ now \in Nat
      /\ decisions[i].timestamp <= decisions[i].arrived
  BY RowsTyped
<1>4. seen[Category].at \in Nat /\ Period \in Nat /\ Detection \in Nat
  BY <1>1, WindowAssumption DEF WindowInv, DetectionTypes
<1>5. decisions[i].timestamp >= now - Detection
  BY <1>2, <1>3, <1>4 DEF InTime
<1>6. decisions[i].timestamp < now => i \in DetectionWindow(decisions, Category, now, Detection)
  BY <1>5 DEF DetectionWindow, InWindow
<1> QED  BY <1>3, <1>5, <1>6

\* The first read of a visit: the baseline ends before the detection window can begin, and
\* what is in it was watched.
LEMMA BaselineKeepsWindows ==
  ASSUME LogInv, WindowInv, ReadBaseline
  PROVE  WindowInv'
<1>1. /\ visiting > 0 /\ counted = -1 /\ counted' = Cardinality(Of(decisions, Category))
      /\ baseline' = IF use_time_windows
                     THEN BaselineWindow(decisions, Category, now, Lookback, Exclusion)
                     ELSE Oldest(decisions, Of(decisions, Category), BaselineSize)
      /\ UNCHANGED <<now, use_time_windows, requests, decisions, visiting, results, seen, examined>>
  BY DEF ReadBaseline, clock, log
<1>2. Category' = Category
  BY <1>1 DEF Category
<1>3. /\ Of(decisions, Category) \in SUBSET Nat /\ IsFiniteSet(Of(decisions, Category))
      /\ Of(decisions, Category) \subseteq DOMAIN decisions
      /\ Cardinality(Of(decisions, Category)) \in Nat
      /\ \A i \in Of(decisions, Category) : decisions[i].timestamp \in Int
      /\ now \in Nat
  BY RowsTyped
<1>4. baseline' \subseteq Of(decisions, Category)
  BY <1>1 DEF BaselineWindow, InWindow, Oldest
<1>5. DetectionTypes'
  BY <1>1, <1>3, <1>4 DEF WindowInv, DetectionTypes
<1>6. \A i, c : Examined(i, c)' <=> Examined(i, c)
  BY <1>1 DEF Examined, InTime
<1>7. /\ Exclusion \in Nat /\ Detection \in Nat /\ Detection <= Exclusion /\ BaselineSize \in Nat
  BY WindowAssumption
<1>8. BaselineBehind'
  <2>1. ASSUME use_time_windows, NEW i \in baseline'
        PROVE  decisions[i].timestamp < now - Exclusion /\ Examined(i, Category)
    <3>1. i \in Of(decisions, Category) /\ decisions[i].timestamp < now - Exclusion
      BY <1>1, <2>1 DEF BaselineWindow, InWindow
    <3>2. ~(decisions[i].timestamp >= now - Detection)
      BY <1>3, <1>7, <3>1
    <3> QED  BY <1>1, <2>1, <3>1, <3>2, VisitExamines
  <2>2. ASSUME ~use_time_windows, NEW i \in baseline'
        PROVE  /\ i \in Of(decisions, Category)
               /\ Cardinality(Newer(decisions, Of(decisions, Category), i))
                    >= counted' - BaselineSize
    <3> DEFINE ids == Of(decisions, Category)
    <3>1. ids \in SUBSET Nat /\ IsFiniteSet(ids) /\ \A j \in ids : decisions[j].timestamp \in Int
      BY <1>3
    <3>2. i \in Oldest(decisions, ids, BaselineSize)
      BY <1>1, <2>2
    <3> HIDE DEF ids
    <3>3. i \in ids /\ Cardinality(Newer(decisions, ids, i)) >= Cardinality(ids) - BaselineSize
      BY <1>7, <3>1, <3>2, OldestBehind
    <3> QED  BY <1>1, <3>3 DEF ids
  <2> QED  BY <1>1, <1>2, <1>6, <2>1, <2>2 DEF BaselineBehind, Newer, Of
<1>9. Visited' /\ Watching' /\ SeenIsRecent'
  BY <1>1, <1>6 DEF WindowInv, Visited, Watching, SeenIsRecent, Of
<1>10. WindowsDisjoint' /\ BaselineWasExamined'
  BY <1>1 DEF WindowInv, WindowsDisjoint, BaselineWasExamined
<1> QED  BY <1>5, <1>8, <1>9, <1>10 DEF WindowInv

LEMMA BeginKeepsWindows ==
  ASSUME LogInv, WindowInv, BeginCycle
  PROVE  WindowInv'
<1>1. /\ visiting = 0 /\ visiting' = 1 /\ results' = <<>> /\ counted = -1
      /\ UNCHANGED <<now, use_time_windows, requests, decisions, baseline, counted, seen,
                     examined>>
  BY DEF BeginCycle, clock, log, WindowInv, DetectionTypes
<1>2. DetectionTypes'
  <2>1. 1 \in 0..Len(Monitored)
    BY WindowAssumption
  <2>2. <<>> \in Seq(Result) /\ DOMAIN <<>> = {}
    OBVIOUS
  <2> QED  BY <1>1, <2>1, <2>2 DEF WindowInv, DetectionTypes
<1>3. Visited' /\ Watching' /\ SeenIsRecent'
  BY <1>1 DEF WindowInv, Visited, Watching, SeenIsRecent, Of, Examined, InTime
<1>4. BaselineBehind' /\ WindowsDisjoint' /\ BaselineWasExamined'
  BY <1>1 DEF BaselineBehind, WindowsDisjoint, BaselineWasExamined
<1> QED  BY <1>2, <1>3, <1>4 DEF WindowInv

\* The two windows that a visit has read are of rows of the category, and apart.
LEMMA RecentApart ==
  ASSUME LogInv, WindowInv, visiting > 0, counted # -1
  PROVE  /\ Recent \subseteq Of(decisions, Category)
         /\ use_time_windows \/ counted >= BaselineSize + DetectionSize
              => baseline \cap Recent = {}
<1>1. /\ now \in Nat /\ \A i \in Of(decisions, Category) : decisions[i].timestamp \in Int
      /\ IsFiniteSet(Of(decisions, Category))
  BY RowsTyped
<1>2. /\ Exclusion \in Nat /\ Detection \in Nat /\ Detection <= Exclusion
      /\ BaselineSize \in Nat /\ DetectionSize \in Nat
  BY WindowAssumption
<1>3. counted \in Nat
  BY DEF WindowInv, DetectionTypes
<1>4. Recent \subseteq Of(decisions, Category)
  BY DEF Recent, DetectionWindow, InWindow, Newest
<1>5. ASSUME use_time_windows, NEW i \in baseline, i \in Recent
      PROVE  FALSE
  <2>1. decisions[i].timestamp < now - Exclusion
    BY <1>5 DEF WindowInv, BaselineBehind
  <2>2. now - Detection <= decisions[i].timestamp
    BY <1>5 DEF Recent, DetectionWindow, InWindow
  <2> QED  BY <1>1, <1>2, <1>4, <1>5, <2>1, <2>2
<1>6. ASSUME ~use_time_windows, counted >= BaselineSize + DetectionSize,
             NEW i \in baseline, i \in Recent
      PROVE  FALSE
  <2> DEFINE newer == Newer(decisions, Of(decisions, Category), i)
  <2>1. Cardinality(newer) >= counted - BaselineSize
    BY <1>6 DEF WindowInv, BaselineBehind
  <2>2. Cardinality(newer) < DetectionSize
    BY <1>6 DEF Recent, Newest, Newer
  <2>3. newer \subseteq Of(decisions, Category)
    BY DEF Newer
  <2> HIDE DEF newer
  <2>4. Cardinality(newer) \in Nat
    BY <1>1, <2>3, FS_Subset, FS_CardinalityType
  <2> QED  BY <1>2, <1>3, <1>6, <2>1, <2>2, <2>4
<1> QED  BY <1>4, <1>5, <1>6

\* The second read of a visit: the result is kept, and the category was watched until now.
LEMMA RecentKeepsWindows ==
  ASSUME LogInv, WindowInv, ReadRecent
  PROVE  WindowInv'
<1> DEFINE result == [category |-> Category,
                      insufficient_data |-> ~(Cardinality(baseline) >= MinBaseline
                                              /\ Cardinality(Recent) >= MinDetection),
                      baseline |-> baseline, recent |-> Recent, counted |-> counted]
<1>1. /\ visiting > 0 /\ counted # -1 /\ results' = results \o DetectCategory(Recent)
      /\ seen' = [seen EXCEPT ![Category] = [ids |-> Recent, at |-> now]]
      /\ examined' = [examined EXCEPT ![Category] = @ \cup Recent]
      /\ visiting' = IF visiting < Len(Monitored) THEN visiting + 1 ELSE 0
      /\ baseline' = {} /\ counted' = -1
      /\ UNCHANGED <<now, use_time_windows, requests, decisions>>
  BY DEF ReadRecent, clock, log
<1>2. DetectionTypes /\ Visited /\ Watching /\ BaselineBehind /\ SeenIsRecent
      /\ WindowsDisjoint /\ BaselineWasExamined
  BY DEF WindowInv
<1>3. Category \in Watched /\ visiting \in 1..Len(Monitored)
  BY <1>1, <1>2, VisitingTyped
<1>4. /\ now \in Nat /\ DOMAIN decisions \subseteq Nat
      /\ Of(decisions, Category) \subseteq DOMAIN decisions
      /\ \A i \in DOMAIN decisions : decisions[i].timestamp \in Int
  BY RowsTyped
<1>5. /\ Recent \subseteq Of(decisions, Category)
      /\ use_time_windows \/ counted >= BaselineSize + DetectionSize
           => baseline \cap Recent = {}
  BY <1>1, RecentApart
<1>6. counted \in Nat /\ baseline \subseteq DOMAIN decisions /\ results \in Seq(Result)
  BY <1>1, <1>2 DEF DetectionTypes
<1>7. result \in Result
  BY <1>3, <1>4, <1>5, <1>6 DEF Result
<1>8. /\ seen' \in [Watched -> [ids : SUBSET Nat, at : Nat]]
      /\ seen'[Category] = [ids |-> Recent, at |-> now]
      /\ \A c \in Watched : c # Category => seen'[c] = seen[c]
  <2>1. [ids |-> Recent, at |-> now] \in [ids : SUBSET Nat, at : Nat]
    BY <1>4, <1>5
  <2> QED  BY <1>1, <1>2, <1>3, <2>1 DEF DetectionTypes
<1>9. /\ examined' \in [Watched -> SUBSET Nat]
      /\ examined'[Category] = examined[Category] \cup Recent
      /\ \A c \in Watched : examined[c] \subseteq examined'[c]
  BY <1>1, <1>2, <1>3, <1>4, <1>5 DEF DetectionTypes
<1>10. results' = results \/ results' = Append(results, result)
  <2>1. DetectCategory(Recent) = <<>> \/ DetectCategory(Recent) = <<result>>
    BY DEF DetectCategory
  <2> HIDE DEF result
  <2>2. results \o <<>> = results /\ results \o <<result>> = Append(results, result)
    BY <1>6, <1>7
  <2> QED  BY <1>1, <2>1, <2>2
<1>11. /\ results' \in Seq(Result)
       /\ \A k \in DOMAIN results' :
            (k \in DOMAIN results /\ results'[k] = results[k]) \/ results'[k] = result
  <2> HIDE DEF result
  <2> QED  BY <1>6, <1>7, <1>10
<1>12. /\ result.baseline = baseline /\ result.recent = Recent
       /\ result.counted = counted /\ result.category = Category
  OBVIOUS
<1> HIDE DEF result
<1>13. DetectionTypes'
  <2>1. visiting' \in 0..Len(Monitored)
    BY <1>1, <1>3, WindowAssumption
  <2>2. \A k \in DOMAIN results' : results'[k].baseline \subseteq DOMAIN decisions
    BY <1>2, <1>6, <1>11, <1>12 DEF DetectionTypes
  <2> QED  BY <1>1, <1>8, <1>9, <1>11, <2>1, <2>2 DEF DetectionTypes
<1>14. Visited'
  <2>1. \A c \in Watched : seen'[c].at <= now /\ now - seen'[c].at <= Period
    BY <1>2, <1>4, <1>8, WindowAssumption DEF Visited
  <2> QED  BY <1>1, <2>1 DEF Visited
<1>15. ASSUME NEW i, NEW c \in Watched, Examined(i, c)
       PROVE  Examined(i, c)'
  BY <1>1, <1>9, <1>15 DEF Examined, InTime
<1>16. Watching'
  <2> SUFFICES ASSUME use_time_windows, NEW c \in Watched, NEW i \in Of(decisions, c)
               PROVE  Examined(i, c)' \/ seen'[c].at <= decisions[i].arrived
    BY <1>1 DEF Watching, Of
  <2>1. CASE c # Category
    BY <1>2, <1>8, <1>15, <2>1 DEF Watching
  <2>2. CASE c = Category
    <3>1. CASE Examined(i, c)
      BY <1>15, <3>1
    <3>2. CASE ~Examined(i, c) /\ now <= decisions[i].arrived
      BY <1>8, <2>2, <3>2
    <3>3. CASE i \in DetectionWindow(decisions, Category, now, Detection)
      BY <1>9, <2>2, <3>3 DEF Recent, Examined
    <3> QED  BY <1>1, <2>2, <3>1, <3>2, <3>3, VisitExamines
  <2> QED  BY <2>1, <2>2
<1>17. SeenIsRecent'
  <2> SUFFICES ASSUME use_time_windows, NEW c \in Watched, NEW i \in seen'[c].ids
               PROVE  /\ i \in Of(decisions, c)
                      /\ decisions[i].timestamp >= seen'[c].at - Detection
    BY <1>1 DEF SeenIsRecent, Of
  <2>1. CASE c # Category
    BY <1>2, <1>8, <2>1 DEF SeenIsRecent
  <2>2. CASE c = Category
    <3>1. i \in Recent /\ i \in Of(decisions, c) /\ seen'[c].at = now
      BY <1>5, <1>8, <2>2
    <3>2. now - Detection <= decisions[i].timestamp
      BY <3>1 DEF Recent, DetectionWindow, InWindow
    <3> QED  BY <1>4, <2>2, <3>1, <3>2, WindowAssumption
  <2> QED  BY <2>1, <2>2
<1>18. BaselineBehind'
  BY <1>1 DEF BaselineBehind
<1>19. WindowsDisjoint'
  BY <1>1, <1>2, <1>5, <1>11, <1>12 DEF WindowsDisjoint
<1>20. BaselineWasExamined'
  <2> SUFFICES ASSUME use_time_windows, NEW k \in DOMAIN results',
                      NEW i \in results'[k].baseline, InTime(i)
               PROVE  i \in examined'[results'[k].category]
    BY <1>1 DEF BaselineWasExamined, InTime
  <2>1. CASE k \in DOMAIN results /\ results'[k] = results[k]
    <3>1. i \in examined[results[k].category]
      BY <1>2, <2>1 DEF BaselineWasExamined, InTime
    <3>2. results[k].category \in Watched
      <4>1. results[k] \in Result
        BY <1>6, <2>1
      <4> QED  BY <4>1 DEF Result
    <3> QED  BY <1>9, <2>1, <3>1, <3>2
  <2>2. CASE results'[k] = result
    <3>1. i \in baseline /\ results'[k].category = Category
      BY <1>12, <2>2
    <3>2. i \in examined[Category]
      BY <1>1, <1>2, <3>1 DEF BaselineBehind, Examined
    <3> QED  BY <1>3, <1>9, <3>1, <3>2
  <2> QED  BY <1>11, <2>1, <2>2
<1> QED  BY <1>13, <1>14, <1>16, <1>17, <1>18, <1>19, <1>20 DEF WindowInv

LEMMA WindowStep ==
  ASSUME LogInv, LogInv', WindowInv, [Next]_vars
  PROVE  WindowInv'
<1>1. CASE BeginCycle
  BY <1>1, BeginKeepsWindows
<1>2. CASE ReadBaseline
  BY <1>2, BaselineKeepsWindows
<1>3. CASE ReadRecent
  BY <1>3, RecentKeepsWindows
<1>4. CASE UNCHANGED detection
  BY <1>4, OthersKeepWindows
<1>5. CASE Tick \/ UNCHANGED vars
  BY <1>4, <1>5 DEF Tick, vars
<1>6. ASSUME NEW s \in Submissions, Refuse(s) \/ Receive(s) \/ DecideFails(s) \/ Decide(s)
      PROVE  UNCHANGED detection
  BY <1>6 DEF Refuse, Receive, DecideFails, Decide
<1>7. ASSUME NEW r \in DOMAIN requests, Commit(r) \/ StoreFails(r) \/ Answer(r)
      PROVE  UNCHANGED detection
  BY <1>7 DEF Commit, StoreFails, Answer
<1> QED  BY <1>1, <1>2, <1>3, <1>4, <1>5, <1>6, <1>7 DEF Next

LEMMA Inductive == Spec => [](LogInv /\ WindowInv)
BY LogStart, LogStep, WindowStart, WindowStep, PTL DEF Spec

\* No decision is compared with itself (WindowsDisjoint; detector.py:199-232).
THEOREM WindowsAlwaysDisjoint == Spec => []WindowsDisjoint
<1>1. WindowInv => WindowsDisjoint
  BY DEF WindowInv
<1> QED  BY <1>1, Inductive, PTL

\* What a baseline is made of was watched first (BaselineWasExamined; config.py:81).
THEOREM BaselineAlwaysExamined == Spec => []BaselineWasExamined
<1>1. WindowInv => BaselineWasExamined
  BY DEF WindowInv
<1> QED  BY <1>1, Inductive, PTL

\* The drill-down shows the last detection window (DrillDownExplains; app.py:732-779).
THEOREM DrillDownAlwaysExplains == Spec => []DrillDownExplains
<1>1. ASSUME LogInv, WindowInv
      PROVE  DrillDownExplains
  <2> SUFFICES ASSUME use_time_windows, NEW c \in DOMAIN seen, NEW limit \in {2, 5}
               PROVE  LET answer == GetCategoryDecisions(decisions, c, now,
                                      Detection + now - seen[c].at, "", limit)
                      IN  seen[c].ids \subseteq answer.decisions \/ answer.stats.n = limit
    BY DEF DrillDownExplains
  <2> DEFINE hours  == Detection + now - seen[c].at
             rows   == {i \in Of(decisions, c) : /\ decisions[i].timestamp >= now - hours
                                                 /\ "" \in {"", decisions[i].outcome}}
             answer == GetCategoryDecisions(decisions, c, now, hours, "", limit)
  <2> SUFFICES seen[c].ids \subseteq answer.decisions \/ answer.stats.n = limit
    OBVIOUS
  <2>1. c \in Watched /\ seen[c].at \in Nat
    BY <1>1 DEF WindowInv, DetectionTypes
  <2>2. c \in CaseCategories
    BY <2>1, WindowAssumption DEF Watched
  <2>3. answer = [status |-> 200, decisions |-> Newest(decisions, rows, limit),
                  stats |-> CategoryStats(decisions, Newest(decisions, rows, limit))]
    BY <2>2 DEF GetCategoryDecisions, DrillDownIds
  <2>4. /\ Of(decisions, c) \subseteq Nat /\ IsFiniteSet(Of(decisions, c))
        /\ \A i \in Of(decisions, c) : decisions[i].timestamp \in Int
        /\ now \in Nat
    BY <1>1, RowsTyped
  <2>5. now - hours = seen[c].at - Detection
    BY <2>1, <2>4, WindowAssumption
  <2>6. seen[c].ids \subseteq rows
    BY <1>1, <2>1, <2>5 DEF WindowInv, SeenIsRecent
  <2>7. rows \in SUBSET Nat /\ IsFiniteSet(rows)
        /\ \A i \in rows : decisions[i].timestamp \in Int
    BY <2>4, FS_Subset
  <2>8. limit \in Nat
    OBVIOUS
  <2> HIDE DEF rows, answer, hours
  <2>9. /\ answer.decisions = Newest(decisions, rows, limit)
        /\ answer.stats.n = Cardinality(Newest(decisions, rows, limit))
    BY <2>3 DEF CategoryStats
  <2>10. /\ Cardinality(rows) <= limit => Newest(decisions, rows, limit) = rows
         /\ Cardinality(rows) > limit => Cardinality(Newest(decisions, rows, limit)) = limit
    BY <2>7, <2>8, NewestCounts
  <2>11. Cardinality(rows) \in Nat
    BY <2>7, FS_CardinalityType
  <2>12. CASE Cardinality(rows) <= limit
    BY <2>6, <2>9, <2>10, <2>12
  <2>13. CASE Cardinality(rows) > limit
    BY <2>9, <2>10, <2>13
  <2> QED  BY <2>8, <2>11, <2>12, <2>13
<1> QED  BY <1>1, Inductive, PTL

----------------------------------------------------------------------------
\* Comparing versions.
LEMMA CompareTwo ==
  ASSUME NEW a, NEW b, a.n \in Nat, b.n \in Nat, a.n # 0, b.n # 0,
         a["error"] \in Nat, a["resolved"] \in Nat, b["error"] \in Nat, b["resolved"] \in Nat
  PROVE  /\ CompareVersions(a, a) \in {"STABLE", "INSUFFICIENT_DATA"}
         /\ CompareVersions(a, b) = "IMPROVED" => CompareVersions(b, a) = "DEGRADED"
<1> DEFINE ab == a.n * b.n
           aa == a.n * a.n
<1>1. /\ ab \in Nat /\ aa \in Nat /\ 5 * a.n * b.n = 5 * ab /\ 5 * b.n * a.n = 5 * ab
      /\ 5 * a.n * a.n = 5 * aa
  OBVIOUS
<1>2. \A f \in {"error", "resolved"} : Delta(a, a, f) = 0
  BY DEF Delta
<1>3. Delta(a, b, "resolved") \in Int /\ Delta(b, a, "resolved") = -Delta(a, b, "resolved")
  BY DEF Delta
<1> HIDE DEF ab, aa
<1>4. CompareVersions(a, a) \in {"STABLE", "INSUFFICIENT_DATA"}
  BY <1>1, <1>2 DEF CompareVersions, MinSample
<1>5. ASSUME CompareVersions(a, b) = "IMPROVED"
      PROVE  CompareVersions(b, a) = "DEGRADED"
  <2>1. a.n >= MinSample /\ b.n >= MinSample /\ Delta(a, b, "resolved") > 5 * ab
    BY <1>1, <1>5 DEF CompareVersions, MinSample
  <2>2. Delta(b, a, "resolved") < -(5 * ab)
    BY <1>1, <1>3, <2>1
  <2> QED  BY <1>1, <2>1, <2>2 DEF CompareVersions, MinSample
<1> QED  BY <1>4, <1>5

\* Comparing versions is antisymmetric where it matters, and what is shown for a version is
\* what it is judged by (VersionsConsistent; app.py:826-1012).
THEOREM VersionsAlwaysConsistent == Spec => []VersionsConsistent
<1>1. ASSUME LogInv
      PROVE  VersionsConsistent
  <2> DEFINE versions == {decisions[i].version : i \in DOMAIN decisions}
  <2>1. ASSUME NEW v \in versions
        PROVE  LET s == VersionSummary(decisions, v) IN
               /\ OfVersion(decisions, v) \in SUBSET Nat /\ IsFiniteSet(OfVersion(decisions, v))
               /\ OfVersion(decisions, v) # {}
               /\ \A i \in OfVersion(decisions, v) : decisions[i].timestamp \in Int
               /\ s.n = Cardinality(OfVersion(decisions, v))
               /\ s.n \in Nat /\ s.n # 0 /\ s["error"] \in Nat /\ s["resolved"] \in Nat
    <3> DEFINE ids == OfVersion(decisions, v)
    <3>1. /\ ids \subseteq DOMAIN decisions /\ DOMAIN decisions \subseteq Nat
          /\ IsFiniteSet(DOMAIN decisions)
          /\ \A i \in DOMAIN decisions : decisions[i].timestamp \in Int
      BY <1>1, RowsTyped DEF OfVersion
    <3>2. ids # {}
      BY DEF OfVersion
    <3>3. VersionSummary(decisions, v) = CategoryStats(decisions, ids)
      BY DEF VersionSummary
    <3> HIDE DEF ids
    <3>4. IsFiniteSet(ids) /\ \A S \in SUBSET ids : Cardinality(S) \in Nat
      BY <3>1, FS_Subset, FS_CardinalityType
    <3>5. Cardinality(ids) # 0
      BY <3>2, <3>4, FS_EmptySet
    <3>6. /\ {i \in ids : decisions[i].outcome = "error"} \in SUBSET ids
          /\ {i \in ids : decisions[i].outcome = "resolved"} \in SUBSET ids
          /\ ids \in SUBSET ids
      OBVIOUS
    <3> QED  BY <3>1, <3>2, <3>3, <3>4, <3>5, <3>6 DEF ids, CategoryStats
  <2>2. ASSUME NEW v \in versions, NEW limit \in {2, 100}
        PROVE  LET shown == GetVersionDecisions(decisions, v, "", limit).stats
                   s     == VersionSummary(decisions, v)
               IN  shown = s \/ (shown.n = limit /\ limit < s.n)
    <3> DEFINE ids  == OfVersion(decisions, v)
               rows == {i \in ids : "" \in {"", decisions[i].category}}
    <3>1. rows = ids /\ limit \in Nat
      OBVIOUS
    <3>2. GetVersionDecisions(decisions, v, "", limit).stats
            = CategoryStats(decisions, Newest(decisions, ids, limit))
      BY <2>1, <3>1 DEF GetVersionDecisions
    <3>3. /\ ids \in SUBSET Nat /\ IsFiniteSet(ids) /\ Cardinality(ids) \in Nat
          /\ \A i \in ids : decisions[i].timestamp \in Int
          /\ VersionSummary(decisions, v) = CategoryStats(decisions, ids)
          /\ VersionSummary(decisions, v).n = Cardinality(ids)
      BY <2>1 DEF VersionSummary
    <3> HIDE DEF ids, rows
    <3>4. /\ Cardinality(ids) <= limit => Newest(decisions, ids, limit) = ids
          /\ Cardinality(ids) > limit => Cardinality(Newest(decisions, ids, limit)) = limit
      BY <3>1, <3>3, NewestCounts
    <3>5. CategoryStats(decisions, Newest(decisions, ids, limit)).n
            = Cardinality(Newest(decisions, ids, limit))
      BY DEF CategoryStats
    <3>6. CASE Cardinality(ids) <= limit
      BY <3>2, <3>3, <3>4, <3>6
    <3>7. CASE Cardinality(ids) > limit
      BY <3>2, <3>3, <3>4, <3>5, <3>7
    <3>8. Cardinality(ids) <= limit \/ Cardinality(ids) > limit
      BY <3>1, <3>3
    <3> QED  BY <3>6, <3>7, <3>8, Zenon
  <2>3. ASSUME NEW v \in versions, NEW w \in versions
        PROVE  /\ Compare(v, v) \in {"STABLE", "INSUFFICIENT_DATA"}
               /\ Compare(v, w) = "IMPROVED" => Compare(w, v) = "DEGRADED"
    <3> DEFINE a == VersionSummary(decisions, v)
               b == VersionSummary(decisions, w)
    <3>1. /\ a.n \in Nat /\ b.n \in Nat /\ a.n # 0 /\ b.n # 0
          /\ a["error"] \in Nat /\ a["resolved"] \in Nat
          /\ b["error"] \in Nat /\ b["resolved"] \in Nat
      BY <2>1
    <3> HIDE DEF a, b
    <3>2. /\ CompareVersions(a, a) \in {"STABLE", "INSUFFICIENT_DATA"}
          /\ CompareVersions(a, b) = "IMPROVED" => CompareVersions(b, a) = "DEGRADED"
      BY <3>1, CompareTwo
    <3> QED  BY <3>2 DEF Compare, a, b
  <2> DEFINE summaries == ListAgentVersions(decisions)
  <2>4. /\ DOMAIN summaries = versions
        /\ \A v \in versions : summaries[v] = VersionSummary(decisions, v)
    BY DEF ListAgentVersions
  <2> SUFFICES ASSUME NEW v \in DOMAIN summaries
               PROVE  /\ Compare(v, v) \in {"STABLE", "INSUFFICIENT_DATA"}
                      /\ \A limit \in {2, 100} :
                           LET shown == GetVersionDecisions(decisions, v, "", limit).stats
                           IN  \/ shown = summaries[v]
                               \/ shown.n = limit /\ limit < summaries[v].n
                      /\ \A w \in DOMAIN summaries : Compare(v, w) = "IMPROVED"
                                                       => Compare(w, v) = "DEGRADED"
    BY DEF VersionsConsistent
  <2> HIDE DEF versions, summaries
  <2>5. v \in versions /\ summaries[v] = VersionSummary(decisions, v)
    BY <2>4
  <2>6. Compare(v, v) \in {"STABLE", "INSUFFICIENT_DATA"}
    BY <2>3, <2>5, Zenon
  <2>7. ASSUME NEW limit \in {2, 100}
        PROVE  LET shown == GetVersionDecisions(decisions, v, "", limit).stats
               IN  shown = summaries[v] \/ (shown.n = limit /\ limit < summaries[v].n)
    BY <2>2, <2>5, Zenon
  <2>8. ASSUME NEW w \in DOMAIN summaries, Compare(v, w) = "IMPROVED"
        PROVE  Compare(w, v) = "DEGRADED"
    BY <2>3, <2>4, <2>5, <2>8, Zenon
  <2> QED  BY <2>6, <2>7, <2>8, Zenon
<1>2. LogInv /\ WindowInv => LogInv
  OBVIOUS
<1> QED  BY <1>1, <1>2, Inductive, PTL
=============================================================================
