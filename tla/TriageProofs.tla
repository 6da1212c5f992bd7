---------------------------- MODULE TriageProofs ----------------------------
(***************************************************************************)
(* Proofs about the stateless judgements, for inputs of any length.        *)
(***************************************************************************)
EXTENDS Triage, FiniteSetTheorems, FunctionTheorems, WellFoundedInduction, TLAPS

\* What an input is made of.
InputsInv ==
  /\ task \in {"classify", "correlate", "adapt", "evaluate"}
  /\ task = "classify" => items \in Seq(Logs)
  /\ task = "correlate" => given \in Bundles /\ items \in Seq(Candidates)
  /\ task = "adapt" => given \in Fixtures /\ items \in Seq(AccessEvents)
  /\ task = "evaluate" => given \in Units /\ items \in Seq(Cases)

LEMMA InputsHold == TriageSpec => []InputsInv
<1>1. Init => InputsInv
  BY DEF Init, InputsInv
<1>2. InputsInv /\ [Next]_vars => InputsInv'
  <2> SUFFICES ASSUME InputsInv, [Next]_vars PROVE InputsInv'
    OBVIOUS
  <2>1. ASSUME NEW S, NEW on, Grow(on, S)
        PROVE  /\ task = on /\ UNCHANGED <<task, given>>
               /\ items \in Seq(S) => items' \in Seq(S)
    BY <2>1 DEF Grow
  <2>2. CASE AddLog
    <3>1. task = "classify" /\ UNCHANGED <<task, given>> /\ \E x \in Logs : items' = Append(items, x)
      BY <2>2 DEF AddLog, Grow
    <3> QED
      BY <3>1 DEF InputsInv
  <2>3. CASE AddCandidate \/ AddAccessEvent \/ AddCase
    BY <2>1, <2>3 DEF AddCandidate, AddAccessEvent, AddCase, InputsInv
  <2>4. CASE UNCHANGED vars
    BY <2>4 DEF vars, InputsInv
  <2> QED
    BY <2>2, <2>3, <2>4 DEF Next
<1> QED
  BY <1>1, <1>2, PTL DEF TriageSpec

-----------------------------------------------------------------------------
(* Least and greatest elements *)

LEMMA LeastExists ==
  ASSUME NEW S, S \subseteq Nat, S # {}
  PROVE  \E m \in S : \A n \in S : m <= n
<1> DEFINE R == OpToRel(<, Nat)
<1>1. IsWellFoundedOn(R, Nat)
  BY NatLessThanWellFounded
<1>2. \A m, n \in S : <<n, m>> \in R <=> n < m
  BY DEF OpToRel
<1> HIDE DEF R
<1>3. PICK m \in S : \A n \in S : ~ (<<n, m>> \in R)
  BY <1>1, WFMin
<1>4. \A n \in S : ~ (n < m) /\ m \in Nat /\ n \in Nat
  BY <1>2, <1>3
<1> QED
  BY <1>4

LEMMA MinIs ==
  ASSUME NEW S, S \subseteq Nat, NEW x \in S, \A y \in S : x <= y
  PROVE  Min(S) = x
<1>1. Min(S) \in S /\ \A y \in S : Min(S) <= y
  BY DEF Min
<1>2. Min(S) <= x /\ x <= Min(S) /\ Min(S) \in Nat /\ x \in Nat
  BY <1>1
<1> QED
  BY <1>2

\* Of finitely many places one comes first in the order by score, id and place.
LEMMA FirstExists ==
  ASSUME NEW places, places \subseteq Nat, places # {},
         NEW score \in [places -> 0..90], NEW id \in [places -> Nat]
  PROVE  \E n \in places : \A m \in places \ {n} :
           \/ score[n] > score[m]
           \/ score[n] = score[m] /\ id[n] < id[m]
           \/ score[n] = score[m] /\ id[n] = id[m] /\ n < m
<1> DEFINE lack(n) == 90 - score[n]
           lacks == {lack(n) : n \in places}
<1>1. lacks \subseteq Nat /\ lacks # {}
  <2>1. ASSUME NEW n \in places PROVE lack(n) \in Nat
    <3>1. score[n] \in 0..90
      OBVIOUS
    <3> QED
      BY <3>1
  <2> QED
    BY <2>1
<1>2. PICK s \in lacks : \A t \in lacks : s <= t
  BY <1>1, LeastExists
<1> DEFINE best == {n \in places : lack(n) = s}
           ids == {id[n] : n \in best}
<1>3. best # {} /\ ids \subseteq Nat /\ ids # {}
  BY <1>2
<1>4. PICK i \in ids : \A j \in ids : i <= j
  BY <1>3, LeastExists
<1> DEFINE smallest == {n \in best : id[n] = i}
<1>5. smallest # {} /\ smallest \subseteq Nat
  BY <1>4
<1>6. PICK n \in smallest : \A m \in smallest : n <= m
  BY <1>5, LeastExists
<1>7. ASSUME NEW m \in places, m # n
      PROVE  \/ score[n] > score[m]
             \/ score[n] = score[m] /\ id[n] < id[m]
             \/ score[n] = score[m] /\ id[n] = id[m] /\ n < m
  <2>1. lack(n) <= lack(m) /\ score[n] \in 0..90 /\ score[m] \in 0..90
    BY <1>2, <1>6
  <2>2. CASE score[n] # score[m]
    <3>1. \A p, q \in 0..90 : 90 - p <= 90 - q /\ p # q => p > q
      OBVIOUS
    <3> HIDE DEF smallest, best, ids, lacks
    <3> QED
      BY <2>1, <2>2, <3>1
  <2>3. CASE score[n] = score[m]
    <3>1. m \in best /\ id[n] <= id[m] /\ id[n] \in Nat /\ id[m] \in Nat
      BY <1>4, <1>6, <2>3
    <3>2. CASE id[n] # id[m]
      BY <2>3, <3>1, <3>2
    <3>3. CASE id[n] = id[m]
      <4>1. m \in smallest /\ n <= m /\ n \in Nat /\ m \in Nat
        BY <1>5, <1>6, <3>1, <3>3
      <4> QED
        BY <1>7, <2>3, <3>3, <4>1
    <3> QED
      BY <3>2, <3>3
  <2> QED
    BY <2>2, <2>3
<1> QED
  BY <1>6, <1>7

-----------------------------------------------------------------------------
(* Correlation *)

\* Two spans overlap within the window exactly when an instant of one is near one of the other.
LEMMA WindowIsNearness ==
  ASSUME NEW b \in Bundles, NEW c \in Candidates
  PROVE  InTimeWindow(b, c) <=> Near(b, c)
<1> DEFINE from == c.observed_from
           to == c.observed_to
           s == IF b.start >= from - TimeWindow THEN b.start ELSE from - TimeWindow
           t == IF s < from THEN from ELSE IF s > to THEN to ELSE s
<1>1. /\ TimeWindow \in Nat /\ b.start \in Int /\ b.end \in Int /\ b.start <= b.end
      /\ from \in Int /\ to \in Int /\ from <= to
  BY CorrelationAssumption
<1>2. ASSUME InTimeWindow(b, c) PROVE Near(b, c)
  <2>1. s \in b.start..b.end /\ t \in from..to /\ s - t \in -TimeWindow..TimeWindow
    BY <1>1, <1>2 DEF InTimeWindow
  <2> QED
    BY <2>1 DEF Near
<1>3. ASSUME Near(b, c) PROVE InTimeWindow(b, c)
  BY <1>1, <1>3 DEF Near, InTimeWindow
<1> QED
  BY <1>2, <1>3

\* What a score says.
LEMMA ScoreFacts ==
  ASSUME NEW b \in Bundles, NEW c \in Candidates
  PROVE  /\ Score(b, c) \in 0..90
         /\ Score(b, c) >= Threshold <=>
              SharesUser(b, c) /\ (SharesService(b, c) \/ InTimeWindow(b, c))
         /\ Score(b, c) >= Threshold =>
              Score(b, c) = IF ~ InTimeWindow(b, c) THEN 70
                            ELSE IF SharesService(b, c) THEN 90 ELSE 65
<1>1. Threshold \in 46..65
  BY CorrelationAssumption
<1>2. /\ Points(SharesUser(b, c), 45) = IF SharesUser(b, c) THEN 45 ELSE 0
      /\ Points(SharesService(b, c), 25) = IF SharesService(b, c) THEN 25 ELSE 0
      /\ Points(InTimeWindow(b, c), 20) = IF InTimeWindow(b, c) THEN 20 ELSE 0
  BY DEF Points
<1> QED
  BY <1>1, <1>2 DEF Score

SmallerId(c, d) == c.incident_id < d.incident_id
Better(b, c, d) ==
  Score(b, c) > Score(b, d) \/ (Score(b, c) = Score(b, d) /\ SmallerId(c, d))

\* The first of the sorted candidates with the correlation id has the smallest id.
LEMMA FirstById ==
  ASSUME NEW candidates \in Seq(Candidates), NEW places \in SUBSET DOMAIN candidates, places # {}
  PROVE  \E n \in places :
           /\ FirstBy(SmallerId, candidates, places) = candidates[n]
           /\ \A m \in places : candidates[n].incident_id <= candidates[m].incident_id
<1> DEFINE id == [n \in places |-> candidates[n].incident_id]
           score == [n \in places |-> 0]
           IsFirst(n) == \A m \in places \ {n} :
             \/ SmallerId(candidates[n], candidates[m])
             \/ ~ SmallerId(candidates[m], candidates[n]) /\ n < m
<1>1. places \subseteq Nat /\ \A n \in places : candidates[n].incident_id \in Nat
  BY CorrelationAssumption
<1>2. id \in [places -> Nat] /\ score \in [places -> 0..90]
  BY <1>1
<1>3. \E n \in places : \A m \in places \ {n} :
        \/ score[n] > score[m]
        \/ score[n] = score[m] /\ id[n] < id[m]
        \/ score[n] = score[m] /\ id[n] = id[m] /\ n < m
  <2> HIDE DEF id, score
  <2> QED
    BY <1>1, <1>2, FirstExists, ZenonT(60)
<1>4. \E n \in places : IsFirst(n)
  BY <1>1, <1>3 DEF SmallerId
<1> DEFINE n == CHOOSE n \in places : IsFirst(n)
<1>5. n \in places /\ IsFirst(n)
  BY <1>4
<1>6. FirstBy(SmallerId, candidates, places) = candidates[n]
  BY DEF FirstBy
<1> HIDE DEF n
<1>7. \A m \in places : candidates[n].incident_id <= candidates[m].incident_id
  BY <1>1, <1>5 DEF SmallerId
<1> QED
  BY <1>5, <1>6, <1>7

LEMMA FirstByScore ==
  ASSUME NEW b \in Bundles, NEW candidates \in Seq(Candidates), candidates # <<>>
  PROVE  \E n \in DOMAIN candidates :
           /\ FirstBy(LAMBDA c, d : Better(b, c, d), candidates, DOMAIN candidates)
                = candidates[n]
           /\ \A m \in DOMAIN candidates :
                \/ Score(b, candidates[n]) > Score(b, candidates[m])
                \/ /\ Score(b, candidates[n]) = Score(b, candidates[m])
                   /\ candidates[n].incident_id <= candidates[m].incident_id
<1> DEFINE places == DOMAIN candidates
           id == [n \in places |-> candidates[n].incident_id]
           score == [n \in places |-> Score(b, candidates[n])]
           IsFirst(n) == \A m \in places \ {n} :
             \/ Better(b, candidates[n], candidates[m])
             \/ ~ Better(b, candidates[m], candidates[n]) /\ n < m
<1>1. places \subseteq Nat /\ places # {} /\ \A n \in places : candidates[n] \in Candidates
  <2>1. Len(candidates) \in Nat /\ Len(candidates) # 0 /\ places = 1..Len(candidates)
    OBVIOUS
  <2>2. 1 \in places
    BY <2>1
  <2>3. \A n \in 1..Len(candidates) : candidates[n] \in Candidates
    OBVIOUS
  <2> QED
    BY <2>1, <2>2, <2>3
<1>2. \A n \in places :
        candidates[n].incident_id \in Nat /\ Score(b, candidates[n]) \in 0..90
  BY <1>1, ScoreFacts, CorrelationAssumption
<1>3. id \in [places -> Nat] /\ score \in [places -> 0..90]
  BY <1>2
<1>4. \E n \in places : \A m \in places \ {n} :
        \/ score[n] > score[m]
        \/ score[n] = score[m] /\ id[n] < id[m]
        \/ score[n] = score[m] /\ id[n] = id[m] /\ n < m
  <2> HIDE DEF id, score, places
  <2> QED
    BY <1>1, <1>3, FirstExists, ZenonT(60)
<1>5. \E n \in places : IsFirst(n)
  BY <1>1, <1>2, <1>4 DEF Better, SmallerId
<1> DEFINE n == CHOOSE n \in places : IsFirst(n)
<1>6. n \in places /\ IsFirst(n)
  BY <1>5
<1>7. FirstBy(LAMBDA c, d : Better(b, c, d), candidates, DOMAIN candidates) = candidates[n]
  BY DEF FirstBy
<1> HIDE DEF n
<1>8. ASSUME NEW m \in places
      PROVE  \/ Score(b, candidates[n]) > Score(b, candidates[m])
             \/ /\ Score(b, candidates[n]) = Score(b, candidates[m])
                /\ candidates[n].incident_id <= candidates[m].incident_id
  <2> DEFINE sn == Score(b, candidates[n])
             sm == Score(b, candidates[m])
             i == candidates[n].incident_id
             j == candidates[m].incident_id
  <2>1. i \in Nat /\ j \in Nat /\ sn \in 0..90 /\ sm \in 0..90
    BY <1>2, <1>6
  <2>2. \/ m = n
        \/ sn > sm \/ (sn = sm /\ i < j)
        \/ ~ (sm > sn \/ (sm = sn /\ j < i))
    BY <1>6 DEF Better, SmallerId
  <2>3. m = n => sn = sm /\ i = j
    OBVIOUS
  <2> HIDE DEF sn, sm, i, j
  <2>4. sn > sm \/ (sn = sm /\ i <= j)
    BY <2>1, <2>2, <2>3
  <2> QED
    BY <2>4 DEF sn, sm, i, j
<1> QED
  BY <1>6, <1>7, <1>8

\* The branches of correlate_bundle, with the heads of its two sorted lists named.
LEMMA CorrelateCases ==
  ASSUME NEW b \in Bundles, NEW candidates \in Seq(Candidates)
  PROVE  LET exact == {n \in DOMAIN candidates :
                         candidates[n].correlation_id = b.correlation_id}
             best == FirstBy(LAMBDA c, d : Better(b, c, d), candidates, DOMAIN candidates)
         IN  /\ exact # {} =>
                  Correlate(b, candidates) =
                    Correlated(FirstBy(SmallerId, candidates, exact), 100,
                               <<"exact_correlation_id">>)
             /\ exact = {} /\ candidates = <<>> =>
                  Correlate(b, candidates) = Abstain(0, "no_correlation_candidates")
             /\ exact = {} /\ candidates # <<>> /\ Score(b, best) < Threshold =>
                  Correlate(b, candidates) = Abstain(Score(b, best), "below_correlation_threshold")
             /\ exact = {} /\ candidates # <<>> /\ ~ (Score(b, best) < Threshold) =>
                  Correlate(b, candidates) = Correlated(best, Score(b, best), Reasons(b, best))
BY DEF Correlate, FirstBy, SmallerId, Better

LEMMA CorrelatedFields ==
  ASSUME NEW c, NEW score, NEW reasons
  PROVE  /\ Correlated(c, score, reasons).incident_id = c.incident_id
         /\ Correlated(c, score, reasons).score = score
         /\ ~ Correlated(c, score, reasons).abstained
BY DEF Correlated

LEMMA AbstainFields ==
  ASSUME NEW score, NEW reason
  PROVE  /\ Abstain(score, reason).incident_id = Null
         /\ Abstain(score, reason).score = score
         /\ Abstain(score, reason).abstained
BY DEF Abstain

Akin(b, c) == SharesUser(b, c) /\ (SharesService(b, c) \/ Near(b, c))
Merit(b, c) == (IF SharesService(b, c) THEN 2 ELSE 0) + (IF Near(b, c) THEN 1 ELSE 0)

\* The candidates that share enough are those whose score reaches the threshold, in the order
\* of their scores.
LEMMA MeritIsScore ==
  ASSUME NEW b \in Bundles, NEW c \in Candidates, NEW d \in Candidates
  PROVE  /\ Akin(b, c) <=> Score(b, c) >= Threshold
         /\ Akin(b, c) /\ Akin(b, d) =>
              (Merit(b, c) >= Merit(b, d) <=> Score(b, c) >= Score(b, d))
BY ScoreFacts, WindowIsNearness DEF Akin, Merit

LEMMA ElementsAre ==
  ASSUME NEW candidates \in Seq(Candidates)
  PROVE  /\ ToSet(candidates) = {candidates[n] : n \in DOMAIN candidates}
         /\ ToSet(candidates) \subseteq Candidates
         /\ \A n \in DOMAIN candidates : candidates[n] \in Candidates
         /\ \A c \in ToSet(candidates) : c.incident_id \in Nat
BY CorrelationAssumption DEF ToSet

\* The head of the sorted candidates is the best of those that share enough, if any do.
LEMMA BestIsFittest ==
  ASSUME NEW b \in Bundles, NEW S \in SUBSET Candidates, NEW best \in S,
         \A c \in S : \/ Score(b, best) > Score(b, c)
                      \/ Score(b, best) = Score(b, c) /\ best.incident_id <= c.incident_id
  PROVE  /\ Score(b, best) < Threshold => \A c \in S : ~ Akin(b, c)
         /\ Score(b, best) >= Threshold =>
              /\ Akin(b, best)
              /\ \A d \in S : Akin(b, d) => Merit(b, best) >= Merit(b, d)
              /\ \A c \in S : Akin(b, c) /\ (\A d \in S : Akin(b, d) => Merit(b, c) >= Merit(b, d))
                   => best.incident_id <= c.incident_id
<1>1. /\ Threshold \in 46..65 /\ Score(b, best) \in 0..90
      /\ \A c \in S : Score(b, c) \in 0..90
  BY ScoreFacts, CorrelationAssumption
<1>2. \A c \in S : Akin(b, c) <=> Score(b, c) >= Threshold
  BY MeritIsScore
<1>3. \A c \in S : Score(b, best) >= Score(b, c)
  BY <1>1
<1>4. ASSUME Score(b, best) < Threshold, NEW c \in S PROVE ~ Akin(b, c)
  <2>1. Score(b, best) >= Score(b, c) /\ Score(b, c) \in 0..90
    BY <1>1, <1>3
  <2> QED
    BY <1>1, <1>2, <1>4, <2>1
<1>5. ASSUME Score(b, best) >= Threshold PROVE Akin(b, best)
  BY <1>2, <1>5
<1>6. ASSUME Akin(b, best), NEW d \in S, Akin(b, d) PROVE Merit(b, best) >= Merit(b, d)
  BY <1>3, <1>6, MeritIsScore
<1>7. ASSUME Akin(b, best), NEW c \in S, Akin(b, c), Merit(b, c) >= Merit(b, best)
      PROVE  best.incident_id <= c.incident_id
  <2>1. Score(b, c) >= Score(b, best)
    BY <1>7, MeritIsScore
  <2>2. \/ Score(b, best) > Score(b, c)
        \/ best.incident_id <= c.incident_id
    OBVIOUS
  <2>3. Score(b, c) \in 0..90 /\ Score(b, best) \in 0..90
    BY <1>1
  <2> QED
    BY <2>1, <2>2, <2>3
<1> QED
  BY <1>4, <1>5, <1>6, <1>7

\* The smallest id of a set of candidates.
LEMMA SmallestId ==
  ASSUME NEW S \in SUBSET Candidates, NEW c \in S, \A d \in S : c.incident_id <= d.incident_id
  PROVE  Min({d.incident_id : d \in S}) = c.incident_id
<1> DEFINE ids == {d.incident_id : d \in S}
<1>1. ids \subseteq Nat
  BY CorrelationAssumption
<1>2. c.incident_id \in ids /\ \A i \in ids : c.incident_id <= i
  OBVIOUS
<1> HIDE DEF ids
<1>3. Min(ids) = c.incident_id
  BY <1>1, <1>2, MinIs
<1> QED
  BY <1>3 DEF ids

\* What the result says of the incident chosen, or of none.
Answers(result, chosen) ==
  /\ result.incident_id = IF chosen = {} THEN Null ELSE Min({c.incident_id : c \in chosen})
  /\ result.abstained <=> chosen = {}
  /\ result.score >= Threshold <=> chosen # {}

LEMMA CorrelatedAnswers ==
  ASSUME NEW chosen \in SUBSET Candidates, NEW c \in chosen,
         \A d \in chosen : c.incident_id <= d.incident_id,
         NEW score, score >= Threshold, NEW reasons
  PROVE  Answers(Correlated(c, score, reasons), chosen)
<1>1. Min({d.incident_id : d \in chosen}) = c.incident_id
  BY SmallestId
<1> QED
  BY <1>1, CorrelatedFields DEF Answers

LEMMA AbstainAnswers ==
  ASSUME NEW score, ~ (score >= Threshold), NEW reason
  PROVE  Answers(Abstain(score, reason), {})
BY AbstainFields DEF Answers

Exact(b, candidates) == {c \in ToSet(candidates) : c.correlation_id = b.correlation_id}
Fittest(b, candidates) ==
  {c \in ToSet(candidates) :
     Akin(b, c) /\ \A d \in ToSet(candidates) : Akin(b, d) => Merit(b, c) >= Merit(b, d)}

LEMMA ExactAnswers ==
  ASSUME NEW b \in Bundles, NEW candidates \in Seq(Candidates), Exact(b, candidates) # {}
  PROVE  Answers(Correlate(b, candidates), Exact(b, candidates))
<1> DEFINE places == {n \in DOMAIN candidates :
                        candidates[n].correlation_id = b.correlation_id}
<1>1. Exact(b, candidates) = {candidates[n] : n \in places}
  BY ElementsAre DEF Exact
<1>2. places # {} /\ places \in SUBSET DOMAIN candidates
  BY <1>1
<1>3. PICK n \in places :
        /\ FirstBy(SmallerId, candidates, places) = candidates[n]
        /\ \A m \in places : candidates[n].incident_id <= candidates[m].incident_id
  <2> HIDE DEF places
  <2> QED
    BY <1>2, FirstById
<1>4. Correlate(b, candidates) = Correlated(candidates[n], 100, <<"exact_correlation_id">>)
  BY <1>2, <1>3, CorrelateCases
<1>5. Exact(b, candidates) \in SUBSET Candidates /\ candidates[n] \in Exact(b, candidates)
  BY <1>1, ElementsAre
<1>6. \A d \in Exact(b, candidates) : candidates[n].incident_id <= d.incident_id
  BY <1>1, <1>3
<1>7. 100 >= Threshold
  <2>1. Threshold \in 46..65
    BY CorrelationAssumption
  <2> QED
    BY <2>1
<1> HIDE DEF places
<1> QED
  BY <1>4, <1>5, <1>6, <1>7, CorrelatedAnswers

LEMMA FittestAnswers ==
  ASSUME NEW b \in Bundles, NEW candidates \in Seq(Candidates), Exact(b, candidates) = {}
  PROVE  Answers(Correlate(b, candidates), Fittest(b, candidates))
<1> DEFINE best == FirstBy(LAMBDA c, d : Better(b, c, d), candidates, DOMAIN candidates)
<1>1. {n \in DOMAIN candidates : candidates[n].correlation_id = b.correlation_id} = {}
  BY ElementsAre DEF Exact
<1>2. CASE candidates = <<>>
  <2>1. Correlate(b, candidates) = Abstain(0, "no_correlation_candidates")
    BY <1>1, <1>2, CorrelateCases
  <2>2. DOMAIN candidates = {}
    BY <1>2
  <2>3. Fittest(b, candidates) = {}
    BY <2>2, ElementsAre DEF Fittest
  <2>4. ~ (0 >= Threshold)
    BY CorrelationAssumption
  <2> QED
    BY <2>1, <2>3, <2>4, AbstainAnswers
<1>3. CASE candidates # <<>>
  <2>1. PICK n \in DOMAIN candidates :
          /\ best = candidates[n]
          /\ \A m \in DOMAIN candidates :
               \/ Score(b, candidates[n]) > Score(b, candidates[m])
               \/ /\ Score(b, candidates[n]) = Score(b, candidates[m])
                  /\ candidates[n].incident_id <= candidates[m].incident_id
    BY <1>3, FirstByScore
  <2>2. /\ Score(b, best) < Threshold => Correlate(b, candidates) =
             Abstain(Score(b, best), "below_correlation_threshold")
        /\ ~ (Score(b, best) < Threshold) => Correlate(b, candidates) =
             Correlated(best, Score(b, best), Reasons(b, best))
    BY <1>1, <1>3, CorrelateCases
  <2> HIDE DEF best
  <2>3. best \in ToSet(candidates) /\ ToSet(candidates) \in SUBSET Candidates
    BY <2>1, ElementsAre
  <2>4. \A c \in ToSet(candidates) :
          \/ Score(b, best) > Score(b, c)
          \/ Score(b, best) = Score(b, c) /\ best.incident_id <= c.incident_id
    BY <2>1, ElementsAre
  <2>5. Score(b, best) \in 0..90 /\ Threshold \in 46..65
    BY <2>3, ScoreFacts, CorrelationAssumption
  <2>6. /\ Score(b, best) < Threshold => Fittest(b, candidates) = {}
        /\ Score(b, best) >= Threshold =>
             /\ best \in Fittest(b, candidates)
             /\ \A c \in Fittest(b, candidates) : best.incident_id <= c.incident_id
    BY <2>3, <2>4, BestIsFittest DEF Fittest
  <2>7. CASE Score(b, best) < Threshold
    BY <2>2, <2>5, <2>6, <2>7, AbstainAnswers
  <2>8. CASE ~ (Score(b, best) < Threshold)
    <3> DEFINE score == Score(b, best)
    <3>1. score >= Threshold
      <4>1. score \in 0..90 /\ ~ (score < Threshold) /\ Threshold \in 46..65
        BY <2>5, <2>8
      <4> HIDE DEF score
      <4> QED
        BY <4>1
    <3>2. Correlate(b, candidates) = Correlated(best, Score(b, best), Reasons(b, best))
      BY <2>2, <2>8
    <3>3. Fittest(b, candidates) \in SUBSET Candidates
      BY <2>3 DEF Fittest
    <3> QED
      BY <2>6, <3>1, <3>2, <3>3, CorrelatedAnswers
  <2> QED
    BY <2>7, <2>8
<1> QED
  BY <1>2, <1>3

\* For any candidates in any order: a bundle goes to an incident with its correlation id, or else
\* to the best of those that share a user and also a service or the time, among equals to the
\* smallest id, and with no such incident it goes nowhere (correlation.py:33-73).
THEOREM CorrelationOnMerit == TriageSpec => []CorrelatedOnMerit
<1>1. ASSUME InputsInv, task = "correlate" PROVE CorrelatedOnMerit
  <2> DEFINE exact == {c \in ToSet(items) : c.correlation_id = given.correlation_id}
             akin == {c \in ToSet(items) :
               SharesUser(given, c) /\ (SharesService(given, c) \/ Near(given, c))}
             merit(c) == (IF SharesService(given, c) THEN 2 ELSE 0)
                           + (IF Near(given, c) THEN 1 ELSE 0)
             chosen == IF exact # {} THEN exact
                       ELSE {c \in akin : \A d \in akin : merit(c) >= merit(d)}
  <2>1. given \in Bundles /\ items \in Seq(Candidates)
    BY <1>1 DEF InputsInv
  <2>2. exact = Exact(given, items)
    BY DEF Exact
  <2>3. {c \in akin : \A d \in akin : merit(c) >= merit(d)} = Fittest(given, items)
    BY DEF Fittest, Akin, Merit
  <2>4. Answers(Correlate(given, items), chosen)
    BY <2>1, <2>2, <2>3, ExactAnswers, FittestAnswers
  <2> QED
    BY <2>4 DEF Answers, CorrelatedOnMerit
<1>2. InputsInv => CorrelatedOnMerit
  BY <1>1 DEF CorrelatedOnMerit
<1> QED
  BY <1>2, InputsHold, PTL

-----------------------------------------------------------------------------
(* Classification *)

LEMMA MaxExists ==
  ASSUME NEW S, S \subseteq Int, S # {}, IsFiniteSet(S)
  PROVE  \E x \in S : \A y \in S : x >= y
<1> DEFINE Greatest(T) == \E x \in T : \A y \in T : x >= y
           Counter(T) == T \subseteq S /\ T # {} /\ ~ Greatest(T)
           sizes == {Cardinality(T) : T \in {T \in SUBSET S : Counter(T)}}
<1>1. \A T \in SUBSET S : IsFiniteSet(T) /\ Cardinality(T) \in Nat
  BY FS_Subset, FS_CardinalityType
<1>2. ASSUME ~ Greatest(S) PROVE FALSE
  <2>1. sizes \subseteq Nat /\ sizes # {}
    BY <1>1, <1>2
  <2>2. PICK m \in sizes : \A n \in sizes : m <= n
    BY <2>1, LeastExists
  <2>3. PICK T \in SUBSET S : Counter(T) /\ Cardinality(T) = m
    BY <2>2
  <2>4. PICK x \in T : TRUE
    BY <2>3
  <2>5. /\ T \ {x} \in SUBSET S
        /\ Cardinality(T \ {x}) = Cardinality(T) - 1
        /\ Cardinality(T) \in Nat
    BY <1>1, <2>3, <2>4, FS_RemoveElement
  <2>6. ~ Counter(T \ {x})
    <3>1. ASSUME Counter(T \ {x}) PROVE FALSE
      <4>1. m <= Cardinality(T \ {x})
        BY <2>2, <2>5, <3>1
      <4> QED
        BY <2>3, <2>5, <4>1
    <3> QED
      BY <3>1
  <2>7. CASE T \ {x} = {}
    <3>1. \A y \in T : x >= y
      BY <2>4, <2>7
    <3> QED
      BY <2>3, <2>4, <3>1
  <2>8. CASE T \ {x} # {}
    <3>1. PICK z \in T \ {x} : \A y \in T \ {x} : z >= y
      BY <2>5, <2>6, <2>8
    <3>2. x \in Int /\ z \in Int /\ T \subseteq Int
      BY <2>3, <2>4, <3>1
    <3>3. Greatest(T)
      <4>1. CASE x >= z
        <5>1. \A y \in T : x >= y
          BY <3>1, <3>2, <4>1
        <5> QED
          BY <2>4, <5>1
      <4>2. CASE z >= x
        <5>1. \A y \in T : z >= y
          BY <3>1, <3>2, <4>2
        <5> QED
          BY <3>1, <5>1
      <4> QED
        BY <3>2, <4>1, <4>2
    <3> QED
      BY <2>3, <3>3
  <2> QED
    BY <2>7, <2>8
<1> QED
  BY <1>2

LEMMA CountReached ==
  ASSUME NEW logs \in Seq(Logs)
  PROVE  FailureCount(logs) >= 3 <=>
           \E log \in ToSet(logs) : log.failure_count # Null /\ log.failure_count >= 3
<1> DEFINE counts == {0} \cup ({log.failure_count : log \in ToSet(logs)} \ {Null})
           f == [n \in 0..Len(logs) |->
                   IF n = 0 \/ logs[n].failure_count = Null THEN 0 ELSE logs[n].failure_count]
<1>1. counts \subseteq Int /\ counts # {}
  <2>1. \A log \in ToSet(logs) : log.failure_count \in Int \cup {Null}
    BY LogsAssumption DEF ToSet
  <2>2. counts \subseteq Int
    BY <2>1
  <2> QED
    BY <2>2
<1>2. IsFiniteSet(counts)
  <2>1. f \in [0..Len(logs) -> counts]
    BY DEF ToSet
  <2>2. ASSUME NEW c \in counts PROVE \E n \in 0..Len(logs) : f[n] = c
    <3>1. CASE c = 0
      BY <3>1
    <3>2. CASE c # 0
      <4>1. PICK n \in DOMAIN logs : c = logs[n].failure_count /\ c # Null
        BY <2>2, <3>2 DEF ToSet
      <4>2. n \in 0..Len(logs) /\ n # 0
        OBVIOUS
      <4> QED
        BY <4>1, <4>2
    <3> QED
      BY <3>1, <3>2
  <2>3. f \in Surjection(0..Len(logs), counts)
    BY <2>1, <2>2 DEF Surjection
  <2>4. IsFiniteSet(0..Len(logs))
    BY FS_Interval
  <2> QED
    BY <2>3, <2>4, FS_Surjection
<1>3. FailureCount(logs) \in counts /\ \A c \in counts : FailureCount(logs) >= c
  <2>1. \E x \in counts : \A y \in counts : x >= y
    BY <1>1, <1>2, MaxExists
  <2>2. FailureCount(logs) = Max(counts)
    BY DEF FailureCount
  <2> HIDE DEF counts
  <2> QED
    BY <2>1, <2>2 DEF Max
<1>4. ASSUME FailureCount(logs) >= 3
      PROVE  \E log \in ToSet(logs) : log.failure_count # Null /\ log.failure_count >= 3
  <2>1. FailureCount(logs) # 0
    BY <1>4
  <2> QED
    BY <1>3, <1>4, <2>1
<1>5. ASSUME NEW log \in ToSet(logs), log.failure_count # Null, log.failure_count >= 3
      PROVE  FailureCount(logs) >= 3
  <2> DEFINE most == FailureCount(logs)
             count == log.failure_count
  <2>1. count \in counts /\ count \in Int /\ most \in Int /\ most >= count /\ count >= 3
    BY <1>1, <1>3, <1>5
  <2> HIDE DEF most, count
  <2>2. most >= 3
    BY <2>1
  <2> QED
    BY <2>2 DEF most
<1> QED
  BY <1>4, <1>5

\* Each signal is the signal of some log.
LEMMA SignalsAre ==
  ASSUME NEW logs \in Seq(Logs)
  PROVE  /\ SignalsForBundle(logs) \subseteq Signalled
         /\ \A s \in Signalled :
              s \in SignalsForBundle(logs) <=> \E log \in ToSet(logs) : Supports(log, s)
<1> DEFINE each == UNION {SignalsOf(log) : log \in ToSet(logs)}
           counted == IF FailureCount(logs) >= 3 THEN {"repeated_failures"} ELSE {}
<1>1. SignalsForBundle(logs) = each \cup counted
  BY DEF SignalsForBundle
<1>2. \A log : /\ SignalsOf(log) \subseteq {"mfa_denied", "account_lockout"}
               /\ "mfa_denied" \in SignalsOf(log) <=> DeniedMfa(log)
               /\ "account_lockout" \in SignalsOf(log) <=> LockedOut(log)
  BY DEF SignalsOf
<1>3. /\ each \subseteq {"mfa_denied", "account_lockout"}
      /\ "mfa_denied" \in each <=> \E log \in ToSet(logs) : DeniedMfa(log)
      /\ "account_lockout" \in each <=> \E log \in ToSet(logs) : LockedOut(log)
  BY <1>2
<1>4. /\ counted \subseteq {"repeated_failures"}
      /\ "repeated_failures" \in counted <=> FailureCount(logs) >= 3
  OBVIOUS
<1> HIDE DEF each, counted
<1>5. \A log : /\ Supports(log, "mfa_denied") <=> DeniedMfa(log)
               /\ Supports(log, "account_lockout") <=> LockedOut(log)
               /\ Supports(log, "repeated_failures") <=>
                    (log.failure_count # Null /\ log.failure_count >= 3)
  BY DEF Supports
<1>6. "mfa_denied" \in SignalsForBundle(logs) <=> \E log \in ToSet(logs) : Supports(log, "mfa_denied")
  BY <1>1, <1>3, <1>4, <1>5
<1>7. "account_lockout" \in SignalsForBundle(logs) <=>
        \E log \in ToSet(logs) : Supports(log, "account_lockout")
  BY <1>1, <1>3, <1>4, <1>5
<1>8. "repeated_failures" \in SignalsForBundle(logs) <=>
        \E log \in ToSet(logs) : Supports(log, "repeated_failures")
  BY <1>1, <1>3, <1>4, <1>5, CountReached
<1>9. SignalsForBundle(logs) \subseteq Signalled
  BY <1>1, <1>3, <1>4 DEF Signalled
<1> QED
  BY <1>6, <1>7, <1>8, <1>9 DEF Signalled

LEMMA ElementsFinite ==
  ASSUME NEW S, NEW seq \in Seq(S)
  PROVE  IsFiniteSet(ToSet(seq)) /\ \A T \in SUBSET ToSet(seq) : IsFiniteSet(T)
<1>1. seq \in Surjection(1..Len(seq), ToSet(seq))
  BY DEF Surjection, ToSet
<1>2. IsFiniteSet(1..Len(seq))
  BY FS_Interval
<1>3. IsFiniteSet(ToSet(seq))
  BY <1>1, <1>2, FS_Surjection
<1> QED
  BY <1>3, FS_Subset

Network(logs) == {log \in ToSet(logs) : IsNetworkEvidence(log)}
Endpoint(logs) == {log \in ToSet(logs) : IsEndpointEvidence(log)}
Evidence(logs) == {log \in ToSet(logs) : IsAuthenticationEvidence(log)}
Confidence(logs) == IF Cardinality(SignalsForBundle(logs)) >= 3 THEN 95 ELSE 80

\* The four verdicts, and which input gets which.
LEMMA Verdicts ==
  ASSUME NEW logs \in Seq(Logs)
  PROVE  \/ /\ SignalsForBundle(logs) # {}
            /\ Classify(logs) = Result("authentication_failure", Confidence(logs),
                                       Evidence(logs), SignalsForBundle(logs))
         \/ /\ SignalsForBundle(logs) = {} /\ Network(logs) # {}
            /\ Cardinality(Network(logs)) >= Cardinality(Endpoint(logs))
            /\ Classify(logs) = Result("network_connectivity", 85, Network(logs),
                                       {"network_or_dns_failure"})
         \/ /\ SignalsForBundle(logs) = {} /\ Endpoint(logs) # {}
            /\ \/ Network(logs) = {}
               \/ ~ (Cardinality(Network(logs)) >= Cardinality(Endpoint(logs)))
            /\ Classify(logs) = Result("endpoint_health", 82, Endpoint(logs),
                                       {"endpoint_health_signal"})
         \/ /\ SignalsForBundle(logs) = {} /\ Network(logs) = {} /\ Endpoint(logs) = {}
            /\ Classify(logs) = Result("uncategorized", 20, {},
                                       {"insufficient_supported_evidence"})
<1> DEFINE networks == Cardinality(Network(logs))
           endpoints == Cardinality(Endpoint(logs))
<1>1. IsFiniteSet(Network(logs)) /\ IsFiniteSet(Endpoint(logs))
  BY ElementsFinite DEF Network, Endpoint
<1>2. networks \in Nat /\ (Endpoint(logs) = {} => networks >= endpoints)
  BY <1>1, FS_CardinalityType, FS_EmptySet
<1>3. /\ SignalsForBundle(logs) # {} =>
           Classify(logs) = Result("authentication_failure", Confidence(logs),
                                   Evidence(logs), SignalsForBundle(logs))
      /\ SignalsForBundle(logs) = {} /\ Network(logs) # {} /\ networks >= endpoints =>
           Classify(logs) = Result("network_connectivity", 85, Network(logs),
                                   {"network_or_dns_failure"})
      /\ SignalsForBundle(logs) = {} /\ ~ (Network(logs) # {} /\ networks >= endpoints) =>
           /\ Endpoint(logs) # {} =>
                Classify(logs) = Result("endpoint_health", 82, Endpoint(logs),
                                        {"endpoint_health_signal"})
           /\ Endpoint(logs) = {} =>
                Classify(logs) = Result("uncategorized", 20, {},
                                        {"insufficient_supported_evidence"})
  BY DEF Classify, Network, Endpoint, Evidence, Confidence
<1>4. networks = Cardinality(Network(logs)) /\ endpoints = Cardinality(Endpoint(logs))
  OBVIOUS
<1> HIDE DEF networks, endpoints
<1> QED
  BY <1>2, <1>3, <1>4

LEMMA ResultFields ==
  ASSUME NEW category, NEW confidence, NEW evidence, NEW reason_codes
  PROVE  LET result == Result(category, confidence, evidence, reason_codes)
         IN  /\ result.category = category
             /\ result.confidence = confidence
             /\ result.cited_evidence_ids = EventIds(evidence)
             /\ result.reason_codes = reason_codes
BY DEF Result

\* More signals, no less risk and no less confidence.
LEMMA RanksRise ==
  ASSUME NEW signals, NEW later, signals \subseteq later
  PROVE  Gains(signals, later)
<1>1. Rank[RiskLevel(signals)] <= Rank[RiskLevel(later)]
  <2>1. RiskLevel(later) \in {"low", "medium", "high"}
    BY DEF RiskLevel
  <2>2. RiskLevel(signals) = "high" => RiskLevel(later) = "high"
    BY DEF RiskLevel
  <2>3. RiskLevel(signals) = "medium" => RiskLevel(later) \in {"medium", "high"}
    BY DEF RiskLevel
  <2>4. RiskLevel(signals) \in {"low", "medium", "high"}
    BY DEF RiskLevel
  <2> QED
    BY <2>1, <2>2, <2>3, <2>4 DEF Rank
<1>2. Rank[ConfidenceForSignals(signals)] <= Rank[ConfidenceForSignals(later)]
  <2>1. /\ ConfidenceForSignals(later) \in {"low", "medium", "high"}
        /\ ConfidenceForSignals(signals) \in {"low", "medium", "high"}
    BY DEF ConfidenceForSignals
  <2>2. ConfidenceForSignals(signals) = "high" => ConfidenceForSignals(later) = "high"
    BY DEF ConfidenceForSignals
  <2>3. ConfidenceForSignals(signals) = "medium" =>
          ConfidenceForSignals(later) \in {"medium", "high"}
    BY DEF ConfidenceForSignals
  <2> QED
    BY <2>1, <2>2, <2>3 DEF Rank
<1> QED
  BY <1>1, <1>2 DEF Gains

\* A further log adds itself to the evidence of a kind, or leaves it alone.
LEMMA OneMoreLog ==
  ASSUME NEW logs \in Seq(Logs), NEW x \in Logs
  PROVE  LET later == Append(logs, x)
         IN  /\ later \in Seq(Logs) /\ Last(later) = x
             /\ ToSet(later) = ToSet(logs) \cup {x}
             /\ SignalsForBundle(logs) \subseteq SignalsForBundle(later)
             /\ Network(later) = Network(logs) \cup (IF IsNetworkEvidence(x) THEN {x} ELSE {})
             /\ Endpoint(later) = Endpoint(logs) \cup (IF IsEndpointEvidence(x) THEN {x} ELSE {})
             /\ Evidence(logs) \subseteq Evidence(later)
<1> DEFINE later == Append(logs, x)
<1>1. later \in Seq(Logs) /\ Last(later) = x
  BY DEF Last
<1>2. ToSet(later) = ToSet(logs) \cup {x}
  <2>1. /\ DOMAIN later = DOMAIN logs \cup {Len(logs) + 1} /\ later[Len(logs) + 1] = x
        /\ \A n \in DOMAIN logs : later[n] = logs[n]
    OBVIOUS
  <2> HIDE DEF later
  <2> QED
    BY <2>1 DEF ToSet
<1> HIDE DEF later
<1>3. SignalsForBundle(logs) \subseteq SignalsForBundle(later)
  <2>1. SignalsForBundle(logs) \subseteq Signalled
    BY SignalsAre
  <2>2. ASSUME NEW s \in SignalsForBundle(logs) PROVE s \in SignalsForBundle(later)
    <3>1. \E log \in ToSet(logs) : Supports(log, s)
      BY <2>1, SignalsAre
    <3> QED
      BY <1>1, <1>2, <2>1, <3>1, SignalsAre
  <2> QED
    BY <2>2
<1>4. /\ Network(later) = Network(logs) \cup (IF IsNetworkEvidence(x) THEN {x} ELSE {})
      /\ Endpoint(later) = Endpoint(logs) \cup (IF IsEndpointEvidence(x) THEN {x} ELSE {})
      /\ Evidence(logs) \subseteq Evidence(later)
  BY <1>2 DEF Network, Endpoint, Evidence
<1> QED
  BY <1>1, <1>2, <1>3, <1>4 DEF later

\* A first signal comes with a log that is cited for it.
LEMMA NewSignalIsCited ==
  ASSUME NEW logs \in Seq(Logs), NEW x \in Logs,
         SignalsForBundle(logs) = {}, SignalsForBundle(Append(logs, x)) # {}
  PROVE  x.event_id \in EventIds(Evidence(Append(logs, x)))
<1> DEFINE later == Append(logs, x)
<1>1. later \in Seq(Logs) /\ ToSet(later) = ToSet(logs) \cup {x}
  BY OneMoreLog
<1> HIDE DEF later
<1>2. PICK s \in SignalsForBundle(later) : TRUE
  BY DEF later
<1>3. s \in Signalled
  BY <1>1, SignalsAre
<1>4. Supports(x, s)
  BY <1>1, <1>2, <1>3, SignalsAre
<1>5. IsAuthenticationEvidence(x)
  BY <1>3, <1>4 DEF Signalled, Supports, IsAuthenticationEvidence, DeniedMfa
<1> QED
  BY <1>1, <1>5 DEF Evidence, EventIds, later

\* What one more log does to each verdict.
LEMMA VerdictsAccumulate ==
  ASSUME NEW logs \in Seq(Logs), NEW x \in Logs
  PROVE  Accumulates(logs, Append(logs, x))
<1> DEFINE later == Append(logs, x)
           before == Classify(logs)
           after == Classify(later)
<1>1. /\ later \in Seq(Logs) /\ Last(later) = x
      /\ SignalsForBundle(logs) \subseteq SignalsForBundle(later)
      /\ Network(later) = Network(logs) \cup (IF IsNetworkEvidence(x) THEN {x} ELSE {})
      /\ Endpoint(later) = Endpoint(logs) \cup (IF IsEndpointEvidence(x) THEN {x} ELSE {})
      /\ Evidence(logs) \subseteq Evidence(later)
  BY OneMoreLog
<1>2. /\ IsFiniteSet(Network(later)) /\ IsFiniteSet(Endpoint(later))
      /\ IsFiniteSet(SignalsForBundle(later))
  <2>1. Network(later) \in SUBSET ToSet(later) /\ Endpoint(later) \in SUBSET ToSet(later)
    BY DEF Network, Endpoint
  <2>2. SignalsForBundle(later) \subseteq Signalled
    BY <1>1, SignalsAre
  <2>3. IsFiniteSet(Signalled)
    <3>1. IsFiniteSet({}) /\ Signalled = (({} \cup {"mfa_denied"}) \cup {"account_lockout"})
                                           \cup {"repeated_failures"}
      BY FS_EmptySet DEF Signalled
    <3> QED
      BY <3>1, FS_AddElement
  <2> HIDE DEF later
  <2> QED
    BY <1>1, <2>1, <2>2, <2>3, ElementsFinite, FS_Subset
<1>3. ASSUME NEW S, NEW T, IsFiniteSet(T), S \subseteq T
      PROVE  Cardinality(S) \in Nat /\ Cardinality(T) \in Nat /\ Cardinality(S) <= Cardinality(T)
  BY <1>3, FS_Subset, FS_CardinalityType
<1>4. \A S, T : S \subseteq T => EventIds(S) \subseteq EventIds(T)
  BY DEF EventIds
<1>5. Gains(SignalsForBundle(logs), SignalsForBundle(later))
  BY <1>1, RanksRise
<1> HIDE DEF later
<1>6. CASE SignalsForBundle(logs) # {}
  <2>1. /\ before.category = "authentication_failure" /\ before.confidence = Confidence(logs)
        /\ before.cited_evidence_ids = EventIds(Evidence(logs))
    BY <1>6, Verdicts, ResultFields
  <2>2. /\ after.category = "authentication_failure" /\ after.confidence = Confidence(later)
        /\ after.cited_evidence_ids = EventIds(Evidence(later))
    BY <1>1, <1>6, Verdicts, ResultFields
  <2>3. Confidence(logs) <= Confidence(later)
    BY <1>1, <1>2, <1>3 DEF Confidence
  <2> HIDE DEF before, after
  <2> QED
    BY <1>1, <1>4, <1>5, <2>1, <2>2, <2>3 DEF Accumulates, before, after, later
<1>7. CASE SignalsForBundle(logs) = {} /\ SignalsForBundle(later) # {}
  <2>1. /\ before.category # "authentication_failure"
    BY <1>7, Verdicts, ResultFields
  <2>2. /\ after.category = "authentication_failure"
        /\ after.cited_evidence_ids = EventIds(Evidence(later))
    BY <1>1, <1>7, Verdicts, ResultFields
  <2>3. x.event_id \in EventIds(Evidence(later))
    BY <1>7, NewSignalIsCited DEF later
  <2> HIDE DEF before, after
  <2> QED
    BY <1>1, <1>5, <2>1, <2>2, <2>3 DEF Accumulates, before, after, later
<1>8. CASE SignalsForBundle(logs) = {} /\ SignalsForBundle(later) = {}
  <2>1. \/ /\ Network(logs) # {} /\ Cardinality(Network(logs)) >= Cardinality(Endpoint(logs))
           /\ before.category = "network_connectivity" /\ before.confidence = 85
           /\ before.cited_evidence_ids = EventIds(Network(logs))
        \/ /\ Endpoint(logs) # {}
           /\ \/ Network(logs) = {}
              \/ ~ (Cardinality(Network(logs)) >= Cardinality(Endpoint(logs)))
           /\ before.category = "endpoint_health" /\ before.confidence = 82
           /\ before.cited_evidence_ids = EventIds(Endpoint(logs))
        \/ /\ Network(logs) = {} /\ Endpoint(logs) = {}
           /\ before.category = "uncategorized" /\ before.confidence = 20
           /\ before.cited_evidence_ids = EventIds({})
    BY <1>8, Verdicts, ResultFields
  <2>2. \/ /\ Network(later) # {} /\ Cardinality(Network(later)) >= Cardinality(Endpoint(later))
           /\ after.category = "network_connectivity" /\ after.confidence = 85
           /\ after.cited_evidence_ids = EventIds(Network(later))
        \/ /\ Endpoint(later) # {}
           /\ \/ Network(later) = {}
              \/ ~ (Cardinality(Network(later)) >= Cardinality(Endpoint(later)))
           /\ after.category = "endpoint_health" /\ after.confidence = 82
           /\ after.cited_evidence_ids = EventIds(Endpoint(later))
        \/ /\ Network(later) = {} /\ Endpoint(later) = {}
           /\ after.category = "uncategorized" /\ after.confidence = 20
           /\ after.cited_evidence_ids = EventIds({})
    <3> HIDE DEF before
    <3>1. later \in Seq(Logs) /\ SignalsForBundle(later) = {}
      BY <1>1, <1>8
    <3> QED
      BY <3>1, Verdicts, ResultFields
  <2>3. /\ Network(logs) \subseteq Network(later) /\ Endpoint(logs) \subseteq Endpoint(later)
        /\ ~ IsNetworkEvidence(x) => Network(later) = Network(logs)
        /\ ~ IsEndpointEvidence(x) => Endpoint(later) = Endpoint(logs)
        /\ IsNetworkEvidence(x) => x.event_id \in EventIds(Network(later))
        /\ IsEndpointEvidence(x) => x.event_id \in EventIds(Endpoint(later))
    BY <1>1 DEF EventIds
  <2> DEFINE n == Cardinality(Network(logs))
             m == Cardinality(Network(later))
             e == Cardinality(Endpoint(logs))
             f == Cardinality(Endpoint(later))
  <2>4. /\ n \in Nat /\ m \in Nat /\ n <= m /\ e \in Nat /\ f \in Nat /\ e <= f
        /\ Network(later) = Network(logs) => n = m
        /\ Endpoint(later) = Endpoint(logs) => e = f
    BY <1>2, <1>3, <2>3
  <2> HIDE DEF before, after, n, m, e, f
  <2>5. before.category # "uncategorized" => after.category # "uncategorized"
    BY <2>1, <2>2, <2>3
  <2>6. before.category # "authentication_failure"
    BY <2>1
  <2>7. ASSUME after.category = before.category
        PROVE  /\ before.confidence <= after.confidence
               /\ before.cited_evidence_ids \subseteq after.cited_evidence_ids
    BY <1>4, <2>1, <2>2, <2>3, <2>7
  <2>8. ASSUME after.category = "network_connectivity", after.category # before.category
        PROVE  x.event_id \in after.cited_evidence_ids
    <3>1. after.cited_evidence_ids = EventIds(Network(later)) /\ Network(later) # {} /\ m >= f
      BY <2>2, <2>8 DEF m, f
    <3>2. Network(logs) = {} \/ ~ (n >= e)
      BY <2>1, <2>8 DEF n, e
    <3>3. IsNetworkEvidence(x)
      BY <2>3, <2>4, <3>1, <3>2
    <3> QED
      BY <2>3, <3>1, <3>3
  <2>9. ASSUME after.category = "endpoint_health", after.category # before.category
        PROVE  x.event_id \in after.cited_evidence_ids
    <3>1. /\ after.cited_evidence_ids = EventIds(Endpoint(later)) /\ Endpoint(later) # {}
          /\ Network(later) = {} \/ ~ (m >= f)
      BY <2>2, <2>9 DEF m, f
    <3>2. Endpoint(logs) = {} \/ (Network(logs) # {} /\ n >= e)
      BY <2>1, <2>9 DEF n, e
    <3>3. IsEndpointEvidence(x)
      BY <2>3, <2>4, <3>1, <3>2
    <3> QED
      BY <2>3, <3>1, <3>3
  <2>10. after.category \in {"network_connectivity", "endpoint_health"}
           \/ after.category = before.category
    BY <2>1, <2>2, <2>3
  <2> QED
    BY <1>1, <1>5, <2>5, <2>6, <2>7, <2>8, <2>9, <2>10 DEF Accumulates, before, after, later
<1> QED
  BY <1>6, <1>7, <1>8 DEF later

\* For bundles of any length: a further log removes no signal and lowers neither the risk nor the
\* runbook draft's confidence; a verdict of an authentication failure stays, another is replaced
\* only by one that cites the further log, and while a category stays its citations and its
\* confidence only grow (auth_failures.py:41-56, classification.py:58-98).
THEOREM EvidenceOnlyGrows == TriageSpec => EvidenceAccumulates
<1>1. ASSUME InputsInv, Next, task = "classify" PROVE Accumulates(items, items')
  <2>1. items \in Seq(Logs)
    BY <1>1 DEF InputsInv
  <2>2. PICK x \in Logs : items' = Append(items, x)
    BY <1>1 DEF Next, AddLog, AddCandidate, AddAccessEvent, AddCase, Grow
  <2> QED
    BY <2>1, <2>2, VerdictsAccumulate
<1>2. InputsInv /\ [Next]_vars => [task = "classify" => Accumulates(items, items')]_vars
  BY <1>1
<1> QED
  BY <1>2, InputsHold, PTL DEF EvidenceAccumulates, TriageSpec

\* The reasons of a category are those of cited logs, and only an uncategorized bundle cites none.
Cites(result, logs) ==
  /\ result.category # "uncategorized" =>
       \A reason \in result.reason_codes : \E log \in ToSet(logs) :
         Supports(log, reason) /\ log.event_id \in result.cited_evidence_ids
  /\ result.category = "uncategorized" <=> result.cited_evidence_ids = {}
  /\ result.cited_evidence_ids \subseteq EventIds(ToSet(logs))

LEMMA VerdictsCite ==
  ASSUME NEW logs \in Seq(Logs)
  PROVE  Cites(Classify(logs), logs)
<1> DEFINE signals == SignalsForBundle(logs)
           result == Classify(logs)
<1> SUFFICES Cites(result, logs)
  OBVIOUS
<1>1. /\ EventIds(Evidence(logs)) \subseteq EventIds(ToSet(logs))
      /\ EventIds(Network(logs)) \subseteq EventIds(ToSet(logs))
      /\ EventIds(Endpoint(logs)) \subseteq EventIds(ToSet(logs))
  BY DEF EventIds, Evidence, Network, Endpoint
<1>2. ASSUME NEW evidence, NEW log \in evidence PROVE log.event_id \in EventIds(evidence)
  BY DEF EventIds
<1>3. CASE signals # {} /\ result = Result("authentication_failure", Confidence(logs),
                                            Evidence(logs), signals)
  <2>1. ASSUME NEW s \in signals
        PROVE  \E log \in ToSet(logs) :
                 Supports(log, s) /\ log.event_id \in EventIds(Evidence(logs))
    <3>1. s \in Signalled
      BY SignalsAre
    <3>2. PICK log \in ToSet(logs) : Supports(log, s)
      BY <3>1, SignalsAre
    <3>3. IsAuthenticationEvidence(log)
      BY <3>1, <3>2 DEF Signalled, Supports, IsAuthenticationEvidence, DeniedMfa
    <3>4. log.event_id \in EventIds(Evidence(logs))
      BY <1>2, <3>3 DEF Evidence
    <3> QED
      BY <3>2, <3>4
  <2>2. EventIds(Evidence(logs)) # {}
    BY <1>3, <2>1
  <2>3. /\ result.category = "authentication_failure" /\ result.reason_codes = signals
        /\ result.cited_evidence_ids = EventIds(Evidence(logs))
    BY <1>3, ResultFields
  <2> HIDE DEF result, signals
  <2> QED
    BY <1>1, <2>1, <2>2, <2>3 DEF Cites
<1>4. CASE /\ Network(logs) # {}
           /\ result = Result("network_connectivity", 85, Network(logs),
                              {"network_or_dns_failure"})
  <2>1. PICK log \in ToSet(logs) : log \in Network(logs)
    BY <1>4 DEF Network
  <2>2. Supports(log, "network_or_dns_failure") /\ log.event_id \in EventIds(Network(logs))
    BY <1>2, <2>1 DEF Network, Supports
  <2>3. /\ result.category = "network_connectivity"
        /\ result.reason_codes = {"network_or_dns_failure"}
        /\ result.cited_evidence_ids = EventIds(Network(logs))
    BY <1>4, ResultFields
  <2> HIDE DEF result
  <2> QED
    BY <1>1, <2>2, <2>3 DEF Cites
<1>5. CASE /\ Endpoint(logs) # {}
           /\ result = Result("endpoint_health", 82, Endpoint(logs),
                              {"endpoint_health_signal"})
  <2>1. PICK log \in ToSet(logs) : log \in Endpoint(logs)
    BY <1>5 DEF Endpoint
  <2>2. Supports(log, "endpoint_health_signal") /\ log.event_id \in EventIds(Endpoint(logs))
    BY <1>2, <2>1 DEF Endpoint, Supports
  <2>3. /\ result.category = "endpoint_health"
        /\ result.reason_codes = {"endpoint_health_signal"}
        /\ result.cited_evidence_ids = EventIds(Endpoint(logs))
    BY <1>5, ResultFields
  <2> HIDE DEF result
  <2> QED
    BY <1>1, <2>2, <2>3 DEF Cites
<1>6. CASE result = Result("uncategorized", 20, {}, {"insufficient_supported_evidence"})
  <2>1. result.category = "uncategorized" /\ result.cited_evidence_ids = EventIds({})
    BY <1>6, ResultFields
  <2> HIDE DEF result
  <2> QED
    BY <2>1 DEF EventIds, Cites
<1> QED
  BY <1>3, <1>4, <1>5, <1>6, Verdicts

\* For bundles of any length: the reasons of a category are those of cited logs, only an
\* uncategorized bundle cites nothing, and the runbook draft agrees on what is an authentication
\* failure (classification.py:58-114, runbooks.py:23-84).
THEOREM VerdictsHaveSupport == TriageSpec => []VerdictsSupported
<1> DEFINE signals == SignalsForBundle(items)
           result == Classify(items)
           runbook == DraftRunbookResponse(items)
<1>1. ASSUME InputsInv, task = "classify"
      PROVE  /\ result.category # "uncategorized" =>
                  \A reason \in result.reason_codes : \E log \in ToSet(items) :
                    Supports(log, reason) /\ log.event_id \in result.cited_evidence_ids
             /\ result.category = "uncategorized" <=> result.cited_evidence_ids = {}
  <2>1. items \in Seq(Logs)
    BY <1>1 DEF InputsInv
  <2> QED
    BY <2>1, VerdictsCite DEF Cites
<1>2. ASSUME InputsInv, task = "classify"
      PROVE  LET authentication == result.category = "authentication_failure"
             IN  /\ runbook.classification.category = "authentication_failure" <=> authentication
                 /\ authentication => runbook.classification.reason_codes = result.reason_codes
                 /\ result.confidence = 95 => runbook.classification.confidence = "high"
                 /\ authentication /\ runbook.classification.confidence = "high" =>
                      RiskLevel(result.reason_codes) = "high"
  <2>1. items \in Seq(Logs)
    BY <1>2 DEF InputsInv
  <2>2. CASE signals # {}
    <3>1. /\ result.category = "authentication_failure" /\ result.reason_codes = signals
          /\ result.confidence = Confidence(items)
      BY <2>1, <2>2, Verdicts, ResultFields
    <3>2. /\ runbook.classification.category = "authentication_failure"
          /\ runbook.classification.reason_codes = signals
          /\ runbook.classification.confidence = ConfidenceForSignals(signals)
      BY <2>2 DEF DraftRunbookResponse, ClassifyIncident
    <3>3. Confidence(items) = 95 => ConfidenceForSignals(signals) = "high"
      <4>1. ASSUME Cardinality(signals) >= 3 PROVE signals = Signalled
        <5>1. IsFiniteSet(Signalled) /\ Cardinality(Signalled) = 3
          <6>1. IsFiniteSet({"mfa_denied"}) /\ Cardinality({"mfa_denied"}) = 1
            BY FS_Singleton
          <6>2. /\ IsFiniteSet({"mfa_denied"} \cup {"account_lockout"})
                /\ Cardinality({"mfa_denied"} \cup {"account_lockout"}) = 2
            BY <6>1, FS_AddElement
          <6>3. Signalled = ({"mfa_denied"} \cup {"account_lockout"}) \cup {"repeated_failures"}
            BY DEF Signalled
          <6>4. "repeated_failures" \notin {"mfa_denied"} \cup {"account_lockout"}
            OBVIOUS
          <6> HIDE DEF signals, result, runbook
          <6> QED
            BY <6>2, <6>3, <6>4, FS_AddElement
        <5>2. Cardinality(signals) <= 3 /\ IsFiniteSet(signals)
          BY <2>1, <5>1, SignalsAre, FS_Subset
        <5>3. Cardinality(signals) = 3
          BY <4>1, <5>2, FS_CardinalityType
        <5> QED
          BY <2>1, <5>1, <5>3, SignalsAre, FS_Subset
      <4>2. Confidence(items) = 95 => Cardinality(signals) >= 3
        BY DEF Confidence
      <4> QED
        BY <4>1, <4>2 DEF ConfidenceForSignals, Signalled
    <3>4. ConfidenceForSignals(signals) = "high" => RiskLevel(signals) = "high"
      BY DEF ConfidenceForSignals, RiskLevel
    <3> HIDE DEF result, signals, runbook
    <3> QED
      BY <3>1, <3>2, <3>3, <3>4
  <2>3. CASE signals = {}
    <3>1. result.category # "authentication_failure" /\ result.confidence # 95
      BY <2>1, <2>3, Verdicts, ResultFields
    <3>2. runbook.classification.category = "uncategorized"
      BY <2>3 DEF DraftRunbookResponse, ClassifyIncident
    <3> HIDE DEF result, signals, runbook
    <3> QED
      BY <3>1, <3>2
  <2> QED
    BY <2>2, <2>3
<1>3. InputsInv => VerdictsSupported
  BY <1>1, <1>2 DEF VerdictsSupported
<1> QED
  BY <1>3, InputsHold, PTL

-----------------------------------------------------------------------------
(* Offboarding *)

LEMMA Times ==
  ASSUME NEW a \in Timestamps, NEW b \in Timestamps
  PROVE  /\ Instant(InUTC(a)) = Instant(a) /\ Instant(a) \in Int
         /\ InUTC(a) = [instant |-> Instant(a), offset |-> 0]
         /\ InUTC(a) = InUTC(b) <=> Instant(a) = Instant(b)
<1>1. PICK i \in Int, o \in Int, j \in Int, p \in Int :
        a = [instant |-> i, offset |-> o] /\ b = [instant |-> j, offset |-> p]
  BY DEF Timestamps
<1>2. InUTC(a) = [instant |-> i, offset |-> 0] /\ InUTC(b) = [instant |-> j, offset |-> 0]
  BY <1>1 DEF InUTC
<1> QED
  BY <1>1, <1>2 DEF Instant

\* Two linked events with one id are the same event exactly when they make the same log.
LEMMA SameLog ==
  ASSUME NEW e \in AccessEvents, NEW f \in AccessEvents, e.event_id = f.event_id,
         e.synthetic_user_id = f.synthetic_user_id,
         e.synthetic_endpoint_id = f.synthetic_endpoint_id
  PROVE  SameEvent(e, f) <=> AccessLog(e) = AccessLog(f)
<1> DEFINE other(x) == [event_id |-> x.event_id, observed_at |-> 0,
                        synthetic_user_id |-> x.synthetic_user_id,
                        synthetic_endpoint_id |-> x.synthetic_endpoint_id, result |-> x.result]
<1>1. \A x \in AccessEvents : [x EXCEPT !.observed_at = 0] = other(x)
  BY FixturesAssumption
<1>2. SameEvent(e, f) <=> (Instant(e.observed_at) = Instant(f.observed_at) /\ e.result = f.result)
  BY <1>1 DEF SameEvent
<1>3. AccessLog(e) = AccessLog(f) <=>
        (InUTC(e.observed_at) = InUTC(f.observed_at) /\ e.result = f.result)
  BY FixturesAssumption DEF AccessLog
<1>4. InUTC(e.observed_at) = InUTC(f.observed_at) <=>
        Instant(e.observed_at) = Instant(f.observed_at)
  BY FixturesAssumption, Times
<1> QED
  BY <1>2, <1>3, <1>4

LEMMA LastOfEach ==
  ASSUME NEW events \in Seq(AccessEvents)
  PROVE  /\ EventsById(events) \subseteq ToSet(events) /\ ToSet(events) \subseteq AccessEvents
         /\ IsFiniteSet(EventsById(events))
         /\ \A e, f \in EventsById(events) : e.event_id = f.event_id => e = f
         /\ \A n \in DOMAIN events :
              \E e \in EventsById(events) : e.event_id = events[n].event_id
<1> DEFINE Final(n) == \A m \in n + 1..Len(events) : events[m].event_id # events[n].event_id
<1>1. /\ \A n \in DOMAIN events : Final(n) => events[n] \in EventsById(events)
      /\ \A e \in EventsById(events) : \E n \in DOMAIN events : e = events[n] /\ Final(n)
  BY DEF EventsById
<1>2. EventsById(events) \subseteq ToSet(events) /\ ToSet(events) \subseteq AccessEvents
  BY <1>1 DEF ToSet
<1>3. ASSUME NEW e \in EventsById(events), NEW f \in EventsById(events),
             e.event_id = f.event_id
      PROVE  e = f
  <2>1. PICK m \in DOMAIN events : e = events[m] /\ Final(m)
    BY <1>1
  <2>2. PICK n \in DOMAIN events : f = events[n] /\ Final(n)
    BY <1>1
  <2>3. ~ (m < n) /\ ~ (n < m)
    BY <1>3, <2>1, <2>2
  <2> QED
    BY <2>1, <2>2, <2>3
<1>4. ASSUME NEW n \in DOMAIN events
      PROVE  \E e \in EventsById(events) : e.event_id = events[n].event_id
  <2> DEFINE same == {m \in 1..Len(events) : events[m].event_id = events[n].event_id}
  <2>1. same \subseteq Int /\ same # {} /\ IsFiniteSet(same)
    <3>1. IsFiniteSet(1..Len(events)) /\ same \in SUBSET (1..Len(events)) /\ n \in same
      BY FS_Interval
    <3> HIDE DEF same
    <3> QED
      BY <3>1, FS_Subset
  <2>2. PICK m \in same : \A k \in same : m >= k
    BY <2>1, MaxExists
  <2>3. Final(m)
    BY <2>2
  <2> QED
    BY <1>1, <2>2, <2>3
<1> QED
  BY <1>2, <1>3, <1>4, ElementsFinite

LEMMA EarlierIsOrder ==
  ASSUME NEW S, S \subseteq AccessEvents, \A e, f \in S : e.event_id = f.event_id => e = f
  PROVE  /\ \A e \in S : ~ Earlier(e, e)
         /\ \A e, f, g \in S : Earlier(e, f) /\ Earlier(f, g) => Earlier(e, g)
         /\ \A e, f \in S : e # f => Earlier(e, f) \/ Earlier(f, e)
<1> DEFINE at(e) == Instant(e.observed_at)
<1>1. \A e \in S : at(e) \in Int /\ e.event_id \in Nat
  BY FixturesAssumption, Times
<1>2. \A e, f : Earlier(e, f) <=> (at(e) < at(f) \/ (at(e) = at(f) /\ e.event_id < f.event_id))
  BY DEF Earlier
<1> HIDE DEF at
<1> QED
  BY <1>1, <1>2

\* Finitely many events with distinct ids can be listed in strictly ascending order.
LEMMA SortedIs ==
  ASSUME NEW S, S \subseteq AccessEvents, IsFiniteSet(S),
         \A e, f \in S : e.event_id = f.event_id => e = f
  PROVE  /\ SortedByTime(S) \in [1..Cardinality(S) -> S] /\ Cardinality(S) \in Nat
         /\ \A m, n \in 1..Cardinality(S) : m < n => Earlier(SortedByTime(S)[m], SortedByTime(S)[n])
         /\ \A e \in S : \E n \in 1..Cardinality(S) : SortedByTime(S)[n] = e
<1> DEFINE size == Cardinality(S)
           before(e) == {f \in S : Earlier(f, e)}
           count == [e \in S |-> Cardinality(before(e))]
           rank == [e \in S |-> count[e] + 1]
           listing == [n \in 1..size |-> CHOOSE e \in S : rank[e] = n]
           Ascending(f) == \A m, n \in DOMAIN f : m < n => Earlier(f[m], f[n])
<1>1. /\ \A e \in S : ~ Earlier(e, e)
      /\ \A e, f, g \in S : Earlier(e, f) /\ Earlier(f, g) => Earlier(e, g)
      /\ \A e, f \in S : e # f => Earlier(e, f) \/ Earlier(f, e)
  BY EarlierIsOrder
<1>2. size \in Nat
  BY FS_CardinalityType
<1>3. ASSUME NEW e \in S
      PROVE  IsFiniteSet(before(e)) /\ count[e] \in Nat /\ count[e] <= size - 1
  <2>1. before(e) \in SUBSET (S \ {e})
    BY <1>1
  <2>2. IsFiniteSet(S \ {e}) /\ Cardinality(S \ {e}) = size - 1
    BY FS_RemoveElement
  <2>3. IsFiniteSet(before(e)) /\ Cardinality(before(e)) <= size - 1
    BY <2>1, <2>2, FS_Subset
  <2> QED
    BY <1>2, <2>3, FS_CardinalityType
<1>4. rank \in [S -> 1..size]
  <2>1. size \in Nat /\ \A e \in S : count[e] \in Nat /\ count[e] <= size - 1
    BY <1>2, <1>3
  <2> HIDE DEF count, size
  <2> QED
    BY <2>1
<1>5. ASSUME NEW e \in S, NEW f \in S, Earlier(e, f) PROVE rank[e] < rank[f]
  <2>1. before(e) \in SUBSET before(f) /\ e \in before(f) /\ e \notin before(e)
    BY <1>1, <1>5
  <2>2. count[e] <= count[f] /\ count[e] # count[f]
    BY <1>3, <2>1, FS_Subset
  <2>3. count[e] \in Nat /\ count[f] \in Nat
    BY <1>3
  <2> HIDE DEF count
  <2> QED
    BY <2>2, <2>3
<1>6. \A e, f \in S : rank[e] = rank[f] => e = f
  <2>1. SUFFICES ASSUME NEW e \in S, NEW f \in S, rank[e] = rank[f], e # f PROVE FALSE
    OBVIOUS
  <2>2. rank[e] < rank[f] \/ rank[f] < rank[e]
    BY <1>1, <1>5, <2>1
  <2>3. rank[e] \in Int /\ rank[f] \in Int
    BY <1>4
  <2> QED
    BY <2>1, <2>2, <2>3
<1>7. rank \in Surjection(S, 1..size)
  <2>1. rank \in Injection(S, 1..size)
    BY <1>4, <1>6, Fun_IsInj
  <2>2. IsFiniteSet(1..size) /\ Cardinality(1..size) = size
    BY <1>2, FS_Interval
  <2> QED
    BY <2>1, <2>2, FS_Injection
<1>8. \A n \in 1..size : listing[n] \in S /\ rank[listing[n]] = n
  <2>1. \A n \in 1..size : \E e \in S : rank[e] = n
    BY <1>7 DEF Surjection
  <2> HIDE DEF rank
  <2> QED
    BY <2>1
<1>9. listing \in [1..size -> S] /\ Ascending(listing)
  <2>1. listing \in [1..size -> S]
    BY <1>8
  <2>2. ASSUME NEW m \in 1..size, NEW n \in 1..size, m < n
        PROVE  Earlier(listing[m], listing[n])
    <3>1. /\ listing[m] \in S /\ rank[listing[m]] = m
          /\ listing[n] \in S /\ rank[listing[n]] = n
      BY <1>8
    <3> HIDE DEF listing, rank
    <3>2. listing[m] # listing[n] /\ ~ Earlier(listing[n], listing[m])
      BY <1>5, <2>2, <3>1
    <3> QED
      BY <1>1, <3>1, <3>2
  <2> QED
    BY <2>1, <2>2
<1>10. SortedByTime(S) \in [1..size -> S] /\ Ascending(SortedByTime(S))
  <2> DEFINE sorted == CHOOSE f \in [1..size -> S] : Ascending(f)
  <2>1. SortedByTime(S) = sorted
    BY DEF SortedByTime
  <2> HIDE DEF Ascending, listing
  <2>2. sorted \in [1..size -> S] /\ Ascending(sorted)
    BY <1>9
  <2> QED
    BY <2>1, <2>2
<1>11. SortedByTime(S) \in Surjection(1..size, S)
  <2> DEFINE sorted == SortedByTime(S)
  <2>1. \A m, n \in 1..size : sorted[m] = sorted[n] => m = n
    <3>1. SUFFICES ASSUME NEW m \in 1..size, NEW n \in 1..size, sorted[m] = sorted[n], m < n
                   PROVE  FALSE
      BY <1>2
    <3>2. Earlier(sorted[m], sorted[n]) /\ sorted[m] \in S
      BY <1>10, <3>1
    <3> QED
      BY <1>1, <3>1, <3>2
  <2>2. sorted \in Injection(1..size, S)
    BY <1>10, <2>1, Fun_IsInj
  <2>3. IsFiniteSet(1..size) /\ Cardinality(1..size) = size
    BY <1>2, FS_Interval
  <2> QED
    BY <2>2, <2>3, FS_Injection
<1> QED
  BY <1>2, <1>10, <1>11, Fun_SurjectionProperties

AccessLogs(events) == {AccessLog(event) : event \in ToSet(events)}

Legal(identity, endpoint, events) ==
  /\ endpoint.assigned_synthetic_user_id = identity.synthetic_user_id
  /\ \A event \in ToSet(events) : Linked(event, identity, endpoint)
  /\ \A a, b \in AccessLogs(events) : a.event_id = b.event_id => a = b

LEMMA LogFields ==
  ASSUME NEW e \in AccessEvents
  PROVE  /\ AccessLog(e).event_id = e.event_id /\ e.event_id \in Nat
         /\ Instant(AccessLog(e).observed_at) = Instant(e.observed_at)
         /\ Instant(e.observed_at) \in Int
BY FixturesAssumption, Times DEF AccessLog

\* What the code tests event by event is that the fixture is legal.
LEMMA RejectedUnlessLegal ==
  ASSUME NEW identity, NEW endpoint, NEW events \in Seq(AccessEvents)
  PROVE  Legal(identity, endpoint, events) <=>
           /\ endpoint.assigned_synthetic_user_id = identity.synthetic_user_id
           /\ \A n \in DOMAIN events :
                Linked(events[n], identity, endpoint) /\ ~ Conflicts(events, n)
<1>1. /\ \A n \in DOMAIN events : events[n] \in ToSet(events) /\ events[n] \in AccessEvents
      /\ \A e \in ToSet(events) : \E n \in DOMAIN events : e = events[n]
      /\ \A n \in DOMAIN events : AccessLog(events[n]) \in AccessLogs(events)
      /\ \A a \in AccessLogs(events) : \E n \in DOMAIN events : a = AccessLog(events[n])
  BY DEF ToSet, AccessLogs
<1>2. ASSUME NEW m \in DOMAIN events, NEW n \in DOMAIN events,
             Linked(events[m], identity, endpoint), Linked(events[n], identity, endpoint),
             events[m].event_id = events[n].event_id
      PROVE  SameEvent(events[n], events[m]) <=> AccessLog(events[m]) = AccessLog(events[n])
  <2>1. /\ events[m].synthetic_user_id = events[n].synthetic_user_id
        /\ events[m].synthetic_endpoint_id = events[n].synthetic_endpoint_id
    BY <1>2 DEF Linked
  <2> QED
    BY <1>1, <1>2, <2>1, SameLog
<1>3. ASSUME Legal(identity, endpoint, events), NEW n \in DOMAIN events
      PROVE  Linked(events[n], identity, endpoint) /\ ~ Conflicts(events, n)
  <2>1. \A m \in DOMAIN events : Linked(events[m], identity, endpoint)
    BY <1>1, <1>3 DEF Legal
  <2>2. ASSUME NEW m \in 1..n - 1, events[m].event_id = events[n].event_id
        PROVE  SameEvent(events[n], events[m])
    <3>1. m \in DOMAIN events
      OBVIOUS
    <3>2. AccessLog(events[m]).event_id = AccessLog(events[n]).event_id
      BY <1>1, <2>2, <3>1, LogFields
    <3>3. AccessLog(events[m]) = AccessLog(events[n])
      BY <1>1, <1>3, <3>1, <3>2 DEF Legal
    <3> QED
      BY <1>2, <2>1, <2>2, <3>1, <3>3
  <2> QED
    BY <2>1, <2>2 DEF Conflicts
<1>4. ASSUME endpoint.assigned_synthetic_user_id = identity.synthetic_user_id,
             \A n \in DOMAIN events :
               Linked(events[n], identity, endpoint) /\ ~ Conflicts(events, n)
      PROVE  Legal(identity, endpoint, events)
  <2>1. ASSUME NEW m \in DOMAIN events, NEW n \in DOMAIN events, m < n,
               events[m].event_id = events[n].event_id
        PROVE  AccessLog(events[m]) = AccessLog(events[n])
    <3>1. m \in 1..n - 1
      BY <2>1
    <3>2. SameEvent(events[n], events[m])
      BY <1>4, <2>1, <3>1 DEF Conflicts
    <3> QED
      BY <1>2, <1>4, <2>1, <3>2
  <2>2. ASSUME NEW a \in AccessLogs(events), NEW b \in AccessLogs(events),
               a.event_id = b.event_id
        PROVE  a = b
    <3>1. PICK m \in DOMAIN events : a = AccessLog(events[m])
      BY <1>1
    <3>2. PICK n \in DOMAIN events : b = AccessLog(events[n])
      BY <1>1
    <3>3. events[m].event_id = events[n].event_id
      BY <1>1, <2>2, <3>1, <3>2, LogFields
    <3>4. m < n \/ m = n \/ n < m
      OBVIOUS
    <3> QED
      BY <2>1, <3>1, <3>2, <3>3, <3>4
  <2> QED
    BY <1>1, <1>4, <2>2 DEF Legal
<1> QED
  BY <1>3, <1>4 DEF Legal

\* The bundle of an accepted fixture.
LEMMA AdaptedIs ==
  ASSUME NEW fixture, NEW events \in Seq(AccessEvents)
  PROVE  LET sorted == SortedByTime(EventsById(events))
             bundle == AdaptOffboardingFixture(fixture, events)
         IN  IF Legal(fixture.identity, fixture.endpoint, events)
             THEN /\ bundle.created_at = InUTC(fixture.ticket.created_at)
                  /\ bundle.logs = <<DisabledLog(fixture.identity, fixture.endpoint)>>
                                     \o [n \in DOMAIN sorted |-> AccessLog(sorted[n])]
             ELSE bundle = Rejected
<1> DEFINE identity == fixture.identity
           endpoint == fixture.endpoint
           sorted == SortedByTime(EventsById(events))
           logs == <<DisabledLog(identity, endpoint)>>
                     \o [n \in DOMAIN sorted |-> AccessLog(sorted[n])]
           created == InUTC(fixture.ticket.created_at)
           bundle == AdaptOffboardingFixture(fixture, events)
<1>1. bundle = IF \/ endpoint.assigned_synthetic_user_id # identity.synthetic_user_id
                  \/ \E n \in DOMAIN events :
                       ~ Linked(events[n], identity, endpoint) \/ Conflicts(events, n)
               THEN Rejected ELSE [created_at |-> created, logs |-> logs]
  BY DEF AdaptOffboardingFixture
<1>2. Legal(identity, endpoint, events) <=>
        ~ (\/ endpoint.assigned_synthetic_user_id # identity.synthetic_user_id
           \/ \E n \in DOMAIN events :
                ~ Linked(events[n], identity, endpoint) \/ Conflicts(events, n))
  BY RejectedUnlessLegal
<1> HIDE DEF identity, endpoint, logs, created, bundle
<1>3. IF Legal(identity, endpoint, events) THEN bundle.created_at = created /\ bundle.logs = logs
      ELSE bundle = Rejected
  BY <1>1, <1>2
<1> QED
  BY <1>3 DEF identity, endpoint, logs, created, bundle

LEMMA AcceptedFacts ==
  ASSUME NEW fixture \in Fixtures, NEW events \in Seq(AccessEvents),
         Legal(fixture.identity, fixture.endpoint, events)
  PROVE  LET logs == AdaptOffboardingFixture(fixture, events).logs
             disabled == DisabledLog(fixture.identity, fixture.endpoint)
         IN  /\ ToSet(logs) = AccessLogs(events) \cup {disabled}
             /\ Len(logs) = Cardinality({log.event_id : log \in ToSet(logs)})
             /\ \A m, n \in DOMAIN logs : m < n =>
                  LET a == Instant(logs[m].observed_at)
                      b == Instant(logs[n].observed_at)
                  IN  \/ a < b
                      \/ a = b /\ m > 1 /\ logs[m].event_id < logs[n].event_id
<1> DEFINE identity == fixture.identity
           endpoint == fixture.endpoint
           logs == AdaptOffboardingFixture(fixture, events).logs
           disabled == DisabledLog(identity, endpoint)
           final == EventsById(events)
           sorted == SortedByTime(final)
           size == Cardinality(final)
<1>1. /\ final \subseteq ToSet(events) /\ ToSet(events) \subseteq AccessEvents
      /\ IsFiniteSet(final)
      /\ \A e, f \in final : e.event_id = f.event_id => e = f
      /\ \A n \in DOMAIN events : \E e \in final : e.event_id = events[n].event_id
  BY LastOfEach
<1>2. /\ sorted \in [1..size -> final] /\ size \in Nat
      /\ \A m, n \in 1..size : m < n => Earlier(sorted[m], sorted[n])
      /\ \A e \in final : \E n \in 1..size : sorted[n] = e
  BY <1>1, SortedIs
<1>3. logs = <<disabled>> \o [n \in 1..size |-> AccessLog(sorted[n])]
  <2>1. logs = <<disabled>> \o [n \in DOMAIN sorted |-> AccessLog(sorted[n])]
    BY AdaptedIs
  <2>2. DOMAIN sorted = 1..size
    BY <1>2
  <2> QED
    BY <2>1, <2>2
<1>4. /\ DOMAIN logs = 1..size + 1 /\ Len(logs) = size + 1
      /\ logs[1] = disabled
      /\ \A n \in 2..size + 1 : logs[n] = AccessLog(sorted[n - 1])
  <2> DEFINE rest == [n \in 1..size |-> AccessLog(sorted[n])]
  <2>1. rest \in Seq(AccessLogs(events)) /\ Len(rest) = size
    BY <1>1, <1>2 DEF AccessLogs
  <2>2. \A n \in 1..size : rest[n] = AccessLog(sorted[n])
    OBVIOUS
  <2>3. logs = <<disabled>> \o rest
    BY <1>3
  <2>4. <<disabled>> \in Seq({disabled}) /\ Len(<<disabled>>) = 1 /\ <<disabled>>[1] = disabled
    OBVIOUS
  <2> HIDE DEF rest, logs, disabled, sorted, size
  <2> QED
    BY <1>2, <2>1, <2>2, <2>3, <2>4
<1>5. /\ disabled.event_id = identity.event_id /\ disabled.event_id \in Nat
      /\ Instant(disabled.observed_at) = Instant(identity.disabled_at)
      /\ Instant(identity.disabled_at) \in Int
  BY FixturesAssumption, Times DEF DisabledLog
<1>6. \A e \in ToSet(events) :
        Instant(e.observed_at) > Instant(identity.disabled_at) /\ e.event_id # identity.event_id
  BY DEF Legal, Linked
<1>7. \A n \in 2..size + 1 :
        /\ sorted[n - 1] \in final /\ logs[n] = AccessLog(sorted[n - 1])
        /\ logs[n].event_id = sorted[n - 1].event_id /\ sorted[n - 1].event_id \in Nat
        /\ Instant(logs[n].observed_at) = Instant(sorted[n - 1].observed_at)
        /\ Instant(sorted[n - 1].observed_at) \in Int
  <2>1. ASSUME NEW n \in 2..size + 1 PROVE n - 1 \in 1..size
    BY <1>2
  <2>2. \A n \in 2..size + 1 : sorted[n - 1] \in final
    BY <1>2, <2>1
  <2> HIDE DEF sorted, logs, final
  <2> QED
    BY <1>1, <1>4, <2>2, LogFields
<1> HIDE DEF logs, disabled, sorted, size, final
<1>8. ToSet(logs) = AccessLogs(events) \cup {disabled}
  <2>1. ToSet(logs) \subseteq AccessLogs(events) \cup {disabled}
    <3>1. ASSUME NEW n \in 1..size + 1 PROVE logs[n] \in AccessLogs(events) \cup {disabled}
      BY <1>1, <1>2, <1>4, <1>7 DEF AccessLogs
    <3> QED
      BY <1>4, <3>1 DEF ToSet
  <2>2. disabled \in ToSet(logs)
    BY <1>2, <1>4 DEF ToSet
  <2>3. ASSUME NEW e \in ToSet(events) PROVE AccessLog(e) \in ToSet(logs)
    <3>1. PICK f \in final : f.event_id = e.event_id
      BY <1>1 DEF ToSet
    <3>2. AccessLog(f) = AccessLog(e)
      <4>1. AccessLog(f).event_id = AccessLog(e).event_id
        BY <1>1, <3>1, LogFields
      <4> QED
        BY <1>1, <4>1 DEF Legal, AccessLogs
    <3>3. PICK n \in 1..size : sorted[n] = f
      BY <1>2
    <3>4. n + 1 \in 2..size + 1 /\ n + 1 \in DOMAIN logs /\ (n + 1) - 1 = n
      BY <1>2, <1>4
    <3>5. logs[n + 1] = AccessLog(f)
      BY <1>7, <3>3, <3>4
    <3> QED
      BY <3>2, <3>4, <3>5 DEF ToSet
  <2> QED
    BY <2>1, <2>2, <2>3 DEF AccessLogs
<1>9. ASSUME NEW m \in 1..size + 1, NEW n \in 1..size + 1, m < n
      PROVE  LET a == Instant(logs[m].observed_at)
                 b == Instant(logs[n].observed_at)
             IN  /\ a < b \/ (a = b /\ m > 1 /\ logs[m].event_id < logs[n].event_id)
                 /\ logs[m].event_id # logs[n].event_id
  <2>1. n \in 2..size + 1 /\ n - 1 \in 1..size
    BY <1>2, <1>9
  <2>2. CASE m = 1
    <3>1. sorted[n - 1] \in ToSet(events)
      BY <1>1, <1>7, <2>1
    <3>2. /\ Instant(sorted[n - 1].observed_at) > Instant(identity.disabled_at)
          /\ sorted[n - 1].event_id # identity.event_id
      BY <1>6, <3>1
    <3> HIDE DEF identity
    <3> QED
      BY <1>4, <1>5, <1>7, <2>1, <2>2, <3>2
  <2>3. CASE m # 1
    <3>1. m \in 2..size + 1 /\ m - 1 \in 1..size /\ m - 1 < n - 1 /\ m > 1
      BY <1>2, <1>9, <2>3
    <3>2. Earlier(sorted[m - 1], sorted[n - 1])
      BY <1>2, <2>1, <3>1
    <3>3. sorted[m - 1].event_id # sorted[n - 1].event_id
      <4>1. sorted[m - 1] \in final /\ sorted[n - 1] \in final /\ final \subseteq AccessEvents
        BY <1>1, <1>7, <2>1, <3>1
      <4>2. ~ Earlier(sorted[m - 1], sorted[m - 1])
        BY <1>1, <4>1, EarlierIsOrder
      <4> QED
        BY <1>1, <3>2, <4>1, <4>2
    <3> QED
      BY <1>7, <2>1, <3>1, <3>2, <3>3 DEF Earlier
  <2> QED
    BY <2>2, <2>3
<1>10. Len(logs) = Cardinality({log.event_id : log \in ToSet(logs)})
  <2> DEFINE ids == {log.event_id : log \in ToSet(logs)}
             f == [n \in 1..size + 1 |-> logs[n].event_id]
  <2>1. \A m, n \in 1..size + 1 : f[m] = f[n] => m = n
    <3>1. ASSUME NEW m \in 1..size + 1, NEW n \in 1..size + 1, f[m] = f[n] PROVE m = n
      <4>1. m < n \/ n < m \/ m = n
        BY <1>2
      <4> QED
        BY <1>9, <3>1, <4>1
    <3> QED
      BY <3>1
  <2>2. f \in [1..size + 1 -> ids] /\ \A id \in ids : \E n \in 1..size + 1 : f[n] = id
    BY <1>4 DEF ToSet
  <2>3. f \in Bijection(1..size + 1, ids)
    BY <2>1, <2>2 DEF Bijection, Injection, Surjection, IsInjective
  <2>4. ExistsBijection(1..size + 1, ids)
    BY <2>3 DEF ExistsBijection
  <2>5. Cardinality(ids) = size + 1
    BY <1>2, <2>4, FS_CountingElements
  <2> QED
    BY <1>4, <2>5
<1>11. \A m, n \in DOMAIN logs : m < n =>
         LET a == Instant(logs[m].observed_at)
             b == Instant(logs[n].observed_at)
         IN  \/ a < b
             \/ a = b /\ m > 1 /\ logs[m].event_id < logs[n].event_id
  BY <1>4, <1>9
<1> QED
  BY <1>8, <1>10, <1>11 DEF logs, disabled

\* For fixtures of any length: what is accepted is legal, and becomes a bundle that depends on
\* the set of events only, in strictly ascending order, and on the instant its ticket was created
\* (offboarding.py:56-123).
THEOREM FixturesReplay == TriageSpec => []OffboardingReplays
<1>1. ASSUME InputsInv, task = "adapt" PROVE OffboardingReplays
  <2> DEFINE legal == Legal(given.identity, given.endpoint, items)
             bundle == AdaptOffboardingFixture(given, items)
             logs == bundle.logs
  <2>1. given \in Fixtures /\ items \in Seq(AccessEvents)
    BY <1>1 DEF InputsInv
  <2>2. CASE ~ legal
    <3>1. bundle = Rejected
      BY <2>1, <2>2, AdaptedIs
    <3> QED
      BY <2>2, <3>1 DEF OffboardingReplays, Legal, AccessLogs
  <2>3. CASE legal
    <3>1. /\ ToSet(logs) = AccessLogs(items) \cup {DisabledLog(given.identity, given.endpoint)}
          /\ Len(logs) = Cardinality({log.event_id : log \in ToSet(logs)})
          /\ \A m, n \in DOMAIN logs : m < n =>
               LET a == Instant(logs[m].observed_at)
                   b == Instant(logs[n].observed_at)
               IN  \/ a < b
                   \/ a = b /\ m > 1 /\ logs[m].event_id < logs[n].event_id
      BY <2>1, <2>3, AcceptedFacts
    <3>2. bundle.created_at = [instant |-> Instant(given.ticket.created_at), offset |-> 0]
      <4>1. bundle.created_at = InUTC(given.ticket.created_at)
        BY <2>1, <2>3, AdaptedIs
      <4> QED
        BY <2>1, <4>1, FixturesAssumption, Times
    <3> QED
      BY <2>3, <3>1, <3>2 DEF OffboardingReplays, Legal, AccessLogs
  <2> QED
    BY <2>2, <2>3
<1>2. InputsInv => OffboardingReplays
  BY <1>1 DEF OffboardingReplays
<1> QED
  BY <1>2, InputsHold, PTL

-----------------------------------------------------------------------------
(* Evaluation *)

LEMMA Products ==
  ASSUME NEW a \in Nat, NEW b \in Nat
  PROVE  /\ a * b \in Nat
         /\ a * b = 0 <=> (a = 0 \/ b = 0)
OBVIOUS

LEMMA F1Arithmetic ==
  ASSUME NEW tp \in Nat \ {0}, NEW fp \in Nat, NEW fn \in Nat
  PROVE  LET hits == 2 * tp * tp * ((tp + fp) * (tp + fn))
             all == (tp + fp) * (tp + fn) * (tp * (tp + fn) + tp * (tp + fp))
         IN  /\ hits \in Nat /\ all \in Nat \ {0}
             /\ hits * ((tp + fn) + (tp + fp)) = (2 * tp) * all
<1> DEFINE hits == 2 * tp * tp * ((tp + fp) * (tp + fn))
           all == (tp + fp) * (tp + fn) * (tp * (tp + fn) + tp * (tp + fp))
           known == (tp + fp) * (tp + fn)
           factor == tp * known
<1>1. known \in Nat \ {0}
  BY Products
<1>2. factor \in Nat \ {0}
  BY <1>1, Products
<1>3. hits = factor * (2 * tp) /\ all = factor * ((2 * tp) + (fp + fn))
  OBVIOUS
<1>4. /\ factor * (2 * tp) \in Nat
      /\ factor * ((2 * tp) + (fp + fn)) \in Nat \ {0}
  BY <1>2, Products
<1>5. hits * ((tp + fn) + (tp + fp)) = (2 * tp) * all
  OBVIOUS
<1> QED
  BY <1>3, <1>4, <1>5

LEMMA Cancelled ==
  ASSUME NEW q \in Nat \ {0}, NEW z \in Int, NEW d \in Nat, q * z \in -(q * d)..(q * d)
  PROVE  z \in -d..d
<1>1. ASSUME z > d PROVE FALSE
  <2>1. z - d \in Nat \ {0}
    BY <1>1
  <2>2. q * (z - d) \in Nat \ {0}
    BY <2>1, Products
  <2>3. q * z = q * d + q * (z - d)
    OBVIOUS
  <2> QED
    BY <2>2, <2>3
<1>2. ASSUME z < -d PROVE FALSE
  <2>1. -d - z \in Nat \ {0}
    BY <1>2
  <2>2. q * (-d - z) \in Nat \ {0}
    BY <2>1, Products
  <2>3. q * z = -(q * d) - q * (-d - z)
    OBVIOUS
  <2> QED
    BY <2>2, <2>3
<1> QED
  BY <1>1, <1>2

SameRate(a, b) == a[1] * b[2] = b[1] * a[2]

\* What is nearest to a fraction is nearest to an equal one.
LEMMA NearestToEqual ==
  ASSUME NEW value \in Nat, NEW unit \in Nat, NEW p \in Nat, NEW q \in Nat \ {0},
         NEW n \in Nat, NEW d \in Nat \ {0},
         SameRate(<<p, q>>, <<n, d>>), Nearest(value, <<p, q>>, unit)
  PROVE  Nearest(value, <<n, d>>, unit)
<1> DEFINE near == 2 * (value * q - unit * p)
           z == 2 * (value * d - unit * n)
<1>1. p * d = n * q /\ near \in -q..q
  BY DEF SameRate, Nearest
<1>2. q * z = d * near
  <2>1. q * z = 2 * (value * q * d - unit * (n * q))
    OBVIOUS
  <2>2. d * near = 2 * (value * q * d - unit * (p * d))
    OBVIOUS
  <2> QED
    BY <1>1, <2>1, <2>2
<1>3. z \in Int /\ near \in Int
  OBVIOUS
<1> HIDE DEF near, z
<1>4. d * near \in -(d * q)..(d * q)
  <2>1. q - near \in Nat /\ q + near \in Nat
    BY <1>1, <1>3
  <2>2. d * (q - near) \in Nat /\ d * (q + near) \in Nat
    BY <2>1, Products
  <2>3. d * (q - near) = d * q - d * near /\ d * (q + near) = d * q + d * near
    BY <1>3
  <2>4. d * q \in Int /\ d * near \in Int
    BY <1>3
  <2> DEFINE u == d * q
             v == d * near
  <2> HIDE DEF u, v
  <2>5. u - v \in Nat /\ u + v \in Nat /\ u \in Int /\ v \in Int
    BY <2>2, <2>3, <2>4 DEF u, v
  <2> QED
    BY <2>5 DEF u, v
<1>5. d * q = q * d
  OBVIOUS
<1>6. z \in -d..d
  BY <1>2, <1>3, <1>4, <1>5, Cancelled
<1> QED
  BY <1>6 DEF Nearest, z

\* The nearest number of units to a rate of at most 1 is at most that of 1, and is that of 1 for 1;
\* what the rate lacks is half a unit more than what the number lacks, at most.
LEMMA NearestToRate ==
  ASSUME NEW value \in Nat, NEW unit \in Nat, NEW n \in Nat, NEW d \in Nat \ {0}, n <= d,
         Nearest(value, <<n, d>>, unit)
  PROVE  /\ value <= unit
         /\ n = d => value = unit
         /\ 2 * unit * (d - n) <= 2 * ((unit - value) * d) + d
<1> DEFINE lack == unit - value
           a == value * d
           b == unit * n
           c == unit * (d - n)
           e == lack * d
<1>1. lack \in Int /\ d - n \in Nat
  OBVIOUS
<1>2. a \in Nat /\ b \in Nat /\ c \in Nat /\ e \in Int
  BY <1>1, Products
<1>3. 2 * (a - b) \in -d..d
  BY DEF Nearest
<1>4. e = unit * d - a /\ c = unit * d - b /\ unit * d \in Nat
  BY Products
<1> DEFINE most == unit * d
<1> HIDE DEF a, b, c, e, most
<1>5. /\ a \in Nat /\ b \in Nat /\ c \in Nat /\ e \in Int /\ most \in Nat
      /\ 2 * (a - b) <= d /\ -d <= 2 * (a - b)
      /\ e = most - a /\ c = most - b
  BY <1>2, <1>3, <1>4 DEF most
<1>6. 2 * c <= 2 * e + d
  BY <1>5
<1>7. value <= unit
  <2>1. ASSUME ~ (value <= unit) PROVE FALSE
    <3>1. value - unit \in Nat \ {0} /\ (value - unit) - 1 \in Nat
      BY <2>1
    <3>2. ((value - unit) - 1) * d \in Nat
      BY <3>1, Products
    <3>3. ((value - unit) - 1) * d = -e - d
      BY DEF e
    <3> QED
      BY <1>5, <3>2, <3>3
  <2> QED
    BY <2>1
<1>8. ASSUME n = d PROVE value = unit
  <2>1. c = 0
    BY <1>8 DEF c
  <2>2. 2 * e <= d
    BY <1>5, <2>1
  <2>3. ASSUME lack # 0 PROVE FALSE
    <3>1. lack - 1 \in Nat
      BY <1>7, <2>3
    <3>2. (lack - 1) * d \in Nat
      BY <3>1, Products
    <3>3. (lack - 1) * d = e - d
      BY DEF e
    <3> HIDE DEF lack
    <3> QED
      BY <1>5, <2>2, <3>2, <3>3
  <2> QED
    BY <2>3
<1>9. 2 * unit * (d - n) = 2 * c
  BY DEF c
<1> QED
  BY <1>6, <1>7, <1>8, <1>9 DEF e

\* There is a nearest number of units, and it is the one reported.
LEMMA RoundedIs ==
  ASSUME NEW n \in Nat, NEW d \in Nat \ {0}, NEW unit \in Nat \ {0}
  PROVE  /\ Rounded(<<n, d>>, unit) \in Nat
         /\ Nearest(Rounded(<<n, d>>, unit), <<n, d>>, unit)
<1> DEFINE whole == unit * n
           below == whole \div d
           rest == whole % d
<1>1. whole \in Nat
  BY Products
<1> HIDE DEF whole
<1>2. below \in Nat /\ rest \in 0..d - 1 /\ whole = d * below + rest
  BY <1>1
<1>3. Rounded(<<n, d>>, unit) =
        CHOOSE value \in {below, below + 1} : Nearest(value, <<n, d>>, unit)
  BY DEF Rounded, whole
<1>4. \A value \in Nat : Nearest(value, <<n, d>>, unit) <=> 2 * (value * d - whole) \in -d..d
  BY DEF Nearest, whole
<1> HIDE DEF below, rest
<1>5. below * d - whole = -rest /\ (below + 1) * d - whole = d - rest
  <2>1. below * d = d * below /\ (below + 1) * d = d * below + d
    BY <1>2
  <2>2. d * below \in Int
    BY <1>2
  <2> DEFINE u == d * below
  <2> HIDE DEF u
  <2>3. u \in Int /\ whole = u + rest /\ below * d = u /\ (below + 1) * d = u + d
    BY <1>2, <2>1, <2>2 DEF u
  <2> QED
    BY <1>2, <2>3
<1>6. CASE 2 * rest <= d
  <2>1. 2 * (-rest) \in -d..d
    BY <1>2, <1>6
  <2>2. \E value \in {below, below + 1} : Nearest(value, <<n, d>>, unit)
    BY <1>2, <1>4, <1>5, <2>1
  <2> QED
    BY <1>2, <1>3, <2>2
<1>7. CASE ~ (2 * rest <= d)
  <2>1. 2 * (d - rest) \in -d..d
    BY <1>2, <1>7
  <2>2. \E value \in {below, below + 1} : Nearest(value, <<n, d>>, unit)
    BY <1>2, <1>4, <1>5, <2>1
  <2> QED
    BY <1>2, <1>3, <2>2
<1> QED
  BY <1>6, <1>7

LEMMA RoundedToEqual ==
  ASSUME NEW unit \in Nat \ {0}, NEW p \in Nat, NEW q \in Nat \ {0},
         NEW n \in Nat, NEW d \in Nat \ {0}, SameRate(<<p, q>>, <<n, d>>)
  PROVE  /\ Rounded(<<p, q>>, unit) \in Nat
         /\ Nearest(Rounded(<<p, q>>, unit), <<n, d>>, unit)
<1> DEFINE value == Rounded(<<p, q>>, unit)
<1>1. value \in Nat /\ Nearest(value, <<p, q>>, unit)
  BY RoundedIs
<1> HIDE DEF value
<1>2. Nearest(value, <<n, d>>, unit)
  BY <1>1, NearestToEqual
<1> QED
  BY <1>1, <1>2 DEF value

\* The sum of the f1 of a set of categories.
SumF1(S, rate) == FoldSet(LAMBDA x, sum : rate[x].f1 + sum, 0, S)

Sums(total, S, rate) ==
  /\ SumF1(S, rate) = total[S]
  /\ total[{}] = 0
  /\ \A s \in SUBSET S : s # {} =>
       \E x \in s : total[s] = rate[x].f1 + total[s \ {x}]

\* It is reached one category at a time.
LEMMA SumSteps ==
  ASSUME NEW S, NEW rate, IsFiniteSet(S)
  PROVE  \E total : Sums(total, S, rate)
<1> DEFINE some(s) == CHOOSE x \in s : TRUE
           Body(g, D) == [s \in D |-> IF s = {} THEN 0
                                      ELSE rate[some(s)].f1 + g[s \ {some(s)}]]
           upto(n) == {s \in SUBSET S : Cardinality(s) <= n}
           bad == {n \in Nat : ~ \E g : g = Body(g, upto(n))}
           total == CHOOSE g : g = Body(g, SUBSET S)
<1>1. \A s \in SUBSET S : IsFiniteSet(s) /\ Cardinality(s) \in Nat
  BY FS_Subset, FS_CardinalityType
<1>2. ASSUME bad # {} PROVE FALSE
  <2>1. PICK m \in bad : \A n \in bad : m <= n
    BY <1>2, LeastExists
  <2>2. m \in Nat /\ ~ \E g : g = Body(g, upto(m))
    OBVIOUS
  <2>3. CASE m = 0
    <3> DEFINE g == [s \in upto(0) |-> 0]
    <3>1. \A s \in upto(0) : s = {}
      BY <1>1, FS_EmptySet
    <3>2. g = Body(g, upto(0))
      BY <3>1
    <3> QED
      BY <2>2, <2>3, <3>2
  <2>4. CASE m # 0
    <3>1. m - 1 \in Nat /\ m - 1 \notin bad
      <4> HIDE DEF bad
      <4> QED
        BY <2>1, <2>2, <2>4
    <3>2. PICK g : g = Body(g, upto(m - 1))
      BY <3>1
    <3> DEFINE h == Body(g, upto(m))
    <3>3. ASSUME NEW s \in upto(m), s # {}
          PROVE  s \ {some(s)} \in upto(m - 1) /\ s \ {some(s)} \in upto(m)
      <4>1. some(s) \in s
        BY <3>3
      <4>2. Cardinality(s \ {some(s)}) = Cardinality(s) - 1 /\ Cardinality(s) \in Nat
        BY <1>1, <4>1, FS_RemoveElement
      <4>3. Cardinality(s \ {some(s)}) <= m - 1 /\ Cardinality(s \ {some(s)}) <= m
        <5> DEFINE k == Cardinality(s)
        <5>1. k <= m /\ k \in Nat /\ m \in Nat
          BY <2>2, <4>2
        <5> HIDE DEF k
        <5>2. k - 1 <= m - 1 /\ k - 1 <= m
          BY <5>1
        <5> QED
          BY <4>2, <5>2 DEF k
      <4> QED
        BY <4>3
    <3>4. \A t \in upto(m - 1) : t \in upto(m) => h[t] = g[t]
      <4>1. \A t \in upto(m - 1) : g[t] = Body(g, upto(m - 1))[t]
        BY <3>2
      <4> HIDE DEF upto
      <4> QED
        BY <4>1
    <3>5. h = Body(h, upto(m))
      <4> DEFINE d == upto(m)
      <4>1. \A s \in d : s # {} => h[s \ {some(s)}] = g[s \ {some(s)}]
        BY <3>3, <3>4
      <4>2. h = Body(g, d)
        OBVIOUS
      <4> HIDE DEF h, d
      <4>3. Body(g, d) = Body(h, d)
        BY <4>1
      <4> QED
        BY <4>2, <4>3 DEF d
    <3> QED
      BY <2>2, <3>5
  <2> QED
    BY <2>3, <2>4
<1>3. \E g : g = Body(g, SUBSET S)
  <2>1. Cardinality(S) \in Nat
    BY FS_CardinalityType
  <2>2. upto(Cardinality(S)) = SUBSET S
    BY FS_Subset
  <2> HIDE DEF upto, Body
  <2>3. \E g : g = Body(g, upto(Cardinality(S)))
    BY <1>2, <2>1
  <2> QED
    BY <2>2, <2>3
<1>4. total = Body(total, SUBSET S)
  BY <1>3
<1>5. SumF1(S, rate) = total[S]
  BY DEF SumF1, FoldSet, MapThenFoldSet
<1> HIDE DEF total
<1>6. \A s \in SUBSET S :
        total[s] = IF s = {} THEN 0 ELSE rate[some(s)].f1 + total[s \ {some(s)}]
  BY <1>4
<1>7. \A s \in SUBSET S : s # {} => \E x \in s : total[s] = rate[x].f1 + total[s \ {x}]
  BY <1>6
<1> QED
  BY <1>5, <1>6, <1>7 DEF Sums

\* The sum falls short of the most it can be by no less than any of its summands does.
LEMMA SumFallsShort ==
  ASSUME NEW S, IsFiniteSet(S), NEW rate, NEW unit \in Nat, \A x \in S : rate[x].f1 \in 0..unit
  PROVE  \E short \in Nat :
           /\ SumF1(S, rate) \in Nat /\ SumF1(S, rate) + short = unit * Cardinality(S)
           /\ \A x \in S : unit - rate[x].f1 <= short
           /\ (\A x \in S : rate[x].f1 = unit) => short = 0
<1>1. PICK total : Sums(total, S, rate)
  BY SumSteps
<1> DEFINE Good(s) == \E short \in Nat :
             /\ total[s] \in Nat /\ total[s] + short = unit * Cardinality(s)
             /\ \A x \in s : unit - rate[x].f1 <= short
             /\ (\A x \in s : rate[x].f1 = unit) => short = 0
           wrong == {Cardinality(s) : s \in {s \in SUBSET S : ~ Good(s)}}
<1>2. \A s \in SUBSET S : IsFiniteSet(s) /\ Cardinality(s) \in Nat
  BY FS_Subset, FS_CardinalityType
<1>3. ASSUME ~ Good(S) PROVE FALSE
  <2>1. wrong # {} /\ wrong \subseteq Nat
    BY <1>2, <1>3
  <2>2. PICK m \in wrong : \A n \in wrong : m <= n
    BY <2>1, LeastExists
  <2>3. PICK s \in SUBSET S : ~ Good(s) /\ Cardinality(s) = m
    BY <2>2
  <2>4. CASE s = {}
    <3>1. total[s] = 0 /\ Cardinality(s) = 0
      BY <1>1, <2>4, FS_EmptySet DEF Sums
    <3>2. Good(s)
      BY <2>4, <3>1
    <3> QED
      BY <2>3, <3>2
  <2>5. CASE s # {}
    <3>1. PICK x \in s : total[s] = rate[x].f1 + total[s \ {x}]
      BY <1>1, <2>5 DEF Sums
    <3> DEFINE rest == s \ {x}
               k == Cardinality(rest)
               lack == unit - rate[x].f1
    <3>2. rest \in SUBSET S /\ k \in Nat /\ Cardinality(s) = k + 1
      BY <1>2, FS_RemoveElement
    <3>3. Good(rest)
      <4>1. k < m /\ ~ (m <= k)
        BY <2>3, <3>2
      <4> HIDE DEF Good, k, rest
      <4>2. ~ Good(rest) => k \in wrong
        BY <3>2 DEF k
      <4> QED
        BY <2>2, <4>1, <4>2
    <3>4. PICK short \in Nat :
            /\ total[rest] \in Nat /\ total[rest] + short = unit * k
            /\ \A y \in rest : unit - rate[y].f1 <= short
            /\ (\A y \in rest : rate[y].f1 = unit) => short = 0
      BY <3>3
    <3>5. lack \in Nat /\ rate[x].f1 \in Nat /\ rate[x].f1 + lack = unit
      <4>1. rate[x].f1 \in 0..unit
        OBVIOUS
      <4> QED
        BY <4>1
    <3>6. total[s] \in Nat /\ total[s] + (short + lack) = unit * Cardinality(s)
      <4>1. unit * (k + 1) = unit * k + unit
        BY <3>2
      <4>2. unit * k \in Nat
        BY <3>2, Products
      <4> DEFINE most == unit * k
      <4> HIDE DEF most, k, rest, lack
      <4>3. most \in Nat /\ total[rest] + short = most /\ unit * Cardinality(s) = most + unit
        BY <3>2, <3>4, <4>1, <4>2 DEF most
      <4>4. total[s] = rate[x].f1 + total[rest]
        BY <3>1 DEF rest
      <4> QED
        BY <3>4, <3>5, <4>3, <4>4
    <3>7. ASSUME NEW y \in s PROVE unit - rate[y].f1 <= short + lack
      <4>1. CASE y = x
        BY <3>4, <3>5, <4>1
      <4>2. CASE y # x
        <5>1. rate[y].f1 \in 0..unit /\ unit - rate[y].f1 <= short
          BY <3>4, <4>2
        <5> HIDE DEF lack
        <5> QED
          BY <3>5, <5>1
      <4> QED
        BY <4>1, <4>2
    <3>8. ASSUME \A y \in s : rate[y].f1 = unit PROVE short + lack = 0
      <4>1. rate[x].f1 = unit /\ short = 0
        BY <3>4, <3>8
      <4> QED
        BY <4>1
    <3>9. Good(s)
      <4>1. short + lack \in Nat
        BY <3>5
      <4> HIDE DEF lack
      <4> QED
        BY <3>6, <3>7, <3>8, <4>1
    <3> QED
      BY <2>3, <3>9
  <2> QED
    BY <2>4, <2>5
<1> QED
  BY <1>1, <1>3 DEF Sums

Expected(category, cases) == {n \in DOMAIN cases : cases[n].expected_category = category}
Foretold(category, cases) == {n \in DOMAIN cases : Predicted(cases[n]) = category}

\* There are as many indices as a sequence is long.
LEMMA UpToFinite ==
  ASSUME NEW n \in Nat
  PROVE  IsFiniteSet(1..n) /\ Cardinality(1..n) = n
<1>1. IsFiniteSet(1..n) /\ Cardinality(1..n) = IF 1 > n THEN 0 ELSE n - 1 + 1
  BY FS_Interval
<1> QED
  BY <1>1

\* What is reported of a category, and what of it is counted.
LEMMA RateIs ==
  ASSUME NEW cases \in Seq(Cases), NEW category, Expected(category, cases) # {},
         NEW unit \in Nat \ {0}
  PROVE  LET f1 == CategoryMetrics(category, cases, unit).f1
         IN  /\ f1 \in Nat /\ Nearest(f1, F1(category, cases), unit)
             /\ \E n \in Nat, d \in Nat \ {0} :
                  /\ F1(category, cases) = <<n, d>> /\ n <= d /\ d <= 2 * Len(cases)
                  /\ n = d <=> Expected(category, cases) = Foretold(category, cases)
<1> DEFINE expected == Expected(category, cases)
           foretold == Foretold(category, cases)
           tp == Cardinality(expected \cap foretold)
           fn == Cardinality(expected \ foretold)
           fp == Cardinality(foretold \ expected)
           f1 == CategoryMetrics(category, cases, unit).f1
           hits == 2 * tp * tp * ((tp + fp) * (tp + fn))
           all == (tp + fp) * (tp + fn) * (tp * (tp + fn) + tp * (tp + fp))
           count == (tp + fn) + (tp + fp)
<1>1. IsFiniteSet(expected) /\ IsFiniteSet(foretold)
  <2>1. IsFiniteSet(1..Len(cases))
    BY FS_Interval
  <2>2. expected \in SUBSET (1..Len(cases)) /\ foretold \in SUBSET (1..Len(cases))
    BY DEF Expected, Foretold
  <2> QED
    BY <2>1, <2>2, FS_Subset
<1>2. /\ tp \in Nat /\ fn \in Nat /\ fp \in Nat
      /\ fn = 0 <=> expected \ foretold = {}
      /\ fp = 0 <=> foretold \ expected = {}
      /\ tp = 0 <=> expected \cap foretold = {}
  <2> HIDE DEF expected, foretold
  <2>1. /\ IsFiniteSet(expected \cap foretold) /\ IsFiniteSet(expected \ foretold)
        /\ IsFiniteSet(foretold \ expected)
    <3>1. /\ expected \cap foretold \in SUBSET expected /\ expected \ foretold \in SUBSET expected
          /\ foretold \ expected \in SUBSET foretold
      OBVIOUS
    <3> QED
      BY <1>1, <3>1, FS_Subset
  <2> QED
    BY <2>1, FS_CardinalityType, FS_EmptySet
<1>3. Cardinality(expected) = tp + fn /\ Cardinality(foretold) = tp + fp
  <2> HIDE DEF expected, foretold
  <2>1. ASSUME NEW A, NEW B, IsFiniteSet(A)
        PROVE  Cardinality(A) = Cardinality(A \cap B) + Cardinality(A \ B)
    <3>1. A \cap B \in SUBSET A /\ A \ B \in SUBSET A
      OBVIOUS
    <3>2. IsFiniteSet(A \cap B) /\ IsFiniteSet(A \ B)
      BY <2>1, <3>1, FS_Subset
    <3>3. (A \cap B) \cup (A \ B) = A /\ (A \cap B) \cap (A \ B) = {}
      OBVIOUS
    <3>4. Cardinality(A) = Cardinality(A \cap B) + Cardinality(A \ B) - Cardinality({})
      BY <3>2, <3>3, FS_Union
    <3>5. /\ Cardinality(A \cap B) \in Nat /\ Cardinality(A \ B) \in Nat
          /\ Cardinality({}) = 0
      BY <3>2, FS_CardinalityType, FS_EmptySet
    <3> DEFINE both == Cardinality(A \cap B)
               only == Cardinality(A \ B)
    <3> HIDE DEF both, only
    <3>6. both \in Nat /\ only \in Nat /\ Cardinality(A) = both + only - 0
      BY <3>4, <3>5 DEF both, only
    <3>7. Cardinality(A) = both + only
      BY <3>6
    <3> QED
      BY <3>7 DEF both, only
  <2>2. foretold \cap expected = expected \cap foretold
    OBVIOUS
  <2> QED
    BY <1>1, <2>1, <2>2
<1>4. /\ Cardinality({n \in DOMAIN cases : cases[n].expected_category = category
                                         /\ Predicted(cases[n]) = category}) = tp
      /\ Cardinality({n \in DOMAIN cases : cases[n].expected_category = category
                                         /\ Predicted(cases[n]) # category}) = fn
      /\ Cardinality({n \in DOMAIN cases : cases[n].expected_category # category
                                         /\ Predicted(cases[n]) = category}) = fp
  <2>1. expected \cap foretold = {n \in DOMAIN cases : cases[n].expected_category = category
                                                     /\ Predicted(cases[n]) = category}
    BY DEF Expected, Foretold
  <2>2. expected \ foretold = {n \in DOMAIN cases : cases[n].expected_category = category
                                                   /\ Predicted(cases[n]) # category}
    BY DEF Expected, Foretold
  <2>3. foretold \ expected = {n \in DOMAIN cases : cases[n].expected_category # category
                                                   /\ Predicted(cases[n]) = category}
    BY DEF Expected, Foretold
  <2> QED
    BY <2>1, <2>2, <2>3
<1>5. F1(category, cases) = <<2 * tp, count>>
  <2>1. {n \in Right(cases) : cases[n].expected_category = category} = expected \cap foretold
    BY DEF Right, Expected, Foretold
  <2> QED
    BY <1>3, <2>1 DEF F1, Expected, Foretold
<1>6. 2 * tp \in Nat /\ count \in Nat \ {0} /\ 2 * tp <= count /\ count <= 2 * Len(cases)
  <2>1. Cardinality(expected) <= Len(cases) /\ Cardinality(foretold) <= Len(cases)
    <3>1. expected \in SUBSET (1..Len(cases)) /\ foretold \in SUBSET (1..Len(cases))
      BY DEF Expected, Foretold
    <3>2. ASSUME NEW A \in SUBSET (1..Len(cases)) PROVE Cardinality(A) <= Len(cases)
      <4>1. Len(cases) \in Nat
        OBVIOUS
      <4> DEFINE length == Len(cases)
      <4> HIDE DEF length, expected, foretold, tp, fn, fp, f1
      <4>2. IsFiniteSet(1..length) /\ Cardinality(1..length) = length
        BY <4>1, UpToFinite DEF length
      <4>3. Cardinality(A) <= length
        BY <4>2, FS_Subset DEF length
      <4> QED
        BY <4>3 DEF length
    <3> QED
      BY <3>1, <3>2
  <2>2. tp + fn # 0
    <3>1. Cardinality(expected) # 0
      BY <1>1, FS_EmptySet
    <3> QED
      BY <1>3, <3>1
  <2> DEFINE size == Cardinality(expected)
             guessed == Cardinality(foretold)
             length == Len(cases)
  <2>3. size = tp + fn /\ guessed = tp + fp /\ size <= length /\ guessed <= length /\ length \in Nat
    BY <1>3, <2>1
  <2> HIDE DEF tp, fn, fp, size, guessed, length
  <2>4. 2 * tp \in Nat /\ count \in Nat \ {0} /\ 2 * tp <= count /\ count <= 2 * length
    BY <1>2, <2>2, <2>3
  <2> QED
    BY <2>4 DEF length
<1>7. 2 * tp = count <=> expected = foretold
  <2>1. expected = foretold <=> (fn = 0 /\ fp = 0)
    BY <1>2
  <2> HIDE DEF tp, fn, fp, expected, foretold
  <2> QED
    BY <1>2, <2>1
<1>8. f1 \in Nat /\ Nearest(f1, <<2 * tp, count>>, unit)
  <2>1. CASE tp = 0
    <3>1. f1 = Rounded(<<0, 1>>, unit)
      <4>1. Plus(Zero, Zero)[1] = 0
        BY DEF Plus, Zero
      <4> HIDE DEF tp, fn, fp
      <4> QED
        BY <1>4, <2>1, <4>1 DEF CategoryMetrics, Count, Zero
    <3> HIDE DEF tp, fn, fp, f1
    <3>2. SameRate(<<0, 1>>, <<2 * tp, count>>)
      BY <1>2, <2>1 DEF SameRate
    <3> HIDE DEF count
    <3> QED
      BY <1>6, <3>1, <3>2, RoundedToEqual
  <2>2. CASE tp # 0
    <3>1. tp \in Nat \ {0}
      BY <1>2, <2>2
    <3>2. tp * (tp + fn) + tp * (tp + fp) # 0
      <4> HIDE DEF tp, fn, fp
      <4>1. /\ tp * (tp + fn) \in Nat /\ tp * (tp + fn) # 0
            /\ tp * (tp + fp) \in Nat
        BY <1>2, <3>1, Products
      <4> QED
        BY <4>1
    <3>3. f1 = Rounded(<<hits, all>>, unit)
      <4> DEFINE sum == Plus(<<tp, tp + fp>>, <<tp, tp + fn>>)
      <4>1. /\ sum[1] = tp * (tp + fn) + tp * (tp + fp)
            /\ sum[2] = (tp + fp) * (tp + fn)
        BY DEF Plus
      <4>2. f1 = Rounded(IF sum[1] = 0 THEN Zero
                         ELSE <<2 * tp * tp * sum[2], (tp + fp) * (tp + fn) * sum[1]>>, unit)
        <5> HIDE DEF tp, fn, fp
        <5> QED
          BY <1>4, <2>2 DEF CategoryMetrics, Count, FalsePositives
      <4> HIDE DEF sum, tp, fn, fp
      <4> QED
        BY <3>2, <4>1, <4>2
    <3>4. hits \in Nat /\ all \in Nat \ {0} /\ hits * count = (2 * tp) * all
      <4> HIDE DEF tp, fn, fp
      <4> QED
        BY <1>2, <3>1, F1Arithmetic
    <3> HIDE DEF f1, hits, all, tp, fn, fp, count
    <3>5. SameRate(<<hits, all>>, <<2 * tp, count>>)
      BY <3>4 DEF SameRate
    <3> QED
      BY <1>6, <3>3, <3>4, <3>5, RoundedToEqual
  <2> QED
    BY <2>1, <2>2
<1> HIDE DEF f1, tp, fn, fp, count
<1> QED
  BY <1>5, <1>6, <1>7, <1>8 DEF f1

LEMMA CasesAreValid ==
  ASSUME NEW c \in Cases
  PROVE  CitationsAreValid(c.log, Classify(<<c.log>>))
<1>1. <<c.log>> \in Seq(Logs) /\ ToSet(<<c.log>>) = {c.log}
  <2>1. c.log \in Logs
    BY CasesAssumption
  <2> DEFINE log == c.log
  <2> HIDE DEF log
  <2>2. log \in Logs => <<log>> \in Seq(Logs) /\ ToSet(<<log>>) = {log}
    BY DEF ToSet
  <2> QED
    BY <2>1, <2>2 DEF log
<1>2. EventIds({c.log}) = {c.log.event_id}
  BY DEF EventIds
<1> QED
  BY <1>1, <1>2, VerdictsCite DEF Cites, CitationsAreValid

\* Every case is right exactly when no category is missed or guessed wrongly.
LEMMA AllRight ==
  ASSUME NEW cases \in Seq(Cases), NEW categories,
         \A n \in DOMAIN cases : cases[n].expected_category \in categories
  PROVE  Right(cases) = DOMAIN cases <=>
           \A x \in categories : Expected(x, cases) = Foretold(x, cases)
<1>1. ASSUME \A x \in categories : Expected(x, cases) = Foretold(x, cases), NEW n \in DOMAIN cases
      PROVE  n \in Right(cases)
  <2>1. n \in Expected(cases[n].expected_category, cases)
    BY DEF Expected
  <2>2. n \in Foretold(cases[n].expected_category, cases)
    BY <1>1, <2>1
  <2> QED
    BY <2>2 DEF Foretold, Right
<1>2. Right(cases) \subseteq DOMAIN cases
  BY DEF Right
<1>3. ASSUME Right(cases) = DOMAIN cases, NEW x
      PROVE  Expected(x, cases) = Foretold(x, cases)
  <2>1. \A n \in DOMAIN cases : cases[n].expected_category = Predicted(cases[n])
    BY <1>3 DEF Right
  <2> QED
    BY <2>1 DEF Expected, Foretold
<1> QED
  BY <1>1, <1>2, <1>3

\* A macro average rounded to 1 leaves its f1s half a unit short each, at most.
LEMMA MacroIsFull ==
  ASSUME NEW unit \in Nat \ {0}, NEW k \in Nat \ {0}, NEW sum \in Nat, NEW short \in Nat,
         sum + short = unit * k
  PROVE  /\ short = 0 => Rounded(<<sum, unit * k>>, unit) = unit
         /\ Rounded(<<sum, unit * k>>, unit) = unit => 2 * short <= k
<1> DEFINE most == unit * k
           macro == Rounded(<<sum, most>>, unit)
<1>1. most \in Nat \ {0} /\ sum <= most
  <2>1. most \in Nat \ {0}
    BY Products
  <2> HIDE DEF most
  <2>2. sum + short = most
    BY DEF most
  <2> QED
    BY <2>1, <2>2
<1>2. macro \in Nat /\ Nearest(macro, <<sum, most>>, unit)
  BY <1>1, RoundedIs
<1>3. ASSUME short = 0 PROVE macro = unit
  <2>1. sum = most
    BY <1>3
  <2> HIDE DEF macro, most
  <2> QED
    BY <1>1, <1>2, <2>1, NearestToRate
<1>4. ASSUME macro = unit PROVE 2 * short <= k
  <2>1. 2 * (unit * most - unit * sum) \in -most..most
    <3> HIDE DEF most, macro
    <3> QED
      BY <1>2, <1>4 DEF Nearest
  <2>2. 2 * (unit * most - unit * sum) = unit * (2 * short)
    <3>1. most - sum = short
      BY <1>1
    <3>2. 2 * (unit * most - unit * sum) = unit * (2 * (most - sum))
      BY <1>1
    <3> QED
      BY <3>1, <3>2
  <2>3. unit * (2 * short) \in -(unit * k)..(unit * k)
    BY <2>1, <2>2
  <2>4. 2 * short \in -k..k
    BY <2>3, Cancelled
  <2> QED
    BY <2>4
<1> QED
  BY <1>3, <1>4

\* A rate of a whole is reported as 1, and one of nothing as 0.
LEMMA WholeAndNone ==
  ASSUME NEW count \in Nat \ {0}, NEW unit \in Nat \ {0}
  PROVE  Rounded(<<count, count>>, unit) = unit /\ Rounded(<<0, count>>, unit) = 0
<1>1. Rounded(<<count, count>>, unit) = unit
  BY RoundedIs, NearestToRate
<1>2. Rounded(<<0, count>>, unit) = 0
  <2> DEFINE value == Rounded(<<0, count>>, unit)
  <2>1. value \in Nat /\ Nearest(value, <<0, count>>, unit)
    BY RoundedIs
  <2> HIDE DEF value
  <2>2. 2 * (value * count) <= count
    BY <2>1 DEF Nearest
  <2>3. ASSUME value # 0 PROVE FALSE
    <3>1. value - 1 \in Nat /\ (value - 1) * count \in Nat
      BY <2>1, <2>3, Products
    <3>2. (value - 1) * count = value * count - count /\ value * count \in Nat
      BY <2>1, Products
    <3> DEFINE whole == value * count
    <3> HIDE DEF whole
    <3>3. whole \in Nat /\ whole - count \in Nat /\ 2 * whole <= count
      BY <2>2, <3>1, <3>2 DEF whole
    <3> QED
      BY <3>3
  <2> QED
    BY <2>3 DEF value
<1> QED
  BY <1>1, <1>2

\* For datasets of any size and any number of digits: every f1 is that of its counts to the nearest
\* unit; the macro average is 1 when every case is right, and 1 only when no category is misjudged
\* by more than the two roundings hide; in a dataset of fewer than unit / (k + 1) cases they hide
\* nothing (evaluate.py:95-161).
THEOREM ReportsAddUp == TriageSpec => []EvaluationAddsUp
<1>1. ASSUME InputsInv, task = "evaluate", items # <<>>
      PROVE  AddsUp(EvaluateDataset(items, given), items, given)
  <2> DEFINE categories == {c.expected_category : c \in ToSet(items)}
             per_category == [category \in categories |-> CategoryMetrics(category, items, given)]
             sum == SumF1(categories, per_category)
             report == EvaluateDataset(items, given)
             k == Cardinality(categories)
  <2>1. items \in Seq(Cases) /\ Len(items) \in Nat \ {0} /\ given \in Nat \ {0}
    <3> HIDE DEF categories, per_category, sum, report, k
    <3>1. items \in Seq(Cases) /\ given \in Units
      BY <1>1 DEF InputsInv
    <3>2. given \in Nat \ {0}
      BY <3>1, CasesAssumption
    <3>3. Len(items) \in Nat \ {0}
      BY <1>1, <3>1
    <3> QED
      BY <3>1, <3>2, <3>3
  <2>2. /\ report.per_category = per_category
        /\ report.macro_f1 = Rounded(<<sum, given * k>>, given)
    BY DEF EvaluateDataset, SumF1
  <2>3. /\ IsFiniteSet(categories) /\ k \in Nat \ {0}
        /\ \A n \in DOMAIN items : items[n].expected_category \in categories
        /\ \A category \in categories : Expected(category, items) # {}
    <3>1. /\ \A n \in DOMAIN items : items[n].expected_category \in categories
          /\ \A category \in categories :
               \E n \in DOMAIN items : items[n].expected_category = category
      BY DEF ToSet
    <3> DEFINE f == [n \in 1..Len(items) |-> items[n].expected_category]
    <3>2. f \in Surjection(1..Len(items), categories)
      <4> HIDE DEF categories
      <4>1. DOMAIN items = 1..Len(items)
        BY <2>1
      <4>2. f \in [1..Len(items) -> categories]
        BY <3>1, <4>1
      <4>3. \A category \in categories : \E n \in 1..Len(items) : f[n] = category
        BY <3>1, <4>1
      <4> HIDE DEF f
      <4> QED
        BY <4>2, <4>3 DEF Surjection
    <3>3. IsFiniteSet(1..Len(items))
      BY <2>1, FS_Interval
    <3>4. IsFiniteSet(categories)
      BY <3>2, <3>3, FS_Surjection
    <3>5. categories # {}
      <4>1. 1 \in DOMAIN items
        BY <2>1
      <4> HIDE DEF categories
      <4> QED
        BY <3>1, <4>1
    <3>6. k \in Nat /\ k # 0
      <4> HIDE DEF categories
      <4> QED
        BY <3>4, <3>5, FS_CardinalityType, FS_EmptySet
    <3> QED
      BY <3>1, <3>4, <3>6 DEF Expected
  <2> HIDE DEF categories
  <2>4. \A category \in categories :
          /\ per_category[category].f1 \in Nat
          /\ Nearest(per_category[category].f1, F1(category, items), given)
          /\ \E n \in Nat, d \in Nat \ {0} :
               /\ F1(category, items) = <<n, d>> /\ n <= d /\ d <= 2 * Len(items)
               /\ n = d <=> Expected(category, items) = Foretold(category, items)
    BY <2>1, <2>3, RateIs
  <2>5. DOMAIN per_category = categories
    OBVIOUS
  <2> HIDE DEF per_category, report
  <2>6. ASSUME NEW category \in categories
        PROVE  /\ per_category[category].f1 \in 0..given
               /\ Expected(category, items) = Foretold(category, items) =>
                    per_category[category].f1 = given
    <3> DEFINE f1 == per_category[category].f1
    <3>1. PICK n \in Nat, d \in Nat \ {0} :
            /\ F1(category, items) = <<n, d>> /\ n <= d
            /\ n = d <=> Expected(category, items) = Foretold(category, items)
      BY <2>4
    <3>2. f1 \in Nat /\ Nearest(f1, <<n, d>>, given)
      BY <2>4, <3>1
    <3> HIDE DEF f1
    <3>3. f1 <= given /\ (n = d => f1 = given)
      BY <2>1, <3>1, <3>2, NearestToRate
    <3>4. f1 \in 0..given
      BY <2>1, <3>2, <3>3
    <3> QED
      BY <3>1, <3>3, <3>4 DEF f1
  <2>7. PICK short \in Nat :
          /\ sum \in Nat /\ sum + short = given * k
          /\ \A x \in categories : given - per_category[x].f1 <= short
          /\ (\A x \in categories : per_category[x].f1 = given) => short = 0
    <3>1. \A x \in categories : per_category[x].f1 \in 0..given
      BY <2>6
    <3> HIDE DEF categories
    <3> QED
      BY <2>1, <2>3, <3>1, SumFallsShort
  <2> HIDE DEF sum, k
  <2>8. ASSUME Right(items) = DOMAIN items PROVE report.macro_f1 = given
    <3>1. short = 0
      BY <2>1, <2>3, <2>6, <2>7, <2>8, AllRight
    <3> QED
      BY <2>1, <2>2, <2>3, <2>7, <3>1, MacroIsFull
  <2>9. ASSUME report.macro_f1 = given, NEW category \in categories
        PROVE  LET f1 == F1(category, items)
               IN  2 * given * (f1[2] - f1[1]) <= (k + 1) * f1[2]
    <3> DEFINE value == per_category[category].f1
               lack == given - value
    <3>1. PICK n \in Nat, d \in Nat \ {0} : F1(category, items) = <<n, d>> /\ n <= d
      BY <2>4
    <3>2. 2 * short <= k
      BY <2>1, <2>2, <2>3, <2>7, <2>9, MacroIsFull
    <3>3. value \in Nat /\ Nearest(value, <<n, d>>, given) /\ value <= given /\ lack <= short
      BY <2>1, <2>4, <2>6, <2>7, <3>1
    <3> HIDE DEF value
    <3>4. 2 * given * (d - n) <= 2 * (lack * d) + d
      BY <2>1, <3>1, <3>3, NearestToRate
    <3>5. lack \in Nat /\ k - 2 * lack \in Nat
      BY <2>1, <2>3, <3>2, <3>3
    <3>6. 2 * (lack * d) + d <= (k + 1) * d
      <4>1. (k - 2 * lack) * d \in Nat /\ lack * d \in Nat
        BY <3>5, Products
      <4> HIDE DEF lack
      <4>2. (k + 1) * d = (2 * (lack * d) + d) + (k - 2 * lack) * d
        BY <2>3, <3>5
      <4> QED
        BY <4>1, <4>2
    <3>7. 2 * given * (d - n) \in Int /\ 2 * (lack * d) + d \in Int /\ (k + 1) * d \in Int
      BY <2>1, <2>3, <3>5
    <3> DEFINE a == 2 * given * (d - n)
               b == 2 * (lack * d) + d
               c == (k + 1) * d
    <3> HIDE DEF a, b, c
    <3>8. a <= b /\ b <= c /\ a \in Int /\ b \in Int /\ c \in Int
      BY <3>4, <3>6, <3>7 DEF a, b, c
    <3>9. a <= c
      BY <3>8
    <3> QED
      BY <3>1, <3>9 DEF a, c
  <2>10. ASSUME report.macro_f1 = given, (k + 1) * Len(items) < given
         PROVE  Right(items) = DOMAIN items
    <3>1. ASSUME NEW x \in categories PROVE Expected(x, items) = Foretold(x, items)
      <4>1. PICK n \in Nat, d \in Nat \ {0} :
              /\ F1(x, items) = <<n, d>> /\ n <= d /\ d <= 2 * Len(items)
              /\ n = d <=> Expected(x, items) = Foretold(x, items)
        BY <2>4
      <4>2. 2 * given * (d - n) <= (k + 1) * d
        BY <2>9, <2>10, <4>1
      <4>3. ASSUME n # d PROVE FALSE
        <5> DEFINE length == Len(items)
                   lack == d - n
                   spare == 2 * length - d
                   cases == (k + 1) * length
        <5>1. lack - 1 \in Nat /\ spare \in Nat /\ k + 1 \in Nat /\ length \in Nat
          BY <2>1, <2>3, <4>1, <4>3
        <5>2. given * (lack - 1) \in Nat /\ (k + 1) * spare \in Nat /\ cases \in Nat
          BY <2>1, <5>1, Products
        <5>3. 2 * given * lack = 2 * given + 2 * (given * (lack - 1))
          BY <2>1
        <5>4. (k + 1) * d = 2 * cases - (k + 1) * spare
          BY <2>1, <2>3
        <5> DEFINE u == given * (lack - 1)
                   v == (k + 1) * spare
        <5> HIDE DEF u, v, cases, spare, lack, length
        <5>5. /\ u \in Nat /\ v \in Nat /\ cases \in Nat /\ given \in Nat /\ cases < given
              /\ 2 * given + 2 * u <= 2 * cases - v
          BY <2>1, <2>10, <4>2, <5>2, <5>3, <5>4 DEF u, v, lack, cases, length
        <5> QED
          BY <5>5
      <4> QED
        BY <4>1, <4>3
    <3> QED
      BY <2>1, <2>3, <3>1, AllRight
  <2>11. report.citation_validity = given /\ report.unsupported_evidence_rate = 0
    <3>1. \A n \in DOMAIN items : CitationsAreValid(items[n].log, Classify(<<items[n].log>>))
      BY <2>1, CasesAreValid
    <3> DEFINE valid == {n \in DOMAIN items :
                           CitationsAreValid(items[n].log, Classify(<<items[n].log>>))}
               unsupported == {n \in DOMAIN items :
                 Predicted(items[n]) # "uncategorized"
                   /\ ~ CitationsAreValid(items[n].log, Classify(<<items[n].log>>))}
    <3>2. Cardinality(valid) = Len(items) /\ Cardinality(unsupported) = 0
      <4>1. valid = 1..Len(items) /\ unsupported = {}
        BY <2>1, <3>1
      <4>2. Cardinality(1..Len(items)) = Len(items)
        BY <2>1, FS_Interval
      <4> HIDE DEF valid, unsupported
      <4> QED
        BY <4>1, <4>2, FS_EmptySet
    <3>3. /\ report.citation_validity = Rounded(<<Cardinality(valid), Len(items)>>, given)
          /\ report.unsupported_evidence_rate =
               Rounded(<<Cardinality(unsupported), Len(items)>>, given)
      BY DEF report, EvaluateDataset, Count
    <3> HIDE DEF valid, unsupported
    <3> QED
      BY <2>1, <3>2, <3>3, WholeAndNone
  <2>12. \A category \in categories :
           Nearest(report.per_category[category].f1, F1(category, items), given)
    BY <2>2, <2>4
  <2> QED
    BY <2>2, <2>5, <2>8, <2>9, <2>10, <2>11, <2>12 DEF AddsUp, report, k
<1>2. InputsInv => EvaluationAddsUp
  BY <1>1 DEF EvaluationAddsUp
<1> QED
  BY <1>2, InputsHold, PTL
=============================================================================
