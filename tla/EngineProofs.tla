------------------------------ MODULE EngineProofs ------------------------------
(***************************************************************************)
(* Proofs about the arena, the risk engine and the strategy engine: at     *)
(* most one champion whatever the evaluators and the operator do in        *)
(* between, approvals that rest on known values and are as large as the    *)
(* limits allow, losses that engage the kill switch, and candidates whose  *)
(* plan survives the ticks.                                                *)
(***************************************************************************)
EXTENDS Arena, RiskEngine, StrategyEngine, FiniteSetTheorems, SequenceTheorems,
        WellFoundedInduction, TLAPS

----------------------------------------------------------------------------
(* Finite sets of numbers                                                  *)

\* Some element of a finite set is the greatest in what a function makes of it: the
\* smallest number of elements without a greatest is none.
LEMMA FiniteHasGreatest ==
  ASSUME NEW C, IsFiniteSet(C), C # {}, NEW g \in [C -> Int]
  PROVE  \E p \in C : \A q \in C : g[q] <= g[p]
<1> DEFINE HasGreatest(D) == \E p \in D : \A q \in D : g[q] <= g[p]
           Failing == {n \in Nat : \E D \in SUBSET C : D # {} /\ Cardinality(D) = n /\ ~HasGreatest(D)}
<1>1. SUFFICES ASSUME ~HasGreatest(C) PROVE FALSE
  OBVIOUS
<1>2. Cardinality(C) \in Failing
  BY <1>1, FS_CardinalityType
<1>3. PICK m \in Failing : \A n \in Failing : ~(<<n, m>> \in OpToRel(<, Nat))
  <2>1. Failing \subseteq Nat /\ Failing # {}
    BY <1>2
  <2>2. QED
    BY <2>1, NatLessThanWellFounded, WFMin
<1>4. \A n \in Failing : ~(n < m)
  BY <1>3 DEF OpToRel
<1>5. PICK D \in SUBSET C : D # {} /\ Cardinality(D) = m /\ ~HasGreatest(D)
  BY <1>3
<1>6. PICK x \in D : TRUE
  BY <1>5
<1> DEFINE R == D \ {x}
<1>7. IsFiniteSet(D) /\ IsFiniteSet(R) /\ Cardinality(R) = m - 1
  BY <1>5, <1>6, FS_Subset, FS_RemoveElement
<1>8. m \in Nat /\ Cardinality(R) \in Nat
  BY <1>3, <1>7, FS_CardinalityType
<1>9. CASE R = {}
  <2>1. \A q \in D : q = x
    BY <1>9
  <2>2. g[x] \in Int
    BY <1>5, <1>6
  <2>3. HasGreatest(D)
    BY <1>6, <2>1, <2>2
  <2>4. QED
    BY <1>5, <2>3
<1>10. CASE R # {}
  <2>1. HasGreatest(R)
    <3>1. R \in SUBSET C /\ Cardinality(R) \in Nat /\ Cardinality(R) < m
      BY <1>5, <1>7, <1>8
    <3>2. Cardinality(R) \notin Failing
      BY <1>4, <3>1
    <3>3. ~(R # {} /\ Cardinality(R) = Cardinality(R) /\ ~HasGreatest(R))
      BY <3>1, <3>2
    <3>4. QED
      BY <1>10, <3>3
  <2>2. PICK p \in R : \A q \in R : g[q] <= g[p]
    BY <2>1
  <2>3. g[p] \in Int /\ g[x] \in Int /\ \A q \in R : g[q] \in Int
    BY <1>5, <1>6, <2>2
  <2>4. CASE g[x] <= g[p]
    <3>1. p \in D /\ \A q \in D : g[q] <= g[p]
      BY <2>2, <2>4
    <3>2. QED
      BY <1>5, <3>1
  <2>5. CASE ~(g[x] <= g[p])
    <3>1. \A q \in R : g[q] <= g[x]
      BY <2>2, <2>3, <2>5
    <3>2. \A q \in D : g[q] <= g[x]
      BY <2>3, <3>1
    <3>3. QED
      BY <1>5, <1>6, <3>2
  <2>6. QED
    BY <2>4, <2>5
<1>11. QED
  BY <1>9, <1>10

----------------------------------------------------------------------------
(* The arena                                                               *)

Facts == [suff : BOOLEAN, fitness : Int, gain : BOOLEAN, floor : BOOLEAN, hard : BOOLEAN]
Row == [facts : FactsSeen, of : Statuses \cup {"NONE"}, target : Statuses \cup {"NONE"}]
Claims == [at : {"idle", "create", "commit"}, p : Participants \cup {AnyPart}, to : Statuses \cup {"NONE"},
           fresh : BOOLEAN, alone : BOOLEAN]

\* What a transition on the row accepts, with the session stopped and no other champion.
CanBeFollowed(row) ==
  \E reason \in ALLOWED_REASONS[row.target] : Accepts(row.of, row.target, reason, row.facts, FALSE, FALSE)
Followable(row) ==
  row.target = "NONE" \/ CanBeFollowed(row) \/ (row.of = "CHAMPION" /\ row.target = "PROVEN" /\ ~row.facts.suff)

\* A cohort to start from: one champion at most, recommendations that can be followed.
SoundCohort(c) ==
  /\ c.status \in [Participants -> Statuses \cup {"NONE"}] /\ c.begun \in 0..MaxBegun
  /\ c.latest \in [Participants -> Row] /\ \A p \in Participants : Followable(c.latest[p])
  /\ \A p, q \in Participants : c.status[p] = "CHAMPION" /\ c.status[q] = "CHAMPION" => p = q

\* What the proofs assume of the constants: participants that can be counted, sound
\* cohorts to start from, facts with a fitness to compare (0..100 in the code), among
\* them that nothing was found.
ArenaConstants ==
  /\ IsFiniteSet(Participants) /\ FirstPolicy \in Policies /\ MaxBegun \in Nat
  /\ FactsSeen \subseteq Facts /\ NoFacts \in FactsSeen
  /\ \A c \in FirstCohorts : SoundCohort(c)

ArenaTypes ==
  /\ policy \in Policies /\ status \in [Participants -> Statuses \cup {"NONE"}]
  /\ latest \in [Participants -> Row] /\ begun \in 0..MaxBegun /\ blind \subseteq Participants
  /\ eval \in [Evaluators -> [todo : SUBSET Participants, rows : [Participants -> Row]]]
  /\ oper \in [Operators -> Claims]

\* What an operator has checked but not written yet still holds when it writes, as long
\* as nobody has made a champion since.
ClaimHolds(claim) ==
  claim.at # "idle" =>
    /\ claim.p \in Participants /\ claim.to # "NONE"
    /\ claim.to = "CHAMPION" /\ claim.alone => Champions \subseteq {claim.p}
ClaimsHold == \A o \in Operators : ClaimHolds(oper[o])
ChampionsEqual == \A p \in Champions \ blind, q \in Champions \ blind : p = q

RowsFollowable ==
  /\ \A e \in Evaluators, p \in Participants : Followable(eval[e].rows[p])
  /\ \A p \in Participants : Followable(latest[p])

ArenaInv == ArenaTypes /\ ClaimsHold /\ ChampionsEqual /\ RowsFollowable

LEMMA NoRowTyped ==
  ASSUME NoFacts \in FactsSeen PROVE NoRow \in Row /\ Followable(NoRow) /\ NoRun \in [todo : SUBSET Participants, rows : [Participants -> Row]]
<1>1. NoRow \in Row /\ NoRow.target = "NONE"
  BY DEF NoRow, Row
<1>2. QED
  BY <1>1 DEF Followable, NoRun

LEMMA NoOpTyped ==
  NoOp \in Claims /\ NoOp.at = "idle"
BY DEF NoOp, Claims

LEMMA ArenaStarts ==
  ASSUME ArenaConstants, ArenaInit PROVE ArenaInv
<1>1. NoFacts \in FactsSeen /\ FirstPolicy \in Policies
  BY DEF ArenaConstants
<1>2. PICK c \in FirstCohorts : status = c.status /\ latest = c.latest /\ begun = c.begun
  BY DEF ArenaInit
<1>3. SoundCohort(c)
  BY <1>2 DEF ArenaConstants
<1>4. ArenaTypes
  BY <1>1, <1>2, <1>3, NoRowTyped, NoOpTyped DEF ArenaInit, ArenaTypes, SoundCohort
<1>5. ClaimsHold
  BY NoOpTyped DEF ArenaInit, ClaimsHold, ClaimHolds
<1>6. ChampionsEqual
  BY <1>2, <1>3 DEF SoundCohort, ChampionsEqual, Champions
<1>7. \A e \in Evaluators, p \in Participants : eval[e].rows[p] = NoRow
  BY DEF ArenaInit, NoRun
<1>8. RowsFollowable
  BY <1>1, <1>2, <1>3, <1>7, NoRowTyped DEF RowsFollowable, SoundCohort
<1>9. QED
  BY <1>4, <1>5, <1>6, <1>8 DEF ArenaInv

\* A recommendation that performance, the floor or a hard stop gives has a reason that
\* the transition accepts.
LEMMA OwnRecommendationHasReason ==
  ASSUME NEW st \in {"ACTIVE", "PROBATION", "PROVEN", "CHAMPION"}, NEW f \in Facts, NEW pol,
         NEW row, row.facts = f, row.of = st, row.target = Recommend(st, f, pol), row.target # "NONE"
  PROVE  CanBeFollowed(row) /\ row.target \in Statuses
<1>1. CASE f.hard
  <2>1. row.target = "PROBATION" /\ st # "PROBATION"
    BY <1>1 DEF Recommend
  <2>2. Accepts(st, "PROBATION", "HARD_STOP", f, FALSE, FALSE) /\ "HARD_STOP" \in ALLOWED_REASONS["PROBATION"]
    BY <1>1, <2>1 DEF Accepts, ARENA_TRANSITIONS, ALLOWED_REASONS, NeedsEvidence
  <2>3. QED
    BY <2>1, <2>2 DEF CanBeFollowed, Statuses
<1>2. CASE ~f.hard /\ f.floor
  <2>1. (row.target = "RETIRED" /\ f.suff = TRUE) \/ (row.target = "PROBATION" /\ st # "PROBATION")
    BY <1>2 DEF Recommend, Facts
  <2>2. Accepts(st, row.target, "SURVIVAL_FLOOR", f, FALSE, FALSE) /\ "SURVIVAL_FLOOR" \in ALLOWED_REASONS[row.target]
    BY <1>2, <2>1 DEF Accepts, ARENA_TRANSITIONS, ALLOWED_REASONS, NeedsEvidence
  <2>3. QED
    BY <2>1, <2>2 DEF CanBeFollowed, Statuses
<1>3. CASE ~f.hard /\ ~f.floor
  <2>1. f.suff /\ (\/ st = "PROBATION" /\ row.target \in {"RETIRED", "ACTIVE"}
                   \/ st # "PROBATION" /\ row.target = "PROBATION"
                   \/ st = "ACTIVE" /\ row.target = "PROVEN")
    BY <1>3 DEF Recommend
  <2>2. Accepts(st, row.target, "PERFORMANCE", f, FALSE, FALSE) /\ "PERFORMANCE" \in ALLOWED_REASONS[row.target]
    BY <2>1 DEF Accepts, ARENA_TRANSITIONS, ALLOWED_REASONS, NeedsEvidence
  <2>3. QED
    BY <2>1, <2>2 DEF CanBeFollowed, Statuses
<1>4. QED
  BY <1>1, <1>2, <1>3

\* The fittest of some contenders is one of them.
LEMMA FittestIsOne ==
  ASSUME IsFiniteSet(Participants), NEW C \in SUBSET Participants, C # {}, NEW facts, \A p \in C : facts[p] \in Facts
  PROVE  Fittest(C, facts) \in C
<1> DEFINE g == [p \in C |-> facts[p].fitness]
<1>1. g \in [C -> Int]
  BY DEF Facts
<1>2. IsFiniteSet(C)
  BY FS_Subset
<1>3. PICK p \in C : \A q \in C : g[q] <= g[p]
  BY <1>1, <1>2, FiniteHasGreatest
<1>4. \A q \in C : facts[p].fitness >= facts[q].fitness
  BY <1>1, <1>3 DEF Facts
<1>5. QED
  BY <1>4 DEF Fittest

\* So has every recommendation of a cohort but a champion's demotion.
LEMMA RecommendedIsFollowable ==
  ASSUME ArenaConstants, ArenaTypes, NEW E \in SUBSET Evaluable, NEW facts \in [E -> FactsSeen], NEW p \in E,
         NEW row, row.facts = facts[p], row.of = status[p], row.target = Recommended(E, facts, policy)[p]
  PROVE  Followable(row) /\ row.target \in Statuses \cup {"NONE"}
<1> DEFINE own == [q \in E |-> Recommend(status[q], facts[q], policy)]
           champs == {q \in E : status[q] = "CHAMPION"}
           champ == CHOOSE q \in champs : TRUE
           C == Contenders(E, facts, policy)
           best == Fittest(C, facts)
<1>1. /\ E \subseteq Participants /\ p \in Participants /\ status[p] \in {"ACTIVE", "PROBATION", "PROVEN", "CHAMPION"}
      /\ \A q \in E : facts[q] \in Facts
  BY DEF Evaluable, ArenaTypes, ArenaConstants, Statuses
<1>2. \/ C # {} /\ p = best /\ row.target = "CHAMPION"
      \/ champs # {} /\ p = champ /\ row.target = "PROVEN"
      \/ row.target = own[p]
  BY DEF Recommended
<1>3. CASE C # {} /\ p = best /\ row.target = "CHAMPION"
  <2>1. p \in C
    <3>1. C \in SUBSET Participants /\ \A q \in C : facts[q] \in Facts
      BY <1>1 DEF Contenders
    <3>2. QED
      BY <1>3, <3>1, FittestIsOne DEF ArenaConstants
  <2>2. status[p] = "PROVEN" /\ facts[p].suff
    BY <2>1 DEF Contenders
  <2>3. Accepts("PROVEN", "CHAMPION", "PERFORMANCE", facts[p], FALSE, FALSE)
        /\ "PERFORMANCE" \in ALLOWED_REASONS["CHAMPION"]
    BY <2>2 DEF Accepts, ARENA_TRANSITIONS, ALLOWED_REASONS, NeedsEvidence
  <2>4. QED
    BY <1>3, <2>2, <2>3 DEF Followable, CanBeFollowed, Statuses
<1>4. CASE champs # {} /\ p = champ /\ row.target = "PROVEN"
  <2>1. status[p] = "CHAMPION"
    BY <1>4
  <2>2. facts[p].suff =>
          Accepts("CHAMPION", "PROVEN", "PERFORMANCE", facts[p], FALSE, FALSE)
          /\ "PERFORMANCE" \in ALLOWED_REASONS["PROVEN"]
    BY DEF Accepts, ARENA_TRANSITIONS, ALLOWED_REASONS, NeedsEvidence
  <2>3. QED
    BY <1>4, <2>1, <2>2 DEF Followable, CanBeFollowed, Statuses
<1>5. CASE row.target = own[p]
  <2>1. row.target = Recommend(status[p], facts[p], policy)
    BY <1>5
  <2>2. row.target # "NONE" => CanBeFollowed(row) /\ row.target \in Statuses
    BY <1>1, <2>1, OwnRecommendationHasReason
  <2>3. QED
    BY <2>2 DEF Followable
<1>6. QED
  BY <1>2, <1>3, <1>4, <1>5

LEMMA EvaluateCohortStep ==
  ASSUME ArenaConstants, ArenaInv, NEW e \in Evaluators, EvaluateCohort(e) PROVE ArenaInv'
<1>1. PICK E \in (SUBSET Evaluable) \ {{}} : \E facts \in [E -> FactsSeen] :
        eval' = [eval EXCEPT ![e] =
          [todo |-> E,
           rows |-> [p \in Participants |->
             IF p \in E THEN [facts |-> facts[p], of |-> status[p], target |-> Recommended(E, facts, policy)[p]]
             ELSE NoRow]]]
  BY DEF EvaluateCohort
<1>2. PICK facts \in [E -> FactsSeen] :
        eval' = [eval EXCEPT ![e] =
          [todo |-> E,
           rows |-> [p \in Participants |->
             IF p \in E THEN [facts |-> facts[p], of |-> status[p], target |-> Recommended(E, facts, policy)[p]]
             ELSE NoRow]]]
  BY <1>1
<1> DEFINE row(p) == [facts |-> facts[p], of |-> status[p], target |-> Recommended(E, facts, policy)[p]]
           rows == [p \in Participants |-> IF p \in E THEN row(p) ELSE NoRow]
<1>3. /\ E \subseteq Participants /\ E \in SUBSET Evaluable /\ UNCHANGED <<policy, status, latest, oper, blind>>
      /\ ArenaTypes /\ NoFacts \in FactsSeen /\ begun' \in 0..MaxBegun
  BY DEF EvaluateCohort, Evaluable, ArenaInv, ArenaConstants, ArenaTypes
<1>4. \A p \in E : row(p) \in Row /\ Followable(row(p))
  <2> TAKE p \in E
  <2>1. row(p).facts = facts[p] /\ row(p).of = status[p] /\ row(p).target = Recommended(E, facts, policy)[p]
    OBVIOUS
  <2>2. Followable(row(p)) /\ row(p).target \in Statuses \cup {"NONE"}
    <3> HIDE DEF row
    <3>1. QED
      BY <1>3, <2>1, RecommendedIsFollowable
  <2>3. facts[p] \in FactsSeen /\ status[p] \in Statuses \cup {"NONE"}
    BY <1>3 DEF ArenaTypes
  <2>4. QED
    BY <2>2, <2>3 DEF Row
<1>5. \A p \in Participants : rows[p] \in Row /\ Followable(rows[p])
  <2> HIDE DEF row
  <2>1. QED
    BY <1>3, <1>4, NoRowTyped
<1>6. rows \in [Participants -> Row]
  <2>1. rows = [p \in Participants |-> rows[p]]
    OBVIOUS
  <2> HIDE DEF rows
  <2>2. QED
    BY <1>5, <2>1
<1>7. eval' = [eval EXCEPT ![e] = [todo |-> E, rows |-> rows]]
  BY <1>2
<1> HIDE DEF rows, row
<1>8. /\ eval' \in [Evaluators -> [todo : SUBSET Participants, rows : [Participants -> Row]]]
      /\ \A x \in Evaluators : eval'[x].rows = eval[x].rows \/ eval'[x].rows = rows
  BY <1>3, <1>6, <1>7 DEF ArenaTypes
<1>9. RowsFollowable'
  BY <1>3, <1>5, <1>8 DEF ArenaInv, RowsFollowable
<1>10. QED
  BY <1>3, <1>8, <1>9 DEF ArenaInv, ArenaTypes, ClaimsHold, ClaimHolds, ChampionsEqual, Champions

LEMMA PersistStep ==
  ASSUME ArenaConstants, ArenaInv, NEW e \in Evaluators, NEW p \in Participants, Persist(e, p) PROVE ArenaInv'
<1>1. ArenaTypes /\ RowsFollowable /\ NoRow \in Row /\ Followable(NoRow)
  BY NoRowTyped DEF ArenaInv, ArenaConstants
<1>2. /\ latest' \in {latest, [latest EXCEPT ![p] = eval[e].rows[p]]}
      /\ eval' = [eval EXCEPT ![e].todo = @ \ {p}, ![e].rows[p] = NoRow]
      /\ UNCHANGED <<policy, status, oper, begun, blind>>
  BY DEF Persist
<1>3. eval[e].rows[p] \in Row /\ Followable(eval[e].rows[p])
  BY <1>1 DEF ArenaTypes, RowsFollowable
<1>4. latest' \in [Participants -> Row] /\ \A q \in Participants : latest'[q] = latest[q] \/ latest'[q] = eval[e].rows[p]
  BY <1>1, <1>2, <1>3 DEF ArenaTypes
<1>5. /\ eval' \in [Evaluators -> [todo : SUBSET Participants, rows : [Participants -> Row]]]
      /\ \A x \in Evaluators, q \in Participants : eval'[x].rows[q] = eval[x].rows[q] \/ eval'[x].rows[q] = NoRow
  <2>1. eval' = [eval EXCEPT ![e].todo = @ \ {p}, ![e].rows[p] = NoRow] /\ NoRow \in Row
    BY <1>1, <1>2
  <2>2. eval \in [Evaluators -> [todo : SUBSET Participants, rows : [Participants -> Row]]]
    BY <1>1 DEF ArenaTypes
  <2>3. QED
    BY <2>1, <2>2
<1>6. RowsFollowable'
  <2>1. \A x \in Evaluators, q \in Participants : Followable(eval'[x].rows[q])
    BY <1>1, <1>5 DEF RowsFollowable
  <2>2. \A q \in Participants : Followable(latest'[q])
    BY <1>1, <1>3, <1>4 DEF RowsFollowable
  <2>3. QED
    BY <2>1, <2>2 DEF RowsFollowable
<1>7. QED
  BY <1>1, <1>2, <1>4, <1>5, <1>6 DEF ArenaInv, ArenaTypes, ClaimsHold, ClaimHolds, ChampionsEqual, Champions

\* A command that has just been checked.
LEMMA BeginStep ==
  ASSUME ArenaConstants, ArenaInv, NEW o \in Operators, NEW p \in Participants, NEW to \in Statuses,
         NEW at \in {"create", "commit"}, to = "CHAMPION" => Champions \subseteq {p}, Begin(o, Claim(at, p, to))
  PROVE  ArenaInv'
<1>1. Claim(at, p, to) \in Claims
  BY DEF Claims, Claim
<1>2. UNCHANGED <<policy, status, latest, eval, blind>> /\ oper' = [oper EXCEPT ![o] = Claim(at, p, to)]
      /\ begun' \in 0..MaxBegun
  BY DEF Begin, ArenaInv, ArenaTypes, ArenaConstants
<1>3. oper' \in [Operators -> Claims] /\ \A x \in Operators : oper'[x] = oper[x] \/ oper'[x] = Claim(at, p, to)
  BY <1>1, <1>2 DEF ArenaInv, ArenaTypes
<1>4. ClaimHolds(Claim(at, p, to))
  BY DEF ClaimHolds, Claim, Statuses
<1>5. \A x \in Operators : ClaimHolds(oper'[x])
  BY <1>3, <1>4 DEF ArenaInv, ClaimsHold
<1>6. ClaimsHold'
  BY <1>2, <1>5 DEF ClaimsHold, ClaimHolds, Champions
<1>7. QED
  BY <1>2, <1>3, <1>6 DEF ArenaInv, ArenaTypes, ChampionsEqual, Champions, RowsFollowable

LEMMA TransitionCheckStep ==
  ASSUME ArenaConstants, ArenaInv, NEW o \in Operators, NEW p \in Registered, NEW to \in Acceptable(p),
         TransitionCheck(o, p, to)
  PROVE  ArenaInv'
<1>1. p \in Participants /\ status[p] \in Statuses
  BY DEF Registered, ArenaInv, ArenaTypes
<1>2. to \in Statuses
  BY <1>1 DEF Acceptable, ARENA_TRANSITIONS, Statuses
<1>3. to = "CHAMPION" => Champions \subseteq {p}
  BY DEF Acceptable, Accepts, OtherChampion
<1>4. QED
  BY <1>1, <1>2, <1>3, BeginStep DEF TransitionCheck

LEMMA RegisterCheckStep ==
  ASSUME ArenaConstants, ArenaInv, NEW o \in Operators, NEW p \in Participants, NEW to \in Statuses,
         RegisterCheck(o, p, to)
  PROVE  ArenaInv'
BY BeginStep DEF RegisterCheck

\* The write of a claim: a champion that was made after the check of another claim is
\* one that claim has not seen.
LEMMA BecomeStep ==
  ASSUME ArenaConstants, ArenaInv, NEW o \in Operators, oper[o].at # "idle", Become(o),
         UNCHANGED <<policy, latest, eval, begun>>
  PROVE  ArenaInv'
<1> DEFINE mine == oper[o]
           Seen(x) == [oper[x] EXCEPT !.fresh = @ /\ oper[x].p # mine.p, !.alone = @ /\ mine.to # "CHAMPION"]
<1>1. /\ mine \in Claims /\ mine.p \in Participants /\ mine.to \in Statuses
      /\ mine.to = "CHAMPION" /\ mine.alone => Champions \subseteq {mine.p}
      /\ status \in [Participants -> Statuses \cup {"NONE"}]
  BY DEF ArenaInv, ArenaTypes, ClaimsHold, ClaimHolds, Claims
<1>2. /\ status' = [status EXCEPT ![mine.p] = mine.to]
      /\ oper' = [x \in Operators |-> IF x = o THEN NoOp ELSE Seen(x)]
      /\ blind' = IF mine.to = "CHAMPION" /\ ~mine.alone THEN blind \cup {mine.p} ELSE blind \ {mine.p}
  BY DEF Become
<1>3. \A x \in Operators :
        /\ Seen(x) \in Claims /\ Seen(x).at = oper[x].at /\ Seen(x).p = oper[x].p /\ Seen(x).to = oper[x].to
        /\ Seen(x).alone => oper[x].alone /\ mine.to # "CHAMPION"
  <2> TAKE x \in Operators
  <2>1. oper[x] \in Claims
    BY DEF ArenaInv, ArenaTypes
  <2>2. Seen(x) = [oper[x] EXCEPT !.fresh = oper[x].fresh /\ oper[x].p # mine.p,
                                  !.alone = oper[x].alone /\ mine.to # "CHAMPION"]
    OBVIOUS
  <2>3. \A f, a \in BOOLEAN : [oper[x] EXCEPT !.fresh = f, !.alone = a] \in Claims
    BY <2>1 DEF Claims
  <2>4. Seen(x).at = oper[x].at /\ Seen(x).p = oper[x].p /\ Seen(x).to = oper[x].to
    BY <2>1 DEF Claims
  <2>5. Seen(x).alone = (oper[x].alone /\ mine.to # "CHAMPION")
    BY <2>1 DEF Claims
  <2>6. Seen(x) \in Claims
    <3>1. (oper[x].fresh /\ oper[x].p # mine.p) \in BOOLEAN /\ (oper[x].alone /\ mine.to # "CHAMPION") \in BOOLEAN
      OBVIOUS
    <3>2. QED
      BY <2>2, <2>3, <3>1
  <2>7. QED
    BY <2>4, <2>5, <2>6
<1> HIDE DEF mine, Seen
<1>4. oper' \in [Operators -> Claims] /\ \A x \in Operators : oper'[x] = NoOp \/ oper'[x] = Seen(x)
  BY <1>2, <1>3, NoOpTyped
<1>5. status' \in [Participants -> Statuses \cup {"NONE"}] /\ blind' \subseteq Participants
  BY <1>1, <1>2 DEF ArenaInv, ArenaTypes
<1>6. Champions' = IF mine.to = "CHAMPION" THEN Champions \cup {mine.p} ELSE Champions \ {mine.p}
  BY <1>1, <1>2 DEF Champions
<1>7. ClaimsHold'
  <2>1. SUFFICES ASSUME NEW x \in Operators, oper'[x].at # "idle"
                 PROVE  /\ oper'[x].p \in Participants /\ oper'[x].to # "NONE"
                        /\ oper'[x].to = "CHAMPION" /\ oper'[x].alone => Champions' \subseteq {oper'[x].p}
    BY DEF ClaimsHold, ClaimHolds
  <2>2. oper'[x] = Seen(x)
    BY <1>4, <2>1, NoOpTyped
  <2>3. ClaimHolds(oper[x])
    BY DEF ArenaInv, ClaimsHold
  <2>4. QED
    BY <1>3, <1>6, <2>1, <2>2, <2>3 DEF ClaimHolds
<1>8. ChampionsEqual'
  <2>1. CASE mine.to = "CHAMPION" /\ mine.alone
    <3>1. Champions' \subseteq {mine.p}
      BY <1>1, <1>6, <2>1
    <3>2. QED
      BY <3>1 DEF ChampionsEqual
  <2>2. CASE ~(mine.to = "CHAMPION" /\ mine.alone)
    <3>1. Champions' \ blind' \subseteq Champions \ blind
      BY <1>2, <1>6, <2>2
    <3>2. QED
      BY <3>1 DEF ArenaInv, ChampionsEqual
  <2>3. QED
    BY <2>1, <2>2
<1>9. QED
  BY <1>4, <1>5, <1>7, <1>8 DEF ArenaInv, ArenaTypes, RowsFollowable

\* A command that ends without a write.
LEMMA GiveUpStep ==
  ASSUME ArenaConstants, ArenaInv, NEW o \in Operators, GiveUp(o), UNCHANGED <<policy, latest, eval, begun>>
  PROVE  ArenaInv'
<1>1. UNCHANGED <<status, blind>> /\ oper' \in [Operators -> Claims]
      /\ \A x \in Operators : oper'[x] = oper[x] \/ oper'[x] = NoOp
  BY NoOpTyped DEF GiveUp, ArenaInv, ArenaTypes
<1>2. ClaimsHold'
  BY <1>1, NoOpTyped DEF ArenaInv, ClaimsHold, ClaimHolds, Champions
<1>3. QED
  BY <1>1, <1>2 DEF ArenaInv, ArenaTypes, ChampionsEqual, Champions, RowsFollowable

LEMMA OperatorActs ==
  ASSUME ArenaConstants, ArenaInv, NEW o \in Operators, RegisterCreate(o) \/ TransitionCommit(o) \/ OperatorDies(o)
  PROVE  ArenaInv'
<1>1. CASE RegisterCreate(o)
  BY <1>1, BecomeStep, GiveUpStep DEF RegisterCreate
<1>2. CASE TransitionCommit(o)
  BY <1>2, BecomeStep, GiveUpStep DEF TransitionCommit
<1>3. CASE OperatorDies(o)
  BY <1>3, GiveUpStep DEF OperatorDies
<1>4. QED
  BY <1>1, <1>2, <1>3

\* What an operator has checked stays true until it is written, but for the champions
\* that others make meanwhile; and every row stored or pending can be followed.
THEOREM ArenaInvariant ==
  ASSUME ArenaConstants PROVE ArenaSpec => []ArenaInv
<1>1. ArenaInit => ArenaInv
  BY ArenaStarts
<1>2. ArenaInv /\ [ArenaNext]_arenaVars => ArenaInv'
  <2> SUFFICES ASSUME ArenaInv, [ArenaNext]_arenaVars PROVE ArenaInv'
    OBVIOUS
  <2>1. CASE \E new \in Policies : SetPolicy(new)
    <3>1. UNCHANGED <<status, latest, eval, oper, blind>> /\ policy' \in Policies /\ begun' \in 0..MaxBegun
      BY <2>1 DEF SetPolicy, ArenaInv, ArenaTypes, ArenaConstants
    <3>2. QED
      BY <3>1 DEF ArenaInv, ArenaTypes, ClaimsHold, ClaimHolds, ChampionsEqual, Champions, RowsFollowable
  <2>2. CASE \E e \in Evaluators : EvaluateCohort(e) \/ \E p \in Participants : Persist(e, p)
    BY <2>2, EvaluateCohortStep, PersistStep
  <2>3. CASE \E o \in Operators :
               \/ RegisterCreate(o) \/ TransitionCommit(o) \/ OperatorDies(o)
               \/ \E p \in Participants, to \in Statuses : RegisterCheck(o, p, to)
               \/ \E p \in Registered : \E to \in Acceptable(p) : TransitionCheck(o, p, to)
    BY <2>3, OperatorActs, RegisterCheckStep, TransitionCheckStep
  <2>4. CASE UNCHANGED arenaVars
    BY <2>4 DEF arenaVars, ArenaInv, ArenaTypes, ClaimsHold, ClaimHolds, ChampionsEqual, Champions, RowsFollowable
  <2>5. QED
    BY <2>1, <2>2, <2>3, <2>4 DEF ArenaNext, ArenaEvaluate, ArenaOpsCommand
<1>3. QED
  BY <1>1, <1>2, PTL DEF ArenaSpec

\* What the cohort, its evaluations and its operators may be.
THEOREM ArenaTypeCorrect ==
  ASSUME ArenaConstants PROVE ArenaSpec => []ArenaTypeOK
<1>1. ArenaInv => ArenaTypeOK
  BY DEF ArenaInv, ArenaTypes, ArenaTypeOK, Row, Claims
<1>2. QED
  BY <1>1, ArenaInvariant, PTL

\* Two champions come only of promotions that did not see each other, and as long as a
\* participant keeps the status it was evaluated in, a transition accepts what its newest
\* evaluation recommends (lifecycle.ts, arena.ts).
THEOREM ArenaStaysOrderly ==
  ASSUME ArenaConstants PROVE ArenaSpec => []ArenaIsOrderly
<1>1. ArenaInv => OneChampion
  <2> SUFFICES ASSUME ArenaInv PROVE OneChampion
    OBVIOUS
  <2>1. CASE Champions \ blind = {}
    BY <2>1, FS_EmptySet DEF OneChampion
  <2>2. CASE Champions \ blind # {}
    <3>1. PICK p \in Champions \ blind : TRUE
      BY <2>2
    <3>2. Champions \ blind = {p}
      BY <3>1 DEF ArenaInv, ChampionsEqual
    <3>3. QED
      BY <3>2, FS_Singleton DEF OneChampion
  <2>3. QED
    BY <2>1, <2>2
<1>2. ArenaInv => RecommendationsCanBeFollowed
  <2> SUFFICES ASSUME ArenaInv, NEW p \in Registered, latest[p].target # "NONE", latest[p].of = status[p], ~Waits(p)
               PROVE  latest[p].target \in Acceptable(p)
    BY DEF RecommendationsCanBeFollowed
  <2> DEFINE to == latest[p].target
  <2>1. CanBeFollowed(latest[p])
    BY DEF ArenaInv, RowsFollowable, Followable, Waits, Registered
  <2>2. PICK reason \in ALLOWED_REASONS[to] : Accepts(status[p], to, reason, latest[p].facts, FALSE, FALSE)
    BY <2>1 DEF CanBeFollowed
  <2>3. to \in ARENA_TRANSITIONS[status[p]] /\ (to = "CHAMPION" => ~OtherChampion(p))
    BY <2>2 DEF Accepts, Waits
  <2>4. Accepts(status[p], to, reason, latest[p].facts, FALSE, OtherChampion(p))
    BY <2>2, <2>3 DEF Accepts
  <2>5. QED
    BY <2>3, <2>4 DEF Acceptable
<1>3. QED
  BY <1>1, <1>2, ArenaInvariant, PTL DEF ArenaIsOrderly

----------------------------------------------------------------------------
(* The risk engine: its arithmetic                                         *)

\* What the proofs assume of the constants: a scale, limits and snapshots of integers
\* and of the readings the assembler names; sums of exposures are numbers.
SnapshotReadings ==
  [mode : STRING, session : STRING, books : {"unreadable", "frozen", "damaged", "ok"}, instrument : STRING,
   assigned : BOOLEAN, direction : {"LONG", "SHORT", "NONE"}, chain : STRING, asset : STRING,
   entry : Int, stop : Int, target : Int, limits : STRING, profile : STRING,
   spreadBps : Int, slippageBps : Int, feeBps : Int, tick : Int, step : Int,
   minQuantity : Int, minNotional : Int, maxQuantity : Int, equity : Int, cash : Int,
   positions : SUBSET [asset : STRING, value : Int, exposed : BOOLEAN],
   reserves : SUBSET [asset : STRING, amount : Int],
   startOfDay : Int, dailyPnl : Int, tradesToday : Int, history : Seq({"WIN", "LOSS", "EVEN", "RELEASE"}),
   age : {"fresh", "stale", "unknown", "future"}, candidate : STRING,
   quality : {"ok", "poor", "unknown", "contradictory"}, regime : STRING, group : {"ok", "missing"},
   override : BOOLEAN, previousEquity : Int]
LimitSet ==
  [maxRiskPerTradePct : Int, maxDailyLossPct : Int, maxGrossExposurePct : Int, maxAssetExposurePct : Int,
   maxCorrelatedExposurePct : Int, minRewardRisk : Int, maxOpenPositions : Int, maxNewTradesPerDay : Int,
   maxConsecutiveLosses : Int, maxSpreadBps : Int, maxSlippageBps : Int]
RiskConstants ==
  /\ Scale \in Nat \ {0}
  /\ Limits \in LimitSet
  /\ Snapshots \subseteq SnapshotReadings
  /\ \A s \in Snapshots : GrossExposure(s) \in Int /\ AssetExposure(s) \in Int

\* Rounded down, a quotient is the greatest integer that fits.
LEMMA DivFits ==
  ASSUME NEW a \in Int, NEW b \in Int, b > 0, NEW q \in Int
  PROVE  a \div b \in Int /\ (q <= a \div b <=> q * b <= a)
<1>1. a \div b \in Int
  OBVIOUS
<1>2. q <= a \div b => q * b <= a
  OBVIOUS
<1>3. q * b <= a => q <= a \div b
  OBVIOUS
<1>4. QED
  BY <1>1, <1>2, <1>3

LEMMA DownToStep ==
  ASSUME NEW a \in Int, NEW step \in Int, step > 0
  PROVE  /\ StepDown(a, step) \in Int /\ StepDown(a, step) <= a /\ a < StepDown(a, step) + step
         /\ StepDown(a, step) % step = 0
<1>1. a \div step \in Int
  OBVIOUS
<1>2. step * (a \div step) <= a
  OBVIOUS
<1>3. a < step * (a \div step) + step
  OBVIOUS
<1>4. ((a \div step) * step) % step = 0
  OBVIOUS
<1>5. step * (a \div step) = (a \div step) * step /\ (a \div step) * step \in Int
  BY <1>1
<1>6. QED
  BY <1>2, <1>3, <1>4, <1>5 DEF StepDown

LEMMA MulDownTyped ==
  ASSUME Scale \in Nat \ {0}, NEW a \in Int, NEW b \in Int PROVE MulDown(a, b) \in Int
<1>1. a * b \in Int /\ Scale \in Int /\ Scale > 0
  OBVIOUS
<1>2. QED
  BY <1>1, DivFits DEF MulDown

LEMMA MulUpTyped ==
  ASSUME Scale \in Nat \ {0}, NEW a \in Int, NEW b \in Int
  PROVE  MulUp(a, b) \in Int /\ (a >= 0 /\ b >= 0 => MulUp(a, b) >= 0)
<1> DEFINE x == -(a * b)
<1>1. x \in Int /\ Scale \in Int /\ Scale > 0 /\ (a >= 0 /\ b >= 0 => x <= 0)
  OBVIOUS
<1> HIDE DEF x
<1>2. x \div Scale \in Int /\ (1 <= x \div Scale <=> 1 * Scale <= x)
  BY <1>1, DivFits
<1>3. x <= 0 => x \div Scale <= 0
  BY <1>1, <1>2
<1>4. QED
  BY <1>1, <1>2, <1>3 DEF MulUp, x

LEMMA RateTyped ==
  ASSUME Scale \in Nat \ {0}, NEW bps \in Int PROVE Rate(bps) \in Int /\ (bps >= 0 => Rate(bps) >= 0)
<1>1. bps * Scale \in Int /\ (bps >= 0 => bps * Scale >= 0)
  OBVIOUS
<1>2. (bps * Scale) \div 10000 \in Int /\ (0 <= (bps * Scale) \div 10000 <=> 0 * 10000 <= bps * Scale)
  BY <1>1, DivFits
<1>3. QED
  BY <1>1, <1>2 DEF Rate

LEMMA DivDownFits ==
  ASSUME Scale \in Nat \ {0}, NEW a \in Int, NEW b \in Int, b > 0
  PROVE  DivDown(a, b) \in Int /\ \A q \in Int : q <= DivDown(a, b) <=> q * b <= a * Scale
<1>1. a * Scale \in Int
  OBVIOUS
<1>2. QED
  BY <1>1, DivFits DEF DivDown

LEMMA StepsTyped ==
  ASSUME NEW a \in Int, NEW b \in Int, b > 0 PROVE StepDown(a, b) \in Int /\ StepUp(a, b) \in Int
<1>1. a \div b \in Int /\ (-a) \div b \in Int
  BY DivFits
<1>2. QED
  BY <1>1 DEF StepDown, StepUp

\* The smallest of finitely many numbers.
LEMMA FiniteHasLeast ==
  ASSUME NEW C \in SUBSET Int, IsFiniteSet(C), C # {}
  PROVE  Min(C) \in C /\ \A x \in C : Min(C) <= x
<1> DEFINE g == [x \in C |-> -x]
<1>1. g \in [C -> Int]
  OBVIOUS
<1>2. PICK p \in C : \A q \in C : g[q] <= g[p]
  BY <1>1, FiniteHasGreatest
<1>3. \A q \in C : p <= q
  BY <1>2
<1>4. QED
  BY <1>3 DEF Min

----------------------------------------------------------------------------
(* The size of an order                                                    *)

LEMMA WorstPricesTyped ==
  ASSUME Scale \in Nat \ {0}, NEW s \in SnapshotReadings, s.tick > 0, NEW price \in Int
  PROVE  Entering(price, s) \in Int /\ Leaving(price, s) \in Int
<1>1. s.spreadBps \in Int /\ s.slippageBps \in Int /\ s.tick \in Int
  BY DEF SnapshotReadings
<1>2. Rate(s.spreadBps) \in Int /\ Rate(s.slippageBps) \in Int
  BY <1>1, RateTyped
<1>3. (Rate(s.spreadBps) + 1) \div 2 \in Int
  BY <1>2
<1>4. WorstSell(price, s) \in Int
  <2> DEFINE low == Scale - (Rate(s.spreadBps) + 1) \div 2
             slip == Scale - Rate(s.slippageBps)
  <2>1. low \in Int /\ slip \in Int
    BY <1>2, <1>3
  <2> HIDE DEF low, slip
  <2>2. MulDown(low, slip) \in Int
    BY <2>1, MulDownTyped
  <2>3. MulDown(price, MulDown(low, slip)) \in Int
    BY <2>2, MulDownTyped
  <2>4. StepDown(MulDown(price, MulDown(low, slip)), s.tick) \in Int
    BY <1>1, <2>3, StepsTyped
  <2>5. QED
    BY <2>4 DEF WorstSell, low, slip
<1>5. WorstBuy(price, s) \in Int
  <2> DEFINE high == Scale + (Rate(s.spreadBps) + 1) \div 2
             slip == Scale + Rate(s.slippageBps)
  <2>1. high \in Int /\ slip \in Int
    BY <1>2, <1>3
  <2> HIDE DEF high, slip
  <2>2. MulUp(price, high) \in Int
    BY <2>1, MulUpTyped
  <2>3. MulUp(MulUp(price, high), slip) \in Int
    BY <2>1, <2>2, MulUpTyped
  <2>4. StepUp(MulUp(MulUp(price, high), slip), s.tick) \in Int
    BY <1>1, <2>3, StepsTyped
  <2>5. QED
    BY <2>4 DEF WorstBuy, high, slip
<1>6. QED
  BY <1>4, <1>5 DEF Entering, Leaving

\* What fits into a headroom, and into none.
LEMMA CapOfHeadroom ==
  ASSUME Scale \in Nat \ {0}, NEW g \in Int, NEW b \in Int, b > 0
  PROVE  /\ QuantityFor(AtLeastZero(g), b) \in Int
         /\ \A q \in Int : q > 0 => (q <= QuantityFor(AtLeastZero(g), b) <=> q * b <= Scale * g)
<1> DEFINE h == AtLeastZero(g)
<1>1. h \in Int /\ (g >= 0 => h = g) /\ (g < 0 => h = 0)
  BY DEF AtLeastZero
<1> HIDE DEF h
<1>2. QuantityFor(h, b) = DivDown(h, b)
  BY DEF QuantityFor
<1>3. DivDown(h, b) \in Int /\ \A q \in Int : q <= DivDown(h, b) <=> q * b <= h * Scale
  BY <1>1, DivDownFits
<1>4. ASSUME NEW q \in Int, q > 0 PROVE q * b <= h * Scale <=> q * b <= Scale * g
  <2>1. CASE g >= 0
    BY <1>1, <2>1
  <2>2. CASE g < 0
    <3>1. q * b > 0
      BY <1>4
    <3>2. Scale * g < 0
      BY <2>2
    <3>3. h * Scale = 0
      BY <1>1, <2>2
    <3>4. q * b \in Int /\ Scale * g \in Int
      OBVIOUS
    <3>5. QED
      BY <3>1, <3>2, <3>3, <3>4
  <2>3. QED
    BY <2>1, <2>2
<1>5. QED
  BY <1>2, <1>3, <1>4 DEF h

\* A computable size: what it is made of, and that it is the largest multiple of the
\* step that fits.
LEMMA SizeFits ==
  ASSUME RiskConstants, NEW s \in Snapshots, Sizing(s).computable
  PROVE  /\ Sizing(s).quantity \in Int /\ Sizing(s).quantity % s.step = 0
         /\ Sizing(s).quantity > 0 => Fits(Sizing(s).quantity, s) /\ ~Fits(Sizing(s).quantity + s.step, s)
<1> DEFINE entry == Entering(s.entry, s)
           stop == Leaving(s.stop, s)
           target == Leaving(s.target, s)
           fee(price) == MulUp(price, Rate(s.feeBps))
           unitRisk == Adverse(entry, stop, s) + fee(entry) + fee(stop)
           unitReserve == CollateralPerUnit(s, entry, stop)
           budget == MulDown(s.equity, Limits.maxRiskPerTradePct)
           gross == MulDown(s.equity, Limits.maxGrossExposurePct) - GrossExposure(s)
           asset == MulDown(s.equity, Limits.maxAssetExposurePct) - AssetExposure(s)
           correlated == MulDown(s.equity, Limits.maxCorrelatedExposurePct) - GrossExposure(s)
           caps == {DivDown(budget, unitRisk),
                    QuantityFor(s.cash, unitReserve),
                    QuantityFor(Headroom(s, Limits.maxGrossExposurePct, GrossExposure(s)), entry),
                    QuantityFor(Headroom(s, Limits.maxAssetExposurePct, AssetExposure(s)), entry),
                    QuantityFor(Headroom(s, Limits.maxCorrelatedExposurePct, GrossExposure(s)), entry)}
                   \cup (IF s.maxQuantity = Missing THEN {} ELSE {s.maxQuantity})
           quantity == StepDown(AtLeastZero(Min(caps)), s.step)
<1>1. CanSize(s) /\ ~(unitRisk <= 0) /\ Sizing(s).quantity = quantity
  BY DEF Sizing, NotSized
<1>2. /\ s \in SnapshotReadings /\ Scale \in Nat \ {0} /\ GrossExposure(s) \in Int /\ AssetExposure(s) \in Int
      /\ Limits.maxRiskPerTradePct \in Int /\ Limits.maxGrossExposurePct \in Int
      /\ Limits.maxAssetExposurePct \in Int /\ Limits.maxCorrelatedExposurePct \in Int
  BY DEF RiskConstants, LimitSet
<1>3. /\ s.entry \in Int /\ s.stop \in Int /\ s.equity \in Int /\ s.cash \in Int /\ s.feeBps \in Int
      /\ s.maxQuantity \in Int /\ s.step \in Int /\ s.step > 0 /\ s.tick > 0 /\ s.feeBps >= 0
      /\ entry > 0 /\ stop > 0
  BY <1>1, <1>2 DEF CanSize, SnapshotReadings
<1>4. entry \in Int /\ stop \in Int
  BY <1>2, <1>3, WorstPricesTyped
<1> HIDE DEF entry, stop
<1>5. Rate(s.feeBps) \in Int /\ Rate(s.feeBps) >= 0
  BY <1>2, <1>3, RateTyped
<1>6. fee(entry) \in Int /\ fee(entry) >= 0 /\ fee(stop) \in Int /\ fee(stop) >= 0
  <2> DEFINE rate == Rate(s.feeBps)
  <2>1. rate \in Int /\ rate >= 0 /\ entry >= 0 /\ stop >= 0
    BY <1>3, <1>4, <1>5
  <2> HIDE DEF rate
  <2>2. MulUp(entry, rate) \in Int /\ MulUp(entry, rate) >= 0
    BY <1>2, <1>4, <2>1, MulUpTyped
  <2>3. MulUp(stop, rate) \in Int /\ MulUp(stop, rate) >= 0
    BY <1>2, <1>4, <2>1, MulUpTyped
  <2>4. QED
    BY <2>2, <2>3 DEF rate
<1> HIDE DEF fee
<1>7. unitRisk \in Int /\ unitRisk > 0
  <2>1. Adverse(entry, stop, s) \in Int
    BY <1>4 DEF Adverse
  <2>2. unitRisk \in Int
    BY <1>6, <2>1
  <2>3. QED
    BY <1>1, <2>2
<1>8. unitReserve \in Int /\ unitReserve > 0
      /\ unitReserve = IF Long(s) THEN entry + fee(entry) ELSE stop + (fee(entry) + fee(stop))
  BY <1>3, <1>4, <1>6 DEF CollateralPerUnit, fee
<1>9. budget \in Int /\ gross \in Int /\ asset \in Int /\ correlated \in Int
  <2>1. /\ MulDown(s.equity, Limits.maxRiskPerTradePct) \in Int /\ MulDown(s.equity, Limits.maxGrossExposurePct) \in Int
        /\ MulDown(s.equity, Limits.maxAssetExposurePct) \in Int
        /\ MulDown(s.equity, Limits.maxCorrelatedExposurePct) \in Int
    BY <1>2, <1>3, MulDownTyped
  <2>2. QED
    BY <1>2, <2>1
<1> HIDE DEF unitRisk, unitReserve, budget
<1> DEFINE c1 == DivDown(budget, unitRisk)
           c2 == QuantityFor(s.cash, unitReserve)
           c3 == QuantityFor(AtLeastZero(gross), entry)
           c4 == QuantityFor(AtLeastZero(asset), entry)
           c5 == QuantityFor(AtLeastZero(correlated), entry)
<1>10. caps = {c1, c2, c3, c4, c5} \cup (IF s.maxQuantity = Missing THEN {} ELSE {s.maxQuantity})
  BY DEF Headroom
<1>11. c1 \in Int /\ \A q \in Int : q <= c1 <=> q * unitRisk <= budget * Scale
  BY <1>2, <1>7, <1>9, DivDownFits
<1>12. c2 \in Int /\ \A q \in Int : q <= c2 <=> q * unitReserve <= s.cash * Scale
  <2>1. c2 = DivDown(s.cash, unitReserve)
    BY <1>8 DEF QuantityFor
  <2>2. QED
    <3> DEFINE cash == s.cash
    <3>1. cash \in Int /\ unitReserve \in Int /\ unitReserve > 0 /\ Scale \in Nat \ {0}
      BY <1>2, <1>3, <1>8
    <3> HIDE DEF cash
    <3>2. DivDown(cash, unitReserve) \in Int
          /\ \A q \in Int : q <= DivDown(cash, unitReserve) <=> q * unitReserve <= cash * Scale
      BY <3>1, DivDownFits
    <3>3. QED
      BY <2>1, <3>2 DEF cash
<1> HIDE DEF gross, asset, correlated
<1>13. /\ c3 \in Int /\ \A q \in Int : q > 0 => (q <= c3 <=> q * entry <= Scale * gross)
       /\ c4 \in Int /\ \A q \in Int : q > 0 => (q <= c4 <=> q * entry <= Scale * asset)
       /\ c5 \in Int /\ \A q \in Int : q > 0 => (q <= c5 <=> q * entry <= Scale * correlated)
  BY <1>2, <1>3, <1>4, <1>9, CapOfHeadroom
<1> HIDE DEF c1, c2, c3, c4, c5, caps
<1>14. Min(caps) \in Int /\ \A q \in Int : q <= Min(caps) <=> \A c \in caps : q <= c
  <2>1. caps \in SUBSET Int /\ caps # {}
    BY <1>3, <1>10, <1>11, <1>12, <1>13
  <2>2. IsFiniteSet(caps)
    <3>1. IsFiniteSet(((({c1} \cup {c2}) \cup {c3}) \cup {c4}) \cup {c5})
      <4>1. IsFiniteSet({c1})
        BY FS_Singleton
      <4>2. IsFiniteSet({c1} \cup {c2})
        BY <4>1, FS_AddElement
      <4>3. IsFiniteSet(({c1} \cup {c2}) \cup {c3})
        BY <4>2, FS_AddElement
      <4>4. IsFiniteSet((({c1} \cup {c2}) \cup {c3}) \cup {c4})
        BY <4>3, FS_AddElement
      <4>5. QED
        BY <4>4, FS_AddElement
    <3>2. {c1, c2, c3, c4, c5} = ((({c1} \cup {c2}) \cup {c3}) \cup {c4}) \cup {c5}
      OBVIOUS
    <3>3. IsFiniteSet({c1, c2, c3, c4, c5}) /\ IsFiniteSet({c1, c2, c3, c4, c5} \cup {s.maxQuantity})
      BY <3>1, <3>2, FS_AddElement
    <3>4. caps = {c1, c2, c3, c4, c5} \/ caps = {c1, c2, c3, c4, c5} \cup {s.maxQuantity}
      BY <1>10
    <3>5. QED
      BY <3>3, <3>4
  <2>3. Min(caps) \in caps /\ \A c \in caps : Min(caps) <= c
    BY <2>1, <2>2, FiniteHasLeast
  <2>4. ASSUME NEW q \in Int PROVE q <= Min(caps) <=> \A c \in caps : q <= c
    <3>1. Min(caps) \in Int /\ \A c \in caps : c \in Int
      BY <2>1, <2>3
    <3>2. ASSUME q <= Min(caps), NEW c \in caps PROVE q <= c
      BY <2>3, <3>1, <3>2
    <3>3. QED
      BY <2>3, <3>1, <3>2
  <2>5. QED
    BY <2>1, <2>3, <2>4
<1>15. ASSUME NEW q \in Int, q > 0 PROVE Fits(q, s) <=> q <= Min(caps)
  <2>1. q <= Min(caps) <=> /\ q <= c1 /\ q <= c2 /\ q <= c3 /\ q <= c4 /\ q <= c5
                           /\ s.maxQuantity # Missing => q <= s.maxQuantity
    BY <1>10, <1>14, <1>15
  <2>2. Fits(q, s) <=> /\ q * unitRisk <= budget * Scale /\ q * unitReserve <= s.cash * Scale
                       /\ q * entry <= Scale * gross /\ q * entry <= Scale * asset /\ q * entry <= Scale * correlated
                       /\ s.maxQuantity # Missing => q <= s.maxQuantity
    <3>1. unitRisk = Adverse(entry, stop, s) + (fee(entry) + fee(stop))
      <4>1. Adverse(entry, stop, s) \in Int
        BY <1>4 DEF Adverse
      <4>2. QED
        BY <1>6, <4>1 DEF unitRisk
    <3>2. budget * Scale = Scale * budget /\ s.cash * Scale = Scale * s.cash
      BY <1>2, <1>3, <1>9
    <3>3. Fits(q, s) <=>
            /\ q * (Adverse(entry, stop, s) + (fee(entry) + fee(stop))) <= Scale * budget
            /\ q * (IF Long(s) THEN entry + fee(entry) ELSE stop + (fee(entry) + fee(stop))) <= Scale * s.cash
            /\ q * entry <= Scale * gross /\ q * entry <= Scale * asset /\ q * entry <= Scale * correlated
            /\ s.maxQuantity # Missing => q <= s.maxQuantity
      BY DEF Fits, entry, stop, fee, budget, gross, asset, correlated
    <3>4. QED
      BY <1>8, <3>1, <3>2, <3>3
  <2>3. QED
    BY <1>11, <1>12, <1>13, <1>15, <2>1, <2>2
<1>16. /\ quantity \in Int /\ quantity % s.step = 0
       /\ quantity > 0 => quantity <= Min(caps) /\ Min(caps) < quantity + s.step
  <2> DEFINE m == AtLeastZero(Min(caps))
  <2>1. m \in Int /\ (Min(caps) > 0 => m = Min(caps)) /\ (Min(caps) <= 0 => m = 0)
    BY <1>14 DEF AtLeastZero
  <2>2. quantity = StepDown(m, s.step)
    OBVIOUS
  <2> HIDE DEF m, quantity
  <2>3. quantity \in Int /\ quantity <= m /\ m < quantity + s.step /\ quantity % s.step = 0
    BY <1>3, <2>1, <2>2, DownToStep
  <2>4. QED
    BY <1>14, <2>1, <2>3
<1> HIDE DEF quantity
<1>17. quantity > 0 => Fits(quantity, s)
  BY <1>15, <1>16
<1>18. quantity + s.step \in Int /\ (quantity > 0 => quantity + s.step > 0 /\ ~(quantity + s.step <= Min(caps)))
  BY <1>3, <1>14, <1>16
<1>19. quantity > 0 => ~Fits(quantity + s.step, s)
  BY <1>15, <1>18
<1>20. QED
  BY <1>1, <1>16, <1>17, <1>19

LEMMA SizingTyped ==
  ASSUME RiskConstants, NEW s \in Snapshots PROVE Sizing(s).quantity \in Int
<1>1. CASE Sizing(s).computable
  BY <1>1, SizeFits
<1>2. CASE ~Sizing(s).computable
  BY <1>2 DEF Sizing, NotSized
<1>3. QED
  BY <1>1, <1>2

----------------------------------------------------------------------------
(* The rules                                                               *)

LEMMA NatHasLeast ==
  ASSUME NEW T \in SUBSET Nat, T # {}
  PROVE  Min(T) \in T /\ \A x \in T : Min(T) <= x
<1>1. PICK m \in T : \A x \in T : ~(<<x, m>> \in OpToRel(<, Nat))
  BY NatLessThanWellFounded, WFMin
<1>2. \A x \in T : ~(x < m)
  BY <1>1 DEF OpToRel
<1>3. \A x \in T : m <= x
  BY <1>2
<1>4. QED
  BY <1>3 DEF Min

Verdicts == {Pass, Block, BlockNew, Kill, FailLock, Unknown, Critical}
Directives == {"NONE", "BLOCK_NEW", "ENGAGE_KILL_SWITCH", "ERROR_LOCK"}

\* Every rule gives one of seven verdicts.
LEMMA RulesTyped ==
  ASSUME NEW s, NEW z PROVE \A i \in 1..26 : RISK_RULES(s, z)[i] \in Verdicts
<1>1. /\ ShadowMode(s) \in Verdicts /\ Session(s) \in Verdicts /\ PortfolioConsistencyRule(s) \in Verdicts
      /\ AssetScope(s) \in Verdicts /\ LongOnly(s) \in Verdicts /\ NoLeverage(s) \in Verdicts
  BY DEF Verdicts, ShadowMode, Session, PortfolioConsistencyRule, AssetScope, LongOnly, NoLeverage
<1>2. /\ StopRequired(s, z) \in Verdicts /\ MinRewardRisk(s, z) \in Verdicts /\ RiskPerTrade(s, z) \in Verdicts
      /\ DailyLoss(s) \in Verdicts /\ OpenPositions(s) \in Verdicts /\ TradesPerDay(s) \in Verdicts
  BY DEF Verdicts, StopRequired, MinRewardRisk, RiskPerTrade, DailyLoss, OpenPositions, TradesPerDay
<1>3. \A current, pct : Exposure(s, z, current, pct) \in Verdicts
  BY DEF Verdicts, Exposure
<1>4. GrossExposureRule(s, z) \in Verdicts /\ AssetExposureRule(s, z) \in Verdicts /\ Correlation(s, z) \in Verdicts
  BY <1>3 DEF Verdicts, GrossExposureRule, AssetExposureRule, Correlation
<1>5. /\ DataFreshness(s) \in Verdicts /\ DataQuality(s) \in Verdicts /\ Spread(s) \in Verdicts
      /\ Slippage(s, z) \in Verdicts /\ Regime(s) \in Verdicts /\ LossStreak(s) \in Verdicts
  BY DEF Verdicts, DataFreshness, DataQuality, Spread, Slippage, Regime, LossStreak
<1>6. /\ NoScaleIn(s) \in Verdicts /\ NoMartingale(s) \in Verdicts /\ NoPostLossIncrease(s, z) \in Verdicts
      /\ InstrumentMinimums(s, z) \in Verdicts /\ IdempotencyVersion(s) \in Verdicts
  BY DEF Verdicts, NoScaleIn, NoMartingale, NoPostLossIncrease, InstrumentMinimums, IdempotencyVersion
<1>7. QED
  BY <1>1, <1>2, <1>4, <1>5, <1>6 DEF RISK_RULES

\* The directives are ordered: of some there is a strongest.
LEMMA StrongestOfSome ==
  ASSUME NEW D \in SUBSET Directives, D # {}
  PROVE  Strongest(D) \in D /\ \A d \in D : DIRECTIVE_RANK[d] <= DIRECTIVE_RANK[Strongest(D)]
<1> DEFINE Greatest(d) == d \in D /\ \A e \in D : DIRECTIVE_RANK[e] <= DIRECTIVE_RANK[d]
<1>1. /\ DIRECTIVE_RANK["NONE"] = 0 /\ DIRECTIVE_RANK["BLOCK_NEW"] = 1
      /\ DIRECTIVE_RANK["ENGAGE_KILL_SWITCH"] = 2 /\ DIRECTIVE_RANK["ERROR_LOCK"] = 3
  BY DEF DIRECTIVE_RANK
<1>2. \A e \in D : e \in Directives /\ DIRECTIVE_RANK[e] \in 0..3
  BY <1>1 DEF Directives
<1>3. CASE "ERROR_LOCK" \in D
  <2>1. Greatest("ERROR_LOCK")
    BY <1>1, <1>2, <1>3
  <2>2. QED
    BY <2>1 DEF Strongest
<1>4. CASE "ERROR_LOCK" \notin D /\ "ENGAGE_KILL_SWITCH" \in D
  <2>1. Greatest("ENGAGE_KILL_SWITCH")
    BY <1>1, <1>4 DEF Directives
  <2>2. QED
    BY <2>1 DEF Strongest
<1>5. CASE "ERROR_LOCK" \notin D /\ "ENGAGE_KILL_SWITCH" \notin D /\ "BLOCK_NEW" \in D
  <2>1. Greatest("BLOCK_NEW")
    BY <1>1, <1>5 DEF Directives
  <2>2. QED
    BY <2>1 DEF Strongest
<1>6. CASE D = {"NONE"}
  <2>1. Greatest("NONE")
    BY <1>1, <1>6
  <2>2. QED
    BY <2>1 DEF Strongest
<1>7. QED
  BY <1>3, <1>4, <1>5, <1>6 DEF Directives

\* What an evaluation says, in terms of the verdicts of its rules.
LEMMA EvaluationIs ==
  ASSUME NEW s
  PROVE  LET rules == RISK_RULES(s, Sizing(s))  v == EvaluateRisk(s) IN
         /\ v.outcome \in {"ERROR", "REJECTED", "APPROVED"} /\ v.directive \in Directives
         /\ v.outcome = "APPROVED" => /\ v.quantity = Sizing(s).quantity
                                      /\ \A i \in 1..26 : rules[i] = Pass
         /\ v.outcome # "APPROVED" => v.quantity = 0
         /\ \A i \in 1..26 : DIRECTIVE_RANK[rules[i].directive] <= DIRECTIVE_RANK[v.directive]
<1> DEFINE rules == RISK_RULES(s, Sizing(s))
           results == {rules[i] : i \in DOMAIN rules}
           outcomes == {r.outcome : r \in results}
           outcome == IF "ERROR" \in outcomes THEN "ERROR"
                      ELSE IF "FAIL" \in outcomes THEN "REJECTED" ELSE "APPROVED"
           kept == {r.directive : r \in results} \cup (IF outcome = "ERROR" THEN {"BLOCK_NEW"} ELSE {})
           v == EvaluateRisk(s)
<1>1. /\ v.outcome = outcome /\ v.directive = Strongest(kept)
      /\ v.quantity = IF outcome = "APPROVED" THEN Sizing(s).quantity ELSE 0
  BY DEF EvaluateRisk, SummarizeResults
<1>2. DOMAIN rules = 1..26
  BY DEF RISK_RULES
<1>3. \A i \in 1..26 : rules[i] \in Verdicts
  BY RulesTyped
<1> HIDE DEF rules, v
<1>4. \A r \in Verdicts : r.directive \in Directives /\ (r.outcome \in {"FAIL", "ERROR"} \/ r = Pass)
  BY DEF Verdicts, Directives, Pass, Block, BlockNew, Kill, FailLock, Unknown, Critical
<1>5. outcome = "APPROVED" => \A i \in 1..26 : rules[i] = Pass
  BY <1>2, <1>3, <1>4
<1>6. kept \in SUBSET Directives /\ kept # {} /\ \A i \in 1..26 : rules[i].directive \in kept
  <2>1. kept \in SUBSET Directives
    BY <1>2, <1>3, <1>4 DEF Directives
  <2>2. \A i \in 1..26 : rules[i].directive \in kept
    BY <1>2
  <2>3. 1 \in 1..26
    OBVIOUS
  <2>4. QED
    BY <2>1, <2>2, <2>3
<1> HIDE DEF kept
<1>7. Strongest(kept) \in Directives /\ \A i \in 1..26 : DIRECTIVE_RANK[rules[i].directive] <= DIRECTIVE_RANK[Strongest(kept)]
  BY <1>6, StrongestOfSome
<1>8. outcome \in {"ERROR", "REJECTED", "APPROVED"}
  OBVIOUS
<1> HIDE DEF outcome
<1>9. QED
  BY <1>1, <1>5, <1>7, <1>8 DEF rules, v

\* The readings the proofs of the rules need.
LEMMA Readings ==
  ASSUME RiskConstants, NEW s \in Snapshots
  PROVE  /\ s.books \in {"unreadable", "frozen", "damaged", "ok"} /\ s.group \in {"ok", "missing"}
         /\ s.age \in {"fresh", "stale", "unknown", "future"} /\ s.quality \in {"ok", "poor", "unknown", "contradictory"}
         /\ s.direction \in {"LONG", "SHORT", "NONE"} /\ s.history \in Seq({"WIN", "LOSS", "EVEN", "RELEASE"})
         /\ s.entry \in Int /\ s.stop \in Int /\ s.target \in Int /\ s.startOfDay \in Int /\ s.equity \in Int
         /\ s.spreadBps \in Int /\ s.slippageBps \in Int
<1>1. s \in SnapshotReadings
  BY DEF RiskConstants
<1>2. s.books \in {"unreadable", "frozen", "damaged", "ok"} /\ s.group \in {"ok", "missing"}
  BY <1>1 DEF SnapshotReadings
<1>3. s.age \in {"fresh", "stale", "unknown", "future"} /\ s.quality \in {"ok", "poor", "unknown", "contradictory"}
  BY <1>1 DEF SnapshotReadings
<1>4. s.direction \in {"LONG", "SHORT", "NONE"} /\ s.history \in Seq({"WIN", "LOSS", "EVEN", "RELEASE"})
  BY <1>1 DEF SnapshotReadings
<1>5. /\ s.entry \in Int /\ s.stop \in Int /\ s.target \in Int /\ s.startOfDay \in Int /\ s.equity \in Int
      /\ s.spreadBps \in Int /\ s.slippageBps \in Int
  BY <1>1 DEF SnapshotReadings
<1>6. QED
  BY <1>2, <1>3, <1>4, <1>5

\* An approval has passed every rule, so every value it rests on was read.
LEMMA ApprovalIsKnown ==
  ASSUME RiskConstants, NEW s \in Snapshots, EvaluateRisk(s).outcome = "APPROVED"
  PROVE  /\ \A v \in {"missing", "unknown", "unreadable", "NONE"} :
              v \notin {s.limits, s.profile, s.age, s.quality, s.regime, s.group, s.books, s.session, s.direction}
         /\ Missing \notin {s.entry, s.stop, s.target, s.startOfDay, s.equity, s.spreadBps, s.slippageBps}
         /\ Sizing(s).computable /\ Sizing(s).quantity > 0
<1> DEFINE z == Sizing(s)
           rules == RISK_RULES(s, z)
<1>1. \A i \in 1..26 : rules[i] = Pass
  BY EvaluationIs
<1>2. /\ s.books \in {"unreadable", "frozen", "damaged", "ok"} /\ s.group \in {"ok", "missing"}
      /\ s.age \in {"fresh", "stale", "unknown", "future"} /\ s.quality \in {"ok", "poor", "unknown", "contradictory"}
      /\ s.direction \in {"LONG", "SHORT", "NONE"} /\ s.entry \in Int /\ s.stop \in Int /\ s.target \in Int
      /\ s.startOfDay \in Int /\ s.equity \in Int /\ s.spreadBps \in Int /\ s.slippageBps \in Int
  BY Readings
<1>3. /\ rules[2] = Session(s) /\ rules[3] = PortfolioConsistencyRule(s) /\ rules[5] = LongOnly(s)
      /\ rules[7] = StopRequired(s, z) /\ rules[8] = MinRewardRisk(s, z) /\ rules[9] = RiskPerTrade(s, z)
      /\ rules[10] = DailyLoss(s) /\ rules[15] = Correlation(s, z) /\ rules[16] = DataFreshness(s)
  BY DEF RISK_RULES
<1>4. /\ rules[17] = DataQuality(s) /\ rules[18] = Spread(s) /\ rules[19] = Slippage(s, z) /\ rules[20] = Regime(s)
      /\ rules[25] = InstrumentMinimums(s, z) /\ rules[26] = IdempotencyVersion(s)
  BY DEF RISK_RULES
<1> HIDE DEF rules, z
<1>5. \A v \in {Block, BlockNew, Kill, FailLock, Unknown, Critical} : v # Pass
  BY DEF Pass, Block, BlockNew, Kill, FailLock, Unknown, Critical
<1>6. s.session = "active"
  BY <1>1, <1>3, <1>5 DEF Session
<1>7. s.books = "ok"
  BY <1>1, <1>2, <1>3, <1>5 DEF PortfolioConsistencyRule
<1>8. s.direction # "NONE"
  BY <1>1, <1>3, <1>5 DEF LongOnly
<1>9. s.entry # Missing /\ ~(s.stop <= 0)
  BY <1>1, <1>3, <1>5 DEF StopRequired
<1>10. s.target # Missing
  BY <1>1, <1>3, <1>5 DEF MinRewardRisk
<1>11. ~(s.equity <= 0) /\ z.computable
  BY <1>1, <1>3, <1>5 DEF RiskPerTrade
<1>12. s.startOfDay # Missing
  BY <1>1, <1>3, <1>5 DEF DailyLoss
<1>13. s.group = "ok"
  BY <1>1, <1>2, <1>3, <1>5 DEF Correlation
<1>14. s.age = "fresh"
  BY <1>1, <1>2, <1>3, <1>5 DEF DataFreshness
<1>15. s.quality = "ok"
  BY <1>1, <1>2, <1>4, <1>5 DEF DataQuality
<1>16. s.profile = "active" /\ ~(s.spreadBps < 0)
  BY <1>1, <1>4, <1>5 DEF Spread
<1>17. ~(s.slippageBps < 0)
  BY <1>1, <1>4, <1>5 DEF Slippage
<1>18. s.regime = "fits"
  BY <1>1, <1>4, <1>5 DEF Regime
<1>19. ~(z.quantity <= 0)
  BY <1>1, <1>4, <1>5 DEF InstrumentMinimums
<1>20. s.limits = "pinned"
  BY <1>1, <1>4, <1>5 DEF IdempotencyVersion
<1>21. Missing \notin {s.entry, s.stop, s.target, s.startOfDay, s.equity, s.spreadBps, s.slippageBps}
  BY <1>2, <1>9, <1>10, <1>11, <1>12, <1>16, <1>17 DEF Missing
<1>22. s.direction \in {"LONG", "SHORT"}
  BY <1>2, <1>8
<1>23. z.quantity > 0
  BY <1>11, <1>19, SizingTyped DEF z
<1>24. QED
  BY <1>6, <1>7, <1>11, <1>13, <1>14, <1>15, <1>16, <1>18, <1>20, <1>21, <1>22, <1>23 DEF z

----------------------------------------------------------------------------
(* Losses                                                                  *)

\* Losses that no win and no release follows all count in the streak.
LEMMA StreakCounts ==
  ASSUME NEW history \in Seq({"WIN", "LOSS", "EVEN", "RELEASE"}),
         NEW I \in SUBSET {i \in DOMAIN history : history[i] = "LOSS"},
         \A i \in I : \A j \in 1..i : history[j] \notin {"WIN", "RELEASE"}
  PROVE  Streak(history) \in Nat /\ Cardinality(I) <= Streak(history)
<1> DEFINE ends == {i \in DOMAIN history : history[i] \in {"WIN", "RELEASE"}}
           upTo == IF ends = {} THEN Len(history) ELSE Min(ends) - 1
           counted == {i \in 1..upTo : history[i] = "LOSS"}
<1>1. DOMAIN history = 1..Len(history) /\ Len(history) \in Nat
  OBVIOUS
<1>2. upTo \in Int /\ \A i \in I : i <= upTo
  <2>1. CASE ends = {}
    BY <1>1, <2>1
  <2>2. CASE ends # {}
    <3>1. Min(ends) \in ends /\ Min(ends) \in 1..Len(history)
      BY <1>1, <2>2, NatHasLeast
    <3>2. ASSUME NEW i \in I PROVE i < Min(ends)
      <4>1. i \in Nat /\ i \in 1..Len(history)
        BY <1>1
      <4>2. CASE Min(ends) <= i
        <5>1. Min(ends) \in 1..i
          BY <3>1, <4>1, <4>2
        <5>2. QED
          BY <3>1, <5>1
      <4>3. QED
        BY <3>1, <4>1, <4>2
    <3>3. Min(ends) \in Int /\ upTo = Min(ends) - 1 /\ \A i \in I : i \in Int
      BY <1>1, <2>2, <3>1
    <3> DEFINE m == Min(ends)
    <3>4. m \in Int /\ upTo = m - 1 /\ \A i \in I : i \in Int /\ i < m
      BY <3>2, <3>3
    <3> HIDE DEF m, ends, upTo
    <3>5. QED
      BY <3>4
  <2>3. QED
    BY <2>1, <2>2
<1> HIDE DEF upTo
<1>3. IsFiniteSet(counted)
  <2>1. IsFiniteSet(1..upTo)
    BY <1>2, FS_Interval
  <2>2. QED
    BY <2>1, FS_Subset
<1>4. I \in SUBSET counted
  BY <1>1, <1>2
<1>5. Cardinality(counted) \in Nat /\ Cardinality(I) <= Cardinality(counted)
  BY <1>3, <1>4, FS_Subset, FS_CardinalityType
<1>6. Streak(history) = Cardinality(counted)
  BY DEF Streak, upTo
<1>7. QED
  BY <1>5, <1>6

\* Losses at the limit make some rule ask for the kill switch, and only a lock is
\* stronger.
LEMMA LossesAskForTheSwitch ==
  ASSUME RiskConstants, NEW s \in Snapshots, LossesEndTheDay(s)
  PROVE  EvaluateRisk(s).directive \in {"ENGAGE_KILL_SWITCH", "ERROR_LOCK"}
<1> DEFINE rules == RISK_RULES(s, Sizing(s))
           v == EvaluateRisk(s)
<1>1. /\ Limits.maxConsecutiveLosses \in Int /\ s.startOfDay \in Int
      /\ s.history \in Seq({"WIN", "LOSS", "EVEN", "RELEASE"})
  BY Readings DEF RiskConstants, LimitSet
<1>2. rules[10] = DailyLoss(s) /\ rules[21] = LossStreak(s)
  BY DEF RISK_RULES
<1>3. v.directive \in Directives /\ \A i \in 1..26 : DIRECTIVE_RANK[rules[i].directive] <= DIRECTIVE_RANK[v.directive]
  BY EvaluationIs
<1> HIDE DEF rules, v
<1>4. ~NoLimits(s)
  BY DEF LossesEndTheDay, NoLimits
<1>5. rules[10] = Kill \/ rules[21] = Kill
  <2>1. CASE s.startOfDay > 0 /\ s.dailyPnl <= -MulDown(s.startOfDay, Limits.maxDailyLossPct)
    <3>1. s.startOfDay # Missing /\ s.startOfDay # 0
      BY <1>1, <2>1 DEF Missing
    <3>2. DailyLoss(s) = Kill
      BY <1>4, <2>1, <3>1 DEF DailyLoss, DayIsLost
    <3>3. QED
      BY <1>2, <3>2
  <2>2. CASE \E I \in SUBSET {i \in DOMAIN s.history : s.history[i] = "LOSS"} :
               /\ Cardinality(I) = Limits.maxConsecutiveLosses
               /\ \A i \in I : \A j \in 1..i : s.history[j] \notin {"WIN", "RELEASE"}
    <3>2. Streak(s.history) \in Nat /\ Limits.maxConsecutiveLosses <= Streak(s.history)
      BY <1>1, <2>2, StreakCounts
    <3>3. LossStreak(s) = Kill
      BY <1>1, <1>4, <3>2 DEF LossStreak
    <3>4. QED
      BY <1>2, <3>3
  <2>3. QED
    BY <2>1, <2>2 DEF LossesEndTheDay
<1>6. DIRECTIVE_RANK[v.directive] >= 2
  <2>1. Kill.directive = "ENGAGE_KILL_SWITCH" /\ DIRECTIVE_RANK["ENGAGE_KILL_SWITCH"] = 2
    BY DEF Kill, DIRECTIVE_RANK
  <2>2. DIRECTIVE_RANK[v.directive] \in 0..3
    BY <1>3 DEF Directives, DIRECTIVE_RANK
  <2>3. 10 \in 1..26 /\ 21 \in 1..26
    OBVIOUS
  <2>4. QED
    BY <1>3, <1>5, <2>1, <2>2, <2>3
<1>7. QED
  BY <1>3, <1>6 DEF Directives, DIRECTIVE_RANK, v

----------------------------------------------------------------------------
(* The risk job                                                            *)

\* Each stage has what the stages before it made; a switch that was asked for is engaged
\* before the session is read for the lock, or was dropped.
Decided == {"evaluated", "recorded", "engaging", "directed", "locking", "done"}
RiskInv ==
  /\ stage \in {"loaded", "assembled"} \cup Decided
  /\ openSession \in Sessions /\ lockedByRisk \subseteq {"session", "portfolio"}
  /\ overtaken \in BOOLEAN /\ stopped \in BOOLEAN /\ dropped \in BOOLEAN
  /\ stage # "loaded" => snapshot \in Snapshots
  /\ stage = "loaded" => snapshot = NotAssembled
  /\ stage \in {"loaded", "assembled"} => verdict = NoVerdict
  /\ stage \in Decided => verdict = EvaluateRisk(snapshot)
  /\ stage \in {"directed", "locking", "done"} /\ verdict.directive = "ENGAGE_KILL_SWITCH" =>
       stopped = TRUE \/ dropped = TRUE

\* A verdict is the evaluation of the snapshot that was assembled, while its directive is
\* carried out and after it (shadowAssessRisk.ts).
THEOREM RiskInvariant ==
  RiskSpec => []RiskInv
<1>1. RiskInit => RiskInv
  BY DEF RiskInit, RiskInv, Sessions, Decided
<1>2. RiskInv /\ [RiskNext]_riskVars => RiskInv'
  <2> SUFFICES ASSUME RiskInv, [RiskNext]_riskVars PROVE RiskInv'
    OBVIOUS
  <2>1. CASE Assemble
    BY <2>1 DEF Assemble, RiskInv, sessionVars, Decided
  <2>2. CASE Evaluate
    BY <2>2 DEF Evaluate, RiskInv, sessionVars, Decided
  <2>3. CASE Record
    BY <2>3 DEF Record, AfterDirective, RiskInv, sessionVars, Decided
  <2>4. CASE Drop
    BY <2>4 DEF Drop, RiskInv, Decided
  <2>5. CASE ReadForSwitch
    BY <2>5 DEF ReadForSwitch, AfterDirective, RiskInv, Decided
  <2>6. CASE EngageSwitch
    BY <2>6 DEF EngageSwitch, AfterDirective, RiskInv, Sessions, Decided
  <2>7. CASE ReadForLock
    BY <2>7 DEF ReadForLock, RiskInv, Decided
  <2>8. CASE LockForLimits
    BY <2>8 DEF LockForLimits, RiskInv, Sessions, Decided
  <2>9. CASE OtherWriter
    BY <2>9 DEF OtherWriter, RiskInv, Decided
  <2>10. CASE UNCHANGED riskVars
    BY <2>10 DEF riskVars, RiskInv
  <2>11. QED
    BY <2>1, <2>2, <2>3, <2>4, <2>5, <2>6, <2>7, <2>8, <2>9, <2>10 DEF RiskNext
<1>3. QED
  BY <1>1, <1>2, PTL DEF RiskSpec

\* An approval comes from an evaluation of what was assembled.
LEMMA ApprovedByEvaluation ==
  ASSUME RiskInv, verdict.outcome = "APPROVED"
  PROVE  snapshot \in Snapshots /\ verdict = EvaluateRisk(snapshot)
BY DEF RiskInv, NoVerdict, Decided

\* What a verdict may be.
THEOREM RiskTypeCorrect ==
  ASSUME RiskConstants PROVE RiskSpec => []RiskTypeOK
<1>1. RiskInv => RiskTypeOK
  <2> SUFFICES ASSUME RiskInv PROVE RiskTypeOK
    OBVIOUS
  <2>1. CASE verdict = NoVerdict
    BY <2>1 DEF RiskInv, RiskTypeOK, NoVerdict, DIRECTIVE_RANK, Decided
  <2>2. CASE snapshot \in Snapshots /\ verdict = EvaluateRisk(snapshot)
    <3>1. /\ verdict.outcome \in {"ERROR", "REJECTED", "APPROVED"} /\ verdict.directive \in Directives
          /\ verdict.outcome = "APPROVED" => verdict.quantity = Sizing(snapshot).quantity
          /\ verdict.outcome # "APPROVED" => verdict.quantity = 0
      BY <2>2, EvaluationIs
    <3>2. verdict.quantity >= 0
      <4>1. CASE verdict.outcome = "APPROVED"
        BY <2>2, <3>1, <4>1, ApprovalIsKnown, SizingTyped
      <4>2. CASE verdict.outcome # "APPROVED"
        BY <3>1, <4>2
      <4>3. QED
        BY <4>1, <4>2
    <3>3. QED
      BY <3>1, <3>2 DEF RiskInv, RiskTypeOK, DIRECTIVE_RANK, Directives, Decided
  <2>3. QED
    BY <2>1, <2>2 DEF RiskInv
<1>2. QED
  BY <1>1, RiskInvariant, PTL

\* A value that could not be read never leads to an approval, and the approved quantity
\* is the largest multiple of the step within every limit (rules.ts, position-sizing.ts).
THEOREM ApprovalsStaySafe ==
  ASSUME RiskConstants PROVE RiskSpec => []ApprovalsAreSafe
<1>1. RiskInv => UnknownNeverApproves
  BY ApprovedByEvaluation, ApprovalIsKnown DEF UnknownNeverApproves
<1>2. RiskInv => SizeIsLargestThatFits
  <2> SUFFICES ASSUME RiskInv, verdict.outcome = "APPROVED"
               PROVE  /\ verdict.quantity > 0 /\ verdict.quantity % snapshot.step = 0
                      /\ Fits(verdict.quantity, snapshot) /\ ~Fits(verdict.quantity + snapshot.step, snapshot)
    BY DEF SizeIsLargestThatFits
  <2>1. snapshot \in Snapshots /\ verdict = EvaluateRisk(snapshot)
    BY ApprovedByEvaluation
  <2>2. Sizing(snapshot).computable /\ Sizing(snapshot).quantity > 0
    BY <2>1, ApprovalIsKnown
  <2>3. verdict.quantity = Sizing(snapshot).quantity
    BY <2>1, EvaluationIs
  <2>4. QED
    BY <2>1, <2>2, <2>3, SizeFits
<1>3. QED
  BY <1>1, <1>2, RiskInvariant, PTL DEF ApprovalsAreSafe

\* Losses at the limit make the verdict ask for the kill switch or for a lock, and a
\* switch asked for is engaged or its directive dropped by a failure that is named
\* (R-010 and R-021, evaluateRisk, applyRiskDirective).
THEOREM LossesEngage ==
  ASSUME RiskConstants PROVE RiskSpec => []LossesEngageTheSwitch
<1>1. RiskInv => LossesEngageTheSwitch
  <2> SUFFICES ASSUME RiskInv, LossesEndTheDay(snapshot), verdict # NoVerdict
               PROVE  /\ verdict.directive \in {"ENGAGE_KILL_SWITCH", "ERROR_LOCK"}
                      /\ stage = "done" /\ verdict.directive = "ENGAGE_KILL_SWITCH" => stopped \/ dropped
    BY DEF LossesEngageTheSwitch, RiskInv, Decided, NoVerdict
  <2>1. snapshot \in Snapshots /\ verdict = EvaluateRisk(snapshot)
    BY DEF RiskInv, Decided
  <2>2. QED
    BY <2>1, LossesAskForTheSwitch DEF RiskInv
<1>2. QED
  BY <1>1, RiskInvariant, PTL

----------------------------------------------------------------------------
(* The strategy engine                                                     *)

\* A set of natural numbers that is not empty has a least element.
LEMMA HasLeast ==
  ASSUME NEW S \in SUBSET Nat, S # {}
  PROVE  \E m \in S : \A n \in S : m <= n
<1>1. PICK m \in S : \A n \in S : ~(<<n, m>> \in OpToRel(<, Nat))
  BY NatLessThanWellFounded, WFMin
<1>2. \A n \in S : ~(n < m)
  BY <1>1 DEF OpToRel
<1>3. QED
  BY <1>2

\* What the code's summation computes.
SumStep(f, values, n) ==
  f = [i \in 0..n |-> IF i = 0 THEN 0 ELSE f[i - 1] + values[i]]

LEMMA TotalUnfolds ==
  ASSUME NEW values
  PROVE  Total(values) = (CHOOSE f : SumStep(f, values, Len(values)))[Len(values)]
BY DEF Total, SumStep

\* The recursive function of a total exists: a shortest sequence without one has a
\* beginning that has one, which the last element extends.
LEMMA TotalExists ==
  ASSUME NEW values \in Seq(Int)
  PROVE  \A n \in 0..Len(values) : \E f \in [0..n -> Int] : SumStep(f, values, n)
<1> DEFINE C == {n \in 0..Len(values) : ~\E f \in [0..n -> Int] : SumStep(f, values, n)}
<1>1. SUFFICES ASSUME C # {} PROVE FALSE
  OBVIOUS
<1>2. Len(values) \in Nat /\ C \subseteq Nat
  BY LenProperties
<1>3. PICK m \in C : \A k \in C : m <= k
  BY <1>1, <1>2, HasLeast
<1>4. m \in 0..Len(values) /\ ~\E f \in [0..m -> Int] : SumStep(f, values, m)
  BY <1>3
<1>5. CASE m = 0
  <2> DEFINE g == [i \in 0..0 |-> 0]
  <2>1. g \in [0..0 -> Int] /\ SumStep(g, values, 0)
    BY DEF SumStep
  <2>2. QED
    BY <2>1, <1>4, <1>5
<1>6. CASE m # 0
  <2>1. m - 1 \in 0..Len(values) /\ m - 1 < m
    BY <1>4, <1>6, <1>2
  <2>2. PICK f \in [0..(m - 1) -> Int] : SumStep(f, values, m - 1)
    <3>1. ~(m <= m - 1)
      BY <1>4, <1>2
    <3>2. m - 1 \notin C
      BY <3>1, <1>3
    <3>3. QED
      BY <3>2, <2>1
  <2> DEFINE g == [i \in 0..m |-> IF i = m THEN f[m - 1] + values[m] ELSE f[i]]
  <2>3. values[m] \in Int
    BY <1>4, <1>6, <1>2
  <2>4. g \in [0..m -> Int]
    BY <2>1, <2>3, <1>4
  <2>5. \A i \in 0..m : g[i] = IF i = 0 THEN 0 ELSE g[i - 1] + values[i]
    <3>1. SUFFICES ASSUME NEW i \in 0..m PROVE g[i] = IF i = 0 THEN 0 ELSE g[i - 1] + values[i]
      OBVIOUS
    <3>2. CASE i = m
      BY <3>2, <1>4, <1>6, <2>1
    <3>3. CASE i # m
      <4>1. i \in 0..(m - 1)
        BY <3>3, <1>4
      <4>2. f[i] = IF i = 0 THEN 0 ELSE f[i - 1] + values[i]
        BY <4>1, <2>2 DEF SumStep
      <4>3. i # 0 => i - 1 \in 0..m /\ i - 1 # m
        BY <4>1, <1>4
      <4>4. QED
        BY <4>1, <4>2, <4>3, <3>3
    <3>4. QED
      BY <3>2, <3>3
  <2>6. SumStep(g, values, m)
    BY <2>5, Zenon DEF SumStep
  <2>7. QED
    BY <2>4, <2>6, <1>4
<1>7. QED
  BY <1>5, <1>6
LEMMA TotalIsInteger ==
  ASSUME NEW values \in Seq(Int)
  PROVE  Total(values) \in Int
<1> DEFINE n == Len(values)
           f == CHOOSE g : SumStep(g, values, n)
<1>1. n \in Nat
  BY LenProperties
<1>2. SumStep(f, values, n)
  BY <1>1, TotalExists
<1>3. f = [i \in 0..n |-> IF i = 0 THEN 0 ELSE f[i - 1] + values[i]]
  BY <1>2 DEF SumStep
<1> HIDE DEF f
<1>4. \A i \in 0..n : f[i] = IF i = 0 THEN 0 ELSE f[i - 1] + values[i]
  BY <1>3
<1> DEFINE C == {i \in 0..n : f[i] \notin Int}
<1>5. ASSUME C # {} PROVE FALSE
  <2>1. C \in SUBSET Nat
    BY <1>1
  <2>2. PICK m \in C : \A k \in C : m <= k
    BY <1>5, <2>1, HasLeast
  <2>3. m \in 0..n /\ m # 0
    BY <2>2, <1>4
  <2>4. m - 1 \in 0..n /\ ~(m <= m - 1)
    BY <2>3, <1>1
  <2>5. f[m - 1] \in Int
    BY <2>2, <2>4
  <2>6. values[m] \in Int
    BY <2>3, <1>1
  <2>7. QED
    BY <2>2, <2>3, <2>5, <2>6, <1>4
<1>6. f[n] \in Int
  BY <1>5, <1>1
<1>7. Total(values) = f[n]
  BY TotalUnfolds DEF f
<1>8. QED
  BY <1>6, <1>7

\* The average true range of a series is a number.
LEMMA RangeIsInteger ==
  ASSUME NEW candles \in Seq(SnapshotCandleV1), NEW n \in Nat \ {0}
  PROVE  AverageTrueRange(candles, n) \in Int
<1>1. CASE Len(candles) < n + 1
  BY <1>1 DEF AverageTrueRange, Unavailable
<1>2. CASE ~(Len(candles) < n + 1)
  <2> DEFINE w == LastOf(candles, n + 1)
             ranges == [i \in 1..n |-> TrueRange(w[i + 1], w[i])]
  <2>1. Len(candles) \in Nat /\ n + 1 <= Len(candles)
    BY <1>2, LenProperties
  <2>2. \A i \in 1..(n + 1) : w[i] \in SnapshotCandleV1
    <3>1. SUFFICES ASSUME NEW i \in 1..(n + 1) PROVE w[i] \in SnapshotCandleV1
      OBVIOUS
    <3>2. w[i] = candles[Len(candles) - (n + 1) + 1 + i - 1]
      BY <2>1, SubSeqProperties DEF LastOf
    <3>3. Len(candles) - (n + 1) + 1 + i - 1 \in 1..Len(candles)
      BY <2>1
    <3>4. QED
      BY <3>2, <3>3
  <2> HIDE DEF w
  <2>3. \A c \in SnapshotCandleV1 : c.high \in Int /\ c.low \in Int /\ c.last \in Int
    BY DEF SnapshotCandleV1
  <2>4. \A c, p \in SnapshotCandleV1 : TrueRange(c, p) \in Int
    BY <2>3 DEF TrueRange, Greater, Magnitude
  <2>5. \A i \in 1..n : ranges[i] \in Int
    BY <2>2, <2>4
  <2>6. ranges \in Seq(Int) /\ Len(ranges) = n
    BY <2>5
  <2> HIDE DEF ranges
  <2>7. Total(ranges) \in Int
    BY <2>6, TotalIsInteger
  <2>8. (2 * Total(ranges) + n) \div (2 * n) \in Int
    BY <2>7
  <2>9. AverageTrueRange(candles, n) = (2 * Total(ranges) + n) \div (2 * n)
    BY <1>2, <2>6 DEF AverageTrueRange, Mean, HalfUp, ranges, w
  <2>10. QED
    BY <2>8, <2>9
<1>3. QED
  BY <1>1, <1>2

----------------------------------------------------------------------------
(* The plan                                                                *)

\* What the proofs assume of the constants: inputs that fit the contract and periods
\* of at least one candle.
StrategyConstants ==
  /\ Inputs \subseteq StrategyInputSnapshotV1
  /\ Periods.minimum \in Nat \ {0} /\ Periods.atr \in Nat \ {0}

\* What the proofs use of each strategy's rules.
LEMMA RulesOfKeys ==
  ASSUME NEW s, s.key \in RegisteredKeys
  PROVE  /\ Rules(s).direction \in {"LONG", "SHORT"} /\ Rules(s).trend \in BOOLEAN /\ Rules(s).aligned \in BOOLEAN
         /\ Rules(s).stopAtr \in Int /\ Rules(s).stopAtr >= 15 /\ Rules(s).floorPct \in Int
         /\ Rules(s).capPct \in Int /\ Rules(s).target \in Int
<1>1. s.key \in {"CRYPTO_MTF_BREAKOUT_V1", "CRYPTO_MTF_BREAKOUT_LONG_V1", "CRYPTO_TREND_CORE_LONG_V1",
                 "CRYPTO_MTF_BREAKDOWN_SHORT_V1", "CRYPTO_REGIME_LONG_V1"}
  BY DEF RegisteredKeys, StrategyDefinitions
<1>2. CASE s.key = "CRYPTO_MTF_BREAKOUT_V1"
  <2>1. Rules(s) = [BreakoutRules EXCEPT !.aligned = FALSE]
    BY <1>2 DEF Rules, StrategyDefinitions
  <2>2. QED
    BY <2>1 DEF BreakoutRules
<1>3. CASE s.key = "CRYPTO_MTF_BREAKOUT_LONG_V1"
  <2>1. Rules(s) = BreakoutRules
    BY <1>3 DEF Rules, StrategyDefinitions
  <2>2. QED
    BY <2>1 DEF BreakoutRules
<1>4. CASE s.key = "CRYPTO_TREND_CORE_LONG_V1"
  <2>1. Rules(s) = [BreakoutRules EXCEPT !.signals = FALSE, !.volume = 0, !.rsiMin = 0, !.rsiMax = 10000, !.atrMin = 0,
                                           !.atrMax = 10000, !.floorPct = 175, !.capPct = 600, !.target = 30, !.source = "native"]
    BY <1>4 DEF Rules, StrategyDefinitions
  <2>2. QED
    BY <2>1 DEF BreakoutRules
<1>5. CASE s.key = "CRYPTO_MTF_BREAKDOWN_SHORT_V1"
  <2>1. Rules(s) = [BreakoutRules EXCEPT !.direction = "SHORT", !.rsiMin = 2800, !.rsiMax = 5000, !.regime = "RISK_OFF"]
    BY <1>5 DEF Rules, StrategyDefinitions
  <2>2. QED
    BY <2>1 DEF BreakoutRules
<1>6. CASE s.key = "CRYPTO_REGIME_LONG_V1"
  <2>1. Rules(s) = [BreakoutRules EXCEPT !.trend = FALSE, !.signals = FALSE, !.stopAtr = 20, !.floorPct = 0, !.capPct = 10000,
                                           !.target = 40, !.source = "native"]
    BY <1>6 DEF Rules, StrategyDefinitions
  <2>2. QED
    BY <2>1 DEF BreakoutRules
<1>7. QED
  BY <1>1, <1>2, <1>3, <1>4, <1>5, <1>6

LEMMA CeilBounds ==
  ASSUME NEW a \in Int, NEW b \in Int, b > 0
  PROVE  Ceil(a, b) \in Int /\ a <= b * Ceil(a, b)
<1>1. (-a) \div b \in Int /\ b * ((-a) \div b) <= -a
  OBVIOUS
<1>2. b * (-((-a) \div b)) = -(b * ((-a) \div b))
  BY <1>1
<1>3. QED
  BY <1>1, <1>2 DEF Ceil

LEMMA FloorBounds ==
  ASSUME NEW a \in Int, NEW step \in Int, step > 0
  PROVE  /\ StepFloor(a, step) \in Int /\ StepFloor(a, step) <= a /\ StepFloor(a, step) % step = 0
         /\ StepCeil(a, step) \in Int /\ a <= StepCeil(a, step) /\ StepCeil(a, step) % step = 0
<1>1. a \div step \in Int /\ (a \div step) * step <= a
  OBVIOUS
<1>2. \A q \in Int : (q * step) % step = 0
  OBVIOUS
<1>3. Ceil(a, step) \in Int /\ a <= Ceil(a, step) * step
  BY CeilBounds
<1> HIDE DEF Ceil
<1>4. (a \div step) * step \in Int /\ Ceil(a, step) * step \in Int
  BY <1>1, <1>3
<1>5. QED
  BY <1>1, <1>2, <1>3, <1>4 DEF StepFloor, StepCeil

\* Aligning moves a price down for a long, up for a short strategy, to a tick.
LEMMA AlignedPrice ==
  ASSUME NEW s \in StrategyInputSnapshotV1, s.key \in RegisteredKeys, TickUsable(s), NEW price \in Int
  PROVE  /\ Aligned(s, price) \in Int
         /\ IF IsShort(s) THEN price <= Aligned(s, price) ELSE Aligned(s, price) <= price
         /\ Rules(s).aligned => Aligned(s, price) % s.tick = 0
<1>1. s.tick \in Int
  BY DEF StrategyInputSnapshotV1
<1>2. CASE Rules(s).aligned
  <2>1. s.tick > 0
    BY <1>2 DEF TickUsable, TickAligns
  <2>2. Aligned(s, price) = IF IsShort(s) THEN StepCeil(price, s.tick) ELSE StepFloor(price, s.tick)
    BY <1>2 DEF Aligned, TickAligns, AlignToTick
  <2>3. QED
    BY <1>1, <2>1, <2>2, FloorBounds
<1>3. CASE ~Rules(s).aligned
  BY <1>3 DEF Aligned, TickAligns
<1>4. QED
  BY <1>2, <1>3

\* The anchor candle of a valid input is one of its series, consistent in itself.
LEMMA AnchorIsSound ==
  ASSUME StrategyConstants, NEW s \in StrategyInputSnapshotV1, InputValid(s), NEW t \in Timeframes
  PROVE  /\ s.series[t] \in Seq(SnapshotCandleV1)
         /\ Anchor(s, t) \in SnapshotCandleV1 /\ Anchor(s, t).last \in Int /\ Anchor(s, t).last > 0
         /\ \A i \in DOMAIN s.series[t] : s.series[t][i].close >= 0
<1> DEFINE candles == s.series[t]
<1>1. candles \in Seq(SnapshotCandleV1)
  BY DEF StrategyInputSnapshotV1
<1>2. SeriesValid(t, candles)
  BY DEF InputValid
<1> HIDE DEF candles
<1>3. Len(candles) \in 1..Len(candles) /\ DOMAIN candles = 1..Len(candles)
  BY <1>1, <1>2 DEF SeriesValid, StrategyConstants
<1>4. candles[Len(candles)] \in SnapshotCandleV1
  BY <1>1, <1>3
<1>5. 0 < candles[Len(candles)].low /\ candles[Len(candles)].low <= candles[Len(candles)].last
  BY <1>2, <1>3 DEF SeriesValid
<1>6. candles[Len(candles)].low \in Int /\ candles[Len(candles)].last \in Int
  BY <1>4 DEF SnapshotCandleV1
<1>7. \A i \in DOMAIN candles : candles[i].close >= 0
  BY <1>2 DEF SeriesValid
<1>8. QED
  BY <1>1, <1>4, <1>5, <1>6, <1>7 DEF Anchor, candles

\* The ranges a plan is measured in are numbers; a trend strategy measures in hours.
LEMMA RangesOfPlan ==
  ASSUME StrategyConstants, NEW s \in StrategyInputSnapshotV1, s.key \in RegisteredKeys, InputValid(s)
  PROVE  /\ AverageTrueRange(StopSeries(s), Periods.atr) \in Int
         /\ AverageTrueRange(s.series["1h"], Periods.atr) \in Int
         /\ Rules(s).trend => StopSeries(s) = s.series["1h"]
<1>1. s.series["1h"] \in Seq(SnapshotCandleV1) /\ s.series["1d"] \in Seq(SnapshotCandleV1)
  BY AnchorIsSound DEF Timeframes
<1>2. StopSeries(s) \in Seq(SnapshotCandleV1)
  BY <1>1 DEF StopSeries
<1>3. QED
  BY <1>1, <1>2, RangeIsInteger DEF StopSeries, StrategyConstants

\* Where the rules of a strategy put stop and target, seen from the entry.
LEMMA PlanArithmetic ==
  ASSUME StrategyConstants, NEW s \in StrategyInputSnapshotV1, s.key \in RegisteredKeys, InputValid(s),
         TickUsable(s), PlanValid(s, PlanOf(s)),
         NEW rules, rules = Rules(s), NEW plan, plan = PlanOf(s),
         NEW atr, atr = AverageTrueRange(StopSeries(s), Periods.atr),
         NEW hourAtr, hourAtr = AverageTrueRange(s.series["1h"], Periods.atr)
  PROVE  /\ plan.entry \in Int /\ plan.entry > 0 /\ plan.stop \in Int /\ plan.stop > 0
         /\ plan.target \in Int /\ plan.target > 0
         /\ atr \in Int /\ atr > 0 /\ hourAtr \in Int /\ hourAtr > 0 /\ (rules.trend => hourAtr = atr)
         /\ Distance(plan) \in Int /\ Distance(plan) > 0 /\ Reward(plan) \in Int
         /\ rules.stopAtr * atr <= 10 * Distance(plan)
         /\ rules.floorPct * plan.entry <= 10000 * Distance(plan)
         /\ 10000 * Distance(plan) <= rules.capPct * plan.entry
         /\ Reward(plan) >= 2 * Distance(plan)
         /\ 10 * Reward(plan) <= rules.target * Distance(plan)
         /\ rules.aligned => plan.stop % s.tick = 0 /\ plan.target % s.tick = 0
         /\ plan.window \in Int \X Int
         /\ Magnitude(plan.window[2] - plan.window[1]) = Distance(plan) + (hourAtr \div 2)
<1> DEFINE entry == Anchor(s, "1h").last
           a == Ceil(rules.stopAtr * atr, 10)
           b == Ceil(rules.floorPct * entry, 10000)
           wanted == Greater(a, b)
           stop == Aligned(s, entry - Way(s) * wanted)
           distance == Way(s) * (entry - stop)
           x == (rules.target * distance) \div 10
           target == Aligned(s, entry + Way(s) * x)
           gap == hourAtr \div 2
<1>1. /\ rules.direction \in {"LONG", "SHORT"} /\ rules.aligned \in BOOLEAN
      /\ rules.stopAtr \in Int /\ rules.floorPct \in Int /\ rules.capPct \in Int /\ rules.target \in Int
  BY RulesOfKeys
<1>2. entry \in Int /\ entry > 0
  BY AnchorIsSound DEF Timeframes
<1>3. atr \in Int /\ hourAtr \in Int /\ (rules.trend => hourAtr = atr)
  BY RangesOfPlan
<1>4. /\ plan.entry = entry /\ plan.stop = stop /\ plan.target = target
      /\ plan.window = IF IsShort(s) THEN <<entry - gap, stop>> ELSE <<stop, entry + gap>>
  BY DEF PlanOf
<1>5. /\ atr > 0 /\ hourAtr > 0
      /\ Ceil(Distance(plan) * 10000, plan.entry) <= rules.capPct
      /\ plan.stop > 0 /\ plan.target > 0 /\ Reward(plan) >= 2 * Distance(plan)
      /\ Way(s) * (plan.entry - plan.stop) > 0 /\ Way(s) * (plan.target - plan.entry) > 0
  BY DEF PlanValid, RewardSuffices
<1> HIDE DEF entry
<1>6. rules.stopAtr * atr \in Int /\ rules.floorPct * entry \in Int
  BY <1>1, <1>2, <1>3
<1>7. a \in Int /\ rules.stopAtr * atr <= 10 * a /\ b \in Int /\ rules.floorPct * entry <= 10000 * b
  <2> DEFINE p == rules.stopAtr * atr
             q == rules.floorPct * entry
  <2>1. p \in Int /\ q \in Int
    BY <1>6
  <2>2. a = Ceil(p, 10) /\ b = Ceil(q, 10000)
    OBVIOUS
  <2> HIDE DEF a, b, p, q
  <2>3. Ceil(p, 10) \in Int /\ p <= 10 * Ceil(p, 10)
    BY <2>1, CeilBounds
  <2>4. Ceil(q, 10000) \in Int /\ q <= 10000 * Ceil(q, 10000)
    BY <2>1, CeilBounds
  <2>5. a \in Int /\ p <= 10 * a /\ b \in Int /\ q <= 10000 * b
    BY <2>2, <2>3, <2>4
  <2>6. QED
    BY <2>5 DEF p, q
<1> HIDE DEF a, b
<1>8. wanted \in Int /\ a <= wanted /\ b <= wanted
  BY <1>7 DEF Greater
<1> HIDE DEF wanted
<1>9. IF IsShort(s) THEN Way(s) = -1 ELSE Way(s) = 1
  BY DEF Way
<1>10. entry - Way(s) * wanted \in Int
  BY <1>2, <1>8, <1>9
<1>11. /\ stop \in Int /\ (rules.aligned => stop % s.tick = 0)
       /\ IF IsShort(s) THEN entry - Way(s) * wanted <= stop ELSE stop <= entry - Way(s) * wanted
  BY <1>10, AlignedPrice
<1> HIDE DEF stop
<1>12. distance \in Int /\ distance >= wanted
  BY <1>2, <1>8, <1>9, <1>11
<1>13. distance > 0 /\ Distance(plan) = distance
  BY <1>2, <1>4, <1>5, <1>9, <1>11 DEF Distance, Magnitude
<1>14. rules.target * distance \in Int
  BY <1>1, <1>12
<1>15. x \in Int /\ 10 * x <= rules.target * distance
  <2> DEFINE p == rules.target * distance
  <2>1. p \in Int
    BY <1>14
  <2> HIDE DEF p
  <2>2. p \div 10 \in Int /\ 10 * (p \div 10) <= p
    BY <2>1
  <2>3. QED
    BY <2>2 DEF p
<1> HIDE DEF x
<1>16. entry + Way(s) * x \in Int
  BY <1>2, <1>9, <1>15
<1>17. /\ target \in Int /\ (rules.aligned => target % s.tick = 0)
       /\ IF IsShort(s) THEN entry + Way(s) * x <= target ELSE target <= entry + Way(s) * x
  BY <1>16, AlignedPrice
<1> HIDE DEF target
<1>18. Reward(plan) \in Int /\ Reward(plan) <= x
  BY <1>2, <1>4, <1>5, <1>9, <1>15, <1>17 DEF Reward, Magnitude
<1>19. rules.stopAtr * atr <= 10 * distance /\ rules.floorPct * entry <= 10000 * distance
  BY <1>6, <1>7, <1>8, <1>12
<1>20. 10000 * distance <= rules.capPct * entry
  <2> DEFINE c == Ceil(distance * 10000, entry)
  <2>1. c \in Int /\ distance * 10000 <= entry * c
    BY <1>2, <1>12, CeilBounds
  <2>2. c <= rules.capPct
    BY <1>4, <1>5, <1>13
  <2> HIDE DEF c
  <2>3. entry * c <= entry * rules.capPct
    BY <2>1, <2>2, <1>1, <1>2
  <2>4. entry * c \in Int /\ entry * rules.capPct \in Int /\ entry * rules.capPct = rules.capPct * entry
    BY <2>1, <1>1, <1>2
  <2>5. QED
    BY <2>1, <2>3, <2>4, <1>12
<1>21. 10 * Reward(plan) <= rules.target * distance
  BY <1>14, <1>15, <1>18
<1>22. gap \in Int /\ gap >= 0
  BY <1>3, <1>5
<1> HIDE DEF gap
<1>23. plan.window \in Int \X Int /\ Magnitude(plan.window[2] - plan.window[1]) = distance + gap
  <2>1. CASE IsShort(s)
    <3>1. plan.window = <<entry - gap, stop>> /\ Way(s) = -1
      BY <2>1, <1>4, <1>9
    <3>2. distance = stop - entry
      BY <3>1, <1>2, <1>11
    <3> HIDE DEF distance
    <3>3. QED
      BY <3>1, <3>2, <1>2, <1>11, <1>13, <1>22 DEF Magnitude
  <2>2. CASE ~IsShort(s)
    <3>1. plan.window = <<stop, entry + gap>> /\ Way(s) = 1
      BY <2>2, <1>4, <1>9
    <3>2. distance = entry - stop
      BY <3>1, <1>2, <1>11
    <3> HIDE DEF distance
    <3>3. QED
      BY <3>1, <3>2, <1>2, <1>11, <1>13, <1>22 DEF Magnitude
  <2>3. QED
    BY <2>1, <2>2
<1>24. plan.entry \in Int /\ plan.stop \in Int /\ plan.target \in Int
  BY <1>2, <1>4, <1>11, <1>17
<1> HIDE DEF distance
<1>25. QED
  BY <1>2, <1>3, <1>4, <1>5, <1>11, <1>12, <1>13, <1>17, <1>18, <1>19, <1>20, <1>21, <1>23, <1>24 DEF gap

\* What the rules promise of a decided candidate: facts that were there, and a plan
\* that survives the ticks.
LEMMA DecisionIsSound ==
  ASSUME StrategyConstants, input \in StrategyInputSnapshotV1, decision = EvaluateStrategy(input)
  PROVE  CandidatesAreSound /\ decision \in StrategyEvaluationResultV1
<1>1. CASE ~IsCandidate
  <2>1. decision = Refusal("INVALID_INPUT") \/ decision = Refusal("NO_CANDIDATE")
    BY <1>1 DEF IsCandidate, EvaluateStrategy, EvaluateRules, Candidate
  <2>2. <<0, 0>> \in Int \X Int
    OBVIOUS
  <2>3. NoPlan \in TradeCandidateDraftV1
    BY <2>2 DEF NoPlan, TradeCandidateDraftV1
  <2>4. decision \in StrategyEvaluationResultV1
    BY <2>1, <2>3 DEF Refusal, StrategyEvaluationResultV1
  <2>5. QED
    BY <1>1, <2>4 DEF CandidatesAreSound, DecidedOnKnownFacts, PlanSurvivesTicks
<1>2. CASE IsCandidate
  <2> DEFINE plan == decision.plan
             rules == Rules(input)
             atr == AverageTrueRange(StopSeries(input), Periods.atr)
             hourAtr == AverageTrueRange(input.series["1h"], Periods.atr)
  <2>1. /\ input.key \in RegisteredKeys /\ InputValid(input) /\ EntryRules(input)
        /\ TickUsable(input) /\ PlanValid(input, PlanOf(input)) /\ decision = Candidate(input)
    BY <1>2 DEF IsCandidate, EvaluateStrategy, EvaluateRules, Refusal
  <2>2. plan = PlanOf(input) /\ decision = [outcome |-> "CANDIDATE", plan |-> plan]
    BY <2>1 DEF Candidate
  <2>3. DecidedOnKnownFacts
    <3>1. \A t \in Timeframes : \A i \in DOMAIN input.series[t] : input.series[t][i].close >= 0
      BY <2>1, AnchorIsSound
    <3>2. \A t \in Timeframes : input.quality[t].age >= 0 /\ input.signals[t].age >= 0
      BY <2>1 DEF InputValid, QualityValid, SignalValid
    <3>3. input.regime.age >= 0 /\ input.regime.source = Rules(input).source
      BY <2>1 DEF InputValid, RegimeValid
    <3>4. input.signals["1h"].age <= Anchor(input, "1h").close
      <4>1. 0 <= Anchor(input, "1h").close - input.signals["1h"].age
        BY <2>1 DEF InputValid, SignalValid, Timeframes
      <4>2. Anchor(input, "1h").close \in Int
        BY <2>1, AnchorIsSound DEF Timeframes, SnapshotCandleV1
      <4>3. input.signals["1h"].age \in Int
        BY DEF StrategyInputSnapshotV1, SnapshotSignalV1, Timeframes
      <4>4. QED
        BY <4>1, <4>2, <4>3
    <3>5. Anchor(input, "1h").close < CandidateTtl
      BY <2>1 DEF EntryRules, Unexpired
    <3>6. QED
      BY <3>1, <3>2, <3>3, <3>4, <3>5 DEF DecidedOnKnownFacts
  <2> HIDE DEF plan, atr, hourAtr, rules
  <2>4. /\ plan.entry \in Int /\ plan.entry > 0 /\ plan.stop \in Int /\ plan.stop > 0
        /\ plan.target \in Int /\ plan.target > 0
        /\ atr \in Int /\ atr > 0 /\ hourAtr \in Int /\ hourAtr > 0 /\ (rules.trend => hourAtr = atr)
        /\ Distance(plan) \in Int /\ Distance(plan) > 0 /\ Reward(plan) \in Int
        /\ rules.stopAtr * atr <= 10 * Distance(plan)
        /\ rules.floorPct * plan.entry <= 10000 * Distance(plan)
        /\ 10000 * Distance(plan) <= rules.capPct * plan.entry
        /\ Reward(plan) >= 2 * Distance(plan)
        /\ 10 * Reward(plan) <= rules.target * Distance(plan)
        /\ rules.aligned => plan.stop % input.tick = 0 /\ plan.target % input.tick = 0
        /\ plan.window \in Int \X Int
        /\ Magnitude(plan.window[2] - plan.window[1]) = Distance(plan) + (hourAtr \div 2)
    BY <2>1, <2>2, PlanArithmetic DEF rules, atr, hourAtr
  <2>5. rules.stopAtr \in Int /\ rules.stopAtr >= 15 /\ rules.capPct \in Int /\ rules.floorPct \in Int /\ rules.target \in Int
    BY <2>1, RulesOfKeys DEF rules
  <2>6. 15 * atr <= 10 * Distance(plan)
    <3>1. 15 * atr <= rules.stopAtr * atr /\ rules.stopAtr * atr \in Int
      BY <2>4, <2>5
    <3>2. QED
      BY <3>1, <2>4
  <2>7. rules.trend => Magnitude(plan.window[2] - plan.window[1]) < Distance(plan) + Reward(plan)
    <3>1. hourAtr \div 2 \in Int /\ 2 * (hourAtr \div 2) <= hourAtr
      BY <2>4
    <3>2. ASSUME rules.trend PROVE hourAtr \div 2 < Reward(plan)
      BY <3>1, <3>2, <2>4, <2>6
    <3>3. QED
      BY <3>1, <3>2, <2>4
  <2>8. /\ 10 * Distance(plan) >= rules.stopAtr * atr /\ 10000 * Distance(plan) >= rules.floorPct * plan.entry
        /\ 10000 * Distance(plan) <= rules.capPct * plan.entry
    <3>1. rules.stopAtr * atr \in Int /\ rules.floorPct * plan.entry \in Int
      BY <2>4, <2>5
    <3>2. QED
      BY <3>1, <2>4
  <2>9. PlanSurvivesTicks
    BY <2>4, <2>7, <2>8 DEF PlanSurvivesTicks, plan, rules, atr
  <2>10. plan \in TradeCandidateDraftV1
    <3>1. plan = [entry |-> plan.entry, stop |-> plan.stop, target |-> plan.target, window |-> plan.window]
      BY <2>2 DEF PlanOf
    <3>2. plan.entry \in Nat /\ plan.stop \in Nat /\ plan.target \in Nat
      BY <2>4
    <3>3. QED
      BY <3>1, <3>2, <2>4 DEF TradeCandidateDraftV1
  <2>11. QED
    BY <2>2, <2>3, <2>9, <2>10 DEF CandidatesAreSound, StrategyEvaluationResultV1
<1>3. QED
  BY <1>1, <1>2

StrategyInv ==
  /\ evalStage \in {"waiting", "assembled", "decided"}
  /\ evalStage # "waiting" => input \in StrategyInputSnapshotV1
  /\ IF evalStage = "decided" THEN decision = EvaluateStrategy(input) ELSE decision = Undecided

\* What was decided is what the rules say of the snapshot that was assembled.
THEOREM StrategyInvariant == ASSUME StrategyConstants PROVE StrategySpec => []StrategyInv
<1>1. StrategyInit => StrategyInv
  BY DEF StrategyInit, StrategyInv
<1>2. StrategyInv /\ [StrategyNext]_strategyVars => StrategyInv'
  <2>1. ASSUME StrategyInv, AssembleInput PROVE StrategyInv'
    BY <2>1 DEF StrategyInv, AssembleInput, StrategyConstants
  <2>2. ASSUME StrategyInv, EvaluateInput PROVE StrategyInv'
    <3>1. evalStage' = "decided" /\ input' = input /\ decision' = EvaluateStrategy(input)
      BY <2>2 DEF EvaluateInput
    <3>2. EvaluateStrategy(input') = EvaluateStrategy(input)
      BY <3>1
    <3>3. input \in StrategyInputSnapshotV1
      BY <2>2 DEF StrategyInv, EvaluateInput
    <3>4. QED
      BY <3>1, <3>2, <3>3 DEF StrategyInv
  <2>3. ASSUME StrategyInv, UNCHANGED strategyVars PROVE StrategyInv'
    <3>1. evalStage' = evalStage /\ input' = input /\ decision' = decision
      BY <2>3 DEF strategyVars
    <3>2. EvaluateStrategy(input') = EvaluateStrategy(input)
      BY <3>1
    <3>3. QED
      BY <3>1, <3>2, <2>3 DEF StrategyInv
  <2>4. QED
    BY <2>1, <2>2, <2>3 DEF StrategyNext
<1>3. QED
  BY <1>1, <1>2, PTL DEF StrategySpec

\* The state always has its type.
THEOREM StrategyTypeCorrect == ASSUME StrategyConstants PROVE StrategySpec => []StrategyTypeOK
<1>1. StrategyInv => StrategyTypeOK
  <2>1. SUFFICES ASSUME StrategyInv PROVE StrategyTypeOK
    OBVIOUS
  <2>2. CASE evalStage = "decided"
    BY <2>1, <2>2, DecisionIsSound DEF StrategyInv, StrategyTypeOK
  <2>3. CASE evalStage # "decided"
    <3>1. <<0, 0>> \in Int \X Int
      OBVIOUS
    <3>2. NoPlan \in TradeCandidateDraftV1
      BY <3>1 DEF NoPlan, TradeCandidateDraftV1
    <3>3. Undecided \in StrategyEvaluationResultV1
      BY <3>2 DEF Undecided, StrategyEvaluationResultV1
    <3>4. QED
      BY <3>3, <2>1, <2>3 DEF StrategyInv, StrategyTypeOK
  <2>4. QED
    BY <2>2, <2>3
<1>2. QED
  BY <1>1, StrategyInvariant, PTL

\* Whatever snapshot is handed over, a strategy proposes only what its rules say: on
\* closed candles and facts that were there, with a stop and a target that keep the
\* distances its specification names after both have moved to the instrument's ticks.
THEOREM CandidatesStaySound == ASSUME StrategyConstants PROVE StrategySpec => []CandidatesAreSound
<1>1. StrategyInv => CandidatesAreSound
  <2>1. SUFFICES ASSUME StrategyInv PROVE CandidatesAreSound
    OBVIOUS
  <2>2. CASE evalStage = "decided"
    BY <2>1, <2>2, DecisionIsSound DEF StrategyInv
  <2>3. CASE evalStage # "decided"
    BY <2>1, <2>3 DEF StrategyInv, Undecided, CandidatesAreSound, DecidedOnKnownFacts, PlanSurvivesTicks, IsCandidate
  <2>4. QED
    BY <2>2, <2>3
<1>2. QED
  BY <1>1, StrategyInvariant, PTL

=============================================================================
