-------------------------------- MODULE Arena --------------------------------
(***************************************************************************)
(* The arena ranks the strategies of a cohort: an hourly job (or an        *)
(* operator) evaluates every participant and recommends a status, and an   *)
(* operator carries a recommendation out, or does not.  Evaluations and    *)
(* transitions run beside each other, and so do several operators; a       *)
(* transition reads what it checks before its transaction.  One cohort is  *)
(* modelled.                                                               *)
(***************************************************************************)
EXTENDS Integers, FiniteSets

CONSTANTS
  Participants,
  Evaluators,    \* the scheduled job and by-hand runs of it
  Operators,
  Policies,      \* policies an operator may set, parsed or not
  FirstPolicy,   \* ARENA_POLICY_V1
  FirstCohorts,  \* cohorts to start from: statuses, newest rows, what was begun to get there
  FactsSeen,     \* what an evaluation may find of a participant
  MaxBegun    \* bounds the commands and evaluations that begin

VARIABLES
  policy,        \* of the cohort
  status,        \* of each participant, "NONE" before its registration
  latest,        \* the newest ArenaEvaluation of each participant, NoRow before the first
  eval,          \* what each evaluation run is doing
  oper,          \* what each operator is doing
  begun,         \* commands and evaluations begun
  blind          \* history: the champions made after another one was made since their check

arenaVars == <<policy, status, latest, eval, oper, begun, blind>>

Statuses == {"CANDIDATE", "ACTIVE", "PROBATION", "PROVEN", "CHAMPION", "RETIRED"}
AnyPart == CHOOSE p \in Participants : TRUE

ARENA_TRANSITIONS ==
  [CANDIDATE |-> {"ACTIVE", "RETIRED"},
   ACTIVE    |-> {"PROBATION", "PROVEN", "RETIRED"},
   PROBATION |-> {"ACTIVE", "RETIRED"},
   PROVEN    |-> {"CHAMPION", "ACTIVE", "PROBATION", "RETIRED"},
   CHAMPION  |-> {"PROVEN", "PROBATION", "RETIRED"},
   RETIRED   |-> {}]

ALLOWED_REASONS ==
  [CANDIDATE |-> {},
   ACTIVE    |-> {"FORWARD_TEST_STARTED", "PERFORMANCE", "OPERATOR_REVIEW"},
   PROBATION |-> {"PERFORMANCE", "SURVIVAL_FLOOR", "HARD_STOP", "OPERATOR_REVIEW"},
   PROVEN    |-> {"PERFORMANCE"},
   CHAMPION  |-> {"PERFORMANCE"},
   RETIRED   |-> {"PERFORMANCE", "SURVIVAL_FLOOR", "STRATEGY_DEFECT", "OPERATOR_WITHDRAWAL"}]

NoFacts == [suff |-> FALSE, fitness |-> 0, gain |-> FALSE, floor |-> FALSE, hard |-> FALSE]
NoRow == [facts |-> NoFacts, of |-> "NONE", target |-> "NONE"]
NoRun == [todo |-> {}, rows |-> [p \in Participants |-> NoRow]]
\* fresh: p is at the version that was read; alone: no champion was made since.
NoOp == [at |-> "idle", p |-> AnyPart, to |-> "NONE", fresh |-> FALSE, alone |-> FALSE]
Claim(at, p, to) == [at |-> at, p |-> p, to |-> to, fresh |-> TRUE, alone |-> TRUE]

Champions == {p \in Participants : status[p] = "CHAMPION"}
Registered == {p \in Participants : status[p] # "NONE"}

ArenaTypeOK ==
  /\ policy \in Policies
  /\ status \in [Participants -> Statuses \cup {"NONE"}]
  /\ \A p \in Participants : latest[p].facts \in FactsSeen /\ latest[p].target \in Statuses \cup {"NONE"}
  /\ begun \in 0..MaxBegun /\ blind \subseteq Participants
  /\ \A e \in Evaluators :
       /\ eval[e].todo \subseteq Participants
       /\ \A p \in Participants : eval[e].rows[p].target \in Statuses \cup {"NONE"}
  /\ \A o \in Operators : oper[o].at \in {"idle", "create", "commit"}

----------------------------------------------------------------------------
(* The decisions of packages/arena                                         *)

\* parseArenaPolicy: retire <= probation <= reinstate <= proven.
ParsesAsPolicy(x) ==
  x.retire <= x.probation /\ x.probation <= x.reinstate /\ x.reinstate <= x.proven /\ x.margin >= 0

\* recommendArenaAction: the status it recommends, NONE for HOLD.
Recommend(st, f, pol) ==
  IF st \in {"RETIRED", "CANDIDATE"} THEN "NONE"
  ELSE IF f.hard THEN IF st = "PROBATION" THEN "NONE" ELSE "PROBATION"
  ELSE IF f.floor THEN IF f.suff THEN "RETIRED" ELSE IF st = "PROBATION" THEN "NONE" ELSE "PROBATION"
  ELSE IF ~f.suff THEN "NONE"
  ELSE IF st = "PROBATION" THEN IF f.fitness < pol.retire THEN "RETIRED"
                                ELSE IF f.fitness >= pol.reinstate THEN "ACTIVE" ELSE "NONE"
  ELSE IF f.fitness < pol.probation THEN "PROBATION"
  ELSE IF st = "ACTIVE" /\ f.fitness >= pol.proven /\ f.gain THEN "PROVEN" ELSE "NONE"

\* Mutant: a contender whose evidence is still provisional.
ContendersUnproven(E, facts, pol) ==
  {p \in E : status[p] = "PROVEN" /\ Recommend("PROVEN", facts[p], pol) = "NONE"}

\* PROVEN participants that may succeed the champion.
Contenders(E, facts, pol) ==
  {p \in E : status[p] = "PROVEN" /\ facts[p].suff /\ Recommend("PROVEN", facts[p], pol) = "NONE"}

Fittest(C, facts) == CHOOSE p \in C : \A q \in C : facts[p].fitness >= facts[q].fitness

\* applyChampionSuccession: the best contender up when there is no champion or it
\* beats the champion by the margin; a champion that would hold then goes down.
Recommended(E, facts, pol) ==
  LET own == [p \in E |-> Recommend(status[p], facts[p], pol)]
      champs == {p \in E : status[p] = "CHAMPION"}
      champ == CHOOSE p \in champs : TRUE
      C == Contenders(E, facts, pol)
      best == Fittest(C, facts)
      succeeds == C # {} /\ (champs = {} \/ facts[best].fitness >= facts[champ].fitness + pol.margin)
  IN  [p \in E |->
         IF succeeds /\ p = best THEN "CHAMPION"
         ELSE IF succeeds /\ champs # {} /\ p = champ /\ own[p] = "NONE" THEN "PROVEN"
         ELSE own[p]]

\* checkArenaTransition, on the newest evaluation.
NeedsEvidence(from, to, reason) ==
  from # "CANDIDATE" /\ (reason = "PERFORMANCE" \/ (to = "RETIRED" /\ reason = "SURVIVAL_FLOOR"))

Accepts(from, to, reason, row, started, otherChampion) ==
  /\ to \in ARENA_TRANSITIONS[from]
  /\ reason \in ALLOWED_REASONS[to]
  /\ NeedsEvidence(from, to, reason) => row.suff
  /\ reason = "SURVIVAL_FLOOR" => row.floor
  /\ reason = "HARD_STOP" => row.hard
  /\ from = "CANDIDATE" /\ to = "ACTIVE" => started
  /\ to = "CHAMPION" => ~otherChampion

----------------------------------------------------------------------------
(* Evaluation                                                              *)

Evaluable == {p \in Participants : status[p] \notin {"NONE", "CANDIDATE", "RETIRED"}}

\* The cohort's policy and participants are read, then the facts of each of
\* them; a participant whose facts cannot be read is left out.
EvaluateCohort(e) ==
  /\ eval[e].todo = {} /\ begun < MaxBegun
  /\ begun' = begun + 1
  /\ \E E \in (SUBSET Evaluable) \ {{}} : \E facts \in [E -> FactsSeen] :
       LET target == Recommended(E, facts, policy)
       IN  eval' = [eval EXCEPT ![e] =
             [todo |-> E,
              rows |-> [p \in Participants |->
                IF p \in E THEN [facts |-> facts[p], of |-> status[p], target |-> target[p]] ELSE NoRow]]]
  /\ UNCHANGED <<policy, status, latest, oper, blind>>

\* persistArenaEvaluation, one participant after the other; the row is its newest,
\* or one as new or newer is there already.
Persist(e, p) ==
  /\ p \in eval[e].todo
  /\ latest' \in {latest, [latest EXCEPT ![p] = eval[e].rows[p]]}
  /\ eval' = [eval EXCEPT ![e].todo = @ \ {p}, ![e].rows[p] = NoRow]
  /\ UNCHANGED <<policy, status, oper, begun, blind>>

----------------------------------------------------------------------------
(* Operators                                                               *)

OtherChampion(p) == Champions \ {p} # {}

\* A command begins: what it checked stands in the claim.
Begin(o, claim) ==
  /\ oper[o].at = "idle" /\ begun < MaxBegun
  /\ oper' = [oper EXCEPT ![o] = claim]
  /\ begun' = begun + 1
  /\ UNCHANGED <<policy, status, latest, eval, blind>>

\* Its transaction makes p what it claims: what the others read of p is no longer its
\* version, and a new champion is one that they have not seen.
Become(o) ==
  LET mine == oper[o]
      Seen(x) == [oper[x] EXCEPT !.fresh = @ /\ oper[x].p # mine.p, !.alone = @ /\ mine.to # "CHAMPION"] IN
  /\ status' = [status EXCEPT ![mine.p] = mine.to]
  /\ oper' = [x \in Operators |-> IF x = o THEN NoOp ELSE Seen(x)]
  /\ blind' = IF mine.to = "CHAMPION" /\ ~mine.alone THEN blind \cup {mine.p} ELSE blind \ {mine.p}

\* It writes nothing.
GiveUp(o) == oper' = [oper EXCEPT ![o] = NoOp] /\ UNCHANGED <<status, blind>>

\* registerArenaParticipant up to its transaction, for a portfolio whose session
\* lets it; an existing participant is returned as it is.
RegisterCheck(o, p, to) ==
  /\ status[p] = "NONE"
  /\ to \in {"CANDIDATE", "ACTIVE", "CHAMPION"}
  /\ to = "CHAMPION" => Champions = {}
  /\ Begin(o, Claim("create", p, to))

\* Its transaction; a portfolio is registered once (unique).
RegisterCreate(o) ==
  /\ oper[o].at = "create"
  /\ IF status[oper[o].p] = "NONE" THEN Become(o) ELSE GiveUp(o)
  /\ UNCHANGED <<policy, latest, eval, begun>>

\* What transitionArenaParticipant lets p become for some reason; trading: the
\* participant's session is SHADOW_ACTIVE when it is read.
Acceptable(p) ==
  {to \in ARENA_TRANSITIONS[status[p]] : \E reason \in ALLOWED_REASONS[to], trading \in BOOLEAN :
     /\ Accepts(status[p], to, reason, latest[p].facts, trading, OtherChampion(p))
     /\ ~(to = "RETIRED" /\ trading)}

\* transitionArenaParticipant up to its transaction.
TransitionCheck(o, p, to) == Begin(o, Claim("commit", p, to))

\* Its transaction: a compare-and-swap on version and status.  The post-mortem
\* case of a probation or retirement is written after it.
TransitionCommit(o) ==
  /\ oper[o].at = "commit"
  /\ IF oper[o].fresh THEN Become(o) ELSE GiveUp(o)
  /\ UNCHANGED <<policy, latest, eval, begun>>

OperatorDies(o) ==
  /\ oper[o].at # "idle" /\ GiveUp(o)
  /\ UNCHANGED <<policy, latest, eval, begun>>

\* setArenaCohortPolicy
SetPolicy(new) ==
  /\ ParsesAsPolicy(new) /\ new # policy /\ begun < MaxBegun
  /\ policy' = new
  /\ begun' = begun + 1
  /\ UNCHANGED <<status, latest, eval, oper, blind>>

----------------------------------------------------------------------------

ArenaInit ==
  /\ policy = FirstPolicy
  /\ \E cohort \in FirstCohorts :
       status = cohort.status /\ latest = cohort.latest /\ begun = cohort.begun
  /\ eval = [e \in Evaluators |-> NoRun]
  /\ oper = [o \in Operators |-> NoOp]
  /\ blind = {}

\* A run of the job, or the operator's command "evaluate".
ArenaEvaluate(e) == EvaluateCohort(e) \/ \E p \in Participants : Persist(e, p)

\* The commands that change a participant, "bootstrap-v1" among them: it registers two.
ArenaOpsCommand(o) ==
  \/ RegisterCreate(o) \/ TransitionCommit(o) \/ OperatorDies(o)
  \/ \E p \in Participants, to \in Statuses : RegisterCheck(o, p, to)
  \/ \E p \in Registered : \E to \in Acceptable(p) : TransitionCheck(o, p, to)

ArenaNext ==
  \/ \E new \in Policies : SetPolicy(new)
  \/ \E e \in Evaluators : ArenaEvaluate(e)
  \/ \E o \in Operators : ArenaOpsCommand(o)

ArenaSpec == ArenaInit /\ [][ArenaNext]_arenaVars

----------------------------------------------------------------------------
(* Properties                                                              *)

\* A cohort has one champion, but for those whose promotion had passed its check when
\* another champion was made: the check for one is not part of the write.
OneChampion == Cardinality(Champions \ blind) <= 1

\* What stands in the way of the recommendation: the champion to succeed, or a champion
\* of which too little is known to demote it.
Waits(p) ==
  \/ latest[p].target = "CHAMPION" /\ OtherChampion(p)
  \/ latest[p].of = "CHAMPION" /\ latest[p].target = "PROVEN" /\ ~latest[p].facts.suff

\* As long as a participant keeps the status it was evaluated in, a transition accepts
\* what its newest evaluation recommends, whatever the policy, the session and the other
\* participants have become since; two exceptions wait for the champion.
RecommendationsCanBeFollowed ==
  \A p \in Registered :
    latest[p].target # "NONE" /\ latest[p].of = status[p] => latest[p].target \in Acceptable(p) \/ Waits(p)

\* A status moves along the table of transitions, whoever overtakes whom between the
\* check of a command and its write.
MovesFollowTable ==
  \A p \in Registered : status'[p] # status[p] => status'[p] \in ARENA_TRANSITIONS[status[p]]

\* Two champions come only of promotions that did not see each other, and what an
\* evaluation recommends can be carried out (lifecycle.ts, arena.ts).
ArenaIsOrderly == OneChampion /\ RecommendationsCanBeFollowed

=============================================================================
