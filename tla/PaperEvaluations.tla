-------------------------- MODULE PaperEvaluations --------------------------
(***************************************************************************)
(* The paper evaluation of a signal (apps/worker/src/jobs/                  *)
(* paperSignalEvaluations.ts): what would have become of it.  Both signal   *)
(* pipelines create evaluations for the signals that have none and          *)
(* evaluate the open ones a day after their entry; an operator may          *)
(* reclassify them by hand.  Rows are read, then written by id: nothing     *)
(* asks whether the row still is what was read.                            *)
(***************************************************************************)
EXTENDS Integers, FiniteSetsExt

CONSTANTS
  PaperRuns,      \* the runs that create and evaluate, one per pipeline, and
  Backfills,      \* those that create only, started by hand
  PaperCases,     \* [signal, market]: a signal [status, direction, type, highRisk, score] and a
                  \* history of prices, a candle [high, low, close] per day
  CandleDays,     \* days whose candle may be stored after the entry
  Earlier,        \* kinds and statuses an earlier build may have given the evaluation
  CreatedOn,      \* the day of the signal
  MaxDay, MaxPaperFaults   \* bounds

VARIABLES
  signal, market,  \* the signal and the prices of its asset
  day,
  candles,         \* days whose candle is stored
  evaluation,      \* the signal's PaperSignalEvaluation, {} while there is none
  papers,          \* per run where it is and what it has read
  reclassify,      \* the reclassification by hand
  settled,         \* the first result the evaluation was given
  faults           \* rows written from a reading that was no longer true

paperVars == <<signal, market, day, candles, evaluation, papers, reclassify, settled, faults>>

NoOutcome == "none"
Rest == [at |-> "off", day |-> 0, read |-> {}, seen |-> {}]

----------------------------------------------------------------------------
(* Classification                                                          *)

ClassifyPaperEvaluation(s) ==
  LET kind == IF s.status = "NO_EDGE" THEN "SKIPPED"
              ELSE IF s.status = "WAIT" /\ s.score < 65 THEN "SKIPPED"
              ELSE IF s.status = "AVOID" \/ s.highRisk THEN "RISK_WARNING"
              ELSE IF s.direction = "BULLISH" THEN "DIRECTIONAL_BULLISH"
              ELSE IF s.direction = "BEARISH" THEN "DIRECTIONAL_BEARISH"
              ELSE IF s.status \in {"STRONG_WATCH", "WATCH"} /\ s.score >= 65 THEN "OBSERVATION"
              ELSE IF s.type \in {"BREAKOUT_ALERT", "VOLUME_SPIKE", "VOLATILITY_SPIKE"} THEN "OBSERVATION"
              ELSE "SKIPPED"
  IN [kind |-> kind, status |-> IF kind = "SKIPPED" THEN "SKIPPED" ELSE "OPEN"]

IsBearishEvaluation(s) == s.direction = "BEARISH" \/ s.status = "AVOID"

ReopensResults(current, classified) == classified
(* What a reclassification makes of a status: a result stays a result.      *)
NextEvaluationStatus(current, classified) ==
  CASE current = "EVALUATED" -> "EVALUATED"
    [] current = "EXPIRED" -> IF classified = "SKIPPED" THEN "SKIPPED" ELSE "EXPIRED"
    [] OTHER -> classified

----------------------------------------------------------------------------
(* Outcome: returns in hundredths of a percent of the entry price          *)

CalculateReturn(entry, price) == ((price - entry) * 10000) \div entry

(* Without an ATR the stop is 2 % away and the target 4 %.                  *)
InvalidationMove == 200
TargetMove == 400

(* The candles from the entry on, the entry candle itself included.         *)
MoveStats(bearish, entry, path, days) ==
  LET highs == {CalculateReturn(entry, path[d].high) : d \in days}
      lows == {CalculateReturn(entry, path[d].low) : d \in days}
      up == Max({0} \cup highs)
      down == -Min({0} \cup lows)
  IN IF bearish THEN [favorable |-> down, adverse |-> up] ELSE [favorable |-> up, adverse |-> down]

ObservationOutcome(s, return, moves) ==
  IF return >= 75 \/ return <= -75 \/ moves.favorable >= 150 \/ moves.adverse >= 150 THEN "POSITIVE"
  ELSE IF s.score >= 80 THEN "NEGATIVE" ELSE "NEUTRAL"

RiskWarningOutcome(return, moves) ==
  IF moves.adverse >= 150 \/ return <= -75 \/ return >= 75 THEN "POSITIVE"
  ELSE "NEUTRAL"   \* NEGATIVE asks for a return above 75, which is POSITIVE already

ForgetsTheSide(s, kind, return, moves) ==
  IF moves.favorable >= TargetMove THEN "TARGET_REACHED"
  ELSE IF moves.adverse >= InvalidationMove THEN "INVALIDATED"
  ELSE IF return > 50 THEN "POSITIVE" ELSE IF return < -50 THEN "NEGATIVE" ELSE "NEUTRAL"

(* The target is asked for first, whichever of the two came first.          *)
DetermineOutcome(s, kind, return, moves) ==
  IF kind = "OBSERVATION" THEN ObservationOutcome(s, return, moves)
  ELSE IF kind = "RISK_WARNING" THEN RiskWarningOutcome(return, moves)
  ELSE IF moves.favorable >= TargetMove THEN "TARGET_REACHED"
  ELSE IF moves.adverse >= InvalidationMove THEN "INVALIDATED"
  ELSE IF (return > 50 /\ ~IsBearishEvaluation(s)) \/ (return < -50 /\ IsBearishEvaluation(s)) THEN "POSITIVE"
  ELSE IF return > 50 \/ return < -50 THEN "NEGATIVE"
  ELSE "NEUTRAL"

(* The price a day after the entry: the first stored close from then on.    *)
Later(row, days) == {d \in days : d >= row.entry + 1}
Entry(row) == market[row.entry].close
Evaluated(row, days) ==
  LET from == {d \in days : d >= row.entry}
      bearish == row.kind = "DIRECTIONAL_BEARISH" \/ IsBearishEvaluation(signal)
  IN DetermineOutcome(signal, row.kind, CalculateReturn(Entry(row), market[Min(Later(row, days))].close),
                      MoveStats(bearish, Entry(row), market, from))

----------------------------------------------------------------------------
(* The jobs                                                                *)

PaperInit ==
  /\ \E case \in PaperCases : signal = case.signal /\ market = case.market
  /\ day = CreatedOn /\ candles \in {{}, {0}}
  /\ evaluation \in {{}} \cup {{[kind |-> e.kind, status |-> e.status, outcome |-> NoOutcome, entry |-> entry] : entry \in candles} :
                                 e \in Earlier}
  /\ papers = [r \in PaperRuns \cup Backfills |-> Rest] /\ reclassify = Rest
  /\ settled = {} /\ faults = 0

(* createPaperEvaluationsForSignals: the signals without an evaluation.     *)
ListSignals(r) ==
  /\ papers[r].at = "off" /\ evaluation = {}
  /\ papers' = [papers EXCEPT ![r] = [Rest EXCEPT !.at = "creating"]]
  /\ UNCHANGED <<signal, market, day, candles, evaluation, reclassify, settled, faults>>

(* findEntryCandle: the newest close up to the signal, else the first after. *)
FindEntryCandle ==
  LET before == {d \in candles : d <= CreatedOn} IN
  IF before # {} THEN {Max(before)} ELSE IF candles # {} THEN {Min(candles)} ELSE {}

(* signalId is unique: the second of two creators counts a duplicate.       *)
CreateEvaluation(r) ==
  /\ papers[r].at = "creating"
  /\ papers' = [papers EXCEPT ![r] = Rest]
  /\ evaluation' = IF evaluation # {} THEN evaluation
                   ELSE {[kind |-> ClassifyPaperEvaluation(signal).kind, status |-> ClassifyPaperEvaluation(signal).status,
                          outcome |-> NoOutcome, entry |-> entry] : entry \in FindEntryCandle}
  /\ UNCHANGED <<signal, market, day, candles, reclassify, settled, faults>>

(* evaluatePaperSignals: the clock and the open rows are read at the start, *)
(* the candles of a row when its turn comes.                               *)
LoadOpen(r) ==
  /\ papers[r].at = "off"
  /\ \E row \in evaluation : row.status = "OPEN"
  /\ papers' = [papers EXCEPT ![r] = [at |-> "evaluating", day |-> day, read |-> evaluation, seen |-> {}]]
  /\ UNCHANGED <<signal, market, day, candles, evaluation, reclassify, settled, faults>>
LoadCandles(r) ==
  /\ papers[r].at = "evaluating"
  /\ papers' = [papers EXCEPT ![r].at = "writing", ![r].seen = candles]
  /\ UNCHANGED <<signal, market, day, candles, evaluation, reclassify, settled, faults>>

(* A row that changed since it was read is written all the same.            *)
Stale(read) == IF read = evaluation THEN UNCHANGED faults ELSE faults < MaxPaperFaults /\ faults' = faults + 1
Write(row) ==
  /\ evaluation' = {row}
  /\ settled' = IF settled = {} /\ row.status = "EVALUATED" THEN {row.outcome} ELSE settled

StillOpen(r) ==
  LET row == CHOOSE x \in papers[r].read : TRUE IN
  /\ papers[r].at = "writing"
  /\ Later(row, papers[r].seen) = {} /\ papers[r].day - row.entry < 4
  /\ papers' = [papers EXCEPT ![r] = Rest]
  /\ UNCHANGED <<signal, market, day, candles, evaluation, reclassify, settled, faults>>

(* Only the columns of the update change: those of a reclassification in     *)
(* between stay.                                                           *)
Expire(r) ==
  \E read \in papers[r].read, row \in evaluation :
    /\ papers[r].at = "writing"
    /\ Later(read, papers[r].seen) = {} /\ papers[r].day - read.entry >= 4
    /\ Stale(papers[r].read) /\ Write([row EXCEPT !.status = "EXPIRED"])
    /\ papers' = [papers EXCEPT ![r] = Rest]
    /\ UNCHANGED <<signal, market, day, candles, reclassify>>
Settle(r) ==
  \E read \in papers[r].read, row \in evaluation :
    /\ papers[r].at = "writing" /\ Later(read, papers[r].seen) # {}
    /\ Stale(papers[r].read)
    /\ Write([row EXCEPT !.status = "EVALUATED", !.outcome = Evaluated(read, papers[r].seen)])
    /\ papers' = [papers EXCEPT ![r] = Rest]
    /\ UNCHANGED <<signal, market, day, candles, reclassify>>

(* A run dies, or a call of it fails.                                      *)
PaperRunEnds(r) ==
  /\ papers[r].at # "off"
  /\ papers' = [papers EXCEPT ![r] = Rest]
  /\ UNCHANGED <<signal, market, day, candles, evaluation, reclassify, settled, faults>>

(* reclassifyPaperEvaluations: a batch is read, what changes is written.    *)
LoadBatch ==
  /\ reclassify.at = "off" /\ evaluation # {}
  /\ reclassify' = [Rest EXCEPT !.at = "writing", !.read = evaluation]
  /\ UNCHANGED <<signal, market, day, candles, evaluation, papers, settled, faults>>
Reclassified(row) ==
  [row EXCEPT !.kind = ClassifyPaperEvaluation(signal).kind,
              !.status = NextEvaluationStatus(@, ClassifyPaperEvaluation(signal).status)]
WriteBatch(dryRun) ==
  /\ reclassify.at = "writing"
  /\ \E read \in reclassify.read, row \in evaluation :
       IF dryRun \/ Reclassified(read) = read THEN UNCHANGED <<evaluation, settled, faults>>
       ELSE Stale(reclassify.read)
            /\ Write([row EXCEPT !.kind = Reclassified(read).kind, !.status = Reclassified(read).status])
  /\ reclassify' = Rest
  /\ UNCHANGED <<signal, market, day, candles, papers>>

(* Days pass, and their candles are stored in time, late or never.          *)
NextDay ==
  /\ day < MaxDay /\ day' = day + 1
  /\ UNCHANGED <<signal, market, candles, evaluation, papers, reclassify, settled, faults>>
StoreCandle(d) ==
  /\ d <= day /\ d \notin candles
  /\ candles' = candles \cup {d}
  /\ UNCHANGED <<signal, market, day, evaluation, papers, reclassify, settled, faults>>

(* backfillPaperEvaluations: creates as the pipelines do, and evaluates not. *)
BackfillPaperEvaluations(r) == ListSignals(r) \/ CreateEvaluation(r) \/ PaperRunEnds(r)

PaperNext ==
  \/ NextDay \/ LoadBatch \/ \E dryRun \in BOOLEAN : WriteBatch(dryRun)
  \/ \E d \in CandleDays : StoreCandle(d)
  \/ \E r \in Backfills : BackfillPaperEvaluations(r)
  \/ \E r \in PaperRuns : \/ ListSignals(r) \/ CreateEvaluation(r) \/ LoadOpen(r) \/ LoadCandles(r)
                          \/ StillOpen(r) \/ Expire(r) \/ Settle(r) \/ PaperRunEnds(r)

PaperSpec == PaperInit /\ [][PaperNext]_paperVars

----------------------------------------------------------------------------
PaperTypeOK ==
  /\ day \in 0..MaxDay /\ candles \subseteq 0..MaxDay /\ faults \in 0..MaxPaperFaults
  /\ Cardinality(evaluation) <= 1
  /\ \A row \in evaluation : row.status \in {"OPEN", "EVALUATED", "EXPIRED", "SKIPPED"} /\ row.entry \in candles

(* A result stands: an evaluation that was settled keeps its status and its *)
(* outcome through evaluations, late candles and reclassifications, unless  *)
(* two runs worked on the row at once; it is settled only on a price of at  *)
(* least a day after the entry (paperSignalEvaluations.ts:305-343,893-914). *)
ResultsStand ==
  /\ \A row \in evaluation : row.status = "EVALUATED" => row.outcome # NoOutcome
  /\ faults = 0 => \A outcome \in settled : \A row \in evaluation : row.status = "EVALUATED" /\ row.outcome = outcome
  /\ settled # {} => \E d \in candles : \A row \in evaluation : d > row.entry

(* A bearish evaluation is a bullish one in the mirror: the same prices      *)
(* turned about the entry give the same outcome                            *)
(* (paperSignalEvaluations.ts:937-982,1043-1078).                          *)
Mirrored(entry, path) ==
  [d \in DOMAIN path |-> [high |-> 2 * entry - path[d].low, low |-> 2 * entry - path[d].high,
                          close |-> 2 * entry - path[d].close]]
SidesAreMirrored ==
  LET entry == market[0].close
      days == {d \in candles : d >= 1}
      outcome(direction, kind, path) ==
        DetermineOutcome([signal EXCEPT !.direction = direction, !.status = "WATCH"], kind,
                         CalculateReturn(entry, path[Min(days)].close),
                         MoveStats(direction = "BEARISH", entry, path, days))
  IN days # {} => outcome("BULLISH", "DIRECTIONAL_BULLISH", market)
                    = outcome("BEARISH", "DIRECTIONAL_BEARISH", Mirrored(entry, market))

=============================================================================
