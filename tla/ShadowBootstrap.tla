-------------------------- MODULE ShadowBootstrap --------------------------
(***************************************************************************)
(* The rows shadow trading needs: the bootstrap script that makes them one *)
(* after the other, without a transaction around them, the calibration of  *)
(* the execution profiles and the daily opening snapshot, beside trading   *)
(* and the reconciliation.  A script may die between any two of its        *)
(* writes; the operator then runs it again.                                *)
(***************************************************************************)
EXTENDS Integers, FiniteSets

CONSTANTS
  Symbols,      \* BOOTSTRAP_SYMBOLS
  StartingCash,
  MaxDay,       \* bounds for model checking: days,
  MaxTrades,    \* trades that change the books,
  MaxScriptDeaths \* and scripts that die

VARIABLES
  today,
  portfolio,  \* the Portfolio row, "none" before it exists
  ledgerRows, \* INITIAL_CASH, and one per trade
  openings,   \* the equity of each day's first PortfolioSnapshot, Unopened before
  limitSet,   \* the pinned RiskLimitSet row: "none", "pinned" or "deviating"
  profiles,   \* status of each symbol's profile version 1 and 2
  session,    \* the TradingSession: "none", "new" (STOPPED, killed), or "used"
  script,     \* the bootstrap run: its next step and what it has read
  finished,   \* a bootstrap run has ended well
  scriptDeaths

bootstrapVars == <<today, portfolio, ledgerRows, openings, limitSet, profiles, session, script, finished, scriptDeaths>>

Unopened == -1
NoPortfolio == [status |-> "none", equity |-> 0, sequence |-> 0]
IdleScript == [at |-> "idle", day |-> 0, activate |-> FALSE, limitsFound |-> FALSE, symbols |-> {}]
ProfileStatuses == {"none", "ACTIVE", "RETIRED"}

BootstrapTypeOK ==
  /\ today \in 0..MaxDay /\ openings \in [0..MaxDay -> {Unopened} \cup Nat]
  /\ portfolio.status \in {"none", "DRAFT", "ACTIVE", "ERROR_LOCKED"}
  /\ ledgerRows.initial \in BOOLEAN /\ ledgerRows.trades \in 0..MaxTrades
  /\ limitSet \in {"none", "pinned", "deviating"} /\ session \in {"none", "new", "used"}
  /\ profiles \in [Symbols -> [1..2 -> ProfileStatuses]]
  /\ script.at \in {"idle", "portfolio", "ledger", "snapshot", "limits", "profiles", "session", "audit"}

BootstrapInit ==
  /\ today = 0 /\ portfolio = NoPortfolio /\ ledgerRows = [initial |-> FALSE, trades |-> 0]
  /\ openings = [d \in 0..MaxDay |-> Unopened] /\ limitSet = "none" /\ session = "none"
  /\ profiles = [y \in Symbols |-> [v \in 1..2 |-> "none"]]
  /\ script = IdleScript /\ finished = FALSE /\ scriptDeaths = 0

Step(from, to) == script.at = from /\ script' = [script EXCEPT !.at = to]
Books == <<portfolio, ledgerRows, openings>>
Rules == <<limitSet, profiles, session>>

----------------------------------------------------------------------------
(* runShadowBootstrap                                                      *)

\* A limit set that deviates from the pinned values stops the run before its first write.
StartBootstrap(activate) ==
  /\ script.at = "idle" /\ limitSet # "deviating"
  /\ script' = [IdleScript EXCEPT !.at = "portfolio", !.day = today, !.activate = activate,
                                  !.limitsFound = limitSet # "none", !.symbols = Symbols]
  /\ UNCHANGED <<today, Books, Rules, finished, scriptDeaths>>

\* Mutant: a portfolio that is there already is brought to the status asked for.
PortfolioAsAsked ==
  /\ Step("portfolio", "ledger")
  /\ portfolio' = [status |-> IF script.activate THEN "ACTIVE" ELSE "DRAFT",
                   equity |-> IF portfolio.status = "none" THEN StartingCash ELSE portfolio.equity,
                   sequence |-> IF portfolio.status = "none" THEN 1 ELSE portfolio.sequence]
  /\ UNCHANGED <<today, ledgerRows, openings, Rules, finished, scriptDeaths>>

BootstrapPortfolio ==
  /\ Step("portfolio", "ledger")
  /\ portfolio' = IF portfolio.status # "none" THEN portfolio
                  ELSE [status |-> IF script.activate THEN "ACTIVE" ELSE "DRAFT", equity |-> StartingCash,
                        sequence |-> 1]
  /\ UNCHANGED <<today, ledgerRows, openings, Rules, finished, scriptDeaths>>

\* An upsert by its key: a second INITIAL_CASH never appears.
BootstrapLedger ==
  /\ Step("ledger", "snapshot") /\ ledgerRows' = [ledgerRows EXCEPT !.initial = TRUE]
  /\ UNCHANGED <<today, portfolio, openings, Rules, finished, scriptDeaths>>

\* A day without a snapshot is opened with the starting cash, whatever the portfolio
\* is worth by then.
BootstrapSnapshot ==
  /\ Step("snapshot", "limits")
  /\ openings' = IF openings[script.day] # Unopened THEN openings
                 ELSE [openings EXCEPT ![script.day] = StartingCash]
  /\ UNCHANGED <<today, portfolio, ledgerRows, Rules, finished, scriptDeaths>>

BootstrapLimits ==
  /\ Step("limits", "profiles")
  /\ limitSet' = IF script.limitsFound THEN limitSet ELSE "pinned"
  /\ UNCHANGED <<today, Books, profiles, session, finished, scriptDeaths>>

\* Version 1 of each symbol, unless it is there in any status.
BootstrapProfile(y) ==
  /\ script.at = "profiles" /\ y \in script.symbols
  /\ script' = [script EXCEPT !.symbols = @ \ {y}]
  /\ profiles' = IF profiles[y][1] # "none" THEN profiles ELSE [profiles EXCEPT ![y][1] = "ACTIVE"]
  /\ UNCHANGED <<today, Books, limitSet, session, finished, scriptDeaths>>

BootstrapSession ==
  /\ script.at = "profiles" /\ script.symbols = {} /\ script' = [script EXCEPT !.at = "audit"]
  /\ session' = IF session = "none" THEN "new" ELSE session
  /\ UNCHANGED <<today, Books, limitSet, profiles, finished, scriptDeaths>>

BootstrapEnd ==
  /\ Step("audit", "idle") /\ finished' = TRUE
  /\ UNCHANGED <<today, Books, Rules, scriptDeaths>>

ScriptDies ==
  /\ script.at # "idle" /\ scriptDeaths < MaxScriptDeaths
  /\ script' = IdleScript /\ scriptDeaths' = scriptDeaths + 1
  /\ UNCHANGED <<today, Books, Rules, finished>>

BootstrapStep ==
  \/ BootstrapPortfolio \/ BootstrapLedger \/ BootstrapSnapshot \/ BootstrapLimits
  \/ (\E y \in Symbols : BootstrapProfile(y)) \/ BootstrapSession \/ BootstrapEnd

----------------------------------------------------------------------------
(* What runs beside it                                                     *)

\* runExecutionProfileCalibration: the active profile is retired and the approved
\* version made in one transaction; anything but version 1 is refused or unchanged.
Calibrate(y) ==
  /\ profiles[y] = [v \in 1..2 |-> IF v = 1 THEN "ACTIVE" ELSE "none"]
  /\ profiles' = [profiles EXCEPT ![y] = [v \in 1..2 |-> IF v = 1 THEN "RETIRED" ELSE "ACTIVE"]]
  /\ UNCHANGED <<today, Books, limitSet, session, script, finished, scriptDeaths>>

\* startTradingDay: the first snapshot of the day is its opening, any later run finds it.
StartTradingDay ==
  /\ portfolio.status # "none" /\ openings[today] = Unopened
  /\ openings' = [openings EXCEPT ![today] = portfolio.equity]
  /\ UNCHANGED <<today, portfolio, ledgerRows, Rules, script, finished, scriptDeaths>>

\* reconcilePortfolio, as far as the opening of the books goes: cash that no ledger
\* row accounts for locks the portfolio.
ReconcileOpening ==
  /\ portfolio.status \in {"DRAFT", "ACTIVE"} /\ ~ledgerRows.initial
  /\ portfolio' = [portfolio EXCEPT !.status = "ERROR_LOCKED"]
  /\ UNCHANGED <<today, ledgerRows, openings, Rules, script, finished, scriptDeaths>>

\* The operator activates the portfolio and takes the session into use.
Operate ==
  /\ \/ portfolio.status = "DRAFT" /\ portfolio' = [portfolio EXCEPT !.status = "ACTIVE"] /\ UNCHANGED session
     \/ portfolio.status = "ACTIVE" /\ session = "new" /\ session' = "used" /\ UNCHANGED portfolio
  /\ UNCHANGED <<today, ledgerRows, openings, limitSet, profiles, script, finished, scriptDeaths>>

\* A trade books a result; the risk job has seen the day's opening before.
Trade ==
  /\ portfolio.status = "ACTIVE" /\ session = "used" /\ openings[today] # Unopened /\ ledgerRows.trades < MaxTrades
  /\ ledgerRows' = [ledgerRows EXCEPT !.trades = @ + 1]
  /\ \E result \in {-1, 1} :
       portfolio' = [portfolio EXCEPT !.equity = @ + result, !.sequence = @ + 1]
  /\ UNCHANGED <<today, openings, Rules, script, finished, scriptDeaths>>

\* Somebody changes the limits outside of the program.
LimitsAreChanged ==
  /\ limitSet = "pinned" /\ limitSet' = "deviating"
  /\ UNCHANGED <<today, Books, profiles, session, script, finished, scriptDeaths>>

NextDay == today < MaxDay /\ today' = today + 1 /\ UNCHANGED <<Books, Rules, script, finished, scriptDeaths>>

BootstrapNext ==
  \/ (\E activate \in BOOLEAN : StartBootstrap(activate)) \/ BootstrapStep \/ ScriptDies
  \/ (\E y \in Symbols : Calibrate(y)) \/ StartTradingDay \/ ReconcileOpening \/ Operate \/ Trade \/ LimitsAreChanged
  \/ NextDay

BootstrapSpec == BootstrapInit /\ [][BootstrapNext]_bootstrapVars

----------------------------------------------------------------------------
(* Properties                                                              *)

ActiveProfiles(y) == {v \in 1..2 : profiles[y][v] = "ACTIVE"}

\* However many runs died on the way, one that ends has made the whole set of rows:
\* books that the ledger accounts for row by row, a limit set, a session and exactly
\* one active profile of each symbol, which a calibration then replaces in one step.
BootstrapCompletes ==
  finished =>
    /\ portfolio.status # "none" /\ limitSet # "none" /\ session # "none"
    /\ ledgerRows.initial /\ portfolio.sequence = 1 + ledgerRows.trades
    /\ \A y \in Symbols : Cardinality(ActiveProfiles(y)) = 1

\* A bootstrap that is run again changes no row that is already there: not the books
\* that were traded on, not a portfolio's status, no profile, limit set or session.
RerunChangesNothingStep ==
  BootstrapStep =>
    /\ portfolio.status # "none" => portfolio' = portfolio
    /\ limitSet # "none" => limitSet' = limitSet
    /\ session # "none" => session' = session
    /\ \A y \in Symbols : ActiveProfiles(y) # {} => profiles'[y] = profiles[y]
    /\ \A d \in 0..MaxDay : openings[d] # Unopened => openings'[d] = openings[d]
RerunChangesNothing == [][RerunChangesNothingStep]_bootstrapVars

\* A bootstrap can be run until it ends, and once more after that.
BootstrapIsRepeatable == []BootstrapCompletes /\ RerunChangesNothing

\* A day opens with what the portfolio is worth (R-010 measures the day's loss from it).
\* Not so: on a day that no job has opened yet, a bootstrap run opens it with the
\* starting cash.
OpeningIsWorth == [][openings'[today] # openings[today] => openings'[today] = portfolio.equity]_bootstrapVars

\* No crash of the bootstrap ends in a lock.  Not so: a reconciliation between the
\* portfolio's row and its ledger row locks it, and no later run unlocks it.
NeverLockedOut == portfolio.status # "ERROR_LOCKED"

=============================================================================
