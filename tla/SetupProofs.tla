----------------------------- MODULE SetupProofs -----------------------------
(***************************************************************************)
(* Proofs about what is set up and started outside of trading: the setup   *)
(* of a strategy beside its operator, for any symbols and builds; the      *)
(* bootstrap beside what else writes its rows, for any symbols, days,      *)
(* trades and deaths; the scheduler of the research worker, for any jobs.  *)
(***************************************************************************)
EXTENDS StrategySetup, ShadowBootstrap, ResearchScheduler, FiniteSetTheorems, TLAPS

----------------------------------------------------------------------------
(* The strategy setup                                                      *)

Pins == Builds \cup {"none"}
Assignment == [pin : Pins, enabled : BOOLEAN, lock : 0..MaxLock]
SetupRun ==
  [at : {"idle", "next", "found", "count", "retire"}, build : Pins, superseded : SUBSET Builds,
   symbols : SUBSET DefinitionSymbols, symbol : DefinitionSymbols \cup {"none"}, seen : Assignment]

SetupTypes ==
  /\ versions \in [Builds -> {"none", "ACTIVE", "RETIRED"}]
  /\ assignments \in [DefinitionSymbols -> Assignment]
  /\ setup \in SetupRun
  /\ operator \in [symbol : DefinitionSymbols \cup {"none"}, seen : Assignment]

\* An assignment nobody has made yet is not enabled.
MadeBeforeEnabled == \A y \in DefinitionSymbols : assignments[y].pin = "none" => ~assignments[y].enabled

\* While a setup runs its own version is active, and is none of those it supersedes.
OwnVersionActive ==
  ~Idle => setup.build \in Builds /\ versions[setup.build] = "ACTIVE" /\ setup.build \notin setup.superseded

\* It pins an assignment it has found, and retires what nothing is pinned to: no
\* other script runs, and operators do not pin.
AtItsSymbol == setup.at = "found" => setup.symbol \in DefinitionSymbols
RetiresUnpinned == setup.at = "retire" => \A y \in DefinitionSymbols : assignments[y].pin \notin setup.superseded

\* What an operator has read was made, and can be switched once more.
OperatorReadsMade ==
  operator # IdleOperator =>
    operator.symbol \in DefinitionSymbols /\ operator.seen.pin # "none" /\ operator.seen.lock < MaxLock

SetupInv ==
  /\ SetupTypes /\ MadeBeforeEnabled /\ NothingRetiredIsPinned
  /\ OwnVersionActive /\ AtItsSymbol /\ RetiresUnpinned /\ OperatorReadsMade

LEMMA IdleTyped ==
  ASSUME MaxLock \in Nat
  PROVE  NoAssignment \in Assignment /\ IdleSetup \in SetupRun /\ IdleSetup.at = "idle"
<1>1. NoAssignment \in Assignment
  BY DEF NoAssignment, Disabled, Assignment, Pins
<1>2. QED
  BY <1>1 DEF IdleSetup, SetupRun, Pins

\* What FindAssignment makes of a symbol that has none.
LEMMA MadeTyped ==
  ASSUME MaxLock \in Nat, NEW b \in Builds
  PROVE  Disabled(b) \in Assignment /\ Disabled(b).pin = b /\ Disabled(b).enabled = FALSE
BY DEF Disabled, Assignment, Pins

LEMMA SetupStarts ==
  ASSUME MaxLock \in Nat PROVE SetupInit => SetupInv
BY DEF SetupInit, SetupInv, SetupTypes, Assignment, Pins, SetupRun, NoAssignment, Disabled, IdleSetup, IdleOperator,
       MadeBeforeEnabled, NothingRetiredIsPinned, OwnVersionActive, Idle, AtItsSymbol, RetiresUnpinned,
       OperatorReadsMade

LEMMA SetupStartStep ==
  ASSUME "none" \notin Builds, MaxLock \in Nat, SetupInv, NEW b \in Builds, StartSetup(b)
  PROVE  SetupInv'
<1>1. /\ versions \in [Builds -> {"none", "ACTIVE", "RETIRED"}] /\ assignments \in [DefinitionSymbols -> Assignment]
      /\ operator \in [symbol : DefinitionSymbols \cup {"none"}, seen : Assignment]
  BY DEF SetupInv, SetupTypes
<1>2. NoAssignment \in Assignment
  BY DEF NoAssignment, Disabled, Assignment, Pins
<1>3. CASE versions[b] = "RETIRED"
  BY <1>1, <1>2, <1>3 DEF StartSetup, Stops, SetupInv, SetupTypes, SetupRun, IdleSetup, Pins, MadeBeforeEnabled,
     NothingRetiredIsPinned, OwnVersionActive, Idle, AtItsSymbol, RetiresUnpinned, OperatorReadsMade
<1>4. CASE versions[b] # "RETIRED"
  <2>1. setup' \in SetupRun /\ setup'.at = "next" /\ setup'.build = b
        /\ setup'.superseded = {c \in Builds \ {b} : versions[c] = "ACTIVE"}
    BY <1>2, <1>4 DEF StartSetup, IdleSetup, SetupRun, Pins
  <2>2. versions' = [versions EXCEPT ![b] = "ACTIVE"] /\ UNCHANGED <<assignments, operator>>
    BY <1>4 DEF StartSetup
  <2>3. \A c \in Builds : versions[c] = "ACTIVE" => versions'[c] = "ACTIVE"
    BY <1>1, <2>2
  <2>4. NothingRetiredIsPinned'
    BY <1>1, <2>2, <2>3 DEF SetupInv, NothingRetiredIsPinned, Assignment, Pins
  <2>5. QED
    BY <1>1, <2>1, <2>2, <2>4 DEF SetupInv, SetupTypes, MadeBeforeEnabled, OwnVersionActive, Idle,
       AtItsSymbol, RetiresUnpinned, OperatorReadsMade
<1>5. QED
  BY <1>3, <1>4

LEMMA FindAssignmentStep ==
  ASSUME "none" \notin Builds, MaxLock \in Nat, SetupInv, NEW y \in DefinitionSymbols, FindAssignment(y)
  PROVE  SetupInv'
<1> DEFINE made == Disabled(setup.build)
<1>1. /\ SetupTypes /\ setup.build \in Builds /\ versions[setup.build] = "ACTIVE" /\ setup.build \notin setup.superseded
  BY DEF SetupInv, OwnVersionActive, Idle, FindAssignment
<1>2. made \in Assignment /\ made.pin = setup.build /\ ~made.enabled
  BY <1>1, MadeTyped
<1>3. /\ assignments' \in [DefinitionSymbols -> Assignment]
      /\ \A z \in DefinitionSymbols : assignments'[z] = assignments[z] \/ assignments'[z] = made
  BY <1>1, <1>2 DEF FindAssignment, SetupTypes
<1>4. setup' = [setup EXCEPT !.at = "found", !.symbol = y, !.symbols = @ \ {y}, !.seen = assignments'[y]]
  BY DEF FindAssignment
<1>5. setup' \in SetupRun /\ setup'.at = "found" /\ setup'.symbol = y
      /\ setup'.build = setup.build /\ setup'.superseded = setup.superseded
  BY <1>1, <1>3, <1>4 DEF SetupTypes, SetupRun
<1>6. UNCHANGED <<versions, operator>>
  BY DEF FindAssignment
<1>7. MadeBeforeEnabled' /\ NothingRetiredIsPinned'
  BY <1>1, <1>2, <1>3, <1>6 DEF SetupInv, MadeBeforeEnabled, NothingRetiredIsPinned
<1>8. QED
  BY <1>1, <1>3, <1>5, <1>6, <1>7 DEF SetupInv, SetupTypes, OwnVersionActive, Idle, AtItsSymbol,
     RetiresUnpinned, OperatorReadsMade

LEMMA PinAssignmentStep ==
  ASSUME "none" \notin Builds, MaxLock \in Nat, SetupInv, PinAssignment
  PROVE  SetupInv'
<1>1. /\ SetupTypes /\ setup.build \in Builds /\ versions[setup.build] = "ACTIVE" /\ setup.build \notin setup.superseded
      /\ setup.symbol \in DefinitionSymbols
  BY DEF SetupInv, OwnVersionActive, Idle, PinAssignment, AtItsSymbol
<1>2. UNCHANGED <<versions, operator>>
  BY DEF PinAssignment
<1>3. CASE UNCHANGED assignments /\ (setup' = [setup EXCEPT !.at = "next"] \/ Stops)
  <2>1. /\ setup' \in SetupRun /\ setup'.at \in {"next", "idle"}
        /\ setup'.at = "next" => setup'.build = setup.build /\ setup'.superseded = setup.superseded
    BY <1>1, <1>3, IdleTyped DEF SetupTypes, SetupRun, Stops
  <2>2. QED
    BY <1>1, <1>2, <1>3, <2>1 DEF SetupInv, SetupTypes, MadeBeforeEnabled, NothingRetiredIsPinned, OwnVersionActive,
       Idle, AtItsSymbol, RetiresUnpinned, OperatorReadsMade
<1>4. CASE /\ ~setup.seen.enabled /\ Unchanged(setup.symbol) /\ setup.seen.lock < MaxLock
           /\ Repin(setup.symbol) /\ setup' = [setup EXCEPT !.at = "next"]
  <2> DEFINE s == setup.symbol
             repinned == [assignments[s] EXCEPT !.pin = setup.build, !.lock = @ + 1]
  <2>1. repinned \in Assignment /\ repinned.pin = setup.build /\ ~repinned.enabled
    <3>1. assignments[s] \in Assignment /\ assignments[s].lock < MaxLock /\ ~assignments[s].enabled
      BY <1>1, <1>4 DEF SetupTypes, Unchanged
    <3>2. assignments[s].lock + 1 \in 0..MaxLock
      BY <3>1 DEF Assignment
    <3>3. QED
      BY <1>1, <3>1, <3>2 DEF Assignment, Pins
  <2>2. assignments' = [assignments EXCEPT ![s] = repinned]
    BY <1>1, <1>4 DEF Repin, SetupTypes, Assignment
  <2>3. /\ assignments' \in [DefinitionSymbols -> Assignment]
        /\ \A z \in DefinitionSymbols : assignments'[z] = assignments[z] \/ assignments'[z] = repinned
    BY <1>1, <2>1, <2>2 DEF SetupTypes
  <2>4. setup' \in SetupRun /\ setup'.at = "next" /\ setup'.build = setup.build /\ setup'.superseded = setup.superseded
    BY <1>1, <1>4 DEF SetupTypes, SetupRun
  <2>5. MadeBeforeEnabled' /\ NothingRetiredIsPinned'
    BY <1>1, <1>2, <2>1, <2>3 DEF SetupInv, MadeBeforeEnabled, NothingRetiredIsPinned
  <2>6. QED
    BY <1>1, <1>2, <2>3, <2>4, <2>5 DEF SetupInv, SetupTypes, OwnVersionActive, Idle, AtItsSymbol, RetiresUnpinned,
       OperatorReadsMade
<1>5. QED
  BY <1>3, <1>4 DEF PinAssignment

LEMMA CountReferencesStep ==
  ASSUME "none" \notin Builds, MaxLock \in Nat, SetupInv, CountReferences
  PROVE  SetupInv'
<1> DEFINE free == {v \in setup.superseded : \A y \in DefinitionSymbols : assignments[y].pin # v}
<1>1. SetupTypes /\ UNCHANGED <<versions, assignments, operator>>
  BY DEF SetupInv, CountReferences
<1>2. CASE Stops
  BY <1>1, <1>2 DEF Stops, SetupInv, SetupTypes, SetupRun, IdleSetup, Pins, NoAssignment, Disabled, Assignment, MadeBeforeEnabled,
     NothingRetiredIsPinned, OwnVersionActive, Idle, AtItsSymbol, RetiresUnpinned, OperatorReadsMade
<1>3. CASE setup' = [setup EXCEPT !.at = "retire", !.superseded = free] /\ setup.at = "next"
  <2>1. setup' \in SetupRun /\ setup'.at = "retire" /\ setup'.build = setup.build /\ setup'.superseded = free
    BY <1>1, <1>3 DEF SetupTypes, SetupRun
  <2>2. RetiresUnpinned' /\ OwnVersionActive'
    BY <1>1, <1>3, <2>1 DEF RetiresUnpinned, SetupInv, OwnVersionActive, Idle
  <2>3. QED
    BY <1>1, <2>1, <2>2 DEF SetupInv, SetupTypes, MadeBeforeEnabled, NothingRetiredIsPinned, AtItsSymbol, OperatorReadsMade
<1>4. QED
  BY <1>2, <1>3 DEF CountReferences

LEMMA RetireVersionStep ==
  ASSUME "none" \notin Builds, MaxLock \in Nat, SetupInv, RetireVersion
  PROVE  SetupInv'
<1>1. PICK v \in setup.superseded :
        /\ versions' = [versions EXCEPT ![v] = "RETIRED"]
        /\ setup' = IF setup.superseded = {v} THEN IdleSetup
                    ELSE [setup EXCEPT !.at = "next", !.superseded = @ \ {v}]
  BY DEF RetireVersion
<1>2. /\ SetupTypes /\ setup.at = "retire" /\ UNCHANGED <<assignments, operator>>
      /\ setup.build \in Builds /\ versions[setup.build] = "ACTIVE" /\ setup.build \notin setup.superseded
      /\ \A y \in DefinitionSymbols : assignments[y].pin # v
  BY <1>1 DEF SetupInv, RetireVersion, OwnVersionActive, Idle, RetiresUnpinned
<1>3. v \in Builds /\ versions' \in [Builds -> {"none", "ACTIVE", "RETIRED"}]
      /\ \A c \in Builds : c # v => versions'[c] = versions[c]
  BY <1>1, <1>2 DEF SetupTypes, SetupRun
<1>4. /\ setup' \in SetupRun /\ setup'.at \in {"next", "idle"}
      /\ setup'.at = "next" => setup'.build = setup.build /\ setup'.superseded = setup.superseded \ {v}
  BY <1>1, <1>2, IdleTyped DEF SetupTypes, SetupRun
<1>5. NothingRetiredIsPinned'
  BY <1>2, <1>3 DEF SetupInv, NothingRetiredIsPinned, SetupTypes, Assignment, Pins
<1>6. QED
  BY <1>2, <1>3, <1>4, <1>5 DEF SetupInv, SetupTypes, MadeBeforeEnabled, OwnVersionActive, Idle, AtItsSymbol,
     RetiresUnpinned, OperatorReadsMade

LEMMA SwitchAssignmentStep ==
  ASSUME "none" \notin Builds, MaxLock \in Nat, SetupInv, SwitchAssignment
  PROVE  SetupInv'
<1> DEFINE o == operator.symbol
           switched == [assignments[o] EXCEPT !.enabled = ~@, !.lock = @ + 1]
<1>1. /\ SetupTypes /\ UNCHANGED <<versions, setup>> /\ operator' = IdleOperator
      /\ o \in DefinitionSymbols /\ operator.seen.pin # "none" /\ operator.seen.lock < MaxLock
  BY DEF SetupInv, SwitchAssignment, OperatorReadsMade
<1>2. CASE assignments[o] # operator.seen
  BY <1>1, <1>2 DEF SwitchAssignment, SetupInv, SetupTypes, MadeBeforeEnabled, NothingRetiredIsPinned, OwnVersionActive, Idle,
     AtItsSymbol, RetiresUnpinned, OperatorReadsMade, IdleOperator, NoAssignment, Disabled, Assignment, Pins
<1>3. CASE assignments[o] = operator.seen
  <2>1. switched \in Assignment /\ switched.pin = assignments[o].pin /\ switched.pin # "none"
    <3>1. assignments[o] \in Assignment /\ assignments[o].lock < MaxLock /\ assignments[o].pin # "none"
      BY <1>1, <1>3 DEF SetupTypes
    <3>2. assignments[o].lock + 1 \in 0..MaxLock /\ (~assignments[o].enabled) \in BOOLEAN
      BY <3>1 DEF Assignment
    <3>3. QED
      BY <3>1, <3>2 DEF Assignment
  <2>2. assignments' = [assignments EXCEPT ![o] = switched]
    BY <1>1, <1>3 DEF SwitchAssignment, SetupTypes, Assignment
  <2>3. /\ assignments' \in [DefinitionSymbols -> Assignment]
        /\ \A z \in DefinitionSymbols : assignments'[z].pin = assignments[z].pin
        /\ \A z \in DefinitionSymbols : assignments'[z] = assignments[z] \/ assignments'[z].pin # "none"
    BY <1>1, <2>1, <2>2 DEF SetupTypes
  <2>4. operator' \in [symbol : DefinitionSymbols \cup {"none"}, seen : Assignment]
    BY <1>1 DEF IdleOperator, NoAssignment, Disabled, Assignment, Pins
  <2>5. QED
    BY <1>1, <2>3, <2>4 DEF SetupInv, SetupTypes, MadeBeforeEnabled, NothingRetiredIsPinned, OwnVersionActive, Idle,
       AtItsSymbol, RetiresUnpinned, OperatorReadsMade
<1>4. QED
  BY <1>2, <1>3

\* Every step keeps the invariant.
LEMMA SetupNextStep ==
  ASSUME "none" \notin Builds, MaxLock \in Nat
  PROVE  SetupInv /\ [SetupNext]_setupVars => SetupInv'
<1> SUFFICES ASSUME SetupInv, [SetupNext]_setupVars PROVE SetupInv'
  OBVIOUS
<1>1. ASSUME SetupDies PROVE SetupInv'
  BY <1>1 DEF SetupDies, Stops, SetupInv, SetupTypes, SetupRun, IdleSetup, Pins, NoAssignment, Disabled, Assignment,
     MadeBeforeEnabled, NothingRetiredIsPinned, OwnVersionActive, Idle, AtItsSymbol, RetiresUnpinned, OperatorReadsMade
<1>2. ASSUME NEW y \in DefinitionSymbols, ReadAssignment(y) PROVE SetupInv'
  BY <1>2 DEF ReadAssignment, SetupInv, SetupTypes, Assignment, MadeBeforeEnabled, NothingRetiredIsPinned,
     OwnVersionActive, Idle, AtItsSymbol, RetiresUnpinned, OperatorReadsMade
<1>3. ASSUME UNCHANGED setupVars PROVE SetupInv'
  BY <1>3 DEF setupVars, SetupInv, SetupTypes, MadeBeforeEnabled, NothingRetiredIsPinned,
     OwnVersionActive, Idle, AtItsSymbol, RetiresUnpinned, OperatorReadsMade
<1>4. QED
  BY <1>1, <1>2, <1>3, SetupStartStep, FindAssignmentStep, PinAssignmentStep, CountReferencesStep, RetireVersionStep,
     SwitchAssignmentStep DEF SetupNext

\* The invariant: a setup's own version is active and not superseded, it retires only
\* what nothing is pinned to, and nothing is pinned to what was retired
\* (shadowStrategySetup.ts, setStrategyAssignmentEnabled).
THEOREM SetupInvariant ==
  ASSUME "none" \notin Builds, MaxLock \in Nat
  PROVE  SetupSpec => []SetupInv
<1>1. SetupInit => SetupInv
  BY SetupStarts
<1>2. SetupInv /\ [SetupNext]_setupVars => SetupInv'
  BY SetupNextStep
<1>3. QED
  BY <1>1, <1>2, PTL DEF SetupSpec

\* Versions, assignments and the setup run keep their types.
THEOREM SetupTypeCorrect ==
  ASSUME "none" \notin Builds, MaxLock \in Nat
  PROVE  SetupSpec => []SetupTypeOK
<1>1. SetupInv => SetupTypeOK
  BY DEF SetupInv, SetupTypes, SetupTypeOK, SetupRun, Assignment, Pins
<1>2. QED
  BY <1>1, SetupInvariant, PTL

\* One step leaves an enabled assignment on its version, and a setup's step enables and
\* disables none: what is found with no pin is disabled, what is pinned anew was read
\* disabled and is as it was read.
LEMMA EnabledStays ==
  ASSUME "none" \notin Builds, SetupInv, [SetupNext]_setupVars
  PROVE  EnabledStaysPinnedStep
<1>1. /\ SetupTypes /\ MadeBeforeEnabled
      /\ ~Idle => setup.build \in Builds
  BY DEF SetupInv, OwnVersionActive
<1>2. ASSUME UNCHANGED assignments PROVE EnabledStaysPinnedStep
  BY <1>2 DEF EnabledStaysPinnedStep
<1>3. ASSUME NEW y \in DefinitionSymbols, FindAssignment(y) PROVE EnabledStaysPinnedStep
  <2>1. \A z \in DefinitionSymbols :
          \/ assignments'[z] = assignments[z]
          \/ assignments[z].enabled = FALSE /\ assignments'[z].enabled = FALSE
    <3>1. Disabled(setup.build).enabled = FALSE
      BY DEF Disabled
    <3>2. \A z \in DefinitionSymbols : assignments[z].pin = "none" => assignments[z].enabled = FALSE
      BY <1>1 DEF SetupTypes, Assignment, MadeBeforeEnabled
    <3>3. QED
      BY <1>1, <1>3, <3>1, <3>2 DEF FindAssignment, SetupTypes
  <2>2. QED
    BY <2>1 DEF EnabledStaysPinnedStep
<1>4. ASSUME PinAssignment PROVE EnabledStaysPinnedStep
  <2>1. CASE UNCHANGED assignments
    BY <1>2, <2>1
  <2>2. CASE ~setup.seen.enabled /\ Unchanged(setup.symbol) /\ Repin(setup.symbol)
    <3>1. \A z \in DefinitionSymbols :
            /\ assignments'[z].enabled = assignments[z].enabled
            /\ assignments[z].enabled => assignments'[z] = assignments[z]
      BY <1>1, <2>2 DEF Unchanged, Repin, SetupTypes, Assignment
    <3>2. QED
      BY <3>1 DEF EnabledStaysPinnedStep
  <2>3. QED
    BY <1>4, <2>1, <2>2 DEF PinAssignment
<1>5. ASSUME SwitchAssignment PROVE EnabledStaysPinnedStep
  <2>1. setup' = setup /\ \A z \in DefinitionSymbols : assignments'[z].pin = assignments[z].pin
    BY <1>1, <1>5 DEF SwitchAssignment, SetupTypes, Assignment
  <2>2. QED
    BY <2>1 DEF EnabledStaysPinnedStep
<1>6. QED
  BY <1>2, <1>3, <1>4, <1>5 DEF SetupNext, setupVars, StartSetup, CountReferences, RetireVersion, SetupDies, ReadAssignment

\* Whatever a setup and an operator do at the same time, and wherever a setup dies: no
\* assignment is pinned to a retired version, and an enabled one keeps its version.
THEOREM SetupChangesNothingLive ==
  ASSUME "none" \notin Builds, MaxLock \in Nat
  PROVE  SetupSpec => SetupIsSafe
<1>1. SetupInv => NothingRetiredIsPinned
  BY DEF SetupInv
<1>2. SetupInv /\ [SetupNext]_setupVars => [EnabledStaysPinnedStep]_setupVars
  BY EnabledStays
<1>3. QED
  BY <1>1, <1>2, SetupInvariant, PTL DEF SetupSpec, SetupIsSafe, EnabledStaysPinned

----------------------------------------------------------------------------
(* The bootstrap                                                           *)

PortfolioStatuses == {"none", "DRAFT", "ACTIVE", "ERROR_LOCKED"}
ScriptSteps == {"idle", "portfolio", "ledger", "snapshot", "limits", "profiles", "session", "audit"}
ScriptRun ==
  [at : ScriptSteps, day : 0..MaxDay, activate : BOOLEAN, limitsFound : BOOLEAN, symbols : SUBSET Symbols]

BootTypes ==
  /\ today \in 0..MaxDay /\ openings \in [0..MaxDay -> {Unopened} \cup Nat]
  /\ portfolio \in [status : PortfolioStatuses, equity : Int, sequence : Int]
  /\ ledgerRows \in [initial : BOOLEAN, trades : 0..MaxTrades]
  /\ limitSet \in {"none", "pinned", "deviating"} /\ session \in {"none", "new", "used"}
  /\ profiles \in [Symbols -> [1..2 -> ProfileStatuses]]
  /\ script \in ScriptRun

\* Every trade wrote a ledger row, and lost at most one unit; none came before the
\* portfolio.
BooksAgree ==
  /\ portfolio.status = "none" => ledgerRows.trades = 0
  /\ portfolio.status # "none" => /\ portfolio.sequence = 1 + ledgerRows.trades
                                  /\ portfolio.equity >= StartingCash - ledgerRows.trades

\* A profile is made, then replaced: never two active, never none once there was one.
ProfileStage(y) ==
  \/ profiles[y][1] = "none" /\ profiles[y][2] = "none"
  \/ profiles[y][1] = "ACTIVE" /\ profiles[y][2] = "none"
  \/ profiles[y][1] = "RETIRED" /\ profiles[y][2] = "ACTIVE"
ProfileStages == \A y \in Symbols : ProfileStage(y)

\* What a run has made so far is there.
After(steps) == script.at \in steps
RunMade ==
  /\ After({"ledger", "snapshot", "limits", "profiles", "session", "audit"}) => portfolio.status # "none"
  /\ After({"snapshot", "limits", "profiles", "session", "audit"}) => ledgerRows.initial = TRUE
  /\ After({"portfolio", "ledger", "snapshot", "limits"}) =>
       (script.limitsFound = TRUE <=> limitSet # "none") /\ script.symbols = Symbols
  /\ After({"profiles", "session", "audit"}) =>
       limitSet # "none" /\ \A y \in Symbols \ script.symbols : profiles[y][1] # "none"
  /\ After({"audit"}) => session # "none" /\ script.symbols = {}

\* And stays, once a run has ended.
EndedMade ==
  finished = TRUE =>
    /\ portfolio.status # "none" /\ limitSet # "none" /\ session # "none" /\ ledgerRows.initial = TRUE
    /\ \A y \in Symbols : profiles[y][1] # "none"

BootInv == BootTypes /\ BooksAgree /\ ProfileStages /\ RunMade /\ EndedMade

LEMMA IdleScriptTyped ==
  ASSUME MaxDay \in Nat PROVE IdleScript \in ScriptRun /\ IdleScript.at = "idle"
BY DEF IdleScript, ScriptRun, ScriptSteps

LEMMA BootStarts ==
  ASSUME MaxDay \in Nat, MaxTrades \in Nat, StartingCash \in Nat
  PROVE  BootstrapInit => BootInv
<1>1. SUFFICES ASSUME BootstrapInit PROVE BootInv
  OBVIOUS
<1>2. script \in ScriptRun /\ script.at = "idle"
  BY <1>1, IdleScriptTyped DEF BootstrapInit
<1>3. BootTypes
  BY <1>1, <1>2 DEF BootstrapInit, BootTypes, NoPortfolio, PortfolioStatuses, ProfileStatuses
<1>4. BooksAgree /\ ProfileStages /\ RunMade /\ EndedMade
  BY <1>1, <1>2 DEF BootstrapInit, NoPortfolio, BooksAgree, ProfileStages, ProfileStage, RunMade, After, EndedMade
<1>5. QED
  BY <1>3, <1>4 DEF BootInv

\* A step that leaves the rows alone, and moves the script only to where they are.
LEMMA ScriptMoves ==
  ASSUME BootInv, script' \in ScriptRun, UNCHANGED <<today, portfolio, ledgerRows, openings, limitSet, profiles,
         session, finished>>, RunMade'
  PROVE  BootInv'
BY DEF BootInv, BootTypes, BooksAgree, ProfileStages, ProfileStage, EndedMade

LEMMA StartBootstrapStep ==
  ASSUME BootInv, NEW activate \in BOOLEAN, StartBootstrap(activate) PROVE BootInv'
<1>1. /\ script' = [IdleScript EXCEPT !.at = "portfolio", !.day = today, !.activate = activate,
                                     !.limitsFound = limitSet # "none", !.symbols = Symbols]
      /\ UNCHANGED <<today, portfolio, ledgerRows, openings, limitSet, profiles, session, finished>>
  BY DEF StartBootstrap, Books, Rules
<1>2. today \in 0..MaxDay /\ (limitSet # "none") \in BOOLEAN
  BY DEF BootInv, BootTypes
<1>3. /\ script' \in ScriptRun /\ script'.at = "portfolio"
      /\ script'.limitsFound = (limitSet # "none") /\ script'.symbols = Symbols
  BY <1>1, <1>2 DEF IdleScript, ScriptRun, ScriptSteps
<1>4. RunMade'
  BY <1>1, <1>3 DEF RunMade, After
<1>5. QED
  BY <1>1, <1>3, <1>4, ScriptMoves

LEMMA StepMoves ==
  ASSUME BootTypes, NEW from, NEW to \in ScriptSteps, Step(from, to)
  PROVE  /\ script.at = from /\ script' \in ScriptRun /\ script'.at = to /\ script'.symbols = script.symbols
         /\ script'.limitsFound = script.limitsFound /\ script'.symbols = script.symbols
BY DEF BootTypes, Step, ScriptRun

LEMMA BootPortfolioStep ==
  ASSUME MaxTrades \in Nat, StartingCash \in Nat, BootInv, BootstrapPortfolio PROVE BootInv'
<1>1. /\ script.at = "portfolio" /\ script' \in ScriptRun /\ script'.at = "ledger"
      /\ script'.limitsFound = script.limitsFound /\ script'.symbols = script.symbols
  BY StepMoves DEF BootInv, BootstrapPortfolio, ScriptSteps
<1>2. UNCHANGED <<today, ledgerRows, openings, limitSet, profiles, session, finished>>
  BY DEF BootstrapPortfolio, Rules
<1>3. CASE portfolio.status # "none"
  <2>1. portfolio' = portfolio
    BY <1>3 DEF BootstrapPortfolio
  <2>2. RunMade'
    BY <1>1, <1>2, <1>3, <2>1 DEF BootInv, RunMade, After
  <2>3. QED
    BY <1>1, <1>2, <2>1, <2>2, ScriptMoves
<1>4. CASE portfolio.status = "none"
  <2>1. portfolio' \in [status : PortfolioStatuses, equity : Int, sequence : Int]
        /\ portfolio'.status # "none" /\ portfolio'.sequence = 1 /\ portfolio'.equity = StartingCash
    BY <1>4 DEF BootstrapPortfolio, PortfolioStatuses
  <2>2. BootTypes' /\ RunMade' /\ ProfileStages' /\ EndedMade'
    BY <1>1, <1>2, <2>1 DEF BootInv, BootTypes, RunMade, After, ProfileStages, ProfileStage, EndedMade
  <2>3. ledgerRows.trades = 0
    BY <1>4 DEF BootInv, BooksAgree
  <2>4. QED
    BY <1>2, <2>1, <2>2, <2>3 DEF BootInv, BooksAgree
<1>5. QED
  BY <1>3, <1>4

LEMMA BootLedgerStep ==
  ASSUME BootInv, BootstrapLedger PROVE BootInv'
<1>1. /\ script.at = "ledger" /\ script' \in ScriptRun /\ script'.at = "snapshot"
      /\ script'.limitsFound = script.limitsFound /\ script'.symbols = script.symbols
  BY StepMoves DEF BootInv, BootstrapLedger, ScriptSteps
<1>2. UNCHANGED <<today, portfolio, openings, limitSet, profiles, session, finished>>
  BY DEF BootstrapLedger, Rules
<1>3. /\ ledgerRows' \in [initial : BOOLEAN, trades : 0..MaxTrades]
      /\ ledgerRows'.initial = TRUE /\ ledgerRows'.trades = ledgerRows.trades
  BY DEF BootstrapLedger, BootInv, BootTypes
<1>4. QED
  BY <1>1, <1>2, <1>3 DEF BootInv, BootTypes, BooksAgree, RunMade, After, ProfileStages, ProfileStage, EndedMade

LEMMA BootSnapshotStep ==
  ASSUME StartingCash \in Nat, BootInv, BootstrapSnapshot PROVE BootInv'
<1>1. /\ script.at = "snapshot" /\ script' \in ScriptRun /\ script'.at = "limits"
      /\ script'.limitsFound = script.limitsFound /\ script'.symbols = script.symbols
  BY StepMoves DEF BootInv, BootstrapSnapshot, ScriptSteps
<1>2. UNCHANGED <<today, portfolio, ledgerRows, limitSet, profiles, session, finished>>
  BY DEF BootstrapSnapshot, Rules
<1>3. openings' \in [0..MaxDay -> {Unopened} \cup Nat]
  BY DEF BootstrapSnapshot, BootInv, BootTypes
<1>4. QED
  BY <1>1, <1>2, <1>3 DEF BootInv, BootTypes, BooksAgree, RunMade, After, ProfileStages, ProfileStage, EndedMade

LEMMA BootLimitsStep ==
  ASSUME BootInv, BootstrapLimits PROVE BootInv'
<1>1. /\ script.at = "limits" /\ script' \in ScriptRun /\ script'.at = "profiles"
      /\ script'.symbols = script.symbols
  BY StepMoves DEF BootInv, BootstrapLimits, ScriptSteps
<1>2. UNCHANGED <<today, portfolio, ledgerRows, openings, profiles, session, finished>>
  BY DEF BootstrapLimits, Books
<1>3. limitSet' \in {"none", "pinned", "deviating"} /\ limitSet' # "none"
  BY <1>1 DEF BootstrapLimits, BootInv, BootTypes, RunMade, After
<1>4. QED
  BY <1>1, <1>2, <1>3 DEF BootInv, BootTypes, BooksAgree, RunMade, After, ProfileStages, ProfileStage, EndedMade

LEMMA BootProfileStep ==
  ASSUME BootInv, NEW y \in Symbols, BootstrapProfile(y) PROVE BootInv'
<1>1. /\ script.at = "profiles" /\ script' \in ScriptRun /\ script'.at = "profiles"
      /\ script'.symbols = script.symbols \ {y}
  BY DEF BootstrapProfile, BootInv, BootTypes, ScriptRun
<1>2. UNCHANGED <<today, portfolio, ledgerRows, openings, limitSet, session, finished>>
  BY DEF BootstrapProfile, Books
<1>3. /\ profiles' \in [Symbols -> [1..2 -> ProfileStatuses]]
      /\ \A z \in Symbols : z # y => profiles'[z] = profiles[z]
      /\ profiles'[y][2] = profiles[y][2]
      /\ profiles'[y][1] = IF profiles[y][1] # "none" THEN profiles[y][1] ELSE "ACTIVE"
  BY DEF BootstrapProfile, BootInv, BootTypes, ProfileStatuses
<1>4. ProfileStages'
  BY <1>3 DEF BootInv, ProfileStages, ProfileStage
<1>5. \A z \in Symbols : profiles[z][1] # "none" \/ z = y => profiles'[z][1] # "none"
  BY <1>3
<1>6. RunMade' /\ EndedMade'
  BY <1>1, <1>2, <1>5 DEF BootInv, RunMade, After, EndedMade
<1>7. QED
  BY <1>1, <1>2, <1>3, <1>4, <1>6 DEF BootInv, BootTypes, BooksAgree

LEMMA BootSessionStep ==
  ASSUME BootInv, BootstrapSession PROVE BootInv'
<1>1. /\ script.at = "profiles" /\ script' \in ScriptRun /\ script'.at = "audit"
      /\ script'.symbols = {} /\ script.symbols = {}
  BY DEF BootstrapSession, BootInv, BootTypes, ScriptRun, ScriptSteps
<1>2. UNCHANGED <<today, portfolio, ledgerRows, openings, limitSet, profiles, finished>>
  BY DEF BootstrapSession, Books
<1>3. session' \in {"none", "new", "used"} /\ session' # "none"
  BY DEF BootstrapSession, BootInv, BootTypes
<1>4. QED
  BY <1>1, <1>2, <1>3 DEF BootInv, BootTypes, BooksAgree, RunMade, After, ProfileStages, ProfileStage, EndedMade

LEMMA BootEndStep ==
  ASSUME BootInv, BootstrapEnd PROVE BootInv'
<1>1. script.at = "audit" /\ script' \in ScriptRun /\ script'.at = "idle"
  BY StepMoves DEF BootInv, BootstrapEnd, ScriptSteps
<1>2. UNCHANGED <<today, portfolio, ledgerRows, openings, limitSet, profiles, session>>
  BY DEF BootstrapEnd, Books, Rules
<1>3. QED
  BY <1>1, <1>2 DEF BootInv, BootTypes, BooksAgree, RunMade, After, ProfileStages, ProfileStage, EndedMade

LEMMA ScriptDiesStep ==
  ASSUME MaxDay \in Nat, BootInv, ScriptDies PROVE BootInv'
<1>1. script' \in ScriptRun /\ script'.at = "idle"
  BY IdleScriptTyped DEF ScriptDies
<1>2. RunMade'
  BY <1>1 DEF RunMade, After
<1>3. QED
  BY <1>1, <1>2, ScriptMoves DEF ScriptDies, Books, Rules

LEMMA CalibrateStep ==
  ASSUME BootInv, NEW y \in Symbols, Calibrate(y) PROVE BootInv'
<1> DEFINE replaced == [v \in 1..2 |-> IF v = 1 THEN "RETIRED" ELSE "ACTIVE"]
<1>1. UNCHANGED <<today, portfolio, ledgerRows, openings, limitSet, session, script, finished>>
  BY DEF Calibrate, Books
<1>2. replaced \in [1..2 -> ProfileStatuses] /\ replaced[1] = "RETIRED" /\ replaced[2] = "ACTIVE"
  BY DEF ProfileStatuses
<1>3. /\ profiles' \in [Symbols -> [1..2 -> ProfileStatuses]] /\ profiles'[y] = replaced
      /\ \A z \in Symbols : z # y => profiles'[z] = profiles[z]
  BY <1>2 DEF Calibrate, BootInv, BootTypes
<1>4. ProfileStages' /\ \A z \in Symbols : profiles[z][1] # "none" => profiles'[z][1] # "none"
  BY <1>2, <1>3 DEF BootInv, ProfileStages, ProfileStage
<1>5. QED
  BY <1>1, <1>3, <1>4 DEF BootInv, BootTypes, BooksAgree, RunMade, After, EndedMade

LEMMA StartTradingDayStep ==
  ASSUME MaxTrades \in Nat, StartingCash \in Nat, MaxTrades <= StartingCash, BootInv, StartTradingDay PROVE BootInv'
<1>1. UNCHANGED <<today, portfolio, ledgerRows, limitSet, profiles, session, script, finished>>
  BY DEF StartTradingDay, Rules
<1>2. portfolio.equity \in Nat
  BY DEF StartTradingDay, BootInv, BootTypes, BooksAgree
<1>3. openings' \in [0..MaxDay -> {Unopened} \cup Nat]
  BY <1>2 DEF StartTradingDay, BootInv, BootTypes
<1>4. QED
  BY <1>1, <1>3 DEF BootInv, BootTypes, BooksAgree, RunMade, After, ProfileStages, ProfileStage, EndedMade

LEMMA StatusStep ==
  ASSUME BootInv, portfolio.status # "none", NEW st \in PortfolioStatuses \ {"none"},
         portfolio' = [portfolio EXCEPT !.status = st],
         UNCHANGED <<today, ledgerRows, openings, limitSet, profiles, session, script, finished>>
  PROVE  BootInv'
<1>1. /\ portfolio' \in [status : PortfolioStatuses, equity : Int, sequence : Int] /\ portfolio'.status # "none"
      /\ portfolio'.equity = portfolio.equity /\ portfolio'.sequence = portfolio.sequence
  BY DEF BootInv, BootTypes
<1>2. QED
  BY <1>1 DEF BootInv, BootTypes, BooksAgree, RunMade, After, ProfileStages, ProfileStage, EndedMade

LEMMA OperateStep ==
  ASSUME BootInv, Operate PROVE BootInv'
<1>1. CASE portfolio.status = "DRAFT" /\ portfolio' = [portfolio EXCEPT !.status = "ACTIVE"] /\ UNCHANGED session
  BY <1>1, StatusStep DEF Operate, PortfolioStatuses
<1>2. CASE session = "new" /\ session' = "used" /\ UNCHANGED portfolio
  BY <1>2 DEF Operate, BootInv, BootTypes, BooksAgree, RunMade, After, ProfileStages, ProfileStage, EndedMade
<1>3. QED
  BY <1>1, <1>2 DEF Operate

LEMMA TradeStep ==
  ASSUME MaxTrades \in Nat, StartingCash \in Nat, BootInv, Trade PROVE BootInv'
<1>1. UNCHANGED <<today, openings, limitSet, profiles, session, script, finished>>
  BY DEF Trade, Rules
<1>2. PICK result \in {-1, 1} : portfolio' = [portfolio EXCEPT !.equity = @ + result, !.sequence = @ + 1]
  BY DEF Trade
<1>3. /\ portfolio' \in [status : PortfolioStatuses, equity : Int, sequence : Int]
      /\ portfolio'.status = portfolio.status /\ portfolio'.sequence = portfolio.sequence + 1
      /\ portfolio'.equity >= portfolio.equity - 1
  <2>1. portfolio \in [status : PortfolioStatuses, equity : Int, sequence : Int]
    BY DEF BootInv, BootTypes
  <2>2. portfolio.equity \in Int /\ portfolio.sequence \in Int
    BY <2>1
  <2>3. portfolio.equity + result \in Int /\ portfolio.sequence + 1 \in Int /\ portfolio.equity + result >= portfolio.equity - 1
    BY <2>2
  <2>4. QED
    BY <1>2, <2>1, <2>3
<1>4. ledgerRows.trades + 1 \in 0..MaxTrades
  BY DEF Trade, BootInv, BootTypes
<1>5. /\ ledgerRows' \in [initial : BOOLEAN, trades : 0..MaxTrades]
      /\ ledgerRows'.initial = ledgerRows.initial /\ ledgerRows'.trades = ledgerRows.trades + 1
  BY <1>4 DEF Trade, BootInv, BootTypes
<1>6. BooksAgree'
  <2>1. portfolio.equity \in Int /\ portfolio'.equity \in Int /\ portfolio.sequence \in Int /\ ledgerRows.trades \in Int
    BY <1>3 DEF BootInv, BootTypes
  <2>2. portfolio.status # "none"
    BY DEF Trade
  <2>3. QED
    BY <1>3, <1>5, <2>1, <2>2 DEF BootInv, BooksAgree
<1>7. QED
  BY <1>1, <1>3, <1>5, <1>6 DEF BootInv, BootTypes, RunMade, After, ProfileStages, ProfileStage, EndedMade

LEMMA LimitsAreChangedStep ==
  ASSUME BootInv, LimitsAreChanged PROVE BootInv'
BY DEF LimitsAreChanged, Books, BootInv, BootTypes, BooksAgree, RunMade, After, ProfileStages, ProfileStage, EndedMade

LEMMA NextDayStep ==
  ASSUME MaxDay \in Nat, BootInv, NextDay PROVE BootInv'
BY DEF NextDay, Books, Rules, BootInv, BootTypes, BooksAgree, RunMade, After, ProfileStages, ProfileStage, EndedMade

\* Every row a run finds, and every row it made, is one that a whole set of rows has.
THEOREM BootstrapInvariant ==
  ASSUME MaxDay \in Nat, MaxTrades \in Nat, StartingCash \in Nat, MaxTrades <= StartingCash
  PROVE  BootstrapSpec => []BootInv
<1>1. BootstrapInit => BootInv
  BY BootStarts
<1>2. BootInv /\ [BootstrapNext]_bootstrapVars => BootInv'
  <2> SUFFICES ASSUME BootInv, [BootstrapNext]_bootstrapVars PROVE BootInv'
    OBVIOUS
  <2>1. CASE \E activate \in BOOLEAN : StartBootstrap(activate)
    BY <2>1, StartBootstrapStep
  <2>2. CASE BootstrapStep
    BY <2>2, BootPortfolioStep, BootLedgerStep, BootSnapshotStep, BootLimitsStep, BootProfileStep, BootSessionStep,
       BootEndStep DEF BootstrapStep
  <2>3. CASE ScriptDies
    BY <2>3, ScriptDiesStep
  <2>4. CASE \E y \in Symbols : Calibrate(y)
    BY <2>4, CalibrateStep
  <2>5. CASE StartTradingDay
    BY <2>5, StartTradingDayStep
  <2>6. CASE ReconcileOpening
    BY <2>6, StatusStep DEF ReconcileOpening, PortfolioStatuses, Rules
  <2>7. CASE Operate \/ Trade \/ LimitsAreChanged \/ NextDay
    BY <2>7, OperateStep, TradeStep, LimitsAreChangedStep, NextDayStep
  <2>8. CASE UNCHANGED bootstrapVars
    BY <2>8 DEF bootstrapVars, BootInv, BootTypes, BooksAgree, RunMade, After, ProfileStages, ProfileStage, EndedMade
  <2>9. QED
    BY <2>1, <2>2, <2>3, <2>4, <2>5, <2>6, <2>7, <2>8 DEF BootstrapNext
<1>3. QED
  BY <1>1, <1>2, PTL DEF BootstrapSpec

LEMMA OneActiveProfile ==
  ASSUME NEW y \in Symbols, ProfileStage(y), profiles[y][1] # "none" PROVE Cardinality(ActiveProfiles(y)) = 1
<1>1. ActiveProfiles(y) = {1} \/ ActiveProfiles(y) = {2}
  BY DEF ProfileStage, ActiveProfiles
<1>2. QED
  BY <1>1, FS_Singleton

\* What the rows of the bootstrap may be.
THEOREM BootstrapTypeCorrect ==
  ASSUME MaxDay \in Nat, MaxTrades \in Nat, StartingCash \in Nat, MaxTrades <= StartingCash
  PROVE  BootstrapSpec => []BootstrapTypeOK
<1>1. BootInv => BootstrapTypeOK
  BY DEF BootInv, BootTypes, BootstrapTypeOK, PortfolioStatuses, ScriptRun, ScriptSteps
<1>2. QED
  BY <1>1, BootstrapInvariant, PTL

\* A run changes no row it finds.
LEMMA RunKeepsRows ==
  ASSUME BootInv, BootstrapStep
  PROVE  /\ portfolio.status # "none" => portfolio' = portfolio
         /\ limitSet # "none" => limitSet' = limitSet
         /\ session # "none" => session' = session
         /\ \A y \in Symbols : ActiveProfiles(y) # {} => profiles'[y] = profiles[y]
         /\ \A d \in 0..MaxDay : openings[d] # Unopened => openings'[d] = openings[d]
<1>1. \A y \in Symbols : ActiveProfiles(y) # {} => profiles[y][1] # "none"
  BY DEF BootInv, ProfileStages, ProfileStage, ActiveProfiles
<1>2. CASE BootstrapPortfolio
  BY <1>2 DEF BootstrapPortfolio, Rules
<1>3. CASE BootstrapLedger
  BY <1>3 DEF BootstrapLedger, Rules
<1>4. CASE BootstrapSnapshot
  BY <1>4 DEF BootstrapSnapshot, Rules, BootInv, BootTypes
<1>5. CASE BootstrapLimits
  <2>1. limitSet # "none" => script.limitsFound = TRUE
    BY <1>5 DEF BootstrapLimits, Step, BootInv, RunMade, After
  <2>2. QED
    BY <1>5, <2>1 DEF BootstrapLimits, Books
<1>6. CASE \E y \in Symbols : BootstrapProfile(y)
  <2>1. PICK y \in Symbols : BootstrapProfile(y)
    BY <1>6
  <2>2. \A z \in Symbols : profiles[z][1] # "none" => profiles'[z] = profiles[z]
    BY <2>1 DEF BootstrapProfile, BootInv, BootTypes
  <2>3. QED
    BY <1>1, <2>1, <2>2 DEF BootstrapProfile, Books
<1>7. CASE BootstrapSession \/ BootstrapEnd
  BY <1>7 DEF BootstrapSession, BootstrapEnd, Books, Rules
<1>8. QED
  BY <1>2, <1>3, <1>4, <1>5, <1>6, <1>7 DEF BootstrapStep

\* However many runs died, one that ends has made every row, and running it again
\* changes none of them (shadowBootstrap.ts: each row is looked for before it is made).
THEOREM BootstrapRunsAgain ==
  ASSUME MaxDay \in Nat, MaxTrades \in Nat, StartingCash \in Nat, MaxTrades <= StartingCash
  PROVE  BootstrapSpec => BootstrapIsRepeatable
<1>1. BootInv => BootstrapCompletes
  BY OneActiveProfile DEF BootInv, BooksAgree, ProfileStages, EndedMade, BootstrapCompletes
<1>2. BootInv /\ [BootstrapNext]_bootstrapVars => [RerunChangesNothingStep]_bootstrapVars
  BY RunKeepsRows DEF RerunChangesNothingStep
<1>3. QED
  BY <1>1, <1>2, BootstrapInvariant, PTL DEF BootstrapSpec, BootstrapIsRepeatable, RerunChangesNothing

----------------------------------------------------------------------------
(* The scheduler of the research worker                                    *)

RunStages == {"flagged", "step", "threw", "ended", "left"}
RunShape(run) ==
  run \in [job : Jobs, id : {run.id}, todo : {run.todo}, failed : BOOLEAN, at : RunStages]

SchedulerTypes ==
  /\ process \in [at : {"off", "up", "stopping"}, starts : 0..MaxProcesses]
  /\ flags \in [Jobs -> BOOLEAN]
  /\ \A run \in inFlight : RunShape(run)
  /\ \A row \in botRuns : row.status \in {"RUNNING", "SUCCESS", "FAILED"}

OneRunPerJob == \A a \in inFlight, b \in inFlight : a.job = b.job => a = b
\* A flag is up as long as its job runs: it is set with the run and taken back with it.
FlagWhileRunning == \A run \in inFlight : flags[run.job] = TRUE
SuccessIsWhole == \A row \in botRuns : row.status = "SUCCESS" => row.whole

SchedulerInv == SchedulerTypes /\ OneRunPerJob /\ FlagWhileRunning /\ SuccessIsWhole

\* A run goes on: it stays the only one of its job.
LEMMA ReplaceKeeps ==
  ASSUME SchedulerTypes, OneRunPerJob, FlagWhileRunning, NEW run \in inFlight, NEW changed, RunShape(changed),
         changed.job = run.job, Replace(run, changed), UNCHANGED <<process, flags>>
  PROVE  /\ \A r \in inFlight' : RunShape(r)
         /\ OneRunPerJob' /\ FlagWhileRunning'
<1>1. \A r \in inFlight' : r = changed \/ (r \in inFlight /\ r # run)
  BY DEF Replace
<1>2. \A r \in inFlight' : RunShape(r)
  BY <1>1 DEF SchedulerTypes
<1>3. \A r \in inFlight : r # run => r.job # run.job
  BY DEF OneRunPerJob
<1>4. OneRunPerJob'
  BY <1>1, <1>3 DEF OneRunPerJob
<1>5. FlagWhileRunning'
  BY <1>1 DEF FlagWhileRunning
<1>6. QED
  BY <1>2, <1>4, <1>5

\* A row is written: its status is one of the three, and SUCCESS only of a whole run.
LEMMA SetRowKeeps ==
  ASSUME \A row \in botRuns : row.status \in {"RUNNING", "SUCCESS", "FAILED"}, SuccessIsWhole,
         NEW id, NEW st \in {"RUNNING", "SUCCESS", "FAILED"}, NEW run, SetRow(id, st, run),
         st = "SUCCESS" => run.todo = <<>> /\ ~run.failed
  PROVE  (\A row \in botRuns' : row.status \in {"RUNNING", "SUCCESS", "FAILED"}) /\ SuccessIsWhole'
<1> DEFINE new == [id |-> id, job |-> run.job, status |-> st, whole |-> run.todo = <<>> /\ ~run.failed]
<1>1. \A row \in botRuns' : row \in botRuns \/ row = new
  BY DEF SetRow
<1>2. new.status = st /\ new.whole = (run.todo = <<>> /\ ~run.failed)
  OBVIOUS
<1>3. QED
  BY <1>1, <1>2 DEF SuccessIsWhole

\* A run that goes on in one step, with or without its row being written.
LEMMA RunStep ==
  ASSUME SchedulerInv, NEW run \in inFlight, NEW changed, RunShape(changed), changed.job = run.job,
         Replace(run, changed), UNCHANGED <<process, flags>>,
         \/ UNCHANGED botRuns
         \/ \E id, r : \E st \in {"RUNNING", "SUCCESS", "FAILED"} :
              SetRow(id, st, r) /\ (st = "SUCCESS" => r.todo = <<>> /\ ~r.failed)
  PROVE  SchedulerInv'
<1>1. (\A r \in inFlight' : RunShape(r)) /\ OneRunPerJob' /\ FlagWhileRunning'
  BY ReplaceKeeps DEF SchedulerInv
<1>2. (\A row \in botRuns' : row.status \in {"RUNNING", "SUCCESS", "FAILED"}) /\ SuccessIsWhole'
  <2>1. CASE UNCHANGED botRuns
    BY <2>1 DEF SchedulerInv, SchedulerTypes, SuccessIsWhole
  <2>2. CASE \E id, r : \E st \in {"RUNNING", "SUCCESS", "FAILED"} :
               SetRow(id, st, r) /\ (st = "SUCCESS" => r.todo = <<>> /\ ~r.failed)
    BY <2>2, SetRowKeeps DEF SchedulerInv, SchedulerTypes
  <2>3. QED
    BY <2>1, <2>2
<1>3. QED
  BY <1>1, <1>2 DEF SchedulerInv, SchedulerTypes

LEMMA ChangedShape ==
  ASSUME NEW run, RunShape(run), NEW at \in RunStages
  PROVE  RunShape([run EXCEPT !.at = at]) /\ [run EXCEPT !.at = at].job = run.job
BY DEF RunShape

LEMMA BegunShape ==
  ASSUME NEW job \in Jobs PROVE RunShape(Begun(job)) /\ Begun(job).job = job
BY DEF RunShape, Begun, RunStages

LEMMA StartSchedulerStep ==
  ASSUME OnStart \subseteq Jobs, MaxProcesses \in Nat, SchedulerInv, StartScheduler PROVE SchedulerInv'
<1>1. process' \in [at : {"off", "up", "stopping"}, starts : 0..MaxProcesses]
  <2>1. process.starts + 1 \in 0..MaxProcesses
    BY DEF StartScheduler, SchedulerInv, SchedulerTypes
  <2>2. QED
    BY <2>1 DEF StartScheduler
<1>2. flags' \in [Jobs -> BOOLEAN] /\ botRuns' = botRuns
  BY DEF StartScheduler
<1>3. \A run \in inFlight' : \E job \in OnStart : run = Begun(job) /\ flags'[job] = TRUE
  BY DEF StartScheduler
<1>4. (\A run \in inFlight' : RunShape(run)) /\ OneRunPerJob' /\ FlagWhileRunning'
  BY <1>3, BegunShape DEF OneRunPerJob, FlagWhileRunning
<1>5. QED
  BY <1>1, <1>2, <1>4 DEF SchedulerInv, SchedulerTypes, SuccessIsWhole

LEMMA CronTickStep ==
  ASSUME SchedulerInv, NEW job \in Jobs, CronTick(job) PROVE SchedulerInv'
<1>1. /\ inFlight' = inFlight \cup {Begun(job)} /\ flags' = [flags EXCEPT ![job] = TRUE] /\ ~flags[job]
      /\ UNCHANGED <<process, botRuns>>
  BY DEF CronTick
<1>2. RunShape(Begun(job)) /\ Begun(job).job = job
  BY BegunShape
<1>3. \A run \in inFlight : run.job \in Jobs /\ run.job # job
  BY <1>1 DEF SchedulerInv, SchedulerTypes, FlagWhileRunning, RunShape
<1>4. /\ flags' \in [Jobs -> BOOLEAN] /\ flags'[job] = TRUE
      /\ \A other \in Jobs : other # job => flags'[other] = flags[other]
  BY <1>1 DEF SchedulerInv, SchedulerTypes
<1>5. OneRunPerJob' /\ FlagWhileRunning'
  BY <1>1, <1>2, <1>3, <1>4 DEF SchedulerInv, OneRunPerJob, FlagWhileRunning
<1>6. QED
  BY <1>1, <1>2, <1>4, <1>5 DEF SchedulerInv, SchedulerTypes, SuccessIsWhole

LEMMA ProcessStops ==
  ASSUME SchedulerInv, Shutdown \/ ProcessEnds PROVE SchedulerInv'
<1>1. process' \in [at : {"off", "up", "stopping"}, starts : 0..MaxProcesses]
  BY DEF SchedulerInv, SchedulerTypes, Shutdown, ProcessEnds
<1>2. QED
  BY <1>1 DEF SchedulerInv, SchedulerTypes, OneRunPerJob, FlagWhileRunning, SuccessIsWhole, Shutdown, ProcessEnds

LEMMA ReleaseJobStep ==
  ASSUME SchedulerInv, NEW run \in inFlight, ReleaseJob(run) PROVE SchedulerInv'
<1>1. /\ inFlight' = inFlight \ {run} /\ flags' = [flags EXCEPT ![run.job] = FALSE]
      /\ UNCHANGED <<process, botRuns>>
  BY DEF ReleaseJob
<1>2. \A r \in inFlight : r.job \in Jobs
  BY DEF SchedulerInv, SchedulerTypes, RunShape
<1>3. \A r \in inFlight' : r \in inFlight /\ r.job # run.job
  BY <1>1 DEF SchedulerInv, OneRunPerJob
<1>4. flags' \in [Jobs -> BOOLEAN] /\ \A job \in Jobs : job # run.job => flags'[job] = flags[job]
  BY <1>1, <1>2 DEF SchedulerInv, SchedulerTypes
<1>5. QED
  BY <1>1, <1>2, <1>3, <1>4 DEF SchedulerInv, SchedulerTypes, OneRunPerJob, FlagWhileRunning, SuccessIsWhole

LEMMA PipelineStep ==
  ASSUME SchedulerInv, NEW run \in inFlight,
         \/ StartPipeline(run) \/ ChildThrows(run) \/ PipelineLost(run) \/ LastLogFails(run)
         \/ RunChild(run, "SUCCESS") \/ RunChild(run, "FAILED")
         \/ FinishCryptoPipeline(run) \/ FinishEquityPipeline(run) \/ FinishDiscoveryPipeline(run)
         \/ CatchCryptoPipeline(run) \/ CatchEquityPipeline(run) \/ CatchDiscoveryPipeline(run)
  PROVE  SchedulerInv'
<1>1. RunShape(run)
  BY DEF SchedulerInv, SchedulerTypes
<1>2. CASE StartPipeline(run)
  <2> DEFINE todo == Steps(run.job, switches)
             begun == [run EXCEPT !.at = "step", !.id = NextId, !.todo = todo]
  <2>1. /\ Replace(run, begun) /\ UNCHANGED <<process, flags>>
        /\ SetRow(NextId, "RUNNING", [run EXCEPT !.todo = todo])
    BY <1>2 DEF StartPipeline
  <2>2. RunShape(begun) /\ begun.job = run.job
    BY <1>1 DEF RunShape, RunStages
  <2>3. QED
    BY <2>1, <2>2, RunStep
<1>3. CASE ChildThrows(run) \/ PipelineLost(run) \/ LastLogFails(run)
  <2>1. PICK at \in {"threw", "left"} : Replace(run, [run EXCEPT !.at = at])
    BY <1>3 DEF ChildThrows, PipelineLost, LastLogFails
  <2>2. RunShape([run EXCEPT !.at = at]) /\ [run EXCEPT !.at = at].job = run.job
    BY <1>1, ChangedShape DEF RunStages
  <2>3. QED
    BY <1>3, <2>1, <2>2, RunStep DEF ChildThrows, PipelineLost, LastLogFails
<1>4. CASE RunChild(run, "SUCCESS") \/ RunChild(run, "FAILED")
  <2>1. PICK st \in {"SUCCESS", "FAILED"} : RunChild(run, st)
    BY <1>4
  <2> DEFINE changed == [run EXCEPT !.todo = Tail(@), !.failed = @ \/ st = "FAILED"]
  <2>2. RunShape(changed) /\ changed.job = run.job
    BY <1>1 DEF RunShape
  <2>3. QED
    BY <2>1, <2>2, RunStep DEF RunChild
<1>5. CASE FinishCryptoPipeline(run) \/ FinishEquityPipeline(run) \/ FinishDiscoveryPipeline(run)
  <2>1. /\ run.todo = <<>> /\ SetRow(run.id, FinalStatus(run), run)
        /\ Replace(run, [run EXCEPT !.at = "ended"]) /\ UNCHANGED <<process, flags>>
    BY <1>5 DEF FinishCryptoPipeline, FinishEquityPipeline, FinishDiscoveryPipeline
  <2>2. FinalStatus(run) \in {"RUNNING", "SUCCESS", "FAILED"} /\ (FinalStatus(run) = "SUCCESS" => ~run.failed)
    BY DEF FinalStatus
  <2>3. RunShape([run EXCEPT !.at = "ended"]) /\ [run EXCEPT !.at = "ended"].job = run.job
    BY <1>1, ChangedShape DEF RunStages
  <2>4. QED
    BY <2>1, <2>2, <2>3, RunStep
<1>6. CASE CatchCryptoPipeline(run) \/ CatchEquityPipeline(run) \/ CatchDiscoveryPipeline(run)
  <2>1. /\ SetRow(run.id, "FAILED", run)
        /\ Replace(run, [run EXCEPT !.at = "left"]) /\ UNCHANGED <<process, flags>>
    BY <1>6 DEF CatchCryptoPipeline, CatchEquityPipeline, CatchDiscoveryPipeline
  <2>2. RunShape([run EXCEPT !.at = "left"]) /\ [run EXCEPT !.at = "left"].job = run.job
    BY <1>1, ChangedShape DEF RunStages
  <2>3. QED
    BY <2>1, <2>2, RunStep
<1>7. QED
  BY <1>2, <1>3, <1>4, <1>5, <1>6

\* The flag, the runs it stands for and the rows they leave, in every behaviour.
THEOREM SchedulerInvariant ==
  ASSUME OnStart \subseteq Jobs, MaxProcesses \in Nat PROVE SchedulerSpec => []SchedulerInv
<1>1. SchedulerInit => SchedulerInv
  BY DEF SchedulerInit, SchedulerInv, SchedulerTypes, OneRunPerJob, FlagWhileRunning, SuccessIsWhole
<1>2. SchedulerInv /\ [SchedulerNext]_schedulerVars => SchedulerInv'
  <2> SUFFICES ASSUME SchedulerInv, [SchedulerNext]_schedulerVars PROVE SchedulerInv'
    OBVIOUS
  <2>1. CASE StartScheduler \/ Shutdown \/ ProcessEnds
    BY <2>1, StartSchedulerStep, ProcessStops
  <2>2. CASE \E job \in Jobs : CronTick(job)
    BY <2>2, CronTickStep
  <2>3. CASE \E run \in inFlight :
               \/ StartPipeline(run) \/ ChildThrows(run) \/ PipelineLost(run) \/ LastLogFails(run) \/ ReleaseJob(run)
               \/ RunChild(run, "SUCCESS") \/ RunChild(run, "FAILED")
               \/ FinishCryptoPipeline(run) \/ FinishEquityPipeline(run) \/ FinishDiscoveryPipeline(run)
               \/ CatchCryptoPipeline(run) \/ CatchEquityPipeline(run) \/ CatchDiscoveryPipeline(run)
    BY <2>3, PipelineStep, ReleaseJobStep
  <2>4. CASE UNCHANGED schedulerVars
    BY <2>4 DEF schedulerVars, SchedulerInv, SchedulerTypes, OneRunPerJob, FlagWhileRunning, SuccessIsWhole
  <2>5. QED
    BY <2>1, <2>2, <2>3, <2>4 DEF SchedulerNext
<1>3. QED
  BY <1>1, <1>2, PTL DEF SchedulerSpec

\* What the runs and their rows may be.
THEOREM SchedulerTypeCorrect ==
  ASSUME OnStart \subseteq Jobs, MaxProcesses \in Nat PROVE SchedulerSpec => []SchedulerTypeOK
<1>1. SchedulerInv => SchedulerTypeOK
  BY DEF SchedulerInv, SchedulerTypes, SchedulerTypeOK, RunShape, RunStages
<1>2. QED
  BY <1>1, SchedulerInvariant, PTL

\* No pipeline runs beside itself, a job whose flag is down does not run, and SUCCESS
\* stands only for a run whose every child succeeded (scheduler.ts:149-192).
THEOREM PipelinesStayHonest ==
  ASSUME OnStart \subseteq Jobs, MaxProcesses \in Nat PROVE SchedulerSpec => []PipelinesAreHonest
<1>1. SchedulerInv => PipelinesAreHonest
  BY DEF SchedulerInv, OneRunPerJob, FlagWhileRunning, SuccessIsWhole, PipelinesAreHonest
<1>2. QED
  BY <1>1, SchedulerInvariant, PTL

=============================================================================
