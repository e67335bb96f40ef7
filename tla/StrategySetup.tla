--------------------------- MODULE StrategySetup ---------------------------
(***************************************************************************)
(* The setup script that pins the assignments of one strategy to the       *)
(* version its build was compiled with, and the operator who enables and   *)
(* disables them meanwhile.  Builds differ in the hash of the strategy's   *)
(* specification; each script reads, writes and may die row by row.  The   *)
(* operator runs one setup at a time (two at once may both insert the      *)
(* assignment of a symbol, which no key forbids).                          *)
(***************************************************************************)
EXTENDS Integers, FiniteSets

CONSTANTS
  DefinitionSymbols,   \* the symbols of the definition
  Builds,              \* the builds whose setup may run, each with its specification hash
  MaxLock,             \* bounds for model checking: versions of an assignment row,
  MaxSetupDeaths       \* and scripts that die

VARIABLES
  versions,    \* status of the StrategyVersion of each build's hash
  assignments, \* the StrategyAssignment row of each symbol
  setup,       \* the setup run
  operator,    \* the assignment an operator has read
  setupDeaths

setupVars == <<versions, assignments, setup, operator, setupDeaths>>

Disabled(pin) == [pin |-> pin, enabled |-> FALSE, lock |-> 0]
NoAssignment == Disabled("none")
IdleSetup == [at |-> "idle", build |-> "none", superseded |-> {}, symbols |-> {}, symbol |-> "none",
              seen |-> NoAssignment]
IdleOperator == [symbol |-> "none", seen |-> NoAssignment]

SetupTypeOK ==
  /\ versions \in [Builds -> {"none", "ACTIVE", "RETIRED"}]
  /\ \A y \in DefinitionSymbols : assignments[y].pin \in Builds \cup {"none"} /\ assignments[y].lock \in 0..MaxLock
  /\ setup.at \in {"idle", "next", "found", "count", "retire"} /\ setup.superseded \subseteq Builds

SetupInit ==
  /\ versions = [b \in Builds |-> "none"]
  /\ assignments = [y \in DefinitionSymbols |-> NoAssignment]
  /\ setup = IdleSetup /\ operator = IdleOperator /\ setupDeaths = 0

Idle == setup.at = "idle"
Stops == setup' = IdleSetup   \* blocked: what was written stays

----------------------------------------------------------------------------
(* runShadowStrategySetup, for one definition                              *)

\* The version of the build's own hash is found or made; one that was retired is a
\* conflict.  The other active versions are superseded by it.
StartSetup(b) ==
  /\ Idle
  /\ IF versions[b] = "RETIRED" THEN Stops /\ UNCHANGED versions
     ELSE /\ versions' = [versions EXCEPT ![b] = "ACTIVE"]
          /\ setup' = [IdleSetup EXCEPT !.at = "next", !.build = b, !.symbols = DefinitionSymbols,
                         !.superseded = {c \in Builds \ {b} : versions[c] = "ACTIVE"}]
  /\ UNCHANGED <<assignments, operator, setupDeaths>>

\* The assignment of the next symbol is found, or made for this version and disabled.
FindAssignment(y) ==
  /\ setup.at = "next" /\ y \in setup.symbols
  /\ assignments' = IF assignments[y].pin # "none" THEN assignments
                    ELSE [assignments EXCEPT ![y] = Disabled(setup.build)]
  /\ setup' = [setup EXCEPT !.at = "found", !.symbol = y, !.symbols = @ \ {y}, !.seen = assignments'[y]]
  /\ UNCHANGED <<versions, operator, setupDeaths>>

\* Mutant: the update asks for the pin alone.
SamePin(y) == assignments[y].pin = setup.seen.pin

\* UPDATE ... WHERE version, pin and enabled = FALSE are as they were read.
Unchanged(y) == assignments[y] = setup.seen
Repin(y) == assignments' = [assignments EXCEPT ![y].pin = setup.build, ![y].lock = @ + 1]

\* An enabled assignment of another version stops the setup, as does one that has
\* changed since; a disabled one is pinned to this version.
PinAssignment ==
  LET y == setup.symbol IN
  /\ setup.at = "found"
  /\ \/ /\ setup.seen.pin = setup.build
        /\ setup' = [setup EXCEPT !.at = "next"] /\ UNCHANGED assignments
     \/ /\ setup.seen.pin # setup.build /\ setup.seen.enabled
        /\ Stops /\ UNCHANGED assignments
     \/ /\ setup.seen.pin # setup.build /\ ~setup.seen.enabled /\ Unchanged(y) /\ setup.seen.lock < MaxLock
        /\ Repin(y) /\ setup' = [setup EXCEPT !.at = "next"]
     \/ /\ setup.seen.pin # setup.build /\ ~setup.seen.enabled /\ ~Unchanged(y)
        /\ Stops /\ UNCHANGED assignments
  /\ UNCHANGED <<versions, operator, setupDeaths>>

\* All symbols done: superseded versions that nothing references are retired, one
\* after the other, counted first and written then.
CountReferences ==
  /\ setup.at = "next" /\ setup.symbols = {}
  /\ LET free == {v \in setup.superseded : \A y \in DefinitionSymbols : assignments[y].pin # v} IN
       IF free = {} THEN Stops
       ELSE setup' = [setup EXCEPT !.at = "retire", !.superseded = free]
  /\ UNCHANGED <<versions, assignments, operator, setupDeaths>>

RetireVersion ==
  /\ setup.at = "retire"
  /\ \E v \in setup.superseded :
       /\ versions' = [versions EXCEPT ![v] = "RETIRED"]
       /\ setup' = IF setup.superseded = {v} THEN IdleSetup
                   ELSE [setup EXCEPT !.at = "next", !.superseded = @ \ {v}]
  /\ UNCHANGED <<assignments, operator, setupDeaths>>

SetupDies ==
  /\ ~Idle /\ setupDeaths < MaxSetupDeaths /\ setupDeaths' = setupDeaths + 1
  /\ Stops /\ UNCHANGED <<versions, assignments, operator>>

----------------------------------------------------------------------------
(* setStrategyAssignmentEnabled                                            *)

\* An assignment is read; one whose version is not active can only be disabled.
ReadAssignment(y) ==
  /\ operator = IdleOperator /\ assignments[y].pin # "none" /\ assignments[y].lock < MaxLock
  /\ assignments[y].enabled \/ versions[assignments[y].pin] = "ACTIVE"
  /\ operator' = [symbol |-> y, seen |-> assignments[y]]
  /\ UNCHANGED <<versions, assignments, setup, setupDeaths>>

\* It is switched if it is as it was read, else the command fails.
SwitchAssignment ==
  /\ operator # IdleOperator /\ operator' = IdleOperator
  /\ LET y == operator.symbol IN
       assignments' = IF assignments[y] # operator.seen THEN assignments
                      ELSE [assignments EXCEPT ![y].enabled = ~@, ![y].lock = @ + 1]
  /\ UNCHANGED <<versions, setup, setupDeaths>>

SetupNext ==
  \/ (\E b \in Builds : StartSetup(b)) \/ (\E y \in DefinitionSymbols : FindAssignment(y)) \/ PinAssignment
  \/ CountReferences \/ RetireVersion \/ SetupDies
  \/ (\E y \in DefinitionSymbols : ReadAssignment(y)) \/ SwitchAssignment

SetupSpec == SetupInit /\ [][SetupNext]_setupVars

----------------------------------------------------------------------------
(* Properties                                                              *)

\* Whatever a setup and an operator do at the same time, and wherever a setup dies: no
\* assignment is pinned to a retired version, so an enabled one is always current.
NothingRetiredIsPinned == \A y \in DefinitionSymbols : assignments[y].pin # "none" => versions[assignments[y].pin] = "ACTIVE"

\* An assignment that is enabled keeps its version as long as it is, and a setup never
\* switches one on or off.
EnabledStaysPinnedStep ==
  \A y \in DefinitionSymbols :
    /\ assignments[y].enabled /\ assignments'[y].enabled => assignments'[y].pin = assignments[y].pin
    /\ assignments'[y].enabled # assignments[y].enabled => setup' = setup
EnabledStaysPinned == [][EnabledStaysPinnedStep]_setupVars

\* A setup leaves no assignment on a retired version, and changes nothing live.
SetupIsSafe == []NothingRetiredIsPinned /\ EnabledStaysPinned

=============================================================================
