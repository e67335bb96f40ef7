--------------------------- MODULE AssetUniverse ---------------------------
(***************************************************************************)
(* Which assets the system watches (packages/discovery and the discovery   *)
(* jobs of apps/worker): universeRefresh takes instruments in,              *)
(* discoveryScan scores them, selectActiveUniverse proposes what to add and *)
(* to remove, reconcileActiveUniverse carries it out, and a user's          *)
(* preference (dashboard.ts) overrides it, all of them in transactions that *)
(* read and then write.  A membership row is current or history; a partial  *)
(* unique index lets an asset have one current row.  What a transaction has *)
(* read may be replaced before it writes: overtaken says whose was.          *)
(***************************************************************************)
EXTENDS Integers, FiniteSets, FiniteSetsExt, Sequences, SequencesExt

CONSTANTS
  Assets, Traits,     \* per asset: class, sector ("none"), rank in the order of symbols
  Correlated,         \* pairs of assets whose returns go together
  Scans,              \* readings of the assets, one of which a scan finds
  Bodies,             \* what a PATCH sets and clears
  Quota,              \* per class: assets verified beside the mandatory
  MinimumScore, MinimumQuality, MinimumLiquidity, MinimumCandles,
  ScoreWithoutCandles, Delta, MinimumDays, CooldownDays, MaxAdditions, MaxRemovals,
  Editors,
  Worlds              \* the bounds of a behaviour: days, what is seeded, edits of each editor, whether something fails, what
                      \* instruments are listed as; and the policy's limits per class, sector and correlation

VARIABLES
  world,       \* the bounds and the policy of this behaviour
  day,
  assets,      \* per asset: known, offered (passes loadAssets), active, preference, current membership rows, and
               \* the day it was removed automatically (ghost, or -1)
  scan,        \* the scores of the newest successful scan, or none
  selection,   \* the row of the day's selection and what it proposes
  selecting,   \* the run that writes it, and what it decided
  recon,       \* the run that carries it out
  edits,       \* per editor: the request that has read its asset
  overtaken,   \* who holds a membership that was replaced since
  seen         \* what has happened that explains a broken limit or preference (ghost)

universeVars == <<world, day, assets, scan, selection, selecting, recon, edits, overtaken, seen>>

----------------------------------------------------------------------------
(* Eligibility of an instrument and its score                              *)

EvaluateInstrumentEligibility(i) ==
  {reason \in {"NOT_TRADABLE", "INACTIVE_OR_DELISTED", "UNSUITABLE", "LEVERAGED", "STABLECOIN"} :
     CASE reason = "NOT_TRADABLE" -> ~i.tradable
       [] reason = "INACTIVE_OR_DELISTED" -> i.status \in {"DELISTED", "INACTIVE"}
       [] reason = "UNSUITABLE" -> i.unsuitable
       [] reason = "LEVERAGED" -> i.leveraged
       [] reason = "STABLECOIN" -> i.stable}
(* loadAssets asks again, of the stored columns only.                       *)
Offered(i) == i.tradable /\ i.status = "ACTIVE" /\ ~i.leveraged /\ ~i.stable

Clamp(x) == Max({0, Min({100, x})})
Quality(r) == (r.freshness * 45 + r.completeness * 55) \div 100
Score(r) ==
  LET capped == Min({r.raw, Quality(r) + 8})
      short == IF r.candles < MinimumCandles THEN Min({capped, ScoreWithoutCandles}) ELSE capped
  IN Clamp(IF Quality(r) < MinimumQuality THEN Min({short, (Quality(r) * 8) \div 10}) ELSE short)
EligibleScore(r) ==
  /\ r.liquidity >= MinimumLiquidity /\ Quality(r) >= MinimumQuality /\ r.candles >= MinimumCandles
  /\ r.freshness >= 60 /\ Score(r) >= MinimumScore

----------------------------------------------------------------------------
(* selectActiveUniverse: the decision of a run, of what the scan scored and *)
(* the memberships and preferences are at its start.                        *)

Row(a) == IF assets[a].rows = {} THEN [role |-> "none", source |-> "none", since |-> -1, until |-> -1]
          ELSE CHOOSE row \in assets[a].rows : TRUE
IsActive(a) == assets[a].active
Core(a) == "CORE" \in {Row(a).role, Row(a).source}
Protected(a) == Core(a) \/ assets[a].preference \cap {"pinned", "manual"} # {} \/ Row(a).source \in {"PINNED", "MANUAL"}
Barred(a) == assets[a].preference \cap {"excluded", "observe"} # {} \/ Row(a).source = "EXCLUDED"
Class(a) == Traits[a].class
Sector(a) == Traits[a].sector

IsCorrelated(a, b) == {a, b} \in Correlated \/ (Sector(a) # "none" /\ Sector(a) = Sector(b) /\ Class(a) = Class(b))
SameClass(a, in) == {b \in in : Class(b) = Class(a)}
SameSector(a, in) == {b \in in : Sector(a) # "none" /\ Sector(b) = Sector(a)}
Related(a, in) == {b \in in : IsCorrelated(a, b)}

FullClass(a, in) == Cardinality(SameClass(a, in)) >= world.limit
FullSector(a, in) == Cardinality(SameSector(a, in)) >= world.perSector
FullGroup(a, in) == Cardinality(Related(a, in)) >= world.correlated
CanFit(a, in) == ~FullClass(a, in) /\ ~(Sector(a) # "none" /\ FullSector(a, in)) /\ ~FullGroup(a, in)
CanRemove(a) == ~Protected(a) /\ (Row(a).since >= 0 => day - Row(a).since >= MinimumDays)

IsEligible(a) ==
  /\ scan[a].eligible /\ ~Barred(a)
  /\ Row(a).until <= day \/ IsActive(a)
Better(a, b) == scan[a].score > scan[b].score \/ (scan[a].score = scan[b].score /\ Traits[a].rank < Traits[b].rank)

(* The weakest of the same class that stands in the way and may go.         *)
FindReplacement(a, in) ==
  LET conflicts == {b \in SameClass(a, in) : /\ CanRemove(b)
                      /\ \/ Sector(a) # "none" /\ Sector(b) = Sector(a) /\ FullSector(a, in)
                         \/ IsCorrelated(a, b) /\ FullGroup(a, in)
                         \/ FullClass(a, in)}
      weakest == {b \in conflicts : \A c \in conflicts : scan[b].score <= scan[c].score}
  IN {b \in weakest : scan[a].score >= scan[b].score + Delta /\ \A c \in weakest : Traits[b].rank <= Traits[c].rank}

KeepIncumbent(in, a) == IF a \notin in /\ IsActive(a) /\ CanFit(a, in) THEN in \cup {a} ELSE in
Replace(st, a) ==
  LET weakest == FindReplacement(a, st.in) IN
  IF IsActive(a) \/ a \in st.in \/ Cardinality(st.added) >= MaxAdditions \/ weakest = {} \/ Cardinality(st.removed) >= MaxRemovals
  THEN st
  ELSE [st EXCEPT !.in = (@ \ weakest) \cup {a}, !.added = @ \cup {a}, !.removed = @ \cup weakest, !.replaced = TRUE]
AddToCapacity(st, a) ==
  IF IsActive(a) \/ a \in st.in \/ Cardinality(st.added) >= MaxAdditions \/ ~CanFit(a, st.in) THEN st
  ELSE [st EXCEPT !.in = @ \cup {a}, !.added = @ \cup {a}]
RemoveRest(st, a) ==
  IF ~IsActive(a) \/ a \in st.in \cup st.removed THEN st
  ELSE IF CanRemove(a) /\ Cardinality(st.removed) < MaxRemovals THEN [st EXCEPT !.removed = @ \cup {a}]
       ELSE [st EXCEPT !.in = @ \cup {a}, !.guarded = @ \cup {a}]

SelectActiveUniverse ==
  LET candidates == DOMAIN scan
      ranked == SetToSortSeq(candidates, Better)
      eligible == SelectSeq(ranked, IsEligible)
      mandatory == {a \in candidates : IsActive(a) /\ Protected(a)}
      incumbents == FoldLeft(KeepIncumbent, mandatory, eligible)
      start == [in |-> incumbents, added |-> {}, removed |-> {}, guarded |-> {}, mandatory |-> mandatory, replaced |-> FALSE]
  IN FoldLeft(RemoveRest, FoldLeft(AddToCapacity, FoldLeft(Replace, start, eligible), eligible), ranked)

----------------------------------------------------------------------------
(* The jobs                                                                *)

Explain(what) == seen' = seen \cup what
Fails == world.faults /\ "fault" \notin seen /\ Explain({"fault"})
NoSelection == [at |-> "off", decided |-> {}]
NoRecon == [at |-> "off", day |-> 0, add |-> {}, remove |-> {}, asset |-> "none", source |-> "none"]
NoEdit == [at |-> "off", left |-> world.edits, asset |-> "none", row |-> {}, next |-> {}]
Source(preference) ==
  IF "pinned" \in preference THEN "PINNED" ELSE IF "manual" \in preference THEN "MANUAL" ELSE "AUTO_DISCOVERED"

(* A row replaces the current one, and whoever had read that is overtaken.   *)
HeldBy(a) == {e \in Editors : edits[e].asset = a} \cup (IF recon.asset = a THEN {"reconcile"} ELSE {})
NewRow(role, source, since, until) == [role |-> role, source |-> source, since |-> since, until |-> until]
Become(holder, a, row, active, preference, auto) ==
  /\ assets' = [assets EXCEPT ![a] = [@ EXCEPT !.rows = {row}, !.active = active, !.preference = preference, !.removed = auto]]
  /\ overtaken' = overtaken \cup (HeldBy(a) \ {holder})

(* universeRefresh, one instrument: what is not eligible is written to a     *)
(* known asset and changes nothing else of it.                              *)
UpsertDiscoveryAsset(a, i) ==
  LET reasons == EvaluateInstrumentEligibility(i)
      rows == IF assets[a].rows = {} THEN {NewRow("DISCOVERY", "AUTO_DISCOVERED", -1, -1)} ELSE assets[a].rows IN
  /\ assets[a].known \/ reasons = {}
  /\ assets' = [assets EXCEPT ![a] = [@ EXCEPT !.known = TRUE, !.offered = Offered(i), !.rows = IF reasons = {} THEN rows ELSE @]]
  /\ overtaken' = IF assets'[a].rows # assets[a].rows THEN overtaken \cup HeldBy(a) ELSE overtaken
  /\ UNCHANGED <<world, day, scan, selection, selecting, recon, edits, seen>>

(* discoveryScan: the active and the protected are verified, and so many of  *)
(* the others of each class.                                               *)
Pool == {a \in Assets : assets[a].known /\ assets[a].offered /\ "excluded" \notin assets[a].preference}
MandatoryPool == {a \in Pool : IsActive(a) \/ assets[a].preference \cap {"pinned", "manual"} # {} \/ Row(a).role = "CORE"}
DiscoveryScan ==
  \E rest \in SUBSET (Pool \ MandatoryPool), reading \in Scans :
    /\ \A a \in Pool \ MandatoryPool :
         Cardinality(SameClass(a, rest)) = Min({Quota[Class(a)], Cardinality(SameClass(a, Pool \ MandatoryPool))})
    /\ scan' = [a \in MandatoryPool \cup rest |-> [score |-> Score(reading[a]), eligible |-> EligibleScore(reading[a])]]
    /\ UNCHANGED <<world, day, assets, selection, selecting, recon, edits, overtaken, seen>>

(* A failing run takes the day's earlier result with it.                    *)
ScanFails ==
  /\ Fails /\ scan' \in {scan, [a \in {} |-> {}]}
  /\ UNCHANGED <<world, day, assets, selection, selecting, recon, edits, overtaken>>

(* selectActiveUniverse: it opens the day's row, reads and decides, and      *)
(* writes its proposals; the row counts when it ends.                       *)
StartSelection(dry) ==
  /\ selecting.at = "off" /\ DOMAIN scan # {}
  /\ selection' = [day |-> day, status |-> "RUNNING", dry |-> dry, add |-> {}, remove |-> {}]
  /\ selecting' = [at |-> "writing", decided |-> {SelectActiveUniverse}]
  /\ Explain(IF recon.at # "off" \/ SelectActiveUniverse.guarded # {} \/ (\E a \in Assets : IsActive(a) /\ a \notin DOMAIN scan)
             THEN {"excused"} ELSE {})
  /\ UNCHANGED <<world, day, assets, scan, recon, edits, overtaken>>
FinishSelection ==
  /\ selecting.at = "writing"
  /\ \E decided \in selecting.decided :
       selection' = [selection EXCEPT !.status = "SUCCESS", !.add = decided.added, !.remove = decided.removed]
  /\ selecting' = NoSelection
  /\ UNCHANGED <<world, day, assets, scan, recon, edits, overtaken, seen>>
SelectionFails ==
  /\ selecting.at = "writing" /\ Fails
  /\ selection' \in {[selection EXCEPT !.status = s] : s \in {"FAILED", "RUNNING"}}
  /\ selecting' = NoSelection
  /\ UNCHANGED <<world, day, assets, scan, recon, edits, overtaken>>

(* reconcileActiveUniverse: of today's successful selection, made as dry as  *)
(* this run is; a dry run ends here.                                       *)
StartReconcile(dry) ==
  /\ recon.at = "off" /\ selection.status = "SUCCESS" /\ selection.day = day /\ selection.dry = dry /\ ~dry
  /\ recon' = [NoRecon EXCEPT !.at = "next", !.day = day, !.add = selection.add, !.remove = selection.remove]
  /\ Explain(IF selecting.at # "off" THEN {"excused"} ELSE {})
  /\ UNCHANGED <<world, day, assets, scan, selection, selecting, edits, overtaken>>

(* One candidate, in a transaction: it reads the asset again, may refuse,    *)
(* and writes.                                                             *)
RefusesActivation(a) ==
  \/ assets[a].preference \cap {"excluded", "observe"} # {}
  \/ IsActive(a) /\ Row(a).role \in {"ACTIVE", "CORE"}
RefusesRemoval(a) ==
  \/ assets[a].rows = {} \/ Row(a).role = "CORE" \/ Row(a).source # "AUTO_DISCOVERED"
  \/ assets[a].preference \cap {"pinned", "manual"} # {}
Handled(a) == [recon EXCEPT !.at = "next", !.asset = "none", !.add = @ \ {a}, !.remove = @ \ {a}]
ReadCandidate(a) ==
  /\ recon.at = "next" /\ a \in recon.add \cup recon.remove
  /\ recon' = IF (a \in recon.add /\ RefusesActivation(a)) \/ (a \in recon.remove /\ RefusesRemoval(a)) THEN Handled(a)
              ELSE [recon EXCEPT !.at = "writing", !.asset = a, !.source = Source(assets[a].preference)]
  /\ UNCHANGED <<world, day, assets, scan, selection, selecting, edits, overtaken, seen>>

(* The index lets a row in only where no other is current.                   *)
IndexAllows(holder) == holder \notin overtaken
WriteActivation ==
  LET a == recon.asset IN
  /\ recon.at = "writing" /\ a \in recon.add
  /\ recon' = Handled(a)
  /\ IF IndexAllows("reconcile")
     THEN /\ Become("reconcile", a, NewRow("ACTIVE", recon.source, recon.day, -1), TRUE, assets[a].preference, assets[a].removed)
          /\ Explain(IF assets[a].removed >= 0 /\ recon.day < assets[a].removed + CooldownDays THEN {"early"} ELSE {})
     ELSE overtaken' = overtaken \ {"reconcile"} /\ UNCHANGED <<assets, seen>>
  /\ UNCHANGED <<world, day, scan, selection, selecting, edits>>
WriteRemoval ==
  LET a == recon.asset IN
  /\ recon.at = "writing" /\ a \in recon.remove
  /\ recon' = Handled(a)
  /\ IF IndexAllows("reconcile")
     THEN /\ Become("reconcile", a, NewRow("INACTIVE", "INACTIVE", -1, recon.day + CooldownDays), FALSE, assets[a].preference, recon.day)
          /\ Explain(IF Row(a).since >= 0 /\ recon.day < Row(a).since + MinimumDays THEN {"early"} ELSE {})
     ELSE overtaken' = overtaken \ {"reconcile"} /\ UNCHANGED <<assets, seen>>
  /\ UNCHANGED <<world, day, scan, selection, selecting, edits>>
FinishReconcile ==
  /\ recon.at = "next" /\ recon.add \cup recon.remove = {}
  /\ recon' = NoRecon
  /\ UNCHANGED <<world, day, assets, scan, selection, selecting, edits, overtaken, seen>>
ReconcileFails ==
  /\ recon.at # "off" /\ Fails
  /\ recon' \in {NoRecon} \cup (IF recon.at = "writing" THEN {Handled(recon.asset)} ELSE {})
  /\ overtaken' = overtaken \ {"reconcile"}
  /\ UNCHANGED <<world, day, assets, scan, selection, selecting, edits>>

----------------------------------------------------------------------------
(* PATCH /assets/:id/universe-preference: the asset is read before the       *)
(* transaction that writes the preference and, where it asks for another     *)
(* role, the membership.                                                   *)

Conflicting(next) ==
  \/ "excluded" \in next /\ next # {"excluded"}
  \/ "observe" \in next /\ next # {"observe"}
ReadPreference(e, body) ==
  LET a == body.asset
      next == (assets[a].preference \ body.clear) \cup body.set IN
  /\ edits[e].at = "off" /\ edits[e].left > 0 /\ assets[a].known
  /\ ~(Core(a) /\ next \cap {"excluded", "observe"} # {}) /\ ~Conflicting(next)
  /\ edits' = [edits EXCEPT ![e] = [at |-> "read", left |-> @.left - 1, asset |-> a, row |-> assets[a].rows, next |-> next]]
  /\ UNCHANGED <<world, day, assets, scan, selection, selecting, recon, overtaken, seen>>

Desired(row, next) ==
  IF row.role = "CORE" \/ row.source = "CORE" THEN {}
  ELSE IF "excluded" \in next THEN {[role |-> "INACTIVE", source |-> "EXCLUDED", active |-> FALSE]}
  ELSE IF "observe" \in next THEN {[role |-> "DISCOVERY", source |-> "MANUAL", active |-> FALSE]}
  ELSE IF next # {} THEN {[role |-> "ACTIVE", source |-> Source(next), active |-> TRUE]}
  ELSE IF row.role = "ACTIVE" /\ row.source = "AUTO_DISCOVERED" THEN {}
  ELSE {[role |-> "DISCOVERY", source |-> "AUTO_DISCOVERED", active |-> FALSE]}
ReadRow(e) == IF edits[e].row = {} THEN NewRow("none", "none", -1, -1) ELSE CHOOSE row \in edits[e].row : TRUE
NewRole(e) == {d \in Desired(ReadRow(e), edits[e].next) : d.role # ReadRow(e).role \/ d.source # ReadRow(e).source}

ApplyUniversePreference(e) ==
  LET a == edits[e].asset IN
  /\ edits[e].at = "read"
  /\ edits' = [edits EXCEPT ![e] = [NoEdit EXCEPT !.left = edits[e].left]]
  /\ IF NewRole(e) = {}
     THEN /\ assets' = [assets EXCEPT ![a].preference = edits[e].next]
          /\ Explain(IF e \in overtaken THEN {"crossed"} ELSE {})
          /\ overtaken' = overtaken \ {e}
     ELSE IF IndexAllows(e)
     THEN \E d \in NewRole(e) :
            /\ Become(e, a, NewRow(d.role, d.source, IF d.active THEN day ELSE -1, -1), d.active, edits[e].next, -1)
            /\ Explain({"excused"})
     ELSE overtaken' = overtaken \ {e} /\ UNCHANGED <<assets, seen>>
  /\ UNCHANGED <<world, day, scan, selection, selecting, recon>>

----------------------------------------------------------------------------

NextDay == day < world.last /\ day' = day + 1
           /\ UNCHANGED <<world, assets, scan, selection, selecting, recon, edits, overtaken, seen>>

(* Assets the migration and the seed left, one nobody knows yet, and one an  *)
(* earlier refresh took in.                                                *)
Unknown == [known |-> FALSE, offered |-> FALSE, active |-> FALSE, preference |-> {}, rows |-> {}, removed |-> -1]
Listed == [Unknown EXCEPT !.known = TRUE, !.offered = TRUE, !.rows = {NewRow("DISCOVERY", "AUTO_DISCOVERED", -1, -1)}]
Seeded(core) ==
  [Listed EXCEPT !.active = TRUE, !.preference = IF core THEN {} ELSE {"manual"},
   !.rows = {IF core THEN NewRow("CORE", "CORE", 0, -1) ELSE NewRow("ACTIVE", "MANUAL", 0, -1)}]

UniverseInit ==
  /\ world \in Worlds /\ day = world.first
  /\ assets = [a \in Assets |-> CASE world.seeds[a] = "none" -> Unknown [] world.seeds[a] = "listed" -> Listed
                                  [] OTHER -> Seeded(world.seeds[a] = "CORE")]
  /\ scan = [a \in {} |-> {}]
  /\ selection = [day |-> -1, status |-> "none", dry |-> TRUE, add |-> {}, remove |-> {}]
  /\ selecting = NoSelection /\ recon = NoRecon /\ edits = [e \in Editors |-> NoEdit]
  /\ overtaken = {} /\ seen = {}

UniverseNext ==
  \/ NextDay \/ DiscoveryScan \/ ScanFails
  \/ \E a \in Assets : (\E i \in world.instruments : UpsertDiscoveryAsset(a, i)) \/ ReadCandidate(a)
  \/ \E dry \in BOOLEAN : StartSelection(dry) \/ StartReconcile(dry)
  \/ FinishSelection \/ SelectionFails
  \/ WriteActivation \/ WriteRemoval \/ FinishReconcile \/ ReconcileFails
  \/ \E e \in Editors : (\E body \in Bodies : ReadPreference(e, body)) \/ ApplyUniversePreference(e)

UniverseSpec == UniverseInit /\ [][UniverseNext]_universeVars

UniverseTypeOK ==
  /\ day \in world.first..world.last
  /\ \A a \in Assets : /\ assets[a].known \in BOOLEAN /\ assets[a].offered \in BOOLEAN /\ assets[a].active \in BOOLEAN
                       /\ assets[a].preference \subseteq {"pinned", "manual", "excluded", "observe"}
  /\ DOMAIN scan \subseteq Assets /\ selection.status \in {"none", "RUNNING", "SUCCESS", "FAILED"}
  /\ selecting.at \in {"off", "writing"} /\ recon.at \in {"off", "next", "writing"}
  /\ overtaken \subseteq Editors \cup {"reconcile"}
  /\ seen \subseteq {"excused", "early", "crossed", "fault"}

----------------------------------------------------------------------------
(* Properties                                                              *)

\* What an asset is used for and its membership agree in every state: it is analysed if
\* and only if its one current row says ACTIVE or CORE, whoever changes it at once.
RolesAgree ==
  \A a \in Assets : /\ Cardinality(assets[a].rows) <= 1
                    /\ assets[a].active <=> Row(a).role \in {"ACTIVE", "CORE"}

\* A user's word holds against every run: an excluded or merely observed asset is not
\* analysed, a pinned or a manual one is; only a request that had read a role another
\* request replaced since can leave its preference beside the other's role.
PreferencesHold ==
  "crossed" \notin seen =>
    \A a \in Assets : /\ assets[a].preference \cap {"excluded", "observe"} # {} => ~assets[a].active
                      /\ assets[a].preference \cap {"pinned", "manual"} # {} => assets[a].active

\* Once a run has ended, a class has no more active assets than its limit unless the
\* selection kept more on purpose, a user changed a role, an active asset was not in its
\* scan (because it is no longer offered: no selection counts or removes it; or because
\* the scan is older than its activation), runs overlapped, or one failed.
WithinLimits ==
  recon.at = "off" /\ seen \cap {"fault", "excused"} = {} =>
    \A a \in Assets : Cardinality({b \in Assets : Class(b) = Class(a) /\ assets[b].active}) <=
      Max({world.limit, Cardinality({b \in Assets : Class(b) = Class(a) /\ assets[b].active /\ Protected(b)})})

\* What a run removed is not added by a run before its cooldown is over, and what one
\* activated is not removed by one before its minimum days are, whichever selection the
\* run carries out.
CooldownsHold == "early" \notin seen

\* A decision adds and removes within its limits, removes nothing protected or too
\* young, and leaves each class within its limit but for what is protected or kept by a
\* guard; the limits of sector and correlation hold too unless it replaced an asset.
SelectionsAreSound ==
  \A d \in selecting.decided :
    LET chosen == d.in \ d.guarded IN
    /\ Cardinality(d.added) <= MaxAdditions /\ Cardinality(d.removed) <= MaxRemovals
    /\ d.in \cap d.removed = {} /\ d.added \cap d.removed = {} /\ d.mandatory \subseteq d.in
    /\ \A a \in d.in :
         /\ Cardinality(SameClass(a, chosen)) <= Max({world.limit, Cardinality(SameClass(a, d.mandatory))})
         /\ ~d.replaced =>
              /\ Cardinality(SameSector(a, chosen)) <= Max({world.perSector, Cardinality(SameSector(a, d.mandatory))})
              /\ a \in d.added => Cardinality(Related(a, chosen \ d.added)) < world.correlated

(* ASSET_DISCOVERY.md:118-119 says the limits of sector and correlation hold *)
(* of every selection.  A replacement asks for one of the three it gets rid  *)
(* of, not for the others, so it need not hold.                            *)
Diversified ==
  \A d \in selecting.decided : d.guarded \cup d.mandatory = {} =>
    \A a \in d.in : Sector(a) # "none" => Cardinality(SameSector(a, d.in)) <= world.perSector

=============================================================================
