---------------------------- MODULE DomainValues ----------------------------
(***************************************************************************)
(* The values the trading packages share: decimals of a fixed number of     *)
(* places (DecimalValue), the keys that make an operation idempotent, and   *)
(* the canonical form of a snapshot, of which every hash is taken.  A task  *)
(* is one call; its outcome is a value or the reason of the exception.      *)
(* Text is a sequence of characters.                                        *)
(***************************************************************************)
EXTENDS Integers, Sequences, FiniteSets, SequencesExt

CONSTANTS
  Places,        \* DECIMAL_SCALE
  Precision,     \* DECIMAL_PRECISION, digits in all
  BasisPoints,   \* basis points of one
  MaxPartLength, \* of a key part
  Tasks          \* the calls: [kind |-> "decimal", "text", "keys" or "hashes", ...]

VARIABLES
  task,      \* the call
  outcome    \* what it returned

valueVars == <<task, outcome>>

Given(v) == [ok |-> TRUE, reason |-> "none", value |-> v]
Refused(reason) == [ok |-> FALSE, reason |-> reason]
Unanswered == Refused("none")

----------------------------------------------------------------------------
(* Decimals.  A value is an integer: the decimal times ScaleFactor.        *)

ScaleFactor == 10^Places
MaxUnscaled == 10^Precision - 1
Magnitude(n) == IF n < 0 THEN -n ELSE n

\* Division of integers goes toward zero; the remainder decides the rest.
DivideWithRounding(numerator, denominator, mode) ==
  LET n == IF denominator < 0 THEN -numerator ELSE numerator
      d == Magnitude(denominator)
      quotient == IF n < 0 THEN -((-n) \div d) ELSE n \div d
      remainder == Magnitude(n) % d
      away == IF n < 0 THEN quotient - 1 ELSE quotient + 1 IN
  CASE denominator = 0 -> Refused("DECIMAL_DIVISION_BY_ZERO")
    [] denominator # 0 /\ remainder = 0 -> Given(quotient)
    [] denominator # 0 /\ remainder # 0 /\ mode = "EXACT" -> Refused("DECIMAL_ROUNDING_REQUIRED")
    [] OTHER -> Given(IF \/ mode = "FLOOR" /\ n < 0
                         \/ mode = "CEIL" /\ n > 0
                         \/ mode = "HALF_UP" /\ 2 * remainder >= d THEN away ELSE quotient)

WithinPrecision(result) ==
  IF result.ok /\ Magnitude(result.value) > MaxUnscaled THEN Refused("DECIMAL_PRECISION_EXCEEDED") ELSE result

QuantizeToStep(value, step, mode) ==
  LET units == DivideWithRounding(value, step, mode) IN
  IF step <= 0 THEN Refused("DECIMAL_INVALID_STEP")
  ELSE IF ~units.ok THEN units
  ELSE WithinPrecision(Given(units.value * step))

FromSafeInteger(n) == WithinPrecision(Given(n * ScaleFactor))
FromBasisPoints(points) ==
  LET whole == FromSafeInteger(points) IN
  IF whole.ok THEN DivideWithRounding(whole.value, BasisPoints, "TRUNCATE") ELSE whole

Calculate(t) ==
  CASE t.op = "add" -> WithinPrecision(Given(t.a + t.b))
    [] t.op = "sub" -> WithinPrecision(Given(t.a - t.b))
    [] t.op = "mul" -> WithinPrecision(DivideWithRounding(t.a * t.b, ScaleFactor, t.mode))
    [] t.op = "div" -> WithinPrecision(DivideWithRounding(t.a * ScaleFactor, t.b, t.mode))
    [] t.op = "quantize" -> QuantizeToStep(t.a, t.b, t.mode)
    [] t.op = "integer" -> FromSafeInteger(t.a)
    [] t.op = "points" -> FromBasisPoints(t.a)

----------------------------------------------------------------------------
(* The text of a decimal                                                   *)

DigitOf == [c \in {"0", "1", "2", "3", "4", "5", "6", "7", "8", "9"} |->
              CHOOSE n \in 0..9 : <<"0", "1", "2", "3", "4", "5", "6", "7", "8", "9">>[n + 1] = c]
CharacterOf == <<"0", "1", "2", "3", "4", "5", "6", "7", "8", "9">>
AllDigits(text) == \A i \in 1..Len(text) : text[i] \in DOMAIN DigitOf
NumberOf(digits) == FoldLeft(LAMBDA n, c : 10 * n + DigitOf[c], 0, digits)
DigitsOf(n, least) ==
  LET length == CHOOSE k \in least..10 : (k = 10 \/ n < 10^k) /\ (k = least \/ n >= 10^(k - 1)) IN
  [i \in 1..length |-> CharacterOf[((n \div 10^(length - i)) % 10) + 1]]
Zeros(n) == [i \in 1..n |-> "0"]

IsNegative(text) == text # <<>> /\ text[1] = "-"
Unsigned(text) == IF IsNegative(text) THEN Tail(text) ELSE text
Dots(text) == {i \in 1..Len(text) : text[i] = "."}
IntegerPart(text) == LET u == Unsigned(text) IN
  IF Dots(u) = {} THEN u ELSE SubSeq(u, 1, (CHOOSE i \in Dots(u) : TRUE) - 1)
FractionPart(text) == LET u == Unsigned(text) IN
  IF Dots(u) = {} THEN <<>> ELSE SubSeq(u, (CHOOSE i \in Dots(u) : TRUE) + 1, Len(u))

\* DECIMAL_PATTERN: a sign, an integer without leading zeros, a dot with digits behind it
IsPlain(text) ==
  /\ Cardinality(Dots(text)) <= 1
  /\ AllDigits(IntegerPart(text)) /\ AllDigits(FractionPart(text))
  /\ Len(IntegerPart(text)) >= 1
  /\ Len(IntegerPart(text)) > 1 => IntegerPart(text)[1] # "0"
  /\ Dots(text) # {} => FractionPart(text) # <<>>

FromString(text) ==
  CASE ~IsPlain(text) -> Refused("DECIMAL_INVALID_FORMAT")
    [] IsPlain(text) /\ Len(FractionPart(text)) > Places -> Refused("DECIMAL_SCALE_EXCEEDED")
    [] OTHER ->
       LET unscaled == NumberOf(IntegerPart(text) \o FractionPart(text) \o Zeros(Places - Len(FractionPart(text)))) IN
       WithinPrecision(Given(IF IsNegative(text) THEN -unscaled ELSE unscaled))

IsDecimalString(text) == IsPlain(text) /\ Len(FractionPart(text)) <= Places

DecimalText(v) ==
  LET magnitude == DigitsOf(Magnitude(v), Places + 1)
      point == Len(magnitude) - Places IN
  (IF v < 0 THEN <<"-">> ELSE <<>>) \o SubSeq(magnitude, 1, point) \o <<".">> \o SubSeq(magnitude, point + 1, Len(magnitude))

----------------------------------------------------------------------------
(* Keys.  A part has only the characters of KEY_PART_PATTERN, of which the  *)
(* separator is none; a safe part that has others becomes a hash of itself  *)
(* (the hashes of two texts differ, and no caller spells one out).  A key   *)
(* is a sequence of characters, hashes and, in front, its namespace.        *)

Characters(text) == [i \in 1..Len(text) |-> <<"character", text[i]>>]
Separator == <<"character", "|">>
PartCharacters == {"a", "b", "0", "1", "2", ".", "-", ":"}
Unsafe(text) == Len(text) > MaxPartLength \/ \E i \in 1..Len(text) : text[i] \notin PartCharacters

KeyPart(text) ==
  CASE text = <<>> -> Refused("IDEMPOTENCY_KEY_PART_EMPTY")
    [] text # <<>> /\ Unsafe(text) -> Refused("IDEMPOTENCY_KEY_PART_INVALID")
    [] OTHER -> Given(Characters(text))
SafeKeyPart(text) ==
  IF text # <<>> /\ Unsafe(text) THEN Given(<<<<"hash", text>>>>) ELSE KeyPart(text)
SequencePart(n) == IF n < 0 THEN Refused("SEQUENCE_MUST_BE_POSITIVE") ELSE Given(Characters(DigitsOf(n, 1)))

BuildKey(namespace, parts) ==
  IF \E i \in 1..Len(parts) : ~parts[i].ok
  THEN Refused(parts[CHOOSE i \in 1..Len(parts) : ~parts[i].ok /\ \A j \in 1..(i - 1) : parts[j].ok].reason)
  ELSE Given(FoldLeft(LAMBDA key, part : key \o <<Separator>> \o part.value, <<<<"namespace", namespace>>>>, parts))

\* What the key of an aggregate is made of: p a plain part, n a sequence, s a safe part.
AggregateKeys ==
  [candidate |-> <<"p", "p", "p", "p">>,       \* assignment, version, asset, anchor candle
   assessment |-> <<"p", "p", "p">>,           \* candidate, limit set, input hash
   decision |-> <<"p", "p", "p">>,             \* the same
   entryOrder |-> <<"p">>,                     \* decision
   exitOrder |-> <<"p", "n", "p", "p">>,       \* position, plan version, candle, trigger
   fill |-> <<"p", "p", "n">>,                 \* order, candle, sequence
   position |-> <<"p", "p", "p">>,             \* portfolio, asset, entry order
   positionEvent |-> <<"p", "n">>,             \* position, sequence
   ledgerEntry |-> <<"p", "p", "p", "p">>,     \* portfolio, type, cause type, cause
   riskEvent |-> <<"p", "p", "p", "p">>,       \* type, aggregate type, aggregate, input hash
   audit |-> <<"p", "p", "p", "p">>,           \* event type, aggregate type, aggregate, key
   session |-> <<"p", "n">>]                   \* portfolio, sequence

\* At most one row holds such a key at a time.  None of them names a direction.
ScopeKeys ==
  [activeAssignment |-> <<"p", "p", "p">>, activeExecutionProfile |-> <<"p">>, activeRiskLimitSet |-> <<"p">>,
   openPosition |-> <<"p", "p">>, activeSession |-> <<"p">>, activeExitPlan |-> <<"p">>,
   openEntryOrder |-> <<"p", "p", "p">>]

\* portfolio, window, asOf, segment type and key, engine version, input hash; and event
\* type, aggregate type, aggregate, occurrence
ReportKeys == [snapshot |-> <<"p", "p", "s", "p", "s", "s", "p">>, alert |-> <<"p", "p", "p", "s">>]

PartsOf(builder) ==
  CASE builder \in DOMAIN AggregateKeys -> AggregateKeys[builder]
    [] builder \in DOMAIN ScopeKeys -> ScopeKeys[builder]
    [] OTHER -> ReportKeys[builder]
KeyOf(call) ==
  LET kinds == PartsOf(call.builder) IN
  BuildKey(call.builder, [i \in 1..Len(kinds) |->
    CASE kinds[i] = "p" -> KeyPart(call.parts[i])
      [] kinds[i] = "n" -> SequencePart(call.sequence)
      [] OTHER -> SafeKeyPart(call.parts[i])])

\* The source of an evidence: its own identifier, or what stands for a missing one.
EvidenceSourceKey(source) ==
  IF source.id # <<>> THEN KeyPart(source.id)
  ELSE BuildKey("evidence-source", <<Given(Characters(<<"N", "O", "N", "E">>)), KeyPart(source.type), KeyPart(source.from)>>)

----------------------------------------------------------------------------
(* The canonical form.  A scalar is [is |-> its type, of |-> its text]; an  *)
(* array has items and an object has fields, which are scalars.  The form   *)
(* says what is written, quoted or bare.                                   *)

CanonicalScalar(v) ==
  CASE v.is \in {"string", "bigint"} -> Given(<<"quoted", v.of>>)
    [] v.is = "decimal" -> Given(<<"quoted", DecimalText(FromString(v.of).value)>>)
    [] v.is = "date" /\ v.of # <<"invalid">> -> Given(<<"quoted", v.of>>)
    [] v.is = "number" /\ v.of \notin {<<"N">>, <<"-", "0">>} -> Given(<<"bare", v.of>>)
    [] v.is = "number" /\ v.of = <<"-", "0">> -> Given(<<"bare", <<"0">>>>)
    [] v.is \in {"boolean", "null"} -> Given(<<v.is, v.of>>)
    [] v.is \in {"undefined", "map"} -> Refused("CANONICAL_JSON_UNSUPPORTED_VALUE")
    [] v.is = "cycle" -> Refused("CANONICAL_JSON_CIRCULAR_REFERENCE")
    [] OTHER -> Refused("CANONICAL_JSON_NON_FINITE_NUMBER")

\* The items of an array in their order; of an object the properties that are not
\* undefined, in whatever order they were set.
Content(v) == IF v.is = "object" THEN v.fields ELSE v.items
Written(v) == {k \in DOMAIN Content(v) : v.is = "object" => v.fields[k].is # "undefined"}
Canonical(v) ==
  IF v.is \notin {"array", "object"} THEN CanonicalScalar(v)
  ELSE LET bad == {k \in Written(v) : ~CanonicalScalar(Content(v)[k]).ok} IN
       IF bad # {} THEN CanonicalScalar(Content(v)[CHOOSE k \in bad : TRUE])
       ELSE Given(<<v.is, [k \in Written(v) |-> CanonicalScalar(Content(v)[k]).value]>>)

\* classifyReplay: a retry with the hash that is stored, if any, and its own.
ReplayVerdict(existing, incoming) ==
  CASE existing = {} -> "FRESH"
    [] existing # {} /\ incoming \in existing -> "IDEMPOTENT_REPLAY"
    [] OTHER -> "CONFLICT"

----------------------------------------------------------------------------

Answer(t) ==
  CASE t.kind = "decimal" -> Calculate(t)
    [] t.kind = "text" -> FromString(t.text)
    [] t.kind = "keys" -> KeyOf(t.one)
    [] t.kind = "evidence" -> EvidenceSourceKey(t.one)
    [] OTHER -> Canonical(t.one)

ValuesTypeOK == task \in Tasks /\ outcome.ok \in BOOLEAN

ValuesInit == task \in Tasks /\ outcome = Unanswered
ValuesNext == outcome = Unanswered /\ outcome' = Answer(task) /\ UNCHANGED task

----------------------------------------------------------------------------
(* Properties                                                              *)

Answered(kind) == outcome # Unanswered /\ task.kind = kind

SameSide(q, n) == q = 0 \/ (q > 0 <=> n > 0)

\* divideWithRounding: the result is the multiple of the divisor that the mode names:
\* below, above, on the side of zero, or nearest with ties away from zero; EXACT is
\* refused just where there is a remainder.
IsRounded(n, d, mode, q) ==
  CASE mode = "FLOOR" -> q * d <= n /\ n < (q + 1) * d
    [] mode = "CEIL" -> q * d >= n /\ n > (q - 1) * d
    [] mode = "TRUNCATE" -> Magnitude(q) * d <= Magnitude(n) /\ Magnitude(n) < (Magnitude(q) + 1) * d /\ SameSide(q, n)
    [] mode = "HALF_UP" -> /\ 2 * Magnitude(q * d - n) <= d /\ SameSide(q, n)
                           /\ 2 * Magnitude(q * d - n) = d => Magnitude(q * d) > Magnitude(n)
    [] OTHER -> q * d = n
Fraction(t) ==   \* the numerator and divisor that the call asks for
  LET n == IF t.op = "mul" THEN t.a * t.b ELSE IF t.op = "div" THEN t.a * ScaleFactor ELSE t.a
      d == IF t.op = "mul" THEN ScaleFactor ELSE t.b IN
  IF d < 0 THEN <<-n, -d>> ELSE <<n, d>>
RoundingIsDirected ==
  Answered("decimal") /\ task.op \in {"mul", "div", "quantize"} =>
    LET n == Fraction(task)[1]
        d == Fraction(task)[2] IN
    /\ outcome.ok /\ task.op # "quantize" => IsRounded(n, d, task.mode, outcome.value)
    /\ outcome.ok /\ task.op = "quantize" => outcome.value % d = 0 /\ IsRounded(n, d, task.mode, outcome.value \div d)
    /\ outcome.reason = "DECIMAL_ROUNDING_REQUIRED" <=> d > 0 /\ task.mode = "EXACT" /\ n % d # 0
                                                        /\ (task.op = "quantize" => task.b > 0)

\* Nothing leaves the precision of the column, a text that parses says what its value
\* says (fromString, toString), and isDecimalString is right about a text unless that
\* is too long for the column.
DecimalsRoundTrip ==
  /\ Answered("decimal") /\ outcome.ok => Magnitude(outcome.value) <= MaxUnscaled
                                          /\ FromString(DecimalText(outcome.value)) = outcome
  /\ Answered("text") =>
       /\ IsDecimalString(task.text) <=> outcome.ok \/ outcome.reason = "DECIMAL_PRECISION_EXCEEDED"
       /\ outcome.ok => LET shown == DecimalText(outcome.value) IN
            /\ FromString(shown) = outcome
            /\ IsPrefix(SelectSeq(Unsigned(task.text), LAMBDA c : c # "."),
                        SelectSeq(Unsigned(shown), LAMBDA c : c # "."))

\* Calls that differ in any part never make the same key, whichever builders they use;
\* an evidence without a source never has the key of one that has.
KeysIdentify ==
  /\ Answered("keys") /\ outcome.ok /\ task.one # task.other => KeyOf(task.other) # outcome
  /\ Answered("evidence") /\ outcome.ok /\ (task.one.id # <<>>) # (task.other.id # <<>>) =>
       EvidenceSourceKey(task.other) # outcome

\* canonicalHash, classifyReplay: a retry is a replay, not a conflict, just when its
\* snapshot says the same as the stored one: the sign of zero, the order of properties
\* and undefined ones make no difference, the order of items does, and a number is not
\* its text.
TextOf(v) == IF v.is = "decimal" THEN DecimalText(FromString(v.of).value) ELSE v.of
Quoted == {"string", "bigint", "decimal", "date"}
SaysTheSame(v, w) ==
  \/ v.is \in Quoted /\ w.is \in Quoted /\ TextOf(v) = TextOf(w)
  \/ v.is = w.is /\ v.is \in {"number", "boolean", "null"} /\ (v.of = w.of \/ {v.of, w.of} = {<<"0">>, <<"-", "0">>})
SameSnapshot(v, w) ==
  IF v.is \in {"array", "object"} /\ w.is = v.is
  THEN Written(v) = Written(w) /\ \A k \in Written(v) : SaysTheSame(Content(v)[k], Content(w)[k])
  ELSE SaysTheSame(v, w)
Defined(fields) == [k \in {k \in DOMAIN fields : fields[k].is # "undefined"} |-> fields[k]]
HashesTellApart ==
  Answered("hashes") =>
    /\ outcome.ok /\ Canonical(task.other).ok =>
         ReplayVerdict({outcome}, Canonical(task.other)) = IF SameSnapshot(task.one, task.other) THEN "IDEMPOTENT_REPLAY" ELSE "CONFLICT"
    /\ task.one.is = "object" => outcome = Canonical([is |-> "object", fields |-> Defined(task.one.fields)])

=============================================================================
