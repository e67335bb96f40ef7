------------------------- MODULE ShadowMoneyProofs -------------------------
(***************************************************************************)
(* The money of ShadowExecution, for every set of candidates, quantities   *)
(* and prices: the cached balance is the ledger's, cash is conserved to    *)
(* the unit, the reserved cash is what orders and positions hold, and the  *)
(* available cash never becomes negative while a SHORT's reserve covers    *)
(* the band its prices move in.                                            *)
(*                                                                         *)
(* Each result has the same shape: a step books one movement and changes   *)
(* the rows of one candidate, and the movement is the difference of what   *)
(* that candidate counts for in the sum (SumChanges).                      *)
(***************************************************************************)
EXTENDS ShadowExecutionProofs, Functions, FiniteSetTheorems, WellFoundedInduction

----------------------------------------------------------------------------
(***************************************************************************)
(* Sums over a finite set: what SumFunctionOnSet of the community module   *)
(* Functions does when one summand changes.  The fold is a choice of a     *)
(* recursive function over the subsets of the set.  That it exists, is     *)
(* unique, and can give up any element first, is shown by contradiction:   *)
(* a non-empty set of counterexamples has one no proper subset of which is *)
(* a counterexample, since the strict subsets of a finite set are          *)
(* well-founded.                                                           *)
(***************************************************************************)

\* The element the fold takes first, and the function it recurs by.
Pick(T) == CHOOSE x \in T : TRUE
Sums(g, f, S) == g = [T \in SUBSET S |-> IF T = {} THEN 0 ELSE f[Pick(T)] + g[T \ {Pick(T)}]]

\* The sum is the recursive function's value on the whole set.
LEMMA Unfold ==
  ASSUME NEW f, NEW S
  PROVE  SumFunctionOnSet(f, S) = (CHOOSE g : Sums(g, f, S))[S]
BY DEF SumFunctionOnSet, FoldFunctionOnSet, MapThenFoldSet, Sums, Pick

\* A non-empty set of finite sets has a minimal one.
LEMMA MinimalSet ==
  ASSUME NEW S, IsFiniteSet(S), NEW B \in SUBSET (SUBSET S), B # {}
  PROVE  \E T \in B : \A U \in SUBSET T : U # T => U \notin B
<1>1. IsWellFoundedOn(StrictSubsetOrdering(S), SUBSET S)
  BY FS_StrictSubsetOrderingWellFounded, FS_FiniteSubsetsOfFinite, Zenon
<1>2. PICK T \in B : \A U \in B : <<U, T>> \notin StrictSubsetOrdering(S)
  BY <1>1, WFMin, Zenon
<1>3. ASSUME NEW U \in SUBSET T, U # T, U \in B PROVE FALSE
  <2>1. <<U, T>> \in (SUBSET S) \X (SUBSET S)
    BY <1>3
  <2>2. <<U, T>> \in StrictSubsetOrdering(S)
    BY <2>1, <1>3 DEF StrictSubsetOrdering
  <2>3. QED BY <2>2, <1>2, <1>3
<1>4. QED BY <1>3

\* The element taken is one of the set.
LEMMA PickIn == ASSUME NEW T, T # {} PROVE Pick(T) \in T
BY DEF Pick

\* Two recursive functions agree on the subsets both know.
LEMMA SumsAgree ==
  ASSUME NEW f, NEW S, IsFiniteSet(S), NEW T \in SUBSET S,
         NEW g, NEW h, Sums(g, f, S), Sums(h, f, T)
  PROVE  \A U \in SUBSET T : g[U] = h[U]
<1> DEFINE B == {U \in SUBSET T : g[U] # h[U]}
<1>1. SUFFICES ASSUME B # {} PROVE FALSE
  OBVIOUS
<1>2. IsFiniteSet(T)
  BY FS_Subset
<1>3. PICK U \in B : \A W \in SUBSET U : W # U => W \notin B
  <2>1. B \in SUBSET (SUBSET T)
    OBVIOUS
  <2> HIDE DEF B
  <2> QED BY <1>1, <1>2, <2>1, MinimalSet
<1>4. U # {}
  BY DEF Sums
<1>5. /\ Pick(U) \in U
      /\ U \ {Pick(U)} \in SUBSET U
      /\ U \ {Pick(U)} # U
  BY <1>4, PickIn
<1>6. g[U \ {Pick(U)}] = h[U \ {Pick(U)}]
  BY <1>3, <1>5
<1>7. g[U] = f[Pick(U)] + g[U \ {Pick(U)}]
  BY <1>4 DEF Sums
<1>8. h[U] = f[Pick(U)] + h[U \ {Pick(U)}]
  BY <1>4 DEF Sums
<1>9. QED BY <1>6, <1>7, <1>8

\* There is such a function.
LEMMA SumsExist ==
  ASSUME NEW f, NEW S, IsFiniteSet(S)
  PROVE  \E g : Sums(g, f, S)
<1> DEFINE B == {T \in SUBSET S : ~ \E g : Sums(g, f, T)}
<1>1. SUFFICES ASSUME B # {} PROVE FALSE
  BY DEF B
<1>2. PICK T \in B : \A U \in SUBSET T : U # T => U \notin B
  <2>1. B \in SUBSET (SUBSET S)
    OBVIOUS
  <2> HIDE DEF B
  <2> QED BY <1>1, <2>1, MinimalSet
<1>3. T \in SUBSET S /\ ~ \E g : Sums(g, f, T)
  OBVIOUS
<1> DEFINE At(U) == CHOOSE g : Sums(g, f, U)
           V(U) == At(U)[U]
           G == [U \in SUBSET T |-> IF U = {} THEN 0 ELSE f[Pick(U)] + V(U \ {Pick(U)})]
<1>4. ASSUME NEW U \in SUBSET T, U # T PROVE Sums(At(U), f, U)
  <2>1. \E g : Sums(g, f, U)
    BY <1>2, <1>3, <1>4
  <2> QED BY <2>1
<1>5. ASSUME NEW W \in SUBSET T, W # T PROVE G[W] = V(W)
  <2>1. Sums(At(W), f, W)
    BY <1>4, <1>5
  <2>2. CASE W = {}
    BY <2>1, <2>2 DEF Sums
  <2>3. CASE W # {}
    <3> DEFINE Y == W \ {Pick(W)}
    <3>1. Pick(W) \in W /\ Y \in SUBSET T /\ Y # T /\ Y \in SUBSET W
      BY <2>3, PickIn
    <3>2. Sums(At(Y), f, Y)
      BY <1>4, <3>1
    <3>3. IsFiniteSet(W)
      BY <1>3, FS_Subset
    <3>4. At(W)[Y] = At(Y)[Y]
      <4> HIDE DEF Y, At
      <4> QED BY <2>1, <3>1, <3>2, <3>3, SumsAgree
    <3>5. At(W)[W] = f[Pick(W)] + At(W)[Y]
      <4> HIDE DEF At
      <4> QED BY <2>1, <2>3, <3>1 DEF Sums
    <3>6. G[W] = f[Pick(W)] + V(Y)
      <4> HIDE DEF V
      <4> QED BY <2>3
    <3> QED BY <3>4, <3>5, <3>6
  <2> QED BY <2>2, <2>3
<1>6. Sums(G, f, T)
  <2>1. ASSUME NEW U \in SUBSET T, U # {} PROVE G[U \ {Pick(U)}] = V(U \ {Pick(U)})
    <3>1. U \ {Pick(U)} \in SUBSET T /\ U \ {Pick(U)} # T
      BY <2>1, PickIn
    <3> HIDE DEF G, V
    <3> QED BY <1>5, <3>1
  <2>2. G = [U \in SUBSET T |-> IF U = {} THEN 0 ELSE f[Pick(U)] + G[U \ {Pick(U)}]]
    <3> HIDE DEF V
    <3> DEFINE H == [U \in SUBSET T |-> IF U = {} THEN 0 ELSE f[Pick(U)] + G[U \ {Pick(U)}]]
    <3>1. \A U \in SUBSET T : G[U] = H[U]
      BY <2>1
    <3> QED BY <3>1
  <2> HIDE DEF G
  <2> QED BY <2>2 DEF Sums
<1>7. QED BY <1>3, <1>6

\* The sum of a set is its first element's value and the sum of the rest.
LEMMA SumUnfolds ==
  ASSUME NEW f, NEW S, IsFiniteSet(S)
  PROVE  /\ S = {} => SumFunctionOnSet(f, S) = 0
         /\ S # {} => SumFunctionOnSet(f, S) = f[Pick(S)] + SumFunctionOnSet(f, S \ {Pick(S)})
<1> DEFINE T == S \ {Pick(S)}
           g == CHOOSE w : Sums(w, f, S)
           h == CHOOSE w : Sums(w, f, T)
<1>1. Sums(g, f, S)
  BY SumsExist
<1>2. Sums(h, f, T)
  <2>1. IsFiniteSet(T)
    BY FS_RemoveElement
  <2> QED BY <2>1, SumsExist
<1>3. g[T] = h[T]
  <2> HIDE DEF g, h
  <2> QED BY <1>1, <1>2, SumsAgree
<1>4. /\ S = {} => g[S] = 0
      /\ S # {} => g[S] = f[Pick(S)] + g[T]
  <2> HIDE DEF g
  <2> QED BY <1>1, PickIn DEF Sums
<1>5. SumFunctionOnSet(f, S) = g[S] /\ SumFunctionOnSet(f, T) = h[T]
  BY Unfold
<1>6. QED
  <2> HIDE DEF g, h
  <2> QED BY <1>3, <1>4, <1>5

\* A sum of integers is an integer.
LEMMA SumType ==
  ASSUME NEW S, IsFiniteSet(S), NEW f \in [S -> Int]
  PROVE  \A T \in SUBSET S : SumFunctionOnSet(f, T) \in Int
<1> DEFINE B == {T \in SUBSET S : SumFunctionOnSet(f, T) \notin Int}
<1>1. SUFFICES ASSUME B # {} PROVE FALSE
  BY DEF B
<1>2. PICK T \in B : \A U \in SUBSET T : U # T => U \notin B
  <2>1. B \in SUBSET (SUBSET S)
    OBVIOUS
  <2> HIDE DEF B
  <2> QED BY <1>1, <2>1, MinimalSet
<1>3. T \in SUBSET S /\ IsFiniteSet(T)
  BY FS_Subset
<1>4. T # {}
  <2>1. T = {} => SumFunctionOnSet(f, T) = 0
    BY <1>3, SumUnfolds
  <2> QED BY <1>2, <2>1
<1>5. Pick(T) \in T
  BY <1>4, PickIn
<1>6. SumFunctionOnSet(f, T \ {Pick(T)}) \in Int
  BY <1>2, <1>3, <1>5
<1>7. f[Pick(T)] \in Int
  BY <1>3, <1>5
<1>8. QED BY <1>3, <1>4, <1>6, <1>7, SumUnfolds

\* Any element may be taken first.
LEMMA SumWithout ==
  ASSUME NEW S, IsFiniteSet(S), NEW f \in [S -> Int]
  PROVE  \A T \in SUBSET S : \A x \in T :
           SumFunctionOnSet(f, T) = f[x] + SumFunctionOnSet(f, T \ {x})
<1> DEFINE Good(T) == \A x \in T : SumFunctionOnSet(f, T) = f[x] + SumFunctionOnSet(f, T \ {x})
           B == {T \in SUBSET S : ~Good(T)}
<1>1. SUFFICES ASSUME B # {} PROVE FALSE
  BY DEF B
<1>2. PICK T \in B : \A U \in SUBSET T : U # T => U \notin B
  <2>1. B \in SUBSET (SUBSET S)
    OBVIOUS
  <2> HIDE DEF B
  <2> QED BY <1>1, <2>1, MinimalSet
<1>3. T \in SUBSET S /\ IsFiniteSet(T)
  BY FS_Subset
<1>4. PICK x \in T : SumFunctionOnSet(f, T) # f[x] + SumFunctionOnSet(f, T \ {x})
  BY <1>2
<1> DEFINE p == Pick(T)
<1>5. p \in T
  BY <1>4, PickIn
<1>6. SumFunctionOnSet(f, T) = f[p] + SumFunctionOnSet(f, T \ {p})
  BY <1>3, <1>4, SumUnfolds
<1>7. x # p
  BY <1>4, <1>6
<1>8. SumFunctionOnSet(f, T \ {p}) = f[x] + SumFunctionOnSet(f, (T \ {p}) \ {x})
  <2>1. T \ {p} \in SUBSET T /\ T \ {p} # T /\ x \in T \ {p}
    BY <1>5, <1>7
  <2>2. Good(T \ {p})
    BY <2>1, <1>2, <1>3
  <2> QED BY <2>1, <2>2
<1>9. SumFunctionOnSet(f, T \ {x}) = f[p] + SumFunctionOnSet(f, (T \ {x}) \ {p})
  <2>1. T \ {x} \in SUBSET T /\ T \ {x} # T /\ p \in T \ {x}
    BY <1>5, <1>7
  <2>2. Good(T \ {x})
    BY <2>1, <1>2, <1>3
  <2> QED BY <2>1, <2>2
<1>10. (T \ {p}) \ {x} = (T \ {x}) \ {p}
  OBVIOUS
<1>11. /\ f[x] \in Int /\ f[p] \in Int
       /\ SumFunctionOnSet(f, (T \ {x}) \ {p}) \in Int
  <2>1. (T \ {x}) \ {p} \in SUBSET S
    BY <1>3
  <2> QED BY <1>3, <1>5, <2>1, SumType
<1>12. SumFunctionOnSet(f, T) = f[x] + SumFunctionOnSet(f, T \ {x})
  <2> DEFINE s == SumFunctionOnSet(f, (T \ {x}) \ {p})
             fx == f[x]
             fp == f[p]
  <2>1. SumFunctionOnSet(f, T) = fp + (fx + s)
    BY <1>6, <1>8, <1>10
  <2>2. SumFunctionOnSet(f, T \ {x}) = fp + s
    BY <1>9
  <2>3. fx \in Int /\ fp \in Int /\ s \in Int
    BY <1>11
  <2> HIDE DEF s, fx, fp
  <2>4. SumFunctionOnSet(f, T) = fx + SumFunctionOnSet(f, T \ {x})
    BY <2>1, <2>2, <2>3
  <2> QED BY <2>4 DEF fx
<1>13. QED BY <1>4, <1>12

\* Functions that agree on a set have the same sum over it.
LEMMA SumEqual ==
  ASSUME NEW S, IsFiniteSet(S), NEW f \in [S -> Int], NEW g \in [S -> Int]
  PROVE  \A T \in SUBSET S :
           (\A x \in T : f[x] = g[x]) => SumFunctionOnSet(f, T) = SumFunctionOnSet(g, T)
<1> DEFINE Good(T) == (\A x \in T : f[x] = g[x]) => SumFunctionOnSet(f, T) = SumFunctionOnSet(g, T)
           B == {T \in SUBSET S : ~Good(T)}
<1>1. SUFFICES ASSUME B # {} PROVE FALSE
  BY DEF B
<1>2. PICK T \in B : \A U \in SUBSET T : U # T => U \notin B
  <2>1. B \in SUBSET (SUBSET S)
    OBVIOUS
  <2> HIDE DEF B
  <2> QED BY <1>1, <2>1, MinimalSet
<1>3. T \in SUBSET S /\ IsFiniteSet(T)
  BY FS_Subset
<1>4. \A x \in T : f[x] = g[x]
  BY <1>2
<1>5. T # {}
  BY <1>2, <1>3, SumUnfolds
<1>6. Pick(T) \in T
  BY <1>5, PickIn
<1>7. Good(T \ {Pick(T)})
  BY <1>2, <1>3, <1>6
<1>8. SumFunctionOnSet(f, T \ {Pick(T)}) = SumFunctionOnSet(g, T \ {Pick(T)})
  BY <1>4, <1>7
<1>9. f[Pick(T)] = g[Pick(T)]
  BY <1>4, <1>6
<1>10. SumFunctionOnSet(f, T) = SumFunctionOnSet(g, T)
  BY <1>3, <1>5, <1>8, <1>9, SumUnfolds
<1>11. QED BY <1>2, <1>10

\* Zeros add up to zero.
LEMMA SumOfZeros ==
  ASSUME NEW S, IsFiniteSet(S), NEW f \in [S -> Int], \A x \in S : f[x] = 0
  PROVE  SumFunctionOnSet(f, S) = 0
<1> DEFINE B == {T \in SUBSET S : SumFunctionOnSet(f, T) # 0}
<1>1. SUFFICES ASSUME B # {} PROVE FALSE
  BY DEF B
<1>2. PICK T \in B : \A U \in SUBSET T : U # T => U \notin B
  <2>1. B \in SUBSET (SUBSET S)
    OBVIOUS
  <2> HIDE DEF B
  <2> QED BY <1>1, <2>1, MinimalSet
<1>3. T \in SUBSET S /\ IsFiniteSet(T) /\ SumFunctionOnSet(f, T) # 0
  BY FS_Subset
<1>4. T # {}
  BY <1>3, SumUnfolds
<1>5. Pick(T) \in T /\ T \ {Pick(T)} \in SUBSET T /\ T \ {Pick(T)} # T
  BY <1>4, PickIn
<1>6. SumFunctionOnSet(f, T \ {Pick(T)}) = 0
  BY <1>2, <1>3, <1>5
<1>7. SumFunctionOnSet(f, T) = f[Pick(T)] + SumFunctionOnSet(f, T \ {Pick(T)})
  BY <1>3, <1>4, SumUnfolds
<1>8. QED
  BY <1>3, <1>5, <1>6, <1>7

\* When one value changes, the sum changes by the difference: what a booking does
\* to the totals of a portfolio.
LEMMA SumChanges ==
  ASSUME NEW S, IsFiniteSet(S), NEW f \in [S -> Int], NEW g \in [S -> Int],
         NEW x \in S, \A y \in S \ {x} : g[y] = f[y]
  PROVE  SumFunctionOnSet(g, S) = SumFunctionOnSet(f, S) + (g[x] - f[x])
<1> DEFINE T == S \ {x}
<1>1. T \in SUBSET S /\ S \in SUBSET S
  OBVIOUS
<1>2. SumFunctionOnSet(f, S) = f[x] + SumFunctionOnSet(f, T)
  BY <1>1, SumWithout
<1>3. SumFunctionOnSet(g, S) = g[x] + SumFunctionOnSet(g, T)
  BY <1>1, SumWithout
<1>4. SumFunctionOnSet(f, T) = SumFunctionOnSet(g, T)
  <2> HIDE DEF T
  <2>1. \A y \in T : f[y] = g[y]
    BY DEF T
  <2> QED BY <1>1, <2>1, SumEqual
<1>5. SumFunctionOnSet(f, T) \in Int /\ f[x] \in Int /\ g[x] \in Int
  BY <1>1, SumType
<1>6. QED
  <2> HIDE DEF T
  <2> QED BY <1>2, <1>3, <1>4, <1>5

----------------------------------------------------------------------------
(* What a step books                                                       *)

\* The creation of an order books its reserve on the stored portfolio, which the
\* reserve was checked against.
LEMMA CreateFacts ==
  ASSUME IInv, NEW r \in CreateRuns, CreateCommit(r)
  PROVE  LET c == creating[r].c IN
         /\ c \in Candidates
         /\ BookOn(portfolio, ReserveMovement(Reserve(c)))
         /\ CanReserve(portfolio.balance, Reserve(c))
         /\ orders[c].status = "NONE"
         /\ orders' \in [Candidates -> Order]
         /\ orders'[c].status = "WAITING_FOR_ENTRY"
         /\ orders'[c].remaining = Quantity[c] /\ orders'[c].reserve = Reserve(c)
         /\ \A d \in Candidates \ {c} : orders'[d] = orders[d]
         /\ UNCHANGED positions
<1> DEFINE run == creating[r]
           c == run.c
           o1 == [status |-> "WAITING_FOR_ENTRY", remaining |-> Quantity[c],
                  reserve |-> Reserve(c), cursor |-> 0]
<1>1. c \in Candidates /\ run.portfolio \in Portfolio /\ portfolio \in Portfolio
      /\ orders \in [Candidates -> Order]
  BY DEF IInv, TypeOK
<1>2. /\ run.at = "checked" /\ BookOn(run.portfolio, ReserveMovement(Reserve(c)))
      /\ orders[c].status = "NONE" /\ orders' = [orders EXCEPT ![c] = o1]
      /\ UNCHANGED positions
  BY DEF CreateCommit
<1>3. run.portfolio = portfolio
  BY <1>1, <1>2 DEF BookOn, IInv, PastReads, Past, Portfolio
<1>4. CanReserve(run.portfolio.balance, Reserve(c))
  BY <1>2 DEF IInv, CheckStands
<1>5. o1 \in Order
  <2>1. Quantity[c] \in Nat \ {0} /\ ReservePerUnit \in Nat
    BY <1>1, ExecutionAssumption
  <2>2. Reserve(c) \in Int
    BY <2>1 DEF Reserve
  <2>3. QED
    BY <2>1, <2>2 DEF Order, OrderStatuses
<1>6. o1.status = "WAITING_FOR_ENTRY" /\ o1.remaining = Quantity[c] /\ o1.reserve = Reserve(c)
  OBVIOUS
<1> HIDE DEF o1
<1>7. QED
  BY <1>1, <1>2, <1>3, <1>4, <1>5, <1>6

\* A booking on the stored portfolio changes balance and ledger by its movement.
LEMMA Booked ==
  ASSUME TypeOK, NEW movement \in Balance, BookOn(portfolio, movement)
  PROVE  /\ portfolio'.balance = Book(portfolio.balance, movement)
         /\ ledger' = Book(ledger, movement)
         /\ portfolio'.balance.available = portfolio.balance.available + movement.available
         /\ portfolio'.balance.reserved = portfolio.balance.reserved + movement.reserved
<1>1. portfolio'.balance = Book(portfolio.balance, movement) /\ ledger' = Book(ledger, movement)
  BY DEF BookOn
<1>2. QED
  BY <1>1 DEF Book

\* The steps that book nothing.
Idle == UNCHANGED Rows \/ Locks \/ MonitorTrigger \/ MonitorOrder \/ MonitorMark

\* The steps that book nothing leave the balance and the ledger.
LEMMA IdleBooksNothing ==
  ASSUME TypeOK, Idle \/ \E r \in FillRuns : MarksOrder(r)
  PROVE  portfolio'.balance = portfolio.balance /\ UNCHANGED ledger
<1>1. CASE UNCHANGED Rows \/ MonitorTrigger \/ MonitorOrder \/ \E r \in FillRuns : MarksOrder(r)
  BY <1>1 DEF Rows, MonitorTrigger, MonitorOrder, MarksOrder
<1>2. CASE Locks
  BY <1>2 DEF Locks, LockPortfolio, TypeOK, Portfolio
<1>3. CASE MonitorMark
  BY <1>3 DEF MonitorMark, TypeOK, Portfolio
<1>4. QED
  BY <1>1, <1>2, <1>3 DEF Idle

\* The end of an order books the release of what its order, as read, reserved.
LEMMA EndBooks ==
  ASSUME TypeOK, NEW r \in FillRuns, Ends(r)
  PROVE  LET amount == filling[r].order.reserve IN
         /\ amount \in Int /\ 0 < amount
         /\ BookOn(portfolio, ReleaseMovement(amount))
         /\ ReleaseMovement(amount) \in Balance
         /\ ReleaseMovement(amount).available = amount
         /\ ReleaseMovement(amount).reserved = -amount
<1> DEFINE amount == filling[r].order.reserve
<1>1. amount \in Int
  BY DEF TypeOK, Order
<1>2. BookOn(portfolio, ReleaseMovement(amount)) /\ 0 < amount
  BY <1>1 DEF Ends, EndOrder, CanRelease
<1>3. ReleaseMovement(amount) = Movement(amount, -amount, 0)
  BY DEF ReleaseMovement
<1> HIDE DEF amount
<1>4. /\ Movement(amount, -amount, 0) \in Balance
      /\ Movement(amount, -amount, 0).available = amount
      /\ Movement(amount, -amount, 0).reserved = -amount
  BY <1>1 DEF Movement, Balance
<1>5. QED
  BY <1>1, <1>2, <1>3, <1>4 DEF amount

\* The movement of a reservation takes from the available what it reserves.
LEMMA CreateBooks ==
  ASSUME NEW c \in Candidates
  PROVE  /\ Reserve(c) \in Nat
         /\ ReserveMovement(Reserve(c)) \in Balance
         /\ ReserveMovement(Reserve(c)).available = -Reserve(c)
         /\ ReserveMovement(Reserve(c)).reserved = Reserve(c)
<1>1. Reserve(c) \in Nat
  BY ExecutionAssumption DEF Reserve
<1>2. QED
  BY <1>1 DEF ReserveMovement, Movement, Balance

\* The commit of a fill books FillMovement on the portfolio it read.
LEMMA CommitBooks ==
  ASSUME NEW r \in FillRuns, NEW fill, NEW recheck, Commits(r, fill, recheck)
  PROVE  BookOn(filling[r].portfolio, FillMovement(filling[r], fill, recheck))
<1> DEFINE run == filling[r]
<1>1. CommitFill(run, fill, recheck)
  BY DEF Commits
<1> HIDE DEF run
<1>2. BookOn(run.portfolio, FillMovement(run, fill, recheck))
  BY <1>1 DEF CommitFill, FillMovement, FillShare, FillStatus
<1>3. QED
  BY <1>2 DEF run

----------------------------------------------------------------------------
(* The cache and the ledger                                                *)

\* No interleaving of order, fill and monitor jobs loses a booking: the cached
\* balance of the portfolio is always what its ledger adds up to.
THEOREM CacheFollowsLedger == Spec => []CacheIsLedger
<1>1. Init => CacheIsLedger
  BY DEF Init, CacheIsLedger
<1>2. IInv /\ CacheIsLedger /\ [Next]_vars => CacheIsLedger'
  <2> SUFFICES ASSUME IInv, CacheIsLedger, Next PROVE CacheIsLedger'
    BY DEF vars, rows, CacheIsLedger
  <2>1. TypeOK /\ RowStep
    BY RowSteps DEF IInv
  <2>2. ASSUME NEW movement \in Balance, BookOn(portfolio, movement) PROVE CacheIsLedger'
    BY <2>1, <2>2, Booked DEF CacheIsLedger
  <2>3. CASE Idle \/ \E r \in FillRuns : MarksOrder(r)
    BY <2>1, <2>3, IdleBooksNothing DEF CacheIsLedger
  <2>4. ASSUME NEW r \in CreateRuns, CreateCommit(r) PROVE CacheIsLedger'
    BY <2>2, <2>4, CreateFacts, CreateBooks
  <2>5. ASSUME NEW r \in FillRuns, Ends(r) PROVE CacheIsLedger'
    BY <2>1, <2>2, <2>5, EndBooks
  <2>6. ASSUME NEW r \in FillRuns, NEW fill \in FillsOffered(filling[r]), NEW recheck,
               Commits(r, fill, recheck)
        PROVE  CacheIsLedger'
    <3>1. BookOn(portfolio, FillMovement(filling[r], fill, recheck))
      BY <2>6, CommitFacts, CommitBooks
    <3>2. QED
      BY <2>1, <2>2, <3>1, FillMovementTyped
  <2>7. CASE MonitorFill
    <3>1. PICK fill \in Fill : /\ MonitorFills(fill) /\ monitoring.portfolio = portfolio
                               /\ fill.quantity <= monitoring.position.open
      BY <2>7, ExitFacts
    <3>2. monitoring.at = "ordered"
      BY <2>7 DEF MonitorFill
    <3>3. Closable(monitoring.position) /\ Direction[monitoring.c] \in {"LONG", "SHORT"}
      BY <3>2, MonitoredIsClosable, ExecutionAssumption
    <3>4. QED
      BY <2>2, <3>1, <3>3, ExitMovementTyped DEF MonitorFills
  <2>8. QED
    BY <2>1, <2>3, <2>4, <2>5, <2>6, <2>7 DEF RowStep, Idle
<1>3. QED
  BY <1>1, <1>2, Invariant, PTL DEF Spec

----------------------------------------------------------------------------
(* The movements of the fills                                              *)

\* What the commit of an entry fill moves: the fill is paid from its share of the
\* reserve, and what the rest of the order still reserved goes back when it is
\* cancelled.
LEMMA EntryMoves ==
  ASSUME TypeOK, NEW r \in FillRuns, NEW fill \in FillsOffered(filling[r]), NEW recheck
  PROVE  LET run == filling[r]
             share == FillShare(run, fill)
             movement == FillMovement(run, fill, recheck)
             kept == IF FillStatus(run, fill, recheck).order = "CANCELLED"
                     THEN run.order.reserve - share ELSE 0
         IN
         /\ movement.available =
              kept + (IF Direction[run.c] = "LONG" THEN share - Notional(fill) - fill.fee ELSE 0)
         /\ movement.reserved =
              -kept - (IF Direction[run.c] = "LONG" THEN share ELSE fill.fee)
<1> DEFINE run == filling[r]
           share == FillShare(run, fill)
           reserve == run.order.reserve
           direction == Direction[run.c]
           entry == EntryMovement(direction, share, fill)
           cancelled == FillStatus(run, fill, recheck).order = "CANCELLED"
<1>1. share \in Int /\ reserve \in Int /\ Notional(fill) \in Int /\ fill.fee \in Int
  <2>1. share \in Int /\ fill \in Fill
    BY FillMovementTyped, OfferTyped
  <2>2. reserve \in Int
    BY DEF TypeOK, Order
  <2> HIDE DEF share, reserve
  <2>3. QED
    BY <2>1, <2>2, FillTyped
<1>2. FillMovement(run, fill, recheck) =
        IF cancelled THEN Book(entry, ReleaseMovement(reserve - share)) ELSE entry
  BY DEF FillMovement
<1> HIDE DEF share, reserve, direction, cancelled
<1>3. /\ entry.available =
           IF direction = "LONG" THEN share - Notional(fill) - fill.fee ELSE 0
      /\ entry.reserved = IF direction = "LONG" THEN -share ELSE -fill.fee
  BY DEF EntryMovement, Movement
<1> HIDE DEF entry
<1>4. /\ Book(entry, ReleaseMovement(reserve - share)).available =
           entry.available + (reserve - share)
      /\ Book(entry, ReleaseMovement(reserve - share)).reserved =
           entry.reserved + (-(reserve - share))
  BY DEF Book, ReleaseMovement, Movement
<1> DEFINE kept == IF cancelled THEN reserve - share ELSE 0
<1>5. /\ FillMovement(run, fill, recheck).available =
           kept + (IF direction = "LONG" THEN share - Notional(fill) - fill.fee ELSE 0)
      /\ FillMovement(run, fill, recheck).reserved =
           -kept - (IF direction = "LONG" THEN share ELSE fill.fee)
  BY <1>1, <1>2, <1>3, <1>4
<1>6. QED
  BY <1>5 DEF share, reserve, direction, cancelled

\* What an exit fill moves: a LONG receives the notional, a SHORT its gross result
\* and the collateral the fill releases; both pay the fee.
LEMMA ExitMoves ==
  ASSUME NEW direction \in {"LONG", "SHORT"}, NEW position, Closable(position),
         NEW fill \in Fill, fill.quantity <= position.open
  PROVE  LET movement == ExitMovement(direction, position, fill)
             freed == ReleasedCollateral(direction, position, fill)
             average == AverageEntryPrice(position)
         IN
         /\ movement.available =
              (IF direction = "LONG" THEN Notional(fill)
               ELSE freed + fill.quantity * (average - fill.price)) - fill.fee
         /\ movement.reserved = -freed
         /\ freed \in Int /\ average \in Nat /\ (direction = "LONG" => freed = 0)
<1> DEFINE freed == ReleasedCollateral(direction, position, fill)
<1>1. freed \in Int /\ AverageEntryPrice(position) \in Nat
  BY ExitTyped
<1>2. direction = "LONG" => freed = 0
  BY DEF ReleasedCollateral
<1>3. direction # "LONG" =>
        GrossPnl(direction, position, fill)
          = fill.quantity * (AverageEntryPrice(position) - fill.price)
  BY DEF GrossPnl
<1>4. /\ ExitMovement(direction, position, fill).available =
           (IF direction = "LONG" THEN Notional(fill)
            ELSE freed + GrossPnl(direction, position, fill)) - fill.fee
      /\ ExitMovement(direction, position, fill).reserved = -freed
  BY DEF ExitMovement, Movement
<1>5. QED
  BY <1>1, <1>2, <1>3, <1>4

----------------------------------------------------------------------------
(* Sums over the candidates                                                *)

\* A step that changes what one candidate counts for changes the sum by as much.
LEMMA OneChanges ==
  ASSUME NEW f \in [Candidates -> Int], NEW g \in [Candidates -> Int], NEW c \in Candidates,
         \A d \in Candidates \ {c} : g[d] = f[d]
  PROVE  /\ SumFunctionOnSet(f, Candidates) \in Int
         /\ SumFunctionOnSet(g, Candidates) = SumFunctionOnSet(f, Candidates) + (g[c] - f[c])
BY ExecutionAssumption, SumChanges, SumType

\* Candidates that count for nothing add up to nothing.
LEMMA ZeroSum ==
  ASSUME NEW f \in [Candidates -> Int], \A c \in Candidates : f[c] = 0
  PROVE  SumFunctionOnSet(f, Candidates) = 0
BY ExecutionAssumption, SumOfZeros

----------------------------------------------------------------------------
(* Cash                                                                    *)

\* The portfolio's cash, and what each candidate brought in of it.
Cash == portfolio.balance.available + portfolio.balance.reserved
Flows == [c \in Candidates |-> Flow(Direction[c], positions[c])]

\* What a position brought in is an integer.
LEMMA FlowTyped ==
  ASSUME NEW direction, NEW p \in Position
  PROVE  /\ Flow(direction, p) \in Int
         /\ p.initial # 0 => AverageEntryPrice(p) \in Nat /\ ClosedGross(p) \in Int
<1>1. p.initial # 0 => AverageEntryPrice(p) \in Nat
  BY Division DEF AverageEntryPrice, Position
<1>2. p.initial # 0 => ClosedGross(p) \in Int
  <2>1. p.initial - p.open \in Int /\ p.received \in Int
    BY DEF Position
  <2>2. QED
    BY <1>1, <2>1 DEF ClosedGross
<1>3. QED
  BY <1>1, <1>2 DEF Flow, Position

\* So is the cash.
LEMMA CashTyped ==
  ASSUME TypeOK
  PROVE  Cash \in Int
BY DEF Cash, TypeOK, Portfolio, Balance

\* A step that changes one position only, and its flow by the cash it moves.
CashFollows(c) ==
  /\ \A d \in Candidates \ {c} :
       Flow(Direction[d], positions'[d]) = Flow(Direction[d], positions[d])
  /\ Cash' = Cash + (Flow(Direction[c], positions'[c]) - Flow(Direction[c], positions[c]))

\* Such a step conserves the cash.
LEMMA CashMoves ==
  ASSUME TypeOK, TypeOK', CashIsConserved, NEW c \in Candidates, CashFollows(c)
  PROVE  CashIsConserved'
<1>1. Flows \in [Candidates -> Int] /\ Flows' \in [Candidates -> Int] /\ Cash \in Int
  <2>1. \A d \in Candidates : positions[d] \in Position /\ positions'[d] \in Position
    BY DEF TypeOK
  <2>2. QED
    BY <2>1, FlowTyped, CashTyped DEF Flows
<1>2. \A d \in Candidates : /\ Flows[d] = Flow(Direction[d], positions[d])
                            /\ Flows'[d] = Flow(Direction[d], positions'[d])
  BY DEF Flows
<1>3. /\ SumFunctionOnSet(Flows, Candidates) \in Int
      /\ SumFunctionOnSet(Flows', Candidates)
           = SumFunctionOnSet(Flows, Candidates) + (Flows'[c] - Flows[c])
  BY <1>1, <1>2, OneChanges DEF CashFollows
<1>4. Cash = InitialCash + SumFunctionOnSet(Flows, Candidates)
  BY DEF CashIsConserved, Cash, Flows
<1>5. Cash' = Cash + (Flows'[c] - Flows[c]) /\ Flows'[c] \in Int /\ Flows[c] \in Int
  BY <1>1, <1>2 DEF CashFollows
<1>6. Cash' = InitialCash + SumFunctionOnSet(Flows', Candidates)
  BY <1>1, <1>3, <1>4, <1>5, ExecutionAssumption
<1>7. QED
  BY <1>6 DEF CashIsConserved, Cash, Flows

\* A flow looks at nothing of a position but its amounts.
SameAmounts(p, q) ==
  /\ q.initial = p.initial /\ q.open = p.open /\ q.paid = p.paid
  /\ q.received = p.received /\ q.entryFees = p.entryFees /\ q.exitFees = p.exitFees

\* Positions with the same amounts have the same flow.
LEMMA SameFlow ==
  ASSUME NEW direction, NEW p, NEW q, SameAmounts(p, q)
  PROVE  Flow(direction, q) = Flow(direction, p)
BY DEF SameAmounts, Flow, ClosedGross, AverageEntryPrice

\* The flow of a position that nothing was closed of.
LEMMA OpenFlow ==
  ASSUME NEW direction, NEW p \in Position, p.open = p.initial, p.received = 0,
         p.initial = 0 => p = NoPosition
  PROVE  Flow(direction, p) =
           (IF direction = "LONG" THEN -p.paid ELSE 0) - p.entryFees - p.exitFees
<1>1. CASE p.initial = 0
  BY <1>1 DEF Flow, NoPosition
<1>2. CASE p.initial # 0
  <2>1. ClosedGross(p) = 0
    <3>1. AverageEntryPrice(p) \in Int /\ p.initial - p.open = 0
      BY <1>2, FlowTyped DEF Position
    <3>2. QED
      BY <3>1 DEF ClosedGross
  <2>2. QED
    BY <1>2, <2>1 DEF Flow, Position
<1>3. QED
  BY <1>1, <1>2

\* What an exit fill changes of the flow.
LEMMA ClosedFlow ==
  ASSUME NEW direction \in {"LONG", "SHORT"}, NEW p, Closable(p), NEW fill \in Fill,
         NEW q,
         q.initial = p.initial, q.open = p.open - fill.quantity, q.paid = p.paid,
         q.received = p.received + Notional(fill), q.entryFees = p.entryFees,
         q.exitFees = p.exitFees + fill.fee
  PROVE  Flow(direction, q) = Flow(direction, p) - fill.fee
           + (IF direction = "LONG" THEN Notional(fill)
              ELSE fill.quantity * (AverageEntryPrice(p) - fill.price))
<1> DEFINE average == AverageEntryPrice(p)
           bought == fill.quantity * average
           before == (p.initial - p.open) * average
           paidOut == Notional(fill)
<1>1. /\ p.initial \in Nat \ {0} /\ p.open \in Int /\ p.paid \in Int /\ p.received \in Int
      /\ p.entryFees \in Int /\ p.exitFees \in Int
      /\ fill.quantity \in Int /\ fill.price \in Int /\ fill.fee \in Int
  BY DEF Closable, Position, Fill
<1>2. average \in Int /\ AverageEntryPrice(q) = average
  BY <1>1, FlowTyped DEF AverageEntryPrice, Closable
<1> HIDE DEF average
<1>3. /\ bought \in Int /\ before \in Int /\ paidOut \in Int
      /\ (p.initial - (p.open - fill.quantity)) * average = before + bought
      /\ fill.quantity * (average - fill.price) = bought - paidOut
  BY <1>1, <1>2 DEF Notional
<1>4. ClosedGross(p) = before - p.received
  BY DEF ClosedGross, average
<1>5. ClosedGross(q) = (before + bought) - (p.received + paidOut)
  BY <1>2, <1>3 DEF ClosedGross
<1> HIDE DEF bought, before, paidOut
<1>6. /\ direction # "LONG" =>
           Flow(direction, q) = Flow(direction, p) - fill.fee + (bought - paidOut)
      /\ direction = "LONG" => Flow(direction, q) = Flow(direction, p) - fill.fee + paidOut
  BY <1>1, <1>3, <1>4, <1>5 DEF Flow, paidOut
<1>7. QED
  BY <1>3, <1>6 DEF average, paidOut

\* The commit of an entry fill moves the cash by what it changes of the flow.
LEMMA EntryCash ==
  ASSUME IInv, TypeOK', NEW r \in FillRuns, NEW fill \in FillsOffered(filling[r]), NEW recheck,
         Commits(r, fill, recheck)
  PROVE  CashFollows(filling[r].c)
<1> DEFINE run == filling[r]
           c == run.c
           p == positions[c]
           q == positions'[c]
           share == FillShare(run, fill)
           movement == FillMovement(run, fill, recheck)
<1>1. /\ TypeOK /\ c \in Candidates /\ OrderFilled(run, fill, recheck) /\ OpenOrder(c)
      /\ run.portfolio = portfolio /\ fill \in Fill
      /\ Direction[c] \in {"LONG", "SHORT"} /\ CandidateOK(c)
  BY CommitFacts, ExecutionAssumption DEF IInv, CandidatesOK
<1>2. /\ Notional(fill) \in Nat /\ fill.quantity \in Nat \ {0} /\ fill.fee \in Nat
      /\ share \in Int /\ run.order.reserve \in Int
      /\ movement \in Balance
  BY <1>1, FillTyped, FillMovementTyped DEF TypeOK, Order
<1>3. \A d \in Candidates \ {c} :
        Flow(Direction[d], positions'[d]) = Flow(Direction[d], positions[d])
  BY <1>1 DEF OrderFilled
<1>4. Cash' = Cash + movement.available + movement.reserved
  <2>1. BookOn(portfolio, movement)
    BY <1>1, CommitBooks
  <2> HIDE DEF movement
  <2>2. QED
    BY <1>1, <1>2, <2>1, Booked DEF Cash, TypeOK, Portfolio, Balance
<1>5. movement.available + movement.reserved =
        (IF Direction[c] = "LONG" THEN -Notional(fill) ELSE 0) - fill.fee
  <2> DEFINE kept == IF FillStatus(run, fill, recheck).order = "CANCELLED"
                     THEN run.order.reserve - share ELSE 0
  <2>1. kept \in Int
    BY <1>2
  <2>2. /\ movement.available =
             kept + (IF Direction[c] = "LONG" THEN share - Notional(fill) - fill.fee ELSE 0)
        /\ movement.reserved = -kept - (IF Direction[c] = "LONG" THEN share ELSE fill.fee)
    BY <1>1, EntryMoves
  <2> HIDE DEF kept, share, movement
  <2>3. QED
    BY <1>1, <1>2, <2>1, <2>2
<1>6. /\ p \in Position /\ q \in Position
      /\ p.open = p.initial /\ p.received = 0
      /\ p.initial = 0 => p = NoPosition
  <2>1. p.status \in {"NONE", "OPENING"} /\ p \in Position /\ q \in Position
    BY <1>1 DEF CandidateOK, Entered, OpenOrder, OpenEntry, TypeOK
  <2>2. QED
    BY <1>1, <2>1 DEF CandidateOK, Holding, LivePosition, Position
<1>7. /\ q.initial = p.initial + fill.quantity /\ q.open = p.open + fill.quantity
      /\ q.paid = p.paid + Notional(fill) /\ q.received = p.received
      /\ q.entryFees = p.entryFees + fill.fee /\ q.exitFees = p.exitFees
  BY <1>1 DEF OrderFilled
<1>8. q.initial # 0 /\ q.open = q.initial /\ q.received = 0
  BY <1>2, <1>6, <1>7 DEF Position
<1>9. /\ Flow(Direction[c], p) =
           (IF Direction[c] = "LONG" THEN -p.paid ELSE 0) - p.entryFees - p.exitFees
      /\ Flow(Direction[c], q) =
           (IF Direction[c] = "LONG" THEN -q.paid ELSE 0) - q.entryFees - q.exitFees
  BY <1>6, <1>8, OpenFlow
<1>10. /\ p.paid \in Int /\ p.entryFees \in Int /\ p.exitFees \in Int
  BY <1>6 DEF Position
<1>11. Flow(Direction[c], q) - Flow(Direction[c], p) =
         (IF Direction[c] = "LONG" THEN -Notional(fill) ELSE 0) - fill.fee
  BY <1>2, <1>7, <1>9, <1>10
<1>12. Cash \in Int /\ movement.available \in Int /\ movement.reserved \in Int
  BY <1>1, <1>2, CashTyped DEF Balance
<1> HIDE DEF movement
<1>13. QED
  BY <1>3, <1>4, <1>5, <1>11, <1>12 DEF CashFollows

\* So does an exit fill.
LEMMA ExitCash ==
  ASSUME IInv, TypeOK', MonitorFill
  PROVE  monitoring.c \in Candidates /\ CashFollows(monitoring.c)
<1> DEFINE c == monitoring.c
           p == positions[c]
           q == positions'[c]
<1>1. monitoring.at = "ordered" /\ TypeOK
  BY DEF MonitorFill, IInv
<1>2. PICK fill \in Fill : /\ MonitorFills(fill) /\ PositionReduced(fill)
                           /\ fill.quantity <= p.open /\ monitoring.portfolio = portfolio
  BY <1>1, ExitFacts, MonitoredIsClosable
<1>3. /\ c \in Candidates /\ Direction[c] \in {"LONG", "SHORT"} /\ Closable(p)
      /\ p = monitoring.position
  BY <1>1, MonitoredIsClosable, ExecutionAssumption
<1> DEFINE movement == ExitMovement(Direction[c], p, fill)
           freed == ReleasedCollateral(Direction[c], p, fill)
           gain == IF Direction[c] = "LONG" THEN Notional(fill)
                   ELSE fill.quantity * (AverageEntryPrice(p) - fill.price)
<1>4. /\ movement \in Balance /\ freed \in Int /\ AverageEntryPrice(p) \in Nat
      /\ movement.available =
           (IF Direction[c] = "LONG" THEN Notional(fill)
            ELSE freed + fill.quantity * (AverageEntryPrice(p) - fill.price)) - fill.fee
      /\ movement.reserved = -freed /\ (Direction[c] = "LONG" => freed = 0)
  BY <1>2, <1>3, ExitMovementTyped, ExitMoves
<1>5. gain \in Int /\ fill.fee \in Int
  <2>1. fill.quantity \in Int /\ fill.price \in Int /\ fill.fee \in Int /\ Notional(fill) \in Int
    BY FillTyped DEF Fill
  <2>2. fill.quantity * (AverageEntryPrice(p) - fill.price) \in Int
    BY <1>4, <2>1
  <2>3. QED
    BY <2>1, <2>2
<1>6. Cash' = Cash + movement.available + movement.reserved
  <2>1. BookOn(portfolio, movement)
    BY <1>2, <1>3 DEF MonitorFills
  <2> HIDE DEF movement
  <2>2. QED
    BY <1>1, <1>4, <2>1, Booked DEF Cash, TypeOK, Portfolio, Balance
<1>7. \A d \in Candidates \ {c} :
        Flow(Direction[d], positions'[d]) = Flow(Direction[d], positions[d])
  BY <1>2 DEF PositionReduced
<1>8. Flow(Direction[c], q) = Flow(Direction[c], p) - fill.fee + gain
  <2>1. /\ q.initial = p.initial /\ q.open = p.open - fill.quantity /\ q.paid = p.paid
        /\ q.received = p.received + Notional(fill)
        /\ q.entryFees = p.entryFees /\ q.exitFees = p.exitFees + fill.fee
    BY <1>2, <1>3 DEF PositionReduced
  <2> HIDE DEF p, q
  <2>2. QED
    BY <1>2, <1>3, <2>1, ClosedFlow
<1>9. movement.available + movement.reserved = gain - fill.fee
  <2> HIDE DEF freed, movement
  <2>1. movement.available =
          (IF Direction[c] = "LONG" THEN gain ELSE freed + gain) - fill.fee
    BY <1>4
  <2> HIDE DEF gain
  <2>2. QED
    BY <1>4, <1>5, <2>1
<1>10. /\ Cash \in Int /\ movement.available \in Int /\ movement.reserved \in Int
       /\ Flow(Direction[c], p) \in Int
  BY <1>1, <1>3, <1>4, CashTyped, FlowTyped DEF Balance, Closable
<1> HIDE DEF movement, gain
<1>11. QED
  BY <1>3, <1>5, <1>6, <1>7, <1>8, <1>9, <1>10 DEF CashFollows

\* No cash appears or disappears, for any number of order and fill runs: rounding
\* of shares and releases only moves it between reserved and available.
THEOREM CashStays == Spec => []CashIsConserved
<1>1. Init => CashIsConserved
  <2> SUFFICES ASSUME Init PROVE CashIsConserved
    OBVIOUS
  <2>1. Flows \in [Candidates -> Int] /\ \A c \in Candidates : Flows[c] = 0
    BY DEF Init, Flows, Flow, NoPosition
  <2>2. SumFunctionOnSet(Flows, Candidates) = 0
    BY <2>1, ZeroSum
  <2>3. Cash = InitialCash
    BY ExecutionAssumption DEF Init, Cash, FirstPortfolio, Movement
  <2>4. QED
    BY <2>2, <2>3, ExecutionAssumption DEF CashIsConserved, Cash, Flows
<1>2. IInv /\ CashIsConserved /\ IInv' /\ [Next]_vars => CashIsConserved'
  <2>1. CASE UNCHANGED vars
    BY <2>1 DEF vars, rows, CashIsConserved
  <2> SUFFICES ASSUME IInv, CashIsConserved, IInv', Next PROVE CashIsConserved'
    BY <2>1
  <2>2. TypeOK /\ TypeOK' /\ RowStep /\ Cash \in Int
    BY RowSteps, CashTyped DEF IInv
  <2>3. ASSUME \A d \in Candidates : SameAmounts(positions[d], positions'[d]), Cash' = Cash
        PROVE  CashIsConserved'
    <3>1. PICK c \in Candidates : TRUE
      BY ExecutionAssumption
    <3>2. \A d \in Candidates :
            /\ Flow(Direction[d], positions'[d]) = Flow(Direction[d], positions[d])
            /\ Flow(Direction[d], positions[d]) \in Int
      BY <2>2, <2>3, SameFlow, FlowTyped DEF TypeOK
    <3>3. CashFollows(c)
      BY <2>2, <2>3, <3>2 DEF CashFollows
    <3>4. QED
      BY <2>2, <3>3, CashMoves
  <2>4. CASE Idle \/ \E r \in FillRuns : MarksOrder(r)
    <3>1. Cash' = Cash
      BY <2>2, <2>4, IdleBooksNothing DEF Cash
    <3>2. \A d \in Candidates : SameAmounts(positions[d], positions'[d])
      <4>1. CASE MonitorMark
        BY <2>2, <4>1 DEF MonitorMark, SameAmounts, TypeOK, Position
      <4>2. CASE UNCHANGED positions
        BY <4>2 DEF SameAmounts
      <4>3. QED
        BY <2>4, <4>1, <4>2 DEF Idle, Rows, Locks, MonitorTrigger, MonitorOrder, MarksOrder
    <3>3. QED
      BY <2>3, <3>1, <3>2
  <2>5. ASSUME NEW r \in CreateRuns, CreateCommit(r) PROVE CashIsConserved'
    <3>1. \A d \in Candidates : SameAmounts(positions[d], positions'[d])
      BY <2>5 DEF CreateCommit, SameAmounts
    <3>2. Cash' = Cash
      BY <2>2, <2>5, CreateFacts, CreateBooks, Booked DEF Cash, TypeOK, Portfolio, Balance
    <3>3. QED
      BY <2>3, <3>1, <3>2
  <2>6. ASSUME NEW r \in FillRuns, Ends(r) PROVE CashIsConserved'
    <3>1. PICK status \in OrderStatuses : OrderEnded(filling[r], status)
      BY <2>2, <2>6, EndEffect DEF Ends, OrderStatuses
    <3>2. \A d \in Candidates : SameAmounts(positions[d], positions'[d])
      <4>1. positions \in [Candidates -> Position]
        BY <2>2 DEF TypeOK
      <4>2. \A d \in Candidates :
              positions'[d] \in {positions[d], [positions[d] EXCEPT !.status = "OPEN"]}
        BY <3>1 DEF OrderEnded
      <4>3. QED
        BY <4>1, <4>2 DEF SameAmounts, Position
    <3>3. Cash' = Cash
      <4> DEFINE amount == filling[r].order.reserve
      <4>1. /\ portfolio'.balance.available = portfolio.balance.available + amount
            /\ portfolio'.balance.reserved = portfolio.balance.reserved + (-amount)
            /\ amount \in Int
        BY <2>2, <2>6, EndBooks, Booked
      <4> HIDE DEF amount
      <4>2. QED
        BY <2>2, <4>1 DEF Cash, TypeOK, Portfolio, Balance
    <3>4. QED
      BY <2>3, <3>2, <3>3
  <2>7. ASSUME NEW r \in FillRuns, NEW fill \in FillsOffered(filling[r]), NEW recheck,
               Commits(r, fill, recheck)
        PROVE  CashIsConserved'
    BY <2>2, <2>7, CommitFacts, EntryCash, CashMoves
  <2>8. CASE MonitorFill
    BY <2>2, <2>8, ExitCash, CashMoves
  <2>9. QED
    BY <2>2, <2>4, <2>5, <2>6, <2>7, <2>8 DEF RowStep, Idle
<1>3. QED
  BY <1>1, <1>2, Invariant, PTL DEF Spec

----------------------------------------------------------------------------
(* Reserves and collateral                                                 *)

\* What each candidate holds back, and the reserved cash as their sum.
Holdings == [c \in Candidates |-> Held(c)]
ReservesAddUp == portfolio.balance.reserved = SumFunctionOnSet(Holdings, Candidates)

\* A step that changes what one candidate holds, and the reserved cash by as much.
HoldingFollows(c) ==
  /\ \A d \in Candidates \ {c} : Holdings'[d] = Holdings[d]
  /\ portfolio'.balance.reserved = portfolio.balance.reserved + (Holdings'[c] - Holdings[c])

\* Such a step keeps the reserved cash the sum of what is held.
LEMMA ReservedMoves ==
  ASSUME Holdings \in [Candidates -> Int], Holdings' \in [Candidates -> Int],
         ReservesAddUp, NEW c \in Candidates, HoldingFollows(c)
  PROVE  ReservesAddUp'
<1>1. /\ SumFunctionOnSet(Holdings, Candidates) \in Int
      /\ SumFunctionOnSet(Holdings', Candidates)
           = SumFunctionOnSet(Holdings, Candidates) + (Holdings'[c] - Holdings[c])
  BY OneChanges DEF HoldingFollows
<1>2. Holdings'[c] \in Int /\ Holdings[c] \in Int
  OBVIOUS
<1>3. QED
  BY <1>1, <1>2 DEF ReservesAddUp, HoldingFollows

\* What a candidate with these rows holds: an ended position has no collateral.
HeldOf(o, p) == (IF o.status \in OpenEntry THEN o.reserve ELSE 0) + p.collateral

\* What the candidates hold is what their rows say, before a step ...
LEMMA HeldByRows ==
  ASSUME TypeOK, CandidatesOK
  PROVE  Holdings = [c \in Candidates |-> HeldOf(orders[c], positions[c])]
<1> SUFFICES ASSUME NEW c \in Candidates PROVE Held(c) = HeldOf(orders[c], positions[c])
  BY DEF Holdings
<1>1. orders[c].reserve \in Int /\ positions[c].collateral \in Int
  BY DEF TypeOK, Order, Position
<1>2. ~Live(c) => positions[c].collateral = 0
  BY DEF CandidatesOK, CandidateOK, Holding, Live, LivePosition
<1>3. QED
  BY <1>1, <1>2 DEF Held, HeldOf, OpenOrder, OpenEntry

\* ... and after it.
LEMMA HeldByRowsNext ==
  ASSUME TypeOK', CandidatesOK'
  PROVE  Holdings' = [c \in Candidates |-> HeldOf(orders'[c], positions'[c])]
<1> SUFFICES ASSUME NEW c \in Candidates PROVE Held(c)' = HeldOf(orders'[c], positions'[c])
  BY DEF Holdings
<1>1. orders'[c].reserve \in Int /\ positions'[c].collateral \in Int
  BY DEF TypeOK, Order, Position
<1>2. ~Live(c)' => positions'[c].collateral = 0
  BY DEF CandidatesOK, CandidateOK, Holding, Live, LivePosition
<1>3. QED
  BY <1>1, <1>2 DEF Held, HeldOf, OpenOrder, OpenEntry

\* Both, with their types.
LEMMA HeldRows ==
  ASSUME IInv, IInv'
  PROVE  /\ TypeOK /\ TypeOK'
         /\ Holdings \in [Candidates -> Int] /\ Holdings' \in [Candidates -> Int]
         /\ \A c \in Candidates : /\ Holdings[c] = HeldOf(orders[c], positions[c])
                                  /\ Holdings'[c] = HeldOf(orders'[c], positions'[c])
                                  /\ orders[c].reserve \in Int /\ positions[c].collateral \in Int
<1>1. TypeOK /\ TypeOK' /\ CandidatesOK /\ CandidatesOK'
  BY DEF IInv
<1>2. \A c \in Candidates : /\ orders[c] \in Order /\ positions[c] \in Position
                            /\ orders'[c] \in Order /\ positions'[c] \in Position
  BY <1>1 DEF TypeOK
<1>3. \A o \in Order, p \in Position :
        HeldOf(o, p) \in Int /\ o.reserve \in Int /\ p.collateral \in Int
  BY DEF HeldOf, Order, Position
<1>4. QED
  BY <1>1, <1>2, <1>3, HeldByRows, HeldByRowsNext

\* A new order holds what its creation reserves.
LEMMA CreateHeld ==
  ASSUME IInv, IInv', NEW r \in CreateRuns, CreateCommit(r)
  PROVE  HoldingFollows(creating[r].c)
<1> DEFINE c == creating[r].c
<1>1. /\ c \in Candidates /\ orders[c].status = "NONE"
      /\ BookOn(portfolio, ReserveMovement(Reserve(c)))
      /\ orders'[c].status = "WAITING_FOR_ENTRY" /\ orders'[c].reserve = Reserve(c)
      /\ \A d \in Candidates \ {c} : orders'[d] = orders[d]
      /\ UNCHANGED positions
  BY CreateFacts
<1>2. \A d \in Candidates \ {c} : Holdings'[d] = Holdings[d]
  BY <1>1, HeldRows
<1>3. Holdings[c] = positions[c].collateral /\ positions[c].collateral \in Int
  BY <1>1, HeldRows DEF HeldOf, OpenEntry
<1>4. Holdings'[c] = Reserve(c) + positions[c].collateral
  BY <1>1, HeldRows DEF HeldOf, OpenEntry
<1>5. portfolio'.balance.reserved = portfolio.balance.reserved + Reserve(c)
  BY <1>1, CreateBooks, Booked DEF IInv
<1>6. Reserve(c) \in Int /\ portfolio.balance.reserved \in Int
  BY <1>1, CreateBooks DEF IInv, TypeOK, Portfolio, Balance
<1>7. QED
  BY <1>2, <1>3, <1>4, <1>5, <1>6 DEF HoldingFollows

\* An ended order gives back what it held: with one fill job, the order that was
\* read is the stored one.
LEMMA EndHeld ==
  ASSUME SInv, IInv', NEW r \in FillRuns, Ends(r)
  PROVE  HoldingFollows(filling[r].c)
<1> DEFINE c == filling[r].c
           amount == filling[r].order.reserve
<1>1. /\ IInv /\ TypeOK /\ c \in Candidates /\ OpenOrder(c)
      /\ orders[c] = filling[r].order /\ positions[c] \in Position
  BY EndFacts DEF SInv, IInv, TypeOK
<1>2. PICK status \in {"EXPIRED", "CANCELLED"} : OrderEnded(filling[r], status)
  BY EndFacts
<1>3. \A d \in Candidates \ {c} : Holdings'[d] = Holdings[d]
  BY <1>1, <1>2, HeldRows DEF OrderEnded
<1>4. /\ orders'[c].status = status
      /\ positions'[c].collateral = positions[c].collateral
  BY <1>1, <1>2 DEF OrderEnded, Position
<1>5. Holdings[c] = amount + positions[c].collateral /\ positions[c].collateral \in Int
  BY <1>1, HeldRows DEF HeldOf, OpenOrder, OpenEntry
<1>6. Holdings'[c] = positions[c].collateral
  BY <1>1, <1>4, HeldRows DEF HeldOf, OpenEntry
<1>7. portfolio'.balance.reserved = portfolio.balance.reserved + (-amount) /\ amount \in Int
  BY <1>1, EndBooks, Booked
<1> HIDE DEF amount
<1>8. portfolio.balance.reserved \in Int
  BY <1>1 DEF TypeOK, Portfolio, Balance
<1>9. QED
  BY <1>3, <1>5, <1>6, <1>7, <1>8 DEF HoldingFollows

\* A fill turns the share of the reserve into cost, collateral or release.
LEMMA EntryHeld ==
  ASSUME IInv, IInv', NEW r \in FillRuns, NEW fill \in FillsOffered(filling[r]), NEW recheck,
         Commits(r, fill, recheck)
  PROVE  HoldingFollows(filling[r].c)
<1> DEFINE run == filling[r]
           c == run.c
           share == FillShare(run, fill)
           reserve == run.order.reserve
           after == FillStatus(run, fill, recheck)
           movement == FillMovement(run, fill, recheck)
           short == Direction[c] # "LONG"
           collateral == positions[c].collateral
<1>1. /\ TypeOK /\ TypeOK' /\ c \in Candidates /\ OrderFilled(run, fill, recheck)
      /\ OpenOrder(c) /\ orders[c].reserve = reserve
      /\ run.portfolio = portfolio /\ fill \in Fill
      /\ Direction[c] \in {"LONG", "SHORT"}
  BY CommitFacts, ExecutionAssumption DEF IInv
<1>2. /\ fill.fee \in Nat /\ share \in Int /\ reserve \in Int /\ movement \in Balance
      /\ collateral \in Int /\ portfolio.balance.reserved \in Int
  BY <1>1, FillTyped, FillMovementTyped DEF TypeOK, Order, Position, Portfolio, Balance
<1>3. \A d \in Candidates \ {c} : Holdings'[d] = Holdings[d]
  BY <1>1, HeldRows DEF OrderFilled
<1>4. portfolio'.balance.reserved = portfolio.balance.reserved + movement.reserved
  <2>1. BookOn(portfolio, movement)
    BY <1>1, CommitBooks
  <2> HIDE DEF movement
  <2>2. QED
    BY <1>1, <1>2, <2>1, Booked
<1>5. movement.reserved =
        -(IF after.order = "CANCELLED" THEN reserve - share ELSE 0)
          - (IF short THEN fill.fee ELSE share)
  BY <1>1, EntryMoves
<1>6. /\ after.order \in {"FILLED", "PARTIALLY_FILLED", "CANCELLED"}
      /\ after.order = "FILLED" => share = reserve
  BY DEF FillStatus, StatusAfterFill, FillShare, ReservedForFill
<1>7. Holdings[c] = reserve + collateral
  BY <1>1, HeldRows DEF HeldOf, OpenOrder, OpenEntry
<1>8. /\ orders'[c].status = after.order
      /\ orders'[c].reserve = IF after.order = "PARTIALLY_FILLED" THEN reserve - share ELSE 0
      /\ positions'[c].collateral = collateral + (IF short THEN share - fill.fee ELSE 0)
  BY <1>1 DEF OrderFilled, CollateralForFill
<1>9. Holdings'[c] = (IF after.order = "PARTIALLY_FILLED" THEN reserve - share ELSE 0)
                       + (collateral + (IF short THEN share - fill.fee ELSE 0))
  BY <1>1, <1>6, <1>8, HeldRows DEF HeldOf, OpenEntry
<1> HIDE DEF share, reserve, after, movement, short, collateral
<1>10. Holdings'[c] - Holdings[c] = movement.reserved
  BY <1>2, <1>5, <1>6, <1>7, <1>9
<1>11. QED
  BY <1>3, <1>4, <1>10 DEF HoldingFollows

\* An exit fill gives back the collateral it releases, the last one all of it.
LEMMA ExitHeld ==
  ASSUME IInv, IInv', MonitorFill
  PROVE  monitoring.c \in Candidates /\ HoldingFollows(monitoring.c)
<1> DEFINE c == monitoring.c
           p == positions[c]
           q == positions'[c]
<1>1. monitoring.at = "ordered" /\ TypeOK /\ UNCHANGED orders
  BY DEF MonitorFill, IInv
<1>2. PICK fill \in Fill : /\ MonitorFills(fill) /\ PositionReduced(fill)
                           /\ fill.quantity <= p.open /\ monitoring.portfolio = portfolio
  BY <1>1, ExitFacts, MonitoredIsClosable
<1>3. /\ c \in Candidates /\ Direction[c] \in {"LONG", "SHORT"} /\ Closable(p)
      /\ p = monitoring.position /\ p.status \in {"OPEN", "PARTIALLY_CLOSED"}
      /\ CandidateOK(c)
  BY <1>1, MonitoredIsClosable, ExecutionAssumption DEF IInv, CandidatesOK
<1> DEFINE movement == ExitMovement(Direction[c], p, fill)
           freed == ReleasedCollateral(Direction[c], p, fill)
<1>4. movement \in Balance /\ movement.reserved = -freed /\ freed \in Int
  BY <1>2, <1>3, ExitMovementTyped, ExitMoves
<1>5. portfolio'.balance.reserved = portfolio.balance.reserved + (-freed)
  <2>1. BookOn(portfolio, movement)
    BY <1>2, <1>3 DEF MonitorFills
  <2> HIDE DEF movement, freed
  <2>2. QED
    BY <1>1, <1>4, <2>1, Booked
<1>6. \A d \in Candidates \ {c} : Holdings'[d] = Holdings[d]
  BY <1>1, <1>2, HeldRows DEF PositionReduced
<1>7. orders[c].status \notin OpenEntry
  BY <1>3 DEF CandidateOK, Entered
<1>8. Holdings[c] = p.collateral /\ p.collateral \in Int
  BY <1>3, <1>7, HeldRows DEF HeldOf
<1>9. q.collateral = p.collateral - freed
  BY <1>2, <1>3 DEF PositionReduced
<1>10. Holdings'[c] = p.collateral - freed
  <2>1. Holdings'[c] = 0 + q.collateral
    BY <1>1, <1>3, <1>7, HeldRows DEF HeldOf
  <2> HIDE DEF freed
  <2>2. QED
    BY <1>4, <1>8, <1>9, <2>1
<1>11. portfolio.balance.reserved \in Int
  BY <1>1 DEF TypeOK, Portfolio, Balance
<1> HIDE DEF freed
<1>12. QED
  BY <1>3, <1>4, <1>5, <1>6, <1>8, <1>10, <1>11 DEF HoldingFollows

\* With one fill job at a time, no ended order and no closed position keeps any
\* reserved cash, and none is released twice.
THEOREM ReservesStayHeld == OneFillJob /\ Spec => []ReservesAreHeld
<1>1. Init => ReservesAddUp
  <2> SUFFICES ASSUME Init PROVE ReservesAddUp
    OBVIOUS
  <2>1. Holdings \in [Candidates -> Int] /\ \A c \in Candidates : Holdings[c] = 0
    BY DEF Init, Holdings, Held, OpenOrder, Live, NoOrder, NoPosition
  <2>2. portfolio.balance.reserved = 0
    BY DEF Init, FirstPortfolio, Movement
  <2>3. QED
    BY <2>1, <2>2, ZeroSum DEF ReservesAddUp
<1>2. SInv /\ ReservesAddUp /\ SInv' /\ [Next]_vars => ReservesAddUp'
  <2>1. CASE UNCHANGED vars
    BY <2>1 DEF vars, rows, ReservesAddUp, Holdings, Held, OpenOrder, Live
  <2> SUFFICES ASSUME SInv, ReservesAddUp, SInv', Next PROVE ReservesAddUp'
    BY <2>1
  <2>2. /\ IInv /\ IInv' /\ TypeOK /\ TypeOK' /\ RowStep
        /\ Holdings \in [Candidates -> Int] /\ Holdings' \in [Candidates -> Int]
    BY RowSteps, HeldRows DEF SInv, IInv
  <2>3. CASE Idle \/ \E r \in FillRuns : MarksOrder(r)
    <3>1. portfolio'.balance = portfolio.balance
      BY <2>2, <2>3, IdleBooksNothing
    <3>2. \A d \in Candidates : Held(d)' = Held(d)
      <4>1. CASE MonitorMark
        BY <2>2, <4>1 DEF MonitorMark, Held, OpenOrder, Live, TypeOK, Position
      <4>2. CASE \E r \in FillRuns : MarksOrder(r)
        BY <2>2, <4>2 DEF MarksOrder, Held, OpenOrder, Live, TypeOK, Order
      <4>3. CASE UNCHANGED <<orders, positions>>
        BY <4>3 DEF Held, OpenOrder, Live
      <4>4. QED
        BY <2>3, <4>1, <4>2, <4>3 DEF Idle, Rows, Locks, MonitorTrigger, MonitorOrder
    <3>3. QED
      BY <3>1, <3>2 DEF ReservesAddUp, Holdings
  <2>4. ASSUME NEW r \in CreateRuns, CreateCommit(r) PROVE ReservesAddUp'
    BY <2>2, <2>4, CreateFacts, CreateHeld, ReservedMoves
  <2>5. ASSUME NEW r \in FillRuns, Ends(r) PROVE ReservesAddUp'
    BY <2>2, <2>5, EndFacts, EndHeld, ReservedMoves
  <2>6. ASSUME NEW r \in FillRuns, NEW fill \in FillsOffered(filling[r]), NEW recheck,
               Commits(r, fill, recheck)
        PROVE  ReservesAddUp'
    BY <2>2, <2>6, CommitFacts, EntryHeld, ReservedMoves
  <2>7. CASE MonitorFill
    BY <2>2, <2>7, ExitHeld, ReservedMoves
  <2>8. QED
    BY <2>2, <2>3, <2>4, <2>5, <2>6, <2>7 DEF RowStep, Idle
<1>3. SInv /\ ReservesAddUp => ReservesAreHeld
  <2> SUFFICES ASSUME SInv, ReservesAddUp PROVE ReservesAreHeld
    OBVIOUS
  <2>1. ASSUME NEW c \in Candidates
        PROVE  /\ ~OpenOrder(c) => orders[c].reserve = 0
               /\ ~Live(c) => positions[c].collateral = 0
    BY DEF SInv, IInv, CandidatesOK, CandidateOK, Entered, Holding, OpenOrder, OpenEntry,
           Live, LivePosition
  <2>2. QED
    BY <2>1 DEF ReservesAreHeld, ReservesAddUp, Holdings
<1>4. QED
  BY <1>1, <1>2, <1>3, SingleFillerInvariant, PTL DEF Spec

----------------------------------------------------------------------------
(* The available cash                                                      *)

\* Prices within a band whose width the reserve of one unit covers, both fees of
\* a unit included; only a SHORT needs it.
Margin(low) ==
  /\ \A p \in Prices : FeePerUnit <= p
  /\ (\E c \in Candidates : Direction[c] = "SHORT") =>
       \A p \in Prices : low <= p /\ p + 2 * FeePerUnit <= low + ReservePerUnit

\* What is reserved, held as collateral and paid is proportional to the quantities.
Exact(low, c, o, p) ==
  /\ o.status \in OpenEntry => o.reserve = o.remaining * ReservePerUnit
  /\ Direction[c] = "SHORT" =>
       /\ p.collateral = p.open * (ReservePerUnit - FeePerUnit)
       /\ low * p.initial <= p.paid
AllExact(low) == \A c \in Candidates : Exact(low, c, orders[c], positions[c])

\* The invariant of a portfolio whose prices keep the margin.
MInv(low) == IInv /\ AllExact(low) /\ NoNegativeCash

\* The share of a reserve that is proportional to what remains is exact.
LEMMA ExactShare ==
  ASSUME NEW n \in Nat \ {0}, NEW q \in Nat \ {0}, q <= n, NEW k \in Nat
  PROVE  ReservedForFill(n * k, q, n) = q * k
<1>1. n * k * q = n * (q * k) /\ q * k \in Int
  OBVIOUS
<1>2. \A m \in Int : (n * m + n - 1) \div n = m
  OBVIOUS
<1>3. q = n => n * k = q * k
  OBVIOUS
<1>4. QED
  BY <1>1, <1>2, <1>3 DEF ReservedForFill, CeilDiv

\* So is the release of a collateral that is proportional to what is open.
LEMMA ExactRelease ==
  ASSUME NEW p, Closable(p), NEW fill \in Fill, fill.quantity <= p.open, NEW k \in Int,
         p.collateral = p.open * k
  PROVE  ReleasedCollateral("SHORT", p, fill) = fill.quantity * k
<1>1. p.open \in Nat \ {0} /\ p.initial \in Nat /\ fill.quantity \in Nat \ {0}
  BY DEF Closable, Position, Fill
<1>2. IsFinalClose(p, fill) => fill.quantity = p.open
  BY <1>1 DEF IsFinalClose
<1>3. (p.open * k) * fill.quantity = p.open * (fill.quantity * k) /\ fill.quantity * k \in Int
  BY <1>1
<1>4. \A n \in Nat \ {0}, m \in Int : (n * m) \div n = m
  OBVIOUS
<1>5. QED
  BY <1>1, <1>2, <1>3, <1>4 DEF ReleasedCollateral

\* Entry fills are offered at the candle's prices and charged by the unit.
LEMMA OfferPriced ==
  ASSUME NEW r \in FillRuns, NEW fill \in FillsOffered(filling[r])
  PROVE  fill.price \in Prices /\ fill.fee = fill.quantity * FeePerUnit
BY DEF FillsOffered

\* The share of an exact reserve is exact.
LEMMA EntryShare ==
  ASSUME NEW low \in Nat, MInv(low), NEW r \in FillRuns, NEW fill \in FillsOffered(filling[r]),
         NEW recheck, Commits(r, fill, recheck)
  PROVE  LET run == filling[r] IN
         /\ FillShare(run, fill) = fill.quantity * ReservePerUnit
         /\ run.order.reserve = run.order.remaining * ReservePerUnit
         /\ run.order.remaining \in Nat /\ fill.quantity \in Nat
         /\ fill.quantity <= run.order.remaining
<1> DEFINE run == filling[r]
           c == run.c
<1>1. /\ c \in Candidates /\ OpenOrder(c) /\ orders[c].reserve = run.order.reserve
      /\ orders[c].remaining = run.order.remaining
      /\ fill \in Fill /\ fill.quantity <= run.order.remaining
  BY CommitFacts DEF MInv
<1>2. run.order.reserve = run.order.remaining * ReservePerUnit
  BY <1>1 DEF MInv, AllExact, Exact, OpenOrder, OpenEntry
<1>3. run.order.remaining \in Nat \ {0} /\ fill.quantity \in Nat \ {0} /\ ReservePerUnit \in Nat
  BY <1>1, FillTyped, ExecutionAssumption DEF MInv, IInv, TypeOK, Order
<1>4. QED
  BY <1>1, <1>2, <1>3, ExactShare DEF FillShare

\* A fill keeps the amounts proportional, and it costs no more than its share.
LEMMA EntryExact ==
  ASSUME NEW low \in Nat, Margin(low), MInv(low), TypeOK',
         NEW r \in FillRuns, NEW fill \in FillsOffered(filling[r]), NEW recheck,
         Commits(r, fill, recheck)
  PROVE  AllExact(low)' /\ NoNegativeCash'
<1> DEFINE run == filling[r]
           c == run.c
           p == positions[c]
           q == positions'[c]
           share == FillShare(run, fill)
           kept == run.order.reserve - share
           movement == FillMovement(run, fill, recheck)
<1>1. /\ IInv /\ TypeOK /\ c \in Candidates /\ OrderFilled(run, fill, recheck)
      /\ run.portfolio = portfolio /\ fill \in Fill
      /\ Direction[c] \in {"LONG", "SHORT"} /\ Exact(low, c, orders[c], p)
  BY CommitFacts, ExecutionAssumption DEF MInv, IInv, AllExact
<1>2. /\ share = fill.quantity * ReservePerUnit
      /\ run.order.reserve = run.order.remaining * ReservePerUnit
      /\ run.order.remaining \in Nat /\ fill.quantity \in Nat
      /\ fill.quantity <= run.order.remaining
  BY EntryShare
<1>3. /\ ReservePerUnit \in Nat /\ FeePerUnit \in Nat /\ FeePerUnit < ReservePerUnit
      /\ fill.price \in Nat /\ fill.price \in Prices
      /\ fill.fee = fill.quantity * FeePerUnit
      /\ Notional(fill) = fill.quantity * fill.price
      /\ p.open \in Int /\ p.initial \in Nat /\ p.paid \in Nat /\ p.collateral \in Int
  BY <1>1, OfferPriced, ExecutionAssumption DEF Notional, Fill, TypeOK, Position
<1>4. kept = (run.order.remaining - fill.quantity) * ReservePerUnit /\ kept \in Nat
  <2> DEFINE left == run.order.remaining - fill.quantity
  <2>1. left \in Nat /\ kept = left * ReservePerUnit
    BY <1>2, <1>3
  <2> HIDE DEF left
  <2>2. left * ReservePerUnit \in Nat
    BY <1>3, <2>1
  <2>3. QED
    BY <2>1, <2>2 DEF left
<1>5. Exact(low, c, orders'[c], q)
  <2>1. orders'[c].status \in OpenEntry =>
          orders'[c].reserve = orders'[c].remaining * ReservePerUnit
    <3>1. orders'[c].status \in OpenEntry =>
            /\ orders'[c].reserve = kept
            /\ orders'[c].remaining = run.order.remaining - fill.quantity
      BY <1>1 DEF OrderFilled, OpenEntry, FillStatus, StatusAfterFill
    <3>2. QED
      BY <1>4, <3>1
  <2>2. ASSUME Direction[c] = "SHORT"
        PROVE  q.collateral = q.open * (ReservePerUnit - FeePerUnit)
    <3> DEFINE k == ReservePerUnit - FeePerUnit
    <3>1. /\ q.collateral = p.collateral + (share - fill.fee) /\ q.open = p.open + fill.quantity
          /\ p.collateral = p.open * k
      BY <1>1, <2>2 DEF OrderFilled, CollateralForFill, Exact
    <3>2. share - fill.fee = fill.quantity * k
      BY <1>2, <1>3
    <3>3. k \in Int
      BY <1>3
    <3> HIDE DEF k
    <3>4. (p.open + fill.quantity) * k = p.open * k + fill.quantity * k
      BY <1>2, <1>3, <3>3
    <3>5. QED
      BY <3>1, <3>2, <3>4 DEF k
  <2>3. ASSUME Direction[c] = "SHORT"
        PROVE  low * q.initial <= q.paid
    <3>1. /\ q.initial = p.initial + fill.quantity /\ q.paid = p.paid + Notional(fill)
          /\ low * p.initial <= p.paid
      BY <1>1, <2>3 DEF OrderFilled, Exact
    <3>2. low <= fill.price
      BY <1>1, <1>3, <2>3 DEF Margin
    <3>3. low * fill.quantity <= fill.quantity * fill.price
      BY <1>2, <1>3, <3>2
    <3>4. /\ low * (p.initial + fill.quantity) = low * p.initial + low * fill.quantity
          /\ low * p.initial \in Int /\ low * fill.quantity \in Int
          /\ fill.quantity * fill.price \in Int
      BY <1>2, <1>3
    <3>5. QED
      BY <1>3, <3>1, <3>3, <3>4
  <2>4. QED
    BY <2>1, <2>2, <2>3 DEF Exact
<1>6. \A d \in Candidates \ {c} : Exact(low, d, orders'[d], positions'[d])
  BY <1>1 DEF OrderFilled, MInv, AllExact
<1>7. AllExact(low)'
  BY <1>1, <1>5, <1>6 DEF AllExact
<1>8. movement.available >= 0
  <2> DEFINE back == IF FillStatus(run, fill, recheck).order = "CANCELLED" THEN kept ELSE 0
  <2>1. back \in Nat
    BY <1>4
  <2>2. movement.available =
          back + (IF Direction[c] = "LONG" THEN share - Notional(fill) - fill.fee ELSE 0)
    BY <1>1, EntryMoves
  <2>3. Direction[c] = "LONG" => Notional(fill) + fill.fee <= share
    BY DEF Commits, CommitFill, RequiredReserve, FillShare
  <2>4. Notional(fill) \in Int /\ fill.fee \in Int /\ share \in Int
    BY <1>2, <1>3
  <2> HIDE DEF back, kept, share, movement
  <2>5. QED
    BY <2>1, <2>2, <2>3, <2>4
<1>9. portfolio'.balance.available = portfolio.balance.available + movement.available
  <2>1. BookOn(portfolio, movement) /\ movement \in Balance
    BY <1>1, CommitBooks, FillMovementTyped
  <2> HIDE DEF movement
  <2>2. QED
    BY <1>1, <2>1, Booked
<1>10. portfolio.balance.available \in Int /\ movement.available \in Int
  BY <1>1, FillMovementTyped DEF TypeOK, Portfolio, Balance
<1> HIDE DEF movement
<1>11. NoNegativeCash'
  BY <1>8, <1>9, <1>10 DEF NoNegativeCash, MInv
<1>12. QED
  BY <1>7, <1>11

\* An exit keeps the amounts proportional, and it pays no less than its fee: a
\* SHORT's loss and both fees are covered by the collateral of the unit.
LEMMA ExitExact ==
  ASSUME NEW low \in Nat, Margin(low), MInv(low), TypeOK', MonitorFill
  PROVE  AllExact(low)' /\ NoNegativeCash'
<1> DEFINE c == monitoring.c
           p == positions[c]
           q == positions'[c]
           k == ReservePerUnit - FeePerUnit
<1>1. monitoring.at = "ordered" /\ IInv /\ TypeOK /\ UNCHANGED orders
  BY DEF MonitorFill, MInv, IInv
<1>2. PICK fill \in Fill : /\ MonitorFills(fill) /\ PositionReduced(fill)
                           /\ fill.quantity <= p.open /\ monitoring.portfolio = portfolio
                           /\ fill.fee = fill.quantity * FeePerUnit /\ fill.price \in Prices
  BY <1>1, ExitFacts, MonitoredIsClosable
<1>3. /\ c \in Candidates /\ Direction[c] \in {"LONG", "SHORT"} /\ Closable(p)
      /\ p = monitoring.position /\ Exact(low, c, orders[c], p)
  BY <1>1, MonitoredIsClosable, ExecutionAssumption DEF MInv, AllExact
<1>4. /\ k \in Nat /\ ReservePerUnit \in Nat /\ FeePerUnit \in Nat
      /\ fill.quantity \in Nat /\ fill.price \in Nat
      /\ p.open \in Nat /\ p.initial \in Nat \ {0} /\ p.paid \in Nat
  BY <1>3, ExecutionAssumption DEF Fill, Closable, Position
<1> DEFINE movement == ExitMovement(Direction[c], p, fill)
           freed == ReleasedCollateral(Direction[c], p, fill)
           average == AverageEntryPrice(p)
<1>5. /\ movement \in Balance /\ freed \in Int /\ average \in Nat
      /\ movement.available =
           (IF Direction[c] = "LONG" THEN Notional(fill)
            ELSE freed + fill.quantity * (average - fill.price)) - fill.fee
  BY <1>2, <1>3, ExitMovementTyped, ExitMoves
<1>6. Direction[c] = "SHORT" => freed = fill.quantity * k
  BY <1>2, <1>3, <1>4, ExactRelease DEF Exact
<1>7. Exact(low, c, orders'[c], q)
  <2>1. orders'[c] = orders[c] /\ q.open = p.open - fill.quantity /\ q.initial = p.initial
        /\ q.paid = p.paid /\ q.collateral = p.collateral - freed
    BY <1>1, <1>2, <1>3 DEF PositionReduced
  <2>2. ASSUME Direction[c] = "SHORT" PROVE q.collateral = q.open * k
    <3>1. p.collateral = p.open * k
      BY <1>3, <2>2 DEF Exact
    <3> HIDE DEF k, freed
    <3>2. (p.open - fill.quantity) * k = p.open * k - fill.quantity * k
      BY <1>4
    <3>3. QED
      BY <1>6, <2>1, <2>2, <3>1, <3>2
  <2>3. QED
    BY <1>3, <2>1, <2>2 DEF Exact
<1>8. \A d \in Candidates \ {c} : Exact(low, d, orders'[d], positions'[d])
  BY <1>1, <1>2 DEF PositionReduced, MInv, AllExact
<1>9. AllExact(low)'
  BY <1>3, <1>7, <1>8 DEF AllExact
<1>10. Direction[c] = "LONG" => movement.available >= 0
  <2>1. FeePerUnit <= fill.price
    BY <1>2 DEF Margin
  <2>2. fill.quantity * FeePerUnit <= fill.quantity * fill.price
    BY <1>4, <2>1
  <2>3. fill.quantity * FeePerUnit \in Int /\ fill.quantity * fill.price \in Int
    BY <1>4
  <2> HIDE DEF movement
  <2>4. QED
    BY <1>2, <1>5, <2>2, <2>3 DEF Notional
<1>11. Direction[c] = "SHORT" => movement.available >= 0
  <2> SUFFICES ASSUME Direction[c] = "SHORT" PROVE movement.available >= 0
    OBVIOUS
  <2>1. low <= average
    <3>1. low * p.initial <= p.paid
      BY <1>3 DEF Exact
    <3>2. QED
      BY <1>4, <3>1, Division DEF AverageEntryPrice
  <2>2. fill.price + 2 * FeePerUnit <= low + ReservePerUnit
    BY <1>2, <1>3 DEF Margin
  <2> DEFINE unit == k + (average - fill.price) - FeePerUnit
  <2>3. unit \in Nat
    <3> HIDE DEF average
    <3>1. QED
      BY <1>4, <1>5, <2>1, <2>2
  <2>4. movement.available
          = fill.quantity * k + fill.quantity * (average - fill.price) - fill.quantity * FeePerUnit
    <3> DEFINE gross == fill.quantity * (average - fill.price)
    <3>1. movement.available = (freed + gross) - fill.fee
      BY <1>5
    <3> HIDE DEF movement, freed, k, average, gross
    <3>2. gross \in Int /\ freed \in Int /\ fill.quantity * FeePerUnit \in Int
      BY <1>4, <1>5 DEF gross
    <3>3. movement.available = freed + gross - fill.quantity * FeePerUnit
      BY <1>2, <3>1, <3>2
    <3>4. movement.available = fill.quantity * k + gross - fill.quantity * FeePerUnit
      BY <1>6, <3>3
    <3>5. QED
      BY <3>4 DEF gross
  <2>5. movement.available = fill.quantity * unit
    <3> HIDE DEF movement, k, average
    <3>1. k \in Int /\ average \in Int /\ FeePerUnit \in Int /\ fill.price \in Int
          /\ fill.quantity \in Int
      BY <1>4, <1>5
    <3>2. fill.quantity * unit
            = fill.quantity * k + fill.quantity * (average - fill.price)
                - fill.quantity * FeePerUnit
      BY <3>1
    <3>3. QED
      BY <2>4, <3>2
  <2> HIDE DEF unit, movement
  <2>6. QED
    BY <1>4, <2>3, <2>5
<1>12. portfolio'.balance.available = portfolio.balance.available + movement.available
  <2>1. BookOn(portfolio, movement)
    BY <1>2, <1>3 DEF MonitorFills
  <2> HIDE DEF movement
  <2>2. QED
    BY <1>1, <1>5, <2>1, Booked
<1>13. portfolio.balance.available \in Int /\ movement.available \in Int
  BY <1>1, <1>5 DEF TypeOK, Portfolio, Balance
<1> HIDE DEF movement
<1>14. NoNegativeCash'
  BY <1>3, <1>10, <1>11, <1>12, <1>13 DEF NoNegativeCash, MInv
<1>15. QED
  BY <1>9, <1>14

\* No path makes the available cash negative, for any number of order and fill
\* runs: a LONG portfolio whenever a unit's fee is at most its price, one with
\* SHORT positions while prices stay in a band the reserve of a unit covers.  (A
\* price that leaves the band may: the code books the loss of a SHORT beyond its
\* collateral.)
THEOREM CashStaysPositive ==
  ASSUME NEW low \in Nat, Margin(low)
  PROVE  Spec => []NoNegativeCash
<1>1. Init => AllExact(low) /\ NoNegativeCash
  BY ExecutionAssumption
  DEF Init, AllExact, Exact, OpenEntry, NoNegativeCash, NoOrder, NoPosition, FirstPortfolio,
      Movement
<1>2. MInv(low) /\ IInv' /\ [Next]_vars => AllExact(low)' /\ NoNegativeCash'
  <2>1. CASE UNCHANGED vars
    BY <2>1 DEF vars, rows, MInv, AllExact, NoNegativeCash
  <2> SUFFICES ASSUME MInv(low), IInv', Next PROVE AllExact(low)' /\ NoNegativeCash'
    BY <2>1
  <2>2. /\ IInv /\ TypeOK /\ TypeOK' /\ RowStep /\ AllExact(low) /\ NoNegativeCash
        /\ portfolio.balance.available \in Int
    BY RowSteps DEF MInv, IInv, TypeOK, Portfolio, Balance
  <2>3. ASSUME \A d \in Candidates :
                 /\ orders'[d].status \in OpenEntry =>
                      /\ orders[d].status \in OpenEntry
                      /\ orders'[d].reserve = orders[d].reserve
                      /\ orders'[d].remaining = orders[d].remaining
                 /\ positions'[d].collateral = positions[d].collateral
                 /\ positions'[d].open = positions[d].open
                 /\ positions'[d].initial = positions[d].initial
                 /\ positions'[d].paid = positions[d].paid
        PROVE  AllExact(low)'
    BY <2>2, <2>3 DEF AllExact, Exact
  <2>4. CASE Idle \/ \E r \in FillRuns : MarksOrder(r)
    <3>1. NoNegativeCash'
      BY <2>2, <2>4, IdleBooksNothing DEF NoNegativeCash
    <3>2. CASE UNCHANGED <<orders, positions>>
      BY <2>3, <3>1, <3>2
    <3>3. CASE MonitorMark
      BY <2>2, <2>3, <3>1, <3>3 DEF MonitorMark, TypeOK, Position
    <3>4. CASE \E r \in FillRuns : MarksOrder(r)
      BY <2>2, <2>3, <3>1, <3>4 DEF MarksOrder, TypeOK, Order
    <3>5. QED
      BY <2>4, <3>2, <3>3, <3>4 DEF Idle, Rows, Locks, MonitorTrigger, MonitorOrder
  <2>5. ASSUME NEW r \in CreateRuns, CreateCommit(r)
        PROVE  AllExact(low)' /\ NoNegativeCash'
    <3> DEFINE c == creating[r].c
    <3>1. /\ c \in Candidates /\ BookOn(portfolio, ReserveMovement(Reserve(c)))
          /\ Reserve(c) <= portfolio.balance.available
          /\ orders'[c].remaining = Quantity[c] /\ orders'[c].reserve = Reserve(c)
          /\ \A d \in Candidates \ {c} : orders'[d] = orders[d]
          /\ UNCHANGED positions
      BY <2>2, <2>5, CreateFacts DEF CanReserve
    <3>2. AllExact(low)'
      BY <2>2, <3>1 DEF AllExact, Exact, Reserve
    <3>3. portfolio'.balance.available = portfolio.balance.available + (-Reserve(c))
          /\ Reserve(c) \in Int
      BY <2>2, <3>1, CreateBooks, Booked
    <3>4. NoNegativeCash'
      BY <2>2, <3>1, <3>3 DEF NoNegativeCash
    <3>5. QED
      BY <3>2, <3>4
  <2>6. ASSUME NEW r \in FillRuns, Ends(r)
        PROVE  AllExact(low)' /\ NoNegativeCash'
    <3>1. PICK status \in {"EXPIRED", "CANCELLED"} : OrderEnded(filling[r], status)
      BY <2>2, <2>6, EndEffect DEF Ends, OrderStatuses
    <3>2. AllExact(low)'
      <4>1. \A d \in Candidates :
              positions'[d] \in {positions[d], [positions[d] EXCEPT !.status = "OPEN"]}
        BY <3>1 DEF OrderEnded
      <4>2. \A d \in Candidates :
              orders'[d].status \in OpenEntry => orders'[d] = orders[d]
        BY <3>1 DEF OrderEnded, OpenEntry
      <4>3. \A d \in Candidates : positions[d] \in Position
        BY <2>2 DEF TypeOK
      <4>4. QED
        BY <2>3, <4>1, <4>2, <4>3 DEF Position
    <3>3. NoNegativeCash'
      <4> DEFINE amount == filling[r].order.reserve
      <4>1. portfolio'.balance.available = portfolio.balance.available + amount
            /\ amount \in Int /\ 0 < amount
        BY <2>2, <2>6, EndBooks, Booked
      <4> HIDE DEF amount
      <4>2. QED
        BY <2>2, <4>1 DEF NoNegativeCash
    <3>4. QED
      BY <3>2, <3>3
  <2>7. ASSUME NEW r \in FillRuns, NEW fill \in FillsOffered(filling[r]), NEW recheck,
               Commits(r, fill, recheck)
        PROVE  AllExact(low)' /\ NoNegativeCash'
    BY <2>2, <2>7, EntryExact
  <2>8. CASE MonitorFill
    BY <2>2, <2>8, ExitExact
  <2>9. QED
    BY <2>2, <2>4, <2>5, <2>6, <2>7, <2>8 DEF RowStep, Idle
<1>3. IInv /\ AllExact(low) /\ NoNegativeCash => MInv(low)
  BY DEF MInv
<1>4. QED
  BY <1>1, <1>2, <1>3, Invariant, PTL DEF Spec
=============================================================================
