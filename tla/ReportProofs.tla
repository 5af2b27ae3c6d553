----------------------------- MODULE ReportProofs ------------------------------
(***************************************************************************)
(* What is shown of a run, for any datasets and any replies of the model:  *)
(* the reports of decision agent, gateway and execution layer tell one     *)
(* story, in cases and in money; the scores are sound in any batch of up   *)
(* to 10000 cases; and the pages of the case list are the list.            *)
(*                                                                         *)
(* Reports are sums over sets of cases and pages are sequences joined, so  *)
(* the argument is by induction: over the subsets of a finite set, or from *)
(* 1 up. Each induction is about one set of subsets or of numbers, which   *)
(* is everything because nothing minimal can be outside it.                *)
(***************************************************************************)
EXTENDS CaseProofs, SequenceTheorems, WellFoundedInduction

------------------------------------------------------------------------------
(* Sums over finite sets *)

\* Induction over the subsets of a finite set, for a property given by its extension.
LEMMA SubsetInduction ==
  ASSUME NEW U, IsFiniteSet(U), NEW C, {} \in C,
         \A T \in SUBSET U : T # {} /\ (\A x \in T : T \ {x} \in C) => T \in C
  PROVE  U \in C
<1> DEFINE B == (SUBSET U) \ C
           R == StrictSubsetOrdering(U)
<1>1. IsWellFoundedOn(R, SUBSET U)
  BY FS_StrictSubsetOrderingWellFounded, FS_FiniteSubsetsOfFinite
<1>2. ASSUME B # {} PROVE FALSE
  <2>1. PICK T \in B : \A S \in B : <<S, T>> \notin R
    <3> HIDE DEF B, R
    <3>1. B \subseteq SUBSET U
      BY DEF B
    <3> QED
      BY <1>1, <1>2, <3>1, WFMin
  <2>2. ASSUME NEW x \in T PROVE T \ {x} \in C
    <3>1. <<T \ {x}, T>> \in R
      BY <2>1, <2>2 DEF StrictSubsetOrdering
    <3> QED
      BY <2>1, <3>1
  <2> QED
    BY <2>1, <2>2
<1> QED
  BY <1>2

Pick(S) == CHOOSE x \in S : TRUE

\* Pick is any element, the same one every time.
LEMMA PickIsElement == \A S : S # {} => Pick(S) \in S
BY DEF Pick

\* g is the sum of f over each subset of U, in the order Pick takes the elements.
Sums(f, U, g) ==
  g = [S \in SUBSET U |-> IF S = {} THEN 0 ELSE f[Pick(S)] + g[S \ {Pick(S)}]]

SumOver(f, U) == (CHOOSE g : Sums(f, U, g))[U]

\* The recursion has a solution: it is extended from the subsets of one size to those
\* of the next.
LEMMA SumsExist ==
  ASSUME NEW U, IsFiniteSet(U), NEW f
  PROVE  \E g : Sums(f, U, g)
<1> DEFINE Upto(T) == {S \in SUBSET U : Cardinality(S) <= Cardinality(T)}
           Part(T, g) == g = [S \in Upto(T) |-> IF S = {} THEN 0
                                                ELSE f[Pick(S)] + g[S \ {Pick(S)}]]
           C == {T \in SUBSET U : \E g : Part(T, g)}
<1>1. \A S \in SUBSET U : IsFiniteSet(S) /\ Cardinality(S) \in Nat
  BY FS_Subset, FS_CardinalityType
<1>2. \A S \in SUBSET U : Cardinality(S) = 0 <=> S = {}
  BY <1>1, FS_EmptySet
<1>3. \A S \in SUBSET U : \A x \in S : Cardinality(S \ {x}) = Cardinality(S) - 1
  BY <1>1, FS_RemoveElement
<1>4. {} \in C
  <2> DEFINE g == [S \in Upto({}) |-> 0]
  <2>1. \A S \in Upto({}) : S = {}
    BY <1>1, <1>2
  <2>2. Part({}, g)
    BY <2>1
  <2> QED
    BY <2>2
<1>5. ASSUME NEW T \in SUBSET U, T # {}, \A x \in T : T \ {x} \in C
      PROVE  T \in C
  <2>1. PICK x : x \in T
    BY <1>5
  <2>2. PICK g : Part(T \ {x}, g)
    BY <1>5, <2>1
  <2> DEFINE h == [S \in Upto(T) |-> IF S = {} THEN 0 ELSE f[Pick(S)] + g[S \ {Pick(S)}]]
  <2>3. ASSUME NEW S \in Upto(T), S # {}
        PROVE  h[S \ {Pick(S)}] = g[S \ {Pick(S)}]
    <3> DEFINE R == S \ {Pick(S)}
    <3>1. R \in SUBSET U /\ Cardinality(R) = Cardinality(S) - 1
      BY <1>3, <2>3, PickIsElement
    <3>2. /\ Cardinality(T \ {x}) = Cardinality(T) - 1
          /\ Cardinality(S) \in Nat /\ Cardinality(T) \in Nat /\ Cardinality(S) <= Cardinality(T)
      BY <1>1, <1>3, <2>1
    <3>3. R \in Upto(T) /\ R \in Upto(T \ {x})
      BY <3>1, <3>2
    <3> QED
      BY <2>2, <3>3
  <2>4. Part(T, h)
    BY <2>3, Zenon
  <2> QED
    BY <2>4
<1>6. U \in C
  <2> HIDE DEF C
  <2> QED
    BY <1>4, <1>5, SubsetInduction
<1>7. Upto(U) = SUBSET U
  BY FS_Subset
<1> QED
  BY <1>6, <1>7 DEF Sums

\* Two solutions agree where both are defined.
LEMMA SumsAgree ==
  ASSUME NEW U, IsFiniteSet(U), NEW V, U \subseteq V, NEW f, NEW g, NEW h,
         Sums(f, U, g), Sums(f, V, h)
  PROVE  g[U] = h[U]
<1> DEFINE C == {S \in SUBSET U : g[S] = h[S]}
<1>1. {} \in C
  BY DEF Sums
<1>2. ASSUME NEW T \in SUBSET U, T # {}, \A x \in T : T \ {x} \in C
      PROVE  T \in C
  <2>1. Pick(T) \in T /\ T \in SUBSET V
    BY <1>2, PickIsElement
  <2>2. g[T] = f[Pick(T)] + g[T \ {Pick(T)}] /\ h[T] = f[Pick(T)] + h[T \ {Pick(T)}]
    BY <1>2, <2>1 DEF Sums
  <2> QED
    BY <1>2, <2>1, <2>2
<1>3. U \in C
  <2> HIDE DEF C
  <2> QED
    BY <1>1, <1>2, SubsetInduction
<1> QED
  BY <1>3

\* A sum is that of the element picked first and of the rest.
LEMMA SumUnfolds ==
  ASSUME NEW U, IsFiniteSet(U), NEW f
  PROVE  SumOver(f, U) = IF U = {} THEN 0 ELSE f[Pick(U)] + SumOver(f, U \ {Pick(U)})
<1> DEFINE g == CHOOSE g : Sums(f, U, g)
           R == U \ {Pick(U)}
           h == CHOOSE h : Sums(f, R, h)
<1>1. Sums(f, U, g)
  BY SumsExist
<1>2. IsFiniteSet(R)
  BY FS_Subset
<1>3. Sums(f, R, h)
  BY <1>2, SumsExist
<1>4. SumOver(f, U) = g[U] /\ SumOver(f, R) = h[R]
  BY DEF SumOver
<1> HIDE DEF g, h
<1>5. h[R] = g[R]
  BY <1>1, <1>2, <1>3, SumsAgree
<1> QED
  BY <1>1, <1>4, <1>5 DEF Sums

\* Sums of integers are integers.
LEMMA SumIsAnInteger ==
  ASSUME NEW V, NEW f \in [V -> Int], NEW U \in SUBSET V, IsFiniteSet(U)
  PROVE  SumOver(f, U) \in Int
<1> DEFINE C == {S \in SUBSET U : SumOver(f, S) \in Int}
<1>0. \A S \in SUBSET U : IsFiniteSet(S)
  BY FS_Subset
<1>1. {} \in C
  BY <1>0, SumUnfolds
<1>2. ASSUME NEW T \in SUBSET U, T # {}, \A x \in T : T \ {x} \in C
      PROVE  T \in C
  <2>1. Pick(T) \in T /\ SumOver(f, T) = f[Pick(T)] + SumOver(f, T \ {Pick(T)})
    BY <1>0, <1>2, PickIsElement, SumUnfolds
  <2>2. f[Pick(T)] \in Int /\ SumOver(f, T \ {Pick(T)}) \in Int
    BY <1>2, <2>1
  <2>3. SumOver(f, T) \in Int
    BY <2>1, <2>2
  <2> QED
    BY <2>3
<1>3. U \in C
  <2> HIDE DEF C
  <2> QED
    BY <1>1, <1>2, SubsetInduction
<1> QED
  BY <1>3

\* Any element may be taken first.
LEMMA SumTakesAnyElement ==
  ASSUME NEW V, NEW f \in [V -> Int], NEW U \in SUBSET V, IsFiniteSet(U), NEW x \in U
  PROVE  SumOver(f, U) = f[x] + SumOver(f, U \ {x})
<1> DEFINE C == {S \in SUBSET U : \A y \in S : SumOver(f, S) = f[y] + SumOver(f, S \ {y})}
<1>0. \A S \in SUBSET U : IsFiniteSet(S) /\ SumOver(f, S) \in Int
  BY FS_Subset, SumIsAnInteger
<1>1. {} \in C
  OBVIOUS
<1>2. ASSUME NEW T \in SUBSET U, T # {}, \A y \in T : T \ {y} \in C
      PROVE  T \in C
  <2> DEFINE p == Pick(T)
  <2>1. p \in T /\ SumOver(f, T) = f[p] + SumOver(f, T \ {p})
    BY <1>0, <1>2, PickIsElement, SumUnfolds
  <2> HIDE DEF p
  <2>2. ASSUME NEW y \in T, y # p
        PROVE  SumOver(f, T) = f[y] + SumOver(f, T \ {y})
    <3> DEFINE R == (T \ {p}) \ {y}
    <3>1. SumOver(f, T \ {p}) = f[y] + SumOver(f, R)
      BY <1>2, <2>1, <2>2
    <3>2. SumOver(f, T \ {y}) = f[p] + SumOver(f, R)
      <4>1. (T \ {y}) \ {p} = R
        OBVIOUS
      <4> QED
        BY <1>2, <2>1, <2>2, <4>1
    <3>3. SumOver(f, R) \in Int /\ f[p] \in Int /\ f[y] \in Int
      BY <1>0, <2>1
    <3> HIDE DEF R
    <3>4. f[p] + (f[y] + SumOver(f, R)) = f[y] + (f[p] + SumOver(f, R))
      BY <3>3
    <3> QED
      BY <2>1, <3>1, <3>2, <3>4
  <2>3. \A y \in T : SumOver(f, T) = f[y] + SumOver(f, T \ {y})
    BY <2>1, <2>2
  <2> QED
    BY <2>3
<1>3. U \in C
  <2> HIDE DEF C
  <2> QED
    BY <1>1, <1>2, SubsetInduction
<1> QED
  BY <1>3

\* The sum over two disjoint sets is that of both sums.
LEMMA SumOfDisjointUnion ==
  ASSUME NEW V, NEW f \in [V -> Int], NEW U \in SUBSET V, NEW W \in SUBSET V,
         IsFiniteSet(U), IsFiniteSet(W), U \cap W = {}
  PROVE  SumOver(f, U \cup W) = SumOver(f, U) + SumOver(f, W)
<1> DEFINE C == {S \in SUBSET U : SumOver(f, S \cup W) = SumOver(f, S) + SumOver(f, W)}
<1>0. \A S \in SUBSET U : /\ IsFiniteSet(S) /\ SumOver(f, S) \in Int
                          /\ IsFiniteSet(S \cup W) /\ SumOver(f, S \cup W) \in Int
  BY FS_Subset, FS_Union, SumIsAnInteger
<1>w. SumOver(f, W) \in Int
  BY SumIsAnInteger
<1>1. {} \in C
  <2>1. SumOver(f, {}) = 0 /\ {} \cup W = W
    BY FS_EmptySet, SumUnfolds
  <2> QED
    BY <1>w, <2>1
<1>2. ASSUME NEW T \in SUBSET U, T # {}, \A y \in T : T \ {y} \in C
      PROVE  T \in C
  <2>1. PICK y : y \in T
    BY <1>2
  <2>2. (T \cup W) \ {y} = (T \ {y}) \cup W
    BY <2>1
  <2>3. SumOver(f, T \cup W) = f[y] + SumOver(f, (T \ {y}) \cup W)
    <3> DEFINE A == T \cup W
    <3>1. A \in SUBSET V /\ y \in A /\ IsFiniteSet(A)
      BY <1>0, <2>1
    <3> HIDE DEF A
    <3>2. SumOver(f, A) = f[y] + SumOver(f, A \ {y})
      BY <3>1, SumTakesAnyElement
    <3> QED
      BY <2>2, <3>2 DEF A
  <2>4. SumOver(f, T) = f[y] + SumOver(f, T \ {y})
    <3>1. T \in SUBSET V /\ IsFiniteSet(T)
      BY <1>0
    <3> QED
      BY <2>1, <3>1, SumTakesAnyElement
  <2>5. SumOver(f, (T \ {y}) \cup W) = SumOver(f, T \ {y}) + SumOver(f, W)
    BY <1>2, <2>1
  <2>6. f[y] \in Int /\ SumOver(f, T \ {y}) \in Int
    BY <1>0, <2>1
  <2>7. SumOver(f, T \cup W) = SumOver(f, T) + SumOver(f, W)
    BY <1>w, <2>3, <2>4, <2>5, <2>6
  <2> QED
    BY <2>7
<1>3. U \in C
  <2> HIDE DEF C
  <2> QED
    BY <1>1, <1>2, SubsetInduction
<1> QED
  BY <1>3

\* Sums of naturals are naturals.
LEMMA SumOfNaturals ==
  ASSUME NEW V, NEW f \in [V -> Nat], NEW U \in SUBSET V, IsFiniteSet(U)
  PROVE  SumOver(f, U) \in Nat
<1> DEFINE C == {S \in SUBSET U : SumOver(f, S) \in Nat}
<1>0. \A S \in SUBSET U : IsFiniteSet(S)
  BY FS_Subset
<1>1. {} \in C
  BY <1>0, SumUnfolds
<1>2. ASSUME NEW T \in SUBSET U, T # {}, \A x \in T : T \ {x} \in C
      PROVE  T \in C
  <2>1. Pick(T) \in T /\ SumOver(f, T) = f[Pick(T)] + SumOver(f, T \ {Pick(T)})
    BY <1>0, <1>2, PickIsElement, SumUnfolds
  <2>2. f[Pick(T)] \in Nat /\ SumOver(f, T \ {Pick(T)}) \in Nat
    BY <1>2, <2>1
  <2>3. SumOver(f, T) \in Nat
    BY <2>1, <2>2
  <2> QED
    BY <2>3
<1>3. U \in C
  <2> HIDE DEF C
  <2> QED
    BY <1>1, <1>2, SubsetInduction
<1> QED
  BY <1>3

\* Only zeros add up to zero.
LEMMA SumOfZeros ==
  ASSUME NEW f, NEW U, IsFiniteSet(U), \A x \in U : f[x] = 0
  PROVE  SumOver(f, U) = 0
<1> DEFINE C == {S \in SUBSET U : SumOver(f, S) = 0}
<1>0. \A S \in SUBSET U : IsFiniteSet(S)
  BY FS_Subset
<1>1. {} \in C
  BY <1>0, SumUnfolds
<1>2. ASSUME NEW T \in SUBSET U, T # {}, \A x \in T : T \ {x} \in C
      PROVE  T \in C
  <2>1. Pick(T) \in T /\ SumOver(f, T) = f[Pick(T)] + SumOver(f, T \ {Pick(T)})
    BY <1>0, <1>2, PickIsElement, SumUnfolds
  <2>2. f[Pick(T)] = 0 /\ SumOver(f, T \ {Pick(T)}) = 0
    BY <1>2, <2>1
  <2> QED
    BY <2>1, <2>2
<1>3. U \in C
  <2> HIDE DEF C
  <2> QED
    BY <1>1, <1>2, SubsetInduction
<1> QED
  BY <1>3

------------------------------------------------------------------------------
(* Amounts *)

Amounts(cases) == [i \in DOMAIN cases |-> cases[i].amount]

\* The fold of the reports is the sum of the amounts.
LEMMA AmountIsASum ==
  ASSUME NEW cases, NEW I \in SUBSET DOMAIN cases, IsFiniteSet(I)
  PROVE  AmountOf(cases, I) = SumOver(Amounts(cases), I)
<1> DEFINE Recursion(g) ==
             g = [S \in SUBSET I |-> IF S = {} THEN 0
                    ELSE cases[CHOOSE x \in S : TRUE].amount + g[S \ {CHOOSE x \in S : TRUE}]]
           g == CHOOSE g : Recursion(g)
           h == CHOOSE h : Sums(Amounts(cases), I, h)
<1>1. AmountOf(cases, I) = g[I]
  BY DEF AmountOf, MapThenSumSet, MapThenFoldSet
<1>2. ASSUME NEW k
      PROVE  Recursion(k) <=> Sums(Amounts(cases), I, k)
  <2>1. \A S \in SUBSET I : S # {} => Amounts(cases)[Pick(S)] = cases[Pick(S)].amount
    BY PickIsElement DEF Amounts
  <2> QED
    BY <2>1 DEF Sums, Pick
<1>3. Sums(Amounts(cases), I, h)
  BY SumsExist
<1>4. Recursion(g)
  <2> HIDE DEF Recursion
  <2> QED
    BY <1>2, <1>3
<1>5. Sums(Amounts(cases), I, g)
  BY <1>2, <1>4
<1>6. SumOver(Amounts(cases), I) = h[I]
  BY DEF SumOver
<1> HIDE DEF g, h
<1>7. g[I] = h[I]
  BY <1>3, <1>5, SumsAgree
<1> QED
  BY <1>1, <1>6, <1>7

\* Every case has an amount, a natural one.
Valued(cases) == \A i \in DOMAIN cases : cases[i].amount \in Nat

\* Any part of the cases has a natural amount.
LEMMA AmountIsNatural ==
  ASSUME NEW cases, Valued(cases), NEW I \in SUBSET DOMAIN cases, IsFiniteSet(I)
  PROVE  AmountOf(cases, I) \in Nat
<1>1. Amounts(cases) \in [DOMAIN cases -> Nat]
  BY DEF Amounts, Valued
<1> QED
  BY <1>1, AmountIsASum, SumOfNaturals

\* No case, no money.
LEMMA AmountOfNothing ==
  ASSUME NEW cases
  PROVE  AmountOf(cases, {}) = 0
BY AmountIsASum, SumUnfolds, FS_EmptySet

\* The money of two disjoint parts is that of both.
LEMMA AmountOfParts ==
  ASSUME NEW cases, Valued(cases), NEW I \in SUBSET DOMAIN cases, NEW J \in SUBSET DOMAIN cases,
         IsFiniteSet(I), IsFiniteSet(J), I \cap J = {}
  PROVE  AmountOf(cases, I \cup J) = AmountOf(cases, I) + AmountOf(cases, J)
<1>1. Amounts(cases) \in [DOMAIN cases -> Int]
  BY DEF Amounts, Valued
<1>2. I \cup J \in SUBSET DOMAIN cases /\ IsFiniteSet(I \cup J)
  BY FS_Union
<1>3. AmountOf(cases, I \cup J) = SumOver(Amounts(cases), I \cup J)
  BY <1>2, AmountIsASum
<1>4. SumOver(Amounts(cases), I \cup J) = SumOver(Amounts(cases), I) + SumOver(Amounts(cases), J)
  BY <1>1, SumOfDisjointUnion
<1> QED
  BY <1>3, <1>4, AmountIsASum

\* A part has no more money than the whole.
LEMMA AmountOfAPart ==
  ASSUME NEW cases, Valued(cases), NEW J \in SUBSET DOMAIN cases, IsFiniteSet(J),
         NEW I \in SUBSET J
  PROVE  AmountOf(cases, I) <= AmountOf(cases, J)
<1> DEFINE R == J \ I
<1>1. /\ I \in SUBSET DOMAIN cases /\ R \in SUBSET DOMAIN cases
      /\ IsFiniteSet(I) /\ IsFiniteSet(R) /\ I \cap R = {} /\ I \cup R = J
  BY FS_Subset
<1> HIDE DEF R
<1>2. AmountOf(cases, J) = AmountOf(cases, I) + AmountOf(cases, R)
  BY <1>1, AmountOfParts
<1>3. AmountOf(cases, I) \in Nat /\ AmountOf(cases, R) \in Nat
  BY <1>1, AmountIsNatural
<1> QED
  BY <1>2, <1>3

\* Two disjoint finite sets have the elements of both.
LEMMA CountOfParts ==
  ASSUME NEW A, NEW B, IsFiniteSet(A), IsFiniteSet(B), A \cap B = {}
  PROVE  /\ Cardinality(A \cup B) = Cardinality(A) + Cardinality(B)
         /\ Cardinality(A) \in Nat /\ Cardinality(B) \in Nat
<1>1. Cardinality(A) \in Nat /\ Cardinality(B) \in Nat
  BY FS_CardinalityType
<1>2. Cardinality(A \cap B) = 0
  BY FS_EmptySet
<1>3. Cardinality(A \cup B) = Cardinality(A) + Cardinality(B) - Cardinality(A \cap B)
  BY FS_Union
<1>4. Cardinality(A \cup B) = Cardinality(A) + Cardinality(B)
  BY <1>1, <1>2, <1>3
<1> QED
  BY <1>1, <1>4

------------------------------------------------------------------------------
(* The reports of a run *)

\* A batch is finite, and its cases are as the generator makes them.
LEMMA BatchIsValued ==
  ASSUME IInv
  PROVE  /\ Valued(batch) /\ IsFiniteSet(DOMAIN batch)
         /\ \A i \in DOMAIN batch : Generated(batch[i])
<1>1. batch \in Batches /\ Len(batch) \in Nat /\ DOMAIN batch = 1 .. Len(batch)
  BY StageFacts
<1>2. \A i \in DOMAIN batch : Generated(batch[i])
  BY <1>1, PipelineAssumption
<1>3. IsFiniteSet(DOMAIN batch)
  BY <1>1, FS_Interval
<1> QED
  BY <1>2, <1>3 DEF Generated, Valued

\* The evaluator's audit finds nothing broken in what was approved.
LEMMA ApprovedIsSafe ==
  ASSUME IInv, NEW i \in DOMAIN batch, i \in DOMAIN results, Approved(i)
  PROVE  BrokenRules(results[i].input) = {}
<1> DEFINE e == Expected(i)
           x == ContextOf(batch[i])
<1>1. results[i].input = e /\ Gateway!WithinPolicy(e)
  BY DEF IInv, Rooted
<1>2. /\ e.target.attempts = x.attempts /\ e.target.amount = x.amount
      /\ e.proposal.amount = x.amount
      /\ e.target.currency = "INR" /\ e.proposal.currency = "INR"
      /\ e.proposal.action = proposals[i].action
  BY DEF Expected, SubmissionOf
<1>3. x.attempts \in Nat /\ batch[i].amount \in Nat
  <2>1. batch \in Batches
    BY StageFacts
  <2> QED
    BY <2>1, CaseFacts, BatchIsValued DEF Valued
<1>4. x.amount = batch[i].amount
  BY DEF ContextOf
<1> HIDE DEF e, x
<1>5. ~(x.amount >= HighValueThreshold)
  <2>1. proposals[i] = Decide(x, diagnoses[i]) /\ proposals[i].action \in Gateway!ExecutableActions
    BY ApprovedCases DEF x
  <2>2. proposals[i] \notin {Block, Escalate}
    BY <2>1 DEF Block, Escalate, Verdict, Gateway!ExecutableActions
  <2>3. ~Escalates(x, diagnoses[i])
    BY <2>1, <2>2 DEF Decide
  <2> QED
    BY <2>3 DEF Escalates, HighValueCase
<1>6. /\ ~(e.target.attempts >= Gateway!MaxTargetAttempts + 1)
      /\ ~(/\ e.target.history >= 3 /\ e.target.success < 2500
           /\ e.target.code \in Gateway!BlockedDeclineCodes)
  BY <1>1, <1>2, <1>3 DEF Gateway!WithinPolicy, Gateway!RetryAndChronic, Gateway!MaxTargetAttempts
<1>7. e.proposal.amount = e.target.amount /\ e.proposal.currency = e.target.currency
  BY <1>2
<1>8. ~(e.target.amount >= HighValueThreshold)
  BY <1>2, <1>5
<1>9. BrokenRules(e) = {}
  <2>1. ASSUME NEW rule \in BrokenRules(e) PROVE FALSE
    <3>1. CASE rule = "attempts"
      BY <1>6, <2>1, <3>1 DEF BrokenRules
    <3>2. CASE rule = "chronic"
      BY <1>6, <2>1, <3>2 DEF BrokenRules
    <3>3. CASE rule = "high_value"
      BY <1>8, <2>1, <3>3 DEF BrokenRules
    <3>4. CASE rule = "money"
      BY <1>7, <2>1, <3>4 DEF BrokenRules
    <3> QED
      BY <2>1, <3>1, <3>2, <3>3, <3>4 DEF BrokenRules
  <2> QED
    BY <2>1
<1> QED
  BY <1>1, <1>9

\* When the list is ready a call has returned for each approved case and for no other,
\* with the record of the case.
LEMMA ApprovedHaveReturned ==
  ASSUME CaseInvariant, stage = "ready", NEW j \in DOMAIN batch
  PROVE  /\ Returned(j) <=> Approved(j)
         /\ Approved(j) => OwnRecord(RecordAt(j), j)
<1> USE DEF CaseInvariant
<1>1. DOMAIN batch \subseteq Positions /\ DOMAIN batch = DOMAIN results
  BY CasesArePositions, StageFacts
<1>2. pc[CallOf(j)] \in {"returned", "replayed"} <=> Executed(j)
  BY <1>1 DEF CallBooks
<1>3. Executed(j) <=> Approved(j)
  BY DEF Executed, Done
<1>4. Approved(j) => request[CallOf(j)] = RequestFor(j) /\ OwnRecord(records[CaseKey(j)], j)
  BY <1>1, <1>2, <1>3 DEF CallBooks, RecordBooks
<1>5. Approved(j) => Execution!KeyOf(RequestFor(j)) = CaseKey(j)
  BY <1>1, RequestIsAccepted
<1> QED
  BY <1>2, <1>3, <1>4, <1>5 DEF Returned, RecordAt

\* Four disjoint parts of the batch that have every case have all its money.
LEMMA AmountOfFourParts ==
  ASSUME NEW cases, Valued(cases), IsFiniteSet(DOMAIN cases),
         NEW A, NEW B, NEW C, NEW E,
         A \cap B = {}, (A \cup B) \cap C = {}, (A \cup B \cup C) \cap E = {},
         A \cup B \cup C \cup E = DOMAIN cases
  PROVE  /\ AmountOf(cases, DOMAIN cases)
              = AmountOf(cases, A) + AmountOf(cases, B) + AmountOf(cases, C) + AmountOf(cases, E)
<1> DEFINE AB == A \cup B
           ABC == AB \cup C
<1>1. /\ A \in SUBSET DOMAIN cases /\ B \in SUBSET DOMAIN cases /\ C \in SUBSET DOMAIN cases
      /\ E \in SUBSET DOMAIN cases /\ AB \in SUBSET DOMAIN cases /\ ABC \in SUBSET DOMAIN cases
      /\ AB \cap C = {} /\ ABC \cap E = {} /\ ABC \cup E = DOMAIN cases
  OBVIOUS
<1>2. IsFiniteSet(A) /\ IsFiniteSet(B) /\ IsFiniteSet(C) /\ IsFiniteSet(E)
        /\ IsFiniteSet(AB) /\ IsFiniteSet(ABC)
  BY <1>1, FS_Subset
<1>3. AmountOf(cases, AB) = AmountOf(cases, A) + AmountOf(cases, B)
  BY <1>1, <1>2, AmountOfParts
<1> HIDE DEF AB
<1>4. AmountOf(cases, ABC) = AmountOf(cases, AB) + AmountOf(cases, C)
  BY <1>1, <1>2, AmountOfParts
<1> HIDE DEF ABC
<1>5. AmountOf(cases, DOMAIN cases) = AmountOf(cases, ABC) + AmountOf(cases, E)
  BY <1>1, <1>2, AmountOfParts
<1> QED
  BY <1>3, <1>4, <1>5

\* The statuses of proposals divide the batch, and no proposal for action awaits a human.
LEMMA ProposalsDivide ==
  ASSUME IInv, NEW i \in DOMAIN proposals
  PROVE  /\ proposals[i].status \in {"PROPOSED", "REQUIRES_REVIEW", "BLOCKED", "NO_ACTION"}
         /\ proposals[i].status = "PROPOSED" => proposals[i].approval = FALSE
<1>1. proposals[i] \in Verdicts
  BY DEF IInv, Progress
<1>2. CASE proposals[i] \in {Block, Escalate, Pass}
  BY <1>2 DEF Block, Escalate, Pass, Verdict
<1>3. ASSUME NEW a \in {"RETRY_PAYMENT", "RETRY_LATER", "REQUEST_PAYMENT_METHOD_UPDATE",
                        "SUBSCRIPTION_RECOVERY_WORKFLOW"},
             proposals[i] = Propose(a)
      PROVE  proposals[i].status = "PROPOSED" /\ proposals[i].approval = FALSE
  <2>1. proposals[i].status = "PROPOSED" /\ proposals[i].approval = (a = "HUMAN_REVIEW")
    BY <1>3 DEF Propose, Verdict
  <2>2. (a = "HUMAN_REVIEW") = FALSE
    OBVIOUS
  <2> QED
    BY <2>1, <2>2
<1> QED
  BY <1>1, <1>2, <1>3 DEF Verdicts

\* The decision agent's report: the money of the batch, by what was proposed.
LEMMA DecisionReportAddsUp ==
  ASSUME IInv, stage = "ready"
  PROVE  LET decision == DecisionReport(batch, proposals) IN
         /\ decision.atRisk = AmountOf(batch, DOMAIN batch)
         /\ decision.review
              = AmountOf(batch, {i \in DOMAIN batch : proposals[i].status = "REQUIRES_REVIEW"})
         /\ decision.atRisk = decision.proposed + decision.review + decision.blocked
                                + decision.noAction
         /\ decision.unsafe = 0
<1> DEFINE With(status) == {i \in DOMAIN batch : proposals[i].status = status}
           P == With("PROPOSED")
           R == With("REQUIRES_REVIEW")
           B == With("BLOCKED")
           N == With("NO_ACTION")
           unsafe == {i \in P : proposals[i].approval}
           decision == DecisionReport(batch, proposals)
<1>1. /\ decision.atRisk = AmountOf(batch, DOMAIN batch)
      /\ decision.proposed = AmountOf(batch, P) /\ decision.review = AmountOf(batch, R)
      /\ decision.blocked = AmountOf(batch, B) /\ decision.noAction = AmountOf(batch, N)
      /\ decision.unsafe = Cardinality(unsafe)
  BY DEF DecisionReport
<1>2. DOMAIN proposals = DOMAIN batch /\ Valued(batch) /\ IsFiniteSet(DOMAIN batch)
  BY StageFacts, BatchIsValued
<1>3. /\ P \cap R = {} /\ (P \cup R) \cap B = {} /\ (P \cup R \cup B) \cap N = {}
      /\ P \cup R \cup B \cup N = DOMAIN batch
  BY <1>2, ProposalsDivide
<1>4. unsafe = {}
  BY <1>2, ProposalsDivide
<1>5. R = {i \in DOMAIN batch : proposals[i].status = "REQUIRES_REVIEW"}
  OBVIOUS
<1> HIDE DEF P, R, B, N, unsafe, decision
<1>6. AmountOf(batch, DOMAIN batch)
        = AmountOf(batch, P) + AmountOf(batch, R) + AmountOf(batch, B) + AmountOf(batch, N)
  BY <1>2, <1>3, AmountOfFourParts
<1>7. decision.unsafe = 0
  BY <1>1, <1>4, FS_EmptySet
<1> QED
  BY <1>1, <1>5, <1>6, <1>7 DEF decision

\* The cases by the gateway's decision.
Given(decision) == {i \in DOMAIN batch : results[i].decision = decision}

\* The gateway's report: the money and the number of cases by decision, and nothing found.
LEMMA GatewayReportAddsUp ==
  ASSUME CaseInvariant, stage = "ready"
  PROVE  /\ GatewayReport.atRisk = AmountOf(batch, DOMAIN batch)
         /\ \A d \in {"APPROVED", "BLOCKED", "REQUIRES_REVIEW"} :
              GatewayReport.amounts[d] = AmountOf(batch, Given(d))
         /\ GatewayReport.counts["APPROVED"] = Cardinality(Given("APPROVED"))
         /\ AmountOf(batch, DOMAIN batch)
              = AmountOf(batch, Given("APPROVED")) + AmountOf(batch, Given("BLOCKED"))
                + AmountOf(batch, Given("REQUIRES_REVIEW")) + AmountOf(batch, Given("RATE_LIMITED"))
         /\ Given("REQUIRES_REVIEW")
              = {i \in DOMAIN batch : proposals[i].status = "REQUIRES_REVIEW"}
         /\ GatewayReport.unsafe = 0 /\ GatewayReport.replays = 0 /\ GatewayReport.wrongMoney = 0
<1> USE DEF CaseInvariant
<1> DEFINE approved == {i \in DOMAIN results : results[i].decision = "APPROVED"}
           invalid == {i \in DOMAIN results : results[i].decision = "INVALID_PROPOSAL"}
           unsafe == MapThenSumSet(LAMBDA i : Cardinality(BrokenRules(results[i].input)), approved)
           replayed == {i \in DOMAIN results : results[i].replay}
           wrong == {i \in approved : "money" \in BrokenRules(results[i].input)}
           unproven == {i \in invalid : ~Gateway!FinancialIntegrity(results[i].input)}
<1>1. DOMAIN results = DOMAIN batch /\ Valued(batch) /\ IsFiniteSet(DOMAIN batch)
  BY StageFacts, BatchIsValued
<1>2. \A i \in DOMAIN batch : /\ results[i].decision \in FirstAnswers /\ ~results[i].replay
                              /\ ReviewAgrees(i, results[i].decision)
  BY <1>1 DEF Answers
<1>3. /\ GatewayReport.atRisk = AmountOf(batch, DOMAIN results)
      /\ GatewayReport.unsafe = unsafe
      /\ GatewayReport.replays = Cardinality(replayed)
      /\ GatewayReport.wrongMoney = Cardinality(wrong) + Cardinality(unproven)
  BY DEF GatewayReport
<1>4. \A d \in {"APPROVED", "BLOCKED", "REQUIRES_REVIEW"} :
        GatewayReport.amounts[d] = AmountOf(batch, Given(d))
  BY <1>1 DEF GatewayReport, Given
<1>5. GatewayReport.counts["APPROVED"] = Cardinality(Given("APPROVED"))
  <2>1. "APPROVED" \in Gateway!Decisions
    BY DEF Gateway!Decisions, Gateway!StoredDecisions
  <2> QED
    BY <1>1, <2>1 DEF GatewayReport, Given
<1>6. AmountOf(batch, DOMAIN batch)
        = AmountOf(batch, Given("APPROVED")) + AmountOf(batch, Given("BLOCKED"))
          + AmountOf(batch, Given("REQUIRES_REVIEW")) + AmountOf(batch, Given("RATE_LIMITED"))
  <2> DEFINE A == Given("APPROVED")
             B == Given("BLOCKED")
             R == Given("REQUIRES_REVIEW")
             T == Given("RATE_LIMITED")
  <2>1. /\ A \cap B = {} /\ (A \cup B) \cap R = {} /\ (A \cup B \cup R) \cap T = {}
        /\ A \cup B \cup R \cup T = DOMAIN batch
    BY <1>2 DEF Given, FirstAnswers
  <2> HIDE DEF A, B, R, T
  <2>2. AmountOf(batch, DOMAIN batch)
          = AmountOf(batch, A) + AmountOf(batch, B) + AmountOf(batch, R) + AmountOf(batch, T)
    BY <1>1, <2>1, AmountOfFourParts
  <2> QED
    BY <2>2 DEF A, B, R, T
<1>7. Given("REQUIRES_REVIEW") = {i \in DOMAIN batch : proposals[i].status = "REQUIRES_REVIEW"}
  BY <1>2 DEF Given, ReviewAgrees
<1>8. \A i \in approved : BrokenRules(results[i].input) = {}
  BY <1>1, ApprovedIsSafe DEF Approved
<1>9. replayed = {} /\ wrong = {} /\ unproven = {}
  BY <1>1, <1>2, <1>8 DEF FirstAnswers
<1>10. unsafe = 0
  <2> DEFINE f == [i \in approved |-> Cardinality(BrokenRules(results[i].input))]
             Recursion(g) ==
               g = [S \in SUBSET approved |->
                      IF S = {} THEN 0
                      ELSE Cardinality(BrokenRules(results[CHOOSE x \in S : TRUE].input))
                             + g[S \ {CHOOSE x \in S : TRUE}]]
             g == CHOOSE g : Recursion(g)
             h == CHOOSE h : Sums(f, approved, h)
  <2>1. unsafe = g[approved]
    BY DEF MapThenSumSet, MapThenFoldSet
  <2>2. IsFiniteSet(approved)
    BY <1>1, FS_Subset
  <2>3. ASSUME NEW k PROVE Recursion(k) <=> Sums(f, approved, k)
    <3>1. \A S \in SUBSET approved : S # {} =>
            f[Pick(S)] = Cardinality(BrokenRules(results[Pick(S)].input))
      BY PickIsElement
    <3> QED
      BY <3>1 DEF Sums, Pick
  <2>4. \A i \in approved : f[i] = 0
    BY <1>8, FS_EmptySet
  <2> HIDE DEF Recursion, f
  <2>5. Sums(f, approved, h)
    BY <2>2, SumsExist
  <2>6. Recursion(g)
    BY <2>3, <2>5
  <2>7. Sums(f, approved, g)
    BY <2>3, <2>6
  <2>8. h[approved] = 0
    <3>1. SumOver(f, approved) = h[approved]
      BY DEF SumOver
    <3> QED
      BY <2>2, <2>4, <3>1, SumOfZeros
  <2> HIDE DEF g, h, approved
  <2>9. g[approved] = h[approved]
    BY <2>2, <2>5, <2>7, SumsAgree
  <2> QED
    BY <2>1, <2>8, <2>9
<1> HIDE DEF unsafe, replayed, wrong, unproven
<1>11. GatewayReport.unsafe = 0 /\ GatewayReport.replays = 0 /\ GatewayReport.wrongMoney = 0
  BY <1>3, <1>9, <1>10, FS_EmptySet
<1> QED
  BY <1>1, <1>3, <1>4, <1>5, <1>6, <1>7, <1>11

\* The evaluator's report of the execution: every authorised case was attempted or deferred,
\* and what was attempted has one of three ends.
LEMMA ExecutionReportAddsUp ==
  ASSUME CaseInvariant, stage = "ready"
  PROVE  /\ ExecutionReport.atRisk = AmountOf(batch, DOMAIN batch)
         /\ ExecutionReport.authorized = Cardinality(Given("APPROVED"))
         /\ ExecutionReport.authorizedAmount = AmountOf(batch, Given("APPROVED"))
         /\ ExecutionReport.authorized = ExecutionReport.attempted + ExecutionReport.deferred
         /\ ExecutionReport.attempted = ExecutionReport.succeeded + ExecutionReport.failed
                                          + ExecutionReport.unknown
         /\ ExecutionReport.recoveredAmount + ExecutionReport.failedAmount
              <= ExecutionReport.attemptedAmount
         /\ ExecutionReport.wrongMoneyRate = 0
<1> DEFINE authorized == {i \in DOMAIN batch : IsAuthorized(i)}
           raised == {i \in authorized : ~Returned(i)}
           With(S) == {i \in authorized : Returned(i) /\ RecordAt(i).status \in S}
           attempted == With({"EXECUTION_STARTED", "PROVIDER_REQUESTED", "SUCCEEDED", "FAILED",
                              "UNKNOWN_PROVIDER_STATE"})
           deferred == With({"DEFERRED"})
           succeeded == With({"SUCCEEDED"})
           recovered == With({"SUCCEEDED", "RECONCILED"})
           unknown == With({"UNKNOWN_PROVIDER_STATE"})
           failed == With({"FAILED"}) \cup raised
           ended == succeeded \cup failed
           wrong == {i \in authorized \ raised : RecordAt(i).amount # batch[i].amount
                                                     \/ RecordAt(i).currency # "INR"}
<1>1. /\ ExecutionReport.atRisk = AmountOf(batch, DOMAIN batch)
      /\ ExecutionReport.authorized = Cardinality(authorized)
      /\ ExecutionReport.authorizedAmount = AmountOf(batch, authorized)
      /\ ExecutionReport.attempted = Cardinality(attempted)
      /\ ExecutionReport.attemptedAmount = AmountOf(batch, attempted)
      /\ ExecutionReport.succeeded = Cardinality(succeeded)
      /\ ExecutionReport.recoveredAmount = AmountOf(batch, recovered)
      /\ ExecutionReport.failed = Cardinality(failed)
      /\ ExecutionReport.failedAmount = AmountOf(batch, failed)
      /\ ExecutionReport.deferred = Cardinality(deferred)
      /\ ExecutionReport.unknown = Cardinality(unknown)
      /\ ExecutionReport.wrongMoneyRate = Bps(Cardinality(wrong), Cardinality(attempted))
  BY DEF ExecutionReport
<1>2. Valued(batch) /\ IsFiniteSet(DOMAIN batch)
  BY BatchIsValued DEF CaseInvariant
<1>3. authorized = Given("APPROVED")
  BY DEF IsAuthorized, Given
<1>4. \A i \in authorized : Returned(i) /\ OwnRecord(RecordAt(i), i)
  BY ApprovedHaveReturned DEF IsAuthorized, Approved
<1>5. \A i \in authorized :
        /\ RecordAt(i).status \in {"SUCCEEDED", "FAILED", "UNKNOWN_PROVIDER_STATE", "DEFERRED"}
        /\ RecordAt(i).amount = batch[i].amount /\ RecordAt(i).currency = "INR"
  BY <1>4 DEF OwnRecord
<1>6. /\ raised = {} /\ wrong = {} /\ recovered = succeeded
      /\ attempted \cap deferred = {} /\ attempted \cup deferred = authorized
      /\ succeeded \cap failed = {} /\ ended \cap unknown = {}
      /\ ended \cup unknown = attempted
  BY <1>4, <1>5
<1>7. /\ authorized \in SUBSET DOMAIN batch /\ attempted \in SUBSET authorized
      /\ deferred \in SUBSET authorized /\ succeeded \in SUBSET DOMAIN batch
      /\ failed \in SUBSET DOMAIN batch /\ unknown \in SUBSET DOMAIN batch
      /\ ended \in SUBSET attempted /\ attempted \in SUBSET DOMAIN batch
  BY <1>6
<1> HIDE DEF authorized, attempted, deferred, succeeded, recovered, unknown, failed, wrong
<1>8. /\ IsFiniteSet(authorized) /\ IsFiniteSet(attempted) /\ IsFiniteSet(deferred)
      /\ IsFiniteSet(succeeded) /\ IsFiniteSet(failed) /\ IsFiniteSet(unknown)
      /\ IsFiniteSet(ended)
  BY <1>2, <1>7, FS_Subset
<1>9. Cardinality(authorized) = Cardinality(attempted) + Cardinality(deferred)
  BY <1>6, <1>8, CountOfParts
<1>10. Cardinality(attempted)
         = Cardinality(succeeded) + Cardinality(failed) + Cardinality(unknown)
  <2>1. Cardinality(ended) = Cardinality(succeeded) + Cardinality(failed)
    BY <1>6, <1>8, CountOfParts
  <2> HIDE DEF ended
  <2>2. Cardinality(attempted) = Cardinality(ended) + Cardinality(unknown)
    BY <1>6, <1>8, CountOfParts
  <2> QED
    BY <2>1, <2>2
<1>11. AmountOf(batch, recovered) + AmountOf(batch, failed) <= AmountOf(batch, attempted)
  <2>1. AmountOf(batch, ended) = AmountOf(batch, succeeded) + AmountOf(batch, failed)
    BY <1>2, <1>6, <1>7, <1>8, AmountOfParts
  <2> HIDE DEF ended
  <2>2. AmountOf(batch, ended) <= AmountOf(batch, attempted)
    BY <1>2, <1>7, <1>8, AmountOfAPart
  <2> QED
    BY <1>6, <2>1, <2>2
<1>12. Bps(Cardinality(wrong), Cardinality(attempted)) = 0
  <2>1. Cardinality(wrong) = 0 /\ Cardinality(attempted) \in Nat
    BY <1>6, <1>8, FS_EmptySet, FS_CardinalityType
  <2>2. \A n \in Nat : n > 0 => (0 * 10000) \div n = 0
    OBVIOUS
  <2> QED
    BY <2>1, <2>2 DEF Bps
<1> QED
  BY <1>1, <1>3, <1>9, <1>10, <1>11, <1>12

\* In any dataset and whatever the model replies: the reports of decision agent, gateway and
\* execution tell one story, by number and in money, and find no broken rule.
THEOREM TheFunnelAddsUp == PipelineSpec => []FunnelAddsUp
<1>1. CaseInvariant => FunnelAddsUp
  <2> SUFFICES ASSUME CaseInvariant, stage = "ready" PROVE FunnelAddsUp
    BY DEF FunnelAddsUp, Finished
  <2>1. DOMAIN results = DOMAIN batch /\ IInv
    BY StageFacts DEF CaseInvariant
  <2> DEFINE decision == DecisionReport(batch, proposals)
             gate == GatewayReport
             run == ExecutionReport
             throttled == AmountOf(batch, Given("RATE_LIMITED"))
             total == AmountOf(batch, DOMAIN batch)
             approved == AmountOf(batch, Given("APPROVED"))
             blocked == AmountOf(batch, Given("BLOCKED"))
             review == AmountOf(batch, Given("REQUIRES_REVIEW"))
  <2>2. throttled = AmountOf(batch, {i \in Answered : results[i].decision = "RATE_LIMITED"})
    BY <2>1 DEF Given, Answered
  <2>3. /\ decision.atRisk = total /\ decision.review = review
        /\ decision.atRisk = decision.proposed + decision.review + decision.blocked
                               + decision.noAction
        /\ decision.unsafe = 0
    BY <2>1, DecisionReportAddsUp, GatewayReportAddsUp
  <2>4. /\ gate.atRisk = total /\ gate.amounts["APPROVED"] = approved
        /\ gate.amounts["BLOCKED"] = blocked /\ gate.amounts["REQUIRES_REVIEW"] = review
        /\ gate.counts["APPROVED"] = Cardinality(Given("APPROVED"))
        /\ total = approved + blocked + review + throttled
        /\ gate.unsafe = 0 /\ gate.replays = 0 /\ gate.wrongMoney = 0
    BY GatewayReportAddsUp
  <2>5. /\ run.atRisk = total /\ run.authorized = Cardinality(Given("APPROVED"))
        /\ run.authorizedAmount = approved
        /\ run.authorized = run.attempted + run.deferred
        /\ run.attempted = run.succeeded + run.failed + run.unknown
        /\ run.recoveredAmount + run.failedAmount <= run.attemptedAmount
        /\ run.wrongMoneyRate = 0
    BY ExecutionReportAddsUp
  <2>6. FunnelAddsUp <=>
        LET s == AmountOf(batch, {i \in Answered : results[i].decision = "RATE_LIMITED"}) IN
        /\ decision.atRisk = gate.atRisk /\ gate.atRisk = run.atRisk
        /\ decision.atRisk = decision.proposed + decision.review + decision.blocked
                               + decision.noAction
        /\ gate.amounts["REQUIRES_REVIEW"] = decision.review
        /\ gate.amounts["APPROVED"] + gate.amounts["BLOCKED"] + decision.review + s
             = gate.atRisk
        /\ gate.counts["APPROVED"] = run.authorized
        /\ gate.amounts["APPROVED"] = run.authorizedAmount
        /\ run.authorized = run.attempted + run.deferred
        /\ run.attempted = run.succeeded + run.failed + run.unknown
        /\ run.recoveredAmount + run.failedAmount <= run.attemptedAmount
        /\ gate.unsafe = 0 /\ decision.unsafe = 0 /\ gate.replays = 0
        /\ gate.wrongMoney = 0 /\ run.wrongMoneyRate = 0
    BY DEF FunnelAddsUp, Finished
  <2> HIDE DEF decision, gate, run, throttled, total, approved, blocked, review
  <2> QED
    BY <2>2, <2>3, <2>4, <2>5, <2>6
<1> QED
  BY <1>1, CaseInvariantHolds, PTL

------------------------------------------------------------------------------
(* Rates and scores *)

\* What the floored quotient of two naturals is.
LEMMA QuotientBounds ==
  ASSUME NEW a \in Nat, NEW b \in Nat, b > 0
  PROVE  a \div b \in Nat /\ b * (a \div b) <= a /\ a < b * (a \div b) + b
BY SMT

\* A product grows with its factor.
LEMMA ProductsKeepOrder ==
  ASSUME NEW a \in Nat, NEW b \in Nat, NEW c \in Nat, a <= b
  PROVE  c * a <= c * b
BY SMT

\* A rate is between 0 and 10000, full exactly if the part is the whole, and positive for any
\* part of at most 10000.
LEMMA RateBounds ==
  ASSUME NEW part \in Nat, NEW whole \in Nat, part <= whole
  PROVE  /\ Bps(part, whole) \in Nat
         /\ whole > 0 => (Bps(part, whole) = 10000 <=> part = whole)
         /\ part = 0 => Bps(part, whole) = 0
         /\ part > 0 /\ whole <= 10000 => Bps(part, whole) > 0
<1>1. CASE whole = 0
  BY <1>1 DEF Bps
<1>2. CASE whole > 0
  <2> DEFINE q == (part * 10000) \div whole
  <2>1. q \in Nat /\ whole * q <= part * 10000 /\ part * 10000 < whole * q + whole
    BY <1>2, QuotientBounds
  <2>2. Bps(part, whole) = q
    BY <1>2 DEF Bps
  <2> HIDE DEF q
  <2>3. q = 10000 => part = whole
    BY <2>1
  <2>4. part = whole => q = 10000
    <3>1. SUFFICES ASSUME part = whole PROVE q = 10000
      OBVIOUS
    <3>2. q <= 10000
      <4>1. SUFFICES ASSUME q >= 10001 PROVE FALSE
        BY <2>1
      <4>2. whole * 10001 <= whole * q
        BY <2>1, <4>1, ProductsKeepOrder
      <4> QED
        BY <1>2, <2>1, <3>1, <4>2
    <3>3. q >= 10000
      <4>1. SUFFICES ASSUME q <= 9999 PROVE FALSE
        BY <2>1
      <4>2. whole * q <= whole * 9999
        BY <2>1, <4>1, ProductsKeepOrder
      <4> QED
        BY <1>2, <2>1, <3>1, <4>2
    <3> QED
      BY <2>1, <3>2, <3>3
  <2>5. part = 0 => q = 0
    BY <1>2, <2>1
  <2>6. part > 0 /\ whole <= 10000 => q > 0
    BY <1>2, <2>1
  <2> QED
    BY <1>2, <2>1, <2>2, <2>3, <2>4, <2>5, <2>6
<1> QED
  BY <1>1, <1>2

\* The floor of the harmonic mean of two naturals is between them.
LEMMA HarmonicMeanIsBetween ==
  ASSUME NEW p \in Nat, NEW r \in Nat, p <= r, p + r > 0
  PROVE  p <= (2 * p * r) \div (p + r) /\ (2 * p * r) \div (p + r) <= r
<1> DEFINE q == (2 * p * r) \div (p + r)
<1>1. q \in Nat /\ (p + r) * q <= 2 * p * r /\ 2 * p * r < (p + r) * q + (p + r)
  <2>1. 2 * p * r \in Nat /\ p + r \in Nat
    OBVIOUS
  <2> QED
    BY <2>1, QuotientBounds
<1> HIDE DEF q
<1>2. p <= q
  <2>1. SUFFICES ASSUME q + 1 <= p PROVE FALSE
    BY <1>1
  <2>2. (p + r) * (q + 1) <= (p + r) * p
    BY <1>1, <2>1, ProductsKeepOrder
  <2>3. p * p <= p * r
    BY ProductsKeepOrder
  <2>4. (p + r) * p = p * p + p * r /\ (p + r) * (q + 1) = (p + r) * q + (p + r)
    BY <1>1
  <2> QED
    BY <1>1, <2>2, <2>3, <2>4
<1>3. q <= r
  <2>1. SUFFICES ASSUME r + 1 <= q PROVE FALSE
    BY <1>1
  <2>2. (p + r) * (r + 1) <= (p + r) * q
    BY <1>1, <2>1, ProductsKeepOrder
  <2>3. r * p <= r * r
    BY ProductsKeepOrder
  <2>4. (p + r) * (r + 1) = p * r + r * r + p + r /\ r * p = p * r
    OBVIOUS
  <2> QED
    BY <1>1, <2>2, <2>3, <2>4
<1> QED
  BY <1>2, <1>3 DEF q

\* The cases of a batch that can be scored: a finite batch of cases with amounts and a truth.
Scorable(cases) ==
  /\ IsFiniteSet(DOMAIN cases) /\ Valued(cases)
  /\ \A i \in DOMAIN cases : cases[i].recoverable \in BOOLEAN

\* ScoreIsSound, of any cases.
Sound(cases, score, assessed) ==
  LET recoverable == {i \in DOMAIN cases : cases[i].recoverable}
      amount == AmountOf(cases, recoverable)
  IN /\ score.tp + score.fp + score.tn + score.fn = Cardinality(assessed)
     /\ score.captured + score.missed + AmountOf(cases, recoverable \ assessed) = amount
     /\ Between(score.f1, score.precision, score.recall)
     /\ score.f1 = 0 <=> score.tp = 0
     /\ amount > 0 => (score.capture = 10000 <=> score.captured = amount)

\* Both calculations, for any verdicts: the confusion matrix counts what was assessed, once;
\* no money is lost; f1 is between precision and recall and zero exactly without a true
\* positive, in a batch small enough for the rates; and full capture is what it says.
LEMMA ScoresOfAnyVerdicts ==
  ASSUME NEW cases, Scorable(cases), Cardinality(DOMAIN cases) <= 10000,
         NEW verdict, \A i \in DOMAIN cases : verdict[i] \in {Yes, No, Unassessed}
  PROVE  Sound(cases, Score(cases, verdict), {i \in DOMAIN cases : verdict[i] # Unassessed})
<1> DEFINE D == DOMAIN cases
           TP == {i \in D : verdict[i] = Yes /\ cases[i].recoverable = TRUE}
           FP == {i \in D : verdict[i] = Yes /\ cases[i].recoverable = FALSE}
           FN == {i \in D : verdict[i] = No /\ cases[i].recoverable = TRUE}
           TN == {i \in D : verdict[i] = No /\ cases[i].recoverable = FALSE}
           score == Score(cases, verdict)
           assessed == {i \in D : verdict[i] # Unassessed}
           recoverable == {i \in D : cases[i].recoverable}
           amount == AmountOf(cases, recoverable)
           tp == Cardinality(TP)
           fp == Cardinality(FP)
           fn == Cardinality(FN)
           tn == Cardinality(TN)
           p == Bps(tp, tp + fp)
           r == Bps(tp, tp + fn)
           f == IF p + r > 0 THEN (2 * p * r) \div (p + r) ELSE 0
           left == recoverable \ assessed
<1>1. /\ score.tp = tp /\ score.fp = fp /\ score.tn = tn /\ score.fn = fn
      /\ score.precision = p /\ score.recall = r /\ score.f1 = f
      /\ score.captured = AmountOf(cases, TP) /\ score.missed = AmountOf(cases, FN)
      /\ score.capture = Bps(AmountOf(cases, TP), amount)
  BY DEF Score
<1>2. Yes # No /\ Yes # Unassessed /\ No # Unassessed
  BY DEF Yes, No, Unassessed
<1>3. /\ TP \in SUBSET D /\ FP \in SUBSET D /\ FN \in SUBSET D /\ TN \in SUBSET D
      /\ TP \cap FP = {} /\ TN \cap FN = {} /\ (TP \cup FP) \cap (TN \cup FN) = {}
      /\ (TP \cup FP) \cup (TN \cup FN) = assessed
      /\ TP \cap FN = {} /\ left \in SUBSET D /\ (TP \cup FN) \cap left = {}
      /\ (TP \cup FN) \cup left = recoverable /\ recoverable \in SUBSET D
  BY <1>2 DEF Scorable
<1>4. IsFiniteSet(D) /\ Valued(cases) /\ Cardinality(D) \in Nat /\ Cardinality(D) <= 10000
  BY FS_CardinalityType DEF Scorable
<1> HIDE DEF D, TP, FP, FN, TN, left, assessed, recoverable, score
<1>5. /\ tp \in Nat /\ fp \in Nat /\ fn \in Nat /\ tn \in Nat
      /\ Cardinality(TP \cup FP) = tp + fp /\ Cardinality(TN \cup FN) = tn + fn
      /\ Cardinality(TP \cup FN) = tp + fn
  <2>0. IsFiniteSet(TP) /\ IsFiniteSet(FP) /\ IsFiniteSet(TN) /\ IsFiniteSet(FN)
          /\ TP \cap FP = {} /\ TN \cap FN = {} /\ TP \cap FN = {}
    BY <1>3, <1>4, FS_Subset
  <2>1. Cardinality(TP \cup FP) = tp + fp /\ tp \in Nat /\ fp \in Nat
    <3>1. IsFiniteSet(TP) /\ IsFiniteSet(FP) /\ TP \cap FP = {}
      BY <2>0
    <3> QED
      BY <3>1, CountOfParts
  <2>2. Cardinality(TN \cup FN) = tn + fn /\ tn \in Nat /\ fn \in Nat
    BY <2>0, CountOfParts
  <2>3. Cardinality(TP \cup FN) = tp + fn
    BY <2>0, CountOfParts
  <2> QED
    BY <2>1, <2>2, <2>3
<1>6. tp + fp + tn + fn = Cardinality(assessed)
  <2>1. TP \cup FP \in SUBSET D /\ TN \cup FN \in SUBSET D
    BY <1>3
  <2>2. Cardinality(assessed) = (tp + fp) + (tn + fn)
    <3> DEFINE positive == TP \cup FP
               negative == TN \cup FN
    <3>1. IsFiniteSet(positive) /\ IsFiniteSet(negative) /\ positive \cap negative = {}
            /\ positive \cup negative = assessed
      BY <1>3, <1>4, <2>1, FS_Subset
    <3>2. Cardinality(positive) = tp + fp /\ Cardinality(negative) = tn + fn
      BY <1>5
    <3> HIDE DEF positive, negative
    <3>3. Cardinality(assessed) = Cardinality(positive) + Cardinality(negative)
      BY <3>1, CountOfParts
    <3> QED
      BY <3>2, <3>3
  <2> HIDE DEF tp, fp, fn, tn
  <2> QED
    BY <1>5, <2>2
<1>7. AmountOf(cases, TP) + AmountOf(cases, FN) + AmountOf(cases, left) = amount
  <2>1. IsFiniteSet(TP) /\ IsFiniteSet(FN) /\ IsFiniteSet(left) /\ IsFiniteSet(TP \cup FN)
          /\ TP \cup FN \in SUBSET D
    BY <1>3, <1>4, FS_Subset, FS_Union
  <2>2. AmountOf(cases, TP \cup FN) = AmountOf(cases, TP) + AmountOf(cases, FN)
    BY <1>3, <1>4, <2>1, AmountOfParts DEF D
  <2>3. amount = AmountOf(cases, TP \cup FN) + AmountOf(cases, left)
    BY <1>3, <1>4, <2>1, AmountOfParts DEF D
  <2> QED
    BY <2>2, <2>3
<1>8. AmountOf(cases, TP) \in Nat /\ amount \in Nat /\ AmountOf(cases, TP) <= amount
  <2>1. IsFiniteSet(TP) /\ IsFiniteSet(recoverable) /\ TP \in SUBSET recoverable
    BY <1>3, <1>4, FS_Subset
  <2>2. AmountOf(cases, TP) \in Nat /\ amount \in Nat
    BY <1>3, <1>4, <2>1, AmountIsNatural DEF D
  <2>3. AmountOf(cases, TP) <= amount
    BY <1>3, <1>4, <2>1, AmountOfAPart DEF D
  <2> QED
    BY <2>2, <2>3
<1>9. tp + fp <= 10000 /\ tp + fn <= 10000
  <2>1. TP \cup FP \in SUBSET D /\ TP \cup FN \in SUBSET D
    BY <1>3
  <2>2. Cardinality(TP \cup FP) <= Cardinality(D) /\ Cardinality(TP \cup FN) <= Cardinality(D)
    BY <1>4, <2>1, FS_Subset
  <2> HIDE DEF tp, fp, fn, tn
  <2> QED
    BY <1>4, <1>5, <2>2
<1> HIDE DEF tp, fp, fn, tn, amount
<1>10. /\ p \in Nat /\ r \in Nat
       /\ tp = 0 => p = 0 /\ r = 0
       /\ tp > 0 => p > 0 /\ r > 0
  BY <1>5, <1>9, RateBounds
<1> HIDE DEF p, r
<1>11. Between(f, p, r) /\ (f = 0 <=> tp = 0)
  <2>1. CASE tp = 0
    <3>1. p = 0 /\ r = 0 /\ f = 0
      BY <1>10, <2>1
    <3> QED
      BY <2>1, <3>1 DEF Between
  <2>2. CASE tp > 0
    <3>1. p > 0 /\ r > 0 /\ f = (2 * p * r) \div (p + r)
      BY <1>10, <2>2
    <3>2. CASE p <= r
      <4>1. p <= f /\ f <= r
        BY <1>10, <3>1, <3>2, HarmonicMeanIsBetween
      <4>2. f # 0
        BY <1>10, <3>1, <4>1
      <4> QED
        BY <2>2, <4>1, <4>2 DEF Between
    <3>3. CASE r <= p
      <4>1. 2 * p * r = 2 * r * p /\ p + r = r + p
        BY <1>10
      <4>2. r <= f /\ f <= p
        BY <1>10, <3>1, <3>3, <4>1, HarmonicMeanIsBetween
      <4>3. f # 0
        BY <1>10, <3>1, <4>2
      <4> QED
        BY <2>2, <4>2, <4>3 DEF Between
    <3> QED
      BY <1>10, <3>2, <3>3
  <2> QED
    BY <1>5, <2>1, <2>2
<1>12. amount > 0 => (Bps(AmountOf(cases, TP), amount) = 10000 <=> AmountOf(cases, TP) = amount)
  BY <1>8, RateBounds
<1> HIDE DEF f
<1>13. /\ score.tp + score.fp + score.tn + score.fn = Cardinality(assessed)
       /\ score.captured + score.missed + AmountOf(cases, left) = amount
       /\ Between(score.f1, score.precision, score.recall)
       /\ score.f1 = 0 <=> score.tp = 0
       /\ amount > 0 => (score.capture = 10000 <=> score.captured = amount)
  BY <1>1, <1>6, <1>7, <1>11, <1>12
<1> QED
  BY <1>13 DEF Sound, left, amount, assessed, recoverable, score, D

\* The batch of a run can be scored, and has as many cases as it is long.
LEMMA BatchIsScorable ==
  ASSUME IInv
  PROVE  Scorable(batch) /\ Cardinality(DOMAIN batch) = Len(batch)
<1>1. /\ batch \in Batches /\ Len(batch) \in Nat \ {0} /\ DOMAIN batch = 1 .. Len(batch)
  BY StageFacts
<1>2. Cardinality(DOMAIN batch) = Len(batch)
  <2>1. PICK n \in Nat \ {0} : n = Len(batch)
    BY <1>1
  <2>2. Cardinality(1 .. n) = IF 1 > n THEN 0 ELSE n - 1 + 1
    <3>1. 1 \in Int /\ n \in Int
      OBVIOUS
    <3> QED
      BY <3>1, FS_Interval
  <2>3. Cardinality(1 .. n) = n
    BY <2>2
  <2> QED
    BY <1>1, <2>1, <2>3
<1>3. Scorable(batch)
  BY BatchIsValued DEF Scorable, Generated
<1> QED
  BY <1>2, <1>3

\* In a batch of a run, however the verdicts were come by.
LEMMA ScoreOfTheBatch ==
  ASSUME IInv, Len(batch) <= 10000,
         NEW verdict, \A i \in DOMAIN batch : verdict[i] \in {Yes, No, Unassessed}
  PROVE  ScoreIsSound(Score(batch, verdict), {i \in DOMAIN batch : verdict[i] # Unassessed})
<1>1. Scorable(batch) /\ Cardinality(DOMAIN batch) <= 10000
  BY BatchIsScorable
<1>2. Sound(batch, Score(batch, verdict), {i \in DOMAIN batch : verdict[i] # Unassessed})
  BY <1>1, ScoresOfAnyVerdicts
<1>3. ASSUME NEW score, NEW assessed, Sound(batch, score, assessed)
      PROVE  ScoreIsSound(score, assessed)
  BY <1>3 DEF Sound, ScoreIsSound
<1> QED
  BY <1>2, <1>3

\* In any dataset of at most 10000 cases both calculations of the scores are sound, whatever
\* the model replied.
THEOREM TheScoresAreSound ==
  ASSUME \A b \in Batches : Len(b) <= 10000
  PROVE  PipelineSpec => []ScoresAreSound
<1>1. IInv => ScoresAreSound
  <2> SUFFICES ASSUME IInv, Len(diagnoses) = Len(batch) PROVE ScoresAreSound
    BY DEF ScoresAreSound
  <2> DEFINE D == DOMAIN batch
             verdict == [i \in D |-> diagnoses[i].verdict]
             assessed == {i \in D : diagnoses[i].status = "SUCCESS"}
             predicted == Predictions(batch)
             report == DiagnosisReport(batch, diagnoses)
  <2>1. /\ batch \in Batches /\ Len(batch) \in Nat /\ D = 1 .. Len(batch)
        /\ Len(batch) <= 10000
    BY StageFacts
  <2>2. Yes # No /\ Yes # Unassessed /\ No # Unassessed
    BY DEF Yes, No, Unassessed
  <2>3. /\ \A i \in D : verdict[i] \in {Yes, No, Unassessed}
        /\ assessed = {i \in D : verdict[i] # Unassessed}
    <3>1. \A i \in D : diagnoses[i] \in Diagnoses
      <4>1. diagnoses \in Seq(Diagnoses)
        BY DEF IInv, Progress
      <4> QED
        BY <2>1, <4>1
    <3>2. \A x \in Diagnoses : /\ x.verdict \in {Yes, No, Unassessed}
                              /\ x.status = "SUCCESS" <=> x.verdict # Unassessed
      BY <2>2 DEF Diagnoses, Statuses
    <3> QED
      BY <3>1, <3>2
  <2>4. /\ \A i \in D : predicted[i] \in {Yes, No, Unassessed}
        /\ D = {i \in D : predicted[i] # Unassessed}
    BY <2>2 DEF Predictions
  <2>5. /\ report.score = Score(batch, verdict) /\ report.successful = Cardinality(assessed)
        /\ BaselineScore(batch) = Score(batch, predicted)
    BY DEF DiagnosisReport, BaselineScore
  <2> HIDE DEF verdict, predicted, assessed, report
  <2>6. ScoreIsSound(Score(batch, verdict), assessed)
    BY <2>1, <2>3, ScoreOfTheBatch
  <2>7. ScoreIsSound(Score(batch, predicted), D)
    BY <2>1, <2>4, ScoreOfTheBatch
  <2> QED
    BY <2>5, <2>6, <2>7 DEF ScoresAreSound, assessed, report
<1> QED
  BY <1>1, PipelineInvariantHolds, PTL

------------------------------------------------------------------------------
(* Sequences put together *)

\* Induction from 1 up to n, for a property given by its extension.
LEMMA CountingUp ==
  ASSUME NEW n \in Nat, NEW C, 1 \in C, \A i \in 1 .. n : i \in C => i + 1 \in C
  PROVE  \A i \in 1 .. n : i \in C
<1> DEFINE B == {i \in 1 .. n : i \notin C}
           R == OpToRel(<, Nat)
<1>1. SUFFICES ASSUME B # {} PROVE FALSE
  OBVIOUS
<1>2. B \subseteq Nat
  OBVIOUS
<1>3. PICK k \in B : \A j \in B : <<j, k>> \notin R
  <2> HIDE DEF B, R
  <2>1. IsWellFoundedOn(R, Nat)
    BY NatLessThanWellFounded DEF R
  <2> QED
    BY <1>1, <1>2, <2>1, WFMin
<1>4. \A j \in B : ~ (j < k)
  BY <1>2, <1>3 DEF OpToRel
<1>5. k # 1 /\ k \in 1 .. n
  BY <1>3
<1>6. k - 1 \in 1 .. n /\ k - 1 \notin B
  BY <1>4, <1>5
<1>7. k - 1 \in C /\ (k - 1) + 1 = k
  BY <1>5, <1>6
<1>8. k \in C
  BY <1>6, <1>7
<1> QED
  BY <1>3, <1>8

\* What FlattenSeq has put together after each of the sequences.
Joined(seqs, n, f) ==
  f = [i \in 1 .. n |-> IF i = 1 THEN seqs[i] ELSE f[i - 1] \o seqs[i]]

\* The recursion has a solution: it is extended from one length to the next.
LEMMA JoinedExists ==
  ASSUME NEW n \in Nat \ {0}, NEW seqs
  PROVE  \E f : Joined(seqs, n, f)
<1> DEFINE C == {k \in Nat : \E f : Joined(seqs, k, f)}
<1>1. 1 \in C
  <2> DEFINE f == [i \in 1 .. 1 |-> seqs[i]]
  <2>1. Joined(seqs, 1, f)
    BY DEF Joined
  <2> QED
    BY <2>1
<1>2. ASSUME NEW k \in 1 .. n, k \in C PROVE k + 1 \in C
  <2>1. PICK f : Joined(seqs, k, f)
    BY <1>2
  <2> DEFINE g == [i \in 1 .. k + 1 |-> IF i = 1 THEN seqs[i] ELSE f[i - 1] \o seqs[i]]
  <2>2. \A i \in 1 .. k + 1 : i # 1 => i - 1 \in 1 .. k + 1 /\ i - 1 \in 1 .. k
    OBVIOUS
  <2>3. \A i \in 1 .. k : g[i] = f[i]
    <3>1. \A i \in 1 .. k : f[i] = IF i = 1 THEN seqs[i] ELSE f[i - 1] \o seqs[i]
      BY <2>1, Zenon DEF Joined
    <3>2. \A i \in 1 .. k : i \in 1 .. k + 1
      OBVIOUS
    <3> QED
      BY <3>1, <3>2, Zenon
  <2>4. Joined(seqs, k + 1, g)
    <3>1. \A i \in 1 .. k + 1 : g[i] = IF i = 1 THEN seqs[i] ELSE g[i - 1] \o seqs[i]
      BY <2>2, <2>3
    <3> QED
      BY <3>1 DEF Joined
  <2> QED
    BY <2>4
<1>3. n \in C
  <2> HIDE DEF C
  <2>1. \A i \in 1 .. n : i \in C
    BY <1>1, <1>2, CountingUp
  <2> QED
    BY <2>1
<1> QED
  BY <1>3

\* FlattenSeq takes the last value of a solution.
LEMMA FlattenedIsJoined ==
  ASSUME NEW n \in Nat \ {0}, NEW seqs, DOMAIN seqs = 1 .. n, Len(seqs) = n
  PROVE  \E f : Joined(seqs, n, f) /\ FlattenSeq(seqs) = f[n]
<1> DEFINE f == CHOOSE f : Joined(seqs, n, f)
<1>1. Joined(seqs, n, f)
  BY JoinedExists
<1>2. FlattenSeq(seqs) = f[n]
  BY DEF FlattenSeq, Joined
<1> QED
  BY <1>1, <1>2

\* Pages of any size, one after the other, are the list when there is room on them for all
\* of it: the last ones may be empty.
LEMMA PagesJoin ==
  ASSUME NEW S, NEW list \in Seq(S), NEW n \in Nat \ {0}, NEW size \in Nat \ {0},
         Len(list) <= n * size
  PROVE  FlattenSeq([p \in 1 .. n |-> Page(list, p, size)]) = list
<1> DEFINE pages == [p \in 1 .. n |-> Page(list, p, size)]
           End(k) == IF k * size < Len(list) THEN k * size ELSE Len(list)
<1>1. PICK f : Joined(pages, n, f) /\ FlattenSeq(pages) = f[n]
  <2>1. DOMAIN pages = 1 .. n /\ Len(pages) = n
    OBVIOUS
  <2> HIDE DEF pages
  <2> QED
    BY <2>1, FlattenedIsJoined
<1>2. \A p \in 1 .. n : pages[p] = SubSeq(list, (p - 1) * size + 1, End(p))
  BY DEF Page
<1>3. \A i \in 1 .. n : f[i] = IF i = 1 THEN pages[i] ELSE f[i - 1] \o pages[i]
  BY <1>1, Zenon DEF Joined
<1> HIDE DEF pages
<1> DEFINE C == {k \in Nat : k <= n => f[k] = SubSeq(list, 1, End(k))}
<1>4. 1 \in C
  <2>1. (1 - 1) * size + 1 = 1 /\ 1 \in 1 .. n
    OBVIOUS
  <2> QED
    BY <1>2, <1>3, <2>1
<1>5. ASSUME NEW k \in 1 .. n, k \in C PROVE k + 1 \in C
  <2>1. SUFFICES ASSUME k + 1 <= n PROVE f[k + 1] = SubSeq(list, 1, End(k + 1))
    OBVIOUS
  <2>2. f[k + 1] = f[k] \o pages[k + 1]
    <3>1. k + 1 \in 1 .. n /\ k + 1 # 1 /\ (k + 1) - 1 = k
      BY <2>1
    <3> QED
      BY <1>3, <3>1
  <2>3. f[k] = SubSeq(list, 1, End(k))
    BY <1>5, <2>1
  <2>4. pages[k + 1] = SubSeq(list, k * size + 1, End(k + 1))
    <3>1. k + 1 \in 1 .. n /\ (k + 1) - 1 = k
      BY <2>1
    <3> QED
      BY <1>2, <3>1
  <2>5. /\ Len(list) \in Nat /\ k * size \in Nat /\ (k + 1) * size = k * size + size
        /\ (k + 1) * size \in Nat
    BY LenProperties
  <2>6. CASE k * size < Len(list)
    <3>1. /\ End(k) = k * size /\ k * size \in 0 .. Len(list)
          /\ End(k + 1) \in k * size .. Len(list)
      BY <2>5, <2>6
    <3> HIDE DEF End
    <3>2. SubSeq(list, 1, k * size) \o SubSeq(list, k * size + 1, End(k + 1))
            = SubSeq(list, 1, End(k + 1))
      <4>1. 1 \in 1 .. Len(list) + 1 /\ k * size \in 1 - 1 .. Len(list)
        BY <2>5, <3>1
      <4> QED
        BY <3>1, <4>1, ConcatAdjacentSubSeq
    <3> QED
      BY <2>2, <2>3, <2>4, <3>1, <3>2
  <2>7. CASE k * size >= Len(list)
    <3>1. End(k) = Len(list) /\ End(k + 1) = Len(list)
      BY <2>5, <2>7
    <3>2. SubSeq(list, k * size + 1, Len(list)) = <<>>
      BY <2>5, <2>7, SubSeqEmpty
    <3>3. SubSeq(list, 1, Len(list)) = list
      BY SubSeqFull
    <3>4. list \o <<>> = list
      BY ConcatEmptySeq
    <3> QED
      BY <2>2, <2>3, <2>4, <3>1, <3>2, <3>3, <3>4
  <2> QED
    BY <2>5, <2>6, <2>7
<1>6. \A k \in 1 .. n : k \in C
  <2> HIDE DEF C
  <2> QED
    BY <1>4, <1>5, CountingUp
<1>7. End(n) = Len(list)
  BY LenProperties
<1>8. f[n] = SubSeq(list, 1, Len(list))
  BY <1>6, <1>7
<1> QED
  BY <1>1, <1>8, SubSeqFull DEF pages

\* As many pages of a size as the quotient, and one more, have room for n.
LEMMA PagesFit ==
  ASSUME NEW n \in Nat, NEW size \in Nat \ {0}
  PROVE  n \div size + 1 \in Nat \ {0} /\ n <= (n \div size + 1) * size
<1> DEFINE q == n \div size
<1>1. q \in Nat /\ n < size * q + size
  BY QuotientBounds
<1> HIDE DEF q
<1>2. (q + 1) * size = size * q + size
  BY <1>1
<1>3. q + 1 \in Nat \ {0} /\ n <= (q + 1) * size
  BY <1>1, <1>2
<1> QED
  BY <1>3 DEF q

\* The place of k among the numbers of K: how many of them come no later.
PlaceIn(K, k) == Cardinality({j \in K : j <= k})

\* Places go up by one at each number of K, and stay in between.
LEMMA PlacesCount ==
  ASSUME NEW n \in Nat, NEW K \in SUBSET (1 .. n)
  PROVE  /\ PlaceIn(K, 0) = 0 /\ PlaceIn(K, n) = Cardinality(K)
         /\ \A k \in Nat : PlaceIn(K, k) \in Nat
         /\ \A k \in Nat : PlaceIn(K, k + 1) = PlaceIn(K, k) + (IF k + 1 \in K THEN 1 ELSE 0)
         /\ \A i \in K, k \in Nat : i <= k => PlaceIn(K, i) \in 1 .. PlaceIn(K, k)
<1> DEFINE U(k) == {j \in K : j <= k}
<1>0. \A j \in K : j \in Nat /\ 1 <= j /\ j <= n
  OBVIOUS
<1>1. IsFiniteSet(K)
  <2>1. IsFiniteSet(1 .. n)
    BY FS_Interval
  <2> QED
    BY <2>1, FS_Subset
<1>2. \A k : IsFiniteSet(U(k)) /\ Cardinality(U(k)) \in Nat
  BY <1>1, FS_Subset, FS_CardinalityType
<1>3. U(0) = {} /\ U(n) = K
  <2>1. \A j \in K : ~(j <= 0) /\ j <= n
    BY <1>0
  <2> QED
    BY <2>1, Zenon
<1>4. PlaceIn(K, 0) = 0 /\ PlaceIn(K, n) = Cardinality(K)
  BY <1>3, FS_EmptySet DEF PlaceIn
<1>5. ASSUME NEW k \in Nat
      PROVE  Cardinality(U(k + 1)) = Cardinality(U(k)) + (IF k + 1 \in K THEN 1 ELSE 0)
  <2>0. /\ \A j \in K : j <= k + 1 <=> j <= k \/ j = k + 1
        /\ ~(k + 1 <= k) /\ k + 1 <= k + 1
    BY <1>0
  <2>1. CASE k + 1 \in K
    <3>1. U(k + 1) = U(k) \cup {k + 1} /\ k + 1 \notin U(k)
      BY <2>0, <2>1, Zenon
    <3> HIDE DEF U
    <3> QED
      BY <1>2, <2>1, <3>1, FS_AddElement
  <2>2. CASE k + 1 \notin K
    <3>1. U(k + 1) = U(k)
      BY <2>0, <2>2, Zenon
    <3> HIDE DEF U
    <3> QED
      BY <1>2, <2>2, <3>1
  <2> QED
    BY <2>1, <2>2
<1>6. ASSUME NEW i \in K, NEW k \in Nat, i <= k
      PROVE  Cardinality(U(i)) \in 1 .. Cardinality(U(k))
  <2>1. U(i) \subseteq U(k) /\ i \in U(i)
    <3>1. i <= i /\ \A j \in K : j <= i => j <= k
      BY <1>0, <1>6
    <3> QED
      BY <3>1, Zenon
  <2> HIDE DEF U
  <2>2. Cardinality(U(i)) <= Cardinality(U(k))
    BY <1>2, <2>1, FS_Subset
  <2>3. Cardinality(U(i)) # 0
    BY <1>2, <2>1, FS_EmptySet
  <2> QED
    BY <1>2, <2>2, <2>3
<1> QED
  BY <1>2, <1>4, <1>5, <1>6 DEF PlaceIn

\* s is what is kept of the first k elements: those whose places in the list are in K, each
\* at its place among them.
Sifted(S, list, K, s, k) ==
  /\ s \in Seq(S) /\ Len(s) = PlaceIn(K, k)
  /\ \A i \in K : i <= k => s[PlaceIn(K, i)] = list[i]

\* The elements of a list whose places are in K.
Chosen(list, n, K) == FlattenSeq([i \in 1 .. n |-> IF i \in K THEN <<list[i]>> ELSE <<>>])

\* One more element is kept, at the end, if it is in K.
LEMMA SiftedGrows ==
  ASSUME NEW S, NEW list, NEW n \in Nat, NEW K \in SUBSET (1 .. n), NEW k \in Nat,
         NEW s, Sifted(S, list, K, s, k), NEW t, list[k + 1] \in S,
         t = IF k + 1 \in K THEN <<list[k + 1]>> ELSE <<>>
  PROVE  Sifted(S, list, K, s \o t, k + 1)
<1>1. /\ PlaceIn(K, k) \in Nat
      /\ PlaceIn(K, k + 1) = PlaceIn(K, k) + (IF k + 1 \in K THEN 1 ELSE 0)
      /\ \A i \in K : i <= k => PlaceIn(K, i) \in 1 .. PlaceIn(K, k)
  BY PlacesCount
<1>2. s \in Seq(S) /\ Len(s) = PlaceIn(K, k) /\ \A i \in K : i <= k => s[PlaceIn(K, i)] = list[i]
  BY DEF Sifted
<1>3. /\ t \in Seq(S) /\ Len(t) = (IF k + 1 \in K THEN 1 ELSE 0)
      /\ k + 1 \in K => t[1] = list[k + 1]
  <2>1. CASE k + 1 \in K
    <3>1. t = <<list[k + 1]>>
      BY <2>1
    <3>2. <<list[k + 1]>> \in Seq(S) /\ Len(<<list[k + 1]>>) = 1
          /\ <<list[k + 1]>>[1] = list[k + 1]
      OBVIOUS
    <3> QED
      BY <2>1, <3>1, <3>2
  <2>2. CASE k + 1 \notin K
    <3>1. t = <<>>
      BY <2>2
    <3>2. <<>> \in Seq(S) /\ Len(<<>>) = 0
      BY EmptySeq
    <3> QED
      BY <2>2, <3>1, <3>2
  <2> QED
    BY <2>1, <2>2
<1>4. /\ s \o t \in Seq(S) /\ Len(s \o t) = Len(s) + Len(t)
      /\ \A i \in 1 .. Len(s) + Len(t) :
           (s \o t)[i] = IF i <= Len(s) THEN s[i] ELSE t[i - Len(s)]
  BY <1>2, <1>3, ConcatProperties
<1>5. ASSUME NEW i \in K, i <= k + 1
      PROVE  (s \o t)[PlaceIn(K, i)] = list[i]
  <2>1. CASE i <= k
    <3>1. PlaceIn(K, i) \in 1 .. Len(s)
      BY <1>1, <1>2, <2>1
    <3>2. s[PlaceIn(K, i)] = list[i]
      BY <1>2, <2>1
    <3>3. Len(t) \in Nat /\ Len(s) \in Nat
      BY <1>1, <1>2, <1>3
    <3> HIDE DEF PlaceIn
    <3> QED
      BY <1>4, <3>1, <3>2, <3>3
  <2>2. CASE i = k + 1
    <3>1. /\ PlaceIn(K, i) = Len(s) + 1 /\ Len(s) \in Nat /\ Len(t) = 1
          /\ t[1] = list[i]
      BY <1>1, <1>2, <1>3, <2>2
    <3>2. Len(s) + 1 \in 1 .. Len(s) + Len(t) /\ ~(Len(s) + 1 <= Len(s))
          /\ (Len(s) + 1) - Len(s) = 1
      BY <3>1
    <3> QED
      BY <1>4, <3>1, <3>2
  <2>3. i <= k \/ i = k + 1
    <3>1. i \in Nat
      OBVIOUS
    <3> QED
      BY <1>5, <3>1
  <2> QED
    BY <2>1, <2>2, <2>3
<1> QED
  BY <1>1, <1>2, <1>3, <1>4, <1>5 DEF Sifted

\* A filtered list has the elements that pass and no others, in their order.
LEMMA FilteredList ==
  ASSUME NEW S, NEW list \in Seq(S), NEW n \in Nat \ {0}, Len(list) = n,
         NEW K \in SUBSET (1 .. n)
  PROVE  /\ Chosen(list, n, K) \in Seq(S) /\ Len(Chosen(list, n, K)) = Cardinality(K)
         /\ \A i \in K : Chosen(list, n, K)[PlaceIn(K, i)] = list[i]
<1> DEFINE parts == [i \in 1 .. n |-> IF i \in K THEN <<list[i]>> ELSE <<>>]
<1>1. PICK f : Joined(parts, n, f) /\ FlattenSeq(parts) = f[n]
  <2>1. DOMAIN parts = 1 .. n /\ Len(parts) = n
    OBVIOUS
  <2> HIDE DEF parts
  <2> QED
    BY <2>1, FlattenedIsJoined
<1>2. \A i \in 1 .. n : parts[i] = IF i \in K THEN <<list[i]>> ELSE <<>>
  OBVIOUS
<1>3. \A i \in 1 .. n : f[i] = IF i = 1 THEN parts[i] ELSE f[i - 1] \o parts[i]
  BY <1>1, Zenon DEF Joined
<1>4. Chosen(list, n, K) = f[n]
  BY <1>1 DEF Chosen
<1>5. \A i \in 1 .. n : list[i] \in S
  BY ElementOfSeq
<1> HIDE DEF parts
<1> DEFINE C == {k \in Nat : k <= n => Sifted(S, list, K, f[k], k)}
<1>6. 1 \in C
  <2>1. f[1] = parts[1] /\ 1 \in 1 .. n
    BY <1>3
  <2>2. Sifted(S, list, K, <<>>, 0)
    <3>1. <<>> \in Seq(S) /\ Len(<<>>) = 0 /\ PlaceIn(K, 0) = 0
      BY EmptySeq, PlacesCount
    <3>2. \A i \in K : ~(i <= 0)
      OBVIOUS
    <3> QED
      BY <3>1, <3>2 DEF Sifted
  <2>3. Sifted(S, list, K, <<>> \o parts[1], 0 + 1)
    <3>1. list[0 + 1] \in S /\ 0 \in Nat
      BY <1>5, <2>1
    <3>2. parts[1] = IF 0 + 1 \in K THEN <<list[0 + 1]>> ELSE <<>>
      BY <1>2, <2>1
    <3> QED
      BY <2>2, <3>1, <3>2, SiftedGrows
  <2>4. <<>> \o parts[1] = parts[1]
    <3>1. parts[1] \in Seq(S)
      <4>1. <<list[1]>> \in Seq(S) /\ <<>> \in Seq(S)
        BY <1>5, <2>1, EmptySeq
      <4> QED
        BY <1>2, <2>1, <4>1
    <3> QED
      BY <3>1, ConcatEmptySeq
  <2>5. 0 + 1 = 1
    OBVIOUS
  <2> QED
    BY <2>1, <2>3, <2>4, <2>5
<1>7. ASSUME NEW k \in 1 .. n, k \in C PROVE k + 1 \in C
  <2>1. SUFFICES ASSUME k + 1 <= n PROVE Sifted(S, list, K, f[k + 1], k + 1)
    OBVIOUS
  <2>2. Sifted(S, list, K, f[k], k) /\ k + 1 \in 1 .. n /\ k \in Nat
    BY <1>7, <2>1
  <2>3. f[k + 1] = f[k] \o parts[k + 1]
    <3>1. k + 1 # 1 /\ (k + 1) - 1 = k
      OBVIOUS
    <3> QED
      BY <1>3, <2>2, <3>1
  <2>4. list[k + 1] \in S /\ parts[k + 1] = IF k + 1 \in K THEN <<list[k + 1]>> ELSE <<>>
    BY <1>2, <1>5, <2>2
  <2>5. Sifted(S, list, K, f[k] \o parts[k + 1], k + 1)
    BY <2>2, <2>4, SiftedGrows
  <2> QED
    BY <2>3, <2>5
<1>8. \A k \in 1 .. n : k \in C
  <2> HIDE DEF C
  <2> QED
    BY <1>6, <1>7, CountingUp
<1>9. Sifted(S, list, K, f[n], n) /\ \A i \in K : i <= n
  BY <1>8
<1> QED
  BY <1>4, <1>9, PlacesCount DEF Sifted

------------------------------------------------------------------------------
(* The case list *)

\* What the list tests of a case is what agent, gateway and execution layer have of it.
LEMMA ListedIsAsked ==
  ASSUME CaseInvariant, stage = "ready", NEW i \in DOMAIN batch,
         NEW action, NEW decision, NEW status
  PROVE  Listed(items[i], action, decision, status) <=> Asked(i, action, decision, status)
<1>1. items[i].action = proposals[i].action /\ items[i].decision = results[i].decision
  <2>1. items[i] = ItemOf(i)
    BY DEF CaseInvariant, ItemsShown
  <2> QED
    BY <2>1 DEF ItemOf
<1>2. items[i].record # NoRecord /\ items[i].record.status = status
        <=> Approved(i) /\ RecordAt(i).status = status
  BY ShownRecord
<1> QED
  BY <1>1, <1>2 DEF Listed, Asked

\* Each filter and each size of page shows its cases.
LEMMA PagesOfAFilter ==
  ASSUME CaseInvariant, stage = "ready", NEW action, NEW decision, NEW status,
         NEW size \in 1 .. Len(batch)
  PROVE  PagesShow(action, decision, status, size)
<1> DEFINE S == {ItemOf(i) : i \in DOMAIN batch}
           n == Len(batch)
           asked == {i \in DOMAIN batch : Asked(i, action, decision, status)}
           list == Chosen(items, n, asked)
           pages == 1 .. n \div size + 1
           answers == [p \in pages |-> ListCases(action, decision, status, p, size)]
           shown == FlattenSeq([p \in pages |-> answers[p].items])
<1>1. n \in Nat \ {0} /\ DOMAIN batch = 1 .. n /\ size \in Nat \ {0}
  BY StageFacts DEF CaseInvariant
<1>2. /\ items \in Seq(S) /\ Len(items) = n /\ DOMAIN items = 1 .. n
      /\ asked \in SUBSET (1 .. n)
  <2>1. items = [i \in 1 .. n |-> ItemOf(i)]
    BY <1>1 DEF CaseInvariant, ItemsShown
  <2>2. \A i \in 1 .. n : ItemOf(i) \in S
    BY <1>1
  <2>3. asked \in SUBSET (1 .. n)
    BY <1>1
  <2> HIDE DEF S, asked
  <2> QED
    BY <1>1, <2>1, <2>2, <2>3
<1> HIDE DEF S
<1>3. FlattenSeq([i \in DOMAIN items |->
                    IF Listed(items[i], action, decision, status) THEN <<items[i]>> ELSE <<>>])
        = list
  <2>1. \A i \in 1 .. n : Listed(items[i], action, decision, status) <=> i \in asked
    BY <1>1, ListedIsAsked
  <2>2. [i \in DOMAIN items |->
           IF Listed(items[i], action, decision, status) THEN <<items[i]>> ELSE <<>>]
          = [i \in 1 .. n |-> IF i \in asked THEN <<items[i]>> ELSE <<>>]
    <3> HIDE DEF asked
    <3> QED
      BY <1>2, <2>1
  <2> QED
    BY <2>2, Zenon DEF Chosen
<1>4. /\ list \in Seq(S) /\ Len(list) = Cardinality(asked)
      /\ \A i \in asked : list[PlaceIn(asked, i)] = items[i]
  <2> HIDE DEF asked, n
  <2> QED
    BY <1>1, <1>2, FilteredList
<1>5. Len(list) <= n
  <2>1. IsFiniteSet(1 .. n) /\ Cardinality(1 .. n) = n
    <3>1. 1 \in Int /\ n \in Int
      BY <1>1
    <3>2. Cardinality(1 .. n) = (IF 1 > n THEN 0 ELSE n - 1 + 1) /\ IsFiniteSet(1 .. n)
      BY <3>1, FS_Interval
    <3> QED
      BY <1>1, <3>2
  <2> HIDE DEF asked, list, n
  <2> QED
    BY <1>2, <1>4, <2>1, FS_Subset
<1> HIDE DEF list, asked
<1>6. \A p \in pages : answers[p].total = Len(list) /\ answers[p].items = Page(list, p, size)
  BY <1>3 DEF ListCases
<1>7. FlattenSeq([p \in pages |-> Page(list, p, size)]) = list
  <2> DEFINE m == n \div size + 1
  <2>1. m \in Nat \ {0} /\ Len(list) <= m * size
    <3>1. m \in Nat \ {0} /\ n <= m * size /\ m * size \in Nat
      BY <1>1, PagesFit
    <3>2. Len(list) \in Nat
      BY <1>4, LenProperties
    <3> HIDE DEF m, n
    <3> QED
      BY <1>1, <1>5, <3>1, <3>2
  <2> HIDE DEF m, n
  <2>2. FlattenSeq([p \in 1 .. m |-> Page(list, p, size)]) = list
    BY <1>1, <1>4, <2>1, PagesJoin
  <2> QED
    BY <2>2 DEF m, n
<1>8. [p \in pages |-> answers[p].items] = [p \in pages |-> Page(list, p, size)]
  <2> HIDE DEF answers, pages
  <2> QED
    BY <1>6
<1>9. FlattenSeq([p \in pages |-> answers[p].items]) = list
  <2> HIDE DEF answers, pages
  <2> QED
    BY <1>7, <1>8
<1>10. /\ Len(shown) = Cardinality(asked)
       /\ \A i \in asked : shown[PlaceIn(asked, i)] = items[i]
       /\ \A p \in pages : answers[p].total = Cardinality(asked)
  <2> HIDE DEF answers, pages
  <2> QED
    BY <1>4, <1>6, <1>9
<1> QED
  BY <1>10, Zenon DEF PagesShow, PlaceIn, asked

\* Filtered by any action, decision and execution status, alone or together, and cut into
\* pages of any size, the list shows exactly the cases asked for, in the order of the batch.
THEOREM ThePagesCoverTheList == PipelineSpec => []PagesCoverTheList
<1>1. CaseInvariant => PagesCoverTheList
  <2> SUFFICES ASSUME CaseInvariant, stage = "ready" PROVE PagesCoverTheList
    BY DEF PagesCoverTheList, Finished
  <2>1. \A action, decision, status : \A size \in 1 .. Len(batch) :
          PagesShow(action, decision, status, size)
    BY PagesOfAFilter
  <2> QED
    BY <2>1, Zenon DEF PagesCoverTheList
<1> QED
  BY <1>1, CaseInvariantHolds, PTL
==============================================================================
