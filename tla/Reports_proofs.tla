--------------------------- MODULE Reports_proofs ---------------------------
(***************************************************************************)
(* The replies of the dashboards add up, for any campaigns, leads, writes  *)
(* and window.  The library adds up with a recursive function on the       *)
(* subsets of a set; what it computes is first shown by induction on those *)
(* subsets, the induction itself by the least number of a set of numbers.  *)
(***************************************************************************)
EXTENDS Reports, FunctionTheorems, SequenceTheorems, FiniteSetTheorems,
        WellFoundedInduction, TLAPS

-----------------------------------------------------------------------------
(* Induction on finite sets. *)

\* A set of numbers has a least one.
LEMMA LeastNumber ==
    ASSUME NEW T, T \subseteq Nat, T # {}
    PROVE  \E n \in T : \A k \in T : n <= k
<1>1. PICK R : R = OpToRel(<, Nat)
  OBVIOUS
<1>2. PICK n \in T : \A k \in T : ~ (<<k, n>> \in R)
  BY <1>1, NatLessThanWellFounded, WFMin
<1>3. \A k \in T : ~ (k < n)
  BY <1>1, <1>2 DEF OpToRel
<1> QED
  BY <1>2, <1>3

\* If a family of sets has every set that it has up to any one element, it has
\* every finite set.
LEMMA SubsetInduction ==
    ASSUME NEW S, IsFiniteSet(S), NEW G,
           \A T \in SUBSET S : (\A x \in T : T \ {x} \in G) => T \in G
    PROVE  \A T \in SUBSET S : T \in G
<1> SUFFICES ASSUME \E T \in SUBSET S : T \notin G PROVE FALSE
  OBVIOUS
<1> DEFINE Sizes == {Cardinality(T) : T \in {U \in SUBSET S : U \notin G}}
<1>1. \A T \in SUBSET S : IsFiniteSet(T) /\ Cardinality(T) \in Nat
  BY FS_Subset, FS_CardinalityType
<1>2. Sizes \subseteq Nat /\ Sizes # {}
  BY <1>1
<1>3. PICK n \in Sizes : \A k \in Sizes : n <= k
  <2> HIDE DEF Sizes
  <2> QED
    BY <1>2, LeastNumber
<1>4. PICK T \in SUBSET S : T \notin G /\ n = Cardinality(T)
  BY <1>3
<1>5. ASSUME NEW x \in T PROVE T \ {x} \in G
  <2>1. Cardinality(T \ {x}) = Cardinality(T) - 1
    BY <1>1, FS_RemoveElement
  <2>2. T \ {x} \in SUBSET S
    OBVIOUS
  <2>3. T \ {x} \notin G => Cardinality(T \ {x}) \in Sizes
    BY <2>2
  <2>4. n \in Nat /\ ~ (n <= n - 1)
    BY <1>1, <1>4
  <2> HIDE DEF Sizes
  <2> QED
    BY <1>3, <1>4, <2>1, <2>3, <2>4
<1> QED
  BY <1>4, <1>5

-----------------------------------------------------------------------------
(* What the library's sums compute. *)

\* The element a fold takes next, and what one step of the fold makes of g.
Any(T) == CHOOSE x \in T : TRUE
Step(f, g, T) == IF T = {} THEN 0 ELSE f[Any(T)] + g[T \ {Any(T)}]
Iter(f, S) == CHOOSE g : g = [T \in SUBSET S |-> Step(f, g, T)]

\* SumFunctionOnSet is the value of that function on the whole set.
LEMMA SumIsIter ==
    ASSUME NEW f, NEW S PROVE SumFunctionOnSet(f, S) = Iter(f, S)[S]
BY DEF SumFunctionOnSet, FoldFunctionOnSet, MapThenFoldSet, Iter, Step, Any

\* A set that is not empty loses one element to Any.
LEMMA AnyIn == ASSUME NEW T, T # {} PROVE Any(T) \in T
BY DEF Any

\* The subsets of up to n elements; there is such a function on them.
UpTo(S, n) == {T \in SUBSET S : Cardinality(T) <= n}
FoldsUpTo(g, f, S, n) == g = [T \in UpTo(S, n) |-> Step(f, g, T)]

LEMMA IterUpTo ==
    ASSUME NEW f, NEW S, IsFiniteSet(S), NEW n \in Nat
    PROVE  \E g : FoldsUpTo(g, f, S, n)
<1> DEFINE Bad == {k \in Nat : ~ \E g : FoldsUpTo(g, f, S, k)}
<1> SUFFICES ASSUME Bad # {} PROVE FALSE
  OBVIOUS
<1>1. \A T \in SUBSET S : IsFiniteSet(T) /\ Cardinality(T) \in Nat
  BY FS_Subset, FS_CardinalityType
<1>2. PICK k \in Bad : \A j \in Bad : k <= j
  <2>1. Bad \subseteq Nat
    OBVIOUS
  <2> HIDE DEF Bad
  <2> QED
    BY <2>1, LeastNumber
<1>3. k # 0
  <2> SUFFICES ASSUME k = 0 PROVE FALSE
    OBVIOUS
  <2>1. \A T \in UpTo(S, 0) : T = {}
    BY <1>1, FS_EmptySet DEF UpTo
  <2> DEFINE g == [T \in UpTo(S, 0) |-> 0]
  <2>2. FoldsUpTo(g, f, S, 0)
    BY <2>1 DEF Step, FoldsUpTo
  <2> QED
    BY <2>2
<1>4. k - 1 \in Nat /\ k - 1 \notin Bad
  <2>1. k - 1 \in Nat /\ ~ (k <= k - 1)
    BY <1>3
  <2> HIDE DEF Bad
  <2> QED
    BY <1>2, <2>1
<1>5. PICK g : FoldsUpTo(g, f, S, k-1)
  BY <1>4
<1> DEFINE h == [T \in UpTo(S, k) |-> Step(f, g, T)]
<1>6. ASSUME NEW T \in UpTo(S, k) PROVE Step(f, g, T) = Step(f, h, T)
  <2>1. CASE T = {}
    BY <2>1 DEF Step
  <2>2. CASE T # {}
    <3> DEFINE U == T \ {Any(T)}
    <3>1. U \in UpTo(S, k-1) /\ U \in UpTo(S, k)
      <4>1. Cardinality(U) = Cardinality(T) - 1 /\ U \in SUBSET S
        BY <1>1, <2>2, AnyIn, FS_RemoveElement DEF UpTo
      <4>2. Cardinality(T) \in Nat /\ Cardinality(T) <= k
        BY <1>1 DEF UpTo
      <4> QED
        BY <4>1, <4>2 DEF UpTo
    <3>2. h[U] = Step(f, g, U)
      BY <3>1
    <3>3. g[U] = Step(f, g, U)
      <4> HIDE DEF U
      <4> QED
        BY <1>5, <3>1 DEF FoldsUpTo
    <3> QED
      BY <2>2, <3>2, <3>3 DEF Step
  <2> QED
    BY <2>1, <2>2
<1>7. FoldsUpTo(h, f, S, k)
  <2>1. h = [T \in UpTo(S, k) |-> Step(f, g, T)]
    OBVIOUS
  <2> HIDE DEF h
  <2> QED
    BY <1>6, <2>1 DEF FoldsUpTo
<1> QED
  BY <1>2, <1>7

\* The fold of a finite set goes by its equation.
LEMMA IterAt ==
    ASSUME NEW f, NEW S, IsFiniteSet(S), NEW T \in SUBSET S
    PROVE  Iter(f, S)[T] = Step(f, Iter(f, S), T)
<1>1. UpTo(S, Cardinality(S)) = SUBSET S /\ Cardinality(S) \in Nat
  BY FS_Subset, FS_CardinalityType DEF UpTo
<1>2. \E g : g = [U \in SUBSET S |-> Step(f, g, U)]
  <2>1. \E g : FoldsUpTo(g, f, S, Cardinality(S))
    BY <1>1, IterUpTo
  <2> QED
    BY <1>1, <2>1 DEF FoldsUpTo
<1> DEFINE g == Iter(f, S)
<1>3. g = [U \in SUBSET S |-> Step(f, g, U)]
  BY <1>2 DEF Iter
<1> HIDE DEF g
<1>4. g[T] = Step(f, g, T)
  BY <1>3
<1> QED
  BY <1>4 DEF g

\* It does not matter in which set a subset is folded.
LEMMA IterOfSubset ==
    ASSUME NEW f, NEW S, IsFiniteSet(S), NEW T \in SUBSET S
    PROVE  \A U \in SUBSET T : Iter(f, T)[U] = Iter(f, S)[U]
<1> DEFINE G == {U \in SUBSET T : Iter(f, T)[U] = Iter(f, S)[U]}
<1>1. IsFiniteSet(T)
  BY FS_Subset
<1>2. ASSUME NEW U \in SUBSET T, \A x \in U : U \ {x} \in G PROVE U \in G
  <2>1. Iter(f, T)[U] = Step(f, Iter(f, T), U) /\ Iter(f, S)[U] = Step(f, Iter(f, S), U)
    BY <1>1, IterAt
  <2>2. U # {} => U \ {Any(U)} \in G
    BY <1>2, AnyIn
  <2> QED
    BY <2>1, <2>2 DEF Step
<1>3. \A U \in SUBSET T : U \in G
  <2> HIDE DEF G
  <2> QED
    BY <1>1, <1>2, SubsetInduction
<1> QED
  BY <1>3

\* The sum over a set is one term and the sum over the rest.
LEMMA SumStep ==
    ASSUME NEW f, NEW S, IsFiniteSet(S)
    PROVE  SumFunctionOnSet(f, S) =
              IF S = {} THEN 0
              ELSE f[Any(S)] + SumFunctionOnSet(f, S \ {Any(S)})
<1>1. SumFunctionOnSet(f, S) = Step(f, Iter(f, S), S)
  BY SumIsIter, IterAt
<1>2. S \ {Any(S)} \in SUBSET S
  OBVIOUS
<1>3. Iter(f, S)[S \ {Any(S)}] = SumFunctionOnSet(f, S \ {Any(S)})
  BY <1>2, SumIsIter, IterOfSubset
<1> QED
  BY <1>1, <1>3 DEF Step

\* A sum of numbers is a number.
LEMMA SumType ==
    ASSUME NEW f, NEW S, IsFiniteSet(S), \A x \in S : f[x] \in Nat
    PROVE  \A T \in SUBSET S : SumFunctionOnSet(f, T) \in Nat
<1> DEFINE G == {T \in SUBSET S : SumFunctionOnSet(f, T) \in Nat}
<1>1. ASSUME NEW T \in SUBSET S, \A x \in T : T \ {x} \in G PROVE T \in G
  <2>1. IsFiniteSet(T)
    BY FS_Subset
  <2>2. CASE T = {}
    <3>1. SumFunctionOnSet(f, T) = 0
      BY <2>1, <2>2, SumStep
    <3> QED
      BY <3>1
  <2>3. CASE T # {}
    <3>1. Any(T) \in T /\ f[Any(T)] \in Nat /\ SumFunctionOnSet(f, T \ {Any(T)}) \in Nat
      BY <1>1, <2>3, AnyIn
    <3> QED
      BY <2>1, <2>3, <3>1, SumStep
  <2> QED
    BY <2>2, <2>3
<1>2. \A T \in SUBSET S : T \in G
  <2> HIDE DEF G
  <2> QED
    BY <1>1, SubsetInduction
<1> QED
  BY <1>2

\* A sum may be begun with any of its terms.
LEMMA SumRemove ==
    ASSUME NEW f, NEW S, IsFiniteSet(S), \A x \in S : f[x] \in Nat
    PROVE  \A T \in SUBSET S : \A x \in T :
              SumFunctionOnSet(f, T) = f[x] + SumFunctionOnSet(f, T \ {x})
<1> DEFINE G == {T \in SUBSET S : \A x \in T :
                    SumFunctionOnSet(f, T) = f[x] + SumFunctionOnSet(f, T \ {x})}
<1>1. ASSUME NEW T \in SUBSET S, \A x \in T : T \ {x} \in G PROVE T \in G
  <2> SUFFICES ASSUME NEW x \in T
               PROVE  SumFunctionOnSet(f, T) = f[x] + SumFunctionOnSet(f, T \ {x})
    OBVIOUS
  <2> DEFINE a == Any(T)
  <2>1. IsFiniteSet(T) /\ IsFiniteSet(T \ {x}) /\ IsFiniteSet(T \ {a})
    BY FS_Subset
  <2>2. a \in T /\ SumFunctionOnSet(f, T) = f[a] + SumFunctionOnSet(f, T \ {a})
    BY <2>1, AnyIn, SumStep
  <2>3. CASE x = a
    BY <2>2, <2>3
  <2>4. CASE x # a
    <3>1. T \ {a} \in G /\ T \ {x} \in G /\ x \in T \ {a} /\ a \in T \ {x}
      BY <1>1, <2>2, <2>4
    <3>2. SumFunctionOnSet(f, T \ {a}) = f[x] + SumFunctionOnSet(f, (T \ {a}) \ {x})
      BY <3>1
    <3>3. SumFunctionOnSet(f, T \ {x}) = f[a] + SumFunctionOnSet(f, (T \ {x}) \ {a})
      BY <3>1
    <3>4. (T \ {a}) \ {x} = (T \ {x}) \ {a} /\ (T \ {x}) \ {a} \in SUBSET S
      OBVIOUS
    <3>5. f[a] \in Nat /\ f[x] \in Nat /\ SumFunctionOnSet(f, (T \ {x}) \ {a}) \in Nat
      BY <2>2, <3>4, SumType
    <3>6. SumFunctionOnSet(f, (T \ {a}) \ {x}) = SumFunctionOnSet(f, (T \ {x}) \ {a})
      BY <3>4
    <3> HIDE DEF a
    <3> QED
      BY <2>2, <3>2, <3>3, <3>5, <3>6
  <2> QED
    BY <2>3, <2>4
<1>2. \A T \in SUBSET S : T \in G
  <2> HIDE DEF G
  <2> QED
    BY <1>1, SubsetInduction
<1> QED
  BY <1>2

\* The sum over two sets without a common element.
LEMMA SumUnion ==
    ASSUME NEW f, NEW S, IsFiniteSet(S), \A x \in S : f[x] \in Nat,
           NEW T \in SUBSET S
    PROVE  \A U \in SUBSET (S \ T) : SumFunctionOnSet(f, T \cup U) =
              SumFunctionOnSet(f, T) + SumFunctionOnSet(f, U)
<1> DEFINE G == {U \in SUBSET (S \ T) : SumFunctionOnSet(f, T \cup U) =
                    SumFunctionOnSet(f, T) + SumFunctionOnSet(f, U)}
<1>0. IsFiniteSet(S \ T)
  BY FS_Difference
<1>1. ASSUME NEW U \in SUBSET (S \ T), \A x \in U : U \ {x} \in G PROVE U \in G
  <2>1. CASE U = {}
    <3>1. T \cup U = T /\ SumFunctionOnSet(f, U) = 0
      BY <2>1, SumStep, FS_EmptySet
    <3> QED
      BY <3>1, SumType
  <2>2. CASE U # {}
    <3>1. PICK x : x \in U
      BY <2>2
    <3>2. SumFunctionOnSet(f, T \cup (U \ {x})) =
             SumFunctionOnSet(f, T) + SumFunctionOnSet(f, U \ {x})
      BY <1>1, <3>1
    <3>3. T \cup U \in SUBSET S /\ U \in SUBSET S /\ (T \cup U) \ {x} = T \cup (U \ {x})
      BY <3>1
    <3>4. SumFunctionOnSet(f, T \cup U) = f[x] + SumFunctionOnSet(f, T \cup (U \ {x}))
      BY <3>1, <3>3, SumRemove
    <3>5. SumFunctionOnSet(f, U) = f[x] + SumFunctionOnSet(f, U \ {x})
      BY <3>1, <3>3, SumRemove
    <3>6. f[x] \in Nat /\ SumFunctionOnSet(f, T) \in Nat /\ SumFunctionOnSet(f, U \ {x}) \in Nat
      BY <3>1, SumType
    <3> QED
      BY <3>2, <3>4, <3>5, <3>6
  <2> QED
    BY <2>1, <2>2
<1>2. \A U \in SUBSET (S \ T) : U \in G
  <2> HIDE DEF G
  <2> QED
    BY <1>0, <1>1, SubsetInduction
<1> QED
  BY <1>2

\* Functions that agree on a set have the same sum over it.
LEMMA SumAgree ==
    ASSUME NEW f, NEW g, NEW S, IsFiniteSet(S), \A x \in S : f[x] = g[x]
    PROVE  SumFunctionOnSet(f, S) = SumFunctionOnSet(g, S)
<1> DEFINE G == {T \in SUBSET S : SumFunctionOnSet(f, T) = SumFunctionOnSet(g, T)}
<1>1. ASSUME NEW T \in SUBSET S, \A x \in T : T \ {x} \in G PROVE T \in G
  <2>1. IsFiniteSet(T)
    BY FS_Subset
  <2>2. T # {} => Any(T) \in T /\ T \ {Any(T)} \in G
    BY <1>1, AnyIn
  <2> QED
    BY <2>1, <2>2, SumStep
<1>2. \A T \in SUBSET S : T \in G
  <2> HIDE DEF G
  <2> QED
    BY <1>1, SubsetInduction
<1> QED
  BY <1>2

\* A sum over parts that have no element in common, part by part.
LEMMA SumParts ==
    ASSUME NEW f, NEW S, IsFiniteSet(S), \A x \in S : f[x] \in Nat,
           NEW K, IsFiniteSet(K), NEW part \in [K -> SUBSET S],
           \A j, k \in K : j # k => part[j] \cap part[k] = {}
    PROVE  SumFunctionOnSet([k \in K |-> SumFunctionOnSet(f, part[k])], K) =
              SumFunctionOnSet(f, UNION {part[k] : k \in K})
<1> DEFINE g == [k \in K |-> SumFunctionOnSet(f, part[k])]
           Whole(L) == UNION {part[k] : k \in L}
           G == {L \in SUBSET K : SumFunctionOnSet(g, L) = SumFunctionOnSet(f, Whole(L))}
<1>1. \A k \in K : g[k] \in Nat
  BY SumType
<1>2. ASSUME NEW L \in SUBSET K, \A k \in L : L \ {k} \in G PROVE L \in G
  <2>1. CASE L = {}
    <3>1. Whole(L) = {}
      BY <2>1
    <3> QED
      BY <2>1, <3>1, SumStep, FS_EmptySet
  <2>2. CASE L # {}
    <3>1. PICK k : k \in L
      BY <2>2
    <3>2. /\ Whole(L) = Whole(L \ {k}) \cup part[k] /\ Whole(L \ {k}) \in SUBSET S
          /\ part[k] \in SUBSET (S \ Whole(L \ {k}))
      BY <3>1
    <3>3. SumFunctionOnSet(g, L \ {k}) = SumFunctionOnSet(f, Whole(L \ {k}))
      BY <1>2, <3>1
    <3> HIDE DEF Whole
    <3>4. SumFunctionOnSet(f, Whole(L)) =
             SumFunctionOnSet(f, Whole(L \ {k})) + SumFunctionOnSet(f, part[k])
      <4> DEFINE W == Whole(L \ {k})
      <4>0. W \in SUBSET S
        BY <3>2
      <4> HIDE DEF W
      <4>1. \A V \in SUBSET (S \ W) :
               SumFunctionOnSet(f, W \cup V) =
                  SumFunctionOnSet(f, W) + SumFunctionOnSet(f, V)
        BY <4>0, SumUnion
      <4> USE DEF W
      <4> QED
        BY <3>2, <4>1
    <3>5. g[k] = SumFunctionOnSet(f, part[k])
      BY <3>1
    <3> HIDE DEF g
    <3>6. SumFunctionOnSet(g, L) = g[k] + SumFunctionOnSet(g, L \ {k})
      BY <1>1, <3>1, SumRemove
    <3>7. SumFunctionOnSet(f, Whole(L \ {k})) \in Nat /\ g[k] \in Nat
      BY <1>1, <3>1, <3>2, SumType
    <3> QED
      BY <3>3, <3>4, <3>5, <3>6, <3>7
  <2> QED
    BY <2>1, <2>2
<1>3. \A L \in SUBSET K : L \in G
  <2> HIDE DEF G
  <2> QED
    BY <1>2, SubsetInduction
<1> QED
  BY <1>3

\* To count is to sum up ones.
LEMMA SumOfOnes ==
    ASSUME NEW f, NEW S, IsFiniteSet(S), \A x \in S : f[x] = 1
    PROVE  \A T \in SUBSET S : SumFunctionOnSet(f, T) = Cardinality(T)
<1> DEFINE G == {T \in SUBSET S : SumFunctionOnSet(f, T) = Cardinality(T)}
<1>1. ASSUME NEW T \in SUBSET S, \A x \in T : T \ {x} \in G PROVE T \in G
  <2>1. IsFiniteSet(T) /\ Cardinality(T) \in Nat
    BY FS_Subset, FS_CardinalityType
  <2>2. CASE T = {}
    <3>1. SumFunctionOnSet(f, T) = 0 /\ Cardinality(T) = 0
      BY <2>1, <2>2, SumStep, FS_EmptySet
    <3> QED
      BY <3>1
  <2>3. CASE T # {}
    <3>1. Any(T) \in T /\ f[Any(T)] = 1 /\ T \ {Any(T)} \in G
      BY <1>1, <2>3, AnyIn
    <3>2. Cardinality(T \ {Any(T)}) = Cardinality(T) - 1
      BY <2>1, <3>1, FS_RemoveElement
    <3>3. SumFunctionOnSet(f, T) = 1 + SumFunctionOnSet(f, T \ {Any(T)})
      BY <2>1, <2>3, <3>1, SumStep
    <3> QED
      BY <2>1, <3>1, <3>2, <3>3
  <2> QED
    BY <2>2, <2>3
<1>2. \A T \in SUBSET S : T \in G
  <2> HIDE DEF G
  <2> QED
    BY <1>1, SubsetInduction
<1> QED
  BY <1>2

\* A set is counted part by part.
LEMMA CountParts ==
    ASSUME NEW S, IsFiniteSet(S), NEW K, IsFiniteSet(K), NEW part \in [K -> SUBSET S],
           \A j, k \in K : j # k => part[j] \cap part[k] = {},
           UNION {part[k] : k \in K} = S
    PROVE  SumFunctionOnSet([k \in K |-> Cardinality(part[k])], K) = Cardinality(S)
<1> DEFINE f == [x \in S |-> 1]
           g == [k \in K |-> SumFunctionOnSet(f, part[k])]
           h == [k \in K |-> Cardinality(part[k])]
<1>1. \A x \in S : f[x] = 1
  OBVIOUS
<1> HIDE DEF f
<1>2. \A T \in SUBSET S : SumFunctionOnSet(f, T) = Cardinality(T)
  BY <1>1, SumOfOnes
<1>3. SumFunctionOnSet(g, K) = SumFunctionOnSet(f, S)
  BY <1>1, SumParts
<1>4. \A k \in K : g[k] = h[k]
  BY <1>2
<1> HIDE DEF g, h
<1>5. SumFunctionOnSet(g, K) = SumFunctionOnSet(h, K)
  BY <1>4, SumAgree
<1> QED
  BY <1>2, <1>3, <1>5 DEF h

-----------------------------------------------------------------------------
(* What is always so of the tables and of a reply under way. *)

ExecRow == [status : ExecStatus, retry_status : RetryStatus, attempt_number : Nat,
            next_retry_at : NextRetryAt, context : [retry_history : SUBSET Nat],
            outcome : CallOutcomes \cup {"none"}, day : Nat]

\* A parked row has failed, a row that is done with has completed, and a row whose
\* call is still to come or under way waits for no retry; d is the day.
RowInv(r, d) ==
    /\ r \in ExecRow /\ r.day <= d
    /\ r.status \in {"queued", "running"} => r.retry_status = "pending"
    /\ r.retry_status = "scheduled" => r.status = "failed"
    /\ r.retry_status = "completed" => r.status = "completed"

CallRow == [campaign : Campaigns, amd_result : {"none", "human", "voicemail"},
            dropped : BOOLEAN, parent : Nat]

\* Only a voicemail has the recording played to it.
CallInv(call) == call \in CallRow /\ (call.dropped => call.amd_result = "voicemail")

ClockInv == today \in 0..MaxDay /\ writes \in Nat

RowsInv ==
    /\ execRows = [x \in Campaigns \X Contacts |-> execRows[x]]
    /\ \A x \in Campaigns \X Contacts : execRows[x] # NoRow => RowInv(execRows[x], today)

ActivityInv == activity \in [Activities \X Contacts \X (0..MaxDay) -> Nat]

PhoneInv ==
    /\ phoneLog = [i \in DOMAIN phoneLog |-> phoneLog[i]]
    /\ DOMAIN phoneLog \subseteq 1..writes
    /\ \A i \in DOMAIN phoneLog : CallInv(phoneLog[i])

TurnsInv ==
    /\ aiCall \in [turns : Nat, final : BOOLEAN, summary : Nat, late : BOOLEAN]
    /\ aiCall.final /\ ~aiCall.late => aiCall.summary = aiCall.turns

TablesInv == ClockInv /\ RowsInv /\ ActivityInv /\ PhoneInv /\ TurnsInv

\* An execution goes with its campaign.
HomeInv ==
    /\ camps = [c \in Campaigns |-> camps[c]]
    /\ \A x \in RowsOfLeads : camps[x[1]] # "gone"

\* The kinds of reply that are added up.
Added == {"email", "linkedin", "call", "funnel", "workflows", "metrics", "monitor"}

\* Without a write in between, each query saw what it would see now; the list of AI
\* calls shows the turns of its call, whatever was written.
ReplyInv ==
    /\ reply = [kind |-> reply.kind, since |-> reply.since, saw |-> reply.saw,
                quiet |-> reply.quiet]
    /\ reply.since \in Nat /\ reply.quiet \in BOOLEAN
    /\ Len(reply.saw) \in Nat /\ reply.saw = [i \in 1..Len(reply.saw) |-> reply.saw[i]]
    /\ reply.kind = "none" => reply.saw = <<>>
    /\ reply.quiet /\ reply.kind \in Added =>
          \A i \in 1..Len(reply.saw) : reply.saw[i] \in Answers(reply.kind, i)
    /\ reply.kind = "list_calls" /\ Len(reply.saw) > 0 /\ reply.saw[1].final =>
          /\ aiCall.final
          /\ ~aiCall.late => reply.saw[1].turns = aiCall.turns
          /\ ~aiCall.late /\ Len(reply.saw) = 2 => reply.saw[2] = aiCall.turns

ReportsInv == TablesInv /\ ReplyInv

-----------------------------------------------------------------------------
(* The tables. *)

\* They are right at first, where the executions that are there are.
LEMMA TablesInit ==
    ASSUME NEW begun, \A x \in DOMAIN begun : RowInv(begun[x], 0), ReportsBegin(begun)
    PROVE  TablesInv
<1>1. ClockInv
  BY ReportsAssumption DEF ReportsBegin, ClockInv
<1>2. RowsInv
  BY DEF ReportsBegin, RowsInv
<1>3. ActivityInv
  BY DEF ReportsBegin, ActivityInv
<1>4. PhoneInv
  BY DEF ReportsBegin, PhoneInv
<1>5. TurnsInv
  BY DEF ReportsBegin, TurnsInv
<1> QED
  BY <1>1, <1>2, <1>3, <1>4, <1>5 DEF TablesInv

\* What the end of a call writes into a row leaves its columns typed.
Rewritten(r, s, t, n, w, c, o) ==
    [r EXCEPT !.status = s, !.retry_status = t, !.attempt_number = n,
              !.next_retry_at = w, !.context = c, !.outcome = o]

LEMMA RowRewritten ==
    ASSUME NEW r \in ExecRow, NEW s \in ExecStatus, NEW t \in RetryStatus, NEW n \in Nat,
           NEW w \in NextRetryAt, NEW c \in [retry_history : SUBSET Nat],
           NEW o \in CallOutcomes \cup {"none"}
    PROVE  Rewritten(r, s, t, n, w, c, o) \in ExecRow /\ Rewritten(r, s, t, n, w, c, o).day = r.day
BY DEF ExecRow, Rewritten

\* A write to one row of executions leaves them right when the row is.
LEMMA RowWrite ==
    ASSUME RowsInv, NEW x \in Campaigns \X Contacts, NEW r, RowInv(r, today),
           execRows' = [execRows EXCEPT ![x] = r], today' = today
    PROVE  RowsInv'
<1>1. \A y \in Campaigns \X Contacts : execRows'[y] = IF y = x THEN r ELSE execRows[y]
  BY DEF RowsInv
<1>2. execRows' = [y \in Campaigns \X Contacts |-> execRows'[y]]
  BY DEF RowsInv
<1> QED
  BY <1>1, <1>2 DEF RowsInv

\* Rows stay right as days pass.
LEMMA RowsStay ==
    ASSUME RowsInv, ClockInv, ClockInv', execRows' = execRows, today <= today'
    PROVE  RowsInv'
<1> SUFFICES ASSUME NEW x \in Campaigns \X Contacts, execRows[x] # NoRow
             PROVE  RowInv(execRows[x], today')
  BY DEF RowsInv
<1>1. RowInv(execRows[x], today)
  BY DEF RowsInv
<1>2. execRows[x].day \in Nat /\ today \in Nat /\ today' \in Nat
  BY <1>1, ReportsAssumption DEF RowInv, ExecRow, ClockInv
<1> QED
  BY <1>1, <1>2 DEF RowInv

\* Nothing else is touched by a writer of one table.
LEMMA WriteClock == ASSUME ClockInv, Writes, today' = today PROVE ClockInv'
BY DEF ClockInv, Writes

LEMMA PhoneStay == ASSUME PhoneInv, ClockInv, Writes, phoneLog' = phoneLog PROVE PhoneInv'
<1>1. \A i \in 1..writes : i \in 1..writes'
  BY DEF ClockInv, Writes
<1> QED
  BY <1>1 DEF PhoneInv

\* A writer leaves the tables right.
LEMMA TablesWriter == ASSUME TablesInv, Writer PROVE TablesInv'
<1> USE DEF TablesInv
<1>1. ASSUME NEW x \in Campaigns \X Contacts, EnqueueLead(x) PROVE TablesInv'
  <2>1. RowInv(FreshRow(today), today)
    BY ReportsAssumption DEF ClockInv, RowInv, ExecRow, FreshRow, ExecStatus, RetryStatus,
       NextRetryAt
  <2>2. RowsInv'
    BY <1>1, <2>1, RowWrite DEF EnqueueLead
  <2> QED
    BY <1>1, <2>2, WriteClock, PhoneStay DEF EnqueueLead, ActivityInv, TurnsInv
<1>2. ASSUME NEW x \in Campaigns \X Contacts, StartCall(x) PROVE TablesInv'
  <2>1. RowInv(execRows[x], today) /\ execRows[x].status = "queued"
    BY <1>2 DEF StartCall, RowsInv, NoRow
  <2>2. RowInv([execRows[x] EXCEPT !.status = "running"], today)
    BY <2>1 DEF RowInv, ExecRow, ExecStatus
  <2>3. RowsInv'
    BY <1>2, <2>2, RowWrite DEF StartCall
  <2> QED
    BY <1>2, <2>3, WriteClock, PhoneStay DEF StartCall, ActivityInv, TurnsInv
<1>3. ASSUME NEW x \in Campaigns \X Contacts, EndCall(x) PROVE TablesInv'
  <2>1. PICK o \in CallOutcomes : execRows' = [execRows EXCEPT ![x] = Ended(execRows[x], o)]
    BY <1>3 DEF EndCall
  <2>2. RowInv(execRows[x], today)
    BY <1>3 DEF EndCall, RowsInv, NoRow
  <2>3. RowInv(Ended(execRows[x], o), today)
    <3> DEFINE r == execRows[x]
    <3>1. r \in ExecRow /\ r.day <= today
      BY <2>2 DEF RowInv
    <3>2. RetryStatusAfter(r, o) \in {"completed", "none", "scheduled", "exhausted"}
      BY DEF RetryStatusAfter
    <3>3. Ended(r, o) \in ExecRow /\ Ended(r, o).day = r.day
      <4> DEFINE context == [r.context EXCEPT !.retry_history = @ \cup {r.attempt_number}]
             done  == IF IsRetryable(o) THEN "failed" ELSE "completed"
             next  == RetryStatusAfter(r, o)
             tries == IF Again(r, o) THEN r.attempt_number + 1 ELSE r.attempt_number
             wake  == IF Again(r, o) THEN "later" ELSE "none"
      <4>1. context \in [retry_history : SUBSET Nat]
        BY <3>1 DEF ExecRow
      <4>2. Ended(r, o) = Rewritten(r, done, next, tries, wake, context, o)
        BY <3>1 DEF ExecRow, Ended, ProcessOutcome, AttemptThatRan, Rewritten
      <4>3. done \in ExecStatus /\ next \in RetryStatus /\ tries \in Nat /\ wake \in NextRetryAt
        BY <3>1, <3>2 DEF ExecRow, ExecStatus, RetryStatus, NextRetryAt
      <4>4. o \in CallOutcomes \cup {"none"}
        OBVIOUS
      <4> HIDE DEF r, context, done, next, tries, wake
      <4>5. /\ Rewritten(r, done, next, tries, wake, context, o) \in ExecRow
            /\ Rewritten(r, done, next, tries, wake, context, o).day = r.day
        BY <3>1, <4>1, <4>3, <4>4, RowRewritten
      <4> QED
        BY <4>2, <4>5, Zenon
    <3>4. /\ Ended(r, o).status = IF IsRetryable(o) THEN "failed" ELSE "completed"
          /\ Ended(r, o).retry_status = RetryStatusAfter(r, o)
      BY <3>1 DEF ExecRow, Ended, ProcessOutcome
    <3>5. ~IsRetryable(o) <=> RetryStatusAfter(r, o) = "completed"
      BY DEF RetryStatusAfter
    <3> HIDE DEF r
    <3>6. RetryStatusAfter(r, o) = "scheduled" => Ended(r, o).status = "failed"
      BY <3>4, <3>5
    <3>7. Ended(r, o).status \notin {"queued", "running"} /\ Ended(r, o).day <= today
      BY <3>1, <3>3, <3>4
    <3>8. RetryStatusAfter(r, o) = "completed" => Ended(r, o).status = "completed"
      BY <3>4, <3>5
    <3> QED
      BY <3>3, <3>4, <3>6, <3>7, <3>8 DEF RowInv, r
  <2>4. RowsInv'
    BY <1>3, <2>1, <2>3, RowWrite DEF EndCall
  <2> QED
    BY <1>3, <2>4, WriteClock, PhoneStay DEF EndCall, ActivityInv, TurnsInv
<1>4. ASSUME NEW x \in Campaigns \X Contacts, RequeueRetry(x) PROVE TablesInv'
  <2>1. RowInv(execRows[x], today)
    BY <1>4 DEF RequeueRetry, RowsInv
  <2>2. RowInv(Restarted(execRows[x]), today)
    BY <2>1 DEF RowInv, ExecRow, ExecStatus, RetryStatus, NextRetryAt, Restarted
  <2>3. RowsInv'
    BY <1>4, <2>2, RowWrite DEF RequeueRetry
  <2> QED
    BY <1>4, <2>3, WriteClock, PhoneStay DEF RequeueRetry, ActivityInv, TurnsInv
<1>5. ASSUME NEW type \in Activities, NEW l \in Contacts, LogActivity(type, l) PROVE TablesInv'
  <2>1. ActivityInv'
    BY <1>5 DEF LogActivity, ActivityInv, ClockInv
  <2>2. ClockInv' /\ RowsInv'
    BY <1>5, WriteClock DEF LogActivity, RowsInv
  <2> QED
    BY <1>5, <2>1, <2>2, PhoneStay DEF LogActivity, TurnsInv
<1>6. ASSUME NEW l \in Contacts, QualifyLead(l) PROVE TablesInv'
  <2>1. ClockInv' /\ RowsInv'
    BY <1>6, WriteClock DEF QualifyLead, RowsInv
  <2> QED
    BY <1>6, <2>1, PhoneStay DEF QualifyLead, TurnsInv, ActivityInv
<1>7. ASSUME NEW c \in Campaigns, NEW parent \in {0} \cup DOMAIN phoneLog, AddCall(c, parent)
      PROVE  TablesInv'
  <2> DEFINE call == [campaign |-> c, amd_result |-> "none", dropped |-> FALSE,
                      parent |-> parent]
  <2>1. CallInv(call)
    <3>1. parent \in Nat
      BY <1>7 DEF PhoneInv, ClockInv
    <3> QED
      BY <3>1 DEF CallInv, CallRow
  <2>2. phoneLog' = [i \in DOMAIN phoneLog \cup {writes + 1} |->
                        IF i \in DOMAIN phoneLog THEN phoneLog[i] ELSE call]
    BY <1>7 DEF AddCall
  <2> HIDE DEF call
  <2>3. DOMAIN phoneLog \cup {writes + 1} \subseteq 1..writes'
    BY <1>7 DEF AddCall, Writes, PhoneInv, ClockInv
  <2>4. PhoneInv'
    BY <2>1, <2>2, <2>3 DEF PhoneInv
  <2>5. ClockInv' /\ RowsInv'
    BY <1>7, WriteClock DEF AddCall, RowsInv
  <2> QED
    BY <1>7, <2>4, <2>5 DEF AddCall, TurnsInv, ActivityInv
<1>8. ASSUME NEW i \in DOMAIN phoneLog, ClassifyCall(i) PROVE TablesInv'
  <2>1. PICK result \in {"human", "voicemail"} :
           phoneLog' = [phoneLog EXCEPT ![i].amd_result = result,
                                        ![i].dropped = result = "voicemail"]
    BY <1>8 DEF ClassifyCall
  <2> DEFINE call == [phoneLog[i] EXCEPT !.amd_result = result,
                                         !.dropped = result = "voicemail"]
  <2>2. CallInv(phoneLog[i])
    BY DEF PhoneInv
  <2>3. CallInv(call)
    BY <2>2 DEF CallInv, CallRow
  <2>4. phoneLog' = [j \in DOMAIN phoneLog |-> IF j = i THEN call ELSE phoneLog[j]]
    BY <2>1, <2>2 DEF PhoneInv, CallInv, CallRow
  <2> HIDE DEF call
  <2>5. DOMAIN phoneLog \subseteq 1..writes'
    BY <1>8 DEF ClassifyCall, Writes, PhoneInv, ClockInv
  <2>6. PhoneInv'
    BY <2>3, <2>4, <2>5 DEF PhoneInv
  <2>7. ClockInv' /\ RowsInv'
    BY <1>8, WriteClock DEF ClassifyCall, RowsInv
  <2> QED
    BY <1>8, <2>6, <2>7 DEF ClassifyCall, TurnsInv, ActivityInv
<1>9. ASSUME NEW c \in Campaigns, DeleteCampaign(c) PROVE TablesInv'
  <2>1. phoneLog' = [i \in {j \in DOMAIN phoneLog : phoneLog[j].campaign # c} |-> phoneLog[i]]
    BY <1>9 DEF DeleteCampaign, Restrict
  <2>2. DOMAIN phoneLog \subseteq 1..writes'
    BY <1>9 DEF DeleteCampaign, Writes, PhoneInv, ClockInv
  <2>3. PhoneInv'
    BY <2>1, <2>2 DEF PhoneInv
  <2>4. ClockInv' /\ today' = today
    BY <1>9, WriteClock DEF DeleteCampaign
  <2>5. execRows' = [x \in Campaigns \X Contacts |-> IF x[1] = c THEN NoRow ELSE execRows[x]]
    BY <1>9 DEF DeleteCampaign, RowsInv
  <2>6. RowsInv'
    BY <2>4, <2>5 DEF RowsInv
  <2> QED
    BY <1>9, <2>3, <2>4, <2>6 DEF DeleteCampaign, TurnsInv, ActivityInv
<1>10. CASE SaveTurn
  <2>1. ClockInv' /\ RowsInv' /\ PhoneInv'
    BY <1>10, WriteClock, PhoneStay DEF SaveTurn, RowsInv
  <2>2. aiCall' = [turns |-> aiCall.turns + 1, final |-> aiCall.final,
                   summary |-> aiCall.summary, late |-> aiCall.final]
    BY <1>10 DEF SaveTurn, TurnsInv
  <2>3. TurnsInv'
    BY <2>2 DEF TurnsInv
  <2> QED
    BY <1>10, <2>1, <2>3 DEF SaveTurn, ActivityInv
<1>11. CASE FinalizeCall
  <2>1. ClockInv' /\ RowsInv' /\ PhoneInv'
    BY <1>11, WriteClock, PhoneStay DEF FinalizeCall, RowsInv
  <2> QED
    BY <1>11, <2>1 DEF FinalizeCall, TurnsInv, ActivityInv
<1>12. CASE Midnight
  <2>1. ClockInv' /\ today <= today' /\ execRows' = execRows
    BY <1>12, ReportsAssumption DEF Midnight, ClockInv, Writes
  <2>2. RowsInv'
    BY <2>1, RowsStay
  <2> QED
    BY <1>12, <2>1, <2>2, PhoneStay DEF Midnight, TurnsInv, ActivityInv
<1> QED
  BY <1>1, <1>2, <1>3, <1>4, <1>5, <1>6, <1>7, <1>8, <1>9, <1>10, <1>11, <1>12 DEF Writer

-----------------------------------------------------------------------------
(* The replies. *)

\* A query that is run again with no write in between sees the same.
LEMMA SameAgain ==
    ASSUME UNCHANGED tables, reply'.since = reply.since
    PROVE  \A kind \in Added : \A i : Answers(kind, i)' = Answers(kind, i)
<1>1. RowsOfLeads' = RowsOfLeads /\ Window' = Window
  BY DEF tables, RowsOfLeads, Window
<1>2. Recent' = Recent
  BY <1>1 DEF Recent, tables
<1>3. Finished' = Finished
  BY <1>2 DEF Finished, tables
<1>4. Rows' = Rows
  BY <1>1 DEF Rows
<1>5. \A s : OfStatus(s)' = OfStatus(s) /\ OfRetry(s)' = OfRetry(s)
  BY <1>4 DEF OfStatus, OfRetry, tables
<1>6. TheCalls' = TheCalls
  BY DEF TheCalls, tables
<1>7. \A a : Detected(a)' = Detected(a)
  BY <1>6 DEF Detected, tables
<1>8. \A type, ds : Logged(type, ds)' = Logged(type, ds)
  BY DEF Logged, tables
<1>9. EmailTotals' = EmailTotals /\ LinkedInTotals' = LinkedInTotals
  BY <1>1, <1>8 DEF EmailTotals, LinkedInTotals
<1>10. EmailTrend' = EmailTrend
  BY <1>1, <1>8 DEF EmailTrend
<1>11. LinkedInTrend' = LinkedInTrend
  BY <1>1, <1>8 DEF LinkedInTrend
<1>12. \A S, classes : ByClass(S, classes)' = ByClass(S, classes)
  BY DEF ByClass, tables
<1>13. CallTotals' = CallTotals
  BY <1>3, <1>12 DEF CallTotals
<1>14. CallTrend' = CallTrend
  BY <1>1, <1>3, <1>12 DEF CallTrend, tables
<1>15. \A i : Funnel(i)' = Funnel(i)
  BY <1>1, <1>2 DEF Funnel, LeadsOf, tables
<1>16. \A i : WorkflowAnalytics(i)' = WorkflowAnalytics(i)
  BY <1>2 DEF WorkflowAnalytics, tables
<1>17. StatusCounts' = StatusCounts
  BY <1>5 DEF StatusCounts
<1>18. RetryStats' = RetryStats
  BY <1>4, <1>5 DEF RetryStats, tables
<1>19. \A i : VoicemailMetrics(i)' = VoicemailMetrics(i)
  BY <1>6, <1>7 DEF VoicemailMetrics, tables
<1>20. \A i : Metrics(i)' = Metrics(i)
  BY <1>5, <1>17, <1>18, <1>19 DEF Metrics
<1>21. MonitorRows' = MonitorRows
  BY <1>4 DEF MonitorRows, tables
<1>22. Used' = Used /\ \A c : UsesOf(c)' = UsesOf(c)
  BY <1>2 DEF Used, UsesOf
<1>23. MostUsedWorkflows' = MostUsedWorkflows
  BY <1>22 DEF MostUsedWorkflows
<1>24. \A kind \in Added : \A i : Query(kind, i)' = Query(kind, i)
  BY <1>9, <1>10, <1>11, <1>13, <1>14, <1>15, <1>16, <1>20 DEF Query, Added
<1> QED
  BY <1>21, <1>23, <1>24 DEF Answers

\* The first reply is yet to be asked for.
LEMMA ReplyInit == ASSUME NEW begun, ReportsBegin(begun) PROVE ReplyInv
BY DEF ReportsBegin, ReplyInv, NoReply

\* A writer spoils what a reply says of the tables, not what it shows of the calls.
LEMMA ReplyWriter == ASSUME TablesInv, ReplyInv, Writer PROVE ReplyInv'
<1>1. Writes
  BY DEF Writer, EnqueueLead, StartCall, EndCall, RequeueRetry, LogActivity, QualifyLead,
         AddCall, ClassifyCall, DeleteCampaign, SaveTurn, FinalizeCall, Midnight
<1>2. reply' = [kind |-> reply.kind, since |-> reply.since, saw |-> reply.saw, quiet |-> FALSE]
  BY <1>1 DEF Writes, ReplyInv
<1>3. /\ aiCall.final => aiCall'.final
      /\ aiCall.final /\ ~aiCall'.late => ~aiCall.late /\ aiCall'.turns = aiCall.turns
  <2>1. CASE SaveTurn
    BY <2>1 DEF SaveTurn, TablesInv, TurnsInv
  <2>2. CASE FinalizeCall
    BY <2>2 DEF FinalizeCall, TablesInv, TurnsInv
  <2>3. CASE aiCall' = aiCall
    BY <2>3
  <2> QED
    BY <2>1, <2>2, <2>3 DEF Writer, EnqueueLead, StartCall, EndCall, RequeueRetry,
       LogActivity, QualifyLead, AddCall, ClassifyCall, DeleteCampaign, Midnight
<1> QED
  BY <1>2, <1>3 DEF ReplyInv

\* The next query of a reply.
LEMMA ReplyRead == ASSUME TablesInv, ReplyInv, Read PROVE ReplyInv'
<1> DEFINE n == Len(reply.saw)
<1>0. PICK q \in Answers(reply.kind, n + 1) : reply' = [reply EXCEPT !.saw = Append(@, q)]
  BY DEF Read
<1>1. n \in Nat /\ reply.saw = [i \in 1..n |-> reply.saw[i]]
  BY DEF ReplyInv
<1>2. reply' = [kind |-> reply.kind, since |-> reply.since, saw |-> Append(reply.saw, q),
                quiet |-> reply.quiet]
  BY <1>0 DEF ReplyInv
<1>3. Append(reply.saw, q) = [i \in 1..(n+1) |-> IF i = n + 1 THEN q ELSE reply.saw[i]]
  <2> DEFINE S == {reply.saw[i] : i \in 1..n} \cup {q}
  <2>1. reply.saw \in Seq(S)
    BY <1>1
  <2> QED
    BY <1>1, <2>1
<1>4. /\ reply'.saw = [i \in 1..Len(reply'.saw) |-> reply'.saw[i]] /\ Len(reply'.saw) = n + 1
      /\ reply'.saw[n + 1] = q /\ \A i \in 1..n : reply'.saw[i] = reply.saw[i]
  BY <1>1, <1>2, <1>3
<1>5. ASSUME reply.quiet, reply.kind \in Added, NEW i \in 1..(n+1)
      PROVE  (reply.saw[i] \in Answers(reply.kind, i))'
  <2>1. PICK kind \in Added : kind = reply.kind
    BY <1>5
  <2>2. Answers(kind, i)' = Answers(kind, i)
    BY <1>2, SameAgain DEF Read
  <2>3. reply'.saw[i] \in Answers(kind, i)
    BY <1>0, <1>1, <1>4, <1>5, <2>1 DEF ReplyInv
  <2>4. reply'.kind = kind
    BY <1>2, <2>1
  <2> QED
    BY <2>2, <2>3, <2>4
<1>6. ASSUME reply.kind = "list_calls", reply'.saw[1].final
      PROVE  /\ aiCall.final
             /\ ~aiCall.late => reply'.saw[1].turns = aiCall.turns
             /\ ~aiCall.late /\ n + 1 = 2 => reply'.saw[2] = aiCall.turns
  <2>1. n < 2
    BY <1>6 DEF Read, Length
  <2>2. CASE n = 0
    <3>1. q = [final |-> aiCall.final, turns |-> aiCall.summary]
      BY <1>0, <1>6, <2>2 DEF Answers, Query, ListCalls
    <3> QED
      BY <1>4, <1>6, <2>2, <3>1 DEF TablesInv, TurnsInv
  <2>3. CASE n = 1
    <3>1. q = aiCall.turns
      BY <1>0, <1>6, <2>3 DEF Answers, Query, ListCalls
    <3> QED
      BY <1>4, <1>6, <2>3, <3>1 DEF ReplyInv
  <2> QED
    <3>1. n = 0 \/ n = 1
      <4>1. n \in Nat
        BY <1>1
      <4> HIDE DEF n
      <4> QED
        BY <2>1, <4>1
    <3> QED
      BY <2>2, <2>3, <3>1
<1>7. aiCall' = aiCall
  BY DEF Read, tables
<1>8. /\ reply' = [kind |-> reply'.kind, since |-> reply'.since, saw |-> reply'.saw,
                   quiet |-> reply'.quiet]
      /\ reply'.since \in Nat /\ reply'.quiet \in BOOLEAN
      /\ reply'.kind = reply.kind /\ reply.kind # "none" /\ reply'.quiet = reply.quiet
  BY <1>2 DEF ReplyInv, Read
<1>9. (reply.quiet /\ reply.kind \in Added =>
          \A i \in 1..Len(reply.saw) : reply.saw[i] \in Answers(reply.kind, i))'
  BY <1>4, <1>5, <1>8
<1>10. (reply.kind = "list_calls" /\ Len(reply.saw) > 0 /\ reply.saw[1].final =>
           /\ aiCall.final
           /\ ~aiCall.late => reply.saw[1].turns = aiCall.turns
           /\ ~aiCall.late /\ Len(reply.saw) = 2 => reply.saw[2] = aiCall.turns)'
  BY <1>4, <1>6, <1>7, <1>8
<1>11. Len(reply'.saw) \in Nat
  BY <1>1, <1>4
<1> HIDE DEF n
<1> QED
  BY <1>4, <1>8, <1>9, <1>10, <1>11 DEF ReplyInv

\* The tables stay right, and a reply true to them, in every step.
LEMMA ReportsStep == ASSUME ReportsInv, [ReportsNext]_repVars PROVE ReportsInv'
<1> USE DEF ReportsInv
<1>1. CASE Writer
  BY <1>1, TablesWriter, ReplyWriter
<1>2. ASSUME UNCHANGED tables, UNCHANGED writes PROVE TablesInv'
  BY <1>2 DEF tables, TablesInv, ClockInv, RowsInv, ActivityInv, PhoneInv, TurnsInv
<1>3. CASE Ask
  <2>1. PICK kind \in Kinds :
           reply' = [NoReply EXCEPT !.kind = kind, !.since = Max({0, today - days})]
    BY <1>3 DEF Ask
  <2>2. Max({0, today - days}) \in Nat
    <3>1. today - days \in Int
      BY ReportsAssumption DEF TablesInv, ClockInv
    <3> QED
      BY <3>1 DEF Max
  <2>3. reply' = [kind |-> kind, since |-> Max({0, today - days}), saw |-> <<>>, quiet |-> TRUE]
    BY <2>1 DEF NoReply
  <2>4. Len(reply'.saw) = 0 /\ reply'.saw = [i \in 1..Len(reply'.saw) |-> reply'.saw[i]]
    BY <2>3
  <2>5. (reply.quiet /\ reply.kind \in Added =>
            \A i \in 1..Len(reply.saw) : reply.saw[i] \in Answers(reply.kind, i))'
    BY <2>4
  <2>6. ReplyInv'
    BY <2>2, <2>3, <2>4, <2>5 DEF ReplyInv
  <2> QED
    BY <1>2, <1>3, <2>6 DEF Ask
<1>4. CASE Read
  BY <1>2, <1>4, ReplyRead DEF Read
<1>5. CASE UNCHANGED repVars
  <2>1. \A kind \in Added : \A i : Answers(kind, i)' = Answers(kind, i)
    BY <1>5, SameAgain DEF repVars
  <2>2. ASSUME reply.quiet, reply.kind \in Added, NEW i \in 1..Len(reply.saw)
        PROVE  (reply.saw[i] \in Answers(reply.kind, i))'
    <3>1. PICK kind \in Added : kind = reply.kind
      BY <2>2
    <3>2. reply'.saw[i] \in Answers(kind, i)
      BY <1>5, <2>2, <3>1 DEF ReplyInv, repVars
    <3> QED
      BY <1>5, <2>1, <3>1, <3>2 DEF repVars
  <2>3. reply' = reply /\ aiCall' = aiCall
    BY <1>5 DEF repVars, tables
  <2>4. (reply.quiet /\ reply.kind \in Added =>
            \A i \in 1..Len(reply.saw) : reply.saw[i] \in Answers(reply.kind, i))'
    BY <2>2, <2>3
  <2>5. ReplyInv'
    BY <2>3, <2>4 DEF ReplyInv
  <2> QED
    BY <1>2, <1>5, <2>5 DEF repVars
<1> QED
  BY <1>1, <1>3, <1>4, <1>5 DEF ReportsNext

\* No campaign that is gone has executions.
LEMMA HomeInit == ASSUME NEW begun, ReportsBegin(begun) PROVE HomeInv
BY DEF ReportsBegin, HomeInv, RowsOfLeads

LEMMA HomeStep == ASSUME ReportsInv, HomeInv, [ReportsNext]_repVars PROVE HomeInv'
<1>1. RowsInv
  BY DEF ReportsInv, TablesInv
<1>2. CASE UNCHANGED <<camps, execRows>>
  BY <1>2 DEF HomeInv, RowsOfLeads
<1>3. ASSUME NEW x \in Campaigns \X Contacts, NEW r, camps' = camps, camps[x[1]] # "gone",
             execRows' = [execRows EXCEPT ![x] = r]
      PROVE  HomeInv'
  <2>1. \A y \in Campaigns \X Contacts : y # x => execRows'[y] = execRows[y]
    BY <1>1, <1>3 DEF RowsInv
  <2> QED
    BY <1>3, <2>1 DEF HomeInv, RowsOfLeads
<1>4. ASSUME NEW x \in Campaigns \X Contacts,
             EnqueueLead(x) \/ StartCall(x) \/ EndCall(x) \/ RequeueRetry(x)
      PROVE  HomeInv'
  <2>1. CASE EnqueueLead(x)
    BY <1>3, <2>1 DEF EnqueueLead
  <2>2. CASE StartCall(x) \/ EndCall(x) \/ RequeueRetry(x)
    <3>1. execRows[x] # NoRow /\ camps' = camps
      BY <2>2 DEF StartCall, EndCall, RequeueRetry, NoRow
    <3>2. camps[x[1]] # "gone"
      BY <3>1 DEF HomeInv, RowsOfLeads
    <3>3. \E r : execRows' = [execRows EXCEPT ![x] = r]
      BY <2>2 DEF StartCall, EndCall, RequeueRetry
    <3> QED
      BY <1>3, <3>1, <3>2, <3>3
  <2> QED
    BY <1>4, <2>1, <2>2
<1>5. ASSUME NEW c \in Campaigns, DeleteCampaign(c) PROVE HomeInv'
  <2>1. /\ camps' = [camps EXCEPT ![c] = "gone"]
        /\ execRows' = [x \in Campaigns \X Contacts |-> IF x[1] = c THEN NoRow ELSE execRows[x]]
    BY <1>1, <1>5 DEF DeleteCampaign, RowsInv
  <2>2. \A d \in Campaigns : d # c => camps'[d] = camps[d]
    BY <2>1 DEF HomeInv
  <2>3. \A x \in RowsOfLeads' : x \in RowsOfLeads /\ x[1] # c /\ x[1] \in Campaigns
    BY <2>1 DEF RowsOfLeads
  <2>4. camps' = [d \in Campaigns |-> camps'[d]]
    BY <2>1 DEF HomeInv
  <2> QED
    BY <2>2, <2>3, <2>4 DEF HomeInv
<1> QED
  BY <1>2, <1>4, <1>5
  DEF ReportsNext, Writer, LogActivity, QualifyLead, AddCall, ClassifyCall, SaveTurn,
      FinalizeCall, Midnight, Ask, Read, repVars, tables

-----------------------------------------------------------------------------
(* Adding up. *)

\* The sets that the queries count are finite.
LEMMA FiniteTables ==
    ASSUME TablesInv, reply.since \in Nat
    PROVE  /\ IsFiniteSet(RowsOfLeads) /\ IsFiniteSet(Recent) /\ IsFiniteSet(Finished)
           /\ IsFiniteSet(Rows) /\ IsFiniteSet(TheCalls)
           /\ IsFiniteSet(Window) /\ Window \subseteq 0..MaxDay
<1>1. IsFiniteSet(Campaigns \X Contacts)
  BY ReportsAssumption, FS_Product
<1>2. /\ RowsOfLeads \subseteq Campaigns \X Contacts /\ Recent \subseteq RowsOfLeads
      /\ Finished \subseteq RowsOfLeads /\ Rows \subseteq RowsOfLeads
  BY DEF RowsOfLeads, Recent, Finished, Rows
<1>3. IsFiniteSet(RowsOfLeads)
  BY <1>1, <1>2, FS_Subset
<1>4. IsFiniteSet(TheCalls)
  <2>1. IsFiniteSet(1..writes)
    BY FS_Interval DEF TablesInv, ClockInv
  <2>2. TheCalls \subseteq 1..writes
    BY DEF TheCalls, TablesInv, PhoneInv
  <2> QED
    BY <2>1, <2>2, FS_Subset
<1>5. Window \subseteq 0..MaxDay
  BY ReportsAssumption DEF Window, TablesInv, ClockInv
<1>6. IsFiniteSet(Window)
  BY ReportsAssumption, FS_Interval DEF Window, TablesInv, ClockInv
<1> QED
  BY <1>2, <1>3, <1>4, <1>5, <1>6, FS_Subset

\* The row of an execution that the queries find.
LEMMA RowFound ==
    ASSUME TablesInv, NEW x \in RowsOfLeads
    PROVE  x \in Campaigns \X Contacts /\ RowInv(execRows[x], today)
BY DEF TablesInv, RowsInv, RowsOfLeads

\* The days of a window add up to the window.
LEMMA LoggedByDay ==
    ASSUME TablesInv, reply.since \in Nat, NEW type
    PROVE  SumFunctionOnSet([d \in Window |-> Logged(type, {d})], Window) = Logged(type, Window)
<1> DEFINE A == Activities \cap {type}
           S == A \X Contacts \X Window
           part == [d \in Window |-> A \X Contacts \X {d}]
<1>1. IsFiniteSet(A)
  BY FS_Singleton, FS_Intersection
<1>2. IsFiniteSet(A \X Contacts)
  BY <1>1, ReportsAssumption, FS_Product
<1>3. IsFiniteSet(S)
  <2> DEFINE T == (A \X Contacts) \X Window
             unfold == [x \in T |-> <<x[1][1], x[1][2], x[2]>>]
  <2>1. IsFiniteSet(T)
    BY <1>2, FiniteTables, FS_Product
  <2>2. unfold \in Surjection(T, S)
    <3>1. unfold \in [T -> S]
      OBVIOUS
    <3>2. ASSUME NEW y \in S PROVE \E x \in T : unfold[x] = y
      <4>1. <<<<y[1], y[2]>>, y[3]>> \in T
        OBVIOUS
      <4>2. unfold[<<<<y[1], y[2]>>, y[3]>>] = y
        BY <4>1
      <4> QED
        BY <4>1, <4>2
    <3> HIDE DEF unfold, S, T
    <3> QED
      BY <3>1, <3>2 DEF Surjection
  <2> HIDE DEF S, T, unfold
  <2> QED
    BY <2>1, <2>2, FS_Surjection
<1>4. \A x \in S : activity[x] \in Nat
  BY FiniteTables DEF TablesInv, ActivityInv
<1>5. /\ part \in [Window -> SUBSET S]
      /\ \A j, k \in Window : j # k => part[j] \cap part[k] = {}
      /\ UNION {part[d] : d \in Window} = S
  OBVIOUS
<1>6. \A d \in Window : Logged(type, {d}) = SumFunctionOnSet(activity, part[d])
  BY DEF Logged
<1>7. Logged(type, Window) = SumFunctionOnSet(activity, S)
  BY DEF Logged
<1> DEFINE g == [d \in Window |-> SumFunctionOnSet(activity, part[d])]
           h == [d \in Window |-> Logged(type, {d})]
<1>8. \A d \in Window : g[d] = h[d]
  BY <1>6
<1> HIDE DEF S, part
<1>9. SumFunctionOnSet(g, Window) = SumFunctionOnSet(activity, S)
  BY <1>3, <1>4, <1>5, FiniteTables, SumParts
<1> HIDE DEF g, h
<1>10. SumFunctionOnSet(g, Window) = SumFunctionOnSet(h, Window)
  BY <1>8, FiniteTables, SumAgree
<1> QED
  BY <1>7, <1>9, <1>10 DEF h

\* An ended call is in one class.
LEMMA CallsByClass ==
    ASSUME TablesInv, reply.since \in Nat
    PROVE  SumFunctionOnSet(CallTotals.by, {"completed", "failed", "voicemail"}) =
              CallTotals.attempted
<1> DEFINE K == {"completed", "failed", "voicemail"}
           part == [k \in K |-> {x \in Finished : CallClass(execRows[x].outcome) = k}]
<1>1. IsFiniteSet(K)
  <2>1. IsFiniteSet({"completed"} \cup {"failed"})
    BY FS_Singleton, FS_AddElement
  <2>2. IsFiniteSet(({"completed"} \cup {"failed"}) \cup {"voicemail"})
    BY <2>1, FS_AddElement
  <2>3. K = ({"completed"} \cup {"failed"}) \cup {"voicemail"}
    OBVIOUS
  <2> QED
    BY <2>2, <2>3
<1>2. \A x \in Finished : CallClass(execRows[x].outcome) \in K
  BY DEF CallClass
<1>3. /\ part \in [K -> SUBSET Finished]
      /\ \A j, k \in K : j # k => part[j] \cap part[k] = {}
      /\ UNION {part[k] : k \in K} = Finished
  BY <1>2
<1>4. CallTotals.by = [k \in K |-> Cardinality(part[k])] /\ CallTotals.attempted = Cardinality(Finished)
  BY DEF CallTotals, ByClass
<1> HIDE DEF K, part
<1>5. SumFunctionOnSet([k \in K |-> Cardinality(part[k])], K) = Cardinality(Finished)
  BY <1>1, <1>3, FiniteTables, CountParts
<1> QED
  BY <1>4, <1>5 DEF K

\* It ended on one of the days.
LEMMA CallsByDay ==
    ASSUME TablesInv, reply.since \in Nat
    PROVE  SumFunctionOnSet([d \in Window |-> CallTrend[d].attempted], Window) =
              CallTotals.attempted
<1> DEFINE part == [d \in Window |-> {x \in Finished : execRows[x].day = d}]
           g == [d \in Window |-> Cardinality(part[d])]
           h == [d \in Window |-> CallTrend[d].attempted]
<1>1. /\ part \in [Window -> SUBSET Finished]
      /\ \A j, k \in Window : j # k => part[j] \cap part[k] = {}
      /\ UNION {part[d] : d \in Window} = Finished
  BY DEF Finished, Recent
<1>2. \A d \in Window : g[d] = h[d]
  BY DEF CallTrend
<1>3. CallTotals.attempted = Cardinality(Finished)
  BY DEF CallTotals
<1> HIDE DEF part
<1>4. SumFunctionOnSet(g, Window) = Cardinality(Finished)
  BY <1>1, FiniteTables, CountParts
<1> HIDE DEF g, h
<1>5. SumFunctionOnSet(g, Window) = SumFunctionOnSet(h, Window)
  BY <1>2, FiniteTables, SumAgree
<1> QED
  BY <1>3, <1>4, <1>5 DEF h

\* A completed call is completed on the page of its campaign.
LEMMA CompletedByCampaign ==
    ASSUME TablesInv, reply.since = 0
    PROVE  SumFunctionOnSet([c \in Campaigns |-> BulkOutcomeCounts[c].completed], Campaigns) =
              CallTotals.by["completed"]
<1> DEFINE S == {x \in RowsOfLeads : execRows[x].outcome \in _COMPLETED_CALL_OUTCOMES}
           part == [c \in Campaigns |-> {x \in RowsOfLeads : /\ x[1] = c
                       /\ execRows[x].outcome \in _COMPLETED_CALL_OUTCOMES}]
           g == [c \in Campaigns |-> Cardinality(part[c])]
           h == [c \in Campaigns |-> BulkOutcomeCounts[c].completed]
<1>1. /\ part \in [Campaigns -> SUBSET S]
      /\ \A j, k \in Campaigns : j # k => part[j] \cap part[k] = {}
      /\ UNION {part[c] : c \in Campaigns} = S
  BY DEF RowsOfLeads
<1>2. S = {x \in Finished : CallClass(execRows[x].outcome) = "completed"}
  <2>1. ASSUME NEW x \in RowsOfLeads PROVE execRows[x].day \in Window
    BY <2>1, RowFound DEF RowInv, ExecRow, Window, TablesInv, ClockInv
  <2>2. \A x \in RowsOfLeads : execRows[x].outcome \in _COMPLETED_CALL_OUTCOMES
           <=> x \in Finished /\ CallClass(execRows[x].outcome) = "completed"
    BY <2>1 DEF Finished, Recent, CallClass, _COMPLETED_CALL_OUTCOMES
  <2> QED
    BY <2>2 DEF Finished, Recent
<1>3. CallTotals.by["completed"] = Cardinality(S)
  BY <1>2 DEF CallTotals, ByClass
<1>4. \A c \in Campaigns : g[c] = h[c]
  BY DEF BulkOutcomeCounts
<1>5. IsFiniteSet(S)
  BY FiniteTables, FS_Subset
<1> HIDE DEF S, part
<1>6. SumFunctionOnSet(g, Campaigns) = Cardinality(S)
  BY <1>1, <1>5, ReportsAssumption, CountParts
<1> HIDE DEF g, h
<1>7. SumFunctionOnSet(g, Campaigns) = SumFunctionOnSet(h, Campaigns)
  BY <1>4, ReportsAssumption, SumAgree
<1> QED
  BY <1>3, <1>6, <1>7 DEF h

\* The executions of some campaigns, campaign by campaign.
LEMMA RecentByCampaign ==
    ASSUME TablesInv, reply.since \in Nat, NEW T, T \subseteq Campaigns
    PROVE  SumFunctionOnSet([c \in T |-> UsesOf(c)], T) = Cardinality({x \in Recent : x[1] \in T})
<1> DEFINE S == {x \in Recent : x[1] \in T}
           part == [c \in T |-> {x \in Recent : x[1] = c}]
           g == [c \in T |-> Cardinality(part[c])]
           h == [c \in T |-> UsesOf(c)]
<1>1. /\ part \in [T -> SUBSET S]
      /\ \A j, k \in T : j # k => part[j] \cap part[k] = {}
      /\ UNION {part[c] : c \in T} = S
  OBVIOUS
<1>2. g = h
  BY DEF UsesOf
<1>3. IsFiniteSet(S) /\ IsFiniteSet(T)
  BY FiniteTables, ReportsAssumption, FS_Subset
<1> HIDE DEF part, S
<1>4. SumFunctionOnSet(g, T) = Cardinality(S)
  BY <1>1, <1>3, CountParts
<1> QED
  BY <1>2, <1>4 DEF S

\* A row has one status.
LEMMA RowsByStatus ==
    ASSUME TablesInv, reply.since \in Nat
    PROVE  QueuedActiveDone(StatusCounts) = Cardinality(Rows)
<1> DEFINE part == [s \in ExecStatus |-> OfStatus(s)]
           g == [s \in ExecStatus |-> Cardinality(part[s])]
<1>1. IsFiniteSet(ExecStatus)
  <2>1. IsFiniteSet({"queued"} \cup {"running"})
    BY FS_Singleton, FS_AddElement
  <2>2. IsFiniteSet((({"queued"} \cup {"running"}) \cup {"completed"}) \cup {"failed"})
    BY <2>1, FS_AddElement
  <2>3. ExecStatus = (({"queued"} \cup {"running"}) \cup {"completed"}) \cup {"failed"}
    BY DEF ExecStatus
  <2> QED
    BY <2>2, <2>3
<1>2. \A x \in Rows : execRows[x].status \in ExecStatus
  BY RowFound DEF Rows, RowInv, ExecRow
<1>3. /\ part \in [ExecStatus -> SUBSET Rows]
      /\ \A j, k \in ExecStatus : j # k => part[j] \cap part[k] = {}
      /\ UNION {part[s] : s \in ExecStatus} = Rows
  BY <1>2 DEF OfStatus
<1>4. StatusCounts = g
  BY DEF StatusCounts
<1> HIDE DEF part
<1>5. SumFunctionOnSet(g, ExecStatus) = Cardinality(Rows)
  BY <1>1, <1>3, FiniteTables, CountParts
<1> HIDE DEF g
<1> QED
  BY <1>4, <1>5 DEF QueuedActiveDone

\* What max(0, a - b) is when b is no more than a.
LEMMA MaxDifference ==
    ASSUME NEW a \in Nat, NEW b \in Nat, b <= a PROVE Max({0, a - b}) = a - b
BY DEF Max

\* What the smaller of two numbers is.
LEMMA MinOfTwo ==
    ASSUME NEW a \in Nat, NEW b \in Nat PROVE Min({a, b}) = IF a <= b THEN a ELSE b
BY DEF Min

\* The rows of a campaign are of different leads of its list.
LEMMA RowsOfList ==
    ASSUME TablesInv, reply.since \in Nat
    PROVE  /\ Cardinality(Rows) \in Nat /\ Cardinality(Contacts) \in Nat
           /\ Cardinality(Rows) <= Cardinality(Contacts)
<1>1. IsFiniteSet({The}) /\ Cardinality({The}) = 1
  BY FS_Singleton
<1>2. IsFiniteSet({The} \X Contacts) /\ Cardinality({The} \X Contacts) = 1 * Cardinality(Contacts)
  BY <1>1, ReportsAssumption, FS_Product
<1>3. Rows \in SUBSET ({The} \X Contacts)
  BY DEF Rows, RowsOfLeads
<1>4. Cardinality(Contacts) \in Nat
  BY ReportsAssumption, FS_CardinalityType
<1>5. Cardinality(Rows) \in Nat
  BY FiniteTables, FS_CardinalityType
<1>6. Cardinality(Rows) <= Cardinality({The} \X Contacts)
  BY <1>2, <1>3, FS_Subset
<1> QED
  BY <1>2, <1>4, <1>5, <1>6

\* The failed rows that no retry waits for.
LEMMA FailedForGood ==
    ASSUME TablesInv, reply.since \in Nat
    PROVE  Max({0, StatusCounts["failed"] - Cardinality(OfRetry("scheduled"))}) =
              Cardinality(OverForGood)
<1> DEFINE F == OfStatus("failed")
           R == OfRetry("scheduled")
<1>1. IsFiniteSet(F) /\ IsFiniteSet(R)
  BY FiniteTables, FS_Subset DEF OfStatus, OfRetry
<1>2. R \in SUBSET F
  BY RowFound DEF OfStatus, OfRetry, Rows, RowInv
<1>3. OverForGood = F \ R
  BY DEF OverForGood, OfStatus, OfRetry, Settled
<1>4. StatusCounts["failed"] = Cardinality(F)
  BY DEF StatusCounts, ExecStatus
<1> HIDE DEF F, R
<1>5. Cardinality(F) \in Nat /\ Cardinality(R) \in Nat /\ Cardinality(R) <= Cardinality(F)
  BY <1>1, <1>2, FS_CardinalityType, FS_Subset
<1>6. F \cap R = R
  BY <1>2
<1>7. Cardinality(F \ R) = Cardinality(F) - Cardinality(R)
  BY <1>1, <1>6, FS_Difference
<1> QED
  BY <1>3, <1>4, <1>5, <1>7, MaxDifference DEF R

\* A row that was retried with success has completed.
LEMMA SuccessfulRetries ==
    ASSUME TablesInv, reply.since \in Nat
    PROVE  RetryStats.successful_retries <= StatusCounts["completed"]
<1> DEFINE S == {x \in OfRetry("completed") : execRows[x].attempt_number > 1}
<1>1. S \in SUBSET OfStatus("completed")
  BY RowFound DEF OfStatus, OfRetry, Rows, RowInv
<1>2. IsFiniteSet(OfStatus("completed"))
  BY FiniteTables, FS_Subset DEF OfStatus
<1>3. Cardinality(S) <= Cardinality(OfStatus("completed"))
  BY <1>1, <1>2, FS_Subset
<1>4. RetryStats.successful_retries = Cardinality(S)
  BY DEF RetryStats
<1>5. StatusCounts["completed"] = Cardinality(OfStatus("completed"))
  BY DEF StatusCounts, ExecStatus
<1> QED
  BY <1>3, <1>4, <1>5

\* A recording is dropped on calls a machine has answered.
LEMMA DroppedWereDetected ==
    ASSUME TablesInv, reply.since \in Nat
    PROVE  VoicemailMetrics(3) <= VoicemailMetrics(2)
<1> DEFINE D == {k \in TheCalls : phoneLog[k].dropped}
<1>1. D \in SUBSET Detected("voicemail")
  BY DEF Detected, TheCalls, TablesInv, PhoneInv, CallInv
<1>2. IsFiniteSet(Detected("voicemail"))
  BY FiniteTables, FS_Subset DEF Detected
<1>3. Cardinality(D) <= Cardinality(Detected("voicemail"))
  BY <1>1, <1>2, FS_Subset
<1>4. VoicemailMetrics(3) = Cardinality(D) /\ VoicemailMetrics(2) = Cardinality(Detected("voicemail"))
  BY DEF VoicemailMetrics
<1> QED
  BY <1>3, <1>4

\* Fewer executions are of fewer leads.
LEMMA LeadsOfPart ==
    ASSUME NEW S, IsFiniteSet(S), NEW T \in SUBSET S
    PROVE  LeadsOf(T) <= LeadsOf(S) /\ LeadsOf(S) \in Nat /\ LeadsOf(T) \in Nat
<1> DEFINE L == {x[2] : x \in S}
           M == {x[2] : x \in T}
           lead == [x \in S |-> x[2]]
<1>1. lead \in Surjection(S, L)
  BY DEF Surjection
<1>2. IsFiniteSet(L)
  <2> HIDE DEF L, lead
  <2> QED
    BY <1>1, FS_Surjection
<1>3. M \in SUBSET L
  OBVIOUS
<1>4. Cardinality(M) <= Cardinality(L) /\ Cardinality(L) \in Nat /\ Cardinality(M) \in Nat
  <2> HIDE DEF L, M
  <2> QED
    BY <1>2, <1>3, FS_Subset, FS_CardinalityType
<1> QED
  BY <1>4 DEF LeadsOf

\* Each step of the funnel is part of the one before it.
LEMMA FunnelNarrows ==
    ASSUME TablesInv, reply.since \in Nat
    PROVE  Funnel(2) >= Funnel(4) /\ Funnel(4) >= Funnel(6)
<1> DEFINE C == {x \in Recent : execRows[x].outcome \in {"qualified", "meeting_booked", "completed"}}
           B == {x \in Recent : execRows[x].outcome = "meeting_booked"}
<1>1. C \in SUBSET Recent /\ B \in SUBSET C
  OBVIOUS
<1>2. IsFiniteSet(Recent) /\ IsFiniteSet(C)
  BY <1>1, FiniteTables, FS_Subset
<1>3. Funnel(2) = LeadsOf(Recent) /\ Funnel(4) = LeadsOf(C) /\ Funnel(6) = LeadsOf(B)
  BY DEF Funnel
<1> HIDE DEF C, B
<1>4. LeadsOf(C) <= LeadsOf(Recent) /\ LeadsOf(Recent) \in Nat /\ LeadsOf(C) \in Nat
  BY <1>1, <1>2, LeadsOfPart
<1>5. LeadsOf(B) <= LeadsOf(C) /\ LeadsOf(B) \in Nat
  BY <1>1, <1>2, LeadsOfPart
<1> QED
  BY <1>3, <1>4, <1>5

-----------------------------------------------------------------------------
(* A complete reply. *)

\* Without a write in between each of its queries saw what it would see now.
LEMMA Seen ==
    ASSUME ReplyInv, reply.quiet, NEW kind \in Added, Replied(kind)
    PROVE  \A i \in 1..Length(kind) : reply.saw[i] \in Answers(kind, i)
BY DEF ReplyInv, Replied

\* The first eight queries of the monitor are those of the metrics.
LEMMA SeenMetrics ==
    ASSUME ReplyInv, reply.quiet, Replied("metrics") \/ Replied("monitor")
    PROVE  \A i \in 1..8 : reply.saw[i] = Metrics(i)
<1>1. ASSUME NEW kind \in {"metrics", "monitor"}, Replied(kind), NEW i \in 1..8
      PROVE  reply.saw[i] = Metrics(i)
  <2>1. kind \in Added /\ i \in 1..Length(kind)
    BY <1>1 DEF Added, Length
  <2>2. reply.saw[i] \in Answers(kind, i)
    BY <1>1, <2>1, Seen
  <2>3. Answers(kind, i) = {Query(kind, i)}
    BY <1>1 DEF Answers
  <2>4. Query(kind, i) = Metrics(i)
    BY <1>1 DEF Query
  <2> QED
    BY <2>2, <2>3, <2>4
<1> QED
  BY <1>1

\* A day of a trend and the total.
LEMMA TrendAddsUp ==
    ASSUME ReportsInv, reply.quiet, NEW kind \in {"email", "linkedin"}, Replied(kind),
           NEW type \in DOMAIN reply.saw[1]
    PROVE  reply.saw[1][type] = DailySum(type)
<1> DEFINE types == IF kind = "email" THEN {"email_sent", "email_failed"}
                    ELSE {"li_connect", "li_message", "li_failed"}
           day == [d \in Window |-> Logged(type, {d})]
<1>1. reply.saw[1] = Query(kind, 1) /\ reply.saw[2] = Query(kind, 2)
  BY Seen DEF ReportsInv, Added, Length, Answers
<1>2. reply.saw[1] = [t \in types |-> Logged(t, Window)]
  BY <1>1 DEF Query, EmailTotals, LinkedInTotals
<1>3. reply.saw[2] = [d \in Window |-> [t \in types |-> Logged(t, {d})]]
  <2>1. CASE kind = "email"
    BY <1>1, <2>1 DEF Query, EmailTrend
  <2>2. CASE kind = "linkedin"
    BY <1>1, <2>2 DEF Query, LinkedInTrend
  <2> QED
    BY <2>1, <2>2
<1>4. type \in types
  BY <1>2
<1> HIDE DEF types
<1>5. /\ DOMAIN reply.saw[2] = Window
      /\ \A d \in Window : reply.saw[2][d][type] = day[d]
  BY <1>3, <1>4
<1> DEFINE g == [d \in DOMAIN reply.saw[2] |-> reply.saw[2][d][type]]
<1>6. DOMAIN g = Window /\ \A d \in Window : g[d] = day[d]
  BY <1>5
<1>7. DailySum(type) = SumFunctionOnSet(g, Window)
  BY <1>6 DEF DailySum, SumFunction
<1>8. reply.since \in Nat /\ TablesInv
  BY DEF ReportsInv, ReplyInv
<1>9. SumFunctionOnSet(day, Window) = Logged(type, Window)
  BY <1>8, LoggedByDay
<1> HIDE DEF g, day
<1>10. SumFunctionOnSet(g, Window) = SumFunctionOnSet(day, Window)
  BY <1>6, <1>8, FiniteTables, SumAgree
<1> QED
  BY <1>2, <1>4, <1>7, <1>9, <1>10

\* The calls by day, by class and by campaign.
LEMMA CallsAddUp ==
    ASSUME ReportsInv, reply.quiet, Replied("call")
    PROVE  /\ reply.saw[1].attempted = DailySum("attempted")
           /\ reply.saw[1].attempted = SumFunction(reply.saw[1].by)
           /\ reply.since = 0 => reply.saw[1].by["completed"] =
                 SumFunction([c \in Campaigns |-> BulkOutcomeCounts[c].completed])
<1>1. reply.saw[1] = CallTotals /\ reply.saw[2] = CallTrend
  BY Seen DEF ReportsInv, Added, Length, Answers, Query
<1>2. reply.since \in Nat /\ TablesInv
  BY DEF ReportsInv, ReplyInv
<1> DEFINE g == [d \in DOMAIN reply.saw[2] |-> reply.saw[2][d]["attempted"]]
           h == [d \in Window |-> CallTrend[d].attempted]
           k == [c \in Campaigns |-> BulkOutcomeCounts[c].completed]
<1>3. DOMAIN reply.saw[2] = Window
  BY <1>1 DEF CallTrend
<1>4. DOMAIN g = Window /\ \A d \in Window : g[d] = h[d]
  BY <1>1, <1>3
<1>5. DailySum("attempted") = SumFunctionOnSet(g, Window)
  BY <1>4 DEF DailySum, SumFunction
<1>6. SumFunctionOnSet(h, Window) = CallTotals.attempted
  BY <1>2, CallsByDay
<1>7. DOMAIN CallTotals.by = {"completed", "failed", "voicemail"}
  BY DEF CallTotals, ByClass
<1>8. SumFunction(reply.saw[1].by) = CallTotals.attempted
  BY <1>1, <1>2, <1>7, CallsByClass DEF SumFunction
<1>9. reply.since = 0 => SumFunctionOnSet(k, Campaigns) = CallTotals.by["completed"]
  BY <1>2, CompletedByCampaign
<1>10. DOMAIN k = Campaigns
  OBVIOUS
<1> HIDE DEF g, h
<1>11. SumFunctionOnSet(g, Window) = SumFunctionOnSet(h, Window)
  BY <1>2, <1>4, FiniteTables, SumAgree
<1>12. SumFunction(k) = SumFunctionOnSet(k, Campaigns)
  BY <1>10 DEF SumFunction
<1> QED
  BY <1>1, <1>5, <1>6, <1>8, <1>9, <1>11, <1>12

\* The metrics of a campaign.
LEMMA MetricsAddUp ==
    ASSUME ReportsInv, reply.quiet, Replied("metrics") \/ Replied("monitor")
    PROVE  /\ FailedExecutions(reply.saw) = Cardinality(OverForGood)
           /\ PendingLeads(reply.saw) = Cardinality(Contacts) - Cardinality(Rows)
           /\ reply.saw[4].successful_retries <= reply.saw[1]["completed"]
           /\ reply.saw[7] <= reply.saw[6]
           /\ QueuedActiveDone(reply.saw[1]) = Cardinality(Rows)
<1>1. \A i \in 1..8 : reply.saw[i] = Metrics(i)
  BY SeenMetrics DEF ReportsInv
<1>2. reply.since \in Nat /\ TablesInv
  BY DEF ReportsInv, ReplyInv
<1>3. /\ reply.saw[1] = StatusCounts /\ reply.saw[2] = Cardinality(OfRetry("scheduled"))
      /\ reply.saw[3] = Cardinality(Contacts) /\ reply.saw[4] = RetryStats
      /\ reply.saw[6] = VoicemailMetrics(2) /\ reply.saw[7] = VoicemailMetrics(3)
  BY <1>1 DEF Metrics
<1>4. FailedExecutions(reply.saw) = Cardinality(OverForGood)
  BY <1>2, <1>3, FailedForGood DEF FailedExecutions
<1>5. QueuedActiveDone(reply.saw[1]) = Cardinality(Rows)
  BY <1>2, <1>3, RowsByStatus
<1>6. PendingLeads(reply.saw) = Cardinality(Contacts) - Cardinality(Rows)
  BY <1>2, <1>3, <1>5, RowsOfList, MaxDifference DEF PendingLeads
<1> QED
  BY <1>2, <1>3, <1>4, <1>5, <1>6, SuccessfulRetries, DroppedWereDetected

\* The list of the workflows used most, and the counts over all of them.
LEMMA WorkflowsAddUp ==
    ASSUME ReportsInv, HomeInv, reply.quiet, Replied("workflows")
    PROVE  LET listed == DOMAIN reply.saw[1]
           IN  /\ SumFunction(reply.saw[1]) <= reply.saw[3]
               /\ Cardinality(listed) < MostUsed => SumFunction(reply.saw[1]) = reply.saw[3]
               /\ listed \subseteq reply.saw[2] /\ Cardinality(reply.saw[2]) = reply.saw[4]
<1>1. /\ reply.saw[1] \in MostUsedWorkflows /\ reply.saw[2] = WorkflowAnalytics(2)
      /\ reply.saw[3] = WorkflowAnalytics(3) /\ reply.saw[4] = WorkflowAnalytics(4)
  <2>1. \A i \in 1..4 : reply.saw[i] \in Answers("workflows", i)
    BY Seen DEF ReportsInv, Added, Length
  <2>2. Answers("workflows", 1) = MostUsedWorkflows
    BY DEF Answers
  <2>3. \A i \in 2..4 : Answers("workflows", i) = {WorkflowAnalytics(i)}
    BY DEF Answers, Query
  <2> QED
    BY <2>1, <2>2, <2>3
<1>2. /\ reply.saw[2] = {c \in Campaigns : camps[c] # "gone"}
      /\ reply.saw[3] = Cardinality(Recent) /\ reply.saw[4] = Cardinality(reply.saw[2])
  BY <1>1 DEF WorkflowAnalytics
<1>3. PICK T \in Limited(MostUsed, Used) : reply.saw[1] = [c \in T |-> UsesOf(c)]
  BY <1>1 DEF MostUsedWorkflows
<1>4. /\ T \subseteq Used /\ Used \subseteq Campaigns
      /\ Cardinality(T) = Min({MostUsed, Cardinality(Used)})
  BY DEF Limited, kSubset, Used
<1>5. IsFiniteSet(Used) /\ IsFiniteSet(T) /\ Cardinality(Used) \in Nat /\ Cardinality(T) \in Nat
  BY <1>4, ReportsAssumption, FS_Subset, FS_CardinalityType
<1>6. reply.since \in Nat /\ TablesInv
  BY DEF ReportsInv, ReplyInv
<1>7. DOMAIN reply.saw[1] = T
      /\ SumFunction(reply.saw[1]) = Cardinality({x \in Recent : x[1] \in T})
  BY <1>3, <1>4, <1>6, RecentByCampaign DEF SumFunction
<1>8. Cardinality({x \in Recent : x[1] \in T}) <= Cardinality(Recent)
  BY <1>6, FiniteTables, FS_Subset
<1>9. ASSUME Cardinality(T) < MostUsed PROVE {x \in Recent : x[1] \in T} = Recent
  <2>1. Cardinality(T) = Cardinality(Used)
    BY <1>4, <1>5, <1>9, MinOfTwo, ReportsAssumption
  <2>2. T = Used
    BY <1>4, <1>5, <2>1, FS_Subset
  <2>3. \A x \in Recent : x[1] \in Used
    BY DEF Used, Recent, RowsOfLeads
  <2> QED
    BY <2>2, <2>3
<1>10. T \subseteq reply.saw[2]
  BY <1>2, <1>4 DEF Used, Recent, HomeInv
<1> QED
  BY <1>2, <1>7, <1>8, <1>9, <1>10

\* The rows on the monitor, and the counts above them.
LEMMA MonitorAddsUp ==
    ASSUME ReportsInv, reply.quiet, Replied("monitor")
    PROVE  LET shown == DOMAIN reply.saw[9]
           IN  /\ Cardinality(shown) = Min({MonitorLimit, QueuedActiveDone(reply.saw[1])})
               /\ \A s \in ExecStatus :
                     Cardinality({x \in shown : reply.saw[9][x].status = s}) <= reply.saw[1][s]
<1>1. reply.saw[9] \in MonitorRows /\ reply.saw[1] = Metrics(1)
  <2>1. reply.saw[9] \in Answers("monitor", 9)
    BY Seen DEF ReportsInv, Added, Length
  <2>2. Answers("monitor", 9) = MonitorRows
    BY DEF Answers
  <2> QED
    BY <2>1, <2>2, SeenMetrics DEF ReportsInv
<1>2. PICK page \in Limited(MonitorLimit, Rows) : reply.saw[9] = [x \in page |-> execRows[x]]
  BY <1>1 DEF MonitorRows
<1>3. page \subseteq Rows /\ Cardinality(page) = Min({MonitorLimit, Cardinality(Rows)})
  BY DEF Limited, kSubset
<1>4. QueuedActiveDone(reply.saw[1]) = Cardinality(Rows)
  BY MetricsAddUp
<1>5. reply.since \in Nat /\ TablesInv
  BY DEF ReportsInv, ReplyInv
<1>6. ASSUME NEW s \in ExecStatus
      PROVE  Cardinality({x \in page : execRows[x].status = s}) <= reply.saw[1][s]
  <2>1. reply.saw[1][s] = Cardinality(OfStatus(s))
    BY <1>1 DEF Metrics, StatusCounts
  <2>2. {x \in page : execRows[x].status = s} \subseteq OfStatus(s) /\ OfStatus(s) \subseteq Rows
    BY <1>3 DEF OfStatus
  <2> QED
    BY <1>5, <2>1, <2>2, FiniteTables, FS_Subset
<1>7. /\ DOMAIN reply.saw[9] = page
      /\ \A s : {x \in page : reply.saw[9][x].status = s} = {x \in page : execRows[x].status = s}
  BY <1>2
<1> QED
  BY <1>3, <1>4, <1>6, <1>7

\* An invariant reply adds up.
LEMMA RepliesHold == ASSUME ReportsInv, HomeInv PROVE RepliesAddUp
<1>0. reply.since \in Nat /\ TablesInv /\ ReplyInv
  BY DEF ReportsInv, ReplyInv
<1>1. Replied("list_calls") /\ ~aiCall.late => TurnsShown(reply.saw) = reply.saw[2]
  BY <1>0 DEF ReplyInv, Replied, Length, TurnsShown
<1>2. ASSUME reply.quiet, Replied("funnel")
      PROVE  reply.saw[2] >= reply.saw[4] /\ reply.saw[4] >= reply.saw[6]
  <2>1. \A i \in 1..6 : reply.saw[i] = Funnel(i)
    BY <1>0, <1>2, Seen DEF Added, Length, Answers, Query
  <2> QED
    BY <1>0, <2>1, FunnelNarrows
<1> QED
  BY <1>1, <1>2, TrendAddsUp, CallsAddUp, MetricsAddUp, WorkflowsAddUp, MonitorAddsUp
  DEF RepliesAddUp

\* From any executions that are there at first.
LEMMA RepliesAddUpFrom ==
    ASSUME NEW begun, \A x \in DOMAIN begun : RowInv(begun[x], 0)
    PROVE  ReportsBegin(begun) /\ [][ReportsNext]_repVars => []RepliesAddUp
<1>1. ReportsBegin(begun) => ReportsInv /\ HomeInv
  BY TablesInit, ReplyInit, HomeInit DEF ReportsInv
<1>2. ReportsInv /\ HomeInv /\ [ReportsNext]_repVars => ReportsInv' /\ HomeInv'
  BY ReportsStep, HomeStep
<1>3. ReportsInv /\ HomeInv => RepliesAddUp
  BY RepliesHold
<1> QED
  BY <1>1, <1>2, <1>3, PTL

\* However writes fall between the queries of a reply: one that met none agrees with
\* itself and with the tables, day by day, class by class and campaign by campaign,
\* and the list of AI calls shows all turns of a call.
THEOREM RepliesAddUpCorrect == ReportsSpec => []RepliesAddUp
<1>1. \A x \in DOMAIN <<>> : RowInv(<<>>[x], 0)
  OBVIOUS
<1>2. ReportsBegin(<<>>) /\ [][ReportsNext]_repVars => []RepliesAddUp
  BY <1>1, RepliesAddUpFrom
<1> QED
  BY <1>2 DEF ReportsSpec, ReportsInit
=============================================================================
