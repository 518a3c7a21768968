------------------------- MODULE Classifier_proofs -------------------------
(***************************************************************************)
(* Proofs about Analysis and Classifier, for every number of windows, runs *)
(* and deaths, every --limit, every fraction of healthy windows to fit and *)
(* every set of ranges.                                                    *)
(***************************************************************************)
EXTENDS Classifier, FiniteSetTheorems, WellFoundedInduction, TLAPS

----------------------------------------------------------------------------
(* The inductive invariant *)

\* The results are those of the first windows in their order, and todo continues them.
AnalysisInv ==
    /\ rawWindows \in 0 .. MaxWindow /\ deaths \in Nat
    /\ fftResults \in Seq(Windows) /\ todo \in Seq(Windows)
    /\ \A i \in DOMAIN fftResults : fftResults[i] = i
    /\ Len(fftResults) <= rawWindows
    /\ \A i \in DOMAIN todo : todo[i] = Len(fftResults) + i /\ todo[i] <= rawWindows

Session == [healthy : Ranges, worn : Ranges, present : Nat]

LabelTypesOK ==
    /\ labels \in [Windows -> {"none", "healthy", "worn"}]
    /\ labelledBy \in [Windows -> Nat]
    /\ lbPc \in {"idle", "healthy", "worn"}
    /\ sessions \in Seq(Session)
    /\ lbPc # "idle" => sessions # <<>>
    /\ \A w \in Windows : labels[w] # "none" => sessions # <<>>
    /\ \A r \in DOMAIN sessions : sessions[r].present <= rawWindows

\* Labels of worn windows come last, and then all are there.
WornComeLast ==
    /\ lbPc = "healthy" => \A w \in Windows : labels[w] = "none"
    /\ lbPc = "worn" =>
           \A w \in Windows :
               /\ labels[w] # "worn"
               /\ w <= sessions[LabelRun].present /\ w \in sessions[LabelRun].healthy =>
                      labels[w] = "healthy"
    /\ \A v \in Windows : labels[v] = "worn" =>
           LET last == sessions[LabelRun] IN
           /\ v \in last.worn
           /\ \A w \in Windows : w <= last.present =>
                  /\ w \in last.worn => labels[w] = "worn"
                  /\ w \in last.healthy \ last.worn => labels[w] = "healthy"

LabelsInv == LabelTypesOK /\ LabelsOfOneRun /\ WornComeLast

Strictly(q) == \A i, j \in DOMAIN q : i < j => q[i] < q[j]

\* What a classifier that is under way keeps of its one SELECT.
SnapshotInv ==
    clPc # "idle" =>
        /\ snapshot.healthy \in Seq(Windows) /\ snapshot.worn \in Seq(Windows)
        /\ snapshot.healthy # <<>>
        /\ Strictly(snapshot.healthy)
        /\ ToSet(snapshot.healthy) \cap ToSet(snapshot.worn) = {}
        /\ fit = Fit(snapshot.healthy)

\* What is left to evaluate, each window once: worn ones and those that follow the fit.
LeftInv ==
    clPc # "idle" =>
        /\ verdictsLeft \in Seq(Windows) /\ IsInjective(verdictsLeft)
        /\ \A v \in ToSet(verdictsLeft) :
               v \in ToSet(snapshot.worn) \/ \A u \in ToSet(fit) : u < v

Classification == [window : Windows, baseline : Nat]

VerdictsInv ==
    /\ clPc \in {"idle", "baseline", "classify"}
    /\ baselines \in Seq(SUBSET Windows)
    /\ classifications \in Seq(Classification) /\ IsInjective(classifications)
    /\ \A i \in DOMAIN classifications :
           /\ classifications[i].baseline \in DOMAIN baselines
           /\ classifications[i].window \notin baselines[classifications[i].baseline]
    /\ clPc = "classify" =>
           /\ baselines # <<>> /\ baselines[Len(baselines)] = ToSet(fit)
           /\ \A i \in DOMAIN classifications :
                  classifications[i].baseline = Len(baselines) =>
                      classifications[i].window \notin ToSet(verdictsLeft)

ClassifierInv ==
    /\ AnalysisInv /\ LabelsInv
    /\ SnapshotInv /\ SeesWholeLabelling /\ LeftInv /\ VerdictsInv

----------------------------------------------------------------------------
(* Sets of numbers in their order *)

\* A set of naturals with 0 and with the successor of each of its elements has all of them.
LEMMA NatSetInduction ==
    ASSUME NEW S, 0 \in S, \A n \in Nat : n \in S => n + 1 \in S
    PROVE  Nat \subseteq S
<1> DEFINE T == Nat \ S
           R == {ss \in Nat \X Nat : ss[1] < ss[2]}
<1>1. SUFFICES ASSUME T # {} PROVE FALSE
  OBVIOUS
<1>2. IsWellFoundedOn(R, Nat)
  BY NatLessThanWellFounded, Zenon DEF OpToRel
<1>3. PICK n \in T : \A m \in T : ~ (<<m, n>> \in R)
  <2> HIDE DEF R, T
  <2>1. T \subseteq Nat
    BY DEF T
  <2> QED BY <1>1, <1>2, <2>1, WFMin
<1>4. n \in Nat /\ n # 0
  OBVIOUS
<1>5. n - 1 \in Nat /\ n - 1 < n /\ (n - 1) + 1 = n
  BY <1>4
<1>6. n - 1 \notin T
  BY <1>3, <1>4, <1>5
<1>7. QED BY <1>5, <1>6

Enumerates(q, S) == q \in [1 .. Cardinality(S) -> S] /\ Strictly(q)

LEMMA FinitePart ==
    ASSUME NEW n \in Nat, NEW S \in SUBSET (1 .. n)
    PROVE  IsFiniteSet(S) /\ Cardinality(S) \in Nat
<1>1. IsFiniteSet(1 .. n)
  BY FS_Interval
<1>2. QED BY <1>1, FS_Subset, FS_CardinalityType

\* Every finite set of numbers can be put in order.
LEMMA Enumerable ==
    ASSUME NEW n \in Nat, NEW S \in SUBSET (1 .. n)
    PROVE  \E q : Enumerates(q, S)
<1> DEFINE Orderly(m) == \A T \in SUBSET (1 .. m) : \E q : Enumerates(q, T)
           N == {m \in Nat : Orderly(m)}
<1>1. 0 \in N
  <2>1. SUFFICES ASSUME NEW T \in SUBSET (1 .. 0) PROVE \E q : Enumerates(q, T)
    OBVIOUS
  <2>2. T = {} /\ Cardinality(T) = 0
    <3>1. T = {}
      OBVIOUS
    <3>2. QED BY <3>1, FS_EmptySet
  <2> DEFINE q == [i \in 1 .. 0 |-> 0]
  <2>3. Enumerates(q, T)
    BY <2>2 DEF Enumerates, Strictly
  <2>4. QED BY <2>3
<1>2. ASSUME NEW m \in Nat, m \in N PROVE m + 1 \in N
  <2>1. SUFFICES ASSUME NEW T \in SUBSET (1 .. m + 1) PROVE \E q : Enumerates(q, T)
    BY <1>2
  <2>2. CASE m + 1 \notin T
    <3>1. T \in SUBSET (1 .. m)
      BY <2>2
    <3>2. QED BY <1>2, <3>1
  <2>3. CASE m + 1 \in T
    <3> DEFINE U == T \ {m + 1}
               c == Cardinality(U)
    <3>1. U \in SUBSET (1 .. m) /\ m + 1 \notin U /\ T = U \cup {m + 1}
      BY <2>3
    <3>2. PICK q : Enumerates(q, U)
      BY <1>2, <3>1
    <3>3. IsFiniteSet(U) /\ c \in Nat
      <4> HIDE DEF U
      <4> QED BY <3>1, FinitePart
    <3>4. Cardinality(T) = c + 1
      <4> HIDE DEF U
      <4> QED BY <3>1, <3>3, FS_AddElement
    <3> HIDE DEF U, c
    <3> DEFINE r == [i \in 1 .. c + 1 |-> IF i = c + 1 THEN m + 1 ELSE q[i]]
    <3>5. q \in [1 .. c -> U] /\ \A i, j \in 1 .. c : i < j => q[i] < q[j]
      BY <3>2 DEF Enumerates, Strictly, c
    <3>6. \A i \in 1 .. c + 1 : i = c + 1 \/ i \in 1 .. c
      BY <3>3
    <3>7. r \in [1 .. c + 1 -> T]
      BY <3>1, <3>5, <3>6
    <3>8. \A i, j \in 1 .. c + 1 : i < j => r[i] < r[j]
      <4> SUFFICES ASSUME NEW i \in 1 .. c + 1, NEW j \in 1 .. c + 1, i < j PROVE r[i] < r[j]
        OBVIOUS
      <4>1. i \in 1 .. c /\ i # c + 1
        BY <3>3
      <4>2. r[i] = q[i] /\ q[i] \in 1 .. m
        <5>1. r[i] = q[i]
          BY <4>1
        <5>2. q[i] \in U
          BY <3>5, <4>1
        <5>3. QED BY <3>1, <5>1, <5>2
      <4>3. CASE j = c + 1
        BY <4>2, <4>3
      <4>4. CASE j # c + 1
        <5>1. j \in 1 .. c /\ r[j] = q[j]
          BY <3>3, <4>4
        <5>2. QED BY <3>5, <4>1, <4>2, <5>1
      <4>5. QED BY <4>3, <4>4
    <3>9. Enumerates(r, T)
      BY <3>4, <3>7, <3>8 DEF Enumerates, Strictly
    <3>10. QED BY <3>9
  <2>4. QED BY <2>2, <2>3
<1>3. n \in N
  <2> HIDE DEF N
  <2> QED BY <1>1, <1>2, NatSetInduction
<1>4. QED BY <1>3

\* In order, each element has its place.
LEMMA EnumerationOnto ==
    ASSUME NEW n \in Nat, NEW S \in SUBSET (1 .. n), NEW q, Enumerates(q, S)
    PROVE  q \in Surjection(1 .. Cardinality(S), S)
<1> DEFINE c == Cardinality(S)
<1>1. IsFiniteSet(S) /\ c \in Nat
  BY FinitePart
<1>2. IsFiniteSet(1 .. c) /\ Cardinality(1 .. c) = c
  <2>1. c \in Int /\ 1 \in Int
    BY <1>1
  <2> HIDE DEF c
  <2>2. /\ IsFiniteSet(1 .. c)
        /\ Cardinality(1 .. c) = IF 1 > c THEN 0 ELSE c - 1 + 1
    BY <2>1, FS_Interval
  <2>3. QED BY <1>1, <2>2
<1>3. q \in Injection(1 .. c, S)
  <2>1. q \in [1 .. c -> S] /\ \A i, j \in 1 .. c : i < j => q[i] < q[j]
    BY DEF Enumerates, Strictly
  <2>2. \A i, j \in 1 .. c : q[i] = q[j] => i = j
    <3> SUFFICES ASSUME NEW i \in 1 .. c, NEW j \in 1 .. c, i # j PROVE q[i] # q[j]
      OBVIOUS
    <3>1. q[i] \in Nat /\ q[j] \in Nat
      <4>1. q[i] \in S /\ q[j] \in S
        BY <2>1
      <4>2. 1 .. n \subseteq Nat /\ S \subseteq 1 .. n
        OBVIOUS
      <4>3. QED BY <4>1, <4>2
    <3>2. i < j \/ j < i
      BY <1>1
    <3>3. QED BY <2>1, <3>1, <3>2
  <2>3. QED BY <2>1, <2>2 DEF Injection, IsInjective
<1> HIDE DEF c
<1>4. c = Cardinality(S)
  BY DEF c
<1>5. q \in Surjection(1 .. c, S)
  BY <1>1, <1>2, <1>3, <1>4, FS_Injection
<1>6. QED BY <1>4, <1>5

LEMMA LeastOf ==
    ASSUME NEW S \in SUBSET Nat, S # {}
    PROVE  \E n \in S : \A m \in S : n <= m
<1> DEFINE R == {ss \in Nat \X Nat : ss[1] < ss[2]}
<1>1. IsWellFoundedOn(R, Nat)
  BY NatLessThanWellFounded, Zenon DEF OpToRel
<1>2. PICK n \in S : \A m \in S : ~ (<<m, n>> \in R)
  <2> HIDE DEF R
  <2> QED BY <1>1, WFMin
<1>3. S \subseteq Nat
  OBVIOUS
<1>4. ASSUME NEW m \in S PROVE n <= m
  <2>1. m \in Nat /\ n \in Nat /\ ~ (m < n)
    BY <1>2, <1>3
  <2>2. QED BY <2>1
<1>5. QED BY <1>4

\* Put in order, a + 1 .. b counts on from a.
LEMMA EnumerationOfInterval ==
    ASSUME NEW a \in Nat, NEW b \in Nat, a <= b, NEW q, Enumerates(q, a + 1 .. b)
    PROVE  q \in [1 .. b - a -> Nat] /\ \A i \in 1 .. b - a : q[i] = a + i
<1> DEFINE S == a + 1 .. b
           c == b - a
           Wrong == {i \in 1 .. c : q[i] # a + i}
<1>1. Cardinality(S) = c /\ c \in Nat
  <2>1. a + 1 \in Int /\ b \in Int
    OBVIOUS
  <2>2. Cardinality(a + 1 .. b) = IF a + 1 > b THEN 0 ELSE b - (a + 1) + 1
    BY <2>1, FS_Interval
  <2>3. QED BY <2>2
<1>2. S \in SUBSET (1 .. b)
  OBVIOUS
<1>3. q \in [1 .. c -> S] /\ \A i, j \in 1 .. c : i < j => q[i] < q[j]
  BY <1>1 DEF Enumerates, Strictly
<1>4. \A v \in S : \E i \in 1 .. c : q[i] = v
  <2>1. PICK U : U = S
    OBVIOUS
  <2>2. U \in SUBSET (1 .. b) /\ Enumerates(q, U) /\ Cardinality(U) = c
    BY <1>1, <1>2, <2>1
  <2> HIDE DEF S, c
  <2>3. q \in Surjection(1 .. Cardinality(U), U)
    BY <2>2, EnumerationOnto
  <2>4. QED BY <2>1, <2>2, <2>3 DEF Surjection
<1>5. Wrong = {}
  <2>1. SUFFICES ASSUME Wrong # {} PROVE FALSE
    OBVIOUS
  <2>2. Wrong \in SUBSET Nat
    OBVIOUS
  <2>3. PICK i \in Wrong : \A j \in Wrong : i <= j
    <3> HIDE DEF Wrong
    <3> QED BY <2>1, <2>2, LeastOf
  <2>4. i \in 1 .. c /\ q[i] # a + i /\ q[i] \in S
    BY <1>3
  <2>5. ASSUME NEW j \in 1 .. i - 1 PROVE q[j] = a + j
    <3>1. j \in 1 .. c /\ ~ (i <= j)
      BY <1>1, <2>4
    <3>2. j \notin Wrong
      <4> HIDE DEF Wrong
      <4> QED BY <2>3, <3>1
    <3>3. QED BY <3>1, <3>2
  <2>6. q[i] > a + i
    <3>1. CASE i = 1
      BY <2>4, <3>1
    <3>2. CASE i # 1
      <4>1. i - 1 \in 1 .. i - 1 /\ i - 1 \in 1 .. c /\ i - 1 < i
        BY <1>1, <2>4, <3>2
      <4>2. q[i - 1] = a + (i - 1) /\ q[i - 1] < q[i]
        BY <1>3, <2>4, <2>5, <4>1
      <4>3. QED BY <2>4, <4>2
    <3>3. QED BY <3>1, <3>2
  <2>7. PICK k \in 1 .. c : q[k] = a + i
    <3>1. a + i \in S
      BY <1>1, <2>4
    <3>2. QED BY <1>4, <3>1
  <2>8. CASE k < i
    <3>1. k \in 1 .. i - 1
      BY <2>4, <2>8
    <3>2. q[k] = a + k
      BY <2>5, <3>1
    <3>3. QED BY <2>7, <2>8, <3>2
  <2>9. CASE k = i
    BY <2>4, <2>7, <2>9
  <2>10. CASE i < k
    <3>1. q[i] < q[k]
      BY <1>3, <2>4, <2>10
    <3>2. QED BY <2>4, <2>6, <2>7, <3>1
  <2>11. QED BY <1>1, <2>4, <2>7, <2>8, <2>9, <2>10
<1>6. q \in [1 .. c -> Nat]
  BY <1>3
<1>7. \A i \in 1 .. c : q[i] = a + i
  BY <1>5
<1>8. QED BY <1>6, <1>7

LEMMA AscendingInOrder ==
    ASSUME NEW n \in Nat, NEW S \in SUBSET (1 .. n)
    PROVE  Enumerates(Ascending(S), S)
<1>1. \E q : q \in [1 .. Cardinality(S) -> S] /\ \A i, j \in DOMAIN q : i < j => q[i] < q[j]
  BY Enumerable DEF Enumerates, Strictly
<1>2. QED BY <1>1 DEF Ascending, Enumerates, Strictly

----------------------------------------------------------------------------
(* The analyser *)

LEMMA Results ==
    ASSUME AnalysisInv
    PROVE  /\ Len(fftResults) \in Nat /\ DOMAIN fftResults = 1 .. Len(fftResults)
           /\ Analysed = 1 .. Len(fftResults)
           /\ rawWindows \in Nat /\ rawWindows <= MaxWindow /\ MaxWindow \in Nat
           /\ 1 .. rawWindows \subseteq Windows
<1>1. Len(fftResults) \in Nat /\ DOMAIN fftResults = 1 .. Len(fftResults)
  BY DEF AnalysisInv
<1>2. Analysed = 1 .. Len(fftResults)
  BY <1>1 DEF AnalysisInv, Analysed, ToSet
<1>3. QED BY <1>1, <1>2, AnalysisAssumption DEF AnalysisInv, Windows

\* What a run fetches are the windows that follow the last one with a result.
LEMMA Fetched ==
    ASSUME AnalysisInv
    PROVE  /\ FetchUnanalyzed \in Seq(Windows)
           /\ \A i \in DOMAIN FetchUnanalyzed :
                  /\ FetchUnanalyzed[i] = Len(fftResults) + i
                  /\ FetchUnanalyzed[i] <= rawWindows
<1> DEFINE L == Len(fftResults)
           S == L + 1 .. rawWindows
           q == Ascending(S)
<1>1. L \in Nat /\ rawWindows \in Nat /\ L <= rawWindows
  BY Results DEF AnalysisInv
<1>2. (1 .. rawWindows) \ Analysed = S
  BY <1>1, Results
<1>3. S \in SUBSET (1 .. rawWindows)
  BY <1>1
<1>4. Enumerates(q, S)
  <2> HIDE DEF S
  <2> QED BY <1>1, <1>3, AscendingInOrder
<1>5. q \in [1 .. rawWindows - L -> Nat] /\ \A i \in 1 .. rawWindows - L : q[i] = L + i
  <2> HIDE DEF L, q
  <2> QED BY <1>1, <1>4, EnumerationOfInterval
<1>6. FetchUnanalyzed = FirstOf(q, LIMIT)
  BY <1>2 DEF FetchUnanalyzed
<1> HIDE DEF L, q
<1>7. PICK n \in Nat : n = rawWindows - L /\ L + n = rawWindows
  BY <1>1
<1>8. q \in Seq(Windows) /\ Len(q) = n
  <2>1. \A i \in 1 .. n : q[i] \in 1 .. rawWindows
    BY <1>1, <1>5, <1>7
  <2>2. \A i \in 1 .. n : q[i] \in Windows
    BY <2>1, Results
  <2>3. q \in [1 .. n -> Windows]
    BY <1>5, <1>7, <2>2
  <2>4. QED BY <2>3
<1>9. LIMIT \in Nat
  BY AnalysisAssumption
<1>10. PICK m \in Nat : m <= n /\ FetchUnanalyzed = SubSeq(q, 1, m)
  <2>1. CASE LIMIT <= n
    BY <1>6, <1>8, <1>9, <2>1 DEF FirstOf
  <2>2. CASE ~ (LIMIT <= n)
    BY <1>6, <1>8, <1>9, <2>2 DEF FirstOf
  <2>3. QED BY <2>1, <2>2
<1>11. /\ FetchUnanalyzed \in Seq(Windows) /\ DOMAIN FetchUnanalyzed = 1 .. m
       /\ \A i \in 1 .. m : FetchUnanalyzed[i] = q[i] /\ i \in 1 .. n
  BY <1>8, <1>10
<1>12. \A i \in 1 .. m : L + i <= rawWindows /\ i \in 1 .. rawWindows - L
  BY <1>1, <1>7, <1>10
<1>13. QED BY <1>5, <1>11, <1>12 DEF L

LEMMA InitAnalysis == Init => AnalysisInv
<1> SUFFICES ASSUME Init PROVE AnalysisInv
  OBVIOUS
<1>1. 0 \in 0 .. MaxWindow /\ <<>> \in Seq(Windows)
  BY AnalysisAssumption
<1>2. Len(<<>>) = 0 /\ DOMAIN <<>> = {}
  OBVIOUS
<1>3. QED BY <1>1, <1>2 DEF Init, AnalysisInit, AnalysisInv

LEMMA StoreWindowAnalysis == AnalysisInv /\ StoreWindow => AnalysisInv'
<1> SUFFICES ASSUME AnalysisInv, StoreWindow PROVE AnalysisInv'
  OBVIOUS
<1>1. rawWindows \in Nat /\ rawWindows' = rawWindows + 1 /\ rawWindows' \in 0 .. MaxWindow
  BY Results DEF StoreWindow
<1>2. Len(fftResults) <= rawWindows'
  BY <1>1, Results DEF AnalysisInv
<1>3. todo \in Seq(Windows) /\ \A i \in DOMAIN todo : todo[i] \in Nat /\ todo[i] <= rawWindows
  BY DEF AnalysisInv, Windows
<1>4. \A i \in DOMAIN todo : todo[i] <= rawWindows'
  <2>1. SUFFICES ASSUME NEW i \in DOMAIN todo PROVE todo[i] <= rawWindows'
    OBVIOUS
  <2>2. todo[i] \in Nat /\ todo[i] <= rawWindows
    BY <1>3, SMTT(30)
  <2>3. QED BY <1>1, <2>2
<1>5. QED BY <1>1, <1>2, <1>4 DEF StoreWindow, AnalysisInv

LEMMA StoreResultAnalysis == AnalysisInv /\ StoreResult => AnalysisInv'
<1> SUFFICES ASSUME AnalysisInv, StoreResult PROVE AnalysisInv'
  OBVIOUS
<1>1. /\ todo # <<>> /\ todo' = Tail(todo) /\ fftResults' = Append(fftResults, todo[1])
      /\ UNCHANGED <<rawWindows, deaths>>
  BY DEF AnalysisInv, StoreResult
<1>2. /\ todo \in Seq(Windows) /\ Len(todo) \in Nat \ {0} /\ 1 \in DOMAIN todo
      /\ DOMAIN todo = 1 .. Len(todo)
      /\ todo' \in Seq(Windows) /\ DOMAIN todo' = 1 .. Len(todo) - 1
      /\ \A i \in 1 .. Len(todo) - 1 : todo'[i] = todo[i + 1]
  BY <1>1, SMTT(30) DEF AnalysisInv
<1>3. PICK L \in Nat, n \in Nat : L = Len(fftResults) /\ n + 1 = Len(todo)
  <2>1. Len(todo) - 1 \in Nat /\ (Len(todo) - 1) + 1 = Len(todo)
    BY <1>2
  <2>2. QED BY <2>1, Results
<1>4. todo[1] = L + 1 /\ L + 1 <= rawWindows /\ todo[1] \in Windows
  <2>1. \A i \in DOMAIN todo : todo[i] = Len(fftResults) + i /\ todo[i] <= rawWindows
    BY DEF AnalysisInv
  <2>2. todo[1] = L + 1 /\ todo[1] <= rawWindows
    BY <1>2, <1>3, <2>1
  <2>3. todo[1] \in Windows
    BY <1>2
  <2>4. QED BY <2>2, <2>3
<1>5. /\ fftResults' \in Seq(Windows) /\ Len(fftResults') = L + 1
      /\ DOMAIN fftResults' = 1 .. L + 1
      /\ \A i \in 1 .. L : fftResults'[i] = fftResults[i]
      /\ fftResults'[L + 1] = L + 1
  BY <1>1, <1>3, <1>4 DEF AnalysisInv
<1>6. \A i \in 1 .. L + 1 : fftResults'[i] = i
  <2>1. \A i \in 1 .. L + 1 : i \in 1 .. L \/ i = L + 1
    BY <1>3
  <2>2. \A i \in 1 .. L : fftResults[i] = i
    BY <1>3, Results DEF AnalysisInv
  <2>3. QED BY <1>5, <2>1, <2>2
<1>7. \A i \in 1 .. n : todo'[i] = L + 1 + i /\ todo'[i] <= rawWindows
  <2>1. SUFFICES ASSUME NEW i \in 1 .. n PROVE todo'[i] = L + 1 + i /\ todo'[i] <= rawWindows
    OBVIOUS
  <2>2. i + 1 \in DOMAIN todo /\ todo'[i] = todo[i + 1]
    BY <1>2, <1>3
  <2>3. todo[i + 1] = L + (i + 1) /\ todo[i + 1] <= rawWindows
    BY <1>3, <2>2 DEF AnalysisInv
  <2>4. QED BY <2>2, <2>3
<1>8. DOMAIN todo' = 1 .. n
  <2>1. Len(todo) - 1 = n
    BY <1>3
  <2>2. QED BY <1>2, <2>1
<1>9. QED BY <1>1, <1>2, <1>4, <1>5, <1>6, <1>7, <1>8 DEF AnalysisInv

LEMMA NextAnalysis == AnalysisInv /\ [Next]_vars => AnalysisInv'
<1> SUFFICES ASSUME AnalysisInv, [Next]_vars PROVE AnalysisInv'
  OBVIOUS
<1>1. CASE StoreWindow
  BY <1>1, StoreWindowAnalysis
<1>2. CASE StartAnalysis
  BY <1>2, Fetched DEF StartAnalysis, AnalysisInv
<1>3. CASE StoreResult
  BY <1>3, StoreResultAnalysis
<1>4. CASE EndAnalysis
  BY <1>4 DEF EndAnalysis, AnalysisInv
<1>5. CASE AnalysisRaises \/ AnalysisDies
  <2>1. <<>> \in Seq(Windows) /\ DOMAIN <<>> = {}
    OBVIOUS
  <2>2. deaths' \in Nat
    BY <1>5 DEF AnalysisRaises, AnalysisDies, AnalysisInv
  <2>3. todo' = <<>> /\ UNCHANGED <<rawWindows, fftResults>>
    BY <1>5 DEF AnalysisRaises, AnalysisDies
  <2>4. QED BY <2>1, <2>2, <2>3 DEF AnalysisInv
<1>6. CASE Labelling \/ Classifying \/ UNCHANGED vars
  <2>1. UNCHANGED <<rawWindows, fftResults, todo>> /\ deaths' \in {deaths, deaths + 1}
    BY <1>6 DEF Labelling, ClearLabels, LabelHealthy, LabelWorn, LabelWindows, LabelsDies,
       Classifying, FetchFftResults, StoreBaseline, StoreClassification, Report, ClassifierDies,
       vars, analysisVars
  <2>2. QED BY <2>1 DEF AnalysisInv
<1>7. QED BY <1>1, <1>2, <1>3, <1>4, <1>5, <1>6
         DEF Next, Analysing, AnalysisNext, Analyser

(***************************************************************************)
(* Results follow the order of the windows, each window once and none left *)
(* out, over runs of run_once (analyze_fft.py:60-86) that are cut short at *)
(* any point: fetch_unanalyzed_windows (storage.py:102-123) gives the      *)
(* windows behind the last result, in their order.                         *)
(***************************************************************************)
THEOREM ResultsOnceInOrder == Spec => []OneResultEach
<1>1. AnalysisInv => OneResultEach
  <2> SUFFICES ASSUME AnalysisInv PROVE OneResultEach
    OBVIOUS
  <2>1. IsInjective(fftResults)
    BY DEF AnalysisInv, IsInjective
  <2>2. \A w \in Analysed : 1 .. w \subseteq Analysed
    BY Results
  <2>3. QED BY <2>1, <2>2 DEF OneResultEach, AnalysisInv
<1>2. QED BY <1>1, InitAnalysis, NextAnalysis, PTL DEF Spec

----------------------------------------------------------------------------
(* labels.py *)

LEMMA LastSession ==
    ASSUME LabelTypesOK
    PROVE  /\ LabelRun \in Nat
           /\ lbPc # "idle" =>
                  /\ LabelRun \in DOMAIN sessions
                  /\ sessions[LabelRun] \in Session /\ sessions[LabelRun].present <= rawWindows
                  /\ sessions[LabelRun].healthy \in Ranges /\ sessions[LabelRun].worn \in Ranges
                  /\ sessions[LabelRun].present \in Nat
<1>1. LabelRun \in Nat
  BY DEF LabelTypesOK, LabelRun
<1>2. ASSUME lbPc # "idle"
      PROVE  LabelRun \in DOMAIN sessions /\ sessions[LabelRun] \in Session
  BY <1>2 DEF LabelTypesOK, LabelRun
<1>3. QED BY <1>1, <1>2 DEF LabelTypesOK, Session

LEMMA InitLabels == Init => LabelsInv
<1> SUFFICES ASSUME Init PROVE LabelsInv
  OBVIOUS
<1>1. <<>> \in Seq(Session) /\ DOMAIN <<>> = {}
  OBVIOUS
<1>2. LabelTypesOK
  BY <1>1 DEF Init, LabelTypesOK, NoRun
<1>3. LabelsOfOneRun /\ WornComeLast
  BY DEF Init, LabelsOfOneRun, WornComeLast
<1>4. QED BY <1>2, <1>3 DEF LabelsInv

LEMMA ClearLabelsKeeps == AnalysisInv /\ LabelsInv /\ ClearLabels => LabelsInv'
<1> SUFFICES ASSUME AnalysisInv, LabelsInv, ClearLabels PROVE LabelsInv'
  OBVIOUS
<1>1. LabelTypesOK
  BY DEF LabelsInv
<1>2. PICK h \in Ranges, w \in Ranges :
          sessions' = Append(sessions, [healthy |-> h, worn |-> w, present |-> rawWindows])
  BY DEF ClearLabels
<1>3. /\ labels' = [v \in Windows |-> "none"] /\ labelledBy' = [v \in Windows |-> NoRun]
      /\ lbPc' = "healthy" /\ rawWindows' = rawWindows
  BY DEF ClearLabels, analysisVars
<1> DEFINE new == [healthy |-> h, worn |-> w, present |-> rawWindows]
<1>4. new \in Session /\ new.present = rawWindows
  BY Results DEF Session
<1> HIDE DEF new
<1>5. /\ sessions' \in Seq(Session) /\ sessions' # <<>> /\ Len(sessions) \in Nat
      /\ DOMAIN sessions = 1 .. Len(sessions) /\ DOMAIN sessions' = 1 .. Len(sessions) + 1
      /\ \A r \in 1 .. Len(sessions) : sessions'[r] = sessions[r]
      /\ sessions'[Len(sessions) + 1] = new
  <2>1. sessions \in Seq(Session) /\ sessions' = Append(sessions, new)
    BY <1>1, <1>2 DEF LabelTypesOK, new
  <2>2. QED BY <1>4, <2>1
<1>6. \A r \in DOMAIN sessions' : sessions'[r].present <= rawWindows
  <2> SUFFICES ASSUME NEW r \in 1 .. Len(sessions) + 1 PROVE sessions'[r].present <= rawWindows
    BY <1>5
  <2>1. CASE r = Len(sessions) + 1
    BY <1>4, <1>5, <2>1, Results
  <2>2. CASE r # Len(sessions) + 1
    BY <1>1, <1>5, <2>2 DEF LabelTypesOK
  <2>3. QED BY <2>1, <2>2
<1>7. LabelTypesOK'
  BY <1>3, <1>5, <1>6 DEF LabelTypesOK, NoRun
<1>8. LabelsOfOneRun' /\ WornComeLast'
  BY <1>3 DEF LabelsOfOneRun, WornComeLast
<1>9. QED BY <1>7, <1>8 DEF LabelsInv

\* label_windows with the healthy or the worn ranges of the run.
LEMMA LabelWindowsTypes ==
    ASSUME AnalysisInv, LabelTypesOK, NEW range \in Ranges, NEW label \in {"healthy", "worn"},
           LabelWindows(range, label), lbPc' \in {"idle", "healthy", "worn"}, lbPc # "idle"
    PROVE  /\ LabelTypesOK'
           /\ \A w \in Windows :
                  /\ labels'[w] = IF w \in range /\ w <= rawWindows THEN label ELSE labels[w]
                  /\ labelledBy'[w] =
                         IF w \in range /\ w <= rawWindows THEN LabelRun ELSE labelledBy[w]
           /\ UNCHANGED <<sessions, LabelRun, rawWindows>>
<1> DEFINE hit == range \cap 1 .. rawWindows
<1>1. /\ labels' = [w \in Windows |-> IF w \in hit THEN label ELSE labels[w]]
      /\ labelledBy' = [w \in Windows |-> IF w \in hit THEN LabelRun ELSE labelledBy[w]]
      /\ UNCHANGED <<sessions, rawWindows>>
  BY DEF LabelWindows, analysisVars
<1>2. \A w \in Windows : w \in hit <=> w \in range /\ w <= rawWindows
  <2>1. \A w \in Windows : w \in Nat \ {0}
    BY DEF Windows
  <2>2. rawWindows \in Nat
    BY Results
  <2>3. QED BY <2>1, <2>2
<1> HIDE DEF hit
<1>3. LabelRun \in Nat
  BY LastSession
<1>4. LabelTypesOK'
  BY <1>1, <1>3 DEF LabelTypesOK
<1>5. QED BY <1>1, <1>2, <1>4 DEF LabelRun

LEMMA LabelHealthyKeeps == AnalysisInv /\ LabelsInv /\ LabelHealthy => LabelsInv'
<1> SUFFICES ASSUME AnalysisInv, LabelsInv, LabelHealthy PROVE LabelsInv'
  OBVIOUS
<1> DEFINE range == sessions[LabelRun].healthy
<1>1. LabelTypesOK /\ lbPc = "healthy" /\ lbPc' = "worn" /\ \A w \in Windows : labels[w] = "none"
  BY DEF LabelsInv, LabelHealthy, WornComeLast
<1>2. range \in Ranges /\ sessions[LabelRun].present <= rawWindows
      /\ sessions[LabelRun].present \in Nat
  BY <1>1, LastSession
<1>3. LabelWindows(range, "healthy")
  BY DEF LabelHealthy
<1>4. /\ LabelTypesOK'
      /\ \A w \in Windows :
             /\ labels'[w] = IF w \in range /\ w <= rawWindows THEN "healthy" ELSE "none"
             /\ labels'[w] = "healthy" => labelledBy'[w] = LabelRun /\ w \in range
      /\ UNCHANGED <<sessions, LabelRun, rawWindows>>
  <2> HIDE DEF range
  <2> QED BY <1>1, <1>2, <1>3, LabelWindowsTypes
<1>5. \A w \in Windows : w <= sessions[LabelRun].present => w <= rawWindows
  BY <1>2, Results DEF Windows
<1>6. LabelsOfOneRun'
  BY <1>4 DEF LabelsOfOneRun
<1>7. WornComeLast'
  BY <1>1, <1>4, <1>5 DEF WornComeLast
<1>8. QED BY <1>4, <1>6, <1>7 DEF LabelsInv

LEMMA LabelWornKeeps == AnalysisInv /\ LabelsInv /\ LabelWorn => LabelsInv'
<1> SUFFICES ASSUME AnalysisInv, LabelsInv, LabelWorn PROVE LabelsInv'
  OBVIOUS
<1> DEFINE last == sessions[LabelRun]
<1>1. /\ LabelTypesOK /\ LabelsOfOneRun /\ lbPc = "worn" /\ lbPc' = "idle"
      /\ \A w \in Windows :
             /\ labels[w] # "worn"
             /\ w <= last.present /\ w \in last.healthy => labels[w] = "healthy"
  BY DEF LabelsInv, LabelWorn, WornComeLast
<1>2. last.worn \in Ranges /\ last.present <= rawWindows /\ last.present \in Nat
  BY <1>1, LastSession
<1>3. LabelWindows(last.worn, "worn")
  BY DEF LabelWorn
<1> HIDE DEF last
<1>4. /\ LabelTypesOK'
      /\ \A w \in Windows :
             /\ labels'[w] = IF w \in last.worn /\ w <= rawWindows THEN "worn" ELSE labels[w]
             /\ labelledBy'[w] =
                    IF w \in last.worn /\ w <= rawWindows THEN LabelRun ELSE labelledBy[w]
      /\ UNCHANGED <<sessions, LabelRun, rawWindows>>
  BY <1>1, <1>2, <1>3, LabelWindowsTypes
<1>5. \A w \in Windows : w <= last.present => w <= rawWindows
  BY <1>2, Results DEF Windows
<1>6. last' = last
  BY <1>4 DEF last
<1>7. LabelsOfOneRun'
  BY <1>1, <1>4 DEF LabelsOfOneRun, last
<1>8. WornComeLast'
  <2>1. SUFFICES ASSUME NEW v \in Windows, labels'[v] = "worn"
                 PROVE  /\ v \in last.worn
                        /\ \A w \in Windows : w <= last.present =>
                               /\ w \in last.worn => labels'[w] = "worn"
                               /\ w \in last.healthy \ last.worn => labels'[w] = "healthy"
    BY <1>1, <1>6 DEF WornComeLast, last
  <2>2. QED BY <1>1, <1>4, <1>5, <2>1
<1>9. QED BY <1>4, <1>7, <1>8 DEF LabelsInv

LEMMA OtherStepsKeepLabels ==
    ASSUME AnalysisInv, LabelsInv, rawWindows' \in Nat, rawWindows <= rawWindows',
           UNCHANGED <<labels, labelledBy, sessions>>, lbPc' \in {lbPc, "idle"}
    PROVE  LabelsInv'
<1>1. LabelTypesOK
  BY DEF LabelsInv
<1>2. \A r \in DOMAIN sessions : sessions[r].present \in Nat /\ sessions[r].present <= rawWindows'
  <2>1. SUFFICES ASSUME NEW r \in DOMAIN sessions
                 PROVE  sessions[r].present \in Nat /\ sessions[r].present <= rawWindows'
    OBVIOUS
  <2>2. sessions[r] \in Session /\ sessions[r].present <= rawWindows
    BY <1>1 DEF LabelTypesOK
  <2>3. QED BY <2>2, Results DEF Session
<1>3. LabelTypesOK'
  BY <1>1, <1>2 DEF LabelTypesOK
<1>4. LabelsOfOneRun' /\ WornComeLast'
  BY DEF LabelsInv, LabelsOfOneRun, WornComeLast, LabelRun
<1>5. QED BY <1>3, <1>4 DEF LabelsInv

\* Everything but a step of labels.py leaves its tables alone.
LEMMA NotLabelling ==
    ASSUME AnalysisInv, Analysing \/ Classifying \/ UNCHANGED vars
    PROVE  /\ rawWindows' \in Nat /\ rawWindows <= rawWindows'
           /\ UNCHANGED <<labels, labelledBy, sessions, lbPc>>
<1>1. rawWindows \in Nat /\ rawWindows' \in {rawWindows, rawWindows + 1}
  BY Results DEF Analysing, AnalysisNext, Analyser, StoreWindow, StartAnalysis, StoreResult,
     EndAnalysis, AnalysisRaises, AnalysisDies, Classifying, FetchFftResults, StoreBaseline,
     StoreClassification, Report, ClassifierDies, vars, analysisVars
<1>2. UNCHANGED <<labels, labelledBy, sessions, lbPc>>
  BY DEF Analysing, labelVars, Classifying, FetchFftResults, StoreBaseline,
     StoreClassification, Report, ClassifierDies, vars
<1>3. QED BY <1>1, <1>2

LEMMA NextLabels == AnalysisInv /\ LabelsInv /\ [Next]_vars => LabelsInv'
<1> SUFFICES ASSUME AnalysisInv, LabelsInv, [Next]_vars PROVE LabelsInv'
  OBVIOUS
<1>1. CASE Analysing \/ Classifying \/ UNCHANGED vars
  BY <1>1, NotLabelling, OtherStepsKeepLabels
<1>2. CASE LabelsDies
  <2>1. rawWindows' \in Nat /\ rawWindows <= rawWindows'
    BY <1>2, Results DEF LabelsDies
  <2>2. QED BY <1>2, <2>1, OtherStepsKeepLabels DEF LabelsDies
<1>3. QED BY <1>1, <1>2, ClearLabelsKeeps, LabelHealthyKeeps, LabelWornKeeps DEF Next, Labelling

----------------------------------------------------------------------------
(* classify_faults.py *)

\* The rows with a label, in the order of their windows, each analysed window with it once.
LEMMA RowsOrdered ==
    ASSUME AnalysisInv, LabelTypesOK, NEW label
    PROVE  /\ Rows(label) \in Seq(Windows) /\ Strictly(Rows(label))
           /\ ToSet(Rows(label)) = {w \in Analysed : labels[w] = label}
<1> DEFINE L == Len(fftResults)
           hit == {i \in DOMAIN fftResults : labels[fftResults[i]] = label}
           InOrder(f) == \A i, j \in DOMAIN f :
                             i < j => f[i] # f[j] /\ fftResults[f[i]] <= fftResults[f[j]]
           order == CHOOSE f \in [1 .. Cardinality(hit) -> hit] : InOrder(f)
           c == Cardinality(hit)
<1>1. L \in Nat /\ DOMAIN fftResults = 1 .. L /\ \A i \in 1 .. L : fftResults[i] = i
  BY Results DEF AnalysisInv
<1>2. hit \in SUBSET (1 .. L) /\ hit = {w \in Analysed : labels[w] = label}
  BY <1>1, Results
<1>3. Rows(label) = [i \in DOMAIN order |-> fftResults[order[i]]]
  BY DEF Rows
<1>4. \A i \in hit : fftResults[i] = i /\ i \in Nat /\ i \in Windows
  <2>1. \A i \in 1 .. L : i \in Windows
    BY <1>1, Results DEF AnalysisInv
  <2>2. QED BY <1>1, <1>2, <2>1
<1> HIDE DEF L, hit
<1>5. c \in Nat
  BY <1>1, <1>2, FinitePart
<1>6. \E f \in [1 .. c -> hit] : InOrder(f)
  <2>1. PICK f : Enumerates(f, hit)
    BY <1>1, <1>2, Enumerable
  <2>2. f \in [1 .. c -> hit] /\ \A i, j \in 1 .. c : i < j => f[i] < f[j]
    BY <2>1 DEF Enumerates, Strictly
  <2>3. \A i \in 1 .. c : f[i] \in Nat /\ fftResults[f[i]] = f[i]
    BY <1>4, <2>2
  <2>4. InOrder(f)
    BY <2>2, <2>3
  <2>5. QED BY <2>2, <2>4
<1>7. order \in [1 .. c -> hit] /\ InOrder(order)
  <2> HIDE DEF InOrder
  <2> QED BY <1>6
<1> HIDE DEF order, c
<1>8. \A i \in 1 .. c : order[i] \in hit /\ order[i] \in Nat /\ fftResults[order[i]] = order[i]
  BY <1>4, <1>7
<1>9. \A i, j \in 1 .. c : i < j => order[i] < order[j]
  BY <1>7, <1>8
<1>10. Rows(label) = order
  BY <1>3, <1>7, <1>8
<1>11. Rows(label) \in Seq(Windows) /\ Strictly(Rows(label)) /\ DOMAIN Rows(label) = 1 .. c
  <2>1. order \in [1 .. c -> Windows]
    BY <1>4, <1>7
  <2>2. order \in Seq(Windows)
    BY <1>5, <2>1
  <2>3. QED BY <1>7, <1>9, <1>10, <2>2 DEF Strictly
<1>12. Enumerates(order, hit)
  BY <1>7, <1>9 DEF Enumerates, Strictly, c
<1>13. \A w \in hit : \E i \in 1 .. c : order[i] = w
  <2>1. order \in Surjection(1 .. Cardinality(hit), hit)
    BY <1>1, <1>2, <1>12, EnumerationOnto
  <2>2. QED BY <2>1 DEF Surjection, c
<1>14. ToSet(Rows(label)) = hit
  BY <1>8, <1>10, <1>11, <1>13 DEF ToSet
<1>15. QED BY <1>2, <1>11, <1>14

LEMMA FitSizes ==
    ASSUME NEW n \in Nat \ {0}
    PROVE  FitSize(n) \in 1 .. n
<1> DEFINE x == n * FIT_TENTHS
<1>1. FIT_TENTHS \in 0 .. 10
  BY ClassifierAssumption
<1>2. x \in Nat /\ x <= n * 10
  <2>1. PICK d \in Nat : FIT_TENTHS + d = 10
    <3>1. 10 - FIT_TENTHS \in Nat /\ FIT_TENTHS + (10 - FIT_TENTHS) = 10
      BY <1>1
    <3>2. QED BY <3>1
  <2>2. n * (FIT_TENTHS + d) = n * FIT_TENTHS + n * d
    BY <1>1, SMT
  <2>3. n * d \in Nat /\ n * FIT_TENTHS \in Nat
    BY <1>1
  <2>4. QED BY <2>1, <2>2, <2>3
<1>3. FitSize(n) = LargerOf(1, x \div 10)
  BY DEF FitSize
<1> HIDE DEF x
<1>4. x \div 10 \in Nat /\ x \div 10 <= n
  BY <1>2
<1>5. QED BY <1>3, <1>4 DEF LargerOf

\* The fit is not empty, and comes before all that is held out.
LEMMA Split ==
    ASSUME NEW q \in Seq(Windows), q # <<>>, Strictly(q)
    PROVE  /\ Fit(q) \in Seq(Windows) /\ Fit(q) # <<>>
           /\ HeldOut(q) \in Seq(Windows) /\ Strictly(HeldOut(q))
           /\ ToSet(Fit(q)) \subseteq ToSet(q) /\ ToSet(HeldOut(q)) \subseteq ToSet(q)
           /\ \A u \in ToSet(Fit(q)), v \in ToSet(HeldOut(q)) : u < v
<1>1. PICK n \in Nat \ {0} : n = Len(q) /\ DOMAIN q = 1 .. n
  OBVIOUS
<1>2. PICK k \in 1 .. n : k = FitSize(n)
  BY FitSizes
<1>3. /\ Fit(q) \in Seq(Windows) /\ DOMAIN Fit(q) = 1 .. k /\ Len(Fit(q)) = k
      /\ \A i \in 1 .. k : Fit(q)[i] = q[i] /\ i \in 1 .. n
  <2>1. Fit(q) = SubSeq(q, 1, k)
    BY <1>1, <1>2 DEF Fit
  <2>2. QED BY <1>1, <2>1
<1>4. /\ HeldOut(q) \in Seq(Windows) /\ DOMAIN HeldOut(q) = 1 .. n - k
      /\ \A i \in 1 .. n - k : HeldOut(q)[i] = q[k + i] /\ k + i \in 1 .. n
  <2>1. HeldOut(q) = SubSeq(q, k + 1, n)
    BY <1>1, <1>2 DEF HeldOut
  <2>2. QED BY <1>1, <2>1
<1>5. Fit(q) # <<>>
  BY <1>3
<1>6. \A i, j \in 1 .. n : i < j => q[i] < q[j]
  BY <1>1 DEF Strictly
<1>7. Strictly(HeldOut(q))
  <2>1. SUFFICES ASSUME NEW i \in 1 .. n - k, NEW j \in 1 .. n - k, i < j
                 PROVE  HeldOut(q)[i] < HeldOut(q)[j]
    BY <1>4 DEF Strictly
  <2>2. k + i \in 1 .. n /\ k + j \in 1 .. n /\ k + i < k + j
    <3>1. k + i \in 1 .. n /\ k + j \in 1 .. n
      BY <1>4
    <3>2. k \in Nat /\ i \in Nat /\ j \in Nat /\ i < j
      BY <2>1
    <3>3. QED BY <3>1, <3>2
  <2>3. q[k + i] < q[k + j]
    BY <1>6, <2>2
  <2>4. QED BY <1>4, <2>3
<1>8. ToSet(Fit(q)) \subseteq ToSet(q) /\ ToSet(HeldOut(q)) \subseteq ToSet(q)
  BY <1>1, <1>3, <1>4 DEF ToSet
<1>9. ASSUME NEW u \in ToSet(Fit(q)), NEW v \in ToSet(HeldOut(q)) PROVE u < v
  <2>1. PICK i \in 1 .. k : u = q[i] /\ i \in 1 .. n
    BY <1>3 DEF ToSet
  <2>2. PICK j \in 1 .. n - k : v = q[k + j] /\ k + j \in 1 .. n
    BY <1>4 DEF ToSet
  <2>3. i < k + j
    OBVIOUS
  <2>4. QED BY <1>6, <2>1, <2>2, <2>3
<1>10. QED BY <1>3, <1>4, <1>5, <1>7, <1>8, <1>9

LEMMA StrictlyInjective ==
    ASSUME NEW q \in Seq(Windows), Strictly(q)
    PROVE  IsInjective(q)
<1>1. SUFFICES ASSUME NEW i \in DOMAIN q, NEW j \in DOMAIN q, i # j PROVE q[i] # q[j]
  BY DEF IsInjective
<1>2. i \in Nat /\ j \in Nat /\ q[i] \in Nat /\ q[j] \in Nat
  <2>1. DOMAIN q = 1 .. Len(q) /\ q[i] \in Windows /\ q[j] \in Windows
    OBVIOUS
  <2>2. \A w \in Windows : w \in Nat
    BY DEF Windows
  <2>3. QED BY <2>1, <2>2
<1>3. i < j \/ j < i
  BY <1>1, <1>2
<1>4. QED BY <1>2, <1>3 DEF Strictly

\* One sequence after the other, with nothing in common.
LEMMA Joined ==
    ASSUME NEW q \in Seq(Windows), NEW r \in Seq(Windows), IsInjective(q), IsInjective(r),
           ToSet(q) \cap ToSet(r) = {}
    PROVE  /\ q \o r \in Seq(Windows) /\ IsInjective(q \o r)
           /\ ToSet(q \o r) \subseteq ToSet(q) \cup ToSet(r)
<1>1. PICK m \in Nat, n \in Nat : m = Len(q) /\ n = Len(r)
  OBVIOUS
<1>2. DOMAIN q = 1 .. m /\ DOMAIN r = 1 .. n
  BY <1>1
<1>3. /\ q \o r \in Seq(Windows) /\ DOMAIN (q \o r) = 1 .. m + n
      /\ \A i \in 1 .. m + n : (q \o r)[i] = IF i <= m THEN q[i] ELSE r[i - m]
  <2>1. q \o r \in Seq(Windows) /\ Len(q \o r) = m + n
    BY <1>1
  <2>2. \A i \in 1 .. m + n : (q \o r)[i] = IF i <= m THEN q[i] ELSE r[i - m]
    BY <1>1
  <2>3. QED BY <2>1, <2>2
<1>4. \A i \in 1 .. m + n :
          \/ i \in 1 .. m /\ (q \o r)[i] = q[i]
          \/ i - m \in 1 .. n /\ (q \o r)[i] = r[i - m]
  BY <1>3
<1>5. ToSet(q \o r) \subseteq ToSet(q) \cup ToSet(r)
  BY <1>2, <1>3, <1>4 DEF ToSet
<1>6. IsInjective(q \o r)
  <2>1. SUFFICES ASSUME NEW i \in 1 .. m + n, NEW j \in 1 .. m + n, (q \o r)[i] = (q \o r)[j]
                 PROVE  i = j
    BY <1>3 DEF IsInjective
  <2>2. \A a \in 1 .. m, b \in 1 .. n : q[a] # r[b]
    BY <1>2 DEF ToSet
  <2>3. CASE i \in 1 .. m /\ j \in 1 .. m
    BY <1>2, <1>3, <2>1, <2>3 DEF IsInjective
  <2>4. CASE i \notin 1 .. m /\ j \notin 1 .. m
    <3>1. i - m \in 1 .. n /\ j - m \in 1 .. n /\ r[i - m] = r[j - m]
      BY <1>4, <2>1, <2>4
    <3>2. i - m = j - m
      BY <1>2, <3>1 DEF IsInjective
    <3>3. QED BY <3>2
  <2>5. CASE i \in 1 .. m /\ j \notin 1 .. m
    <3>1. j - m \in 1 .. n /\ (q \o r)[j] = r[j - m]
      BY <1>4, <2>5
    <3>2. i <= m /\ (q \o r)[i] = q[i]
      BY <1>3, <2>5
    <3>3. QED BY <2>1, <2>2, <2>5, <3>1, <3>2
  <2>6. CASE j \in 1 .. m /\ i \notin 1 .. m
    <3>1. i - m \in 1 .. n /\ (q \o r)[i] = r[i - m]
      BY <1>4, <2>6
    <3>2. j <= m /\ (q \o r)[j] = q[j]
      BY <1>3, <2>6
    <3>3. QED BY <2>1, <2>2, <2>6, <3>1, <3>2
  <2>7. QED BY <2>3, <2>4, <2>5, <2>6
<1>7. QED BY <1>3, <1>5, <1>6

ClassifierKeeps == SnapshotInv /\ SeesWholeLabelling /\ LeftInv /\ VerdictsInv

LEMMA InitClassifier == Init => ClassifierKeeps
<1> SUFFICES ASSUME Init PROVE ClassifierKeeps
  OBVIOUS
<1>1. /\ <<>> \in Seq(SUBSET Windows) /\ <<>> \in Seq(Classification) /\ DOMAIN <<>> = {}
      /\ IsInjective(<<>>)
  BY DEF IsInjective
<1>2. QED BY <1>1
         DEF Init, ClassifierKeeps, SnapshotInv, SeesWholeLabelling, LeftInv, VerdictsInv

\* The SELECT of a run that goes on: it saw a whole labelling.
LEMMA FetchKeeps ==
    ASSUME AnalysisInv, LabelsInv, VerdictsInv, FetchFftResults
    PROVE  SnapshotInv' /\ SeesWholeLabelling' /\ LeftInv' /\ VerdictsInv'
<1> DEFINE healthy == Rows("healthy")
           worn == Rows("worn")
<1>1. LabelTypesOK /\ LabelsOfOneRun /\ WornComeLast
  BY DEF LabelsInv
<1>2. /\ healthy # <<>> /\ worn # <<>> /\ clPc = "idle" /\ clPc' = "baseline"
      /\ snapshot' = [healthy |-> healthy, worn |-> worn, analysed |-> Analysed]
      /\ fit' = Fit(healthy) /\ verdictsLeft' = HeldOut(healthy) \o worn
      /\ UNCHANGED <<baselines, classifications, rawWindows, fftResults, sessions, labels>>
  BY DEF FetchFftResults, analysisVars, labelVars
<1>3. /\ healthy \in Seq(Windows) /\ Strictly(healthy)
      /\ ToSet(healthy) = {w \in Analysed : labels[w] = "healthy"}
      /\ worn \in Seq(Windows) /\ Strictly(worn)
      /\ ToSet(worn) = {w \in Analysed : labels[w] = "worn"}
  BY <1>1, RowsOrdered
<1> HIDE DEF healthy, worn
<1>4. ToSet(healthy) \cap ToSet(worn) = {}
  BY <1>3
<1>5. SnapshotInv'
  BY <1>2, <1>3, <1>4 DEF SnapshotInv
<1>6. LeftInv'
  <2>1. /\ HeldOut(healthy) \in Seq(Windows) /\ Strictly(HeldOut(healthy))
        /\ ToSet(HeldOut(healthy)) \subseteq ToSet(healthy)
        /\ \A u \in ToSet(Fit(healthy)), v \in ToSet(HeldOut(healthy)) : u < v
    BY <1>2, <1>3, Split
  <2>2. IsInjective(HeldOut(healthy)) /\ IsInjective(worn)
    BY <1>3, <2>1, StrictlyInjective
  <2>3. /\ verdictsLeft' \in Seq(Windows) /\ IsInjective(verdictsLeft')
        /\ ToSet(verdictsLeft') \subseteq ToSet(HeldOut(healthy)) \cup ToSet(worn)
    <3>1. PICK h : h = HeldOut(healthy)
      OBVIOUS
    <3>2. /\ h \in Seq(Windows) /\ IsInjective(h)
          /\ worn \in Seq(Windows) /\ IsInjective(worn)
          /\ ToSet(h) \cap ToSet(worn) = {}
      BY <1>3, <1>4, <2>1, <2>2, <3>1
    <3>3. /\ h \o worn \in Seq(Windows) /\ IsInjective(h \o worn)
          /\ ToSet(h \o worn) \subseteq ToSet(h) \cup ToSet(worn)
      BY <3>2, Joined
    <3>4. QED BY <1>2, <3>1, <3>3
  <2>4. QED BY <1>2, <2>1, <2>3 DEF LeftInv
<1>7. SeesWholeLabelling'
  <2> DEFINE last == sessions[LabelRun]
  <2>1. PICK v \in Analysed : labels[v] = "worn" /\ v \in Windows
    <3>1. 1 \in DOMAIN worn /\ worn[1] \in ToSet(worn) /\ worn[1] \in Windows
      BY <1>2, <1>3 DEF ToSet
    <3>2. QED BY <1>3, <3>1
  <2>2. /\ v \in last.worn
        /\ \A w \in Windows : w <= last.present =>
               /\ w \in last.worn => labels[w] = "worn"
               /\ w \in last.healthy \ last.worn => labels[w] = "healthy"
    BY <1>1, <2>1 DEF WornComeLast
  <2>3. LabelRun \in DOMAIN sessions
    <3>1. sessions # <<>> /\ sessions \in Seq(Session)
      BY <1>1, <2>1 DEF LabelTypesOK
    <3>2. QED BY <3>1 DEF LabelRun
  <2>4. Analysed \subseteq Windows
    BY Results DEF AnalysisInv, Windows
  <2>5. \A w \in Windows : labels[w] # "none" => w \in last.healthy \cup last.worn
    BY <1>1 DEF LabelsOfOneRun
  <2>6. \A w \in Windows : labels[w] = "worn" => w \in last.worn
    BY <1>1 DEF WornComeLast
  <2>7. \A w \in Analysed \cap 1 .. last.present : w \in Windows /\ w <= last.present
    BY <2>4
  <2> HIDE DEF last
  <2>8. LET old == Analysed \cap 1 .. last.present
        IN  /\ old \cap last.worn \subseteq ToSet(worn)
            /\ old \cap (last.healthy \ last.worn) \subseteq ToSet(healthy)
            /\ ToSet(worn) \subseteq last.worn
            /\ old \cap ToSet(healthy) \subseteq last.healthy \ last.worn
    BY <1>3, <2>2, <2>4, <2>5, <2>6, <2>7
  <2>9. QED BY <1>2, <2>3, <2>8 DEF SeesWholeLabelling, last
<1>8. VerdictsInv'
  BY <1>2 DEF VerdictsInv
<1>9. QED BY <1>5, <1>6, <1>7, <1>8

\* What a run saw is still a whole labelling when more runs of labels.py follow.
LEMMA SeenStays ==
    ASSUME SeesWholeLabelling, clPc' # "idle" => clPc # "idle", snapshot' = snapshot,
           \A r \in DOMAIN sessions : r \in DOMAIN sessions' /\ sessions'[r] = sessions[r]
    PROVE  SeesWholeLabelling'
<1>1. SUFFICES ASSUME clPc # "idle" PROVE SeesWholeLabelling'
  BY DEF SeesWholeLabelling
<1> DEFINE Saw(seen) ==
               LET old == snapshot.analysed \cap 1 .. seen.present
               IN  /\ old \cap seen.worn \subseteq ToSet(snapshot.worn)
                   /\ old \cap (seen.healthy \ seen.worn) \subseteq ToSet(snapshot.healthy)
                   /\ ToSet(snapshot.worn) \subseteq seen.worn
                   /\ old \cap ToSet(snapshot.healthy) \subseteq seen.healthy \ seen.worn
<1>2. PICK r \in DOMAIN sessions : Saw(sessions[r])
  BY <1>1, Zenon DEF SeesWholeLabelling
<1>3. r \in DOMAIN sessions' /\ sessions'[r] = sessions[r]
  OBVIOUS
<1>4. Saw(sessions'[r])
  <2> HIDE DEF Saw
  <2> QED BY <1>2, <1>3
<1>5. \E k \in DOMAIN sessions' : Saw(sessions'[k])
  <2> HIDE DEF Saw
  <2> QED BY <1>3, <1>4
<1>6. QED BY <1>5, Zenon DEF SeesWholeLabelling

LEMMA NotClassifying ==
    ASSUME LabelTypesOK, ClassifierKeeps, Analysing \/ Labelling \/ UNCHANGED vars
    PROVE  ClassifierKeeps'
<1> USE DEF classifierVars
<1>1. UNCHANGED <<clPc, fit, verdictsLeft, snapshot, baselines, classifications>>
  BY DEF Analysing, Labelling, ClearLabels, LabelHealthy, LabelWorn, LabelWindows, LabelsDies,
     vars
<1>2. \A r \in DOMAIN sessions : r \in DOMAIN sessions' /\ sessions'[r] = sessions[r]
  <2>1. CASE ClearLabels
    <3>1. PICK e : sessions' = Append(sessions, e)
      BY <2>1 DEF ClearLabels
    <3>2. sessions \in Seq(Session)
      BY DEF LabelTypesOK
    <3>3. QED BY <3>1, <3>2
  <2>2. CASE ~ ClearLabels
    <3>1. sessions' = sessions
      BY <2>2 DEF Analysing, Labelling, LabelHealthy, LabelWorn, LabelWindows, LabelsDies,
         vars, labelVars
    <3>2. QED BY <3>1
  <2>3. QED BY <2>1, <2>2
<1>3. SnapshotInv' /\ LeftInv' /\ VerdictsInv'
  BY <1>1 DEF ClassifierKeeps, SnapshotInv, LeftInv, VerdictsInv
<1>4. SeesWholeLabelling'
  BY <1>1, <1>2, SeenStays DEF ClassifierKeeps
<1>5. QED BY <1>3, <1>4 DEF ClassifierKeeps

LEMMA StoreBaselineKeeps == ClassifierKeeps /\ StoreBaseline => ClassifierKeeps'
<1> SUFFICES ASSUME ClassifierKeeps, StoreBaseline PROVE ClassifierKeeps'
  OBVIOUS
<1>1. /\ clPc = "baseline" /\ clPc' = "classify" /\ baselines' = Append(baselines, ToSet(fit))
      /\ UNCHANGED <<fit, verdictsLeft, snapshot, classifications, sessions>>
  BY DEF StoreBaseline, labelVars
<1>2. SnapshotInv' /\ LeftInv'
  BY <1>1 DEF ClassifierKeeps, SnapshotInv, LeftInv
<1>3. SeesWholeLabelling'
  BY <1>1, SeenStays DEF ClassifierKeeps
<1>4. ToSet(fit) \in SUBSET Windows
  <2>1. fit \in Seq(Windows)
    BY <1>1, Split DEF ClassifierKeeps, SnapshotInv
  <2>2. QED BY <2>1 DEF ToSet
<1>5. PICK n \in Nat : n = Len(baselines)
  BY DEF ClassifierKeeps, VerdictsInv
<1>6. /\ baselines' \in Seq(SUBSET Windows) /\ DOMAIN baselines = 1 .. n
      /\ DOMAIN baselines' = 1 .. n + 1 /\ Len(baselines') = n + 1 /\ baselines' # <<>>
      /\ \A i \in 1 .. n : baselines'[i] = baselines[i] /\ i \in 1 .. n + 1 /\ i # n + 1
      /\ baselines'[n + 1] = ToSet(fit)
  BY <1>1, <1>4, <1>5 DEF ClassifierKeeps, VerdictsInv
<1>7. VerdictsInv'
  BY <1>1, <1>6 DEF ClassifierKeeps, VerdictsInv
<1>8. QED BY <1>2, <1>3, <1>7 DEF ClassifierKeeps

LEMMA StoreClassificationKeeps == ClassifierKeeps /\ StoreClassification => ClassifierKeeps'
<1> SUFFICES ASSUME ClassifierKeeps, StoreClassification PROVE ClassifierKeeps'
  OBVIOUS
<1> DEFINE v == Head(verdictsLeft)
           b == Len(baselines)
           verdict == [window |-> v, baseline |-> b]
<1>1. /\ clPc = "classify" /\ verdictsLeft # <<>>
      /\ classifications' = Append(classifications, verdict)
      /\ verdictsLeft' = Tail(verdictsLeft)
      /\ UNCHANGED <<clPc, fit, snapshot, baselines, sessions>>
  BY DEF StoreClassification, labelVars
<1>2. SnapshotInv' /\ SeesWholeLabelling'
  BY <1>1, SeenStays, SMTT(30) DEF ClassifierKeeps, SnapshotInv
<1>3. PICK n \in Nat : n + 1 = Len(verdictsLeft)
  <2>1. verdictsLeft \in Seq(Windows) /\ Len(verdictsLeft) \in Nat \ {0}
    BY <1>1 DEF ClassifierKeeps, LeftInv
  <2>2. Len(verdictsLeft) - 1 \in Nat /\ (Len(verdictsLeft) - 1) + 1 = Len(verdictsLeft)
    BY <2>1
  <2>3. QED BY <2>2
<1>4. /\ verdictsLeft \in Seq(Windows) /\ DOMAIN verdictsLeft = 1 .. n + 1
      /\ verdictsLeft' \in Seq(Windows) /\ DOMAIN verdictsLeft' = 1 .. n
      /\ \A i \in 1 .. n : verdictsLeft'[i] = verdictsLeft[i + 1] /\ i + 1 \in 1 .. n + 1
      /\ v = verdictsLeft[1] /\ 1 \in 1 .. n + 1 /\ v \in Windows /\ v \in ToSet(verdictsLeft)
  <2>1. verdictsLeft \in Seq(Windows) /\ DOMAIN verdictsLeft = 1 .. n + 1
    BY <1>1, <1>3 DEF ClassifierKeeps, LeftInv
  <2>2. v = verdictsLeft[1] /\ 1 \in 1 .. n + 1 /\ v \in Windows
    BY <1>1, <1>3, <2>1
  <2>3. v \in ToSet(verdictsLeft)
    BY <2>1, <2>2 DEF ToSet
  <2>4. verdictsLeft' \in Seq(Windows) /\ Len(verdictsLeft') = n
    BY <1>1, <1>3, <2>1
  <2>5. \A i \in 1 .. n : verdictsLeft'[i] = verdictsLeft[i + 1] /\ i + 1 \in 1 .. n + 1
    BY <1>1, <1>3, <2>1
  <2>6. QED BY <2>1, <2>2, <2>3, <2>4, <2>5
<1> HIDE DEF v
<1>5. IsInjective(verdictsLeft)
  BY <1>1 DEF ClassifierKeeps, LeftInv
<1>6. /\ ToSet(verdictsLeft') \subseteq ToSet(verdictsLeft)
      /\ v \notin ToSet(verdictsLeft')
  <2>1. \A i \in 1 .. n : verdictsLeft'[i] # v
    BY <1>4, <1>5 DEF IsInjective
  <2>2. QED BY <1>4, <2>1, ZenonT(60) DEF ToSet
<1>7. IsInjective(verdictsLeft')
  <2>1. SUFFICES ASSUME NEW i \in 1 .. n, NEW j \in 1 .. n, verdictsLeft'[i] = verdictsLeft'[j]
                 PROVE  i = j
    BY <1>4 DEF IsInjective
  <2>2. i + 1 = j + 1
    BY <1>4, <1>5, <2>1 DEF IsInjective
  <2>3. QED BY <2>2
<1>8. LeftInv'
  BY <1>1, <1>4, <1>6, <1>7 DEF ClassifierKeeps, LeftInv
<1>9. /\ b \in Nat /\ b \in DOMAIN baselines /\ baselines[b] = ToSet(fit)
  BY <1>1 DEF ClassifierKeeps, VerdictsInv
<1>10. v \notin baselines[b]
  <2>1. v \in ToSet(snapshot.worn) \/ \A u \in ToSet(fit) : u < v
    BY <1>1, <1>4 DEF ClassifierKeeps, LeftInv
  <2>2. ToSet(fit) \subseteq ToSet(snapshot.healthy)
        /\ ToSet(snapshot.healthy) \cap ToSet(snapshot.worn) = {}
    BY <1>1, Split DEF ClassifierKeeps, SnapshotInv
  <2>3. ~ (v < v)
    BY <1>4 DEF Windows
  <2>4. QED BY <1>9, <2>1, <2>2, <2>3
<1> HIDE DEF b
<1>11. verdict \in Classification /\ verdict.window = v /\ verdict.baseline = b
  BY <1>4, <1>9 DEF Classification
<1> HIDE DEF verdict
<1>12. PICK m \in Nat : m = Len(classifications)
  BY DEF ClassifierKeeps, VerdictsInv
<1>13. /\ classifications' \in Seq(Classification) /\ DOMAIN classifications = 1 .. m
       /\ DOMAIN classifications' = 1 .. m + 1
       /\ \A i \in 1 .. m : classifications'[i] = classifications[i]
       /\ classifications'[m + 1] = verdict
       /\ \A i \in 1 .. m + 1 : i \in 1 .. m \/ i = m + 1
  BY <1>1, <1>11, <1>12 DEF ClassifierKeeps, VerdictsInv
<1>14. \A i \in 1 .. m : classifications[i] # verdict
  <2>1. \A i \in 1 .. m : classifications[i].baseline = b => classifications[i].window # v
    BY <1>1, <1>4, <1>13 DEF ClassifierKeeps, VerdictsInv, b
  <2>2. QED BY <1>11, <2>1
<1>15. IsInjective(classifications')
  <2>1. IsInjective(classifications)
    BY DEF ClassifierKeeps, VerdictsInv
  <2>2. QED BY <1>13, <1>14, <2>1 DEF IsInjective
<1>16. \A i \in 1 .. m + 1 :
           /\ classifications'[i].baseline \in DOMAIN baselines
           /\ classifications'[i].window \notin baselines[classifications'[i].baseline]
  <2>1. \A i \in 1 .. m :
            /\ classifications[i].baseline \in DOMAIN baselines
            /\ classifications[i].window \notin baselines[classifications[i].baseline]
    BY <1>13 DEF ClassifierKeeps, VerdictsInv
  <2>2. QED BY <1>9, <1>10, <1>11, <1>13, <2>1
<1>17. \A i \in 1 .. m + 1 :
           classifications'[i].baseline = b =>
               classifications'[i].window \notin ToSet(verdictsLeft')
  <2>1. \A i \in 1 .. m : classifications[i].baseline = b =>
                              classifications[i].window \notin ToSet(verdictsLeft)
    BY <1>1, <1>13 DEF ClassifierKeeps, VerdictsInv, b
  <2>2. QED BY <1>6, <1>11, <1>13, <2>1
<1>18. VerdictsInv'
  BY <1>1, <1>13, <1>15, <1>16, <1>17 DEF ClassifierKeeps, VerdictsInv, b
<1>19. QED BY <1>2, <1>8, <1>18 DEF ClassifierKeeps

LEMMA RunEndsKeeps == ClassifierKeeps /\ (Report \/ ClassifierDies) => ClassifierKeeps'
<1> SUFFICES ASSUME ClassifierKeeps, Report \/ ClassifierDies PROVE ClassifierKeeps'
  OBVIOUS
<1>1. clPc' = "idle" /\ UNCHANGED <<baselines, classifications>>
  BY DEF Report, ClassifierDies
<1>2. QED BY <1>1
         DEF ClassifierKeeps, SnapshotInv, SeesWholeLabelling, LeftInv, VerdictsInv

(***************************************************************************)
(* The three programs together, every one of them stopped at any point:    *)
(* results in order, labels of one run with the worn windows last, and a   *)
(* classifier that keeps to what its one SELECT returned.                  *)
(***************************************************************************)
THEOREM ClassifierInductiveInvariant == Spec => []ClassifierInv
<1>1. Init => ClassifierInv
  BY InitAnalysis, InitLabels, InitClassifier DEF ClassifierInv, ClassifierKeeps
<1>2. ClassifierInv /\ [Next]_vars => ClassifierInv'
  <2> SUFFICES ASSUME ClassifierInv, [Next]_vars PROVE ClassifierInv'
    OBVIOUS
  <2>1. AnalysisInv /\ LabelsInv /\ LabelTypesOK /\ ClassifierKeeps /\ VerdictsInv
    BY DEF ClassifierInv, ClassifierKeeps, LabelsInv
  <2>2. AnalysisInv' /\ LabelsInv'
    BY <2>1, NextAnalysis, NextLabels
  <2>3. ClassifierKeeps'
    <3>1. CASE Analysing \/ Labelling \/ UNCHANGED vars
      BY <2>1, <3>1, NotClassifying
    <3>2. CASE FetchFftResults
      BY <2>1, <3>2, FetchKeeps DEF ClassifierKeeps
    <3>3. QED BY <2>1, <3>1, <3>2, StoreBaselineKeeps, StoreClassificationKeeps, RunEndsKeeps
             DEF Next, Classifying
  <2>4. QED BY <2>2, <2>3 DEF ClassifierInv, ClassifierKeeps
<1>3. QED BY <1>1, <1>2, PTL DEF Spec

(***************************************************************************)
(* window_labels holds labels of one run of labels.py only, and a          *)
(* classifier that goes on saw a whole labelling, although labels.py       *)
(* (labels.py:66-79) commits three times: the worn ranges come last, and   *)
(* without a worn window the classifier stops (classify_faults.py:168-184).*)
(***************************************************************************)
THEOREM LabellingsNeverMixed == Spec => []OneLabelling
<1>1. ClassifierInv => OneLabelling
  BY DEF ClassifierInv, LabelsInv, OneLabelling
<1>2. QED BY <1>1, ClassifierInductiveInvariant, PTL

(***************************************************************************)
(* No window is evaluated against a baseline that it was fitted to, the    *)
(* fit comes first in time and is never empty, and no window gets two      *)
(* verdicts of a run: split_healthy (classify_faults.py:54-58) splits by   *)
(* position, and there is one result per window.                           *)
(***************************************************************************)
THEOREM NoVerdictOnTheFit == Spec => []EvaluationHeldOut
<1>1. ClassifierInv => EvaluationHeldOut
  <2> SUFFICES ASSUME ClassifierInv PROVE EvaluationHeldOut
    OBVIOUS
  <2>1. SnapshotInv /\ LeftInv /\ VerdictsInv
    BY DEF ClassifierInv
  <2>2. ASSUME clPc = "classify", NEW i \in DOMAIN snapshot.healthy, NEW v \in ToSet(fit),
               snapshot.healthy[i] \in ToSet(verdictsLeft)
        PROVE  v < snapshot.healthy[i]
    <3>1. snapshot.healthy[i] \in ToSet(snapshot.healthy)
      BY DEF ToSet
    <3>2. snapshot.healthy[i] \notin ToSet(snapshot.worn)
      BY <2>1, <2>2, <3>1 DEF SnapshotInv
    <3>3. QED BY <2>1, <2>2, <3>2 DEF LeftInv
  <2>3. clPc # "idle" => fit # <<>>
    BY <2>1, Split DEF SnapshotInv
  <2>4. IsInjective(classifications)
        /\ \A i \in DOMAIN classifications :
               classifications[i].window \notin baselines[classifications[i].baseline]
    BY <2>1 DEF VerdictsInv
  <2>5. QED BY <2>2, <2>3, <2>4 DEF EvaluationHeldOut
<1>2. QED BY <1>1, ClassifierInductiveInvariant, PTL
=============================================================================
