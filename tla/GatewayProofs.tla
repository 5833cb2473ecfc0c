---------------------------- MODULE GatewayProofs ----------------------------
(***************************************************************************)
(* Theorems about Gateway: its rates, budgets and ledgers, for any users,  *)
(* tasks, limits, windows and number of calls, and whatever the providers  *)
(* make of their answers.                                                  *)
(*                                                                         *)
(* First sums over finite sets, which the ledgers are about; then what the *)
(* providers may report; then one user's rates; then the inductive         *)
(* invariant and the steps.                                                *)
(***************************************************************************)
EXTENDS Gateway, FiniteSetTheorems, SequenceTheorems, WellFoundedInduction, TLAPS

-----------------------------------------------------------------------------
(* The least number principle, in whose terms the inductions below are put. *)
LEMMA Least ==
  ASSUME NEW S \in SUBSET Nat, S # {}
  PROVE  \E m \in S : \A k \in S : m <= k
<1>1. PICK m \in S : \A k \in S : ~ (<<k, m>> \in OpToRel(<, Nat))
  BY NatLessThanWellFounded, WFMin, Zenon
<1>2. \A k \in S : ~(k < m)
  BY <1>1 DEF OpToRel
<1> QED BY <1>2
-----------------------------------------------------------------------------
(* Sums: the community module adds a function up by taking one chosen element *)
(* of the set after the other.                                              *)
Chosen(s) == CHOOSE x \in s : TRUE

\* One step of the recursion, and a function that takes it on all subsets.
Body(f, g, s) == IF s = {} THEN 0 ELSE f[Chosen(s)] + g[s \ {Chosen(s)}]
IsIter(f, S, g) == g = [s \in SUBSET S |-> Body(f, g, s)]
Iter(f, S) == CHOOSE g : IsIter(f, S, g)

LEMMA SumIsIter ==
  ASSUME NEW f, NEW S
  PROVE  SumFunctionOnSet(f, S) = Iter(f, S)[S]
BY DEF SumFunctionOnSet, FoldFunctionOnSet, MapThenFoldSet, Iter, IsIter, Body, Chosen

LEMMA ChosenType ==
  ASSUME NEW s, s # {}
  PROVE  Chosen(s) \in s
BY DEF Chosen

LEMMA Smaller ==
  ASSUME NEW s, IsFiniteSet(s), s # {}
  PROVE  /\ IsFiniteSet(s \ {Chosen(s)})
         /\ Cardinality(s) \in Nat /\ Cardinality(s \ {Chosen(s)}) \in Nat
         /\ Cardinality(s \ {Chosen(s)}) = Cardinality(s) - 1
BY ChosenType, FS_RemoveElement, FS_CardinalityType

\* A function that takes the steps exists on the subsets up to any size ...
UpTo(f, S, n, g) ==
  /\ g = [s \in SUBSET S |-> g[s]]
  /\ \A s \in SUBSET S : Cardinality(s) <= n => g[s] = Body(f, g, s)

LEMMA IterUpTo ==
  ASSUME NEW f, NEW S, IsFiniteSet(S), NEW n \in Nat
  PROVE  \E g : UpTo(f, S, n, g)
<1> DEFINE Bad == {m \in Nat : ~\E g : UpTo(f, S, m, g)}
<1>1. SUFFICES ASSUME Bad # {} PROVE FALSE
  OBVIOUS
<1>2. PICK m \in Bad : \A k \in Bad : m <= k
  <2>1. Bad \in SUBSET Nat
    OBVIOUS
  <2> HIDE DEF Bad
  <2> QED BY <1>1, <2>1, Least
<1>3. \A s \in SUBSET S : /\ IsFiniteSet(s) /\ Cardinality(s) \in Nat
                          /\ Cardinality(s) = 0 <=> s = {}
  BY FS_Subset, FS_CardinalityType, FS_EmptySet
<1>4. CASE m = 0
  <2> DEFINE g == [s \in SUBSET S |-> 0]
  <2>1. UpTo(f, S, 0, g)
    BY <1>3 DEF Body, UpTo
  <2> QED BY <1>2, <1>4, <2>1
<1>5. CASE m # 0
  <2>1. m - 1 \in Nat /\ m - 1 \notin Bad
    <3>1. m \in Nat
      OBVIOUS
    <3> HIDE DEF Bad
    <3> QED BY <1>2, <1>5, <3>1
  <2>2. PICK g : UpTo(f, S, m - 1, g)
    BY <2>1
  <2> DEFINE h == [s \in SUBSET S |-> IF Cardinality(s) <= m - 1 THEN g[s] ELSE Body(f, g, s)]
  <2>3. ASSUME NEW s \in SUBSET S, Cardinality(s) <= m
        PROVE  h[s] = Body(f, h, s)
    <3>1. CASE s = {}
      BY <1>3, <2>1, <2>2, <3>1 DEF Body, UpTo
    <3>2. CASE s # {}
      <4> DEFINE r == s \ {Chosen(s)}
      <4>1. r \in SUBSET S /\ Cardinality(r) <= m - 1
        BY <1>3, <2>1, <2>3, <3>2, Smaller
      <4>2. h[r] = g[r]
        BY <4>1
      <4>3. h[s] = Body(f, g, s)
        BY <2>2 DEF UpTo
      <4> QED BY <3>2, <4>2, <4>3 DEF Body
    <3> QED BY <3>1, <3>2
  <2>4. UpTo(f, S, m, h)
    BY <2>3 DEF UpTo
  <2> QED BY <1>2, <2>4
<1> QED BY <1>4, <1>5

\* ... and therefore on all of them, ...
LEMMA IterExists ==
  ASSUME NEW f, NEW S, IsFiniteSet(S)
  PROVE  IsIter(f, S, Iter(f, S))
<1>1. Cardinality(S) \in Nat
  BY FS_CardinalityType
<1>2. PICK g : UpTo(f, S, Cardinality(S), g)
  BY <1>1, IterUpTo
<1>3. \A s \in SUBSET S : Cardinality(s) <= Cardinality(S)
  BY FS_Subset
<1>4. IsIter(f, S, g)
  BY <1>2, <1>3 DEF IsIter, UpTo
<1> QED BY <1>4 DEF Iter

\* ... and two of them agree where both are defined.
LEMMA IterUnique ==
  ASSUME NEW f, NEW S, NEW T, IsFiniteSet(S), T \subseteq S, NEW g, NEW h,
         IsIter(f, S, g), IsIter(f, T, h)
  PROVE  g[T] = h[T]
<1> DEFINE Bad == {n \in Nat : \E s \in SUBSET T : Cardinality(s) = n /\ g[s] # h[s]}
<1>1. \A s \in SUBSET T : IsFiniteSet(s) /\ Cardinality(s) \in Nat
  BY FS_Subset, FS_CardinalityType
<1>2. SUFFICES ASSUME Bad # {} PROVE FALSE
  BY <1>1
<1>3. PICK m \in Bad : \A k \in Bad : m <= k
  <2>1. Bad \in SUBSET Nat
    OBVIOUS
  <2> HIDE DEF Bad
  <2> QED BY <1>2, <2>1, Least
<1>4. PICK s \in SUBSET T : Cardinality(s) = m /\ g[s] # h[s]
  BY <1>3
<1>5. g[s] = Body(f, g, s) /\ h[s] = Body(f, h, s)
  BY DEF IsIter
<1>6. s # {}
  BY <1>4, <1>5 DEF Body
<1> DEFINE r == s \ {Chosen(s)}
<1>7. r \in SUBSET T /\ Cardinality(r) < m /\ Cardinality(r) \in Nat
  BY <1>1, <1>4, <1>6, Smaller
<1>8. g[r] = h[r]
  BY <1>3, <1>7
<1> QED BY <1>4, <1>5, <1>6, <1>8 DEF Body

\* So the sum takes the chosen element first, ...
LEMMA SumChosen ==
  ASSUME NEW f, NEW S, IsFiniteSet(S)
  PROVE  SumFunctionOnSet(f, S)
           = IF S = {} THEN 0
             ELSE f[Chosen(S)] + SumFunctionOnSet(f, S \ {Chosen(S)})
<1>1. IsIter(f, S, Iter(f, S))
  BY IterExists
<1>2. Iter(f, S)[S] = Body(f, Iter(f, S), S)
  BY <1>1 DEF IsIter
<1>3. CASE S = {}
  BY <1>2, <1>3, SumIsIter DEF Body
<1>4. CASE S # {}
  <2> DEFINE T == S \ {Chosen(S)}
  <2>1. IsFiniteSet(T) /\ T \subseteq S
    BY <1>4, Smaller
  <2>2. IsIter(f, T, Iter(f, T))
    BY <2>1, IterExists
  <2>3. Iter(f, S)[T] = Iter(f, T)[T]
    BY <1>1, <2>1, <2>2, IterUnique
  <2> QED BY <1>2, <1>4, <2>3, SumIsIter DEF Body
<1> QED BY <1>3, <1>4

\* ... is a natural number when the values are, ...
LEMMA SumType ==
  ASSUME NEW f, NEW S, IsFiniteSet(S), \A x \in S : f[x] \in Nat
  PROVE  SumFunctionOnSet(f, S) \in Nat
<1> DEFINE Bad == {n \in Nat : \E s \in SUBSET S : Cardinality(s) = n /\ SumFunctionOnSet(f, s) \notin Nat}
<1>1. \A s \in SUBSET S : IsFiniteSet(s) /\ Cardinality(s) \in Nat
  BY FS_Subset, FS_CardinalityType
<1>2. SUFFICES ASSUME Bad # {} PROVE FALSE
  BY <1>1
<1>3. PICK m \in Bad : \A k \in Bad : m <= k
  <2>1. Bad \in SUBSET Nat
    OBVIOUS
  <2> HIDE DEF Bad
  <2> QED BY <1>2, <2>1, Least
<1>4. PICK s \in SUBSET S : Cardinality(s) = m /\ SumFunctionOnSet(f, s) \notin Nat
  BY <1>3
<1>5. s # {}
  BY <1>4, SumChosen, FS_EmptySet
<1> DEFINE r == s \ {Chosen(s)}
<1>6. r \in SUBSET S /\ Cardinality(r) < m /\ Cardinality(r) \in Nat
  BY <1>1, <1>4, <1>5, Smaller
<1>7. SumFunctionOnSet(f, r) \in Nat
  BY <1>3, <1>6
<1>8. SumFunctionOnSet(f, s) = f[Chosen(s)] + SumFunctionOnSet(f, r)
  BY <1>1, <1>5, SumChosen
<1>9. f[Chosen(s)] \in Nat
  BY <1>5, ChosenType
<1> QED BY <1>4, <1>7, <1>8, <1>9

\* ... and might as well take any other element first.
LEMMA SumRemove ==
  ASSUME NEW f, NEW S, IsFiniteSet(S), \A x \in S : f[x] \in Nat, NEW x \in S
  PROVE  SumFunctionOnSet(f, S) = f[x] + SumFunctionOnSet(f, S \ {x})
<1> DEFINE Fits(s) == \A y \in s : SumFunctionOnSet(f, s) = f[y] + SumFunctionOnSet(f, s \ {y})
           Bad == {n \in Nat : \E s \in SUBSET S : Cardinality(s) = n /\ ~Fits(s)}
<1>1. \A s \in SUBSET S : IsFiniteSet(s) /\ Cardinality(s) \in Nat
  BY FS_Subset, FS_CardinalityType
<1>2. SUFFICES ASSUME Bad # {} PROVE FALSE
  <2>1. \A s \in SUBSET S : Fits(s)
    <3> HIDE DEF Fits
    <3> QED BY <1>1, <1>2
  <2> QED BY <2>1
<1>3. PICK m \in Bad : \A k \in Bad : m <= k
  <2>1. Bad \in SUBSET Nat
    OBVIOUS
  <2> HIDE DEF Bad
  <2> QED BY <1>2, <2>1, Least
<1>4. PICK s \in SUBSET S : Cardinality(s) = m /\ ~Fits(s)
  BY <1>3
<1>5. PICK y \in s : SumFunctionOnSet(f, s) # f[y] + SumFunctionOnSet(f, s \ {y})
  BY <1>4
<1> DEFINE c == Chosen(s)
<1>6. c \in s /\ SumFunctionOnSet(f, s) = f[c] + SumFunctionOnSet(f, s \ {c})
  BY <1>1, <1>5, ChosenType, SumChosen
<1>7. c # y
  BY <1>5, <1>6
<1>8. ASSUME NEW z \in s
      PROVE  Fits(s \ {z})
  <2>1. s \ {z} \in SUBSET S
    OBVIOUS
  <2>2. Cardinality(s \ {z}) \in Nat /\ Cardinality(s \ {z}) < m
    BY <1>1, <1>4, FS_RemoveElement
  <2>3. Cardinality(s \ {z}) \notin Bad
    <3>1. m \in Nat
      OBVIOUS
    <3> HIDE DEF Bad
    <3> QED BY <1>3, <2>2, <3>1
  <2> HIDE DEF Fits
  <2> QED BY <2>1, <2>2, <2>3
<1>9. SumFunctionOnSet(f, s \ {c}) = f[y] + SumFunctionOnSet(f, (s \ {c}) \ {y})
  BY <1>6, <1>7, <1>8
<1>10. SumFunctionOnSet(f, s \ {y}) = f[c] + SumFunctionOnSet(f, (s \ {y}) \ {c})
  BY <1>6, <1>7, <1>8
<1>11. (s \ {c}) \ {y} = (s \ {y}) \ {c}
  OBVIOUS
<1>12. /\ f[y] \in Nat /\ f[c] \in Nat
       /\ SumFunctionOnSet(f, (s \ {y}) \ {c}) \in Nat
  <2>1. IsFiniteSet((s \ {y}) \ {c})
    BY <1>1, FS_Subset
  <2> QED BY <1>6, <2>1, SumType
<1> HIDE DEF c
<1> QED BY <1>5, <1>6, <1>9, <1>10, <1>11, <1>12

LEMMA SumEmpty == ASSUME NEW f PROVE SumFunctionOnSet(f, {}) = 0
BY SumChosen, FS_EmptySet

LEMMA SumAdd ==
  ASSUME NEW f, NEW S, IsFiniteSet(S), NEW x, x \notin S, \A y \in S \cup {x} : f[y] \in Nat
  PROVE  SumFunctionOnSet(f, S \cup {x}) = SumFunctionOnSet(f, S) + f[x]
<1> DEFINE T == S \cup {x}
<1>1. IsFiniteSet(T) /\ x \in T /\ T \ {x} = S
  BY FS_AddElement
<1>2. SumFunctionOnSet(f, T) = f[x] + SumFunctionOnSet(f, T \ {x})
  <2> HIDE DEF T
  <2> QED BY <1>1, SumRemove DEF T
<1>3. SumFunctionOnSet(f, S) \in Nat /\ f[x] \in Nat
  BY SumType
<1> QED BY <1>1, <1>2, <1>3

\* Only the values on the set count.
LEMMA SumSame ==
  ASSUME NEW f, NEW g, NEW S, IsFiniteSet(S), \A x \in S : f[x] = g[x]
  PROVE  SumFunctionOnSet(f, S) = SumFunctionOnSet(g, S)
<1> DEFINE Bad == {n \in Nat : \E s \in SUBSET S :
                      Cardinality(s) = n /\ SumFunctionOnSet(f, s) # SumFunctionOnSet(g, s)}
<1>1. \A s \in SUBSET S : IsFiniteSet(s) /\ Cardinality(s) \in Nat
  BY FS_Subset, FS_CardinalityType
<1>2. SUFFICES ASSUME Bad # {} PROVE FALSE
  BY <1>1
<1>3. PICK m \in Bad : \A k \in Bad : m <= k
  <2>1. Bad \in SUBSET Nat
    OBVIOUS
  <2> HIDE DEF Bad
  <2> QED BY <1>2, <2>1, Least
<1>4. PICK s \in SUBSET S : Cardinality(s) = m /\ SumFunctionOnSet(f, s) # SumFunctionOnSet(g, s)
  BY <1>3
<1>5. s # {}
  BY <1>4, SumEmpty
<1> DEFINE r == s \ {Chosen(s)}
<1>6. r \in SUBSET S /\ Cardinality(r) < m /\ Cardinality(r) \in Nat
  BY <1>1, <1>4, <1>5, Smaller
<1>7. SumFunctionOnSet(f, r) = SumFunctionOnSet(g, r)
  BY <1>3, <1>6
<1>8. f[Chosen(s)] = g[Chosen(s)]
  BY <1>5, ChosenType
<1> QED BY <1>1, <1>4, <1>5, <1>7, <1>8, SumChosen

\* When one value of a set grows, the sum grows with it.
LEMMA SumGrows ==
  ASSUME NEW f, NEW g, NEW S, IsFiniteSet(S), NEW x \in S, NEW u \in Nat,
         \A y \in S : f[y] \in Nat, \A y \in S \ {x} : g[y] = f[y], g[x] = f[x] + u
  PROVE  SumFunctionOnSet(g, S) = SumFunctionOnSet(f, S) + u
<1>1. \A y \in S : g[y] \in Nat
  OBVIOUS
<1>2. IsFiniteSet(S \ {x})
  BY FS_RemoveElement
<1>3. SumFunctionOnSet(g, S \ {x}) = SumFunctionOnSet(f, S \ {x})
  BY <1>2, SumSame
<1>4. SumFunctionOnSet(f, S \ {x}) \in Nat
  BY <1>2, SumType
<1>5. SumFunctionOnSet(f, S) = f[x] + SumFunctionOnSet(f, S \ {x})
  BY SumRemove
<1>6. SumFunctionOnSet(g, S) = g[x] + SumFunctionOnSet(g, S \ {x})
  BY <1>1, SumRemove
<1> QED BY <1>3, <1>4, <1>5, <1>6
-----------------------------------------------------------------------------
(* What the providers make of the services' answers.                        *)
LEMMA Greatest ==
  ASSUME NEW n \in Nat, NEW S \in SUBSET (1..n), S # {}
  PROVE  \E m \in S : \A k \in S : m >= k
<1> DEFINE D == {n - i : i \in S}
<1>1. D \in SUBSET Nat /\ D # {}
  <2>1. \A i \in S : n - i \in Nat
    OBVIOUS
  <2> QED BY <2>1
<1>2. PICK d \in D : \A k \in D : d <= k
  <2> HIDE DEF D
  <2> QED BY <1>1, Least
<1>3. PICK m \in S : d = n - m
  OBVIOUS
<1>4. \A k \in S : n - m <= n - k
  BY <1>2, <1>3
<1> QED BY <1>4

\* A frame LastOf returns is one of the frames, and of one of the kinds.
LEMMA LastOfFrames ==
  ASSUME NEW F, NEW frames \in Seq(F), NEW kinds, NEW none
  PROVE  \/ P!LastOf(frames, kinds, none) = none
         \/ \E i \in 1..Len(frames) : /\ P!LastOf(frames, kinds, none) = frames[i]
                                      /\ frames[i].kind \in kinds
<1> DEFINE I == {i \in 1..Len(frames) : frames[i].kind \in kinds}
<1>1. CASE I = {}
  BY <1>1 DEF P!LastOf, P!SelectLastInSeq
<1>2. CASE I # {}
  <2>1. Len(frames) \in Nat /\ I \in SUBSET (1..Len(frames))
    OBVIOUS
  <2>2. \E m \in I : \A k \in I : m >= k
    <3> HIDE DEF I
    <3> QED BY <1>2, <2>1, Greatest
  <2>3. P!Max(I) \in I
    <3> HIDE DEF I
    <3> QED BY <2>2 DEF P!Max
  <2>4. P!LastOf(frames, kinds, none) = frames[P!Max(I)]
    BY <1>2, <2>1, <2>3 DEF P!LastOf, P!SelectLastInSeq
  <2> QED BY <2>3, <2>4
<1> QED BY <1>1, <1>2

\* What is read before a frame is a sequence of frames too.
LEMMA BeforeFrames ==
  ASSUME NEW F, NEW frames \in Seq(F), NEW kind
  PROVE  P!Before(frames, kind) \in Seq(F)
<1> DEFINE I == {i \in 1..Len(frames) : frames[i].kind = kind}
<1>1. CASE I = {}
  BY <1>1 DEF P!Before, P!SelectInSeq
<1>2. CASE I # {}
  <2>1. I \in SUBSET Nat
    OBVIOUS
  <2>2. \E m \in I : \A k \in I : m <= k
    <3> HIDE DEF I
    <3> QED BY <1>2, <2>1, Least
  <2>3. P!Min(I) \in I
    <3> HIDE DEF I
    <3> QED BY <2>2 DEF P!Min
  <2>4. P!Before(frames, kind)
          = LET i == IF I # {} THEN P!Min(I) ELSE 0
            IN  IF i = 0 THEN frames ELSE SubSeq(frames, 1, i - 1)
    BY DEF P!Before, P!SelectInSeq
  <2>5. P!Min(I) \in 1..Len(frames)
    BY <2>3
  <2> DEFINE m == P!Min(I)
  <2>6. P!Before(frames, kind) = SubSeq(frames, 1, m - 1)
    <3> HIDE DEF I
    <3> QED BY <1>2, <2>4, <2>5
  <2> HIDE DEF m, I
  <2>7. SubSeq(frames, 1, m - 1) \in Seq(F)
    BY <2>5 DEF m
  <2> QED BY <2>6, <2>7
<1> QED BY <1>1, <1>2

LEMMA FramesAreSequences ==
  ASSUME NEW F, NEW frames \in P!Frames(F)
  PROVE  frames \in Seq(F)
<1>1. PICK n \in 0..MaxFrames : frames \in [1..n -> F]
  BY DEF P!Frames
<1>2. n \in Nat
  BY BoundAssumption
<1> QED BY <1>1, <1>2, SeqDef

\* A call costs a number of tokens, and something when the provider counted text.
Fair(result) ==
  /\ result.use \in Nat /\ result.said \in P!Said
  /\ result.said = "counted" => result.use > 0

LEMMA DoneIsFair ==
  /\ Fair(P!Thrown)
  /\ \A said \in P!Said, use \in Nat : (said = "counted" => use > 0) => Fair(P!Done(said, use))
BY DEF Fair, P!Thrown, P!Done, P!Said

LEMMA OaiFair ==
  ASSUME NEW frames \in P!Frames(P!OaiFrame), NEW ends
  PROVE  Fair(P!OaiStream(frames, ends))
<1> DEFINE read == P!Before(frames, "[DONE]")
           usage == P!LastOf(read, {"usage"}, [in |-> 0, out |-> 0])
           texts == {i \in DOMAIN read : read[i].kind = "text"}
           chars == Cardinality(texts)
<1>1. read \in Seq(P!OaiFrame)
  BY FramesAreSequences, BeforeFrames
<1>2. usage.in \in Nat /\ usage.out \in Nat
  <2> HIDE DEF read
  <2>1. usage = [in |-> 0, out |-> 0] \/ \E i \in 1..Len(read) : usage = read[i] /\ read[i].kind = "usage"
    BY <1>1, LastOfFrames
  <2>2. \A i \in 1..Len(read) : read[i] \in P!OaiFrame
    BY <1>1
  <2>3. \A x \in P!OaiFrame : x.kind = "usage" => x.in \in 0..1 /\ x.out \in 0..1
    BY DEF P!OaiFrame
  <2> QED BY <2>1, <2>2, <2>3
<1>3. chars \in Nat
  <2> HIDE DEF read
  <2>1. DOMAIN read = 1..Len(read) /\ Len(read) \in Nat
    BY <1>1
  <2>2. IsFiniteSet(1..Len(read)) /\ texts \subseteq 1..Len(read)
    BY <2>1, FS_Interval
  <2>3. IsFiniteSet(texts)
    <3> HIDE DEF texts
    <3> QED BY <2>2, FS_Subset
  <2> QED BY <2>3, FS_CardinalityType
<1>n. P!Cardinality(texts) = chars
  <2> HIDE DEF texts
  <2> QED BY DEF P!Cardinality, Cardinality
<1> HIDE DEF chars, usage
<1>4. P!Estimated(usage.out, chars) \in Nat /\ (chars > 0 => P!Estimated(usage.out, chars) > 0)
  BY <1>2, <1>3 DEF P!Estimated
<1> DEFINE said == IF chars > 0 THEN "counted" ELSE "nothing"
<1>5. \/ P!OaiStream(frames, ends) = P!Thrown
      \/ P!OaiStream(frames, ends) = P!Done(said, usage.in + P!Estimated(usage.out, chars))
  BY <1>n DEF P!OaiStream, usage
<1>6. /\ said \in P!Said
      /\ usage.in + P!Estimated(usage.out, chars) \in Nat
      /\ said = "counted" => usage.in + P!Estimated(usage.out, chars) > 0
  BY <1>2, <1>3, <1>4 DEF P!Said
<1> HIDE DEF said
<1> QED BY <1>5, <1>6, DoneIsFair, Zenon

LEMMA AnthropicFair ==
  ASSUME NEW frames \in P!Frames(P!AnthropicEvent), NEW ends
  PROVE  Fair(P!AnthropicStream(frames, ends))
<1> DEFINE read == P!Before(frames, "error")
           first == P!LastOf(read, {"message_start"}, [tokens |-> 0])
           last == P!LastOf(read, {"out"}, [tokens |-> 0])
           said == IF P!Has(read, "text") THEN "reported" ELSE "nothing"
<1>1. read \in Seq(P!AnthropicEvent)
  BY FramesAreSequences, BeforeFrames
<1>2. first.tokens \in Nat /\ last.tokens \in Nat
  <2> HIDE DEF read
  <2>1. /\ first = [tokens |-> 0]
           \/ \E i \in 1..Len(read) : first = read[i] /\ read[i].kind = "message_start"
        /\ last = [tokens |-> 0] \/ \E i \in 1..Len(read) : last = read[i] /\ read[i].kind = "out"
    BY <1>1, LastOfFrames
  <2>2. \A i \in 1..Len(read) : read[i] \in P!AnthropicEvent
    BY <1>1
  <2>3. \A x \in P!AnthropicEvent : x.kind \in {"message_start", "out"} => x.tokens \in 0..1
    BY DEF P!AnthropicEvent
  <2> QED BY <2>1, <2>2, <2>3
<1>3. \/ P!AnthropicStream(frames, ends) = P!Thrown
      \/ P!AnthropicStream(frames, ends) = P!Done(said, first.tokens + last.tokens)
  BY DEF P!AnthropicStream
<1>4. said \in P!Said /\ said # "counted"
  BY DEF P!Said
<1> HIDE DEF first, last, said
<1>5. first.tokens + last.tokens \in Nat
  BY <1>2
<1> QED BY <1>3, <1>4, <1>5, DoneIsFair, Zenon

LEMMA ResultsFair ==
  ASSUME NEW result \in P!OnceResults \cup P!StreamResults
  PROVE  Fair(result)
<1>1. Fair(P!Refused)
  BY DoneIsFair DEF P!Refused
<1>2. \A body \in P!Body : Fair(P!Once(body))
  BY DEF Fair, P!Body, P!Once, P!Thrown, P!Done, P!Said
<1>3. \A use \in 1..2 : Fair(P!Done("nothing", use))
  BY DEF Fair, P!Done, P!Said
<1>4. \A chars \in 0..2 : Fair(P!MockStream(1, chars))
  BY DEF Fair, P!MockStream, P!Done, P!Said
<1>5. P!Built \subseteq {"openai", "anthropic", "mock", "none"}
  BY DEF P!Built, P!CreateProvider
<1>6. \A p \in P!Built : \A r \in P!Onces(p) : Fair(r)
  BY <1>1, <1>2, <1>3, <1>5 DEF P!Onces
<1>7. \A p \in P!Built : \A r \in P!Streams(p) : Fair(r)
  BY <1>1, <1>4, <1>5, OaiFair, AnthropicFair DEF P!Streams
<1> QED BY <1>6, <1>7 DEF P!OnceResults, P!StreamResults
-----------------------------------------------------------------------------
(* Days                                                                     *)
LEMMA Quotient ==
  ASSUME NEW t \in Nat, NEW n \in Nat \ {0}
  PROVE  /\ t \div n \in Nat
         /\ n * (t \div n) <= t /\ t < n * (t \div n) + n
OBVIOUS

LEMMA QuotientGrows ==
  ASSUME NEW s \in Nat, NEW t \in Nat, NEW n \in Nat \ {0}, s <= t
  PROVE  s \div n <= t \div n
<1> DEFINE p == s \div n  q == t \div n
<1>1. p \in Nat /\ q \in Nat /\ n * p <= s /\ t < n * q + n
  BY Quotient
<1>2. SUFFICES ASSUME p >= q + 1 PROVE FALSE
  BY <1>1
<1> HIDE DEF p, q
<1>3. PICK d \in Nat : p = q + 1 + d
  BY <1>1, <1>2
<1>4. n * p = n * q + n + n * d /\ n * d >= 0
  BY <1>1, <1>3
<1> QED BY <1>1, <1>4

LEMMA TodayIsADay ==
  ASSUME NEW t \in 0..MaxNow
  PROVE  t \div DayLength \in Day
<1>1. t \in Nat /\ MaxNow \in Nat /\ DayLength \in Nat \ {0}
  BY LimitAssumption, BoundAssumption
<1> QED BY <1>1, Quotient, QuotientGrows DEF Day

(***************************************************************************)
(* What the gateway keeps of a user's calls: a is asked[u], hits the       *)
(* array of the sliding window, counts the counts of the days, t the time. *)
(* The array may have lost what left the window, and nothing else.         *)
(***************************************************************************)
HitOf(a, i) == [at |-> a[i], nr |-> i]
OfDay(a, d) == {i \in 1..Len(a) : a[i] \div DayLength = d}
Slid(hits, t) == {h \in hits : t - h.at >= 0 /\ t - h.at < Window}

InOrder(a, t) ==
  /\ a \in Seq(0..MaxNow)
  /\ \A i, j \in 1..Len(a) : i <= j => a[i] <= a[j]
  /\ \A i \in 1..Len(a) : a[i] <= t

Kept(a, hits, t) ==
  /\ IsFiniteSet(hits)
  /\ \A h \in hits : h.nr \in 1..Len(a) /\ h = HitOf(a, h.nr)
  /\ \A i \in 1..Len(a) : t - a[i] < Window => HitOf(a, i) \in hits

CountsOf(a, counts) ==
  /\ counts \in [Day -> Nat]
  /\ \A d \in Day : counts[d] = Cardinality(OfDay(a, d)) /\ counts[d] <= PerDay

Spaced(a) == \A i \in 1..Len(a) : i + PerMin <= Len(a) => a[i + PerMin] - a[i] >= Window

UserInv(a, hits, counts, t) ==
  InOrder(a, t) /\ Kept(a, hits, t) /\ CountsOf(a, counts) /\ Spaced(a)

LEMMA OfDayFinite ==
  ASSUME NEW a \in Seq(0..MaxNow), NEW d
  PROVE  IsFiniteSet(OfDay(a, d))
<1>1. IsFiniteSet(1..Len(a)) /\ OfDay(a, d) \subseteq 1..Len(a)
  BY FS_Interval DEF OfDay
<1> QED BY <1>1, FS_Subset

LEMMA UserStarts ==
  ASSUME NEW t \in Nat
  PROVE  UserInv(<< >>, {}, [d \in Day |-> 0], t)
<1>1. \A d : OfDay(<< >>, d) = {}
  BY DEF OfDay
<1>2. PerDay \in Nat
  BY LimitAssumption
<1>3. << >> \in Seq(0..MaxNow) /\ 1..Len(<< >>) = {}
  OBVIOUS
<1>4. InOrder(<< >>, t) /\ Spaced(<< >>)
  BY <1>3 DEF InOrder, Spaced
<1>5. Kept(<< >>, {}, t)
  BY <1>3, FS_EmptySet DEF Kept
<1>6. CountsOf(<< >>, [d \in Day |-> 0])
  BY <1>1, <1>2, FS_EmptySet DEF CountsOf
<1> QED BY <1>4, <1>5, <1>6 DEF UserInv

LEMMA Times ==
  ASSUME NEW a, NEW t, InOrder(a, t)
  PROVE  Len(a) \in Nat /\ \A i \in 1..Len(a) : a[i] \in 0..MaxNow /\ a[i] \in Nat /\ a[i] <= t
<1>1. a \in Seq(0..MaxNow)
  BY DEF InOrder
<1>2. \A i \in 1..Len(a) : a[i] \in 0..MaxNow
  <2> DEFINE S == 0..MaxNow
  <2> HIDE DEF S
  <2> QED BY <1>1, ElementOfSeq DEF S
<1> QED BY <1>1, <1>2 DEF InOrder

LEMMA UserWaits ==
  ASSUME NEW t \in Nat, NEW a, NEW hits, NEW counts, UserInv(a, hits, counts, t)
  PROVE  UserInv(a, hits, counts, t + 1)
<1>1. \A i \in 1..Len(a) : a[i] \in Nat
  BY Times DEF UserInv
<1>2. Window \in Nat
  BY LimitAssumption
<1> QED BY <1>1, <1>2 DEF UserInv, InOrder, Kept

LEMMA UserSlides ==
  ASSUME NEW t \in Nat, NEW a, NEW hits, NEW counts, UserInv(a, hits, counts, t)
  PROVE  UserInv(a, Slid(hits, t), counts, t)
<1>1. IsFiniteSet(Slid(hits, t))
  BY FS_Subset DEF UserInv, Kept, Slid
<1>2. \A i \in 1..Len(a) : a[i] \in Nat /\ a[i] <= t
  BY Times DEF UserInv
<1> QED BY <1>1, <1>2 DEF UserInv, Kept, Slid, HitOf

\* The call of which PerMin more are to come may not be in the window still: else
\* all since then would be, and the array at its limit.
LEMMA UserCounts ==
  ASSUME NEW t \in 0..MaxNow, NEW a, NEW hits, NEW counts, UserInv(a, hits, counts, t),
         Cardinality(Slid(hits, t)) < PerMin, counts[t \div DayLength] < PerDay
  PROVE  UserInv(Append(a, t), Slid(hits, t) \cup {[at |-> t, nr |-> Len(a) + 1]},
                 [counts EXCEPT ![t \div DayLength] = @ + 1], t)
<1> DEFINE n == Len(a)
           b == Append(a, t)
           kept == Slid(hits, t)
           new == [at |-> t, nr |-> n + 1]
           today_ == t \div DayLength
<1>1. /\ a \in Seq(0..MaxNow) /\ n \in Nat /\ t \in Nat /\ MaxNow \in Nat
      /\ Window \in Nat \ {0} /\ PerMin \in Nat \ {0} /\ PerDay \in Nat
      /\ today_ \in Day
  BY LimitAssumption, BoundAssumption, TodayIsADay DEF UserInv, InOrder
<1>2. /\ b \in Seq(0..MaxNow) /\ Len(b) = n + 1 /\ b[n + 1] = t
      /\ \A i \in 1..n : b[i] = a[i] /\ a[i] \in 0..MaxNow
  BY <1>1
<1>3. UserInv(a, kept, counts, t)
  BY <1>1, UserSlides
<1>4. InOrder(b, t)
  BY <1>1, <1>2, <1>3 DEF UserInv, InOrder
<1>5. Kept(b, kept \cup {new}, t)
  <2>1. IsFiniteSet(kept \cup {new})
    BY <1>3, FS_AddElement DEF UserInv, Kept
  <2>2. ASSUME NEW h \in kept \cup {new}
        PROVE  h.nr \in 1..Len(b) /\ h = HitOf(b, h.nr)
    <3>1. CASE h \in kept
      BY <1>1, <1>2, <1>3, <3>1 DEF UserInv, Kept, HitOf
    <3>2. CASE h = new
      BY <1>1, <1>2, <3>2 DEF HitOf
    <3> QED BY <3>1, <3>2
  <2>3. ASSUME NEW i \in 1..Len(b), t - b[i] < Window
        PROVE  HitOf(b, i) \in kept \cup {new}
    <3>1. CASE i \in 1..n
      BY <1>1, <1>2, <1>3, <2>3, <3>1 DEF UserInv, Kept, HitOf
    <3>2. CASE i = n + 1
      BY <1>1, <1>2, <3>2 DEF HitOf
    <3> QED BY <1>1, <1>2, <3>1, <3>2
  <2> HIDE DEF b, kept, new
  <2> QED BY <2>1, <2>2, <2>3 DEF Kept
<1>6. CountsOf(b, [counts EXCEPT ![today_] = @ + 1])
  <2> DEFINE more == [counts EXCEPT ![today_] = @ + 1]
  <2>1. counts \in [Day -> Nat] /\ \A d \in Day : counts[d] = Cardinality(OfDay(a, d)) /\ counts[d] <= PerDay
    BY <1>3 DEF UserInv, CountsOf
  <2>2. more \in [Day -> Nat] /\ \A d \in Day : more[d] <= PerDay
    BY <1>1, <2>1
  <2>3. ASSUME NEW d \in Day
        PROVE  more[d] = Cardinality(OfDay(b, d))
    <3>1. CASE d = today_
      <4>1. OfDay(b, d) = OfDay(a, d) \cup {n + 1} /\ n + 1 \notin OfDay(a, d)
        BY <1>1, <1>2, <3>1 DEF OfDay
      <4>2. Cardinality(OfDay(b, d)) = Cardinality(OfDay(a, d)) + 1
        BY <1>1, <4>1, OfDayFinite, FS_AddElement
      <4> QED BY <2>1, <3>1, <4>2
    <3>2. CASE d # today_
      <4>1. OfDay(b, d) = OfDay(a, d)
        BY <1>1, <1>2, <3>2 DEF OfDay
      <4> QED BY <2>1, <3>2, <4>1
    <3> QED BY <3>1, <3>2
  <2> QED BY <2>2, <2>3 DEF CountsOf
<1>7. Spaced(b)
  <2> SUFFICES ASSUME NEW i \in 1..Len(b), i + PerMin <= Len(b), b[i + PerMin] - b[i] < Window
               PROVE  FALSE
    <3>1. \A i \in 1..Len(b) : i + PerMin <= Len(b) => b[i + PerMin] \in Nat /\ b[i] \in Nat
      <4>1. \A i \in 1..(n + 1) : b[i] \in Nat
        BY <1>1, <1>2
      <4>2. \A i \in 1..(n + 1) : i + PerMin <= n + 1 => i + PerMin \in 1..(n + 1)
        BY <1>1
      <4> HIDE DEF b, n
      <4> QED BY <1>2, <4>1, <4>2
    <3> HIDE DEF b
    <3> QED BY <1>1, <3>1 DEF Spaced
  <2>1. i \in 1..n /\ i + PerMin \in 1..(n + 1)
    BY <1>1, <1>2
  <2>2. i + PerMin = n + 1
    <3> SUFFICES ASSUME i + PerMin # n + 1 PROVE FALSE
      OBVIOUS
    <3>1. i + PerMin \in 1..n
      BY <1>1, <2>1
    <3>2. b[i + PerMin] = a[i + PerMin] /\ b[i] = a[i] /\ a[i] \in Nat /\ a[i + PerMin] \in Nat
      BY <1>2, <2>1, <3>1
    <3>3. a[i + PerMin] - a[i] >= Window
      BY <1>3, <2>1, <3>1 DEF UserInv, Spaced
    <3>4. ~(\A x, y \in Nat : x - y >= Window => ~(x - y < Window)) => FALSE
      BY <1>1
    <3> HIDE DEF b
    <3> QED BY <3>2, <3>3, <3>4
  <2>3. t - a[i] < Window
    BY <1>2, <2>1, <2>2
  <2>4. \A j \in i..n : HitOf(a, j) \in kept
    <3> SUFFICES ASSUME NEW j \in i..n PROVE HitOf(a, j) \in kept
      OBVIOUS
    <3>1. j \in 1..n /\ a[i] <= a[j] /\ a[j] <= t
      BY <1>1, <2>1, <1>3 DEF UserInv, InOrder
    <3>2. a[i] \in Nat /\ a[j] \in Nat
      BY <1>3, <2>1, <3>1, Times DEF UserInv
    <3>3. \A x, y \in Nat : x <= y /\ t - x < Window => t - y < Window
      BY <1>1
    <3>4. t - a[j] < Window
      BY <2>3, <3>1, <3>2, <3>3
    <3> QED BY <1>3, <3>1, <3>4 DEF UserInv, Kept
  <2>5. IsFiniteSet(i..n) /\ Cardinality(i..n) = PerMin
    BY <1>1, <2>1, <2>2, FS_Interval
  <2>6. IsFiniteSet(kept)
    BY <1>3 DEF UserInv, Kept
  <2> DEFINE f == [j \in i..n |-> HitOf(a, j)]
  <2>7. f \in [i..n -> kept]
    <3> HIDE DEF kept
    <3> QED BY <2>4
  <2>8. \A j, k \in i..n : f[j] = f[k] => j = k
    BY DEF HitOf
  <2> HIDE DEF f, kept
  <2> QED BY <2>5, <2>6, <2>7, <2>8, FS_PigeonHole DEF kept
<1> QED BY <1>4, <1>5, <1>6, <1>7 DEF UserInv

LEMMA SumZero ==
  ASSUME NEW f, NEW S, IsFiniteSet(S), \A x \in S : f[x] = 0
  PROVE  SumFunctionOnSet(f, S) = 0
<1> DEFINE Bad == {n \in Nat : \E s \in SUBSET S : Cardinality(s) = n /\ SumFunctionOnSet(f, s) # 0}
<1>1. \A s \in SUBSET S : IsFiniteSet(s) /\ Cardinality(s) \in Nat
  BY FS_Subset, FS_CardinalityType
<1>2. SUFFICES ASSUME Bad # {} PROVE FALSE
  BY <1>1
<1>3. PICK m \in Bad : \A k \in Bad : m <= k
  <2>1. Bad \in SUBSET Nat
    OBVIOUS
  <2> HIDE DEF Bad
  <2> QED BY <1>2, <2>1, Least
<1>4. PICK s \in SUBSET S : Cardinality(s) = m /\ SumFunctionOnSet(f, s) # 0
  BY <1>3
<1>5. s # {}
  BY <1>4, SumEmpty
<1> DEFINE r == s \ {Chosen(s)}
<1>6. r \in SUBSET S /\ Cardinality(r) < m /\ Cardinality(r) \in Nat
  BY <1>1, <1>4, <1>5, Smaller
<1>7. SumFunctionOnSet(f, r) = 0
  BY <1>3, <1>6
<1>8. f[Chosen(s)] = 0
  BY <1>5, ChosenType
<1> QED BY <1>1, <1>4, <1>5, <1>7, <1>8, SumChosen
-----------------------------------------------------------------------------
(***************************************************************************)
(* The inductive invariant.  Of the rates it says of each user what        *)
(* UserInv says.  Of the budgets: once a ledger is at its limit, the calls *)
(* still open are among those that were open when it got there, since none *)
(* is accepted any more; a task never has two calls open, since one it     *)
(* gave up was its last; and what is open has cost nothing yet.            *)
(***************************************************************************)
RatesInv == \A u \in User : UserInv(asked[u], minuteHits[u], dayCounts[u], now)

OpenCostsNothing ==
  /\ Len(calls) <= MaxCalls
  /\ \A i \in DOMAIN calls :
       /\ calls[i].state = "open" => calls[i].use = 0 /\ calls[i].said = "nothing"
       /\ calls[i].heard => calls[i].state = "open"
       /\ calls[i].said = "counted" => calls[i].use > 0

OneCallOpen ==
  \A i \in Open : calls[i].task \in Task =>
    /\ calls[i].heard \/ calls[i].task \in over
    /\ \A j \in Open : calls[j].task = calls[i].task => i = j

DaysInv ==
  \A d \in Day :
    /\ crossing[d] \subseteq DOMAIN calls
    /\ dayUsage[d] < Budget + Cost(crossing[d])
    /\ d = today /\ dayUsage[d] >= Budget => Open \subseteq crossing[d]
    /\ d > today => dayUsage[d] = 0

TasksInv ==
  \A k \in Task :
    /\ crossing[k] \subseteq DOMAIN calls /\ Cardinality(crossing[k]) <= 1
    /\ taskTokens[k] < Cap + Cost(crossing[k])
    /\ taskTokens[k] >= Cap => \A i \in Open : calls[i].task = k => i \in crossing[k]

IInv ==
  TypeOK /\ RatesInv /\ OpenCostsNothing /\ OneCallOpen /\ DaysInv /\ TasksInv /\ LedgersAgree

-----------------------------------------------------------------------------
(* The calls of this life and what they cost                                *)
Done == {i \in DOMAIN calls : calls[i].state = "done"}
DoneOf(k) == {i \in Done : calls[i].task = k}

LEMMA CallsShape ==
  ASSUME TypeOK
  PROVE  /\ Len(calls) \in Nat /\ DOMAIN calls = 1..Len(calls) /\ IsFiniteSet(DOMAIN calls)
         /\ \A i \in DOMAIN calls : calls[i] \in Call /\ Uses[i] = calls[i].use /\ Uses[i] \in Nat
         /\ \A S \in SUBSET DOMAIN calls : IsFiniteSet(S) /\ Cost(S) \in Nat
<1>1. Len(calls) \in Nat /\ DOMAIN calls = 1..Len(calls)
  BY DEF TypeOK
<1>2. IsFiniteSet(DOMAIN calls)
  BY <1>1, FS_Interval
<1>3. \A i \in DOMAIN calls : calls[i] \in Call
  BY <1>1, ElementOfSeq DEF TypeOK
<1>4. \A i \in DOMAIN calls : Uses[i] = calls[i].use /\ Uses[i] \in Nat
  BY <1>3 DEF Uses, Call
<1>5. \A S \in SUBSET DOMAIN calls : IsFiniteSet(S) /\ Cost(S) \in Nat
  BY <1>2, <1>4, FS_Subset, SumType DEF Cost
<1> QED BY <1>1, <1>2, <1>3, <1>4, <1>5

\* A sum when a call that had cost nothing costs u.
LEMMA SumCharged ==
  ASSUME NEW f, NEW g, NEW S, IsFiniteSet(S), NEW i, NEW u \in Nat, f[i] = 0, g[i] = u,
         \A y \in S : f[y] \in Nat, \A y \in S \ {i} : g[y] = f[y]
  PROVE  SumFunctionOnSet(g, S) = SumFunctionOnSet(f, S) + (IF i \in S THEN u ELSE 0)
<1>1. SumFunctionOnSet(f, S) \in Nat
  BY SumType
<1>2. CASE i \in S
  <2>1. g[i] = f[i] + u
    OBVIOUS
  <2> QED BY <1>2, <2>1, SumGrows
<1>3. CASE i \notin S
  <2>1. \A y \in S : g[y] = f[y]
    BY <1>3
  <2>2. SumFunctionOnSet(g, S) = SumFunctionOnSet(f, S)
    BY <2>1, SumSame
  <2> QED BY <1>1, <1>3, <2>2
<1> QED BY <1>2, <1>3

\* A call of the sequence is replaced.
LEMMA Replaced ==
  ASSUME NEW c \in Seq(Call), NEW i \in DOMAIN c, NEW v \in Call
  PROVE  [c EXCEPT ![i] = v] \in Seq(Call) /\ Len([c EXCEPT ![i] = v]) = Len(c)
<1>1. i \in 1..Len(c)
  OBVIOUS
<1> QED BY <1>1, ExceptSeq

LEMMA DaysAreNoTasks ==
  ASSUME NEW d \in Day
  PROVE  d \in Nat /\ d \in Ledger /\ d \notin Task /\ d # NoTask
BY TaskAssumption DEF Day, Ledger

LEMMA Today ==
  ASSUME TypeOK
  PROVE  today \in Day /\ today \in Nat
BY TodayIsADay DEF TypeOK, today, Day
-----------------------------------------------------------------------------
(***************************************************************************)
(* The steps at which no ledger changes: no call is done, none that was    *)
(* open costs anything, and one is opened only while the ledgers it will   *)
(* be charged to are under their limits.                                   *)
(***************************************************************************)
Quiet ==
  /\ UNCHANGED ledgers
  /\ now <= now'
  /\ DOMAIN calls \subseteq DOMAIN calls'
  /\ \A i \in DOMAIN calls :
       /\ calls'[i].use = calls[i].use /\ calls'[i].task = calls[i].task
       /\ calls'[i].state = "done" <=> calls[i].state = "done"
       /\ calls'[i].state = "open" => calls[i].state = "open"
  /\ \A i \in DOMAIN calls' \ DOMAIN calls :
       /\ calls'[i].state = "open" /\ today' = today
       /\ dayUsage[today] < Budget
       /\ calls'[i].task \in Task => taskTokens[calls'[i].task] < Cap

LEMMA QuietKeeps ==
  ASSUME TypeOK, TypeOK', DaysInv, TasksInv, LedgersAgree, Quiet
  PROVE  DaysInv' /\ TasksInv' /\ LedgersAgree'
<1>1. dayUsage' = dayUsage /\ taskTokens' = taskTokens /\ crossing' = crossing
  BY DEF Quiet, ledgers
<1>2. today' >= today /\ today \in Nat /\ today' \in Nat /\ Budget \in Nat
  <2>1. now \in Nat /\ now' \in Nat /\ now <= now' /\ DayLength \in Nat \ {0}
    BY LimitAssumption, BoundAssumption DEF TypeOK, Quiet
  <2>2. now \div DayLength <= now' \div DayLength /\ now \div DayLength \in Nat
        /\ now' \div DayLength \in Nat
    BY <2>1, QuotientGrows, Quotient
  <2> QED BY <2>2, LimitAssumption DEF today
<1>3. ASSUME NEW S \in SUBSET DOMAIN calls
      PROVE  SumFunctionOnSet(Uses', S) = Cost(S)
  <2>1. IsFiniteSet(S)
    BY CallsShape
  <2>2. \A i \in S : Uses'[i] = Uses[i]
    BY DEF Uses, Quiet
  <2> QED BY <2>1, <2>2, SumSame DEF Cost
<1>4. \A i \in Open' : \/ i \in Open
                       \/ /\ today' = today /\ dayUsage[today] < Budget
                          /\ calls'[i].task \in Task => taskTokens[calls'[i].task] < Cap
  BY DEF Quiet, Open
<1>5. DaysInv'
  <2> SUFFICES ASSUME NEW d \in Day
               PROVE  /\ crossing[d] \subseteq DOMAIN calls'
                      /\ dayUsage[d] < Budget + SumFunctionOnSet(Uses', crossing[d])
                      /\ d = today' /\ dayUsage[d] >= Budget => Open' \subseteq crossing[d]
                      /\ d > today' => dayUsage[d] = 0
    BY <1>1 DEF DaysInv, Cost
  <2>1. /\ crossing[d] \subseteq DOMAIN calls
        /\ dayUsage[d] < Budget + Cost(crossing[d])
        /\ d = today /\ dayUsage[d] >= Budget => Open \subseteq crossing[d]
        /\ d > today => dayUsage[d] = 0
    BY DEF DaysInv
  <2>2. d \in Nat /\ dayUsage[d] \in Nat
    BY DaysAreNoTasks DEF TypeOK
  <2>3. ASSUME d = today', dayUsage[d] >= Budget
        PROVE  Open' \subseteq crossing[d]
    <3>1. d = today
      BY <1>2, <2>1, <2>2, <2>3, LimitAssumption
    <3>2. Open' \subseteq Open
      BY <1>2, <1>4, <2>2, <2>3, <3>1
    <3> QED BY <2>1, <2>3, <3>1, <3>2
  <2>4. d > today' => dayUsage[d] = 0
    BY <1>2, <2>1, <2>2
  <2> QED BY <1>3, <2>1, <2>3, <2>4 DEF Quiet
<1>6. TasksInv'
  <2> SUFFICES ASSUME NEW k \in Task
               PROVE  /\ crossing[k] \subseteq DOMAIN calls' /\ Cardinality(crossing[k]) <= 1
                      /\ taskTokens[k] < Cap + SumFunctionOnSet(Uses', crossing[k])
                      /\ taskTokens[k] >= Cap =>
                           \A i \in Open' : calls'[i].task = k => i \in crossing[k]
    BY <1>1 DEF TasksInv, Cost
  <2>1. /\ crossing[k] \subseteq DOMAIN calls /\ Cardinality(crossing[k]) <= 1
        /\ taskTokens[k] < Cap + Cost(crossing[k])
        /\ taskTokens[k] >= Cap => \A i \in Open : calls[i].task = k => i \in crossing[k]
    BY DEF TasksInv
  <2>2. taskTokens[k] \in Nat /\ Cap \in Nat
    BY LimitAssumption DEF TypeOK
  <2>3. ASSUME taskTokens[k] >= Cap, NEW i \in Open', calls'[i].task = k
        PROVE  i \in crossing[k]
    <3>1. i \in Open
      BY <1>4, <2>2, <2>3
    <3>2. calls[i].task = k
      BY <2>3, <3>1 DEF Open, Quiet
    <3> QED BY <2>1, <2>3, <3>1, <3>2
  <2> QED BY <1>3, <2>1, <2>3 DEF Quiet
<1>7. LedgersAgree'
  <2>1. Done' = Done /\ \A k : DoneOf(k)' = DoneOf(k)
    BY DEF Done, DoneOf, Quiet
  <2>2. Done \subseteq DOMAIN calls /\ \A k : DoneOf(k) \subseteq DOMAIN calls
    BY DEF Done, DoneOf
  <2>3. SumFunction(dayUsage) = Cost(Done) /\ \A k \in Task : taskTokens[k] = Cost(DoneOf(k))
    BY DEF LedgersAgree, Done, DoneOf
  <2>4. /\ SumFunction(dayUsage') = SumFunctionOnSet(Uses', Done')
        /\ \A k \in Task : taskTokens'[k] = SumFunctionOnSet(Uses', DoneOf(k)')
    BY <1>1, <1>3, <2>1, <2>2, <2>3
  <2> QED BY <2>4 DEF LedgersAgree, Cost, Done, DoneOf
<1> QED BY <1>5, <1>6, <1>7

-----------------------------------------------------------------------------
(* The types, by what each group of variables needs                         *)
RatesType ==
  /\ now \in 0..MaxNow
  /\ minuteHits \in [User -> SUBSET Hit] /\ asked \in [User -> Seq(0..MaxNow)]
  /\ dayCounts \in [User -> [Day -> Nat]]

LedgersType ==
  /\ dayUsage \in [Day -> Nat] /\ taskTokens \in [Task -> Nat]
  /\ crossing \in [Ledger -> SUBSET (1..MaxCalls)]

CallsType == calls \in Seq(Call) /\ spent \in [Task -> Nat] /\ over \subseteq Task

LEMMA Types ==
  /\ TypeOK <=> RatesType /\ LedgersType /\ CallsType
  /\ TypeOK' <=> RatesType' /\ LedgersType' /\ CallsType'
BY DEF TypeOK, RatesType, LedgersType, CallsType

LEMMA InitIInv == Init => IInv
<1> SUFFICES ASSUME Init PROVE IInv
  OBVIOUS
<1>1. /\ MaxNow \in Nat /\ MaxCalls \in Nat /\ DayLength \in Nat \ {0}
      /\ Budget \in Nat \ {0} /\ Cap \in Nat \ {0}
  BY LimitAssumption, BoundAssumption
<1>2. RatesType
  <2>1. \A u \in User : asked[u] = << >> /\ << >> \in Seq(0..MaxNow)
    BY DEF Init, Empty
  <2> QED BY <1>1, <2>1 DEF Init, Empty, Zero, RatesType
<1>3. LedgersType /\ CallsType
  BY DEF Init, Empty, Zero, LedgersType, CallsType
<1>4. TypeOK
  BY <1>2, <1>3, Types
<1>5. RatesInv
  BY UserStarts DEF Init, Empty, Zero, RatesInv
<1>6. DOMAIN calls = {} /\ Open = {} /\ Len(calls) = 0
  BY DEF Init, Open
<1>7. OpenCostsNothing /\ OneCallOpen
  BY <1>1, <1>6 DEF OpenCostsNothing, OneCallOpen
<1>8. Cost({}) = 0
  BY SumEmpty DEF Cost
<1>9. DaysInv
  <2> SUFFICES ASSUME NEW d \in Day
               PROVE  crossing[d] = {} /\ dayUsage[d] = 0 /\ Cost(crossing[d]) = 0
    BY <1>1, <1>6 DEF DaysInv
  <2>1. crossing[d] = {} /\ dayUsage[d] = 0
    BY DaysAreNoTasks DEF Init, Empty, Zero
  <2> QED BY <1>8, <2>1 DEF Cost
<1>10. TasksInv
  <2> SUFFICES ASSUME NEW k \in Task
               PROVE  /\ crossing[k] = {} /\ Cardinality(crossing[k]) <= 1
                      /\ taskTokens[k] = 0 /\ Cost(crossing[k]) = 0
    BY <1>1, <1>6 DEF TasksInv
  <2>1. crossing[k] = {} /\ taskTokens[k] = 0
    BY DEF Init, Empty, Zero, Ledger
  <2>2. Cardinality(crossing[k]) = 0
    BY <2>1, FS_EmptySet
  <2> QED BY <1>8, <2>1, <2>2 DEF Cost
<1>11. LedgersAgree
  <2>1. SumFunctionOnSet(dayUsage, Day) = 0
    <3>1. IsFiniteSet(Day)
      <4>1. MaxNow \div DayLength \in Nat
        BY <1>1, Quotient
      <4> QED BY <4>1, FS_Interval DEF Day
    <3> QED BY <3>1, SumZero DEF Init, Empty, Zero
  <2>2. DOMAIN dayUsage = Day /\ \A k \in Task : taskTokens[k] = 0
    BY DEF Init, Empty, Zero
  <2> QED BY <1>6, <1>8, <2>1, <2>2 DEF LedgersAgree, SumFunction
<1> QED BY <1>4, <1>5, <1>7, <1>9, <1>10, <1>11 DEF IInv
-----------------------------------------------------------------------------
(* The rates                                                                *)
LEMMA SlideIsSlid == \A u : SlideWindow(u) = Slid(minuteHits[u], now)
BY DEF SlideWindow, InWindow, Slid

LEMMA Slides ==
  ASSUME RatesType, RatesInv, NEW u \in User,
         minuteHits' = [minuteHits EXCEPT ![u] = SlideWindow(u)],
         UNCHANGED <<now, dayCounts, asked>>
  PROVE  RatesType' /\ RatesInv'
<1>1. RatesType'
  BY DEF RatesType, SlideWindow
<1>2. now \in Nat
  BY BoundAssumption DEF RatesType
<1>3. ASSUME NEW v \in User
      PROVE  UserInv(asked[v], minuteHits'[v], dayCounts[v], now)
  <2>1. UserInv(asked[v], minuteHits[v], dayCounts[v], now)
    BY DEF RatesInv
  <2>2. minuteHits'[v] = IF v = u THEN Slid(minuteHits[u], now) ELSE minuteHits[v]
    BY SlideIsSlid DEF RatesType
  <2> QED BY <1>2, <2>1, <2>2, UserSlides
<1> QED BY <1>1, <1>3 DEF RatesInv

LEMMA Counts ==
  ASSUME RatesType, RatesInv, NEW u \in User, RateOK(u), CountChat(u), now' = now
  PROVE  RatesType' /\ RatesInv'
<1> DEFINE hit == [at |-> now, nr |-> Len(asked[u]) + 1]
<1>1. today \in Day /\ now \in 0..MaxNow
  BY TodayIsADay DEF RatesType, today
<1>2. hit \in Hit
  BY <1>1 DEF Hit, RatesType
<1>3. /\ minuteHits' = [minuteHits EXCEPT ![u] = Slid(minuteHits[u], now) \cup {hit}]
      /\ dayCounts' = [dayCounts EXCEPT ![u] = [dayCounts[u] EXCEPT ![today] = @ + 1]]
      /\ asked' = [asked EXCEPT ![u] = Append(asked[u], now)]
  BY SlideIsSlid DEF CountChat
<1>4. RatesType'
  <2>1. Slid(minuteHits[u], now) \cup {hit} \in SUBSET Hit
    BY <1>2 DEF RatesType, Slid
  <2>2. [dayCounts[u] EXCEPT ![today] = @ + 1] \in [Day -> Nat]
    BY <1>1 DEF RatesType
  <2>3. Append(asked[u], now) \in Seq(0..MaxNow)
    BY <1>1 DEF RatesType
  <2> HIDE DEF hit
  <2> QED BY <1>1, <1>3, <2>1, <2>2, <2>3 DEF RatesType
<1>5. ASSUME NEW v \in User
      PROVE  UserInv(asked'[v], minuteHits'[v], dayCounts'[v], now)
  <2>1. UserInv(asked[v], minuteHits[v], dayCounts[v], now)
    BY DEF RatesInv
  <2>2. CASE v = u
    <3>1. Cardinality(Slid(minuteHits[u], now)) < PerMin /\ dayCounts[u][now \div DayLength] < PerDay
      BY SlideIsSlid DEF RateOK, today
    <3>2. UserInv(Append(asked[u], now), Slid(minuteHits[u], now) \cup {hit},
                  [dayCounts[u] EXCEPT ![now \div DayLength] = @ + 1], now)
      BY <1>1, <2>1, <2>2, <3>1, UserCounts
    <3> HIDE DEF hit
    <3> QED BY <1>3, <2>2, <3>2 DEF RatesType, today
  <2>3. CASE v # u
    BY <1>3, <2>1, <2>3
  <2> QED BY <2>2, <2>3
<1> QED BY <1>4, <1>5 DEF RatesInv

LEMMA RatesStay ==
  ASSUME RatesType, RatesInv, UNCHANGED <<now, rates>>
  PROVE  RatesType' /\ RatesInv'
BY DEF RatesType, RatesInv, rates, Day, Hit

-----------------------------------------------------------------------------
(* The steps at which no ledger changes                                     *)

\* What the invariant says of the calls, of a step after which the open ones are
\* some of those before.
LEMMA FewerOpen ==
  ASSUME IInv, CallsType', Len(calls') = Len(calls), over \subseteq over',
         \A i \in DOMAIN calls :
           /\ calls'[i].task = calls[i].task /\ calls'[i].use = calls[i].use
           /\ calls'[i].said = calls[i].said
           /\ calls'[i].state = "done" <=> calls[i].state = "done"
           /\ calls'[i].state = "open" => calls[i].state = "open"
           /\ \/ calls'[i].heard = calls[i].heard /\ calls'[i].state = calls[i].state
              \/ /\ ~calls'[i].heard
                 /\ calls'[i].state = "open" /\ calls[i].task \in Task => calls[i].task \in over'
  PROVE  OpenCostsNothing' /\ OneCallOpen' /\ (UNCHANGED <<now, ledgers>> => Quiet)
<1>1. DOMAIN calls' = DOMAIN calls /\ DOMAIN calls = 1..Len(calls)
  <2>1. calls \in Seq(Call) /\ calls' \in Seq(Call)
    BY DEF IInv, TypeOK, CallsType
  <2> QED BY <2>1
<1>2. OpenCostsNothing'
  BY <1>1 DEF OpenCostsNothing, IInv
<1>3. OneCallOpen'
  <2>1. Open' \subseteq Open
    BY <1>1 DEF Open
  <2>2. OneCallOpen
    BY DEF IInv
  <2>3. ASSUME NEW i \in Open', calls'[i].task \in Task
        PROVE  /\ calls'[i].heard \/ calls'[i].task \in over'
               /\ \A j \in Open' : calls'[j].task = calls'[i].task => i = j
    <3>1. i \in Open /\ i \in DOMAIN calls /\ calls'[i].state = "open"
      BY <1>1, <2>1, <2>3 DEF Open
    <3>2. calls'[i].task = calls[i].task /\ \A j \in Open' : calls'[j].task = calls[j].task
      BY <2>1, <3>1 DEF Open
    <3>3. /\ calls[i].heard \/ calls[i].task \in over
          /\ \A j \in Open : calls[j].task = calls[i].task => i = j
      BY <2>2, <2>3, <3>1, <3>2 DEF OneCallOpen
    <3>4. calls'[i].heard \/ calls'[i].task \in over'
      BY <2>3, <3>1, <3>2, <3>3
    <3> QED BY <2>1, <3>2, <3>3, <3>4
  <2> QED BY <2>3 DEF OneCallOpen
<1>4. UNCHANGED <<now, ledgers>> => Quiet
  <2>1. now <= now
    BY BoundAssumption DEF IInv, TypeOK
  <2> QED BY <1>1, <2>1 DEF Quiet
<1> QED BY <1>2, <1>3, <1>4

LEMMA RefusedKeeps ==
  ASSUME IInv, NEW u \in User, NEW k \in Task \cup {NoTask},
         RefusedByRate(u, k) \/ RefusedByBudget(u, k)
  PROVE  IInv'
<1>1. RatesType /\ RatesInv /\ LedgersType /\ CallsType
  BY Types DEF IInv
<1>2. UNCHANGED <<now, ledgers, calls, spent>> /\ Ends(k)
  BY DEF RefusedByRate, RefusedByBudget
<1>3. RatesType' /\ RatesInv'
  BY <1>1, Slides, Counts DEF RefusedByRate, RefusedByBudget
<1>4. LedgersType'
  BY <1>1, <1>2 DEF LedgersType, ledgers
<1>5. CallsType' /\ over \subseteq over'
  BY <1>1, <1>2 DEF CallsType, Ends
<1>6. OpenCostsNothing' /\ OneCallOpen' /\ Quiet
  BY <1>2, <1>5, FewerOpen
<1>7. TypeOK'
  BY <1>3, <1>4, <1>5, Types
<1>8. DaysInv' /\ TasksInv' /\ LedgersAgree'
  BY <1>6, <1>7, QuietKeeps DEF IInv
<1> QED BY <1>3, <1>6, <1>7, <1>8 DEF IInv

LEMMA AcceptedKeeps ==
  ASSUME IInv, NEW u \in User, NEW k \in Task \cup {NoTask}, Accepted(u, k)
  PROVE  IInv'
<1> DEFINE new == [task |-> k, use |-> 0, state |-> "open", heard |-> TRUE, said |-> "nothing"]
           n == Len(calls)
<1>1. RatesType /\ RatesInv /\ LedgersType /\ CallsType /\ OpenCostsNothing /\ OneCallOpen /\ TypeOK
  BY Types DEF IInv
<1>2. UNCHANGED <<now, ledgers, spent, over>> /\ calls' = Append(calls, new) /\ n < MaxCalls
  BY DEF Accepted
<1>3. RatesType' /\ RatesInv'
  BY <1>1, Counts DEF Accepted
<1>4. LedgersType'
  BY <1>1, <1>2 DEF LedgersType, ledgers
<1>5. n \in Nat /\ DOMAIN calls = 1..n /\ new \in Call /\ MaxCalls \in Nat
  BY <1>1, CallsShape, BoundAssumption DEF Call, P!Said
<1>6. /\ calls' \in Seq(Call) /\ Len(calls') = n + 1 /\ DOMAIN calls' = 1..(n + 1)
      /\ calls'[n + 1] = new /\ \A i \in 1..n : calls'[i] = calls[i]
  <2> HIDE DEF new
  <2>1. calls \in Seq(Call)
    BY <1>1 DEF CallsType
  <2> QED BY <1>2, <1>5, <2>1, AppendProperties
<1>7. CallsType'
  BY <1>1, <1>2, <1>6 DEF CallsType
<1>8. TypeOK'
  BY <1>3, <1>4, <1>7, Types
<1>9. /\ n + 1 \notin 1..n /\ \A i \in 1..(n + 1) : i \in 1..n \/ i = n + 1
      /\ 1..n \subseteq 1..(n + 1) /\ n + 1 <= MaxCalls
  BY <1>2, <1>5
<1>10. new.task = k /\ new.use = 0 /\ new.state = "open" /\ new.heard /\ new.said = "nothing"
  OBVIOUS
<1> HIDE DEF new, n
<1>11. OpenCostsNothing'
  BY <1>1, <1>5, <1>6, <1>9, <1>10 DEF OpenCostsNothing
<1>12. Open' = Open \cup {n + 1} /\ Open \subseteq 1..n
  BY <1>5, <1>6, <1>9, <1>10 DEF Open
<1>13. OneCallOpen'
  <2>1. k \in Task => \A j \in Open : calls[j].task # k
    BY <1>1 DEF Accepted, MaySend, OneCallOpen
  <2>2. ASSUME NEW i \in Open', calls'[i].task \in Task
        PROVE  /\ calls'[i].heard \/ calls'[i].task \in over'
               /\ \A j \in Open' : calls'[j].task = calls'[i].task => i = j
    <3>1. \A j \in Open : calls'[j] = calls[j]
      BY <1>6, <1>12
    <3>2. CASE i = n + 1
      <4>1. calls'[i].task = k /\ calls'[i].heard
        BY <1>6, <1>10, <3>2
      <4> QED BY <1>12, <2>1, <2>2, <3>1, <3>2, <4>1
    <3>3. CASE i \in Open
      <4>1. calls'[i] = calls[i]
        BY <3>1, <3>3
      <4>2. calls'[n + 1].task = k
        BY <1>6, <1>10
      <4>3. /\ calls[i].heard \/ calls[i].task \in over
            /\ \A j \in Open : calls[j].task = calls[i].task => i = j
        BY <1>1, <2>2, <3>3, <4>1 DEF OneCallOpen
      <4>4. calls[i].task # k
        BY <2>1, <2>2, <3>3, <4>1
      <4> QED BY <1>2, <1>12, <3>1, <4>1, <4>2, <4>3, <4>4
    <3> QED BY <1>12, <3>2, <3>3
  <2> QED BY <2>2 DEF OneCallOpen
<1>14. Quiet
  <2>1. now <= now' /\ now' = now /\ today' = today
    BY <1>1, <1>2, BoundAssumption DEF TypeOK, today
  <2>2. dayUsage[today] < Budget /\ (k \in Task => taskTokens[k] < Cap)
    BY DEF Accepted, CheckDailyBudget, CheckTaskBudget
  <2>3. \A i \in DOMAIN calls : calls'[i] = calls[i]
    BY <1>5, <1>6
  <2>4. \A i \in DOMAIN calls' \ DOMAIN calls : calls'[i] = new
    BY <1>5, <1>6, <1>9
  <2>5. \A i \in DOMAIN calls' \ DOMAIN calls :
          /\ calls'[i].state = "open" /\ today' = today
          /\ dayUsage[today] < Budget
          /\ calls'[i].task \in Task => taskTokens[calls'[i].task] < Cap
    BY <1>10, <2>1, <2>2, <2>4
  <2>6. DOMAIN calls \subseteq DOMAIN calls'
    BY <1>5, <1>6, <1>9
  <2> QED BY <1>2, <2>1, <2>3, <2>5, <2>6 DEF Quiet
<1>15. DaysInv' /\ TasksInv' /\ LedgersAgree'
  BY <1>8, <1>14, QuietKeeps DEF IInv
<1> QED BY <1>3, <1>8, <1>11, <1>13, <1>15 DEF IInv

\* A call that is given up, or fails: one record changes, and nothing is charged.
LEMMA DroppedKeeps ==
  ASSUME IInv, NEW i \in Open, NEW state \in {"open", "failed"},
         calls' = [calls EXCEPT ![i] = [calls[i] EXCEPT !.state = state, !.heard = FALSE]],
         calls[i].heard => Ends(calls[i].task), over \subseteq over', over' \subseteq Task,
         UNCHANGED <<now, rates, ledgers, spent>>
  PROVE  IInv'
<1>1. RatesType /\ RatesInv /\ LedgersType /\ CallsType /\ TypeOK /\ OneCallOpen
  BY Types DEF IInv
<1>2. RatesType' /\ RatesInv'
  BY <1>1, RatesStay
<1>3. LedgersType'
  BY <1>1 DEF LedgersType, ledgers
<1>4. i \in DOMAIN calls /\ calls[i] \in Call /\ calls[i].state = "open"
  BY <1>1, CallsShape DEF Open
<1>5. [calls[i] EXCEPT !.state = state, !.heard = FALSE] \in Call
  BY <1>4 DEF Call
<1>6. calls' \in Seq(Call) /\ Len(calls') = Len(calls)
  BY <1>1, <1>4, <1>5, Replaced DEF CallsType
<1>7. CallsType'
  BY <1>1, <1>6 DEF CallsType
<1>8. calls[i].task \in Task => calls[i].task \in over'
  BY <1>1 DEF OneCallOpen, Ends
<1>9. ASSUME NEW j \in DOMAIN calls
      PROVE  /\ calls'[j].task = calls[j].task /\ calls'[j].use = calls[j].use
             /\ calls'[j].said = calls[j].said
             /\ calls'[j].state = "done" <=> calls[j].state = "done"
             /\ calls'[j].state = "open" => calls[j].state = "open"
             /\ \/ calls'[j].heard = calls[j].heard /\ calls'[j].state = calls[j].state
                \/ /\ ~calls'[j].heard
                   /\ calls'[j].state = "open" /\ calls[j].task \in Task => calls[j].task \in over'
  <2>1. CASE j = i
    <3>1. calls'[i] = [calls[i] EXCEPT !.state = state, !.heard = FALSE]
      BY <1>4
    <3>2. /\ calls'[i].task = calls[i].task /\ calls'[i].use = calls[i].use
          /\ calls'[i].said = calls[i].said /\ calls'[i].state = state /\ ~calls'[i].heard
      BY <1>4, <3>1 DEF Call
    <3> QED BY <1>4, <1>8, <2>1, <3>2
  <2>2. CASE j # i
    <3>1. calls'[j] = calls[j]
      BY <2>2
    <3> QED BY <3>1
  <2> QED BY <2>1, <2>2
<1>10. OpenCostsNothing' /\ OneCallOpen' /\ Quiet
  BY <1>6, <1>7, <1>9, FewerOpen
<1>11. TypeOK'
  BY <1>2, <1>3, <1>7, Types
<1>12. DaysInv' /\ TasksInv' /\ LedgersAgree'
  BY <1>10, <1>11, QuietKeeps DEF IInv
<1> QED BY <1>2, <1>10, <1>11, <1>12 DEF IInv

LEMMA FailKeeps ==
  ASSUME IInv, NEW i \in DOMAIN calls, NEW result, Fail(i, result)
  PROVE  IInv'
<1>1. i \in Open /\ over \subseteq Task
  BY DEF Fail, IInv, TypeOK
<1>2. calls' = [calls EXCEPT ![i] = [calls[i] EXCEPT !.state = "failed", !.heard = FALSE]]
  BY DEF Fail
<1>3. (calls[i].heard => Ends(calls[i].task)) /\ over \subseteq over' /\ over' \subseteq Task
  BY <1>1 DEF Fail, Ends
<1> QED BY <1>1, <1>2, <1>3, DroppedKeeps DEF Fail

LEMMA GiveUpKeeps ==
  ASSUME IInv, NEW i \in DOMAIN calls, GiveUp(i)
  PROVE  IInv'
<1>1. i \in Open /\ over \subseteq Task /\ calls[i] \in Call /\ calls[i].state = "open"
  BY CallsShape DEF GiveUp, IInv, TypeOK, Open
<1>2. calls' = [calls EXCEPT ![i] = [calls[i] EXCEPT !.state = "open", !.heard = FALSE]]
  <2>1. [calls[i] EXCEPT !.heard = FALSE] = [calls[i] EXCEPT !.state = "open", !.heard = FALSE]
    BY <1>1 DEF Call
  <2> QED BY <2>1 DEF GiveUp
<1>3. Ends(calls[i].task) /\ over \subseteq over' /\ over' \subseteq Task
  BY <1>1 DEF GiveUp, Ends
<1> QED BY <1>1, <1>2, <1>3, DroppedKeeps DEF GiveUp

LEMMA TickKeeps ==
  ASSUME IInv, Tick
  PROVE  IInv'
<1>1. RatesType /\ RatesInv /\ LedgersType /\ CallsType
  BY Types DEF IInv
<1>2. now \in Nat /\ now' = now + 1 /\ now' \in 0..MaxNow /\ now <= now'
  BY <1>1, BoundAssumption DEF Tick, RatesType
<1>3. RatesType'
  BY <1>1, <1>2 DEF Tick, RatesType, rates, Day, Hit
<1>4. RatesInv'
  BY <1>1, <1>2, UserWaits DEF Tick, RatesInv, rates
<1>5. LedgersType' /\ CallsType'
  BY <1>1 DEF Tick, LedgersType, CallsType, ledgers
<1>6. OpenCostsNothing' /\ OneCallOpen'
  BY <1>5, FewerOpen DEF Tick
<1>7. Quiet
  BY <1>2 DEF Tick, Quiet
<1>8. TypeOK'
  BY <1>3, <1>5, Types
<1>9. DaysInv' /\ TasksInv' /\ LedgersAgree'
  BY <1>7, <1>8, QuietKeeps DEF IInv
<1> QED BY <1>4, <1>6, <1>8, <1>9 DEF IInv

-----------------------------------------------------------------------------
(* A call is done: the only step at which ledgers grow                      *)

\* What Finish does, use and said being what the provider says.
Charges(i, use, said) ==
  /\ calls' = [calls EXCEPT ![i] = [calls[i] EXCEPT !.state = "done", !.use = use,
                                                    !.heard = FALSE, !.said = said]]
  /\ dayUsage' = [dayUsage EXCEPT ![today] = @ + use]
  /\ taskTokens' = IF calls[i].task = NoTask THEN taskTokens
                   ELSE [taskTokens EXCEPT ![calls[i].task] = @ + use]
  /\ crossing' = [l \in Ledger |->
       IF l = today /\ Reaches(dayUsage[l], dayUsage'[l], Budget) THEN Open
       ELSE IF l = calls[i].task /\ Reaches(taskTokens[l], taskTokens'[l], Cap)
         THEN {j \in Open : calls[j].task = calls[i].task}
       ELSE crossing[l]]

\* What the step leaves of the calls.
Ended(i, use, said) ==
  /\ i \in DOMAIN calls /\ calls[i].state = "open" /\ calls[i].use = 0
  /\ calls[i].task \in Task \cup {NoTask}
  /\ DOMAIN calls' = DOMAIN calls /\ Len(calls') = Len(calls)
  /\ \A j \in DOMAIN calls : j # i => calls'[j] = calls[j]
  /\ calls'[i].task = calls[i].task /\ calls'[i].state = "done" /\ calls'[i].use = use
  /\ ~calls'[i].heard /\ calls'[i].said = said

LEMMA FinishShape ==
  ASSUME IInv, NEW i \in DOMAIN calls, NEW result \in Result(calls[i].task), Finish(i, result)
  PROVE  /\ result.use \in Nat /\ result.said \in P!Said
         /\ (result.said = "counted" => result.use > 0)
         /\ Charges(i, result.use, result.said) /\ Ended(i, result.use, result.said)
         /\ TypeOK' /\ over \subseteq over'
<1>1. result.use \in Nat /\ result.said \in P!Said
         /\ (result.said = "counted" => result.use > 0)
  <2>1. result \in P!OnceResults \cup P!StreamResults
    BY DEF Result
  <2> QED BY <2>1, ResultsFair DEF Fair, Finish
<1>2. Charges(i, result.use, result.said)
  BY DEF Finish, Charged, Charges
<1>3. RatesType /\ LedgersType /\ CallsType /\ TypeOK
  BY Types DEF IInv
<1>4. i \in DOMAIN calls /\ calls[i] \in Call /\ calls[i].state = "open"
  BY <1>3, CallsShape DEF Finish, Open
<1>5. calls[i].use = 0 /\ calls[i].task \in Task \cup {NoTask} /\ Len(calls) <= MaxCalls
  BY <1>4 DEF IInv, OpenCostsNothing, Call
<1> DEFINE new == [calls[i] EXCEPT !.state = "done", !.use = result.use, !.heard = FALSE,
                                   !.said = result.said]
<1>6. /\ new \in Call /\ new.task = calls[i].task /\ new.state = "done"
      /\ new.use = result.use /\ ~new.heard /\ new.said = result.said
  BY <1>1, <1>4 DEF Call
<1>7. calls' = [calls EXCEPT ![i] = new]
  BY <1>2 DEF Charges
<1> HIDE DEF new
<1>8. calls' \in Seq(Call) /\ Len(calls') = Len(calls) /\ DOMAIN calls' = DOMAIN calls
  BY <1>3, <1>6, <1>7, Replaced DEF CallsType
<1>9. Ended(i, result.use, result.said)
  BY <1>4, <1>5, <1>6, <1>7, <1>8 DEF Ended
<1>10. LedgersType'
  <2>1. today \in Day
    BY <1>3, Today
  <2>2. dayUsage' \in [Day -> Nat]
    BY <1>1, <1>2, <1>3, <2>1 DEF Charges, LedgersType
  <2>3. taskTokens' \in [Task -> Nat]
    BY <1>1, <1>2, <1>3, <1>5 DEF Charges, LedgersType
  <2>4. Open \subseteq 1..MaxCalls
    BY <1>3, <1>5, CallsShape, BoundAssumption DEF Open
  <2>5. crossing' \in [Ledger -> SUBSET (1..MaxCalls)]
    BY <1>2, <1>3, <2>4 DEF Charges, LedgersType
  <2> QED BY <2>2, <2>3, <2>5 DEF LedgersType
<1>11. CallsType' /\ over \subseteq over'
  <2>1. /\ spent' \in [Task -> Nat] /\ over' \subseteq Task /\ over \subseteq over'
    BY <1>1, <1>3, <1>5 DEF Finish, CallsType
  <2> QED BY <1>8, <2>1 DEF CallsType
<1>12. RatesType'
  BY <1>3 DEF Finish, RatesType, rates, Day, Hit
<1> QED BY <1>1, <1>2, <1>9, <1>10, <1>11, <1>12, Types

\* What sets of calls cost after it.
LEMMA CostCharged ==
  ASSUME TypeOK, NEW i, NEW use \in Nat, NEW said, Ended(i, use, said),
         NEW S \in SUBSET DOMAIN calls
  PROVE  SumFunctionOnSet(Uses', S) = Cost(S) + (IF i \in S THEN use ELSE 0)
<1>1. IsFiniteSet(S) /\ \A j \in S : Uses[j] \in Nat
  BY CallsShape
<1>2. Uses[i] = 0 /\ Uses'[i] = use
  BY DEF Uses, Ended
<1>3. \A j \in S \ {i} : Uses'[j] = Uses[j]
  BY DEF Uses, Ended
<1> DEFINE f == Uses  g == Uses'
<1>4. /\ IsFiniteSet(S) /\ f[i] = 0 /\ g[i] = use /\ \A y \in S : f[y] \in Nat
      /\ \A y \in S \ {i} : g[y] = f[y]
  BY <1>1, <1>2, <1>3
<1> HIDE DEF f, g
<1>5. SumFunctionOnSet(g, S) = SumFunctionOnSet(f, S) + (IF i \in S THEN use ELSE 0)
  BY <1>4, SumCharged
<1> QED BY <1>5 DEF f, g, Cost

LEMMA DaysCharged ==
  ASSUME IInv, NEW i, NEW use \in Nat, NEW said, Charges(i, use, said), Ended(i, use, said),
         UNCHANGED now
  PROVE  DaysInv'
<1>1. TypeOK /\ DaysInv /\ today' = today /\ Budget \in Nat \ {0}
  BY LimitAssumption DEF IInv, today
<1>2. today \in Day /\ today \in Nat /\ Open \subseteq DOMAIN calls /\ i \in Open
  BY <1>1, Today DEF Ended, Open
<1>3. Open' \subseteq Open
  BY DEF Open, Ended
<1> SUFFICES ASSUME NEW d \in Day
             PROVE  /\ crossing'[d] \subseteq DOMAIN calls'
                    /\ dayUsage'[d] < Budget + SumFunctionOnSet(Uses', crossing'[d])
                    /\ d = today /\ dayUsage'[d] >= Budget => Open' \subseteq crossing'[d]
                    /\ d > today => dayUsage'[d] = 0
  BY <1>1 DEF DaysInv, Cost
<1>4. /\ crossing[d] \subseteq DOMAIN calls
      /\ dayUsage[d] < Budget + Cost(crossing[d])
      /\ d = today /\ dayUsage[d] >= Budget => Open \subseteq crossing[d]
      /\ d > today => dayUsage[d] = 0
  BY <1>1 DEF DaysInv
<1>5. d \in Nat /\ d \in Ledger /\ d # calls[i].task /\ dayUsage[d] \in Nat
  BY <1>1, DaysAreNoTasks DEF Ended, TypeOK
<1>6. dayUsage'[d] = IF d = today THEN dayUsage[d] + use ELSE dayUsage[d]
  BY <1>1, <1>2 DEF Charges, TypeOK
<1>7. crossing'[d] = IF d = today /\ Reaches(dayUsage[d], dayUsage'[d], Budget)
                       THEN Open ELSE crossing[d]
  BY <1>5 DEF Charges
<1>8. Cost(crossing[d]) \in Nat /\ Cost(Open) \in Nat
  BY <1>1, <1>2, <1>4, CallsShape
<1>9. crossing'[d] \subseteq DOMAIN calls'
  BY <1>2, <1>4, <1>7 DEF Ended
<1>10. /\ SumFunctionOnSet(Uses', crossing[d]) = Cost(crossing[d]) + (IF i \in crossing[d] THEN use ELSE 0)
       /\ SumFunctionOnSet(Uses', Open) = Cost(Open) + use
  BY <1>1, <1>2, <1>4, CostCharged
<1>11. CASE d # today
  <2>1. crossing'[d] = crossing[d] /\ dayUsage'[d] = dayUsage[d]
    BY <1>6, <1>7, <1>11
  <2>2. SumFunctionOnSet(Uses', crossing'[d]) >= Cost(crossing[d])
        /\ SumFunctionOnSet(Uses', crossing'[d]) \in Nat
    BY <1>8, <1>10, <2>1
  <2>3. dayUsage'[d] < Budget + SumFunctionOnSet(Uses', crossing'[d])
    BY <1>1, <1>4, <1>5, <1>8, <2>1, <2>2
  <2> QED BY <1>4, <1>9, <1>11, <2>1, <2>3
<1>12. CASE d = today /\ Reaches(dayUsage[d], dayUsage'[d], Budget)
  <2>1. crossing'[d] = Open /\ dayUsage'[d] = dayUsage[d] + use /\ dayUsage[d] < Budget
    BY <1>6, <1>7, <1>12 DEF Reaches
  <2>2. SumFunctionOnSet(Uses', crossing'[d]) = Cost(Open) + use
    BY <1>10, <2>1
  <2>3. dayUsage'[d] < Budget + SumFunctionOnSet(Uses', crossing'[d])
    BY <1>1, <1>5, <1>8, <2>1, <2>2
  <2> QED BY <1>2, <1>3, <1>5, <1>9, <1>12, <2>1, <2>3
<1>13. CASE d = today /\ ~Reaches(dayUsage[d], dayUsage'[d], Budget)
  <2>1. crossing'[d] = crossing[d] /\ dayUsage'[d] = dayUsage[d] + use
    BY <1>6, <1>7, <1>13
  <2>2. CASE dayUsage[d] < Budget
    <3>1. dayUsage'[d] < Budget /\ SumFunctionOnSet(Uses', crossing'[d]) \in Nat
      BY <1>1, <1>5, <1>8, <1>10, <1>13, <2>1, <2>2 DEF Reaches
    <3> QED BY <1>1, <1>2, <1>5, <1>9, <1>13, <2>1, <3>1
  <2>3. CASE dayUsage[d] >= Budget
    <3>1. Open \subseteq crossing[d] /\ i \in crossing[d]
      BY <1>2, <1>4, <1>13, <2>3
    <3>2. SumFunctionOnSet(Uses', crossing'[d]) = Cost(crossing[d]) + use
      BY <1>10, <2>1, <3>1
    <3>3. dayUsage'[d] < Budget + SumFunctionOnSet(Uses', crossing'[d])
      BY <1>1, <1>4, <1>5, <1>8, <2>1, <3>2
    <3> QED BY <1>2, <1>3, <1>5, <1>9, <1>13, <2>1, <3>1, <3>3
  <2> QED BY <1>1, <1>5, <2>2, <2>3
<1> QED BY <1>11, <1>12, <1>13

LEMMA TasksCharged ==
  ASSUME IInv, NEW i, NEW use \in Nat, NEW said, Charges(i, use, said), Ended(i, use, said)
  PROVE  TasksInv'
<1>1. TypeOK /\ TasksInv /\ OneCallOpen /\ Cap \in Nat \ {0}
  BY LimitAssumption DEF IInv
<1>2. Open \subseteq DOMAIN calls /\ i \in Open
  BY DEF Ended, Open
<1>3. Open' \subseteq Open /\ \A j \in Open' : calls'[j].task = calls[j].task
  BY DEF Open, Ended
<1> SUFFICES ASSUME NEW k \in Task
             PROVE  /\ crossing'[k] \subseteq DOMAIN calls' /\ Cardinality(crossing'[k]) <= 1
                    /\ taskTokens'[k] < Cap + SumFunctionOnSet(Uses', crossing'[k])
                    /\ taskTokens'[k] >= Cap =>
                         \A j \in Open' : calls'[j].task = k => j \in crossing'[k]
  BY DEF TasksInv, Cost
<1>4. /\ crossing[k] \subseteq DOMAIN calls /\ Cardinality(crossing[k]) <= 1
      /\ taskTokens[k] < Cap + Cost(crossing[k])
      /\ taskTokens[k] >= Cap => \A j \in Open : calls[j].task = k => j \in crossing[k]
  BY <1>1 DEF TasksInv
<1>5. k \in Ledger /\ k # today /\ k # NoTask /\ taskTokens[k] \in Nat
  BY <1>1, Today, TaskAssumption DEF Ledger, TypeOK
<1>6. taskTokens'[k] = IF k = calls[i].task THEN taskTokens[k] + use ELSE taskTokens[k]
  BY <1>1, <1>5 DEF Charges, TypeOK
<1>7. crossing'[k] = IF k = calls[i].task /\ Reaches(taskTokens[k], taskTokens'[k], Cap)
                       THEN {j \in Open : calls[j].task = k} ELSE crossing[k]
  BY <1>5 DEF Charges
<1>8. Cost(crossing[k]) \in Nat
  BY <1>1, <1>4, CallsShape
<1>9. SumFunctionOnSet(Uses', crossing[k]) = Cost(crossing[k]) + (IF i \in crossing[k] THEN use ELSE 0)
  BY <1>1, <1>4, CostCharged
<1>10. CASE k # calls[i].task
  <2>1. crossing'[k] = crossing[k] /\ taskTokens'[k] = taskTokens[k]
    BY <1>6, <1>7, <1>10
  <2>2. SumFunctionOnSet(Uses', crossing'[k]) >= Cost(crossing[k])
        /\ SumFunctionOnSet(Uses', crossing'[k]) \in Nat
    BY <1>8, <1>9, <2>1
  <2>3. taskTokens'[k] < Cap + SumFunctionOnSet(Uses', crossing'[k])
    BY <1>1, <1>4, <1>5, <1>8, <2>1, <2>2
  <2> QED BY <1>3, <1>4, <2>1, <2>3 DEF Ended
<1>11. CASE k = calls[i].task /\ Reaches(taskTokens[k], taskTokens'[k], Cap)
  <2>1. crossing'[k] = {j \in Open : calls[j].task = k} /\ taskTokens'[k] = taskTokens[k] + use
        /\ taskTokens[k] < Cap
    BY <1>6, <1>7, <1>11 DEF Reaches
  <2>2. {j \in Open : calls[j].task = k} = {i}
    BY <1>1, <1>2, <1>11 DEF OneCallOpen
  <2>3. Cardinality({i}) = 1 /\ Cost({i}) \in Nat /\ {i} \subseteq DOMAIN calls
    BY <1>1, <1>2, FS_Singleton, CallsShape
  <2>4. SumFunctionOnSet(Uses', {i}) = Cost({i}) + use
    BY <1>1, <2>3, CostCharged
  <2>5. taskTokens'[k] < Cap + SumFunctionOnSet(Uses', {i})
    BY <1>1, <1>5, <2>1, <2>3, <2>4
  <2>6. \A j \in Open' : calls'[j].task = k => j \in crossing'[k]
    BY <1>3, <2>1
  <2>7. crossing'[k] = {i}
    BY <2>1, <2>2
  <2> QED BY <2>3, <2>5, <2>6, <2>7 DEF Ended
<1>12. CASE k = calls[i].task /\ ~Reaches(taskTokens[k], taskTokens'[k], Cap)
  <2>1. crossing'[k] = crossing[k] /\ taskTokens'[k] = taskTokens[k] + use
    BY <1>6, <1>7, <1>12
  <2>2. CASE taskTokens[k] < Cap
    <3>1. taskTokens'[k] < Cap /\ SumFunctionOnSet(Uses', crossing'[k]) \in Nat
      BY <1>1, <1>5, <1>8, <1>9, <1>12, <2>1, <2>2 DEF Reaches
    <3>2. taskTokens'[k] \in Nat
      BY <1>5, <2>1
    <3> QED BY <1>1, <1>4, <2>1, <3>1, <3>2 DEF Ended
  <2>3. CASE taskTokens[k] >= Cap
    <3>1. i \in crossing[k] /\ \A j \in Open : calls[j].task = k => j \in crossing[k]
      BY <1>2, <1>4, <1>12, <2>3
    <3>2. SumFunctionOnSet(Uses', crossing'[k]) = Cost(crossing[k]) + use
      BY <1>9, <2>1, <3>1
    <3>3. taskTokens'[k] < Cap + SumFunctionOnSet(Uses', crossing'[k])
      BY <1>1, <1>4, <1>5, <1>8, <2>1, <3>2
    <3> QED BY <1>3, <1>4, <2>1, <3>1, <3>3 DEF Ended
  <2> QED BY <1>1, <1>5, <2>2, <2>3
<1> QED BY <1>10, <1>11, <1>12

LEMMA LedgersCharged ==
  ASSUME IInv, NEW i, NEW use \in Nat, NEW said, Charges(i, use, said), Ended(i, use, said)
  PROVE  LedgersAgree'
<1>1. TypeOK /\ today \in Day
  BY Today DEF IInv
<1>2. SumFunction(dayUsage) = Cost(Done) /\ \A k \in Task : taskTokens[k] = Cost(DoneOf(k))
  BY DEF IInv, LedgersAgree, Done, DoneOf
<1>3. /\ Done \subseteq DOMAIN calls /\ i \notin Done /\ Done' = Done \cup {i}
      /\ \A k : DoneOf(k) \subseteq DOMAIN calls /\ i \notin DoneOf(k)
      /\ \A k : DoneOf(k)' = IF k = calls[i].task THEN DoneOf(k) \cup {i} ELSE DoneOf(k)
  BY DEF Done, DoneOf, Ended
\* A set of calls and the one that is done.
<1>4. ASSUME NEW S \in SUBSET DOMAIN calls, i \notin S
      PROVE  /\ SumFunctionOnSet(Uses', S) = Cost(S)
             /\ SumFunctionOnSet(Uses', S \cup {i}) = Cost(S) + use
  <2>1. Cost(S) \in Nat /\ IsFiniteSet(S) /\ S \cup {i} \in SUBSET DOMAIN calls
    BY <1>1, CallsShape DEF Ended
  <2>2. Cost(S \cup {i}) = Cost(S)
    <3>1. Uses[i] = 0 /\ \A y \in S \cup {i} : Uses[y] \in Nat
      BY <1>1, <2>1, CallsShape DEF Uses, Ended
    <3>2. SumFunctionOnSet(Uses, S \cup {i}) = SumFunctionOnSet(Uses, S) + Uses[i]
      BY <1>4, <2>1, <3>1, SumAdd
    <3> QED BY <2>1, <3>1, <3>2 DEF Cost
  <2>3. SumFunctionOnSet(Uses', S) = Cost(S) + 0
    BY <1>1, <1>4, CostCharged
  <2>4. SumFunctionOnSet(Uses', S \cup {i}) = Cost(S \cup {i}) + use
    BY <1>1, <2>1, CostCharged
  <2> QED BY <2>1, <2>2, <2>3, <2>4
<1>5. SumFunction(dayUsage') = SumFunctionOnSet(Uses', Done')
  <2>1. dayUsage \in [Day -> Nat] /\ dayUsage' = [dayUsage EXCEPT ![today] = @ + use]
    BY <1>1 DEF TypeOK, Charges
  <2>2. DOMAIN dayUsage = Day /\ DOMAIN dayUsage' = Day /\ dayUsage'[today] = dayUsage[today] + use
        /\ (\A d \in Day \ {today} : dayUsage'[d] = dayUsage[d])
        /\ (\A d \in Day : dayUsage[d] \in Nat)
    BY <1>1, <2>1
  <2>3. IsFiniteSet(Day)
    <3>1. MaxNow \div DayLength \in Nat
      BY Quotient, LimitAssumption, BoundAssumption
    <3> QED BY <3>1, FS_Interval DEF Day
  <2>4. SumFunctionOnSet(dayUsage', Day) = SumFunctionOnSet(dayUsage, Day) + use
    BY <1>1, <2>2, <2>3, SumGrows
  <2>5. SumFunction(dayUsage') = SumFunction(dayUsage) + use
    BY <2>2, <2>4 DEF SumFunction
  <2> QED BY <1>2, <1>3, <1>4, <2>5
<1>6. ASSUME NEW k \in Task
      PROVE  taskTokens'[k] = SumFunctionOnSet(Uses', DoneOf(k)')
  <2>1. k # NoTask
    BY TaskAssumption
  <2>2. taskTokens'[k] = IF k = calls[i].task THEN taskTokens[k] + use ELSE taskTokens[k]
    BY <1>1, <2>1 DEF Charges, TypeOK
  <2> QED BY <1>2, <1>3, <1>4, <2>2
<1> QED BY <1>5, <1>6 DEF LedgersAgree, Done, DoneOf, Cost

LEMMA FinishKeeps ==
  ASSUME IInv, NEW i \in DOMAIN calls, NEW result \in Result(calls[i].task), Finish(i, result)
  PROVE  IInv'
<1> DEFINE use == result.use  said == result.said
<1>1. /\ use \in Nat /\ said \in P!Said /\ (said = "counted" => use > 0)
      /\ Charges(i, use, said) /\ Ended(i, use, said) /\ TypeOK' /\ over \subseteq over'
  BY FinishShape
<1> HIDE DEF use, said
<1>2. UNCHANGED <<now, rates>>
  BY DEF Finish
<1>3. RatesInv'
  BY <1>2, RatesStay, Types DEF IInv
<1>4. OpenCostsNothing' /\ OneCallOpen'
  <2>1. OpenCostsNothing'
    <3>1. \A j \in DOMAIN calls : j # i => calls'[j] = calls[j]
      BY <1>1 DEF Ended
    <3> QED BY <1>1, <3>1 DEF IInv, OpenCostsNothing, Ended
  <2>2. Open' \subseteq Open \ {i} /\ \A j \in Open' : calls'[j] = calls[j]
    BY <1>1 DEF Ended, Open
  <2>3. OneCallOpen'
    BY <1>1, <2>2 DEF IInv, OneCallOpen
  <2> QED BY <2>1, <2>3
<1>5. DaysInv' /\ TasksInv' /\ LedgersAgree'
  BY <1>1, <1>2, DaysCharged, TasksCharged, LedgersCharged
<1> QED BY <1>1, <1>3, <1>4, <1>5 DEF IInv

-----------------------------------------------------------------------------
(* The gateway starts again                                                 *)
LEMMA RestartKeeps ==
  ASSUME IInv, Restart
  PROVE  IInv'
<1>1. /\ MaxNow \in Nat /\ MaxCalls \in Nat /\ DayLength \in Nat \ {0}
      /\ Budget \in Nat \ {0} /\ Cap \in Nat \ {0}
  BY LimitAssumption, BoundAssumption
<1>2. TypeOK
  BY DEF IInv
<1>3. /\ now' = now /\ spent' = spent /\ calls' = << >>
      /\ minuteHits' = [u \in User |-> {}] /\ asked' = [u \in User |-> << >>]
      /\ dayCounts' = [u \in User |-> Zero(Day)]
      /\ dayUsage' = Zero(Day) /\ taskTokens' = Zero(Task)
      /\ crossing' = [l \in Ledger |-> {}] /\ over' \subseteq Task
  BY <1>2 DEF Restart, Empty, TypeOK
<1>4. TypeOK'
  <2>1. \A S : << >> \in Seq(S)
    OBVIOUS
  <2> QED BY <1>2, <1>3, <2>1 DEF TypeOK, Zero
<1>5. RatesInv'
  <2>1. now \in Nat
    BY <1>1, <1>2 DEF TypeOK
  <2> QED BY <1>3, <2>1, UserStarts DEF RatesInv, Zero
<1>6. DOMAIN calls' = {} /\ Open' = {} /\ Len(calls') = 0 /\ Done' = {} /\ \A k : DoneOf(k)' = {}
  BY <1>3 DEF Open, Done, DoneOf
<1>7. OpenCostsNothing' /\ OneCallOpen'
  BY <1>1, <1>6 DEF OpenCostsNothing, OneCallOpen
<1>8. SumFunctionOnSet(Uses', {}) = 0
  BY SumEmpty
<1>9. DaysInv'
  <2> SUFFICES ASSUME NEW d \in Day
               PROVE  /\ crossing'[d] = {} /\ dayUsage'[d] = 0
                      /\ SumFunctionOnSet(Uses', crossing'[d]) = 0
    BY <1>1, <1>6 DEF DaysInv, Cost
  <2>1. crossing'[d] = {} /\ dayUsage'[d] = 0
    BY <1>3, DaysAreNoTasks DEF Zero
  <2> QED BY <1>8, <2>1
<1>10. TasksInv'
  <2> SUFFICES ASSUME NEW k \in Task
               PROVE  /\ crossing'[k] = {} /\ Cardinality(crossing'[k]) <= 1
                      /\ taskTokens'[k] = 0 /\ SumFunctionOnSet(Uses', crossing'[k]) = 0
    BY <1>1, <1>6 DEF TasksInv, Cost
  <2>1. crossing'[k] = {} /\ taskTokens'[k] = 0
    BY <1>3 DEF Zero, Ledger
  <2>2. Cardinality(crossing'[k]) = 0
    BY <2>1, FS_EmptySet
  <2> QED BY <1>8, <2>1, <2>2
<1>11. LedgersAgree'
  <2>1. SumFunctionOnSet(dayUsage', Day) = 0
    <3>1. IsFiniteSet(Day)
      <4>1. MaxNow \div DayLength \in Nat
        BY <1>1, Quotient
      <4> QED BY <4>1, FS_Interval DEF Day
    <3>2. \A d \in Day : dayUsage'[d] = 0
      BY <1>3 DEF Zero
    <3> QED BY <3>1, <3>2, SumZero
  <2>2. DOMAIN dayUsage' = Day /\ \A k \in Task : taskTokens'[k] = 0
    BY <1>3 DEF Zero
  <2> QED BY <1>6, <1>8, <2>1, <2>2 DEF LedgersAgree, SumFunction, Cost, Done, DoneOf
<1> QED BY <1>4, <1>5, <1>7, <1>9, <1>10, <1>11 DEF IInv
-----------------------------------------------------------------------------
LEMMA Stutters ==
  ASSUME IInv, UNCHANGED vars
  PROVE  IInv'
<1>1. RatesType /\ RatesInv /\ LedgersType /\ CallsType
  BY Types DEF IInv
<1>2. RatesType' /\ RatesInv'
  BY <1>1, RatesStay DEF vars, rates
<1>3. LedgersType' /\ CallsType'
  BY <1>1 DEF LedgersType, CallsType, vars
<1>4. OpenCostsNothing' /\ OneCallOpen' /\ Quiet
  BY <1>3, FewerOpen DEF vars, ledgers
<1>5. TypeOK'
  BY <1>2, <1>3, Types
<1>6. DaysInv' /\ TasksInv' /\ LedgersAgree'
  BY <1>4, <1>5, QuietKeeps DEF IInv
<1> QED BY <1>2, <1>4, <1>5, <1>6 DEF IInv

LEMMA NextKeeps == IInv /\ [Next]_vars => IInv'
<1> SUFFICES ASSUME IInv, [Next]_vars PROVE IInv'
  OBVIOUS
<1>1. ASSUME NEW u \in User, NEW k \in Task \cup {NoTask}, RefusedByRate(u, k)
      PROVE  IInv'
  BY <1>1, RefusedKeeps
<1>2. ASSUME NEW u \in User, NEW k \in Task \cup {NoTask}, RefusedByBudget(u, k)
      PROVE  IInv'
  BY <1>2, RefusedKeeps
<1>3. ASSUME NEW u \in User, NEW k \in Task \cup {NoTask}, Accepted(u, k)
      PROVE  IInv'
  BY <1>3, AcceptedKeeps
<1>4. ASSUME NEW i \in DOMAIN calls, NEW result \in Result(calls[i].task), Finish(i, result)
      PROVE  IInv'
  BY <1>4, FinishKeeps
<1>5. ASSUME NEW i \in DOMAIN calls, NEW result \in Result(calls[i].task), Fail(i, result)
      PROVE  IInv'
  BY <1>5, FailKeeps
<1>6. ASSUME NEW i \in DOMAIN calls, GiveUp(i)
      PROVE  IInv'
  BY <1>6, GiveUpKeeps
<1>7. CASE Tick
  BY <1>7, TickKeeps
<1>8. CASE Restart
  BY <1>8, RestartKeeps
<1>9. CASE UNCHANGED vars
  BY <1>9, Stutters
<1> QED BY <1>1, <1>2, <1>3, <1>4, <1>5, <1>6, <1>7, <1>8, <1>9 DEF Next

\* The invariant holds of every behaviour of the gateway, however long it runs,
\* whatever the provider reports and however often the gateway starts again.
THEOREM Invariant == Spec => []IInv
<1> QED BY InitIInv, NextKeeps, PTL DEF Spec

\* The counters, ledgers and calls keep their types.
THEOREM TypeCorrect == Spec => []TypeOK
<1>1. IInv => TypeOK
  BY DEF IInv
<1> QED BY <1>1, Invariant, PTL

\* No user gets more calls through than the minute's limit in any window, or the
\* day's in a day: the code keeps only what was in the window when it looked last.
THEOREM Rates == Spec => []RatesHold
<1>1. IInv => RatesHold
  <2> SUFFICES ASSUME IInv, NEW u \in User
               PROVE  LET n == Len(asked[u]) IN
                      /\ \A i \in 1..n : i + PerMin <= n => asked[u][i + PerMin] - asked[u][i] >= Window
                      /\ \A d \in Day : Cardinality({i \in 1..n : asked[u][i] \div DayLength = d}) <= PerDay
    BY DEF RatesHold
  <2>1. Spaced(asked[u]) /\ CountsOf(asked[u], dayCounts[u])
    BY DEF IInv, RatesInv, UserInv
  <2> QED BY <2>1 DEF Spaced, CountsOf, OfDay
<1> QED BY <1>1, Invariant, PTL

\* A budget looked at before a call and charged after it is overdrawn by no more
\* than the calls open when it was reached cost; for a task that is one call.
THEOREM Overdrawn == Spec => []Overshoot
<1>1. IInv => Overshoot
  BY DEF IInv, DaysInv, TasksInv, Overshoot
<1> QED BY <1>1, Invariant, PTL

\* recordUsage() misses no call that was done and counts none twice, given up or
\* not: what days and tasks were charged is what their calls cost.
THEOREM Agree == Spec => []LedgersAgree
<1>1. IInv => LedgersAgree
  BY DEF IInv
<1> QED BY <1>1, Invariant, PTL

\* No answer that a service like OpenAI's, or the mock, streamed to its end is
\* charged as nothing once it said something, whatever the service reports and in
\* whatever order: the estimate of openai_compat.ts. Anthropic's has none, and
\* nothing is claimed of it.
THEOREM NoneFree == Spec => []NothingFree
<1>1. IInv => NothingFree
  BY DEF IInv, OpenCostsNothing, NothingFree
<1> QED BY <1>1, Invariant, PTL
=============================================================================
