--------------------------- MODULE ServingProofs ---------------------------
(***************************************************************************)
(* Proofs about Serving: what a URL answers, where links and redirects     *)
(* lead, which bytes a Range header selects and what the body holds.       *)
(***************************************************************************)
EXTENDS Serving, WellFoundedInduction, FiniteSetTheorems, TLAPS

----------------------------------------------------------------------------
(* Paths.                                                                  *)

LEMMA AppendIs ==
  ASSUME NEW S, NEW s \in Seq(S), NEW x \in S
  PROVE  /\ Append(s, x) \in Seq(S) \ {<<>>} /\ Len(Append(s, x)) = Len(s) + 1
         /\ \A i \in 1 .. Len(s) : Append(s, x)[i] = s[i]
         /\ Append(s, x)[Len(s) + 1] = x
<1>1. \A i \in 1 .. Len(s) : Append(s, x)[i] = s[i]
  OBVIOUS
<1>2. Append(s, x)[Len(s) + 1] = x
  OBVIOUS
<1> QED
  BY <1>1, <1>2

LEMMA SubSeqIs ==
  ASSUME NEW S, NEW s \in Seq(S), NEW m \in 1 .. Len(s) + 1, NEW n \in m - 1 .. Len(s)
  PROVE  /\ SubSeq(s, m, n) \in Seq(S) /\ Len(SubSeq(s, m, n)) = n - m + 1
         /\ \A i \in 1 .. n - m + 1 : SubSeq(s, m, n)[i] = s[m + i - 1]
<1>1. SubSeq(s, m, n) \in Seq(S)
  OBVIOUS
<1>2. Len(SubSeq(s, m, n)) = n - m + 1
  OBVIOUS
<1>3. ASSUME NEW i \in 1 .. n - m + 1 PROVE SubSeq(s, m, n)[i] = s[m + i - 1]
  OBVIOUS
<1> QED
  BY <1>1, <1>2, <1>3

LEMMA PathFacts ==
  ASSUME NEW p \in Paths
  PROVE  /\ p \in Seq(Segment) /\ Len(p) \in Nat \ {0} /\ DOMAIN p = 1 .. Len(p)
         /\ \A i \in 1 .. Len(p) : p[i] \in Segment
         /\ Last(p) = p[Len(p)] /\ Last(p) \in Segment
BY DEF Paths, Last

LEMMA FrontFacts ==
  ASSUME NEW p \in Paths
  PROVE  /\ Front(p) \in Seq(Segment) /\ Len(Front(p)) = Len(p) - 1
         /\ \A i \in 1 .. Len(p) - 1 : Front(p)[i] = p[i]
<1>1. p \in Seq(Segment) /\ Len(p) \in Nat \ {0} /\ 1 \in 1 .. Len(p) + 1
      /\ Len(p) - 1 \in 1 - 1 .. Len(p)
  BY PathFacts
<1>2. /\ SubSeq(p, 1, Len(p) - 1) \in Seq(Segment)
      /\ Len(SubSeq(p, 1, Len(p) - 1)) = (Len(p) - 1) - 1 + 1
      /\ \A i \in 1 .. (Len(p) - 1) - 1 + 1 : SubSeq(p, 1, Len(p) - 1)[i] = p[1 + i - 1]
  BY <1>1, SubSeqIs
<1> QED
  BY <1>1, <1>2 DEF Front

LEMMA AppendFacts ==
  ASSUME NEW s \in Seq(Segment), NEW x \in Segment
  PROVE  /\ Append(s, x) \in Paths /\ Len(Append(s, x)) = Len(s) + 1
         /\ \A i \in 1 .. Len(s) : Append(s, x)[i] = s[i]
         /\ Append(s, x)[Len(s) + 1] = x
         /\ Last(Append(s, x)) = x
BY AppendIs DEF Paths, Last

LEMMA SamePath ==
  ASSUME NEW p \in Seq(Segment), NEW q \in Seq(Segment), Len(p) = Len(q),
         \A i \in 1 .. Len(p) : p[i] = q[i]
  PROVE  p = q
OBVIOUS

LEMMA FrontOfAppend ==
  ASSUME NEW s \in Seq(Segment), NEW x \in Segment
  PROVE  Front(Append(s, x)) = s
<1> DEFINE a == Append(s, x)
<1>1. a \in Paths /\ Len(a) = Len(s) + 1 /\ Len(s) \in Nat /\ \A i \in 1 .. Len(s) : a[i] = s[i]
  BY AppendFacts
<1> HIDE DEF a
<1>2. Front(a) \in Seq(Segment) /\ Len(Front(a)) = Len(s)
  BY <1>1, FrontFacts
<1>3. \A i \in 1 .. Len(s) : Front(a)[i] = s[i]
  BY <1>1, FrontFacts
<1>4. Front(a) = s
  BY <1>2, <1>3, SamePath
<1> QED
  BY <1>4 DEF a

LEMMA EmptyPathFacts == EmptyPath \in Paths /\ Len(EmptyPath) = 1 /\ EmptyPath[1] = Blank /\ Last(EmptyPath) = Blank
BY StringsAssumption DEF Paths, Last, EmptyPath

\* A directory's path ends with a slash, and begins as the path that it comes from.
LEMMA AsDirFacts ==
  ASSUME NEW p \in Paths
  PROVE  /\ AsDir(p) \in Paths /\ Last(AsDir(p)) = Blank
         /\ AsDir(AsDir(p)) = AsDir(p) /\ AsDir(p)[1] = p[1]
         /\ Len(AsDir(p)) >= Len(p)
         /\ AsDir(p) = EmptyPath => p = EmptyPath
<1>1. p \in Seq(Segment) /\ Len(p) \in Nat \ {0} /\ Blank \in Segment
  BY PathFacts, StringsAssumption
<1>2. Append(p, Blank) \in Paths /\ Last(Append(p, Blank)) = Blank /\ Append(p, Blank)[1] = p[1]
      /\ Len(Append(p, Blank)) = Len(p) + 1
  BY <1>1, AppendFacts
<1>3. Append(p, Blank) # EmptyPath
  BY <1>1, <1>2, EmptyPathFacts
<1> QED
  BY <1>1, <1>2, <1>3 DEF AsDir

LEMMA TailFacts ==
  ASSUME NEW p \in Paths, Len(p) > 1
  PROVE  /\ Tail(p) \in Paths /\ Len(Tail(p)) = Len(p) - 1
         /\ \A i \in 1 .. Len(p) - 1 : Tail(p)[i] = p[i + 1]
         /\ Last(Tail(p)) = Last(p)
<1>1. p \in Seq(Segment) /\ p # <<>> /\ Len(p) \in Nat
  BY DEF Paths
<1>2. Tail(p) \in Seq(Segment) /\ Len(Tail(p)) = Len(p) - 1
  BY <1>1
<1>3. ASSUME NEW i \in 1 .. Len(p) - 1 PROVE Tail(p)[i] = p[i + 1]
  BY <1>1
<1> DEFINE q == Tail(p)
<1>4. q \in Seq(Segment) /\ Len(q) = Len(p) - 1 /\ \A i \in 1 .. Len(p) - 1 : q[i] = p[i + 1]
  BY <1>2, <1>3
<1> HIDE DEF q
<1>5. q # <<>>
  BY <1>1, <1>4
<1>6. q[Len(p) - 1] = p[Len(p)]
  BY <1>1, <1>4
<1>7. q \in Paths /\ Last(q) = Last(p)
  BY <1>4, <1>5, <1>6 DEF Paths, Last
<1> QED
  BY <1>4, <1>7 DEF q

\* The least element of a set of numbers, without which no recursive definition can be
\* reasoned about.
Less == {ss \in Nat \X Nat : ss[1] < ss[2]}

LEMMA LessIsWellFounded == IsWellFoundedOn(Less, Nat)
BY NatLessThanWellFounded, Zenon DEF OpToRel, Less

LEMMA LeastOf ==
  ASSUME NEW T, T \subseteq Nat, T # {}
  PROVE  \E x \in T : \A y \in T : x <= y
<1>1. PICK x \in T : \A y \in T : ~ (<<y, x>> \in Less)
  BY LessIsWellFounded, WFMin
<1>2. ASSUME NEW y \in T PROVE x <= y
  <2>1. x \in Nat /\ y \in Nat
    OBVIOUS
  <2>2. y < x => <<y, x>> \in Less
    BY <2>1 DEF Less
  <2> QED
    BY <1>1, <2>1, <2>2
<1> QED
  BY <1>2

LEMMA SetInduction ==
  ASSUME NEW S, 0 \in S, \A n \in Nat : n \in S => n + 1 \in S
  PROVE  Nat \subseteq S
<1> DEFINE T == Nat \ S
<1> SUFFICES ASSUME T # {} PROVE FALSE
  OBVIOUS
<1>1. T \subseteq Nat
  OBVIOUS
<1> HIDE DEF T
<1>2. PICK x \in T : \A y \in T : x <= y
  BY <1>1, LeastOf
<1>3. x # 0 /\ x - 1 \in Nat /\ x \in Nat /\ x \notin S
  BY DEF T
<1>4. x - 1 \in T
  BY <1>3 DEF T
<1> QED
  BY <1>2, <1>3, <1>4

LEMMA InductionUpTo ==
  ASSUME NEW N \in Nat, NEW S, 0 \in S, \A n \in 0 .. N - 1 : n \in S => n + 1 \in S
  PROVE  0 .. N \subseteq S
<1> DEFINE T == {n \in Nat : n <= N => n \in S}
<1>1. 0 \in T
  OBVIOUS
<1>2. ASSUME NEW n \in Nat, n \in T PROVE n + 1 \in T
  BY <1>2
<1>3. Nat \subseteq T
  <2> HIDE DEF T
  <2> QED
    BY <1>1, <1>2, SetInduction
<1>4. ASSUME NEW n \in 0 .. N PROVE n \in S
  BY <1>3
<1> QED
  BY <1>4

\* A function that is defined by recursion on a number exists.
IsStep(F, N, V) == F \in [V \X (1 .. N) -> V]
Recurs(f, N, V, base, F) ==
  f \in [0 .. N -> V] /\ f[0] = base /\ \A n \in 1 .. N : f[n] = F[<<f[n - 1], n>>]

LEMMA Recursion ==
  ASSUME NEW N \in Nat, NEW V, NEW base \in V, NEW F, IsStep(F, N, V)
  PROVE  \E f : Recurs(f, N, V, base, F)
<1>0. F \in [V \X (1 .. N) -> V]
  BY DEF IsStep
<1> DEFINE P(k) == \E f \in [0 .. k -> V] : f[0] = base /\ \A n \in 1 .. k : f[n] = F[<<f[n - 1], n>>]
           S == {k \in 0 .. N : P(k)}
<1>1. 0 \in S
  <2> DEFINE f == [n \in 0 .. 0 |-> base]
  <2>1. f \in [0 .. 0 -> V] /\ f[0] = base /\ \A n \in 1 .. 0 : f[n] = F[<<f[n - 1], n>>]
    OBVIOUS
  <2>2. P(0)
    BY <2>1
  <2> QED
    BY <2>2
<1>2. ASSUME NEW k \in 0 .. N - 1, k \in S PROVE k + 1 \in S
  <2>1. PICK f \in [0 .. k -> V] : f[0] = base /\ \A n \in 1 .. k : f[n] = F[<<f[n - 1], n>>]
    BY <1>2
  <2>2. k \in Nat /\ k + 1 \in 1 .. N /\ k \in 0 .. k
    OBVIOUS
  <2> DEFINE v == F[<<f[k], k + 1>>]
  <2>3. v \in V
    BY <1>0, <2>1, <2>2
  <2> HIDE DEF v
  <2> DEFINE g == [n \in 0 .. k + 1 |-> IF n = k + 1 THEN v ELSE f[n]]
  <2>4. g \in [0 .. k + 1 -> V]
    BY <2>2, <2>3
  <2>5. g[0] = base
    BY <2>1, <2>2
  <2>6. ASSUME NEW n \in 1 .. k + 1 PROVE g[n] = F[<<g[n - 1], n>>]
    <3>1. n - 1 \in 0 .. k /\ n - 1 # k + 1 /\ g[n - 1] = f[n - 1]
      BY <2>2
    <3>2. CASE n = k + 1
      <4>1. g[n] = v /\ n - 1 = k
        BY <2>2, <3>2
      <4> QED
        BY <3>1, <3>2, <4>1 DEF v
    <3>3. CASE n # k + 1
      <4>1. n \in 1 .. k /\ g[n] = f[n]
        BY <2>2, <3>3
      <4> QED
        BY <2>1, <3>1, <4>1
    <3> QED
      BY <3>2, <3>3
  <2>7. P(k + 1)
    <3> HIDE DEF g
    <3> QED
      BY <2>4, <2>5, <2>6
  <2> QED
    BY <2>2, <2>7
<1>3. 0 .. N \subseteq S
  <2> HIDE DEF S
  <2> QED
    BY <1>1, <1>2, InductionUpTo
<1>4. P(N)
  BY <1>3
<1> QED
  BY <1>4 DEF Recurs

\* trim_start_matches leaves a path that begins with a segment and ends as before.
LEMMA TrimmedFacts ==
  ASSUME NEW p \in Paths, \E i \in DOMAIN p : p[i] # Blank
  PROVE  /\ Trimmed(p) \in Paths /\ Trimmed(p)[1] # Blank /\ Last(Trimmed(p)) = Last(p)
         /\ p[1] # Blank => Trimmed(p) = p
<1> DEFINE T == {i \in DOMAIN p : p[i] # Blank}
           first == CHOOSE i \in DOMAIN p : p[i] # Blank /\ \A j \in 1 .. i - 1 : p[j] = Blank
<1>1. p \in Seq(Segment) /\ DOMAIN p = 1 .. Len(p) /\ Len(p) \in Nat /\ Len(p) > 0
  BY PathFacts
<1>2. T \subseteq Nat /\ T # {}
  BY <1>1
<1>3. PICK x \in T : \A y \in T : x <= y
  <2> HIDE DEF T
  <2> QED
    BY <1>2, LeastOf
<1>4. x \in DOMAIN p /\ p[x] # Blank /\ \A j \in 1 .. x - 1 : p[j] = Blank
  <2> SUFFICES ASSUME NEW j \in 1 .. x - 1 PROVE p[j] = Blank
    OBVIOUS
  <2>1. x \in 1 .. Len(p) /\ j \in DOMAIN p /\ j < x
    BY <1>1
  <2> QED
    BY <1>3, <2>1
<1>5. first \in 1 .. Len(p) /\ p[first] # Blank /\ \A j \in 1 .. first - 1 : p[j] = Blank
  BY <1>1, <1>4, Zenon
<1> HIDE DEF first
<1> DEFINE n == Len(p) - first + 1
<1>6. first \in 1 .. Len(p) + 1 /\ Len(p) \in first - 1 .. Len(p) /\ n \in Nat /\ n >= 1
  BY <1>1, <1>5
<1> DEFINE s == SubSeq(p, first, Len(p))
<1>7. s \in Seq(Segment) /\ Len(s) = n /\ \A i \in 1 .. n : s[i] = p[first + i - 1]
  BY <1>1, <1>6, SubSeqIs
<1> HIDE DEF s, n
<1>8. s \in Paths /\ s[1] # Blank /\ s[n] = p[Len(p)]
  <2>1. s # <<>>
    BY <1>6, <1>7
  <2>2. s[1] = p[first]
    BY <1>5, <1>6, <1>7
  <2>3. s[n] = p[Len(p)]
    BY <1>1, <1>5, <1>6, <1>7 DEF n
  <2> QED
    BY <1>5, <1>7, <2>1, <2>2, <2>3 DEF Paths
<1>9. ASSUME p[1] # Blank PROVE s = p
  <2>1. first = 1
    BY <1>1, <1>5, <1>9
  <2>2. n = Len(p) /\ \A i \in 1 .. Len(p) : s[i] = p[i]
    BY <1>1, <1>7, <2>1 DEF n
  <2> QED
    BY <1>1, <1>7, <2>2, SamePath
<1>10. Trimmed(p) = s
  BY DEF Trimmed, s, first
<1> QED
  BY <1>7, <1>8, <1>9, <1>10 DEF Last
----------------------------------------------------------------------------
(* What a browser makes of a path.                                         *)

\* Segments that a browser leaves as they are, and what it can have of a path.
Ordinary == Segment \ {Dot, DotDot}
Undotted == Seq(Ordinary) \cup {None}

LEMMA StepFacts ==
  ASSUME NEW host, NEW before \in Undotted, NEW s \in Segment, NEW last \in BOOLEAN
  PROVE  /\ Step(host, before, s, last) \in Undotted
         /\ last => Step(host, before, s, last) # <<>>
         /\ s \in Ordinary /\ before # None => Step(host, before, s, last) = Append(before, s)
         /\ s = Blank /\ before # None =>
              Last(Step(host, before, s, last)) = Blank
<1> DEFINE left == IF s = DotDot /\ before # <<>> THEN Front(before) ELSE before
<1>1. Blank \in Ordinary /\ None \notin Seq(Segment)
  BY StringsAssumption, NoneAssumption DEF Ordinary
<1>2. None # <<>>
  <2>1. <<>> \in Seq(Segment)
    OBVIOUS
  <2> QED
    BY <1>1, <2>1
<1>3. CASE before = None \/ (s = DotDot /\ before = <<>> /\ host = "path")
  <2>1. Step(host, before, s, last) = None
    BY <1>3, Zenon DEF Step
  <2>2. s \in Ordinary => before = None
    BY <1>3 DEF Ordinary
  <2>3. s = Blank => before = None
    BY <1>1, <2>2
  <2> QED
    BY <1>2, <2>1, <2>2, <2>3 DEF Undotted
<1>4. CASE ~(before = None \/ (s = DotDot /\ before = <<>> /\ host = "path"))
  <2>1. before \in Seq(Ordinary)
    BY <1>4 DEF Undotted
  <2>2. Step(host, before, s, last) =
          IF s \notin {Dot, DotDot} THEN Append(before, s)
          ELSE IF last THEN Append(left, Blank) ELSE left
    BY <1>4, Zenon DEF Step
  <2>3. CASE s \in Ordinary
    <3>1. Step(host, before, s, last) = Append(before, s)
      BY <2>2, <2>3 DEF Ordinary
    <3> DEFINE a == Append(before, s)
    <3>2. a \in Seq(Ordinary) \ {<<>>} /\ Len(a) = Len(before) + 1 /\ a[Len(before) + 1] = s
      BY <2>1, <2>3, AppendIs
    <3> HIDE DEF a
    <3>3. Last(a) = s
      BY <3>2 DEF Last
    <3> QED
      BY <3>1, <3>2, <3>3 DEF Undotted, a
  <2>4. CASE s \notin Ordinary
    <3>1. left \in Seq(Ordinary)
      <4>1. before # <<>> => Front(before) \in Seq(Ordinary)
        BY <2>1 DEF Front
      <4> QED
        BY <2>1, <4>1
    <3> HIDE DEF left
    <3>2. Append(left, Blank) \in Seq(Ordinary) \ {<<>>}
      BY <1>1, <3>1, AppendIs
    <3>3. s # Blank /\ s \in {Dot, DotDot}
      BY <1>1, <2>4 DEF Ordinary
    <3>4. Step(host, before, s, last) = IF last THEN Append(left, Blank) ELSE left
      BY <2>2, <3>3
    <3> QED
      BY <2>4, <3>1, <3>2, <3>3, <3>4 DEF Undotted
  <2> QED
    BY <2>3, <2>4
<1> QED
  BY <1>3, <1>4

\* What Resolve computes step by step.
Resolves(host, path, kept) ==
  kept = [n \in 0 .. Len(path) |->
            IF n = 0 THEN <<>> ELSE Step(host, kept[n - 1], path[n], n = Len(path))]

LEMMA ResolveIs ==
  ASSUME NEW host, NEW path \in Paths
  PROVE  \E kept : Resolves(host, path, kept) /\ Resolve(host, path) = kept[Len(path)]
<1>1. path \in Seq(Segment) /\ Len(path) \in Nat /\ \A i \in 1 .. Len(path) : path[i] \in Segment
  BY PathFacts
<1> DEFINE V == Undotted
           N == Len(path)
           F == [x \in V \X (1 .. N) |-> Step(host, x[1], path[x[2]], x[2] = N)]
           base == <<>>
<1>2. N \in Nat /\ base \in V /\ IsStep(F, N, V)
  <2>1. ASSUME NEW v \in V, NEW n \in 1 .. N PROVE Step(host, v, path[n], n = N) \in V
    BY <1>1, <2>1, StepFacts
  <2>2. base \in V
    BY DEF Undotted
  <2> HIDE DEF V
  <2> QED
    BY <1>1, <2>1, <2>2 DEF IsStep
<1>3. ASSUME NEW v \in V, NEW n \in 1 .. N
      PROVE  F[<<v, n>>] = Step(host, v, path[n], n = N)
  <2> DEFINE x == <<v, n>>
  <2>1. x \in V \X (1 .. N) /\ x[1] = v /\ x[2] = n
    OBVIOUS
  <2> HIDE DEF V, N, x
  <2>2. F[x] = Step(host, x[1], path[x[2]], x[2] = N)
    BY <2>1, Zenon
  <2> HIDE DEF F
  <2>3. F[x] = Step(host, v, path[n], n = N)
    BY <2>1, <2>2
  <2> QED
    BY <2>3 DEF x
<1> HIDE DEF V, F, N, base
<1>p. PICK f : Recurs(f, N, V, base, F)
  BY <1>2, Recursion
<1>4. f \in [0 .. N -> V] /\ f[0] = base /\ \A n \in 1 .. N : f[n] = F[<<f[n - 1], n>>]
  BY <1>p DEF Recurs
<1>5. Resolves(host, path, f)
  <2>1. ASSUME NEW n \in 1 .. N PROVE f[n] = Step(host, f[n - 1], path[n], n = N)
    <3>1. f[n - 1] \in V
      BY <1>1, <1>4 DEF N
    <3> QED
      BY <1>3, <1>4, <3>1
  <2> DEFINE g == [n \in 0 .. N |-> IF n = 0 THEN <<>> ELSE Step(host, f[n - 1], path[n], n = N)]
  <2>2. ASSUME NEW n \in 0 .. N PROVE f[n] = g[n]
    <3>1. CASE n = 0
      BY <1>4, <3>1 DEF base
    <3>2. CASE n # 0
      <4>1. n \in 1 .. N
        BY <1>1, <3>2 DEF N
      <4> QED
        BY <2>1, <3>2, <4>1, Zenon
    <3> QED
      BY <3>1, <3>2
  <2>3. f = [n \in 0 .. N |-> f[n]]
    BY <1>4
  <2>4. f = g
    BY <2>2, <2>3
  <2> QED
    BY <2>4 DEF Resolves, N
<1> DEFINE kept == CHOOSE k : Resolves(host, path, k)
<1>6. Resolves(host, path, kept)
  BY <1>5
<1>7. Resolve(host, path) = kept[Len(path)]
  BY DEF Resolve, Resolves
<1> QED
  BY <1>6, <1>7

\* A browser's path has no segments to resolve; it ends with a slash if the path did; and a
\* path without such segments is what it was.
LEMMA ResolveFacts ==
  ASSUME NEW host, NEW path \in Paths
  PROVE  /\ Resolve(host, path) \in Undotted \ {<<>>}
         /\ Last(path) = Blank /\ Resolve(host, path) # None => Last(Resolve(host, path)) = Blank
         /\ path \in Seq(Ordinary) => Resolve(host, path) = path
<1> DEFINE N == Len(path)
<1>1. /\ path \in Seq(Segment) /\ N \in Nat /\ N > 0 /\ \A i \in 1 .. N : path[i] \in Segment
      /\ Last(path) = path[N]
  BY PathFacts
<1>2. PICK kept : Resolves(host, path, kept) /\ Resolve(host, path) = kept[N]
  BY ResolveIs
<1>3. kept[0] = <<>>
  <2>1. 0 \in 0 .. Len(path)
    BY <1>1
  <2> QED
    BY <1>2, <2>1, Zenon DEF Resolves
<1>4. ASSUME NEW n \in 0 .. N - 1
      PROVE  kept[n + 1] = Step(host, kept[n], path[n + 1], n + 1 = N)
  <2> DEFINE m == n + 1
             g == [k \in 0 .. Len(path) |->
                     IF k = 0 THEN <<>> ELSE Step(host, kept[k - 1], path[k], k = Len(path))]
  <2>1. m \in 0 .. Len(path) /\ m # 0 /\ m - 1 = n
    BY <1>1
  <2> HIDE DEF m
  <2>2. kept = g
    BY <1>2 DEF Resolves
  <2>3. g[m] = Step(host, kept[m - 1], path[m], m = Len(path))
    BY <2>1, Zenon
  <2>4. kept[m] = g[m]
    <3> HIDE DEF g
    <3> QED
      BY <2>2
  <2> HIDE DEF g
  <2>5. kept[m] = Step(host, kept[n], path[m], m = N)
    BY <2>1, <2>3, <2>4
  <2> QED
    BY <2>5 DEF m
<1> HIDE DEF N
<1>5. \A n \in 0 .. N : kept[n] \in Undotted
  <2> DEFINE S == {n \in 0 .. N : kept[n] \in Undotted}
  <2>1. 0 \in S
    <3>1. <<>> \in Undotted
      BY DEF Undotted
    <3> QED
      BY <1>1, <1>3, <3>1
  <2>2. ASSUME NEW n \in 0 .. N - 1, n \in S PROVE n + 1 \in S
    <3>1. kept[n] \in Undotted /\ path[n + 1] \in Segment /\ n + 1 \in 0 .. N
      BY <1>1, <2>2
    <3>2. Step(host, kept[n], path[n + 1], n + 1 = N) \in Undotted
      BY <3>1, StepFacts
    <3> QED
      BY <1>4, <3>1, <3>2
  <2>3. 0 .. N \subseteq S
    <3> HIDE DEF S
    <3> QED
      BY <1>1, <2>1, <2>2, InductionUpTo
  <2> QED
    BY <2>3
<1> DEFINE m == N - 1
<1>6. m \in 0 .. N - 1 /\ m + 1 = N /\ m \in 0 .. N /\ path[N] \in Segment /\ N \in 0 .. N
  BY <1>1
<1>7. kept[N] = Step(host, kept[m], path[N], TRUE) /\ kept[m] \in Undotted
  BY <1>4, <1>5, <1>6
<1> HIDE DEF m
<1> DEFINE v == kept[m]
           s == path[N]
           last == TRUE
<1>p. last \in BOOLEAN /\ last /\ v \in Undotted /\ s \in Segment
  BY <1>6, <1>7
<1>s. kept[N] = Step(host, v, s, last)
  BY <1>7
<1> HIDE DEF v, s, last
<1>8. kept[N] # <<>>
  BY <1>p, <1>s, StepFacts
<1>9. ASSUME Last(path) = Blank, kept[N] # None PROVE Last(kept[N]) = Blank
  <2>1. v # None
    BY <1>s, <1>9, Zenon DEF Step
  <2>2. s = Blank
    BY <1>1, <1>9 DEF s
  <2>3. Last(Step(host, v, s, last)) = Blank
    BY <1>p, <2>1, <2>2, StepFacts, Zenon
  <2> QED
    BY <1>s, <2>3
<1>10. ASSUME path \in Seq(Ordinary) PROVE kept[N] = path
  <2> DEFINE Same(n) == kept[n] \in Seq(Segment) /\ Len(kept[n]) = n /\ \A i \in 1 .. n : kept[n][i] = path[i]
             S == {n \in 0 .. N : Same(n)}
  <2>1. 0 \in S
    <3>1. <<>> \in Seq(Segment) /\ Len(<<>>) = 0 /\ \A i \in 1 .. 0 : <<>>[i] = path[i]
      OBVIOUS
    <3>2. Same(0)
      BY <1>3, <3>1, Zenon
    <3> QED
      BY <1>1, <3>2
  <2>2. ASSUME NEW n \in 0 .. N - 1, n \in S PROVE n + 1 \in S
    <3> DEFINE k == kept[n]
               x == path[n + 1]
               a == Append(k, x)
    <3>1. k \in Seq(Segment) /\ Len(k) = n /\ (\A i \in 1 .. n : k[i] = path[i]) /\ n \in Nat
      BY <2>2
    <3>2. x \in Segment /\ n + 1 \in 0 .. N /\ n + 1 \in 1 .. N /\ n \in 0 .. N
      BY <1>1
    <3>3. x \in Ordinary
      BY <1>10, <3>2 DEF N
    <3>4. k \in Undotted /\ k # None
      BY <1>5, <3>1, <3>2, NoneAssumption
    <3> HIDE DEF k, x
    <3>5. Step(host, k, x, n + 1 = N) = a
      BY <3>2, <3>3, <3>4, StepFacts
    <3>6. a \in Seq(Segment) \ {<<>>} /\ Len(a) = Len(k) + 1 /\ (\A i \in 1 .. Len(k) : a[i] = k[i]) /\ a[Len(k) + 1] = x
      BY <3>1, <3>2, AppendIs
    <3> HIDE DEF a
    <3>7. Len(a) = n + 1 /\ \A i \in 1 .. n + 1 : a[i] = path[i]
      BY <3>1, <3>6 DEF x
    <3>8. kept[n + 1] = a
      BY <1>4, <3>5 DEF k, x
    <3> QED
      BY <3>2, <3>6, <3>7, <3>8
  <2>3. 0 .. N \subseteq S
    <3> HIDE DEF S
    <3> QED
      BY <1>1, <2>1, <2>2, InductionUpTo
  <2>4. Same(N)
    BY <1>6, <2>3
  <2> DEFINE k == kept[N]
  <2>5. k \in Seq(Segment) /\ Len(k) = N /\ \A i \in 1 .. N : k[i] = path[i]
    BY <2>4
  <2> HIDE DEF k
  <2>6. k = path
    BY <1>1, <2>5, SamePath DEF N
  <2> QED
    BY <2>6 DEF k
<1> QED
  BY <1>2, <1>5, <1>6, <1>8, <1>9, <1>10

\* The segments of a Plain path stay, and it does not begin with a slash.
LEMMA PlainFacts ==
  ASSUME NEW d \in Paths, Plain(d)
  PROVE  /\ d \in Seq(Ordinary) /\ (d = EmptyPath \/ d[1] # Blank)
         /\ Plain(AsDir(d))
<1>1. /\ d \in Seq(Segment) /\ Len(d) \in Nat \ {0} /\ DOMAIN d = 1 .. Len(d)
      /\ (\A i \in 1 .. Len(d) : d[i] \in Segment) /\ Last(d) = d[Len(d)]
  BY PathFacts
<1>2. \A i \in 1 .. Len(d) : d[i] \in Ordinary /\ (i < Len(d) => d[i] # Blank)
  BY <1>1 DEF Plain, Ordinary
<1>3. d \in Seq(Ordinary)
  BY <1>1, <1>2
<1>4. ASSUME d[1] = Blank PROVE d = EmptyPath
  <2>1. Len(d) = 1
    BY <1>1, <1>2, <1>4
  <2>2. EmptyPath \in Seq(Segment) /\ Len(EmptyPath) = 1 /\ EmptyPath[1] = Blank
    BY EmptyPathFacts DEF Paths
  <2>3. Len(d) = Len(EmptyPath) /\ \A i \in 1 .. Len(d) : d[i] = EmptyPath[i]
    BY <1>4, <2>1, <2>2
  <2> QED
    BY <1>1, <2>2, <2>3, SamePath
<1>5. Plain(AsDir(d))
  <2>1. CASE Last(d) = Blank
    BY <2>1 DEF AsDir
  <2>2. CASE Last(d) # Blank
    <3> DEFINE a == Append(d, Blank)
    <3>1. /\ Blank \in Segment \ {Dot, DotDot} /\ AsDir(d) = a
          /\ a \in Paths /\ Len(a) = Len(d) + 1 /\ (\A i \in 1 .. Len(d) : a[i] = d[i])
          /\ a[Len(d) + 1] = Blank
      BY <1>1, <2>2, AppendFacts, StringsAssumption DEF AsDir
    <3> HIDE DEF a
    <3>2. DOMAIN a = 1 .. Len(a)
      BY <3>1, PathFacts
    <3>3. ASSUME NEW i \in DOMAIN a
          PROVE  a[i] \notin {Dot, DotDot} /\ (i < Len(a) => a[i] # Blank)
      <4>1. i \in 1 .. Len(d) \/ i = Len(d) + 1
        BY <1>1, <3>1, <3>2
      <4>2. CASE i = Len(d) + 1
        BY <3>1, <4>2
      <4>3. CASE i \in 1 .. Len(d)
        <5>1. a[i] = d[i] /\ d[i] \in Ordinary
          BY <1>2, <3>1, <4>3
        <5>2. d[i] # Blank
          <6>1. CASE i < Len(d)
            BY <1>2, <4>3, <6>1
          <6>2. CASE i = Len(d)
            BY <1>1, <2>2, <6>2
          <6> QED
            BY <1>1, <4>3, <6>1, <6>2
        <5> QED
          BY <5>1, <5>2 DEF Ordinary
      <4> QED
        BY <4>1, <4>2, <4>3
    <3> QED
      BY <3>1, <3>3 DEF Plain
  <2> QED
    BY <2>1, <2>2
<1> QED
  BY <1>3, <1>4, <1>5

\* A URL without segments for a browser to resolve.
Resolved(url) == url.tail = None \/ url.tail \in Seq(Ordinary)

LEMMA BrowsedFacts ==
  ASSUME NEW url \in URLs
  PROVE  /\ Browsed(url) \in URLs \cup {None}
         /\ Browsed(url) # None =>
              /\ Resolved(Browsed(url))
              /\ url.tail \in Paths /\ Last(url.tail) = Blank =>
                   Browsed(url).tail \in Paths /\ Last(Browsed(url).tail) = Blank
         /\ Resolved(url) => Browsed(url) = url
<1> DEFINE r == Resolve(url.host, url.tail)
<1>1. url.tail = None \/ url.tail \in Paths
  BY DEF URLs
<1>2. None \notin Paths /\ None \notin Seq(Segment) /\ Seq(Ordinary) \subseteq Seq(Segment)
  BY NoneAssumption DEF Paths, Ordinary
<1>3. CASE url.tail = None
  <2>1. Browsed(url) = url
    BY <1>3 DEF Browsed
  <2> QED
    BY <1>2, <1>3, <2>1 DEF Resolved
<1>4. CASE url.tail \in Paths
  <2>1. /\ r \in Undotted \ {<<>>}
        /\ Last(url.tail) = Blank /\ r # None => Last(r) = Blank
        /\ url.tail \in Seq(Ordinary) => r = url.tail
    BY <1>4, ResolveFacts
  <2>2. url.tail # None
    BY <1>2, <1>4
  <2>3. Browsed(url) = IF r = None THEN None ELSE [url EXCEPT !.tail = r]
    BY <2>2 DEF Browsed
  <2> HIDE DEF r
  <2>4. ASSUME r # None
        PROVE  /\ r \in Paths /\ r \in Seq(Ordinary) /\ [url EXCEPT !.tail = r] \in URLs
               /\ [url EXCEPT !.tail = r].tail = r
    <3>1. r \in Paths /\ r \in Seq(Ordinary)
      BY <1>2, <2>1, <2>4 DEF Undotted, Paths
    <3> QED
      BY <3>1 DEF URLs
  <2>5. ASSUME Resolved(url) PROVE Browsed(url) = url
    <3>1. r = url.tail /\ r # None
      BY <2>1, <2>2, <2>5 DEF Resolved
    <3>2. url = [url EXCEPT !.tail = url.tail]
      BY DEF URLs
    <3> QED
      BY <2>3, <3>1, <3>2
  <2>6. CASE r = None
    BY <2>3, <2>5, <2>6
  <2>7. CASE r # None
    <3>1. Browsed(url) = [url EXCEPT !.tail = r]
      BY <2>3, <2>7
    <3>2. Browsed(url) \in URLs /\ Browsed(url).tail = r /\ r \in Paths /\ r \in Seq(Ordinary)
      BY <2>4, <2>7, <3>1
    <3> QED
      BY <2>1, <2>5, <2>7, <3>2 DEF Resolved
  <2> QED
    BY <2>6, <2>7
<1> QED
  BY <1>1, <1>3, <1>4

----------------------------------------------------------------------------
(* What a URL answers.                                                     *)

\* The root blob of a URL, and the path under it.
RootOf(url, named) == IF url.route = "pkarr" THEN named ELSE Label
Dropped(path) == IF Len(path) > 1 /\ Head(path) = Blank THEN Tail(path) ELSE path
AtRoot(url) ==
  LET tail == rewrite(url).tail
  IN  tail = None \/ (url.route = "pkarr" /\ \A i \in DOMAIN tail : tail[i] = Blank)
Place(url) ==
  LET tail == rewrite(url).tail
  IN  IF AtRoot(url) THEN EmptyPath
      ELSE Dropped(IF url.route = "pkarr" THEN Trimmed(tail) ELSE tail)

\* A directory of a collection.
IsDir(b, dir) == dir = EmptyPath \/ Inside(b, dir) # {}
\* A path that collection_entry takes for a file.
IsFile(b, path) == path \in DOMAIN Names[b] /\ ~ \E name \in DOMAIN Names[b] : Below(path, name)
Index(dir) == Child(dir, "index.html")

LEMMA NoneFacts == None \notin Blob \cup Nat \cup Paths \cup URLs
BY NoneAssumption DEF Paths

LEMMA UrlFacts ==
  ASSUME NEW url \in URLs
  PROVE  /\ rewrite(url) \in URLs
         /\ rewrite(url).route = url.route /\ rewrite(url).flags = url.flags
         /\ rewrite(url).host = url.host
         /\ rewrite(url).tail = None \/ rewrite(url).tail = url.tail
         /\ rewrite(url).tail = None => url.tail = None \/ (url.host = "subdomain" /\ url.tail = EmptyPath)
         /\ url.tail # None => url.tail \in Paths
BY DEF URLs, rewrite

\* A link's URL ends as its path, and is that of the path unless it begins with a slash.
LEMMA LinkIs ==
  ASSUME NEW url \in URLs, NEW d \in Paths, NEW f \in SUBSET Flags
  PROVE  /\ link(url, d, f) \in URLs
         /\ link(url, d, f).route = url.route /\ link(url, d, f).host = url.host
         /\ link(url, d, f).tail \in Paths /\ Last(link(url, d, f).tail) = Last(d)
         /\ Plain(d) => link(url, d, f).tail = d /\ Resolved(link(url, d, f))
<1> DEFINE s == <<Dot>> \o d
           slashed == url.host = "subdomain" /\ Len(d) > 1 /\ d[1] = Blank
           tail == IF slashed THEN s ELSE d
<1>1. d \in Seq(Segment) /\ Len(d) \in Nat \ {0} /\ Last(d) = d[Len(d)] /\ Dot \in Segment
  BY PathFacts, StringsAssumption
<1>2. s \in Paths /\ Last(s) = Last(d)
  <2>1. s \in Seq(Segment) /\ Len(s) = Len(d) + 1 /\ s[Len(d) + 1] = d[Len(d)]
    BY <1>1
  <2> HIDE DEF s
  <2>2. s # <<>>
    BY <1>1, <2>1
  <2> QED
    BY <1>1, <2>1, <2>2 DEF Paths, Last
<1>3. tail \in Paths /\ Last(tail) = Last(d)
  BY <1>2
<1>4. Plain(d) => tail = d
  <2>1. Plain(d) => d = EmptyPath \/ d[1] # Blank
    BY PlainFacts
  <2>2. Len(EmptyPath) = 1
    BY EmptyPathFacts
  <2> QED
    BY <2>1, <2>2
<1>5. link(url, d, f) = [url EXCEPT !.tail = tail, !.flags = f]
  BY DEF link
<1> HIDE DEF tail
<1>6. /\ link(url, d, f) \in URLs /\ link(url, d, f).tail = tail
      /\ link(url, d, f).route = url.route /\ link(url, d, f).host = url.host
  BY <1>3, <1>5 DEF URLs
<1> QED
  BY <1>3, <1>4, <1>6, PlainFacts DEF Resolved

LEMMA DroppedFacts ==
  ASSUME NEW p \in Paths
  PROVE  /\ Dropped(p) \in Paths /\ Last(Dropped(p)) = Last(p)
         /\ p[1] # Blank \/ p = EmptyPath => Dropped(p) = p
<1>1. Len(p) > 1 => Tail(p) \in Paths /\ Last(Tail(p)) = Last(p)
  BY TailFacts
<1>2. Head(p) = p[1] /\ Len(EmptyPath) = 1
  BY EmptyPathFacts, PathFacts DEF Paths
<1> QED
  BY <1>1, <1>2 DEF Dropped

LEMMA PlaceFacts ==
  ASSUME NEW url \in URLs
  PROVE  /\ Place(url) \in Paths
         /\ ~AtRoot(url) /\ url.tail # None => Last(Place(url)) = Last(url.tail)
         /\ \A d \in Paths : url.tail = d /\ (d = EmptyPath \/ d[1] # Blank) => Place(url) = d
<1> DEFINE tail == rewrite(url).tail
           path == IF url.route = "pkarr" THEN Trimmed(tail) ELSE tail
<1>1. CASE AtRoot(url)
  <2>1. Place(url) = EmptyPath
    BY <1>1 DEF Place
  <2>2. ASSUME NEW d \in Paths, url.tail = d, d[1] # Blank PROVE FALSE
    <3>1. d # None /\ d # EmptyPath /\ 1 \in DOMAIN d
      BY <2>2, NoneFacts, EmptyPathFacts, PathFacts
    <3>2. tail = d
      BY <2>2, <3>1, UrlFacts
    <3> QED
      BY <1>1, <2>2, <3>1, <3>2 DEF AtRoot
  <2> QED
    BY <1>1, <2>1, <2>2, EmptyPathFacts
<1>2. CASE ~AtRoot(url)
  <2>1. tail # None /\ tail = url.tail /\ tail \in Paths
    BY <1>2, UrlFacts DEF AtRoot
  <2>2. url.route = "pkarr" => \E i \in DOMAIN tail : tail[i] # Blank
    BY <1>2, <2>1 DEF AtRoot
  <2> HIDE DEF tail
  <2>3. path \in Paths /\ Last(path) = Last(tail) /\ (tail[1] # Blank => path = tail)
    BY <2>1, <2>2, TrimmedFacts
  <2>4. tail = EmptyPath => path = EmptyPath
    <3> SUFFICES ASSUME tail = EmptyPath, url.route = "pkarr" PROVE FALSE
      OBVIOUS
    <3>1. DOMAIN tail = {1} /\ tail[1] = Blank
      BY DEF EmptyPath
    <3> QED
      BY <2>2, <3>1
  <2>5. Place(url) = Dropped(path)
    BY <1>2 DEF Place, tail
  <2>6. tail = EmptyPath \/ tail[1] # Blank => path = tail /\ (path = EmptyPath \/ path[1] # Blank)
    BY <2>3, <2>4
  <2> HIDE DEF path
  <2>7. Dropped(path) \in Paths /\ Last(Dropped(path)) = Last(tail)
    BY <2>3, DroppedFacts
  <2>8. tail = EmptyPath \/ tail[1] # Blank => Dropped(path) = tail
    BY <2>3, <2>6, DroppedFacts
  <2> QED
    BY <1>2, <2>1, <2>5, <2>7, <2>8
<1> QED
  BY <1>1, <1>2

\* What collection_entry answers for a path, or for None at the root without a slash.
Enters(to, b, p, u, r) ==
  \/ IsFile(b, p) /\ r = Found(to, Names[b][p])
  \/ ~IsFile(b, p) /\ ~IsDir(b, AsDir(p)) /\ r = NoPath
  \/ /\ ~IsFile(b, p) /\ IsDir(b, AsDir(p))
     /\ \/ r = Listing(b, AsDir(p))
        \/ Index(AsDir(p)) \in DOMAIN Names[b] /\ r = Found(to, Names[b][Index(AsDir(p))])
        \/ (u = None \/ Last(u) # Blank) /\ r = Redirect(to, link(to, AsDir(p), to.flags))

LEMMA EntryFacts ==
  ASSUME NEW to, NEW b, NEW p \in Paths, NEW u \in {None, p}, u = None => p = EmptyPath,
         NEW r, r = collection_entry(to, b, u)
  PROVE  Enters(to, b, p, u, r)
<1>1. p # None
  BY NoneFacts
<1> DEFINE path == IF u = None THEN EmptyPath ELSE u
<1>2. path = p
  OBVIOUS
<1>3. r = IF IsFile(b, p) THEN Found(to, Names[b][p])
          ELSE IF ~IsDir(b, AsDir(p)) THEN NoPath
          ELSE IF "listing" \in to.flags \/ Index(AsDir(p)) \notin DOMAIN Names[b]
               THEN Listing(b, AsDir(p))
          ELSE IF u # None /\ Last(u) = Blank THEN Found(to, Names[b][Index(AsDir(p))])
          ELSE Redirect(to, link(to, AsDir(p), to.flags))
  BY <1>2, Zenon DEF collection_entry, IsFile, IsDir, Index
<1> HIDE DEF path
<1> QED
  BY <1>3 DEF Enters

\* Errors of the provider or the lookup, and of a root that is no collection.
Failed(r) == "kind" \in DOMAIN r /\ r.kind = "error" /\ r.about = "transfer"

\* Every answer to a URL that names a blob.
LEMMA RouteFacts ==
  ASSUME NEW url \in URLs, NEW named \in Targets, RootOf(url, named) # None,
         NEW r \in Route(url, named)
  PROVE  \/ Failed(r)
         \/ AtRoot(url) /\ r = Found(rewrite(url), RootOf(url, named))
         \/ /\ read_collection(RootOf(url, named))
            /\ \E u \in {None, Place(url)} :
                 /\ r = collection_entry(rewrite(url), RootOf(url, named), u)
                 /\ u = None => Place(url) = EmptyPath /\ url.tail = None
<1> DEFINE to == rewrite(url)
           b == RootOf(url, named)
           root == url.route = "pkarr" /\ to.tail # None /\ \A i \in DOMAIN to.tail : to.tail[i] = Blank
           slash == root \/ url.host = "subdomain"
           path == IF url.route = "pkarr" THEN Trimmed(to.tail) ELSE to.tail
<1>1. Route(url, named) = Unavailable \cup
        IF to.tail = None \/ root THEN serve_root(to, b, slash) ELSE serve_path(to, b, path)
  BY Zenon DEF Route, RootOf
<1>2. AtRoot(url) <=> to.tail = None \/ root
  BY DEF AtRoot
<1>3. /\ Failed(Error(404)) /\ Failed(Error(502)) /\ Failed(Error(504)) /\ Failed(Error(422))
      /\ Unavailable = {Error(404), Error(502), Error(504)}
  BY DEF Failed, Error, Unavailable
<1>6. CASE r \in Unavailable
  BY <1>3, <1>6
<1>4. CASE AtRoot(url) /\ r \notin Unavailable
  <2> DEFINE u == IF slash THEN EmptyPath ELSE None
  <2>1. r \in serve_root(to, b, slash)
    BY <1>1, <1>2, <1>4
  <2>2. Place(url) = EmptyPath
    BY <1>4 DEF Place
  <2>3. ~slash => url.tail = None
    BY <1>2, <1>4, UrlFacts
  <2>4. \/ r \in Unavailable \cup {Error(422), Found(to, b)}
        \/ read_collection(b) /\ r = collection_entry(to, b, u)
    <3> HIDE DEF to, b, slash
    <3> QED
      BY <2>1 DEF serve_root
  <2>5. u \in {None, Place(url)} /\ (u = None => url.tail = None)
    BY <2>2, <2>3, EmptyPathFacts, NoneFacts
  <2>6. r \in Unavailable \cup {Error(422)} => Failed(r)
    BY <1>3
  <2> HIDE DEF u, slash
  <2> QED
    BY <1>4, <2>2, <2>4, <2>5, <2>6
<1>5. CASE ~AtRoot(url) /\ r \notin Unavailable
  <2>1. r \in serve_path(to, b, path)
    BY <1>1, <1>2, <1>5
  <2>2. Place(url) = Dropped(path)
    BY <1>5 DEF Place
  <2>3. \/ r \in Unavailable \cup {Error(422)}
        \/ read_collection(b) /\ r = collection_entry(to, b, Dropped(path))
    <3> HIDE DEF to, b, path
    <3> QED
      BY <2>1 DEF serve_path, Dropped
  <2>4. Place(url) # None
    BY NoneFacts, PlaceFacts
  <2>5. r \in Unavailable \cup {Error(422)} => Failed(r)
    BY <1>3
  <2>6. r = collection_entry(to, b, Dropped(path)) =>
          \E u \in {None, Place(url)} : r = collection_entry(to, b, u) /\ u # None
    BY <2>2, <2>4, Zenon
  <2> QED
    BY <2>3, <2>5, <2>6
<1> QED
  BY <1>4, <1>5, <1>6

LEMMA RootFacts ==
  ASSUME NEW url \in URLs, NEW named \in Targets
  PROVE  RootOf(url, named) \in Blob \cup {None}
BY BlobsAssumption DEF RootOf

\* The file that a directory shows, or that a path names.
LEMMA CollectionFacts ==
  ASSUME NEW b \in Blob, read_collection(b)
  PROVE  /\ DOMAIN Names[b] \subseteq Paths
         /\ \A p \in DOMAIN Names[b] : Names[b][p] \in Blob
BY BlobsAssumption DEF read_collection

LEMMA KindFacts ==
  ASSUME NEW url, NEW b, NEW d, NEW n
  PROVE  /\ "kind" \in DOMAIN Error(n) /\ Error(n).kind = "error"
         /\ Error(n).about = "transfer"
         /\ "kind" \in DOMAIN Found(url, b) /\ Found(url, b).kind = "blob"
         /\ Found(url, b).blob = b /\ Found(url, b).cache = Caching(url)
         /\ "kind" \in DOMAIN Listing(b, d) /\ Listing(b, d).kind = "listing"
         /\ Listing(b, d).blob = b /\ Listing(b, d).dir = d
         /\ "kind" \in DOMAIN Redirect(url, d) /\ Redirect(url, d).kind = "redirect"
         /\ Redirect(url, d).to = d /\ Redirect(url, d).cache = Caching(url)
BY DEF Error, Found, Listing, Redirect

LEMMA NoPathFacts == "kind" \in DOMAIN NoPath /\ NoPath.kind = "error" /\ NoPath.about = "path"
BY DEF NoPath, Error

\* What each kind of answer says of the URL.
SaysBlob(url, b, r) ==
  /\ r.cache = Caching(rewrite(url))
  /\ \/ AtRoot(url) /\ r.blob = b
     \/ IsFile(b, Place(url)) /\ r.blob = Names[b][Place(url)]
     \/ Index(AsDir(Place(url))) \in DOMAIN Names[b] /\ r.blob = Names[b][Index(AsDir(Place(url)))]
SaysListing(url, b, r) ==
  /\ read_collection(b) /\ IsDir(b, AsDir(Place(url))) /\ ~IsFile(b, Place(url))
  /\ r.blob = b /\ r.dir = AsDir(Place(url))
SaysRedirect(url, b, r) ==
  /\ read_collection(b) /\ IsDir(b, AsDir(Place(url)))
  /\ url.tail = None \/ Last(url.tail) # Blank
  /\ r.cache = Caching(rewrite(url))
  /\ r.to = link(rewrite(url), AsDir(Place(url)), url.flags)

LEMMA AnswerFacts ==
  ASSUME NEW url \in URLs, NEW named \in Targets, NEW r \in Route(url, named),
         NEW b, b = RootOf(url, named)
  PROVE  /\ "kind" \in DOMAIN r /\ r.kind \in {"error", "elsewhere", "blob", "listing", "redirect"}
         /\ r.kind \in {"blob", "listing", "redirect"} => b \in Blob
         /\ r.kind = "blob" => r.blob \in Blob /\ SaysBlob(url, b, r)
         /\ r.kind = "listing" => SaysListing(url, b, r)
         /\ r.kind = "redirect" => SaysRedirect(url, b, r)
         /\ r.kind = "elsewhere" => b = None
         /\ r = NoPath /\ b # None =>
              ~IsFile(b, Place(url)) /\ ~IsDir(b, AsDir(Place(url)))
<1>1. CASE b = None
  <2>1. r \in Unavailable \cup {Error(422), [Error(307) EXCEPT !.kind = "elsewhere"]}
    BY <1>1, Zenon DEF Route, RootOf
  <2>2. "kind" \in DOMAIN r /\ r.kind \in {"error", "elsewhere"}
    BY <2>1 DEF Error, Unavailable
  <2> QED
    BY <1>1, <2>2
<1>2. CASE b # None
  <2> DEFINE to == rewrite(url)
             p == Place(url)
  <2>1. b \in Blob /\ p \in Paths /\ to.flags = url.flags
    BY <1>2, RootFacts, PlaceFacts, UrlFacts
  <2>2. \/ Failed(r)
        \/ AtRoot(url) /\ r = Found(to, b)
        \/ /\ read_collection(b)
           /\ \E u \in {None, p} :
                r = collection_entry(to, b, u) /\ (u = None => p = EmptyPath /\ url.tail = None)
    BY <1>2, RouteFacts
  <2> HIDE DEF to
  <2>3. CASE AtRoot(url) /\ r = Found(to, b)
    <3>1. r.kind = "blob" /\ r.blob = b /\ r.cache = Caching(to) /\ "kind" \in DOMAIN r
      BY <2>3, KindFacts
    <3> QED
      BY <2>1, <2>3, <3>1, NoPathFacts DEF SaysBlob, to
  <2>4. CASE /\ read_collection(b)
             /\ \E u \in {None, p} :
                  r = collection_entry(to, b, u) /\ (u = None => p = EmptyPath /\ url.tail = None)
    <3>1. PICK u \in {None, p} :
            r = collection_entry(to, b, u) /\ (u = None => p = EmptyPath /\ url.tail = None)
      BY <2>4
    <3> DEFINE index == Index(AsDir(p))
               there == link(to, AsDir(p), to.flags)
    <3>2. \/ IsFile(b, p) /\ r = Found(to, Names[b][p])
          \/ ~IsFile(b, p) /\ ~IsDir(b, AsDir(p)) /\ r = NoPath
          \/ /\ ~IsFile(b, p) /\ IsDir(b, AsDir(p))
             /\ \/ r = Listing(b, AsDir(p))
                \/ index \in DOMAIN Names[b] /\ r = Found(to, Names[b][index])
                \/ (u = None \/ Last(u) # Blank) /\ r = Redirect(to, there)
      <4> HIDE DEF p
      <4>1. Enters(to, b, p, u, r)
        BY <2>1, <3>1, EntryFacts
      <4> QED
        BY <4>1 DEF Enters, index, there
    <3> HIDE DEF p, index, there
    <3>3. CASE IsFile(b, p) /\ r = Found(to, Names[b][p])
      <4>1. r.kind = "blob" /\ r.blob = Names[b][p] /\ r.cache = Caching(to) /\ "kind" \in DOMAIN r
        BY <3>3, KindFacts
      <4>2. r.blob \in Blob
        BY <2>1, <2>4, <3>3, <4>1, CollectionFacts DEF IsFile
      <4>3. SaysBlob(url, b, r)
        BY <3>3, <4>1 DEF SaysBlob, to, p
      <4> QED
        BY <2>1, <4>1, <4>2, <4>3, NoPathFacts
    <3>4. CASE ~IsFile(b, p) /\ ~IsDir(b, AsDir(p)) /\ r = NoPath
      <4>1. r.kind = "error" /\ "kind" \in DOMAIN r
        BY <3>4, NoPathFacts
      <4> QED
        BY <3>4, <4>1 DEF p
    <3>5. CASE ~IsFile(b, p) /\ IsDir(b, AsDir(p)) /\ r = Listing(b, AsDir(p))
      <4>1. r.kind = "listing" /\ r.blob = b /\ r.dir = AsDir(p) /\ "kind" \in DOMAIN r
        BY <3>5, KindFacts
      <4>2. SaysListing(url, b, r)
        BY <2>4, <3>5, <4>1 DEF SaysListing, p
      <4> QED
        BY <2>1, <4>1, <4>2, NoPathFacts
    <3>6. CASE index \in DOMAIN Names[b] /\ r = Found(to, Names[b][index])
      <4>1. r.kind = "blob" /\ r.blob = Names[b][index] /\ r.cache = Caching(to) /\ "kind" \in DOMAIN r
        BY <3>6, KindFacts
      <4>2. r.blob \in Blob
        BY <2>1, <2>4, <3>6, <4>1, CollectionFacts
      <4>3. SaysBlob(url, b, r)
        BY <3>6, <4>1 DEF SaysBlob, to, p, index
      <4> QED
        BY <2>1, <4>1, <4>2, <4>3, NoPathFacts
    <3>7. CASE IsDir(b, AsDir(p)) /\ (u = None \/ Last(u) # Blank) /\ r = Redirect(to, there)
      <4>1. r.kind = "redirect" /\ r.to = there /\ r.cache = Caching(to) /\ "kind" \in DOMAIN r
        BY <3>7, KindFacts
      <4>2. url.tail = None \/ Last(url.tail) # Blank
        <5>1. CASE u = None
          BY <3>1, <5>1
        <5>2. CASE u = p /\ Last(p) # Blank
          <6>1. ~AtRoot(url)
            BY <5>2, EmptyPathFacts DEF Place, p
          <6> QED
            BY <5>2, <6>1, PlaceFacts DEF p
        <5> QED
          BY <3>1, <3>7, <5>1, <5>2
      <4>3. r.to = link(rewrite(url), AsDir(Place(url)), url.flags)
        BY <2>1, <4>1 DEF there, to, p
      <4>4. SaysRedirect(url, b, r)
        BY <2>4, <3>7, <4>1, <4>2, <4>3 DEF SaysRedirect, p, to
      <4> QED
        BY <2>1, <4>1, <4>4, NoPathFacts
    <3> QED
      BY <3>2, <3>3, <3>4, <3>5, <3>6, <3>7
  <2>5. CASE Failed(r)
    BY <2>5, NoPathFacts DEF Failed
  <2> QED
    BY <2>2, <2>3, <2>4, <2>5
<1> QED
  BY <1>1, <1>2
----------------------------------------------------------------------------
(* The segments of a directory, for the links of its listing.              *)

\* What Segments computes step by step.
Keeps(path, kept) ==
  kept = [n \in 0 .. Len(path) |->
            IF n = 0 THEN <<>>
            ELSE IF path[n] = Blank THEN kept[n - 1] ELSE Append(kept[n - 1], path[n])]

LEMMA SegmentsIs ==
  ASSUME NEW path \in Paths
  PROVE  \E kept : Keeps(path, kept) /\ Segments(path) = kept[Len(path)]
<1>1. path \in Seq(Segment) /\ Len(path) \in Nat /\ \A i \in 1 .. Len(path) : path[i] \in Segment
  BY PathFacts
<1> DEFINE V == Seq(Segment)
           N == Len(path)
           F == [x \in V \X (1 .. N) |-> IF path[x[2]] = Blank THEN x[1] ELSE Append(x[1], path[x[2]])]
<1>2. N \in Nat /\ <<>> \in V /\ IsStep(F, N, V)
  <2>1. ASSUME NEW v \in V, NEW n \in 1 .. N PROVE Append(v, path[n]) \in V
    BY <1>1, <2>1, AppendIs
  <2> QED
    BY <1>1, <2>1 DEF IsStep
<1>3. ASSUME NEW v \in V, NEW n \in 1 .. N
      PROVE  F[<<v, n>>] = IF path[n] = Blank THEN v ELSE Append(v, path[n])
  <2>1. <<v, n>> \in V \X (1 .. N) /\ <<v, n>>[1] = v /\ <<v, n>>[2] = n
    OBVIOUS
  <2> HIDE DEF V, N
  <2>2. F[<<v, n>>] = IF path[<<v, n>>[2]] = Blank THEN <<v, n>>[1]
                      ELSE Append(<<v, n>>[1], path[<<v, n>>[2]])
    BY <2>1, Zenon
  <2> DEFINE x == <<v, n>>
  <2>3. x[1] = v /\ x[2] = n /\ F[x] = IF path[x[2]] = Blank THEN x[1] ELSE Append(x[1], path[x[2]])
    BY <2>1, <2>2
  <2>4. F[x] = IF path[n] = Blank THEN v ELSE Append(v, path[n])
    <3> HIDE DEF F, x
    <3> QED
      BY <2>3, Zenon
  <2> HIDE DEF F
  <2> QED
    BY <2>4, Zenon
<1> DEFINE base == <<>>
<1>b. base \in V
  BY <1>2
<1> HIDE DEF V, F, N, base
<1>p. PICK f : Recurs(f, N, V, base, F)
  BY <1>2, <1>b, Recursion
<1>4. f \in [0 .. N -> V] /\ f[0] = base /\ \A n \in 1 .. N : f[n] = F[<<f[n - 1], n>>]
  BY <1>p DEF Recurs
<1>5. Keeps(path, f)
  <2>1. ASSUME NEW n \in 1 .. N
        PROVE  f[n] = IF path[n] = Blank THEN f[n - 1] ELSE Append(f[n - 1], path[n])
    <3>1. f[n - 1] \in V
      BY <1>1, <1>4 DEF N
    <3> QED
      BY <1>3, <1>4, <3>1
  <2> DEFINE g == [n \in 0 .. N |->
                     IF n = 0 THEN <<>>
                     ELSE IF path[n] = Blank THEN f[n - 1] ELSE Append(f[n - 1], path[n])]
  <2>2. ASSUME NEW n \in 0 .. N PROVE f[n] = g[n]
    <3>1. CASE n = 0
      BY <1>4, <3>1 DEF base
    <3>2. CASE n # 0
      <4>1. n \in 1 .. N
        BY <1>1, <3>2 DEF N
      <4> QED
        BY <2>1, <3>2, <4>1, Zenon
    <3> QED
      BY <3>1, <3>2
  <2>3. f = [n \in 0 .. N |-> f[n]]
    BY <1>4
  <2>4. f = g
    BY <2>2, <2>3
  <2> QED
    BY <2>4 DEF Keeps, N
<1> DEFINE kept == CHOOSE k : Keeps(path, k)
<1>6. Keeps(path, kept)
  BY <1>5
<1>7. Segments(path) = kept[Len(path)]
  BY DEF Segments, Keeps
<1> QED
  BY <1>6, <1>7

LEMMA KeepsAt ==
  ASSUME NEW path, NEW kept, Keeps(path, kept), NEW m \in 0 .. Len(path), m # 0
  PROVE  kept[m] = IF path[m] = Blank THEN kept[m - 1] ELSE Append(kept[m - 1], path[m])
<1> DEFINE g == [n \in 0 .. Len(path) |->
                   IF n = 0 THEN <<>>
                   ELSE IF path[n] = Blank THEN kept[n - 1] ELSE Append(kept[n - 1], path[n])]
<1>1. kept = g
  BY DEF Keeps
<1>2. g[m] = IF path[m] = Blank THEN kept[m - 1] ELSE Append(kept[m - 1], path[m])
  BY Zenon
<1>3. kept[m] = g[m]
  <2> HIDE DEF g
  <2> QED
    BY <1>1
<1> HIDE DEF g
<1> QED
  BY <1>2, <1>3, Zenon

LEMMA SegmentsFacts ==
  ASSUME NEW path \in Paths
  PROVE  /\ Segments(path) \in Seq(Segment)
         /\ Last(path) = Blank /\ (\A i \in 1 .. Len(path) - 1 : path[i] # Blank) =>
              Segments(path) = Front(path)
<1> DEFINE N == Len(path)
<1>1. /\ path \in Seq(Segment) /\ N \in Nat /\ N > 0 /\ \A i \in 1 .. N : path[i] \in Segment
      /\ Last(path) = path[N]
  BY PathFacts
<1>2. PICK kept : Keeps(path, kept) /\ Segments(path) = kept[N]
  BY SegmentsIs
<1>3. 0 \in 0 .. N /\ kept[0] = <<>>
  <2>1. 0 \in 0 .. Len(path)
    BY <1>1
  <2>2. kept[0] = <<>>
    BY <1>2, <2>1, Zenon DEF Keeps
  <2> QED
    BY <2>1, <2>2
<1>4. ASSUME NEW n \in 0 .. N - 1
      PROVE  kept[n + 1] = IF path[n + 1] = Blank THEN kept[n] ELSE Append(kept[n], path[n + 1])
  <2> DEFINE m == n + 1
  <2>1. m \in 0 .. Len(path) /\ m # 0 /\ m - 1 = n
    BY <1>1
  <2> HIDE DEF m
  <2>2. kept[m] = IF path[m] = Blank THEN kept[m - 1] ELSE Append(kept[m - 1], path[m])
    BY <1>2, <2>1, KeepsAt, Zenon
  <2>3. kept[m] = IF path[m] = Blank THEN kept[n] ELSE Append(kept[n], path[m])
    BY <2>1, <2>2, Zenon
  <2> QED
    BY <2>3, Zenon DEF m
<1> HIDE DEF N
<1>5. \A n \in 0 .. N : kept[n] \in Seq(Segment)
  <2> DEFINE S == {n \in 0 .. N : kept[n] \in Seq(Segment)}
  <2>1. 0 \in S
    <3>1. <<>> \in Seq(Segment)
      OBVIOUS
    <3> QED
      BY <1>3, <3>1, Zenon
  <2>2. ASSUME NEW n \in 0 .. N - 1, n \in S PROVE n + 1 \in S
    <3>1. kept[n] \in Seq(Segment) /\ path[n + 1] \in Segment /\ n + 1 \in 0 .. N
      BY <1>1, <2>2
    <3>2. Append(kept[n], path[n + 1]) \in Seq(Segment)
      BY <3>1, AppendIs
    <3>3. kept[n + 1] \in Seq(Segment)
      BY <1>4, <3>1, <3>2
    <3> QED
      BY <3>1, <3>3
  <2>3. 0 .. N \subseteq S
    <3> HIDE DEF S
    <3> QED
      BY <1>1, <2>1, <2>2, InductionUpTo
  <2> QED
    BY <2>3
<1>6. ASSUME path[N] = Blank, \A i \in 1 .. N - 1 : path[i] # Blank
      PROVE  kept[N] = Front(path)
  <2> DEFINE Same(n) == Len(kept[n]) = n /\ \A i \in 1 .. n : kept[n][i] = path[i]
             S == {n \in 0 .. N - 1 : Same(n)}
  <2>1. 0 \in S
    BY <1>1, <1>3
  <2>2. ASSUME NEW n \in 0 .. (N - 1) - 1, n \in S PROVE n + 1 \in S
    <3>1. kept[n] \in Seq(Segment) /\ path[n + 1] \in Segment /\ n + 1 \in 0 .. N - 1
          /\ n \in 0 .. N - 1 /\ n + 1 \in 1 .. N - 1 /\ n \in Nat
      BY <1>1, <1>5
    <3>2. kept[n + 1] = Append(kept[n], path[n + 1])
      BY <1>4, <1>6, <3>1
    <3>3. Len(kept[n]) = n /\ \A i \in 1 .. n : kept[n][i] = path[i]
      BY <2>2
    <3> DEFINE k == kept[n]
               x == path[n + 1]
               a == Append(k, x)
    <3>4. Len(a) = Len(k) + 1 /\ (\A i \in 1 .. Len(k) : a[i] = k[i]) /\ a[Len(k) + 1] = x
      BY <3>1, AppendIs
    <3> HIDE DEF a
    <3>5. Len(a) = n + 1 /\ \A i \in 1 .. n + 1 : a[i] = path[i]
      BY <3>1, <3>3, <3>4
    <3>6. Same(n + 1)
      BY <3>2, <3>5 DEF a
    <3> QED
      BY <3>1, <3>6
  <2>3. 0 .. N - 1 \subseteq S
    <3>1. N - 1 \in Nat
      BY <1>1
    <3> HIDE DEF S
    <3> QED
      BY <2>1, <2>2, <3>1, InductionUpTo
  <2>4. Same(N - 1) /\ kept[N - 1] \in Seq(Segment)
    BY <1>1, <1>5, <2>3
  <2>5. kept[N] = kept[N - 1]
    <3>1. N - 1 \in 0 .. N - 1 /\ N - 1 + 1 = N
      BY <1>1
    <3>2. kept[N - 1 + 1] = IF path[N - 1 + 1] = Blank THEN kept[N - 1]
                            ELSE Append(kept[N - 1], path[N - 1 + 1])
      BY <1>4, <3>1
    <3> QED
      BY <1>6, <3>1, <3>2
  <2>6. /\ Front(path) \in Seq(Segment) /\ Len(Front(path)) = N - 1
        /\ \A i \in 1 .. N - 1 : Front(path)[i] = path[i]
    BY FrontFacts DEF N
  <2> DEFINE f == Front(path)
             g == kept[N - 1]
  <2>7. /\ f \in Seq(Segment) /\ g \in Seq(Segment) /\ Len(f) = Len(g)
        /\ \A i \in 1 .. Len(f) : f[i] = g[i]
    BY <2>4, <2>6
  <2> HIDE DEF f, g
  <2>8. f = g
    BY <2>7, SamePath
  <2> QED
    BY <2>5, <2>8 DEF f, g
<1>7. N \in 0 .. N
  BY <1>1
<1> QED
  BY <1>1, <1>2, <1>5, <1>6, <1>7 DEF N

LEMMA InsideFacts ==
  ASSUME NEW b \in Blob, read_collection(b), NEW dir \in Paths, NEW name \in DOMAIN Names[b]
  PROVE  name \in Inside(b, dir) <=>
           Len(name) >= Len(dir) /\ \A i \in 1 .. Len(dir) - 1 : name[i] = dir[i]
<1>1. name \in Paths
  BY CollectionFacts
<1>2. name \in Seq(Segment) /\ Len(name) \in Nat /\ Len(dir) \in Nat \ {0} /\ dir \in Seq(Segment)
  BY <1>1, PathFacts
<1>3. /\ Front(dir) \in Seq(Segment) /\ Len(Front(dir)) = Len(dir) - 1
      /\ \A i \in 1 .. Len(dir) - 1 : Front(dir)[i] = dir[i]
  BY FrontFacts
<1>4. name \in Inside(b, dir) <=>
        Len(name) >= Len(dir) /\ SubSeq(name, 1, Len(dir) - 1) = Front(dir)
  BY DEF Inside
<1>5. ASSUME Len(name) >= Len(dir)
      PROVE  SubSeq(name, 1, Len(dir) - 1) = Front(dir) <=>
               \A i \in 1 .. Len(dir) - 1 : name[i] = dir[i]
  <2> DEFINE n == Len(dir) - 1
             s == SubSeq(name, 1, n)
             f == Front(dir)
  <2>1. 1 \in 1 .. Len(name) + 1 /\ n \in 1 - 1 .. Len(name) /\ n - 1 + 1 = n
        /\ \A i \in 1 .. n : 1 + i - 1 = i
    BY <1>2, <1>5
  <2>2. s \in Seq(Segment) /\ Len(s) = n - 1 + 1 /\ \A i \in 1 .. n - 1 + 1 : s[i] = name[1 + i - 1]
    <3> HIDE DEF n
    <3> QED
      BY <1>2, <2>1, SubSeqIs
  <2>3. s \in Seq(Segment) /\ Len(s) = n /\ \A i \in 1 .. n : s[i] = name[i]
    <3> HIDE DEF s, n
    <3> QED
      BY <2>1, <2>2
  <2>4. f \in Seq(Segment) /\ Len(f) = n /\ \A i \in 1 .. n : f[i] = dir[i]
    BY <1>3
  <2> HIDE DEF s, f
  <2>5. (\A i \in 1 .. n : name[i] = dir[i]) => s = f
    <3> HIDE DEF n
    <3> SUFFICES ASSUME \A i \in 1 .. n : name[i] = dir[i] PROVE s = f
      OBVIOUS
    <3>1. Len(s) = Len(f) /\ \A i \in 1 .. Len(s) : s[i] = f[i]
      BY <2>3, <2>4
    <3> QED
      BY <2>3, <2>4, <3>1, SamePath
  <2>6. s = f => \A i \in 1 .. n : name[i] = dir[i]
    <3> HIDE DEF n
    <3> QED
      BY <2>3, <2>4
  <2> QED
    BY <2>5, <2>6 DEF s, f
<1> QED
  BY <1>4, <1>5

\* The first segments of a name are a directory.
LEMMA PrefixIsDir ==
  ASSUME NEW b \in Blob, read_collection(b), NEW name \in DOMAIN Names[b],
         NEW s \in Seq(Segment), Len(s) \in 1 .. Len(name) - 1,
         \A i \in 1 .. Len(s) : s[i] = name[i]
  PROVE  /\ Append(s, Blank) \in Paths
         /\ AsDir(Append(s, Blank)) = Append(s, Blank) /\ IsDir(b, Append(s, Blank))
<1> DEFINE d == Append(s, Blank)
<1>1. name \in Paths /\ Len(name) \in Nat /\ Len(s) \in Nat /\ 1 \in 1 .. Len(s) /\ 1 \in DOMAIN name
  BY CollectionFacts, PathFacts
<1>2. d \in Paths /\ Len(d) = Len(s) + 1 /\ (\A i \in 1 .. Len(s) : d[i] = s[i]) /\ Last(d) = Blank
  BY AppendFacts, StringsAssumption
<1> HIDE DEF d
<1>4. AsDir(d) = d
  BY <1>2 DEF AsDir
<1>5. Len(name) >= Len(d) /\ \A i \in 1 .. Len(d) - 1 : name[i] = d[i]
  BY <1>1, <1>2
<1>6. name \in Inside(b, d)
  BY <1>2, <1>5, InsideFacts
<1> QED
  BY <1>2, <1>4, <1>6 DEF IsDir, d

\* A directory but the top one is how a name begins.
LEMMA DirBegins ==
  ASSUME NEW b \in Blob, read_collection(b), NEW dir \in Paths, IsDir(b, dir)
  PROVE  dir # EmptyPath => \E name \in DOMAIN Names[b] :
           Len(name) >= Len(dir) /\ \A i \in 1 .. Len(dir) - 1 : name[i] = dir[i]
<1>1. CASE dir = EmptyPath
  BY <1>1, EmptyPathFacts
<1>2. CASE dir # EmptyPath
  <2>1. PICK name \in Inside(b, dir) : TRUE
    BY <1>2 DEF IsDir
  <2>2. name \in DOMAIN Names[b]
    BY <2>1 DEF Inside
  <2>3. Len(name) >= Len(dir) /\ \A i \in 1 .. Len(dir) - 1 : name[i] = dir[i]
    BY <2>1, <2>2, InsideFacts
  <2>8. \E n \in DOMAIN Names[b] : Len(n) >= Len(dir) /\ \A i \in 1 .. Len(dir) - 1 : n[i] = dir[i]
    BY <2>2, <2>3, Zenon
  <2> QED
    BY <2>8, Zenon
<1> QED
  BY <1>1, <1>2

\* Where the links of a listing lead to: to the URL of what they show, which exists, or to
\* the listing itself with other flags.
Aims(url, b, dir, l) ==
  \/ /\ l.url.tail = l.shows /\ Resolved(l.url)
     /\ l.shows \in DOMAIN Names[b] \/ (AsDir(l.shows) = l.shows /\ IsDir(b, l.shows))
  \/ l.url.tail = url.tail /\ Resolved(url) /\ l.shows = dir

\* The paths of the links up.
LEMMA UpFacts ==
  ASSUME NEW b \in Blob, read_collection(b), NEW dir \in Paths, Last(dir) = Blank,
         NEW crumbs, crumbs = Segments(dir),
         NEW d \in {Append(SubSeq(crumbs, 1, n), Blank) : n \in 1 .. Len(crumbs) - 1}
                     \cup {e \in {EmptyPath, parent(dir)} : dir # EmptyPath}
  PROVE  /\ d \in Paths
         /\ Plain(dir) /\ IsDir(b, dir) => AsDir(d) = d /\ IsDir(b, d)
<1>1. crumbs \in Seq(Segment) /\ Len(crumbs) \in Nat
  BY SegmentsFacts
<1>2. dir \in Seq(Segment) /\ Len(dir) \in Nat
  BY PathFacts
<1>3. CASE d = EmptyPath
  <2>1. AsDir(EmptyPath) = EmptyPath
    BY EmptyPathFacts DEF AsDir
  <2> QED
    BY <1>3, <2>1, EmptyPathFacts DEF IsDir
<1>4. ASSUME NEW n \in 1 .. Len(crumbs) - 1, d = Append(SubSeq(crumbs, 1, n), Blank)
      PROVE  /\ d \in Paths
             /\ Plain(dir) /\ IsDir(b, dir) => AsDir(d) = d /\ IsDir(b, d)
  <2> DEFINE s == SubSeq(crumbs, 1, n)
  <2>1. 1 \in 1 .. Len(crumbs) + 1 /\ n \in 1 - 1 .. Len(crumbs) /\ n \in Nat
    BY <1>1
  <2>2. s \in Seq(Segment) /\ Len(s) = n - 1 + 1 /\ \A i \in 1 .. n - 1 + 1 : s[i] = crumbs[1 + i - 1]
    BY <1>1, <2>1, SubSeqIs
  <2> HIDE DEF s
  <2>3. Len(s) = n /\ \A i \in 1 .. n : s[i] = crumbs[i]
    <3>1. n - 1 + 1 = n
      BY <2>1
    <3>2. ASSUME NEW i \in 1 .. n PROVE s[i] = crumbs[i]
      <4>1. i \in 1 .. n - 1 + 1 /\ 1 + i - 1 = i
        BY <2>1, <3>1
      <4>2. s[i] = crumbs[1 + i - 1]
        BY <2>2, <4>1
      <4> QED
        BY <4>1, <4>2
    <3> QED
      BY <2>2, <3>1, <3>2
  <2>4. d \in Paths
    BY <1>4, <2>2, AppendFacts, StringsAssumption DEF s
  <2>5. ASSUME Plain(dir), IsDir(b, dir) PROVE AsDir(d) = d /\ IsDir(b, d)
    <3>1. \A i \in 1 .. Len(dir) - 1 : dir[i] # Blank
      BY <1>2, <2>5, PathFacts DEF Plain
    <3>2. crumbs = Front(dir)
      BY <3>1, SegmentsFacts
    <3>3. Len(crumbs) = Len(dir) - 1 /\ \A i \in 1 .. Len(dir) - 1 : crumbs[i] = dir[i]
      BY <3>2, FrontFacts
    <3>4. dir # EmptyPath
      <4>1. Len(crumbs) >= 2
        BY <1>1
      <4>2. Len(dir) # 1
        BY <1>2, <3>3, <4>1
      <4> QED
        BY <4>2, EmptyPathFacts
    <3>5. PICK name \in DOMAIN Names[b] :
            Len(name) >= Len(dir) /\ \A i \in 1 .. Len(dir) - 1 : name[i] = dir[i]
      BY <2>5, <3>4, DirBegins
    <3>6. Len(name) \in Nat
      BY CollectionFacts, PathFacts
    <3>7. Len(s) \in 1 .. Len(name) - 1 /\ \A i \in 1 .. Len(s) : s[i] = name[i]
      <4>1. n <= Len(dir) - 2 /\ Len(name) >= Len(dir) /\ n >= 1
        BY <1>1, <1>2, <3>3, <3>5
      <4>2. n \in 1 .. Len(name) - 1
        BY <1>2, <2>1, <3>6, <4>1
      <4>3. ASSUME NEW i \in 1 .. n PROVE s[i] = name[i]
        <5>1. i \in 1 .. Len(dir) - 1
          BY <1>2, <2>1, <4>1
        <5> QED
          BY <2>3, <3>3, <3>5, <5>1
      <4> QED
        BY <2>3, <4>2, <4>3
    <3> QED
      BY <1>4, <2>2, <2>5, <3>7, PrefixIsDir DEF s
  <2> QED
    BY <2>4, <2>5
<1>5. ASSUME d = parent(dir), d # EmptyPath, dir # EmptyPath
      PROVE  /\ d \in Paths
             /\ Plain(dir) /\ IsDir(b, dir) => AsDir(d) = d /\ IsDir(b, d)
  <2> DEFINE n == Len(dir) - 2
             s == SubSeq(dir, 1, n)
  <2>1. Len(dir) > 2 /\ d = Append(s, Blank)
    BY <1>2, <1>5 DEF parent
  <2>2. 1 \in 1 .. Len(dir) + 1 /\ n \in 1 - 1 .. Len(dir) /\ n \in Nat /\ n >= 1
    BY <1>2, <2>1
  <2> HIDE DEF n
  <2>3. s \in Seq(Segment) /\ Len(s) = n - 1 + 1 /\ \A i \in 1 .. n - 1 + 1 : s[i] = dir[1 + i - 1]
    BY <1>2, <2>2, SubSeqIs
  <2> HIDE DEF s
  <2>4. Len(s) = n /\ \A i \in 1 .. n : s[i] = dir[i]
    BY <2>2, <2>3
  <2>5. d \in Paths
    BY <2>1, <2>3, AppendFacts, StringsAssumption
  <2>6. ASSUME Plain(dir), IsDir(b, dir) PROVE AsDir(d) = d /\ IsDir(b, d)
    <3>1. PICK name \in DOMAIN Names[b] :
            Len(name) >= Len(dir) /\ \A i \in 1 .. Len(dir) - 1 : name[i] = dir[i]
      BY <1>5, <2>6, DirBegins
    <3>2. Len(name) \in Nat
      BY CollectionFacts, PathFacts
    <3>3. Len(s) \in 1 .. Len(name) - 1 /\ \A i \in 1 .. Len(s) : s[i] = name[i]
      BY <1>2, <2>1, <2>2, <2>4, <3>1, <3>2 DEF n
    <3> QED
      BY <2>1, <2>3, <2>6, <3>3, PrefixIsDir
  <2> QED
    BY <2>5, <2>6
<1> QED
  BY <1>3, <1>4, <1>5

\* The paths of the links down: directories and files.
LEMMA DownFacts ==
  ASSUME NEW b \in Blob, read_collection(b), NEW dir \in Paths, NEW name \in Inside(b, dir)
  PROVE  /\ Len(name) > Len(dir) =>
              LET d == Append(Child(dir, name[Len(dir)]), Blank) IN
              /\ d \in Paths
              /\ AsDir(d) = d /\ IsDir(b, d)
         /\ Len(name) = Len(dir) => Child(dir, Last(name)) = name
<1>1. name \in DOMAIN Names[b]
  BY DEF Inside
<1>2. name \in Paths
  BY <1>1, CollectionFacts
<1>3. /\ Len(name) \in Nat /\ Len(dir) \in Nat \ {0} /\ Last(name) = name[Len(name)]
      /\ name \in Seq(Segment) /\ \A i \in 1 .. Len(name) : name[i] \in Segment
  BY <1>2, PathFacts
<1>4. Len(name) >= Len(dir) /\ \A i \in 1 .. Len(dir) - 1 : name[i] = dir[i]
  BY <1>1, InsideFacts
<1> DEFINE x == name[Len(dir)]
           f == Front(dir)
           s == Append(f, x)
<1>5. x \in Segment
  BY <1>3, <1>4
<1>6. f \in Seq(Segment) /\ Len(f) = Len(dir) - 1 /\ \A i \in 1 .. Len(dir) - 1 : f[i] = dir[i]
  BY FrontFacts
<1>7. s \in Paths /\ Len(s) = Len(f) + 1 /\ (\A i \in 1 .. Len(f) : s[i] = f[i]) /\ s[Len(f) + 1] = x
  <2> HIDE DEF f, x
  <2> QED
    BY <1>5, <1>6, AppendFacts
<1>8. s = Child(dir, x)
  BY DEF Child
<1> HIDE DEF s, f
<1>9. Len(s) = Len(dir) /\ \A i \in 1 .. Len(dir) : s[i] = name[i]
  BY <1>3, <1>4, <1>6, <1>7
<1>10. s \in Seq(Segment)
  BY <1>7 DEF Paths
<1>11. ASSUME Len(name) > Len(dir)
       PROVE  /\ Append(s, Blank) \in Paths
              /\ LET d == Append(s, Blank) IN AsDir(d) = d /\ IsDir(b, d)
  <2>1. Append(s, Blank) \in Paths
    BY <1>10, AppendFacts, StringsAssumption
  <2>2. Len(s) \in 1 .. Len(name) - 1 /\ \A i \in 1 .. Len(s) : s[i] = name[i]
    BY <1>3, <1>9, <1>11
  <2> QED
    BY <1>1, <1>10, <2>1, <2>2, PrefixIsDir
<1>12. ASSUME Len(name) = Len(dir) PROVE s = name
  BY <1>3, <1>9, <1>10, <1>12, SamePath
<1>13. Len(name) = Len(dir) => Last(name) = x
  BY <1>3
<1> HIDE DEF x
<1> QED
  BY <1>8, <1>11, <1>12, <1>13 DEF x

LEMMA LinkFacts ==
  ASSUME NEW url \in URLs, NEW b \in Blob, read_collection(b), NEW dir \in Paths,
         Last(dir) = Blank, NEW l \in Links(url, b, dir)
  PROVE  /\ l.url \in URLs /\ l.shows \in Paths
         /\ l.url.route = url.route /\ l.url.host = url.host
         /\ Resolved(url) /\ IsDir(b, dir) /\ Plain(dir) /\ Plain(l.shows) => Aims(url, b, dir, l)
<1> DEFINE flags == url.flags \cap {"sizes", "listing"}
           crumbs == Segments(dir)
           up == {Append(SubSeq(crumbs, 1, n), Blank) : n \in 1 .. Len(crumbs) - 1}
                   \cup {d \in {EmptyPath, parent(dir)} : dir # EmptyPath}
           down == {Append(Child(dir, s), Blank) : s \in Dirs(b, dir)}
           files == {Child(dir, s) : s \in Files(b, dir)}
<1>1. \/ \E d \in up \cup down : l = [url |-> link(url, d, flags), shows |-> d]
      \/ \E f \in files, g \in {{}, {"download"}} : l = [url |-> link(url, f, g), shows |-> f]
      \/ l = [url |-> [url EXCEPT !.flags = flags \cup {"sizes"}], shows |-> dir]
  <2> HIDE DEF flags, crumbs, up, down, files
  <2>1. Links(url, b, dir) =
          {[url |-> link(url, d, flags), shows |-> d] : d \in up \cup down}
          \cup {[url |-> link(url, f, g), shows |-> f] : f \in files, g \in {{}, {"download"}}}
          \cup IF "sizes" \in flags THEN {}
               ELSE {[url |-> [url EXCEPT !.flags = flags \cup {"sizes"}], shows |-> dir]}
    BY DEF Links, flags, crumbs, up, down, files
  <2> QED
    BY <2>1
<1>2. flags \in SUBSET Flags /\ flags \cup {"sizes"} \in SUBSET Flags /\ {} \in SUBSET Flags
      /\ {"download"} \in SUBSET Flags
  BY DEF Flags
<1>3. ASSUME NEW d \in up PROVE /\ d \in Paths
                                /\ Plain(dir) /\ IsDir(b, dir) => AsDir(d) = d /\ IsDir(b, d)
  <2> HIDE DEF crumbs
  <2>1. crumbs = Segments(dir)
    BY DEF crumbs
  <2> QED
    BY <2>1, UpFacts
<1>4. ASSUME NEW d \in down
      PROVE  /\ d \in Paths
             /\ AsDir(d) = d /\ IsDir(b, d)
  <2>1. PICK name \in Inside(b, dir) :
          Len(name) > Len(dir) /\ d = Append(Child(dir, name[Len(dir)]), Blank)
    BY DEF Dirs
  <2> QED
    BY <2>1, DownFacts
<1>5. ASSUME NEW f \in files PROVE f \in Paths /\ f \in DOMAIN Names[b]
  <2>1. PICK name \in Inside(b, dir) : Len(name) = Len(dir) /\ f = Child(dir, Last(name))
    BY DEF Files
  <2>2. f = name
    BY <2>1, DownFacts
  <2> QED
    BY <2>2, CollectionFacts DEF Inside
<1> HIDE DEF flags, up, down, files
<1>6. ASSUME NEW d \in Paths, NEW g \in SUBSET Flags, l = [url |-> link(url, d, g), shows |-> d]
      PROVE  /\ l.url \in URLs /\ l.shows = d
             /\ l.url.route = url.route /\ l.url.host = url.host
             /\ Plain(l.shows) => l.url.tail = d /\ Resolved(l.url)
  <2>1. l.url = link(url, d, g) /\ l.shows = d
    BY <1>6
  <2> QED
    BY <2>1, LinkIs
<1>7. CASE \E d \in up \cup down : l = [url |-> link(url, d, flags), shows |-> d]
  <2>1. PICK d \in up \cup down : l = [url |-> link(url, d, flags), shows |-> d]
    BY <1>7
  <2>2. /\ d \in Paths
        /\ Plain(dir) /\ IsDir(b, dir) => AsDir(d) = d /\ IsDir(b, d)
    BY <1>3, <1>4
  <2>3. /\ l.url \in URLs /\ l.shows = d
        /\ l.url.route = url.route /\ l.url.host = url.host
        /\ Plain(l.shows) => l.url.tail = d /\ Resolved(l.url)
    BY <1>2, <1>6, <2>1, <2>2
  <2> QED
    BY <2>2, <2>3 DEF Aims
<1>8. CASE \E f \in files, g \in {{}, {"download"}} : l = [url |-> link(url, f, g), shows |-> f]
  <2>1. PICK f \in files, g \in {{}, {"download"}} : l = [url |-> link(url, f, g), shows |-> f]
    BY <1>8
  <2>2. f \in Paths /\ f \in DOMAIN Names[b] /\ g \in SUBSET Flags
    BY <1>2, <1>5
  <2>3. /\ l.url \in URLs /\ l.shows = f
        /\ l.url.route = url.route /\ l.url.host = url.host
        /\ Plain(l.shows) => l.url.tail = f /\ Resolved(l.url)
    BY <1>6, <2>1, <2>2
  <2> QED
    BY <2>2, <2>3 DEF Aims
<1>9. CASE l = [url |-> [url EXCEPT !.flags = flags \cup {"sizes"}], shows |-> dir]
  <2>1. l.shows = dir /\ l.url = [url EXCEPT !.flags = flags \cup {"sizes"}]
    BY <1>9
  <2>2. l.url \in URLs /\ l.url.route = url.route /\ l.url.host = url.host /\ l.url.tail = url.tail
    BY <1>2, <2>1 DEF URLs
  <2> QED
    BY <2>1, <2>2 DEF Aims
<1> QED
  BY <1>1, <1>7, <1>8, <1>9

----------------------------------------------------------------------------
(* Requests and their answers.                                             *)

Requests ==
  [url : {None} \cup URLs, from : {"none", "typed", "link", "redirect"},
   shows : {None} \cup Paths, plain : BOOLEAN, blob : {None} \cup Blob, same : BOOLEAN]

Shape ==
  /\ target \in Targets
  /\ request \in Requests
  /\ "kind" \in DOMAIN response
  /\ request.url = None => response.kind = "elsewhere"
  /\ request.url # None => Resolved(request.url)

\* Kinds of responses that only Route gives.
FromRoute ==
  \/ response.kind \in {"blob", "listing", "redirect"}
  \/ response = NoPath
  \/ response.kind = "elsewhere" /\ request.url # None

\* The response is one of the URL's, and under what the key names if that is as before.
Answered ==
  FromRoute => \E named \in Targets :
    response \in Route(request.url, named) /\ (request.same => named = target)

\* A redirect leads to the path of a directory, or away.
Settled ==
  request.from = "redirect" /\ request.url # None =>
    request.url.tail \in Paths /\ Last(request.url.tail) = Blank

Inv == Shape /\ Answered /\ Settled

LEMMA KnownURL ==
  ASSUME Shape, response.kind # "elsewhere" \/ request.url # None
  PROVE  request.url \in URLs /\ Resolved(request.url)
BY DEF Shape, Requests

\* The answer says what it does of the URL.
LEMMA AnswerNow ==
  ASSUME Inv, FromRoute
  PROVE  \E named \in Targets :
           /\ request.url \in URLs /\ Resolved(request.url)
           /\ response \in Route(request.url, named) /\ (request.same => named = target)
<1>1. response.kind # "elsewhere" \/ request.url # None
  BY NoPathFacts DEF FromRoute
<1> QED
  BY <1>1, KnownURL DEF Inv, Answered

\* The steps of a body change neither the request nor give an answer of a route.
BodyStep ==
  \/ \E size \in Sizes, method \in {"GET", "HEAD"}, has \in BOOLEAN, header \in Headers :
       ServeBlob(size, method, has, header)
  \/ StartPart \/ EndPart \/ EndBody \/ Fail
  \/ \E c \in 0 .. U64Max : Leaf(c)

\* serve_blob's values, and its four ways out.
Chosen(size, method, header) ==
  IF method = "HEAD" \/ header = None THEN Full ELSE select(header, size)
RangesOf(selection, size) ==
  IF selection = Full THEN <<[start |-> 0, end |-> size]>> ELSE selection.ranges
LengthOf(ranges) ==
  IF Len(ranges) > 1 THEN multipart_length(ranges) ELSE ranges[1].end - ranges[1].start
Bodiless(size, method, selection) == method = "HEAD" \/ (selection = Full /\ size = 0)

LEMMA ServeBlobFacts ==
  ASSUME NEW size, NEW method, NEW has \in BOOLEAN, NEW header,
         ServeBlob(size, method, has, header),
         NEW selection, selection = Chosen(size, method, header)
  PROVE  /\ UNCHANGED <<target, request, body, at>> /\ response.kind = "blob"
         /\ size \in sniff(response.blob)
         /\ \/ /\ has /\ response' = Reply(304, "head", response.cache, size, None, size)
               /\ UNCHANGED parts
            \/ /\ selection = Unsatisfiable
               /\ response' = Reply(416, "head", "no-store", size,
                                     IF method = "HEAD" THEN None ELSE header, size)
               /\ UNCHANGED parts
            \/ response' = Error(400) /\ UNCHANGED parts
            \/ /\ selection # Unsatisfiable
               /\ response' = Reply(IF selection = Full THEN 200 ELSE 206,
                    IF Bodiless(size, method, selection) THEN "head" ELSE "sending",
                    response.cache, size, IF method = "HEAD" THEN None ELSE header,
                    LengthOf(RangesOf(selection, size)))
               /\ parts' = IF Bodiless(size, method, selection) THEN <<>>
                           ELSE RangesOf(selection, size)
<1>1. UNCHANGED <<target, request, body, at>> /\ response.kind = "blob" /\ size \in sniff(response.blob)
  BY DEF ServeBlob
<1> DEFINE ranges == RangesOf(selection, size)
           asked == IF method = "HEAD" \/ has THEN None ELSE header
           bodiless == Bodiless(size, method, selection)
<1>2. IF has
      THEN /\ response' = Reply(304, "head", response.cache, size, asked, size)
           /\ UNCHANGED parts
      ELSE IF selection = Unsatisfiable
      THEN /\ response' = Reply(416, "head", "no-store", size, asked, size)
           /\ UNCHANGED parts
      ELSE IF Len(ranges) > 1 /\ LengthOf(ranges) > U64Max
      THEN response' = Error(400) /\ UNCHANGED parts
      ELSE /\ response' = Reply(IF selection = Full THEN 200 ELSE 206,
                                IF bodiless THEN "head" ELSE "sending",
                                response.cache, size, asked, LengthOf(ranges))
           /\ parts' = IF bodiless THEN <<>> ELSE ranges
  BY DEF ServeBlob, Chosen, RangesOf, Bodiless, LengthOf
<1> HIDE DEF ranges, bodiless
<1> QED
  BY <1>1, <1>2 DEF ranges, bodiless

LEMMA BodyStepFacts ==
  ASSUME Shape, BodyStep
  PROVE  /\ UNCHANGED <<target, request>>
         /\ response.kind \in {"blob", "sending"} /\ "kind" \in DOMAIN response'
         /\ response' = response \/ ~FromRoute'
         /\ response'.kind # "blob"
<1>1. ASSUME NEW size \in Sizes, NEW method \in {"GET", "HEAD"}, NEW has \in BOOLEAN,
             NEW header \in Headers, ServeBlob(size, method, has, header)
      PROVE  /\ UNCHANGED <<target, request>> /\ response.kind = "blob"
             /\ "kind" \in DOMAIN response' /\ ~FromRoute' /\ response'.kind # "blob"
  <2> DEFINE selection == Chosen(size, method, header)
  <2>1. /\ UNCHANGED <<target, request>> /\ response.kind = "blob"
        /\ \/ response' = Error(400)
           \/ \E status, cache, asked, length : \E kind \in {"head", "sending"} :
                response' = Reply(status, kind, cache, size, asked, length)
    <3> HIDE DEF selection
    <3> QED
      BY <1>1, ServeBlobFacts
  <2>2. "kind" \in DOMAIN response'
        /\ (response'.kind \in {"head", "sending"} \/ (response'.kind = "error" /\ response'.about = "transfer"))
    <3>1. CASE response' = Error(400)
      BY <3>1 DEF Error
    <3>2. ASSUME NEW status, NEW cache, NEW asked, NEW length, NEW kind \in {"head", "sending"},
                 response' = Reply(status, kind, cache, size, asked, length)
          PROVE  "kind" \in DOMAIN response' /\ response'.kind \in {"head", "sending"}
      BY <3>2 DEF Reply
    <3> QED
      BY <2>1, <3>1, <3>2
  <2> QED
    BY <2>1, <2>2, NoPathFacts DEF FromRoute
<1>2. StartPart \/ EndPart \/ (\E c \in 0 .. U64Max : Leaf(c)) =>
        /\ UNCHANGED <<target, request>> /\ response' = response /\ response.kind = "sending"
  BY DEF StartPart, EndPart, Leaf
<1>3. EndBody =>
        /\ UNCHANGED <<target, request>> /\ response.kind = "sending"
        /\ "kind" \in DOMAIN response' /\ response'.kind = "sent"
  BY DEF EndBody, Shape
<1>4. Fail =>
        /\ UNCHANGED <<target, request>> /\ response.kind = "sending"
        /\ "kind" \in DOMAIN response'
        /\ response'.kind = "cut" \/ (response'.kind = "error" /\ response'.about = "transfer")
  <2> SUFFICES ASSUME Fail
               PROVE  /\ UNCHANGED <<target, request>> /\ response.kind = "sending"
                      /\ "kind" \in DOMAIN response'
                      /\ response'.kind = "cut" \/ (response'.kind = "error" /\ response'.about = "transfer")
    OBVIOUS
  <2>1. /\ UNCHANGED <<target, request>> /\ response.kind = "sending"
        /\ response' \in {Error(502), Error(504)} \/ response' = [response EXCEPT !.kind = "cut"]
    BY DEF Fail
  <2>2. CASE response' \in {Error(502), Error(504)}
    BY <2>1, <2>2 DEF Error
  <2>3. CASE response' = [response EXCEPT !.kind = "cut"]
    <3>1. "kind" \in DOMAIN response
      BY DEF Shape
    <3>2. "kind" \in DOMAIN response' /\ response'.kind = "cut"
      BY <2>3, <3>1, Zenon
    <3> QED
      BY <2>1, <3>2
  <2> QED
    BY <2>1, <2>2, <2>3
<1>5. CASE \E size \in Sizes, method \in {"GET", "HEAD"}, has \in BOOLEAN, header \in Headers :
             ServeBlob(size, method, has, header)
  BY <1>1, <1>5
<1>6. CASE StartPart \/ EndPart \/ (\E c \in 0 .. U64Max : Leaf(c))
  BY <1>2, <1>6 DEF Shape
<1>7. CASE EndBody
  BY <1>3, <1>7, NoPathFacts DEF FromRoute
<1>8. CASE Fail
  BY <1>4, <1>8, NoPathFacts DEF FromRoute
<1> QED
  BY <1>5, <1>6, <1>7, <1>8 DEF BodyStep

LEMMA InitInv == ASSUME Init PROVE Inv
<1>1. request \in Requests
  BY DEF Init, Requests
<1>2. "kind" \in DOMAIN response /\ response.kind = "elsewhere"
  BY DEF Init, Elsewhere, Pending
<1>3. /\ target \in Targets /\ request.from = "none" /\ request.url = None
  BY DEF Init
<1> QED
  BY <1>1, <1>2, <1>3, NoPathFacts DEF Inv, Shape, Answered, FromRoute, Settled

\* A new request has no answer yet.
LEMMA AskInv ==
  ASSUME Shape, NEW new \in Requests, new.url \in URLs, Ask(new),
         new.from = "redirect" => new.url.tail \in Paths /\ Last(new.url.tail) = Blank
  PROVE  Inv'
<1> DEFINE url == Browsed(new.url)
<1>1. request' = [new EXCEPT !.url = url] /\ target' = target
  BY DEF Ask
<1>2. /\ "kind" \in DOMAIN response' /\ response'.kind \in {"pending", "elsewhere"}
      /\ url = None <=> response'.kind = "elsewhere"
  BY DEF Ask, Pending, Elsewhere
<1>3. /\ url \in URLs \cup {None} /\ (url # None => Resolved(url))
      /\ new.from = "redirect" /\ url # None => url.tail \in Paths /\ Last(url.tail) = Blank
  BY BrowsedFacts
<1> HIDE DEF url
<1>4. request' \in Requests /\ request'.url = url /\ request'.from = new.from
  BY <1>1, <1>3 DEF Requests
<1>5. Shape'
  BY <1>1, <1>2, <1>3, <1>4 DEF Shape
<1>6. ~FromRoute'
  BY <1>2, <1>4, NoPathFacts DEF FromRoute
<1>7. Answered' /\ Settled'
  BY <1>3, <1>4, <1>6 DEF Answered, Settled
<1> QED
  BY <1>5, <1>7 DEF Inv

\* What is known when a listing's link is followed.
LEMMA ListingNow ==
  ASSUME Inv, response.kind = "listing"
  PROVE  /\ request.url \in URLs /\ Resolved(request.url) /\ response.blob \in Blob /\ read_collection(response.blob)
         /\ response.dir \in Paths /\ Last(response.dir) = Blank
         /\ response.dir = AsDir(Place(request.url)) /\ IsDir(response.blob, response.dir)
         /\ Unchanged => response.blob = RootOf(request.url, target)
<1>1. FromRoute
  BY DEF FromRoute
<1>2. PICK named \in Targets :
        /\ request.url \in URLs /\ Resolved(request.url)
        /\ response \in Route(request.url, named) /\ (request.same => named = target)
  BY <1>1, AnswerNow
<1> DEFINE b == RootOf(request.url, named)
<1>3. b \in Blob /\ SaysListing(request.url, b, response)
  BY <1>2, AnswerFacts
<1>4. Place(request.url) \in Paths
  BY <1>2, PlaceFacts
<1>5. AsDir(Place(request.url)) \in Paths /\ Last(AsDir(Place(request.url))) = Blank
  BY <1>4, AsDirFacts
<1>6. Unchanged => b = RootOf(request.url, target)
  BY <1>2, NoneFacts DEF Unchanged, RootOf
<1> HIDE DEF b
<1> QED
  BY <1>2, <1>3, <1>5, <1>6 DEF SaysListing

\* And when a redirect is.
LEMMA RedirectNow ==
  ASSUME Inv, response.kind = "redirect"
  PROVE  /\ request.url \in URLs /\ Place(request.url) \in Paths
         /\ response.to = link(rewrite(request.url), AsDir(Place(request.url)), request.url.flags)
         /\ response.to \in URLs /\ response.to.tail \in Paths /\ Last(response.to.tail) = Blank
         /\ Plain(AsDir(Place(request.url))) =>
              response.to.tail = AsDir(Place(request.url)) /\ Resolved(response.to)
         /\ response.to.route = request.url.route
         /\ \E named \in Targets :
              /\ RootOf(request.url, named) \in Blob
              /\ IsDir(RootOf(request.url, named), AsDir(Place(request.url)))
              /\ Unchanged => RootOf(request.url, named) = RootOf(request.url, target)
         /\ request.url.tail = None \/ Last(request.url.tail) # Blank
<1>1. FromRoute
  BY DEF FromRoute
<1>2. PICK named \in Targets :
        /\ request.url \in URLs
        /\ response \in Route(request.url, named) /\ (request.same => named = target)
  BY <1>1, AnswerNow
<1> DEFINE b == RootOf(request.url, named)
           u == request.url
           d == AsDir(Place(u))
<1>3. b \in Blob /\ SaysRedirect(u, b, response)
  BY <1>2, AnswerFacts
<1>4. Place(u) \in Paths /\ d \in Paths /\ Last(d) = Blank
  BY <1>2, PlaceFacts, AsDirFacts
<1>5. Unchanged => b = RootOf(request.url, target)
  BY <1>2, NoneFacts DEF Unchanged, RootOf
<1>6. rewrite(u) \in URLs /\ rewrite(u).route = u.route /\ u.flags \in SUBSET Flags
  BY <1>2, UrlFacts DEF URLs
<1>7. response.to = link(rewrite(u), d, u.flags) /\ IsDir(b, d) /\ (u.tail = None \/ Last(u.tail) # Blank)
  BY <1>3 DEF SaysRedirect
<1> HIDE DEF d, b
<1>8. /\ response.to \in URLs /\ response.to.tail \in Paths /\ Last(response.to.tail) = Blank
      /\ response.to.route = u.route
      /\ Plain(d) => response.to.tail = d /\ Resolved(response.to)
  BY <1>4, <1>6, <1>7, LinkIs
<1> QED
  BY <1>2, <1>3, <1>4, <1>5, <1>7, <1>8 DEF d, b

LEMMA NextInv == ASSUME Inv, [Next]_vars PROVE Inv'
<1>0. Shape /\ target \in Targets /\ request \in Requests
  BY DEF Inv, Shape
<1>1. ASSUME NEW url \in Typed, Type(url) PROVE Inv'
  <2> DEFINE new == [url |-> url, from |-> "typed", shows |-> None, plain |-> TRUE, blob |-> None,
                     same |-> TRUE]
  <2>1. Ask(new)
    BY <1>1 DEF Type
  <2>2. new \in Requests /\ new.url \in URLs /\ new.from # "redirect"
    BY TypedAssumption DEF Requests
  <2> HIDE DEF new
  <2> QED
    BY <1>0, <2>1, <2>2, AskInv
<1>2. ASSUME NEW l, Follow(l) PROVE Inv'
  <2> DEFINE new == [url |-> l.url, from |-> "link", shows |-> l.shows,
                     plain |-> Plain(response.dir) /\ Plain(l.shows), blob |-> response.blob,
                     same |-> request.same]
  <2>1. Ask(new) /\ response.kind = "listing" /\ l \in Links(request.url, response.blob, response.dir)
    BY <1>2 DEF Follow
  <2>2. response.blob \in Blob /\ l.url \in URLs /\ l.shows \in Paths
    BY <2>1, ListingNow, LinkFacts
  <2>3. new \in Requests /\ new.url \in URLs /\ new.from # "redirect"
    BY <1>0, <2>2 DEF Requests
  <2> HIDE DEF new
  <2> QED
    BY <1>0, <2>1, <2>3, AskInv
<1>3. ASSUME FollowRedirect PROVE Inv'
  <2> DEFINE new == [request EXCEPT !.url = response.to, !.from = "redirect"]
  <2>1. Ask(new) /\ response.kind = "redirect"
    BY <1>3 DEF FollowRedirect
  <2>2. response.to \in URLs
    BY <2>1, RedirectNow
  <2>3. response.to.tail \in Paths /\ Last(response.to.tail) = Blank
    BY <2>1, RedirectNow
  <2>4. new \in Requests /\ new.url = response.to
    BY <1>0, <2>2 DEF Requests
  <2> HIDE DEF new
  <2> QED
    BY <1>0, <2>1, <2>2, <2>3, <2>4, AskInv
<1>4. ASSUME NEW b \in Targets, Retarget(b) PROVE Inv'
  <2>1. /\ target' = b /\ request' = [request EXCEPT !.same = FALSE] /\ response' = response
    BY <1>4 DEF Retarget
  <2>2. request' \in Requests /\ request'.url = request.url /\ request'.blob = request.blob
        /\ request'.from = request.from /\ request'.same = FALSE
    BY <1>0, <2>1 DEF Requests
  <2>3. Shape'
    BY <1>0, <2>1, <2>2 DEF Shape
  <2>4. Answered'
    BY <2>1, <2>2 DEF Inv, Answered, FromRoute
  <2>5. Settled'
    BY <2>2 DEF Inv, Settled
  <2> QED
    BY <2>3, <2>4, <2>5 DEF Inv
<1>5. ASSUME NEW r, Respond(r) PROVE Inv'
  <2>1. /\ response.kind = "pending" /\ r \in Route(request.url, target) /\ response' = r
        /\ target' = target /\ request' = request
    BY <1>5 DEF Respond
  <2>2. request.url \in URLs
    BY <1>0, <2>1, KnownURL
  <2>3. "kind" \in DOMAIN r
    BY <1>0, <2>1, <2>2, AnswerFacts
  <2>4. Shape'
    BY <1>0, <2>1, <2>2, <2>3, NoneFacts DEF Shape
  <2>5. Answered'
    BY <1>0, <2>1 DEF Answered
  <2>6. Settled'
    BY <2>1 DEF Inv, Settled
  <2> QED
    BY <2>4, <2>5, <2>6 DEF Inv
<1>6. ASSUME BodyStep PROVE Inv'
  <2>1. /\ target' = target /\ request' = request /\ response.kind # "elsewhere"
        /\ "kind" \in DOMAIN response' /\ (response' = response \/ ~FromRoute')
    BY <1>0, <1>6, BodyStepFacts
  <2>2. request.url # None
    BY <1>0, <2>1 DEF Shape
  <2>3. Shape'
    BY <1>0, <2>1, <2>2 DEF Shape
  <2>4. Answered'
    <3>1. CASE ~FromRoute'
      BY <3>1 DEF Answered
    <3>2. CASE response' = response
      BY <2>1, <3>2 DEF Inv, Answered, FromRoute
    <3> QED
      BY <2>1, <3>1, <3>2
  <2>5. Settled'
    BY <2>1 DEF Inv, Settled
  <2> QED
    BY <2>3, <2>4, <2>5 DEF Inv
<1>7. CASE UNCHANGED vars
  BY <1>7 DEF vars, Inv, Shape, Answered, FromRoute, Settled
<1> QED
  BY <1>1, <1>2, <1>3, <1>4, <1>5, <1>6, <1>7 DEF Next, BodyStep

LEMMA AlwaysInv == Spec => []Inv
BY InitInv, NextInv, PTL DEF Spec
----------------------------------------------------------------------------
(* Responses that are kept for good.                                       *)

\* A hash with a path has one answer besides errors, whatever the key names.
LEMMA OneAnswer ==
  ASSUME NEW url \in URLs, url.route = "blake3", rewrite(url).tail # None,
         NEW named \in Targets, NEW r \in Route(url, named)
  PROVE  r.kind = "error" \/ r = collection_entry(rewrite(url), Label, Place(url))
<1>1. RootOf(url, named) = Label /\ Label # None
  BY BlobsAssumption, NoneFacts DEF RootOf
<1>2. ~AtRoot(url)
  BY DEF AtRoot
<1>3. url.tail # None
  BY UrlFacts
<1>4. \/ Failed(r)
      \/ \E u \in {None, Place(url)} :
           r = collection_entry(rewrite(url), Label, u) /\ (u = None => url.tail = None)
  BY <1>1, <1>2, RouteFacts
<1> QED
  BY <1>3, <1>4 DEF Failed

\* What a browser may keep for good never changes, for every collection, every URL, whatever
\* the key names and the provider does (Caching::header, collection_entry, serve_path).
THEOREM KeptNeverChanges == Spec => []ImmutableNeverChanges
<1>1. ASSUME Inv PROVE ImmutableNeverChanges
  <2> SUFFICES ASSUME Kept, rewrite(request.url).tail # None,
                      NEW other \in Targets, NEW r \in Route(request.url, other)
               PROVE  r.kind = "error" \/ r = response
    BY DEF ImmutableNeverChanges, OneResponse
  <2> DEFINE u == request.url
  <2>1. FromRoute /\ response.cache = "immutable" /\ response.kind \in {"blob", "redirect"}
    BY DEF Kept, FromRoute
  <2>2. PICK named \in Targets : u \in URLs /\ response \in Route(u, named)
    BY <1>1, <2>1, AnswerNow
  <2>3. response.cache = Caching(rewrite(u))
    BY <2>1, <2>2, AnswerFacts DEF SaysBlob, SaysRedirect
  <2>4. u.route = "blake3"
    BY <2>1, <2>2, <2>3, UrlFacts DEF Caching
  <2> HIDE DEF u
  <2>5. rewrite(u).tail # None /\ r \in Route(u, other)
    BY DEF u
  <2>6. response = collection_entry(rewrite(u), Label, Place(u))
    BY <2>1, <2>2, <2>4, <2>5, OneAnswer
  <2>7. r.kind = "error" \/ r = collection_entry(rewrite(u), Label, Place(u))
    BY <2>2, <2>4, <2>5, OneAnswer
  <2> QED
    BY <2>6, <2>7
<1> QED
  BY <1>1, AlwaysInv, PTL

----------------------------------------------------------------------------
(* Links and redirects.                                                    *)

\* What a link shows is at the path of its URL: a file, or a directory with or without slash.
Leads(b, path, shows) ==
  \/ path = shows /\ shows \in DOMAIN Names[b]
  \/ AsDir(path) = AsDir(shows) /\ IsDir(b, AsDir(shows))

Aimed ==
  request.blob # None /\ Unchanged /\ request.plain =>
    /\ request.url \in URLs /\ request.shows \in Paths /\ Plain(request.shows)
    /\ request.blob \in Blob /\ read_collection(request.blob)
    /\ request.blob = RootOf(request.url, target)
    /\ Leads(request.blob, Place(request.url), request.shows)

LEMMA SamePlace ==
  ASSUME NEW u \in URLs, NEW v \in URLs, u.tail = v.tail, u.host = v.host, u.route = v.route
  PROVE  Place(u) = Place(v)
<1>1. rewrite(u).tail = rewrite(v).tail
  BY DEF rewrite, URLs
<1>2. AtRoot(u) <=> AtRoot(v)
  BY <1>1 DEF AtRoot
<1> QED
  BY <1>1, <1>2 DEF Place

LEMMA BelowFacts ==
  ASSUME NEW b \in Blob, read_collection(b), NEW p \in Paths, NEW name \in DOMAIN Names[b]
  PROVE  /\ Below(p, name) => name \in Inside(b, AsDir(p))
         /\ name \in Inside(b, AsDir(p)) /\ Last(p) # Blank => Below(p, name)
<1>1. name \in Paths
  BY CollectionFacts
<1>2. /\ name \in Seq(Segment) /\ Len(name) \in Nat /\ Len(p) \in Nat \ {0} /\ p \in Seq(Segment)
  BY <1>1, PathFacts
<1>3. Below(p, name) <=> Len(name) > Len(p) /\ \A i \in 1 .. Len(p) : name[i] = p[i]
  <2> DEFINE n == Len(p)
             s == SubSeq(name, 1, n)
  <2>1. ASSUME Len(name) > n
        PROVE  s = p <=> \A i \in 1 .. n : name[i] = p[i]
    <3>1. 1 \in 1 .. Len(name) + 1 /\ n \in 1 - 1 .. Len(name) /\ n \in Nat
      BY <1>2, <2>1
    <3>2. s \in Seq(Segment) /\ Len(s) = n - 1 + 1 /\ \A i \in 1 .. n - 1 + 1 : s[i] = name[1 + i - 1]
      <4> HIDE DEF n
      <4> QED
        BY <1>2, <3>1, SubSeqIs
    <3> HIDE DEF s
    <3>3. Len(s) = n /\ \A i \in 1 .. n : s[i] = name[i]
      BY <3>1, <3>2
    <3>4. (\A i \in 1 .. n : name[i] = p[i]) => s = p
      BY <1>2, <3>2, <3>3, SamePath
    <3>5. s = p => \A i \in 1 .. n : name[i] = p[i]
      BY <3>3
    <3> QED
      BY <3>4, <3>5
  <2> QED
    BY <2>1 DEF Below
<1> DEFINE d == AsDir(p)
<1>4. /\ d \in Paths /\ Len(d) >= Len(p) /\ Len(d) \in Nat /\ Len(d) <= Len(p) + 1
      /\ \A i \in 1 .. Len(p) : d[i] = p[i]
      /\ Last(p) # Blank => Len(d) = Len(p) + 1
  <2>1. CASE Last(p) = Blank
    BY <1>2, <2>1 DEF AsDir
  <2>2. CASE Last(p) # Blank
    BY <1>2, <2>2, AppendFacts, StringsAssumption DEF AsDir
  <2> QED
    BY <2>1, <2>2
<1> HIDE DEF d
<1>5. name \in Inside(b, d) <=> Len(name) >= Len(d) /\ \A i \in 1 .. Len(d) - 1 : name[i] = d[i]
  BY <1>4, InsideFacts
<1>6. ASSUME Below(p, name) PROVE name \in Inside(b, d)
  BY <1>2, <1>3, <1>4, <1>5, <1>6
<1>7. ASSUME name \in Inside(b, d), Last(p) # Blank PROVE Below(p, name)
  BY <1>2, <1>3, <1>4, <1>5, <1>7
<1> QED
  BY <1>6, <1>7 DEF d

LEMMA AimedNext ==
  ASSUME Inv, Aimed, [Next]_vars
  PROVE  Aimed'
<1>0. Shape /\ target \in Targets /\ request \in Requests
  BY DEF Inv, Shape
<1>1. ASSUME NEW url \in Typed, Type(url) PROVE Aimed'
  BY <1>1 DEF Type, Ask, Aimed
<1>2. ASSUME NEW l, Follow(l) PROVE Aimed'
  <2> DEFINE u == request.url
             b == response.blob
             dir == response.dir
  <2>1. /\ response.kind = "listing" /\ l \in Links(u, b, dir)
        /\ request'.url = Browsed(l.url) /\ request'.shows = l.shows /\ request'.blob = b
        /\ request'.same = request.same /\ target' = target
        /\ request'.plain = (Plain(dir) /\ Plain(l.shows))
    BY <1>2 DEF Follow, Ask
  <2>2. /\ u \in URLs /\ Resolved(u) /\ b \in Blob /\ read_collection(b) /\ dir \in Paths /\ Last(dir) = Blank
        /\ dir = AsDir(Place(u)) /\ IsDir(b, dir) /\ (Unchanged => b = RootOf(u, target))
    BY <2>1, ListingNow
  <2> HIDE DEF b, dir
  <2>3. SUFFICES ASSUME request'.plain PROVE Aimed'
    BY DEF Aimed
  <2>4. /\ l.url \in URLs /\ l.shows \in Paths /\ l.url.route = u.route /\ l.url.host = u.host
        /\ Aims(u, b, dir, l) /\ Plain(l.shows)
    <3>1. Plain(dir) /\ Plain(l.shows)
      BY <2>1, <2>3, Zenon
    <3> QED
      BY <2>1, <2>2, <3>1, LinkFacts
  <2>8. request'.url = l.url
    <3>1. Resolved(l.url)
      BY <2>4 DEF Aims, Resolved
    <3> QED
      BY <2>1, <2>4, <3>1, BrowsedFacts
  <2>5. Leads(b, Place(l.url), l.shows)
    <3>1. CASE /\ l.url.tail = l.shows /\ Resolved(l.url)
               /\ l.shows \in DOMAIN Names[b] \/ (AsDir(l.shows) = l.shows /\ IsDir(b, l.shows))
      <4>1. Place(l.url) = l.shows
        BY <2>4, <3>1, PlainFacts, PlaceFacts
      <4> QED
        BY <3>1, <4>1 DEF Leads
    <3>2. CASE l.url.tail = u.tail /\ Resolved(u) /\ l.shows = dir
      <4>1. Place(l.url) = Place(u)
        BY <2>2, <2>4, <3>2, SamePlace
      <4>2. AsDir(dir) = dir
        BY <2>2 DEF AsDir
      <4> QED
        BY <2>2, <3>2, <4>1, <4>2 DEF Leads
    <3> QED
      BY <2>4, <3>1, <3>2 DEF Aims
  <2>6. Unchanged' => Unchanged /\ RootOf(l.url, target) = RootOf(u, target)
    BY <2>1, <2>2, <2>4, <2>8, NoneFacts DEF Unchanged, RootOf
  <2> QED
    BY <2>1, <2>2, <2>4, <2>5, <2>6, <2>8 DEF Aimed
<1>3. ASSUME FollowRedirect PROVE Aimed'
  <2> DEFINE u == request.url
             b == request.blob
             p == Place(u)
             d == AsDir(p)
  <2>1. /\ response.kind = "redirect"
        /\ request'.url = Browsed(response.to) /\ request'.plain = request.plain
        /\ request'.shows = request.shows /\ request'.blob = b
        /\ request'.same = request.same /\ target' = target
    BY <1>0, <1>3 DEF FollowRedirect, Ask, Requests
  <2>2. PICK named \in Targets :
        /\ u \in URLs /\ p \in Paths /\ response.to \in URLs /\ response.to.route = u.route
        /\ Plain(d) => response.to.tail = d /\ Resolved(response.to)
        /\ RootOf(u, named) \in Blob /\ IsDir(RootOf(u, named), d)
        /\ Unchanged => RootOf(u, named) = RootOf(u, target)
    BY <2>1, RedirectNow
  <2>3. request'.url # None => Browsed(response.to).route = u.route
    BY <2>1, <2>2 DEF Browsed, URLs
  <2>4. ASSUME b # None, Unchanged, request.plain
        PROVE  /\ request.shows \in Paths /\ b \in Blob /\ read_collection(b)
               /\ b = RootOf(u, target) /\ Leads(b, p, request.shows) /\ Plain(request.shows)
    BY <2>4 DEF Aimed
  <2>5. ASSUME b # None, Unchanged, request.plain PROVE Plain(d)
    <3>1. d = AsDir(request.shows)
      BY <2>4, <2>5 DEF Leads
    <3> QED
      BY <2>4, <2>5, <3>1, PlainFacts
  <2>6. ASSUME b # None, Unchanged, request.plain
        PROVE  /\ request'.url = response.to /\ RootOf(response.to, target) = RootOf(u, target)
               /\ Leads(b, Place(response.to), request.shows)
    <3>1. Plain(d) /\ IsDir(b, d) /\ response.to.tail = d /\ Resolved(response.to)
      BY <2>2, <2>4, <2>5, <2>6
    <3>2. d \in Paths /\ Last(d) = Blank /\ AsDir(d) = d
      BY <2>2, AsDirFacts
    <3>3. request'.url = response.to /\ RootOf(response.to, target) = RootOf(u, target)
      BY <2>1, <2>2, <3>1, BrowsedFacts DEF RootOf
    <3>4. d = AsDir(p)
      OBVIOUS
    <3> HIDE DEF d, p, b, u
    <3>5. Place(response.to) = d
      BY <2>2, <3>1, <3>2, PlainFacts, PlaceFacts
    <3>6. Leads(b, d, request.shows)
      BY <2>4, <2>6, <3>1, <3>2, <3>4 DEF Leads
    <3> QED
      BY <3>3, <3>5, <3>6
  <2>7. Unchanged' => Unchanged
    BY <2>1, <2>2, <2>3, NoneFacts DEF Unchanged
  <2> QED
    BY <2>1, <2>2, <2>4, <2>6, <2>7 DEF Aimed
<1>4. ASSUME NEW b \in Targets, Retarget(b) PROVE Aimed'
  <2>1. /\ target' = b /\ request' = [request EXCEPT !.same = FALSE]
    BY <1>4 DEF Retarget
  <2>2. request'.url = request.url /\ request'.blob = request.blob /\ request'.shows = request.shows
        /\ request'.same = FALSE
    BY <1>0, <2>1 DEF Requests
  <2>3. SUFFICES ASSUME request.blob # None, Unchanged', request.plain PROVE Aimed'
    BY <1>0, <2>1, <2>2 DEF Aimed, Requests
  <2>4. Unchanged /\ request.url # None /\ request.url.route = "blake3"
    BY <2>2, <2>3 DEF Unchanged
  <2>5. request.url \in URLs /\ request.url.route = "blake3"
    BY <2>3, <2>4, NoneFacts DEF Aimed
  <2>6. request'.plain = request.plain
    BY <1>0, <2>1 DEF Requests
  <2> QED
    BY <2>1, <2>2, <2>3, <2>4, <2>5, <2>6 DEF Aimed, RootOf
<1>5. ASSUME (\E r : Respond(r)) \/ BodyStep \/ UNCHANGED vars PROVE Aimed'
  <2>1. target' = target /\ request' = request
    <3>1. CASE \E r : Respond(r)
      BY <3>1 DEF Respond
    <3>2. CASE BodyStep
      BY <1>0, <3>2, BodyStepFacts
    <3>3. CASE UNCHANGED vars
      BY <3>3 DEF vars
    <3> QED
      BY <1>5, <3>1, <3>2, <3>3
  <2> QED
    BY <2>1 DEF Aimed, Unchanged
<1> QED
  BY <1>1, <1>2, <1>3, <1>4, <1>5 DEF Next, BodyStep

LEMMA LinksNow ==
  ASSUME Inv, Aimed
  PROVE  LinksLead
<1> DEFINE u == request.url
           b == request.blob
           p == Place(u)
           shows == request.shows
           dir == AsDir(shows)
<1>1. request.from = "redirect" /\ Unchanged => response.kind # "redirect"
  <2> SUFFICES ASSUME request.from = "redirect", response.kind = "redirect" PROVE FALSE
    OBVIOUS
  <2>0. u # None
    BY DEF Inv, Shape
  <2>1. u.tail \in Paths /\ Last(u.tail) = Blank
    BY <2>0 DEF Inv, Settled
  <2> QED
    BY <2>1, RedirectNow, NoneFacts
<1>2. ASSUME b # None, Unchanged, request.plain, dir \notin DOMAIN Names[b]
      PROVE  /\ response.kind # "elsewhere" /\ response # NoPath
             /\ response.kind = "listing" => response.dir = dir
             /\ response.kind = "blob" =>
                  \/ shows \in DOMAIN Names[b] /\ response.blob = Names[b][shows]
                  \/ Index(dir) \in DOMAIN Names[b] /\ response.blob = Names[b][Index(dir)]
                  \/ dir = EmptyPath /\ response.blob = b
  <2>1. /\ u \in URLs /\ shows \in Paths /\ b \in Blob /\ read_collection(b)
        /\ b = RootOf(u, target) /\ Leads(b, p, shows)
    BY <1>2 DEF Aimed
  <2>2. p \in Paths /\ DOMAIN Names[b] \subseteq Paths
    BY <2>1, PlaceFacts, CollectionFacts
  <2> SUFFICES ASSUME FromRoute
               PROVE  /\ response.kind # "elsewhere" /\ response # NoPath
                      /\ response.kind = "listing" => response.dir = dir
                      /\ response.kind = "blob" =>
                           \/ shows \in DOMAIN Names[b] /\ response.blob = Names[b][shows]
                           \/ Index(dir) \in DOMAIN Names[b] /\ response.blob = Names[b][Index(dir)]
                           \/ dir = EmptyPath /\ response.blob = b
    BY <2>1, NoneFacts DEF FromRoute
  <2>3. PICK named \in Targets :
          response \in Route(u, named) /\ (request.same => named = target)
    BY AnswerNow
  <2>4. b = RootOf(u, named)
    BY <1>2, <2>1, <2>3, NoneFacts DEF Unchanged, RootOf
  <2>5. /\ response.kind = "blob" => SaysBlob(u, b, response)
        /\ response.kind = "listing" => SaysListing(u, b, response)
        /\ response.kind # "elsewhere"
        /\ response = NoPath => ~IsFile(b, p) /\ ~IsDir(b, AsDir(p))
    <3> HIDE DEF b
    <3> QED
      BY <1>2, <2>1, <2>3, <2>4, NoneFacts, AnswerFacts
  <2> HIDE DEF u, b, p, shows, dir
  <2>6. AsDir(p) = dir
    BY <2>1 DEF Leads, dir
  <2>7. IsFile(b, p) \/ IsDir(b, AsDir(p))
    <3>1. CASE p = shows /\ shows \in DOMAIN Names[b]
      <4>1. ASSUME NEW name \in DOMAIN Names[b], Below(p, name) PROVE IsDir(b, AsDir(p))
        BY <2>1, <2>2, <4>1, BelowFacts DEF IsDir
      <4> QED
        BY <3>1, <4>1 DEF IsFile
    <3>2. CASE AsDir(p) = AsDir(shows) /\ IsDir(b, AsDir(shows))
      BY <3>2
    <3> QED
      BY <2>1, <3>1, <3>2 DEF Leads
  <2>8. ASSUME IsFile(b, p) PROVE p = shows
    <3> SUFFICES ASSUME AsDir(p) = AsDir(shows), IsDir(b, AsDir(shows)) PROVE FALSE
      BY <2>1 DEF Leads
    <3>1. p \in DOMAIN Names[b] /\ p \in Paths /\ Len(p) \in Nat \ {0} /\ DOMAIN p = 1 .. Len(p)
          /\ Last(p) = p[Len(p)]
      BY <2>2, <2>8, PathFacts DEF IsFile
    <3>2. Last(p) # Blank
      BY <1>2, <2>6, <3>1 DEF AsDir
    <3>3. p # EmptyPath
      BY <3>2, EmptyPathFacts
    <3>4. AsDir(p) # EmptyPath
      BY <3>1, <3>3, AsDirFacts
    <3>5. PICK name \in Inside(b, AsDir(p)) : TRUE
      BY <3>4 DEF IsDir
    <3>6. name \in DOMAIN Names[b]
      BY <3>5 DEF Inside
    <3>7. Below(p, name)
      BY <2>1, <2>2, <3>2, <3>5, <3>6, BelowFacts
    <3> QED
      BY <2>8, <3>6, <3>7 DEF IsFile
  <2>9. AtRoot(u) => dir = EmptyPath
    <3>1. AtRoot(u) => p = EmptyPath
      BY DEF Place, p
    <3>2. AsDir(EmptyPath) = EmptyPath
      BY EmptyPathFacts DEF AsDir
    <3> QED
      BY <2>6, <3>1, <3>2
  <2>10. response.kind = "blob" =>
           \/ shows \in DOMAIN Names[b] /\ response.blob = Names[b][shows]
           \/ Index(dir) \in DOMAIN Names[b] /\ response.blob = Names[b][Index(dir)]
           \/ dir = EmptyPath /\ response.blob = b
    <3> SUFFICES ASSUME response.kind = "blob"
                 PROVE  \/ shows \in DOMAIN Names[b] /\ response.blob = Names[b][shows]
                        \/ Index(dir) \in DOMAIN Names[b] /\ response.blob = Names[b][Index(dir)]
                        \/ dir = EmptyPath /\ response.blob = b
      OBVIOUS
    <3>1. \/ AtRoot(u) /\ response.blob = b
          \/ IsFile(b, p) /\ response.blob = Names[b][p]
          \/ Index(AsDir(p)) \in DOMAIN Names[b] /\ response.blob = Names[b][Index(AsDir(p))]
      BY <2>5 DEF SaysBlob, p
    <3> QED
      BY <2>6, <2>8, <2>9, <3>1 DEF IsFile
  <2>11. response.kind = "listing" => response.dir = dir
    BY <2>5, <2>6 DEF SaysListing, p
  <2> QED
    BY <2>5, <2>7, <2>10, <2>11
<1>3. Index(dir) = Child(dir, "index.html")
  BY DEF Index
<1> HIDE DEF dir
<1> QED
  BY <1>1, <1>2, <1>3 DEF LinksLead, dir

\* The links of a listing lead to what they show, and a redirect to no other one, for every
\* collection, at every depth and from every URL, as far as no segment of the path shown or
\* of the listing's own is one that a browser resolves or that is empty, and no file has the
\* name of the directory with its slash (listing, Root::link, collection_entry, Entries::new).
THEOREM LinksLeadThere == Spec => []LinksLead
<1>1. Init => Aimed
  BY DEF Init, Aimed
<1>2. Inv /\ Aimed /\ [Next]_vars => Aimed'
  BY AimedNext
<1>3. Inv /\ Aimed => LinksLead
  BY LinksNow
<1> QED
  BY <1>1, <1>2, <1>3, AlwaysInv, PTL DEF Spec
----------------------------------------------------------------------------
(* Ranges.                                                                 *)

\* The ranges within a size that are not empty.
Spans(size) == {r \in [start : Nat, end : Nat] : r.start < r.end /\ r.end <= size}
Gaps(ranges) == \A i \in 2 .. Len(ranges) : ranges[i - 1].end < ranges[i].start
Span(r) == r.start .. r.end - 1

LEMMA BytesFacts ==
  ASSUME NEW ranges, NEW x
  PROVE  x \in Bytes(ranges) <=> \E i \in DOMAIN ranges : x \in Span(ranges[i])
BY DEF Bytes, Span

LEMMA SpanFacts ==
  ASSUME NEW size \in Nat, NEW r \in Spans(size)
  PROVE  /\ r.start \in Nat /\ r.end \in Nat /\ r.start < r.end /\ r.end <= size
         /\ \A x : x \in Span(r) <=> x \in Int /\ r.start <= x /\ x < r.end
<1>1. r.start \in Nat /\ r.end \in Nat /\ r.start < r.end /\ r.end <= size
  BY DEF Spans
<1> QED
  BY <1>1 DEF Span

LEMMA NewSpan ==
  ASSUME NEW size \in Nat, NEW m \in Nat, NEW n \in Nat, m < n, n <= size
  PROVE  /\ [start |-> m, end |-> n] \in Spans(size)
         /\ [start |-> m, end |-> n].start = m /\ [start |-> m, end |-> n].end = n
BY DEF Spans

LEMMA KindsDiffer ==
  ASSUME NEW ranges
  PROVE  /\ Full # Unsatisfiable /\ Full # Partial(ranges) /\ Unsatisfiable # Partial(ranges)
         /\ Full.kind = "full" /\ Unsatisfiable.kind = "unsatisfiable"
         /\ Partial(ranges).kind = "partial" /\ Partial(ranges).ranges = ranges
<1>1. Full.kind = "full" /\ Unsatisfiable.kind = "unsatisfiable" /\ Partial(ranges).kind = "partial"
      /\ Partial(ranges).ranges = ranges
  BY DEF Full, Unsatisfiable, Partial
<1> QED
  BY <1>1

\* A part of the header gives the bytes that it names, or none if it names none.
LEMMA SingleFacts ==
  ASSUME NEW part \in Parts, NEW size \in Sizes
  PROVE  \/ single(part, size) = Full
         \/ single(part, size) = Unsatisfiable /\ WellFormed(part) /\ Named(part, size) = {}
         \/ \E r \in Spans(size) :
              single(part, size) = Partial(<<r>>) /\ WellFormed(part) /\ Named(part, size) = Span(r)
<1>1. size \in Nat /\ size < U64Max /\ U64Max \in Nat /\ Empty \notin Nat
  BY RangesAssumption DEF Sizes
<1>2. CASE part = Malformed \/ part = <<Empty, Empty>>
  BY <1>2 DEF single
<1>3. ASSUME part # Malformed, part # <<Empty, Empty>>
      PROVE  \/ single(part, size) = Full
             \/ single(part, size) = Unsatisfiable /\ WellFormed(part) /\ Named(part, size) = {}
             \/ \E r \in Spans(size) :
                  single(part, size) = Partial(<<r>>) /\ WellFormed(part) /\ Named(part, size) = Span(r)
  <2>1. PICK m \in Numbers, n \in Numbers : part = <<m, n>>
    BY <1>3 DEF Parts
  <2>2. part[1] = m /\ part[2] = n /\ ~ (m = Empty /\ n = Empty)
    BY <1>3, <2>1
  <2>3. (m = Empty \/ m \in 0 .. U64Max) /\ (n = Empty \/ n \in 0 .. U64Max)
    BY DEF Numbers
  <2>4. WellFormed(part) <=> (m # Empty /\ n # Empty => m <= n)
    BY <1>3, <2>2 DEF WellFormed
  <2>5. Named(part, size) = {b \in 0 .. size - 1 :
                               IF m = Empty THEN b >= size - n ELSE m <= b /\ (n = Empty \/ b <= n)}
    BY <2>2 DEF Named
  <2>6. single(part, size) =
          IF m = Empty
          THEN IF n = 0 \/ size = 0 THEN Unsatisfiable
               ELSE Partial(<<[start |-> larger(0, size - n), end |-> size]>>)
          ELSE IF n # Empty /\ n < m THEN Full
          ELSE IF m >= size THEN Unsatisfiable
          ELSE Partial(<<[start |-> m, end |-> IF n = Empty THEN size
                                               ELSE smaller(smaller(n + 1, U64Max), size)]>>)
    BY <1>3, <2>2, Zenon DEF single
  <2>7. CASE m = Empty
    <3>1. n \in 0 .. U64Max
      BY <2>2, <2>3, <2>7
    <3>2. CASE n = 0 \/ size = 0
      <4>1. Named(part, size) = {}
        BY <1>1, <2>5, <2>7, <3>1, <3>2
      <4> QED
        BY <2>4, <2>6, <2>7, <3>2, <4>1
    <3>3. CASE ~ (n = 0 \/ size = 0)
      <4> DEFINE s == larger(0, size - n)
                 r == [start |-> s, end |-> size]
      <4>1. s \in Nat /\ s < size /\ \A b \in 0 .. size - 1 : b >= size - n <=> b >= s
        BY <1>1, <3>1, <3>3 DEF larger
      <4>2. single(part, size) = Partial(<<r>>)
        BY <2>6, <2>7, <3>3
      <4> HIDE DEF s
      <4>3. r \in Spans(size) /\ r.start = s /\ r.end = size
        BY <1>1, <4>1, NewSpan
      <4> HIDE DEF r
      <4>4. Named(part, size) = Span(r)
        BY <1>1, <2>5, <2>7, <4>1, <4>3 DEF Span
      <4> QED
        BY <2>4, <2>7, <4>2, <4>3, <4>4
    <3> QED
      BY <3>2, <3>3
  <2>8. CASE m # Empty
    <3>1. m \in 0 .. U64Max /\ m \in Nat
      BY <2>3, <2>8
    <3>2. CASE n # Empty /\ n < m
      BY <2>6, <2>8, <3>2
    <3>3. CASE ~ (n # Empty /\ n < m) /\ m >= size
      <4>1. Named(part, size) = {}
        BY <1>1, <2>5, <2>8, <3>1, <3>3
      <4>2. WellFormed(part)
        BY <2>3, <2>4, <3>1, <3>3
      <4> QED
        BY <2>6, <2>8, <3>3, <4>1, <4>2
    <3>4. CASE ~ (n # Empty /\ n < m) /\ ~ (m >= size)
      <4> DEFINE e == IF n = Empty THEN size ELSE smaller(smaller(n + 1, U64Max), size)
                 r == [start |-> m, end |-> e]
      <4>1. e \in Nat /\ m < e /\ e <= size
            /\ \A b \in 0 .. size - 1 : (n = Empty \/ b <= n) <=> b < e
        <5>1. CASE n = Empty
          BY <1>1, <3>1, <3>4, <5>1
        <5>2. CASE n # Empty
          <6>1. n \in 0 .. U64Max
            BY <2>3, <5>2
          <6> QED
            BY <1>1, <3>1, <3>4, <5>2, <6>1 DEF smaller
        <5> QED
          BY <5>1, <5>2
      <4>2. single(part, size) = Partial(<<r>>)
        BY <2>6, <2>8, <3>4
      <4> HIDE DEF e
      <4>3. r \in Spans(size) /\ r.start = m /\ r.end = e
        BY <1>1, <3>1, <4>1, NewSpan
      <4> HIDE DEF r
      <4>4. Named(part, size) = Span(r)
        BY <1>1, <2>5, <2>8, <3>1, <4>1, <4>3 DEF Span
      <4>5. WellFormed(part)
        BY <2>3, <2>4, <3>1, <3>4
      <4> QED
        BY <4>2, <4>3, <4>4, <4>5
    <3> QED
      BY <3>2, <3>3, <3>4
  <2> QED
    BY <2>7, <2>8
<1> QED
  BY <1>2, <1>3

\* The first of some ranges.
LEMMA FirstSpan ==
  ASSUME NEW size \in Nat, NEW R \in SUBSET Spans(size), R # {}
  PROVE  \E m \in R : \A r \in R \ {m} : Before(m, r)
<1> DEFINE T == {r.start : r \in R}
<1>1. T \subseteq Nat /\ T # {}
  BY SpanFacts
<1>2. PICK a \in T : \A y \in T : a <= y
  <2> HIDE DEF T
  <2> QED
    BY <1>1, LeastOf
<1> DEFINE U == {r.end : r \in {q \in R : q.start = a}}
<1>3. U \subseteq Nat /\ U # {}
  BY <1>2, SpanFacts
<1>4. PICK e \in U : \A y \in U : e <= y
  <2> HIDE DEF U
  <2> QED
    BY <1>3, LeastOf
<1>5. PICK m \in R : m.start = a /\ m.end = e
  OBVIOUS
<1>6. ASSUME NEW r \in R \ {m} PROVE Before(m, r)
  <2>1. r.start \in Nat /\ r.end \in Nat /\ a \in Nat /\ e \in Nat
    BY <1>5, SpanFacts
  <2>2. a <= r.start /\ (r.start = a => e <= r.end)
    BY <1>2, <1>4
  <2>3. r.start # a \/ r.end # e
    <3>1. r \in [start : Nat, end : Nat] /\ m \in [start : Nat, end : Nat]
      BY DEF Spans
    <3> QED
      BY <1>5, <3>1
  <2> QED
    BY <1>5, <2>1, <2>2, <2>3 DEF Before
<1> QED
  BY <1>6

Sorts(s, R, n) ==
  /\ s \in [1 .. n -> R]
  /\ \A r \in R : \E i \in 1 .. n : s[i] = r
  /\ \A i, j \in 1 .. n : i < j => Before(s[i], s[j])

LEMMA SortExists ==
  ASSUME NEW size \in Nat, NEW R \in SUBSET Spans(size), IsFiniteSet(R)
  PROVE  \E s : Sorts(s, R, Cardinality(R))
<1> DEFINE P(n) == \A Q \in SUBSET Spans(size) :
                     IsFiniteSet(Q) /\ Cardinality(Q) = n => \E s : Sorts(s, Q, n)
           S == {n \in Nat : P(n)}
<1>1. 0 \in S
  <2>1. ASSUME NEW Q \in SUBSET Spans(size), IsFiniteSet(Q), Cardinality(Q) = 0
        PROVE  \E s : Sorts(s, Q, 0)
    <3>1. Q = {}
      BY <2>1, FS_EmptySet
    <3>2. Sorts([i \in 1 .. 0 |-> 0], Q, 0)
      BY <3>1 DEF Sorts
    <3> QED
      BY <3>2
  <2> QED
    BY <2>1
<1>2. ASSUME NEW n \in Nat, n \in S PROVE n + 1 \in S
  <2>1. ASSUME NEW Q \in SUBSET Spans(size), IsFiniteSet(Q), Cardinality(Q) = n + 1
        PROVE  \E s : Sorts(s, Q, n + 1)
    <3>1. Q # {}
      BY <2>1, FS_EmptySet
    <3>2. PICK m \in Q : \A r \in Q \ {m} : Before(m, r)
      BY <3>1, FirstSpan
    <3>3. IsFiniteSet(Q \ {m}) /\ Cardinality(Q \ {m}) = n
      <4>1. IsFiniteSet(Q \ {m}) /\ Cardinality(Q \ {m}) = Cardinality(Q) - 1
        BY <2>1, FS_RemoveElement
      <4>2. n + 1 - 1 = n
        OBVIOUS
      <4> QED
        BY <2>1, <4>1, <4>2
    <3>4. Q \ {m} \in SUBSET Spans(size)
      OBVIOUS
    <3>5. PICK t : Sorts(t, Q \ {m}, n)
      BY <1>2, <3>3, <3>4
    <3>6. /\ t \in [1 .. n -> Q \ {m}]
          /\ \A r \in Q \ {m} : \E i \in 1 .. n : t[i] = r
          /\ \A i, j \in 1 .. n : i < j => Before(t[i], t[j])
      BY <3>5 DEF Sorts
    <3> DEFINE s == [i \in 1 .. n + 1 |-> IF i = 1 THEN m ELSE t[i - 1]]
    <3>7. s \in [1 .. n + 1 -> Q]
      BY <3>6
    <3>8. ASSUME NEW r \in Q PROVE \E i \in 1 .. n + 1 : s[i] = r
      <4>1. CASE r = m
        BY <4>1
      <4>2. CASE r # m
        <5>1. PICK i \in 1 .. n : t[i] = r
          BY <3>6, <4>2
        <5>2. i + 1 \in 1 .. n + 1 /\ s[i + 1] = t[i]
          OBVIOUS
        <5> QED
          BY <5>1, <5>2
      <4> QED
        BY <4>1, <4>2
    <3>9. ASSUME NEW i \in 1 .. n + 1, NEW j \in 1 .. n + 1, i < j PROVE Before(s[i], s[j])
      <4>1. j - 1 \in 1 .. n /\ s[j] = t[j - 1] /\ t[j - 1] \in Q \ {m}
        BY <3>6, <3>9
      <4>2. CASE i = 1
        BY <3>2, <4>1, <4>2
      <4>3. CASE i # 1
        <5>1. i - 1 \in 1 .. n /\ s[i] = t[i - 1] /\ i - 1 < j - 1
          BY <3>9, <4>3
        <5> QED
          BY <3>6, <4>1, <5>1
      <4> QED
        BY <4>2, <4>3
    <3> HIDE DEF s
    <3>10. Sorts(s, Q, n + 1)
      BY <3>7, <3>8, <3>9 DEF Sorts
    <3> QED
      BY <3>10
  <2> QED
    BY <2>1
<1>3. Nat \subseteq S
  <2> HIDE DEF S
  <2> QED
    BY <1>1, <1>2, SetInduction
<1>4. Cardinality(R) \in Nat
  BY FS_CardinalityType
<1> QED
  BY <1>3, <1>4

LEMMA SortFacts ==
  ASSUME NEW size \in Nat, NEW R \in SUBSET Spans(size), IsFiniteSet(R)
  PROVE  Sorts(sort(R), R, Cardinality(R))
<1> DEFINE n == Cardinality(R)
<1>1. PICK s : Sorts(s, R, n)
  BY SortExists
<1> HIDE DEF n
<1>2. \E t \in [1 .. n -> R] :
        /\ \A r \in R : \E i \in 1 .. n : t[i] = r
        /\ \A i, j \in 1 .. n : i < j => Before(t[i], t[j])
  BY <1>1 DEF Sorts
<1> DEFINE c == CHOOSE t \in [1 .. n -> R] :
                  /\ \A r \in R : \E i \in 1 .. n : t[i] = r
                  /\ \A i, j \in 1 .. n : i < j => Before(t[i], t[j])
<1>3. Sorts(c, R, n)
  BY <1>2, Zenon DEF Sorts
<1>4. sort(R) = c
  BY DEF sort, n
<1> HIDE DEF c
<1> QED
  BY <1>3, <1>4 DEF n

LEMMA FunctionIsSeq ==
  ASSUME NEW n \in Nat, NEW S, NEW s \in [1 .. n -> S]
  PROVE  s \in Seq(S) /\ Len(s) = n /\ DOMAIN s = 1 .. n
OBVIOUS

\* A step of merge adds the bytes of its range and leaves gaps between the ranges.
LEMMA ExtendFacts ==
  ASSUME NEW size \in Nat, NEW m \in Seq(Spans(size)), NEW r \in Spans(size), Gaps(m),
         m # <<>> => Last(m).start <= r.start
  PROVE  /\ extend(m, r) \in Seq(Spans(size)) /\ extend(m, r) # <<>> /\ Gaps(extend(m, r))
         /\ Last(extend(m, r)).start <= r.start
         /\ \A x : x \in Bytes(extend(m, r)) <=> x \in Bytes(m) \/ x \in Span(r)
<1> DEFINE k == Len(m)
<1>0. k \in Nat /\ DOMAIN m = 1 .. k /\ \A i \in 1 .. k : m[i] \in Spans(size)
  OBVIOUS
<1>1. r.start \in Nat /\ r.end \in Nat /\ r.start < r.end /\ r.end <= size
  BY SpanFacts
<1>2. CASE m # <<>> /\ r.start <= Last(m).end
  <2>1. k >= 1 /\ Last(m) = m[k] /\ m[k] \in Spans(size)
    BY <1>0, <1>2 DEF Last
  <2> DEFINE l == m[k]
             q == [start |-> l.start, end |-> larger(l.end, r.end)]
             f == Front(m)
             e == Append(f, q)
  <2>2. l.start \in Nat /\ l.end \in Nat /\ l.start < l.end /\ l.end <= size /\ l.start <= r.start
        /\ r.start <= l.end
    BY <1>2, <2>1, SpanFacts
  <2>3. larger(l.end, r.end) \in Nat /\ l.start < larger(l.end, r.end)
        /\ larger(l.end, r.end) <= size /\ larger(l.end, r.end) >= l.end
        /\ larger(l.end, r.end) >= r.end
        /\ (larger(l.end, r.end) = l.end \/ larger(l.end, r.end) = r.end)
    BY <1>1, <2>2 DEF larger
  <2>4. q \in Spans(size) /\ q.start = l.start /\ q.end = larger(l.end, r.end)
    BY <2>2, <2>3, NewSpan
  <2>5. f \in Seq(Spans(size)) /\ Len(f) = k - 1 /\ \A i \in 1 .. k - 1 : f[i] = m[i]
    <3>1. 1 \in 1 .. Len(m) + 1 /\ k - 1 \in 1 - 1 .. Len(m)
      BY <1>0, <2>1
    <3>2. /\ SubSeq(m, 1, k - 1) \in Seq(Spans(size))
          /\ Len(SubSeq(m, 1, k - 1)) = (k - 1) - 1 + 1
          /\ \A i \in 1 .. (k - 1) - 1 + 1 : SubSeq(m, 1, k - 1)[i] = m[1 + i - 1]
      BY <3>1, SubSeqIs
    <3> QED
      BY <1>0, <2>1, <3>2 DEF Front
  <2> HIDE DEF q, f
  <2>6. e \in Seq(Spans(size)) /\ e # <<>> /\ Len(e) = k /\ e[k] = q
        /\ \A i \in 1 .. k - 1 : e[i] = m[i]
    <3>1. e \in Seq(Spans(size)) \ {<<>>} /\ Len(e) = Len(f) + 1
          /\ (\A i \in 1 .. Len(f) : e[i] = f[i]) /\ e[Len(f) + 1] = q
      BY <2>4, <2>5, AppendIs
    <3> HIDE DEF e
    <3> QED
      BY <1>0, <2>1, <2>5, <3>1
  <2>7. extend(m, r) = e
    BY <1>2, <2>1 DEF extend, q, f
  <2> HIDE DEF e
  <2>8. Gaps(e)
    <3> SUFFICES ASSUME NEW i \in 2 .. k PROVE e[i - 1].end < e[i].start
      BY <2>6 DEF Gaps
    <3>1. m[i - 1].end < m[i].start
      BY DEF Gaps
    <3>2. i - 1 \in 1 .. k - 1 /\ e[i - 1] = m[i - 1]
      BY <1>0, <2>6
    <3>3. e[i].start = m[i].start
      <4>1. CASE i = k
        BY <2>4, <2>6, <4>1
      <4>2. CASE i # k
        <5>1. i \in 1 .. k - 1
          <6>1. k \in Nat /\ i \in 2 .. k /\ i # k
            BY <1>0, <4>2
          <6> HIDE DEF k
          <6> QED
            BY ONLY <6>1
        <5>2. e[i] = m[i]
          BY <2>6, <5>1
        <5> QED
          BY <5>2
      <4> QED
        BY <4>1, <4>2
    <3> QED
      BY <3>1, <3>2, <3>3
  <2>9. Last(e).start <= r.start
    BY <2>2, <2>4, <2>6 DEF Last
  <2>10. ASSUME NEW x PROVE x \in Span(q) <=> x \in Span(l) \/ x \in Span(r)
    <3>1. /\ x \in Span(q) <=> x \in Int /\ q.start <= x /\ x < q.end
          /\ x \in Span(l) <=> x \in Int /\ l.start <= x /\ x < l.end
          /\ x \in Span(r) <=> x \in Int /\ r.start <= x /\ x < r.end
      BY <2>1, <2>4, SpanFacts
    <3> QED
      BY <1>1, <2>2, <2>3, <2>4, <3>1
  <2>11. ASSUME NEW x PROVE x \in Bytes(e) <=> x \in Bytes(m) \/ x \in Span(r)
    <3>1. x \in Bytes(e) <=> \E i \in 1 .. k : x \in Span(e[i])
      BY <2>6, BytesFacts
    <3>2. x \in Bytes(m) <=> \E i \in 1 .. k : x \in Span(m[i])
      BY <1>0, BytesFacts
    <3>3. (\E i \in 1 .. k : x \in Span(e[i])) <=>
            (\E i \in 1 .. k - 1 : x \in Span(m[i])) \/ x \in Span(q)
      BY <1>0, <2>1, <2>6
    <3>4. (\E i \in 1 .. k : x \in Span(m[i])) <=>
            (\E i \in 1 .. k - 1 : x \in Span(m[i])) \/ x \in Span(l)
      BY <1>0, <2>1
    <3> QED
      BY <2>10, <3>1, <3>2, <3>3, <3>4
  <2> QED
    BY <2>6, <2>7, <2>8, <2>9, <2>11
<1>3. CASE ~ (m # <<>> /\ r.start <= Last(m).end)
  <2> DEFINE e == Append(m, r)
  <2>1. extend(m, r) = e
    BY <1>3 DEF extend
  <2>2. e \in Seq(Spans(size)) /\ e # <<>> /\ Len(e) = k + 1 /\ e[k + 1] = r
        /\ \A i \in 1 .. k : e[i] = m[i]
    BY AppendIs
  <2> HIDE DEF e
  <2>3. Gaps(e)
    <3> SUFFICES ASSUME NEW i \in 2 .. k + 1 PROVE e[i - 1].end < e[i].start
      BY <2>2 DEF Gaps
    <3>1. i - 1 \in 1 .. k /\ e[i - 1] = m[i - 1]
      BY <1>0, <2>2
    <3>2. CASE i = k + 1
      <4>1. m # <<>> /\ Last(m) = m[k] /\ i - 1 = k /\ m[k] \in Spans(size)
        BY <1>0, <3>1, <3>2 DEF Last
      <4>2. ~ (r.start <= m[k].end) /\ m[k].end \in Nat
        BY <1>3, <4>1, SpanFacts
      <4> QED
        BY <1>1, <2>2, <3>1, <3>2, <4>1, <4>2
    <3>3. CASE i # k + 1
      <4>1. i \in 2 .. k /\ e[i] = m[i]
        BY <1>0, <2>2, <3>3
      <4> QED
        BY <3>1, <4>1 DEF Gaps
    <3> QED
      BY <3>2, <3>3
  <2>4. Last(e).start <= r.start
    BY <1>1, <2>2 DEF Last
  <2>5. ASSUME NEW x PROVE x \in Bytes(e) <=> x \in Bytes(m) \/ x \in Span(r)
    <3>1. x \in Bytes(e) <=> \E i \in 1 .. k + 1 : x \in Span(e[i])
      BY <2>2, BytesFacts
    <3>2. x \in Bytes(m) <=> \E i \in 1 .. k : x \in Span(m[i])
      BY <1>0, BytesFacts
    <3>3. (\E i \in 1 .. k + 1 : x \in Span(e[i])) <=>
            (\E i \in 1 .. k : x \in Span(m[i])) \/ x \in Span(r)
      BY <1>0, <2>2
    <3> QED
      BY <3>1, <3>2, <3>3
  <2> QED
    BY <2>1, <2>2, <2>3, <2>4, <2>5
<1> QED
  BY <1>2, <1>3

LEMMA ExtendType ==
  ASSUME NEW size \in Nat, NEW m \in Seq(Spans(size)), NEW r \in Spans(size)
  PROVE  extend(m, r) \in Seq(Spans(size))
<1>1. r.start \in Nat /\ r.end \in Nat /\ r.start < r.end /\ r.end <= size
  BY SpanFacts
<1>2. CASE m # <<>> /\ r.start <= Last(m).end
  <2> DEFINE l == Last(m)
             q == [start |-> l.start, end |-> larger(l.end, r.end)]
  <2>1. Len(m) \in Nat /\ Len(m) >= 1 /\ l \in Spans(size)
    BY <1>2 DEF Last
  <2> HIDE DEF l
  <2>2. l.start \in Nat /\ l.end \in Nat /\ l.start < l.end /\ l.end <= size
    BY <2>1, SpanFacts
  <2>3. larger(l.end, r.end) \in Nat /\ l.start < larger(l.end, r.end) /\ larger(l.end, r.end) <= size
    BY <1>1, <2>2 DEF larger
  <2>4. q \in Spans(size)
    BY <2>2, <2>3, NewSpan
  <2>5. Front(m) \in Seq(Spans(size))
    <3>1. 1 \in 1 .. Len(m) + 1 /\ Len(m) - 1 \in 1 - 1 .. Len(m)
      BY <2>1
    <3> QED
      BY <3>1, SubSeqIs DEF Front
  <2>6. extend(m, r) = Append(Front(m), q)
    BY <1>2 DEF extend, l
  <2> HIDE DEF q
  <2>7. Append(Front(m), q) \in Seq(Spans(size))
    BY <2>4, <2>5, AppendIs
  <2> QED
    BY <2>6, <2>7
<1>3. CASE ~ (m # <<>> /\ r.start <= Last(m).end)
  <2>1. extend(m, r) = Append(m, r)
    BY <1>3 DEF extend
  <2> QED
    BY <2>1, AppendIs
<1> QED
  BY <1>2, <1>3

\* What merge computes step by step.
Merges(sorted, merged) ==
  merged = [n \in 0 .. Len(sorted) |->
              IF n = 0 THEN <<>> ELSE extend(merged[n - 1], sorted[n])]

LEMMA MergesAt ==
  ASSUME NEW sorted, NEW merged, Merges(sorted, merged), NEW m \in 0 .. Len(sorted)
  PROVE  merged[m] = IF m = 0 THEN <<>> ELSE extend(merged[m - 1], sorted[m])
<1> DEFINE g == [n \in 0 .. Len(sorted) |->
                   IF n = 0 THEN <<>> ELSE extend(merged[n - 1], sorted[n])]
<1>1. merged = g
  BY DEF Merges
<1>2. g[m] = IF m = 0 THEN <<>> ELSE extend(merged[m - 1], sorted[m])
  BY Zenon
<1>3. merged[m] = g[m]
  <2> HIDE DEF g
  <2> QED
    BY <1>1
<1> HIDE DEF g
<1> QED
  BY <1>2, <1>3, Zenon

LEMMA MergesExists ==
  ASSUME NEW size \in Nat, NEW N \in Nat, NEW sorted \in [1 .. N -> Spans(size)], Len(sorted) = N
  PROVE  \E merged : Merges(sorted, merged)
<1> DEFINE V == Seq(Spans(size))
           F == [x \in V \X (1 .. N) |-> extend(x[1], sorted[x[2]])]
           base == <<>>
<1>1. base \in V /\ IsStep(F, N, V)
  <2>1. ASSUME NEW v \in V, NEW n \in 1 .. N PROVE extend(v, sorted[n]) \in V
    BY ExtendType
  <2> QED
    BY <2>1 DEF IsStep
<1>2. ASSUME NEW v \in V, NEW n \in 1 .. N PROVE F[<<v, n>>] = extend(v, sorted[n])
  <2> HIDE DEF V
  <2> QED
    OBVIOUS
<1> HIDE DEF V, F, base
<1>3. PICK f : Recurs(f, N, V, base, F)
  BY <1>1, Recursion
<1>4. f \in [0 .. N -> V] /\ f[0] = base /\ \A n \in 1 .. N : f[n] = F[<<f[n - 1], n>>]
  BY <1>3 DEF Recurs
<1>5. ASSUME NEW n \in 1 .. N PROVE f[n] = extend(f[n - 1], sorted[n])
  <2>1. f[n - 1] \in V
    BY <1>4
  <2> QED
    BY <1>2, <1>4, <2>1
<1> DEFINE g == [n \in 0 .. N |-> IF n = 0 THEN <<>> ELSE extend(f[n - 1], sorted[n])]
<1>6. ASSUME NEW n \in 0 .. N PROVE f[n] = g[n]
  <2>1. CASE n = 0
    BY <1>4, <2>1 DEF base
  <2>2. CASE n # 0
    <3>1. n \in 1 .. N
      BY <2>2
    <3> QED
      BY <1>5, <2>2, <3>1, Zenon
  <2> QED
    BY <2>1, <2>2
<1>7. f = [n \in 0 .. N |-> f[n]]
  BY <1>4
<1>8. f = g
  BY <1>6, <1>7
<1>9. Merges(sorted, f)
  BY <1>8 DEF Merges
<1> QED
  BY <1>9

\* merge gives the bytes of all ranges, in ranges with gaps between them.
LEMMA MergeFacts ==
  ASSUME NEW size \in Nat, NEW R \in SUBSET Spans(size), IsFiniteSet(R), R # {}
  PROVE  /\ merge(R) \in Seq(Spans(size)) /\ merge(R) # <<>> /\ Gaps(merge(R))
         /\ \A x : x \in Bytes(merge(R)) <=> \E r \in R : x \in Span(r)
<1> DEFINE N == Cardinality(R)
           sorted == sort(R)
<1>1. N \in Nat /\ N # 0
  BY FS_CardinalityType, FS_EmptySet
<1>2. /\ sorted \in [1 .. N -> R]
      /\ \A r \in R : \E i \in 1 .. N : sorted[i] = r
      /\ \A i, j \in 1 .. N : i < j => Before(sorted[i], sorted[j])
  <2>1. Sorts(sort(R), R, N)
    BY SortFacts
  <2> HIDE DEF N
  <2> QED
    BY <2>1 DEF Sorts
<1> HIDE DEF N, sorted
<1>3. Len(sorted) = N /\ sorted \in [1 .. N -> Spans(size)]
  BY <1>1, <1>2, FunctionIsSeq
<1>4. \E merged : Merges(sorted, merged)
  BY <1>1, <1>3, MergesExists
<1> DEFINE merged == CHOOSE f : Merges(sorted, f)
<1>5. Merges(sorted, merged)
  BY <1>4
<1>6. merge(R) = merged[N]
  BY <1>3 DEF merge, Merges, sorted
<1> HIDE DEF merged
<1> DEFINE Good(n) ==
             /\ merged[n] \in Seq(Spans(size)) /\ Gaps(merged[n])
             /\ n > 0 => merged[n] # <<>> /\ Last(merged[n]).start <= sorted[n].start
             /\ \A x : x \in Bytes(merged[n]) <=> \E i \in 1 .. n : x \in Span(sorted[i])
           S == {n \in 0 .. N : Good(n)}
<1>7. 0 \in S
  <2>1. 0 \in 0 .. Len(sorted)
    BY <1>1, <1>3
  <2>2. merged[0] = <<>>
    BY <1>5, <2>1, MergesAt
  <2>3. ASSUME NEW x PROVE x \notin Bytes(<<>>)
    BY BytesFacts
  <2>4. <<>> \in Seq(Spans(size)) /\ Gaps(<<>>)
    BY DEF Gaps
  <2>5. \A x : x \in Bytes(merged[0]) <=> \E i \in 1 .. 0 : x \in Span(sorted[i])
    BY <2>2, <2>3
  <2>6. Good(0)
    BY <2>2, <2>4, <2>5
  <2>7. 0 \in 0 .. N
    BY <1>1
  <2> HIDE DEF Good
  <2> QED
    BY <2>6, <2>7
<1>8. ASSUME NEW n \in 0 .. N - 1, n \in S PROVE n + 1 \in S
  <2> DEFINE m == merged[n]
             r == sorted[n + 1]
  <2>1. n \in Nat /\ n + 1 \in 1 .. N /\ n + 1 \in 0 .. Len(sorted) /\ n + 1 # 0 /\ (n + 1) - 1 = n
    BY <1>1, <1>3
  <2>2. merged[n + 1] = extend(m, r)
    <3> DEFINE k == n + 1
    <3>1. k \in 0 .. Len(sorted) /\ k # 0 /\ k - 1 = n
      BY <2>1
    <3> HIDE DEF k
    <3>2. merged[k] = extend(merged[k - 1], sorted[k])
      BY <1>5, <3>1, MergesAt
    <3>3. merged[k] = extend(merged[n], sorted[k])
      BY <3>1, <3>2
    <3> QED
      BY <3>3 DEF k
  <2>3. r \in Spans(size) /\ r.start \in Nat
    BY <1>3, <2>1, SpanFacts
  <2>4. Good(n)
    BY <1>8
  <2>5. m # <<>> => Last(m).start <= r.start
    <3> SUFFICES ASSUME m # <<>> PROVE Last(m).start <= r.start
      OBVIOUS
    <3>1. n > 0
      <4> SUFFICES ASSUME n = 0 PROVE FALSE
        BY <2>1
      <4>1. 0 \in 0 .. Len(sorted)
        BY <1>1, <1>3
      <4> QED
        BY <1>5, <4>1, MergesAt
    <3>2. n \in 1 .. N /\ n < n + 1
      BY <1>1, <2>1, <3>1
    <3>3. Before(sorted[n], r)
      BY <1>2, <2>1, <3>2
    <3>4. sorted[n].start \in Nat /\ Last(m).start <= sorted[n].start
      BY <1>3, <2>4, <3>1, <3>2, SpanFacts
    <3>5. Last(m) \in Spans(size)
      <4>1. m \in Seq(Spans(size))
        BY <2>4
      <4> HIDE DEF m
      <4> QED
        BY <4>1 DEF Last
    <3>6. Last(m).start \in Nat
      BY <3>5, SpanFacts
    <3> QED
      BY <2>3, <3>3, <3>4, <3>6 DEF Before
  <2>6. m \in Seq(Spans(size)) /\ Gaps(m)
    BY <2>4
  <2> DEFINE e == extend(m, r)
  <2>7. /\ e \in Seq(Spans(size)) /\ e # <<>> /\ Gaps(e) /\ Last(e).start <= r.start
        /\ \A x : x \in Bytes(e) <=> x \in Bytes(m) \/ x \in Span(r)
    <3> HIDE DEF m, r
    <3> QED
      BY <2>3, <2>5, <2>6, ExtendFacts
  <2>8. ASSUME NEW x PROVE x \in Bytes(e) <=> \E i \in 1 .. n + 1 : x \in Span(sorted[i])
    <3>1. x \in Bytes(m) <=> \E i \in 1 .. n : x \in Span(sorted[i])
      BY <2>4
    <3>2. (\E i \in 1 .. n + 1 : x \in Span(sorted[i])) <=>
            (\E i \in 1 .. n : x \in Span(sorted[i])) \/ x \in Span(r)
      BY <2>1
    <3> QED
      BY <2>7, <3>1, <3>2
  <2> HIDE DEF e
  <2>9. merged[n + 1] = e
    BY <2>2 DEF e
  <2>10. Good(n + 1)
    BY <2>7, <2>8, <2>9
  <2> QED
    BY <1>1, <2>1, <2>10
<1>9. 0 .. N \subseteq S
  <2> HIDE DEF S
  <2> QED
    BY <1>1, <1>7, <1>8, InductionUpTo
<1>10. Good(N) /\ N > 0
  <2>1. N \in 0 .. N /\ N > 0
    BY <1>1
  <2> HIDE DEF Good
  <2> QED
    BY <1>9, <2>1
<1>11. ASSUME NEW x PROVE (\E i \in 1 .. N : x \in Span(sorted[i])) <=> \E r \in R : x \in Span(r)
  BY <1>2
<1>12. \A x : x \in Bytes(merged[N]) <=> \E i \in 1 .. N : x \in Span(sorted[i])
  BY <1>10
<1>13. merged[N] \in Seq(Spans(size)) /\ merged[N] # <<>> /\ Gaps(merged[N])
  BY <1>10
<1> HIDE DEF Good, S
<1>14. \A x : x \in Bytes(merged[N]) <=> \E r \in R : x \in Span(r)
  BY <1>11, <1>12, Zenon
<1> QED
  BY <1>6, <1>13, <1>14

\* A header selects all of the blob, nothing if its parts name nothing, or what they name.
Names206(header, size, ranges) ==
  /\ ranges \in Seq(Spans(size)) /\ ranges # <<>> /\ Gaps(ranges)
  /\ \A i \in DOMAIN header : WellFormed(header[i])
  /\ Bytes(ranges) = UNION {Named(header[i], size) : i \in DOMAIN header}
Names416(header, size) == UNION {Named(header[i], size) : i \in DOMAIN header} = {}

LEMMA SelectFacts ==
  ASSUME NEW header \in Seq(Parts), NEW size \in Sizes
  PROVE  \/ select(header, size) = Full
         \/ select(header, size) = Unsatisfiable /\ Names416(header, size)
         \/ \E ranges : select(header, size) = Partial(ranges) /\ Names206(header, size, ranges)
<1> DEFINE D == DOMAIN header
           selected == [i \in D |-> single(header[i], size)]
           partial == {i \in D : selected[i].kind = "partial"}
           ranges == {selected[i].ranges[1] : i \in partial}
<1>1. select(header, size) =
        IF Len(header) > MAX_PARTS \/ \E i \in D : selected[i] = Full THEN Full
        ELSE IF partial = {} THEN Unsatisfiable
        ELSE Partial(merge(ranges))
  BY DEF select
<1>2. size \in Nat
  BY RangesAssumption DEF Sizes
<1>3. ASSUME NEW i \in D PROVE selected[i] = single(header[i], size) /\ header[i] \in Parts
  OBVIOUS
<1>4. IsFiniteSet(D)
  <2>1. D = 1 .. Len(header) /\ Len(header) \in Nat
    OBVIOUS
  <2> HIDE DEF D
  <2> QED
    BY <2>1, FS_Interval
<1> SUFFICES ASSUME \A i \in D : selected[i] # Full, ~ (Len(header) > MAX_PARTS)
             PROVE  \/ select(header, size) = Unsatisfiable /\ Names416(header, size)
                    \/ \E m : select(header, size) = Partial(m) /\ Names206(header, size, m)
  BY <1>1
<1> HIDE DEF D, selected
<1>5. ASSUME NEW i \in D
      PROVE  \/ selected[i] = Unsatisfiable /\ WellFormed(header[i]) /\ Named(header[i], size) = {}
             \/ \E r \in Spans(size) :
                  /\ selected[i] = Partial(<<r>>) /\ WellFormed(header[i])
                  /\ Named(header[i], size) = Span(r)
  BY <1>3, SingleFacts
<1>6. ASSUME NEW i \in D PROVE WellFormed(header[i])
  BY <1>5
<1>7. ASSUME NEW i \in D, i \notin partial PROVE Named(header[i], size) = {}
  <2>1. ASSUME NEW r, selected[i] = Partial(<<r>>) PROVE FALSE
    BY <1>7, <2>1, KindsDiffer
  <2> QED
    BY <1>5, <2>1
<1>8. ASSUME NEW i \in partial
      PROVE  selected[i].ranges[1] \in Spans(size) /\ Named(header[i], size) = Span(selected[i].ranges[1])
  <2>1. i \in D /\ selected[i].kind = "partial"
    OBVIOUS
  <2>2. selected[i] # Unsatisfiable
    BY <2>1, KindsDiffer
  <2>3. PICK r \in Spans(size) : selected[i] = Partial(<<r>>) /\ Named(header[i], size) = Span(r)
    BY <1>5, <2>1, <2>2
  <2>4. selected[i].ranges = <<r>>
    BY <2>3, KindsDiffer
  <2>5. selected[i].ranges[1] = r
    BY <2>4
  <2> QED
    BY <2>3, <2>5
<1>9. CASE partial = {}
  <2>1. \A i \in D : Named(header[i], size) = {}
    BY <1>7, <1>9
  <2>2. Names416(header, size)
    BY <2>1 DEF Names416, D
  <2>3. select(header, size) = Unsatisfiable
    BY <1>1, <1>9
  <2> QED
    BY <2>2, <2>3
<1>10. CASE partial # {}
  <2>1. select(header, size) = Partial(merge(ranges))
    BY <1>1, <1>10
  <2>2. ranges \in SUBSET Spans(size) /\ ranges # {}
    BY <1>8, <1>10
  <2>3. IsFiniteSet(ranges)
    <3>1. IsFiniteSet(partial)
      BY <1>4, FS_Subset
    <3> DEFINE first == [i \in partial |-> selected[i].ranges[1]]
    <3>2. first \in Surjection(partial, ranges)
      BY DEF Surjection
    <3> HIDE DEF partial, ranges, first
    <3> QED
      BY <3>1, <3>2, FS_Surjection
  <2>4. ASSUME NEW x
        PROVE  (\E r \in ranges : x \in Span(r)) <=> \E i \in D : x \in Named(header[i], size)
    <3>1. ASSUME NEW i \in D, x \in Named(header[i], size) PROVE \E r \in ranges : x \in Span(r)
      <4>1. i \in partial
        BY <1>7, <3>1
      <4> QED
        BY <1>8, <3>1, <4>1
    <3>2. ASSUME NEW r \in ranges, x \in Span(r) PROVE \E i \in D : x \in Named(header[i], size)
      <4>1. PICK i \in partial : r = selected[i].ranges[1]
        OBVIOUS
      <4> QED
        BY <1>8, <3>2, <4>1
    <3> QED
      BY <3>1, <3>2
  <2> HIDE DEF partial, ranges
  <2> DEFINE m == merge(ranges)
  <2>5. /\ m \in Seq(Spans(size)) /\ m # <<>> /\ Gaps(m)
        /\ \A x : x \in Bytes(m) <=> \E r \in ranges : x \in Span(r)
    BY <1>2, <2>2, <2>3, MergeFacts
  <2> HIDE DEF m
  <2>6. Bytes(m) = UNION {Named(header[i], size) : i \in D}
    BY <2>4, <2>5
  <2>7. Names206(header, size, m)
    BY <1>6, <2>5, <2>6 DEF Names206, D
  <2> QED
    BY <2>1, <2>7 DEF m
<1> QED
  BY <1>9, <1>10

\* serve_blob's size is the blob's own.
LEMMA SizeIsVerified ==
  ASSUME NEW b \in Blob, NEW size \in sniff(b)
  PROVE  size = Size[b] /\ size \in Sizes
<1>1. size \in Sizes /\ size \in Nat
  BY RangesAssumption DEF sniff, Sizes
<1> DEFINE c == LastChunk(size)
<1>2. c \in Int
  BY <1>1, SizesAssumption DEF LastChunk, Chunks
<1>3. c <= c => Decodes(b, size, c)
  BY DEF sniff
<1>4. size = Size[b] \/ c < c
  BY <1>2, <1>3 DEF Decodes
<1> HIDE DEF c
<1> QED
  BY <1>1, <1>2, <1>4
----------------------------------------------------------------------------
(* The length of a multipart body.                                         *)

Add(total, r) == total + 1 + (r.end - r.start) + 1
Totals(ranges, total) ==
  total = [n \in 0 .. Len(ranges) |->
             IF n = 0 THEN 1 ELSE total[n - 1] + 1 + (ranges[n].end - ranges[n].start) + 1]
IsTotal(ranges, total) ==
  /\ total \in [0 .. Len(ranges) -> Int] /\ total[0] = 1
  /\ \A n \in 1 .. Len(ranges) : total[n] = Add(total[n - 1], ranges[n])

LEMMA TotalsAt ==
  ASSUME NEW ranges, NEW total, Totals(ranges, total), NEW m \in 0 .. Len(ranges)
  PROVE  total[m] = IF m = 0 THEN 1 ELSE Add(total[m - 1], ranges[m])
<1> DEFINE g == [n \in 0 .. Len(ranges) |->
                   IF n = 0 THEN 1 ELSE Add(total[n - 1], ranges[n])]
<1>1. total = g
  BY DEF Totals, Add
<1>2. g[m] = IF m = 0 THEN 1 ELSE Add(total[m - 1], ranges[m])
  BY Zenon
<1>3. total[m] = g[m]
  <2> HIDE DEF g
  <2> QED
    BY <1>1
<1> HIDE DEF g
<1> QED
  BY <1>2, <1>3, Zenon

LEMMA AddType ==
  ASSUME NEW size \in Nat, NEW r \in Spans(size), NEW t \in Int
  PROVE  Add(t, r) \in Int /\ Add(t, r) = t + (r.end - r.start) + 2
BY SpanFacts DEF Add

LEMMA TotalsExists ==
  ASSUME NEW size \in Nat, NEW ranges \in Seq(Spans(size))
  PROVE  \E total : Totals(ranges, total)
<1> DEFINE V == Int
           N == Len(ranges)
           F == [x \in V \X (1 .. N) |-> Add(x[1], ranges[x[2]])]
<1>0. N \in Nat /\ \A n \in 1 .. N : ranges[n] \in Spans(size)
  OBVIOUS
<1>1. 1 \in V /\ IsStep(F, N, V)
  <2>1. ASSUME NEW v \in V, NEW n \in 1 .. N PROVE Add(v, ranges[n]) \in V
    BY <1>0, AddType
  <2>2. 1 \in V
    OBVIOUS
  <2> HIDE DEF N, V
  <2>3. IsStep(F, N, V)
    BY <2>1 DEF IsStep
  <2> QED
    BY <2>2, <2>3
<1>2. ASSUME NEW v \in V, NEW n \in 1 .. N PROVE F[<<v, n>>] = Add(v, ranges[n])
  <2> HIDE DEF V, N
  <2> QED
    OBVIOUS
<1> HIDE DEF V, F, N
<1>3. PICK f : Recurs(f, N, V, 1, F)
  BY <1>0, <1>1, Recursion
<1>4. f \in [0 .. N -> V] /\ f[0] = 1 /\ \A n \in 1 .. N : f[n] = F[<<f[n - 1], n>>]
  BY <1>3 DEF Recurs
<1>5. ASSUME NEW n \in 1 .. N PROVE f[n] = Add(f[n - 1], ranges[n])
  <2>1. f[n - 1] \in V
    BY <1>0, <1>4
  <2> QED
    BY <1>2, <1>4, <2>1
<1> DEFINE g == [n \in 0 .. N |-> IF n = 0 THEN 1 ELSE Add(f[n - 1], ranges[n])]
<1>6. ASSUME NEW n \in 0 .. N PROVE f[n] = g[n]
  <2>1. CASE n = 0
    BY <1>4, <2>1
  <2>2. CASE n # 0
    <3>1. n \in 1 .. N
      BY <1>0, <2>2
    <3> QED
      BY <1>5, <2>2, <3>1, Zenon
  <2> QED
    BY <2>1, <2>2
<1>7. f = [n \in 0 .. N |-> f[n]]
  BY <1>4
<1>8. f = g
  BY <1>6, <1>7
<1>9. Totals(ranges, f)
  BY <1>8 DEF Totals, N, Add
<1> QED
  BY <1>9

LEMMA LengthIsTotal ==
  ASSUME NEW size \in Nat, NEW ranges \in Seq(Spans(size))
  PROVE  \E total : IsTotal(ranges, total) /\ multipart_length(ranges) = total[Len(ranges)]
<1> DEFINE N == Len(ranges)
           total == CHOOSE f : Totals(ranges, f)
<1>1. N \in Nat /\ \A n \in 1 .. N : ranges[n] \in Spans(size)
  OBVIOUS
<1>2. Totals(ranges, total)
  BY TotalsExists
<1>3. multipart_length(ranges) = total[N]
  BY DEF multipart_length, Totals
<1> HIDE DEF total
<1>4. total[0] = 1
  <2>1. 0 \in 0 .. Len(ranges)
    BY <1>1
  <2> QED
    BY <1>2, <2>1, TotalsAt
<1>5. ASSUME NEW n \in 1 .. N PROVE total[n] = Add(total[n - 1], ranges[n])
  <2>1. n \in 0 .. Len(ranges) /\ n # 0
    BY <1>1
  <2> QED
    BY <1>2, <2>1, TotalsAt
<1> DEFINE S == {n \in 0 .. N : total[n] \in Int}
<1>6. 0 \in S
  BY <1>1, <1>4
<1>7. ASSUME NEW n \in 0 .. N - 1, n \in S PROVE n + 1 \in S
  <2> DEFINE k == n + 1
  <2>1. k \in 1 .. N /\ k \in 0 .. N /\ k - 1 = n /\ total[n] \in Int
    BY <1>1, <1>7
  <2> HIDE DEF k
  <2>2. total[k] = Add(total[k - 1], ranges[k])
    BY <1>5, <2>1
  <2>3. Add(total[n], ranges[k]) \in Int
    BY <1>1, <2>1, AddType
  <2>4. k \in S
    BY <2>1, <2>2, <2>3
  <2> QED
    BY <2>4 DEF k
<1>8. 0 .. N \subseteq S
  <2> HIDE DEF S, N
  <2> QED
    BY <1>1, <1>6, <1>7, InductionUpTo
<1>9. total = [n \in 0 .. N |-> total[n]]
  <2>1. DOMAIN total = 0 .. N
    BY <1>2 DEF Totals
  <2> DEFINE g == [n \in 0 .. N |->
               IF n = 0 THEN 1 ELSE total[n - 1] + 1 + (ranges[n].end - ranges[n].start) + 1]
  <2>2. total = g /\ g = [n \in 0 .. N |-> g[n]]
    BY <1>2 DEF Totals
  <2> HIDE DEF g
  <2> QED
    BY <2>2
<1>10. total \in [0 .. N -> Int]
  <2>1. \A n \in 0 .. N : total[n] \in Int
    BY <1>8
  <2> QED
    BY <1>9, <2>1
<1> QED
  BY <1>3, <1>4, <1>5, <1>10 DEF IsTotal

LEMMA LengthFacts ==
  ASSUME NEW size \in Nat, NEW ranges \in Seq(Spans(size))
  PROVE  /\ multipart_length(ranges) \in Int
         /\ ranges = <<>> => multipart_length(ranges) = 1
         /\ ranges # <<>> =>
              multipart_length(ranges) =
                multipart_length(Tail(ranges)) + (ranges[1].end - ranges[1].start) + 2
<1> DEFINE N == Len(ranges)
           rest == Tail(ranges)
<1>1. N \in Nat /\ \A n \in 1 .. N : ranges[n] \in Spans(size)
  OBVIOUS
<1>2. PICK f : IsTotal(ranges, f) /\ multipart_length(ranges) = f[N]
  BY LengthIsTotal
<1>3. f \in [0 .. N -> Int] /\ f[0] = 1 /\ \A n \in 1 .. N : f[n] = Add(f[n - 1], ranges[n])
  BY <1>2 DEF IsTotal
<1>4. multipart_length(ranges) \in Int /\ (ranges = <<>> => multipart_length(ranges) = 1)
  BY <1>1, <1>2, <1>3
<1> SUFFICES ASSUME ranges # <<>>
             PROVE  multipart_length(ranges) =
                      multipart_length(Tail(ranges)) + (ranges[1].end - ranges[1].start) + 2
  BY <1>4
<1>5. /\ N >= 1 /\ rest \in Seq(Spans(size)) /\ Len(rest) = N - 1
      /\ \A n \in 1 .. N - 1 : rest[n] = ranges[n + 1]
  OBVIOUS
<1> DEFINE d == ranges[1].end - ranges[1].start
<1>6. d \in Int
  BY <1>1, <1>5, SpanFacts
<1> HIDE DEF N, rest, d
<1>7. PICK g : IsTotal(rest, g) /\ multipart_length(rest) = g[Len(rest)]
  BY <1>5, LengthIsTotal
<1>8. g \in [0 .. N - 1 -> Int] /\ g[0] = 1 /\ \A n \in 1 .. N - 1 : g[n] = Add(g[n - 1], rest[n])
  BY <1>5, <1>7 DEF IsTotal
<1> DEFINE S == {n \in 0 .. N - 1 : f[n + 1] = g[n] + d + 2}
<1>9. 0 \in S
  <2>1. f[1] = Add(f[0], ranges[1]) /\ 1 - 1 = 0
    BY <1>1, <1>3, <1>5
  <2>2. Add(1, ranges[1]) = 1 + d + 2
    <3>1. ranges[1] \in Spans(size) /\ 1 \in Int
      BY <1>1, <1>5
    <3>2. Add(1, ranges[1]) = 1 + (ranges[1].end - ranges[1].start) + 2
      BY <3>1, AddType
    <3> QED
      BY <3>2 DEF d
  <2> QED
    BY <1>1, <1>3, <1>5, <1>8, <2>1, <2>2
<1>10. ASSUME NEW n \in 0 .. (N - 1) - 1, n \in S PROVE n + 1 \in S
  <2> DEFINE k == n + 1
             m == k + 1
  <2>1. /\ k \in 1 .. N - 1 /\ k \in 0 .. N - 1 /\ k - 1 = n
        /\ m \in 1 .. N /\ m - 1 = k /\ n \in 0 .. N - 1 /\ k \in 0 .. N /\ k + 1 = m
    BY <1>1
  <2>2. f[k] = g[n] + d + 2
    BY <1>10
  <2>3. rest[k] = ranges[m]
    BY <1>5, <2>1
  <2> HIDE DEF k, m
  <2>4. f[m] = Add(f[k], ranges[m]) /\ g[k] = Add(g[n], rest[k])
    <3>1. f[m] = Add(f[m - 1], ranges[m])
      BY <1>3, <2>1
    <3>2. g[k] = Add(g[k - 1], rest[k])
      BY <1>8, <2>1
    <3> QED
      BY <2>1, <3>1, <3>2
  <2> DEFINE r == ranges[m]
             u == r.end - r.start
  <2>5. r \in Spans(size) /\ f[k] \in Int /\ g[n] \in Int
    BY <1>1, <1>3, <1>8, <2>1
  <2>6. u \in Int
    BY <2>5, SpanFacts
  <2>7. Add(f[k], r) = f[k] + u + 2 /\ Add(g[n], r) = g[n] + u + 2
    BY <2>5, AddType
  <2> HIDE DEF r, u
  <2>8. f[m] = f[k] + u + 2 /\ g[k] = g[n] + u + 2
    BY <2>3, <2>4, <2>7 DEF r
  <2>9. f[m] = g[k] + d + 2
    BY <1>6, <2>2, <2>5, <2>6, <2>8
  <2>10. f[k + 1] = g[k] + d + 2
    BY <2>1, <2>9
  <2>11. k \in S
    BY <2>1, <2>10
  <2> QED
    BY <2>11 DEF k
<1>11. 0 .. N - 1 \subseteq S
  <2> DEFINE M == N - 1
  <2>1. M \in Nat
    BY <1>1, <1>5
  <2>2. \A n \in 0 .. M - 1 : n \in S => n + 1 \in S
    BY <1>10
  <2> HIDE DEF S, M
  <2>3. 0 .. M \subseteq S
    BY <1>9, <2>1, <2>2, InductionUpTo
  <2> QED
    BY <2>3 DEF M
<1>12. f[N] = g[N - 1] + d + 2
  <2>1. N - 1 \in 0 .. N - 1 /\ (N - 1) + 1 = N
    BY <1>1, <1>5
  <2> QED
    BY <1>11, <2>1
<1> QED
  BY <1>2, <1>5, <1>7, <1>12 DEF rest, d, N

\* The part of a range that a chunk of it covers is not empty.
LEMMA DivFacts ==
  ASSUME NEW n \in Nat, NEW c \in Nat \ {0}
  PROVE  n \div c \in Nat /\ (n \div c) * c <= n /\ n < (n \div c) * c + c
OBVIOUS

LEMMA TimesFacts ==
  ASSUME NEW m \in Nat, NEW n \in Nat, NEW c \in Nat, m <= n
  PROVE  m * c \in Nat /\ n * c \in Nat /\ m * c <= n * c /\ (n + 1) * c = n * c + c
OBVIOUS

LEMMA ChunkFacts ==
  ASSUME NEW size \in Nat, NEW r \in Spans(size), NEW c \in chunks_for(r),
         NEW start, start = larger(c * CHUNK, r.start),
         NEW end, end = smaller(smaller((c + 1) * CHUNK, size), r.end)
  PROVE  start \in Nat /\ end \in Nat /\ r.start <= start /\ start < end /\ end <= r.end /\ c \in Nat
<1> DEFINE q == r.start \div CHUNK
           l == r.end + CHUNK - 1
           k == l \div CHUNK
<1>1. r.start \in Nat /\ r.end \in Nat /\ r.start < r.end /\ r.end <= size /\ CHUNK \in Nat \ {0}
  BY SpanFacts, SizesAssumption
<1>2. l \in Nat /\ CHUNK \in Nat
  BY <1>1
<1>3. c \in q .. k - 1
  BY DEF chunks_for, Chunks
<1>4. q \in Nat /\ r.start < q * CHUNK + CHUNK
  BY <1>1, DivFacts
<1>5. k \in Nat /\ k * CHUNK <= l
  <2> HIDE DEF l
  <2> QED
    BY <1>1, <1>2, DivFacts
<1> HIDE DEF q, k
<1>6. c \in Nat /\ c + 1 \in Nat /\ q <= c /\ c + 1 <= k
  BY <1>3, <1>4, <1>5
<1> DEFINE u == c * CHUNK
           v == (c + 1) * CHUNK
           w == q * CHUNK
           z == k * CHUNK
<1>7. u \in Nat /\ w \in Nat /\ w <= u /\ v = u + CHUNK
  BY <1>2, <1>4, <1>6, TimesFacts
<1>8. v \in Nat /\ z \in Nat /\ v <= z
  <2> DEFINE n == c + 1
  <2>1. n \in Nat /\ n <= k
    BY <1>6
  <2> HIDE DEF n
  <2>2. n * CHUNK \in Nat /\ k * CHUNK \in Nat /\ n * CHUNK <= k * CHUNK
    BY <1>2, <1>5, <2>1, TimesFacts
  <2> QED
    BY <2>2 DEF n
<1>9. r.start < w + CHUNK /\ z <= r.end + CHUNK - 1
  BY <1>4, <1>5
<1>10. start = larger(u, r.start) /\ end = smaller(smaller(v, size), r.end)
  OBVIOUS
<1> HIDE DEF u, v, w, z
<1>11. u < r.end /\ r.start < v /\ u < v
  BY <1>1, <1>7, <1>8, <1>9
<1> QED
  BY <1>1, <1>6, <1>7, <1>8, <1>10, <1>11 DEF larger, smaller

----------------------------------------------------------------------------
(* Bodies. What was sent of a body, and what is left.                      *)

ContentOf(s) == {i \in DOMAIN s : s[i] >= 0}
SentOf(s) == {s[i] : i \in ContentOf(s)}
Ascending(s) == \A i, j \in ContentOf(s) : i < j => s[i] < s[j]

\* What stands between the parts is no content.
LEMMA MarkFacts ==
  ASSUME NEW s \in Seq(Int), NEW m \in Int, m < 0, NEW t, t = Append(s, m)
  PROVE  /\ t \in Seq(Int) /\ Len(t) = Len(s) + 1 /\ t # <<>>
         /\ t[1] = IF s = <<>> THEN m ELSE s[1]
         /\ SentOf(t) = SentOf(s) /\ (Ascending(s) => Ascending(t))
<1>1. t \in Seq(Int) /\ Len(t) = Len(s) + 1 /\ Len(s) \in Nat
  OBVIOUS
<1>2. \A i \in 1 .. Len(s) : t[i] = s[i]
  OBVIOUS
<1>3. t[Len(s) + 1] = m
  OBVIOUS
<1>4. t # <<>> /\ (s # <<>> => 1 \in 1 .. Len(s)) /\ (s = <<>> => Len(s) + 1 = 1)
  BY <1>1
<1>5. DOMAIN t = 1 .. Len(s) + 1 /\ DOMAIN s = 1 .. Len(s)
  BY <1>1
<1> DEFINE k == Len(s)
<1> HIDE DEF k
<1>6. ASSUME NEW i PROVE i \in ContentOf(t) <=> i \in ContentOf(s)
  <2>1. CASE i = Len(s) + 1
    BY <1>1, <1>3, <1>5, <2>1 DEF ContentOf
  <2>2. CASE i # Len(s) + 1
    BY <1>1, <1>2, <1>5, <2>2 DEF ContentOf
  <2> QED
    BY <2>1, <2>2
<1>7. ContentOf(t) = ContentOf(s)
  BY <1>6
<1>8. \A i \in ContentOf(s) : t[i] = s[i]
  BY <1>2, <1>5 DEF ContentOf
<1>9. SentOf(t) = SentOf(s) /\ (Ascending(s) => Ascending(t))
  BY <1>7, <1>8 DEF SentOf, Ascending
<1>10. t[1] = IF s = <<>> THEN m ELSE s[1]
  BY <1>2, <1>3, <1>4
<1> QED
  BY <1>1, <1>4, <1>9, <1>10

LEMMA ConcatIs ==
  ASSUME NEW S, NEW s \in Seq(S), NEW r \in Seq(S)
  PROVE  /\ s \o r \in Seq(S) /\ Len(s \o r) = Len(s) + Len(r)
         /\ \A i \in 1 .. Len(s) : (s \o r)[i] = s[i]
         /\ \A i \in Len(s) + 1 .. Len(s) + Len(r) : (s \o r)[i] = r[i - Len(s)]
<1>1. s \o r \in Seq(S) /\ Len(s \o r) = Len(s) + Len(r)
  OBVIOUS
<1>2. \A i \in 1 .. Len(s) : (s \o r)[i] = s[i]
  OBVIOUS
<1>3. \A i \in Len(s) + 1 .. Len(s) + Len(r) : (s \o r)[i] = r[i - Len(s)]
  OBVIOUS
<1> QED
  BY <1>1, <1>2, <1>3

\* A run of bytes after those that were sent.
IsRun(s, a, b, t) ==
  /\ t \in Seq(Int) /\ Len(t) = Len(s) + (b - a)
  /\ \A i \in 1 .. Len(s) : t[i] = s[i]
  /\ \A i \in Len(s) + 1 .. Len(s) + (b - a) : t[i] = a + (i - Len(s)) - 1

LEMMA RunIs ==
  ASSUME NEW s \in Seq(Int), NEW a \in Nat, NEW b \in Nat, a < b
  PROVE  IsRun(s, a, b, s \o [i \in 1 .. b - a |-> a + i - 1])
<1> DEFINE n == b - a
           run == [i \in 1 .. n |-> a + i - 1]
           l == Len(s)
<1>1. n \in Nat /\ n > 0 /\ l \in Nat
  OBVIOUS
<1>2. run \in [1 .. n -> Int] /\ \A i \in 1 .. n : run[i] = a + i - 1
  BY <1>1
<1> HIDE DEF n, run
<1>3. run \in Seq(Int) /\ Len(run) = n
  BY <1>1, <1>2, FunctionIsSeq
<1> DEFINE t == s \o run
<1>4. /\ t \in Seq(Int) /\ Len(t) = l + n
      /\ \A i \in 1 .. l : t[i] = s[i]
      /\ \A i \in l + 1 .. l + n : t[i] = run[i - l]
  BY <1>3, ConcatIs
<1> HIDE DEF t, l
<1>5. ASSUME NEW i \in l + 1 .. l + n PROVE t[i] = a + (i - l) - 1
  <2>1. i - l \in 1 .. n
    BY <1>1
  <2> QED
    BY <1>2, <1>4, <2>1
<1>6. IsRun(s, a, b, t)
  BY <1>4, <1>5 DEF IsRun, l, n
<1> QED
  BY <1>6 DEF t, run, n

LEMMA RunFacts ==
  ASSUME NEW s \in Seq(Int), NEW a \in Nat, NEW b \in Nat, a < b, Ascending(s),
         \A x \in SentOf(s) : x < a,
         NEW t, IsRun(s, a, b, t)
  PROVE  /\ t \in Seq(Int) /\ Len(t) = Len(s) + (b - a) /\ t # <<>>
         /\ t[1] = IF s = <<>> THEN a ELSE s[1]
         /\ SentOf(t) = SentOf(s) \cup a .. b - 1 /\ Ascending(t)
<1> DEFINE n == b - a
           l == Len(s)
<1>1. n \in Nat /\ n > 0 /\ l \in Nat
  OBVIOUS
<1>2. t \in Seq(Int) /\ Len(t) = l + n
  BY DEF IsRun
<1>3. \A i \in 1 .. l : t[i] = s[i]
  BY DEF IsRun
<1>4. ASSUME NEW i \in l + 1 .. l + n PROVE t[i] = a + (i - l) - 1
  BY DEF IsRun
<1>5. DOMAIN t = 1 .. l + n /\ DOMAIN s = 1 .. l
  BY <1>2
<1>6. t # <<>> /\ (s # <<>> => 1 \in 1 .. l) /\ (s = <<>> => l = 0)
  BY <1>1, <1>2
<1> HIDE DEF l, n
<1>7. t[1] = IF s = <<>> THEN a ELSE s[1]
  <2>1. CASE s = <<>>
    <3>1. 1 \in l + 1 .. l + n /\ l = 0
      BY <1>1, <1>6, <2>1
    <3> QED
      BY <1>4, <2>1, <3>1
  <2>2. CASE s # <<>>
    BY <1>3, <1>6, <2>2
  <2> QED
    BY <2>1, <2>2
<1>8. ASSUME NEW i PROVE i \in ContentOf(t) <=> i \in ContentOf(s) \/ i \in l + 1 .. l + n
  <2>1. CASE i \in 1 .. l
    BY <1>1, <1>3, <1>5, <2>1 DEF ContentOf
  <2>2. CASE i \in l + 1 .. l + n
    <3>1. t[i] >= 0 /\ i \in 1 .. l + n
      BY <1>1, <1>4, <2>2
    <3> QED
      BY <1>5, <2>2, <3>1 DEF ContentOf
  <2>3. CASE i \notin 1 .. l /\ i \notin l + 1 .. l + n
    <3>1. i \notin 1 .. l + n
      BY <1>1, <2>3
    <3> QED
      BY <1>5, <2>3, <3>1 DEF ContentOf
  <2> QED
    BY <2>1, <2>2, <2>3
<1>9. ASSUME NEW i \in ContentOf(s) PROVE i \in 1 .. l /\ t[i] = s[i] /\ s[i] < a /\ s[i] \in Int
  <2>1. i \in 1 .. l /\ s[i] \in SentOf(s)
    BY <1>5, Zenon DEF ContentOf, SentOf
  <2> QED
    BY <1>3, <2>1 DEF l
<1>10. Ascending(t)
  <2> SUFFICES ASSUME NEW i \in ContentOf(t), NEW j \in ContentOf(t), i < j PROVE t[i] < t[j]
    BY DEF Ascending
  <2>1. CASE i \in ContentOf(s) /\ j \in ContentOf(s)
    BY <1>9, <2>1 DEF Ascending
  <2>2. CASE i \in ContentOf(s) /\ j \in l + 1 .. l + n
    <3>1. t[i] < a /\ t[i] \in Int
      BY <1>9, <2>2
    <3>2. t[j] >= a /\ t[j] \in Int
      BY <1>1, <1>4, <2>2
    <3> QED
      BY <3>1, <3>2
  <2>3. CASE i \in l + 1 .. l + n /\ j \in ContentOf(s)
    BY <1>1, <1>9, <2>3
  <2>4. CASE i \in l + 1 .. l + n /\ j \in l + 1 .. l + n
    BY <1>1, <1>4, <2>4
  <2> QED
    BY <1>8, <2>1, <2>2, <2>3, <2>4
<1>11. ASSUME NEW x PROVE x \in SentOf(t) <=> x \in SentOf(s) \/ x \in a .. b - 1
  <2>1. ASSUME NEW i \in ContentOf(t), x = t[i] PROVE x \in SentOf(s) \/ x \in a .. b - 1
    <3>1. CASE i \in ContentOf(s)
      BY <1>9, <2>1, <3>1 DEF SentOf
    <3>2. CASE i \in l + 1 .. l + n
      BY <1>1, <1>4, <2>1, <3>2 DEF n
    <3> QED
      BY <1>8, <3>1, <3>2
  <2>2. ASSUME x \in SentOf(s) PROVE x \in SentOf(t)
    <3>1. PICK i \in ContentOf(s) : x = s[i]
      BY <2>2 DEF SentOf
    <3> QED
      BY <1>8, <1>9, <3>1 DEF SentOf
  <2>3. ASSUME x \in a .. b - 1 PROVE x \in SentOf(t)
    <3> DEFINE i == l + (x - a) + 1
    <3>1. i \in l + 1 .. l + n /\ a + (i - l) - 1 = x
      BY <1>1, <2>3 DEF n
    <3> HIDE DEF i
    <3>2. t[i] = x /\ i \in ContentOf(t)
      BY <1>4, <1>8, <3>1
    <3> QED
      BY <3>2 DEF SentOf
  <2> QED
    BY <2>1, <2>2, <2>3 DEF SentOf
<1>12. SentOf(t) = SentOf(s) \cup a .. b - 1
  BY <1>11
<1> QED
  BY <1>2, <1>6, <1>7, <1>10, <1>12 DEF l, n

LEMMA BytesOfTail ==
  ASSUME NEW size \in Nat, NEW p \in Seq(Spans(size)), p # <<>>
  PROVE  \A x : x \in Bytes(p) <=> x \in Span(p[1]) \/ x \in Bytes(Tail(p))
<1> DEFINE n == Len(p)
           t == Tail(p)
<1>1. /\ n \in Nat /\ n >= 1 /\ DOMAIN p = 1 .. n
      /\ t \in Seq(Spans(size)) /\ DOMAIN t = 1 .. n - 1
      /\ \A i \in 1 .. n - 1 : t[i] = p[i + 1]
  OBVIOUS
<1> HIDE DEF n, t
<1> SUFFICES ASSUME NEW x PROVE x \in Bytes(p) <=> x \in Span(p[1]) \/ x \in Bytes(t)
  BY DEF t
<1>2. x \in Bytes(p) <=> \E i \in 1 .. n : x \in Span(p[i])
  BY <1>1, BytesFacts
<1>3. x \in Bytes(t) <=> \E i \in 1 .. n - 1 : x \in Span(p[i + 1])
  BY <1>1, BytesFacts
<1>4. ASSUME NEW i \in 1 .. n, x \in Span(p[i]), i # 1 PROVE \E j \in 1 .. n - 1 : x \in Span(p[j + 1])
  <2>1. i - 1 \in 1 .. n - 1 /\ (i - 1) + 1 = i
    BY <1>1, <1>4
  <2> QED
    BY <1>4, <2>1
<1>5. ASSUME NEW i \in 1 .. n - 1, x \in Span(p[i + 1]) PROVE \E j \in 1 .. n : x \in Span(p[j])
  <2>1. i + 1 \in 1 .. n
    BY <1>1
  <2> QED
    BY <1>5, <2>1
<1>6. 1 \in 1 .. n
  BY <1>1
<1> QED
  BY <1>2, <1>3, <1>4, <1>5, <1>6

\* The ranges after the first one lie beyond it, and have gaps as well.
LEMMA TailIsBeyond ==
  ASSUME NEW size \in Nat, NEW p \in Seq(Spans(size)), p # <<>>, Gaps(p)
  PROVE  /\ Gaps(Tail(p))
         /\ \A x \in Bytes(Tail(p)) : x \in Int /\ p[1].end < x
<1> DEFINE n == Len(p)
           t == Tail(p)
<1>1. /\ n \in Nat /\ n >= 1 /\ Len(t) = n - 1
      /\ t \in Seq(Spans(size)) /\ DOMAIN t = 1 .. n - 1
      /\ \A i \in 1 .. n - 1 : t[i] = p[i + 1]
      /\ \A i \in 1 .. n : p[i] \in Spans(size)
  OBVIOUS
<1>2. \A i \in 2 .. n : p[i - 1].end < p[i].start
  BY DEF Gaps
<1> HIDE DEF n, t
<1>3. Gaps(t)
  <2> SUFFICES ASSUME NEW i \in 2 .. n - 1 PROVE t[i - 1].end < t[i].start
    BY <1>1 DEF Gaps
  <2>1. i + 1 \in 2 .. n /\ (i + 1) - 1 = i /\ i \in 1 .. n - 1 /\ i - 1 \in 1 .. n - 1 /\ (i - 1) + 1 = i
    BY <1>1
  <2>2. p[(i + 1) - 1].end < p[i + 1].start
    BY <1>2, <2>1
  <2>3. t[i] = p[i + 1] /\ t[i - 1] = p[i]
    BY <1>1, <2>1
  <2> QED
    BY <2>1, <2>2, <2>3
<1> DEFINE e == p[1].end
           S == {i \in 0 .. n - 1 : e <= p[i + 1].end}
<1>4. \A i \in 1 .. n : p[i].start \in Nat /\ p[i].end \in Nat /\ p[i].start < p[i].end
  BY <1>1, SpanFacts
<1>5. e \in Nat /\ 0 \in S
  BY <1>1, <1>4
<1>6. ASSUME NEW i \in 0 .. (n - 1) - 1, i \in S PROVE i + 1 \in S
  <2> DEFINE j == i + 1
             k == j + 1
  <2>1. j \in 0 .. n - 1 /\ j \in 1 .. n /\ k \in 2 .. n /\ k \in 1 .. n /\ k - 1 = j /\ e <= p[j].end
    BY <1>1, <1>6
  <2> HIDE DEF j
  <2>2. p[k - 1].end < p[k].start
    BY <1>2, <2>1
  <2>3. e <= p[k].end
    <3> HIDE DEF k, e
    <3> QED
      BY <1>4, <1>5, <2>1, <2>2
  <2>4. j \in S
    BY <2>1, <2>3
  <2> QED
    BY <2>4 DEF j
<1>7. 0 .. n - 1 \subseteq S
  <2> DEFINE M == n - 1
  <2>1. M \in Nat
    BY <1>1
  <2>2. \A i \in 0 .. M - 1 : i \in S => i + 1 \in S
    BY <1>6
  <2> HIDE DEF S, M
  <2>3. 0 .. M \subseteq S
    BY <1>5, <2>1, <2>2, InductionUpTo
  <2> QED
    BY <2>3 DEF M
<1>8. ASSUME NEW x \in Bytes(t) PROVE x \in Int /\ e < x
  <2>1. PICK i \in 1 .. n - 1 : x \in Span(t[i])
    BY <1>1, BytesFacts
  <2> DEFINE k == i + 1
  <2>2. k \in 2 .. n /\ k \in 1 .. n /\ k - 1 = i /\ t[i] = p[k] /\ i \in 1 .. n
    BY <1>1
  <2>3. e <= p[i].end
    <3>1. i - 1 \in 0 .. n - 1 /\ (i - 1) + 1 = i
      BY <1>1
    <3> HIDE DEF e
    <3> QED
      BY <1>7, <3>1
  <2> HIDE DEF k
  <2>4. p[i].end < p[k].start
    BY <1>2, <2>2
  <2>5. x \in Int /\ p[k].start <= x
    BY <1>1, <2>1, <2>2, SpanFacts
  <2> HIDE DEF e
  <2> QED
    BY <1>4, <1>5, <2>2, <2>3, <2>4, <2>5
<1> QED
  BY <1>3, <1>8 DEF t

\* A body under way: s was sent, of ranges p the first is at a.
MultiOf(s, p) == Len(p) > 1 \/ (s # <<>> /\ s[1] = PartHeader)
TodoOf(p, a) ==
  IF a.chunk = None THEN Bytes(p) ELSE (a.offset .. p[1].end - 1) \cup Bytes(Tail(p))

\* The length of what is left, with the part that is being sent, and of what of that was sent.
LeftOf(p, multi) ==
  IF multi THEN multipart_length(p) ELSE IF p = <<>> THEN 0 ELSE p[1].end - p[1].start
GoneOf(p, a, multi) ==
  IF a.chunk = None THEN 0 ELSE (a.offset - p[1].start) + IF multi THEN 1 ELSE 0

Fits(size, s, p, a) ==
  /\ p \in Seq(Spans(size)) /\ Gaps(p) /\ s \in Seq(Int)
  /\ a \in [offset : Nat, chunk : {None} \cup Nat]
  /\ a.chunk # None => p # <<>> /\ p[1].start <= a.offset /\ a.offset <= p[1].end

\* What was sent comes before what is left, and together they are all.
Splits(all, s, p, a) ==
  /\ Ascending(s)
  /\ \A x : x \in all <=> x \in SentOf(s) \/ x \in TodoOf(p, a)
  /\ \A x \in SentOf(s), y \in TodoOf(p, a) : x < y

\* A body of several parts begins with the header of one.
Marked(s, p, a) ==
  Len(p) > 1 /\ (s # <<>> \/ a.chunk # None) => s # <<>> /\ s[1] = PartHeader

Counts(length, s, p, a) ==
  Len(s) + LeftOf(p, MultiOf(s, p)) - GoneOf(p, a, MultiOf(s, p)) = length

Streams(size, all, length, s, p, a) ==
  Fits(size, s, p, a) /\ Splits(all, s, p, a) /\ Marked(s, p, a) /\ Counts(length, s, p, a)

\* The header of the next part, or nothing for a single range.
LEMMA StartStreams ==
  ASSUME NEW size \in Nat, NEW all, NEW length, NEW s, NEW p, NEW a,
         Streams(size, all, length, s, p, a), p # <<>>, a.chunk = None,
         NEW b \in [offset : Nat, chunk : Nat], b.offset = p[1].start,
         NEW t, t = IF MultiOf(s, p) THEN Append(s, PartHeader) ELSE s
  PROVE  Streams(size, all, length, t, p, b)
<1> DEFINE multi == MultiOf(s, p)
<1>1. /\ p \in Seq(Spans(size)) /\ Gaps(p) /\ s \in Seq(Int) /\ p[1] \in Spans(size)
      /\ Len(s) \in Nat /\ b.chunk # None
  BY NoneFacts DEF Streams, Fits
<1>2. p[1].start \in Nat /\ p[1].end \in Nat /\ p[1].start < p[1].end
  BY <1>1, SpanFacts
<1>3. /\ t \in Seq(Int) /\ SentOf(t) = SentOf(s) /\ (Ascending(s) => Ascending(t))
      /\ Len(t) = Len(s) + IF multi THEN 1 ELSE 0
      /\ multi => t # <<>> /\ t[1] = IF s = <<>> THEN PartHeader ELSE s[1]
      /\ ~multi => t = s
  <2>1. CASE multi
    <3>1. t = Append(s, PartHeader) /\ PartHeader \in Int /\ PartHeader < 0
      BY <2>1 DEF PartHeader
    <3>2. /\ t \in Seq(Int) /\ Len(t) = Len(s) + 1 /\ t # <<>>
          /\ t[1] = IF s = <<>> THEN PartHeader ELSE s[1]
          /\ SentOf(t) = SentOf(s) /\ (Ascending(s) => Ascending(t))
      <4> HIDE DEF multi
      <4> QED
        BY <1>1, <3>1, MarkFacts
    <3> HIDE DEF multi
    <3> QED
      BY <2>1, <3>2
  <2>2. CASE ~multi
    BY <1>1, <2>2
  <2> QED
    BY <2>1, <2>2
<1>4. Fits(size, t, p, b)
  <2>1. b \in [offset : Nat, chunk : {None} \cup Nat]
    OBVIOUS
  <2> QED
    BY <1>1, <1>2, <1>3, <2>1 DEF Fits
<1>5. multi => t # <<>> /\ t[1] = PartHeader
  <2>1. multi => s = <<>> \/ s[1] = PartHeader
    BY DEF Streams, Marked, MultiOf
  <2> QED
    BY <1>3, <2>1
<1>6. MultiOf(t, p) <=> multi
  BY <1>3, <1>5 DEF MultiOf
<1>7. Marked(t, p, b)
  BY <1>5 DEF Marked, MultiOf
<1>8. \A x : x \in TodoOf(p, b) <=> x \in TodoOf(p, a)
  <2>1. TodoOf(p, a) = Bytes(p)
    BY DEF TodoOf
  <2>2. TodoOf(p, b) = (p[1].start .. p[1].end - 1) \cup Bytes(Tail(p))
    BY <1>1 DEF TodoOf
  <2>3. \A x : x \in Bytes(p) <=> x \in Span(p[1]) \/ x \in Bytes(Tail(p))
    BY <1>1, BytesOfTail
  <2> QED
    BY <2>1, <2>2, <2>3 DEF Span
<1>9. Splits(all, t, p, b)
  BY <1>3, <1>8 DEF Streams, Splits
<1>10. Counts(length, t, p, b)
  <2> DEFINE left == LeftOf(p, multi)
             g == IF multi THEN 1 ELSE 0
  <2>1. left \in Int
    BY <1>1, <1>2, LengthFacts DEF LeftOf
  <2>2. Len(s) + left - 0 = length
    BY DEF Streams, Counts, GoneOf
  <2>3. GoneOf(p, b, multi) = (p[1].start - p[1].start) + g
    BY <1>1 DEF GoneOf
  <2>4. Len(t) = Len(s) + g /\ g \in Int
    BY <1>3
  <2> HIDE DEF g, multi
  <2>5. GoneOf(p, b, multi) = g
    BY <1>2, <2>3, <2>4
  <2>6. Len(t) + left - GoneOf(p, b, multi) = length
    <3> DEFINE k == Len(s)
               j == Len(t)
    <3>1. k \in Nat /\ k + left - 0 = length /\ j = k + g
      BY <1>1, <2>2, <2>4
    <3> HIDE DEF left, k, j
    <3>2. j + left - g = length
      BY <2>1, <2>4, <3>1
    <3> QED
      BY <2>5, <3>2 DEF j
  <2>7. MultiOf(t, p) = multi
    BY <1>6 DEF multi, MultiOf
  <2> QED
    BY <2>6, <2>7 DEF Counts
<1> QED
  BY <1>4, <1>7, <1>9, <1>10 DEF Streams

\* A leaf that is what comes next.
LEMMA LeafStreams ==
  ASSUME NEW size \in Nat, NEW all, NEW length, NEW s, NEW p, NEW a,
         Streams(size, all, length, s, p, a), a.chunk # None,
         NEW b \in [offset : Nat, chunk : Nat], a.offset < b.offset, b.offset <= p[1].end,
         NEW t, IsRun(s, a.offset, b.offset, t)
  PROVE  Streams(size, all, length, t, p, b)
<1> DEFINE multi == MultiOf(s, p)
           m == a.offset
           n == b.offset
<1>1. /\ p \in Seq(Spans(size)) /\ Gaps(p) /\ s \in Seq(Int) /\ p # <<>> /\ p[1] \in Spans(size)
      /\ Len(s) \in Nat /\ b.chunk # None /\ m \in Nat /\ n \in Nat /\ p[1].start <= m
  BY NoneFacts DEF Streams, Fits
<1>2. p[1].start \in Nat /\ p[1].end \in Nat /\ p[1].start < p[1].end
  BY <1>1, SpanFacts
<1> DEFINE e == p[1].end
<1>3. \A x \in Bytes(Tail(p)) : x \in Int /\ e < x
  BY <1>1, TailIsBeyond
<1>4. TodoOf(p, a) = (m .. e - 1) \cup Bytes(Tail(p)) /\ TodoOf(p, b) = (n .. e - 1) \cup Bytes(Tail(p))
  BY <1>1 DEF TodoOf
<1> HIDE DEF m, n, e
<1>5. m < n /\ n <= e /\ e \in Nat
  BY <1>2 DEF m, n, e
<1>6. \A x \in SentOf(s) : x < m
  <2>1. m \in TodoOf(p, a)
    BY <1>1, <1>4, <1>5
  <2> QED
    BY <2>1 DEF Streams, Splits
<1>7. /\ t \in Seq(Int) /\ Len(t) = Len(s) + (n - m) /\ t # <<>>
      /\ t[1] = IF s = <<>> THEN m ELSE s[1]
      /\ SentOf(t) = SentOf(s) \cup m .. n - 1 /\ Ascending(t)
  <2>1. IsRun(s, m, n, t) /\ Ascending(s)
    BY DEF m, n, Streams, Splits
  <2> QED
    BY <1>1, <1>5, <1>6, <2>1, RunFacts
<1>8. Fits(size, t, p, b)
  <2>1. b \in [offset : Nat, chunk : {None} \cup Nat]
    OBVIOUS
  <2>2. p[1].start <= b.offset /\ b.offset <= p[1].end
    BY <1>1, <1>2, <1>5 DEF m, n
  <2> QED
    BY <1>1, <1>7, <2>1, <2>2 DEF Fits
<1>9. ASSUME NEW x PROVE x \in all <=> x \in SentOf(t) \/ x \in TodoOf(p, b)
  <2>1. x \in m .. e - 1 <=> x \in m .. n - 1 \/ x \in n .. e - 1
    BY <1>1, <1>5
  <2>2. x \in all <=> x \in SentOf(s) \/ x \in TodoOf(p, a)
    BY DEF Streams, Splits
  <2> QED
    BY <1>4, <1>7, <2>1, <2>2
<1>10. ASSUME NEW x \in SentOf(t), NEW y \in TodoOf(p, b) PROVE x < y
  <2>1. y \in TodoOf(p, a)
    BY <1>1, <1>4, <1>5
  <2>2. CASE x \in SentOf(s)
    BY <2>1, <2>2 DEF Streams, Splits
  <2>3. CASE x \in m .. n - 1
    <3>1. y \in Int /\ n <= y
      BY <1>1, <1>3, <1>4, <1>5
    <3> QED
      BY <1>1, <2>3, <3>1
  <2> QED
    BY <1>7, <2>2, <2>3
<1>11. Splits(all, t, p, b)
  BY <1>7, <1>9, <1>10 DEF Splits
<1>12. s = <<>> => ~multi
  BY DEF Streams, Marked, MultiOf
<1>13. PartHeader # m
  BY <1>1 DEF PartHeader
<1>14. MultiOf(t, p) <=> multi
  <2>1. CASE s = <<>>
    <3>1. t[1] # PartHeader
      BY <1>7, <1>13, <2>1
    <3> QED
      BY <1>12, <2>1, <3>1 DEF MultiOf
  <2>2. CASE s # <<>>
    BY <1>7, <2>2 DEF MultiOf
  <2> QED
    BY <2>1, <2>2
<1>15. Marked(t, p, b)
  BY <1>7, <1>12 DEF Streams, Marked, MultiOf
<1>16. Counts(length, t, p, b)
  <2> DEFINE left == LeftOf(p, multi)
             g == IF multi THEN 1 ELSE 0
             d == p[1].start
  <2>1. left \in Int
    BY <1>1, <1>2, LengthFacts DEF LeftOf
  <2>2. GoneOf(p, a, multi) = (m - d) + g /\ GoneOf(p, b, multi) = (n - d) + g
    BY <1>1 DEF GoneOf, m, n
  <2>3. Len(s) + left - GoneOf(p, a, multi) = length
    BY DEF Streams, Counts
  <2>4. g \in Int /\ d \in Nat
    BY <1>2
  <2>5. MultiOf(t, p) = multi
    BY <1>14 DEF MultiOf
  <2> HIDE DEF g, multi, d, left
  <2>6. Len(t) + left - GoneOf(p, b, multi) = length
    BY <1>1, <1>7, <2>1, <2>2, <2>3, <2>4
  <2> QED
    BY <2>5, <2>6 DEF Counts, left
<1> QED
  BY <1>8, <1>11, <1>15, <1>16 DEF Streams

\* The end of a range, all of which was sent.
LEMMA EndStreams ==
  ASSUME NEW size \in Nat, NEW all, NEW length, NEW s, NEW p, NEW a,
         Streams(size, all, length, s, p, a), a.chunk # None, a.offset = p[1].end,
         NEW b \in [offset : Nat, chunk : {None}],
         NEW t, t = IF MultiOf(s, p) THEN Append(s, Crlf) ELSE s,
         NEW q, q = Tail(p)
  PROVE  Streams(size, all, length, t, q, b)
<1> DEFINE multi == MultiOf(s, p)
<1>1. /\ p \in Seq(Spans(size)) /\ Gaps(p) /\ s \in Seq(Int) /\ p # <<>> /\ p[1] \in Spans(size)
      /\ Len(s) \in Nat /\ b.chunk = None
  BY DEF Streams, Fits
<1>2. p[1].start \in Nat /\ p[1].end \in Nat /\ p[1].start < p[1].end
  BY <1>1, SpanFacts
<1>3. /\ t \in Seq(Int) /\ SentOf(t) = SentOf(s) /\ (Ascending(s) => Ascending(t))
      /\ Len(t) = Len(s) + IF multi THEN 1 ELSE 0
      /\ multi => t # <<>> /\ (s # <<>> => t[1] = s[1])
      /\ ~multi => t = s
  <2>1. CASE multi
    <3>1. t = Append(s, Crlf) /\ Crlf \in Int /\ Crlf < 0
      BY <2>1 DEF Crlf
    <3>2. /\ t \in Seq(Int) /\ Len(t) = Len(s) + 1 /\ t # <<>>
          /\ t[1] = IF s = <<>> THEN Crlf ELSE s[1]
          /\ SentOf(t) = SentOf(s) /\ (Ascending(s) => Ascending(t))
      <4> HIDE DEF multi
      <4> QED
        BY <1>1, <3>1, MarkFacts
    <3> HIDE DEF multi
    <3> QED
      BY <2>1, <3>2
  <2>2. CASE ~multi
    BY <1>1, <2>2
  <2> QED
    BY <2>1, <2>2
<1>4. q \in Seq(Spans(size)) /\ Gaps(q) /\ Len(q) = Len(p) - 1 /\ Len(p) \in Nat
  BY <1>1, TailIsBeyond
<1>5. Fits(size, t, q, b)
  <2>1. b \in [offset : Nat, chunk : {None} \cup Nat]
    OBVIOUS
  <2> QED
    BY <1>1, <1>3, <1>4, <2>1 DEF Fits
<1>6. multi => s # <<>> /\ s[1] = PartHeader
  BY DEF Streams, Marked, MultiOf
<1>7. ~multi => q = <<>> /\ Len(p) = 1 /\ ~ (s # <<>> /\ s[1] = PartHeader)
  <2>1. ~multi => ~ (Len(p) > 1) /\ ~ (s # <<>> /\ s[1] = PartHeader)
    BY DEF MultiOf
  <2> HIDE DEF multi
  <2>2. Len(p) # 0
    BY <1>1
  <2> QED
    BY <1>4, <2>1, <2>2
<1>8. multi => t # <<>> /\ t[1] = PartHeader
  BY <1>3, <1>6
<1>9. MultiOf(t, q) <=> multi
  <2>1. CASE multi
    BY <1>8, <2>1 DEF MultiOf
  <2>2. CASE ~multi
    <3>1. t = s /\ Len(q) = 0
      BY <1>3, <1>7, <2>2
    <3> QED
      BY <1>7, <2>2, <3>1 DEF MultiOf
  <2> QED
    BY <2>1, <2>2
<1>10. Marked(t, q, b)
  <2>1. ~multi => ~ (Len(q) > 1)
    <3>1. ~multi => q = <<>>
      BY <1>7
    <3>2. Len(<<>>) = 0 /\ ~ (0 > 1)
      OBVIOUS
    <3> HIDE DEF multi
    <3> QED
      BY <3>1, <3>2, Zenon
  <2> HIDE DEF multi
  <2>2. Len(q) > 1 => t # <<>> /\ t[1] = PartHeader
    BY <1>8, <2>1, Zenon
  <2> QED
    BY <2>2, Zenon DEF Marked
<1>11. TodoOf(q, b) = TodoOf(p, a)
  <2>1. TodoOf(p, a) = (p[1].end .. p[1].end - 1) \cup Bytes(q)
    BY DEF TodoOf
  <2>2. TodoOf(q, b) = Bytes(q)
    BY <1>1 DEF TodoOf
  <2>3. p[1].end .. p[1].end - 1 = {}
    BY <1>2
  <2> QED
    BY <2>1, <2>2, <2>3
<1>12. Splits(all, t, q, b)
  BY <1>3, <1>11 DEF Streams, Splits
<1>13. Counts(length, t, q, b)
  <2> DEFINE k == Len(s)
             j == Len(t)
             d == p[1].end - p[1].start
  <2>1. d \in Int /\ k \in Nat
    BY <1>1, <1>2
  <2>2. k + LeftOf(p, multi) - GoneOf(p, a, multi) = length
    BY DEF Streams, Counts
  <2>3. GoneOf(p, a, multi) = d + IF multi THEN 1 ELSE 0
    BY DEF GoneOf
  <2>4. j = k + IF multi THEN 1 ELSE 0
    BY <1>3
  <2>5. GoneOf(q, b, multi) = 0
    BY <1>1 DEF GoneOf
  <2>6. CASE multi
    <3> DEFINE u == multipart_length(p)
               v == multipart_length(q)
    <3>1. u = v + d + 2 /\ v \in Int
      BY <1>1, <1>4, LengthFacts
    <3>2. LeftOf(p, multi) = u /\ LeftOf(q, multi) = v
      BY <2>6 DEF LeftOf
    <3>3. k + u - (d + 1) = length /\ j = k + 1
      BY <2>2, <2>3, <2>4, <2>6, <3>2
    <3> HIDE DEF k, j, u, v, d
    <3>4. j + v - 0 = length
      BY <2>1, <3>1, <3>3
    <3>5. j + LeftOf(q, multi) - GoneOf(q, b, multi) = length
      BY <2>5, <3>2, <3>4
    <3>6. MultiOf(t, q) = multi
      BY <1>9 DEF MultiOf
    <3> HIDE DEF multi
    <3> QED
      BY <3>5, <3>6 DEF Counts, j
  <2>7. CASE ~multi
    <3>1. LeftOf(p, multi) = d /\ LeftOf(q, multi) = 0
      BY <1>1, <1>7, <2>7 DEF LeftOf
    <3>2. k + d - (d + 0) = length /\ j = k + 0
      BY <2>2, <2>3, <2>4, <2>7, <3>1
    <3> HIDE DEF k, j, d
    <3>3. j + 0 - 0 = length
      BY <2>1, <3>2
    <3>4. j + LeftOf(q, multi) - GoneOf(q, b, multi) = length
      BY <2>5, <3>1, <3>3
    <3>5. MultiOf(t, q) = multi
      BY <1>9 DEF MultiOf
    <3> HIDE DEF multi
    <3> QED
      BY <3>4, <3>5 DEF Counts, j
  <2> QED
    BY <2>6, <2>7
<1> QED
  BY <1>5, <1>10, <1>12, <1>13 DEF Streams

\* The end of the body.
Ends(size, all, length, s, p, a) ==
  Fits(size, s, p, a) /\ Splits(all, s, p, a) /\ Len(s) = length

LEMMA LastStreams ==
  ASSUME NEW size \in Nat, NEW all, NEW length, NEW s, NEW p, NEW a,
         Streams(size, all, length, s, p, a), Len(p) = 0,
         NEW t, t = IF MultiOf(s, p) THEN Append(s, Closing) ELSE s
  PROVE  Ends(size, all, length, t, p, a)
<1> DEFINE multi == MultiOf(s, p)
<1>1. /\ p \in Seq(Spans(size)) /\ s \in Seq(Int) /\ Len(s) \in Nat /\ a.chunk = None
      /\ p = <<>>
  BY DEF Streams, Fits
<1>2. /\ t \in Seq(Int) /\ SentOf(t) = SentOf(s) /\ (Ascending(s) => Ascending(t))
      /\ Len(t) = Len(s) + IF multi THEN 1 ELSE 0
  <2>1. CASE multi
    <3>1. t = Append(s, Closing) /\ Closing \in Int /\ Closing < 0
      BY <2>1 DEF Closing
    <3>2. /\ t \in Seq(Int) /\ Len(t) = Len(s) + 1
          /\ SentOf(t) = SentOf(s) /\ (Ascending(s) => Ascending(t))
      <4> HIDE DEF multi
      <4> QED
        BY <1>1, <3>1, MarkFacts
    <3> HIDE DEF multi
    <3> QED
      BY <2>1, <3>2
  <2>2. CASE ~multi
    BY <1>1, <2>2
  <2> QED
    BY <2>1, <2>2
<1>3. Fits(size, t, p, a)
  BY <1>2 DEF Streams, Fits
<1>4. Splits(all, t, p, a)
  BY <1>2 DEF Streams, Splits
<1>5. LeftOf(p, multi) = IF multi THEN 1 ELSE 0
  <2>1. multipart_length(p) = 1
    BY <1>1, LengthFacts
  <2> QED
    BY <2>1 DEF LeftOf
<1>6. Len(s) + LeftOf(p, multi) - 0 = length
  BY <1>1 DEF Streams, Counts, GoneOf
<1> DEFINE k == Len(s)
           j == Len(t)
           g == IF multi THEN 1 ELSE 0
<1>7. k \in Nat /\ g \in Int /\ k + g - 0 = length /\ j = k + g
  BY <1>1, <1>2, <1>5, <1>6
<1> HIDE DEF k, j, g
<1>8. j = length
  BY <1>7
<1> QED
  BY <1>3, <1>4, <1>8 DEF j, Ends

\* The beginning of a body.
LEMMA NewStreams ==
  ASSUME NEW size \in Nat, NEW p \in Seq(Spans(size)), p # <<>>, Gaps(p),
         NEW a, a = [offset |-> 0, chunk |-> None],
         NEW all, \A x : x \in all <=> x \in Bytes(p)
  PROVE  Streams(size, all, LengthOf(p), <<>>, p, a)
<1>1. a.chunk = None /\ a \in [offset : Nat, chunk : {None} \cup Nat]
  OBVIOUS
<1>2. SentOf(<<>>) = {} /\ Ascending(<<>>)
  BY DEF SentOf, ContentOf, Ascending
<1>3. Fits(size, <<>>, p, a)
  BY <1>1 DEF Fits
<1>4. Splits(all, <<>>, p, a)
  BY <1>1, <1>2 DEF Splits, TodoOf
<1>5. Marked(<<>>, p, a)
  BY <1>1 DEF Marked
<1>6. MultiOf(<<>>, p) <=> Len(p) > 1
  BY DEF MultiOf
<1>7. LengthOf(p) = LeftOf(p, MultiOf(<<>>, p)) /\ GoneOf(p, a, MultiOf(<<>>, p)) = 0
  BY <1>1, <1>6 DEF LengthOf, LeftOf, GoneOf
<1>8. LengthOf(p) \in Int
  <2>1. p[1] \in Spans(size)
    OBVIOUS
  <2>2. p[1].start \in Nat /\ p[1].end \in Nat
    BY <2>1, SpanFacts
  <2> QED
    BY <2>2, LengthFacts DEF LengthOf
<1>9. Counts(LengthOf(p), <<>>, p, a)
  <2> DEFINE n == LengthOf(p)
  <2>1. Len(<<>>) = 0
    OBVIOUS
  <2> HIDE DEF n
  <2>2. 0 + n - 0 = n
    BY <1>8 DEF n
  <2> QED
    BY <1>7, <2>1, <2>2 DEF Counts, n
<1> QED
  BY <1>3, <1>4, <1>5, <1>9 DEF Streams
----------------------------------------------------------------------------
(* What is sent of a blob.                                                 *)

AllOf(r) == IF r.status = 200 THEN 0 .. r.size - 1 ELSE Asked(r, r.size)

Heads == {"status", "kind", "cache", "blob", "size", "asked", "length"}
Headed(r) ==
  /\ Heads \subseteq DOMAIN r /\ r.blob \in Blob /\ r.size = Size[r.blob]
  /\ r.status = 206 => \A i \in DOMAIN r.asked : WellFormed(r.asked[i])
  /\ r.status = 416 => Asked(r, r.size) = {}

Idle == body = <<>> /\ parts = <<>> /\ at = [offset |-> 0, chunk |-> None]

\* What holds of a response, by its kind.
StreamInv ==
  /\ response.kind \in {"pending", "blob"} => Idle
  /\ response.kind \in {"head", "sending", "sent", "cut"} => Headed(response)
  /\ response.kind = "head" => response.status # 206
  /\ response.kind \in {"sending", "cut"} =>
       Streams(response.size, AllOf(response), response.length, body, parts, at)
  /\ response.kind = "sent" =>
       /\ Fits(response.size, body, parts, at) /\ Splits(AllOf(response), body, parts, at)
       /\ parts = <<>> /\ Len(body) = response.length

\* A response of another kind with the same headers.
LEMMA OtherKind ==
  ASSUME NEW r, Headed(r), NEW k, NEW q, q = [r EXCEPT !.kind = k]
  PROVE  /\ Headed(q) /\ q.kind = k
         /\ q.size = r.size /\ q.length = r.length /\ AllOf(q) = AllOf(r)
<1>1. Heads \subseteq DOMAIN r
  BY DEF Headed
<1>2. DOMAIN q = DOMAIN r
  OBVIOUS
<1>3. q.kind = k
  BY <1>1, Zenon DEF Heads
<1>4. /\ q.status = r.status /\ q.cache = r.cache /\ q.blob = r.blob /\ q.size = r.size
      /\ q.asked = r.asked /\ q.length = r.length
  BY <1>1, Zenon DEF Heads
<1>5. Asked(q, q.size) = Asked(r, r.size)
  BY <1>4, Zenon DEF Asked
<1>6. AllOf(q) = AllOf(r)
  BY <1>4, <1>5, Zenon DEF AllOf
<1>7. Heads \subseteq DOMAIN q
  BY <1>1, <1>2, Zenon
<1>8. q.status = 206 => \A i \in DOMAIN q.asked : WellFormed(q.asked[i])
  BY <1>4, Zenon DEF Headed
<1>9. q.blob \in Blob /\ q.size = Size[q.blob] /\ (q.status = 416 => Asked(q, q.size) = {})
  BY <1>4, <1>5, Zenon DEF Headed
<1>10. Headed(q)
  BY <1>7, <1>8, <1>9, Zenon DEF Headed
<1> QED
  BY <1>3, <1>4, <1>6, <1>10, Zenon

LEMMA ReplyFacts ==
  ASSUME NEW status, NEW kind, NEW cache, NEW size, NEW asked, NEW length,
         NEW r, r = Reply(status, kind, cache, size, asked, length)
  PROVE  /\ Heads \subseteq DOMAIN r /\ r.status = status /\ r.kind = kind /\ r.size = size
         /\ r.blob = response.blob /\ r.asked = asked /\ r.length = length
BY DEF Reply, Heads

LEMMA ServeBlobStreams ==
  ASSUME Inv, StreamInv, NEW size \in Sizes, NEW method \in {"GET", "HEAD"}, NEW has \in BOOLEAN,
         NEW header \in Headers, ServeBlob(size, method, has, header)
  PROVE  StreamInv'
<1> DEFINE selection == Chosen(size, method, header)
           asked == IF method = "HEAD" THEN None ELSE header
           b == response.blob
<1>1. /\ body' = <<>> /\ at' = [offset |-> 0, chunk |-> None] /\ parts = <<>>
      /\ response.kind = "blob" /\ size \in sniff(b)
  <2>1. UNCHANGED <<target, request, body, at>> /\ response.kind = "blob" /\ size \in sniff(b)
    BY DEF ServeBlob
  <2> QED
    BY <2>1 DEF StreamInv, Idle
<1>2. b \in Blob
  <2>1. FromRoute
    BY <1>1 DEF FromRoute
  <2>2. PICK named \in Targets : request.url \in URLs /\ response \in Route(request.url, named)
    BY <2>1, AnswerNow
  <2> QED
    BY <1>1, <2>2, AnswerFacts
<1>3. size = Size[b] /\ size \in Nat
  BY <1>1, <1>2, SizeIsVerified, RangesAssumption DEF Sizes
<1>4. \/ /\ response' = Reply(304, "head", response.cache, size, None, size)
         /\ UNCHANGED parts
      \/ /\ selection = Unsatisfiable
         /\ response' = Reply(416, "head", "no-store", size, asked, size)
         /\ UNCHANGED parts
      \/ response' = Error(400) /\ UNCHANGED parts
      \/ /\ selection # Unsatisfiable
         /\ response' = Reply(IF selection = Full THEN 200 ELSE 206,
              IF Bodiless(size, method, selection) THEN "head" ELSE "sending",
              response.cache, size, asked, LengthOf(RangesOf(selection, size)))
         /\ parts' = IF Bodiless(size, method, selection) THEN <<>>
                     ELSE RangesOf(selection, size)
  <2> HIDE DEF selection
  <2>1. selection = Chosen(size, method, header)
    BY DEF selection
  <2> QED
    BY <2>1, ServeBlobFacts
<1>5. selection # Full => method # "HEAD" /\ asked = header /\ header \in Seq(Parts)
      /\ selection = select(header, size)
  BY HeadersAssumption DEF Chosen
<1>6. \/ selection = Full
      \/ selection = Unsatisfiable /\ Names416(header, size)
      \/ \E ranges : selection = Partial(ranges) /\ Names206(header, size, ranges)
  <2>1. CASE selection = Full
    BY <2>1
  <2>2. CASE selection # Full
    <3>1. header \in Seq(Parts) /\ selection = select(header, size)
      BY <1>5, <2>2
    <3> HIDE DEF selection
    <3> QED
      BY <2>2, <3>1, SelectFacts
  <2> QED
    BY <2>1, <2>2
<1> HIDE DEF selection, asked
<1>7. CASE response' = Reply(304, "head", response.cache, size, None, size)
  <2>1. /\ Heads \subseteq DOMAIN response' /\ response'.status = 304 /\ response'.kind = "head"
        /\ response'.size = size /\ response'.blob = b
    BY <1>7, ReplyFacts
  <2> QED
    BY <1>2, <1>3, <2>1 DEF StreamInv, Headed
<1>8. CASE /\ selection = Unsatisfiable
           /\ response' = Reply(416, "head", "no-store", size, asked, size)
  <2>1. /\ Heads \subseteq DOMAIN response' /\ response'.status = 416 /\ response'.kind = "head"
        /\ response'.size = size /\ response'.blob = b /\ response'.asked = asked
    BY <1>8, ReplyFacts
  <2>2. selection # Full /\ \A ranges : selection # Partial(ranges)
    BY <1>8, KindsDiffer
  <2>3. asked = header /\ Names416(header, size)
    BY <1>5, <1>6, <2>2
  <2>4. Asked(response', response'.size) = {}
    BY <2>1, <2>3 DEF Names416, Asked
  <2> QED
    BY <1>2, <1>3, <2>1, <2>4 DEF StreamInv, Headed
<1>9. CASE response' = Error(400)
  <2>1. response'.kind = "error"
    BY <1>9 DEF Error
  <2> QED
    BY <2>1 DEF StreamInv
<1>10. CASE /\ selection # Unsatisfiable
            /\ response' = Reply(IF selection = Full THEN 200 ELSE 206,
                 IF Bodiless(size, method, selection) THEN "head" ELSE "sending",
                 response.cache, size, asked, LengthOf(RangesOf(selection, size)))
            /\ parts' = IF Bodiless(size, method, selection) THEN <<>>
                        ELSE RangesOf(selection, size)
  <2> DEFINE ranges == RangesOf(selection, size)
             bodiless == Bodiless(size, method, selection)
             status == IF selection = Full THEN 200 ELSE 206
             kind == IF bodiless THEN "head" ELSE "sending"
             length == LengthOf(ranges)
  <2>1. /\ response' = Reply(status, kind, response.cache, size, asked, length)
        /\ parts' = IF bodiless THEN <<>> ELSE ranges
    BY <1>10
  <2>2. bodiless => selection = Full
    BY <1>5 DEF Bodiless
  <2>3. kind = IF bodiless THEN "head" ELSE "sending"
    OBVIOUS
  <2> HIDE DEF bodiless, kind, length, ranges
  <2>4. /\ Heads \subseteq DOMAIN response' /\ response'.status = status /\ response'.kind = kind
        /\ response'.size = size /\ response'.blob = b /\ response'.asked = asked
        /\ response'.length = length
    <3> HIDE DEF status
    <3> QED
      BY <2>1, ReplyFacts
  <2>5. CASE bodiless
    <3>1. response'.kind = "head" /\ response'.status = 200
      BY <2>2, <2>3, <2>4, <2>5
    <3> QED
      BY <1>2, <1>3, <2>4, <3>1 DEF StreamInv, Headed
  <2>6. CASE ~bodiless
    <3>1. response'.kind = "sending" /\ parts' = ranges
      BY <2>1, <2>3, <2>4, <2>6
    <3>2. /\ ranges \in Seq(Spans(size)) /\ ranges # <<>> /\ Gaps(ranges)
          /\ \A x : x \in AllOf(response') <=> x \in Bytes(ranges)
          /\ response'.status = 206 => \A i \in DOMAIN response'.asked : WellFormed(response'.asked[i])
      <4>1. CASE selection = Full
        <5> DEFINE r == [start |-> 0, end |-> size]
        <5>1. ranges = <<r>> /\ size # 0 /\ response'.status = 200
          BY <2>4, <2>6, <4>1 DEF ranges, RangesOf, bodiless, Bodiless
        <5>2. r \in Spans(size) /\ r.start = 0 /\ r.end = size
          BY <1>3, <5>1, NewSpan
        <5> HIDE DEF r
        <5>3. ranges \in Seq(Spans(size)) /\ ranges # <<>> /\ DOMAIN ranges = {1} /\ ranges[1] = r /\ Len(ranges) = 1
          BY <5>1, <5>2
        <5>4. Gaps(ranges)
          BY <5>3 DEF Gaps
        <5>5. \A x : x \in Bytes(ranges) <=> x \in Span(r)
          BY <5>3, BytesFacts
        <5>6. AllOf(response') = 0 .. size - 1 /\ Span(r) = 0 .. size - 1
          BY <2>4, <5>1, <5>2 DEF AllOf, Span
        <5> QED
          BY <5>1, <5>3, <5>4, <5>5, <5>6
      <4>2. CASE selection # Full
        <5>1. PICK m : selection = Partial(m) /\ Names206(header, size, m)
          BY <1>6, <1>10, <4>2
        <5>2. ranges = m
          BY <4>2, <5>1, KindsDiffer DEF ranges, RangesOf
        <5>3. response'.status = 206 /\ response'.asked = header
          BY <1>5, <2>4, <4>2
        <5>4. AllOf(response') = UNION {Named(header[i], size) : i \in DOMAIN header}
          BY <2>4, <5>3 DEF AllOf, Asked
        <5> QED
          BY <5>1, <5>2, <5>3, <5>4 DEF Names206
      <4> QED
        BY <4>1, <4>2
    <3>3. Streams(size, AllOf(response'), length, <<>>, ranges, at')
      <4> DEFINE all == AllOf(response')
      <4>1. \A x : x \in all <=> x \in Bytes(ranges)
        BY <3>2
      <4> HIDE DEF all
      <4>2. Streams(size, all, LengthOf(ranges), <<>>, ranges, at')
        BY <1>1, <1>3, <3>2, <4>1, NewStreams
      <4> QED
        BY <4>2 DEF all, length
    <3>4. Headed(response')
      <4>1. response'.status # 416
        BY <2>4
      <4> QED
        BY <1>2, <1>3, <2>4, <3>2, <4>1 DEF Headed
    <3> QED
      BY <1>1, <2>4, <3>1, <3>3, <3>4 DEF StreamInv
  <2> QED
    BY <2>5, <2>6
<1> QED
  BY <1>4, <1>7, <1>8, <1>9, <1>10

\* A step of the provider's answer within a response that stays as it is.
LEMMA SendingStays ==
  ASSUME StreamInv, response.kind = "sending", response' = response,
         Streams(response.size, AllOf(response), response.length, body', parts', at')
  PROVE  StreamInv'
<1>1. response'.kind = "sending" /\ Headed(response)
  BY DEF StreamInv
<1> QED
  BY <1>1 DEF StreamInv

LEMMA BodyStreams ==
  ASSUME Inv, StreamInv, BodyStep
  PROVE  StreamInv'
<1> DEFINE size == response.size
           all == AllOf(response)
           length == response.length
<1>1. response.kind = "sending" =>
        /\ Streams(size, all, length, body, parts, at) /\ Headed(response)
        /\ size \in Nat
  <2> SUFFICES ASSUME response.kind = "sending"
               PROVE  /\ Streams(size, all, length, body, parts, at) /\ Headed(response)
                      /\ size \in Nat
    OBVIOUS
  <2>1. Streams(size, all, length, body, parts, at) /\ Headed(response)
    BY DEF StreamInv
  <2>2. size \in Nat
    BY <2>1, SizesAssumption, RangesAssumption DEF Headed, Sizes
  <2> QED
    BY <2>1, <2>2
<1>2. response.kind = "sending" => at \in [offset : Nat, chunk : {None} \cup Nat]
  BY <1>1 DEF Streams, Fits
<1>3. Multi <=> MultiOf(body, parts)
  BY DEF Multi, MultiOf
<1> HIDE DEF size, all, length
<1>4. ASSUME StartPart PROVE StreamInv'
  <2> DEFINE b == [offset |-> parts[1].start, chunk |-> parts[1].start \div CHUNK]
             t == IF MultiOf(body, parts) THEN Append(body, PartHeader) ELSE body
  <2>1. /\ response.kind = "sending" /\ parts # <<>> /\ at.chunk = None
        /\ at' = b /\ body' = t /\ response' = response /\ parts' = parts
    BY <1>3, <1>4 DEF StartPart
  <2>2. parts[1].start \in Nat /\ parts[1].start \div CHUNK \in Nat
    <3> DEFINE m == parts[1].start
    <3>1. parts[1] \in Spans(size)
      BY <1>1, <2>1 DEF Streams, Fits
    <3>2. m \in Nat
      BY <1>1, <2>1, <3>1, SpanFacts
    <3> HIDE DEF m
    <3>3. m \div CHUNK \in Nat
      BY <3>2, DivFacts, SizesAssumption
    <3> QED
      BY <3>2, <3>3 DEF m
  <2>3. b \in [offset : Nat, chunk : Nat] /\ b.offset = parts[1].start
    BY <2>2
  <2> HIDE DEF b
  <2>4. t = IF MultiOf(body, parts) THEN Append(body, PartHeader) ELSE body
    OBVIOUS
  <2> HIDE DEF t
  <2>5. Streams(size, all, length, t, parts, b)
    BY <1>1, <2>1, <2>3, <2>4, StartStreams
  <2>6. Streams(response.size, AllOf(response), response.length, body', parts', at')
    BY <2>1, <2>5 DEF size, all, length
  <2> QED
    BY <2>1, <2>6, SendingStays
<1>5. ASSUME NEW c \in 0 .. U64Max, Leaf(c) PROVE StreamInv'
  <2> DEFINE start == larger(c * CHUNK, parts[1].start)
             end == smaller(smaller((c + 1) * CHUNK, size), parts[1].end)
             b == [offset |-> end, chunk |-> c + 1]
             t == body \o [i \in 1 .. end - start |-> start + i - 1]
  <2>1. /\ response.kind = "sending" /\ parts # <<>> /\ at.chunk # None
        /\ c \in chunks_for(parts[1]) /\ start = at.offset
        /\ body' = t /\ at' = b /\ response' = response /\ parts' = parts
    BY <1>5 DEF Leaf, size
  <2>2. parts[1] \in Spans(size) /\ body \in Seq(Int)
    BY <1>1, <2>1 DEF Streams, Fits
  <2>3. start = larger(c * CHUNK, parts[1].start)
        /\ end = smaller(smaller((c + 1) * CHUNK, size), parts[1].end)
    OBVIOUS
  <2> HIDE DEF start, end
  <2>4. start \in Nat /\ end \in Nat /\ start < end /\ end <= parts[1].end /\ c \in Nat
    BY <1>1, <2>1, <2>2, <2>3, ChunkFacts
  <2>5. b \in [offset : Nat, chunk : Nat] /\ b.offset = end
    BY <2>4
  <2>6. IsRun(body, start, end, t)
    BY <2>2, <2>4, RunIs
  <2> HIDE DEF b, t
  <2>7. IsRun(body, at.offset, b.offset, t) /\ at.offset < b.offset /\ b.offset <= parts[1].end
    BY <2>1, <2>4, <2>5, <2>6
  <2>8. Streams(size, all, length, t, parts, b)
    BY <1>1, <2>1, <2>5, <2>7, LeafStreams
  <2>9. Streams(response.size, AllOf(response), response.length, body', parts', at')
    BY <2>1, <2>8 DEF size, all, length
  <2> QED
    BY <2>1, <2>9, SendingStays
<1>6. ASSUME EndPart PROVE StreamInv'
  <2> DEFINE b == [at EXCEPT !.chunk = None]
             t == IF MultiOf(body, parts) THEN Append(body, Crlf) ELSE body
             q == Tail(parts)
  <2>1. /\ response.kind = "sending" /\ at.chunk # None /\ at.offset = parts[1].end
        /\ at' = b /\ body' = t /\ response' = response /\ parts' = q
    BY <1>3, <1>6 DEF EndPart
  <2>2. at \in [offset : Nat, chunk : {None} \cup Nat]
    BY <1>2, <2>1
  <2>3. b \in [offset : Nat, chunk : {None}]
    BY <2>2
  <2> HIDE DEF b
  <2>4. t = (IF MultiOf(body, parts) THEN Append(body, Crlf) ELSE body) /\ q = Tail(parts)
    OBVIOUS
  <2> HIDE DEF t, q
  <2>5. Streams(size, all, length, t, q, b)
    BY <1>1, <2>1, <2>3, <2>4, EndStreams
  <2>6. Streams(response.size, AllOf(response), response.length, body', parts', at')
    BY <2>1, <2>5 DEF size, all, length
  <2> QED
    BY <2>1, <2>6, SendingStays
<1>7. ASSUME EndBody PROVE StreamInv'
  <2> DEFINE r == [response EXCEPT !.kind = "sent"]
             t == IF MultiOf(body, parts) THEN Append(body, Closing) ELSE body
  <2>1. /\ response.kind = "sending" /\ parts = <<>>
        /\ response' = r /\ body' = t /\ at' = at /\ parts' = parts
    BY <1>3, <1>7 DEF EndBody
  <2>2. /\ Headed(r) /\ r.kind = "sent" /\ r.size = response.size /\ r.length = response.length
        /\ AllOf(r) = AllOf(response)
    BY <1>1, <2>1, OtherKind
  <2> HIDE DEF r
  <2>3. t = IF MultiOf(body, parts) THEN Append(body, Closing) ELSE body
    OBVIOUS
  <2> HIDE DEF t
  <2>4. Ends(size, all, length, t, parts, at)
    <3>1. Streams(size, all, length, body, parts, at) /\ Len(parts) = 0 /\ size \in Nat
      BY <1>1, <2>1
    <3> QED
      BY <2>3, <3>1, LastStreams
  <2> QED
    BY <2>1, <2>2, <2>4 DEF StreamInv, Ends, size, all, length
<1>8. ASSUME Fail PROVE StreamInv'
  <2>1. /\ response.kind = "sending" /\ body' = body /\ parts' = parts /\ at' = at
        /\ response' \in {Error(502), Error(504)} \/ response' = [response EXCEPT !.kind = "cut"]
    BY <1>8 DEF Fail
  <2>2. CASE response' \in {Error(502), Error(504)}
    <3>1. response'.kind = "error"
      BY <2>2 DEF Error
    <3> QED
      BY <3>1 DEF StreamInv
  <2>3. CASE response' = [response EXCEPT !.kind = "cut"]
    <3> DEFINE r == [response EXCEPT !.kind = "cut"]
    <3>1. /\ Headed(r) /\ r.kind = "cut" /\ r.size = response.size /\ r.length = response.length
          /\ AllOf(r) = AllOf(response)
      BY <1>1, <2>1, OtherKind
    <3>2. response' = r
      BY <2>3
    <3> HIDE DEF r
    <3> QED
      BY <1>1, <2>1, <3>1, <3>2 DEF StreamInv, size, all, length
  <2> QED
    BY <2>1, <2>2, <2>3
<1> QED
  BY <1>4, <1>5, <1>6, <1>7, <1>8, ServeBlobStreams DEF BodyStep

LEMMA StreamNext ==
  ASSUME Inv, StreamInv, [Next]_vars
  PROVE  StreamInv'
<1>1. ASSUME NEW new, Ask(new) PROVE StreamInv'
  <2>1. /\ response' \in {Pending, Elsewhere}
        /\ body' = <<>> /\ parts' = <<>> /\ at' = [offset |-> 0, chunk |-> None]
    BY <1>1 DEF Ask
  <2>2. response'.kind \in {"pending", "elsewhere"}
    BY <2>1 DEF Pending, Elsewhere
  <2> QED
    BY <2>1, <2>2 DEF StreamInv, Idle
<1>2. ASSUME NEW url, Type(url) PROVE StreamInv'
  BY <1>1, <1>2 DEF Type
<1>3. ASSUME NEW l, Follow(l) PROVE StreamInv'
  BY <1>1, <1>3 DEF Follow
<1>4. ASSUME FollowRedirect PROVE StreamInv'
  BY <1>1, <1>4 DEF FollowRedirect
<1>5. ASSUME NEW b, Retarget(b) PROVE StreamInv'
  <2>1. response' = response /\ body' = body /\ parts' = parts /\ at' = at
    BY <1>5 DEF Retarget
  <2> QED
    BY <2>1 DEF StreamInv, Idle
<1>6. ASSUME NEW r, Respond(r) PROVE StreamInv'
  <2>1. /\ response.kind = "pending" /\ r \in Route(request.url, target) /\ response' = r
        /\ body' = body /\ parts' = parts /\ at' = at
    BY <1>6 DEF Respond
  <2>2. Shape /\ target \in Targets
    BY DEF Inv, Shape
  <2>3. request.url \in URLs
    BY <2>1, <2>2, KnownURL
  <2>4. r.kind \in {"error", "elsewhere", "blob", "listing", "redirect"}
    BY <2>1, <2>2, <2>3, AnswerFacts
  <2>5. Idle /\ Idle'
    BY <2>1 DEF StreamInv, Idle
  <2> QED
    BY <2>1, <2>4, <2>5 DEF StreamInv
<1>7. CASE BodyStep
  BY <1>7, BodyStreams
<1>8. CASE UNCHANGED vars
  <2>1. response' = response /\ body' = body /\ parts' = parts /\ at' = at
    BY <1>8 DEF vars
  <2> QED
    BY <2>1 DEF StreamInv, Idle
<1> QED
  BY <1>2, <1>3, <1>4, <1>5, <1>6, <1>7, <1>8 DEF Next, BodyStep

LEMMA AlwaysStreamInv == Spec => []StreamInv
<1>1. Init => StreamInv
  <2> SUFFICES ASSUME Init PROVE StreamInv
    OBVIOUS
  <2>1. response.kind = "elsewhere"
    BY DEF Init, Elsewhere, Pending
  <2> QED
    BY <2>1 DEF StreamInv
<1>2. Inv /\ StreamInv /\ [Next]_vars => StreamInv'
  BY StreamNext
<1> QED
  BY <1>1, <1>2, AlwaysInv, PTL DEF Spec

\* What a Range header gets is the bytes that its parts name of the blob, each once and in
\* order, and 416 only if they name none, for every header and every size below 2^64
\* (ranges::select, single, merge, sniff, serve_blob).
THEOREM RangesExact == Spec => []RangesAreExact
<1>1. ASSUME StreamInv, response.kind \in {"sending", "sent", "head", "cut"}
      PROVE  LET size == Size[response.blob] IN
               /\ response.size = size
               /\ response.status = 206 /\ body = <<>> /\ at.chunk = None =>
                    /\ \A i \in DOMAIN response.asked : WellFormed(response.asked[i])
                    /\ Bytes(parts) = Asked(response, size)
                    /\ \A i \in 2 .. Len(parts) : parts[i - 1].end < parts[i].start
               /\ response.status = 416 => Asked(response, size) = {}
  <2> DEFINE size == Size[response.blob]
             all == AllOf(response)
  <2>1. /\ response.size = size
        /\ response.status = 206 => \A i \in DOMAIN response.asked : WellFormed(response.asked[i])
        /\ response.status = 416 => Asked(response, size) = {}
    BY <1>1 DEF StreamInv, Headed
  <2>2. ASSUME response.status = 206, body = <<>>, at.chunk = None
        PROVE  /\ Bytes(parts) = Asked(response, size)
               /\ \A i \in 2 .. Len(parts) : parts[i - 1].end < parts[i].start
    <3>1. response.kind # "head"
      BY <1>1, <2>2 DEF StreamInv
    <3>2. Fits(response.size, body, parts, at) /\ Splits(all, body, parts, at)
      BY <1>1, <3>1 DEF StreamInv, Streams
    <3>3. \A i \in 2 .. Len(parts) : parts[i - 1].end < parts[i].start
      BY <3>2 DEF Fits, Gaps
    <3>4. all = Asked(response, size)
      BY <2>1, <2>2 DEF AllOf
    <3>5. TodoOf(parts, at) = Bytes(parts) /\ SentOf(body) = {}
      BY <2>2 DEF TodoOf, SentOf, ContentOf
    <3>6. \A x : x \in all <=> x \in Bytes(parts)
      BY <3>2, <3>5 DEF Splits
    <3>7. Bytes(parts) = all
      <4> HIDE DEF all
      <4>1. all \subseteq Bytes(parts) /\ Bytes(parts) \subseteq all
        BY <3>6
      <4> QED
        BY <4>1, <3>6
    <3> QED
      BY <3>3, <3>4, <3>7
  <2> QED
    BY <2>1, <2>2
<1>2. StreamInv => RangesAreExact
  BY <1>1 DEF RangesAreExact
<1> QED
  BY <1>2, AlwaysStreamInv, PTL

\* A body is what its headers promise, for every blob, header, size of chunks and order in
\* which the provider's answers end: in order, a beginning of what was asked for, and when it
\* ends by itself all of that and as long as Content-Length says (stream_content,
\* multipart_content, multipart_length).
THEOREM BodyPromised == Spec => []BodyIsPromised
<1>1. Content = ContentOf(body) /\ Sent = SentOf(body)
  BY DEF Content, ContentOf, Sent, SentOf
<1>2. ASSUME StreamInv, response.kind \in {"sending", "sent"} PROVE BodyIsPromised
  <2> DEFINE size == Size[response.blob]
             all == IF response.status = 200 THEN 0 .. size - 1 ELSE Asked(response, size)
  <2>1. response.size = size
    BY <1>2 DEF StreamInv, Headed
  <2>2. all = AllOf(response)
    BY <2>1 DEF AllOf
  <2>3. Fits(response.size, body, parts, at) /\ Splits(AllOf(response), body, parts, at)
    BY <1>2 DEF StreamInv, Streams
  <2> HIDE DEF all
  <2>4. /\ Ascending(body)
        /\ \A x : x \in all <=> x \in SentOf(body) \/ x \in TodoOf(parts, at)
        /\ \A x \in SentOf(body), y \in TodoOf(parts, at) : x < y
    BY <2>2, <2>3 DEF Splits
  <2>5. \A i, j \in Content : i < j => body[i] < body[j]
    BY <1>1, <2>4 DEF Ascending
  <2>6. Sent \subseteq all /\ \A b \in Sent, a \in all \ Sent : b < a
    BY <1>1, <2>4
  <2>7. ASSUME response.kind = "sent" PROVE Sent = all /\ Len(body) = response.length
    <3>1. parts = <<>> /\ Len(body) = response.length
      BY <1>2, <2>7 DEF StreamInv
    <3>2. at.chunk = None
      BY <2>3, <3>1 DEF Fits
    <3>3. TodoOf(parts, at) = Bytes(<<>>)
      BY <3>1, <3>2 DEF TodoOf
    <3>4. \A x : x \notin Bytes(<<>>)
      BY BytesFacts
    <3>5. \A x : x \in all <=> x \in Sent
      BY <1>1, <2>4, <3>3, <3>4
    <3> QED
      BY <3>1, <3>5
  <2> QED
    BY <2>5, <2>6, <2>7 DEF BodyIsPromised, all
<1>3. StreamInv => BodyIsPromised
  BY <1>2 DEF BodyIsPromised
<1> QED
  BY <1>3, AlwaysStreamInv, PTL
============================================================================
