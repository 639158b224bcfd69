---------------------------- MODULE QueueTheorems ----------------------------
(***************************************************************************)
(* What Append and Tail do to a queue: to what is in it, to what comes be- *)
(* fore or behind what, and to how many of a kind there are.  The coordi-  *)
(* nators and the conversation reach every other thread through queues, so *)
(* their proofs reason with these facts and never with indices.            *)
(***************************************************************************)
EXTENDS Naturals, Sequences, FiniteSets, FiniteSetTheorems, TLAPS

Elements(q) == {q[i] : i \in DOMAIN q}

\* Whatever of Y is in the queue has something of X before it.
Before(q, X, Y) ==
  \A k \in DOMAIN q : q[k] \in Y => \E i \in DOMAIN q : i < k /\ q[i] \in X

\* Of two elements of A the earlier one is in X and the later one in Y.
Paired(q, A, X, Y) ==
  \A i, k \in DOMAIN q : i < k /\ q[i] \in A /\ q[k] \in A => q[i] \in X /\ q[k] \in Y

\* One place of the queue at most holds an element of X.
Single(q, X) == Paired(q, X, {}, {})

\* <<>> holds nothing, so it has every order.
LEMMA EmptyQueue ==
  ASSUME NEW X, NEW Y, NEW A
  PROVE  /\ Elements(<<>>) = {} /\ Before(<<>>, X, Y) /\ Paired(<<>>, A, X, Y)
         /\ Single(<<>>, A)
  BY DEF Elements, Before, Paired, Single

\* An appended element comes last.
LEMMA Appending ==
  ASSUME NEW S, NEW q \in Seq(S), NEW e \in S
  PROVE  /\ Append(q, e) \in Seq(S)
         /\ Append(q, e) # <<>>
         /\ Elements(Append(q, e)) = Elements(q) \cup {e}
         /\ q # <<>> => Head(Append(q, e)) = Head(q)
         /\ q = <<>> => Head(Append(q, e)) = e
  <1> DEFINE p == Append(q, e)
  <1>1. p \in Seq(S) /\ Len(p) = Len(q) + 1 /\ Len(q) \in Nat
    OBVIOUS
  <1>2. DOMAIN q = 1..Len(q) /\ DOMAIN p = 1..(Len(q) + 1)
    OBVIOUS
  <1>3. \A i \in DOMAIN q : i \in DOMAIN p /\ p[i] = q[i]
    BY <1>1, <1>2
  <1>4. p[Len(q) + 1] = e
    OBVIOUS
  <1>5. p # <<>>
    BY <1>1
  <1>6. Head(p) = p[1]
    BY <1>5
  <1>7. q # <<>> => Head(p) = Head(q)
    BY <1>3, <1>6
  <1>8. q = <<>> => Head(p) = e
    BY <1>4, <1>6
  <1>9. Elements(p) \subseteq Elements(q) \cup {e}
    BY <1>1, <1>2, <1>3, <1>4 DEF Elements
  <1>10. Elements(q) \cup {e} \subseteq Elements(p)
    BY <1>1, <1>2, <1>3, <1>4 DEF Elements
  <1> QED  BY <1>1, <1>5, <1>7, <1>8, <1>9, <1>10

\* Tail takes the head and nothing else.
LEMMA Taking ==
  ASSUME NEW S, NEW q \in Seq(S), q # <<>>
  PROVE  /\ Tail(q) \in Seq(S)
         /\ Head(q) \in S
         /\ Elements(q) = {Head(q)} \cup Elements(Tail(q))
  <1>1. Len(q) \in Nat \ {0} /\ DOMAIN q = 1..Len(q)
    OBVIOUS
  <1>2. DOMAIN Tail(q) = 1..(Len(q) - 1) /\ \A i \in 1..(Len(q) - 1) : Tail(q)[i] = q[i + 1]
    OBVIOUS
  <1>3. ASSUME NEW k \in DOMAIN q
        PROVE  q[k] \in {Head(q)} \cup Elements(Tail(q))
    <2>1. CASE k = 1
      BY <2>1
    <2>2. CASE k # 1
      <3>1. k - 1 \in DOMAIN Tail(q) /\ Tail(q)[k - 1] = q[k]
        BY <1>1, <1>2, <2>2
      <3> QED  BY <3>1 DEF Elements
    <2> QED  BY <2>1, <2>2
  <1>4. Elements(Tail(q)) \subseteq Elements(q)
    BY <1>1, <1>2 DEF Elements
  <1>5. Head(q) \in Elements(q)
    BY <1>1 DEF Elements
  <1> QED  BY <1>3, <1>4, <1>5 DEF Elements

LEMMA NotEmpty ==
  ASSUME NEW S, NEW q \in Seq(S)
  PROVE  /\ Elements(q) \subseteq S
         /\ q # <<>> => Elements(q) # {}
  <1>1. DOMAIN q = 1..Len(q) /\ \A i \in DOMAIN q : q[i] \in S
    OBVIOUS
  <1>2. q # <<>> => 1 \in DOMAIN q
    OBVIOUS
  <1> QED  BY <1>1, <1>2 DEF Elements

\* What is appended has its predecessor already, or needs none.
LEMMA BeforeAppend ==
  ASSUME NEW S, NEW q \in Seq(S), NEW e \in S, NEW X, NEW Y,
         Before(q, X, Y), e \notin Y \/ Elements(q) \cap X # {}
  PROVE  Before(Append(q, e), X, Y)
  <1>1. Len(q) \in Nat /\ DOMAIN q = 1..Len(q) /\ DOMAIN Append(q, e) = 1..(Len(q) + 1)
    OBVIOUS
  <1>2. \A i \in DOMAIN q : Append(q, e)[i] = q[i]
    OBVIOUS
  <1>3. Append(q, e)[Len(q) + 1] = e
    OBVIOUS
  <1>4. ASSUME NEW k \in DOMAIN Append(q, e), Append(q, e)[k] \in Y
        PROVE  \E i \in DOMAIN Append(q, e) : i < k /\ Append(q, e)[i] \in X
    <2>1. CASE k \in DOMAIN q
      <3>1. PICK i \in DOMAIN q : i < k /\ q[i] \in X
        BY <1>2, <1>4, <2>1 DEF Before
      <3>2. i \in DOMAIN Append(q, e) /\ Append(q, e)[i] = q[i]
        BY <1>1, <1>2
      <3> QED  BY <3>1, <3>2
    <2>2. CASE k = Len(q) + 1
      <3>1. PICK i \in DOMAIN q : q[i] \in X
        BY <1>3, <1>4, <2>2 DEF Elements
      <3>2. i \in DOMAIN Append(q, e) /\ Append(q, e)[i] = q[i] /\ i < k
        BY <1>1, <1>2, <2>2
      <3> QED  BY <3>1, <3>2
    <2> QED  BY <1>1, <2>1, <2>2
  <1> QED  BY <1>4 DEF Before

\* Taking the head disturbs the order only when others needed it.
LEMMA BeforeTail ==
  ASSUME NEW S, NEW q \in Seq(S), q # <<>>, NEW X, NEW Y, Before(q, X, Y), Head(q) \notin X
  PROVE  Before(Tail(q), X, Y)
  <1>1. Len(q) \in Nat \ {0} /\ DOMAIN q = 1..Len(q) /\ Head(q) = q[1]
    OBVIOUS
  <1>2. DOMAIN Tail(q) = 1..(Len(q) - 1) /\ \A i \in 1..(Len(q) - 1) : Tail(q)[i] = q[i + 1]
    OBVIOUS
  <1>3. ASSUME NEW k \in DOMAIN Tail(q), Tail(q)[k] \in Y
        PROVE  \E i \in DOMAIN Tail(q) : i < k /\ Tail(q)[i] \in X
    <2>1. k + 1 \in DOMAIN q /\ q[k + 1] \in Y
      BY <1>1, <1>2, <1>3
    <2>2. PICK i \in DOMAIN q : i < k + 1 /\ q[i] \in X
      BY <2>1 DEF Before
    <2>3. i # 1
      BY <1>1, <2>2
    <2>4. i - 1 \in DOMAIN Tail(q) /\ i - 1 < k /\ Tail(q)[i - 1] = q[i]
      BY <1>1, <1>2, <2>2, <2>3
    <2> QED  BY <2>2, <2>4
  <1> QED  BY <1>3 DEF Before

\* Nothing precedes the head.
LEMMA BeforeHead ==
  ASSUME NEW S, NEW q \in Seq(S), q # <<>>, NEW X, NEW Y, Before(q, X, Y)
  PROVE  Head(q) \notin Y
  <1>1. Len(q) \in Nat \ {0} /\ DOMAIN q = 1..Len(q) /\ Head(q) = q[1]
    OBVIOUS
  <1> QED  BY <1>1 DEF Before

LEMMA BeforeNone ==
  ASSUME NEW S, NEW q \in Seq(S), NEW X, NEW Y, Elements(q) \cap Y = {}
  PROVE  Before(q, X, Y)
  BY DEF Before, Elements

LEMMA PairedAppend ==
  ASSUME NEW S, NEW q \in Seq(S), NEW e \in S, NEW A, NEW X, NEW Y, Paired(q, A, X, Y),
         e \notin A \/ (\A d \in Elements(q) : d \in A => d \in X /\ e \in Y)
  PROVE  Paired(Append(q, e), A, X, Y)
  <1>1. Len(q) \in Nat /\ DOMAIN q = 1..Len(q) /\ DOMAIN Append(q, e) = 1..(Len(q) + 1)
    OBVIOUS
  <1>2. \A i \in DOMAIN q : Append(q, e)[i] = q[i] /\ q[i] \in Elements(q)
    BY DEF Elements
  <1>3. Append(q, e)[Len(q) + 1] = e
    OBVIOUS
  <1>4. ASSUME NEW i \in DOMAIN Append(q, e), NEW k \in DOMAIN Append(q, e), i < k,
               Append(q, e)[i] \in A, Append(q, e)[k] \in A
        PROVE  Append(q, e)[i] \in X /\ Append(q, e)[k] \in Y
    <2>0. i \in DOMAIN q
      BY <1>1, <1>4
    <2>1. CASE k \in DOMAIN q
      BY <1>2, <1>4, <2>0, <2>1 DEF Paired
    <2>2. CASE k = Len(q) + 1
      BY <1>2, <1>3, <1>4, <2>0, <2>2
    <2> QED  BY <1>1, <2>1, <2>2
  <1> QED  BY <1>4 DEF Paired

LEMMA PairedTail ==
  ASSUME NEW S, NEW q \in Seq(S), q # <<>>, NEW A, NEW X, NEW Y, Paired(q, A, X, Y)
  PROVE  /\ Paired(Tail(q), A, X, Y)
         /\ Head(q) \in A => \A d \in Elements(Tail(q)) : d \in A => Head(q) \in X /\ d \in Y
  <1>1. Len(q) \in Nat \ {0} /\ DOMAIN q = 1..Len(q) /\ Head(q) = q[1]
    OBVIOUS
  <1>2. DOMAIN Tail(q) = 1..(Len(q) - 1) /\ \A i \in 1..(Len(q) - 1) : Tail(q)[i] = q[i + 1]
    OBVIOUS
  <1>3. ASSUME NEW i \in DOMAIN Tail(q)
        PROVE  i + 1 \in DOMAIN q /\ 1 < i + 1 /\ 1 \in DOMAIN q /\ Tail(q)[i] = q[i + 1]
    BY <1>1, <1>2
  <1>4. ASSUME NEW i \in DOMAIN Tail(q), NEW k \in DOMAIN Tail(q), i < k
        PROVE  i + 1 < k + 1
    BY <1>1, <1>2, <1>4
  <1>5. Paired(Tail(q), A, X, Y)
    BY <1>3, <1>4 DEF Paired
  <1>6. Head(q) \in A => \A d \in Elements(Tail(q)) : d \in A => Head(q) \in X /\ d \in Y
    BY <1>1, <1>3 DEF Paired, Elements
  <1> QED  BY <1>5, <1>6

LEMMA SingleAppend ==
  ASSUME NEW S, NEW q \in Seq(S), NEW e \in S, NEW X, Single(q, X),
         e \in X => \A d \in Elements(q) : d \notin X
  PROVE  Single(Append(q, e), X)
  BY PairedAppend DEF Single

LEMMA SingleTail ==
  ASSUME NEW S, NEW q \in Seq(S), q # <<>>, NEW X, Single(q, X)
  PROVE  /\ Single(Tail(q), X)
         /\ Head(q) \in X => \A d \in Elements(Tail(q)) : d \notin X
  BY PairedTail DEF Single

\* What comes after an element of X is in Y.
Follows(q, X, Y) == \A i, k \in DOMAIN q : i < k /\ q[i] \in X => q[k] \in Y

LEMMA FollowsAppend ==
  ASSUME NEW S, NEW q \in Seq(S), NEW e \in S, NEW X, NEW Y, Follows(q, X, Y),
         e \in Y \/ Elements(q) \cap X = {}
  PROVE  Follows(Append(q, e), X, Y)
  <1>1. Len(q) \in Nat /\ DOMAIN q = 1..Len(q) /\ DOMAIN Append(q, e) = 1..(Len(q) + 1)
    OBVIOUS
  <1>2. \A i \in DOMAIN q : Append(q, e)[i] = q[i] /\ q[i] \in Elements(q)
    BY DEF Elements
  <1>3. Append(q, e)[Len(q) + 1] = e
    OBVIOUS
  <1>4. ASSUME NEW i \in DOMAIN Append(q, e), NEW k \in DOMAIN Append(q, e), i < k,
               Append(q, e)[i] \in X
        PROVE  Append(q, e)[k] \in Y
    <2>1. i \in DOMAIN q
      BY <1>1, <1>4
    <2>2. CASE k \in DOMAIN q
      BY <1>2, <1>4, <2>1, <2>2 DEF Follows
    <2>3. CASE k = Len(q) + 1
      BY <1>2, <1>3, <1>4, <2>1, <2>3
    <2> QED  BY <1>1, <2>2, <2>3
  <1> QED  BY <1>4 DEF Follows

LEMMA FollowsTail ==
  ASSUME NEW S, NEW q \in Seq(S), q # <<>>, NEW X, NEW Y, Follows(q, X, Y)
  PROVE  /\ Follows(Tail(q), X, Y)
         /\ Head(q) \in X => Elements(Tail(q)) \subseteq Y
  <1>1. Len(q) \in Nat \ {0} /\ DOMAIN q = 1..Len(q) /\ Head(q) = q[1]
    OBVIOUS
  <1>2. DOMAIN Tail(q) = 1..(Len(q) - 1) /\ \A i \in 1..(Len(q) - 1) : Tail(q)[i] = q[i + 1]
    OBVIOUS
  <1>3. \A i \in DOMAIN Tail(q) : i + 1 \in DOMAIN q /\ 1 < i + 1 /\ 1 \in DOMAIN q
    BY <1>1, <1>2
  <1>4. Follows(Tail(q), X, Y)
    BY <1>1, <1>2, <1>3 DEF Follows
  <1>5. Head(q) \in X => Elements(Tail(q)) \subseteq Y
    BY <1>1, <1>2, <1>3 DEF Follows, Elements
  <1> QED  BY <1>4, <1>5

LEMMA FollowsNone ==
  ASSUME NEW S, NEW q \in Seq(S), NEW X, NEW Y, Elements(q) \cap X = {}
  PROVE  Follows(q, X, Y)
  BY DEF Follows, Elements

\* How many places of the queue hold an element of X.
Places(q, X) == {i \in DOMAIN q : q[i] \in X}
Count(q, X) == Cardinality(Places(q, X))

LEMMA CountIs ==
  ASSUME NEW S, NEW q \in Seq(S), NEW X
  PROVE  /\ IsFiniteSet(Places(q, X)) /\ Count(q, X) \in Nat
         /\ Count(q, X) # 0 => Elements(q) \cap X # {}
         /\ Elements(q) \cap X # {} => Count(q, X) # 0
  <1>1. DOMAIN q = 1..Len(q) /\ Len(q) \in Nat /\ 1 \in Int /\ Len(q) \in Int
    OBVIOUS
  <1>2. IsFiniteSet(1..Len(q))
    BY <1>1, FS_Interval
  <1>3. IsFiniteSet(Places(q, X))
    BY <1>1, <1>2, FS_Subset DEF Places
  <1>4. Count(q, X) \in Nat
    BY <1>3, FS_CardinalityType DEF Count
  <1>5. Count(q, X) = 0 <=> Places(q, X) = {}
    BY <1>3, FS_EmptySet DEF Count
  <1>6. Places(q, X) = {} <=> Elements(q) \cap X = {}
    BY DEF Places, Elements
  <1> QED  BY <1>3, <1>4, <1>5, <1>6

LEMMA CountEmpty ==
  ASSUME NEW X
  PROVE  Count(<<>>, X) = 0
  <1>1. Places(<<>>, X) = {}
    BY DEF Places
  <1> QED  BY <1>1, FS_EmptySet DEF Count

LEMMA CountAppend ==
  ASSUME NEW S, NEW q \in Seq(S), NEW e \in S, NEW X
  PROVE  Count(Append(q, e), X) = IF e \in X THEN Count(q, X) + 1 ELSE Count(q, X)
  <1>1. Len(q) \in Nat /\ DOMAIN q = 1..Len(q) /\ DOMAIN Append(q, e) = 1..(Len(q) + 1)
    OBVIOUS
  <1>2. /\ \A i \in DOMAIN q : Append(q, e)[i] = q[i]
        /\ Append(q, e)[Len(q) + 1] = e
    OBVIOUS
  <1>3. DOMAIN Append(q, e) = DOMAIN q \cup {Len(q) + 1} /\ Len(q) + 1 \notin DOMAIN q
    BY <1>1
  <1>4. CASE e \in X
    <2>1. Places(Append(q, e), X) = Places(q, X) \cup {Len(q) + 1}
      BY <1>2, <1>3, <1>4 DEF Places
    <2>2. Len(q) + 1 \notin Places(q, X) /\ IsFiniteSet(Places(q, X))
      BY <1>3, CountIs DEF Places
    <2>3. Cardinality(Places(q, X) \cup {Len(q) + 1}) = Cardinality(Places(q, X)) + 1
      BY <2>2, FS_AddElement
    <2> QED  BY <1>4, <2>1, <2>3 DEF Count
  <1>5. CASE e \notin X
    <2>1. Places(Append(q, e), X) = Places(q, X)
      BY <1>2, <1>3, <1>5 DEF Places
    <2> QED  BY <1>5, <2>1 DEF Count
  <1> QED  BY <1>4, <1>5

LEMMA CountTail ==
  ASSUME NEW S, NEW q \in Seq(S), q # <<>>, NEW X
  PROVE  Count(q, X) = IF Head(q) \in X THEN Count(Tail(q), X) + 1 ELSE Count(Tail(q), X)
  <1>1. Len(q) \in Nat \ {0} /\ DOMAIN q = 1..Len(q) /\ Head(q) = q[1] /\ Tail(q) \in Seq(S)
    OBVIOUS
  <1>2. DOMAIN Tail(q) = 1..(Len(q) - 1) /\ \A i \in 1..(Len(q) - 1) : Tail(q)[i] = q[i + 1]
    OBVIOUS
  <1> DEFINE P == Places(Tail(q), X)
  <1> DEFINE Q == {i \in 2..Len(q) : q[i] \in X}
  <1> DEFINE f == [i \in P |-> i + 1]
  <1>3. IsFiniteSet(P)
    BY <1>1, CountIs
  <1>4. P = {i \in 1..(Len(q) - 1) : q[i + 1] \in X}
    BY <1>2 DEF Places
  <1>5. f \in Bijection(P, Q)
    <2>1. \A i \in P : i + 1 \in Q /\ i \in Nat
      BY <1>1, <1>4
    <2>2. f \in [P -> Q]
      BY <2>1
    <2>3. \A a, b \in P : f[a] = f[b] => a = b
      BY <2>1
    <2>4. \A t \in Q : \E s \in P : f[s] = t
      <3>1. ASSUME NEW t \in Q
            PROVE  \E s \in P : f[s] = t
        <4>1. t \in 2..Len(q) /\ q[t] \in X
          OBVIOUS
        <4>2. t - 1 \in 1..(Len(q) - 1) /\ (t - 1) + 1 = t
          BY <1>1, <4>1
        <4>3. t - 1 \in P
          BY <1>4, <4>1, <4>2
        <4> QED  BY <4>2, <4>3
      <3> QED  BY <3>1
    <2> HIDE DEF f, P, Q
    <2>5. f \in Injection(P, Q)
      BY <2>2, <2>3 DEF Injection, IsInjective
    <2>6. f \in Surjection(P, Q)
      BY <2>2, <2>4 DEF Surjection
    <2> QED  BY <2>5, <2>6 DEF Bijection
  <1>6. IsFiniteSet(Q) /\ Cardinality(Q) = Cardinality(P)
    <2> HIDE DEF f, P, Q
    <2>1. ExistsBijection(P, Q)
      BY <1>5 DEF ExistsBijection
    <2> QED  BY <1>3, <2>1, FS_Bijection
  <1>7. CASE Head(q) \in X
    <2>1. Places(q, X) = Q \cup {1} /\ 1 \notin Q
      BY <1>1, <1>7 DEF Places
    <2>2. Cardinality(Q \cup {1}) = Cardinality(Q) + 1
      BY <1>6, <2>1, FS_AddElement
    <2> QED  BY <1>6, <1>7, <2>1, <2>2 DEF Count
  <1>8. CASE Head(q) \notin X
    <2>1. Places(q, X) = Q
      BY <1>1, <1>8 DEF Places
    <2> QED  BY <1>6, <1>8, <2>1 DEF Count
  <1> QED  BY <1>7, <1>8

\* As many elements leave one of the first numbers unused.
LEMMA UnusedNumber ==
  ASSUME NEW S, NEW q \in Seq(S), NEW D \in SUBSET DOMAIN q, NEW f \in [D -> Nat]
  PROVE  \E n \in 1..(Len(q) + 1) : n \notin {f[i] : i \in D}
  <1> DEFINE used == {f[i] : i \in D}
  <1>1. Len(q) \in Nat /\ DOMAIN q = 1..Len(q)
    OBVIOUS
  <1>2. IsFiniteSet(1..Len(q)) /\ Cardinality(1..Len(q)) = Len(q)
        /\ Cardinality(1..(Len(q) + 1)) = Len(q) + 1
    <2>1. 1 \in Int /\ Len(q) \in Int /\ Len(q) + 1 \in Int
      BY <1>1
    <2>2. IsFiniteSet(1..Len(q))
          /\ Cardinality(1..Len(q)) = IF 1 > Len(q) THEN 0 ELSE Len(q) - 1 + 1
      BY <2>1, FS_Interval
    <2>3. Cardinality(1..(Len(q) + 1)) = IF 1 > Len(q) + 1 THEN 0 ELSE Len(q) + 1 - 1 + 1
      BY <2>1, FS_Interval
    <2> QED  BY <1>1, <2>2, <2>3
  <1>3. IsFiniteSet(D) /\ Cardinality(D) <= Len(q)
    BY <1>1, <1>2, FS_Subset
  <1>4. f \in Surjection(D, used)
    BY DEF Surjection
  <1>5. IsFiniteSet(used) /\ Cardinality(used) <= Cardinality(D)
    BY <1>3, <1>4, FS_Surjection
  <1>6. ASSUME 1..(Len(q) + 1) \subseteq used
        PROVE  FALSE
    <2>1. Cardinality(1..(Len(q) + 1)) <= Cardinality(used)
      BY <1>5, <1>6, FS_Subset
    <2>2. Cardinality(D) \in Nat /\ Cardinality(used) \in Nat
      BY <1>3, <1>5, FS_CardinalityType
    <2> QED  BY <1>1, <1>2, <1>3, <1>5, <2>1, <2>2
  <1> QED  BY <1>6
=============================================================================
