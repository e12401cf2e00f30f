------------------------ MODULE TranscriptFileProofs ------------------------
(***************************************************************************)
(* What a session file says, for every file whose lines are whole and link *)
(* to earlier messages: the transcript that each line leads back to, that  *)
(* no line appended later changes it, and what loading the file returns.   *)
(***************************************************************************)
EXTENDS TranscriptFile, FiniteSetTheorems, SequenceTheorems, TLAPS

-----------------------------------------------------------------------------
(* Numbers *)

\* A set of natural numbers has a least element.
LEMMA SmallestNumber ==
  ASSUME NEW T \in SUBSET Nat, T # {}
  PROVE  \E x \in T : \A y \in T : x <= y
<1> DEFINE D == {0..x : x \in T}
<1>1. D \subseteq FiniteSubsetsOf(Nat) /\ D # {}
  <2>1. ASSUME NEW x \in T PROVE 0..x \subseteq Nat /\ IsFiniteSet(0..x)
    BY FS_Interval
  <2> QED BY <2>1 DEF FiniteSubsetsOf
<1>2. PICK d \in D : \A e \in D : ~(<<e, d>> \in StrictSubsetOrdering(Nat))
  <2> HIDE DEF D
  <2> QED BY <1>1, FS_StrictSubsetOrderingWellFounded, WFMin
<1>3. PICK x \in T : d = 0..x
  BY <1>2
<1>4. ASSUME NEW y \in T, y < x PROVE FALSE
  <2>1. 0..y \subseteq 0..x /\ x \in 0..x /\ x \notin 0..y
    BY <1>4
  <2>2. 0..y \in SUBSET Nat /\ 0..x \in SUBSET Nat /\ 0..y \in D
    OBVIOUS
  <2>3. <<0..y, 0..x>> \in StrictSubsetOrdering(Nat)
    BY <2>1, <2>2 DEF StrictSubsetOrdering
  <2> QED BY <1>2, <1>3, <2>2, <2>3
<1> QED BY <1>4

\* The greatest of some numbers up to n.
LEMMA LargestNumber ==
  ASSUME NEW n \in Nat, NEW T \in SUBSET (1..n), T # {}
  PROVE  Max(T) \in T /\ \A y \in T : y <= Max(T)
<1> DEFINE D == {n - y : y \in T}
<1>0. \A y \in T : y \in Nat /\ y <= n
  OBVIOUS
<1>1. D \in SUBSET Nat /\ D # {}
  <2>1. ASSUME NEW y \in T PROVE n - y \in Nat
    BY <1>0
  <2> QED BY <2>1
<1>2. PICK d \in D : \A e \in D : d <= e
  <2> HIDE DEF D
  <2> QED BY <1>1, SmallestNumber
<1>3. PICK x \in T : d = n - x
  BY <1>2
<1>4. ASSUME NEW y \in T PROVE x >= y
  <2>1. n - y \in D
    OBVIOUS
  <2>2. n - x <= n - y
    BY <1>2, <1>3, <2>1
  <2> HIDE DEF D
  <2> QED BY <1>0, <2>2
<1>5. Max(T) \in T /\ \A y \in T : Max(T) >= y
  BY <1>4 DEF Max
<1> QED BY <1>0, <1>5

-----------------------------------------------------------------------------
(* Parent chains *)

\* The parent chains exist up to every position.
LEMMA ChainsExist ==
  ASSUME NEW f, NEW n \in Nat, \A p \in 1..n : f[p].parent \in 0..(p - 1),
         NEW m \in 0..n
  PROVE  \E g \in [0..m -> Seq(Nat)] :
           \A p \in 0..m : g[p] = IF p = 0 THEN <<>> ELSE Append(g[f[p].parent], p)
<1> DEFINE Good(k) == \E g \in [0..k -> Seq(Nat)] :
             \A p \in 0..k : g[p] = IF p = 0 THEN <<>> ELSE Append(g[f[p].parent], p)
           T == {k \in 0..n : ~Good(k)}
<1>1. Good(0)
  <2> DEFINE g == [p \in 0..0 |-> <<>>]
  <2>1. <<>> \in Seq(Nat)
    OBVIOUS
  <2>2. g \in [0..0 -> Seq(Nat)]
    BY <2>1
  <2>3. \A p \in 0..0 : p = 0 /\ g[p] = <<>>
    OBVIOUS
  <2> HIDE DEF g
  <2> QED BY <2>2, <2>3
<1>2. ASSUME NEW k \in 0..n, k # 0, Good(k - 1) PROVE Good(k)
  <2>1. PICK g \in [0..(k - 1) -> Seq(Nat)] :
          \A p \in 0..(k - 1) : g[p] = IF p = 0 THEN <<>> ELSE Append(g[f[p].parent], p)
    BY <1>2
  <2> DEFINE h == [p \in 0..k |-> IF p = k THEN Append(g[f[k].parent], k) ELSE g[p]]
  <2>2. k \in 1..n /\ f[k].parent \in 0..(k - 1)
    BY <1>2
  <2>3. Append(g[f[k].parent], k) \in Seq(Nat)
    BY <2>2
  <2>4. h \in [0..k -> Seq(Nat)]
    <3>1. \A p \in 0..k : p = k \/ p \in 0..(k - 1)
      BY <2>2
    <3> QED BY <2>3, <3>1
  <2>5. ASSUME NEW p \in 0..k
        PROVE  h[p] = IF p = 0 THEN <<>> ELSE Append(h[f[p].parent], p)
    <3>1. CASE p = k
      <4>1. f[k].parent \in 0..k /\ f[k].parent # k
        BY <2>2
      <4>2. h[f[k].parent] = g[f[k].parent]
        BY <4>1
      <4>3. h[k] = Append(g[f[k].parent], k) /\ k # 0
        BY <2>2
      <4> HIDE DEF h
      <4> QED BY <3>1, <4>2, <4>3
    <3>2. CASE p \in 1..(k - 1)
      <4>0. p \in 1..n /\ p # k
        BY <3>2, <2>2
      <4>1. p \in 1..n /\ p # k /\ f[p].parent \in 0..(p - 1)
        BY <4>0
      <4>2. f[p].parent \in 0..k /\ f[p].parent # k
        BY <4>1, <3>2, <2>2
      <4>3. h[f[p].parent] = g[f[p].parent] /\ h[p] = g[p]
        BY <4>1, <4>2
      <4>4. p \in 0..(k - 1) /\ p # 0
        BY <3>2, <2>2
      <4> HIDE DEF h
      <4> QED BY <4>3, <4>4, <2>1
    <3>3. CASE p = 0
      <4>1. 0 \in 0..(k - 1) /\ 0 # k
        BY <2>2
      <4> QED BY <3>3, <4>1, <2>1
    <3> QED BY <3>1, <3>2, <3>3, <2>2
  <2> HIDE DEF h
  <2> QED BY <2>4, <2>5
<1> HIDE DEF Good
<1>3. T = {}
  <2> SUFFICES ASSUME T # {} PROVE FALSE
    OBVIOUS
  <2>1. T \in SUBSET Nat
    OBVIOUS
  <2>2. PICK x \in T : \A y \in T : x <= y
    <3> HIDE DEF T
    <3> QED BY <2>1, SmallestNumber
  <2>3. x \in 0..n /\ ~Good(x) /\ x # 0
    BY <1>1
  <2>4. x - 1 \in 0..n /\ ~(x <= x - 1)
    BY <2>3
  <2>5. Good(x - 1)
    BY <2>2, <2>4
  <2> QED BY <1>2, <2>3, <2>5
<1>4. Good(m)
  BY <1>3
<1> QED BY <1>4 DEF Good

\* A line's chain is its parent's chain and the line.
LEMMA PathStep ==
  ASSUME NEW f, Len(f) \in Nat, Linked(f)
  PROVE  /\ ParentPath(f) \in [0..Len(f) -> Seq(Nat)]
         /\ ParentPath(f)[0] = <<>>
         /\ \A p \in 1..Len(f) :
              ParentPath(f)[p] = Append(ParentPath(f)[f[p].parent], p)
<1> DEFINE n == Len(f)
           Eq(g) == g = [p \in 0..n |-> IF p = 0 THEN <<>> ELSE Append(g[f[p].parent], p)]
<1>1. PICK g \in [0..n -> Seq(Nat)] :
        \A p \in 0..n : g[p] = IF p = 0 THEN <<>> ELSE Append(g[f[p].parent], p)
  BY ChainsExist, n \in 0..n DEF Linked
<1>2. Eq(g)
  <2> DEFINE h == [p \in 0..n |-> IF p = 0 THEN <<>> ELSE Append(g[f[p].parent], p)]
  <2>1. DOMAIN g = 0..n /\ DOMAIN h = 0..n /\ g = [p \in 0..n |-> g[p]]
    OBVIOUS
  <2>2. \A p \in 0..n : g[p] = h[p]
    BY <1>1
  <2>3. [p \in 0..n |-> g[p]] = h
    BY <2>2
  <2> QED BY <2>1, <2>3
<1>3. ParentPath(f) = CHOOSE path : Eq(path)
  BY DEF ParentPath
<1> DEFINE c == ParentPath(f)
<1>4. Eq(c)
  <2> HIDE DEF Eq
  <2> QED BY <1>2, <1>3
<1> HIDE DEF c
<1>5. \A p \in 0..n : c[p] = IF p = 0 THEN <<>> ELSE Append(c[f[p].parent], p)
  <2> DEFINE h == [p \in 0..n |-> IF p = 0 THEN <<>> ELSE Append(c[f[p].parent], p)]
  <2>1. c = h
    BY <1>4
  <2>2. \A p \in 0..n : h[p] = IF p = 0 THEN <<>> ELSE Append(c[f[p].parent], p)
    OBVIOUS
  <2> HIDE DEF h
  <2> QED BY <2>1, <2>2
<1>6. c[0] = <<>> /\ \A p \in 1..n : c[p] = Append(c[f[p].parent], p)
  <2>1. 0 \in 0..n /\ \A p \in 1..n : p \in 0..n /\ p # 0
    OBVIOUS
  <2> QED BY <1>5, <2>1
<1>7. DOMAIN c = 0..n
  BY <1>4
<1>8. \A p \in 0..n : c[p] \in Seq(Nat)
  <2> DEFINE T == {p \in 0..n : c[p] \notin Seq(Nat)}
  <2> SUFFICES ASSUME T # {} PROVE FALSE
    OBVIOUS
  <2>1. T \in SUBSET Nat
    OBVIOUS
  <2>2. PICK x \in T : \A y \in T : x <= y
    <3> HIDE DEF T
    <3> QED BY <2>1, SmallestNumber
  <2>e. c[0] \in Seq(Nat)
    BY <1>6
  <2>3. x \in 1..n
    BY <2>e
  <2>4. f[x].parent \in 0..n /\ ~(x <= f[x].parent)
    BY <2>3 DEF Linked
  <2>5. c[f[x].parent] \in Seq(Nat)
    BY <2>2, <2>4
  <2>6. c[x] \in Seq(Nat)
    <3>1. c[x] = Append(c[f[x].parent], x)
      BY <1>6, <2>3
    <3> QED BY <2>3, <2>5, <3>1
  <2> QED BY <2>6
<1>9. c \in [0..n -> Seq(Nat)]
  <2>1. c = [p \in 0..n |-> c[p]]
    BY <1>4
  <2> QED BY <1>8, <2>1
<1> QED BY <1>6, <1>9 DEF c

\* What the lines appended later link to does not matter to earlier chains.
LEMMA PathKept ==
  ASSUME NEW f \in Seq(LineType), Linked(f), NEW line \in LineType,
         line.parent \in 0..Len(f)
  PROVE  /\ Linked(Append(f, line))
         /\ \A p \in 0..Len(f) : ParentPath(Append(f, line))[p] = ParentPath(f)[p]
<1> DEFINE g == Append(f, line)
<1>1. /\ Len(f) \in Nat
      /\ Len(g) = Len(f) + 1
      /\ \A p \in 1..Len(f) : g[p] = f[p]
      /\ g[Len(f) + 1] = line
  BY AppendProperties
<1> HIDE DEF g
<1>2. Linked(g)
  <2> SUFFICES ASSUME NEW p \in 1..(Len(f) + 1) PROVE g[p].parent \in 0..(p - 1)
    BY <1>1 DEF Linked
  <2>1. CASE p \in 1..Len(f)
    BY <1>1, <2>1 DEF Linked
  <2>2. CASE p = Len(f) + 1
    BY <1>1, <2>2
  <2> QED BY <1>1, <2>1, <2>2
<1> DEFINE c == ParentPath(f)
           d == ParentPath(g)
           T == {p \in 0..Len(f) : d[p] # c[p]}
<1>3. c[0] = <<>> /\ \A p \in 1..Len(f) : c[p] = Append(c[f[p].parent], p)
  BY <1>1, PathStep
<1>4. d[0] = <<>> /\ \A p \in 1..(Len(f) + 1) : d[p] = Append(d[g[p].parent], p)
  <2>1. Len(g) \in Nat
    BY <1>1
  <2> QED BY <1>1, <1>2, <2>1, PathStep
<1> HIDE DEF c, d
<1>5. T = {}
  <2> SUFFICES ASSUME T # {} PROVE FALSE
    OBVIOUS
  <2>1. T \in SUBSET Nat
    OBVIOUS
  <2>2. PICK x \in T : \A y \in T : x <= y
    <3> HIDE DEF T
    <3> QED BY <2>1, SmallestNumber
  <2>3. x \in 1..Len(f)
    BY <1>3, <1>4
  <2>4. f[x].parent \in 0..Len(f) /\ ~(x <= f[x].parent)
    BY <1>1, <2>3 DEF Linked
  <2>5. d[f[x].parent] = c[f[x].parent]
    BY <2>2, <2>4
  <2>6. x \in 1..(Len(f) + 1) /\ g[x].parent = f[x].parent
    BY <1>1, <2>3
  <2>7. d[x] = c[x]
    BY <1>3, <1>4, <2>3, <2>5, <2>6
  <2> QED BY <2>7
<1> QED BY <1>2, <1>5 DEF c, d, g

\* A message's chain holds messages only, and ends with it.
LEMMA PathOfMessages ==
  ASSUME NEW f, Len(f) \in Nat, Linked(f), LinksToMessages(f),
         NEW p \in 0..Len(f), p # 0 => f[p].kind = "message"
  PROVE  LET c == ParentPath(f)[p]
         IN /\ c \in Seq(Nat)
            /\ \A i \in 1..Len(c) : c[i] \in 1..p /\ f[c[i]].kind = "message"
            /\ p = 0 => c = <<>>
            /\ p # 0 => Len(c) > 0 /\ c[Len(c)] = p
<1> DEFINE c == ParentPath(f)
           Fits(q) == \A i \in 1..Len(c[q]) : c[q][i] \in 1..q /\ f[c[q][i]].kind = "message"
           T == {q \in 0..Len(f) : (q # 0 => f[q].kind = "message") /\ ~Fits(q)}
<1>1. /\ c \in [0..Len(f) -> Seq(Nat)]
      /\ c[0] = <<>>
      /\ \A q \in 1..Len(f) : c[q] = Append(c[f[q].parent], q)
  BY PathStep
<1> HIDE DEF c
<1>2. ASSUME NEW q \in 1..Len(f)
      PROVE  /\ f[q].parent \in 0..(q - 1)
             /\ c[f[q].parent] \in Seq(Nat)
             /\ Len(c[q]) = Len(c[f[q].parent]) + 1
             /\ \A i \in 1..Len(c[f[q].parent]) : c[q][i] = c[f[q].parent][i]
             /\ c[q][Len(c[q])] = q
  <2>1. f[q].parent \in 0..(q - 1)
    BY DEF Linked
  <2>2. f[q].parent \in 0..Len(f)
    BY <2>1
  <2>3. c[f[q].parent] \in Seq(Nat)
    BY <1>1, <2>2
  <2>4. c[q] = Append(c[f[q].parent], q)
    BY <1>1
  <2> QED BY <2>1, <2>3, <2>4, AppendProperties
<1>3. T = {}
  <2> SUFFICES ASSUME T # {} PROVE FALSE
    OBVIOUS
  <2>1. T \in SUBSET Nat
    OBVIOUS
  <2>2. PICK x \in T : \A y \in T : x <= y
    <3> HIDE DEF T
    <3> QED BY <2>1, SmallestNumber
  <2>3. Fits(0)
    BY <1>1
  <2>4. x \in 1..Len(f) /\ f[x].kind = "message" /\ ~Fits(x)
    BY <2>3
  <2> DEFINE y == f[x].parent
  <2>5. y \in 0..(x - 1) /\ y \in 0..Len(f) /\ ~(x <= y)
    BY <1>2, <2>4
  <2>6. y # 0 => f[y].kind = "message"
    BY <2>4 DEF LinksToMessages
  <2> HIDE DEF y, Fits
  <2>7. Fits(y)
    BY <2>2, <2>5, <2>6
  <2>8. ASSUME NEW i \in 1..Len(c[x]) PROVE c[x][i] \in 1..x /\ f[c[x][i]].kind = "message"
    <3>1. /\ c[y] \in Seq(Nat) /\ Len(c[y]) \in Nat
          /\ Len(c[x]) = Len(c[y]) + 1
          /\ \A j \in 1..Len(c[y]) : c[x][j] = c[y][j]
          /\ c[x][Len(c[x])] = x
      BY <1>2, <2>4 DEF y
    <3>2. CASE i \in 1..Len(c[y])
      <4>1. c[y][i] \in 1..y /\ f[c[y][i]].kind = "message"
        BY <2>7, <3>2 DEF Fits
      <4>2. c[x][i] = c[y][i]
        BY <3>1, <3>2
      <4>3. c[y][i] \in 1..x
        BY <2>4, <2>5, <4>1
      <4> QED BY <4>1, <4>2, <4>3
    <3>3. CASE i = Len(c[x])
      BY <2>4, <3>1, <3>3
    <3> QED BY <3>1, <3>2, <3>3
  <2>9. Fits(x)
    BY <2>8 DEF Fits
  <2> QED BY <2>4, <2>9
<1>4. Fits(p)
  BY <1>3
<1>5. c[p] \in Seq(Nat) /\ (p = 0 => c[p] = <<>>)
  BY <1>1
<1>6. ASSUME p # 0 PROVE Len(c[p]) > 0 /\ c[p][Len(c[p])] = p
  <2>1. p \in 1..Len(f)
    BY <1>6
  <2>2. Len(c[f[p].parent]) \in Nat
    BY <1>2, <2>1
  <2> QED BY <1>2, <2>1, <2>2
<1> QED BY <1>4, <1>5, <1>6 DEF c

-----------------------------------------------------------------------------
(* Transcripts *)

\* A line's transcript is its parent's and its own message.
LEMMA ThreadStep ==
  ASSUME NEW f \in Seq(LineType), Linked(f), LinksToMessages(f)
  PROVE  /\ Thread(f, 0) = <<>>
         /\ \A p \in 1..Len(f) :
              Thread(f, p) = Append(Thread(f, f[p].parent), f[p].message)
<1>0. Len(f) \in Nat
  OBVIOUS
<1> DEFINE c == ParentPath(f)
<1>1. /\ c \in [0..Len(f) -> Seq(Nat)]
      /\ c[0] = <<>>
      /\ \A q \in 1..Len(f) : c[q] = Append(c[f[q].parent], q)
  BY <1>0, PathStep
<1>2. Thread(f, 0) = <<>>
  BY <1>1 DEF Thread
<1>3. ASSUME NEW p \in 1..Len(f)
      PROVE  Thread(f, p) = Append(Thread(f, f[p].parent), f[p].message)
  <2> DEFINE y == f[p].parent
             n == Len(c[y])
             t == Thread(f, y)
  <2>1. y \in 0..(p - 1) /\ y \in 0..Len(f)
    BY <1>0 DEF Linked
  <2>2. c[y] \in Seq(Nat) /\ n \in Nat /\ c[p] = Append(c[y], p)
    BY <1>1, <2>1
  <2>3. /\ Len(c[p]) = n + 1
        /\ \A i \in 1..n : c[p][i] = c[y][i]
        /\ c[p][n + 1] = p
    BY <2>2, AppendProperties
  <2>4. t = [i \in 1..n |-> f[c[y][i]].message]
    BY DEF Thread
  <2>5. Thread(f, p) = [i \in 1..(n + 1) |-> f[c[p][i]].message]
    BY <2>3 DEF Thread
  <2>6. ASSUME NEW i \in 1..(n + 1)
        PROVE  f[c[p][i]].message = IF i <= n THEN t[i] ELSE f[p].message
    <3>1. i \in 1..n \/ (i = n + 1 /\ ~(i <= n))
      BY <2>2
    <3> QED BY <2>2, <2>3, <2>4, <3>1
  <2>7. Len(t) = n
    BY <2>2, <2>4
  <2>8. Append(t, f[p].message) = [i \in 1..(n + 1) |-> IF i <= n THEN t[i] ELSE f[p].message]
    <3> HIDE DEF t, n
    <3>1. t = [i \in 1..n |-> t[i]]
      BY <2>4
    <3> DEFINE S == {t[i] : i \in 1..n} \cup {f[p].message}
    <3>2. (\A i \in 1..n : t[i] \in S) /\ f[p].message \in S
      OBVIOUS
    <3> HIDE DEF S
    <3>3. t \in [1..n -> S]
      BY <3>1, <3>2, Zenon
    <3>4. t \in Seq(S)
      BY <2>2, <3>3
    <3> QED BY <2>2, <2>7, <3>2, <3>4
  <2> HIDE DEF t, n, c, y
  <2>9. [i \in 1..(n + 1) |-> f[c[p][i]].message]
          = [i \in 1..(n + 1) |-> IF i <= n THEN t[i] ELSE f[p].message]
    BY <2>6
  <2> QED BY <2>5, <2>8, <2>9 DEF t, y
<1> QED BY <1>2, <1>3

\* A transcript is one of messages.
LEMMA ThreadType ==
  ASSUME NEW f \in Seq(LineType), Linked(f), LinksToMessages(f),
         NEW p \in 0..Len(f), p # 0 => f[p].kind = "message"
  PROVE  Thread(f, p) \in Seq(MessageType) /\ Len(Thread(f, p)) = Len(ParentPath(f)[p])
<1> DEFINE c == ParentPath(f)[p]
<1>0. Len(f) \in Nat
  OBVIOUS
<1>1. c \in Seq(Nat) /\ \A i \in 1..Len(c) : c[i] \in 1..p
  BY <1>0, PathOfMessages
<1> HIDE DEF c
<1>2. ASSUME NEW i \in 1..Len(c) PROVE f[c[i]].message \in MessageType
  <2>1. c[i] \in 1..Len(f)
    BY <1>0, <1>1
  <2>2. f[c[i]] \in LineType
    BY <2>1
  <2> QED BY <2>2 DEF LineType
<1>3. Thread(f, p) = [i \in 1..Len(c) |-> f[c[i]].message]
  BY DEF Thread, c
<1>4. Len(c) \in Nat
  BY <1>1
<1> QED BY <1>2, <1>3, <1>4 DEF c

\* A line appended leaves every transcript as it was.
LEMMA ThreadKept ==
  ASSUME NEW f \in Seq(LineType), Linked(f), LinksToMessages(f),
         NEW line \in LineType, line.parent \in 0..Len(f),
         NEW p \in 0..Len(f), p # 0 => f[p].kind = "message"
  PROVE  Thread(Append(f, line), p) = Thread(f, p)
<1> DEFINE g == Append(f, line)
           c == ParentPath(f)[p]
<1>0. Len(f) \in Nat /\ \A q \in 1..Len(f) : g[q] = f[q]
  BY AppendProperties
<1>1. c \in Seq(Nat) /\ \A i \in 1..Len(c) : c[i] \in 1..p
  BY <1>0, PathOfMessages
<1>2. ParentPath(g)[p] = c
  BY PathKept
<1> HIDE DEF c, g
<1>3. \A i \in 1..Len(c) : c[i] \in 1..Len(f)
  BY <1>0, <1>1
<1>4. \A i \in 1..Len(c) : g[c[i]].message = f[c[i]].message
  BY <1>0, <1>3
<1>5. Thread(g, p) = [i \in 1..Len(c) |-> g[c[i]].message]
  BY <1>2 DEF Thread
<1>6. Thread(f, p) = [i \in 1..Len(c) |-> f[c[i]].message]
  BY DEF Thread, c
<1> QED BY <1>4, <1>5, <1>6 DEF g

-----------------------------------------------------------------------------
(* Sound files *)

\* A line that may be appended.
Fits(f, line) ==
  /\ line \in LineType
  /\ line.shape = "whole"
  /\ Readable(line)
  /\ line.parent \in 0..Len(f)
  /\ line.parent # 0 => f[line.parent].kind = "message"
  /\ line.kind = "leaf" =>
       /\ line.parent # 0
       /\ line.entry = line.parent
       /\ line.summary # 0 =>
            /\ line.summary \in 1..Len(f)
            /\ f[line.summary].kind = "summary"
            /\ f[line.summary].covers <= Len(Thread(f, line.entry))

\* Such a line is written after the last one.
LEMMA WrittenIsAppended ==
  ASSUME NEW f, WholeLines(f), NEW line
  PROVE  Written(f, line) = Append(f, line)
<1>1. ~Unterminated(f)
  <2> SUFFICES ASSUME f # <<>> PROVE f[Len(f)].shape = "whole"
    BY DEF Unterminated
  <2>1. Len(f) \in 1..Len(f)
    BY DEF WholeLines
  <2> QED BY <2>1 DEF WholeLines
<1> QED BY <1>1 DEF Written

\* The lines after an append.
LEMMA AppendedLines ==
  ASSUME NEW f \in Seq(LineType), NEW line \in LineType
  PROVE  /\ Append(f, line) \in Seq(LineType)
         /\ Len(f) \in Nat
         /\ Len(Append(f, line)) = Len(f) + 1
         /\ \A p \in 1..Len(f) : Append(f, line)[p] = f[p] /\ p \in 1..(Len(f) + 1)
         /\ Append(f, line)[Len(f) + 1] = line
         /\ \A p \in 1..(Len(f) + 1) : p \in 1..Len(f) \/ p = Len(f) + 1
BY AppendProperties

\* And the file stays sound.
LEMMA SoundStep ==
  ASSUME NEW f, Sound(f), NEW line, Fits(f, line)
  PROVE  /\ Sound(Append(f, line))
         /\ \A p \in 1..Len(f) : f[p].kind = "message" =>
              Thread(Append(f, line), p) = Thread(f, p)
<1> DEFINE g == Append(f, line)
<1>0. f \in Seq(LineType) /\ Linked(f) /\ LinksToMessages(f) /\ line \in LineType
      /\ line.parent \in 0..Len(f)
  BY DEF Sound, WholeLines, Fits
<1>1. /\ g \in Seq(LineType)
      /\ Len(f) \in Nat
      /\ Len(g) = Len(f) + 1
      /\ \A p \in 1..Len(f) : g[p] = f[p] /\ p \in 1..(Len(f) + 1)
      /\ g[Len(f) + 1] = line
      /\ \A p \in 1..(Len(f) + 1) : p \in 1..Len(f) \/ p = Len(f) + 1
  BY <1>0, AppendedLines
<1>2. Linked(g)
  BY <1>0, PathKept
<1>3. ASSUME NEW p \in 1..Len(f), f[p].kind = "message" PROVE Thread(g, p) = Thread(f, p)
  <2>1. p \in 0..Len(f)
    BY <1>1
  <2> QED BY <1>0, <1>3, <2>1, ThreadKept
<1> HIDE DEF g
<1>4. LinksToMessages(g)
  <2> SUFFICES ASSUME NEW p \in 1..(Len(f) + 1), g[p].parent # 0
               PROVE  g[g[p].parent].kind = "message"
    BY <1>1 DEF LinksToMessages
  <2>1. CASE p \in 1..Len(f)
    <3>1. g[p] = f[p] /\ f[p].parent \in 0..(p - 1) /\ f[f[p].parent].kind = "message"
      BY <1>0, <1>1, <2>1 DEF LinksToMessages, Linked
    <3>2. f[p].parent \in 1..Len(f)
      BY <1>1, <2>1, <3>1
    <3> QED BY <1>1, <3>1, <3>2
  <2>2. CASE p = Len(f) + 1
    <3>1. g[p] = line /\ line.parent \in 1..Len(f) /\ f[line.parent].kind = "message"
      BY <1>0, <1>1, <2>2 DEF Fits
    <3> QED BY <1>1, <3>1
  <2> QED BY <1>1, <2>1, <2>2
<1>5. \A p \in 1..Len(g) : g[p].shape = "whole" /\ Readable(g[p])
  BY <1>1 DEF Sound, WholeLines, Fits
<1>6. ASSUME NEW p \in Entries(g, "leaf") PROVE LeafIsSound(g, p)
  <2>0. p \in 1..(Len(f) + 1) /\ g[p].kind = "leaf"
    BY <1>1 DEF Entries
  <2>1. CASE p \in 1..Len(f)
    <3>1. g[p] = f[p] /\ p \in Entries(f, "leaf")
      BY <1>1, <2>0, <2>1 DEF Entries
    <3>2. LeafIsSound(f, p)
      BY <3>1 DEF Sound
    <3>3. f[p].parent # 0 /\ f[p].entry = f[p].parent
      BY <3>2 DEF LeafIsSound
    <3>4. f[p].entry \in 1..Len(f) /\ f[f[p].entry].kind = "message"
      <4>1. f[p].parent \in 0..(p - 1)
        BY <1>0, <2>1 DEF Linked
      <4>2. f[p].parent \in 1..Len(f)
        BY <1>1, <2>1, <3>3, <4>1
      <4> QED BY <1>0, <2>1, <3>3, <4>2 DEF LinksToMessages
    <3>5. Thread(g, f[p].entry) = Thread(f, f[p].entry)
      BY <1>3, <3>4
    <3>6. ASSUME f[p].summary # 0
          PROVE  /\ f[p].summary \in 1..(p - 1)
                 /\ g[f[p].summary].kind = "summary"
                 /\ g[f[p].summary].covers <= Len(Thread(f, f[p].entry))
      <4>1. /\ f[p].summary \in 1..(p - 1)
            /\ f[f[p].summary].kind = "summary"
            /\ f[f[p].summary].covers <= Len(Thread(f, f[p].entry))
        BY <3>2, <3>6 DEF LeafIsSound
      <4>2. f[p].summary \in 1..Len(f)
        BY <1>1, <2>1, <4>1
      <4> QED BY <1>1, <4>1, <4>2
    <3> QED BY <3>1, <3>3, <3>5, <3>6 DEF LeafIsSound
  <2>2. CASE p = Len(f) + 1
    <3>1. g[p] = line /\ line.kind = "leaf"
      BY <1>1, <2>0, <2>2
    <3>2. /\ line.parent # 0
          /\ line.entry = line.parent
          /\ line.entry \in 1..Len(f) /\ f[line.entry].kind = "message"
      BY <1>1, <3>1 DEF Fits
    <3>3. Thread(g, line.entry) = Thread(f, line.entry)
      BY <1>3, <3>2
    <3>4. ASSUME line.summary # 0
          PROVE  /\ line.summary \in 1..(p - 1)
                 /\ g[line.summary].kind = "summary"
                 /\ g[line.summary].covers <= Len(Thread(f, line.entry))
      <4>1. /\ line.summary \in 1..Len(f)
            /\ f[line.summary].kind = "summary"
            /\ f[line.summary].covers <= Len(Thread(f, line.entry))
        BY <3>1, <3>4 DEF Fits
      <4> QED BY <1>1, <2>2, <4>1
    <3> QED BY <3>1, <3>2, <3>3, <3>4 DEF LeafIsSound
  <2> QED BY <2>0, <2>1, <2>2, <1>1
<1> QED BY <1>1, <1>2, <1>3, <1>4, <1>5, <1>6 DEF Sound, WholeLines, g

-----------------------------------------------------------------------------
(* Loading *)

\* The latest leaf of a file that has one is a leaf, and the last.
LEMMA LatestLeafIs ==
  ASSUME NEW f, Len(f) \in Nat, HasLeaf(f)
  PROVE  /\ LatestLeaf(f) \in Entries(f, "leaf")
         /\ LatestLeaf(f) \in 1..Len(f)
         /\ \A p \in Entries(f, "leaf") : p <= LatestLeaf(f)
<1>1. Entries(f, "leaf") \in SUBSET (1..Len(f)) /\ Entries(f, "leaf") # {}
  BY DEF Entries, HasLeaf
<1> QED BY <1>1, LargestNumber DEF LatestLeaf

\* A line that is no leaf leaves the latest leaf where it is; a leaf becomes
\* the latest.
LEMMA LeafStep ==
  ASSUME NEW f \in Seq(LineType), NEW line \in LineType
  PROVE  LET g == Append(f, line)
         IN /\ line.kind # "leaf" /\ HasLeaf(f) => HasLeaf(g) /\ Leaf(g) = Leaf(f)
                                                   /\ LatestLeaf(g) = LatestLeaf(f)
            /\ line.kind # "leaf" /\ ~HasLeaf(f) => ~HasLeaf(g)
            /\ line.kind = "leaf" => HasLeaf(g) /\ Leaf(g) = line
                                     /\ LatestLeaf(g) = Len(g)
<1> DEFINE g == Append(f, line)
<1>1. /\ Len(f) \in Nat
      /\ Len(g) = Len(f) + 1
      /\ \A p \in 1..Len(f) : g[p] = f[p] /\ p \in 1..(Len(f) + 1)
      /\ g[Len(f) + 1] = line
      /\ \A p \in 1..(Len(f) + 1) : p \in 1..Len(f) \/ p = Len(f) + 1
  BY AppendedLines
<1> HIDE DEF g
<1>2. CASE line.kind # "leaf"
  <2>1. Entries(g, "leaf") = Entries(f, "leaf")
    BY <1>1, <1>2 DEF Entries
  <2>2. HasLeaf(g) = HasLeaf(f) /\ LatestLeaf(g) = LatestLeaf(f)
    BY <2>1 DEF HasLeaf, LatestLeaf
  <2>3. ASSUME HasLeaf(f) PROVE Leaf(g) = Leaf(f)
    <3>1. LatestLeaf(f) \in 1..Len(f)
      BY <1>1, <2>3, LatestLeafIs
    <3> QED BY <1>1, <2>2, <3>1 DEF Leaf
  <2> QED BY <1>2, <2>2, <2>3 DEF g
<1>3. CASE line.kind = "leaf"
  <2>1. Len(f) + 1 \in Entries(g, "leaf")
    BY <1>1, <1>3 DEF Entries
  <2>2. HasLeaf(g)
    BY <2>1 DEF HasLeaf
  <2>3. LatestLeaf(g) \in 1..(Len(f) + 1) /\ Len(f) + 1 <= LatestLeaf(g)
    BY <1>1, <2>1, <2>2, LatestLeafIs
  <2>4. LatestLeaf(g) = Len(f) + 1
    BY <1>1, <2>3
  <2>5. Leaf(g) = line
    BY <1>1, <2>4 DEF Leaf
  <2> QED BY <1>1, <1>3, <2>2, <2>4, <2>5 DEF g
<1> QED BY <1>2, <1>3

\* A sound file with a leaf loads to what the latest leaf commits.
LEMMA LoadSound ==
  ASSUME NEW f, Sound(f), HasLeaf(f)
  PROVE  /\ Load(f).ok
         /\ Load(f).messages = Thread(f, Leaf(f).entry)
         /\ Load(f).parent = Leaf(f).entry
         /\ Load(f).summary = Leaf(f).summary
         /\ Load(f).covers = IF Leaf(f).summary = 0 THEN 0 ELSE f[Leaf(f).summary].covers
         /\ LeafView(f) = Thread(f, Leaf(f).entry)
         /\ Leaf(f).entry \in 1..Len(f)
         /\ f[Leaf(f).entry].kind = "message"
         /\ LeafIsSound(f, LatestLeaf(f))
<1> DEFINE e == Leaf(f).entry
           c == ParentPath(f)[e]
           covers == IF Leaf(f).summary = 0 THEN 0 ELSE f[Leaf(f).summary].covers
<1>1. f \in Seq(LineType) /\ Linked(f) /\ LinksToMessages(f) /\ Len(f) \in Nat
  BY DEF Sound, WholeLines
<1>2. LatestLeaf(f) \in Entries(f, "leaf") /\ LatestLeaf(f) \in 1..Len(f)
  BY <1>1, LatestLeafIs
<1>3. LeafIsSound(f, LatestLeaf(f))
  BY <1>2 DEF Sound
<1>4. e = Leaf(f).parent /\ e # 0
  BY <1>3 DEF LeafIsSound, Leaf
<1>5. e \in 1..Len(f) /\ f[e].kind = "message"
  <2>1. Leaf(f).parent \in 0..(LatestLeaf(f) - 1)
    BY <1>1, <1>2 DEF Linked, Leaf
  <2>2. e \in 1..Len(f)
    BY <1>1, <1>2, <1>4, <2>1
  <2> QED BY <1>1, <1>2, <1>4 , <2>2 DEF LinksToMessages, Leaf
<1>6. /\ c \in Seq(Nat)
      /\ \A i \in 1..Len(c) : c[i] \in 1..e /\ f[c[i]].kind = "message"
      /\ Len(c) > 0 /\ c[Len(c)] = e
  <2>1. e \in 0..Len(f)
    BY <1>1, <1>5
  <2> QED BY <1>1, <1>5, <2>1, PathOfMessages
<1>7. \A i \in 1..Len(f) : Readable(f[i])
  BY DEF Sound, WholeLines
<1>8. Len(Thread(f, e)) = Len(c)
  BY <1>6 DEF Thread
<1>9. covers <= Len(c)
  <2>1. CASE Leaf(f).summary = 0
    BY <1>6, <2>1
  <2>2. CASE Leaf(f).summary # 0
    BY <1>3, <1>8, <2>2 DEF LeafIsSound, Leaf
  <2> QED BY <2>1, <2>2
<1>10. c # <<>>
  BY <1>6
<1> HIDE DEF c, e, covers
<1>11. Load(f) = [ok |-> TRUE,
                  messages |-> [i \in 1..Len(c) |-> f[c[i]].message],
                  parent |-> c[Len(c)],
                  summary |-> Leaf(f).summary,
                  covers |-> covers]
  BY <1>6, <1>7, <1>9, <1>10 DEF Load, Leaf, c, e, covers
<1>12. Thread(f, e) = [i \in 1..Len(c) |-> f[c[i]].message]
  BY DEF Thread, c
<1>13. Load(f).ok /\ Load(f).messages = Thread(f, e) /\ Load(f).parent = e
       /\ Load(f).summary = Leaf(f).summary /\ Load(f).covers = covers
  BY <1>6, <1>11, <1>12
<1> QED BY <1>3, <1>5, <1>13 DEF e, covers, LeafView

=============================================================================
