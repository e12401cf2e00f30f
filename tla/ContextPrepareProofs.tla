------------------------ MODULE ContextPrepareProofs ------------------------
(***************************************************************************)
(* What prepare sends, proved for every transcript, budget, estimator       *)
(* failure and summary: never a call without its result or a result without*)
(* its call, never more than the budget, never fewer turns than fit; and   *)
(* the validator accepts exactly the transcripts that pair up.             *)
(***************************************************************************)
EXTENDS ContextPrepare, FiniteSetTheorems, SequenceTheorems, TLAPS

-----------------------------------------------------------------------------
(* Least and greatest numbers *)

\* A set of natural numbers has a least element.
LEMMA LeastNat ==
  ASSUME NEW T \in SUBSET Nat, T # {}
  PROVE  \E x \in T : \A y \in T : x <= y
<1> DEFINE D == {0..x : x \in T}
<1>1. D \subseteq FiniteSubsetsOf(Nat) /\ D # {}
  <2>1. ASSUME NEW x \in T PROVE 0..x \subseteq Nat /\ IsFiniteSet(0..x)
    BY FS_Interval
  <2> QED BY <2>1 DEF FiniteSubsetsOf
<1>2. PICK d \in D : \A e \in D : ~(<<e, d>> \in StrictSubsetOrdering(Nat))
  <2> HIDE DEF D
  <2> QED BY <1>1, FS_StrictSubsetOrderingWellFounded, WFMin
<1>3. PICK x \in T : d = 0..x
  BY <1>2
<1>4. ASSUME NEW y \in T PROVE x <= y
  <2> SUFFICES ASSUME y < x PROVE FALSE
    OBVIOUS
  <2>1. 0..y \subseteq 0..x /\ 0..y # 0..x
    <3>1. x \in 0..x /\ x \notin 0..y
      OBVIOUS
    <3> QED BY <3>1
  <2>2. 0..y \in SUBSET Nat /\ 0..x \in SUBSET Nat
    OBVIOUS
  <2>3. <<0..y, 0..x>> \in StrictSubsetOrdering(Nat)
    BY <2>1, <2>2 DEF StrictSubsetOrdering
  <2>4. 0..y \in D
    OBVIOUS
  <2> QED BY <1>2, <1>3, <2>3, <2>4
<1> QED BY <1>4

\* A set of numbers up to n has a greatest element.
LEMMA GreatestUpTo ==
  ASSUME NEW n \in Nat, NEW T \in SUBSET (1..n), T # {}
  PROVE  \E x \in T : \A y \in T : y <= x
<1> DEFINE D == {n - y : y \in T}
<1>0. \A y \in T : y \in Nat /\ y <= n
  OBVIOUS
<1>1. D \in SUBSET Nat /\ D # {}
  <2>1. ASSUME NEW y \in T PROVE n - y \in Nat
    BY <1>0
  <2> QED BY <2>1
<1>2. PICK d \in D : \A e \in D : d <= e
  <2> HIDE DEF D
  <2> QED BY <1>1, LeastNat
<1>3. PICK x \in T : d = n - x
  BY <1>2
<1>4. ASSUME NEW y \in T PROVE y <= x
  <2>1. n - y \in D
    OBVIOUS
  <2>2. n - x <= n - y
    BY <1>2, <1>3, <2>1
  <2> HIDE DEF D
  <2> QED BY <1>0, <2>2
<1> QED BY <1>4

-----------------------------------------------------------------------------
(* Cutting a transcript *)

\* A cut before a user message separates no call from its result: what
\* follows it pairs up by itself.
LEMMA SuffixPaired ==
  ASSUME NEW m \in Seq(MessageType), Paired(m),
         NEW i \in 1..Len(m), i = 1 \/ m[i].role = "user"
  PROVE  Paired(SubSeq(m, i, Len(m)))
<1> DEFINE s == SubSeq(m, i, Len(m))
<1>1. /\ Len(s) = Len(m) - i + 1
      /\ \A k \in 1..Len(s) : s[k] = m[k + i - 1]
  BY SubSeqProperties
<1>2. Len(m) \in Nat /\ i \in Nat
  OBVIOUS
<1>c. ASSUME NEW k \in 1..Len(m) PROVE m[k].calls \in Nat
  <2>1. MaxCalls \in Nat
    BY ContextAssumption DEF ContextAssumption
  <2>2. m[k] \in MessageType
    OBVIOUS
  <2> QED BY <2>1, <2>2 DEF MessageType
<1> HIDE DEF s
<1>3. ASSUME NEW a \in 1..Len(s), s[a].role = "assistant", NEW k \in 1..s[a].calls
      PROVE  a + k <= Len(s) /\ s[a + k].role = "tool" /\ s[a + k].id = k
  <2>1. a + i - 1 \in 1..Len(m) /\ s[a] = m[a + i - 1]
    BY <1>1, <1>2
  <2>2. m[a + i - 1].calls \in Nat
    BY <1>c, <2>1
  <2>3. /\ (a + i - 1) + k <= Len(m)
        /\ m[(a + i - 1) + k].role = "tool"
        /\ m[(a + i - 1) + k].id = k
    BY <1>3, <2>1 DEF Paired
  <2>k. k \in Nat /\ k >= 1
    BY <2>1, <2>2
  <2>4. a + k \in 1..Len(s) /\ (a + k) + i - 1 = (a + i - 1) + k
    BY <1>1, <1>2, <2>k, <2>3
  <2> QED BY <1>1, <2>3, <2>4
<1>4. ASSUME NEW b \in 1..Len(s), s[b].role = "tool"
      PROVE  \E j \in 1..(b - 1) :
               s[j].role = "assistant" /\ s[j].calls >= b - j /\ s[b].id = b - j
  <2>1. b + i - 1 \in 1..Len(m) /\ s[b] = m[b + i - 1]
    BY <1>1, <1>2
  <2>2. PICK j \in 1..((b + i - 1) - 1) :
          /\ m[j].role = "assistant"
          /\ m[j].calls >= (b + i - 1) - j
          /\ m[b + i - 1].id = (b + i - 1) - j
    BY <1>4, <2>1 DEF Paired
  <2>3. j >= i
    <3> SUFFICES ASSUME j < i PROVE FALSE
      BY <1>2
    <3>1. i # 1 /\ m[i].role = "user"
      OBVIOUS
    <3>2. j \in 1..Len(m) /\ m[j].calls \in Nat
      BY <1>2, <1>c, <2>1
    <3>3. i - j \in 1..m[j].calls
      BY <2>2, <3>2
    <3>4. m[j + (i - j)].role = "tool"
      BY <2>2, <3>2, <3>3 DEF Paired
    <3>5. j + (i - j) = i
      BY <1>2, <3>2
    <3> QED BY <3>1, <3>4, <3>5
  <2>4. /\ j - i + 1 \in 1..(b - 1)
        /\ (j - i + 1) + i - 1 = j
        /\ b - (j - i + 1) = (b + i - 1) - j
    BY <1>1, <1>2, <2>3
  <2>5. s[j - i + 1] = m[(j - i + 1) + i - 1]
    <3>1. j - i + 1 \in 1..Len(s)
      BY <1>1, <1>2, <2>4
    <3> QED BY <1>1, <3>1
  <2> QED BY <2>1, <2>2, <2>4, <2>5
<1> QED BY <1>3, <1>4 DEF Paired, s

-----------------------------------------------------------------------------
(* Growing a transcript *)

Round(n) == <<Assistant(n)>> \o Results(n)

\* What a round of n calls adds: the calls, and a result for each.
LEMMA RoundShape ==
  ASSUME NEW n \in 1..MaxCalls
  PROVE  /\ Round(n) \in Seq(MessageType)
         /\ Len(Round(n)) = n + 1
         /\ Round(n)[1] = Assistant(n)
         /\ \A k \in 1..n : Round(n)[k + 1] = ToolResult(k, "success")
<1>1. MaxCalls \in Nat /\ n \in Nat
  BY ContextAssumption DEF ContextAssumption
<1>2. Assistant(n) \in MessageType
  BY <1>1 DEF Assistant, MessageType
<1>3. Results(n) \in Seq(MessageType) /\ Len(Results(n)) = n
  <2>1. \A k \in 1..n : ToolResult(k, "success") \in MessageType
    BY <1>1 DEF ToolResult, MessageType, Statuses
  <2> QED BY <1>1, <2>1 DEF Results
<1>4. <<Assistant(n)>> \in Seq(MessageType) /\ Len(<<Assistant(n)>>) = 1
  BY <1>2
<1>5. \A k \in 1..n : Results(n)[k] = ToolResult(k, "success")
  BY DEF Results
<1> QED BY <1>1, <1>3, <1>4, <1>5, ConcatProperties DEF Round

\* A paired transcript stays so when calls and their results join it.
LEMMA RoundPaired ==
  ASSUME NEW m \in Seq(MessageType), Paired(m), NEW n \in 1..MaxCalls
  PROVE  Paired(m \o Round(n))
<1> DEFINE s == m \o Round(n)
           l == Len(m)
<1>1. /\ l \in Nat /\ n \in Nat
      /\ Len(s) = l + n + 1
      /\ \A k \in 1..l : s[k] = m[k]
      /\ \A k \in 1..(n + 1) : s[l + k] = Round(n)[k]
  <2>1. MaxCalls \in Nat
    BY ContextAssumption DEF ContextAssumption
  <2>2. l \in Nat /\ n \in Nat /\ Round(n) \in Seq(MessageType) /\ Len(Round(n)) = n + 1
    BY <2>1, RoundShape
  <2>3. /\ Len(s) = l + (n + 1)
        /\ \A i \in 1..(l + (n + 1)) :
             s[i] = IF i <= l THEN m[i] ELSE Round(n)[i - l]
    <3>1. /\ Len(s) = Len(m) + Len(Round(n))
          /\ \A i \in 1..(Len(m) + Len(Round(n))) :
               s[i] = IF i <= Len(m) THEN m[i] ELSE Round(n)[i - Len(m)]
      BY <2>2, ConcatProperties, Zenon
    <3> QED BY <2>2, <3>1, Zenon
  <2>4. ASSUME NEW k \in 1..l PROVE s[k] = m[k]
    BY <2>2, <2>3
  <2>5. ASSUME NEW k \in 1..(n + 1) PROVE s[l + k] = Round(n)[k]
    <3>1. l + k \in 1..(l + (n + 1)) /\ ~(l + k <= l) /\ (l + k) - l = k
      BY <2>2
    <3> QED BY <2>3, <3>1
  <2> HIDE DEF s
  <2> QED BY <2>2, <2>3, <2>4, <2>5
<1>2. s[l + 1] = Assistant(n)
  BY <1>1, RoundShape
<1>3. \A k \in 1..n : s[l + 1 + k] = ToolResult(k, "success")
  <2> SUFFICES ASSUME NEW k \in 1..n PROVE s[l + 1 + k] = ToolResult(k, "success")
    OBVIOUS
  <2>1. k + 1 \in 1..(n + 1) /\ l + (k + 1) = l + 1 + k
    BY <1>1
  <2> QED BY <1>1, <2>1, RoundShape
<1> HIDE DEF s
<1>4. ASSUME NEW i \in 1..Len(s), s[i].role = "assistant", NEW k \in 1..s[i].calls
      PROVE  i + k <= Len(s) /\ s[i + k].role = "tool" /\ s[i + k].id = k
  <2>1. CASE i \in 1..l
    <3>1. /\ m[i].role = "assistant" /\ k \in 1..m[i].calls
      BY <1>1, <1>4, <2>1
    <3>2. i + k <= l /\ m[i + k].role = "tool" /\ m[i + k].id = k
      BY <2>1, <3>1 DEF Paired
    <3>3. m[i].calls \in Nat
      <4>1. m[i] \in MessageType /\ MaxCalls \in Nat
        BY <2>1, ContextAssumption DEF ContextAssumption
      <4> QED BY <4>1 DEF MessageType
    <3>4. i + k \in 1..l
      BY <1>1, <2>1, <3>1, <3>2, <3>3
    <3> QED BY <1>1, <3>2, <3>4
  <2>2. CASE i = l + 1
    <3>1. k \in 1..n
      BY <1>2, <1>4, <2>2 DEF Assistant
    <3>2. i + k = l + 1 + k /\ i + k <= Len(s)
      BY <1>1, <2>2, <3>1
    <3>3. s[i + k] = ToolResult(k, "success")
      BY <1>3, <3>1, <3>2
    <3> QED BY <3>2, <3>3 DEF ToolResult
  <2>3. CASE i \in (l + 2)..(l + n + 1)
    <3>1. i - l - 1 \in 1..n /\ l + 1 + (i - l - 1) = i
      BY <1>1, <2>3
    <3>2. s[i] = ToolResult(i - l - 1, "success")
      BY <1>3, <3>1
    <3> QED BY <1>4, <3>2 DEF ToolResult
  <2> QED BY <1>1, <2>1, <2>2, <2>3
<1>5. ASSUME NEW i \in 1..Len(s), s[i].role = "tool"
      PROVE  \E j \in 1..(i - 1) :
               s[j].role = "assistant" /\ s[j].calls >= i - j /\ s[i].id = i - j
  <2>1. CASE i \in 1..l
    <3>1. PICK j \in 1..(i - 1) :
            m[j].role = "assistant" /\ m[j].calls >= i - j /\ m[i].id = i - j
      BY <1>1, <1>5, <2>1 DEF Paired
    <3>2. j \in 1..l
      BY <1>1, <2>1
    <3> QED BY <1>1, <2>1, <3>1, <3>2
  <2>2. CASE i = l + 1
    BY <1>2, <1>5, <2>2 DEF Assistant
  <2>3. CASE i \in (l + 2)..(l + n + 1)
    <3>1. i - l - 1 \in 1..n /\ l + 1 + (i - l - 1) = i
      BY <1>1, <2>3
    <3>2. s[i] = ToolResult(i - l - 1, "success")
      BY <1>3, <3>1
    <3>3. /\ l + 1 \in 1..(i - 1)
          /\ s[l + 1].role = "assistant"
          /\ s[l + 1].calls >= i - (l + 1)
          /\ s[i].id = i - (l + 1)
      BY <1>1, <1>2, <2>3, <3>1, <3>2 DEF Assistant, ToolResult
    <3> QED BY <3>3
  <2> QED BY <1>1, <2>1, <2>2, <2>3
<1> QED BY <1>4, <1>5 DEF Paired, s

-----------------------------------------------------------------------------
(* Turns *)

HasUser == \E i \in 1..Len(messages) : IsUser(i)

\* The current turn starts with a user message, and none comes after it.
LEMMA CurrentStartIsLastUser ==
  ASSUME messages \in Seq(MessageType), HasUser
  PROVE  /\ CurrentStart \in 1..Len(messages)
         /\ IsUser(CurrentStart)
<1> DEFINE T == {i \in 1..Len(messages) : IsUser(i)}
<1>1. Len(messages) \in Nat /\ T \in SUBSET (1..Len(messages)) /\ T # {}
  BY DEF HasUser
<1>2. PICK x \in T : \A y \in T : y <= x
  <2> HIDE DEF T
  <2> QED BY <1>1, GreatestUpTo
<1>3. \E i \in 1..Len(messages) :
        IsUser(i) /\ \A j \in (i + 1)..Len(messages) : ~IsUser(j)
  <2>1. x \in 1..Len(messages) /\ IsUser(x)
    OBVIOUS
  <2>2. ASSUME NEW j \in (x + 1)..Len(messages) PROVE ~IsUser(j)
    <3>1. j \in 1..Len(messages) /\ ~(j <= x)
      BY <2>1
    <3> QED BY <1>2, <3>1
  <2> QED BY <2>1, <2>2
<1> QED BY <1>3 DEF CurrentStart

\* Where turns can go, the cut moves to a later user message of the history.
LEMMA OldestLaterIsUser ==
  ASSUME messages \in Seq(MessageType), HasUser,
         from \in Nat, from >= 1, LaterTurns # {}
  PROVE  OldestLater \in 1..Len(messages) /\ IsUser(OldestLater)
<1>1. CurrentStart \in 1..Len(messages) /\ Len(messages) \in Nat
  BY CurrentStartIsLastUser
<1>2. ASSUME NEW i \in LaterTurns PROVE i \in 1..Len(messages) /\ IsUser(i)
  BY <1>1, <1>2 DEF LaterTurns, TurnStarts
<1>3. LaterTurns \in SUBSET Nat
  BY <1>1, <1>2
<1>4. \E i \in LaterTurns : \A j \in LaterTurns : i <= j
  BY <1>3, LeastNat
<1>5. OldestLater \in LaterTurns
  BY <1>4 DEF OldestLater
<1> QED BY <1>2, <1>5

-----------------------------------------------------------------------------
(* The invariant *)

\* Once the request is checked its transcript is paired and has a user
\* message; what is kept starts with a user message or is everything.
Kept ==
  /\ pc \in {"prepare", "prune", "prepared"} => HasUser /\ Paired(messages)
  /\ pc \in {"prune", "prepared"} =>
       from \in 1..Len(messages) /\ (from = 1 \/ IsUser(from))
  /\ error # "projection"

IInv == TypeOK /\ Kept

\* The initial state satisfies the invariant.
LEMMA InitKept == Init => IInv
<1> SUFFICES ASSUME Init PROVE IInv
  OBVIOUS
<1>1. messages \in Seq(MessageType)
  BY ContextAssumption DEF ContextAssumption, Init, MessageType
<1>2. 0 \in 0..MaxSummary /\ 0 \in 0..MaxRounds
  BY ContextAssumption DEF ContextAssumption
<1> QED BY <1>1, <1>2 DEF Init, IInv, TypeOK, Kept, PCs, Errors

\* No step of a preparation changes the transcript or cuts it badly.
LEMMA PrepareStep ==
  ASSUME IInv, Request \/ Begin \/ EstimationFails \/ Prune \/ Fits
               \/ CannotCompact \/ CompactionFails
  PROVE  IInv'
<1> USE DEF IInv
<1>0. messages \in Seq(MessageType) /\ Len(messages) \in Nat /\ 0 \in 0..MaxSummary
  BY ContextAssumption DEF ContextAssumption, TypeOK
<1>1. CASE Request
  <2>1. CASE pc' = "prepare"
    <3>1. messages # <<>> /\ messages[Len(messages)] = User /\ Paired(messages)
      BY <1>1, <2>1 DEF Request, Fails
    <3>2. Len(messages) \in 1..Len(messages)
      BY <1>0, <3>1
    <3>3. HasUser
      BY <3>1, <3>2 DEF HasUser, IsUser, User
    <3> QED BY <1>1, <2>1, <3>1, <3>3
            DEF Request, Fails, TypeOK, Kept, HasUser, IsUser, PCs
  <2>2. CASE pc' # "prepare"
    BY <1>1, <2>2 DEF Request, Fails, TypeOK, Kept, PCs, Errors
  <2> QED BY <2>1, <2>2
<1>2. CASE Begin
  <2>1. Paired(messages) /\ HasUser /\ 1 \in 1..Len(messages)
    BY <1>0, <1>2 DEF Begin, Kept, HasUser
  <2> QED BY <1>0, <1>2, <2>1 DEF Begin, Fails, TypeOK, Kept, HasUser, IsUser, PCs, Errors
<1>3. CASE EstimationFails
  BY <1>3 DEF EstimationFails, Fails, TypeOK, Kept, PCs, Errors
<1>4. CASE Prune
  <2>1. HasUser /\ Paired(messages) /\ from \in Nat /\ from >= 1
    BY <1>4 DEF Prune, Kept, TypeOK
  <2>2. from' \in 1..Len(messages) /\ IsUser(from')
    BY <1>0, <1>4, <2>1, OldestLaterIsUser DEF Prune
  <2>3. Paired(Suffix(from'))
    BY <1>0, <2>1, <2>2, SuffixPaired DEF IsUser, Suffix
  <2> QED BY <1>0, <1>4, <2>1, <2>2, <2>3
          DEF Prune, Fails, TypeOK, Kept, HasUser, IsUser, PCs, Errors
<1>5. CASE Fits
  BY <1>5 DEF Fits, TypeOK, Kept, HasUser, IsUser, PCs
<1>6. CASE CannotCompact
  BY <1>6 DEF CannotCompact, NeedsCompactor, Fails, TypeOK, Kept, PCs, Errors
<1>7. CASE CompactionFails
  BY <1>7 DEF CompactionFails, NeedsCompactor, Fails, TypeOK, Kept, PCs, Errors
<1> QED BY <1>1, <1>2, <1>3, <1>4, <1>5, <1>6, <1>7

\* After compaction only the current turn is kept.
LEMMA CompactStep ==
  ASSUME IInv, NEW text \in 1..MaxSummary, Compact(text)
  PROVE  IInv'
<1> USE DEF IInv
<1>1. HasUser /\ Paired(messages) /\ messages \in Seq(MessageType)
  BY DEF Compact, NeedsCompactor, Kept, TypeOK
<1>2. CurrentStart \in 1..Len(messages) /\ IsUser(CurrentStart)
  BY <1>1, CurrentStartIsLastUser
<1>3. Replaced \in Nat
  <2>1. Len(messages) \in Nat /\ CurrentStart - 1 \in 0..Len(messages)
    BY <1>1, <1>2
  <2>2. History \in Seq(MessageType)
    BY <1>1, <2>1, SubSeqProperties DEF History
  <2> QED BY <2>2 DEF Replaced
<1>4. text \in 0..MaxSummary /\ CurrentStart \in Nat \ {0}
  BY <1>1, <1>2, ContextAssumption DEF ContextAssumption
<1>5. CASE pc' = "failed"
  BY <1>5, <1>3, <1>4 DEF Compact, Fails, TypeOK, Kept, PCs, Errors
<1>6. CASE pc' = "prepared"
  <2>1. from' = CurrentStart /\ condensed' = text /\ candidate' = Replaced /\ error' = error
        /\ UNCHANGED <<options, summary, messages, round>>
    BY <1>6 DEF Compact, Fails
  <2> QED BY <1>1, <1>2, <1>3, <1>4, <1>6, <2>1 DEF TypeOK, Kept, HasUser, IsUser, PCs
<1> QED BY <1>5, <1>6 DEF Compact, Fails

\* A further round keeps the transcript paired.
LEMMA RoundStep ==
  ASSUME IInv, NEW n \in 1..MaxCalls, NextRound(n)
  PROVE  IInv'
<1> USE DEF IInv
<1>1. HasUser /\ Paired(messages) /\ messages \in Seq(MessageType)
  BY DEF NextRound, Kept, TypeOK
<1>2. messages' = messages \o Round(n)
  <2>1. (messages \o <<Assistant(n)>>) \o Results(n) = messages \o Round(n)
    <3>1. MaxCalls \in Nat
      BY ContextAssumption DEF ContextAssumption
    <3>2. Assistant(n) \in MessageType /\ Results(n) \in Seq(MessageType)
      <4>1. \A k \in 1..n : ToolResult(k, "success") \in MessageType
        BY <3>1 DEF ToolResult, MessageType, Statuses
      <4> QED BY <3>1, <4>1 DEF Assistant, MessageType, Results
    <3>3. <<Assistant(n)>> \in Seq(MessageType)
      BY <3>2
    <3> QED BY <1>1, <3>2, <3>3, ConcatAssociative DEF Round
  <2> QED BY <2>1 DEF NextRound
<1>3. messages' \in Seq(MessageType)
  BY <1>1, <1>2, RoundShape, ConcatProperties
<1>4. Paired(messages')
  BY <1>1, <1>2, RoundPaired
<1>5. HasUser'
  <2>1. PICK i \in 1..Len(messages) : messages[i].role = "user"
    BY <1>1 DEF HasUser, IsUser
  <2>2. i \in 1..Len(messages') /\ messages'[i] = messages[i]
    BY <1>1, <1>2, RoundShape, ConcatProperties, ContextAssumption DEF ContextAssumption
  <2> QED BY <2>1, <2>2 DEF HasUser, IsUser
<1>6. round' \in 0..MaxRounds
  BY ContextAssumption DEF ContextAssumption, NextRound, TypeOK
<1> QED BY <1>3, <1>4, <1>5, <1>6 DEF NextRound, TypeOK, Kept, PCs

\* Every step keeps the invariant.
LEMMA KeptStep == IInv /\ [Next]_vars => IInv'
<1> SUFFICES ASSUME IInv, [Next]_vars PROVE IInv'
  OBVIOUS
<1>1. CASE UNCHANGED vars
  BY <1>1 DEF vars, IInv, TypeOK, Kept, HasUser, IsUser
<1>2. CASE Next
  BY <1>2, PrepareStep, CompactStep, RoundStep DEF Next
<1> QED BY <1>1, <1>2

\* The invariant says what the property does.
LEMMA KeptIsPaired == IInv => PreparedIsPaired
<1> SUFFICES ASSUME IInv, pc = "prepared" PROVE Paired(Suffix(from))
  BY DEF IInv, Kept, PreparedIsPaired
<1> QED BY SuffixPaired DEF IInv, TypeOK, Kept, IsUser, Suffix

\* The variables of a preparation keep their types.
THEOREM ContextTypeCorrect == Spec => []TypeOK
<1>1. IInv => TypeOK
  BY DEF IInv
<1> QED BY <1>1, InitKept, KeptStep, PTL DEF Spec

\* In every round, whatever was pruned or compacted, the provider is sent
\* calls together with their results, and no projection of a request that
\* passed its check fails (prepare, L178-315).
THEOREM OnlyWholeTurnsSent == Spec => []PreparedIsPaired
  BY InitKept, KeptStep, KeptIsPaired, PTL DEF Spec

-----------------------------------------------------------------------------
(* What a summary replaces *)

\* While turns are pruned there is no summary of this round, and a summary
\* replaces what comes before the kept part.
Covers ==
  /\ pc = "prune" => condensed = 0
  /\ pc = "prepared" /\ condensed > 0 => candidate = from - 1

\* Every step keeps the count of replaced messages right.
LEMMA CoversStep == IInv /\ Covers /\ [Next]_vars => Covers'
<1> SUFFICES ASSUME IInv, Covers, [Next]_vars PROVE Covers'
  OBVIOUS
<1>1. ASSUME NEW text \in 1..MaxSummary, Compact(text) PROVE Covers'
  <2>1. HasUser /\ messages \in Seq(MessageType)
    BY <1>1 DEF Compact, NeedsCompactor, IInv, Kept, TypeOK
  <2>2. CurrentStart \in 1..Len(messages)
    BY <2>1, CurrentStartIsLastUser
  <2>3. Replaced = CurrentStart - 1
    <3>1. CurrentStart - 1 \in Nat /\ \A i \in 1..(CurrentStart - 1) : messages[i] \in MessageType
      BY <2>1, <2>2
    <3> QED BY <3>1, SubSeqProperties DEF Replaced, History
  <2> QED BY <1>1, <2>3 DEF Compact, Fails, Covers
<1>2. ASSUME NEW n \in 1..MaxCalls, NextRound(n) PROVE Covers'
  BY <1>2 DEF NextRound, Covers
<1>3. CASE Request
  BY <1>3 DEF Request, Fails, Covers
<1>4. CASE Begin
  BY <1>4 DEF Begin, Fails, Covers
<1>5. CASE EstimationFails
  BY <1>5 DEF EstimationFails, Fails, Covers
<1>6. CASE Prune
  BY <1>6 DEF Prune, Fails, Covers
<1>7. CASE Fits
  BY <1>7 DEF Fits, Covers
<1>8. CASE CannotCompact \/ CompactionFails
  BY <1>8 DEF CannotCompact, CompactionFails, Fails, Covers
<1>9. CASE UNCHANGED vars
  BY <1>9 DEF vars, Covers
<1> QED BY <1>1, <1>2, <1>3, <1>4, <1>5, <1>6, <1>7, <1>8, <1>9 DEF Next

\* After compaction each message is either sent or replaced by the summary,
\* whatever was pruned before (prepare, L281-311).
THEOREM NothingLostInCompaction == Spec => []SentOrReplaced
<1>1. Init => Covers
  BY DEF Init, Covers
<1>2. IInv /\ Covers => SentOrReplaced
  <2> SUFFICES ASSUME IInv, Covers, pc = "prepared", condensed > 0
               PROVE  candidate + Len(Suffix(from)) = Len(messages)
    BY DEF SentOrReplaced
  <2>1. messages \in Seq(MessageType) /\ from \in 1..Len(messages) /\ candidate = from - 1
    BY DEF IInv, TypeOK, Kept, Covers
  <2>2. Len(Suffix(from)) = Len(messages) - from + 1
    BY <2>1, SubSeqProperties DEF Suffix
  <2> QED BY <2>1, <2>2
<1> QED BY <1>1, <1>2, InitKept, KeptStep, CoversStep, PTL DEF Spec

-----------------------------------------------------------------------------
(* Values computed along a transcript *)

\* What g makes of f, along the numbers up to n.
Follows(f, base, g, n) ==
  /\ f[0] = base
  /\ \A i \in 1..n : f[i] = g[<<f[i - 1], i>>]

\* A value computed from the one before it exists for every number.
LEMMA StepsExist ==
  ASSUME NEW n \in Nat, NEW S, NEW base \in S, NEW g \in [S \X (1..n) -> S]
  PROVE  \E f \in [0..n -> S] : Follows(f, base, g, n)
<1> DEFINE Good(k) == \E f \in [0..k -> S] : Follows(f, base, g, k)
           T == {k \in 0..n : ~Good(k)}
<1>1. Good(0)
  <2> DEFINE f == [i \in 0..0 |-> base]
  <2>1. f \in [0..0 -> S] /\ f[0] = base /\ 1..0 = {}
    OBVIOUS
  <2> HIDE DEF f
  <2> QED BY <2>1 DEF Follows
<1>2. ASSUME NEW k \in 1..n, Good(k - 1) PROVE Good(k)
  <2>1. PICK f \in [0..(k - 1) -> S] : Follows(f, base, g, k - 1)
    BY <1>2
  <2>2. k \in Nat /\ k - 1 \in 0..(k - 1) /\ k - 1 \in Nat
    OBVIOUS
  <2>3. g[<<f[k - 1], k>>] \in S
    BY <2>2
  <2> DEFINE h == [i \in 0..k |-> IF i = k THEN g[<<f[k - 1], k>>] ELSE f[i]]
  <2>4. \A i \in 0..k : i = k \/ i \in 0..(k - 1)
    BY <2>2
  <2>5. h \in [0..k -> S]
    BY <2>3, <2>4
  <2>6. h[k] = g[<<f[k - 1], k>>]
    BY <2>2
  <2>7. \A i \in 0..(k - 1) : h[i] = f[i]
    BY <2>2
  <2>8. f[0] = base /\ \A i \in 1..(k - 1) : f[i] = g[<<f[i - 1], i>>]
    BY <2>1 DEF Follows
  <2> HIDE DEF h
  <2>9. h[0] = base
    BY <2>2, <2>7, <2>8
  <2>10. ASSUME NEW i \in 1..k PROVE h[i] = g[<<h[i - 1], i>>]
    <3>1. i - 1 \in 0..(k - 1)
      BY <2>2
    <3>2. CASE i = k
      BY <2>6, <2>7, <3>1, <3>2
    <3>3. CASE i \in 1..(k - 1)
      <4>1. i \in 0..(k - 1)
        BY <3>3
      <4> QED BY <2>7, <2>8, <3>1, <3>3, <4>1
    <3> QED BY <2>2, <3>2, <3>3
  <2> QED BY <2>5, <2>9, <2>10 DEF Follows
<1>3. T = {}
  <2> SUFFICES ASSUME T # {} PROVE FALSE
    OBVIOUS
  <2>1. T \in SUBSET Nat
    OBVIOUS
  <2>2. PICK x \in T : \A y \in T : x <= y
    <3> HIDE DEF T
    <3> QED BY <2>1, LeastNat
  <2>3. x \in 1..n
    <3>1. x # 0
      BY <1>1
    <3> QED BY <3>1
  <2>4. x - 1 \in 0..n /\ ~(x <= x - 1)
    BY <2>3
  <2>5. Good(x - 1)
    <3> HIDE DEF Good
    <3> QED BY <2>2, <2>4
  <2> HIDE DEF Good
  <2> QED BY <1>2, <2>3, <2>5
<1>4. n \in 0..n /\ (n \notin T => Good(n))
  <2> HIDE DEF Good
  <2> QED OBVIOUS
<1> QED BY <1>3, <1>4

\* What the validator can know.
States == {Refused} \cup {Waiting(ids) : ids \in Seq(Nat)}

\* The state of the validator after each message.
Checked(f, m) ==
  /\ DOMAIN f = 0..Len(m)
  /\ f[0] = Waiting(<<>>)
  /\ \A i \in 1..Len(m) : f[i] \in States /\ f[i] = AfterMessage(f[i - 1], m[i])

\* A message leads from state to state.
LEMMA AfterMessageState ==
  ASSUME NEW state \in States, NEW message \in MessageType
  PROVE  AfterMessage(state, message) \in States
<1>0. message.calls \in Nat /\ message.role \in {"user", "assistant", "tool"}
  <2>1. MaxCalls \in Nat
    BY ContextAssumption DEF ContextAssumption
  <2> QED BY <2>1 DEF MessageType
<1>1. CASE state.refused
  BY <1>1 DEF AfterMessage, States
<1>2. CASE ~state.refused
  <2>1. PICK ids \in Seq(Nat) : state = Waiting(ids)
    BY <1>2 DEF States, Refused
  <2>2. state.pending = ids
    BY <2>1 DEF Waiting
  <2>3. CASE message.role = "tool"
    <3>1. ids # <<>> => Tail(ids) \in Seq(Nat)
      OBVIOUS
    <3>2. AfterMessage(state, message) =
            IF ids # <<>> /\ message.id = Head(ids) THEN Waiting(Tail(ids)) ELSE Refused
      BY <1>2, <2>2, <2>3 DEF AfterMessage
    <3> QED BY <3>1, <3>2 DEF States
  <2>4. CASE message.role # "tool"
    <3>1. Ids(message.calls) \in Seq(Nat)
      BY <1>0 DEF Ids
    <3>2. AfterMessage(state, message) =
            IF ids = <<>> THEN Waiting(Ids(message.calls)) ELSE Refused
      BY <1>2, <2>2, <2>4 DEF AfterMessage
    <3> QED BY <3>1, <3>2 DEF States
  <2> QED BY <2>3, <2>4
<1> QED BY <1>1, <1>2

\* The validator's state is defined after every message of a transcript, and
\* the last one decides whether the transcript is accepted.
LEMMA AcceptedByState ==
  ASSUME NEW m \in Seq(MessageType)
  PROVE  \E f : /\ Checked(f, m)
                /\ Accepted(m) <=> m # <<>> /\ f[Len(m)] = Waiting(<<>>)
<1> DEFINE n == Len(m)
           Eq(after) == after = [i \in 0..n |->
              IF i = 0 THEN Waiting(<<>>) ELSE AfterMessage(after[i - 1], m[i])]
           g == [p \in States \X (1..n) |-> AfterMessage(p[1], m[p[2]])]
<1>0. n \in Nat
  OBVIOUS
<1>1. Waiting(<<>>) \in States
  <2>1. <<>> \in Seq(Nat)
    OBVIOUS
  <2> QED BY <2>1 DEF States
<1>2. g \in [States \X (1..n) -> States]
  <2>1. ASSUME NEW p \in States \X (1..n) PROVE AfterMessage(p[1], m[p[2]]) \in States
    BY AfterMessageState
  <2> QED BY <2>1
<1>3. \A s \in States : \A i \in 1..n : g[<<s, i>>] = AfterMessage(s, m[i])
  OBVIOUS
<1> HIDE DEF g, n
<1>4. PICK f \in [0..n -> States] : Follows(f, Waiting(<<>>), g, n)
  BY <1>0, <1>1, <1>2, StepsExist
<1>5. \A i \in 1..n : f[i] = AfterMessage(f[i - 1], m[i])
  <2> SUFFICES ASSUME NEW i \in 1..n PROVE f[i] = AfterMessage(f[i - 1], m[i])
    OBVIOUS
  <2>1. i - 1 \in 0..n
    BY <1>0
  <2> QED BY <1>3, <1>4, <2>1 DEF Follows
<1>6. f[0] = Waiting(<<>>)
  BY <1>4 DEF Follows
<1>7. Eq(f)
  <2> DEFINE h == [i \in 0..n |->
                     IF i = 0 THEN Waiting(<<>>) ELSE AfterMessage(f[i - 1], m[i])]
  <2>1. \A i \in 0..n : f[i] = h[i]
    <3>1. \A i \in 0..n : i = 0 \/ i \in 1..n
      BY <1>0
    <3> QED BY <1>5, <1>6, <3>1
  <2>2. DOMAIN f = 0..n /\ DOMAIN h = 0..n /\ f = [i \in 0..n |-> f[i]]
    OBVIOUS
  <2>3. [i \in 0..n |-> f[i]] = h
    BY <2>1
  <2> QED BY <2>2, <2>3
<1> DEFINE c == CHOOSE after : Eq(after)
<1>8. Eq(c)
  <2> HIDE DEF Eq
  <2> QED BY <1>7
<1>9. Accepted(m) <=> m # <<>> /\ c[n] = Waiting(<<>>)
  BY DEF Accepted, n
<1> HIDE DEF c
<1>10. \A i \in 0..n : c[i] = IF i = 0 THEN Waiting(<<>>) ELSE AfterMessage(c[i - 1], m[i])
  <2> DEFINE h == [i \in 0..n |->
                     IF i = 0 THEN Waiting(<<>>) ELSE AfterMessage(c[i - 1], m[i])]
  <2>1. c = h
    BY <1>8
  <2>2. \A i \in 0..n : h[i] = IF i = 0 THEN Waiting(<<>>) ELSE AfterMessage(c[i - 1], m[i])
    OBVIOUS
  <2> HIDE DEF h
  <2> QED BY <2>1, <2>2
<1>11. c[0] = Waiting(<<>>) /\ \A i \in 1..n : c[i] = AfterMessage(c[i - 1], m[i])
  <2>1. 0 \in 0..n /\ \A i \in 1..n : i \in 0..n /\ i # 0
    BY <1>0
  <2> QED BY <1>10, <2>1
<1>12. DOMAIN c = 0..n
  BY <1>8
<1> HIDE DEF Eq
<1>13. \A i \in 0..n : c[i] \in States
  <2> DEFINE T == {i \in 0..n : c[i] \notin States}
  <2> SUFFICES ASSUME T # {} PROVE FALSE
    OBVIOUS
  <2>1. T \in SUBSET Nat
    OBVIOUS
  <2>2. PICK x \in T : \A y \in T : x <= y
    <3> HIDE DEF T
    <3> QED BY <2>1, LeastNat
  <2>3. x \in 1..n
    BY <1>0, <1>1, <1>11
  <2>4. x - 1 \in 0..n /\ ~(x <= x - 1)
    BY <1>0, <2>3
  <2>5. c[x - 1] \in States
    BY <2>2, <2>4
  <2>6. c[x] = AfterMessage(c[x - 1], m[x]) /\ m[x] \in MessageType
    BY <1>11, <2>3 DEF n
  <2> QED BY <2>5, <2>6, AfterMessageState
<1>14. Checked(c, m)
  <2>1. \A i \in 1..n : c[i] \in States
    BY <1>0, <1>13
  <2> QED BY <1>11, <1>12, <2>1 DEF Checked, n
<1> QED BY <1>9, <1>14 DEF n

-----------------------------------------------------------------------------
(* The validator and the order it stands for *)

Calls(m, a) == IF m[a].role = "assistant" THEN m[a].calls ELSE 0

\* What the validator has found out when it has seen i messages and waits for
\* the results of the calls ids: each result belongs to a call, the results
\* seen stand where they must, and ids are the calls that have none yet.
Found(m, i, ids) ==
  /\ \A a \in 1..i : \A k \in 1..Calls(m, a) :
       a + k <= i => m[a + k].role = "tool" /\ m[a + k].id = k
  /\ \A b \in 1..i : m[b].role = "tool" =>
       \E a \in 1..(b - 1) : Calls(m, a) >= b - a /\ m[b].id = b - a
  /\ \A a \in 1..i : a + Calls(m, a) > i =>
       /\ Len(ids) = a + Calls(m, a) - i
       /\ \A k \in 1..Len(ids) : ids[k] = i - a + k
  /\ ids # <<>> => \E a \in 1..i : a + Calls(m, a) > i

\* Only an assistant asks for calls, a number of them.
LEMMA CallsOf ==
  ASSUME NEW m \in Seq(MessageType), NEW a \in 1..Len(m)
  PROVE  /\ Calls(m, a) \in Nat
         /\ m[a].calls \in Nat
         /\ m[a].calls = Calls(m, a)
         /\ Calls(m, a) > 0 => m[a].role = "assistant"
<1>1. MaxCalls \in Nat
  BY ContextAssumption DEF ContextAssumption
<1>2. m[a] \in MessageType
  OBVIOUS
<1>3. m[a].calls \in Nat /\ (m[a].role # "assistant" => m[a].calls = 0)
  BY <1>1, <1>2 DEF MessageType
<1> QED BY <1>3 DEF Calls

\* A transcript is paired if every call has its result and every result its
\* call, whatever the messages are.
LEMMA PairedByCalls ==
  ASSUME NEW m \in Seq(MessageType)
  PROVE  Paired(m) <=>
           /\ \A a \in 1..Len(m) : \A k \in 1..Calls(m, a) :
                a + k <= Len(m) /\ m[a + k].role = "tool" /\ m[a + k].id = k
           /\ \A b \in 1..Len(m) : m[b].role = "tool" =>
                \E a \in 1..(b - 1) : Calls(m, a) >= b - a /\ m[b].id = b - a
<1>1. ASSUME NEW a \in 1..Len(m)
      PROVE  (m[a].role = "assistant" =>
                \A k \in 1..m[a].calls :
                  a + k <= Len(m) /\ m[a + k].role = "tool" /\ m[a + k].id = k)
             <=> \A k \in 1..Calls(m, a) :
                   a + k <= Len(m) /\ m[a + k].role = "tool" /\ m[a + k].id = k
  <2>1. CASE m[a].role = "assistant"
    BY <2>1 DEF Calls
  <2>2. CASE m[a].role # "assistant"
    <3>1. Calls(m, a) = 0 /\ 1..0 = {}
      BY <2>2 DEF Calls
    <3> QED BY <2>2, <3>1
  <2> QED BY <2>1, <2>2
<1>2. ASSUME NEW b \in 1..Len(m), NEW a \in 1..(b - 1)
      PROVE  (m[a].role = "assistant" /\ m[a].calls >= b - a /\ m[b].id = b - a)
             <=> (Calls(m, a) >= b - a /\ m[b].id = b - a)
  <2>1. a \in 1..Len(m) /\ b - a > 0
    OBVIOUS
  <2> QED BY <2>1, CallsOf
<1>3. ASSUME NEW b \in 1..Len(m)
      PROVE  (\E a \in 1..(b - 1) :
                m[a].role = "assistant" /\ m[a].calls >= b - a /\ m[b].id = b - a)
             <=> \E a \in 1..(b - 1) : Calls(m, a) >= b - a /\ m[b].id = b - a
  BY <1>2, Zenon
<1> QED BY <1>1, <1>3, Zenon DEF Paired

\* A message the validator does not refuse adds to what it knows.
LEMMA FoundMore ==
  ASSUME NEW m \in Seq(MessageType), NEW i \in 1..Len(m), NEW ids \in Seq(Nat),
         Found(m, i - 1, ids), AfterMessage(Waiting(ids), m[i]) # Refused
  PROVE  \E more \in Seq(Nat) :
           AfterMessage(Waiting(ids), m[i]) = Waiting(more) /\ Found(m, i, more)
<1>0. i \in Nat /\ Len(m) \in Nat /\ i - 1 \in Nat
  OBVIOUS
<1>c. \A a \in 1..i : Calls(m, a) \in Nat
  BY CallsOf
<1>i. Calls(m, i) = m[i].calls /\ (Calls(m, i) > 0 => m[i].role = "assistant")
  BY CallsOf
<1>s. \A a \in 1..i : a = i \/ a \in 1..(i - 1)
  BY <1>0
<1>w. Waiting(ids).pending = ids /\ Waiting(ids).refused = FALSE
  BY DEF Waiting
<1>f. /\ \A a \in 1..(i - 1) : \A k \in 1..Calls(m, a) :
           a + k <= i - 1 => m[a + k].role = "tool" /\ m[a + k].id = k
      /\ \A b \in 1..(i - 1) : m[b].role = "tool" =>
           \E a \in 1..(b - 1) : Calls(m, a) >= b - a /\ m[b].id = b - a
      /\ \A a \in 1..(i - 1) : a + Calls(m, a) > i - 1 =>
           /\ Len(ids) = a + Calls(m, a) - (i - 1)
           /\ \A k \in 1..Len(ids) : ids[k] = (i - 1) - a + k
      /\ ids # <<>> => \E a \in 1..(i - 1) : a + Calls(m, a) > i - 1
  BY DEF Found
<1>1. CASE m[i].role = "tool"
  <2>1. /\ ids # <<>> /\ m[i].id = Head(ids)
        /\ AfterMessage(Waiting(ids), m[i]) = Waiting(Tail(ids))
    BY <1>1, <1>w DEF AfterMessage
  <2> DEFINE more == Tail(ids)
  <2>2. /\ more \in Seq(Nat) /\ Len(more) = Len(ids) - 1 /\ Len(ids) \in Nat /\ Len(ids) >= 1
        /\ \A k \in 1..Len(more) : more[k] = ids[k + 1]
        /\ Head(ids) = ids[1]
        /\ (more # <<>> => Len(ids) > 1)
    BY <2>1
  <2> HIDE DEF more
  <2>3. Calls(m, i) = 0
    BY <1>1, <1>c, <1>i
  <2>4. PICK o \in 1..(i - 1) : o + Calls(m, o) > i - 1
    BY <1>f, <2>1
  <2>5. m[i].id = i - o /\ Calls(m, o) >= i - o
    <3>1. ids[1] = (i - 1) - o + 1
      BY <1>f, <2>2, <2>4
    <3>2. Calls(m, o) \in Nat
      BY <1>0, <1>c
    <3>3. m[i].id = (i - 1) - o + 1
      BY <2>1, <2>2, <3>1
    <3> QED BY <1>0, <2>4, <3>2, <3>3
  <2>6. ASSUME NEW a \in 1..i, NEW k \in 1..Calls(m, a), a + k <= i
        PROVE  m[a + k].role = "tool" /\ m[a + k].id = k
    <3>1. a \in 1..(i - 1)
      BY <1>0, <1>s, <2>3
    <3>2. Calls(m, a) \in Nat
      BY <1>c
    <3>3. CASE a + k <= i - 1
      BY <1>f, <3>1, <3>3
    <3>4. CASE a + k = i
      <4>1. a + Calls(m, a) > i - 1
        BY <1>0, <3>1, <3>2, <3>4
      <4>2. ids[1] = (i - 1) - a + 1
        BY <1>f, <2>2, <3>1, <4>1
      <4>3. m[i].id = k
        BY <1>0, <2>1, <2>2, <3>1, <3>4, <4>2
      <4> QED BY <1>1, <3>4, <4>3
    <3> QED BY <1>0, <2>6, <3>1, <3>2, <3>3, <3>4
  <2>7. ASSUME NEW b \in 1..i, m[b].role = "tool"
        PROVE  \E a \in 1..(b - 1) : Calls(m, a) >= b - a /\ m[b].id = b - a
    <3>1. CASE b = i
      BY <2>5, <3>1
    <3>2. CASE b \in 1..(i - 1)
      BY <1>f, <2>7, <3>2
    <3> QED BY <1>s, <3>1, <3>2
  <2>8. ASSUME NEW a \in 1..i, a + Calls(m, a) > i
        PROVE  /\ Len(more) = a + Calls(m, a) - i
               /\ \A k \in 1..Len(more) : more[k] = i - a + k
    <3>1. a \in 1..(i - 1) /\ Calls(m, a) \in Nat
      BY <1>0, <1>c, <1>s, <2>3, <2>8
    <3>2. a + Calls(m, a) > i - 1
      BY <1>0, <2>8, <3>1
    <3>3. /\ Len(ids) = a + Calls(m, a) - (i - 1)
          /\ \A k \in 1..Len(ids) : ids[k] = (i - 1) - a + k
      BY <1>f, <3>1, <3>2
    <3>4. Len(more) = a + Calls(m, a) - i
      BY <1>0, <2>2, <3>1, <3>3
    <3>5. ASSUME NEW k \in 1..Len(more) PROVE more[k] = i - a + k
      <4>1. k + 1 \in 1..Len(ids) /\ more[k] = ids[k + 1]
        BY <2>2
      <4>2. ids[k + 1] = (i - 1) - a + (k + 1)
        BY <3>3, <4>1
      <4> QED BY <1>0, <3>1, <4>1, <4>2
    <3> QED BY <3>4, <3>5
  <2>9. ASSUME more # <<>> PROVE \E a \in 1..i : a + Calls(m, a) > i
    <3>1. Len(ids) = o + Calls(m, o) - (i - 1) /\ Len(ids) > 1 /\ Calls(m, o) \in Nat
      BY <1>c, <1>f, <2>2, <2>4, <2>9
    <3>2. o \in 1..i /\ o + Calls(m, o) > i
      BY <1>0, <3>1
    <3> QED BY <3>2
  <2> QED BY <2>1, <2>2, <2>6, <2>7, <2>8, <2>9 DEF Found, more
<1>2. CASE m[i].role # "tool"
  <2>1. /\ ids = <<>>
        /\ AfterMessage(Waiting(ids), m[i]) = Waiting(Ids(m[i].calls))
    BY <1>2, <1>w DEF AfterMessage
  <2> DEFINE more == Ids(m[i].calls)
             c == Calls(m, i)
  <2>2. c \in Nat /\ more = [k \in 1..c |-> k]
    BY <1>c, <1>i DEF Ids
  <2>3. more \in Seq(Nat) /\ Len(more) = c /\ \A k \in 1..c : more[k] = k
    BY <2>2
  <2>4. more # <<>> => c > 0
    BY <2>2, <2>3
  <2> HIDE DEF more
  <2>5. ASSUME NEW a \in 1..(i - 1) PROVE a + Calls(m, a) <= i - 1
    <3>1. Calls(m, a) \in Nat
      BY <1>c, <1>0
    <3>2. Len(ids) = 0
      BY <2>1
    <3>3. ~(a + Calls(m, a) > i - 1)
      <4> SUFFICES ASSUME a + Calls(m, a) > i - 1 PROVE FALSE
        OBVIOUS
      <4>1. 0 = a + Calls(m, a) - (i - 1)
        BY <1>f, <3>2
      <4> QED BY <1>0, <3>1, <4>1
    <3> QED BY <1>0, <3>1, <3>3
  <2>6. ASSUME NEW a \in 1..i, NEW k \in 1..Calls(m, a), a + k <= i
        PROVE  m[a + k].role = "tool" /\ m[a + k].id = k
    <3>1. Calls(m, a) \in Nat /\ a \in 1..(i - 1)
      BY <1>0, <1>c, <1>s, <2>6
    <3>2. a + k <= i - 1
      BY <1>0, <2>5, <3>1
    <3> QED BY <1>f, <3>1, <3>2
  <2>7. ASSUME NEW b \in 1..i, m[b].role = "tool"
        PROVE  \E a \in 1..(b - 1) : Calls(m, a) >= b - a /\ m[b].id = b - a
    <3>1. b \in 1..(i - 1)
      BY <1>2, <1>s, <2>7
    <3> QED BY <1>f, <2>7, <3>1
  <2>8. ASSUME NEW a \in 1..i, a + Calls(m, a) > i
        PROVE  /\ Len(more) = a + Calls(m, a) - i
               /\ \A k \in 1..Len(more) : more[k] = i - a + k
    <3>1. a = i
      <4>1. ASSUME a \in 1..(i - 1) PROVE FALSE
        <5>1. a + Calls(m, a) <= i - 1 /\ Calls(m, a) \in Nat
          BY <2>5, <1>c, <4>1
        <5> QED BY <1>0, <2>8, <5>1
      <4> QED BY <1>s, <4>1
    <3> QED BY <1>0, <2>2, <2>3, <3>1
  <2>9. ASSUME more # <<>> PROVE \E a \in 1..i : a + Calls(m, a) > i
    <3>1. i \in 1..i /\ i + c > i
      BY <1>0, <2>2, <2>4, <2>9
    <3> QED BY <3>1
  <2> QED BY <2>1, <2>3, <2>6, <2>7, <2>8, <2>9 DEF Found, more
<1> QED BY <1>1, <1>2

\* In a paired transcript the validator never refuses the next message.
LEMMA PairedGoesOn ==
  ASSUME NEW m \in Seq(MessageType), Paired(m), NEW i \in 1..Len(m),
         NEW ids \in Seq(Nat), Found(m, i - 1, ids)
  PROVE  AfterMessage(Waiting(ids), m[i]) # Refused
<1>0. i \in Nat /\ Len(m) \in Nat
  OBVIOUS
<1>w. Waiting(ids).pending = ids /\ Waiting(ids).refused = FALSE
  BY DEF Waiting
<1>r. \A q : Waiting(q) # Refused
  <2>1. \A q : Waiting(q).refused = FALSE
    BY DEF Waiting
  <2>2. Refused.refused = TRUE
    BY DEF Refused
  <2> QED BY <2>1, <2>2
<1>f. /\ \A a \in 1..(i - 1) : a + Calls(m, a) > i - 1 =>
           /\ Len(ids) = a + Calls(m, a) - (i - 1)
           /\ \A k \in 1..Len(ids) : ids[k] = (i - 1) - a + k
      /\ ids # <<>> => \E a \in 1..(i - 1) : a + Calls(m, a) > i - 1
  BY DEF Found
<1>1. CASE m[i].role = "tool"
  <2>1. PICK a \in 1..(i - 1) : Calls(m, a) >= i - a /\ m[i].id = i - a
    BY <1>1, PairedByCalls
  <2>2. Calls(m, a) \in Nat /\ a + Calls(m, a) > i - 1
    BY <1>0, <2>1, CallsOf
  <2>3. Len(ids) = a + Calls(m, a) - (i - 1) /\ Len(ids) >= 1
    BY <1>0, <1>f, <2>1, <2>2
  <2>4. ids # <<>> /\ Head(ids) = ids[1] /\ ids[1] = (i - 1) - a + 1
    BY <1>f, <2>2, <2>3
  <2>5. m[i].id = Head(ids)
    BY <1>0, <2>1, <2>4
  <2>6. AfterMessage(Waiting(ids), m[i]) = Waiting(Tail(ids))
    BY <1>1, <1>w, <2>4, <2>5 DEF AfterMessage
  <2> QED BY <1>r, <2>6
<1>2. CASE m[i].role # "tool"
  <2>1. ids = <<>>
    <3> SUFFICES ASSUME ids # <<>> PROVE FALSE
      OBVIOUS
    <3>1. PICK a \in 1..(i - 1) : a + Calls(m, a) > i - 1
      BY <1>f
    <3>2. Calls(m, a) \in Nat /\ a \in 1..Len(m)
      BY <1>0, CallsOf
    <3>3. i - a \in 1..Calls(m, a) /\ a + (i - a) = i
      BY <1>0, <3>1, <3>2
    <3>4. m[a + (i - a)].role = "tool"
      BY <3>2, <3>3, PairedByCalls
    <3> QED BY <1>2, <3>3, <3>4
  <2>2. AfterMessage(Waiting(ids), m[i]) = Waiting(Ids(m[i].calls))
    BY <1>2, <1>w, <2>1 DEF AfterMessage
  <2> QED BY <1>r, <2>2
<1> QED BY <1>1, <1>2

\* As long as the validator refuses nothing, it knows the calls it waits for.
LEMMA FoundAll ==
  ASSUME NEW m \in Seq(MessageType), NEW f, Checked(f, m),
         NEW n \in 0..Len(m), f[n] # Refused
  PROVE  \E ids \in Seq(Nat) : f[n] = Waiting(ids) /\ Found(m, n, ids)
<1> DEFINE Good(i) == f[i] # Refused =>
             \E ids \in Seq(Nat) : f[i] = Waiting(ids) /\ Found(m, i, ids)
           T == {i \in 0..Len(m) : ~Good(i)}
<1>0. Len(m) \in Nat
  OBVIOUS
<1>1. Good(0)
  <2>1. <<>> \in Seq(Nat) /\ 1..0 = {}
    OBVIOUS
  <2>2. Found(m, 0, <<>>)
    BY <2>1 DEF Found
  <2> QED BY <2>1, <2>2 DEF Checked
<1>2. ASSUME NEW i \in 1..Len(m), Good(i - 1) PROVE Good(i)
  <2> SUFFICES ASSUME f[i] # Refused
               PROVE  \E ids \in Seq(Nat) : f[i] = Waiting(ids) /\ Found(m, i, ids)
    OBVIOUS
  <2>1. f[i] = AfterMessage(f[i - 1], m[i])
    BY DEF Checked
  <2>2. f[i - 1] # Refused
    <3> SUFFICES ASSUME f[i - 1] = Refused PROVE FALSE
      OBVIOUS
    <3>1. Refused.refused = TRUE
      BY DEF Refused
    <3>2. AfterMessage(Refused, m[i]) = Refused
      BY <3>1 DEF AfterMessage
    <3> QED BY <2>1, <3>2
  <2>3. PICK ids \in Seq(Nat) : f[i - 1] = Waiting(ids) /\ Found(m, i - 1, ids)
    BY <1>2, <2>2
  <2> QED BY <2>1, <2>3, FoundMore
<1>3. T = {}
  <2> SUFFICES ASSUME T # {} PROVE FALSE
    OBVIOUS
  <2>1. T \in SUBSET Nat
    OBVIOUS
  <2>2. PICK x \in T : \A y \in T : x <= y
    <3> HIDE DEF T
    <3> QED BY <2>1, LeastNat
  <2>3. x \in 0..Len(m) /\ ~Good(x)
    <3> HIDE DEF Good
    <3> QED OBVIOUS
  <2> HIDE DEF Good
  <2>4. x \in 1..Len(m)
    <3>1. x # 0
      BY <1>1, <2>3
    <3> QED BY <2>3, <3>1
  <2>5. x - 1 \in 0..Len(m) /\ ~(x <= x - 1)
    BY <1>0, <2>4
  <2>6. Good(x - 1)
    BY <2>2, <2>5
  <2> QED BY <1>2, <2>3, <2>4, <2>6
<1>4. n \notin T => Good(n)
  <2> HIDE DEF Good
  <2> QED OBVIOUS
<1> HIDE DEF T
<1> QED BY <1>3, <1>4

\* In a paired transcript the validator refuses nothing.
LEMMA NeverRefused ==
  ASSUME NEW m \in Seq(MessageType), Paired(m), NEW f, Checked(f, m), NEW n \in 0..Len(m)
  PROVE  f[n] # Refused
<1> DEFINE T == {i \in 0..Len(m) : f[i] = Refused}
<1> SUFFICES ASSUME T # {} PROVE FALSE
  OBVIOUS
<1>1. T \in SUBSET Nat
  OBVIOUS
<1>2. PICK x \in T : \A y \in T : x <= y
  <2> HIDE DEF T
  <2> QED BY <1>1, LeastNat
<1>3. x \in 1..Len(m)
  <2>1. x # 0
    <3>1. Waiting(<<>>).refused = FALSE /\ Refused.refused = TRUE
      BY DEF Waiting, Refused
    <3>2. f[0] = Waiting(<<>>)
      BY DEF Checked
    <3> QED BY <3>1, <3>2
  <2> QED BY <2>1
<1>4. x - 1 \in 0..Len(m) /\ ~(x <= x - 1)
  BY <1>3
<1>5. f[x - 1] # Refused
  BY <1>2, <1>4
<1>6. PICK ids \in Seq(Nat) : f[x - 1] = Waiting(ids) /\ Found(m, x - 1, ids)
  BY <1>4, <1>5, FoundAll
<1>7. AfterMessage(Waiting(ids), m[x]) # Refused
  BY <1>3, <1>6, PairedGoesOn
<1>8. f[x] = AfterMessage(f[x - 1], m[x])
  BY <1>3 DEF Checked
<1> QED BY <1>6, <1>7, <1>8

\* The loop over a transcript accepts it exactly if its calls and results pair
\* up (toLLMMessages and validateToolResultOrder, message.go L49-128).
LEMMA AcceptedIsPaired ==
  ASSUME NEW m \in Seq(MessageType)
  PROVE  Accepted(m) <=> m # <<>> /\ Paired(m)
<1> DEFINE n == Len(m)
<1>0. n \in Nat /\ n \in 0..n
  OBVIOUS
<1>1. PICK f : Checked(f, m) /\ (Accepted(m) <=> m # <<>> /\ f[n] = Waiting(<<>>))
  BY AcceptedByState
<1>r. Waiting(<<>>) # Refused
  <2>1. Waiting(<<>>).refused = FALSE /\ Refused.refused = TRUE
    BY DEF Waiting, Refused
  <2> QED BY <2>1
<1>w. \A q : Waiting(q).pending = q
  BY DEF Waiting
<1>2. ASSUME f[n] = Waiting(<<>>) PROVE Paired(m)
  <2>1. PICK ids \in Seq(Nat) : f[n] = Waiting(ids) /\ Found(m, n, ids)
    BY <1>0, <1>1, <1>2, <1>r, FoundAll
  <2>2. ids = <<>> /\ Len(ids) = 0
    <3>1. ids = <<>>
      BY <1>2, <1>w, <2>1
    <3> QED BY <3>1
  <2>3. ASSUME NEW a \in 1..n PROVE a + Calls(m, a) <= n
    <3>1. Calls(m, a) \in Nat
      BY CallsOf
    <3>2. a + Calls(m, a) > n => Len(ids) = a + Calls(m, a) - n
      BY <2>1 DEF Found
    <3> QED BY <1>0, <2>2, <3>1, <3>2
  <2>4. ASSUME NEW a \in 1..n, NEW k \in 1..Calls(m, a)
        PROVE  a + k <= n /\ m[a + k].role = "tool" /\ m[a + k].id = k
    <3>1. a + k <= n
      <4>1. Calls(m, a) \in Nat /\ a + Calls(m, a) <= n
        BY <2>3, CallsOf
      <4> QED BY <1>0, <4>1
    <3> QED BY <2>1, <3>1 DEF Found
  <2>5. \A b \in 1..n : m[b].role = "tool" =>
          \E a \in 1..(b - 1) : Calls(m, a) >= b - a /\ m[b].id = b - a
    BY <2>1 DEF Found
  <2> QED BY <2>4, <2>5, PairedByCalls
<1>3. ASSUME Paired(m) PROVE f[n] = Waiting(<<>>)
  <2>1. f[n] # Refused
    BY <1>0, <1>1, <1>3, NeverRefused
  <2>2. PICK ids \in Seq(Nat) : f[n] = Waiting(ids) /\ Found(m, n, ids)
    BY <1>0, <1>1, <2>1, FoundAll
  <2>3. ids = <<>>
    <3> SUFFICES ASSUME ids # <<>> PROVE FALSE
      OBVIOUS
    <3>1. PICK a \in 1..n : a + Calls(m, a) > n
      BY <2>2 DEF Found
    <3>2. Calls(m, a) \in Nat
      BY CallsOf
    <3>3. Calls(m, a) \in 1..Calls(m, a)
      BY <1>0, <3>1, <3>2
    <3>4. a + Calls(m, a) <= n
      BY <1>3, <3>3, PairedByCalls
    <3> QED BY <1>0, <3>1, <3>2, <3>4
  <2> QED BY <2>2, <2>3
<1> HIDE DEF n
<1> QED BY <1>1, <1>2, <1>3

\* In every state of a run the validator accepts the transcript exactly if its
\* calls and results pair up, for transcripts of any length.
THEOREM ValidatorMatchesOrder == Spec => []OrderAgrees
<1>1. TypeOK => OrderAgrees
  BY AcceptedIsPaired DEF TypeOK, OrderAgrees
<1> QED BY <1>1, ContextTypeCorrect, PTL

-----------------------------------------------------------------------------
(* Weights *)

\* The weight of the first messages of a transcript, for every number of them.
Sums(f, m) ==
  /\ f \in [0..Len(m) -> Nat]
  /\ f[0] = 0
  /\ \A i \in 1..Len(m) : f[i] = f[i - 1] + Weight(m[i])

\* A message weighs something.
LEMMA WeightOf ==
  ASSUME NEW message \in MessageType
  PROVE  Weight(message) \in Nat /\ Weight(message) >= 1
<1>1. MaxCalls \in Nat
  BY ContextAssumption DEF ContextAssumption
<1>2. message.calls \in Nat
  BY <1>1 DEF MessageType
<1> QED BY <1>2 DEF Weight

\* The weight of a transcript is the last of these sums.
LEMMA TotalIsSum ==
  ASSUME NEW m \in Seq(MessageType)
  PROVE  \E f : Sums(f, m) /\ Total(m) = f[Len(m)]
<1> DEFINE n == Len(m)
           Eq(upTo) == upTo = [i \in 0..n |->
              IF i = 0 THEN 0 ELSE upTo[i - 1] + Weight(m[i])]
           g == [p \in Nat \X (1..n) |-> p[1] + Weight(m[p[2]])]
<1>0. n \in Nat
  OBVIOUS
<1>1. \A i \in 1..n : Weight(m[i]) \in Nat
  BY WeightOf
<1>2. g \in [Nat \X (1..n) -> Nat]
  <2>1. ASSUME NEW p \in Nat \X (1..n) PROVE p[1] + Weight(m[p[2]]) \in Nat
    BY <1>1
  <2> QED BY <2>1
<1>3. \A s \in Nat : \A i \in 1..n : g[<<s, i>>] = s + Weight(m[i])
  OBVIOUS
<1> HIDE DEF g, n
<1>4. PICK f \in [0..n -> Nat] : Follows(f, 0, g, n)
  BY <1>0, <1>2, StepsExist
<1>5. \A i \in 1..n : f[i] = f[i - 1] + Weight(m[i])
  <2> SUFFICES ASSUME NEW i \in 1..n PROVE f[i] = f[i - 1] + Weight(m[i])
    OBVIOUS
  <2>1. i - 1 \in 0..n
    BY <1>0
  <2> QED BY <1>3, <1>4, <2>1 DEF Follows
<1>6. f[0] = 0
  BY <1>4 DEF Follows
<1>7. Eq(f)
  <2> DEFINE h == [i \in 0..n |-> IF i = 0 THEN 0 ELSE f[i - 1] + Weight(m[i])]
  <2>1. \A i \in 0..n : f[i] = h[i]
    <3>1. \A i \in 0..n : i = 0 \/ i \in 1..n
      BY <1>0
    <3> QED BY <1>5, <1>6, <3>1
  <2>2. DOMAIN f = 0..n /\ DOMAIN h = 0..n /\ f = [i \in 0..n |-> f[i]]
    OBVIOUS
  <2>3. [i \in 0..n |-> f[i]] = h
    BY <2>1
  <2> QED BY <2>2, <2>3
<1> DEFINE c == CHOOSE upTo : Eq(upTo)
<1>8. Eq(c)
  <2> HIDE DEF Eq
  <2> QED BY <1>7
<1>9. Total(m) = c[n]
  BY DEF Total, n
<1> HIDE DEF c
<1>10. \A i \in 0..n : c[i] = IF i = 0 THEN 0 ELSE c[i - 1] + Weight(m[i])
  <2> DEFINE h == [i \in 0..n |-> IF i = 0 THEN 0 ELSE c[i - 1] + Weight(m[i])]
  <2>1. c = h
    BY <1>8
  <2>2. \A i \in 0..n : h[i] = IF i = 0 THEN 0 ELSE c[i - 1] + Weight(m[i])
    OBVIOUS
  <2> HIDE DEF h
  <2> QED BY <2>1, <2>2
<1>11. c[0] = 0 /\ \A i \in 1..n : c[i] = c[i - 1] + Weight(m[i])
  <2>1. 0 \in 0..n /\ \A i \in 1..n : i \in 0..n /\ i # 0
    BY <1>0
  <2> QED BY <1>10, <2>1
<1>12. DOMAIN c = 0..n /\ c = [i \in 0..n |-> c[i]]
  <2> DEFINE h == [i \in 0..n |-> IF i = 0 THEN 0 ELSE c[i - 1] + Weight(m[i])]
  <2>1. c = h
    BY <1>8
  <2>2. DOMAIN h = 0..n /\ h = [i \in 0..n |-> h[i]]
    OBVIOUS
  <2> HIDE DEF h
  <2> QED BY <2>1, <2>2
<1> HIDE DEF Eq
<1>13. \A i \in 0..n : c[i] \in Nat
  <2> DEFINE T == {i \in 0..n : c[i] \notin Nat}
  <2> SUFFICES ASSUME T # {} PROVE FALSE
    OBVIOUS
  <2>1. T \in SUBSET Nat
    OBVIOUS
  <2>2. PICK x \in T : \A y \in T : x <= y
    <3> HIDE DEF T
    <3> QED BY <2>1, LeastNat
  <2>3. x \in 1..n
    BY <1>0, <1>11
  <2>4. x - 1 \in 0..n /\ ~(x <= x - 1)
    BY <1>0, <2>3
  <2>5. c[x - 1] \in Nat
    BY <2>2, <2>4
  <2> QED BY <1>1, <1>11, <2>3, <2>5
<1>14. Sums(c, m)
  <2>1. c \in [0..n -> Nat]
    BY <1>12, <1>13
  <2> QED BY <1>11, <2>1 DEF Sums, n
<1> QED BY <1>9, <1>14 DEF n

\* A longer end of a transcript does not weigh less.
LEMMA LongerWeighsMore ==
  ASSUME NEW m \in Seq(MessageType), NEW i \in 1..Len(m), NEW j \in i..Len(m)
  PROVE  /\ Total(SubSeq(m, i, Len(m))) \in Nat
         /\ Total(SubSeq(m, j, Len(m))) \in Nat
         /\ Total(SubSeq(m, j, Len(m))) >= 1
         /\ Total(SubSeq(m, i, Len(m))) >= Total(SubSeq(m, j, Len(m)))
<1> DEFINE s == SubSeq(m, i, Len(m))
           t == SubSeq(m, j, Len(m))
           l == Len(t)
           d == j - i
<1>0. Len(m) \in Nat /\ i \in Nat /\ j \in 1..Len(m) /\ j \in Nat /\ d \in Nat
  OBVIOUS
<1>1. s \in Seq(MessageType) /\ t \in Seq(MessageType)
  BY <1>0, SubSeqProperties
<1>2. /\ Len(s) = Len(m) - i + 1 /\ \A k \in 1..Len(s) : s[k] = m[k + i - 1]
      /\ Len(t) = Len(m) - j + 1 /\ \A k \in 1..Len(t) : t[k] = m[k + j - 1]
  BY <1>0, SubSeqProperties
<1>3. Len(s) = l + d /\ l \in Nat /\ l >= 1
  BY <1>0, <1>2
<1>4. \A k \in 1..l : k + d \in 1..Len(s) /\ s[k + d] = t[k]
  <2> SUFFICES ASSUME NEW k \in 1..l PROVE k + d \in 1..Len(s) /\ s[k + d] = t[k]
    OBVIOUS
  <2>1. k + d \in 1..Len(s) /\ (k + d) + i - 1 = k + j - 1
    BY <1>0, <1>3
  <2>2. s[k + d] = m[(k + d) + i - 1] /\ t[k] = m[k + j - 1]
    BY <1>2, <2>1
  <2> QED BY <2>1, <2>2
<1>5. PICK f : Sums(f, s) /\ Total(s) = f[Len(s)]
  BY <1>1, TotalIsSum
<1>6. PICK g : Sums(g, t) /\ Total(t) = g[Len(t)]
  BY <1>1, TotalIsSum
<1>7. \A k \in 1..l : Weight(t[k]) \in Nat /\ Weight(t[k]) >= 1
  BY <1>1, WeightOf
<1> HIDE DEF s, t, l, d
<1>8. /\ \A k \in 0..Len(s) : f[k] \in Nat
      /\ \A k \in 1..Len(s) : f[k] = f[k - 1] + Weight(s[k])
      /\ \A k \in 0..l : g[k] \in Nat
      /\ g[0] = 0
      /\ \A k \in 1..l : g[k] = g[k - 1] + Weight(t[k])
  BY <1>5, <1>6 DEF Sums, l
<1>9. \A k \in 0..l : f[k + d] >= g[k]
  <2> DEFINE T == {k \in 0..l : ~(f[k + d] >= g[k])}
  <2> SUFFICES ASSUME T # {} PROVE FALSE
    OBVIOUS
  <2>1. T \in SUBSET Nat
    OBVIOUS
  <2>2. PICK x \in T : \A y \in T : x <= y
    <3> HIDE DEF T
    <3> QED BY <2>1, LeastNat
  <2>3. x \in 0..l /\ ~(f[x + d] >= g[x])
    OBVIOUS
  <2>4. x # 0
    <3>1. d \in 0..Len(s) /\ 0 + d = d
      BY <1>0, <1>3
    <3>2. f[0 + d] \in Nat
      BY <1>8, <3>1
    <3> QED BY <1>8, <2>3, <3>2
  <2>5. x \in 1..l /\ x - 1 \in 0..l /\ ~(x <= x - 1) /\ (x + d) - 1 = (x - 1) + d
    BY <1>0, <1>3, <2>3, <2>4
  <2>6. f[(x - 1) + d] >= g[x - 1]
    BY <2>2, <2>5
  <2>7. x + d \in 1..Len(s) /\ s[x + d] = t[x]
    BY <1>4, <2>5
  <2>8. f[x + d] = f[(x - 1) + d] + Weight(t[x])
    <3>1. f[x + d] = f[(x + d) - 1] + Weight(s[x + d])
      BY <1>8, <2>7
    <3> QED BY <2>5, <2>7, <3>1
  <2>9. g[x] = g[x - 1] + Weight(t[x]) /\ Weight(t[x]) \in Nat
    BY <1>7, <1>8, <2>5
  <2>10. f[(x - 1) + d] \in Nat /\ g[x - 1] \in Nat
    <3>1. (x - 1) + d \in 0..Len(s)
      BY <1>0, <1>3, <2>5
    <3> QED BY <1>8, <2>5, <3>1
  <2>11. f[x + d] >= g[x]
    <3> HIDE DEF T
    <3> QED BY <2>6, <2>8, <2>9, <2>10
  <2> QED BY <2>3, <2>11
<1>10. /\ l \in 0..l /\ l \in 1..l /\ l - 1 \in 0..l /\ l + d = Len(s)
       /\ Len(s) \in 0..Len(s)
  BY <1>0, <1>3
<1>11. /\ Total(t) = g[l] /\ g[l] \in Nat /\ Total(s) \in Nat
       /\ Total(s) >= g[l]
  BY <1>5, <1>6, <1>8, <1>9, <1>10 DEF l
<1>12. g[l] >= 1
  <2>1. g[l] = g[l - 1] + Weight(t[l]) /\ g[l - 1] \in Nat
    BY <1>8, <1>10
  <2> QED BY <1>7, <1>10, <2>1
<1> QED BY <1>11, <1>12 DEF s, t

\* A projection weighs something, and no less with more messages in it.
LEMMA EstimateGrows ==
  ASSUME TypeOK, NEW i \in 1..Len(messages), NEW j \in i..Len(messages),
         NEW text \in 0..MaxSummary
  PROVE  /\ Estimate(i, text) \in Nat /\ Estimate(j, 0) \in Nat
         /\ Estimate(i, text) >= 1
         /\ Estimate(i, text) >= Estimate(j, 0)
<1>1. /\ Total(Suffix(i)) \in Nat /\ Total(Suffix(j)) \in Nat
      /\ Total(Suffix(j)) >= 1
      /\ Total(Suffix(i)) >= Total(Suffix(j))
  BY LongerWeighsMore DEF TypeOK, Suffix
<1>2. SummaryWeight(text) \in Nat /\ SummaryWeight(0) = 0 /\ Fixed \in Nat
  BY ContextAssumption DEF ContextAssumption, SummaryWeight
<1> HIDE DEF TypeOK
<1> QED BY <1>1, <1>2 DEF Estimate

\* The budget is a number, and so is what it leaves for the answer and the
\* margin.
LEMMA BudgetTypes ==
  ASSUME TypeOK
  PROVE  /\ InputBudget \in Int
         /\ options.window \in Int
         /\ NonNegative(options.reserve) \in Nat
         /\ NonNegative(options.margin) \in Nat
<1>1. options.window \in Int /\ options.reserve \in Int /\ options.margin \in Int
  BY ContextAssumption DEF ContextAssumption, TypeOK
<1>2. NonNegative(options.reserve) \in Nat /\ NonNegative(options.margin) \in Nat
  BY <1>1 DEF NonNegative
<1>3. Deduct(options.window, options.reserve) \in Int
  BY <1>1, <1>2 DEF Deduct
<1>4. InputBudget \in Int
  BY <1>2, <1>3 DEF InputBudget, Deduct
<1> QED BY <1>1, <1>2, <1>4

\* A budget that is not used up leaves room for the answer and the margin.
LEMMA BudgetMeans ==
  ASSUME TypeOK, InputBudget >= 1
  PROVE  InputBudget + NonNegative(options.reserve) + NonNegative(options.margin)
           = options.window
<1>1. /\ options.window \in Int
      /\ NonNegative(options.reserve) \in Nat
      /\ NonNegative(options.margin) \in Nat
  BY BudgetTypes
<1> QED BY <1>1 DEF InputBudget, Deduct

-----------------------------------------------------------------------------
(* What is left out *)

\* Every turn that is left out would not have fitted.
NothingNeedless ==
  \A i \in Cuts : i < from => Estimate(i, summary) > InputBudget

\* While turns are pruned, and once the projection is chosen.
Chosen ==
  /\ pc = "prune" =>
       Enabled /\ condensed = 0 /\ from \in Cuts /\ NothingNeedless
  /\ LongestFittingSuffixIsSent
  /\ BudgetErrorIsForced
  /\ error # "none" => pc = "failed"

\* With no later turn to prune, everything but the current turn is too much.
LEMMA CutsOverBudget ==
  ASSUME IInv, Chosen, NeedsCompactor,
         NEW i \in Cuts, i < CurrentStart \/ CurrentStart = 1
  PROVE  Estimate(i, summary) > InputBudget
<1>1. /\ pc = "prune" /\ OverBudget /\ LaterTurns = {}
      /\ HasUser /\ messages \in Seq(MessageType)
      /\ from \in Cuts /\ NothingNeedless
  BY DEF NeedsCompactor, Chosen, IInv, Kept, TypeOK
<1>2. CurrentStart \in 1..Len(messages) /\ Len(messages) \in Nat
  BY <1>1, CurrentStartIsLastUser
<1>3. /\ i \in 1..Len(messages) /\ i <= CurrentStart /\ (i = 1 \/ IsUser(i))
      /\ from \in 1..Len(messages) /\ from <= CurrentStart
  BY <1>1 DEF Cuts
<1>4. CASE i < from
  BY <1>1, <1>4 DEF NothingNeedless
<1>5. CASE i = from
  BY <1>1, <1>5 DEF OverBudget
<1>6. CASE i > from
  <2>1. i < CurrentStart
    BY <1>2, <1>3, <1>6
  <2>2. i \in 1..(CurrentStart - 1)
    BY <1>2, <1>3, <2>1
  <2>3. i \in LaterTurns
    BY <1>3, <1>6, <2>2 DEF LaterTurns, TurnStarts
  <2> QED BY <1>1, <2>3
<1> QED BY <1>2, <1>3, <1>4, <1>5, <1>6

\* Beginning chooses everything, or refuses what can never fit.
LEMMA BeginChoice == IInv /\ Chosen /\ Begin => Chosen'
<1> SUFFICES ASSUME IInv, Chosen, Begin PROVE Chosen'
  OBVIOUS
<1>1. /\ HasUser /\ messages \in Seq(MessageType) /\ pc = "prepare" /\ TypeOK
      /\ Paired(messages) /\ error = "none"
  BY DEF Begin, Chosen, IInv, Kept, TypeOK
<1>2. CurrentStart \in 1..Len(messages) /\ Len(messages) \in Nat
  BY <1>1, CurrentStartIsLastUser
<1>3. UNCHANGED <<options, summary, messages, round>> /\ from' = 1 /\ condensed' = 0
  BY DEF Begin
<1>4. /\ CurrentStart' = CurrentStart /\ Cuts' = Cuts /\ InputBudget' = InputBudget
      /\ Enabled' = Enabled
      /\ \A i, text : Estimate(i, text)' = Estimate(i, text)
  BY <1>3 DEF CurrentStart, Cuts, IsUser, InputBudget, Enabled, Estimate, Suffix
<1>5. 1 \in Cuts /\ \A i \in Cuts : ~(i < 1)
  BY <1>2 DEF Cuts
<1>6. CASE ~Enabled
  <2>1. pc' = "prepared" /\ error' = "none"
    BY <1>1, <1>6 DEF Begin, Fails
  <2> QED BY <1>3, <1>4, <1>5, <1>6, <2>1
          DEF Chosen, LongestFittingSuffixIsSent, BudgetErrorIsForced
<1>7. CASE Enabled /\ Estimate(CurrentStart, 0) > InputBudget
  <2>1. pc' = "failed" /\ error' = "budget"
    BY <1>1, <1>7 DEF Begin, Fails
  <2>2. ASSUME NEW i \in Cuts PROVE Estimate(i, summary) > InputBudget
    <3>1. i \in 1..Len(messages) /\ CurrentStart \in i..Len(messages)
      BY <1>2 DEF Cuts
    <3>2. summary \in 0..MaxSummary
      BY <1>1 DEF TypeOK
    <3>3. /\ Estimate(i, summary) \in Nat /\ Estimate(CurrentStart, 0) \in Nat
          /\ Estimate(i, summary) >= Estimate(CurrentStart, 0)
      BY <1>1, <3>1, <3>2, EstimateGrows
    <3>4. InputBudget \in Int
      BY <1>1, BudgetTypes
    <3> QED BY <1>7, <3>3, <3>4
  <2> QED BY <1>3, <1>4, <2>1, <2>2
          DEF Chosen, LongestFittingSuffixIsSent, BudgetErrorIsForced
<1>8. CASE Enabled /\ ~(Estimate(CurrentStart, 0) > InputBudget)
  <2>1. pc' = "prune" /\ error' = "none"
    BY <1>1, <1>8 DEF Begin, Fails
  <2> QED BY <1>3, <1>4, <1>5, <1>8, <2>1
          DEF Chosen, NothingNeedless, LongestFittingSuffixIsSent, BudgetErrorIsForced
<1> QED BY <1>6, <1>7, <1>8

\* A turn goes only while what is left is too much.
LEMMA PruneChoice == IInv /\ Chosen /\ Prune => Chosen'
<1> SUFFICES ASSUME IInv, Chosen, Prune PROVE Chosen'
  OBVIOUS
<1>1. /\ HasUser /\ messages \in Seq(MessageType) /\ pc = "prune" /\ TypeOK
      /\ Paired(messages) /\ error = "none" /\ from \in Nat /\ from >= 1
      /\ OverBudget /\ LaterTurns # {} /\ from' = OldestLater
      /\ Enabled /\ condensed = 0 /\ from \in Cuts /\ NothingNeedless
  BY DEF Prune, Chosen, IInv, Kept, TypeOK
<1>2. CurrentStart \in 1..Len(messages) /\ Len(messages) \in Nat
  BY <1>1, CurrentStartIsLastUser
<1>3. UNCHANGED <<options, summary, messages, condensed>>
  BY DEF Prune
<1>4. /\ CurrentStart' = CurrentStart /\ Cuts' = Cuts /\ InputBudget' = InputBudget
      /\ Enabled' = Enabled
      /\ \A i, text : Estimate(i, text)' = Estimate(i, text)
  BY <1>3 DEF CurrentStart, Cuts, IsUser, InputBudget, Enabled, Estimate, Suffix
<1>5. OldestLater \in LaterTurns /\ \A i \in LaterTurns : OldestLater <= i
  <2>1. LaterTurns \in SUBSET Nat
    BY <1>2 DEF LaterTurns, TurnStarts
  <2>2. \E i \in LaterTurns : \A j \in LaterTurns : i <= j
    BY <1>1, <2>1, LeastNat
  <2> QED BY <2>2 DEF OldestLater
<1>6. /\ OldestLater \in 1..Len(messages) /\ OldestLater < CurrentStart
      /\ IsUser(OldestLater)
  <2>1. OldestLater > from /\ OldestLater \in TurnStarts
    BY <1>5 DEF LaterTurns
  <2>2. OldestLater # 1
    BY <1>1, <2>1
  <2> QED BY <1>2, <2>1, <2>2 DEF TurnStarts
<1>7. from' \in Cuts
  BY <1>1, <1>2, <1>6 DEF Cuts
<1>8. ASSUME NEW i \in Cuts, i < OldestLater PROVE Estimate(i, summary) > InputBudget
  <2>0. /\ i \in 1..Len(messages) /\ i <= CurrentStart /\ (i = 1 \/ IsUser(i))
    BY DEF Cuts
  <2>1. CASE i < from
    BY <1>1, <2>1 DEF NothingNeedless
  <2>2. CASE i = from
    BY <1>1, <2>2 DEF OverBudget
  <2>3. CASE i > from
    <3>1. i \in 1..(CurrentStart - 1)
      BY <1>2, <1>6, <1>8, <2>0
    <3>2. i \in LaterTurns
      BY <2>0, <2>3, <3>1 DEF LaterTurns, TurnStarts
    <3>3. OldestLater <= i
      BY <1>5, <3>2
    <3> QED BY <1>6, <1>8, <2>0, <3>3
  <2> QED BY <1>1, <2>0, <2>1, <2>2, <2>3
<1>9. NothingNeedless'
  BY <1>1, <1>3, <1>4, <1>8 DEF NothingNeedless
<1>10. Paired(Suffix(from')) /\ pc' = pc /\ error' = error
  <2>1. Paired(Suffix(from'))
    BY <1>1, <1>6, SuffixPaired DEF IsUser, Suffix
  <2> QED BY <2>1 DEF Prune
<1> QED BY <1>1, <1>3, <1>4, <1>7, <1>9, <1>10
        DEF Chosen, LongestFittingSuffixIsSent, BudgetErrorIsForced

\* What fits is sent as it is.
LEMMA FitsChoice == IInv /\ Chosen /\ Fits => Chosen'
<1> SUFFICES ASSUME IInv, Chosen, Fits PROVE Chosen'
  OBVIOUS
<1>1. /\ messages \in Seq(MessageType) /\ pc = "prune" /\ TypeOK /\ error = "none"
      /\ ~OverBudget /\ from \in 1..Len(messages) /\ summary \in 0..MaxSummary
      /\ Enabled /\ condensed = 0 /\ from \in Cuts /\ NothingNeedless
  BY DEF Fits, Chosen, IInv, Kept, TypeOK
<1>2. UNCHANGED <<options, summary, messages, from, condensed, error>> /\ pc' = "prepared"
  BY DEF Fits
<1>3. /\ Cuts' = Cuts /\ InputBudget' = InputBudget /\ Enabled' = Enabled
      /\ \A i, text : Estimate(i, text)' = Estimate(i, text)
  BY <1>2 DEF CurrentStart, Cuts, IsUser, InputBudget, Enabled, Estimate, Suffix
<1>4. Sent' = Estimate(from, summary)
  <2>1. Sent' = Estimate(from, summary)'
    BY <1>1, <1>2 DEF Sent, Estimate, Suffix
  <2> QED BY <1>2, <1>3, <2>1 DEF Estimate, Suffix
<1>5. Estimate(from, summary) \in Nat /\ Estimate(from, summary) >= 1
  <2>1. from \in from..Len(messages)
    BY <1>1
  <2> QED BY <1>1, <2>1, EstimateGrows
<1>6. InputBudget \in Int
  BY <1>1, BudgetTypes
<1>7. Estimate(from, summary) <= InputBudget /\ InputBudget >= 1
  BY <1>1, <1>5, <1>6 DEF OverBudget
<1>8. NonNegative(options.reserve) \in Nat /\ NonNegative(options.margin) \in Nat
  BY <1>1, BudgetTypes
<1>9. Estimate(from, summary) + NonNegative(options.reserve) + NonNegative(options.margin)
        <= options.window
  <2>1. InputBudget + NonNegative(options.reserve) + NonNegative(options.margin)
          = options.window
    BY <1>1, <1>7, BudgetMeans
  <2> QED BY <1>5, <1>6, <1>7, <1>8, <2>1
<1> QED BY <1>1, <1>2, <1>3, <1>4, <1>9
        DEF Chosen, NothingNeedless, LongestFittingSuffixIsSent, BudgetErrorIsForced

\* The summary takes the place of the history only if it fits, and only where
\* not even its newest turn did.
LEMMA CompactChoice ==
  ASSUME IInv, Chosen, NEW text \in 1..MaxSummary, Compact(text)
  PROVE  Chosen'
<1>1. /\ messages \in Seq(MessageType) /\ HasUser /\ pc = "prune" /\ TypeOK
      /\ error = "none" /\ NeedsCompactor /\ Enabled
  BY DEF Compact, NeedsCompactor, Chosen, IInv, Kept, TypeOK
<1>2. CurrentStart \in 1..Len(messages) /\ IsUser(CurrentStart)
  BY <1>1, CurrentStartIsLastUser
<1>3. UNCHANGED <<options, summary, messages>>
  BY DEF Compact
<1>4. /\ CurrentStart' = CurrentStart /\ Cuts' = Cuts /\ InputBudget' = InputBudget
      /\ Enabled' = Enabled
      /\ \A i, t : Estimate(i, t)' = Estimate(i, t)
  BY <1>3 DEF CurrentStart, Cuts, IsUser, InputBudget, Enabled, Estimate, Suffix
<1>5. \A i \in Cuts : (i < CurrentStart \/ CurrentStart = 1) =>
        Estimate(i, summary) > InputBudget
  BY <1>1, CutsOverBudget
<1>6. CASE Estimate(CurrentStart, text) > InputBudget
  <2>1. pc' = "failed" /\ error' = "budget"
    BY <1>6 DEF Compact, Fails
  <2> QED BY <1>3, <1>4, <1>5, <2>1
          DEF Chosen, LongestFittingSuffixIsSent, BudgetErrorIsForced
<1>7. CASE ~(Estimate(CurrentStart, text) > InputBudget)
  <2>1. /\ pc' = "prepared" /\ error' = "none" /\ from' = CurrentStart
        /\ condensed' = text
    BY <1>1, <1>7 DEF Compact, Fails
  <2>2. text \in 0..MaxSummary /\ text > 0
    BY ContextAssumption DEF ContextAssumption
  <2>3. Sent' = Estimate(CurrentStart, text)
    BY <1>3, <2>1, <2>2 DEF Sent, Estimate, Suffix
  <2>4. Estimate(CurrentStart, text) \in Nat /\ Estimate(CurrentStart, text) >= 1
    <3>1. CurrentStart \in CurrentStart..Len(messages)
      BY <1>2
    <3> QED BY <1>1, <1>2, <2>2, <3>1, EstimateGrows
  <2>5. InputBudget \in Int
    BY <1>1, BudgetTypes
  <2>6. Estimate(CurrentStart, text) <= InputBudget /\ InputBudget >= 1
    BY <1>7, <2>4, <2>5
  <2>7. NonNegative(options.reserve) \in Nat /\ NonNegative(options.margin) \in Nat
    BY <1>1, BudgetTypes
  <2>8. Estimate(CurrentStart, text) + NonNegative(options.reserve)
          + NonNegative(options.margin) <= options.window
    <3>1. InputBudget + NonNegative(options.reserve) + NonNegative(options.margin)
            = options.window
      BY <1>1, <2>6, BudgetMeans
    <3> QED BY <2>4, <2>5, <2>6, <2>7, <3>1
  <2>9. CurrentStart \in Cuts
    BY <1>2 DEF Cuts
  <2> QED BY <1>1, <1>3, <1>4, <1>5, <2>1, <2>3, <2>8, <2>9
          DEF Chosen, LongestFittingSuffixIsSent, BudgetErrorIsForced
<1> QED BY <1>6, <1>7

\* Every step keeps the choice right.
LEMMA ChosenStep == IInv /\ Chosen /\ [Next]_vars => Chosen'
<1> SUFFICES ASSUME IInv, Chosen, [Next]_vars PROVE Chosen'
  OBVIOUS
<1>1. CASE Request
  <2>1. error = "none" /\ pc' \in {"prepare", "failed"} /\ error' \in {"none", "request"}
        /\ (error' # "none" => pc' = "failed")
    BY <1>1 DEF Request, Fails, Chosen
  <2> QED BY <2>1 DEF Chosen, LongestFittingSuffixIsSent, BudgetErrorIsForced
<1>2. CASE EstimationFails
  BY <1>2 DEF EstimationFails, Fails, Chosen, LongestFittingSuffixIsSent, BudgetErrorIsForced
<1>3. CASE CompactionFails
  BY <1>3 DEF CompactionFails, Fails, Chosen, LongestFittingSuffixIsSent, BudgetErrorIsForced
<1>4. CASE CannotCompact
  <2>1. NeedsCompactor /\ pc' = "failed" /\ error' = "budget"
        /\ UNCHANGED <<options, summary, messages, from>>
    BY <1>4 DEF CannotCompact, Fails
  <2>2. \A i \in Cuts : (i < CurrentStart \/ CurrentStart = 1) =>
          Estimate(i, summary) > InputBudget
    BY <2>1, CutsOverBudget
  <2>3. /\ CurrentStart' = CurrentStart /\ Cuts' = Cuts /\ InputBudget' = InputBudget
        /\ \A i, text : Estimate(i, text)' = Estimate(i, text)
    BY <2>1 DEF CurrentStart, Cuts, IsUser, InputBudget, Estimate, Suffix
  <2> QED BY <2>1, <2>2, <2>3
          DEF Chosen, LongestFittingSuffixIsSent, BudgetErrorIsForced
<1>5. ASSUME NEW n \in 1..MaxCalls, NextRound(n) PROVE Chosen'
  <2>1. pc' = "prepare" /\ error' = error /\ pc = "prepared"
    BY <1>5 DEF NextRound
  <2>2. error = "none"
    BY <2>1 DEF Chosen
  <2> QED BY <2>1, <2>2 DEF Chosen, LongestFittingSuffixIsSent, BudgetErrorIsForced
<1>6. CASE UNCHANGED vars
  BY <1>6 DEF vars, Chosen, NothingNeedless, LongestFittingSuffixIsSent,
              BudgetErrorIsForced, Cuts, CurrentStart, IsUser, Enabled, InputBudget,
              Sent, Estimate, Suffix
<1> QED BY <1>1, <1>2, <1>3, <1>4, <1>5, <1>6, BeginChoice, PruneChoice, FitsChoice,
           CompactChoice DEF Next

\* Nothing is chosen before the first round.
LEMMA InitChosen == Init => Chosen
  BY DEF Init, Chosen, LongestFittingSuffixIsSent, BudgetErrorIsForced

\* What is sent leaves the room it must, whatever the reserve and the margin
\* are, and no turn is left out that would have fitted (prepare, L178-315).
THEOREM NoTurnCutNeedlessly == Spec => []LongestFittingSuffixIsSent
<1>1. Chosen => LongestFittingSuffixIsSent
  BY DEF Chosen
<1> QED BY <1>1, InitKept, KeptStep, InitChosen, ChosenStep, PTL DEF Spec

\* Preparation refuses for the budget only what could not be sent with one
\* turn of the history (prepare, L215-217 and L266-284).
THEOREM BudgetRefusalIsDue == Spec => []BudgetErrorIsForced
<1>1. Chosen => BudgetErrorIsForced
  BY DEF Chosen
<1> QED BY <1>1, InitKept, KeptStep, InitChosen, ChosenStep, PTL DEF Spec

=============================================================================
