--------------------------- MODULE RunReportProofs ---------------------------
(***************************************************************************)
(* A client that is still there is told the outcome of its turn, hears of  *)
(* the turn as it happened, and is told "done" only of a whole one: proved *)
(* for every capacity of the channel, every turn and all three ways to ask.*)
(***************************************************************************)
EXTENDS RunReport, FiniteSetTheorems, SequenceTheorems, TLAPS

-----------------------------------------------------------------------------
(* Sequences of events *)

\* s is a sequence of values with a kind among kinds.
OfKinds(s, kinds) == \E T : s \in Seq(T) /\ \A e \in T : e.kind \in kinds

\* The empty sequence has no kinds.
LEMMA NoEvents == ASSUME NEW kinds PROVE OfKinds(<<>>, kinds)
<1> DEFINE T == {}
<1>1. <<>> \in Seq(T) /\ \A e \in T : e.kind \in kinds
  OBVIOUS
<1> HIDE DEF T
<1> QED BY <1>1 DEF OfKinds

\* A single event.
LEMMA OneEvent ==
  ASSUME NEW kinds, NEW e, e.kind \in kinds
  PROVE  /\ OfKinds(<<e>>, kinds)
         /\ Len(<<e>>) = 1
         /\ <<e>>[1] = e
<1> DEFINE T == {e}
<1>1. <<e>> \in Seq(T) /\ \A x \in T : x.kind \in kinds
  OBVIOUS
<1>2. Len(<<e>>) = 1 /\ <<e>>[1] = e
  OBVIOUS
<1> HIDE DEF T
<1> QED BY <1>1, <1>2 DEF OfKinds

\* Every event of a sequence has one of its kinds.
LEMMA EventsOf ==
  ASSUME NEW kinds, NEW s, OfKinds(s, kinds)
  PROVE  /\ Len(s) \in Nat
         /\ s # <<>> => Len(s) >= 1
         /\ \A i \in 1..Len(s) : s[i].kind \in kinds
<1>1. PICK T : s \in Seq(T) /\ \A e \in T : e.kind \in kinds
  BY DEF OfKinds
<1> QED BY <1>1

\* s is not empty, and its last event has one of kinds.
EndsIn(s, kinds) == s # <<>> /\ Last(s).kind \in kinds

\* An event is added at the end.
LEMMA EventAdded ==
  ASSUME NEW kinds, NEW s, OfKinds(s, kinds), NEW e, e.kind \in kinds
  PROVE  /\ OfKinds(Append(s, e), kinds)
         /\ Len(Append(s, e)) = Len(s) + 1
         /\ \A ends : EndsIn(Append(s, e), ends) <=> e.kind \in ends
<1>1. PICK T : s \in Seq(T) /\ \A x \in T : x.kind \in kinds
  BY DEF OfKinds
<1> DEFINE U == T \cup {e}
<1>2. s \in Seq(U) /\ e \in U /\ \A x \in U : x.kind \in kinds
  BY <1>1
<1> HIDE DEF U
<1>3. /\ Append(s, e) \in Seq(U)
      /\ Len(Append(s, e)) = Len(s) + 1 /\ Len(s) \in Nat
      /\ Append(s, e)[Len(s) + 1] = e
  BY <1>2
<1>4. Append(s, e) # <<>>
  BY <1>3
<1>5. Last(Append(s, e)) = e
  BY <1>3 DEF Last
<1>6. \A ends : EndsIn(Append(s, e), ends) <=> e.kind \in ends
  BY <1>4, <1>5 DEF EndsIn
<1> QED BY <1>2, <1>3, <1>6 DEF OfKinds

\* The oldest event is taken.
LEMMA EventTaken ==
  ASSUME NEW kinds, NEW s, OfKinds(s, kinds), s # <<>>
  PROVE  /\ OfKinds(Tail(s), kinds)
         /\ Head(s).kind \in kinds
         /\ Len(Tail(s)) = Len(s) - 1
         /\ \A ends : EndsIn(s, ends) => Head(s).kind \in ends \/ EndsIn(Tail(s), ends)
<1>1. PICK T : s \in Seq(T) /\ \A e \in T : e.kind \in kinds
  BY DEF OfKinds
<1>2. /\ Tail(s) \in Seq(T) /\ Head(s) = s[1] /\ s[1] \in T
      /\ Len(Tail(s)) = Len(s) - 1 /\ Len(s) \in Nat /\ Len(s) >= 1
      /\ \A i \in 1..Len(Tail(s)) : Tail(s)[i] = s[i + 1]
  BY <1>1
<1>3. CASE Len(s) > 1
  <2>1. Len(Tail(s)) \in 1..Len(Tail(s)) /\ Len(Tail(s)) + 1 = Len(s)
    BY <1>2, <1>3
  <2>2. Last(Tail(s)) = Last(s)
    BY <1>2, <2>1 DEF Last
  <2>3. Len(<<>>) = 0 /\ Len(Tail(s)) # 0
    BY <1>2, <1>3
  <2>4. Tail(s) # <<>>
    BY <2>3
  <2>5. \A ends : EndsIn(s, ends) => EndsIn(Tail(s), ends)
    BY <2>2, <2>4 DEF EndsIn
  <2> QED BY <1>1, <1>2, <2>5 DEF OfKinds
<1>4. CASE Len(s) = 1
  <2>1. Last(s) = Head(s)
    BY <1>2, <1>4 DEF Last
  <2>2. \A ends : EndsIn(s, ends) => Head(s).kind \in ends
    BY <2>1 DEF EndsIn
  <2> QED BY <1>1, <1>2, <2>2 DEF OfKinds
<1> QED BY <1>2, <1>3, <1>4

\* Events after events.
LEMMA EventsJoined ==
  ASSUME NEW kinds, NEW s, OfKinds(s, kinds), NEW t, OfKinds(t, kinds)
  PROVE  OfKinds(s \o t, kinds)
<1>1. PICK T : s \in Seq(T) /\ \A e \in T : e.kind \in kinds
  BY DEF OfKinds
<1>2. PICK U : t \in Seq(U) /\ \A e \in U : e.kind \in kinds
  BY DEF OfKinds
<1>3. s \in Seq(T \cup U) /\ t \in Seq(T \cup U)
  BY <1>1, <1>2
<1>4. s \o t \in Seq(T \cup U)
  BY <1>3, ConcatProperties
<1> QED BY <1>1, <1>2, <1>4 DEF OfKinds

\* Events a, one event b, and events c make w.
Makes(w, a, b, c) ==
  /\ w = (a \o b) \o c
  /\ Len(a) \in Nat /\ Len(c) \in Nat
  /\ Len(w) = Len(a) + 1 + Len(c)
  /\ \A i \in 1..Len(a) : w[i] = a[i]
  /\ w[Len(a) + 1] = b[1]
  /\ \A i \in 1..Len(c) : w[Len(a) + 1 + i] = c[i]

\* Events, one event, and events again.
LEMMA ThreeParts ==
  ASSUME NEW kinds, NEW a, OfKinds(a, kinds), NEW b, OfKinds(b, kinds), Len(b) = 1,
         NEW c, OfKinds(c, kinds)
  PROVE  \E w : OfKinds(w, kinds) /\ Makes(w, a, b, c)
<1>1. PICK T : a \in Seq(T)
  BY DEF OfKinds
<1>2. PICK U : b \in Seq(U)
  BY DEF OfKinds
<1>3. PICK V : c \in Seq(V)
  BY DEF OfKinds
<1> DEFINE S == T \cup U \cup V
<1>4. a \in Seq(S) /\ b \in Seq(S) /\ c \in Seq(S)
  BY <1>1, <1>2, <1>3
<1> HIDE DEF S
<1>5. /\ a \o b \in Seq(S) /\ Len(a \o b) = Len(a) + 1
      /\ (a \o b)[Len(a) + 1] = b[1]
      /\ \A i \in 1..Len(a) : (a \o b)[i] = a[i]
  <2>1. /\ a \o b \in Seq(S) /\ Len(a \o b) = Len(a) + Len(b)
        /\ \A i \in 1..Len(a) + Len(b) : (a \o b)[i] = IF i <= Len(a) THEN a[i] ELSE b[i - Len(a)]
    BY <1>4, ConcatProperties
  <2>2. Len(a) \in Nat /\ Len(b) = 1
    BY <1>4
  <2> DEFINE d == a \o b
  <2> HIDE DEF d
  <2>3. /\ Len(d) = Len(a) + 1 /\ d[Len(a) + 1] = b[1]
        /\ \A i \in 1..Len(a) : d[i] = a[i]
    BY <2>1, <2>2 DEF d
  <2> QED BY <2>1, <2>3 DEF d
<1>6. /\ Len((a \o b) \o c) = Len(a \o b) + Len(c)
      /\ \A i \in 1..Len(a \o b) : ((a \o b) \o c)[i] = (a \o b)[i]
      /\ \A i \in 1..Len(c) : ((a \o b) \o c)[Len(a \o b) + i] = c[i]
  BY <1>4, <1>5
<1>7. OfKinds((a \o b) \o c, kinds)
  BY EventsJoined
<1>8. Len(a) \in Nat /\ Len(c) \in Nat
  BY <1>4
<1> DEFINE d == a \o b
           w == d \o c
<1> HIDE DEF w, d
<1>9. /\ Len(w) = Len(a) + 1 + Len(c)
      /\ \A i \in 1..Len(a) : w[i] = a[i]
      /\ w[Len(a) + 1] = b[1]
      /\ \A i \in 1..Len(c) : w[Len(a) + 1 + i] = c[i]
  BY <1>5, <1>6, <1>8 DEF w, d
<1>10. w = (a \o b) \o c
  BY DEF w, d
<1>11. OfKinds(w, kinds)
  BY <1>7, <1>10
<1>12. Makes(w, a, b, c)
  BY <1>8, <1>9, <1>10 DEF Makes
<1> QED BY <1>11, <1>12

\* The events of calls: each is started, and at once ended.
LEMMA CallsInTurn ==
  ASSUME NEW calls, Len(calls) \in Nat
  PROVE  /\ OfKinds(CallEvents(calls), Kinds)
         /\ Len(CallEvents(calls)) = 2 * Len(calls)
         /\ \A k \in 1..Len(calls) :
              /\ CallEvents(calls)[2 * k - 1].kind = "start"
              /\ CallEvents(calls)[2 * k - 1].id = calls[k].id
              /\ CallEvents(calls)[2 * k - 1].n = calls[k].n
              /\ CallEvents(calls)[2 * k].kind = "end"
              /\ CallEvents(calls)[2 * k].id = calls[k].id
              /\ CallEvents(calls)[2 * k].n = calls[k].n
<1> DEFINE L == Len(calls)
           q == [k \in 1..2 * L |-> IF k % 2 = 1 THEN Started(calls[(k + 1) \div 2])
                                    ELSE Ended(calls[k \div 2])]
           T == {Started(calls[k]) : k \in 1..L} \cup {Ended(calls[k]) : k \in 1..L}
<1>0. CallEvents(calls) = q /\ L \in Nat
  BY DEF CallEvents
<1> HIDE DEF L
<1>1. ASSUME NEW k \in 1..2 * L
      PROVE  (IF k % 2 = 1 THEN Started(calls[(k + 1) \div 2]) ELSE Ended(calls[k \div 2])) \in T
  <2>1. CASE k % 2 = 1
    <3>1. (k + 1) \div 2 \in 1..L
      BY <1>0, <2>1
    <3> QED BY <2>1, <3>1
  <2>2. CASE k % 2 = 0
    <3>1. k \div 2 \in 1..L
      BY <1>0, <2>2
    <3> QED BY <2>2, <3>1
  <2> QED BY <2>1, <2>2
<1>2. \A e \in T : e.kind \in Kinds
  BY DEF Started, Ended, Blank, Kinds
<1>3. 2 * L \in Nat
  BY <1>0
<1>4. q \in Seq(T) /\ Len(q) = 2 * L
  <2> HIDE DEF T
  <2> QED BY <1>1, <1>3
<1>5. ASSUME NEW k \in 1..L
      PROVE  q[2 * k - 1] = Started(calls[k]) /\ q[2 * k] = Ended(calls[k])
  <2>1. /\ 2 * k - 1 \in 1..2 * L /\ (2 * k - 1) % 2 = 1
        /\ 2 * k \in 1..2 * L /\ (2 * k) % 2 = 0
    BY <1>0
  <2>2. (2 * k - 1 + 1) \div 2 = k /\ (2 * k) \div 2 = k
    BY <1>0
  <2>3. q[2 * k - 1] = Started(calls[(2 * k - 1 + 1) \div 2])
    BY <2>1
  <2>4. q[2 * k] = Ended(calls[(2 * k) \div 2])
    BY <2>1
  <2> QED BY <2>2, <2>3, <2>4
<1> HIDE DEF T, q
<1>6. \A k \in 1..L :
        /\ q[2 * k - 1].kind = "start" /\ q[2 * k - 1].id = calls[k].id /\ q[2 * k - 1].n = calls[k].n
        /\ q[2 * k].kind = "end" /\ q[2 * k].id = calls[k].id /\ q[2 * k].n = calls[k].n
  <2>1. \A call : /\ Started(call).kind = "start" /\ Started(call).id = call.id
                 /\ Started(call).n = call.n
    BY DEF Started, Blank
  <2>2. \A call : /\ Ended(call).kind = "end" /\ Ended(call).id = call.id
                 /\ Ended(call).n = call.n
    BY DEF Ended, Blank
  <2> QED BY <1>5, <2>1, <2>2
<1>7. OfKinds(q, Kinds)
  BY <1>2, <1>4 DEF OfKinds
<1> QED BY <1>0, <1>4, <1>6, <1>7 DEF L

\* The events of a message and its calls: the deltas, the message, and its calls
\* in their order.
Shaped(w, pieces, batch) ==
  /\ Len(w) = pieces + 1 + 2 * Len(batch)
  /\ \A i \in 1..pieces : w[i].kind = "delta"
  /\ w[pieces + 1].kind = "message"
  /\ Len(w[pieces + 1].calls) = Len(batch)
  /\ w[pieces + 1].calls = <<>> <=> Len(batch) = 0
  /\ \A k \in 1..Len(batch) : w[pieces + 1].calls[k].id = batch[k]
  /\ \A k \in 1..Len(batch) :
       /\ w[pieces + 2 * k].kind = "start" /\ w[pieces + 2 * k].id = batch[k]
       /\ w[pieces + 2 * k + 1].kind = "end" /\ w[pieces + 2 * k + 1].id = batch[k]
       /\ w[pieces + 2 * k].n = w[pieces + 1].calls[k].n
       /\ w[pieces + 2 * k + 1].n = w[pieces + 1].calls[k].n

\* A message has the events that MessageEvents says.
LEMMA MessageShape ==
  ASSUME NEW pieces \in Nat, NEW batch, Len(batch) \in Nat
  PROVE  /\ OfKinds(MessageEvents(pieces, batch), Kinds)
         /\ Shaped(MessageEvents(pieces, batch), pieces, batch)
<1> DEFINE m == Count("message") + 1
           n == Count("end")
           text == [k \in 1..pieces |-> <<m, k>>]
           calls == [k \in 1..Len(batch) |-> [id |-> batch[k], n |-> n + k]]
           deltas == [k \in 1..pieces |-> Delta(text[k])]
           said == <<MessageEnd(text, calls)>>
           made == CallEvents(calls)
           D == {Delta(text[k]) : k \in 1..pieces}
<1>1. MessageEvents(pieces, batch) = (deltas \o said) \o made
  BY DEF MessageEvents
<1>2. /\ Len(calls) = Len(batch) /\ (calls = <<>> <=> Len(batch) = 0)
      /\ \A k \in 1..Len(batch) : calls[k].id = batch[k]
  <2> HIDE DEF m, n
  <2> DEFINE C == {calls[k] : k \in 1..Len(batch)}
  <2>1. Len(calls) = Len(batch) /\ calls \in Seq(C) /\ \A k \in 1..Len(batch) : calls[k].id = batch[k]
    OBVIOUS
  <2> HIDE DEF calls, C
  <2> QED BY <2>1, EmptySeq
<1> HIDE DEF m, n, text, calls
<1>3. OfKinds(deltas, Kinds) /\ Len(deltas) = pieces /\ \A k \in 1..pieces : deltas[k].kind = "delta"
  <2>1. deltas \in Seq(D) /\ Len(deltas) = pieces /\ \A k \in 1..pieces : deltas[k] \in D
    OBVIOUS
  <2>2. \A e \in D : e.kind \in Kinds /\ e.kind = "delta"
    BY DEF Delta, Blank, Kinds
  <2> HIDE DEF D, deltas
  <2> QED BY <2>1, <2>2 DEF OfKinds
<1> HIDE DEF deltas, D
<1>4. OfKinds(said, Kinds) /\ Len(said) = 1 /\ said[1].kind = "message" /\ said[1].calls = calls
  <2>1. MessageEnd(text, calls).kind = "message" /\ MessageEnd(text, calls).calls = calls
    BY DEF MessageEnd, Blank
  <2>2. MessageEnd(text, calls).kind \in Kinds
    BY <2>1 DEF Kinds
  <2> QED BY <2>1, <2>2, OneEvent
<1> HIDE DEF said
<1>5. /\ OfKinds(made, Kinds) /\ Len(made) = 2 * Len(batch)
      /\ \A k \in 1..Len(batch) :
           /\ made[2 * k - 1].kind = "start" /\ made[2 * k - 1].id = batch[k]
           /\ made[2 * k].kind = "end" /\ made[2 * k].id = batch[k]
           /\ made[2 * k - 1].n = calls[k].n /\ made[2 * k].n = calls[k].n
  BY <1>2, CallsInTurn
<1> HIDE DEF made
<1>6. PICK w : OfKinds(w, Kinds) /\ Makes(w, deltas, said, made)
  <2>1. OfKinds(deltas, Kinds) /\ OfKinds(said, Kinds) /\ Len(said) = 1 /\ OfKinds(made, Kinds)
    BY <1>3, <1>4, <1>5
  <2> QED BY <2>1, ThreeParts
<1>7. ASSUME NEW k \in 1..Len(batch)
      PROVE  w[pieces + 2 * k] = made[2 * k - 1] /\ w[pieces + 2 * k + 1] = made[2 * k]
  <2>1. 2 * k - 1 \in 1..2 * Len(batch) /\ 2 * k \in 1..2 * Len(batch)
    OBVIOUS
  <2>2. pieces + 2 * k = pieces + 1 + (2 * k - 1) /\ pieces + 2 * k + 1 = pieces + 1 + 2 * k
    OBVIOUS
  <2>3. Len(deltas) = pieces /\ Len(made) = 2 * Len(batch) /\ Makes(w, deltas, said, made)
    BY <1>3, <1>5, <1>6
  <2> QED BY <2>1, <2>2, <2>3 DEF Makes
<1>8. w[pieces + 1].calls = calls /\ w[pieces + 1].kind = "message"
  BY <1>3, <1>4, <1>6 DEF Makes
<1>9. \A i \in 1..pieces : w[i].kind = "delta"
  BY <1>3, <1>6 DEF Makes
<1>10. \A k \in 1..Len(batch) :
         /\ w[pieces + 2 * k].kind = "start" /\ w[pieces + 2 * k].id = batch[k]
         /\ w[pieces + 2 * k + 1].kind = "end" /\ w[pieces + 2 * k + 1].id = batch[k]
         /\ w[pieces + 2 * k].n = calls[k].n /\ w[pieces + 2 * k + 1].n = calls[k].n
  <2> SUFFICES ASSUME NEW k \in 1..Len(batch)
               PROVE  /\ w[pieces + 2 * k].kind = "start" /\ w[pieces + 2 * k].id = batch[k]
                      /\ w[pieces + 2 * k + 1].kind = "end" /\ w[pieces + 2 * k + 1].id = batch[k]
                      /\ w[pieces + 2 * k].n = calls[k].n /\ w[pieces + 2 * k + 1].n = calls[k].n
    OBVIOUS
  <2>1. w[pieces + 2 * k] = made[2 * k - 1] /\ w[pieces + 2 * k + 1] = made[2 * k]
    BY <1>7
  <2>2. /\ made[2 * k - 1].kind = "start" /\ made[2 * k - 1].id = batch[k]
        /\ made[2 * k].kind = "end" /\ made[2 * k].id = batch[k]
        /\ made[2 * k - 1].n = calls[k].n /\ made[2 * k].n = calls[k].n
    BY <1>5
  <2> QED BY <2>1, <2>2
<1>11. MessageEvents(pieces, batch) = w /\ Len(w) = pieces + 1 + 2 * Len(batch)
  BY <1>1, <1>3, <1>5, <1>6 DEF Makes
<1>12. Shaped(w, pieces, batch)
  BY <1>2, <1>8, <1>9, <1>10, <1>11 DEF Shaped
<1> QED BY <1>6, <1>11, <1>12

\* The kinds of these events.
LEMMA MessageKinds ==
  ASSUME NEW pieces \in Nat, NEW batch, Len(batch) \in Nat
  PROVE  OfKinds(MessageEvents(pieces, batch), Kinds)
BY MessageShape

-----------------------------------------------------------------------------
(* Sequences put together *)

\* A set of natural numbers has a least element.
LEMMA FirstNumber ==
  ASSUME NEW T \in SUBSET Nat, T # {}
  PROVE  \E x \in T : \A y \in T : x <= y
<1> DEFINE D == {0..x : x \in T}
<1>1. D \subseteq FiniteSubsetsOf(Nat) /\ D # {}
  <2>1. ASSUME NEW x \in T PROVE 0..x \subseteq Nat /\ IsFiniteSet(0..x)
    BY FS_Interval
  <2> QED BY <2>1 DEF FiniteSubsetsOf
<1>2. PICK d \in D : \A e \in D : ~(<<e, d>> \in StrictSubsetOrdering(Nat))
  <2> HIDE DEF D
  <2> QED BY <1>1, FS_StrictSubsetOrderingWellFounded, WFMin
<1>3. PICK x \in T : d = 0..x
  BY <1>2
<1>4. ASSUME NEW y \in T, y < x PROVE FALSE
  <2>1. 0..y \subseteq 0..x /\ x \in 0..x /\ x \notin 0..y
    BY <1>4
  <2>2. 0..y \in SUBSET Nat /\ 0..x \in SUBSET Nat /\ 0..y \in D
    OBVIOUS
  <2>3. <<0..y, 0..x>> \in StrictSubsetOrdering(Nat)
    BY <2>1, <2>2 DEF StrictSubsetOrdering
  <2> QED BY <1>2, <1>3, <2>2, <2>3
<1> QED BY <1>4

\* g puts the first m of seqs together, one after the other.
Flattens(g, m, seqs, T) ==
  /\ g \in [1..m -> Seq(T)]
  /\ \A i \in 1..m : g[i] = IF i = 1 THEN seqs[i] ELSE g[i - 1] \o seqs[i]

\* The sequences of a sequence, up to each of them, put together.
LEMMA FlatExists ==
  ASSUME NEW T, NEW n \in Nat, NEW seqs, \A k \in 1..n : seqs[k] \in Seq(T), NEW m \in 1..n
  PROVE  \E g : Flattens(g, m, seqs, T)
<1> DEFINE Good(k) == \E g : Flattens(g, k, seqs, T)
           Bad == {k \in 1..n : ~Good(k)}
<1>1. n >= 1 => Good(1)
  <2> SUFFICES ASSUME n >= 1 PROVE Good(1)
    OBVIOUS
  <2> DEFINE g == [i \in 1..1 |-> seqs[1]]
  <2>1. seqs[1] \in Seq(T)
    OBVIOUS
  <2>2. g \in [1..1 -> Seq(T)] /\ \A i \in 1..1 : i = 1 /\ g[i] = seqs[i]
    BY <2>1
  <2> HIDE DEF g
  <2>3. Flattens(g, 1, seqs, T)
    BY <2>2 DEF Flattens
  <2> QED BY <2>3
<1>2. ASSUME NEW k \in 2..n, Good(k - 1) PROVE Good(k)
  <2>0. PICK g : Flattens(g, k - 1, seqs, T)
    BY <1>2
  <2>1. /\ g \in [1..(k - 1) -> Seq(T)]
        /\ \A i \in 1..(k - 1) : g[i] = IF i = 1 THEN seqs[i] ELSE g[i - 1] \o seqs[i]
    BY <2>0 DEF Flattens
  <2>2. k \in 1..n /\ k - 1 \in 1..(k - 1) /\ k # 1 /\ k \in Nat
    OBVIOUS
  <2>3. g[k - 1] \o seqs[k] \in Seq(T)
    <3>1. g[k - 1] \in Seq(T) /\ seqs[k] \in Seq(T)
      BY <2>1, <2>2
    <3> QED BY <3>1, ConcatProperties
  <2> DEFINE h == [i \in 1..k |-> IF i = k THEN g[k - 1] \o seqs[k] ELSE g[i]]
  <2>4. \A i \in 1..k : i = k \/ i \in 1..(k - 1)
    BY <2>2
  <2>5. h \in [1..k -> Seq(T)]
    BY <2>1, <2>3, <2>4
  <2>9. k \in 1..k /\ \A i \in 1..(k - 1) : i \in 1..k /\ i # k
    BY <2>2
  <2>6. h[k] = g[k - 1] \o seqs[k]
    BY <2>9
  <2>7. \A i \in 1..(k - 1) : h[i] = g[i]
    BY <2>9
  <2> HIDE DEF h
  <2>8. ASSUME NEW i \in 1..k
        PROVE  h[i] = IF i = 1 THEN seqs[i] ELSE h[i - 1] \o seqs[i]
    <3>1. CASE i = k
      BY <2>2, <2>6, <2>7, <3>1
    <3>2. CASE i \in 1..(k - 1)
      <4>1. h[i] = g[i] /\ (i # 1 => i - 1 \in 1..(k - 1))
        BY <2>7, <3>2
      <4>2. i # 1 => h[i - 1] = g[i - 1]
        BY <2>7, <4>1
      <4>3. g[i] = IF i = 1 THEN seqs[i] ELSE g[i - 1] \o seqs[i]
        BY <2>1, <3>2
      <4> QED BY <4>1, <4>2, <4>3
    <3> QED BY <2>4, <3>1, <3>2
  <2>10. Flattens(h, k, seqs, T)
    BY <2>5, <2>8 DEF Flattens
  <2> QED BY <2>10
<1>3. Bad = {}
  <2> SUFFICES ASSUME Bad # {} PROVE FALSE
    OBVIOUS
  <2>1. Bad \in SUBSET Nat
    OBVIOUS
  <2>2. PICK x \in Bad : \A y \in Bad : x <= y
    <3> HIDE DEF Bad
    <3> QED BY <2>1, FirstNumber
  <2>3. x \in 1..n /\ ~Good(x)
    <3> HIDE DEF Good
    <3> QED OBVIOUS
  <2> HIDE DEF Good
  <2>4. x \in 2..n
    <3>1. x # 1
      BY <1>1, <2>3
    <3> QED BY <2>3, <3>1
  <2>5. x - 1 \in 1..n /\ ~(x <= x - 1)
    BY <2>4
  <2>6. Good(x - 1)
    BY <2>2, <2>5
  <2> QED BY <1>2, <2>3, <2>4, <2>6
<1>4. m \notin Bad => Good(m)
  <2> HIDE DEF Good
  <2> QED OBVIOUS
<1> HIDE DEF Bad
<1> QED BY <1>3, <1>4


\* What FlattenSeq returns is the last of them.
LEMMA FlatIs ==
  ASSUME NEW T, NEW n \in Nat, n >= 1, NEW seqs, Len(seqs) = n, \A k \in 1..n : seqs[k] \in Seq(T)
  PROVE  \E g : Flattens(g, n, seqs, T) /\ FlattenSeq(seqs) = g[n]
<1> DEFINE Eq(flatten) == flatten = [i \in 1..n |->
              IF i = 1 THEN seqs[i] ELSE flatten[i - 1] \o seqs[i]]
<1>1. n \in 1..n
  OBVIOUS
<1>2. PICK g : Flattens(g, n, seqs, T)
  BY <1>1, FlatExists
<1>3. /\ g \in [1..n -> Seq(T)]
      /\ \A i \in 1..n : g[i] = IF i = 1 THEN seqs[i] ELSE g[i - 1] \o seqs[i]
  BY <1>2 DEF Flattens
<1>4. Eq(g)
  <2> DEFINE h == [i \in 1..n |-> IF i = 1 THEN seqs[i] ELSE g[i - 1] \o seqs[i]]
  <2>1. DOMAIN g = 1..n /\ g = [i \in 1..n |-> g[i]]
    BY <1>3
  <2>2. \A i \in 1..n : g[i] = h[i]
    BY <1>3
  <2>3. [i \in 1..n |-> g[i]] = h
    BY <2>2
  <2> QED BY <2>1, <2>3
<1> DEFINE c == CHOOSE flatten : Eq(flatten)
<1>5. Eq(c)
  <2> HIDE DEF Eq
  <2> QED BY <1>4
<1>6. FlattenSeq(seqs) = c[n]
  BY DEF FlattenSeq
<1> HIDE DEF c
<1>7. \A i \in 1..n : c[i] = IF i = 1 THEN seqs[i] ELSE c[i - 1] \o seqs[i]
  <2> DEFINE h == [i \in 1..n |-> IF i = 1 THEN seqs[i] ELSE c[i - 1] \o seqs[i]]
  <2>1. c = h
    BY <1>5
  <2>2. \A i \in 1..n : h[i] = IF i = 1 THEN seqs[i] ELSE c[i - 1] \o seqs[i]
    OBVIOUS
  <2> HIDE DEF h
  <2> QED BY <2>1, <2>2
<1>8. DOMAIN c = 1..n /\ c = [i \in 1..n |-> c[i]]
  BY <1>5
<1> HIDE DEF Eq
<1>9. \A i \in 1..n : c[i] \in Seq(T)
  <2> DEFINE Bad == {i \in 1..n : c[i] \notin Seq(T)}
  <2> SUFFICES ASSUME Bad # {} PROVE FALSE
    OBVIOUS
  <2>1. Bad \in SUBSET Nat
    OBVIOUS
  <2>2. PICK x \in Bad : \A y \in Bad : x <= y
    <3> HIDE DEF Bad
    <3> QED BY <2>1, FirstNumber
  <2>3. x \in 1..n /\ seqs[x] \in Seq(T) /\ c[x] \notin Seq(T)
    OBVIOUS
  <2>4. x # 1
    BY <1>7, <2>3
  <2>5. x - 1 \in 1..n /\ ~(x <= x - 1)
    BY <2>3, <2>4
  <2>6. c[x - 1] \in Seq(T)
    BY <2>2, <2>5
  <2>7. c[x - 1] \o seqs[x] \in Seq(T)
    BY <2>3, <2>6, ConcatProperties
  <2> QED BY <1>7, <2>3, <2>4, <2>7
<1>10. c \in [1..n -> Seq(T)]
  <2>1. [i \in 1..n |-> c[i]] \in [1..n -> Seq(T)]
    BY <1>9
  <2> QED BY <1>8, <2>1
<1>11. Flattens(c, n, seqs, T)
  BY <1>7, <1>10 DEF Flattens
<1> QED BY <1>6, <1>11

\* s and t have the same first m elements.
Agree(m, s, t) == \A k \in 1..m : s[k] = t[k]

\* Sequences that agree are put together alike.
LEMMA FlatAgree ==
  ASSUME NEW T, NEW m \in Nat, NEW n \in Nat, m <= n, NEW s, NEW t, Agree(m, s, t),
         NEW g, Flattens(g, m, s, T), NEW h, Flattens(h, n, t, T)
  PROVE  \A i \in 1..m : g[i] = h[i]
<1> DEFINE Bad == {i \in 1..m : g[i] # h[i]}
<1> SUFFICES ASSUME Bad # {} PROVE FALSE
  OBVIOUS
<1>1. Bad \in SUBSET Nat
  OBVIOUS
<1>2. PICK x \in Bad : \A y \in Bad : x <= y
  <2> HIDE DEF Bad
  <2> QED BY <1>1, FirstNumber
<1>3. x \in 1..m /\ x \in 1..n /\ s[x] = t[x] /\ g[x] # h[x]
  BY DEF Agree
<1>4. x # 1 => x - 1 \in 1..m /\ ~(x <= x - 1)
  BY <1>3
<1>5. x # 1 => g[x - 1] = h[x - 1]
  BY <1>2, <1>4
<1>6. g[x] = IF x = 1 THEN s[x] ELSE g[x - 1] \o s[x]
  BY <1>3 DEF Flattens
<1>7. h[x] = IF x = 1 THEN t[x] ELSE h[x - 1] \o t[x]
  BY <1>3 DEF Flattens
<1> QED BY <1>3, <1>5, <1>6, <1>7

\* The first n of t are sequences of T.
SequencesOf(t, n, T) == \A k \in 1..n : t[k] \in Seq(T)

\* t put together is s put together and one sequence more.
HasOneMore(t, s, n) == FlattenSeq(t) = FlattenSeq(s) \o t[n + 1]

\* One sequence more is put at the end.
LEMMA FlatOneMore ==
  ASSUME NEW T, NEW n \in Nat, NEW s, Len(s) = n, n = 0 => s = <<>>,
         NEW t, Len(t) = n + 1, Agree(n, s, t), SequencesOf(t, n + 1, T)
  PROVE  /\ FlattenSeq(s) \in Seq(T)
         /\ FlattenSeq(t) \in Seq(T)
         /\ HasOneMore(t, s, n)
<1>1. n + 1 \in Nat /\ n + 1 >= 1 /\ n + 1 \in 1..(n + 1) /\ t[n + 1] \in Seq(T)
  BY DEF SequencesOf
<1>2. PICK h : Flattens(h, n + 1, t, T) /\ FlattenSeq(t) = h[n + 1]
  BY <1>1, FlatIs DEF SequencesOf
<1>3. /\ h \in [1..(n + 1) -> Seq(T)]
      /\ \A i \in 1..(n + 1) : h[i] = IF i = 1 THEN t[i] ELSE h[i - 1] \o t[i]
  BY <1>2 DEF Flattens
<1>4. CASE n = 0
  <2>1. FlattenSeq(s) = <<>>
    BY <1>4 DEF FlattenSeq
  <2>2. h[n + 1] = t[n + 1]
    BY <1>1, <1>3, <1>4
  <2>3. <<>> \o t[n + 1] = t[n + 1] /\ <<>> \in Seq(T)
    BY <1>1, ConcatEmptySeq
  <2> QED BY <1>1, <1>2, <2>1, <2>2, <2>3 DEF HasOneMore
<1>5. CASE n # 0
  <2>1. n >= 1 /\ n \in 1..n /\ n \in 1..(n + 1) /\ n <= n + 1
    BY <1>5
  <2>2. \A k \in 1..n : s[k] \in Seq(T)
    BY DEF Agree, SequencesOf
  <2>3. PICK g : Flattens(g, n, s, T) /\ FlattenSeq(s) = g[n]
    BY <2>1, <2>2, FlatIs
  <2>4. g[n] = h[n]
    <3>0. PICK N \in Nat : N = n + 1 /\ n <= N
      BY <1>1, <2>1
    <3>1. Flattens(g, n, s, T) /\ Flattens(h, N, t, T) 
      BY <1>2, <2>3, <3>0
    <3>2. \A i \in 1..n : g[i] = h[i]
      BY <3>0, <3>1, FlatAgree
    <3> QED BY <2>1, <3>2
  <2>5. h[n + 1] = h[n] \o t[n + 1]
    <3>1. n + 1 # 1 /\ (n + 1) - 1 = n
      BY <1>5
    <3>2. h[n + 1] = h[(n + 1) - 1] \o t[n + 1]
      BY <1>1, <1>3, <3>1
    <3> QED BY <3>1, <3>2
  <2>6. h[n] \in Seq(T) /\ h[n + 1] \in Seq(T)
    BY <1>1, <1>3, <2>1
  <2> QED BY <1>2, <2>3, <2>4, <2>5, <2>6 DEF HasOneMore
<1> QED BY <1>4, <1>5

-----------------------------------------------------------------------------
(* The invariant *)

\* The types of what the Runtime and the Session keep.
SessionTypes ==
  /\ mode \in Modes
  /\ ctx \in {"live", "done"}
  /\ OfKinds(todo, Kinds)
  /\ OfKinds(seen, Kinds)
  /\ DOMAIN session = {"at", "event"}
  /\ session.at \in {"prompt", "receive", "emit", "terminal", "closed"}
  /\ session.at = "emit" => session.event.kind \in Kinds
  /\ session.at = "terminal" => session.event.kind \in {"completed", "failed"}
  /\ kept \in BOOLEAN
  /\ OfKinds(out, Kinds)
  /\ Len(out) <= OutCap

\* The steps of a reply, and the step that each identifier stands for.
StepTypes(steps, stepOf) ==
  /\ \E T : steps \in Seq(T)
  /\ stepOf \in [CallId -> Nat]
  /\ \A id \in CallId : stepOf[id] <= Len(steps)

\* The types of what the reader and the handler keep.
ReaderTypes ==
  /\ recorded \in BOOLEAN
  /\ DOMAIN reader = {"at", "event", "answer", "steps", "stepOf", "argsOf"}
  /\ reader.at \in {"loop", "send", "record", "closed"}
  /\ reader.at = "send" => reader.event.kind \in ToldKinds
  /\ StepTypes(reader.steps, reader.stepOf)
  /\ handed = Blank \/ handed.kind \in ToldKinds
  /\ OfKinds(told, ToldKinds)

\* The reader has not seen, or not yet passed on, how the turn ended.
Asking ==
  \/ reader.at = "loop"
  \/ reader.at = "send" /\ ~IsTerminal(reader.event)

\* Only a stream passes events to a handler.
OnlyStreamsSend == mode # "stream" => reader.at # "send" /\ handed = Blank

\* A Session that has closed its channel has left the outcome of the run as
\* the last event there, or its request is over.
OutcomeIsThere ==
  mode = "stream" /\ session.at = "closed" /\ Asking =>
    ctx = "done" \/ EndsIn(out, {"completed", "failed"})

\* The use is recorded for a client that gets, or got, the word "done".
RecordedForDone ==
  \/ ~recorded
  \/ reader.at = "send" /\ reader.event.kind = "done"
  \/ reader.at = "closed" /\ handed.kind # "error" /\ ~EndsIn(told, {"error"})

\* The terminal event is the last one that is passed on.
TerminalIsLast ==
  /\ IsTerminal(handed) => reader.at = "closed"
  /\ EndsIn(told, {"done", "error"}) => reader.at = "closed" /\ handed = Blank

\* A reader stops when it has passed on a terminal event, or when the context
\* of its stream has ended.
StopsForAReason ==
  reader.at = "closed" =>
    \/ IsTerminal(handed)
    \/ EndsIn(told, {"done", "error"})
    \/ mode = "stream" /\ ctx = "done"

Answering ==
  /\ OnlyStreamsSend
  /\ OutcomeIsThere
  /\ RecordedForDone
  /\ TerminalIsLast
  /\ StopsForAReason

ReportInv == SessionTypes /\ ReaderTypes /\ Answering

\* Under the assumptions the capacity is a number, and so is every batch's length.
LEMMA Sizes ==
  /\ OutCap \in Nat /\ OutCap >= 1
  /\ MaxPieces \in Nat
  /\ \A batch \in Batches : Len(batch) \in Nat
<1>1. \A batch \in Batches : batch \in Seq(CallId)
  BY ReportAssumption
<1>2. ASSUME NEW batch \in Batches PROVE Len(batch) \in Nat
  BY <1>1
<1> QED BY <1>2, ReportAssumption

\* Every step keeps the types of the Runtime and the Session.
LEMMA SessionTypesKept ==
  ASSUME SessionTypes, Next
  PROVE  SessionTypes'
<1> USE DEF SessionTypes
<1>1. CASE EndContext
  BY <1>1 DEF EndContext, runtime
<1>2. CASE Prompt
  <2>1. UNCHANGED <<mode, ctx, todo, seen, kept>>
    BY <1>2 DEF Prompt, runtime
  <2>2. /\ DOMAIN session' = {"at", "event"} /\ session'.at \in {"receive", "closed"}
        /\ out' = out \/ out' = <<Refused>>
    BY <1>2 DEF Prompt
  <2>3. Refused.kind \in Kinds
    BY DEF Refused, Blank, Kinds
  <2>4. OfKinds(<<Refused>>, Kinds) /\ Len(<<Refused>>) = 1
    BY <2>3, OneEvent
  <2>5. OfKinds(out', Kinds) /\ Len(out') <= OutCap
    BY <2>2, <2>4, Sizes
  <2> QED BY <2>1, <2>2, <2>5
<1>3. CASE ProviderAnswers
  <2>1. UNCHANGED <<mode, ctx, seen, session, kept, out>>
    BY <1>3 DEF ProviderAnswers
  <2>2. PICK pieces \in 0..MaxPieces, batch \in Batches : todo' = MessageEvents(pieces, batch)
    BY <1>3 DEF ProviderAnswers
  <2>3. pieces \in Nat /\ Len(batch) \in Nat
    BY Sizes
  <2>4. OfKinds(todo', Kinds)
    BY <2>2, <2>3, MessageKinds
  <2> QED BY <2>1, <2>4
<1>4. CASE Receive
  <2>1. UNCHANGED <<mode, ctx, kept, out>>
    BY <1>4 DEF Receive
  <2>2. OfKinds(Tail(todo), Kinds) /\ Head(todo).kind \in Kinds
    BY <1>4, EventTaken DEF Receive
  <2>3. OfKinds(Append(seen, Head(todo)), Kinds)
    BY <2>2, EventAdded
  <2>4. \/ session' = session
        \/ session' = [at |-> "emit", event |-> Head(todo)]
    BY <1>4 DEF Receive
  <2>5. session.at = "receive" /\ todo' = Tail(todo) /\ seen' = Append(seen, Head(todo))
    BY <1>4 DEF Receive
  <2>6. /\ DOMAIN session' = {"at", "event"} /\ session'.at \in {"receive", "emit"}
        /\ session'.at = "emit" => session'.event.kind \in Kinds
    BY <2>2, <2>4, <2>5
  <2> QED BY <2>1, <2>2, <2>3, <2>5, <2>6
<1>5. CASE Emit
  <2>1. UNCHANGED <<mode, ctx, todo, seen, kept>>
    BY <1>5 DEF Emit, runtime
  <2>2. DOMAIN session' = {"at", "event"} /\ session'.at = "receive"
    BY <1>5 DEF Emit
  <2>3. OfKinds(Append(out, session.event), Kinds) /\ Len(Append(out, session.event)) = Len(out) + 1
    BY <1>5, EventAdded DEF Emit
  <2>4. Len(out) \in Nat
    BY EventsOf
  <2>5. (Len(out) < OutCap /\ out' = Append(out, session.event)) \/ out' = out
    BY <1>5 DEF Emit, HasRoom
  <2>6. Len(out) < OutCap => Len(out) + 1 <= OutCap
    BY <2>4, Sizes
  <2>7. OfKinds(out', Kinds) /\ Len(out') <= OutCap
    BY <2>3, <2>5, <2>6
  <2> QED BY <2>1, <2>2, <2>7
<1>6. CASE RunCompletes
  <2>1. UNCHANGED <<mode, ctx, todo, seen, out>>
    BY <1>6 DEF RunCompletes, runtime
  <2>2. kept' \in BOOLEAN
    BY <1>6 DEF RunCompletes
  <2>3. session' = [at |-> "terminal", event |-> Completed] \/ session' = [at |-> "terminal", event |-> Failed]
    BY <1>6 DEF RunCompletes
  <2>4. Completed.kind = "completed" /\ Failed.kind = "failed"
    BY DEF Completed, Failed, Blank
  <2>5. /\ DOMAIN session' = {"at", "event"} /\ session'.at = "terminal"
        /\ session'.event.kind \in {"completed", "failed"}
    BY <2>3, <2>4
  <2> QED BY <2>1, <2>2, <2>5
<1>7. CASE RunFails
  <2>1. UNCHANGED <<mode, ctx, todo, seen, kept, out>>
    BY <1>7 DEF RunFails, runtime
  <2>2. session' = [at |-> "terminal", event |-> Failed] /\ Failed.kind = "failed"
    BY <1>7 DEF RunFails, Failed, Blank
  <2>3. /\ DOMAIN session' = {"at", "event"} /\ session'.at = "terminal"
        /\ session'.event.kind \in {"completed", "failed"}
    BY <2>2
  <2> QED BY <2>1, <2>3
<1>8. CASE EmitTerminal
  <2>1. UNCHANGED <<mode, ctx, todo, seen, kept>>
    BY <1>8 DEF EmitTerminal, runtime
  <2>2. DOMAIN session' = {"at", "event"} /\ session'.at = "closed"
    BY <1>8 DEF EmitTerminal
  <2>3. session.event.kind \in Kinds
    BY <1>8 DEF EmitTerminal, Kinds
  <2>4. OfKinds(Append(out, session.event), Kinds) /\ Len(Append(out, session.event)) = Len(out) + 1
    BY <2>3, EventAdded
  <2>5. Len(out) \in Nat
    BY EventsOf
  <2>6. OfKinds(out', Kinds) /\ Len(out') <= OutCap
    BY <1>8, <2>4, <2>5, Sizes DEF EmitTerminal, HasRoom
  <2> QED BY <2>1, <2>2, <2>6
<1>9. ASSUME NEW kinds, Take(kinds) PROVE SessionTypes'
  <2>1. UNCHANGED <<mode, ctx, todo, seen, session, kept>>
    BY <1>9 DEF Take, runtime
  <2>2. OfKinds(out', Kinds) /\ Len(out') = Len(out) - 1
    BY <1>9, EventTaken DEF Take
  <2>3. Len(out) \in Nat
    BY EventsOf
  <2>4. Len(out') <= OutCap
    BY <2>2, <2>3, Sizes
  <2> QED BY <2>1, <2>2, <2>4
<1>10. CASE ChannelEnds \/ Record \/ Send \/ Write
  <2>1. UNCHANGED <<mode, ctx, todo, seen, session, kept, out>>
    BY <1>10 DEF ChannelEnds, Record, Send, Write, runtime
  <2> QED BY <2>1
<1>11. CASE ReaderStep
  BY <1>9, <1>10, <1>11 DEF ReaderStep, TakeDelta, TakeMessage, TakeStart, TakeEnd,
       TakeCompleted, TakeFailed, TakeRefused
<1> QED
  BY <1>1, <1>2, <1>3, <1>4, <1>5, <1>6, <1>7, <1>8, <1>10, <1>11 DEF Next, SessionStep

\* What the client is told has one of the kinds of events for a client.
LEMMA ToldHaveKinds ==
  /\ Error.kind = "error" /\ "error" \in ToldKinds
  /\ \A text : Done(text).kind = "done" /\ "done" \in ToldKinds
  /\ \A text, calls : DoneWith(text, calls).kind = "done"
  /\ \A id, n : ToolCall(id, n).kind = "tool_call" /\ "tool_call" \in ToldKinds
  /\ \A event : ToolResult(event).kind = "tool_result" /\ "tool_result" \in ToldKinds
  /\ "delta" \in ToldKinds
  /\ Blank.kind = "none" /\ "none" \notin ToldKinds
BY DEF Error, Done, DoneWith, ToolCall, ToolResult, Blank, ToldKinds

\* A new last step, which its identifier stands for.
LEMMA StepAdded ==
  ASSUME NEW steps, NEW stepOf, StepTypes(steps, stepOf), NEW step, NEW id
  PROVE  StepTypes(Append(steps, step), [stepOf EXCEPT ![id] = Len(steps) + 1])
<1>1. PICK T : steps \in Seq(T)
  BY DEF StepTypes
<1> DEFINE U == T \cup {step}
<1>2. Append(steps, step) \in Seq(U) /\ Len(Append(steps, step)) = Len(steps) + 1 /\ Len(steps) \in Nat
  BY <1>1
<1> HIDE DEF U
<1> DEFINE next == [stepOf EXCEPT ![id] = Len(steps) + 1]
<1>3. next \in [CallId -> Nat]
  <2>1. stepOf \in [CallId -> Nat] /\ Len(steps) + 1 \in Nat
    BY <1>2 DEF StepTypes
  <2> QED BY <2>1
<1>4. ASSUME NEW other \in CallId PROVE next[other] <= Len(steps) + 1
  <2>1. stepOf[other] \in Nat /\ stepOf[other] <= Len(steps) /\ stepOf \in [CallId -> Nat]
    BY DEF StepTypes
  <2>2. next[other] = Len(steps) + 1 \/ next[other] = stepOf[other]
    BY <2>1
  <2> HIDE DEF next
  <2> QED BY <1>2, <2>1, <2>2
<1> HIDE DEF next
<1>5. \A other \in CallId : next[other] <= Len(Append(steps, step))
  BY <1>2, <1>4
<1>6. StepTypes(Append(steps, step), next)
  BY <1>2, <1>3, <1>5 DEF StepTypes
<1> QED BY <1>6 DEF next

\* A step gets its result.
LEMMA StepEnded ==
  ASSUME NEW steps, NEW stepOf, StepTypes(steps, stepOf), NEW i, NEW n
  PROVE  StepTypes([steps EXCEPT ![i].result = n], stepOf)
<1>1. PICK T : steps \in Seq(T)
  BY DEF StepTypes
<1> DEFINE step == [steps[i] EXCEPT !.result = n]
           U == T \cup {step}
           next == [steps EXCEPT ![i].result = n]
<1>2. Len(steps) \in Nat /\ steps \in [1..Len(steps) -> T]
  BY <1>1
<1>3. next = [steps EXCEPT ![i] = step]
  OBVIOUS
<1> HIDE DEF next, step
<1>4. next \in [1..Len(steps) -> U]
  BY <1>2, <1>3
<1> HIDE DEF U
<1>5. next \in Seq(U) /\ Len(next) = Len(steps)
  BY <1>2, <1>4
<1>6. StepTypes(next, stepOf)
  BY <1>5 DEF StepTypes
<1> QED BY <1>6 DEF next

\* A step that is known by no identifier keeps its place, and is known by one.
LEMMA StepNamed ==
  ASSUME NEW steps, NEW stepOf, StepTypes(steps, stepOf), NEW id, stepOf[id] # 0
  PROVE  StepTypes(steps, [stepOf EXCEPT ![id] = stepOf[id]])
<1>1. stepOf \in [CallId -> Nat]
  BY DEF StepTypes
<1>2. [stepOf EXCEPT ![id] = stepOf[id]] = stepOf
  BY <1>1
<1> QED BY <1>2

\* Every step keeps the types of the reader and the handler.
LEMMA ReaderTypesKept ==
  ASSUME SessionTypes, ReaderTypes, Next
  PROVE  ReaderTypes'
<1>0. StepTypes(reader.steps, reader.stepOf)
  BY DEF ReaderTypes
<1> USE DEF ReaderTypes
<1> DEFINE Fields == {"at", "event", "answer", "steps", "stepOf", "argsOf"}
           Same == reader'.steps = reader.steps /\ reader'.stepOf = reader.stepOf
<1>1. CASE EndContext \/ SessionStep
  <2>1. UNCHANGED <<recorded, reader, handed, told>>
    BY <1>1 DEF EndContext, SessionStep, Prompt, ProviderAnswers, Receive, Emit, RunCompletes,
         RunFails, EmitTerminal
  <2> QED BY <2>1
<1>2. ASSUME NEW kinds, Take(kinds) PROVE UNCHANGED <<recorded, handed>>
  BY <1>2 DEF Take
<1>3. ASSUME NEW event, NEW r, ThenSend(event, r) = reader', event.kind \in ToldKinds,
             DOMAIN r = Fields, StepTypes(r.steps, r.stepOf), UNCHANGED <<recorded, handed, told>>
      PROVE  ReaderTypes'
  <2>1. /\ DOMAIN reader' = Fields /\ reader'.at = "send" /\ reader'.event = event
        /\ reader'.steps = r.steps /\ reader'.stepOf = r.stepOf
    BY <1>3 DEF ThenSend
  <2> QED BY <1>3, <2>1
<1>4. ASSUME DOMAIN reader' = Fields, reader'.at \in {"loop", "record", "closed"}, Same,
             OfKinds(told', ToldKinds), recorded' \in BOOLEAN, UNCHANGED handed
      PROVE  ReaderTypes'
  BY <1>4
<1>5. ASSUME NEW event, event.kind \in ToldKinds, Replies(event), recorded' \in BOOLEAN, UNCHANGED handed
      PROVE  ReaderTypes'
  <2>1. OfKinds(told', ToldKinds)
    BY <1>5, EventAdded DEF Replies
  <2>2. DOMAIN reader' = Fields /\ reader'.at = "closed" /\ Same
    BY <1>5 DEF Replies, Go
  <2> QED BY <1>4, <1>5, <2>1, <2>2
<1>6. CASE TakeDelta
  <2>1. Take({"delta"}) /\ UNCHANGED <<recorded, handed, told>>
    BY <1>2, <1>6 DEF TakeDelta
  <2>2. CASE reader' = reader
    BY <2>1, <2>2
  <2>3. CASE reader' = ThenSend(Head(out), [reader EXCEPT !.answer = @ \o Head(out).text])
    <3> DEFINE r == [reader EXCEPT !.answer = @ \o Head(out).text]
    <3>1. DOMAIN r = Fields /\ r.steps = reader.steps /\ r.stepOf = reader.stepOf
      OBVIOUS
    <3>2. Head(out).kind \in ToldKinds
      BY <2>1 DEF Take, ToldKinds
    <3> HIDE DEF r
    <3>3. reader' = ThenSend(Head(out), r)
      BY <2>3 DEF r
    <3> QED BY <1>3, <2>1, <3>1, <3>2, <3>3
  <2> QED BY <1>6, <2>2, <2>3 DEF TakeDelta
<1>7. CASE TakeMessage
  <2>1. UNCHANGED <<recorded, handed, told>>
    BY <1>2, <1>7 DEF TakeMessage
  <2>2. DOMAIN reader' = Fields /\ reader'.at = "loop" /\ Same
    BY <1>7 DEF TakeMessage, Take
  <2> QED BY <1>4, <2>1, <2>2
<1>8. CASE TakeStart
  <2>1. UNCHANGED <<recorded, handed, told>>
    BY <1>2, <1>8 DEF TakeStart
  <2>2. CASE mode = "stream"
    <3>1. PICK n : reader' = ThenSend(ToolCall(Head(out).id, n), reader)
      BY <1>8, <2>2 DEF TakeStart
    <3> QED BY <1>3, <2>1, <3>1, ToldHaveKinds
  <2>3. CASE mode # "stream"
    <3>1. PICK id, step : reader' = [reader EXCEPT !.stepOf[id] = Len(reader.steps) + 1,
                                                   !.steps = Append(@, step)]
      BY <1>8, <2>3 DEF TakeStart
    <3>2. /\ DOMAIN reader' = Fields /\ reader'.at = reader.at
          /\ reader'.event = reader.event
          /\ reader'.steps = Append(reader.steps, step)
          /\ reader'.stepOf = [reader.stepOf EXCEPT ![id] = Len(reader.steps) + 1]
      BY <3>1
    <3> DEFINE stepOf == [reader.stepOf EXCEPT ![id] = Len(reader.steps) + 1]
    <3>3. StepTypes(Append(reader.steps, step), stepOf)
      BY <1>0, StepAdded
    <3>4. reader'.stepOf = stepOf
      BY <3>2
    <3> HIDE DEF stepOf
    <3>5. StepTypes(reader'.steps, reader'.stepOf)
      BY <3>2, <3>3, <3>4
    <3> QED BY <2>1, <3>2, <3>5
  <2> QED BY <2>2, <2>3
<1>9. CASE TakeEnd
  <2>1. UNCHANGED <<recorded, handed, told>>
    BY <1>2, <1>9 DEF TakeEnd
  <2>2. CASE mode = "stream"
    <3>1. reader' = ThenSend(ToolResult(Head(out)), reader)
      BY <1>9, <2>2 DEF TakeEnd
    <3>2. PICK T : out \in Seq(T) /\ \A e \in T : e.kind \in Kinds
      BY DEF SessionTypes, OfKinds
    <3>3. ToolResult(Head(out)).kind \in ToldKinds
      BY ToldHaveKinds
    <3> QED BY <1>3, <2>1, <3>1, <3>3
  <2>3. CASE mode # "stream"
    <3> DEFINE id == Head(out).id
               n == Head(out).n
               known == reader.stepOf[id] # 0
               first == NewStep(id, 0)
               steps == IF known THEN reader.steps ELSE Append(reader.steps, first)
               i == IF known THEN reader.stepOf[id] ELSE Len(steps)
               stepOf == [reader.stepOf EXCEPT ![id] = i]
    <3>1. reader' = [reader EXCEPT !.stepOf[id] = i, !.steps = [steps EXCEPT ![i].result = n]]
      BY <1>9, <2>3 DEF TakeEnd
    <3>2. StepTypes(steps, stepOf)
      <4>1. CASE known
        BY <4>1, StepNamed
      <4>2. CASE ~known
        <5>1. PICK T : reader.steps \in Seq(T)
          BY DEF StepTypes
        <5> DEFINE U == T \cup {first}
        <5>2. reader.steps \in Seq(U) /\ first \in U
          BY <5>1
        <5> HIDE DEF first, U
        <5>3. Len(Append(reader.steps, first)) = Len(reader.steps) + 1
          BY <5>2
        <5>4. i = Len(reader.steps) + 1 /\ steps = Append(reader.steps, first)
          BY <4>2, <5>3
        <5>5. StepTypes(Append(reader.steps, first), [reader.stepOf EXCEPT ![id] = Len(reader.steps) + 1])
          BY <1>0, StepAdded
        <5>6. stepOf = [reader.stepOf EXCEPT ![id] = Len(reader.steps) + 1]
          BY <5>4
        <5> HIDE DEF stepOf, steps
        <5> QED BY <5>4, <5>5, <5>6
      <4> QED BY <4>1, <4>2
    <3> HIDE DEF known, steps, stepOf, i, n, id
    <3>3. /\ DOMAIN reader' = Fields /\ reader'.at = reader.at
          /\ reader'.event = reader.event
          /\ reader'.steps = [steps EXCEPT ![i].result = n]
          /\ reader'.stepOf = stepOf
      BY <3>1 DEF stepOf
    <3>5. StepTypes([steps EXCEPT ![i].result = n], stepOf)
      BY <3>2, StepEnded
    <3> HIDE DEF stepOf
    <3>4. StepTypes(reader'.steps, reader'.stepOf)
      BY <3>3, <3>5
    <3> QED BY <2>1, <3>3, <3>4
  <2> QED BY <2>2, <2>3
<1>10. CASE TakeCompleted
  <2>1. UNCHANGED <<recorded, handed, told>> /\ reader.at = "loop"
    BY <1>2, <1>10 DEF TakeCompleted, Take
  <2>2. DOMAIN reader' = Fields /\ reader'.at \in {"loop", "record"} /\ Same
    BY <1>10, <2>1 DEF TakeCompleted, Go
  <2> QED BY <1>4, <2>1, <2>2
<1>11. CASE TakeFailed
  <2>1. UNCHANGED <<recorded, handed>>
    BY <1>2, <1>11 DEF TakeFailed
  <2>2. CASE Replies(Error)
    BY <1>5, <2>1, <2>2, ToldHaveKinds
  <2>3. CASE reader' = ThenSend(Error, reader) /\ UNCHANGED told
    BY <1>3, <2>1, <2>3, ToldHaveKinds
  <2> QED BY <1>11, <2>2, <2>3 DEF TakeFailed
<1>12. CASE TakeRefused
  <2>1. UNCHANGED <<recorded, handed>>
    BY <1>2, <1>12 DEF TakeRefused
  <2>2. CASE Replies(Error)
    BY <1>5, <2>1, <2>2, ToldHaveKinds
  <2>3. CASE UNCHANGED <<reader, told>>
    BY <2>1, <2>3
  <2> QED BY <1>12, <2>2, <2>3 DEF TakeRefused
<1>13. CASE ChannelEnds
  <2>1. UNCHANGED <<recorded, handed, told>>
    BY <1>13 DEF ChannelEnds
  <2>2. DOMAIN reader' = Fields /\ reader'.at \in {"closed", "record"} /\ Same
    BY <1>13 DEF ChannelEnds, Go
  <2> QED BY <1>4, <2>1, <2>2
<1>14. CASE Record
  <2>1. UNCHANGED handed /\ recorded' \in BOOLEAN
    BY <1>14 DEF Record
  <2>2. PICK event : /\ event.kind \in ToldKinds
                     /\ Replies(event) \/ (reader' = ThenSend(event, reader) /\ UNCHANGED told)
    BY <1>14, ToldHaveKinds DEF Record
  <2>3. CASE Replies(event)
    BY <1>5, <2>1, <2>2, <2>3
  <2>4. CASE reader' = ThenSend(event, reader) /\ UNCHANGED told
    <3>1. /\ DOMAIN reader' = Fields /\ reader'.at = "send" /\ reader'.event = event /\ Same
      BY <2>4 DEF ThenSend
    <3> QED BY <2>1, <2>2, <2>4, <3>1
  <2> QED BY <2>2, <2>3, <2>4
<1>15. CASE Send
  <2>1. UNCHANGED <<recorded, told>>
    BY <1>15 DEF Send
  <2>2. DOMAIN reader' = Fields /\ reader'.at \in {"closed", "loop"} /\ Same
    BY <1>15 DEF Send, Go
  <2>3. handed' = Blank \/ handed'.kind \in ToldKinds
    BY <1>15 DEF Send
  <2> QED BY <2>1, <2>2, <2>3
<1>16. CASE Write
  <2>1. UNCHANGED <<recorded, reader>>
    BY <1>16 DEF Write
  <2>2. handed' = Blank /\ told' = Append(told, handed) /\ handed.kind \in ToldKinds
    BY <1>16 DEF Write
  <2>3. OfKinds(told', ToldKinds)
    BY <2>2, EventAdded
  <2> QED BY <2>1, <2>2, <2>3
<1> QED
  BY <1>1, <1>6, <1>7, <1>8, <1>9, <1>10, <1>11, <1>12, <1>13, <1>14, <1>15, <1>16
  DEF Next, ReaderStep

\* Steps of the Runtime and the Session, and the end of the context, answer
\* nobody; a Session that closes its channel leaves the outcome in it.
LEMMA SessionKeepsAnswering ==
  ASSUME SessionTypes, Answering, EndContext \/ SessionStep
  PROVE  Answering'
<1>1. UNCHANGED <<mode, recorded, reader, handed, told>>
  BY DEF EndContext, SessionStep, Prompt, ProviderAnswers, Receive, Emit, RunCompletes,
     RunFails, EmitTerminal
<1>2. ctx = "done" => ctx' = "done"
  BY DEF EndContext, SessionStep, Prompt, ProviderAnswers, Receive, Emit, RunCompletes,
     RunFails, EmitTerminal
<1>3. session'.at = "closed" =>
        \/ UNCHANGED <<session, out>>
        \/ ctx' = "done"
        \/ EndsIn(out', {"completed", "failed"})
  <2>0. DOMAIN session = {"at", "event"}
    BY DEF SessionTypes
  <2>1. CASE EndContext \/ ProviderAnswers
    BY <2>1 DEF EndContext, ProviderAnswers
  <2>2. CASE Prompt
    <3>1. ctx \in {"live", "done"} /\ UNCHANGED ctx
      BY <2>2 DEF Prompt, SessionTypes
    <3>2. ctx = "live" => session'.at = "receive"
      BY <2>0, <2>2 DEF Prompt
    <3> QED BY <3>1, <3>2
  <2>3. CASE Receive
    <3>1. session'.at \in {"receive", "emit"}
      BY <2>3 DEF Receive
    <3> QED BY <3>1
  <2>4. CASE Emit
    <3>1. session'.at = "receive"
      BY <2>0, <2>4 DEF Emit
    <3> QED BY <3>1
  <2>5. CASE RunCompletes \/ RunFails
    <3>1. session'.at = "terminal"
      BY <2>5 DEF RunCompletes, RunFails
    <3> QED BY <3>1
  <2>6. CASE EmitTerminal
    <3>1. out' = Append(out, session.event) /\ session.event.kind \in {"completed", "failed"}
      BY <2>6 DEF EmitTerminal, SessionTypes
    <3>2. OfKinds(out, Kinds) /\ session.event.kind \in Kinds
      BY <3>1 DEF SessionTypes, Kinds
    <3> QED BY <3>1, <3>2, EventAdded
  <2> QED BY <2>1, <2>2, <2>3, <2>4, <2>5, <2>6 DEF SessionStep
<1>4. OutcomeIsThere'
  BY <1>1, <1>2, <1>3 DEF Answering, OutcomeIsThere, Asking
<1>5. OnlyStreamsSend' /\ RecordedForDone' /\ TerminalIsLast'
  BY <1>1 DEF Answering, OnlyStreamsSend, RecordedForDone, TerminalIsLast, EndsIn
<1>6. StopsForAReason'
  BY <1>1, <1>2 DEF Answering, StopsForAReason, EndsIn
<1> QED BY <1>4, <1>5, <1>6 DEF Answering

\* Nothing was recorded, and no terminal event passed on, before the reader
\* has stopped or sends the word "done".
LEMMA StillOpen ==
  ASSUME Answering, reader.at \in {"loop", "record"}
  PROVE  /\ ~recorded
         /\ ~IsTerminal(handed)
         /\ ~EndsIn(told, {"done", "error"})
         /\ mode # "stream" => handed = Blank
BY DEF Answering, RecordedForDone, TerminalIsLast, OnlyStreamsSend

\* A reader that tells the client how its turn ended has the one reply of Run
\* or of the command line, and stops.
LEMMA RepliesAnswer ==
  ASSUME ReaderTypes, Answering, reader.at \in {"loop", "record"}, mode # "stream",
         NEW event, event.kind \in {"done", "error"}, Replies(event),
         UNCHANGED <<mode, handed>>, recorded' => event.kind = "done"
  PROVE  Answering'
<1>1. handed = Blank
  BY StillOpen
<1>2. event.kind \in ToldKinds /\ OfKinds(told, ToldKinds)
  BY DEF ReaderTypes, ToldKinds
<1>3. \A ends : EndsIn(told', ends) <=> event.kind \in ends
  BY <1>2, EventAdded DEF Replies
<1>4. DOMAIN reader = {"at", "event", "answer", "steps", "stepOf", "argsOf"}
  BY DEF ReaderTypes
<1>5. reader'.at = "closed"
  BY <1>4 DEF Replies, Go
<1>6. OnlyStreamsSend' /\ OutcomeIsThere'
  BY <1>1, <1>5 DEF OnlyStreamsSend, OutcomeIsThere
<1>7. Blank.kind = "none"
  BY DEF Blank
<1>8. RecordedForDone'
  <2>1. recorded' => ~EndsIn(told', {"error"})
    BY <1>3
  <2>2. handed'.kind # "error"
    BY <1>1, <1>7
  <2> QED BY <1>5, <2>1, <2>2 DEF RecordedForDone, EndsIn
<1>9. TerminalIsLast'
  BY <1>1, <1>5 DEF TerminalIsLast
<1>10. StopsForAReason'
  BY <1>3 DEF StopsForAReason, EndsIn
<1> QED BY <1>6, <1>8, <1>9, <1>10 DEF Answering

\* A stream that turns to its handler with an event.
LEMMA SendAnswers ==
  ASSUME Answering, reader.at \in {"loop", "record"}, mode = "stream",
         reader'.at = "send", UNCHANGED <<mode, handed, told>>,
         recorded' => reader'.event.kind = "done",
         OutcomeIsThere'
  PROVE  Answering'
<1>1. ~recorded /\ ~IsTerminal(handed) /\ ~EndsIn(told, {"done", "error"})
  BY StillOpen
<1>2. OnlyStreamsSend' /\ StopsForAReason'
  BY DEF OnlyStreamsSend, StopsForAReason
<1>3. RecordedForDone'
  BY DEF RecordedForDone
<1>4. TerminalIsLast'
  BY <1>1 DEF TerminalIsLast, EndsIn, IsTerminal
<1> QED BY <1>2, <1>3, <1>4 DEF Answering

\* A reader that goes on, or has read all and turns to the metadata store.
LEMMA ReadingOnAnswers ==
  ASSUME Answering, reader.at = "loop", reader'.at \in {"loop", "record"},
         UNCHANGED <<mode, recorded, handed, told>>, OutcomeIsThere'
  PROVE  Answering'
<1>1. ~recorded /\ ~IsTerminal(handed) /\ ~EndsIn(told, {"done", "error"})
  BY StillOpen
<1>2. OnlyStreamsSend' /\ StopsForAReason'
  BY DEF Answering, OnlyStreamsSend, StopsForAReason
<1>3. RecordedForDone'
  BY <1>1 DEF RecordedForDone
<1>4. TerminalIsLast'
  BY <1>1 DEF TerminalIsLast, EndsIn, IsTerminal
<1> QED BY <1>2, <1>3, <1>4 DEF Answering

\* The outcome of the run stays in the channel when another event is taken.
LEMMA OutcomeStays ==
  ASSUME SessionTypes, Answering, NEW kinds, Take(kinds),
         kinds \cap {"completed", "failed"} = {}
  PROVE  OutcomeIsThere'
<1>1. /\ reader.at = "loop" /\ out # <<>> /\ Head(out).kind \in kinds /\ out' = Tail(out)
      /\ UNCHANGED <<mode, ctx, session>>
  BY DEF Take
<1>2. EndsIn(out, {"completed", "failed"}) => EndsIn(out', {"completed", "failed"})
  <2>1. OfKinds(out, Kinds)
    BY DEF SessionTypes
  <2>2. EndsIn(out, {"completed", "failed"}) =>
          Head(out).kind \in {"completed", "failed"} \/ EndsIn(Tail(out), {"completed", "failed"})
    BY <1>1, <2>1, EventTaken
  <2> QED BY <1>1, <2>2
<1> QED BY <1>1, <1>2 DEF Answering, OutcomeIsThere, Asking

\* Every step of the reader keeps what it answers.
LEMMA ReaderKeepsAnswering ==
  ASSUME SessionTypes, ReaderTypes, Answering, ReaderStep
  PROVE  Answering'
<1>0. DOMAIN reader = {"at", "event", "answer", "steps", "stepOf", "argsOf"}
  BY DEF ReaderTypes
<1>1. ASSUME NEW kinds, Take(kinds)
      PROVE  reader.at = "loop" /\ UNCHANGED <<mode, ctx, session, recorded, handed>>
  BY <1>1 DEF Take
<1>2. ASSUME NEW kinds, Take(kinds), kinds \cap {"completed", "failed"} = {}, UNCHANGED told,
             \/ reader'.at = "loop"
             \/ mode = "stream" /\ reader'.at = "send"
      PROVE  Answering'
  BY <1>1, <1>2, OutcomeStays, ReadingOnAnswers, SendAnswers, StillOpen
<1>3. CASE TakeDelta
  <2>1. Take({"delta"}) /\ UNCHANGED told /\ reader.at = "loop"
    BY <1>1, <1>3 DEF TakeDelta
  <2>2. \/ reader'.at = "loop"
        \/ mode = "stream" /\ reader'.at = "send"
    BY <1>0, <1>3, <2>1 DEF TakeDelta, ThenSend
  <2> QED BY <1>2, <2>1, <2>2
<1>4. CASE TakeMessage
  <2>1. Take({"message"}) /\ UNCHANGED told /\ reader.at = "loop"
    BY <1>1, <1>4 DEF TakeMessage
  <2>2. reader'.at = "loop"
    BY <1>0, <1>4, <2>1 DEF TakeMessage
  <2> QED BY <1>2, <2>1, <2>2
<1>5. CASE TakeStart
  <2>1. Take({"start"}) /\ UNCHANGED told /\ reader.at = "loop"
    BY <1>1, <1>5 DEF TakeStart
  <2>2. \/ reader'.at = "loop"
        \/ mode = "stream" /\ reader'.at = "send"
    BY <1>0, <1>5, <2>1 DEF TakeStart, ThenSend
  <2> QED BY <1>2, <2>1, <2>2
<1>6. CASE TakeEnd
  <2>1. Take({"end"}) /\ UNCHANGED told /\ reader.at = "loop"
    BY <1>1, <1>6 DEF TakeEnd
  <2>2. \/ reader'.at = "loop"
        \/ mode = "stream" /\ reader'.at = "send"
    BY <1>0, <1>6, <2>1 DEF TakeEnd, ThenSend
  <2> QED BY <1>2, <2>1, <2>2
<1>7. CASE TakeCompleted
  <2>1. UNCHANGED <<mode, recorded, handed, told>> /\ reader.at = "loop"
    BY <1>1, <1>7 DEF TakeCompleted
  <2>2. IF mode = "stream" THEN reader'.at = "record" ELSE reader'.at = "loop"
    BY <1>0, <1>7, <2>1 DEF TakeCompleted, Go
  <2>3. OutcomeIsThere'
    BY <2>1, <2>2 DEF OutcomeIsThere, Asking
  <2> QED BY <2>1, <2>2, <2>3, ReadingOnAnswers
<1>8. CASE TakeFailed
  <2>1. UNCHANGED <<mode, recorded, handed>> /\ reader.at = "loop" /\ ~recorded
    BY <1>1, <1>8, StillOpen DEF TakeFailed
  <2>2. CASE mode = "stream"
    <3>1. reader' = ThenSend(Error, reader) /\ UNCHANGED told
      BY <1>8, <2>2 DEF TakeFailed
    <3>2. reader'.at = "send" /\ reader'.event = Error
      BY <1>0, <3>1 DEF ThenSend
    <3>3. OutcomeIsThere'
      BY <3>2, ToldHaveKinds DEF OutcomeIsThere, Asking, IsTerminal
    <3> QED BY <2>1, <2>2, <3>1, <3>2, <3>3, SendAnswers
  <2>3. CASE mode # "stream"
    <3>1. Replies(Error)
      BY <1>8, <2>3 DEF TakeFailed
    <3> QED BY <2>1, <2>3, <3>1, RepliesAnswer, ToldHaveKinds
  <2> QED BY <2>2, <2>3
<1>9. CASE TakeRefused
  <2>1. UNCHANGED <<mode, recorded, handed>> /\ reader.at = "loop" /\ ~recorded /\ Take({"refused"})
    BY <1>1, <1>9, StillOpen DEF TakeRefused
  <2>2. CASE mode = "command"
    <3>1. Replies(Error)
      BY <1>9, <2>2 DEF TakeRefused
    <3> QED BY <2>1, <2>2, <3>1, RepliesAnswer, ToldHaveKinds
  <2>3. CASE mode # "command"
    <3>1. UNCHANGED <<reader, told>>
      BY <1>9, <2>3 DEF TakeRefused
    <3> QED BY <1>2, <2>1, <3>1
  <2> QED BY <2>2, <2>3
<1>10. CASE ChannelEnds
  <2>1. /\ UNCHANGED <<mode, ctx, session, recorded, out, handed, told>> /\ reader.at = "loop"
        /\ out = <<>> /\ session.at = "closed"
    BY <1>10 DEF ChannelEnds
  <2>2. CASE mode = "stream"
    <3>1. ~EndsIn(out, {"completed", "failed"})
      BY <2>1 DEF EndsIn
    <3>2. ctx' = "done"
      BY <2>1, <2>2, <3>1 DEF Answering, OutcomeIsThere, Asking
    <3>3. reader'.at = "closed" /\ mode' = "stream"
      BY <1>0, <1>10, <2>1, <2>2 DEF ChannelEnds, Go
    <3>4. ~recorded /\ ~IsTerminal(handed) /\ ~EndsIn(told, {"done", "error"})
      BY <2>1, StillOpen
    <3>5. OnlyStreamsSend' /\ OutcomeIsThere' /\ StopsForAReason'
      BY <3>2, <3>3 DEF OnlyStreamsSend, OutcomeIsThere, StopsForAReason
    <3>6. RecordedForDone' /\ TerminalIsLast'
      BY <2>1, <3>3, <3>4 DEF RecordedForDone, TerminalIsLast, EndsIn
    <3> QED BY <3>5, <3>6 DEF Answering
  <2>3. CASE mode # "stream"
    <3>1. reader'.at = "record"
      BY <1>0, <1>10, <2>3 DEF ChannelEnds, Go
    <3>2. OutcomeIsThere'
      BY <2>1, <2>3 DEF OutcomeIsThere
    <3> QED BY <2>1, <3>1, <3>2, ReadingOnAnswers
  <2> QED BY <2>2, <2>3
<1>11. CASE Record
  <2>1. UNCHANGED <<mode, handed>> /\ reader.at = "record" /\ ~recorded
    BY <1>11, StillOpen DEF Record
  <2>2. CASE mode = "stream"
    <3>1. /\ UNCHANGED told
          /\ \/ reader' = ThenSend(Done(reader.answer), reader)
             \/ UNCHANGED recorded /\ reader' = ThenSend(Error, reader)
      BY <1>11, <2>2 DEF Record
    <3>4. ASSUME NEW event, reader' = ThenSend(event, reader)
          PROVE  reader'.at = "send" /\ reader'.event = event
      BY <1>0, <3>4 DEF ThenSend
    <3>2. /\ reader'.at = "send"
          /\ \/ reader'.event.kind = "done"
             \/ ~recorded' /\ reader'.event.kind = "error"
      <4>1. CASE reader' = ThenSend(Done(reader.answer), reader)
        BY <3>4, <4>1, ToldHaveKinds
      <4>2. CASE UNCHANGED recorded /\ reader' = ThenSend(Error, reader)
        <5>1. reader'.at = "send" /\ reader'.event = Error
          BY <3>4, <4>2
        <5> QED BY <2>1, <4>2, <5>1, ToldHaveKinds
      <4> QED BY <3>1, <4>1, <4>2
    <3>3. OutcomeIsThere'
      BY <3>2 DEF OutcomeIsThere, Asking, IsTerminal
    <3> QED BY <2>1, <2>2, <3>1, <3>2, <3>3, SendAnswers
  <2>3. CASE mode # "stream"
    <3>1. \/ Replies(DoneWith(reader.answer, reader.steps))
          \/ Replies(Error) /\ UNCHANGED recorded
      BY <1>11, <2>3 DEF Record
    <3> QED BY <2>1, <2>3, <3>1, RepliesAnswer, ToldHaveKinds
  <2> QED BY <2>2, <2>3
<1>12. CASE Send
  <2>1. /\ UNCHANGED <<mode, ctx, session, recorded, out, told>> /\ reader.at = "send"
        /\ mode = "stream"
    BY <1>12 DEF Send, Answering, OnlyStreamsSend
  <2>2. ~EndsIn(told, {"done", "error"})
    BY <2>1 DEF Answering, TerminalIsLast
  <2>3. ~EndsIn(told, {"error"})
    BY <2>2 DEF EndsIn
  <2>4. recorded => reader.event.kind = "done"
    BY <2>1 DEF Answering, RecordedForDone
  <2>5. CASE handed = Blank /\ handed' = reader.event
             /\ reader' = Go(IF reader.event.kind \in {"done", "error"} THEN "closed" ELSE "loop")
    <3>1. CASE IsTerminal(reader.event)
      <4>1. reader'.at = "closed" /\ IsTerminal(handed')
        BY <1>0, <2>5, <3>1 DEF Go, IsTerminal
      <4>2. RecordedForDone'
        BY <2>1, <2>3, <2>4, <2>5, <4>1 DEF RecordedForDone, EndsIn
      <4>3. TerminalIsLast'
        BY <2>1, <2>2, <4>1 DEF TerminalIsLast, EndsIn
      <4>4. OnlyStreamsSend' /\ OutcomeIsThere' /\ StopsForAReason'
        BY <2>1, <4>1 DEF OnlyStreamsSend, OutcomeIsThere, Asking, StopsForAReason
      <4> QED BY <4>2, <4>3, <4>4 DEF Answering
    <3>2. CASE ~IsTerminal(reader.event)
      <4>1. reader'.at = "loop" /\ ~IsTerminal(handed') /\ ~recorded
        BY <1>0, <2>4, <2>5, <3>2 DEF Go, IsTerminal
      <4>2. RecordedForDone' /\ TerminalIsLast'
        BY <2>1, <2>2, <4>1 DEF RecordedForDone, TerminalIsLast, EndsIn
      <4>3. OnlyStreamsSend' /\ StopsForAReason'
        BY <2>1, <4>1 DEF OnlyStreamsSend, StopsForAReason
      <4>4. OutcomeIsThere'
        BY <2>1, <3>2, <4>1 DEF Answering, OutcomeIsThere, Asking
      <4> QED BY <4>2, <4>3, <4>4 DEF Answering
    <3> QED BY <3>1, <3>2
  <2>6. CASE ctx = "done" /\ UNCHANGED handed /\ reader' = Go("closed")
    <3>1. reader'.at = "closed" /\ ~IsTerminal(handed)
      BY <1>0, <2>1, <2>6 DEF Go, Answering, TerminalIsLast
    <3>2. RecordedForDone'
      BY <2>1, <2>3, <2>6, <3>1 DEF RecordedForDone, EndsIn, IsTerminal
    <3>3. TerminalIsLast'
      BY <2>1, <2>2, <3>1 DEF TerminalIsLast, EndsIn
    <3>4. OnlyStreamsSend' /\ OutcomeIsThere' /\ StopsForAReason'
      BY <2>1, <2>6, <3>1 DEF OnlyStreamsSend, OutcomeIsThere, Asking, StopsForAReason
    <3> QED BY <3>2, <3>3, <3>4 DEF Answering
  <2> QED BY <1>12, <2>5, <2>6 DEF Send
<1> QED
  BY <1>3, <1>4, <1>5, <1>6, <1>7, <1>8, <1>9, <1>10, <1>11, <1>12 DEF ReaderStep

\* What the handler writes is what the reader passed on.
LEMMA WriteKeepsAnswering ==
  ASSUME ReaderTypes, Answering, Write
  PROVE  Answering'
<1>1. /\ handed # Blank /\ handed' = Blank /\ told' = Append(told, handed)
      /\ UNCHANGED <<mode, ctx, session, recorded, out, reader>>
  BY DEF Write
<1>2. handed.kind \in ToldKinds /\ OfKinds(told, ToldKinds)
  BY <1>1 DEF ReaderTypes
<1>3. \A ends : EndsIn(told', ends) <=> handed.kind \in ends
  BY <1>1, <1>2, EventAdded
<1>4. Blank.kind = "none"
  BY DEF Blank
<1>5. OnlyStreamsSend' /\ OutcomeIsThere'
  BY <1>1 DEF Answering, OnlyStreamsSend, OutcomeIsThere, Asking
<1>6. RecordedForDone'
  <2>1. \/ ~recorded
        \/ reader.at = "send" /\ reader.event.kind = "done"
        \/ reader.at = "closed" /\ handed.kind # "error"
    BY DEF Answering, RecordedForDone
  <2>2. EndsIn(told', {"error"}) <=> handed.kind = "error"
    BY <1>3
  <2>3. handed'.kind # "error"
    BY <1>1, <1>4
  <2> QED BY <1>1, <2>1, <2>2, <2>3 DEF RecordedForDone, EndsIn
<1>7. TerminalIsLast'
  <2>1. EndsIn(told', {"done", "error"}) <=> IsTerminal(handed)
    BY <1>3 DEF IsTerminal
  <2>2. ~IsTerminal(handed')
    BY <1>1, <1>4 DEF IsTerminal
  <2> QED BY <1>1, <2>1, <2>2 DEF Answering, TerminalIsLast, EndsIn
<1>8. StopsForAReason'
  <2>1. reader.at = "closed" => IsTerminal(handed) \/ (mode = "stream" /\ ctx = "done")
    BY <1>1 DEF Answering, StopsForAReason, TerminalIsLast
  <2>2. IsTerminal(handed) => EndsIn(told', {"done", "error"})
    BY <1>3 DEF IsTerminal
  <2> QED BY <1>1, <2>1, <2>2 DEF StopsForAReason, EndsIn
<1> QED BY <1>5, <1>6, <1>7, <1>8 DEF Answering

-----------------------------------------------------------------------------
(* The theorem *)

\* No client has asked anything in the initial state.
LEMMA ReportInit == Init => ReportInv
<1> SUFFICES ASSUME Init PROVE ReportInv
  OBVIOUS
<1>1. OfKinds(<<>>, Kinds) /\ OfKinds(<<>>, ToldKinds) /\ Len(<<>>) = 0
  BY NoEvents
<1>2. SessionTypes
  <2>1. mode \in Modes /\ ctx = "live" /\ todo = <<>> /\ seen = <<>> /\ out = <<>>
    BY DEF Init
  <2>2. DOMAIN session = {"at", "event"} /\ session.at = "prompt"
    BY DEF Init
  <2>3. kept \in BOOLEAN
    BY DEF Init
  <2>4. Len(out) <= OutCap
    BY <1>1, <2>1, Sizes
  <2>5. OfKinds(todo, Kinds) /\ OfKinds(seen, Kinds) /\ OfKinds(out, Kinds)
    BY <1>1, <2>1
  <2> QED BY <2>1, <2>2, <2>3, <2>4, <2>5 DEF SessionTypes
<1>3. StepTypes(<<>>, [id \in CallId |-> 0])
  <2> DEFINE T == {}
             f == [id \in CallId |-> 0]
  <2>1. <<>> \in Seq(T)
    OBVIOUS
  <2>2. f \in [CallId -> Nat] /\ \A id \in CallId : f[id] <= Len(<<>>)
    BY <1>1
  <2> HIDE DEF T, f
  <2>3. StepTypes(<<>>, f)
    BY <2>1, <2>2 DEF StepTypes
  <2> QED BY <2>3 DEF f
<1>4. ReaderTypes
  <2>1. /\ DOMAIN reader = {"at", "event", "answer", "steps", "stepOf", "argsOf"}
        /\ reader.at = "loop" /\ reader.steps = <<>> /\ reader.stepOf = [id \in CallId |-> 0]
    BY DEF Init
  <2>2. StepTypes(reader.steps, reader.stepOf)
    BY <1>3, <2>1
  <2>3. recorded = FALSE /\ handed = Blank /\ told = <<>>
    BY DEF Init
  <2> QED BY <1>1, <2>1, <2>2, <2>3 DEF ReaderTypes
<1>5. Answering
  <2>1. /\ reader.at = "loop" /\ session.at = "prompt" /\ recorded = FALSE
        /\ handed = Blank /\ told = <<>>
    BY DEF Init
  <2>2. ~IsTerminal(Blank)
    BY DEF Blank, IsTerminal
  <2> QED BY <2>1, <2>2 DEF Answering, OnlyStreamsSend, OutcomeIsThere, RecordedForDone,
          TerminalIsLast, StopsForAReason, EndsIn
<1> QED BY <1>2, <1>4, <1>5 DEF ReportInv

\* Every step keeps the invariant.
LEMMA ReportStep == ReportInv /\ [Next]_vars => ReportInv'
<1> SUFFICES ASSUME ReportInv, [Next]_vars PROVE ReportInv'
  OBVIOUS
<1>0. SessionTypes /\ ReaderTypes /\ Answering
  BY DEF ReportInv
<1>1. CASE Next
  <2>1. SessionTypes' /\ ReaderTypes'
    BY <1>0, <1>1, SessionTypesKept, ReaderTypesKept
  <2>2. Answering'
    BY <1>0, <1>1, SessionKeepsAnswering, ReaderKeepsAnswering, WriteKeepsAnswering DEF Next
  <2> QED BY <2>1, <2>2 DEF ReportInv
<1>2. CASE UNCHANGED vars
  <2>1. UNCHANGED <<mode, ctx, todo, seen, session, kept, recorded, out, reader, handed, told>>
    BY <1>2 DEF vars, runtime
  <2>2. SessionTypes'
    BY <1>0, <2>1 DEF SessionTypes
  <2>3. ReaderTypes'
    BY <1>0, <2>1 DEF ReaderTypes
  <2>4. Answering'
    BY <1>0, <2>1 DEF Answering, OnlyStreamsSend, OutcomeIsThere, Asking, RecordedForDone,
       TerminalIsLast, StopsForAReason, EndsIn
  <2> QED BY <2>2, <2>3, <2>4 DEF ReportInv
<1> QED BY <1>1, <1>2

\* The invariant says that a client that is still there is answered.
LEMMA ReportAnswers == ReportInv => AnsweredUnlessGone
<1> SUFFICES ASSUME ReportInv PROVE AnsweredUnlessGone
  OBVIOUS
<1>1. SessionTypes /\ ReaderTypes /\ Answering
  BY DEF ReportInv
<1>2. Blank.kind = "none" /\ ~IsTerminal(Blank)
  BY DEF Blank, IsTerminal
<1>3. TypeOK
  <2>1. \A i \in 1..Len(seen) : seen[i].kind \in Kinds
    BY <1>1, EventsOf DEF SessionTypes
  <2>2. \A i \in 1..Len(out) : out[i].kind \in Kinds
    BY <1>1, EventsOf DEF SessionTypes
  <2>3. \A i \in 1..Len(told) : told[i].kind \in ToldKinds
    BY <1>1, EventsOf DEF ReaderTypes
  <2>4. ASSUME NEW id \in CallId PROVE reader.stepOf[id] \in 0..Len(reader.steps)
    <3>1. StepTypes(reader.steps, reader.stepOf)
      BY <1>1 DEF ReaderTypes
    <3>2. PICK T : reader.steps \in Seq(T)
      BY <3>1 DEF StepTypes
    <3>3. /\ Len(reader.steps) \in Nat /\ reader.stepOf[id] \in Nat
          /\ reader.stepOf[id] <= Len(reader.steps)
      BY <3>1, <3>2 DEF StepTypes
    <3> QED BY <3>3
  <2>5. handed.kind \in ToldKinds \cup {"none"}
    BY <1>1, <1>2 DEF ReaderTypes
  <2>6. {kept, recorded} \subseteq BOOLEAN
    BY <1>1 DEF SessionTypes, ReaderTypes
  <2> QED BY <1>1, <2>1, <2>2, <2>3, <2>4, <2>5, <2>6 DEF TypeOK, SessionTypes, ReaderTypes
<1>4. ASSUME Over
      PROVE  \/ told # <<>> /\ Last(told).kind = "done"
             \/ told # <<>> /\ Last(told).kind = "error" /\ ~(kept /\ recorded)
             \/ mode = "stream" /\ ctx = "done"
  <2>1. reader.at = "closed" /\ ~IsTerminal(handed)
    BY <1>2, <1>4 DEF Over
  <2>2. EndsIn(told, {"done", "error"}) \/ (mode = "stream" /\ ctx = "done")
    BY <1>1, <2>1 DEF Answering, StopsForAReason
  <2>3. EndsIn(told, {"error"}) => ~recorded
    BY <1>1, <2>1 DEF Answering, RecordedForDone
  <2> QED BY <2>2, <2>3 DEF EndsIn
<1> QED BY <1>3, <1>4 DEF AnsweredUnlessGone

\* A client that is still there is told how its turn ended, and an error means
\* that the turn was not both committed and recorded: for every capacity of the
\* Session's channel, every sequence of messages and calls, all three ways to
\* ask, and an end of the context at any moment (forwardStreamEvents L594-609,
\* collectRunResult L623-663).
THEOREM ClientIsAnswered == Spec => []AnsweredUnlessGone
<1>1. Init => ReportInv
  BY ReportInit
<1>2. ReportInv /\ [Next]_vars => ReportInv'
  BY ReportStep
<1>3. ReportInv => AnsweredUnlessGone
  BY ReportAnswers
<1> QED BY <1>1, <1>2, <1>3, PTL DEF Spec

-----------------------------------------------------------------------------
(* The turn as it is told *)

\* s is a sequence of whatever values.
IsSeq(s) == \E T : s \in Seq(T)

\* Each of the first n of f is empty or has one element.
AtMostOne(f, n) == \A k \in 1..n : f[k] = <<>> \/ \E x : f[k] = <<x>>

\* Such a sequence put together grows by its next member.
LEMMA OneAtATime ==
  ASSUME NEW n \in Nat, NEW s, Len(s) = n, n = 0 => s = <<>>,
         NEW t, Len(t) = n + 1, Agree(n, s, t), AtMostOne(t, n + 1)
  PROVE  IsSeq(FlattenSeq(s)) /\ IsSeq(FlattenSeq(t)) /\ HasOneMore(t, s, n)
<1> DEFINE T == {t[k][1] : k \in 1..(n + 1)}
<1>1. ASSUME NEW k \in 1..(n + 1) PROVE t[k] \in Seq(T)
  <2>1. CASE t[k] = <<>>
    BY <2>1
  <2>2. ASSUME NEW x, t[k] = <<x>> PROVE t[k] \in Seq(T)
    <3>1. t[k][1] = x
      BY <2>2
    <3>2. x \in T
      BY <3>1
    <3> HIDE DEF T
    <3> QED BY <2>2, <3>2
  <2> QED BY <2>1, <2>2 DEF AtMostOne
<1> HIDE DEF T
<1>2. SequencesOf(t, n + 1, T)
  BY <1>1 DEF SequencesOf
<1>3. FlattenSeq(s) \in Seq(T) /\ FlattenSeq(t) \in Seq(T) /\ HasOneMore(t, s, n)
  BY <1>2, FlatOneMore
<1> QED BY <1>3 DEF IsSeq

\* The turn as a stream and as steps grows by what the next event says.
LEMMA OneEventMore ==
  ASSUME NEW n \in Nat
  PROVE  /\ IsSeq(SaidTo(n)) /\ IsSeq(SaidTo(n + 1))
         /\ IsSeq(StepsTo(n)) /\ IsSeq(StepsTo(n + 1))
         /\ SaidTo(n + 1) = SaidTo(n) \o Said(n + 1)
         /\ StepsTo(n + 1) = StepsTo(n) \o Step(n + 1)
<1>0. n + 1 \in 1..(n + 1) /\ n + 1 \in Nat
  OBVIOUS
<1>1. /\ IsSeq(SaidTo(n)) /\ IsSeq(SaidTo(n + 1))
      /\ SaidTo(n + 1) = SaidTo(n) \o Said(n + 1)
  <2> DEFINE s == [k \in 1..n |-> Said(k)]
             t == [k \in 1..(n + 1) |-> Said(k)]
  <2>1. Len(s) = n /\ (n = 0 => s = <<>>) /\ Len(t) = n + 1 /\ Agree(n, s, t)
    BY <1>0 DEF Agree
  <2>2. AtMostOne(t, n + 1)
    <3>1. ASSUME NEW k \in 1..(n + 1) PROVE t[k] = <<>> \/ \E x : t[k] = <<x>>
      <4>1. t[k] = Said(k)
        OBVIOUS
      <4> HIDE DEF t
      <4> QED BY <4>1 DEF Said
    <3> HIDE DEF t
    <3> QED BY <3>1 DEF AtMostOne
  <2>3. t[n + 1] = Said(n + 1)
    BY <1>0
  <2>4. SaidTo(n) = FlattenSeq(s) /\ SaidTo(n + 1) = FlattenSeq(t)
    BY DEF SaidTo
  <2> HIDE DEF s, t
  <2> QED BY <2>1, <2>2, <2>3, <2>4, OneAtATime DEF HasOneMore
<1>2. /\ IsSeq(StepsTo(n)) /\ IsSeq(StepsTo(n + 1))
      /\ StepsTo(n + 1) = StepsTo(n) \o Step(n + 1)
  <2> DEFINE s == [k \in 1..n |-> Step(k)]
             t == [k \in 1..(n + 1) |-> Step(k)]
  <2>1. Len(s) = n /\ (n = 0 => s = <<>>) /\ Len(t) = n + 1 /\ Agree(n, s, t)
    BY <1>0 DEF Agree
  <2>2. AtMostOne(t, n + 1)
    <3>1. ASSUME NEW k \in 1..(n + 1) PROVE t[k] = <<>> \/ \E x : t[k] = <<x>>
      <4>1. t[k] = Step(k)
        OBVIOUS
      <4> HIDE DEF t
      <4> QED BY <4>1 DEF Step
    <3> HIDE DEF t
    <3> QED BY <3>1 DEF AtMostOne
  <2>3. t[n + 1] = Step(n + 1)
    BY <1>0
  <2>4. StepsTo(n) = FlattenSeq(s) /\ StepsTo(n + 1) = FlattenSeq(t)
    BY DEF StepsTo
  <2> HIDE DEF s, t
  <2> QED BY <2>1, <2>2, <2>3, <2>4, OneAtATime DEF HasOneMore
<1> QED BY <1>1, <1>2

\* Nothing is said before the first event.
LEMMA NothingYet == SaidTo(0) = <<>> /\ StepsTo(0) = <<>>
<1> DEFINE s == [k \in 1..0 |-> Said(k)]
           t == [k \in 1..0 |-> Step(k)]
<1>1. Len(s) = 0 /\ s = <<>> /\ Len(t) = 0 /\ t = <<>>
  OBVIOUS
<1>2. SaidTo(0) = FlattenSeq(s) /\ StepsTo(0) = FlattenSeq(t)
  BY DEF SaidTo, StepsTo
<1> HIDE DEF s, t
<1> QED BY <1>1, <1>2 DEF FlattenSeq

\* A prefix of a sequence is one of what that sequence becomes.
LEMMA PrefixGrows ==
  ASSUME NEW T, NEW s \in Seq(T), NEW t \in Seq(T), NEW u \in Seq(T), IsPrefix(s, t)
  PROVE  IsPrefix(s, t \o u)
<1>1. /\ t \o u \in Seq(T) /\ Len(t \o u) = Len(t) + Len(u)
      /\ \A i \in 1..Len(t) + Len(u) : (t \o u)[i] = IF i <= Len(t) THEN t[i] ELSE u[i - Len(t)]
  BY ConcatProperties
<1>2. Len(s) \in Nat /\ Len(t) \in Nat /\ Len(u) \in Nat /\ Len(s) <= Len(t)
  BY DEF IsPrefix
<1> DEFINE w == t \o u
<1>3. w \in Seq(T) /\ Len(w) = Len(t) + Len(u) /\ \A i \in 1..Len(t) : w[i] = t[i]
  BY <1>1, <1>2
<1> HIDE DEF w
<1>4. SubSeq(s, 1, Len(s)) = SubSeq(t, 1, Len(s))
  BY DEF IsPrefix
<1>5. SubSeq(t, 1, Len(s)) = SubSeq(w, 1, Len(s))
  BY <1>2, <1>3
<1>6. IsPrefix(s, w)
  BY <1>2, <1>3, <1>4, <1>5 DEF IsPrefix
<1> QED BY <1>6 DEF w

-----------------------------------------------------------------------------
(* The turn so far *)

\* The events that the Runtime sends.
RuntimeKinds == {"delta", "message", "start", "end"}

\* Two events are of one call.
SameCall(e, f) == e.id = f.id /\ e.n = f.n

\* A call is started and at once ended.
CallsArePairs(w) ==
  \A i \in 1..Len(w) :
    /\ w[i].kind = "start" =>
         i < Len(w) /\ w[i + 1].kind = "end" /\ SameCall(w[i + 1], w[i])
    /\ w[i].kind = "end" =>
         i > 1 /\ w[i - 1].kind = "start" /\ SameCall(w[i - 1], w[i])

\* The m-th event is the message that the i-th belongs to.
BelongsTo(w, m, i) ==
  /\ m \in 1..i
  /\ w[m].kind = "message"
  /\ \A j \in (m + 1)..i : w[j].kind # "message"

\* The calls of a message have the one that the event is about.
Lists(calls, event) == \E k \in CallsWith(event.id, calls) : calls[k].n = event.n

\* The i-th event is about a call of its message.
IsAsked(w, i) ==
  /\ w[i].id \in CallId
  /\ \E m \in 1..i : BelongsTo(w, m, i) /\ Lists(w[m].calls, w[i])

CallsAreAsked(w) ==
  \A i \in 1..Len(w) : w[i].kind \in {"start", "end"} => IsAsked(w, i)

\* A message without calls is the end of the turn.
AnswerIsLast(w) ==
  \A i \in 1..Len(w) : w[i].kind = "message" /\ w[i].calls = <<>> => i = Len(w)

\* There is a message, if there is an event.
HasMessage(w) == w # <<>> => \E i \in 1..Len(w) : w[i].kind = "message"

Ordered(w) ==
  /\ \A i \in 1..Len(w) : w[i].kind \in RuntimeKinds
  /\ CallsArePairs(w)
  /\ CallsAreAsked(w)
  /\ AnswerIsLast(w)
  /\ HasMessage(w)

\* What that says of the events seen: the others may not have come yet.
SeenInOrder ==
  /\ \A i \in 1..Len(seen) :
       /\ seen[i].kind \in RuntimeKinds
       /\ seen[i].kind = "start" /\ i < Len(seen) =>
            seen[i + 1].kind = "end" /\ SameCall(seen[i + 1], seen[i])
       /\ seen[i].kind = "end" =>
            i > 1 /\ seen[i - 1].kind = "start" /\ SameCall(seen[i - 1], seen[i])
       /\ seen[i].kind = "message" /\ seen[i].calls = <<>> => i = Len(seen) /\ todo = <<>>
  /\ CallsAreAsked(seen)
  /\ todo = <<>> => HasMessage(seen)

\* Events a and then events b are w.
Joins(w, a, b) ==
  /\ w = a \o b
  /\ Len(a) \in Nat /\ Len(b) \in Nat
  /\ Len(w) = Len(a) + Len(b)
  /\ \A i \in 1..Len(a) : w[i] = a[i]
  /\ \A i \in 1..Len(b) : w[Len(a) + i] = b[i]
  /\ b = <<>> => w = a
  /\ a = <<>> => w = b
  /\ a # <<>> => Len(a) >= 1
  /\ b # <<>> => Len(b) >= 1
  /\ w = <<>> <=> a = <<>> /\ b = <<>>

\* Two sequences of events can be joined.
LEMMA EventsJoin ==
  ASSUME NEW kinds, NEW a, OfKinds(a, kinds), NEW b, OfKinds(b, kinds)
  PROVE  \E w : Joins(w, a, b)
<1>1. PICK T : a \in Seq(T)
  BY DEF OfKinds
<1>2. PICK U : b \in Seq(U)
  BY DEF OfKinds
<1>3. a \in Seq(T \cup U) /\ b \in Seq(T \cup U)
  BY <1>1, <1>2
<1> DEFINE w == a \o b
<1>4. /\ Len(w) = Len(a) + Len(b)
      /\ \A i \in 1..Len(a) : w[i] = a[i]
      /\ \A i \in 1..Len(b) : w[Len(a) + i] = b[i]
  BY <1>3
<1>5. (b = <<>> => w = a) /\ (a = <<>> => w = b)
  BY <1>3, ConcatEmptySeq
<1>6. /\ Len(a) \in Nat /\ Len(b) \in Nat
      /\ (a # <<>> => Len(a) >= 1) /\ (b # <<>> => Len(b) >= 1)
  BY <1>3
<1>7. w = a \o b
  OBVIOUS
<1> HIDE DEF w
<1>8. w = <<>> <=> a = <<>> /\ b = <<>>
  <2>1. Len(<<>>) = 0
    OBVIOUS
  <2>2. a # <<>> \/ b # <<>> => Len(w) # 0
    BY <1>4, <1>6
  <2> QED BY <1>5, <2>1, <2>2
<1>9. Joins(w, a, b)
  BY <1>4, <1>5, <1>6, <1>7, <1>8 DEF Joins
<1> QED BY <1>9

\* That follows from the order of all events, seen and to come.
LEMMA SeenIsOrdered ==
  ASSUME OfKinds(seen, Kinds), OfKinds(todo, Kinds), Ordered(seen \o todo)
  PROVE  SeenInOrder
<1>0. PICK w : Joins(w, seen, todo)
  BY EventsJoin
<1>1. /\ w = seen \o todo
      /\ Len(seen) \in Nat /\ Len(todo) \in Nat
      /\ Len(w) = Len(seen) + Len(todo)
      /\ \A i \in 1..Len(seen) : w[i] = seen[i]
      /\ todo = <<>> => w = seen
      /\ todo # <<>> => Len(todo) >= 1
  BY <1>0 DEF Joins
<1>2. Ordered(w)
  BY <1>1
<1>3. ASSUME NEW i \in 1..Len(seen)
      PROVE  /\ seen[i].kind \in RuntimeKinds
             /\ seen[i].kind = "start" /\ i < Len(seen) =>
                  seen[i + 1].kind = "end" /\ SameCall(seen[i + 1], seen[i])
             /\ seen[i].kind = "end" =>
                  i > 1 /\ seen[i - 1].kind = "start" /\ SameCall(seen[i - 1], seen[i])
             /\ seen[i].kind = "message" /\ seen[i].calls = <<>> => i = Len(seen) /\ todo = <<>>
  <2>1. i \in 1..Len(w) /\ w[i] = seen[i]
    BY <1>1
  <2>2. i < Len(seen) => i + 1 \in 1..Len(seen) /\ w[i + 1] = seen[i + 1]
    BY <1>1
  <2>3. i > 1 => i - 1 \in 1..Len(seen) /\ w[i - 1] = seen[i - 1]
    BY <1>1
  <2>4. seen[i].kind \in RuntimeKinds
    BY <1>2, <2>1 DEF Ordered
  <2>5. seen[i].kind = "start" /\ i < Len(seen) =>
          seen[i + 1].kind = "end" /\ SameCall(seen[i + 1], seen[i])
    BY <1>2, <2>1, <2>2 DEF Ordered, CallsArePairs
  <2>6. seen[i].kind = "end" =>
          i > 1 /\ seen[i - 1].kind = "start" /\ SameCall(seen[i - 1], seen[i])
    BY <1>2, <2>1, <2>3 DEF Ordered, CallsArePairs
  <2>7. seen[i].kind = "message" /\ seen[i].calls = <<>> => i = Len(w)
    BY <1>2, <2>1 DEF Ordered, AnswerIsLast
  <2>8. i = Len(w) => i = Len(seen) /\ todo = <<>>
    BY <1>1
  <2> QED BY <2>4, <2>5, <2>6, <2>7, <2>8
<1>4. CallsAreAsked(seen)
  <2> SUFFICES ASSUME NEW i \in 1..Len(seen), seen[i].kind \in {"start", "end"}
               PROVE  IsAsked(seen, i)
    BY DEF CallsAreAsked
  <2>1. i \in 1..Len(w) /\ w[i] = seen[i] /\ \A j \in 1..i : w[j] = seen[j]
    BY <1>1
  <2>2. IsAsked(w, i)
    BY <1>2, <2>1 DEF Ordered, CallsAreAsked
  <2>3. PICK m \in 1..i : BelongsTo(w, m, i) /\ Lists(w[m].calls, w[i])
    BY <2>2 DEF IsAsked
  <2>4. BelongsTo(seen, m, i)
    <3>1. \A j \in (m + 1)..i : j \in 1..i
      OBVIOUS
    <3> QED BY <2>1, <2>3, <3>1 DEF BelongsTo
  <2>5. w[m] = seen[m] /\ seen[i].id \in CallId
    BY <2>1, <2>2, <2>3 DEF IsAsked
  <2> QED BY <2>1, <2>3, <2>4, <2>5 DEF IsAsked
<1>5. todo = <<>> => HasMessage(seen)
  BY <1>1, <1>2 DEF Ordered
<1> QED BY <1>3, <1>4, <1>5 DEF SeenInOrder

\* The message of an event is the last one up to it.
LEMMA MessageOfIs ==
  ASSUME NEW i \in Nat, NEW m, BelongsTo(seen, m, i)
  PROVE  MessageOf(i) = m
<1> DEFINE M == {k \in 1..i : seen[k].kind = "message"}
<1>1. m \in M /\ m \in Nat
  BY DEF BelongsTo
<1>2. ASSUME NEW k \in M PROVE k <= m
  <2>1. k \in 1..i /\ seen[k].kind = "message"
    OBVIOUS
  <2>2. ~(k \in (m + 1)..i)
    BY <2>1 DEF BelongsTo
  <2> QED BY <1>1, <2>1, <2>2
<1>3. MessageOf(i) = CHOOSE x \in M : \A y \in M : x >= y
  BY DEF MessageOf, Max
<1>4. \A y \in M : y \in Nat
  OBVIOUS
<1> HIDE DEF M
<1>5. m \in M /\ \A y \in M : m >= y
  BY <1>1, <1>2, <1>4
<1>6. MessageOf(i) \in M /\ \A y \in M : MessageOf(i) >= y
  BY <1>3, <1>5
<1> QED BY <1>4, <1>5, <1>6

\* What is said of the turn up to an event stays as it is when the turn goes on.
LEMMA TurnKept ==
  ASSUME SeenInOrder, Len(seen) \in Nat, Agree(Len(seen), seen, seen'), NEW i \in 0..Len(seen)
  PROVE  /\ \A k \in 1..i : seen[k].kind \in {"start", "end"} => ArgsShown(k)' = ArgsShown(k)
         /\ SaidTo(i)' = SaidTo(i)
         /\ StepsTo(i)' = StepsTo(i)
<1>1. \A k \in 1..i : k \in 1..Len(seen) /\ seen'[k] = seen[k]
  BY DEF Agree
<1>2. ASSUME NEW k \in 1..i, seen[k].kind \in {"start", "end"}
      PROVE  ArgsShown(k)' = ArgsShown(k)
  <2>1. k \in 1..Len(seen) /\ IsAsked(seen, k)
    BY <1>1, <1>2 DEF SeenInOrder, CallsAreAsked
  <2>2. PICK m \in 1..k : BelongsTo(seen, m, k)
    BY <2>1 DEF IsAsked
  <2>3. MessageOf(k) = m
    BY <2>2, MessageOfIs
  <2>4. {j \in 1..k : seen'[j].kind = "message"} = {j \in 1..k : seen[j].kind = "message"}
    BY <1>1
  <2>5. MessageOf(k)' = MessageOf(k)
    BY <2>4 DEF MessageOf
  <2>6. seen'[m] = seen[m] /\ seen'[k] = seen[k]
    BY <1>1
  <2> QED BY <2>3, <2>5, <2>6 DEF ArgsShown, Repeated
<1>3. \A k \in 1..i : Said(k)' = Said(k)
  BY <1>1, <1>2 DEF Said
<1>4. \A k \in 1..i : Step(k)' = Step(k)
  BY <1>1, <1>2 DEF Step
<1>5. SaidTo(i)' = SaidTo(i)
  <2>1. [k \in 1..i |-> Said(k)'] = [k \in 1..i |-> Said(k)]
    BY <1>3
  <2> QED BY <2>1 DEF SaidTo
<1>6. StepsTo(i)' = StepsTo(i)
  <2>1. [k \in 1..i |-> Step(k)'] = [k \in 1..i |-> Step(k)]
    BY <1>4
  <2> QED BY <2>1 DEF StepsTo
<1> QED BY <1>2, <1>5, <1>6

\* The arguments of a call that ends are those it was started with.
LEMMA SameArguments ==
  ASSUME NEW i \in Nat, i >= 1, seen[i + 1].kind # "message", SameCall(seen[i + 1], seen[i])
  PROVE  ArgsShown(i + 1) = ArgsShown(i)
<1>1. {j \in 1..(i + 1) : seen[j].kind = "message"} = {j \in 1..i : seen[j].kind = "message"}
  OBVIOUS
<1>2. MessageOf(i + 1) = MessageOf(i)
  BY <1>1 DEF MessageOf
<1> QED BY <1>2 DEF ArgsShown, Repeated, SameCall

\* What was said earlier begins what has been said.
LEMMA SaidBefore ==
  ASSUME NEW n \in Nat, NEW c \in 0..n
  PROVE  IsPrefix(SaidTo(c), SaidTo(n))
<1> DEFINE Bad == {k \in c..n : ~IsPrefix(SaidTo(c), SaidTo(k))}
<1>1. IsPrefix(SaidTo(c), SaidTo(c))
  <2>1. PICK T : SaidTo(c) \in Seq(T)
    BY OneEventMore DEF IsSeq
  <2>2. Len(SaidTo(c)) \in Nat
    BY <2>1
  <2> QED BY <2>2 DEF IsPrefix
<1>2. Bad = {}
  <2> SUFFICES ASSUME Bad # {} PROVE FALSE
    OBVIOUS
  <2>1. Bad \in SUBSET Nat
    OBVIOUS
  <2>2. PICK x \in Bad : \A y \in Bad : x <= y
    <3> HIDE DEF Bad
    <3> QED BY <2>1, FirstNumber
  <2>3. x \in c..n /\ ~IsPrefix(SaidTo(c), SaidTo(x))
    OBVIOUS
  <2>4. x # c
    BY <1>1, <2>3
  <2>5. x - 1 \in c..n /\ ~(x <= x - 1) /\ x - 1 \in Nat /\ (x - 1) + 1 = x
    BY <2>3, <2>4
  <2>6. IsPrefix(SaidTo(c), SaidTo(x - 1))
    BY <2>2, <2>5
  <2>7. SaidTo(x) = SaidTo(x - 1) \o Said(x) /\ IsSeq(SaidTo(x - 1)) /\ IsSeq(SaidTo(c))
    <3>1. /\ SaidTo((x - 1) + 1) = SaidTo(x - 1) \o Said((x - 1) + 1)
          /\ IsSeq(SaidTo(x - 1))
      BY <2>5, OneEventMore
    <3>2. IsSeq(SaidTo(c))
      BY OneEventMore
    <3> QED BY <2>5, <3>1, <3>2
  <2>8. IsSeq(Said(x))
    <3>1. Said(x) = <<>> \/ \E e : Said(x) = <<e>>
      BY DEF Said
    <3>2. CASE Said(x) = <<>>
      <4>1. <<>> \in Seq({})
        OBVIOUS
      <4> QED BY <3>2, <4>1 DEF IsSeq
    <3>3. ASSUME NEW e, Said(x) = <<e>> PROVE IsSeq(Said(x))
      <4>1. <<e>> \in Seq({e})
        OBVIOUS
      <4> QED BY <3>3, <4>1 DEF IsSeq
    <3> QED BY <3>1, <3>2, <3>3
  <2>9. IsPrefix(SaidTo(c), SaidTo(x - 1) \o Said(x))
    <3>1. PICK T : SaidTo(c) \in Seq(T)
      BY <2>7 DEF IsSeq
    <3>2. PICK U : SaidTo(x - 1) \in Seq(U)
      BY <2>7 DEF IsSeq
    <3>3. PICK V : Said(x) \in Seq(V)
      BY <2>8 DEF IsSeq
    <3> DEFINE S == T \cup U \cup V
    <3>4. SaidTo(c) \in Seq(S) /\ SaidTo(x - 1) \in Seq(S) /\ Said(x) \in Seq(S)
      BY <3>1, <3>2, <3>3
    <3> HIDE DEF S
    <3> QED BY <2>6, <3>4, PrefixGrows
  <2> QED BY <2>3, <2>7, <2>9
<1> HIDE DEF Bad
<1>3. n \notin Bad
  BY <1>2
<1> QED BY <1>3 DEF Bad

\* Events in order after events in order are in order, unless the first end the turn.
LEMMA OrderedJoin ==
  ASSUME NEW a, NEW b, NEW w, Joins(w, a, b), Ordered(a), Ordered(b),
         \A i \in 1..Len(a) : ~(a[i].kind = "message" /\ a[i].calls = <<>>)
  PROVE  Ordered(w)
<1> USE DEF Joins
<1>1. ASSUME NEW i \in 1..Len(w)
      PROVE  i \in 1..Len(a) \/ \E k \in 1..Len(b) : i = Len(a) + k
  <2>1. CASE i <= Len(a)
    BY <2>1
  <2>2. CASE i > Len(a)
    <3>1. i - Len(a) \in 1..Len(b) /\ i = Len(a) + (i - Len(a))
      BY <2>2
    <3> QED BY <3>1
  <2> QED BY <2>1, <2>2
<1>2. ASSUME NEW i \in 1..Len(a)
      PROVE  /\ w[i] = a[i] /\ i \in 1..Len(w)
             /\ w[i].kind \in RuntimeKinds
             /\ w[i].kind = "start" => i < Len(w) /\ w[i + 1].kind = "end" /\ SameCall(w[i + 1], w[i])
             /\ w[i].kind = "end" => i > 1 /\ w[i - 1].kind = "start" /\ SameCall(w[i - 1], w[i])
             /\ w[i].kind \in {"start", "end"} => IsAsked(w, i)
             /\ ~(w[i].kind = "message" /\ w[i].calls = <<>>)
  <2>1. w[i] = a[i] /\ i \in 1..Len(w)
    OBVIOUS
  <2>2. i < Len(a) => i + 1 \in 1..Len(a) /\ w[i + 1] = a[i + 1]
    OBVIOUS
  <2>3. i > 1 => i - 1 \in 1..Len(a) /\ w[i - 1] = a[i - 1]
    OBVIOUS
  <2>4. w[i].kind = "start" => i < Len(w) /\ w[i + 1].kind = "end" /\ SameCall(w[i + 1], w[i])
    <3>1. a[i].kind = "start" => i < Len(a) /\ a[i + 1].kind = "end" /\ SameCall(a[i + 1], a[i])
      BY DEF Ordered, CallsArePairs
    <3> QED BY <2>1, <2>2, <3>1
  <2>5. w[i].kind = "end" => i > 1 /\ w[i - 1].kind = "start" /\ SameCall(w[i - 1], w[i])
    <3>1. a[i].kind = "end" => i > 1 /\ a[i - 1].kind = "start" /\ SameCall(a[i - 1], a[i])
      BY DEF Ordered, CallsArePairs
    <3> QED BY <2>1, <2>3, <3>1
  <2>6. ASSUME w[i].kind \in {"start", "end"} PROVE IsAsked(w, i)
    <3>1. IsAsked(a, i)
      BY <2>1, <2>6 DEF Ordered, CallsAreAsked
    <3>2. PICK m \in 1..i : BelongsTo(a, m, i) /\ Lists(a[m].calls, a[i])
      BY <3>1 DEF IsAsked
    <3>3. \A j \in 1..i : w[j] = a[j]
      OBVIOUS
    <3>4. \A j \in (m + 1)..i : j \in 1..i
      OBVIOUS
    <3>5. BelongsTo(w, m, i)
      BY <3>2, <3>3, <3>4 DEF BelongsTo
    <3>6. w[m] = a[m] /\ w[i].id \in CallId
      BY <2>1, <3>1, <3>2, <3>3 DEF IsAsked
    <3> QED BY <2>1, <3>2, <3>5, <3>6 DEF IsAsked
  <2>7. w[i].kind \in RuntimeKinds
    BY <2>1 DEF Ordered
  <2> QED BY <2>1, <2>4, <2>5, <2>6, <2>7
<1>3. ASSUME NEW k \in 1..Len(b)
      PROVE  LET i == Len(a) + k
             IN  /\ w[i] = b[k] /\ i \in 1..Len(w)
                 /\ w[i].kind \in RuntimeKinds
                 /\ w[i].kind = "start" => i < Len(w) /\ w[i + 1].kind = "end" /\ SameCall(w[i + 1], w[i])
                 /\ w[i].kind = "end" => i > 1 /\ w[i - 1].kind = "start" /\ SameCall(w[i - 1], w[i])
                 /\ w[i].kind \in {"start", "end"} => IsAsked(w, i)
                 /\ w[i].kind = "message" /\ w[i].calls = <<>> => i = Len(w)
  <2>0. PICK i : i = Len(a) + k
    OBVIOUS
  <2>1. w[i] = b[k] /\ i \in 1..Len(w)
    BY <2>0
  <2>2. k < Len(b) => k + 1 \in 1..Len(b) /\ w[i + 1] = b[k + 1] /\ i < Len(w)
    <3>1. i + 1 = Len(a) + (k + 1)
      BY <2>0
    <3> QED BY <2>0, <3>1
  <2>3. k > 1 => k - 1 \in 1..Len(b) /\ w[i - 1] = b[k - 1] /\ i > 1
    <3>1. i - 1 = Len(a) + (k - 1)
      BY <2>0
    <3> QED BY <2>0, <3>1
  <2>4. w[i].kind = "start" => i < Len(w) /\ w[i + 1].kind = "end" /\ SameCall(w[i + 1], w[i])
    <3>1. b[k].kind = "start" => k < Len(b) /\ b[k + 1].kind = "end" /\ SameCall(b[k + 1], b[k])
      BY DEF Ordered, CallsArePairs
    <3> QED BY <2>1, <2>2, <3>1
  <2>5. w[i].kind = "end" => i > 1 /\ w[i - 1].kind = "start" /\ SameCall(w[i - 1], w[i])
    <3>1. b[k].kind = "end" => k > 1 /\ b[k - 1].kind = "start" /\ SameCall(b[k - 1], b[k])
      BY DEF Ordered, CallsArePairs
    <3> QED BY <2>1, <2>3, <3>1
  <2>6. ASSUME w[i].kind \in {"start", "end"} PROVE IsAsked(w, i)
    <3>1. IsAsked(b, k)
      BY <2>1, <2>6 DEF Ordered, CallsAreAsked
    <3>2. PICK m \in 1..k : BelongsTo(b, m, k) /\ Lists(b[m].calls, b[k])
      BY <3>1 DEF IsAsked
    <3>3. \A j \in 1..k : w[Len(a) + j] = b[j]
      OBVIOUS
    <3>4. PICK n : n = Len(a) + m
      OBVIOUS
    <3>5. n \in 1..i /\ w[n] = b[m]
      BY <2>0, <3>3, <3>4
    <3>6. ASSUME NEW j \in (n + 1)..i PROVE w[j].kind # "message"
      <4>1. j - Len(a) \in (m + 1)..k /\ j - Len(a) \in 1..k /\ j = Len(a) + (j - Len(a))
        BY <2>0, <3>4
      <4>2. w[j] = b[j - Len(a)]
        BY <3>3, <4>1
      <4> QED BY <3>2, <4>1, <4>2 DEF BelongsTo
    <3>7. BelongsTo(w, n, i)
      BY <3>2, <3>5, <3>6 DEF BelongsTo
    <3>8. w[i].id \in CallId
      BY <2>1, <3>1 DEF IsAsked
    <3> QED BY <2>1, <3>2, <3>5, <3>7, <3>8 DEF IsAsked
  <2>7. w[i].kind \in RuntimeKinds
    BY <2>1 DEF Ordered
  <2>8. w[i].kind = "message" /\ w[i].calls = <<>> => i = Len(w)
    <3>1. b[k].kind = "message" /\ b[k].calls = <<>> => k = Len(b)
      BY DEF Ordered, AnswerIsLast
    <3> QED BY <2>0, <2>1, <3>1
  <2> QED BY <2>0, <2>1, <2>4, <2>5, <2>6, <2>7, <2>8
<1>4. HasMessage(w)
  <2> SUFFICES ASSUME w # <<>> PROVE \E i \in 1..Len(w) : w[i].kind = "message"
    BY DEF HasMessage
  <2>1. CASE a # <<>>
    <3>1. PICK i \in 1..Len(a) : a[i].kind = "message"
      BY <2>1 DEF Ordered, HasMessage
    <3> QED BY <1>2, <3>1
  <2>2. CASE a = <<>>
    <3>1. PICK i \in 1..Len(b) : b[i].kind = "message"
      BY <2>2 DEF Ordered, HasMessage
    <3> QED BY <2>2, <3>1
  <2> QED BY <2>1, <2>2
<1>5. \A i \in 1..Len(w) : w[i].kind \in RuntimeKinds
  BY <1>1, <1>2, <1>3
<1>6. CallsArePairs(w)
  <2> SUFFICES ASSUME NEW i \in 1..Len(w)
               PROVE  /\ w[i].kind = "start" =>
                           i < Len(w) /\ w[i + 1].kind = "end" /\ SameCall(w[i + 1], w[i])
                      /\ w[i].kind = "end" =>
                           i > 1 /\ w[i - 1].kind = "start" /\ SameCall(w[i - 1], w[i])
    BY DEF CallsArePairs
  <2>1. CASE i \in 1..Len(a)
    BY <1>2, <2>1
  <2>2. ASSUME NEW k \in 1..Len(b), i = Len(a) + k
        PROVE  /\ w[i].kind = "start" =>
                    i < Len(w) /\ w[i + 1].kind = "end" /\ SameCall(w[i + 1], w[i])
               /\ w[i].kind = "end" =>
                    i > 1 /\ w[i - 1].kind = "start" /\ SameCall(w[i - 1], w[i])
    BY <1>3, <2>2
  <2> QED BY <1>1, <2>1, <2>2
<1>7. CallsAreAsked(w)
  BY <1>1, <1>2, <1>3 DEF CallsAreAsked
<1>8. AnswerIsLast(w)
  BY <1>1, <1>2, <1>3 DEF AnswerIsLast
<1> QED BY <1>4, <1>5, <1>6, <1>7, <1>8 DEF Ordered

\* The events of a message and its calls are in order.
LEMMA MessageOrdered ==
  ASSUME NEW pieces \in Nat, NEW batch \in Seq(CallId), NEW w, Shaped(w, pieces, batch)
  PROVE  Ordered(w)
<1> DEFINE L == Len(batch)
           p == pieces + 1
<1>0. L \in Nat /\ Len(w) = p + 2 * L /\ \A k \in 1..L : batch[k] \in CallId
  BY DEF Shaped
<1>1. ASSUME NEW i \in 1..Len(w)
      PROVE  \/ i \in 1..pieces
             \/ i = p
             \/ \E k \in 1..L : i = pieces + 2 * k \/ i = pieces + 2 * k + 1
  <2> HIDE DEF L
  <2>1. CASE i > p
    <3>1. PICK j \in 1..2 * L : i = p + j
      <4>1. i - p \in 1..2 * L /\ i = p + (i - p)
        BY <1>0, <2>1
      <4> QED BY <4>1
    <3>2. CASE j % 2 = 1
      <4>1. (j + 1) \div 2 \in 1..L /\ j = 2 * ((j + 1) \div 2) - 1
        BY <1>0, <3>2
      <4>2. i = pieces + 2 * ((j + 1) \div 2)
        BY <3>1, <4>1
      <4> QED BY <4>1, <4>2
    <3>3. CASE j % 2 = 0
      <4>1. j \div 2 \in 1..L /\ j = 2 * (j \div 2)
        BY <1>0, <3>3
      <4>2. i = pieces + 2 * (j \div 2) + 1
        BY <3>1, <4>1
      <4> QED BY <4>1, <4>2
    <3> QED BY <1>0, <3>2, <3>3
  <2> QED BY <2>1
<1>2. /\ \A i \in 1..pieces : w[i].kind = "delta"
      /\ w[p].kind = "message"
      /\ w[p].calls = <<>> => L = 0
      /\ Len(w[p].calls) = L
      /\ \A k \in 1..L : w[p].calls[k].id = batch[k]
      /\ \A k \in 1..L :
           /\ w[pieces + 2 * k].kind = "start" /\ w[pieces + 2 * k].id = batch[k]
           /\ w[pieces + 2 * k + 1].kind = "end" /\ w[pieces + 2 * k + 1].id = batch[k]
           /\ w[pieces + 2 * k].n = w[p].calls[k].n /\ w[pieces + 2 * k + 1].n = w[p].calls[k].n
  BY DEF Shaped
<1> HIDE DEF L, p
<1>3. ASSUME NEW k \in 1..L, NEW i, i = pieces + 2 * k \/ i = pieces + 2 * k + 1
      PROVE  i \in 1..Len(w) /\ w[i].kind \in {"start", "end"} /\ w[i].id = batch[k] /\ IsAsked(w, i)
  <2>1. i \in 1..Len(w) /\ p \in 1..i
    BY <1>0, <1>3 DEF p
  <2>2. w[i].kind \in {"start", "end"} /\ w[i].id = batch[k]
    BY <1>2, <1>3
  <2>3. ASSUME NEW j \in (p + 1)..i PROVE w[j].kind # "message"
    <3>1. j \in 1..Len(w) /\ j \notin 1..pieces /\ j # p
      BY <1>0, <2>1 DEF p
    <3>2. \E n \in 1..L : j = pieces + 2 * n \/ j = pieces + 2 * n + 1
      BY <1>1, <3>1
    <3> QED BY <1>2, <3>2
  <2>4. BelongsTo(w, p, i)
    BY <1>2, <2>1, <2>3 DEF BelongsTo
  <2>5. Lists(w[p].calls, w[i])
    <3>1. k \in CallsWith(w[i].id, w[p].calls)
      BY <1>2, <2>2 DEF CallsWith
    <3>2. w[i].n = w[p].calls[k].n
      BY <1>2, <1>3
    <3> QED BY <3>1, <3>2 DEF Lists
  <2>6. w[i].id \in CallId
    BY <1>0, <2>2
  <2> QED BY <2>1, <2>2, <2>4, <2>5, <2>6 DEF IsAsked
<1>4. \A i \in 1..Len(w) : w[i].kind \in RuntimeKinds
  <2> SUFFICES ASSUME NEW i \in 1..Len(w) PROVE w[i].kind \in RuntimeKinds
    OBVIOUS
  <2>1. w[i].kind \in {"delta", "message", "start", "end"}
    <3>1. CASE i \in 1..pieces \/ i = p
      BY <1>2, <3>1
    <3>2. ASSUME NEW k \in 1..L, i = pieces + 2 * k \/ i = pieces + 2 * k + 1
          PROVE  w[i].kind \in {"start", "end"}
      BY <1>3, <3>2
    <3> QED BY <1>1, <3>1, <3>2
  <2> QED BY <2>1 DEF RuntimeKinds
<1>5. CallsArePairs(w)
  <2> SUFFICES ASSUME NEW i \in 1..Len(w)
               PROVE  /\ w[i].kind = "start" =>
                           i < Len(w) /\ w[i + 1].kind = "end" /\ SameCall(w[i + 1], w[i])
                      /\ w[i].kind = "end" =>
                           i > 1 /\ w[i - 1].kind = "start" /\ SameCall(w[i - 1], w[i])
    BY DEF CallsArePairs
  <2>1. CASE i \in 1..pieces \/ i = p
    BY <1>2, <2>1
  <2>2. ASSUME NEW k \in 1..L, i = pieces + 2 * k PROVE i < Len(w) /\ w[i + 1].kind = "end" /\ SameCall(w[i + 1], w[i]) /\ w[i].kind = "start"
    <3>1. pieces + 2 * k < Len(w)
      BY <1>0 DEF p
    <3> QED BY <1>2, <2>2, <3>1 DEF SameCall
  <2>3. ASSUME NEW k \in 1..L, i = pieces + 2 * k + 1 PROVE i > 1 /\ w[i - 1].kind = "start" /\ SameCall(w[i - 1], w[i]) /\ w[i].kind = "end"
    <3>1. i > 1 /\ i - 1 = pieces + 2 * k
      BY <1>0, <2>3
    <3> QED BY <1>2, <2>3, <3>1 DEF SameCall
  <2> QED BY <1>1, <2>1, <2>2, <2>3
<1>6. CallsAreAsked(w)
  <2> SUFFICES ASSUME NEW i \in 1..Len(w), w[i].kind \in {"start", "end"} PROVE IsAsked(w, i)
    BY DEF CallsAreAsked
  <2>1. \E k \in 1..L : i = pieces + 2 * k \/ i = pieces + 2 * k + 1
    BY <1>1, <1>2
  <2> QED BY <1>3, <2>1
<1>7. AnswerIsLast(w)
  <2> SUFFICES ASSUME NEW i \in 1..Len(w), w[i].kind = "message", w[i].calls = <<>>
               PROVE  i = Len(w)
    BY DEF AnswerIsLast
  <2>1. i = p
    BY <1>1, <1>2
  <2>2. L = 0
    BY <1>2, <2>1
  <2> QED BY <1>0, <2>1, <2>2 DEF p
<1>8. HasMessage(w)
  <2>1. p \in 1..Len(w)
    BY <1>0 DEF p
  <2> QED BY <1>2, <2>1 DEF HasMessage
<1> QED BY <1>4, <1>5, <1>6, <1>7, <1>8 DEF Ordered

-----------------------------------------------------------------------------
(* What the reader has of the turn *)

EndKinds == {"completed", "failed", "refused"}

\* The turn has its answer and is committed, and the run is over.
Finished ==
  /\ session.at \in {"terminal", "closed"}
  /\ kept
  /\ todo = <<>>
  /\ seen # <<>> /\ seen[Len(seen)].kind = "message" /\ seen[Len(seen)].calls = <<>>

\* After c events of the turn the channel holds those that follow, and then how
\* it ended.
InChannel(c) ==
  /\ \A k \in 1..Len(out) :
       /\ out[k].kind \in EndKinds => k = Len(out) /\ session.at = "closed"
       /\ out[k].kind \notin EndKinds => c + k <= Len(seen) /\ out[k] = seen[c + k]
  /\ session.at = "closed" => out = <<>> \/ out[Len(out)].kind \in EndKinds
  /\ session.at = "prompt" => seen = <<>> /\ out = <<>>

\* The next event is in the Session's hand.
EmitsNext(c) ==
  session.at = "emit" => c + Len(out) + 1 = Len(seen) /\ session.event = seen[Len(seen)]

\* As long as the context lives no event is missing.
AllThere(c) ==
  ctx = "live" =>
    /\ session.at \in {"receive", "terminal"} => c + Len(out) = Len(seen)
    /\ session.at = "closed" /\ out = <<>> => c = Len(seen)
    /\ session.at = "closed" /\ out # <<>> => c + Len(out) = Len(seen) + 1

Passed(c) == InChannel(c) /\ EmitsNext(c) /\ AllThere(c)

\* The arguments remembered are those of the last message.
Remembers(c) ==
  \A m \in 1..c : BelongsTo(seen, m, c) =>
    \A id \in CallId :
      CallsWith(id, seen[m].calls) # {} =>
        reader.argsOf[id] = seen[m].calls[Max(CallsWith(id, seen[m].calls))].n

\* The step of a call that is started and has not ended.
OpenStep(c) ==
  IF c > 0 /\ seen[c].kind = "start"
    THEN <<NewStep(seen[c].id, ArgsShown(c))>> ELSE <<>>

\* The steps of a reply.
Collects(c) ==
  mode # "stream" =>
    /\ reader.steps = StepsTo(c) \o OpenStep(c)
    /\ c > 0 /\ seen[c].kind = "start" => reader.stepOf[seen[c].id] = Len(reader.steps)

\* The answer, when it has been read.
HasAnswer(c) ==
  c > 0 /\ seen[c].kind = "message" /\ seen[c].calls = <<>> => reader.answer = seen[c].text

Reads(c) == Remembers(c) /\ Collects(c) /\ HasAnswer(c)

\* What a streaming client has been told, or will be told next.
InHand == IF handed = Blank \/ IsTerminal(handed) THEN <<>> ELSE <<handed>>
Pending == IF reader.at = "send" /\ ~IsTerminal(reader.event) THEN <<reader.event>> ELSE <<>>
Flow == (Body \o InHand) \o Pending

Speaks(c) == mode = "stream" => Flow = SaidTo(c)

Following(c) == Passed(c) /\ Reads(c) /\ Speaks(c)

\* The reader is somewhere in the turn, or its client was told the beginning.
Heard ==
  /\ reader.at # "closed" => \E c \in 0..Len(seen) : Following(c)
  /\ reader.at = "closed" /\ mode = "stream" => IsPrefix(Body \o InHand, SaidTo(Len(seen)))

\* A run that is said to have completed has.
Concludes ==
  /\ session.at = "terminal" /\ session.event.kind = "completed" => Finished
  /\ reader.at # "closed" => \A k \in 1..Len(out) :
        /\ out[k].kind = "completed" => Finished
        /\ out[k].kind = "refused" => ctx = "done"
  /\ reader.at = "record" =>
       session.at = "closed" /\ out = <<>> /\ (ctx = "live" => Finished)
  /\ reader.at = "loop" /\ mode # "stream" /\ session.at = "closed" /\ out = <<>> /\ ctx = "live" =>
       Finished

\* The word "done" is said of such a turn, and with all that belongs to it.
DoneIsTrue(event) ==
  event.kind = "done" =>
    /\ Finished /\ session.at = "closed" /\ recorded
    /\ event.text = seen[Len(seen)].text
    /\ mode = "stream" => Flow = SaidTo(Len(seen))
    /\ mode # "stream" => event.calls = StepsTo(Len(seen))

DonesAreTrue ==
  /\ reader.at = "send" => DoneIsTrue(reader.event)
  /\ DoneIsTrue(handed)
  /\ told # <<>> => DoneIsTrue(Last(told))

\* A terminal event is the last word.
LastWord == \A i \in 1..Len(told) : IsTerminal(told[i]) => i = Len(told)

TellInv == Ordered(seen \o todo) /\ Heard /\ Concludes /\ DonesAreTrue /\ LastWord

-----------------------------------------------------------------------------
(* The Runtime and the Session *)

\* A greatest message exists where there is a message.
LEMMA BelongsSomewhere ==
  ASSUME NEW n \in Nat, NEW i \in 1..n, seen[i].kind = "message"
  PROVE  \E m \in 1..n : BelongsTo(seen, m, n)
<1> DEFINE M == {k \in 1..n : seen[k].kind = "message"}
           D == {n - k : k \in M}
<1>1. D \in SUBSET Nat /\ D # {}
  <2>1. i \in M /\ \A k \in M : n - k \in Nat
    OBVIOUS
  <2> QED BY <2>1
<1>2. PICK d \in D : \A e \in D : d <= e
  <2> HIDE DEF D
  <2> QED BY <1>1, FirstNumber
<1>3. PICK m \in M : d = n - m
  BY <1>2
<1>4. ASSUME NEW j \in (m + 1)..n PROVE seen[j].kind # "message"
  <2>1. SUFFICES ASSUME seen[j].kind = "message" PROVE FALSE
    OBVIOUS
  <2>2. m \in 1..n /\ j \in 1..n /\ j > m
    OBVIOUS
  <2>3. j \in M
    BY <2>1, <2>2
  <2>4. n - j \in D
    BY <2>3
  <2>5. n - m <= n - j
    BY <1>2, <1>3, <2>4
  <2> HIDE DEF M, D
  <2> QED BY <2>2, <2>5
<1>5. m \in 1..n /\ seen[m].kind = "message"
  OBVIOUS
<1>6. BelongsTo(seen, m, n)
  BY <1>4, <1>5 DEF BelongsTo
<1> QED BY <1>5, <1>6

\* A turn that has its answer ends with it.
LEMMA AnsweredMeans ==
  ASSUME OfKinds(seen, Kinds), SeenInOrder
  PROVE  /\ Answered => /\ seen # <<>> /\ todo = <<>>
                        /\ seen[Len(seen)].kind = "message" /\ seen[Len(seen)].calls = <<>>
         /\ \A i \in 1..Len(seen) : seen[i].kind = "message" /\ seen[i].calls = <<>> => Answered
<1>1. Len(seen) \in Nat /\ (seen # <<>> => Len(seen) >= 1)
  BY EventsOf
<1>2. ASSUME Answered
      PROVE  seen[Len(seen)].kind = "message" /\ seen[Len(seen)].calls = <<>>
  <2>1. seen # <<>> /\ todo = <<>> /\ LastMessage.calls = <<>>
    BY <1>2 DEF Answered
  <2>2. PICK i \in 1..Len(seen) : seen[i].kind = "message"
    BY <2>1 DEF SeenInOrder, HasMessage
  <2>3. PICK m \in 1..Len(seen) : BelongsTo(seen, m, Len(seen))
    BY <1>1, <2>2, BelongsSomewhere
  <2>4. MessageOf(Len(seen)) = m
    BY <1>1, <2>3, MessageOfIs
  <2>5. seen[m].kind = "message" /\ seen[m].calls = <<>>
    BY <2>1, <2>3, <2>4 DEF LastMessage, BelongsTo
  <2>6. m = Len(seen)
    BY <2>3, <2>5 DEF SeenInOrder
  <2> QED BY <2>5, <2>6
<1>3. ASSUME NEW i \in 1..Len(seen), seen[i].kind = "message", seen[i].calls = <<>>
      PROVE  Answered
  <2>1. i = Len(seen) /\ todo = <<>>
    BY <1>3 DEF SeenInOrder
  <2>2. BelongsTo(seen, i, i)
    BY <1>3 DEF BelongsTo
  <2>3. MessageOf(Len(seen)) = Len(seen)
    BY <1>1, <2>1, <2>2, MessageOfIs
  <2>4. seen # <<>>
    <3>1. Len(<<>>) = 0
      OBVIOUS
    <3> QED BY <2>1, <3>1
  <2> QED BY <1>3, <2>1, <2>3, <2>4 DEF Answered, LastMessage
<1> QED BY <1>2, <1>3 DEF Answered

\* The message that a whole turn ends with is its last one.
LEMMA LastMessageIs ==
  ASSUME OfKinds(seen, Kinds), Finished
  PROVE  LastMessage = seen[Len(seen)]
<1>1. Len(seen) \in Nat /\ Len(seen) >= 1
  BY EventsOf DEF Finished
<1>2. BelongsTo(seen, Len(seen), Len(seen))
  BY <1>1 DEF BelongsTo, Finished
<1>3. MessageOf(Len(seen)) = Len(seen)
  BY <1>1, <1>2, MessageOfIs
<1> QED BY <1>3 DEF LastMessage

\* The events of a turn stay in order, whatever happens.
LEMMA OrderKept ==
  ASSUME SessionTypes, Ordered(seen \o todo), Next
  PROVE  Ordered(seen \o todo)'
<1>0. OfKinds(seen, Kinds) /\ OfKinds(todo, Kinds) /\ SeenInOrder
  BY SeenIsOrdered DEF SessionTypes
<1>1. CASE UNCHANGED <<todo, seen>>
  BY <1>1
<1>2. CASE ProviderAnswers
  <2>1. todo = <<>> /\ ~Answered /\ seen' = seen
    BY <1>2 DEF ProviderAnswers
  <2>2. PICK pieces \in 0..MaxPieces, batch \in Batches : todo' = MessageEvents(pieces, batch)
    BY <1>2 DEF ProviderAnswers
  <2>3. pieces \in Nat /\ batch \in Seq(CallId) /\ Len(batch) \in Nat
    BY ReportAssumption, Sizes
  <2>4. OfKinds(todo', Kinds) /\ Shaped(todo', pieces, batch)
    BY <2>2, <2>3, MessageShape
  <2>5. Ordered(todo')
    BY <2>3, <2>4, MessageOrdered
  <2>6. Ordered(seen)
    <3>1. PICK w : Joins(w, seen, todo)
      BY <1>0, EventsJoin
    <3> QED BY <2>1, <3>1 DEF Joins
  <2>7. \A i \in 1..Len(seen) : ~(seen[i].kind = "message" /\ seen[i].calls = <<>>)
    BY <1>0, <2>1, AnsweredMeans
  <2>8. PICK w : Joins(w, seen, todo')
    BY <1>0, <2>4, EventsJoin
  <2>9. Ordered(w)
    BY <2>5, <2>6, <2>7, <2>8, OrderedJoin
  <2> QED BY <2>1, <2>8, <2>9 DEF Joins
<1>3. CASE Receive
  <2>1. todo # <<>> /\ todo' = Tail(todo) /\ seen' = Append(seen, Head(todo))
    BY <1>3 DEF Receive
  <2>2. PICK T : seen \in Seq(T)
    BY <1>0 DEF OfKinds
  <2>3. PICK U : todo \in Seq(U)
    BY <1>0 DEF OfKinds
  <2> DEFINE S == T \cup U
  <2>4. seen \in Seq(S) /\ todo \in Seq(S)
    BY <2>2, <2>3
  <2> HIDE DEF S
  <2>5. Append(seen, Head(todo)) \o Tail(todo) = seen \o todo
    BY <2>1, <2>4
  <2> QED BY <2>1, <2>5
<1>4. \/ UNCHANGED <<todo, seen>> \/ ProviderAnswers \/ Receive
  BY DEF Next, EndContext, SessionStep, Prompt, Emit, RunCompletes, RunFails, EmitTerminal,
         ReaderStep, Take, TakeDelta, TakeMessage, TakeStart, TakeEnd, TakeCompleted, TakeFailed,
         TakeRefused, ChannelEnds, Record, Send, Write, runtime
<1> QED BY <1>1, <1>2, <1>3, <1>4

\* The Session and the Runtime leave the reader alone; the turn only goes on, and
\* not at all once it is finished.
LEMMA TurnGoesOn ==
  ASSUME SessionTypes, EndContext \/ SessionStep
  PROVE  /\ UNCHANGED <<mode, recorded, reader, handed, told>>
         /\ Len(seen) \in Nat /\ Len(seen') \in Nat /\ Len(seen) <= Len(seen')
         /\ Agree(Len(seen), seen, seen')
         /\ Finished => Finished' /\ seen' = seen
         /\ seen' = seen \/ Len(seen') = Len(seen) + 1
         /\ ctx = "done" => ctx' = "done"
         /\ session.at = "closed" => session'.at = "closed" /\ seen' = seen
<1>1. UNCHANGED <<mode, recorded, reader, handed, told>>
  BY DEF EndContext, SessionStep, Prompt, ProviderAnswers, Receive, Emit, RunCompletes, RunFails,
         EmitTerminal
<1>2. OfKinds(seen, Kinds) /\ OfKinds(todo, Kinds) /\ Len(seen) \in Nat /\ DOMAIN session = {"at", "event"}
  BY EventsOf DEF SessionTypes
<1>3. CASE Receive
  <2>1. /\ todo # <<>> /\ todo' = Tail(todo) /\ seen' = Append(seen, Head(todo))
        /\ session.at = "receive" /\ ctx' = ctx
    BY <1>3 DEF Receive
  <2>2. PICK T : seen \in Seq(T)
    BY <1>2 DEF OfKinds
  <2>3. Head(todo).kind \in Kinds
    BY <1>2, <2>1, EventTaken
  <2>4. Len(seen') = Len(seen) + 1
    BY <1>2, <2>1, <2>3, EventAdded
  <2> DEFINE U == T \cup {Head(todo)}
  <2>5. seen \in Seq(U) /\ Head(todo) \in U
    BY <2>2
  <2> HIDE DEF U
  <2>6. Agree(Len(seen), seen, seen')
    BY <2>1, <2>5 DEF Agree
  <2>7. ~Finished /\ session.at # "closed"
    BY <2>1 DEF Finished
  <2> QED BY <1>1, <1>2, <2>1, <2>4, <2>6, <2>7
<1>4. CASE ~Receive
  <2>1. seen' = seen
    BY <1>4 DEF EndContext, SessionStep, Prompt, ProviderAnswers, Emit, RunCompletes, RunFails,
                EmitTerminal, runtime
  <2>2. Agree(Len(seen), seen, seen')
    BY <2>1 DEF Agree
  <2>3. ctx = "done" => ctx' = "done"
    BY <1>4 DEF EndContext, SessionStep, Prompt, ProviderAnswers, Emit, RunCompletes, RunFails,
                EmitTerminal
  <2>4. session.at = "closed" => session'.at = "closed"
    BY <1>4 DEF EndContext, SessionStep, Prompt, ProviderAnswers, Emit, RunCompletes, RunFails,
                EmitTerminal
  <2>5. ASSUME Finished PROVE Finished'
    <3>1. session.at \in {"terminal", "closed"}
      BY <2>5 DEF Finished
    <3>2. EndContext \/ EmitTerminal
      BY <1>4, <3>1 DEF SessionStep, Prompt, ProviderAnswers, Emit, RunCompletes, RunFails
    <3>3. UNCHANGED <<todo, seen, kept>> /\ session'.at \in {"terminal", "closed"}
      BY <1>2, <3>1, <3>2 DEF EndContext, EmitTerminal, runtime
    <3> QED BY <2>5, <3>3 DEF Finished
  <2> QED BY <1>1, <1>2, <2>1, <2>2, <2>3, <2>4, <2>5
<1> QED BY <1>3, <1>4

\* So the reader's part of the turn is as it was.
LEMMA ReadingKept ==
  ASSUME SessionTypes, SeenInOrder, EndContext \/ SessionStep, NEW c \in 0..Len(seen)
  PROVE  /\ Reads(c) => Reads(c)'
         /\ Speaks(c) => Speaks(c)'
<1>1. /\ UNCHANGED <<mode, reader, handed, told>>
      /\ Len(seen) \in Nat /\ Len(seen) <= Len(seen') /\ Agree(Len(seen), seen, seen')
  BY TurnGoesOn
<1>2. \A k \in 1..c : seen'[k] = seen[k] /\ k \in 1..Len(seen)
  BY <1>1 DEF Agree
<1>3. /\ \A k \in 1..c : seen[k].kind \in {"start", "end"} => ArgsShown(k)' = ArgsShown(k)
      /\ SaidTo(c)' = SaidTo(c)
      /\ StepsTo(c)' = StepsTo(c)
  BY <1>1, TurnKept
<1>4. c > 0 => c \in 1..c
  OBVIOUS
<1>5. Remembers(c) => Remembers(c)'
  <2> SUFFICES ASSUME Remembers(c), NEW m \in 1..c, BelongsTo(seen', m, c)
               PROVE  \A id \in CallId :
                        CallsWith(id, seen'[m].calls) # {} =>
                          reader'.argsOf[id] = seen'[m].calls[Max(CallsWith(id, seen'[m].calls))].n
    BY DEF Remembers
  <2>1. \A j \in (m + 1)..c : j \in 1..c
    OBVIOUS
  <2>2. BelongsTo(seen, m, c) /\ seen'[m] = seen[m]
    BY <1>2, <2>1 DEF BelongsTo
  <2> QED BY <1>1, <2>2 DEF Remembers
<1>6. OpenStep(c)' = OpenStep(c)
  BY <1>2, <1>3, <1>4 DEF OpenStep
<1>7. Collects(c) => Collects(c)'
  BY <1>1, <1>2, <1>3, <1>4, <1>6 DEF Collects
<1>8. HasAnswer(c) => HasAnswer(c)'
  BY <1>1, <1>2, <1>4 DEF HasAnswer
<1>9. Speaks(c) => Speaks(c)'
  <2>1. Flow' = Flow
    BY <1>1 DEF Flow, Body, InHand, Pending
  <2> QED BY <1>1, <1>3, <2>1 DEF Speaks
<1> QED BY <1>5, <1>7, <1>8, <1>9 DEF Reads

\* The Session fills its channel in the order of the turn.
LEMMA PassingKept ==
  ASSUME SessionTypes, SeenInOrder, EndContext \/ SessionStep, NEW c \in 0..Len(seen), Passed(c)
  PROVE  Passed(c)'
<1>0. /\ OfKinds(seen, Kinds) /\ OfKinds(todo, Kinds) /\ OfKinds(out, Kinds)
      /\ Len(seen) \in Nat /\ Len(out) \in Nat /\ (out # <<>> => Len(out) >= 1)
      /\ DOMAIN session = {"at", "event"}
      /\ ctx \in {"live", "done"}
  BY EventsOf DEF SessionTypes
<1>1. InChannel(c) /\ EmitsNext(c) /\ AllThere(c)
  BY DEF Passed
<1>2. CASE EndContext
  <2>1. ctx' = "done" /\ UNCHANGED <<seen, session, out>>
    BY <1>2 DEF EndContext, runtime
  <2> QED BY <1>1, <2>1 DEF Passed, InChannel, EmitsNext, AllThere
<1>3. CASE Prompt
  <2>1. seen = <<>> /\ out = <<>> /\ seen' = seen /\ ctx' = ctx /\ Len(<<>>) = 0
    BY <1>1, <1>3 DEF Prompt, InChannel, runtime
  <2>2. CASE ctx = "live"
    <3>1. session'.at = "receive" /\ out' = <<>>
      BY <1>0, <1>3, <2>1, <2>2 DEF Prompt
    <3>2. c + Len(out') = Len(seen')
      BY <1>0, <2>1, <3>1
    <3> QED BY <2>1, <3>1, <3>2 DEF Passed, InChannel, EmitsNext, AllThere
  <2>3. CASE ctx # "live"
    <3>1. session'.at = "closed" /\ out' = <<Refused>>
      BY <1>0, <1>3, <2>1, <2>3 DEF Prompt
    <3>2. Refused.kind \in EndKinds /\ Refused.kind \in Kinds
      BY DEF Refused, Blank, EndKinds, Kinds
    <3>3. Len(out') = 1 /\ out'[1] = Refused
      BY <3>1, <3>2, OneEvent
    <3> QED BY <2>1, <2>3, <3>1, <3>2, <3>3 DEF Passed, InChannel, EmitsNext, AllThere
  <2> QED BY <2>2, <2>3
<1>4. CASE ProviderAnswers
  <2>1. UNCHANGED <<seen, session, out, ctx>>
    BY <1>4 DEF ProviderAnswers
  <2> QED BY <1>1, <2>1 DEF Passed, InChannel, EmitsNext, AllThere
<1>5. CASE Receive
  <2>1. /\ session.at = "receive" /\ todo # <<>> /\ seen' = Append(seen, Head(todo))
        /\ UNCHANGED <<ctx, out>>
    BY <1>5 DEF Receive
  <2>2. Head(todo).kind \in Kinds
    BY <1>0, <2>1, EventTaken
  <2>3. PICK T : seen \in Seq(T)
    BY <1>0 DEF OfKinds
  <2> DEFINE U == T \cup {Head(todo)}
  <2>4. seen \in Seq(U) /\ Head(todo) \in U
    BY <2>3
  <2> HIDE DEF U
  <2>5. /\ Len(seen') = Len(seen) + 1 /\ seen'[Len(seen')] = Head(todo)
        /\ \A k \in 1..Len(seen) : seen'[k] = seen[k]
    BY <2>1, <2>4
  <2>6. InChannel(c)'
    <3>1. \A k \in 1..Len(out) : out[k].kind \notin EndKinds /\ c + k <= Len(seen) /\ out[k] = seen[c + k]
      BY <1>1, <2>1 DEF InChannel
    <3>2. \A k \in 1..Len(out) : c + k <= Len(seen') /\ out[k] = seen'[c + k]
      BY <1>0, <2>5, <3>1
    <3>3. session'.at \in {"receive", "emit"}
      BY <1>5, <2>1 DEF Receive
    <3> QED BY <2>1, <3>1, <3>2, <3>3 DEF InChannel
  <2>7. CASE ctx = "live"
    <3>1. session'.at = "emit" /\ session'.event = Head(todo)
      BY <1>5, <2>7 DEF Receive, Skips
    <3>2. c + Len(out) = Len(seen)
      BY <1>1, <2>1, <2>7 DEF AllThere
    <3>3. EmitsNext(c)'
      BY <1>0, <2>1, <2>5, <3>1, <3>2 DEF EmitsNext
    <3> QED BY <2>6, <3>1, <3>3 DEF Passed, AllThere
  <2>8. CASE ctx # "live"
    <3>1. session' = session
      BY <1>0, <1>5, <2>8 DEF Receive, Skips
    <3> QED BY <2>1, <2>6, <2>8, <3>1 DEF Passed, EmitsNext, AllThere
  <2> QED BY <2>7, <2>8
<1>6. CASE Emit
  <2>1. session.at = "emit" /\ session'.at = "receive" /\ UNCHANGED <<ctx, seen>>
    BY <1>0, <1>6 DEF Emit, runtime
  <2>2. c + Len(out) + 1 = Len(seen) /\ session.event = seen[Len(seen)]
    BY <1>1, <2>1 DEF EmitsNext
  <2>3. \A k \in 1..Len(out) : out[k].kind \notin EndKinds /\ c + k <= Len(seen) /\ out[k] = seen[c + k]
    BY <1>1, <2>1 DEF InChannel
  <2>4. CASE out' = Append(out, session.event)
    <3>1. session.event.kind \in RuntimeKinds /\ session.event.kind \notin EndKinds
          /\ session.event.kind \in Kinds
      <4>1. Len(seen) \in 1..Len(seen)
        BY <1>0, <2>2
      <4> QED BY <2>2, <4>1 DEF SeenInOrder, RuntimeKinds, EndKinds, Kinds
    <3>2. /\ Len(out') = Len(out) + 1 /\ out'[Len(out) + 1] = session.event
          /\ \A k \in 1..Len(out) : out'[k] = out[k]
      <4>1. PICK T : out \in Seq(T)
        BY <1>0 DEF OfKinds
      <4> DEFINE U == T \cup {session.event}
      <4>2. out \in Seq(U) /\ session.event \in U
        BY <4>1
      <4> HIDE DEF U
      <4> QED BY <2>4, <4>2
    <3>3. ASSUME NEW k \in 1..Len(out')
          PROVE  out'[k].kind \notin EndKinds /\ c + k <= Len(seen) /\ out'[k] = seen[c + k]
      <4>1. k \in 1..Len(out) \/ k = Len(out) + 1
        BY <1>0, <3>2
      <4>2. CASE k = Len(out) + 1
        <5>1. c + k = Len(seen)
          BY <1>0, <2>2, <4>2
        <5> QED BY <1>0, <2>2, <3>1, <3>2, <4>2, <5>1
      <4> QED BY <2>3, <3>2, <4>1, <4>2
    <3>4. InChannel(c)'
      BY <2>1, <3>3 DEF InChannel
    <3>5. c + Len(out') = Len(seen)
      BY <1>0, <2>2, <3>2
    <3> QED BY <2>1, <3>4, <3>5 DEF Passed, EmitsNext, AllThere
  <2>5. CASE ctx = "done" /\ out' = out
    <3>1. InChannel(c)'
      BY <2>1, <2>3, <2>5 DEF InChannel
    <3> QED BY <2>1, <2>5, <3>1 DEF Passed, EmitsNext, AllThere
  <2> QED BY <1>6, <2>4, <2>5 DEF Emit
<1>7. CASE RunCompletes \/ RunFails
  <2>1. session.at = "receive" /\ session'.at = "terminal" /\ UNCHANGED <<ctx, seen, out>>
    BY <1>0, <1>7 DEF RunCompletes, RunFails, runtime
  <2>2. InChannel(c)'
    BY <1>1, <2>1 DEF InChannel
  <2> QED BY <1>1, <2>1, <2>2 DEF Passed, EmitsNext, AllThere
<1>8. CASE EmitTerminal
  <2>1. /\ session.at = "terminal" /\ session'.at = "closed" /\ UNCHANGED <<ctx, seen>>
        /\ out' = Append(out, session.event)
    BY <1>0, <1>8 DEF EmitTerminal, runtime
  <2>2. \A k \in 1..Len(out) : out[k].kind \notin EndKinds /\ c + k <= Len(seen) /\ out[k] = seen[c + k]
    BY <1>1, <2>1 DEF InChannel
  <2>3. session.event.kind \in EndKinds
    BY <2>1 DEF SessionTypes, EndKinds
  <2>4. /\ Len(out') = Len(out) + 1 /\ out'[Len(out) + 1] = session.event
        /\ \A k \in 1..Len(out) : out'[k] = out[k]
    <3>1. PICK T : out \in Seq(T)
      BY <1>0 DEF OfKinds
    <3> DEFINE U == T \cup {session.event}
    <3>2. out \in Seq(U) /\ session.event \in U
      BY <3>1
    <3> HIDE DEF U
    <3> QED BY <2>1, <3>2
  <2>5. ASSUME NEW k \in 1..Len(out')
        PROVE  /\ out'[k].kind \in EndKinds => k = Len(out')
               /\ out'[k].kind \notin EndKinds => c + k <= Len(seen) /\ out'[k] = seen[c + k]
    <3>1. k \in 1..Len(out) \/ k = Len(out) + 1
      BY <1>0, <2>4
    <3> QED BY <2>2, <2>3, <2>4, <3>1
  <2>6. InChannel(c)'
    <3>1. out'[Len(out')].kind \in EndKinds
      BY <2>3, <2>4
    <3> QED BY <2>1, <2>5, <3>1 DEF InChannel
  <2>7. out' # <<>>
    <3>1. Len(<<>>) = 0 /\ Len(out') # 0
      BY <1>0, <2>4
    <3> QED BY <3>1
  <2>8. ctx = "live" => c + Len(out') = Len(seen) + 1
    <3>1. ctx = "live" => c + Len(out) = Len(seen)
      BY <1>1, <2>1 DEF AllThere
    <3> QED BY <1>0, <2>4, <3>1
  <2> QED BY <2>1, <2>6, <2>7, <2>8 DEF Passed, EmitsNext, AllThere
<1> QED BY <1>2, <1>3, <1>4, <1>5, <1>6, <1>7, <1>8 DEF SessionStep

\* A run that is said to have completed has.
LEMMA SessionConcludes ==
  ASSUME SessionTypes, SeenInOrder, EndContext \/ SessionStep, Concludes, Heard
  PROVE  Concludes'
<1>0. /\ OfKinds(seen, Kinds) /\ OfKinds(out, Kinds) /\ Len(out) \in Nat
      /\ DOMAIN session = {"at", "event"}
      /\ UNCHANGED <<mode, reader>>
      /\ Finished => Finished'
      /\ ctx = "done" => ctx' = "done"
      /\ session.at = "closed" => session'.at = "closed"
      /\ ctx \in {"live", "done"}
  BY EventsOf, TurnGoesOn DEF SessionTypes
<1>1. session'.at = "terminal" /\ session'.event.kind = "completed" => Finished'
  <2> SUFFICES ASSUME session'.at = "terminal", session'.event.kind = "completed" PROVE Finished'
    OBVIOUS
  <2>1. CASE session.at = "terminal"
    <3>1. EndContext
      BY <1>0, <2>1 DEF SessionStep, Prompt, ProviderAnswers, Receive, Emit, RunCompletes, RunFails,
                        EmitTerminal
    <3>2. session' = session
      BY <3>1 DEF EndContext
    <3> QED BY <1>0, <2>1, <3>2 DEF Concludes
  <2>2. CASE session.at # "terminal"
    <3>1. RunCompletes \/ RunFails
      BY <1>0, <2>2 DEF EndContext, SessionStep, Prompt, ProviderAnswers, Receive, Emit, EmitTerminal
    <3>2. Failed.kind = "failed"
      BY DEF Failed, Blank
    <3>3. RunCompletes /\ kept' = TRUE
      BY <3>1, <3>2 DEF RunCompletes, RunFails
    <3>4. Answered /\ UNCHANGED <<todo, seen>>
      BY <3>3 DEF RunCompletes, runtime
    <3>5. seen # <<>> /\ todo = <<>> /\ seen[Len(seen)].kind = "message" /\ seen[Len(seen)].calls = <<>>
      BY <1>0, <3>4, AnsweredMeans
    <3> QED BY <3>3, <3>4, <3>5 DEF Finished
  <2> QED BY <2>1, <2>2
<1>2. ASSUME reader'.at # "closed", NEW k \in 1..Len(out')
      PROVE  /\ out'[k].kind = "completed" => Finished'
             /\ out'[k].kind = "refused" => ctx' = "done"
  <2>1. \A j \in 1..Len(out) :
          /\ out[j].kind = "completed" => Finished'
          /\ out[j].kind = "refused" => ctx' = "done"
    BY <1>0, <1>2 DEF Concludes
  <2>2. CASE out' = out
    BY <2>1, <2>2
  <2>3. ASSUME NEW e, e.kind \in Kinds, out' = Append(out, e),
               e.kind = "completed" => Finished', e.kind = "refused" => ctx' = "done"
        PROVE  /\ out'[k].kind = "completed" => Finished'
               /\ out'[k].kind = "refused" => ctx' = "done"
    <3>1. PICK T : out \in Seq(T)
      BY <1>0 DEF OfKinds
    <3> DEFINE U == T \cup {e}
    <3>2. out \in Seq(U) /\ e \in U
      BY <3>1
    <3> HIDE DEF U
    <3>3. out'[k] = e \/ (k \in 1..Len(out) /\ out'[k] = out[k])
      BY <2>3, <3>2
    <3> QED BY <2>1, <2>3, <3>3
  <2>4. CASE Emit
    <3>1. session.at = "emit" /\ session.event.kind \in Kinds
      BY <2>4 DEF Emit, SessionTypes
    <3>2. out' = out \/ out' = Append(out, session.event)
      BY <2>4 DEF Emit
    <3>3. PICK c \in 0..Len(seen) : EmitsNext(c)
      BY <1>0, <1>2 DEF Heard, Following, Passed
    <3>4. session.event = seen[Len(seen)] /\ Len(seen) \in 1..Len(seen)
      <4>1. Len(seen) \in Nat /\ c + Len(out) + 1 = Len(seen) /\ session.event = seen[Len(seen)]
        BY <1>0, <3>1, <3>3, EventsOf DEF EmitsNext
      <4> QED BY <1>0, <4>1
    <3>5. session.event.kind \notin EndKinds
      BY <3>4 DEF SeenInOrder, RuntimeKinds, EndKinds
    <3> QED BY <2>2, <2>3, <3>1, <3>2, <3>5 DEF EndKinds
  <2>5. CASE EmitTerminal
    <3>1. session.at = "terminal" /\ out' = Append(out, session.event)
      BY <2>5 DEF EmitTerminal
    <3>2. session.event.kind \in {"completed", "failed"}
      BY <3>1 DEF SessionTypes
    <3>3. session.event.kind \in Kinds
      BY <3>2 DEF Kinds
    <3>4. session.event.kind = "completed" => Finished'
      BY <1>0, <3>1 DEF Concludes
    <3>5. session.event.kind = "refused" => ctx' = "done"
      BY <3>2
    <3> QED BY <2>3, <3>1, <3>3, <3>4, <3>5
  <2>6. CASE Prompt
    <3>1. out' = out \/ (out' = <<Refused>> /\ ctx' = "done")
      BY <1>0, <2>6 DEF Prompt
    <3>2. Refused.kind = "refused" /\ Refused.kind \in Kinds
      BY DEF Refused, Blank, Kinds
    <3>3. CASE out' = <<Refused>> /\ ctx' = "done"
      <4>1. Len(out') = 1 /\ out'[1] = Refused
        BY <3>2, <3>3, OneEvent
      <4>2. out'[k] = Refused
        BY <4>1
      <4> QED BY <3>2, <3>3, <4>2
    <3> QED BY <2>2, <3>1, <3>3
  <2>7. CASE EndContext \/ ProviderAnswers \/ Receive \/ RunCompletes \/ RunFails
    BY <2>2, <2>7 DEF EndContext, ProviderAnswers, Receive, RunCompletes, RunFails
  <2> QED BY <2>4, <2>5, <2>6, <2>7 DEF SessionStep
<1>3. reader'.at = "record" =>
        session'.at = "closed" /\ out' = <<>> /\ (ctx' = "live" => Finished')
  <2> SUFFICES ASSUME reader'.at = "record"
               PROVE  session'.at = "closed" /\ out' = <<>> /\ (ctx' = "live" => Finished')
    OBVIOUS
  <2>1. session.at = "closed" /\ out = <<>> /\ (ctx = "live" => Finished)
    BY <1>0 DEF Concludes
  <2>2. EndContext
    BY <2>1 DEF SessionStep, Prompt, ProviderAnswers, Receive, Emit, RunCompletes, RunFails, EmitTerminal
  <2> QED BY <1>0, <2>1, <2>2 DEF EndContext
<1>4. reader'.at = "loop" /\ mode' # "stream" /\ session'.at = "closed" /\ out' = <<>> /\ ctx' = "live" =>
        Finished'
  <2> SUFFICES ASSUME reader'.at = "loop", mode' # "stream", session'.at = "closed", out' = <<>>,
                      ctx' = "live"
               PROVE  Finished'
    OBVIOUS
  <2>1. ~EndContext
    BY DEF EndContext
  <2>2. ~Prompt
    <3>1. SUFFICES ASSUME Prompt PROVE FALSE
      OBVIOUS
    <3>2. out' = <<Refused>>
      BY <1>0, <3>1 DEF Prompt
    <3>3. Refused.kind \in Kinds
      BY DEF Refused, Blank, Kinds
    <3>4. Len(<<Refused>>) = 1 /\ Len(<<>>) = 0
      BY <3>3, OneEvent
    <3> QED BY <3>2, <3>4
  <2>3. ~EmitTerminal
    <3>1. SUFFICES ASSUME EmitTerminal PROVE FALSE
      OBVIOUS
    <3>2. out' = Append(out, session.event) /\ session.event.kind \in {"completed", "failed"}
      BY <3>1 DEF EmitTerminal, SessionTypes
    <3>3. session.event.kind \in Kinds
      BY <3>2 DEF Kinds
    <3>4. Len(out') = Len(out) + 1 /\ Len(<<>>) = 0
      BY <1>0, <3>2, <3>3, EventAdded
    <3> QED BY <1>0, <3>4
  <2> QED BY <1>0, <2>1, <2>2, <2>3 DEF SessionStep, ProviderAnswers, Receive, Emit, RunCompletes, RunFails
<1> QED BY <1>1, <1>2, <1>3, <1>4 DEF Concludes

-----------------------------------------------------------------------------
(* Prefixes *)

\* A prefix, element by element.
LEMMA PrefixIs ==
  ASSUME NEW s, NEW t, IsSeq(s), IsSeq(t)
  PROVE  IsPrefix(s, t) <=> Len(s) <= Len(t) /\ Agree(Len(s), s, t)
<1>1. PICK T : s \in Seq(T)
  BY DEF IsSeq
<1>2. PICK U : t \in Seq(U)
  BY DEF IsSeq
<1> DEFINE S == T \cup U
<1>3. s \in Seq(S) /\ t \in Seq(S)
  BY <1>1, <1>2
<1> HIDE DEF S
<1>4. Len(s) \in Nat /\ Len(t) \in Nat
  BY <1>3
<1>5. ASSUME Len(s) <= Len(t)
      PROVE  SubSeq(s, 1, Len(s)) = SubSeq(t, 1, Len(s)) <=> Agree(Len(s), s, t)
  <2> DEFINE a == SubSeq(s, 1, Len(s))
             b == SubSeq(t, 1, Len(s))
  <2>1. /\ a \in Seq(S) /\ Len(a) = Len(s) /\ \A i \in 1..Len(s) : a[i] = s[i]
        /\ b \in Seq(S) /\ Len(b) = Len(s) /\ \A i \in 1..Len(s) : b[i] = t[i]
    BY <1>3, <1>4, <1>5
  <2> HIDE DEF a, b
  <2>2. a = b => Agree(Len(s), s, t)
    BY <2>1 DEF Agree
  <2>3. ASSUME Agree(Len(s), s, t) PROVE a = b
    <3>1. \A i \in 1..Len(a) : a[i] = b[i]
      BY <2>1, <2>3 DEF Agree
    <3> QED BY <2>1, <3>1, SeqEqual
  <2> QED BY <2>2, <2>3 DEF a, b
<1> QED BY <1>5 DEF IsPrefix

\* What is said earlier still is what begins, when more is said.
LEMMA PrefixOfMore ==
  ASSUME NEW s, NEW t, NEW u, IsSeq(s), IsSeq(t), IsSeq(u), IsPrefix(s, t), IsPrefix(t, u)
  PROVE  IsPrefix(s, u)
<1>1. Len(s) \in Nat /\ Len(t) \in Nat /\ Len(u) \in Nat
  BY DEF IsSeq
<1>2. Len(s) <= Len(t) /\ Agree(Len(s), s, t) /\ Len(t) <= Len(u) /\ Agree(Len(t), t, u)
  BY PrefixIs
<1>3. Len(s) <= Len(u) /\ Agree(Len(s), s, u)
  BY <1>1, <1>2 DEF Agree
<1> QED BY <1>3, PrefixIs

\* A sequence begins with its first part.
LEMMA PrefixOfJoin ==
  ASSUME NEW s, NEW t, IsSeq(s), IsSeq(t)
  PROVE  IsSeq(s \o t) /\ IsPrefix(s, s \o t)
<1>1. PICK T : s \in Seq(T)
  BY DEF IsSeq
<1>2. PICK U : t \in Seq(U)
  BY DEF IsSeq
<1> DEFINE S == T \cup U
<1>3. s \in Seq(S) /\ t \in Seq(S)
  BY <1>1, <1>2
<1> HIDE DEF S
<1>4. s \o t \in Seq(S) /\ Len(s \o t) = Len(s) + Len(t) /\ Len(s) \in Nat /\ Len(t) \in Nat
      /\ \A i \in 1..Len(s) : (s \o t)[i] = s[i]
  BY <1>3
<1> DEFINE w == s \o t
<1>5. IsSeq(w) /\ Len(s) <= Len(w) /\ Agree(Len(s), s, w)
  <2> HIDE DEF w
  <2>1. w \in Seq(S) /\ Len(w) = Len(s) + Len(t) /\ \A i \in 1..Len(s) : w[i] = s[i]
    BY <1>4 DEF w
  <2> QED BY <1>4, <2>1 DEF IsSeq, Agree
<1> HIDE DEF w
<1>6. IsPrefix(s, w)
  BY <1>5, PrefixIs
<1> QED BY <1>5, <1>6 DEF w

\* Nothing at the end changes nothing.
LEMMA NothingAdded ==
  ASSUME NEW s, IsSeq(s)
  PROVE  s \o <<>> = s
BY ConcatEmptySeq DEF IsSeq

\* The empty sequence and single events.
LEMMA ShortSeqs == IsSeq(<<>>) /\ \A e : IsSeq(<<e>>)
<1>1. <<>> \in Seq({})
  OBVIOUS
<1>2. ASSUME NEW e PROVE IsSeq(<<e>>)
  <2>1. <<e>> \in Seq({e})
    OBVIOUS
  <2> QED BY <2>1 DEF IsSeq
<1> QED BY <1>1, <1>2 DEF IsSeq

\* The same after a step.
LEMMA SaidBeforeNext ==
  ASSUME NEW n \in Nat, NEW c \in 0..n
  PROVE  (IsSeq(SaidTo(c)) /\ IsSeq(SaidTo(n)) /\ IsPrefix(SaidTo(c), SaidTo(n)))'
<1>1. IsSeq(SaidTo(c)) /\ IsSeq(SaidTo(n)) /\ IsPrefix(SaidTo(c), SaidTo(n))
  BY SaidBefore, OneEventMore
<1> QED BY <1>1, PTL

\* What is on its way to a client is a sequence.
LEMMA FlowIsSeq ==
  ASSUME OfKinds(told, ToldKinds)
  PROVE  IsSeq(Body) /\ IsSeq(InHand) /\ IsSeq(Pending) /\ IsSeq(Body \o InHand) /\ IsSeq(Flow)
<1>1. PICK T : told \in Seq(T)
  BY DEF OfKinds
<1>2. IsSeq(Body)
  <2>1. CASE told # <<>>
    <3>1. Front(told) \in Seq(T)
      BY <1>1, <2>1 DEF Front
    <3> QED BY <1>1, <3>1 DEF Body, IsSeq
  <2>2. CASE told = <<>>
    BY <1>1, <2>2 DEF Body, IsSeq
  <2> QED BY <2>1, <2>2
<1>3. IsSeq(InHand) /\ IsSeq(Pending)
  BY ShortSeqs DEF InHand, Pending
<1>4. IsSeq(Body \o InHand)
  BY <1>2, <1>3, PrefixOfJoin
<1> QED BY <1>2, <1>3, <1>4, PrefixOfJoin DEF Flow

\* Steps of the Runtime and the Session do not change what was told, nor its truth.
LEMMA SessionKeepsTelling ==
  ASSUME SessionTypes, ReaderTypes, Ordered(seen \o todo), Heard, DonesAreTrue, LastWord,
         EndContext \/ SessionStep
  PROVE  Heard' /\ DonesAreTrue' /\ LastWord'
<1>0. /\ UNCHANGED <<mode, recorded, reader, handed, told>>
      /\ Len(seen) \in Nat /\ Len(seen') \in Nat /\ Len(seen) <= Len(seen')
      /\ Agree(Len(seen), seen, seen')
      /\ Finished => Finished' /\ seen' = seen
      /\ seen' = seen \/ Len(seen') = Len(seen) + 1
      /\ session.at = "closed" => session'.at = "closed" /\ seen' = seen
      /\ SeenInOrder
  BY TurnGoesOn, SeenIsOrdered DEF SessionTypes
<1>1. Body' = Body /\ InHand' = InHand /\ Pending' = Pending /\ Flow' = Flow
  BY <1>0 DEF Body, InHand, Pending, Flow
<1>3. ASSUME reader'.at # "closed" PROVE \E c \in 0..Len(seen') : Following(c)'
  <2>1. PICK c \in 0..Len(seen) : Following(c)
    BY <1>0, <1>3 DEF Heard
  <2>2. Passed(c)' /\ Reads(c)' /\ Speaks(c)'
    BY <1>0, <2>1, PassingKept, ReadingKept DEF Following
  <2>3. c \in 0..Len(seen')
    BY <1>0, <2>1
  <2> QED BY <2>2, <2>3 DEF Following
<1>4. ASSUME NEW n, n = Len(seen)
      PROVE  SaidTo(n)' = SaidTo(n) /\ StepsTo(n)' = StepsTo(n) /\ n \in Nat
  BY <1>0, <1>4, TurnKept
<1>5. ASSUME reader'.at = "closed", mode' = "stream"
      PROVE  IsPrefix(Body \o InHand, SaidTo(Len(seen)))'
  <2>1. PICK n : n = Len(seen)
    OBVIOUS
  <2>2. PICK p : p = Len(seen')
    OBVIOUS
  <2>3. IsPrefix(Body \o InHand, SaidTo(n))
    BY <1>0, <1>5, <2>1 DEF Heard
  <2>4. /\ n \in Nat /\ p \in Nat /\ n \in 0..p
        /\ SaidTo(n)' = SaidTo(n)
    BY <1>0, <1>4, <2>1, <2>2
  <2>5. (IsSeq(SaidTo(n)) /\ IsSeq(SaidTo(p)) /\ IsPrefix(SaidTo(n), SaidTo(p)))'
    BY <2>4, SaidBeforeNext
  <2>6. IsSeq(Body \o InHand)
    BY FlowIsSeq DEF ReaderTypes
  <2>7. IsPrefix(Body \o InHand, SaidTo(p)')
    BY <2>3, <2>4, <2>5, <2>6, PrefixOfMore
  <2>8. SaidTo(p)' = SaidTo(Len(seen))'
    BY <2>2
  <2> QED BY <1>1, <2>7, <2>8
<1>6. ASSUME NEW event, DoneIsTrue(event), event.kind = "done"
      PROVE  /\ Finished' /\ session'.at = "closed" /\ recorded'
             /\ event.text = seen'[Len(seen')].text
             /\ mode' = "stream" => Flow' = SaidTo(Len(seen))'
             /\ mode' # "stream" => event.calls = StepsTo(Len(seen))'
  <2>1. PICK n : n = Len(seen)
    OBVIOUS
  <2>2. seen' = seen /\ Finished' /\ session'.at = "closed" /\ recorded'
    BY <1>0, <1>6 DEF DoneIsTrue
  <2>3. SaidTo(n)' = SaidTo(n) /\ StepsTo(n)' = StepsTo(n)
    BY <1>4, <2>1
  <2>4. n = Len(seen')
    BY <2>1, <2>2
  <2> QED BY <1>0, <1>1, <1>6, <2>1, <2>2, <2>3, <2>4 DEF DoneIsTrue
<1>7. DonesAreTrue'
  BY <1>0, <1>6 DEF DonesAreTrue, DoneIsTrue
<1>8. LastWord'
  BY <1>0 DEF LastWord
<1> QED BY <1>3, <1>5, <1>7, <1>8 DEF Heard

-----------------------------------------------------------------------------
(* The readers *)

\* The next event in the channel is the next of the turn.
LEMMA NextIsTaken ==
  ASSUME SessionTypes, NEW kinds, Take(kinds), NEW c \in 0..Len(seen), Passed(c),
         Head(out).kind \notin EndKinds, NEW d, d = c + 1
  PROVE  /\ d \in 1..Len(seen) /\ Head(out) = seen[d]
         /\ Passed(d)'
         /\ session.at = "closed" => out' # <<>>
<1>0. /\ OfKinds(out, Kinds) /\ Len(out) \in Nat /\ Len(out) >= 1 /\ Len(seen) \in Nat
      /\ out # <<>> /\ out' = Tail(out) /\ UNCHANGED <<ctx, seen, session>>
  BY EventsOf DEF SessionTypes, Take, runtime
<1>1. InChannel(c) /\ EmitsNext(c) /\ AllThere(c)
  BY DEF Passed
<1>2. /\ Len(out') = Len(out) - 1 /\ Head(out) = out[1]
      /\ \A k \in 1..Len(out') : out'[k] = out[k + 1]
      /\ out' = <<>> <=> Len(out') = 0
  <2>1. PICK T : out \in Seq(T)
    BY <1>0 DEF OfKinds
  <2>2. Len(out') = Len(out) - 1 /\ \A k \in 1..Len(out') : out'[k] = out[k + 1]
    BY <1>0, <2>1
  <2>3. out' \in Seq(T) /\ Head(out) = out[1]
    BY <1>0, <2>1
  <2> QED BY <2>2, <2>3
<1>3. c + 1 <= Len(seen) /\ out[1] = seen[c + 1]
  <2>1. 1 \in 1..Len(out)
    BY <1>0
  <2> QED BY <1>1, <1>2, <2>1 DEF InChannel
<1>4. d \in 1..Len(seen) /\ Head(out) = seen[d]
  BY <1>0, <1>2, <1>3
<1>5. ASSUME NEW k \in 1..Len(out')
      PROVE  /\ out'[k].kind \in EndKinds => k = Len(out') /\ session.at = "closed"
             /\ out'[k].kind \notin EndKinds => d + k <= Len(seen) /\ out'[k] = seen[d + k]
  <2>1. k + 1 \in 1..Len(out) /\ out'[k] = out[k + 1] /\ c + (k + 1) = d + k
    BY <1>0, <1>2
  <2>2. /\ out[k + 1].kind \in EndKinds => k + 1 = Len(out) /\ session.at = "closed"
        /\ out[k + 1].kind \notin EndKinds => c + (k + 1) <= Len(seen) /\ out[k + 1] = seen[c + (k + 1)]
    BY <1>1, <2>1 DEF InChannel
  <2>3. k + 1 = Len(out) => k = Len(out')
    <3>1. Len(out') = Len(out) - 1 /\ k \in Int
      BY <1>2
    <3>2. Len(out) \in Nat
      BY <1>0
    <3> QED BY <3>1, <3>2
  <2> QED BY <2>1, <2>2, <2>3
<1>6. session.at = "closed" => out' # <<>> /\ out'[Len(out')].kind \in EndKinds
  <2> SUFFICES ASSUME session.at = "closed" PROVE out' # <<>> /\ out'[Len(out')].kind \in EndKinds
    OBVIOUS
  <2>1. out[Len(out)].kind \in EndKinds
    BY <1>0, <1>1 DEF InChannel
  <2>2. Len(out) # 1
    BY <1>2, <2>1
  <2>3. Len(out') \in 1..Len(out') /\ Len(out') + 1 = Len(out)
    BY <1>0, <1>2, <2>2
  <2>4. out'[Len(out')] = out[Len(out)]
    BY <1>2, <2>3
  <2> QED BY <1>2, <2>1, <2>3, <2>4
<1>7. session.at # "prompt"
  BY <1>0, <1>1 DEF InChannel
<1>8. InChannel(d)'
  BY <1>0, <1>5, <1>6, <1>7 DEF InChannel
<1>9. EmitsNext(d)'
  BY <1>0, <1>1, <1>2 DEF EmitsNext
<1>10. AllThere(d)'
  <2>1. d + Len(out') = c + Len(out)
    BY <1>0, <1>2
  <2> QED BY <1>0, <1>1, <1>6, <2>1 DEF AllThere
<1> QED BY <1>4, <1>6, <1>8, <1>9, <1>10 DEF Passed

\* How the turn ended is the last event in the channel.
LEMMA EndingIsTaken ==
  ASSUME SessionTypes, NEW kinds, Take(kinds), NEW c \in 0..Len(seen), Passed(c),
         Head(out).kind \in EndKinds
  PROVE  /\ session.at = "closed" /\ out' = <<>>
         /\ Passed(c)'
<1>0. /\ OfKinds(out, Kinds) /\ Len(out) \in Nat /\ Len(out) >= 1 /\ Len(seen) \in Nat
      /\ out # <<>> /\ out' = Tail(out) /\ UNCHANGED <<ctx, seen, session>>
  BY EventsOf DEF SessionTypes, Take, runtime
<1>1. InChannel(c) /\ EmitsNext(c) /\ AllThere(c)
  BY DEF Passed
<1>2. PICK T : out \in Seq(T)
  BY <1>0 DEF OfKinds
<1>3. Head(out) = out[1] /\ 1 \in 1..Len(out)
  BY <1>0, <1>2
<1>4. Len(out) = 1 /\ session.at = "closed"
  BY <1>1, <1>3 DEF InChannel
<1>5. out' = <<>>
  <2>1. out' \in Seq(T) /\ Len(out') = 0
    BY <1>0, <1>2, <1>4
  <2> QED BY <2>1
<1>6. ctx = "live" => c = Len(seen)
  BY <1>0, <1>1, <1>4 DEF AllThere
<1>7. Len(<<>>) = 0
  OBVIOUS
<1>8. Passed(c)'
  <2>1. InChannel(c)'
    <3>1. \A k \in 1..Len(out') : FALSE
      BY <1>5, <1>7
    <3> QED BY <1>0, <1>4, <1>5, <3>1 DEF InChannel
  <2>2. EmitsNext(c)'
    BY <1>0, <1>4 DEF EmitsNext
  <2>3. AllThere(c)'
    BY <1>0, <1>4, <1>5, <1>6 DEF AllThere
  <2> QED BY <2>1, <2>2, <2>3 DEF Passed
<1> QED BY <1>4, <1>5, <1>8

\* Between two steps of the reader the rest stays.
LEMMA ReaderAlone ==
  ASSUME ReaderStep \/ Write
  PROVE  /\ UNCHANGED <<mode, ctx, todo, seen, session, kept>>
         /\ recorded => recorded' = recorded \/ recorded' = TRUE
BY DEF ReaderStep, Take, TakeDelta, TakeMessage, TakeStart, TakeEnd, TakeCompleted, TakeFailed,
       TakeRefused, ChannelEnds, Record, Send, Write, runtime

\* What a run is said to have been stays true while the channel is read.
LEMMA ReaderConcludes ==
  ASSUME SessionTypes, ReaderTypes, Answering, Concludes, Heard, ReaderStep \/ Write
  PROVE  Concludes'
<1>0. /\ UNCHANGED <<mode, ctx, todo, seen, session, kept>>
      /\ Finished' <=> Finished
      /\ DOMAIN reader = {"at", "event", "answer", "steps", "stepOf", "argsOf"}
      /\ OfKinds(out, Kinds)
  <2>1. UNCHANGED <<mode, ctx, todo, seen, session, kept>>
    BY ReaderAlone
  <2>2. Finished' <=> Finished
    BY <2>1 DEF Finished
  <2> QED BY <2>1, <2>2 DEF ReaderTypes, SessionTypes
<1>1. ASSUME reader'.at # "closed" PROVE reader.at # "closed"
  BY <1>1 DEF ReaderStep, Take, TakeDelta, TakeMessage, TakeStart, TakeEnd, TakeCompleted, TakeFailed,
       TakeRefused, ChannelEnds, Record, Send, Write
<1>2. \/ out' = out
      \/ out # <<>> /\ out' = Tail(out)
  BY DEF ReaderStep, Take, TakeDelta, TakeMessage, TakeStart, TakeEnd, TakeCompleted, TakeFailed,
       TakeRefused, ChannelEnds, Record, Send, Write
<1>3. ASSUME reader'.at # "closed", NEW k \in 1..Len(out')
      PROVE  /\ out'[k].kind = "completed" => Finished'
             /\ out'[k].kind = "refused" => ctx' = "done"
  <2>1. \A j \in 1..Len(out) :
          /\ out[j].kind = "completed" => Finished'
          /\ out[j].kind = "refused" => ctx' = "done"
    BY <1>0, <1>1, <1>3 DEF Concludes
  <2>2. CASE out' = out
    BY <2>1, <2>2
  <2>3. CASE out # <<>> /\ out' = Tail(out)
    <3>1. PICK T : out \in Seq(T)
      BY <1>0 DEF OfKinds
    <3>2. k + 1 \in 1..Len(out) /\ out'[k] = out[k + 1]
      BY <2>3, <3>1
    <3> QED BY <2>1, <3>2
  <2> QED BY <1>2, <2>2, <2>3
<1>4. reader.at # "closed" => \E c \in 0..Len(seen) : Passed(c)
  BY DEF Heard, Following
<1>5. ASSUME NEW kinds, Take(kinds), Head(out).kind \notin EndKinds, session.at = "closed" PROVE out' # <<>>
  <2>1. reader.at # "closed"
    BY <1>5 DEF Take
  <2>2. PICK c \in 0..Len(seen) : Passed(c)
    BY <1>4, <2>1
  <2> QED BY <1>5, <2>2, NextIsTaken
<1>6. ASSUME TakeCompleted PROVE Finished' /\ out' = <<>> /\ session'.at = "closed"
  <2>1. Take({"completed"}) /\ reader.at # "closed" /\ out # <<>> /\ Head(out).kind = "completed"
    BY <1>6 DEF TakeCompleted, Take
  <2>2. PICK c \in 0..Len(seen) : Passed(c)
    BY <1>4, <2>1
  <2>3. Head(out).kind \in EndKinds
    BY <2>1 DEF EndKinds
  <2>4. session.at = "closed" /\ out' = <<>>
    BY <2>1, <2>2, <2>3, EndingIsTaken
  <2>5. 1 \in 1..Len(out) /\ out[1] = Head(out)
    <3>1. PICK T : out \in Seq(T)
      BY <1>0 DEF OfKinds
    <3> QED BY <2>1, <3>1
  <2>6. Finished
    BY <2>1, <2>5 DEF Concludes
  <2> QED BY <1>0, <2>4, <2>6
<1>7. ASSUME reader'.at = "record"
      PROVE  session'.at = "closed" /\ out' = <<>> /\ (ctx' = "live" => Finished')
  <2>1. CASE Write
    BY <1>0, <1>7, <2>1 DEF Write, Concludes
  <2>2. CASE TakeCompleted
    BY <1>6, <2>2
  <2>3. CASE ChannelEnds
    <3>1. mode # "stream"
      BY <1>0, <1>7, <2>3 DEF ChannelEnds, Go
    <3> QED BY <1>0, <2>3, <3>1 DEF ChannelEnds, Concludes
  <2>4. CASE TakeDelta \/ TakeMessage \/ TakeStart \/ TakeEnd
    <3>1. reader.at = "loop"
      BY <2>4 DEF Take, TakeDelta, TakeMessage, TakeStart, TakeEnd
    <3>2. reader'.at \in {"loop", "send"}
      BY <1>0, <2>4, <3>1 DEF TakeDelta, TakeMessage, TakeStart, TakeEnd, ThenSend
    <3> QED BY <1>7, <3>2
  <2>5. CASE TakeFailed \/ TakeRefused \/ Record \/ Send
    <3>1. reader'.at \in {"loop", "send", "closed"}
      BY <1>0, <2>5 DEF Take, TakeFailed, TakeRefused, Record, Send, ThenSend, Replies, Go
    <3> QED BY <1>7, <3>1
  <2> QED BY <2>1, <2>2, <2>3, <2>4, <2>5 DEF ReaderStep
<1>8. ASSUME reader'.at = "loop", mode' # "stream", session'.at = "closed", out' = <<>>, ctx' = "live"
      PROVE  Finished'
  <2>1. CASE Write
    BY <1>0, <1>8, <2>1 DEF Write, Concludes
  <2>2. CASE TakeCompleted
    BY <1>6, <2>2
  <2>3. CASE TakeDelta \/ TakeMessage \/ TakeStart \/ TakeEnd
    <3>1. PICK kinds : Take(kinds) /\ kinds \in {{"delta"}, {"message"}, {"start"}, {"end"}}
      BY <2>3 DEF TakeDelta, TakeMessage, TakeStart, TakeEnd
    <3>2. Head(out).kind \notin EndKinds
      BY <3>1 DEF Take, EndKinds
    <3> QED BY <1>0, <1>5, <1>8, <3>1, <3>2
  <2>4. CASE TakeRefused
    <3>1. out # <<>> /\ Head(out).kind = "refused" /\ reader.at = "loop"
      BY <2>4 DEF TakeRefused, Take
    <3>2. 1 \in 1..Len(out) /\ out[1] = Head(out)
      <4>1. PICK T : out \in Seq(T)
        BY <1>0 DEF OfKinds
      <4> QED BY <3>1, <4>1
    <3>3. ctx = "done"
      BY <3>1, <3>2 DEF Concludes
    <3> QED BY <1>0, <1>8, <3>3
  <2>5. CASE TakeFailed \/ ChannelEnds \/ Record
    <3>1. reader'.at \in {"record", "closed"}
      BY <1>0, <1>8, <2>5 DEF TakeFailed, ChannelEnds, Record, Replies, Go
    <3> QED BY <1>8, <3>1
  <2>6. CASE Send
    BY <1>0, <1>8, <2>6 DEF Send, Answering, OnlyStreamsSend
  <2> QED BY <2>1, <2>2, <2>3, <2>4, <2>5, <2>6 DEF ReaderStep
<1>9. session'.at = "terminal" /\ session'.event.kind = "completed" => Finished'
  BY <1>0 DEF Concludes
<1> QED BY <1>3, <1>7, <1>8, <1>9 DEF Concludes

\* The arguments remembered for a call that starts are those to be shown for it.
LEMMA ArgumentsAreRight ==
  ASSUME SeenInOrder, NEW c \in Nat, NEW d, d = c + 1, d \in 1..Len(seen), seen[d].kind = "start",
         Remembers(c)
  PROVE  seen[d].id \in CallId /\ reader.argsOf[seen[d].id] = ArgsShown(d)
<1>1. IsAsked(seen, d)
  BY DEF SeenInOrder, CallsAreAsked
<1>2. PICK m \in 1..d : BelongsTo(seen, m, d) /\ Lists(seen[m].calls, seen[d])
  BY <1>1 DEF IsAsked
<1>3. MessageOf(d) = m
  BY <1>2, MessageOfIs
<1>4. m \in 1..c /\ BelongsTo(seen, m, c)
  <2>1. m # d
    BY <1>2 DEF BelongsTo
  <2>2. m \in 1..c /\ \A j \in (m + 1)..c : j \in (m + 1)..d
    BY <2>1
  <2> QED BY <1>2, <2>2 DEF BelongsTo
<1>5. seen[d].id \in CallId
  BY <1>1 DEF IsAsked
<1> DEFINE calls == seen[m].calls
           W == CallsWith(seen[d].id, calls)
<1>6. reader.argsOf[seen[d].id] = calls[Max(W)].n
  <2>1. W # {}
    BY <1>2 DEF Lists
  <2> QED BY <1>4, <1>5, <2>1 DEF Remembers
<1>7. CASE Repeated(d)
  BY <1>3, <1>5, <1>6, <1>7 DEF ArgsShown
<1>8. CASE ~Repeated(d)
  <2>1. PICK k \in W : calls[k].n = seen[d].n
    BY <1>2 DEF Lists
  <2>2. \A l \in W : l = k
    BY <1>3, <1>8 DEF Repeated
  <2>3. k \in Int
    BY DEF CallsWith
  <2>4. W = {k} /\ k >= k
    BY <2>2, <2>3
  <2>5. Max(W) = k
    <3> HIDE DEF W
    <3> QED BY <2>4 DEF Max
  <2> QED BY <1>5, <1>6, <1>8, <2>1, <2>5 DEF ArgsShown
<1> QED BY <1>7, <1>8

\* Only a message changes what is remembered.
LEMMA RemembersOn ==
  ASSUME NEW c \in Nat, NEW d, d = c + 1, Remembers(c), seen' = seen,
         DOMAIN reader = {"at", "event", "answer", "steps", "stepOf", "argsOf"},
         \/ seen[d].kind # "message" /\ reader'.argsOf = reader.argsOf
         \/ seen[d].kind = "message" /\ reader'.argsOf = ArgsAfter(reader.argsOf, seen[d].calls)
  PROVE  Remembers(d)'
<1> SUFFICES ASSUME NEW m \in 1..d, BelongsTo(seen, m, d), NEW id \in CallId,
                    CallsWith(id, seen[m].calls) # {}
             PROVE  reader'.argsOf[id] = seen[m].calls[Max(CallsWith(id, seen[m].calls))].n
  BY DEF Remembers
<1>1. CASE seen[d].kind = "message"
  <2>1. m = d
    <3>1. m # d => d \in (m + 1)..d
      OBVIOUS
    <3> QED BY <1>1, <3>1 DEF BelongsTo
  <2> QED BY <1>1, <2>1 DEF ArgsAfter
<1>2. CASE seen[d].kind # "message"
  <2>1. m # d
    BY <1>2 DEF BelongsTo
  <2>2. m \in 1..c /\ \A j \in (m + 1)..c : j \in (m + 1)..d
    BY <2>1
  <2>3. BelongsTo(seen, m, c)
    BY <2>2 DEF BelongsTo
  <2> QED BY <1>2, <2>2, <2>3 DEF Remembers
<1> QED BY <1>1, <1>2

\* One more at the end.
LEMMA OneMore ==
  ASSUME NEW s, IsSeq(s), NEW e
  PROVE  s \o <<e>> = Append(s, e) /\ Len(Append(s, e)) = Len(s) + 1 /\ Len(s) \in Nat
<1>1. PICK T : s \in Seq(T)
  BY DEF IsSeq
<1> DEFINE U == T \cup {e}
<1>2. s \in Seq(U) /\ e \in U
  BY <1>1
<1> HIDE DEF U
<1> QED BY <1>2

\* w is t with b as the k-th element.
Replaces(w, t, k, b, U) ==
  /\ w \in Seq(U) /\ Len(w) = Len(t)
  /\ \A j \in 1..Len(t) : w[j] = IF j = k THEN b ELSE t[j]

\* An element is replaced.
LEMMA ElementReplaced ==
  ASSUME NEW U, NEW t \in Seq(U), NEW k \in 1..Len(t), NEW b \in U
  PROVE  Replaces([t EXCEPT ![k] = b], t, k, b, U)
BY DEF Replaces

\* With the result n, a step or the last of some steps is what the right side says.
Becomes(step, n, ended) == [step EXCEPT !.result = n] = ended
LastBecomes(steps, n, ended) == [steps EXCEPT ![Len(steps)].result = n] = ended

\* What a step becomes when it ends.
LEMMA StepEnds ==
  ASSUME NEW id, NEW args, NEW n
  PROVE  Becomes(NewStep(id, args), n, [id |-> id, args |-> args, result |-> n])
BY DEF Becomes, NewStep

\* The last step gets its result.
LEMMA LastStepEnds ==
  ASSUME NEW s, IsSeq(s), NEW a, NEW b, NEW t, t = Append(s, a), NEW n,
         Becomes(a, n, b)
  PROVE  LastBecomes(t, n, Append(s, b))
<1>1. PICK T : s \in Seq(T)
  BY DEF IsSeq
<1> DEFINE U == T \cup {a, b}
<1>2. s \in Seq(U) /\ a \in U /\ b \in U
  BY <1>1
<1> HIDE DEF U
<1> DEFINE w == [t EXCEPT ![Len(t)] = b]
           v == Append(s, b)
<1>3. /\ t \in Seq(U) /\ Len(t) = Len(s) + 1 /\ t[Len(t)] = a /\ Len(s) \in Nat
      /\ \A i \in 1..Len(s) : t[i] = s[i]
  BY <1>2
<1>4. [t EXCEPT ![Len(t)].result = n] = w
  BY <1>3 DEF Becomes
<1>5. /\ w \in Seq(U) /\ Len(w) = Len(t) /\ w[Len(t)] = b
      /\ \A i \in 1..Len(s) : w[i] = t[i]
  <2>1. Len(t) \in 1..Len(t) /\ \A i \in 1..Len(s) : i \in 1..Len(t) /\ i # Len(t)
    BY <1>3
  <2>2. t \in Seq(U) /\ b \in U
    BY <1>2, <1>3
  <2>3. Replaces(w, t, Len(t), b, U)
    BY <2>1, <2>2, ElementReplaced
  <2> HIDE DEF w
  <2> QED BY <2>1, <2>3 DEF Replaces
<1>6. /\ v \in Seq(U) /\ Len(v) = Len(s) + 1 /\ v[Len(s) + 1] = b
      /\ \A i \in 1..Len(s) : v[i] = s[i]
  BY <1>2
<1> HIDE DEF w, v
<1>7. ASSUME NEW i \in 1..Len(w) PROVE w[i] = v[i]
  <2>1. i \in 1..Len(s) \/ i = Len(s) + 1
    BY <1>3, <1>5
  <2> QED BY <1>3, <1>5, <1>6, <2>1
<1>8. w = v
  <2>1. Len(w) = Len(v)
    BY <1>3, <1>5, <1>6
  <2> QED BY <1>5, <1>6, <1>7, <2>1, SeqEqual
<1> QED BY <1>4, <1>8 DEF v, LastBecomes

\* Unless a call is about to end, none is open.
LEMMA NothingOpen ==
  ASSUME SeenInOrder, NEW c \in Nat, NEW d, d = c + 1, d \in 1..Len(seen), seen[d].kind # "end"
  PROVE  OpenStep(c) = <<>>
<1>1. ASSUME c > 0, seen[c].kind = "start" PROVE FALSE
  <2>1. c \in 1..Len(seen) /\ c < Len(seen)
    BY <1>1
  <2>2. seen[c + 1].kind = "end"
    BY <1>1, <2>1 DEF SeenInOrder
  <2> QED BY <2>2
<1> QED BY <1>1 DEF OpenStep

\* A call that ends is the one that is open.
LEMMA ItsCallIsOpen ==
  ASSUME SeenInOrder, NEW c \in Nat, NEW d, d = c + 1, d \in 1..Len(seen), seen[d].kind = "end"
  PROVE  /\ c > 0 /\ seen[c].kind = "start" /\ seen[c].id = seen[d].id
         /\ seen[d].id \in CallId
         /\ ArgsShown(d) = ArgsShown(c)
<1>1. d > 1 /\ seen[d - 1].kind = "start" /\ SameCall(seen[d - 1], seen[d])
  BY DEF SeenInOrder
<1>2. d - 1 = c /\ c >= 1
  BY <1>1
<1>3. seen[d].id \in CallId
  BY DEF SeenInOrder, CallsAreAsked, IsAsked
<1>4. ArgsShown(c + 1) = ArgsShown(c)
  <2>1. SameCall(seen[c + 1], seen[c])
    BY <1>1, <1>2 DEF SameCall
  <2> QED BY <1>2, <2>1, SameArguments
<1> QED BY <1>1, <1>2, <1>3, <1>4 DEF SameCall

\* What a step that reads an event of the turn does to the locals of the reader.
LEMMA ReadersTake ==
  ASSUME ReaderTypes, TakeDelta \/ TakeMessage \/ TakeStart \/ TakeEnd, NEW e, e = Head(out)
  PROVE  /\ reader.at = "loop" /\ UNCHANGED <<mode, ctx, todo, seen, session, kept, recorded, handed, told>>
         /\ \E kinds : Take(kinds)
         /\ e.kind \in RuntimeKinds /\ e.kind \notin EndKinds
         /\ IF e.kind = "message" THEN reader'.argsOf = ArgsAfter(reader.argsOf, e.calls)
            ELSE reader'.argsOf = reader.argsOf
         /\ e.kind = "message" /\ e.calls = <<>> => reader'.answer = e.text
         /\ e.kind \in {"delta", "message"} => reader'.steps = reader.steps /\ reader'.stepOf = reader.stepOf
         /\ mode # "stream" \/ e.kind = "message" => reader'.at = "loop"
         /\ mode = "stream" /\ e.kind # "message" => reader'.at = "send"
         /\ mode = "stream" /\ e.kind = "delta" => reader'.event = e
         /\ mode = "stream" /\ e.kind = "start" => reader'.event = ToolCall(e.id, reader.argsOf[e.id])
         /\ mode = "stream" /\ e.kind = "end" => reader'.event = ToolResult(e)
<1>0. /\ DOMAIN reader = {"at", "event", "answer", "steps", "stepOf", "argsOf"}
      /\ DOMAIN reader.stepOf = CallId
  BY DEF ReaderTypes, StepTypes
<1>1. ASSUME NEW kinds, Take(kinds)
      PROVE  /\ reader.at = "loop" /\ UNCHANGED <<mode, ctx, todo, seen, session, kept, recorded, handed>>
             /\ e.kind \in kinds
  BY <1>1 DEF Take, runtime
<1>2. CASE TakeDelta
  <2>1. Take({"delta"}) /\ told' = told
    BY <1>2 DEF TakeDelta
  <2>2. e.kind = "delta" /\ reader.at = "loop"
    BY <1>1, <2>1
  <2>3. reader' = IF mode # "stream" THEN reader
                  ELSE ThenSend(e, [reader EXCEPT !.answer = @ \o e.text])
    BY <1>2 DEF TakeDelta
  <2>4. reader'.argsOf = reader.argsOf /\ reader'.steps = reader.steps /\ reader'.stepOf = reader.stepOf
    BY <1>0, <2>3 DEF ThenSend
  <2>5. mode = "stream" => reader'.at = "send" /\ reader'.event = e
    BY <1>0, <2>3 DEF ThenSend
  <2>6. mode # "stream" => reader'.at = "loop"
    BY <2>2, <2>3
  <2>7. UNCHANGED <<mode, ctx, todo, seen, session, kept, recorded, handed>>
    BY <1>1, <2>1
  <2> QED BY <2>1, <2>2, <2>4, <2>5, <2>6, <2>7 DEF RuntimeKinds, EndKinds
<1>3. CASE TakeMessage
  <2>1. Take({"message"}) /\ told' = told
    BY <1>3 DEF TakeMessage
  <2>2. e.kind = "message" /\ reader.at = "loop"
    BY <1>1, <2>1
  <2>3. reader' = [reader EXCEPT !.argsOf = ArgsAfter(@, e.calls),
                                 !.answer = IF e.calls = <<>> THEN e.text ELSE @]
    BY <1>3 DEF TakeMessage
  <2>4. /\ reader'.argsOf = ArgsAfter(reader.argsOf, e.calls) /\ reader'.steps = reader.steps
        /\ reader'.stepOf = reader.stepOf /\ reader'.at = reader.at
        /\ e.calls = <<>> => reader'.answer = e.text
    BY <1>0, <2>3
  <2>5. UNCHANGED <<mode, ctx, todo, seen, session, kept, recorded, handed>>
    BY <1>1, <2>1
  <2> QED BY <2>1, <2>2, <2>4, <2>5 DEF RuntimeKinds, EndKinds
<1>4. CASE TakeStart
  <2>1. Take({"start"}) /\ told' = told
    BY <1>4 DEF TakeStart
  <2>2. e.kind = "start" /\ reader.at = "loop"
    BY <1>1, <2>1
  <2>3. mode = "stream" => reader' = ThenSend(ToolCall(e.id, reader.argsOf[e.id]), reader)
    BY <1>4 DEF TakeStart
  <2>4. mode = "stream" => /\ reader'.at = "send" /\ reader'.event = ToolCall(e.id, reader.argsOf[e.id])
                           /\ reader'.argsOf = reader.argsOf
    BY <1>0, <2>3 DEF ThenSend
  <2>5. mode # "stream" => reader'.at = "loop" /\ reader'.argsOf = reader.argsOf
    BY <1>0, <1>4, <2>2 DEF TakeStart
  <2>6. UNCHANGED <<mode, ctx, todo, seen, session, kept, recorded, handed>>
    BY <1>1, <2>1
  <2> QED BY <2>1, <2>2, <2>4, <2>5, <2>6 DEF RuntimeKinds, EndKinds
<1>5. CASE TakeEnd
  <2>1. Take({"end"}) /\ told' = told
    BY <1>5 DEF TakeEnd
  <2>2. e.kind = "end" /\ reader.at = "loop"
    BY <1>1, <2>1
  <2>3. mode = "stream" => reader' = ThenSend(ToolResult(e), reader)
    BY <1>5 DEF TakeEnd
  <2>4. mode = "stream" => /\ reader'.at = "send" /\ reader'.event = ToolResult(e)
                           /\ reader'.argsOf = reader.argsOf
    BY <1>0, <2>3 DEF ThenSend
  <2>5. mode # "stream" => reader'.at = "loop" /\ reader'.argsOf = reader.argsOf
    BY <1>0, <1>5, <2>2 DEF TakeEnd
  <2>6. UNCHANGED <<mode, ctx, todo, seen, session, kept, recorded, handed>>
    BY <1>1, <2>1
  <2> QED BY <2>1, <2>2, <2>4, <2>5, <2>6 DEF RuntimeKinds, EndKinds
<1> QED BY <1>2, <1>3, <1>4, <1>5

\* The steps of a reply follow the turn.
LEMMA CollectsOn ==
  ASSUME ReaderTypes, SeenInOrder, TakeDelta \/ TakeMessage \/ TakeStart \/ TakeEnd,
         NEW c \in Nat, NEW d, d = c + 1, d \in 1..Len(seen), Head(out) = seen[d],
         mode # "stream", Remembers(c), Collects(c)
  PROVE  /\ reader'.steps = StepsTo(d) \o OpenStep(d)
         /\ seen[d].kind = "start" => reader'.stepOf[seen[d].id] = Len(reader'.steps)
<1>0. /\ DOMAIN reader = {"at", "event", "answer", "steps", "stepOf", "argsOf"}
      /\ DOMAIN reader.stepOf = CallId
      /\ d > 0
  BY DEF ReaderTypes, StepTypes
<1>1. PICK before : before = StepsTo(c)
  OBVIOUS
<1>2. /\ IsSeq(before) /\ reader.steps = before \o OpenStep(c)
      /\ StepsTo(d) = before \o Step(d)
  BY <1>1, OneEventMore DEF Collects
<1>3. before \o <<>> = before
  BY <1>2, NothingAdded
<1>4. CASE seen[d].kind \in {"delta", "message"}
  <2>1. OpenStep(c) = <<>> /\ OpenStep(d) = <<>> /\ Step(d) = <<>>
    <3>1. OpenStep(c) = <<>>
      BY <1>4, NothingOpen
    <3> QED BY <1>4, <3>1 DEF OpenStep, Step
  <2>2. reader'.steps = reader.steps
    BY <1>4, ReadersTake
  <2> QED BY <1>2, <1>3, <1>4, <2>1, <2>2
<1>5. CASE seen[d].kind = "start"
  <2>1. OpenStep(c) = <<>> /\ Step(d) = <<>>
    <3>1. OpenStep(c) = <<>>
      BY <1>5, NothingOpen
    <3> QED BY <1>5, <3>1 DEF Step
  <2>2. seen[d].id \in CallId /\ reader.argsOf[seen[d].id] = ArgsShown(d)
    BY <1>5, ArgumentsAreRight
  <2>3. TakeStart
    BY <1>5 DEF TakeDelta, TakeMessage, TakeEnd, Take
  <2> DEFINE id == seen[d].id
             step == NewStep(id, reader.argsOf[id])
             new == NewStep(seen[d].id, ArgsShown(d))
  <2>4. step = new
    BY <2>2
  <2>5. reader' = [reader EXCEPT !.stepOf[id] = Len(reader.steps) + 1, !.steps = Append(@, step)]
    BY <2>3 DEF TakeStart
  <2>6. reader'.steps = Append(reader.steps, step) /\ reader'.stepOf[id] = Len(reader.steps) + 1
    BY <1>0, <2>2, <2>5
  <2>7. OpenStep(d) = <<new>>
    BY <1>0, <1>5 DEF OpenStep
  <2>8. reader.steps = before /\ StepsTo(d) = before
    BY <1>2, <1>3, <2>1
  <2> HIDE DEF step, new
  <2>9. before \o <<new>> = Append(before, new) /\ Len(Append(before, new)) = Len(before) + 1
    BY <1>2, OneMore
  <2> QED BY <2>4, <2>6, <2>7, <2>8, <2>9
<1>6. CASE seen[d].kind = "end"
  <2>1. /\ c > 0 /\ seen[c].kind = "start" /\ seen[c].id = seen[d].id
        /\ seen[d].id \in CallId
        /\ ArgsShown(d) = ArgsShown(c)
    BY <1>6, ItsCallIsOpen
  <2>2. TakeEnd
    BY <1>6 DEF TakeDelta, TakeMessage, TakeStart, Take
  <2> DEFINE id == seen[d].id
             old == NewStep(seen[c].id, ArgsShown(c))
             new == [id |-> seen[d].id, args |-> ArgsShown(d), result |-> seen[d].n]
  <2>3. OpenStep(c) = <<old>> /\ Step(d) = <<new>> /\ OpenStep(d) = <<>>
    BY <1>6, <2>1 DEF OpenStep, Step
  <2>4. Becomes(old, seen[d].n, new)
    BY <2>1, StepEnds
  <2>5. reader.stepOf[id] = Len(reader.steps)
    BY <2>1 DEF Collects
  <2> HIDE DEF old, new
  <2>6. reader.steps = Append(before, old) /\ Len(reader.steps) = Len(before) + 1 /\ Len(before) \in Nat
        /\ before \o <<new>> = Append(before, new)
    <3>1. before \o <<old>> = Append(before, old) /\ Len(Append(before, old)) = Len(before) + 1
          /\ Len(before) \in Nat
      BY <1>2, OneMore
    <3>2. before \o <<new>> = Append(before, new)
      BY <1>2, OneMore
    <3> QED BY <1>2, <2>3, <3>1, <3>2
  <2>7. reader.stepOf[id] # 0
    BY <2>5, <2>6
  <2>8. reader' = [reader EXCEPT !.stepOf[id] = reader.stepOf[id],
                                 !.steps = [reader.steps EXCEPT ![reader.stepOf[id]].result = seen[d].n]]
    BY <2>2, <2>7 DEF TakeEnd
  <2>9. reader'.steps = [reader.steps EXCEPT ![Len(reader.steps)].result = seen[d].n]
    BY <1>0, <2>5, <2>8
  <2>10. PICK t : t = reader.steps
    OBVIOUS
  <2>11. PICK n : n = seen[d].n
    OBVIOUS
  <2>12. t = Append(before, old) /\ Becomes(old, n, new)
    BY <2>4, <2>6, <2>10, <2>11
  <2>13. LastBecomes(t, n, Append(before, new))
    BY <1>2, <2>12, LastStepEnds
  <2>14. reader'.steps = StepsTo(d)
    BY <1>2, <2>3, <2>6, <2>9, <2>10, <2>11, <2>13 DEF LastBecomes
  <2>15. StepsTo(d) \o <<>> = StepsTo(d)
    <3>1. IsSeq(StepsTo(d))
      BY OneEventMore
    <3> QED BY <3>1, NothingAdded
  <2> QED BY <1>6, <2>3, <2>14, <2>15
<1>7. seen[d].kind \in RuntimeKinds
  BY DEF SeenInOrder
<1> QED BY <1>4, <1>5, <1>6, <1>7 DEF RuntimeKinds

\* What a stream says follows the turn.
LEMMA SpeaksOn ==
  ASSUME ReaderTypes, SeenInOrder, TakeDelta \/ TakeMessage \/ TakeStart \/ TakeEnd,
         NEW c \in Nat, NEW d, d = c + 1, d \in 1..Len(seen), Head(out) = seen[d],
         mode = "stream", Remembers(c), Speaks(c)
  PROVE  Flow' = SaidTo(d)
<1>1. /\ reader.at = "loop" /\ UNCHANGED <<handed, told>>
      /\ seen[d].kind = "message" => reader'.at = "loop"
      /\ seen[d].kind # "message" => reader'.at = "send"
      /\ seen[d].kind = "delta" => reader'.event = seen[d]
      /\ seen[d].kind = "start" => reader'.event = ToolCall(seen[d].id, reader.argsOf[seen[d].id])
      /\ seen[d].kind = "end" => reader'.event = ToolResult(seen[d])
  BY ReadersTake
<1>2. PICK sofar : sofar = Body \o InHand
  OBVIOUS
<1>3. sofar' = sofar /\ Body' \o InHand' = sofar
  BY <1>1, <1>2 DEF Body, InHand
<1>4. IsSeq(sofar)
  BY <1>2, FlowIsSeq DEF ReaderTypes
<1>5. sofar \o <<>> = sofar
  BY <1>4, NothingAdded
<1>6. Pending = <<>>
  BY <1>1 DEF Pending
<1>7. SaidTo(c) = sofar
  BY <1>2, <1>5, <1>6 DEF Flow, Speaks
<1>8. SaidTo(d) = sofar \o Said(d)
  BY <1>7, OneEventMore
<1>9. Pending' = Said(d)
  <2>1. CASE seen[d].kind = "message"
    BY <1>1, <2>1 DEF Pending, Said
  <2>2. CASE seen[d].kind = "delta"
    BY <1>1, <2>2 DEF Pending, Said, IsTerminal
  <2>3. CASE seen[d].kind = "start"
    <3>1. reader'.event = ToolCall(seen[d].id, ArgsShown(d)) /\ reader'.at = "send"
      BY <1>1, <2>3, ArgumentsAreRight
    <3>2. reader'.event.kind = "tool_call"
      BY <3>1, ToldHaveKinds
    <3> QED BY <2>3, <3>1, <3>2 DEF Pending, Said, IsTerminal
  <2>4. CASE seen[d].kind = "end"
    <3>2. ToolResult(seen[d]).kind = "tool_result"
      BY ToldHaveKinds
    <3> QED BY <1>1, <2>4, <3>2 DEF Pending, Said, IsTerminal
  <2>5. seen[d].kind \in RuntimeKinds
    BY DEF SeenInOrder
  <2> QED BY <2>1, <2>2, <2>3, <2>4, <2>5 DEF RuntimeKinds
<1> QED BY <1>3, <1>8, <1>9 DEF Flow

\* An event taken is read, and the reader follows one event further.
LEMMA TakenIsRead ==
  ASSUME SessionTypes, ReaderTypes, SeenInOrder, TakeDelta \/ TakeMessage \/ TakeStart \/ TakeEnd,
         NEW c \in 0..Len(seen), Following(c)
  PROVE  \E d \in 0..Len(seen) : Following(d)'
<1>0. PICK e : e = Head(out)
  OBVIOUS
<1>1. /\ UNCHANGED <<mode, ctx, todo, seen, session, kept, recorded, handed, told>>
      /\ \E kinds : Take(kinds)
      /\ e.kind \notin EndKinds
      /\ IF e.kind = "message" THEN reader'.argsOf = ArgsAfter(reader.argsOf, e.calls)
         ELSE reader'.argsOf = reader.argsOf
      /\ e.kind = "message" /\ e.calls = <<>> => reader'.answer = e.text
  BY <1>0, ReadersTake
<1>2. Passed(c) /\ Remembers(c) /\ Collects(c) /\ Speaks(c)
  BY DEF Following, Reads
<1>3. PICK d : d = c + 1
  OBVIOUS
<1>4. d \in 1..Len(seen) /\ e = seen[d] /\ Passed(d)'
  BY <1>0, <1>1, <1>2, <1>3, NextIsTaken
<1>5. c \in Nat /\ d \in 0..Len(seen) /\ Len(seen) \in Nat /\ d > 0
  BY <1>3, <1>4, EventsOf DEF SessionTypes
<1>6. /\ seen[d].kind \in {"start", "end"} => ArgsShown(d)' = ArgsShown(d)
      /\ SaidTo(d)' = SaidTo(d)
      /\ StepsTo(d)' = StepsTo(d)
  <2>1. Agree(Len(seen), seen, seen')
    BY <1>1 DEF Agree
  <2>2. d \in 1..d
    BY <1>4
  <2> QED BY <1>5, <2>1, <2>2, TurnKept
<1>7. Remembers(d)'
  <2>1. DOMAIN reader = {"at", "event", "answer", "steps", "stepOf", "argsOf"}
    BY DEF ReaderTypes
  <2>2. seen' = seen
    BY <1>1
  <2> QED BY <1>1, <1>2, <1>3, <1>4, <1>5, <2>1, <2>2, RemembersOn
<1>8. Collects(d)'
  <2>1. OpenStep(d)' = OpenStep(d)
    BY <1>1, <1>6 DEF OpenStep
  <2>2. ASSUME mode # "stream"
        PROVE  /\ reader'.steps = StepsTo(d) \o OpenStep(d)
               /\ seen[d].kind = "start" => reader'.stepOf[seen[d].id] = Len(reader'.steps)
    BY <1>0, <1>2, <1>3, <1>4, <1>5, <2>2, CollectsOn
  <2> QED BY <1>1, <1>6, <2>1, <2>2 DEF Collects
<1>9. HasAnswer(d)'
  BY <1>1, <1>4 DEF HasAnswer
<1>10. Speaks(d)'
  <2>1. ASSUME mode = "stream" PROVE Flow' = SaidTo(d)
    BY <1>0, <1>2, <1>3, <1>4, <1>5, <2>1, SpeaksOn
  <2> QED BY <1>1, <1>6, <2>1 DEF Speaks
<1>11. Following(d)'
  BY <1>4, <1>7, <1>8, <1>9, <1>10 DEF Following, Reads
<1> QED BY <1>5, <1>11

\* A reader that looks at nothing of the turn keeps what it has of it.
LEMMA ReadingStays ==
  ASSUME SeenInOrder, Len(seen) \in Nat, UNCHANGED <<mode, seen>>,
         reader'.argsOf = reader.argsOf, reader'.answer = reader.answer,
         reader'.steps = reader.steps, reader'.stepOf = reader.stepOf,
         NEW c \in 0..Len(seen), Reads(c)
  PROVE  Reads(c)' /\ SaidTo(c)' = SaidTo(c)
<1>1. c > 0 => c \in 1..c
  OBVIOUS
<1>2. /\ \A k \in 1..c : seen[k].kind \in {"start", "end"} => ArgsShown(k)' = ArgsShown(k)
      /\ SaidTo(c)' = SaidTo(c)
      /\ StepsTo(c)' = StepsTo(c)
  <2>1. Agree(Len(seen), seen, seen')
    BY DEF Agree
  <2> QED BY <2>1, TurnKept
<1>3. Remembers(c)'
  BY DEF Reads, Remembers, BelongsTo
<1>4. OpenStep(c)' = OpenStep(c)
  BY <1>1, <1>2 DEF OpenStep
<1>5. Collects(c)'
  BY <1>2, <1>4 DEF Reads, Collects
<1>6. HasAnswer(c)'
  BY DEF Reads, HasAnswer
<1> QED BY <1>2, <1>3, <1>5, <1>6 DEF Reads

\* "done" is said of a finished turn after the step, too.
DoneStaysTrue(event) ==
  event.kind = "done" =>
    /\ Finished' /\ session'.at = "closed" /\ recorded'
    /\ event.text = seen'[Len(seen')].text
    /\ mode' = "stream" => Flow' = SaidTo(Len(seen))'
    /\ mode' # "stream" => event.calls = StepsTo(Len(seen))'

\* What is to be shown of a step of the reader.
LEMMA DonesStayTrue ==
  ASSUME reader'.at = "send" => DoneStaysTrue(reader'.event),
         DoneStaysTrue(handed'),
         told' # <<>> => DoneStaysTrue(Last(told'))
  PROVE  DonesAreTrue'
BY DEF DonesAreTrue, DoneIsTrue, DoneStaysTrue

\* Before the end nothing terminal was said.
LEMMA NoneTerminal ==
  ASSUME OfKinds(told, ToldKinds), LastWord, ~EndsIn(told, {"done", "error"})
  PROVE  /\ \A i \in 1..Len(told) : ~IsTerminal(told[i])
         /\ Body = told
         /\ told # <<>> => ~IsTerminal(Last(told))
<1>1. Len(told) \in Nat /\ (told # <<>> => Len(told) >= 1)
  BY EventsOf
<1>2. told # <<>> => ~IsTerminal(Last(told))
  BY DEF EndsIn, IsTerminal
<1>3. ASSUME NEW i \in 1..Len(told), IsTerminal(told[i]) PROVE FALSE
  <2>1. i = Len(told)
    BY <1>3 DEF LastWord
  <2>2. told # <<>>
    <3>1. Len(<<>>) = 0
      OBVIOUS
    <3> QED BY <1>1, <2>1, <3>1
  <2>3. Last(told) = told[i]
    BY <2>1 DEF Last
  <2> QED BY <1>2, <1>3, <2>2, <2>3
<1>4. Body = told
  BY <1>2 DEF Body
<1> QED BY <1>2, <1>3, <1>4

\* Steps that only read leave what was said alone.
LEMMA TakingTells ==
  ASSUME SessionTypes, ReaderTypes, Answering, SeenInOrder, Heard, LastWord,
         TakeDelta \/ TakeMessage \/ TakeStart \/ TakeEnd
  PROVE  Heard' /\ DonesAreTrue' /\ LastWord'
<1>0. PICK e : e = Head(out)
  OBVIOUS
<1>1. /\ reader.at = "loop" /\ UNCHANGED <<mode, ctx, todo, seen, session, kept, recorded, handed, told>>
      /\ e.kind \in RuntimeKinds
      /\ mode # "stream" \/ e.kind = "message" => reader'.at = "loop"
      /\ mode = "stream" /\ e.kind # "message" => reader'.at = "send"
      /\ mode = "stream" /\ e.kind = "delta" => reader'.event = e
      /\ mode = "stream" /\ e.kind = "start" => reader'.event = ToolCall(e.id, reader.argsOf[e.id])
      /\ mode = "stream" /\ e.kind = "end" => reader'.event = ToolResult(e)
  BY <1>0, ReadersTake
<1>2. PICK c \in 0..Len(seen) : Following(c)
  BY <1>1 DEF Heard
<1>3. \E d \in 0..Len(seen) : Following(d)'
  BY <1>2, TakenIsRead
<1>4. reader'.at \in {"loop", "send"}
  BY <1>1
<1>5. Heard'
  BY <1>1, <1>3, <1>4 DEF Heard
<1>6. reader'.at = "send" => reader'.event.kind # "done"
  BY <1>1, ToldHaveKinds DEF RuntimeKinds
<1>7. ~IsTerminal(handed) /\ ~EndsIn(told, {"done", "error"})
  BY <1>1, StillOpen
<1>8. told # <<>> => ~IsTerminal(Last(told))
  BY <1>7, NoneTerminal DEF ReaderTypes
<1>9. DonesAreTrue'
  BY <1>1, <1>6, <1>7, <1>8, DonesStayTrue DEF DoneStaysTrue, IsTerminal
<1>10. LastWord'
  BY <1>1 DEF LastWord
<1> QED BY <1>5, <1>9, <1>10

\* A reader that stays where it is follows the turn as before.
LEMMA FollowingStays ==
  ASSUME SeenInOrder, Len(seen) \in Nat, UNCHANGED <<mode, seen>>,
         reader'.argsOf = reader.argsOf, reader'.answer = reader.answer,
         reader'.steps = reader.steps, reader'.stepOf = reader.stepOf,
         mode = "stream" => Flow' = Flow,
         NEW c \in 0..Len(seen), Following(c), Passed(c)'
  PROVE  Following(c)'
<1>1. Reads(c)' /\ SaidTo(c)' = SaidTo(c)
  BY ReadingStays DEF Following
<1>2. Speaks(c)'
  BY <1>1 DEF Following, Speaks
<1> QED BY <1>1, <1>2 DEF Following

\* An event is added to what was told.
LEMMA OneMoreTold ==
  ASSUME OfKinds(told, ToldKinds), LastWord, ~EndsIn(told, {"done", "error"}),
         NEW event, event.kind \in ToldKinds, told' = Append(told, event)
  PROVE  /\ LastWord'
         /\ Last(told') = event
         /\ Body' = IF IsTerminal(event) THEN told ELSE Append(told, event)
<1>1. PICK T : told \in Seq(T)
  BY DEF OfKinds
<1> DEFINE U == T \cup {event}
<1>2. told \in Seq(U) /\ event \in U
  BY <1>1
<1> HIDE DEF U
<1>3. /\ Len(told') = Len(told) + 1 /\ Len(told) \in Nat /\ told'[Len(told) + 1] = event
      /\ \A i \in 1..Len(told) : told'[i] = told[i]
      /\ told' # <<>> /\ told' \in Seq(U)
  BY <1>2
<1>4. \A i \in 1..Len(told) : ~IsTerminal(told[i])
  BY NoneTerminal
<1>5. LastWord'
  <2> SUFFICES ASSUME NEW i \in 1..Len(told'), IsTerminal(told'[i]) PROVE i = Len(told')
    BY DEF LastWord, IsTerminal
  <2>1. i \in 1..Len(told) \/ i = Len(told')
    BY <1>3
  <2> QED BY <1>3, <1>4, <2>1
<1>6. Last(told') = event
  BY <1>3 DEF Last
<1>7. Front(told') = told
  <2>1. Front(told') = [i \in 1..Len(told) |-> told'[i]]
    BY <1>3 DEF Front
  <2>2. told = [i \in 1..Len(told) |-> told[i]]
    BY <1>2
  <2> QED BY <1>3, <2>1, <2>2
<1>8. Body' = IF IsTerminal(event) THEN told ELSE Append(told, event)
  BY <1>3, <1>6, <1>7 DEF Body, IsTerminal
<1> QED BY <1>5, <1>6, <1>8

\* The one reply to those that asked for no stream.
LEMMA RepliesTells ==
  ASSUME ReaderTypes, Answering, LastWord, reader.at \in {"loop", "record"},
         mode # "stream", mode' = mode, handed' = handed,
         NEW event, event.kind \in ToldKinds, Replies(event), DoneStaysTrue(event)
  PROVE  Heard' /\ DonesAreTrue' /\ LastWord'
<1>1. /\ DOMAIN reader = {"at", "event", "answer", "steps", "stepOf", "argsOf"}
      /\ OfKinds(told, ToldKinds)
      /\ told' = Append(told, event) /\ reader' = Go("closed")
  BY DEF ReaderTypes, Replies
<1>2. reader'.at = "closed"
  BY <1>1 DEF Go
<1>3. ~IsTerminal(handed) /\ ~EndsIn(told, {"done", "error"})
  BY StillOpen
<1>4. LastWord' /\ Last(told') = event
  BY <1>1, <1>3, OneMoreTold
<1>5. Heard'
  BY <1>2 DEF Heard
<1>6. DonesAreTrue'
  BY <1>2, <1>3, <1>4, DonesStayTrue DEF DoneStaysTrue, IsTerminal
<1> QED BY <1>4, <1>5, <1>6

\* The rest stays, so the turn and what is known of its end do.
LEMMA EndStays ==
  ASSUME UNCHANGED <<mode, ctx, todo, seen, session, kept>>
  PROVE  /\ Finished' <=> Finished
         /\ \A c : out' = out => (Passed(c)' <=> Passed(c))
<1>1. Finished' <=> Finished
  BY DEF Finished
<1>2. ASSUME NEW c, out' = out PROVE Passed(c)' <=> Passed(c)
  BY <1>2 DEF Passed, InChannel, EmitsNext, AllThere
<1> QED BY <1>1, <1>2

\* The reader takes how the turn ended.
LEMMA TakingTheEndTells ==
  ASSUME SessionTypes, ReaderTypes, Answering, SeenInOrder, Heard, LastWord,
         TakeCompleted \/ TakeFailed \/ TakeRefused
  PROVE  Heard' /\ DonesAreTrue' /\ LastWord'
<1>0. /\ reader.at = "loop" /\ UNCHANGED <<mode, ctx, todo, seen, session, kept, recorded, handed>>
      /\ \E kinds : Take(kinds)
      /\ Head(out).kind \in EndKinds
      /\ DOMAIN reader = {"at", "event", "answer", "steps", "stepOf", "argsOf"}
      /\ Len(seen) \in Nat
  BY EventsOf DEF TakeCompleted, TakeFailed, TakeRefused, Take, EndKinds, runtime, ReaderTypes, SessionTypes
<1>1. PICK c \in 0..Len(seen) : Following(c)
  BY <1>0 DEF Heard
<1>2. Passed(c)'
  <2>1. Passed(c)
    BY <1>1 DEF Following
  <2> QED BY <1>0, <2>1, EndingIsTaken
<1>3. ~IsTerminal(handed) /\ ~EndsIn(told, {"done", "error"})
  BY <1>0, StillOpen
<1>4. told # <<>> => ~IsTerminal(Last(told))
  BY <1>3, NoneTerminal DEF ReaderTypes
<1>5. ASSUME reader'.argsOf = reader.argsOf, reader'.answer = reader.answer,
             reader'.steps = reader.steps, reader'.stepOf = reader.stepOf,
             reader'.at \in {"loop", "record", "send"}, reader'.at = "send" => reader'.event = Error,
             told' = told
      PROVE  Heard' /\ DonesAreTrue' /\ LastWord'
  <2>1. Pending = <<>> /\ Pending' = <<>>
    BY <1>0, <1>5, ToldHaveKinds DEF Pending, IsTerminal
  <2>2. Flow' = Flow
    BY <1>0, <1>5, <2>1 DEF Flow, Body, InHand
  <2>3. Following(c)'
    BY <1>0, <1>1, <1>2, <1>5, <2>2, FollowingStays
  <2>4. Heard'
    BY <1>0, <1>5, <2>3 DEF Heard
  <2>5. DonesAreTrue'
    BY <1>0, <1>3, <1>4, <1>5, ToldHaveKinds, DonesStayTrue DEF DoneStaysTrue, IsTerminal
  <2>6. LastWord'
    BY <1>5 DEF LastWord
  <2> QED BY <2>4, <2>5, <2>6
<1>6. ASSUME mode # "stream", Replies(Error) PROVE Heard' /\ DonesAreTrue' /\ LastWord'
  <2>1. Error.kind \in ToldKinds /\ DoneStaysTrue(Error)
    BY ToldHaveKinds DEF DoneStaysTrue
  <2> QED BY <1>0, <1>6, <2>1, RepliesTells
<1>7. CASE TakeCompleted
  <2>1. told' = told /\ (reader' = reader \/ reader' = Go("record"))
    BY <1>7 DEF TakeCompleted
  <2>2. /\ reader'.argsOf = reader.argsOf /\ reader'.answer = reader.answer
        /\ reader'.steps = reader.steps /\ reader'.stepOf = reader.stepOf
        /\ reader'.at \in {"loop", "record"}
    BY <1>0, <2>1 DEF Go
  <2> QED BY <1>5, <2>1, <2>2
<1>8. CASE TakeFailed
  <2>1. CASE mode = "stream"
    <3>1. told' = told /\ reader' = ThenSend(Error, reader)
      BY <1>8, <2>1 DEF TakeFailed
    <3>2. /\ reader'.argsOf = reader.argsOf /\ reader'.answer = reader.answer
          /\ reader'.steps = reader.steps /\ reader'.stepOf = reader.stepOf
          /\ reader'.at = "send" /\ reader'.event = Error
      BY <1>0, <3>1 DEF ThenSend
    <3> QED BY <1>5, <3>1, <3>2
  <2>2. CASE mode # "stream"
    BY <1>6, <1>8, <2>2 DEF TakeFailed
  <2> QED BY <2>1, <2>2
<1>9. CASE TakeRefused
  <2>1. CASE mode = "command"
    BY <1>6, <1>9, <2>1 DEF TakeRefused
  <2>2. CASE mode # "command"
    <3>1. told' = told /\ reader' = reader
      BY <1>9, <2>2 DEF TakeRefused
    <3> QED BY <1>0, <1>5, <3>1
  <2> QED BY <2>1, <2>2
<1> QED BY <1>7, <1>8, <1>9

\* The channel ends.
LEMMA TheEndTells ==
  ASSUME SessionTypes, ReaderTypes, Answering, SeenInOrder, Heard, LastWord, ChannelEnds
  PROVE  Heard' /\ DonesAreTrue' /\ LastWord'
<1>0. /\ reader.at = "loop"
      /\ UNCHANGED <<mode, ctx, todo, seen, session, kept, recorded, out, handed, told>>
      /\ reader' = Go(IF mode = "stream" THEN "closed" ELSE "record")
      /\ DOMAIN reader = {"at", "event", "answer", "steps", "stepOf", "argsOf"}
      /\ Len(seen) \in Nat
  BY EventsOf DEF ChannelEnds, runtime, ReaderTypes, SessionTypes
<1>1. PICK c \in 0..Len(seen) : Following(c)
  BY <1>0 DEF Heard
<1>2. Passed(c)'
  BY <1>0, <1>1, EndStays DEF Following
<1>3. ~IsTerminal(handed) /\ ~EndsIn(told, {"done", "error"})
  BY <1>0, StillOpen
<1>4. told # <<>> => ~IsTerminal(Last(told))
  BY <1>3, NoneTerminal DEF ReaderTypes
<1>5. /\ reader'.argsOf = reader.argsOf /\ reader'.answer = reader.answer
      /\ reader'.steps = reader.steps /\ reader'.stepOf = reader.stepOf
      /\ reader'.at = IF mode = "stream" THEN "closed" ELSE "record"
  BY <1>0 DEF Go
<1>6. Pending = <<>> /\ Pending' = <<>> /\ Body' = Body /\ InHand' = InHand
  BY <1>0, <1>5 DEF Pending, Body, InHand
<1>7. Following(c)'
  <2>1. Flow' = Flow
    BY <1>6 DEF Flow
  <2> QED BY <1>0, <1>1, <1>2, <1>5, <2>1, FollowingStays
<1>8. ASSUME mode = "stream" PROVE IsPrefix(Body \o InHand, SaidTo(Len(seen)))'
  <2>1. PICK n : n = Len(seen)
    OBVIOUS
  <2>2. IsSeq(Body \o InHand)
    BY FlowIsSeq DEF ReaderTypes
  <2>3. Body \o InHand = Flow
    BY <1>6, <2>2, NothingAdded DEF Flow
  <2>4. Body \o InHand = SaidTo(c)
    BY <1>1, <1>8, <2>3 DEF Following, Speaks
  <2>5. IsPrefix(SaidTo(c), SaidTo(n))
    BY <1>0, <2>1, SaidBefore
  <2>6. SaidTo(n)' = SaidTo(n)
    <3>1. Agree(Len(seen), seen, seen')
      BY <1>0 DEF Agree
    <3>2. n \in 0..Len(seen)
      BY <1>0, <2>1
    <3> QED BY <1>0, <3>1, <3>2, TurnKept
  <2>7. SaidTo(Len(seen))' = SaidTo(n)'
    BY <1>0, <2>1
  <2> QED BY <1>6, <2>4, <2>5, <2>6, <2>7
<1>9. Heard'
  <2>1. mode' = "stream" <=> mode = "stream"
    BY <1>0
  <2> QED BY <1>0, <1>7, <1>8, <2>1 DEF Heard
<1>10. DonesAreTrue'
  BY <1>0, <1>3, <1>4, <1>5, DonesStayTrue DEF DoneStaysTrue, IsTerminal
<1>11. LastWord'
  BY <1>0 DEF LastWord
<1> QED BY <1>9, <1>10, <1>11

\* What a word "done" says.
LEMMA DoneSays ==
  /\ \A answer : Done(answer).text = answer
  /\ \A answer, steps : DoneWith(answer, steps).text = answer /\ DoneWith(answer, steps).calls = steps
BY DEF Done, DoneWith, Blank

\* The use is recorded, or refused: then comes the last word.
LEMMA RecordTells ==
  ASSUME SessionTypes, ReaderTypes, Answering, SeenInOrder, Heard, Concludes, LastWord, Record
  PROVE  Heard' /\ DonesAreTrue' /\ LastWord'
<1>0. /\ reader.at = "record"
      /\ UNCHANGED <<mode, ctx, todo, seen, session, kept, out, handed>>
      /\ DOMAIN reader = {"at", "event", "answer", "steps", "stepOf", "argsOf"}
      /\ OfKinds(seen, Kinds) /\ Len(seen) \in Nat
      /\ OfKinds(told, ToldKinds)
  BY EventsOf DEF Record, runtime, ReaderTypes, SessionTypes
<1>1. PICK c \in 0..Len(seen) : Following(c)
  BY <1>0 DEF Heard
<1>2. Passed(c)'
  BY <1>0, <1>1, EndStays DEF Following
<1>3. ~IsTerminal(handed) /\ ~EndsIn(told, {"done", "error"})
  BY <1>0, StillOpen
<1>4. told # <<>> => ~IsTerminal(Last(told))
  BY <1>0, <1>3, NoneTerminal
<1>5. session.at = "closed" /\ out = <<>> /\ (ctx = "live" => Finished)
  BY <1>0 DEF Concludes
<1>6. PICK n : n = Len(seen)
  OBVIOUS
<1>7. ASSUME CanRecord
      PROVE  /\ Finished /\ c = n
             /\ reader.answer = seen[n].text
             /\ mode = "stream" => Flow = SaidTo(n)
             /\ mode # "stream" => reader.steps = StepsTo(n)
  <2>1. ctx = "live"
    BY <1>7 DEF CanRecord
  <2>2. Finished /\ c = n
    BY <1>1, <1>5, <1>6, <2>1 DEF Following, Passed, AllThere
  <2>3. n > 0 /\ seen[n].kind = "message" /\ seen[n].calls = <<>>
    <3>1. Len(seen) >= 1
      BY <1>0, <2>2, EventsOf DEF Finished
    <3> QED BY <1>6, <2>2, <3>1 DEF Finished
  <2>4. reader.answer = seen[n].text
    BY <1>1, <2>2, <2>3 DEF Following, Reads, HasAnswer
  <2>5. mode = "stream" => Flow = SaidTo(n)
    BY <1>1, <2>2 DEF Following, Speaks
  <2>6. OpenStep(n) = <<>>
    BY <2>3 DEF OpenStep
  <2>7. StepsTo(n) \o <<>> = StepsTo(n)
    <3>1. IsSeq(StepsTo(n))
      BY <1>0, <1>6, OneEventMore
    <3> QED BY <3>1, NothingAdded
  <2>8. mode # "stream" => reader.steps = StepsTo(n)
    BY <1>1, <2>2, <2>6, <2>7 DEF Following, Reads, Collects
  <2> QED BY <2>2, <2>4, <2>5, <2>8
<1>8. n \in 0..Len(seen) /\ SaidTo(n)' = SaidTo(n) /\ StepsTo(n)' = StepsTo(n) /\ Len(seen') = n
  <2>1. Agree(Len(seen), seen, seen') /\ n \in 0..Len(seen) /\ Len(seen') = n
    BY <1>0, <1>6 DEF Agree
  <2> QED BY <1>0, <2>1, TurnKept
<1>9. CASE mode = "stream"
  <2>1. /\ told' = told
        /\ \/ CanRecord /\ recorded' = TRUE /\ reader' = ThenSend(Done(reader.answer), reader)
           \/ reader' = ThenSend(Error, reader)
    BY <1>9 DEF Record
  <2>2. PICK event : /\ reader' = ThenSend(event, reader)
                     /\ \/ CanRecord /\ recorded' = TRUE /\ event = Done(reader.answer)
                        \/ event = Error
    BY <2>1
  <2>3. /\ reader'.argsOf = reader.argsOf /\ reader'.answer = reader.answer
        /\ reader'.steps = reader.steps /\ reader'.stepOf = reader.stepOf
        /\ reader'.at = "send" /\ reader'.event = event
    BY <1>0, <2>2 DEF ThenSend
  <2>4. IsTerminal(event)
    BY <2>2, ToldHaveKinds DEF IsTerminal
  <2>5. Pending = <<>> /\ Pending' = <<>>
    BY <1>0, <2>3, <2>4 DEF Pending
  <2>6. Flow' = Flow
    BY <1>0, <2>1, <2>5 DEF Flow, Body, InHand
  <2>7. Following(c)'
    BY <1>0, <1>1, <1>2, <2>3, <2>6, FollowingStays
  <2>8. Heard'
    BY <1>0, <2>3, <2>7 DEF Heard
  <2>9. DoneStaysTrue(event)
    <3>1. CASE event = Error
      BY <3>1, ToldHaveKinds DEF DoneStaysTrue
    <3>2. CASE CanRecord /\ recorded' = TRUE /\ event = Done(reader.answer)
      <4>1. event.text = seen[n].text
        BY <1>7, <3>2, DoneSays
      <4>2. Finished'
        BY <1>0, <1>7, <3>2, EndStays
      <4>3. mode' = "stream" /\ Flow' = SaidTo(Len(seen))' /\ seen'[Len(seen')].text = seen[n].text
        BY <1>0, <1>7, <1>8, <1>9, <2>6, <3>2
      <4>4. session'.at = "closed"
        BY <1>0, <1>5
      <4> QED BY <3>2, <4>1, <4>2, <4>3, <4>4 DEF DoneStaysTrue
    <3> QED BY <2>2, <3>1, <3>2
  <2>10. DonesAreTrue'
    BY <1>0, <1>3, <1>4, <2>1, <2>3, <2>9, DonesStayTrue DEF DoneStaysTrue, IsTerminal
  <2>11. LastWord'
    BY <2>1 DEF LastWord
  <2> QED BY <2>8, <2>10, <2>11
<1>10. CASE mode # "stream"
  <2>1. PICK event : /\ Replies(event)
                     /\ \/ CanRecord /\ recorded' = TRUE /\ event = DoneWith(reader.answer, reader.steps)
                        \/ event = Error
    BY <1>10 DEF Record
  <2>2. event.kind \in ToldKinds
    BY <2>1, ToldHaveKinds
  <2>3. DoneStaysTrue(event)
    <3>1. CASE event = Error
      BY <3>1, ToldHaveKinds DEF DoneStaysTrue
    <3>2. CASE CanRecord /\ recorded' = TRUE /\ event = DoneWith(reader.answer, reader.steps)
      <4>1. event.text = seen[n].text /\ event.calls = StepsTo(n)
        BY <1>7, <1>10, <3>2, DoneSays
      <4>2. Finished'
        BY <1>0, <1>7, <3>2, EndStays
      <4>3. mode' # "stream" /\ event.calls = StepsTo(Len(seen))' /\ seen'[Len(seen')].text = seen[n].text
        BY <1>0, <1>8, <1>10, <4>1
      <4>4. session'.at = "closed"
        BY <1>0, <1>5
      <4> QED BY <3>2, <4>1, <4>2, <4>3, <4>4 DEF DoneStaysTrue
    <3> QED BY <2>1, <3>1, <3>2
  <2> QED BY <1>0, <1>10, <2>1, <2>2, <2>3, RepliesTells
<1> QED BY <1>9, <1>10

\* What was true of "done" still is, where nothing but the way of an event changes.
LEMMA DoneTruthStays ==
  ASSUME SeenInOrder, Len(seen) \in Nat, UNCHANGED <<mode, ctx, todo, seen, session, kept, recorded>>,
         mode = "stream" => Flow' = Flow, NEW event, DoneIsTrue(event)
  PROVE  DoneStaysTrue(event)
<1>1. PICK n : n = Len(seen)
  OBVIOUS
<1>2. n \in 0..Len(seen) /\ SaidTo(n)' = SaidTo(n) /\ StepsTo(n)' = StepsTo(n) /\ Len(seen') = n
  <2>1. Agree(Len(seen), seen, seen') /\ n \in 0..Len(seen) /\ Len(seen') = n
    BY <1>1 DEF Agree
  <2> QED BY <2>1, TurnKept
<1>3. Finished => Finished'
  BY EndStays
<1> QED BY <1>1, <1>2, <1>3 DEF DoneIsTrue, DoneStaysTrue

\* An event is handed over, or the stream ends with the context.
LEMMA SendTells ==
  ASSUME SessionTypes, ReaderTypes, Answering, SeenInOrder, Heard, DonesAreTrue, LastWord, Send
  PROVE  Heard' /\ DonesAreTrue' /\ LastWord'
<1>0. /\ reader.at = "send" /\ mode = "stream"
      /\ UNCHANGED <<mode, ctx, todo, seen, session, kept, recorded, out, told>>
      /\ DOMAIN reader = {"at", "event", "answer", "steps", "stepOf", "argsOf"}
      /\ reader.event.kind \in ToldKinds
      /\ Len(seen) \in Nat
      /\ OfKinds(told, ToldKinds)
  BY EventsOf DEF Send, runtime, ReaderTypes, SessionTypes, Answering, OnlyStreamsSend
<1>1. PICK c \in 0..Len(seen) : Following(c)
  BY <1>0 DEF Heard
<1>2. Passed(c)'
  BY <1>0, <1>1, EndStays DEF Following
<1>3. ~IsTerminal(handed) /\ ~EndsIn(told, {"done", "error"})
  BY <1>0 DEF Answering, TerminalIsLast
<1>4. told # <<>> => ~IsTerminal(Last(told))
  BY <1>0, <1>3, NoneTerminal
<1>5. PICK n : n = Len(seen)
  OBVIOUS
<1>6. /\ IsSeq(SaidTo(c)) /\ IsSeq(SaidTo(n)) /\ IsPrefix(SaidTo(c), SaidTo(n))
      /\ SaidTo(n) = SaidTo(Len(seen))'
  <2>1. Agree(Len(seen), seen, seen') /\ n \in 0..Len(seen) /\ Len(seen') = n
    BY <1>0, <1>5 DEF Agree
  <2>2. SaidTo(n)' = SaidTo(n)
    BY <1>0, <2>1, TurnKept
  <2>3. IsSeq(SaidTo(c)) /\ IsSeq(SaidTo(n)) /\ IsPrefix(SaidTo(c), SaidTo(n))
    BY <1>0, <1>5, SaidBefore, OneEventMore
  <2> QED BY <2>1, <2>2, <2>3
<1>7. Flow = SaidTo(c)
  BY <1>0, <1>1 DEF Following, Speaks
<1>8. IsSeq(Body) /\ IsSeq(Body \o InHand) /\ IsSeq(Pending)
  BY <1>0, FlowIsSeq
<1>9. IsPrefix(Body \o InHand, SaidTo(Len(seen))')
  <2>1. IsPrefix(Body \o InHand, Flow)
    BY <1>8, PrefixOfJoin DEF Flow
  <2> QED BY <1>6, <1>7, <1>8, <2>1, PrefixOfMore
<1>10. Body' = Body
  BY <1>0 DEF Body
<1>11. LastWord'
  BY <1>0 DEF LastWord
<1>12. CASE ctx = "done" /\ UNCHANGED handed /\ reader' = Go("closed")
  <2>1. reader'.at = "closed"
    BY <1>0, <1>12 DEF Go
  <2>2. InHand' = InHand
    BY <1>12 DEF InHand
  <2>3. Heard'
    BY <1>9, <1>10, <2>1, <2>2 DEF Heard
  <2>4. DonesAreTrue'
    BY <1>0, <1>3, <1>4, <1>12, <2>1, DonesStayTrue DEF DoneStaysTrue, IsTerminal
  <2> QED BY <1>11, <2>3, <2>4
<1>13. CASE handed = Blank /\ handed' = reader.event
            /\ reader' = Go(IF reader.event.kind \in {"done", "error"} THEN "closed" ELSE "loop")
  <2>1. /\ reader'.argsOf = reader.argsOf /\ reader'.answer = reader.answer
        /\ reader'.steps = reader.steps /\ reader'.stepOf = reader.stepOf
        /\ reader'.at = IF IsTerminal(reader.event) THEN "closed" ELSE "loop"
    BY <1>0, <1>13 DEF Go, IsTerminal
  <2>2. InHand = <<>> /\ Pending' = <<>>
    BY <1>13, <2>1 DEF InHand, Pending
  <2>3. reader.event # Blank
    BY <1>0, ToldHaveKinds
  <2>4. InHand' = Pending
    BY <1>0, <1>13, <2>3 DEF InHand, Pending
  <2>5. Flow' = Flow
    <3>1. Body \o <<>> = Body
      BY <1>8, NothingAdded
    <3>2. IsSeq(Body \o Pending)
      BY <1>8, PrefixOfJoin
    <3>3. (Body \o Pending) \o <<>> = Body \o Pending
      BY <3>2, NothingAdded
    <3> QED BY <1>10, <2>2, <2>4, <3>1, <3>3 DEF Flow
  <2>6. Following(c)'
    BY <1>0, <1>1, <1>2, <2>1, <2>5, FollowingStays
  <2>7. reader'.at = "closed" => IsPrefix(Body \o InHand, SaidTo(Len(seen)))'
    <3>1. SUFFICES ASSUME IsTerminal(reader.event) PROVE IsPrefix(Body \o InHand, SaidTo(Len(seen)))'
      BY <2>1
    <3>2. Pending = <<>>
      BY <3>1 DEF Pending
    <3> QED BY <1>9, <1>10, <2>2, <2>4, <3>2
  <2>8. Heard'
    BY <1>0, <2>1, <2>6, <2>7 DEF Heard
  <2>9. DoneStaysTrue(reader.event)
    <3>1. PICK event : event = reader.event
      OBVIOUS
    <3>2. DoneIsTrue(event)
      BY <1>0, <3>1 DEF DonesAreTrue
    <3>3. DoneStaysTrue(event)
      BY <1>0, <2>5, <3>2, DoneTruthStays
    <3> QED BY <3>1, <3>3
  <2>10. reader'.at # "send"
    BY <2>1
  <2>11. told' # <<>> => DoneStaysTrue(Last(told'))
    BY <1>0, <1>4 DEF DoneStaysTrue, IsTerminal
  <2>12. DonesAreTrue'
    BY <1>13, <2>9, <2>10, <2>11, DonesStayTrue
  <2> QED BY <1>11, <2>8, <2>12
<1> QED BY <1>12, <1>13 DEF Send

\* The handler writes what it was handed.
LEMMA WriteTells ==
  ASSUME SessionTypes, ReaderTypes, Answering, SeenInOrder, Heard, DonesAreTrue, LastWord, Write
  PROVE  Heard' /\ DonesAreTrue' /\ LastWord'
<1>0. /\ handed # Blank /\ told' = Append(told, handed) /\ handed' = Blank
      /\ UNCHANGED <<mode, ctx, todo, seen, session, kept, recorded, out, reader>>
      /\ handed.kind \in ToldKinds
      /\ Len(seen) \in Nat
      /\ OfKinds(told, ToldKinds)
  BY EventsOf DEF Write, runtime, ReaderTypes, SessionTypes
<1>1. ~EndsIn(told, {"done", "error"})
  BY <1>0 DEF Answering, TerminalIsLast
<1>2. LastWord' /\ Last(told') = handed /\ Body' = IF IsTerminal(handed) THEN told ELSE Append(told, handed)
  <2>1. PICK event : event = handed
    OBVIOUS
  <2>2. event.kind \in ToldKinds /\ told' = Append(told, event)
    BY <1>0, <2>1
  <2>3. /\ LastWord' /\ Last(told') = event
        /\ Body' = IF IsTerminal(event) THEN told ELSE Append(told, event)
    BY <1>0, <1>1, <2>2, OneMoreTold
  <2> QED BY <2>1, <2>3
<1>3. Body = told /\ IsSeq(told)
  BY <1>0, <1>1, NoneTerminal DEF OfKinds, IsSeq
<1>4. InHand' = <<>> /\ Pending' = Pending
  BY <1>0 DEF InHand, Pending
<1>5. Body' \o InHand' = Body \o InHand
  <2>1. CASE IsTerminal(handed)
    BY <1>2, <1>3, <1>4, <2>1 DEF InHand
  <2>2. CASE ~IsTerminal(handed)
    <3>1. told \o <<handed>> = Append(told, handed)
      BY <1>3, OneMore
    <3>2. IsSeq(told \o <<handed>>)
      BY <1>3, ShortSeqs, PrefixOfJoin
    <3>3. Append(told, handed) \o <<>> = Append(told, handed)
      BY <3>1, <3>2, NothingAdded
    <3> QED BY <1>0, <1>2, <1>3, <1>4, <2>2, <3>1, <3>3 DEF InHand
  <2> QED BY <2>1, <2>2
<1>6. Flow' = Flow
  BY <1>4, <1>5 DEF Flow
<1>7. ASSUME reader'.at # "closed" PROVE \E c \in 0..Len(seen') : Following(c)'
  <2>1. PICK c \in 0..Len(seen) : Following(c)
    BY <1>0, <1>7 DEF Heard
  <2>2. Passed(c)'
    BY <1>0, <2>1, EndStays DEF Following
  <2>3. Following(c)'
    BY <1>0, <1>6, <2>1, <2>2, FollowingStays
  <2> QED BY <1>0, <2>3
<1>8. ASSUME reader'.at = "closed", mode' = "stream"
      PROVE  IsPrefix(Body \o InHand, SaidTo(Len(seen)))'
  <2>1. PICK n : n = Len(seen)
    OBVIOUS
  <2>2. IsPrefix(Body \o InHand, SaidTo(n))
    BY <1>0, <1>8, <2>1 DEF Heard
  <2>3. Agree(Len(seen), seen, seen') /\ n \in 0..Len(seen) /\ Len(seen') = n
    BY <1>0, <2>1 DEF Agree
  <2>4. SaidTo(n)' = SaidTo(n)
    BY <1>0, <2>3, TurnKept
  <2> QED BY <1>5, <2>2, <2>3, <2>4
<1>9. Heard'
  BY <1>7, <1>8 DEF Heard
<1>10. ASSUME NEW event, DoneIsTrue(event) PROVE DoneStaysTrue(event)
  BY <1>0, <1>6, <1>10, DoneTruthStays
<1>11. DonesAreTrue'
  <2>1. reader'.at = "send" => DoneStaysTrue(reader'.event)
    BY <1>0, <1>10 DEF DonesAreTrue
  <2>2. DoneStaysTrue(handed')
    BY <1>0, ToldHaveKinds DEF DoneStaysTrue
  <2>3. DoneStaysTrue(Last(told'))
    BY <1>2, <1>10 DEF DonesAreTrue
  <2> QED BY <2>1, <2>2, <2>3, DonesStayTrue
<1> QED BY <1>2, <1>9, <1>11

\* The invariant: what is known of the turn and of what is said of it.
WholeInv == ReportInv /\ TellInv

\* Nothing has happened, and nothing was said.
LEMMA TellInit == Init => TellInv
<1> SUFFICES ASSUME Init PROVE TellInv
  OBVIOUS
<1>0. /\ ctx = "live" /\ todo = <<>> /\ seen = <<>> /\ out = <<>> /\ told = <<>>
      /\ session.at = "prompt" /\ handed = Blank
      /\ reader.at = "loop" /\ reader.steps = <<>>
  BY DEF Init
<1>1. Len(<<>>) = 0 /\ <<>> \o <<>> = <<>>
  BY ShortSeqs, NothingAdded
<1>2. Ordered(seen \o todo)
  <2>1. seen \o todo = <<>>
    BY <1>0, <1>1
  <2>2. Ordered(<<>>)
    BY <1>1 DEF Ordered, CallsArePairs, CallsAreAsked, AnswerIsLast, HasMessage
  <2> QED BY <2>1, <2>2
<1>3. Passed(0)
  BY <1>0, <1>1 DEF Passed, InChannel, EmitsNext, AllThere
<1>4. Reads(0)
  <2>1. Remembers(0)
    BY DEF Remembers
  <2>2. Collects(0)
    BY <1>0, <1>1, NothingYet DEF Collects, OpenStep
  <2> QED BY <2>1, <2>2 DEF Reads, HasAnswer
<1>5. Speaks(0)
  BY <1>0, <1>1, NothingYet DEF Speaks, Flow, Body, InHand, Pending
<1>6. Heard
  <2>1. 0 \in 0..Len(seen) /\ Following(0)
    BY <1>0, <1>1, <1>3, <1>4, <1>5 DEF Following
  <2> QED BY <1>0, <2>1 DEF Heard
<1>7. Concludes
  BY <1>0, <1>1 DEF Concludes
<1>8. DonesAreTrue
  BY <1>0, ToldHaveKinds DEF DonesAreTrue, DoneIsTrue
<1>9. LastWord
  BY <1>0, <1>1 DEF LastWord
<1> QED BY <1>2, <1>6, <1>7, <1>8, <1>9 DEF TellInv

\* Every step keeps it.
LEMMA TellStep == WholeInv /\ [Next]_vars => WholeInv'
<1> SUFFICES ASSUME WholeInv, [Next]_vars PROVE WholeInv'
  OBVIOUS
<1>0. /\ SessionTypes /\ ReaderTypes /\ Answering /\ ReportInv'
      /\ Ordered(seen \o todo) /\ Heard /\ Concludes /\ DonesAreTrue /\ LastWord
      /\ SeenInOrder
  <2>1. ReportInv /\ TellInv /\ SessionTypes /\ ReaderTypes /\ Answering
    BY DEF WholeInv, ReportInv
  <2>2. Ordered(seen \o todo) /\ SeenInOrder
    BY <2>1, SeenIsOrdered DEF TellInv, SessionTypes
  <2>3. ReportInv'
    BY <2>1, ReportStep
  <2> QED BY <2>1, <2>2, <2>3 DEF TellInv
<1>1. CASE Next
  <2>1. Ordered(seen \o todo)'
    BY <1>0, <1>1, OrderKept
  <2>2. Concludes'
    BY <1>0, <1>1, SessionConcludes, ReaderConcludes DEF Next
  <2>3. Heard' /\ DonesAreTrue' /\ LastWord'
    <3>1. CASE EndContext \/ SessionStep
      BY <1>0, <3>1, SessionKeepsTelling
    <3>2. CASE TakeDelta \/ TakeMessage \/ TakeStart \/ TakeEnd
      BY <1>0, <3>2, TakingTells
    <3>3. CASE TakeCompleted \/ TakeFailed \/ TakeRefused
      BY <1>0, <3>3, TakingTheEndTells
    <3>4. CASE ChannelEnds
      BY <1>0, <3>4, TheEndTells
    <3>5. CASE Record
      BY <1>0, <3>5, RecordTells
    <3>6. CASE Send
      BY <1>0, <3>6, SendTells
    <3>7. CASE Write
      BY <1>0, <3>7, WriteTells
    <3> QED BY <1>1, <3>1, <3>2, <3>3, <3>4, <3>5, <3>6, <3>7 DEF Next, ReaderStep
  <2> QED BY <1>0, <2>1, <2>2, <2>3 DEF WholeInv, TellInv
<1>2. CASE UNCHANGED vars
  <2>1. UNCHANGED <<mode, ctx, todo, seen, session, kept, recorded, out, reader, handed, told>>
    BY <1>2 DEF vars, runtime
  <2>2. Len(seen) \in Nat
    BY <1>0, EventsOf DEF SessionTypes
  <2>3. Ordered(seen \o todo)' /\ LastWord'
    BY <1>0, <2>1 DEF LastWord
  <2>4. Flow' = Flow /\ Body' = Body /\ InHand' = InHand
    BY <2>1 DEF Flow, Body, InHand, Pending
  <2>5. PICK n : n = Len(seen)
    OBVIOUS
  <2>6. n \in 0..Len(seen) /\ Len(seen') = n /\ SaidTo(n)' = SaidTo(n)
    <3>1. Agree(Len(seen), seen, seen') /\ n \in 0..Len(seen) /\ Len(seen') = n
      BY <2>1, <2>2, <2>5 DEF Agree
    <3> QED BY <1>0, <2>2, <3>1, TurnKept
  <2>7. Heard'
    <3>1. ASSUME reader'.at # "closed" PROVE \E c \in 0..Len(seen') : Following(c)'
      <4>1. PICK c \in 0..Len(seen) : Following(c)
        BY <1>0, <2>1, <3>1 DEF Heard
      <4>2. Passed(c)'
        BY <2>1, <4>1, EndStays DEF Following
      <4>3. Following(c)'
        BY <1>0, <2>1, <2>2, <2>4, <4>1, <4>2, FollowingStays
      <4> QED BY <2>1, <4>3
    <3>2. ASSUME reader'.at = "closed", mode' = "stream" PROVE IsPrefix(Body \o InHand, SaidTo(Len(seen)))'
      <4>1. IsPrefix(Body \o InHand, SaidTo(n))
        BY <1>0, <2>1, <2>5, <3>2 DEF Heard
      <4> QED BY <2>4, <2>6, <4>1
    <3> QED BY <3>1, <3>2 DEF Heard
  <2>8. Concludes'
    <3>1. Finished' <=> Finished
      BY <2>1, EndStays
    <3> QED BY <1>0, <2>1, <3>1 DEF Concludes
  <2>9. ASSUME NEW event, DoneIsTrue(event) PROVE DoneStaysTrue(event)
    BY <1>0, <2>1, <2>2, <2>4, <2>9, DoneTruthStays
  <2>10. DonesAreTrue'
    <3>1. reader'.at = "send" => DoneStaysTrue(reader'.event)
      BY <1>0, <2>1, <2>9 DEF DonesAreTrue
    <3>2. DoneStaysTrue(handed')
      BY <1>0, <2>1, <2>9 DEF DonesAreTrue
    <3>3. told' # <<>> => DoneStaysTrue(Last(told'))
      BY <1>0, <2>1, <2>9 DEF DonesAreTrue
    <3> QED BY <3>1, <3>2, <3>3, DonesStayTrue
  <2> QED BY <1>0, <2>3, <2>7, <2>8, <2>10 DEF WholeInv, TellInv
<1> QED BY <1>1, <1>2

\* The invariant says that a stream tells the turn in order.
LEMMA InOrder == WholeInv => ToldInOrder
<1> SUFFICES ASSUME WholeInv, mode = "stream"
             PROVE  /\ IsPrefix(Body, SaidTo(Len(seen)))
                    /\ \A i \in 1..Len(told) : IsTerminal(told[i]) => i = Len(told)
  BY DEF ToldInOrder
<1>0. SessionTypes /\ ReaderTypes /\ Heard /\ LastWord
  BY DEF WholeInv, ReportInv, TellInv
<1>1. PICK n : n = Len(seen)
  OBVIOUS
<1>2. n \in Nat
  BY <1>0, <1>1, EventsOf DEF SessionTypes
<1>3. IsSeq(Body) /\ IsSeq(InHand) /\ IsSeq(Pending) /\ IsSeq(Body \o InHand) /\ IsSeq(Flow)
  BY <1>0, FlowIsSeq DEF ReaderTypes
<1>4. IsPrefix(Body, Body \o InHand)
  BY <1>3, PrefixOfJoin
<1>5. IsSeq(SaidTo(n))
  BY <1>2, OneEventMore
<1>6. IsPrefix(Body \o InHand, SaidTo(n))
  <2>1. CASE reader.at = "closed"
    BY <1>0, <1>1, <2>1 DEF Heard
  <2>2. CASE reader.at # "closed"
    <3>1. PICK c \in 0..n : Following(c)
      BY <1>0, <1>1, <2>2 DEF Heard
    <3>2. Flow = SaidTo(c)
      BY <3>1 DEF Following, Speaks
    <3>3. IsPrefix(SaidTo(c), SaidTo(n))
      BY <1>2, SaidBefore
    <3>4. IsPrefix(Body \o InHand, Flow)
      BY <1>3, PrefixOfJoin DEF Flow
    <3> QED BY <1>3, <1>5, <3>2, <3>3, <3>4, PrefixOfMore
  <2> QED BY <2>1, <2>2
<1>7. IsPrefix(Body, SaidTo(n))
  BY <1>3, <1>4, <1>5, <1>6, PrefixOfMore
<1> QED BY <1>0, <1>1, <1>7 DEF LastWord

\* The invariant says that "done" is said of the whole turn.
LEMMA DoneIsWhole == WholeInv => DoneTellsTheTurn
<1> SUFFICES ASSUME WholeInv, told # <<>>, Last(told).kind = "done"
             PROVE  /\ kept /\ recorded
                    /\ Last(told).text = LastMessage.text
                    /\ IF mode = "stream" THEN Body = SaidTo(Len(seen))
                       ELSE Last(told).calls = StepsTo(Len(seen))
  BY DEF DoneTellsTheTurn
<1>0. SessionTypes /\ ReaderTypes /\ Answering /\ DonesAreTrue
  BY DEF WholeInv, ReportInv, TellInv
<1>1. /\ Finished /\ recorded
      /\ Last(told).text = seen[Len(seen)].text
      /\ mode = "stream" => Flow = SaidTo(Len(seen))
      /\ mode # "stream" => Last(told).calls = StepsTo(Len(seen))
  BY <1>0 DEF DonesAreTrue, DoneIsTrue
<1>2. LastMessage = seen[Len(seen)]
  BY <1>0, <1>1, LastMessageIs DEF SessionTypes
<1>3. reader.at = "closed" /\ handed = Blank
  BY <1>0 DEF Answering, TerminalIsLast, EndsIn
<1>4. Flow = Body
  <2>1. InHand = <<>> /\ Pending = <<>>
    BY <1>3 DEF InHand, Pending
  <2>2. IsSeq(Body)
    BY <1>0, FlowIsSeq DEF ReaderTypes
  <2> QED BY <2>1, <2>2, NothingAdded DEF Flow
<1>5. kept
  BY <1>1 DEF Finished
<1> QED BY <1>1, <1>2, <1>4, <1>5

\* The conjunction holds at every moment.
LEMMA WholeAlways == Spec => []WholeInv
<1>1. Init => WholeInv
  BY ReportInit, TellInit DEF WholeInv
<1>2. WholeInv /\ [Next]_vars => WholeInv'
  BY TellStep
<1> QED BY <1>1, <1>2, PTL DEF Spec

\* A streaming client has at every moment been told the beginning of its turn, in
\* order and with nothing left out, and nothing follows the terminal event: for
\* every turn, every capacity of the channel and an end of the context at any
\* moment, with events of the turn dropped on the way (runPrompt L177-179,
\* forwardStreamEvents L559-611).  Each call comes with its own arguments, unless
\* its message gives its identifier to another call as well.
THEOREM ToldAsItHappened == Spec => []ToldInOrder
<1>1. WholeInv => ToldInOrder
  BY InOrder
<1> QED BY <1>1, WholeAlways, PTL

\* A client that is told "done", as a stream or in the one reply, has the answer
\* and every step of a turn that is committed and recorded (collectRunResult
\* L623-663, forwardStreamEvents L594-609); the arguments of a step are its call's,
\* with the same exception.
THEOREM DoneTellsAll == Spec => []DoneTellsTheTurn
<1>1. WholeInv => DoneTellsTheTurn
  BY DoneIsWhole
<1> QED BY <1>1, WholeAlways, PTL

=============================================================================
