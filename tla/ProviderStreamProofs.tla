------------------------- MODULE ProviderStreamProofs -------------------------
(***************************************************************************)
(* What becomes of a provider's stream: that its tokens are accounted for, *)
(* and stored in order with its tool calls.                                *)
(***************************************************************************)
EXTENDS ReadModelProofs

-----------------------------------------------------------------------------
(* Tokens stored, unfolded *)

LEMMA DeltaIsNat ==
    ASSUME NEW r \in Row, NEW turn
    PROVE  DeltaTokens(r, turn) \in Nat
<1>1. r.event \in Event
  BY DEF Row
<1> QED BY <1>1, EventFields DEF DeltaTokens

(* The running totals of a log. *)
Totals(f, rows, turn) ==
    /\ f \in [0..Len(rows) -> Nat]
    /\ f[0] = 0
    /\ \A k \in 1..Len(rows) : f[k] = f[k - 1] + DeltaTokens(rows[k], turn)

LEMMA TokensStoredRuns ==
    ASSUME NEW rows \in Seq(Row), NEW turn
    PROVE  \E f : Totals(f, rows, turn) /\ TokensStored(rows, turn) = f[Len(rows)]
<1> DEFINE n == Len(rows)
           step == [k \in 1..n |-> [x \in Nat |-> x + DeltaTokens(rows[k], turn)]]
           Def(g) == [k \in 0..n |-> IF k = 0 THEN 0 ELSE g[k - 1] + DeltaTokens(rows[k], turn)]
           sum == CHOOSE g : g = Def(g)
<1>1. n \in Nat /\ \A k \in 1..n : rows[k] \in Row /\ DeltaTokens(rows[k], turn) \in Nat
  BY DeltaIsNat
<1>2. step \in [1..n -> [Nat -> Nat]]
  BY <1>1
<1> HIDE DEF n
<1>3. PICK f \in [0..n -> Nat] : IsFold(f, 0, step, n)
  <2> HIDE DEF step
  <2> QED BY <1>1, <1>2, FoldExists
<1>4. \A k \in 1..n : k - 1 \in 0..n /\ f[k - 1] \in Nat
  BY <1>1
<1>5. f[0] = 0 /\ \A k \in 1..n : f[k] = f[k - 1] + DeltaTokens(rows[k], turn)
  BY <1>3, <1>4 DEF IsFold
<1>6. f = Def(f)
  <2>1. \A k \in 0..n : k = 0 \/ k \in 1..n
    BY <1>1
  <2> QED BY <1>5, <2>1
<1>7. sum = Def(sum)
  <2> HIDE DEF Def
  <2> QED BY <1>6
<1>8. TokensStored(rows, turn) = sum[n]
  BY DEF TokensStored, n
<1> HIDE DEF sum
<1>9. sum[0] = 0 /\ \A k \in 1..n : sum[k] = sum[k - 1] + DeltaTokens(rows[k], turn)
  BY <1>1, <1>7
<1>10. \A k \in 0..n : sum[k] = f[k]
  <2>1. StepAlike(sum, f, n)
    BY <1>5, <1>9 DEF StepAlike
  <2> QED BY <1>1, <2>1, SameSteps
<1>11. TokensStored(rows, turn) = f[n]
  BY <1>1, <1>8, <1>10
<1> QED BY <1>5, <1>11 DEF Totals, n

LEMMA TokensStoredIsNat ==
    ASSUME NEW rows \in Seq(Row), NEW turn
    PROVE  TokensStored(rows, turn) \in Nat
<1>1. PICK f : Totals(f, rows, turn) /\ TokensStored(rows, turn) = f[Len(rows)]
  BY TokensStoredRuns
<1>2. Len(rows) \in 0..Len(rows)
  OBVIOUS
<1> QED BY <1>1, <1>2 DEF Totals

LEMMA TokensStoredConcat ==
    ASSUME NEW a \in Seq(Row), NEW b \in Seq(Row), NEW turn
    PROVE  TokensStored(a \o b, turn) = TokensStored(a, turn) + TokensStored(b, turn)
<1> DEFINE n == Len(a)
           m == Len(b)
<1>0. n \in Nat /\ m \in Nat /\ a \o b \in Seq(Row) /\ Len(a \o b) = n + m
  OBVIOUS
<1>1. PICK f : Totals(f, a, turn) /\ TokensStored(a, turn) = f[n]
  BY TokensStoredRuns
<1>2. PICK g : Totals(g, a \o b, turn) /\ TokensStored(a \o b, turn) = g[n + m]
  BY <1>0, TokensStoredRuns
<1>3. PICK h : Totals(h, b, turn) /\ TokensStored(b, turn) = h[m]
  BY TokensStoredRuns
<1> DEFINE moved == [k \in 0..m |-> g[n + k]]
           raised == [k \in 0..m |-> f[n] + h[k]]
<1>4. /\ \A k \in 1..n : (a \o b)[k] = a[k]
      /\ \A k \in 1..m : (a \o b)[n + k] = b[k] /\ b[k] \in Row
  OBVIOUS
<1> HIDE DEF n, m
<1>5. /\ f[0] = 0 /\ \A k \in 1..n : f[k] = f[k - 1] + DeltaTokens(a[k], turn)
      /\ g[0] = 0 /\ \A k \in 1..(n + m) : g[k] = g[k - 1] + DeltaTokens((a \o b)[k], turn)
      /\ h[0] = 0 /\ \A k \in 1..m : h[k] = h[k - 1] + DeltaTokens(b[k], turn)
  BY <1>0, <1>1, <1>2, <1>3 DEF Totals, n, m
<1>6. f[n] \in Nat /\ \A k \in 0..m : h[k] \in Nat
  <2>1. f \in [0..n -> Nat] /\ h \in [0..m -> Nat]
    BY <1>1, <1>3 DEF Totals, n, m
  <2> QED BY <1>0, <2>1
<1>7. \A k \in 0..n : g[k] = f[k]
  <2>1. ASSUME NEW k \in 1..n, g[k - 1] = f[k - 1] PROVE g[k] = f[k]
    <3>1. k \in 1..(n + m)
      BY <1>0
    <3>2. g[k] = g[k - 1] + DeltaTokens(a[k], turn)
      BY <1>4, <1>5, <3>1
    <3>3. f[k] = f[k - 1] + DeltaTokens(a[k], turn)
      BY <1>5
    <3> QED BY <2>1, <3>2, <3>3
  <2>2. StepAlike(g, f, n)
    BY <1>5, <2>1 DEF StepAlike
  <2> QED BY <1>0, <2>2, SameSteps
<1>8. \A k \in 0..m : moved[k] = raised[k]
  <2>1. moved[0] = raised[0]
    BY <1>0, <1>5, <1>6, <1>7
  <2>2. ASSUME NEW k \in 1..m, moved[k - 1] = raised[k - 1] PROVE moved[k] = raised[k]
    <3>1. /\ n + k \in 1..(n + m) /\ (n + k) - 1 = n + (k - 1)
          /\ k \in 0..m /\ k - 1 \in 0..m
      BY <1>0
    <3>2. g[n + k] = g[n + (k - 1)] + DeltaTokens(b[k], turn)
      BY <1>4, <1>5, <3>1
    <3>3. /\ moved[k] = g[n + k] /\ moved[k - 1] = g[n + (k - 1)]
          /\ raised[k] = f[n] + h[k] /\ raised[k - 1] = f[n] + h[k - 1]
      BY <3>1
    <3>4. DeltaTokens(b[k], turn) \in Nat /\ h[k - 1] \in Nat
      BY <1>4, <1>6, <3>1, DeltaIsNat
    <3> QED BY <1>5, <1>6, <2>2, <3>2, <3>3, <3>4
  <2> HIDE DEF moved, raised
  <2>3. StepAlike(moved, raised, m)
    BY <2>1, <2>2 DEF StepAlike
  <2> QED BY <1>0, <2>3, SameSteps
<1>9. g[n + m] = f[n] + h[m]
  <2>1. m \in 0..m
    BY <1>0
  <2> QED BY <1>8, <2>1
<1> QED BY <1>1, <1>2, <1>3, <1>9

(* Rows that add nothing. *)
LEMMA NoTokensStored ==
    ASSUME NEW rows \in Seq(Row), NEW turn, \A k \in 1..Len(rows) : DeltaTokens(rows[k], turn) = 0
    PROVE  TokensStored(rows, turn) = 0
<1> DEFINE n == Len(rows)
           Zero == {0}
<1>1. PICK f : Totals(f, rows, turn) /\ TokensStored(rows, turn) = f[n]
  BY TokensStoredRuns
<1>2. n \in Nat /\ n \in 0..n
  OBVIOUS
<1>3. StepInto(f, Zero, n)
  BY <1>1 DEF Totals, StepInto
<1> HIDE DEF n, Zero
<1>4. \A k \in 0..n : f[k] \in Zero
  BY <1>2, <1>3, StepsStayIn
<1> QED BY <1>1, <1>2, <1>4 DEF Zero

LEMMA OneRowStored ==
    ASSUME NEW rows \in Seq(Row), NEW turn, Len(rows) = 1
    PROVE  TokensStored(rows, turn) = DeltaTokens(rows[1], turn)
<1>1. PICK f : Totals(f, rows, turn) /\ TokensStored(rows, turn) = f[1]
  BY TokensStoredRuns
<1>2. rows[1] \in Row /\ DeltaTokens(rows[1], turn) \in Nat
  BY DeltaIsNat
<1>3. f[0] = 0 /\ f[1] = f[0] + DeltaTokens(rows[1], turn)
  BY <1>1 DEF Totals
<1> QED BY <1>1, <1>2, <1>3

-----------------------------------------------------------------------------
(* Counting *)

LEMMA PositionsAreFinite ==
    ASSUME NEW n \in Nat, NEW A \in SUBSET (1..n)
    PROVE  IsFiniteSet(A) /\ Cardinality(A) \in Nat
<1>1. IsFiniteSet(1..n)
  BY FS_Interval
<1> QED BY <1>1, FS_Subset, FS_CardinalityType

(* The events of one type in a provider's stream: in all of it, and up to a *)
(* position.                                                               *)
CountIn(s, type) == Cardinality({i \in DOMAIN s : s[i] = type})
CountUpTo(s, type, p) == Cardinality({i \in 1..p : s[i] = type})

LEMMA CountIsNat ==
    ASSUME NEW S, NEW s \in Seq(S), NEW type
    PROVE  /\ CountIn(s, type) \in Nat
           /\ CountIn(s, type) = CountUpTo(s, type, Len(s))
           /\ \A p \in 0..Len(s) : CountUpTo(s, type, p) \in Nat
<1>1. DOMAIN s = 1..Len(s) /\ Len(s) \in Nat
  OBVIOUS
<1>2. CountIn(s, type) = CountUpTo(s, type, Len(s))
  BY <1>1 DEF CountIn, CountUpTo
<1>3. ASSUME NEW p \in Nat PROVE CountUpTo(s, type, p) \in Nat
  <2>1. {i \in 1..p : s[i] = type} \in SUBSET (1..p)
    OBVIOUS
  <2> QED BY <2>1, PositionsAreFinite DEF CountUpTo
<1>4. \A p \in 0..Len(s) : p \in Nat
  BY <1>1
<1> QED BY <1>1, <1>2, <1>3, <1>4

LEMMA CountNext ==
    ASSUME NEW s, NEW type, NEW p \in Nat
    PROVE  CountUpTo(s, type, p + 1) =
             CountUpTo(s, type, p) + (IF s[p + 1] = type THEN 1 ELSE 0)
<1> DEFINE A == {i \in 1..p : s[i] = type}
           B == {i \in 1..(p + 1) : s[i] = type}
<1>1. IsFiniteSet(A) /\ Cardinality(A) \in Nat
  BY PositionsAreFinite
<1>2. p + 1 \notin A
  OBVIOUS
<1>3. CASE s[p + 1] = type
  <2>1. B = A \cup {p + 1}
    BY <1>3
  <2> HIDE DEF A, B
  <2> QED BY <1>1, <1>2, <1>3, <2>1, FS_AddElement DEF CountUpTo, A, B
<1>4. CASE s[p + 1] # type
  <2>1. B = A
    BY <1>4
  <2> QED BY <1>1, <1>4, <2>1 DEF CountUpTo
<1> QED BY <1>3, <1>4

LEMMA CountMonotone ==
    ASSUME NEW s, NEW type, NEW n \in Nat, NEW p \in 0..n
    PROVE  CountUpTo(s, type, p) <= CountUpTo(s, type, n)
<1> DEFINE A == {i \in 1..p : s[i] = type}
           B == {i \in 1..n : s[i] = type}
<1>1. IsFiniteSet(B) /\ A \in SUBSET B
  <2>1. B \in SUBSET (1..n) /\ A \in SUBSET B
    OBVIOUS
  <2> HIDE DEF A, B
  <2> QED BY <2>1, PositionsAreFinite
<1> HIDE DEF A, B
<1>2. Cardinality(A) <= Cardinality(B)
  BY <1>1, FS_Subset
<1> QED BY <1>2 DEF CountUpTo, A, B

(* Taking the first event of a stream takes it from the count. *)
LEMMA CountTail ==
    ASSUME NEW S, NEW s \in Seq(S), s # <<>>, NEW type
    PROVE  CountIn(s, type) = CountIn(Tail(s), type) + (IF Head(s) = type THEN 1 ELSE 0)
<1> DEFINE n == Len(s)
           A == {i \in 1..n : s[i] = type}
           B == {i \in 1..(n - 1) : s[i + 1] = type}
           C == A \ {1}
           f == [i \in C |-> i - 1]
<1>1. /\ n \in Nat \ {0} /\ DOMAIN s = 1..n /\ Head(s) = s[1]
      /\ DOMAIN Tail(s) = 1..(n - 1) /\ \A i \in 1..(n - 1) : Tail(s)[i] = s[i + 1]
  OBVIOUS
<1>2. CountIn(s, type) = Cardinality(A) /\ CountIn(Tail(s), type) = Cardinality(B)
  <2>1. {i \in 1..(n - 1) : Tail(s)[i] = type} = B
    BY <1>1
  <2> QED BY <1>1, <2>1 DEF CountIn
<1> HIDE DEF n
<1>3. IsFiniteSet(A) /\ Cardinality(A) \in Nat
  BY <1>1, PositionsAreFinite
<1>4. IsFiniteSet(C)
  BY <1>3, FS_Subset
<1>5. f \in Bijection(C, B)
  <2>1. f \in [C -> B]
    <3> SUFFICES ASSUME NEW i \in C PROVE i - 1 \in B
      OBVIOUS
    <3>1. i \in 1..n /\ i # 1 /\ s[i] = type
      OBVIOUS
    <3>2. i - 1 \in 1..(n - 1) /\ (i - 1) + 1 = i
      BY <1>1, <3>1
    <3> QED BY <3>1, <3>2
  <2>2. \A i, j \in C : f[i] = f[j] => i = j
    BY <1>1
  <2>3. \A j \in B : \E i \in C : f[i] = j
    <3> TAKE j \in B
    <3>1. j + 1 \in C /\ (j + 1) - 1 = j
      BY <1>1
    <3>2. f[j + 1] = j
      BY <3>1
    <3> HIDE DEF C, f
    <3> QED BY <3>1, <3>2
  <2> HIDE DEF A, B, C, f
  <2>4. f \in Injection(C, B)
    BY <2>1, <2>2 DEF Injection, IsInjective
  <2>5. f \in Surjection(C, B)
    BY <2>1, <2>3 DEF Surjection
  <2> QED BY <2>4, <2>5 DEF Bijection
<1>6. Cardinality(B) = Cardinality(C)
  <2> HIDE DEF A, B, C, f
  <2>1. ExistsBijection(C, B)
    BY <1>5 DEF ExistsBijection
  <2> QED BY <1>4, <2>1, FS_Bijection, FS_SameCardinalityBij
<1>7. CASE Head(s) = type
  <2>1. 1 \in A
    BY <1>1, <1>7
  <2> HIDE DEF A
  <2>2. Cardinality(C) = Cardinality(A) - 1
    BY <1>3, <2>1, FS_RemoveElement
  <2> HIDE DEF B, C
  <2> QED BY <1>2, <1>3, <1>6, <1>7, <2>2
<1>8. CASE Head(s) # type
  <2>1. C = A
    BY <1>1, <1>8
  <2> HIDE DEF A, B, C
  <2> QED BY <1>2, <1>3, <1>6, <1>8, <2>1
<1> QED BY <1>7, <1>8

(* The tool calls stored for a turn. *)
LEMMA CallsConcat ==
    ASSUME NEW a \in Seq(Row), NEW b \in Seq(Row), NEW turn, Len(b) = 1
    PROVE  CallsStored(a \o b, turn) =
             CallsStored(a, turn) + (IF IsCall(b[1], turn) THEN 1 ELSE 0)
<1> DEFINE n == Len(a)
           A == {i \in 1..n : IsCall(a[i], turn)}
           B == {i \in 1..(n + 1) : IsCall((a \o b)[i], turn)}
<1>1. /\ n \in Nat /\ DOMAIN a = 1..n /\ DOMAIN (a \o b) = 1..(n + 1)
      /\ \A i \in 1..n : (a \o b)[i] = a[i]
      /\ (a \o b)[n + 1] = b[1]
  <2>1. \A x \in Seq(Row), y \in Seq(Row) : Len(x \o y) = Len(x) + Len(y)
    OBVIOUS
  <2>2. \A x \in Seq(Row), y \in Seq(Row) : \A i \in 1..Len(x) : (x \o y)[i] = x[i]
    OBVIOUS
  <2>3. \A x \in Seq(Row), y \in Seq(Row) : \A i \in 1..Len(y) : (x \o y)[Len(x) + i] = y[i]
    OBVIOUS
  <2>4. \A x \in Seq(Row) : Len(x) \in Nat /\ DOMAIN x = 1..Len(x)
    OBVIOUS
  <2>5. a \o b \in Seq(Row) /\ 1 \in 1..Len(b)
    OBVIOUS
  <2> QED BY <2>1, <2>2, <2>3, <2>4, <2>5
<1>2. CallsStored(a, turn) = Cardinality(A) /\ CallsStored(a \o b, turn) = Cardinality(B)
  BY <1>1 DEF CallsStored
<1>3. \A i \in 1..(n + 1) : i \in 1..n \/ i = n + 1
  BY <1>1
<1> HIDE DEF n
<1>4. IsFiniteSet(A) /\ Cardinality(A) \in Nat /\ n + 1 \notin A
  <2>1. A \in SUBSET (1..n) /\ n + 1 \notin A
    BY <1>1
  <2> HIDE DEF A
  <2> QED BY <1>1, <2>1, PositionsAreFinite
<1>5. CASE IsCall(b[1], turn)
  <2>1. B = A \cup {n + 1}
    BY <1>1, <1>3, <1>5
  <2> HIDE DEF A, B
  <2> QED BY <1>2, <1>4, <1>5, <2>1, FS_AddElement
<1>6. CASE ~IsCall(b[1], turn)
  <2>1. B = A
    BY <1>1, <1>3, <1>6
  <2> HIDE DEF A, B
  <2> QED BY <1>2, <1>4, <1>6, <2>1
<1> QED BY <1>5, <1>6

LEMMA NoCallsConcat ==
    ASSUME NEW a \in Seq(Row), NEW b \in Seq(Row), NEW turn,
           \A k \in 1..Len(b) : ~IsCall(b[k], turn)
    PROVE  CallsStored(a \o b, turn) = CallsStored(a, turn)
<1> DEFINE n == Len(a)
           m == Len(b)
<1>1. /\ n \in Nat /\ m \in Nat /\ DOMAIN a = 1..n /\ DOMAIN (a \o b) = 1..(n + m)
      /\ \A i \in 1..n : (a \o b)[i] = a[i]
      /\ \A i \in (n + 1)..(n + m) : i - n \in 1..m /\ (a \o b)[i] = b[i - n]
  OBVIOUS
<1>2. \A i \in 1..(n + m) : i \in 1..n \/ i \in (n + 1)..(n + m)
  BY <1>1
<1>3. {i \in 1..n : IsCall(a[i], turn)} = {i \in 1..(n + m) : IsCall((a \o b)[i], turn)}
  BY <1>1, <1>2
<1> QED BY <1>1, <1>3 DEF CallsStored

LEMMA CallsIsNat ==
    ASSUME NEW rows \in Seq(Row), NEW turn
    PROVE  CallsStored(rows, turn) \in Nat
<1>1. DOMAIN rows = 1..Len(rows) /\ Len(rows) \in Nat
  OBVIOUS
<1> QED BY <1>1, PositionsAreFinite DEF CallsStored

-----------------------------------------------------------------------------
(* Who writes what a provider reports: only consumers do, one event at a   *)
(* time, into the stream of their turn.                                    *)
ReportTypes == {"MessageDeltaAppended", "ActivityLogged"}

LEMMA DecideReports ==
    ASSUME NEW c \in Command, NEW fresh
    PROVE  \A k \in 1..Len(Decide(c, fresh)) : Decide(c, fresh)[k].type \notin ReportTypes
<1> DEFINE Other(e) == e.type \notin ReportTypes
<1>0. \A e, f : /\ Other(e) => \A k \in 1..Len(<<e>>) : Other(<<e>>[k])
                /\ Other(e) /\ Other(f) => \A k \in 1..Len(<<e, f>>) : Other(<<e, f>>[k])
  OBVIOUS
<1>1. CASE c.type \in DOMAIN NewThreadStatus
  <2>1. Decide(c, fresh) = <<ThreadStatusChanged(c.id, NewThreadStatus[c.type])>>
    BY <1>1 DEF Decide, NewThreadStatus, PlainEventType
  <2>2. Other(ThreadStatusChanged(c.id, NewThreadStatus[c.type]))
    BY DEF ThreadStatusChanged, EventRecord, ReportTypes
  <2> HIDE DEF Other
  <2> QED BY <1>0, <2>1, <2>2 DEF Other
<1>2. CASE c.type \in DOMAIN PlainEventType
  <2> DEFINE e == EventRecord(PlainEventType[c.type], c.id, Nil, c.arg, c.n)
  <2>1. Decide(c, fresh) = <<e>>
    BY <1>2 DEF Decide, NewThreadStatus, PlainEventType
  <2>2. Other(e)
    BY <1>2 DEF EventRecord, ReportTypes, PlainEventType
  <2> HIDE DEF Other, e
  <2> QED BY <1>0, <2>1, <2>2 DEF Other
<1>3. CASE c.type \in {"CreateProject", "CreateThread", "AddMessage"}
  <2>1. PICK e : Decide(c, fresh) = <<e>> /\ e.type \in {"ProjectCreated", "ThreadCreated",
                                                          "MessageAdded"}
    BY <1>3 DEF Decide, PlainEventType, NewThreadStatus, MessageAdded, EventRecord
  <2>2. Other(e)
    BY <2>1 DEF ReportTypes
  <2> HIDE DEF Other
  <2> QED BY <1>0, <2>1, <2>2 DEF Other
<1>4. CASE c.type = "StartTurn"
  <2>1. PICK e, f : Decide(c, fresh) = <<e, f>> /\ e.type = "TurnStarted"
                                                /\ f.type = "MessageAdded"
    BY <1>4 DEF Decide, PlainEventType, NewThreadStatus, MessageAdded, TurnStarted, EventRecord
  <2>2. Other(e) /\ Other(f)
    BY <2>1 DEF ReportTypes
  <2> HIDE DEF Other
  <2> QED BY <1>0, <2>1, <2>2 DEF Other
<1>5. \/ c.type \in DOMAIN NewThreadStatus \/ c.type \in DOMAIN PlainEventType
      \/ c.type \in {"CreateProject", "CreateThread", "StartTurn", "AddMessage"}
  BY DEF Command, PlainEventType, NewThreadStatus, ThreadCommands, PinCommands,
         MarkerCommands, TurnCommands
<1> QED BY <1>1, <1>2, <1>3, <1>4, <1>5

WorkersDecide ==
    \A w \in Workers : \A k \in 1..Len(evs[w]) : evs[w][k].type \notin ReportTypes

LEMMA WorkerEvents ==
    ASSUME TypeInv, [Next]_vars, NEW w \in Workers
    PROVE  evs'[w] = evs[w] \/ evs'[w] = <<>> \/ DecideCommand(w)
<1>0. w \notin Consumers /\ w \in Tasks /\ evs \in [Tasks -> Seq(Event)]
  BY PipelineAssumption DEF Tasks, TypeInv, TasksTypeOK
<1>1. ASSUME NEW u \in Workers, \/ ReceiveCommand(u) \/ DecideCommand(u) \/ AppendConflict(u)
                                 \/ AppendBusy(u) \/ SaveSnapshot(u)
      PROVE  evs'[w] = evs[w] \/ evs'[w] = <<>> \/ DecideCommand(w)
  <2>1. CASE ReceiveCommand(u) \/ SaveSnapshot(u)
    BY <2>1 DEF ReceiveCommand, SaveSnapshot
  <2>2. CASE AppendConflict(u) \/ AppendBusy(u)
    BY <1>0, <2>2 DEF AppendConflict, AppendBusy
  <2>3. CASE DecideCommand(u)
    <3>1. CASE u = w
      BY <2>3, <3>1
    <3>2. CASE u # w
      <4>1. \/ evs' = evs
            \/ evs' = [evs EXCEPT ![u] = Decide(cmd[u], Ids \ UsedIds)]
        BY <2>3 DEF DecideCommand
      <4> QED BY <1>0, <3>2, <4>1
    <3> QED BY <3>1, <3>2
  <2> QED BY <1>1, <2>1, <2>2, <2>3
<1>2. ASSUME NEW t \in Tasks, \/ ReadVersion(t) \/ BeginAppend(t) \/ CommitAppend(t)
                               \/ ProjectEvents(t) \/ Publish(t)
      PROVE  evs'[w] = evs[w] \/ evs'[w] = <<>>
  BY <1>0, <1>2 DEF ReadVersion, BeginAppend, CommitAppend, ProjectEvents, Publish
<1>3. ASSUME NEW c \in Consumers, \/ TakeToken(c) \/ FlushTokens(c) \/ TakeEvent(c)
                                   \/ StreamEnds(c) \/ ConsumerAppendFails(c)
      PROVE  evs'[w] = evs[w]
  BY <1>0, <1>3 DEF TakeToken, FlushTokens, TakeEvent, StreamEnds, ConsumerAppendFails, Submit
<1>4. RepairStep => evs'[w] = evs[w]
  BY RepairTouchesStoreOnly
<1>5. Restart \/ UNCHANGED vars => evs'[w] = evs[w] \/ evs'[w] = <<>>
  BY <1>0 DEF Restart, vars
<1> QED BY <1>1, <1>2, <1>3, <1>4, <1>5, NextCases

LEMMA WorkersDecideStep ==
    ASSUME TypeInv, WorkersDecide, [Next]_vars
    PROVE  WorkersDecide'
<1> SUFFICES ASSUME NEW w \in Workers, NEW k \in 1..Len(evs'[w])
             PROVE  evs'[w][k].type \notin ReportTypes
  BY DEF WorkersDecide
<1>1. CASE evs'[w] = evs[w]
  BY <1>1 DEF WorkersDecide
<1>2. CASE evs'[w] = <<>>
  BY <1>2
<1>3. CASE DecideCommand(w)
  <2>1. /\ cmd[w] \in Command
        /\ evs'[w] = evs[w] \/ evs'[w] = Decide(cmd[w], Ids \ UsedIds)
    BY <1>3 DEF DecideCommand, TypeInv, TasksTypeOK, Tasks
  <2> QED BY <1>1, <2>1, DecideReports
<1> QED BY <1>1, <1>2, <1>3, WorkerEvents

LEMMA OnlyWorkersDecide == Spec => []WorkersDecide
<1>1. Init => WorkersDecide
  BY DEF Init, WorkersDecide, Tasks
<1>2. TypeInv /\ WorkersDecide /\ [Next]_vars => WorkersDecide'
  BY WorkersDecideStep
<1> QED BY <1>1, <1>2, TypeAndStore, PTL DEF Spec

-----------------------------------------------------------------------------
(* What a consumer holds on its way to the store. *)
Underway == {"version", "begin", "commit"}

EventTokens(events) ==
    IF events # <<>> /\ events[1].type = "MessageDeltaAppended" THEN events[1].n ELSE 0
EventCalls(events) == IF events # <<>> /\ events[1].type = "ActivityLogged" THEN 1 ELSE 0

TokensHeld(c) == IF pc[c] \in Underway THEN EventTokens(evs[c]) ELSE 0
CallsHeld(c) == IF pc[c] \in Underway THEN EventCalls(evs[c]) ELSE 0

Reports(c) == {<<>>} \cup {<<e>> : e \in Reported(c)}

LEMMA ReportedTypes ==
    ASSUME NEW c \in Consumers, NEW e \in Reported(c)
    PROVE  /\ e \in Event
           /\ EventTokens(<<e>>) \in Nat
           /\ EventCalls(<<e>>) \in {0, 1}
<1>1. TurnOf[c] \in Turns
  BY PipelineAssumption
<1>2. CASE \E n \in Nat : e = MessageDeltaAppended(TurnOf[c], n)
  BY <1>1, <1>2, EventKinds DEF MessageDeltaAppended, EventRecord, EventTokens, EventCalls
<1>3. CASE e = ActivityLogged(TurnOf[c])
  BY <1>1, <1>3, EventKinds DEF ActivityLogged, EventRecord, EventTokens, EventCalls
<1>4. ASSUME NEW type \in {"TurnCompleted", "TurnFailed"},
             e = EventRecord(type, TurnOf[c], Nil, Nil, 0)
      PROVE  /\ e \in Event
             /\ EventTokens(<<e>>) \in Nat
             /\ EventCalls(<<e>>) \in {0, 1}
  <2>1. type \in TurnEventTypes
    BY DEF TurnEventTypes
  <2>2. e \in Event
    BY <1>1, <1>4, <2>1, EventKinds
  <2>3. e.type = type
    BY <1>4 DEF EventRecord
  <2> QED BY <2>2, <2>3 DEF EventTokens, EventCalls
<1> QED BY <1>2, <1>3, <1>4 DEF Reported

(* The rows a consumer's events make, under whatever numbers. *)
LEMMA ReportRows ==
    ASSUME NEW turn \in Turns, NEW e \in Event, NEW v \in Nat,
           NEW rows, rows = [k \in 1..Len(<<e>>) |->
                               [stream |-> turn, sequence |-> v + k, event |-> <<e>>[k]]]
    PROVE  /\ rows \in Seq(Row) /\ Len(rows) = 1
           /\ rows[1].stream = turn
           /\ DeltaTokens(rows[1], turn) = EventTokens(<<e>>)
           /\ TokensStored(rows, turn) = EventTokens(<<e>>)
           /\ IsCall(rows[1], turn) <=> EventCalls(<<e>>) = 1
<1>1. \A r : <<r>>[1] = r /\ Len(<<r>>) = 1 /\ <<r>> # <<>>
  OBVIOUS
<1> DEFINE r == [stream |-> turn, sequence |-> v + 1, event |-> e]
<1>2. rows = <<r>>
  OBVIOUS
<1>3. r \in Row
  BY DEF Row, Ids
<1>4. r.stream = turn /\ r.event = e
  OBVIOUS
<1> HIDE DEF r
<1>5. rows \in Seq(Row) /\ Len(rows) = 1 /\ rows[1] = r
  BY <1>2, <1>3
<1>6. DeltaTokens(r, turn) = EventTokens(<<e>>) /\ (IsCall(r, turn) <=> EventCalls(<<e>>) = 1)
  BY <1>1, <1>4 DEF DeltaTokens, IsCall, EventTokens, EventCalls
<1>7. TokensStored(rows, turn) = DeltaTokens(rows[1], turn)
  BY <1>5, OneRowStored
<1> QED BY <1>4, <1>5, <1>6, <1>7

LEMMA InFlightIsHeld ==
    ASSUME SourceInv, NEW c \in Consumers
    PROVE  InFlight(c) = TokensHeld(c)
<1>1. StreamOf(c) = TurnOf[c] /\ TurnOf[c] \in Turns
  BY PipelineAssumption DEF StreamOf
<1>2. CASE evs[c] = <<>>
  <2>1. RowsAt(c, 0) = <<>>
    BY <1>2 DEF RowsAt
  <2>2. TokensStored(<<>>, TurnOf[c]) = 0
    <3>1. <<>> \in Seq(Row) /\ \A k \in 1..Len(<<>>) : DeltaTokens(<<>>[k], TurnOf[c]) = 0
      OBVIOUS
    <3> QED BY ONLY <3>1, NoTokensStored
  <2> QED BY <1>2, <2>1, <2>2 DEF InFlight, TokensHeld, EventTokens
<1>3. ASSUME NEW e \in Reported(c), evs[c] = <<e>> PROVE InFlight(c) = TokensHeld(c)
  <2>1. e \in Event /\ 0 \in Nat
    BY ReportedTypes
  <2>2. RowsAt(c, 0) = [k \in 1..Len(<<e>>) |->
                          [stream |-> TurnOf[c], sequence |-> 0 + k, event |-> <<e>>[k]]]
    BY <1>1, <1>3 DEF RowsAt
  <2> DEFINE rows == RowsAt(c, 0)
             turn == TurnOf[c]
  <2> HIDE DEF rows, turn
  <2>3. TokensStored(rows, turn) = EventTokens(<<e>>)
    <3>1. turn \in Turns /\ rows = [k \in 1..Len(<<e>>) |->
                          [stream |-> turn, sequence |-> 0 + k, event |-> <<e>>[k]]]
      BY <1>1, <2>2 DEF rows, turn
    <3> QED BY ONLY <2>1, <3>1, ReportRows
  <2> QED BY <1>3, <2>3 DEF InFlight, TokensHeld, Underway, rows, turn
<1> QED BY <1>2, <1>3 DEF SourceInv, OneReport

-----------------------------------------------------------------------------
(* What a step does to one consumer *)

Bystands(c) ==
    /\ pc'[c] = pc[c] /\ evs'[c] = evs[c]
    /\ inbox'[c] = inbox[c] /\ buf'[c] = buf[c] /\ dropped'[c] = dropped[c]

LEMMA ConsumerCases ==
    ASSUME TypeInv, [Next]_vars, NEW c \in Consumers
    PROVE  \/ ReadVersion(c) \/ BeginAppend(c) \/ CommitAppend(c) \/ ProjectEvents(c)
           \/ Publish(c) \/ TakeToken(c) \/ FlushTokens(c) \/ TakeEvent(c) \/ StreamEnds(c)
           \/ ConsumerAppendFails(c) \/ Restart
           \/ Bystands(c)
<1>0. /\ c \notin Workers /\ c \in Tasks
      /\ pc \in [Tasks -> WorkerPc \cup ConsumerPc] /\ evs \in [Tasks -> Seq(Event)]
      /\ inbox \in [Consumers -> Seq(ProviderEventTypes)]
      /\ buf \in [Consumers -> 0..(TOKEN_BATCH_MAX_COUNT - 1)]
      /\ dropped \in [Consumers -> Nat]
      /\ Workers \subseteq Tasks /\ Consumers \subseteq Tasks
  BY PipelineAssumption DEF Tasks, TypeInv, TasksTypeOK
<1> USE DEF consumerVars
<1>1. ASSUME NEW u \in Workers, \/ ReceiveCommand(u) \/ DecideCommand(u) \/ AppendConflict(u)
                                 \/ AppendBusy(u) \/ SaveSnapshot(u)
      PROVE  Bystands(c)
  <2>0. u # c /\ u \in Tasks
    BY <1>0
  <2>1. CASE ReceiveCommand(u) \/ SaveSnapshot(u)
    BY <1>0, <2>0, <2>1 DEF ReceiveCommand, SaveSnapshot, Bystands
  <2>2. CASE AppendConflict(u) \/ AppendBusy(u)
    <3>1. /\ UNCHANGED <<inbox, buf, dropped>>
          /\ evs' = [evs EXCEPT ![u] = <<>>]
          /\ \E p : pc' = [pc EXCEPT ![u] = p]
      BY <2>2 DEF AppendConflict, AppendBusy, RetryOrGiveUp, Answer
    <3> QED BY <1>0, <2>0, <3>1 DEF Bystands
  <2>3. CASE DecideCommand(u)
    <3>1. /\ UNCHANGED <<inbox, buf, dropped>>
          /\ \/ evs' = evs
             \/ evs' = [evs EXCEPT ![u] = Decide(cmd[u], Ids \ UsedIds)]
          /\ \E p : pc' = [pc EXCEPT ![u] = p]
      BY <2>3 DEF DecideCommand, Answer
    <3> QED BY <1>0, <2>0, <3>1 DEF Bystands
  <2> QED BY <1>1, <2>1, <2>2, <2>3
<1>2. ASSUME NEW t \in Tasks, t # c,
             \/ ReadVersion(t) \/ BeginAppend(t) \/ CommitAppend(t)
             \/ ProjectEvents(t) \/ Publish(t)
      PROVE  Bystands(c)
  <2>1. /\ UNCHANGED <<inbox, buf, dropped>>
        /\ evs' = evs \/ evs' = [evs EXCEPT ![t] = <<>>]
        /\ \E p : pc' = [pc EXCEPT ![t] = p]
    BY <1>2 DEF ReadVersion, BeginAppend, CommitAppend, ProjectEvents, Publish, Answer
  <2> QED BY <1>0, <1>2, <2>1 DEF Bystands
<1>3. ASSUME NEW d \in Consumers, d # c,
             \/ TakeToken(d) \/ FlushTokens(d) \/ TakeEvent(d) \/ StreamEnds(d)
             \/ ConsumerAppendFails(d)
      PROVE  Bystands(c)
  <2>0. d \in Tasks
    BY <1>0
  <2>1. CASE TakeToken(d) \/ FlushTokens(d) \/ TakeEvent(d)
    <3>1. /\ dropped' = dropped
          /\ \E q : inbox' = [inbox EXCEPT ![d] = q] \/ inbox' = inbox
          /\ \E b : buf' = [buf EXCEPT ![d] = b] \/ buf' = buf
          /\ \E e : evs' = [evs EXCEPT ![d] = e] \/ evs' = evs
          /\ \E p : pc' = [pc EXCEPT ![d] = p] \/ pc' = pc
      BY <2>1 DEF TakeToken, FlushTokens, TakeEvent, Submit
    <3> QED BY <1>0, <1>3, <2>0, <3>1 DEF Bystands
  <2>2. CASE StreamEnds(d)
    BY <1>0, <1>3, <2>0, <2>2 DEF StreamEnds, Bystands
  <2>3. CASE ConsumerAppendFails(d)
    <3>1. /\ UNCHANGED <<inbox, buf>>
          /\ \E n : dropped' = [dropped EXCEPT ![d] = n] \/ dropped' = dropped
          /\ evs' = [evs EXCEPT ![d] = <<>>]
          /\ \E p : pc' = [pc EXCEPT ![d] = p]
      BY <2>3 DEF ConsumerAppendFails
    <3> QED BY <1>0, <1>3, <2>0, <3>1 DEF Bystands
  <2> QED BY <1>3, <2>1, <2>2, <2>3
<1>4. RepairStep => Bystands(c)
  BY RepairTouchesStoreOnly DEF Bystands
<1>5. UNCHANGED vars => Bystands(c)
  BY DEF vars, Bystands
<1> QED BY <1>1, <1>2, <1>3, <1>4, <1>5, NextCases

(* One consumer follows a turn, and the database a process boots from has  *)
(* nothing a provider reported for a turn it has yet to follow.            *)
OneConsumerPerTurn == \A c, d \in Consumers : TurnOf[c] = TurnOf[d] => c = d
NothingReportedYet ==
    \A c \in Consumers : \A i \in DOMAIN Existing :
      Existing[i].stream = TurnOf[c] => Existing[i].event.type \notin ReportTypes

(* The rows appended, if any, are none that a provider reported for turn. *)
NothingReported(turn) ==
    \/ log' = log
    \/ \E new \in Seq(Row) :
         /\ log' = log \o new
         /\ \A k \in 1..Len(new) :
              new[k].stream = turn => new[k].event.type \notin ReportTypes

LEMMA OthersReportNothing ==
    ASSUME OneConsumerPerTurn, TypeInv, WorkersDecide, NEW c \in Consumers,
           NEW t \in Tasks, t # c, CommitAppend(t)
    PROVE  NothingReported(TurnOf[c])
<1> DEFINE new == RowsAt(t, ver[t])
<1>1. /\ new \in Seq(Row) /\ log' = log \o new /\ Len(new) = Len(evs[t])
  BY CommitAdds
<1>2. \A k \in 1..Len(evs[t]) : new[k].stream = StreamOf(t) /\ new[k].event = evs[t][k]
  BY DEF RowsAt
<1> HIDE DEF new
<1>3. CASE t \in Workers
  <2>1. \A k \in 1..Len(evs[t]) : evs[t][k].type \notin ReportTypes
    BY <1>3 DEF WorkersDecide
  <2>2. \A k \in 1..Len(new) : new[k].event.type \notin ReportTypes
    BY <1>1, <1>2, <2>1
  <2> HIDE DEF ReportTypes
  <2> QED BY <1>1, <2>2 DEF NothingReported
<1>4. CASE t \in Consumers
  <2>1. StreamOf(t) = TurnOf[t] /\ TurnOf[t] # TurnOf[c]
    BY <1>4, PipelineAssumption DEF StreamOf, OneConsumerPerTurn
  <2> QED BY <1>1, <1>2, <2>1 DEF NothingReported
<1> QED BY <1>3, <1>4 DEF Tasks

LEMMA NothingReportedSpares ==
    ASSUME NEW turn, log \in Seq(Row), NothingReported(turn)
    PROVE  /\ TokensStored(log', turn) = TokensStored(log, turn)
           /\ CallsStored(log', turn) = CallsStored(log, turn)
           /\ \A i \in DOMAIN log' : IsCall(log'[i], turn) =>
                i \in DOMAIN log /\ IsCall(log[i], turn) /\ SubSeq(log', 1, i) = SubSeq(log, 1, i)
<1>1. CASE log' = log
  BY <1>1
<1>2. ASSUME NEW new \in Seq(Row), log' = log \o new,
             \A k \in 1..Len(new) : new[k].stream = turn => new[k].event.type \notin ReportTypes
      PROVE  /\ TokensStored(log', turn) = TokensStored(log, turn)
             /\ CallsStored(log', turn) = CallsStored(log, turn)
             /\ \A i \in DOMAIN log' : IsCall(log'[i], turn) =>
                  /\ i \in DOMAIN log /\ IsCall(log[i], turn)
                  /\ SubSeq(log', 1, i) = SubSeq(log, 1, i)
  <2>1. \A k \in 1..Len(new) : DeltaTokens(new[k], turn) = 0 /\ ~IsCall(new[k], turn)
    BY <1>2 DEF DeltaTokens, IsCall, ReportTypes
  <2>2. TokensStored(log', turn) = TokensStored(log, turn)
    <3>1. TokensStored(new, turn) = 0
      BY <2>1, NoTokensStored
    <3>2. TokensStored(log, turn) \in Nat
      BY TokensStoredIsNat
    <3> QED BY <1>2, <3>1, <3>2, TokensStoredConcat
  <2>3. CallsStored(log', turn) = CallsStored(log, turn)
    BY <1>2, <2>1, NoCallsConcat
  <2>4. ASSUME NEW i \in DOMAIN log', IsCall(log'[i], turn)
        PROVE  /\ i \in DOMAIN log /\ IsCall(log[i], turn)
               /\ SubSeq(log', 1, i) = SubSeq(log, 1, i)
    <3>1. \A a \in Seq(Row), b \in Seq(Row) : \A j \in DOMAIN (a \o b) :
            \/ j \in DOMAIN a /\ (a \o b)[j] = a[j]
            \/ j - Len(a) \in 1..Len(b) /\ (a \o b)[j] = b[j - Len(a)]
      OBVIOUS
    <3>2. i \in DOMAIN log /\ log'[i] = log[i]
      BY <1>2, <2>1, <2>4, <3>1
    <3>3. \A a \in Seq(Row), b \in Seq(Row) : \A j \in DOMAIN a :
            SubSeq(a \o b, 1, j) = SubSeq(a, 1, j)
      OBVIOUS
    <3> QED BY <1>2, <2>4, <3>2, <3>3
  <2> QED BY <2>2, <2>3, <2>4
<1> QED BY <1>1, <1>2 DEF NothingReported

(* The ways a step can change what becomes of a consumer's stream: `log`   *)
(* gets nothing of it except in Stores.                                    *)
Keeps(c) ==
    /\ inbox'[c] = inbox[c] /\ buf'[c] = buf[c] /\ dropped'[c] = dropped[c]

Idles(c) ==
    /\ NothingReported(TurnOf[c])
    /\ Keeps(c) /\ TokensHeld(c)' = TokensHeld(c) /\ CallsHeld(c)' = CallsHeld(c)
    /\ pc[c] = "stopped" => pc'[c] = "stopped"

HoldsNothing(c) == pc[c] # "stopped" /\ TokensHeld(c) = 0 /\ CallsHeld(c) = 0

Takes(c) ==
    /\ log' = log /\ HoldsNothing(c) /\ dropped'[c] = dropped[c]
    /\ inbox[c] # <<>> /\ inbox'[c] = Tail(inbox[c])
    /\ \/ /\ Head(inbox[c]) = "Token"
          /\ TokensHeld(c)' + buf'[c] = buf[c] + 1
          /\ TokensHeld(c)' \in Nat /\ buf'[c] \in Nat
          /\ CallsHeld(c)' = 0
       \/ /\ Head(inbox[c]) # "Token"
          /\ buf[c] = 0 /\ buf'[c] = 0 /\ TokensHeld(c)' = 0
          /\ CallsHeld(c)' = (IF Head(inbox[c]) = "ToolCall" THEN 1 ELSE 0)

Flushes(c) ==
    /\ log' = log /\ HoldsNothing(c) /\ dropped'[c] = dropped[c] /\ inbox'[c] = inbox[c]
    /\ TokensHeld(c)' = buf[c] /\ buf'[c] = 0 /\ CallsHeld(c)' = 0

CutsShort(c) ==
    /\ log' = log /\ HoldsNothing(c) /\ HoldsNothing(c)' /\ buf'[c] = buf[c]
    /\ inbox'[c] = <<>> /\ dropped'[c] = dropped[c] + TokensIn(inbox[c])

Stores(c) ==
    /\ \E new \in Seq(Row) :
         /\ log' = log \o new /\ Len(new) = 1
         /\ TokensStored(new, TurnOf[c]) = TokensHeld(c)
         /\ IsCall(new[1], TurnOf[c]) <=> CallsHeld(c) = 1
    /\ Keeps(c) /\ HoldsNothing(c)' /\ pc[c] # "stopped"
    /\ CallsHeld(c) = 1 => TokensHeld(c) = 0

DropsBatch(c) ==
    /\ log' = log /\ pc[c] # "stopped" /\ CallsHeld(c) = 0 /\ HoldsNothing(c)'
    /\ inbox'[c] = inbox[c] /\ buf'[c] = buf[c] /\ dropped'[c] = dropped[c] + TokensHeld(c)

Stops(c) ==
    /\ log' = log /\ Keeps(c) /\ pc'[c] = "stopped"
    /\ TokensHeld(c)' = 0 /\ (restarts' = restarts + 1 \/ TokensHeld(c) = 0)

LEMMA StreamCases ==
    ASSUME OneConsumerPerTurn, TypeInv, SourceInv, WorkersDecide, [Next]_vars, NEW c \in Consumers
    PROVE  \/ Idles(c) \/ Takes(c) \/ Flushes(c) \/ CutsShort(c) \/ Stores(c)
           \/ DropsBatch(c) \/ Stops(c)
<1>0. /\ c \notin Workers /\ c \in Tasks
      /\ pc \in [Tasks -> WorkerPc \cup ConsumerPc] /\ evs \in [Tasks -> Seq(Event)]
      /\ inbox \in [Consumers -> Seq(ProviderEventTypes)]
      /\ buf \in [Consumers -> 0..(TOKEN_BATCH_MAX_COUNT - 1)]
      /\ dropped \in [Consumers -> Nat] /\ ver \in [Tasks -> Nat]
      /\ TurnOf[c] \in Turns /\ TOKEN_BATCH_MAX_COUNT \in Nat
      /\ buf[c] \in Nat /\ dropped[c] \in Nat
      /\ log \in Seq(Row)
  BY PipelineAssumption DEF Tasks, TypeInv, TasksTypeOK
<1> USE DEF durable, consumerVars, bounds
<1>1. pc[c] = "stream" => HoldsNothing(c)
  BY DEF HoldsNothing, TokensHeld, CallsHeld, Underway
<1>2. CASE Bystands(c)
  <2>1. NothingReported(TurnOf[c])
    <3>1. ASSUME NEW t \in Tasks, CommitAppend(t) PROVE NothingReported(TurnOf[c])
      <4>1. t # c
        BY <1>0, <1>2, <3>1 DEF CommitAppend, Bystands
      <4> QED BY <3>1, <4>1, OthersReportNothing
    <3> QED BY <3>1, LogChanges DEF NothingReported
  <2> QED BY <1>2, <2>1 DEF Bystands, Idles, Keeps, TokensHeld, CallsHeld
<1>3. CASE ReadVersion(c) \/ BeginAppend(c)
  <2>1. /\ log' = log /\ Keeps(c) /\ evs'[c] = evs[c]
        /\ pc[c] \in Underway /\ pc'[c] \in Underway
    BY <1>0, <1>3 DEF ReadVersion, BeginAppend, Underway, Keeps
  <2> QED BY <2>1 DEF Idles, NothingReported, TokensHeld, CallsHeld, Underway
<1>4. CASE ProjectEvents(c) \/ Publish(c)
  <2>1. log' = log /\ Keeps(c) /\ pc[c] \in {"project", "publish"}
    BY <1>4 DEF ProjectEvents, Publish, Keeps
  <2>2. pc'[c] \in {"publish", "stream"}
    BY <1>0, <1>4 DEF ProjectEvents, Publish
  <2> QED BY <2>1, <2>2 DEF Idles, NothingReported, TokensHeld, CallsHeld, Underway
<1>5. CASE CommitAppend(c)
  <2> DEFINE new == RowsAt(c, ver[c])
             turn == TurnOf[c]
  <2>1. /\ new \in Seq(Row) /\ log' = log \o new /\ evs[c] # <<>> /\ ver[c] \in Nat
        /\ pc[c] = "commit" /\ pc'[c] = "project" /\ Keeps(c)
    BY <1>0, <1>5, CommitAdds DEF CommitAppend, Keeps
  <2>2. PICK e \in Reported(c) : evs[c] = <<e>>
    BY <2>1 DEF SourceInv, OneReport
  <2>3. new = [k \in 1..Len(<<e>>) |->
                 [stream |-> turn, sequence |-> ver[c] + k, event |-> <<e>>[k]]]
    BY <1>0, <2>2 DEF RowsAt, StreamOf
  <2> HIDE DEF new, turn
  <2>4. turn \in Turns /\ e \in Event /\ ver[c] \in Nat
    BY <1>0, <2>1, ReportedTypes DEF turn
  <2>5. /\ Len(new) = 1
        /\ TokensStored(new, turn) = EventTokens(<<e>>)
        /\ IsCall(new[1], turn) <=> EventCalls(<<e>>) = 1
    BY ONLY <2>3, <2>4, ReportRows
  <2>6. TokensHeld(c) = EventTokens(<<e>>) /\ CallsHeld(c) = EventCalls(<<e>>)
    BY <2>1, <2>2 DEF TokensHeld, CallsHeld, Underway
  <2>7. HoldsNothing(c)'
    BY <2>1 DEF HoldsNothing, TokensHeld, CallsHeld, Underway
  <2>8. CallsHeld(c) = 1 => TokensHeld(c) = 0
    BY <2>6 DEF EventCalls, EventTokens
  <2> QED BY <2>1, <2>5, <2>6, <2>7, <2>8 DEF Stores, turn
<1>6. CASE TakeToken(c)
  <2>1. /\ log' = log /\ pc[c] = "stream" /\ dropped'[c] = dropped[c] /\ inbox[c] # <<>>
        /\ Head(inbox[c]) = "Token" /\ inbox'[c] = Tail(inbox[c])
    BY <1>0, <1>6 DEF TakeToken
  <2>2. CASE buf' = [buf EXCEPT ![c] = buf[c] + 1] /\ UNCHANGED <<evs, pc>>
    <3>1. TokensHeld(c)' = 0 /\ CallsHeld(c)' = 0 /\ buf'[c] = buf[c] + 1
      BY <1>0, <2>1, <2>2 DEF TokensHeld, CallsHeld, Underway
    <3> QED BY <1>0, <1>1, <2>1, <3>1 DEF Takes
  <2>3. CASE buf' = [buf EXCEPT ![c] = 0] /\ Submit(c, Ingest("Token", TurnOf[c], buf[c] + 1))
    <3>1. /\ evs'[c] = <<MessageDeltaAppended(TurnOf[c], buf[c] + 1)>> /\ buf'[c] = 0
          /\ pc'[c] = "version"
      BY <1>0, <2>3 DEF Submit, Ingest
    <3>2. TokensHeld(c)' = buf[c] + 1 /\ CallsHeld(c)' = 0
      BY <3>1 DEF TokensHeld, CallsHeld, Underway, EventTokens, EventCalls,
                  MessageDeltaAppended, EventRecord
    <3> QED BY <1>0, <1>1, <2>1, <3>1, <3>2 DEF Takes
  <2> QED BY <1>6, <2>2, <2>3 DEF TakeToken
<1>7. CASE FlushTokens(c)
  <2>1. /\ log' = log /\ pc[c] = "stream" /\ dropped'[c] = dropped[c] /\ inbox'[c] = inbox[c]
        /\ evs'[c] = <<MessageDeltaAppended(TurnOf[c], buf[c])>> /\ buf'[c] = 0
        /\ pc'[c] = "version"
    BY <1>0, <1>7 DEF FlushTokens, Submit, Ingest
  <2>2. TokensHeld(c)' = buf[c] /\ CallsHeld(c)' = 0
    BY <2>1 DEF TokensHeld, CallsHeld, Underway, EventTokens, EventCalls,
                MessageDeltaAppended, EventRecord
  <2> QED BY <1>1, <2>1, <2>2 DEF Flushes
<1>8. CASE TakeEvent(c)
  <2> DEFINE type == Head(inbox[c])
             events == Ingest(type, TurnOf[c], 0)
  <2>1. /\ log' = log /\ pc[c] = "stream" /\ dropped'[c] = dropped[c] /\ inbox[c] # <<>>
        /\ type # "Token" /\ inbox'[c] = Tail(inbox[c])
        /\ buf[c] = 0 /\ buf'[c] = 0
        /\ evs'[c] = events
        /\ pc'[c] = IF events = <<>> THEN "stream" ELSE "version"
    BY <1>0, <1>8 DEF TakeEvent, Submit
  <2>2. type \in ProviderEventTypes
    BY <1>0, <2>1
  <2> HIDE DEF type
  <2>3. EventTokens(events) = 0 /\ EventCalls(events) = (IF type = "ToolCall" THEN 1 ELSE 0)
    BY <2>1, <2>2 DEF Ingest, ProviderEventTypes, EventTokens, EventCalls, ActivityLogged,
                      EventRecord
  <2>4. EventTokens(<<>>) = 0 /\ EventCalls(<<>>) = 0
    BY DEF EventTokens, EventCalls
  <2> HIDE DEF events
  <2>5. TokensHeld(c)' = 0 /\ CallsHeld(c)' = EventCalls(events)
    BY <2>1, <2>3, <2>4 DEF TokensHeld, CallsHeld, Underway
  <2> QED BY <1>1, <2>1, <2>3, <2>5 DEF Takes, type
<1>9. CASE StreamEnds(c)
  <2>1. /\ log' = log /\ pc[c] = "stream" /\ pc'[c] = "stream" /\ buf'[c] = buf[c]
        /\ inbox'[c] = <<>> /\ dropped'[c] = dropped[c] + TokensIn(inbox[c])
    BY <1>0, <1>9 DEF StreamEnds
  <2>2. HoldsNothing(c)'
    BY <2>1 DEF HoldsNothing, TokensHeld, CallsHeld, Underway
  <2> QED BY <1>1, <2>1, <2>2 DEF CutsShort
<1>10. CASE ConsumerAppendFails(c)
  <2>1. /\ log' = log /\ pc[c] \in {"begin", "commit"} /\ evs'[c] = <<>>
        /\ inbox'[c] = inbox[c] /\ buf'[c] = buf[c]
    BY <1>0, <1>10 DEF ConsumerAppendFails
  <2>2. evs[c] # <<>>
    BY <1>0, <2>1 DEF TypeInv, Appending
  <2>3. CASE evs[c][1].type = "MessageDeltaAppended"
    <3>1. pc'[c] = "stream" /\ dropped'[c] = dropped[c] + evs[c][1].n
      BY <1>0, <1>10, <2>3 DEF ConsumerAppendFails
    <3>2. TokensHeld(c) = evs[c][1].n /\ CallsHeld(c) = 0
      BY <2>1, <2>2, <2>3 DEF TokensHeld, CallsHeld, Underway, EventTokens, EventCalls
    <3>3. HoldsNothing(c)'
      BY <3>1 DEF HoldsNothing, TokensHeld, CallsHeld, Underway
    <3> QED BY <2>1, <3>1, <3>2, <3>3 DEF DropsBatch
  <2>4. CASE evs[c][1].type # "MessageDeltaAppended"
    <3>1. pc'[c] = "stopped" /\ dropped'[c] = dropped[c]
      BY <1>0, <1>10, <2>4 DEF ConsumerAppendFails
    <3>2. TokensHeld(c) = 0 /\ TokensHeld(c)' = 0
      BY <2>1, <2>2, <2>4, <3>1 DEF TokensHeld, Underway, EventTokens
    <3> QED BY <2>1, <3>1, <3>2 DEF Stops, Keeps
  <2> QED BY <2>3, <2>4
<1>11. CASE Restart
  <2>1. /\ log' = log /\ Keeps(c) /\ pc'[c] = "stopped" /\ restarts' = restarts + 1
    BY <1>0, <1>11 DEF Restart, Keeps
  <2>2. TokensHeld(c)' = 0
    BY <2>1 DEF TokensHeld, Underway
  <2> QED BY <2>1, <2>2 DEF Stops
<1> QED BY <1>2, <1>3, <1>4, <1>5, <1>6, <1>7, <1>8, <1>9, <1>10, <1>11, ConsumerCases

-----------------------------------------------------------------------------
(* Tokens *)

LEMMA RestartsOnly ==
    ASSUME [Next]_vars
    PROVE  restarts' = restarts \/ (Restart /\ restarts' = restarts + 1)
<1> USE DEF bounds
<1>1. \A w \in Workers : ReceiveCommand(w) \/ DecideCommand(w) \/ AppendConflict(w)
                           \/ AppendBusy(w) \/ SaveSnapshot(w) => restarts' = restarts
  BY DEF ReceiveCommand, DecideCommand, AppendConflict, AppendBusy, SaveSnapshot
<1>2. \A t \in Tasks : ReadVersion(t) \/ BeginAppend(t) \/ CommitAppend(t)
                         \/ ProjectEvents(t) \/ Publish(t) => restarts' = restarts
  BY DEF ReadVersion, BeginAppend, CommitAppend, ProjectEvents, Publish
<1>3. \A c \in Consumers : TakeToken(c) \/ FlushTokens(c) \/ TakeEvent(c)
                             \/ StreamEnds(c) \/ ConsumerAppendFails(c) => restarts' = restarts
  BY DEF TakeToken, FlushTokens, TakeEvent, StreamEnds, ConsumerAppendFails
<1>4. RepairStep \/ UNCHANGED vars => restarts' = restarts
  BY DEF RepairStep, RepairBegin, RepairClear, RepairLoadSnapshots, RepairReadRows,
         RepairReplay, RepairFails, RepairRestore, vars
<1>5. Restart => restarts' = restarts + 1
  BY DEF Restart
<1> QED BY <1>1, <1>2, <1>3, <1>4, <1>5, NextCases

Found(c) ==
    TokensStored(log, TurnOf[c]) + TokensHeld(c) + buf[c] + TokensIn(inbox[c]) + dropped[c]

Accounted(c) ==
    /\ Found(c) <= TokensIn(Script[c])
    /\ restarts = 0 => Found(c) = TokensIn(Script[c])

AccountInv == restarts \in Nat /\ \A c \in Consumers : Accounted(c)

LEMMA HeldIsNat ==
    ASSUME SourceInv, NEW c \in Consumers
    PROVE  TokensHeld(c) \in Nat /\ CallsHeld(c) \in {0, 1}
<1>1. evs[c] = <<>> => TokensHeld(c) \in Nat /\ CallsHeld(c) \in {0, 1}
  BY DEF TokensHeld, CallsHeld, EventTokens, EventCalls
<1>2. ASSUME NEW e \in Reported(c), evs[c] = <<e>>
      PROVE  TokensHeld(c) \in Nat /\ CallsHeld(c) \in {0, 1}
  BY <1>2, ReportedTypes DEF TokensHeld, CallsHeld
<1> QED BY <1>1, <1>2 DEF SourceInv, OneReport

LEMMA TokensInCounts ==
    ASSUME NEW S, NEW s \in Seq(S)
    PROVE  TokensIn(s) = CountIn(s, "Token") /\ TokensIn(s) \in Nat
BY CountIsNat DEF TokensIn, CountIn

LEMMA EmptyCounts == TokensIn(<<>>) = 0
<1>1. {i \in DOMAIN <<>> : <<>>[i] = "Token"} = {}
  OBVIOUS
<1> QED BY <1>1, FS_EmptySet DEF TokensIn

LEMMA NothingStoredYet ==
    ASSUME NothingReportedYet, NEW c \in Consumers
    PROVE  /\ TokensStored(Existing, TurnOf[c]) = 0
           /\ \A i \in DOMAIN Existing : ~IsCall(Existing[i], TurnOf[c])
<1>1. Existing \in Seq(Row)
  BY PipelineAssumption
<1>2. \A k \in 1..Len(Existing) : DeltaTokens(Existing[k], TurnOf[c]) = 0
  BY <1>1 DEF NothingReportedYet, DeltaTokens, ReportTypes
<1>3. TokensStored(Existing, TurnOf[c]) = 0
  BY <1>1, <1>2, NoTokensStored
<1> QED BY <1>3 DEF NothingReportedYet, IsCall, ReportTypes

LEMMA AccountInit ==
    ASSUME NothingReportedYet, Init
    PROVE  AccountInv
<1>1. restarts = 0 /\ log = Existing /\ inbox = Script
  BY DEF Init
<1>2. ASSUME NEW c \in Consumers PROVE Found(c) = TokensIn(Script[c])
  <2>1. TokensHeld(c) = 0 /\ buf[c] = 0 /\ dropped[c] = 0
    BY PipelineAssumption DEF Init, Tasks, TokensHeld, Underway
  <2>2. TokensIn(Script[c]) \in Nat
    BY PipelineAssumption, TokensInCounts
  <2> QED BY <1>1, <2>1, <2>2, NothingStoredYet DEF Found
<1>3. \A c \in Consumers : TokensIn(Script[c]) \in Nat
  BY PipelineAssumption, TokensInCounts
<1> QED BY <1>1, <1>2, <1>3 DEF AccountInv, Accounted

LEMMA AccountStep ==
    ASSUME OneConsumerPerTurn, TypeInv, SourceInv, WorkersDecide, AccountInv, [Next]_vars
    PROVE  AccountInv'
<1>1. restarts \in Nat /\ restarts' \in Nat /\ (restarts' = 0 => restarts = 0)
  BY RestartsOnly DEF AccountInv
<1> SUFFICES ASSUME NEW c \in Consumers
             PROVE  /\ Found(c)' <= TokensIn(Script[c])
                    /\ restarts' = 0 => Found(c)' = TokensIn(Script[c])
  BY <1>1 DEF AccountInv, Accounted
<1> DEFINE turn == TurnOf[c]
           S == TokensStored(log, turn)
           H == TokensHeld(c)
           B == buf[c]
           I == TokensIn(inbox[c])
           D == dropped[c]
           all == TokensIn(Script[c])
<1>2. log \in Seq(Row) /\ inbox[c] \in Seq(ProviderEventTypes)
  BY DEF TypeInv, TasksTypeOK
<1>3. S \in Nat /\ H \in Nat /\ B \in Nat /\ I \in Nat /\ D \in Nat /\ all \in Nat
  <2>1. S \in Nat /\ H \in Nat
    BY <1>2, TokensStoredIsNat, HeldIsNat
  <2>2. I \in Nat /\ all \in Nat
    BY <1>2, PipelineAssumption, TokensInCounts
  <2>3. B \in Nat /\ D \in Nat
    BY PipelineAssumption DEF TypeInv, TasksTypeOK
  <2> QED BY <2>1, <2>2, <2>3
<1>4. S + H + B + I + D <= all /\ (restarts = 0 => S + H + B + I + D = all)
  <2>1. Found(c) = S + H + B + I + D
    BY DEF Found
  <2>2. Found(c) <= all /\ (restarts = 0 => Found(c) = all)
    BY DEF AccountInv, Accounted
  <2> QED BY <2>1, <2>2
<1>5. Found(c)' = TokensStored(log', turn) + TokensHeld(c)' + buf'[c] + TokensIn(inbox'[c])
                    + dropped'[c]
  BY DEF Found
<1> SUFFICES \/ Found(c)' = S + H + B + I + D
             \/ Found(c)' = S + B + I + D /\ (restarts' = restarts + 1 \/ H = 0)
  BY <1>1, <1>3, <1>4
<1>6. CASE Idles(c)
  <2>1. TokensStored(log', turn) = S
    BY <1>2, <1>6, NothingReportedSpares DEF Idles
  <2> QED BY <1>5, <1>6, <2>1 DEF Idles, Keeps
<1>7. CASE Takes(c)
  <2>1. /\ TokensStored(log', turn) = S /\ dropped'[c] = D /\ H = 0
        /\ TokensIn(inbox'[c]) = TokensIn(Tail(inbox[c])) /\ inbox[c] # <<>>
    BY <1>7 DEF Takes, HoldsNothing
  <2>2. I = TokensIn(inbox'[c]) + (IF Head(inbox[c]) = "Token" THEN 1 ELSE 0)
    <3>1. CountIn(inbox[c], "Token") = CountIn(Tail(inbox[c]), "Token")
                                         + (IF Head(inbox[c]) = "Token" THEN 1 ELSE 0)
      BY <1>2, <2>1, CountTail
    <3> QED BY <2>1, <3>1 DEF TokensIn, CountIn
  <2>3. TokensIn(inbox'[c]) \in Nat
    <3>1. Tail(inbox[c]) \in Seq(ProviderEventTypes)
      BY <1>2, <2>1
    <3> QED BY <2>1, <3>1, TokensInCounts
  <2>4. CASE Head(inbox[c]) = "Token"
    <3>1. TokensHeld(c)' + buf'[c] = B + 1
      BY <1>7, <2>4 DEF Takes
    <3>2. Found(c)' = S + (B + 1) + TokensIn(inbox'[c]) + D
      <4>1. TokensHeld(c)' \in Nat /\ buf'[c] \in Nat
        BY <1>7, <2>4 DEF Takes
      <4> QED BY <1>3, <1>5, <2>1, <2>3, <3>1, <4>1
    <3> QED BY <1>3, <2>1, <2>2, <2>3, <2>4, <3>2
  <2>5. CASE Head(inbox[c]) # "Token"
    <3>1. TokensHeld(c)' = 0 /\ buf'[c] = 0 /\ B = 0
      BY <1>7, <2>5 DEF Takes
    <3> QED BY <1>3, <1>5, <2>1, <2>2, <2>3, <2>5, <3>1
  <2> QED BY <2>4, <2>5
<1>8. CASE Flushes(c)
  <2>1. TokensStored(log', turn) = S
    BY <1>8 DEF Flushes
  <2> QED BY <1>3, <1>5, <1>8, <2>1 DEF Flushes, HoldsNothing
<1>9. CASE CutsShort(c)
  <2>1. TokensStored(log', turn) = S /\ TokensIn(inbox'[c]) = 0
    BY <1>9, EmptyCounts DEF CutsShort
  <2> QED BY <1>3, <1>5, <1>9, <2>1 DEF CutsShort, HoldsNothing
<1>10. CASE Stores(c)
  <2>1. PICK new \in Seq(Row) : log' = log \o new /\ TokensStored(new, turn) = H
    BY <1>10 DEF Stores
  <2>2. TokensStored(log', turn) = S + H
    BY <1>2, <2>1, TokensStoredConcat
  <2> QED BY <1>3, <1>5, <1>10, <2>2 DEF Stores, Keeps, HoldsNothing
<1>11. CASE DropsBatch(c)
  <2>1. TokensStored(log', turn) = S
    BY <1>11 DEF DropsBatch
  <2> QED BY <1>3, <1>5, <1>11, <2>1 DEF DropsBatch, HoldsNothing
<1>12. CASE Stops(c)
  <2>1. TokensStored(log', turn) = S
    BY <1>12 DEF Stops
  <2> QED BY <1>3, <1>5, <1>12, <2>1 DEF Stops, Keeps
<1> QED BY <1>6, <1>7, <1>8, <1>9, <1>10, <1>11, <1>12, StreamCases

(* No token of a turn is stored twice; and until the process dies none     *)
(* vanishes, whatever commands, other providers and repairs interleave     *)
(* with the turn's, and whichever appends fail.                            *)
THEOREM TokensStayAccounted ==
    ASSUME OneConsumerPerTurn, NothingReportedYet
    PROVE  Spec => []TokensAccounted
<1>1. Init => AccountInv
  BY AccountInit
<1>2. TypeInv /\ SourceInv /\ WorkersDecide /\ AccountInv /\ [Next]_vars => AccountInv'
  BY AccountStep
<1>3. SourceInv /\ AccountInv => TokensAccounted
  <2> SUFFICES ASSUME SourceInv, AccountInv, NEW c \in Consumers
               PROVE  LET found == TokensStored(log, TurnOf[c]) + InFlight(c) + buf[c]
                                     + TokensIn(inbox[c]) + dropped[c]
                      IN  /\ found <= TokensIn(Script[c])
                          /\ restarts = 0 => found = TokensIn(Script[c])
    BY DEF TokensAccounted
  <2>1. Found(c) = TokensStored(log, TurnOf[c]) + InFlight(c) + buf[c]
                     + TokensIn(inbox[c]) + dropped[c]
    BY InFlightIsHeld DEF Found
  <2>2. Found(c) <= TokensIn(Script[c]) /\ (restarts = 0 => Found(c) = TokensIn(Script[c]))
    BY DEF AccountInv, Accounted
  <2> QED BY <2>1, <2>2
<1> QED BY <1>1, <1>2, <1>3, OnlyWorkersDecide, SourcesKnown, TypeAndStore, PTL DEF Spec

-----------------------------------------------------------------------------
(* Order.  A consumer that is not stopped stands at a position of what its *)
(* provider emits: what is behind it is stored, held, buffered or, if      *)
(* tokens, dropped; what is ahead waits in the inbox, unless it was cut    *)
(* short.  A tool call that is held is the last event behind the position. *)
Remains(c, p) ==
    \/ inbox[c] = <<>>
    \/ /\ Len(inbox[c]) = Len(Script[c]) - p
       /\ \A i \in 1..Len(inbox[c]) : inbox[c][i] = Script[c][p + i]

Passed(c) == TokensStored(log, TurnOf[c]) + TokensHeld(c) + buf[c]

At(c, p) ==
    /\ Remains(c, p)
    /\ Passed(c) <= CountUpTo(Script[c], "Token", p)
    /\ CountUpTo(Script[c], "Token", p) <= Passed(c) + dropped[c]
    /\ CallsStored(log, TurnOf[c]) + CallsHeld(c) = CountUpTo(Script[c], "ToolCall", p)
    /\ CallsHeld(c) = 1 => buf[c] = 0 /\ p # 0 /\ Script[c][p] = "ToolCall"

Follows(c) == pc[c] # "stopped" => \E p \in 0..Len(Script[c]) : At(c, p)

(* The call in row i is the p-th event emitted. *)
Placed(rows, i, c, p, lost) ==
    LET emitted == TokensIn(SubSeq(Script[c], 1, p))
        stored == TokensStored(SubSeq(rows, 1, i), TurnOf[c])
    IN  /\ Script[c][p] = "ToolCall"
        /\ ToolCallsIn(SubSeq(Script[c], 1, p)) = CallsStored(SubSeq(rows, 1, i), TurnOf[c])
        /\ stored <= emitted /\ emitted <= stored + lost

Ordered(c) ==
    \A i \in DOMAIN log : IsCall(log[i], TurnOf[c]) =>
      \E p \in DOMAIN Script[c] : Placed(log, i, c, p, dropped[c])

OrderInv == \A c \in Consumers : Follows(c) /\ Ordered(c)

LEMMA CountPrefix ==
    ASSUME NEW S, NEW s \in Seq(S), NEW p \in 1..Len(s)
    PROVE  /\ TokensIn(SubSeq(s, 1, p)) = CountUpTo(s, "Token", p)
           /\ ToolCallsIn(SubSeq(s, 1, p)) = CountUpTo(s, "ToolCall", p)
<1>1. DOMAIN SubSeq(s, 1, p) = 1..p /\ \A i \in 1..p : SubSeq(s, 1, p)[i] = s[i]
  OBVIOUS
<1>2. \A type : {i \in DOMAIN SubSeq(s, 1, p) : SubSeq(s, 1, p)[i] = type}
                  = {i \in 1..p : s[i] = type}
  BY <1>1
<1> QED BY <1>2 DEF TokensIn, ToolCallsIn, CountUpTo

LEMMA RemainsTail ==
    ASSUME NEW c \in Consumers, NEW p \in 0..Len(Script[c]),
           inbox[c] \in Seq(ProviderEventTypes), inbox[c] # <<>>, Remains(c, p),
           inbox'[c] = Tail(inbox[c])
    PROVE  /\ p + 1 \in 1..Len(Script[c])
           /\ Head(inbox[c]) = Script[c][p + 1]
           /\ Remains(c, p + 1)'
<1>1. Len(Script[c]) \in Nat
  BY PipelineAssumption
<1>2. /\ Len(inbox[c]) = Len(Script[c]) - p
      /\ \A i \in 1..Len(inbox[c]) : inbox[c][i] = Script[c][p + i]
  BY DEF Remains
<1>3. /\ Len(inbox[c]) \in Nat \ {0} /\ Head(inbox[c]) = inbox[c][1]
      /\ Len(Tail(inbox[c])) = Len(inbox[c]) - 1
      /\ \A i \in 1..(Len(inbox[c]) - 1) : Tail(inbox[c])[i] = inbox[c][i + 1]
  OBVIOUS
<1>4. p + 1 \in 1..Len(Script[c]) /\ Head(inbox[c]) = Script[c][p + 1]
  <2>1. p + 1 \in 1..Len(Script[c]) /\ 1 \in 1..Len(inbox[c])
    BY <1>1, <1>2, <1>3
  <2> QED BY <1>2, <1>3, <2>1
<1>5. Len(inbox'[c]) = Len(Script[c]) - (p + 1)
  BY <1>1, <1>2, <1>3
<1>6. ASSUME NEW i \in 1..Len(inbox'[c]) PROVE inbox'[c][i] = Script[c][(p + 1) + i]
  <2>1. i \in 1..(Len(inbox[c]) - 1) /\ i + 1 \in 1..Len(inbox[c]) /\ p + (i + 1) = (p + 1) + i
    BY <1>1, <1>3, <1>6
  <2> QED BY <1>2, <1>3, <2>1
<1> QED BY <1>4, <1>5, <1>6 DEF Remains

LEMMA PositionStep ==
    ASSUME TypeInv, SourceInv, NEW c \in Consumers, Follows(c),
           \/ Idles(c) \/ Takes(c) \/ Flushes(c) \/ CutsShort(c) \/ Stores(c)
           \/ DropsBatch(c) \/ Stops(c),
           pc'[c] # "stopped"
    PROVE  \E q \in 0..Len(Script[c]) : At(c, q)'
<1>1. pc[c] # "stopped" /\ ~Stops(c)
  BY DEF Idles, Takes, Flushes, CutsShort, Stores, DropsBatch, Stops, HoldsNothing
<1>2. PICK p \in 0..Len(Script[c]) : At(c, p)
  BY <1>1 DEF Follows
<1> DEFINE turn == TurnOf[c]
           S == TokensStored(log, turn)
           H == TokensHeld(c)
           B == buf[c]
           D == dropped[c]
           K == CallsStored(log, turn)
           T(q) == CountUpTo(Script[c], "Token", q)
           C(q) == CountUpTo(Script[c], "ToolCall", q)
<1>3. log \in Seq(Row) /\ inbox[c] \in Seq(ProviderEventTypes) /\ Script[c] \in Seq(ProviderEventTypes)
  BY PipelineAssumption DEF TypeInv, TasksTypeOK
<1>4. S \in Nat /\ H \in Nat /\ K \in Nat /\ CallsHeld(c) \in {0, 1}
  BY <1>3, TokensStoredIsNat, CallsIsNat, HeldIsNat
<1>5. B \in Nat /\ D \in Nat
  BY PipelineAssumption DEF TypeInv, TasksTypeOK
<1>6. T(p) \in Nat /\ C(p) \in Nat /\ p \in Nat
  <2>1. \A type : CountUpTo(Script[c], type, p) \in Nat
    BY <1>3, CountIsNat
  <2>2. p \in Nat
    BY <1>3
  <2> QED BY <2>1, <2>2
<1>7. /\ S + H + B <= T(p) /\ T(p) <= S + H + B + D
      /\ K + CallsHeld(c) = C(p)
      /\ CallsHeld(c) = 1 => B = 0 /\ p # 0 /\ Script[c][p] = "ToolCall"
  BY <1>2 DEF At, Passed
<1>8. ASSUME NEW q \in 0..Len(Script[c]), Remains(c, q)',
             TokensStored(log', turn) + TokensHeld(c)' + buf'[c] <= T(q),
             T(q) <= TokensStored(log', turn) + TokensHeld(c)' + buf'[c] + dropped'[c],
             CallsStored(log', turn) + CallsHeld(c)' = C(q),
             CallsHeld(c)' = 1 => buf'[c] = 0 /\ q # 0 /\ Script[c][q] = "ToolCall"
      PROVE  \E r \in 0..Len(Script[c]) : At(c, r)'
  BY <1>8 DEF At, Passed
<1>9. inbox'[c] = inbox[c] => Remains(c, p)'
  BY <1>2 DEF At, Remains
<1> HIDE DEF T, C
<1>10. CASE Idles(c)
  <2>1. TokensStored(log', turn) = S /\ CallsStored(log', turn) = K
    BY <1>3, <1>10, NothingReportedSpares DEF Idles
  <2>2. /\ Remains(c, p)' /\ TokensHeld(c)' = H /\ CallsHeld(c)' = CallsHeld(c)
        /\ buf'[c] = B /\ dropped'[c] = D
    BY <1>9, <1>10 DEF Idles, Keeps
  <2> QED BY <1>7, <1>8, <2>1, <2>2
<1>11. CASE Takes(c)
  <2>1. /\ log' = log /\ H = 0 /\ CallsHeld(c) = 0 /\ dropped'[c] = D
        /\ inbox[c] # <<>> /\ inbox'[c] = Tail(inbox[c])
    BY <1>11 DEF Takes, HoldsNothing
  <2>2. /\ p + 1 \in 1..Len(Script[c]) /\ Head(inbox[c]) = Script[c][p + 1]
        /\ Remains(c, p + 1)'
    BY <1>2, <1>3, <2>1, RemainsTail DEF At
  <2>3. /\ T(p + 1) = T(p) + (IF Script[c][p + 1] = "Token" THEN 1 ELSE 0)
        /\ C(p + 1) = C(p) + (IF Script[c][p + 1] = "ToolCall" THEN 1 ELSE 0)
    BY <1>6, CountNext DEF T, C
  <2>4. p + 1 \in 0..Len(Script[c]) /\ p + 1 # 0
    BY <1>6, <2>2
  <2>5. TokensStored(log', turn) = S /\ CallsStored(log', turn) = K
    BY <2>1
  <2>6. CASE Head(inbox[c]) = "Token"
    <3>1. /\ TokensHeld(c)' + buf'[c] = B + 1 /\ CallsHeld(c)' = 0
          /\ TokensHeld(c)' \in Nat /\ buf'[c] \in Nat
      BY <1>11, <2>6 DEF Takes
    <3>2. T(p + 1) = T(p) + 1 /\ C(p + 1) = C(p)
      BY <1>6, <2>2, <2>3, <2>6
    <3>3. S + TokensHeld(c)' + buf'[c] = S + B + 1
      BY <1>4, <1>5, <3>1
    <3>4. S + B <= T(p) /\ T(p) <= S + B + D /\ K = C(p)
      BY <1>4, <1>5, <1>6, <1>7, <2>1
    <3>5. S + TokensHeld(c)' + buf'[c] <= T(p + 1) /\ K + CallsHeld(c)' = C(p + 1)
      <4>1. S + B + 1 <= T(p) + 1
        BY <1>4, <1>5, <1>6, <3>4
      <4>2. K + 0 = C(p)
        BY <1>4, <3>4
      <4> QED BY <3>1, <3>2, <3>3, <4>1, <4>2
    <3>6. T(p + 1) <= S + TokensHeld(c)' + buf'[c] + D
      BY ONLY <1>4, <1>5, <1>6, <3>2, <3>3, <3>4
    <3> QED BY <1>8, <2>1, <2>2, <2>4, <2>5, <3>1, <3>5, <3>6
  <2>7. CASE Head(inbox[c]) # "Token"
    <3>1. /\ TokensHeld(c)' = 0 /\ buf'[c] = 0 /\ B = 0
          /\ CallsHeld(c)' = (IF Script[c][p + 1] = "ToolCall" THEN 1 ELSE 0)
      BY <1>11, <2>2, <2>7 DEF Takes
    <3>2. T(p + 1) = T(p)
      BY <1>6, <2>2, <2>3, <2>7
    <3>3. S <= T(p) /\ T(p) <= S + D /\ K = C(p)
      BY <1>4, <1>5, <1>6, <1>7, <2>1, <3>1
    <3>4. /\ S + TokensHeld(c)' + buf'[c] <= T(p + 1)
          /\ T(p + 1) <= S + TokensHeld(c)' + buf'[c] + D
          /\ K + CallsHeld(c)' = C(p + 1)
      BY <1>4, <1>5, <1>6, <2>3, <3>1, <3>2, <3>3
    <3>5. CallsHeld(c)' = 1 => Script[c][p + 1] = "ToolCall"
      BY <3>1
    <3> QED BY <1>8, <2>1, <2>2, <2>4, <2>5, <3>1, <3>4, <3>5
  <2> QED BY <2>6, <2>7
<1>12. CASE Flushes(c)
  <2>1. /\ log' = log /\ H = 0 /\ CallsHeld(c) = 0 /\ dropped'[c] = D /\ Remains(c, p)'
        /\ TokensHeld(c)' = B /\ buf'[c] = 0 /\ CallsHeld(c)' = 0
    BY <1>9, <1>12 DEF Flushes, HoldsNothing
  <2>2. /\ S + TokensHeld(c)' + buf'[c] <= T(p)
        /\ T(p) <= S + TokensHeld(c)' + buf'[c] + D
        /\ K + CallsHeld(c)' = C(p)
    BY <1>4, <1>5, <1>6, <1>7, <2>1
  <2> QED BY <1>8, <2>1, <2>2
<1>13. CASE CutsShort(c)
  <2> DEFINE I == TokensIn(inbox[c])
  <2>1. /\ log' = log /\ H = 0 /\ CallsHeld(c) = 0 /\ TokensHeld(c)' = 0 /\ CallsHeld(c)' = 0
        /\ buf'[c] = B /\ dropped'[c] = D + I /\ inbox'[c] = <<>>
    BY <1>13 DEF CutsShort, HoldsNothing
  <2>2. I \in Nat
    BY <1>3, TokensInCounts
  <2> HIDE DEF I
  <2>3. /\ S + TokensHeld(c)' + buf'[c] <= T(p)
        /\ T(p) <= S + TokensHeld(c)' + buf'[c] + dropped'[c]
        /\ K + CallsHeld(c)' = C(p)
    BY <1>4, <1>5, <1>6, <1>7, <2>1, <2>2
  <2>4. Remains(c, p)'
    BY <2>1 DEF Remains
  <2> QED BY <1>8, <2>1, <2>3, <2>4
<1>14. CASE Stores(c)
  <2>1. PICK new \in Seq(Row) : /\ log' = log \o new /\ Len(new) = 1
                                /\ TokensStored(new, turn) = H
                                /\ IsCall(new[1], turn) <=> CallsHeld(c) = 1
    BY <1>14 DEF Stores
  <2>2. TokensStored(log', turn) = S + H
    BY <1>3, <2>1, TokensStoredConcat
  <2>3. CallsStored(log', turn) = K + CallsHeld(c)
    <3>1. CallsStored(log', turn) = K + (IF IsCall(new[1], turn) THEN 1 ELSE 0)
      BY <1>3, <2>1, CallsConcat
    <3> QED BY <1>4, <2>1, <3>1
  <2>4. /\ TokensHeld(c)' = 0 /\ CallsHeld(c)' = 0 /\ Remains(c, p)'
        /\ buf'[c] = B /\ dropped'[c] = D
    BY <1>9, <1>14 DEF Stores, HoldsNothing, Keeps
  <2>5. /\ TokensStored(log', turn) + TokensHeld(c)' + buf'[c] <= T(p)
        /\ T(p) <= TokensStored(log', turn) + TokensHeld(c)' + buf'[c] + D
        /\ CallsStored(log', turn) + CallsHeld(c)' = C(p)
    BY <1>4, <1>5, <1>6, <1>7, <2>2, <2>3, <2>4
  <2> QED BY <1>8, <2>4, <2>5
<1>15. CASE DropsBatch(c)
  <2>1. /\ log' = log /\ CallsHeld(c) = 0 /\ TokensHeld(c)' = 0 /\ CallsHeld(c)' = 0
        /\ Remains(c, p)' /\ buf'[c] = B /\ dropped'[c] = D + H
    BY <1>9, <1>15 DEF DropsBatch, HoldsNothing
  <2>2. /\ S + TokensHeld(c)' + buf'[c] <= T(p)
        /\ T(p) <= S + TokensHeld(c)' + buf'[c] + dropped'[c]
        /\ K + CallsHeld(c)' = C(p)
    BY <1>4, <1>5, <1>6, <1>7, <2>1
  <2> QED BY <1>8, <2>1, <2>2
<1> QED BY <1>1, <1>10, <1>11, <1>12, <1>13, <1>14, <1>15

LEMMA FollowsInit ==
    ASSUME NothingReportedYet, Init, NEW c \in Consumers
    PROVE  Follows(c) /\ Ordered(c)
<1>1. /\ log = Existing /\ inbox[c] = Script[c] /\ buf[c] = 0 /\ dropped[c] = 0
      /\ TokensHeld(c) = 0 /\ CallsHeld(c) = 0
  BY PipelineAssumption DEF Init, Tasks, TokensHeld, CallsHeld, Underway
<1>2. Script[c] \in Seq(ProviderEventTypes) /\ Existing \in Seq(Row)
  BY PipelineAssumption
<1>3. \A type : CountUpTo(Script[c], type, 0) = 0
  <2>1. \A type : {i \in 1..0 : Script[c][i] = type} = {}
    OBVIOUS
  <2> QED BY <2>1, FS_EmptySet DEF CountUpTo
<1>4. CallsStored(Existing, TurnOf[c]) = 0
  <2>1. {i \in DOMAIN Existing : IsCall(Existing[i], TurnOf[c])} = {}
    BY NothingStoredYet
  <2> QED BY <2>1, FS_EmptySet DEF CallsStored
<1>5. Remains(c, 0)
  BY <1>1, <1>2 DEF Remains
<1>6. At(c, 0)
  BY <1>1, <1>3, <1>4, <1>5, NothingStoredYet DEF At, Passed
<1>7. 0 \in 0..Len(Script[c])
  BY <1>2
<1> QED BY <1>1, <1>6, <1>7, NothingStoredYet DEF Follows, Ordered

(* The tool call a consumer stores is the one it stands at. *)
LEMMA CallPlaced ==
    ASSUME TypeInv, SourceInv, NEW c \in Consumers, Follows(c), Stores(c), CallsHeld(c) = 1,
           NEW new \in Seq(Row), log' = log \o new, Len(new) = 1,
           TokensStored(new, TurnOf[c]) = TokensHeld(c), IsCall(new[1], TurnOf[c])
    PROVE  \E p \in DOMAIN Script[c] : Placed(log', Len(log'), c, p, dropped[c])
<1>1. PICK p \in 0..Len(Script[c]) : At(c, p)
  BY DEF Stores, Follows
<1>2. log \in Seq(Row) /\ Script[c] \in Seq(ProviderEventTypes)
  BY PipelineAssumption DEF TypeInv, TasksTypeOK
<1>3. p \in 1..Len(Script[c]) /\ p \in DOMAIN Script[c]
  <2>1. p # 0
    BY <1>1 DEF At
  <2> QED BY <1>2, <2>1
<1> DEFINE S == TokensStored(log, TurnOf[c])
           K == CallsStored(log, TurnOf[c])
           T == CountUpTo(Script[c], "Token", p)
           C == CountUpTo(Script[c], "ToolCall", p)
<1>4. S \in Nat /\ K \in Nat /\ T \in Nat /\ C \in Nat /\ dropped[c] \in Nat
  BY <1>1, <1>2, TokensStoredIsNat, CallsIsNat, CountIsNat DEF TypeInv, TasksTypeOK
<1>5. buf[c] = 0 /\ TokensHeld(c) = 0 /\ Script[c][p] = "ToolCall"
  BY <1>1 DEF At, Stores
<1>6. S <= T /\ T <= S + dropped[c] /\ K + 1 = C
  <2>1. /\ S + 0 + 0 <= T /\ T <= S + 0 + 0 + dropped[c] /\ K + 1 = C
    BY <1>1, <1>5 DEF At, Passed
  <2> QED BY <1>4, <2>1
<1>7. TokensStored(log', TurnOf[c]) = S /\ CallsStored(log', TurnOf[c]) = C
  <2>1. TokensStored(log', TurnOf[c]) = S + 0
    BY <1>2, <1>5, TokensStoredConcat
  <2>2. CallsStored(log', TurnOf[c]) = K + 1
    BY <1>2, CallsConcat
  <2> QED BY <1>4, <1>6, <2>1, <2>2
<1>8. SubSeq(log', 1, Len(log')) = log'
  <2>1. \A x \in Seq(Row) : SubSeq(x, 1, Len(x)) = x
    OBVIOUS
  <2>2. log' \in Seq(Row)
    BY <1>2
  <2> QED BY <2>1, <2>2
<1>9. /\ TokensIn(SubSeq(Script[c], 1, p)) = T
      /\ ToolCallsIn(SubSeq(Script[c], 1, p)) = C
  BY <1>2, <1>3, CountPrefix
<1> HIDE DEF S, K, T, C
<1>10. Placed(log', Len(log'), c, p, dropped[c])
  BY <1>5, <1>6, <1>7, <1>8, <1>9 DEF Placed
<1> QED BY <1>3, <1>10

(* What has been placed stays placed when more is dropped. *)
LEMMA PlacedStays ==
    ASSUME NEW rows \in Seq(Row), NEW i \in DOMAIN rows, NEW c \in Consumers,
           NEW p \in DOMAIN Script[c], NEW a \in Nat, NEW b \in Nat, a <= b,
           Placed(rows, i, c, p, a)
    PROVE  Placed(rows, i, c, p, b)
<1> DEFINE emitted == TokensIn(SubSeq(Script[c], 1, p))
           stored == TokensStored(SubSeq(rows, 1, i), TurnOf[c])
<1>1. SubSeq(rows, 1, i) \in Seq(Row) /\ SubSeq(Script[c], 1, p) \in Seq(ProviderEventTypes)
  <2>1. Script[c] \in Seq(ProviderEventTypes)
    BY PipelineAssumption
  <2> QED BY <2>1
<1>2. stored \in Nat /\ emitted \in Nat
  BY <1>1, TokensStoredIsNat, TokensInCounts
<1>3. emitted <= stored + a
  BY DEF Placed
<1> HIDE DEF emitted, stored
<1>4. emitted <= stored + b
  BY <1>2, <1>3
<1> QED BY <1>4 DEF Placed, emitted, stored

LEMMA OrderedStep ==
    ASSUME TypeInv, SourceInv, NEW c \in Consumers, Follows(c), Ordered(c),
           \/ Idles(c) \/ Takes(c) \/ Flushes(c) \/ CutsShort(c) \/ Stores(c)
           \/ DropsBatch(c) \/ Stops(c)
    PROVE  Ordered(c)'
<1> DEFINE turn == TurnOf[c]
           Old(i) == /\ i \in DOMAIN log /\ IsCall(log[i], turn)
                     /\ SubSeq(log', 1, i) = SubSeq(log, 1, i)
<1>1. log \in Seq(Row) /\ dropped[c] \in Nat
  BY DEF TypeInv, TasksTypeOK
<1>2. dropped'[c] \in Nat /\ dropped[c] <= dropped'[c]
  <2>1. TokensIn(inbox[c]) \in Nat
    BY TokensInCounts DEF TypeInv, TasksTypeOK
  <2>2. TokensHeld(c) \in Nat
    BY HeldIsNat
  <2>3. \/ dropped'[c] = dropped[c]
        \/ dropped'[c] = dropped[c] + TokensIn(inbox[c])
        \/ dropped'[c] = dropped[c] + TokensHeld(c)
    BY DEF Idles, Takes, Flushes, CutsShort, Stores, DropsBatch, Stops, Keeps
  <2> QED BY <1>1, <2>1, <2>2, <2>3
<1>3. ASSUME NEW i, Old(i)
      PROVE  \E p \in DOMAIN Script[c] : Placed(log', i, c, p, dropped'[c])
  <2>1. PICK p \in DOMAIN Script[c] : Placed(log, i, c, p, dropped[c])
    BY <1>3 DEF Ordered
  <2>2. Placed(log, i, c, p, dropped'[c])
    BY <1>1, <1>2, <1>3, <2>1, PlacedStays
  <2>3. Placed(log', i, c, p, dropped'[c])
    BY <1>3, <2>2 DEF Placed
  <2> QED BY <2>3
<1>4. ASSUME NEW i \in DOMAIN log', IsCall(log'[i], turn), ~Old(i)
      PROVE  \E p \in DOMAIN Script[c] : Placed(log', i, c, p, dropped'[c])
  <2>1. log' # log
    BY <1>4
  <2>2. CASE Idles(c)
    BY <1>1, <1>4, <2>2, NothingReportedSpares DEF Idles
  <2>3. CASE Stores(c)
    <3>1. PICK new \in Seq(Row) : /\ log' = log \o new /\ Len(new) = 1
                                  /\ TokensStored(new, turn) = TokensHeld(c)
                                  /\ IsCall(new[1], turn) <=> CallsHeld(c) = 1
      BY <2>3 DEF Stores
    <3>2. i = Len(log') /\ IsCall(new[1], turn)
      <4>1. \A a \in Seq(Row), b \in Seq(Row) : \A j \in DOMAIN (a \o b) :
              \/ j \in DOMAIN a /\ (a \o b)[j] = a[j]
              \/ j - Len(a) \in 1..Len(b) /\ (a \o b)[j] = b[j - Len(a)]
        OBVIOUS
      <4>2. \A a \in Seq(Row), b \in Seq(Row) : \A j \in DOMAIN a :
              SubSeq(a \o b, 1, j) = SubSeq(a, 1, j)
        OBVIOUS
      <4>3. \/ i \in DOMAIN log /\ log'[i] = log[i] /\ SubSeq(log', 1, i) = SubSeq(log, 1, i)
            \/ i = Len(log') /\ log'[i] = new[1]
        <5>1. i \in DOMAIN (log \o new) /\ Len(log') = Len(log) + 1 /\ Len(log) \in Nat
          <6>1. \A a \in Seq(Row), b \in Seq(Row) :
                  Len(a \o b) = Len(a) + Len(b) /\ Len(a) \in Nat
            OBVIOUS
          <6> QED BY <1>1, <1>4, <3>1, <6>1
        <5>2. \/ i \in DOMAIN log /\ log'[i] = log[i]
              \/ i - Len(log) \in 1..1 /\ log'[i] = new[i - Len(log)]
          BY <1>1, <3>1, <4>1, <5>1
        <5>3. i \in Int /\ (i - Len(log) \in 1..1 => i - Len(log) = 1 /\ i = Len(log'))
          <6>1. \A a \in Seq(Row), b \in Seq(Row) : \A j \in DOMAIN (a \o b) : j \in Int
            OBVIOUS
          <6>2. i \in Int
            BY <1>1, <3>1, <5>1, <6>1
          <6> QED BY ONLY <5>1, <6>2
        <5> QED BY <1>1, <3>1, <4>2, <5>2, <5>3
      <4> QED BY <1>4, <4>3
    <3>3. \E p \in DOMAIN Script[c] : Placed(log', Len(log'), c, p, dropped[c])
      BY <2>3, <3>1, <3>2, CallPlaced
    <3>4. dropped'[c] = dropped[c]
      BY <2>3 DEF Stores, Keeps
    <3> QED BY <3>2, <3>3, <3>4
  <2> QED BY <2>1, <2>2, <2>3 DEF Takes, Flushes, CutsShort, DropsBatch, Stops
<1>5. \A i \in DOMAIN log' : IsCall(log'[i], turn) =>
        \E p \in DOMAIN Script[c] : Placed(log', i, c, p, dropped'[c])
  <2> HIDE DEF Old
  <2> QED BY <1>3, <1>4
<1> QED BY <1>5 DEF Ordered

LEMMA OrderStep ==
    ASSUME OneConsumerPerTurn, TypeInv, SourceInv, WorkersDecide, OrderInv, [Next]_vars
    PROVE  OrderInv'
<1> SUFFICES ASSUME NEW c \in Consumers PROVE Follows(c)' /\ Ordered(c)'
  BY DEF OrderInv
<1>1. Follows(c) /\ Ordered(c)
  BY DEF OrderInv
<1>2. \/ Idles(c) \/ Takes(c) \/ Flushes(c) \/ CutsShort(c) \/ Stores(c)
      \/ DropsBatch(c) \/ Stops(c)
  BY StreamCases
<1>3. Follows(c)'
  <2>1. pc'[c] # "stopped" => \E p \in 0..Len(Script[c]) : At(c, p)'
    BY <1>1, <1>2, PositionStep
  <2> QED BY <2>1 DEF Follows
<1>4. Ordered(c)'
  BY <1>1, <1>2, OrderedStep
<1> QED BY <1>3, <1>4

(* The tool calls of a turn are stored in the order its provider emits     *)
(* them, and the tokens emitted before one are stored before it, those     *)
(* after it after it, but for those dropped: whatever else is appended to  *)
(* the log meanwhile, and whichever of the consumer's appends fail.        *)
THEOREM ProviderOrderKept ==
    ASSUME OneConsumerPerTurn, NothingReportedYet
    PROVE  Spec => []ProviderOrder
<1>1. Init => OrderInv
  BY FollowsInit DEF OrderInv
<1>2. TypeInv /\ SourceInv /\ WorkersDecide /\ OrderInv /\ [Next]_vars => OrderInv'
  BY OrderStep
<1>3. OrderInv => ProviderOrder
  BY DEF OrderInv, Ordered, Placed, ProviderOrder
<1> QED BY <1>1, <1>2, <1>3, OnlyWorkersDecide, SourcesKnown, TypeAndStore, PTL DEF Spec
=============================================================================
